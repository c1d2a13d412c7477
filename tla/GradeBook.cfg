SPECIFICATION Spec
CONSTANTS
    None = None
    NoRow = NoRow
    Skip = Skip
    s1 = s1
    t1 = t1
    t2 = t2
    g1 = g1
    g2 = g2
    g3 = g3
    gb = gb
    r1 = r1
    r2 = r2
    r3 = r3
    Students = {s1}
    Tasks = {t1, t2}
    Groups = {g1, g2, g3, gb}
    Requests = {r1, r2, r3}
    Workload <- MCWorkload
    Points <- MCPoints
    Overrides = {4}
    MaxGrade = 5
    Configs <- MCConfigs
    ConfigStatuses = {None, "doreshka"}
    Statuses = {"doreshka", "finished"}
    MaxPoints <- MCMaxPoints
    MinScore <- MCMinScore
    Bonus = {t2}
    Large = {t1}
    BonusColumn = {}
    InitStatuses = {"in_progress"}
    InitFinals = {None, 5}
    InitScores = {NoRow}
    InitConfig <- OldConfig
INVARIANTS TypeOK NoLostReport UploadApplied OpenTasksCount RecalculationInSync
PROPERTIES NoDowngradeWhenFrozen DoreshkaCap FinishedGradesStay ImplementsLedger
CHECK_DEADLOCK FALSE
