SPECIFICATION Spec
CONSTANTS
    None = None
    NoRow = NoRow
    Skip = Skip
    s1 = s1
    t1 = t1
    t2 = t2
    g1 = g1
    g2 = g2
    g3 = g3
    gb = gb
    r1 = r1
    r2 = r2
    r3 = r3
    Students = {s1}
    Tasks = {t1, t2}
    Groups = {g1, g2, g3, gb}
    Requests = {r1, r2, r3}
    Workload <- UploadAndReport
    Points <- MCPoints
    Overrides = {4}
    MaxGrade = 5
    Configs <- OldConfigs
    ConfigStatuses = {None}
    Statuses = {"in_progress", "doreshka", "finished"}
    MaxPoints <- MCMaxPoints
    MinScore <- MCMinScore
    Bonus = {t2}
    Large = {t1}
    BonusColumn = {}
    InitStatuses = {"doreshka"}
    InitFinals = {2}
    InitScores = {NoRow}
    InitConfig <- OldConfig
PROPERTY NoDowngrade
CHECK_DEADLOCK FALSE
