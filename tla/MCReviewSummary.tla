-------------------------- MODULE MCReviewSummary --------------------------
(* Instances of ReviewSummary: one merge request reviewed for one task, and *)
(* one that carries the labels of two.                                      *)
EXTENDS ReviewSummary, TLC

CONSTANTS ca, t1, t2, m1, m2, k1, k2, k3, x, y, student, q1, q2

MCChecklist == k1 :> <<x, y>> @@ k2 :> <<x>> @@ k3 :> <<y>>
MCLabelled == k1 :> <<m1>> @@ k2 :> <<m2>> @@ k3 :> <<m2>>
MCFailing == m1 :> <<{x}, {}, {y}>> @@ m2 :> <<{x}>>
MCConfigs == {<<k1>>, <<k3, k2>>}

MCInquiries == {<<ca, t1, <<k3, k2>>>>, <<ca, t1, Deletion>>, <<ca, AdminToken, Deletion>>,
                <<ca, t1, Malformed>>, <<ca, t2, <<k1>>>>}

InitWith(config, sent, tokens, time, faults, pushes, quotes) ==
    /\ token = ca :> t1
    /\ store = ca :> [config |-> config, token |-> t1]
    /\ chances = [tokens |-> tokens, time |-> time, faults |-> faults,
                  pushes |-> pushes, quotes |-> quotes]
    /\ request = [q \in Requests |-> IF sent = "any" THEN Unsent ELSE Unused]

\* One summary, disturbed in every way, of a merge request that is mended or
\* broken meanwhile.
Disturbed ==
    /\ version \in {m1 :> v @@ m2 :> 1 : v \in {1, 2}}
    /\ InitWith(<<k1>>, "none", 0, 0, 2, 1, 1)

\* Three failures of one summary.
Wedged ==
    /\ version = m1 :> 1 @@ m2 :> 1
    /\ InitWith(<<k1>>, "none", 0, 0, 3, 0, 0)

\* Two tasks that write to one merge request.
Shared ==
    /\ version = m1 :> 1 @@ m2 :> 1
    /\ InitWith(<<k3, k2>>, "none", 0, 0, 2, 0, 1)

\* Uploads and deletions while the worker is at it.
Uploaded ==
    /\ version = m1 :> 1 @@ m2 :> 1
    /\ InitWith(<<k1>>, "any", 1, 2, 0, 0, 0)

MCInit == (Disturbed \/ Wedged \/ Shared \/ Uploaded) /\ Init
MCSpec == MCInit /\ [][Next]_vars /\ Fairness
=============================================================================
