----------------------------- MODULE MCReviewBot ------------------------------
(* Small instances of ReviewBot for TLC.                                   *)
EXTENDS ReviewBot, TLC

CONSTANTS a, b, k1, k2, k3, m1, m2, s1, s2, teacher

MCUsers  == {s1, s2, teacher, Bot}
(* Course a has a task that is not reviewed, or cannot be listed, and one  *)
(* with a merge request that raises; course b sees a merge request of      *)
(* course a, or cannot list its task.                                      *)
MCCourseOf == k1 :> a @@ k2 :> a @@ k3 :> b
MCConfig   == a :> <<k2, k1>> @@ b :> <<k3>>
MCTrailing == a :> <<k1, k2>> @@ b :> <<k3>>
MCLabelled == k1 :> {m1, m2} @@ k2 :> {m2} @@ k3 :> {m2}
MCOwner    == m1 :> s1 @@ m2 :> s2
MCIid      == [m \in {m1, m2} |-> 1]

(* The author of m2, a student of course a, is an admin of course b. *)
MCAdmins == a :> {teacher, Bot} @@ b :> {teacher, s2}

(* The teacher scores m2, its author tries to, the teacher scores it again. *)
MCCommentMR     == [c \in 1..NumComments |-> m2]
MCCommentAuthor == [c \in 1..NumComments |-> IF c = 2 THEN s2 ELSE teacher]
MCCommentScore  == [c \in 1..NumComments |-> CASE c = 1 -> 5 [] c = 2 -> 9 [] c = 3 -> 8]

=============================================================================
