--------------------------- MODULE MCAdministration ---------------------------
(***************************************************************************)
(* Enrolment, Courses and Namespaces with the instance admin root, the     *)
(* users a and b, one namespace that exists and one that does not, and     *)
(* three requests whose kinds come from a list of mixes.                   *)
(***************************************************************************)
EXTENDS Enrolment, TLC

CONSTANTS root, a, b, n1, n2, r1, r2, r3, s0, s1, c1, c2

Nothing == [c \in Names |-> None]
OneCourse == c1 :> s1 @@ c2 :> None

Mix(given, k1, k2, k3) ==
    [kinds |-> r1 :> k1 @@ r2 :> k2 @@ r3 :> k3, courses |-> given, staff |-> {root, a}]

MCWorkload == {Mix(Nothing, "create", "create", "add"), Mix(Nothing, "add", "remove", "update"),
               Mix(Nothing, "revoke", "revoke", "grant"), Mix(Nothing, "api", "api", "none"),
               Mix(Nothing, "api", "web", "none"), Mix(Nothing, "api", "update", "none"),
               Mix(OneCourse, "enrol", "enrol", "visit"), Mix(OneCourse, "api", "enrol", "visit"),
               Mix(OneCourse, "revoke", "dismiss", "visit"), Mix(OneCourse, "appoint", "dismiss", "enrol")}

OnlyCourses == {Mix(OneCourse, "api", "none", "none")}

(* The path s1 is in the namespace that exists, s0 in none. *)
MCSpaceOf == s0 :> None @@ s1 :> n1

MCOwners == {{}, {root, a}}

MCInitCreator == n1 :> root @@ n2 :> None
MCInitRole == n1 :> (root :> "namespace_admin" @@ a :> "program_manager" @@ b :> None)
           @@ n2 :> [u \in Users |-> None]

=============================================================================
