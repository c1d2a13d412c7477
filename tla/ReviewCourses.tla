--------------------------- MODULE ReviewCourses ---------------------------
(***************************************************************************)
(* The courses API of the mr-reviewer: uploads and deletions of courses,   *)
(* authorised by the course's token, which manytask confirms (GET /ping)   *)
(* and a cache in Redis remembers for TTL units of time, or by the bot's   *)
(* own admin token.                                                        *)
(*                                                                         *)
(* A request is answered in several awaited steps, so requests interleave, *)
(* time passes and tokens are replaced between any two of them, and a      *)
(* request may be dropped at each.                                         *)
(***************************************************************************)
EXTENDS Integers, FiniteSets, Functions

CONSTANTS
    Courses, Tokens,
    Configs,        \* the valid mr_review sections
    Malformed,      \* an upload that is refused as invalid
    Deletion,       \* stands for what a DELETE asks for
    AdminToken,     \* settings.admin_token
    Inquiries,      \* what arrives: <<course, token, what it asks for>>
    Requests, TTL, None

ASSUME InquiriesAssumption ==
    /\ Inquiries \subseteq
         Courses \X (Tokens \cup {AdminToken}) \X (Configs \cup {Malformed, Deletion})
    /\ TTL \in Nat \ {0}

VARIABLES
    token,      \* in manytask: the token of a course
    cached,     \* TokenAuthCache: how long a course and token are still valid
    store,      \* CourseStore: [config, token] of a course, or None
    request,    \* the requests: [step, course, token, asks, age]
    gone,       \* history: for how long manytask has denied a course and
                \* token, and no answer to the contrary was on its way
    chances     \* how many more replaced tokens and units of time (a bound)

api == <<token, cached, store, request, gone, chances>>

Pairs == Courses \X Tokens
Unsent == [step |-> "new", course |-> None, token |-> None, asks |-> None, age |-> 0]

\* A request that never comes.
Unused == [Unsent EXCEPT !.step = "done"]

InitCourses ==
    /\ token \in [Courses -> Tokens]
    /\ store \in [Courses -> {None} \cup [config : Configs, token : Tokens]]
    /\ request \in [Requests -> {Unsent, Unused}]
    /\ cached = [p \in Pairs |-> IF token[p[1]] = p[2] THEN TTL ELSE 0]
    /\ gone = [p \in Pairs |-> IF token[p[1]] = p[2] THEN 0 ELSE TTL]

Pair(q) == <<request[q].course, request[q].token>>

Goes(q, from, to) ==
    /\ request[q].step = from
    /\ request' = [request EXCEPT ![q].step = to]

Send(q) ==
    /\ request[q].step = "new"
    /\ \E i \in Inquiries :
         request' = [request EXCEPT ![q] =
            [step |-> "check", course |-> i[1], token |-> i[2], asks |-> i[3], age |-> 0]]
    /\ UNCHANGED <<token, cached, store, gone, chances>>

\* The admin token is good for deletions only.
IsAdmins(q) == request[q].token = AdminToken /\ request[q].asks = Deletion

Remembered(q) == Pair(q) \in Pairs /\ cached[Pair(q)] > 0

\* age: for how long the token has been out of use when it is let through.
LetThrough(q) ==
    /\ request[q].step = "check"
    /\ request' = [request EXCEPT ![q].step = "authorised",
                                  ![q].age = IF IsAdmins(q) THEN 0 ELSE gone[Pair(q)]]

(* A mutant of CheckCache: what is used is kept for another TTL. *)
CheckCacheAndKeep(q) ==
    /\ IF IsAdmins(q) \/ Remembered(q) THEN LetThrough(q) ELSE Goes(q, "check", "ping")
    /\ cached' = IF Remembered(q) THEN [cached EXCEPT ![Pair(q)] = TTL] ELSE cached
    /\ UNCHANGED <<token, store, gone, chances>>

CheckCache(q) ==
    /\ IF IsAdmins(q) \/ Remembered(q) THEN LetThrough(q) ELSE Goes(q, "check", "ping")
    /\ UNCHANGED <<token, cached, store, gone, chances>>

\* manytask confirms the token, denies it (403, 404), or is unavailable in
\* every attempt (502).  Only the first is remembered.
Ping(q) ==
    /\ \/ Goes(q, "ping", "confirmed") /\ token[request[q].course] = request[q].token
       \/ Goes(q, "ping", "refused")
    /\ UNCHANGED <<token, cached, store, gone, chances>>

Remember(q) ==
    /\ Goes(q, "confirmed", "authorised")
    /\ cached' = [cached EXCEPT ![Pair(q)] = TTL]
    /\ UNCHANGED <<token, store, gone, chances>>

Upload(q) ==
    LET r == request[q] IN
    /\ r.asks \in Configs
    /\ Goes(q, "authorised", "done")
    /\ store' = [store EXCEPT ![r.course] = [config |-> r.asks, token |-> r.token]]
    /\ UNCHANGED <<token, cached, gone, chances>>

Unprocessable(q) ==
    /\ request[q].asks = Malformed
    /\ Goes(q, "authorised", "refused")
    /\ UNCHANGED <<token, cached, store, gone, chances>>

Delete(q) ==
    /\ request[q].asks = Deletion
    /\ Goes(q, "authorised", "done")
    /\ store' = [store EXCEPT ![request[q].course] = None]
    /\ UNCHANGED <<token, cached, gone, chances>>

Drop(q) ==
    /\ \E step \in {"check", "ping", "confirmed", "authorised"} : Goes(q, step, "refused")
    /\ UNCHANGED <<token, cached, store, gone, chances>>

------------------------------------------------------------------------------
(* The administrators of manytask, and time.                                *)

Spare(what) == chances[what] > 0 /\ chances' = [chances EXCEPT ![what] = @ - 1]

Replace ==
    /\ Spare("tokens")
    /\ \E c \in Courses, t \in Tokens :
         /\ t # token[c]
         /\ token' = [token EXCEPT ![c] = t]
         /\ gone' = [gone EXCEPT ![<<c, t>>] = 0]
    /\ UNCHANGED <<cached, store, request>>

\* An answer that is on its way, or about to be remembered, keeps a pair alive.
Alive(p) ==
    token[p[1]] = p[2] \/ \E q \in Requests : request[q].step = "confirmed" /\ Pair(q) = p

Age ==
    /\ Spare("time")
    /\ cached' = [p \in Pairs |-> IF cached[p] > 0 THEN cached[p] - 1 ELSE 0]
    /\ gone' = [p \in Pairs |-> IF Alive(p) \/ gone[p] = TTL THEN gone[p] ELSE gone[p] + 1]
    /\ UNCHANGED <<token, store, request>>

Handle(q) ==
    \/ CheckCache(q) \/ Ping(q) \/ Remember(q)
    \/ Upload(q) \/ Unprocessable(q) \/ Delete(q)

CoursesNext ==
    \/ \E q \in Requests : Send(q) \/ Handle(q) \/ Drop(q)
    \/ Replace \/ Age

------------------------------------------------------------------------------
(* Properties.                                                              *)

\* A token that was replaced opens nothing for longer than TTL: a request is let
\* through to change a course less than TTL after manytask last confirmed its
\* token, to any request.  (auth.py:49 and auth_cache.py, whatever requests and
\* replacements overlap.)
TokensFade ==
    \A q \in Requests :
        request[q].step \in {"authorised", "done"} => request[q].age < TTL
=============================================================================
