------------------------------ MODULE Namespaces ------------------------------
(***************************************************************************)
(* Namespaces: the roles of their users in the database, the members of    *)
(* their GitLab groups, and the instance admins.                           *)
(*                                                                         *)
(* Every action is one database transaction or one GitLab call of a        *)
(* handler.  No transaction covers both, a GitLab call may raise (whether  *)
(* it was applied or not), and a handler may die between two actions.      *)
(* All users are registered; only this program changes the groups; the     *)
(* rights of an actor are read in one action, where a request without them *)
(* ends and is not modelled.                                               *)
(***************************************************************************)
EXTENDS Naturals, FiniteSets

CONSTANTS
    Users, Spaces,
    Requests,       \* every request is sent once: the bound on concurrency
    Workload,       \* which kinds of requests are sent together, and in front of what
    Zero,           \* the instance admin whom every start of a process ensures
    InitAdmins, InitCreator, InitRole,
    None

VARIABLES
    admins,         \* User.is_instance_admin
    creator,        \* Namespace rows and their created_by, None without a row
    role,           \* UserOnNamespace.role, None without a row
    group,          \* the namespaces whose GitLab group exists
    member,         \* the Maintainers of each of these groups
    pc, req,        \* the step a request is at, and what it asks
    disturbed       \* what a fault or an overlap has hit: roles, revocations

data    == <<creator, role>>
gitlab  == <<group, member>>
handler == <<pc, req>>
nsVars  == <<admins, data, gitlab, disturbed>>

Roles == {"namespace_admin", "program_manager"}

Change == [kind : {"create", "add", "remove", "update"},
           space : Spaces, user : Users, role : Roles \cup {"student"}]
Panel  == [kind : {"grant", "revoke"}, user : Users]

ASSUME UsersAssumption ==
    /\ Zero \in InitAdmins /\ InitAdmins \subseteq Users /\ IsFiniteSet(Users)
    /\ InitCreator \in [Spaces -> Users \cup {None}] /\ None \notin Users
    /\ InitRole \in [Spaces -> [Users -> Roles \cup {None}]] /\ None \notin Roles
    /\ \A n \in Spaces, u \in Users : InitRole[n][u] # None => InitCreator[n] # None

ChangeSteps == {"group", "join", "row", "owner", "addrow", "addmember",
                "removerow", "removemember", "demote", "updaterow"}
PanelSteps  == {"grant", "count", "revoke"}
Ended       == {"done", "rejected", "failed", "stopped"}

InitNamespaces(w) ==
    /\ admins = InitAdmins
    /\ creator = InitCreator
    /\ role = InitRole
    /\ group = {n \in Spaces : InitCreator[n] # None}
    /\ member = [n \in Spaces |-> {u \in Users : InitRole[n][u] # None}]
    /\ pc = [r \in Requests |-> "idle"]
    /\ req = [r \in Requests |-> [kind |-> w.kinds[r]]]
    /\ disturbed = {}

Goto(r, step) == pc' = [pc EXCEPT ![r] = step]

(* Request r arrives, asking q, and its handler's first step is next. *)
Arrive(r, q, step) ==
    /\ pc[r] = "idle" /\ req[r].kind = q.kind
    /\ req' = [req EXCEPT ![r] = q]
    /\ Goto(r, step)

(* requires_namespace_admin, and the same condition for new courses. *)
Authorised(actor, n) ==
    creator[n] # None /\ (actor \in admins \/ role[n][actor] = "namespace_admin")

(* What a request changes: the user's role and membership in a namespace.  *)
(* Two creations of one namespace meet as well.                            *)
Cell(q) == <<q.space, q.user>>

Meets(q, o) == /\ pc[o] \in ChangeSteps
               /\ \/ Cell(req[o]) = Cell(q)
                  \/ {req[o].kind, q.kind} = {"create"} /\ req[o].space = q.space

(* The creation of a namespace that exists fails, after it joined the group. *)
Taken(q) == q.kind = "create" /\ creator[q.space] # None

AcceptChange(r, q, step) ==
    /\ Arrive(r, q, step)
    /\ disturbed' = disturbed
          \cup (UNION {{Cell(q), Cell(req[o])} : o \in {p \in Requests : Meets(q, p)}})
          \cup IF Taken(q) THEN {Cell(q)} ELSE {}
    /\ UNCHANGED <<admins, data, gitlab>>

-----------------------------------------------------------------------------
(* GitLab calls on the members of a namespace's group.  A call that raises *)
(* may have been applied.                                                  *)

SetMembers(r, members, next, raised) ==
    LET n == req[r].space
        applied == [member EXCEPT ![n] = members]
    IN  /\ \/ /\ member' = applied
              /\ Goto(r, next)
              /\ UNCHANGED disturbed
           \/ /\ member' \in {member, applied}
              /\ Goto(r, raised)
              /\ disturbed' = disturbed \cup {Cell(req[r])}
        /\ UNCHANGED <<admins, data, group, req>>

AddToGroup(r, next) ==
    SetMembers(r, member[req[r].space] \cup {req[r].user}, next, "failed")

RemoveFromGroup(r, next, raised) ==
    SetMembers(r, member[req[r].space] \ {req[r].user}, next, raised)

(* A transaction that sets the role of a user, or deletes the row. *)
SetRole(r, new) ==
    /\ role' = [role EXCEPT ![req[r].space][req[r].user] = new]
    /\ UNCHANGED <<admins, creator, gitlab, req, disturbed>>

HasRole(r) == role[req[r].space][req[r].user] # None

(* A step of r that changes nothing but where r is. *)
Skips(r, from, to) ==
    /\ pc[r] = from
    /\ Goto(r, to)
    /\ UNCHANGED <<nsVars, req>>

-----------------------------------------------------------------------------
(* POST /namespaces: api.create_namespace.                                 *)

CreateAccept(r) ==
    \E a \in admins, n \in Spaces :
        AcceptChange(r, [kind |-> "create", space |-> n, user |-> a,
                         role |-> "namespace_admin"], "group")

(* A group that exists is taken over. *)
CreateGroup(r) ==
    /\ pc[r] = "group"
    /\ \/ group' = group \cup {req[r].space} /\ Goto(r, "join")
       \/ group' \in {group, group \cup {req[r].space}} /\ Goto(r, "failed")
    /\ UNCHANGED <<admins, data, member, req, disturbed>>

JoinGroup(r) == pc[r] = "join" /\ AddToGroup(r, "row")

(* The row is committed before the creator has a role. *)
CreateRow(r) ==
    /\ pc[r] = "row" /\ creator[req[r].space] = None
    /\ creator' = [creator EXCEPT ![req[r].space] = req[r].user]
    /\ Goto(r, "owner")
    /\ UNCHANGED <<admins, role, gitlab, req, disturbed>>

(* A row that exists counts as created when creator and data are the same; *)
(* else none is found and the request ends.                                *)
RowExists(r) ==
    /\ pc[r] = "row" /\ creator[req[r].space] # None
    /\ \/ Skips(r, "row", "failed")
       \/ creator[req[r].space] = req[r].user /\ Skips(r, "row", "owner")

CreateOwner(r) ==
    /\ pc[r] = "owner" /\ ~HasRole(r)
    /\ SetRole(r, "namespace_admin")
    /\ Goto(r, "done")

(* The same of the role; assigned_by is compared too. *)
OwnerExists(r) ==
    /\ pc[r] = "owner" /\ HasRole(r)
    /\ \/ Skips(r, "owner", "failed")
       \/ role[req[r].space][req[r].user] = "namespace_admin" /\ Skips(r, "owner", "done")

-----------------------------------------------------------------------------
(* POST, DELETE and PATCH /namespaces/<id>/users.                          *)

AddAccept(r) ==
    \E a, u \in Users, n \in Spaces, new \in Roles :
        /\ Authorised(a, n)
        /\ AcceptChange(r, [kind |-> "add", space |-> n, user |-> u,
                            role |-> new], "addrow")

AddRow(r) ==
    /\ pc[r] = "addrow"
    /\ ~HasRole(r)
    /\ SetRole(r, req[r].role)
    /\ Goto(r, "addmember")

AddConflict(r) == Skips(r, "addrow", "rejected") /\ HasRole(r)

(* A mutant of AddMember: program managers do not join the group. *)
AddMemberIfAdmin(r) ==
    /\ pc[r] = "addmember"
    /\ IF req[r].role = "namespace_admin" THEN AddToGroup(r, "done")
       ELSE Skips(r, "addmember", "done")

AddMember(r) == pc[r] = "addmember" /\ AddToGroup(r, "done")

RemoveAccept(r) ==
    \E a, u \in Users, n \in Spaces :
        /\ Authorised(a, n)
        /\ AcceptChange(r, [kind |-> "remove", space |-> n, user |-> u,
                            role |-> "student"], "removerow")

RemoveRow(r) ==
    /\ pc[r] = "removerow"
    /\ HasRole(r)
    /\ SetRole(r, None)
    /\ Goto(r, "removemember")

(* An exception of GitLab is swallowed: the request succeeds. *)
RemoveMember(r) == pc[r] = "removemember" /\ RemoveFromGroup(r, "done", "done")

UpdateAccept(r) ==
    \E a, u \in Users, n \in Spaces, new \in Roles \cup {"student"} :
        /\ Authorised(a, n)
        /\ AcceptChange(r, [kind |-> "update", space |-> n, user |-> u,
                            role |-> new],
                        IF new = "student" THEN "demote" ELSE "updaterow")

DemoteMember(r) == pc[r] = "demote" /\ RemoveFromGroup(r, "updaterow", "failed")

(* A mutant of UpdateRow: the row of a demoted user is kept. *)
UpdateRowKept(r) ==
    /\ pc[r] = "updaterow"
    /\ HasRole(r)
    /\ SetRole(r, req[r].role)
    /\ Goto(r, "done")

UpdateRow(r) ==
    /\ pc[r] = "updaterow"
    /\ HasRole(r)
    /\ SetRole(r, IF req[r].role = "student" THEN None ELSE req[r].role)
    /\ Goto(r, "done")

NotFound(r) ==
    /\ Skips(r, "removerow", "rejected") \/ Skips(r, "updaterow", "rejected")
    /\ ~HasRole(r)

-----------------------------------------------------------------------------
(* The panel of the instance admins: set_instance_admin_status.            *)

GrantAccept(r) ==
    \E a \in admins, u \in Users :
        /\ Arrive(r, [kind |-> "grant", user |-> u], "grant")
        /\ UNCHANGED nsVars

Revoking == {r \in Requests : pc[r] \in {"count", "revoke"}}

RevokeAccept(r) ==
    \E a \in admins, u \in Users :
        /\ Arrive(r, [kind |-> "revoke", user |-> u], "count")
        /\ disturbed' = disturbed \cup IF Revoking = {} THEN {} ELSE Revoking \cup {r}
        /\ UNCHANGED <<admins, data, gitlab>>

GrantAdmin(r) ==
    /\ pc[r] = "grant"
    /\ admins' = admins \cup {req[r].user}
    /\ Goto(r, "done")
    /\ UNCHANGED <<data, gitlab, disturbed, req>>

(* A mutant of CountAdmins: the last admin is not kept. *)
CountAdminsLoosely(r) ==
    Skips(r, "count", IF Cardinality(admins) = 0 THEN "done" ELSE "revoke")

(* The count and the update are statements of one transaction without a    *)
(* lock: others commit between them.                                       *)
CountAdmins(r) ==
    Skips(r, "count", IF Cardinality(admins) <= 1 THEN "done" ELSE "revoke")

RevokeAdmin(r) ==
    /\ pc[r] = "revoke"
    /\ admins' = admins \ {req[r].user}
    /\ Goto(r, "done")
    /\ UNCHANGED <<data, gitlab, disturbed, req>>

(* DataBaseApi.__init__, in every process that starts. *)
StartProcess ==
    /\ admins' = admins \cup {Zero}
    /\ UNCHANGED <<data, gitlab, disturbed, handler>>

(* The handler dies, or its next transaction or call is never made. *)
Begun(r) == \/ pc[r] \in {"row", "owner", "addmember", "removemember"}
            \/ pc[r] = "updaterow" /\ req[r].role = "student"

Die(r) ==
    /\ pc[r] \in ChangeSteps \cup PanelSteps
    /\ Goto(r, "stopped")
    /\ disturbed' = IF Begun(r) THEN disturbed \cup {Cell(req[r])} ELSE disturbed
    /\ UNCHANGED <<admins, data, gitlab, req>>

NamespaceStep(r) ==
    \/ CreateAccept(r) \/ CreateGroup(r) \/ JoinGroup(r) \/ CreateRow(r)
    \/ RowExists(r) \/ CreateOwner(r) \/ OwnerExists(r)
    \/ AddAccept(r) \/ AddRow(r) \/ AddConflict(r) \/ AddMember(r)
    \/ RemoveAccept(r) \/ RemoveRow(r) \/ RemoveMember(r)
    \/ UpdateAccept(r) \/ DemoteMember(r) \/ UpdateRow(r) \/ NotFound(r)
    \/ GrantAccept(r) \/ GrantAdmin(r)
    \/ RevokeAccept(r) \/ CountAdmins(r) \/ RevokeAdmin(r)
    \/ Die(r)

NextNamespaces == StartProcess \/ \E r \in Requests : NamespaceStep(r)

-----------------------------------------------------------------------------
(* Properties.                                                             *)

NamespacesTypeOK ==
    /\ admins \subseteq Users
    /\ creator \in [Spaces -> Users \cup {None}]
    /\ role \in [Spaces -> [Users -> Roles \cup {None}]]
    /\ group \subseteq Spaces
    /\ member \in [Spaces -> SUBSET Users]
    /\ disturbed \subseteq (Spaces \X Users) \cup Requests
    /\ DOMAIN pc = Requests /\ DOMAIN req = Requests
    /\ \A r \in Requests :
          /\ pc[r] \in ChangeSteps => req[r] \in Change
          /\ pc[r] \in PanelSteps => req[r] \in Panel

(* The roles in the database and the members of the GitLab groups agree on *)
(* every user no request is about, unless a fault or an overlap of two     *)
(* requests about that user has hit: no other sequence of additions,       *)
(* removals, demotions and creations leaves one without the other.         *)
RolesAreMembers ==
    \A n \in Spaces, u \in Users :
        \/ <<n, u>> \in disturbed
        \/ \E r \in Requests : pc[r] \in ChangeSteps /\ Cell(req[r]) = <<n, u>>
        \/ role[n][u] # None <=> u \in member[n]

(* set_instance_admin_status keeps the last admin, as long as no two of    *)
(* them overlap: what it counted still holds when it updates, whatever     *)
(* grants, starts of processes and earlier revocations there were.         *)
AdminRemains ==
    \A r \in Requests \ disturbed :
        pc[r] = "revoke" => admins \ {req[r].user} # {}

=============================================================================
