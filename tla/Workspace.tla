----------------------------- MODULE Workspace ------------------------------
(***************************************************************************)
(* A user's first workspace (services/workspace.ts): the hook after the    *)
(* sign-up and every page call ensurePersonalWorkspace, at the same time   *)
(* and as often as the first of them failed.  The transaction holds a lock *)
(* of the user; it commits as a whole or not at all.                       *)
(***************************************************************************)
EXTENDS Naturals, FiniteSets

CONSTANTS Users, Visits   \* bound: calls, each made once

VARIABLES
  member,   \* committed: the workspaces each user is a member of
  lockedBy, \* the holder of each user's advisory lock
  visit     \* what each call is doing

workspaceVars == <<member, lockedBy, visit>>

Nobody == "nobody"

ASSUME WorkspaceAssumption == Nobody \notin Visits

WorkspaceInit ==
  /\ member = [u \in Users |-> {}] /\ lockedBy = [u \in Users |-> Nobody]
  /\ visit = [v \in Visits |-> [pc |-> "idle"]]

VisitBecomes(v, state) == visit' = [visit EXCEPT ![v] = state]
Oldest(u) == CHOOSE w \in member[u] : TRUE

(* The fast path: a membership that is there, without a lock.              *)
FindMembership(v, u) ==
  /\ visit[v].pc = "idle"
  /\ VisitBecomes(v, IF member[u] # {} THEN [pc |-> "answered", u |-> u, w |-> Oldest(u)]
                                       ELSE [pc |-> "lock", u |-> u])
  /\ UNCHANGED <<member, lockedBy>>

TakeLock(v) ==
  /\ visit[v].pc = "lock" /\ lockedBy[visit[v].u] = Nobody
  /\ lockedBy' = [lockedBy EXCEPT ![visit[v].u] = v]
  /\ VisitBecomes(v, [visit[v] EXCEPT !.pc = "again"])
  /\ UNCHANGED member

(* Once more under the lock, which reads what was committed meanwhile.     *)
NotAgain(u) == FALSE
MeanwhileMember(u) == member[u] # {}

FindAgain(v) ==
  /\ visit[v].pc = "again"
  /\ LET u == visit[v].u IN
     IF MeanwhileMember(u)
     THEN /\ lockedBy' = [lockedBy EXCEPT ![u] = Nobody]
          /\ VisitBecomes(v, [pc |-> "answered", u |-> u, w |-> Oldest(u)])
     ELSE VisitBecomes(v, [visit[v] EXCEPT !.pc = "create"]) /\ UNCHANGED lockedBy
  /\ UNCHANGED member

(* The workspace, its owner and the subscription; the lock goes with the   *)
(* commit.                                                                 *)
CreateWorkspace(v) ==
  /\ visit[v].pc = "create"
  /\ LET u == visit[v].u IN
     /\ member' = [member EXCEPT ![u] = @ \cup {v}]
     /\ lockedBy' = [lockedBy EXCEPT ![u] = Nobody]
     /\ VisitBecomes(v, [pc |-> "answered", u |-> u, w |-> v])

(* A query fails or the process stops: the transaction rolls back.         *)
VisitFails(v) ==
  /\ visit[v].pc \in {"lock", "again", "create"}
  /\ lockedBy' = [lockedBy EXCEPT ![visit[v].u] = IF @ = v THEN Nobody ELSE @]
  /\ VisitBecomes(v, [pc |-> "failed"])
  /\ UNCHANGED member

WorkspaceNext ==
  \E v \in Visits :
    \/ \E u \in Users : FindMembership(v, u)
    \/ TakeLock(v) \/ FindAgain(v) \/ CreateWorkspace(v) \/ VisitFails(v)

WorkspaceSpec == WorkspaceInit /\ [][WorkspaceNext]_workspaceVars

-----------------------------------------------------------------------------
WorkspaceTypeOK ==
  /\ member \in [Users -> SUBSET Visits] /\ lockedBy \in [Users -> Visits \cup {Nobody}]
  /\ \A v \in Visits : visit[v].pc \in {"idle", "lock", "again", "create", "answered", "failed"}

(* "a per-user advisory lock stops two parallel calls from creating two    *)
(* workspaces" (workspace.ts:21): a user never has two, and every call     *)
(* that answered named the same, however calls cross and fail.             *)
OneFirstWorkspace ==
  /\ \A u \in Users : Cardinality(member[u]) <= 1
  /\ \A v, x \in Visits :
       visit[v].pc = "answered" /\ visit[x].pc = "answered" /\ visit[v].u = visit[x].u =>
         visit[v].w = visit[x].w
=============================================================================
