--------------------------- MODULE ServicesProofs ---------------------------
(***************************************************************************)
(* The services beside publishing and editing: tenants, the first          *)
(* workspace, the AI allowance, images, rate limits, the gate drafts pass, *)
(* the days of the calendar.                                               *)
(* One part of the module for each, which uses nothing of the others.      *)
(***************************************************************************)
EXTENDS Tenancy, Workspace, AiAllowance, PostImages, RateLimit, DraftGate, Calendar,
        FiniteSetTheorems, SequenceTheorems, TLAPS

-----------------------------------------------------------------------------
(***************************************************************************)
(* No query of a client bound to a workspace finds a row of another or     *)
(* writes one, for any tenants and rows, but through its relations.        *)
(***************************************************************************)

(* What scopeArgs lets through names the workspace of the client wherever  *)
(* the query selects or writes.                                            *)
LEMMA ScopedNames ==
  ASSUME NEW t \in Tenants, NEW q \in Queries, ScopeArgs(q, t) # Refused
  PROVE  LET s == ScopeArgs(q, t) IN
         /\ s.op = q.op /\ s.op # "other"
         /\ s.where = t
         /\ s.op # "update" => s.data = t
         /\ s.op = "update" => s.data \in {t, Absent}
         /\ s.second = t
         /\ s.op = "upsert" => s.update \in {t, Absent}
         /\ s.rows \subseteq Rows /\ s.relation \in Relations
<1>1. q \in Query
  BY DEF Queries
<1>2. ScopeArgs(q, t) = [q EXCEPT !.where = t,
                                  !.data = IF q.op = "update" THEN q.data ELSE t,
                                  !.second = t]
  BY <1>1 DEF ScopeArgs
<1>3. q.op # "other" /\ (q.op = "update" => Binds(q.data, t))
        /\ (q.op = "upsert" => Binds(q.update, t))
  BY <1>1 DEF ScopeArgs
<1> QED
  BY <1>1, <1>2, <1>3 DEF Query, Binds

(* Such a query matches rows of that workspace only, and whatever changes  *)
(* is of that workspace, of one its relation speaks of, or free.           *)
LEMMA ScopedTouches ==
  ASSUME TenancyTypeOK, NEW t \in Tenants, NEW q \in Queries,
         ScopeArgs(q, t) # Refused,
         NEW mid \in Effects(ScopeArgs(q, t)),
         NEW after \in WithNested(ScopeArgs(q, t), mid),
         NEW r \in Rows
  PROVE  /\ r \in Matched(ScopeArgs(q, t)) => owner[r] = t
         /\ after[r] \in {owner[r], t, Absent} \cup Said(ScopeArgs(q, t))
<1> DEFINE s == ScopeArgs(q, t)
<1>1. /\ s.op \in Operations /\ s.op # "other"
      /\ s.where = t
      /\ s.op # "update" => s.data = t
      /\ s.op = "update" => s.data \in {t, Absent}
      /\ s.second = t
      /\ s.op = "upsert" => s.update \in {t, Absent}
  BY ScopedNames DEF Queries, Query
<1> HIDE DEF s
<1>2. \A k \in Matched(s) : owner[k] = t
  BY <1>1 DEF Matched
<1>3. mid \in Effects(s) /\ after \in WithNested(s, mid)
  BY DEF s
<1> DEFINE Near(x) == x \in {t, Absent} \cup Said(s)
<1>4. /\ s.op = "update" => Near(Connected(s, s.data))
      /\ s.op = "upsert" => Near(Connected(s, s.update))
  BY <1>1 DEF Connected, Said
<1>5. mid[r] = owner[r] \/ Near(mid[r])
  <2>1. CASE s.op = "read"
    BY <2>1, <1>3 DEF Effects
  <2>2. CASE s.op = "delete"
    BY <2>2, <1>3 DEF Effects
  <2>3. CASE s.op = "update"
    BY <2>3, <1>3, <1>4 DEF Effects, Moved
  <2>4. CASE s.op = "create"
    BY <2>4, <1>1, <1>3 DEF Effects, Moved
  <2>5. CASE s.op = "createMany"
    <3>1. PICK x \in FreeRow \X FreeRow :
            mid = [Moved({x[1]}, s.data) EXCEPT ![x[2]] = s.second]
      BY <2>5, <1>3 DEF Effects
    <3>2. Moved({x[1]}, s.data) = [k \in Rows |->
            IF k = x[1] /\ s.data # Absent THEN s.data ELSE owner[k]]
      BY DEF Moved
    <3> QED
      BY <2>5, <3>1, <3>2, <1>1
  <2>6. CASE s.op = "upsert"
    <3>1. \/ \E k \in Matched(s) : mid = Moved({k}, Connected(s, s.update))
          \/ \E k \in FreeRow : mid = Moved({k}, s.data)
      BY <2>6, <1>3 DEF Effects
    <3> QED
      BY <2>6, <3>1, <1>1, <1>4 DEF Moved
  <2> QED
    BY <2>1, <2>2, <2>3, <2>4, <2>5, <2>6, <1>1 DEF Operations
<1>6. after[r] = owner[r] \/ Near(after[r])
  <2>1. CASE after = mid
    BY <1>5, <2>1
  <2>2. CASE after # mid
    <3>1. s.relation.form = "nested" /\ \E k : after = [mid EXCEPT ![k] = s.relation.to]
      BY <1>3, <2>2 DEF WithNested
    <3>2. after[r] = mid[r] \/ after[r] = s.relation.to
      BY <3>1
    <3> QED
      BY <1>5, <3>1, <3>2 DEF Said
  <2> QED
    BY <2>1, <2>2
<1> QED
  BY <1>2, <1>6 DEF s

LEMMA TenancyTypeInit == TenancyInit => TenancyTypeOK /\ TenantsStayApart
  BY TenancyConstants DEF TenancyInit, TenancyTypeOK, TenantsStayApart, Guarded

(* The types: NOT NULL on the column, and what is touched was or is owned. *)
LEMMA RunKeepsTypes ==
  ASSUME TenancyTypeOK, NEW q, NEW by \in Tenants \cup {Guarded}, Run(q, by),
         q.rows \subseteq Rows, q.relation \in Relations
  PROVE  TenancyTypeOK'
<1>1. PICK mid \in Effects(q) : \E after \in WithNested(q, mid) :
        /\ \A r \in Rows : after[r] \in Tenants \cup {Absent}
        /\ owner' = after
        /\ reached' = [by |-> by,
                       found |-> {owner[r] : r \in Matched(q)},
                       touched |-> ({after[r] : r \in {s \in Rows : after[s] # owner[s]}}
                                      \cup Linked(q)) \ {Absent},
                       said |-> Said(q) \ {Absent}]
  BY DEF Run
<1>2. PICK after \in WithNested(q, mid) :
        /\ \A r \in Rows : after[r] \in Tenants \cup {Absent}
        /\ owner' = after
        /\ reached' = [by |-> by,
                       found |-> {owner[r] : r \in Matched(q)},
                       touched |-> ({after[r] : r \in {s \in Rows : after[s] # owner[s]}}
                                      \cup Linked(q)) \ {Absent},
                       said |-> Said(q) \ {Absent}]
  BY <1>1
<1>3. mid = [r \in Rows |-> mid[r]]
  <2>1. CASE q.op = "read"
    BY <2>1 DEF Effects, TenancyTypeOK
  <2>2. CASE q.op = "delete"
    BY <2>2 DEF Effects
  <2>3. CASE q.op = "createMany"
    <3>1. PICK x \in FreeRow \X FreeRow :
            mid = [Moved({x[1]}, q.data) EXCEPT ![x[2]] = q.second]
      BY <2>3 DEF Effects
    <3>2. mid = [r \in Rows |-> IF r = x[2] THEN q.second ELSE Moved({x[1]}, q.data)[r]]
      BY <3>1 DEF Moved
    <3> QED
      BY <3>2
  <2>4. CASE q.op \notin {"read", "delete", "createMany"}
    <3>1. \E rows, to : mid = Moved(rows, to)
      BY <2>4 DEF Effects
    <3> QED
      BY <3>1 DEF Moved
  <2> QED
    BY <2>1, <2>2, <2>3, <2>4
<1>4. after = [r \in Rows |-> after[r]]
  <2>1. after = mid \/ \E k : after = [mid EXCEPT ![k] = q.relation.to]
    BY DEF WithNested
  <2>2. CASE after = mid
    BY <1>3, <2>2
  <2>3. CASE \E k : after = [mid EXCEPT ![k] = q.relation.to]
    <3>1. PICK k : after = [mid EXCEPT ![k] = q.relation.to]
      BY <2>3
    <3>2. after = [r \in Rows |-> IF r = k THEN q.relation.to ELSE mid[r]]
      BY <1>3, <3>1
    <3> QED
      BY <3>2
  <2> QED
    BY <2>1, <2>2, <2>3
<1>5. after \in [Rows -> Tenants \cup {Absent}]
  BY <1>2, <1>4
<1>6. Said(q) \cup Linked(q) \subseteq Tenants \cup {Absent}
  BY DEF Said, Linked, Relations, NoRelation, TenancyTypeOK
<1>7. \A r \in Matched(q) : owner[r] \in Tenants
  BY DEF Matched, TenancyTypeOK
<1> QED
  BY <1>2, <1>5, <1>6, <1>7 DEF TenancyTypeOK

LEMMA TenancyStep ==
  TenancyTypeOK /\ TenantsStayApart /\ [TenancyNext]_tenancyVars
    => TenancyTypeOK' /\ TenantsStayApart'
<1> SUFFICES ASSUME TenancyTypeOK, TenantsStayApart, [TenancyNext]_tenancyVars
             PROVE  TenancyTypeOK' /\ TenantsStayApart'
  OBVIOUS
<1>1. ASSUME NEW t \in Tenants, ScopedQuery(t)
      PROVE  TenancyTypeOK' /\ TenantsStayApart'
  <2>1. PICK q \in Queries : ScopeArgs(q, t) # Refused /\ Run(ScopeArgs(q, t), t)
    BY <1>1 DEF ScopedQuery, ScopedQueries
  <2>2. TenancyTypeOK'
    <3>1. ScopeArgs(q, t).rows \subseteq Rows /\ ScopeArgs(q, t).relation \in Relations
      BY <2>1, ScopedNames
    <3> QED
      BY <2>1, <3>1, RunKeepsTypes
  <2>3. TenantsStayApart'
    <3> DEFINE s == ScopeArgs(q, t)
    <3>1. PICK mid \in Effects(s) : \E after \in WithNested(s, mid) :
            reached' = [by |-> t,
                        found |-> {owner[r] : r \in Matched(s)},
                        touched |-> ({after[r] : r \in {k \in Rows : after[k] # owner[k]}}
                                       \cup Linked(s)) \ {Absent},
                        said |-> Said(s) \ {Absent}]
      BY <2>1 DEF Run
    <3>2. PICK after \in WithNested(s, mid) :
            reached' = [by |-> t,
                        found |-> {owner[r] : r \in Matched(s)},
                        touched |-> ({after[r] : r \in {k \in Rows : after[k] # owner[k]}}
                                       \cup Linked(s)) \ {Absent},
                        said |-> Said(s) \ {Absent}]
      BY <3>1
    <3>3. \A r \in Rows : /\ r \in Matched(s) => owner[r] = t
                         /\ after[r] \in {owner[r], t, Absent} \cup Said(s)
      BY <2>1, ScopedTouches
    <3>4. Matched(s) \subseteq Rows
      BY <2>1, ScopedNames DEF Matched
    <3>5. Linked(s) \subseteq Said(s)
      BY DEF Linked, Said
    <3> HIDE DEF s
    <3>6. reached'.found \subseteq {t} /\ reached'.touched \subseteq {t} \cup reached'.said
      BY <3>2, <3>3, <3>4, <3>5
    <3> QED
      BY <2>2, <3>2, <3>6 DEF TenantsStayApart
  <2> QED
    BY <2>2, <2>3
<1>2. ASSUME NEW t \in Tenants, WorkspaceQuery(t)
      PROVE  TenancyTypeOK' /\ TenantsStayApart'
  BY <1>2 DEF WorkspaceQuery, ScopeWorkspaceArgs, TenancyTypeOK, TenantsStayApart
<1>3. CASE GuardedQuery
  <2>1. PICK q \in Queries : AssertTenantScoped(q) # Refused /\ Run(AssertTenantScoped(q), Guarded)
    BY <1>3 DEF GuardedQuery, GuardedQueries
  <2>2. TenancyTypeOK'
    <3>1. q.rows \subseteq Rows /\ q.relation \in Relations /\ AssertTenantScoped(q) = q
      BY <2>1 DEF Queries, Query, AssertTenantScoped
    <3> QED
      BY <2>1, <3>1, RunKeepsTypes
  <2>3. reached'.by = Guarded
    BY <2>1 DEF Run
  <2> QED
    BY <2>2, <2>3, TenancyConstants DEF Guarded, TenantsStayApart
<1>4. CASE UNCHANGED tenancyVars
  BY <1>4 DEF tenancyVars, TenancyTypeOK, TenantsStayApart
<1> QED
  BY <1>1, <1>2, <1>3, <1>4 DEF TenancyNext

(* A client bound to a workspace finds no row of another, and writes none  *)
(* but where a relation of the query speaks of it: scopeArgs names the     *)
(* workspace wherever the query selects rows or writes one of its model.   *)
THEOREM QueriesStayInTheWorkspace == TenancySpec => []TenantsStayApart
<1>1. TenancySpec => [](TenancyTypeOK /\ TenantsStayApart)
  BY TenancyTypeInit, TenancyStep, PTL DEF TenancySpec
<1> QED
  BY <1>1, PTL
-----------------------------------------------------------------------------
(***************************************************************************)
(* One first workspace for each user, however many calls cross and fail.   *)
(***************************************************************************)

VisitType ==
  [pc: {"idle", "failed"}]
    \cup [pc: {"lock", "again", "create"}, u: Users]
    \cup [pc: {"answered"}, u: Users, w: Visits]

(* Whoever is past the lock holds it; whoever is about to create has seen  *)
(* that there is nothing, and nobody else can have changed that since.     *)
WorkspaceInv ==
  /\ member \in [Users -> SUBSET Visits]
  /\ lockedBy \in [Users -> Visits \cup {Nobody}]
  /\ visit \in [Visits -> VisitType]
  /\ \A v \in Visits :
       /\ visit[v].pc \in {"again", "create"} => lockedBy[visit[v].u] = v
       /\ visit[v].pc = "create" => member[visit[v].u] = {}
       /\ visit[v].pc = "answered" => member[visit[v].u] = {visit[v].w}
  /\ \A u \in Users : member[u] = {} \/ \E w \in Visits : member[u] = {w}

LEMMA WorkspaceInitInv == WorkspaceInit => WorkspaceInv
  BY DEF WorkspaceInit, WorkspaceInv, VisitType

LEMMA OldestIsTheOne ==
  ASSUME WorkspaceInv, NEW u \in Users, member[u] # {}
  PROVE  member[u] = {Oldest(u)} /\ Oldest(u) \in Visits
<1>1. PICK w \in Visits : member[u] = {w}
  BY DEF WorkspaceInv
<1>2. Oldest(u) \in member[u]
  BY <1>1 DEF Oldest
<1> QED
  BY <1>1, <1>2

LEMMA WorkspaceStep == WorkspaceInv /\ [WorkspaceNext]_workspaceVars => WorkspaceInv'
<1> SUFFICES ASSUME WorkspaceInv, [WorkspaceNext]_workspaceVars PROVE WorkspaceInv'
  OBVIOUS
<1>1. /\ member \in [Users -> SUBSET Visits]
      /\ lockedBy \in [Users -> Visits \cup {Nobody}]
      /\ visit \in [Visits -> VisitType]
  BY DEF WorkspaceInv
<1>2. ASSUME NEW v \in Visits, NEW u \in Users, FindMembership(v, u)
      PROVE  WorkspaceInv'
  <2>1. CASE member[u] # {}
    <3>1. visit' = [visit EXCEPT ![v] = [pc |-> "answered", u |-> u, w |-> Oldest(u)]]
            /\ member' = member /\ lockedBy' = lockedBy
      BY <1>2, <2>1 DEF FindMembership, VisitBecomes
    <3>2. member[u] = {Oldest(u)} /\ Oldest(u) \in Visits
      BY <2>1, OldestIsTheOne
    <3> QED
      BY <1>1, <3>1, <3>2 DEF WorkspaceInv, VisitType
  <2>2. CASE member[u] = {}
    <3>1. visit' = [visit EXCEPT ![v] = [pc |-> "lock", u |-> u]]
            /\ member' = member /\ lockedBy' = lockedBy
      BY <1>2, <2>2 DEF FindMembership, VisitBecomes
    <3> QED
      BY <1>1, <3>1 DEF WorkspaceInv, VisitType
  <2> QED
    BY <2>1, <2>2
<1>3. ASSUME NEW v \in Visits, TakeLock(v) PROVE WorkspaceInv'
  <2> DEFINE u == visit[v].u
  <2>1. visit[v] \in [pc: {"lock", "again", "create"}, u: Users] /\ visit[v].pc = "lock"
          /\ lockedBy[u] = Nobody
    BY <1>1, <1>3 DEF TakeLock, VisitType
  <2>2. visit' = [visit EXCEPT ![v] = [pc |-> "again", u |-> u]] /\ member' = member
          /\ lockedBy' = [lockedBy EXCEPT ![u] = v]
    <3>1. [visit[v] EXCEPT !.pc = "again"] = [pc |-> "again", u |-> u]
      BY <2>1
    <3> QED
      BY <1>3, <3>1 DEF TakeLock, VisitBecomes
  <2>3. \A x \in Visits : visit[x].pc \in {"again", "create"} => visit[x].u # u
    BY <2>1, WorkspaceAssumption DEF WorkspaceInv
  <2>4. u \in Users
    BY <2>1
  <2> HIDE DEF u
  <2> QED
    BY <1>1, <2>2, <2>3, <2>4 DEF WorkspaceInv, VisitType
<1>4. ASSUME NEW v \in Visits, visit[v].pc \in {"again", "create"}
      PROVE  /\ visit[v] \in [pc: {"lock", "again", "create"}, u: Users]
             /\ visit[v].u \in Users /\ lockedBy[visit[v].u] = v
             /\ \A x \in Visits : x # v /\ visit[x].pc \in {"again", "create"}
                                    => visit[x].u # visit[v].u
  BY <1>1, <1>4 DEF WorkspaceInv, VisitType
<1>5. ASSUME NEW v \in Visits, FindAgain(v) PROVE WorkspaceInv'
  <2> DEFINE u == visit[v].u
  <2>1. /\ visit[v].pc = "again" /\ u \in Users /\ lockedBy[u] = v
        /\ visit[v] \in [pc: {"lock", "again", "create"}, u: Users]
        /\ \A x \in Visits : x # v /\ visit[x].pc \in {"again", "create"} => visit[x].u # u
    BY <1>4, <1>5 DEF FindAgain
  <2>2. CASE member[u] # {}
    <3>1. visit' = [visit EXCEPT ![v] = [pc |-> "answered", u |-> u, w |-> Oldest(u)]]
            /\ member' = member /\ lockedBy' = [lockedBy EXCEPT ![u] = Nobody]
      BY <1>5, <2>2 DEF FindAgain, MeanwhileMember, VisitBecomes
    <3>2. member[u] = {Oldest(u)} /\ Oldest(u) \in Visits
      BY <2>1, <2>2, OldestIsTheOne
    <3> HIDE DEF u
    <3> QED
      BY <1>1, <2>1, <3>1, <3>2 DEF WorkspaceInv, VisitType
  <2>3. CASE member[u] = {}
    <3>1. visit' = [visit EXCEPT ![v] = [pc |-> "create", u |-> u]]
            /\ member' = member /\ lockedBy' = lockedBy
      BY <1>1, <1>5, <2>1, <2>3 DEF FindAgain, MeanwhileMember, VisitBecomes
    <3> HIDE DEF u
    <3> QED
      BY <1>1, <2>1, <2>3, <3>1 DEF WorkspaceInv, VisitType
  <2> QED
    BY <2>2, <2>3
<1>6. ASSUME NEW v \in Visits, CreateWorkspace(v) PROVE WorkspaceInv'
  <2> DEFINE u == visit[v].u
  <2>1. /\ visit[v].pc = "create" /\ u \in Users /\ lockedBy[u] = v
        /\ \A x \in Visits : x # v /\ visit[x].pc \in {"again", "create"} => visit[x].u # u
    BY <1>4, <1>6 DEF CreateWorkspace
  <2>2. member[u] = {}
    BY <2>1 DEF WorkspaceInv
  <2>3. /\ visit' = [visit EXCEPT ![v] = [pc |-> "answered", u |-> u, w |-> v]]
        /\ lockedBy' = [lockedBy EXCEPT ![u] = Nobody]
        /\ member' = [member EXCEPT ![u] = {v}]
    BY <1>1, <1>6, <2>1, <2>2 DEF CreateWorkspace, VisitBecomes
  <2>4. \A x \in Visits : visit[x].pc = "answered" => visit[x].u # u
    BY <2>2 DEF WorkspaceInv
  <2> HIDE DEF u
  <2> QED
    BY <1>1, <2>1, <2>3, <2>4 DEF WorkspaceInv, VisitType
<1>7. ASSUME NEW v \in Visits, VisitFails(v) PROVE WorkspaceInv'
  <2> DEFINE u == visit[v].u
  <2>1. u \in Users
    BY <1>1, <1>7 DEF VisitFails, VisitType
  <2>2. /\ visit' = [visit EXCEPT ![v] = [pc |-> "failed"]] /\ member' = member
        /\ lockedBy' = [lockedBy EXCEPT ![u] = IF lockedBy[u] = v THEN Nobody ELSE lockedBy[u]]
    BY <1>1, <1>7, <2>1 DEF VisitFails, VisitBecomes
  <2> HIDE DEF u
  <2> QED
    BY <1>1, <2>1, <2>2 DEF WorkspaceInv, VisitType
<1>8. CASE UNCHANGED workspaceVars
  BY <1>8 DEF workspaceVars, WorkspaceInv
<1> QED
  BY <1>2, <1>3, <1>5, <1>6, <1>7, <1>8 DEF WorkspaceNext

(* "a per-user advisory lock stops two parallel calls from creating two    *)
(* workspaces": for any number of users and calls, in any order, with any  *)
(* of them failing between its queries.                                    *)
THEOREM FirstWorkspaceIsOne == WorkspaceSpec => []OneFirstWorkspace
<1>1. WorkspaceInv => OneFirstWorkspace
  <2> SUFFICES ASSUME WorkspaceInv PROVE OneFirstWorkspace
    OBVIOUS
  <2>1. ASSUME NEW u \in Users PROVE Cardinality(member[u]) <= 1
    <3>1. CASE member[u] = {}
      BY <3>1, FS_EmptySet
    <3>2. ASSUME NEW w \in Visits, member[u] = {w} PROVE Cardinality(member[u]) <= 1
      <4>1. Cardinality({w}) = 1
        BY FS_Singleton
      <4> QED
        BY <3>2, <4>1
    <3> QED
      BY <3>1, <3>2 DEF WorkspaceInv
  <2>2. ASSUME NEW v \in Visits, NEW x \in Visits,
               visit[v].pc = "answered", visit[x].pc = "answered", visit[v].u = visit[x].u
        PROVE  visit[v].w = visit[x].w
    BY <2>2 DEF WorkspaceInv
  <2> QED
    BY <2>1, <2>2 DEF OneFirstWorkspace
<1> QED
  BY <1>1, WorkspaceInitInv, WorkspaceStep, PTL DEF WorkspaceSpec
-----------------------------------------------------------------------------
(***************************************************************************)
(* The allowance of AI requests, for any number of them, any plan and any  *)
(* months: what is admitted one at a time, within one month, fits.         *)
(***************************************************************************)

Spending == {"call", "meter", "store", "charge"}
AiStates == {"new", "refused", "call", "meter", "store", "charge", "save", "ok",
             "failed", "chargedAndFailed"}
AiType ==
  [pc: AiStates, kind: AiKinds, amount: 0..MaxCount, calls: 0..2, made: 0..MaxCount,
   since: 1..Periods]

(* What a request will charge was asked for when it was admitted.          *)
AsksForAll(q) ==
  /\ q.pc \in Spending => (q.kind # "generate" => q.amount = 1)
  /\ q.pc = "store" => q.kind # "generate"
  /\ q.pc = "charge" => q.made <= q.amount

(* While nothing has shared a metric, at most one request spends from it,  *)
(* and what it may still charge this month is left.                        *)
Fits(metric) ==
  /\ \A m \in 1..Periods : counter[m][metric] <= AiLimit
  /\ \A r, q \in AiRequests : Admitted(r, metric) /\ Admitted(q, metric) => r = q
  /\ \A r \in AiRequests : Admitted(r, metric) /\ ai[r].since = month
       => counter[month][metric] + ai[r].amount <= AiLimit

AllowanceInv ==
  /\ AllowanceTypeOK
  /\ \A r \in AiRequests : AsksForAll(ai[r]) /\ ai[r].since <= month
  /\ \A metric \in Metrics \ shared : Fits(metric)

LEMMA AllowanceTypes ==
  ASSUME AllowanceInv
  PROVE  /\ month \in 1..Periods /\ month \in Nat
         /\ counter \in [1..Periods -> [Metrics -> Nat]]
         /\ metered \in Nat /\ shared \subseteq Metrics
         /\ ai \in [AiRequests -> AiType]
<1>1. Periods \in Nat
  BY AllowanceAssumption
<1> QED
  BY <1>1 DEF AllowanceInv, AllowanceTypeOK, AiType, AiStates

LEMMA AllowanceInitInv == AllowanceInit => AllowanceInv
<1> SUFFICES ASSUME AllowanceInit PROVE AllowanceInv
  OBVIOUS
<1>1. AiLimit \in Nat /\ MaxCount \in Nat /\ Periods \in Nat /\ Periods >= 1 /\ MaxCount >= 1
  BY AllowanceAssumption
<1>2. NewAi \in AiType /\ NewAi.pc = "new" /\ NewAi.since = 1
  BY <1>1 DEF NewAi, AiType, AiStates, AiKinds
<1>3. ai \in [AiRequests -> AiType]
  BY <1>2 DEF AllowanceInit
<1>4. month \in 1..Periods /\ month = 1
  BY <1>1 DEF AllowanceInit
<1>5. counter \in [1..Periods -> [Metrics -> {0}]]
  BY DEF AllowanceInit
<1>6. AllowanceTypeOK
  BY <1>3, <1>4, <1>5 DEF AllowanceInit, AllowanceTypeOK, AiType, AiStates
<1>7. \A r \in AiRequests : ai[r].pc = "new" /\ ai[r].since = 1
  BY <1>2 DEF AllowanceInit
<1>8. \A r \in AiRequests : AsksForAll(ai[r]) /\ ai[r].since <= month
  <2>1. 1 <= month
    BY <1>4
  <2> QED
    BY <1>7, <2>1 DEF AsksForAll, Spending
<1>9. ASSUME NEW metric \in Metrics PROVE Fits(metric)
  <2>1. \A m \in 1..Periods : counter[m][metric] <= AiLimit
    <3>1. \A m \in 1..Periods : counter[m][metric] = 0
      BY <1>5
    <3>2. 0 <= AiLimit
      BY <1>1
    <3> QED
      BY <3>1, <3>2
  <2> QED
    BY <1>7, <2>1 DEF Fits, Admitted
<1> QED
  BY <1>6, <1>8, <1>9 DEF AllowanceInv

-----------------------------------------------------------------------------
(* A step of one request that charges nothing and admits nobody.           *)
GoesOn(r) ==
  /\ ai' = [ai EXCEPT ![r] = ai'[r]]
  /\ ai'[r] \in AiType /\ AsksForAll(ai'[r])
  /\ ai[r].pc # "new"
  /\ ai'[r].pc \in Spending =>
       /\ ai[r].pc \in Spending
       /\ ai'[r].kind = ai[r].kind /\ ai'[r].amount = ai[r].amount
  /\ ai'[r].since = ai[r].since
  /\ month' = month /\ counter' = counter /\ shared' = shared /\ metered' \in Nat

LEMMA GoingOnKeeps ==
  ASSUME AllowanceInv, NEW r \in AiRequests, GoesOn(r)
  PROVE  AllowanceInv'
<1>1. /\ month \in 1..Periods /\ month \in Nat
      /\ counter \in [1..Periods -> [Metrics -> Nat]]
      /\ shared \subseteq Metrics
      /\ ai \in [AiRequests -> AiType]
  BY AllowanceTypes
<1>2. \A x \in AiRequests : x # r => ai'[x] = ai[x]
  BY <1>1 DEF GoesOn
<1>3. ai' \in [AiRequests -> AiType]
  BY <1>1 DEF GoesOn
<1>4. AllowanceTypeOK'
  BY <1>1, <1>3 DEF GoesOn, AllowanceTypeOK, AiType, AiStates
<1>5. \A x \in AiRequests : AsksForAll(ai'[x]) /\ ai'[x].since <= month'
  BY <1>2 DEF GoesOn, AllowanceInv
<1>6. ASSUME NEW metric \in Metrics \ shared', NEW x \in AiRequests, Admitted(x, metric)'
      PROVE  Admitted(x, metric) /\ ai'[x].amount = ai[x].amount /\ ai'[x].since = ai[x].since
  BY <1>2, <1>6 DEF Admitted, GoesOn, Spending
<1>7. ASSUME NEW metric \in Metrics \ shared' PROVE Fits(metric)'
  <2>1. Fits(metric) /\ counter' = counter /\ month' = month
    BY DEF AllowanceInv, GoesOn
  <2> QED
    BY <1>6, <2>1 DEF Fits
<1> QED
  BY <1>4, <1>5, <1>7 DEF AllowanceInv

(* What a request has asked for is counted in whole posts or images.       *)
LEMMA RequestFacts ==
  ASSUME AllowanceInv, NEW r \in AiRequests
  PROVE  /\ ai[r] \in AiType /\ AsksForAll(ai[r])
         /\ ai[r].calls \in Nat /\ ai[r].amount \in 0..MaxCount /\ ai[r].amount \in Nat
         /\ ai[r].made \in Nat /\ ai[r].since \in Nat /\ ai[r].since <= month
         /\ ai[r].kind \in AiKinds /\ MetricOf(ai[r].kind) \in Metrics
<1>1. ai[r] \in AiType /\ Periods \in Nat /\ MaxCount \in Nat
  BY AllowanceTypes, AllowanceAssumption
<1> QED
  BY <1>1 DEF AllowanceInv, AiType, MetricOf, Metrics

LEMMA PlainSteps ==
  ASSUME AllowanceInv, NEW r \in AiRequests,
         ModelCall(r) \/ CallAgain(r) \/ AiFails(r) \/ StoreImage(r)
           \/ SaveRewritten(r) \/ AiStops(r)
  PROVE  GoesOn(r)
<1>1. ai \in [AiRequests -> AiType] /\ metered \in Nat
  BY AllowanceTypes
<1>2. ai[r] \in AiType /\ AsksForAll(ai[r])
  BY RequestFacts
<1>3. MaxCount \in Nat /\ MaxCount >= 1
  BY AllowanceAssumption
<1>4. ASSUME NEW pc \in AiStates \ {"new", "store", "charge"}, ai' = [ai EXCEPT ![r].pc = pc],
             ai[r].pc # "new", pc \in Spending => ai[r].pc \in Spending,
             UNCHANGED <<month, counter, metered, shared>>
      PROVE  GoesOn(r)
  <2>1. ai'[r] = [ai[r] EXCEPT !.pc = pc] /\ ai' = [ai EXCEPT ![r] = ai'[r]]
    BY <1>1, <1>4
  <2>2. ai'[r] \in AiType /\ ai'[r].pc = pc /\ ai'[r].kind = ai[r].kind
          /\ ai'[r].amount = ai[r].amount /\ ai'[r].since = ai[r].since
    BY <1>2, <2>1 DEF AiType
  <2>3. AsksForAll(ai'[r])
    BY <1>2, <1>4, <2>2 DEF AsksForAll
  <2> QED
    BY <1>1, <1>4, <2>1, <2>2, <2>3 DEF GoesOn
<1>5. CASE ModelCall(r)
  <2>1. ai[r].pc = "call"
          /\ ai' = [ai EXCEPT ![r].calls = ai[r].calls + 1, ![r].pc = "meter"]
    BY <1>5 DEF ModelCall
  <2>2. ai'[r] = [ai[r] EXCEPT !.calls = ai[r].calls + 1, !.pc = "meter"]
    BY <1>1, <2>1
  <2>3. ai'[r].pc = "meter" /\ ai'[r].kind = ai[r].kind /\ ai'[r].amount = ai[r].amount
          /\ ai'[r].since = ai[r].since
    BY <1>2, <2>2 DEF AiType
  <2> QED
    BY <1>1, <1>2, <1>5 DEF ModelCall, GoesOn, AiType, AiStates, AsksForAll, Spending
<1>6. CASE CallAgain(r)
  BY <1>4, <1>6 DEF CallAgain, AiStates, Spending
<1>7. CASE AiFails(r) \/ AiStops(r)
  BY <1>4, <1>7 DEF AiFails, AiStops, AiStates, Spending
<1>8. CASE SaveRewritten(r)
  BY <1>4, <1>8 DEF SaveRewritten, AiStates, Spending
<1>9. CASE StoreImage(r)
  <2>1. ai[r].pc = "store" /\ ai' = [ai EXCEPT ![r].made = 1, ![r].pc = "charge"]
    BY <1>9 DEF StoreImage
  <2>2. ai'[r] = [ai[r] EXCEPT !.made = 1, !.pc = "charge"] /\ ai' = [ai EXCEPT ![r] = ai'[r]]
    BY <1>1, <2>1
  <2>3. ai[r].amount = 1 /\ ai[r].kind # "generate"
    BY <1>2, <2>1 DEF AsksForAll, Spending
  <2>4. /\ ai'[r] \in AiType /\ ai'[r].pc = "charge" /\ ai'[r].made = 1
        /\ ai'[r].kind = ai[r].kind /\ ai'[r].amount = ai[r].amount
        /\ ai'[r].since = ai[r].since
    <3>1. 1 \in 0..MaxCount
      BY <1>3
    <3> QED
      BY <1>2, <2>2, <3>1 DEF AiType, AiStates
  <2>5. AsksForAll(ai'[r])
    BY <2>3, <2>4 DEF AsksForAll
  <2> QED
    BY <1>1, <1>9, <2>1, <2>2, <2>4, <2>5 DEF StoreImage, GoesOn, Spending
<1> QED
  BY <1>5, <1>6, <1>7, <1>8, <1>9

LEMMA MeteringGoesOn ==
  ASSUME AllowanceInv, NEW r \in AiRequests, MeterCalls(r)
  PROVE  GoesOn(r)
<1>1. ai \in [AiRequests -> AiType] /\ metered \in Nat
  BY AllowanceTypes
<1>2. /\ ai[r] \in AiType /\ AsksForAll(ai[r]) /\ ai[r].pc = "meter"
      /\ ai[r].calls \in Nat /\ ai[r].amount \in 0..MaxCount
  BY RequestFacts DEF MeterCalls
<1>3. MaxCount \in Nat /\ MaxCount >= 1
  BY AllowanceAssumption
<1>4. PICK n \in IF ai[r].kind = "generate" THEN 1..ai[r].amount ELSE {1} :
        ai' = [ai EXCEPT ![r].made = n,
                         ![r].pc = IF ai[r].kind = "image" THEN "store" ELSE "charge"]
  BY DEF MeterCalls
<1>5. n \in 0..MaxCount /\ n <= ai[r].amount
  <2>1. CASE ai[r].kind = "generate"
    <3>1. n \in 1..ai[r].amount
      BY <1>4, <2>1
    <3> QED
      BY <1>2, <1>3, <3>1
  <2>2. CASE ai[r].kind # "generate"
    <3>1. n = 1 /\ ai[r].amount = 1
      BY <1>2, <1>4, <2>2 DEF AsksForAll, Spending
    <3> QED
      BY <1>3, <3>1
  <2> QED
    BY <2>1, <2>2
<1>6. PICK pc \in {"store", "charge"} :
        /\ ai' = [ai EXCEPT ![r].made = n, ![r].pc = pc]
        /\ pc = "store" => ai[r].kind = "image"
  BY <1>4
<1>7. ai'[r] = [ai[r] EXCEPT !.made = n, !.pc = pc] /\ ai' = [ai EXCEPT ![r] = ai'[r]]
  BY <1>1, <1>6
<1>8. /\ ai'[r] \in AiType /\ ai'[r].pc = pc /\ ai'[r].made = n
      /\ ai'[r].kind = ai[r].kind /\ ai'[r].amount = ai[r].amount
      /\ ai'[r].since = ai[r].since
  <2>1. ai[r] \in AiType /\ n \in 0..MaxCount /\ pc \in AiStates
    BY <1>2, <1>5 DEF AiStates
  <2> QED
    BY <1>7, <2>1 DEF AiType
<1>9. AsksForAll(ai'[r])
  BY <1>2, <1>5, <1>6, <1>8 DEF AsksForAll, Spending
<1>10. metered' \in Nat
  <2>1. metered' = metered + ai[r].calls
    BY DEF MeterCalls
  <2> QED
    BY <1>1, <1>2, <2>1
<1> QED
  BY <1>2, <1>6, <1>7, <1>8, <1>9, <1>10 DEF MeterCalls, GoesOn, Spending

(* A request is admitted where what it asks for is left; another one on    *)
(* its way makes the metric shared.                                        *)
LEMMA BeginningKeeps ==
  ASSUME AllowanceInv, NEW r \in AiRequests, NEW kind \in AiKinds, NEW n \in 1..MaxCount,
         AiBegins(r, kind, n)
  PROVE  AllowanceInv'
<1> DEFINE metric == MetricOf(kind)
           admitted == [NewAi EXCEPT !.kind = kind, !.amount = n, !.since = month,
                          !.pc = IF kind = "imageByHand" THEN "store" ELSE "call"]
<1>1. /\ month \in 1..Periods /\ month \in Nat
      /\ counter \in [1..Periods -> [Metrics -> Nat]]
      /\ shared \subseteq Metrics /\ metered \in Nat
      /\ ai \in [AiRequests -> AiType]
  BY AllowanceTypes
<1>2. MaxCount \in Nat /\ AiLimit \in Nat /\ Periods \in Nat /\ Periods >= 1
  BY AllowanceAssumption
<1>3. /\ ai[r] \in AiType /\ AsksForAll(ai[r]) /\ ai[r].since <= month
      /\ ai[r].pc = "new" /\ metric \in Metrics
      /\ month' = month /\ counter' = counter /\ metered' = metered
  BY RequestFacts DEF AiBegins, MetricOf, Metrics
<1>4. CASE ~CanUse(metric, n)
  <2>1. ai' = [ai EXCEPT ![r].pc = "refused"] /\ shared' = shared
    BY <1>4 DEF AiBegins
  <2>2. ai'[r] = [ai[r] EXCEPT !.pc = "refused"] /\ \A x \in AiRequests : x # r => ai'[x] = ai[x]
    BY <1>1, <2>1
  <2>3. ai'[r] \in AiType /\ ai'[r].pc = "refused" /\ ai'[r].since = ai[r].since
    BY <1>3, <2>2 DEF AiType, AiStates
  <2>4. ai' \in [AiRequests -> AiType]
    BY <1>1, <2>1, <2>2, <2>3
  <2>5. AllowanceTypeOK'
    BY <1>1, <1>3, <2>1, <2>4 DEF AllowanceTypeOK, AiType, AiStates
  <2>6. \A x \in AiRequests : AsksForAll(ai'[x]) /\ ai'[x].since <= month'
    <3>1. AsksForAll(ai'[r]) /\ ai'[r].since <= month'
      BY <1>3, <2>3 DEF AsksForAll, Spending
    <3> QED
      BY <1>3, <2>2, <3>1 DEF AllowanceInv
  <2>7. ASSUME NEW other \in Metrics \ shared' PROVE Fits(other)'
    <3>1. Fits(other)
      BY <2>1 DEF AllowanceInv
    <3>2. \A x \in AiRequests : Admitted(x, other)' => Admitted(x, other) /\ ai'[x] = ai[x]
      BY <2>2, <2>3 DEF Admitted
    <3> QED
      BY <1>3, <3>1, <3>2 DEF Fits
  <2> QED
    BY <2>5, <2>6, <2>7 DEF AllowanceInv
<1>5. CASE CanUse(metric, n)
  <2>1. /\ ai' = [ai EXCEPT ![r] = admitted]
        /\ shared' = IF \E q \in AiRequests : Admitted(q, metric)
                      THEN shared \cup {metric} ELSE shared
        /\ kind # "generate" => n = 1
    BY <1>5 DEF AiBegins
  <2>2. ai'[r] = admitted /\ \A x \in AiRequests : x # r => ai'[x] = ai[x]
    BY <1>1, <2>1
  <2>3. /\ admitted \in AiType /\ admitted.kind = kind /\ admitted.amount = n
        /\ admitted.since = month /\ admitted.pc # "charge"
        /\ admitted.pc = "store" => kind # "generate"
    <3>1. n \in 0..MaxCount /\ 0 \in 0..MaxCount /\ 0 \in 0..2
      BY <1>2
    <3> QED
      BY <1>1, <3>1 DEF NewAi, AiType, AiStates
  <2>4. ai' \in [AiRequests -> AiType]
    BY <1>1, <2>1, <2>2, <2>3
  <2>5. shared' \subseteq Metrics /\ shared \subseteq shared'
    BY <1>1, <1>3, <2>1
  <2>6. AllowanceTypeOK'
    BY <1>1, <1>3, <2>4, <2>5 DEF AllowanceTypeOK, AiType, AiStates
  <2>7. \A x \in AiRequests : AsksForAll(ai'[x]) /\ ai'[x].since <= month'
    <3>1. AsksForAll(ai'[r])
      BY <2>1, <2>2, <2>3 DEF AsksForAll, Spending
    <3>2. ai'[r].since <= month'
      <4>1. ai'[r].since = month
        BY <2>2, <2>3
      <4> QED
        BY <1>1, <1>3, <4>1
    <3> QED
      BY <1>3, <2>2, <3>1, <3>2 DEF AllowanceInv
  <2>8. counter[month][metric] + n <= AiLimit
    <3>1. counter[month][metric] \in Nat /\ n \in Nat /\ n >= 1
      BY <1>1, <1>2, <1>3
    <3>2. counter[month][metric] < AiLimit /\ AiLimit - counter[month][metric] >= n
      BY <1>2, <1>5, <3>1 DEF CanUse, Remaining
    <3> QED
      BY <1>2, <3>1, <3>2
  <2>9. ASSUME NEW other \in Metrics \ shared' PROVE Fits(other)'
    <3>1. Fits(other)
      BY <2>5 DEF AllowanceInv
    <3>2. \A x \in AiRequests : x # r /\ Admitted(x, other)' => Admitted(x, other)
      BY <2>2 DEF Admitted
    <3>3. Admitted(r, other)' => other = metric
      BY <2>2, <2>3 DEF Admitted
    <3>4. other = metric => \A x \in AiRequests : ~Admitted(x, other)
      BY <2>1
    <3>5. \A x, q \in AiRequests : Admitted(x, other)' /\ Admitted(q, other)' => x = q
      BY <3>1, <3>2, <3>3, <3>4 DEF Fits
    <3>6. ASSUME NEW x \in AiRequests, Admitted(x, other)', ai'[x].since = month'
          PROVE  counter'[month'][other] + ai'[x].amount <= AiLimit
      <4>1. CASE x = r
        BY <1>3, <2>2, <2>3, <2>8, <3>3, <3>6, <4>1
      <4>2. CASE x # r
        BY <1>3, <2>2, <3>1, <3>2, <3>6, <4>2 DEF Fits
      <4> QED
        BY <4>1, <4>2
    <3> QED
      BY <1>3, <3>1, <3>5, <3>6 DEF Fits
  <2> QED
    BY <2>6, <2>7, <2>9 DEF AllowanceInv
<1> QED
  BY <1>4, <1>5

(* What is charged was left over when it was admitted, if nobody else      *)
(* spent meanwhile and the month is still the same.                        *)
LEMMA ChargingKeeps ==
  ASSUME AllowanceInv, NEW r \in AiRequests, Charge(r)
  PROVE  AllowanceInv'
<1> DEFINE metric == MetricOf(ai[r].kind)
<1>1. /\ month \in 1..Periods /\ month \in Nat
      /\ counter \in [1..Periods -> [Metrics -> Nat]]
      /\ shared \subseteq Metrics /\ metered \in Nat
      /\ ai \in [AiRequests -> AiType]
  BY AllowanceTypes
<1>2. /\ ai[r] \in AiType /\ AsksForAll(ai[r]) /\ ai[r].since <= month
      /\ ai[r].pc = "charge" /\ metric \in Metrics
      /\ ai[r].made \in Nat /\ ai[r].amount \in Nat /\ ai[r].made <= ai[r].amount
      /\ month' = month /\ metered' = metered
  BY RequestFacts DEF Charge, AsksForAll
<1>3. PICK pc \in {"save", "ok"} : ai' = [ai EXCEPT ![r].pc = pc]
  BY DEF Charge
<1>4. ai'[r] = [ai[r] EXCEPT !.pc = pc] /\ \A x \in AiRequests : x # r => ai'[x] = ai[x]
  BY <1>1, <1>3
<1>5. ai'[r] \in AiType /\ ai'[r].pc = pc /\ ai'[r].since = ai[r].since
  BY <1>2, <1>4 DEF AiType, AiStates
<1>6. ai' \in [AiRequests -> AiType]
  BY <1>1, <1>3, <1>4, <1>5
<1>7. shared' = IF ai[r].since # month THEN shared \cup {metric} ELSE shared
  BY DEF Charge
<1>8. shared' \subseteq Metrics /\ shared \subseteq shared'
  BY <1>1, <1>2, <1>7
<1>9. /\ counter[month] \in [Metrics -> Nat]
      /\ counter[month][metric] \in Nat
      /\ counter[month][metric] + ai[r].made \in Nat
  BY <1>1, <1>2
<1>10. /\ counter' \in [1..Periods -> [Metrics -> Nat]]
       /\ counter'[month][metric] = counter[month][metric] + ai[r].made
       /\ \A m \in 1..Periods : m # month => counter'[m] = counter[m]
       /\ \A other \in Metrics : other # metric => counter'[month][other] = counter[month][other]
  <2>1. counter' = [counter EXCEPT ![month] =
                      [counter[month] EXCEPT ![metric] = counter[month][metric] + ai[r].made]]
    BY DEF Charge
  <2> QED
    BY <1>1, <1>2, <1>9, <2>1
<1>11. AllowanceTypeOK'
  BY <1>1, <1>2, <1>6, <1>8, <1>10 DEF AllowanceTypeOK, AiType, AiStates
<1>12. \A x \in AiRequests : AsksForAll(ai'[x]) /\ ai'[x].since <= month'
  <2>1. AsksForAll(ai'[r]) /\ ai'[r].since <= month'
    BY <1>2, <1>5 DEF AsksForAll, Spending
  <2> QED
    BY <1>2, <1>4, <2>1 DEF AllowanceInv
<1>13. \A x \in AiRequests, other \in Metrics :
         Admitted(x, other)' => x # r /\ Admitted(x, other) /\ ai'[x] = ai[x]
  BY <1>4, <1>5 DEF Admitted
<1>14. ASSUME NEW other \in Metrics \ shared' PROVE Fits(other)'
  <2>1. Fits(other)
    BY <1>8 DEF AllowanceInv
  <2>2. CASE other # metric
    <3>1. \A m \in 1..Periods : counter'[m][other] = counter[m][other]
      BY <1>10, <2>2
    <3> QED
      BY <1>1, <1>2, <1>13, <2>1, <3>1 DEF Fits
  <2>3. CASE other = metric
    <3>1. ai[r].since = month
      BY <1>2, <1>7, <2>3
    <3>2. Admitted(r, other)
      BY <1>2, <2>3 DEF Admitted
    <3>3. counter[month][metric] + ai[r].amount <= AiLimit
      BY <2>1, <2>3, <3>1, <3>2 DEF Fits
    <3>4. counter'[month][metric] <= AiLimit
      <4>1. AiLimit \in Nat
        BY AllowanceAssumption
      <4>2. ai[r].made \in Nat /\ ai[r].amount \in Nat /\ ai[r].made <= ai[r].amount
        BY <1>2
      <4>3. counter[month][metric] + ai[r].made <= AiLimit
        BY <1>9, <3>3, <4>1, <4>2
      <4> QED
        BY <1>10, <4>3
    <3>5. \A m \in 1..Periods : counter'[m][other] <= AiLimit
      BY <1>10, <2>1, <2>3, <3>4 DEF Fits
    <3>6. \A x \in AiRequests : ~Admitted(x, other)'
      BY <1>13, <2>1, <3>2 DEF Fits
    <3> QED
      BY <3>5, <3>6 DEF Fits
  <2> QED
    BY <2>2, <2>3
<1> QED
  BY <1>11, <1>12, <1>14 DEF AllowanceInv

LEMMA TurningKeeps ==
  ASSUME AllowanceInv, MonthTurns
  PROVE  AllowanceInv'
<1>1. /\ month \in 1..Periods /\ month \in Nat
      /\ month < Periods /\ month' = month + 1
      /\ counter' = counter /\ metered' = metered /\ ai' = ai /\ shared' = shared
  BY AllowanceTypes DEF MonthTurns
<1>2. month' \in 1..Periods
  <2>1. Periods \in Nat
    BY AllowanceAssumption
  <2> QED
    BY <1>1, <2>1
<1>3. AllowanceTypeOK'
  BY <1>1, <1>2 DEF AllowanceInv, AllowanceTypeOK
<1>4. ASSUME NEW x \in AiRequests
      PROVE  AsksForAll(ai'[x]) /\ ai'[x].since <= month' /\ ai'[x].since # month'
  <2>1. AsksForAll(ai[x]) /\ ai[x].since \in Nat /\ ai[x].since <= month
    BY RequestFacts
  <2>2. ai[x].since <= month' /\ ai[x].since # month'
    BY <1>1, <2>1
  <2> QED
    BY <1>1, <2>1, <2>2
<1>5. ASSUME NEW metric \in Metrics \ shared' PROVE Fits(metric)'
  <2>1. Fits(metric) /\ \A x \in AiRequests : Admitted(x, metric)' => Admitted(x, metric)
    BY <1>1 DEF AllowanceInv, Admitted
  <2> QED
    BY <1>1, <1>4, <2>1 DEF Fits
<1> QED
  BY <1>3, <1>4, <1>5 DEF AllowanceInv

-----------------------------------------------------------------------------
LEMMA AllowanceStep == AllowanceInv /\ [AllowanceNext]_allowanceVars => AllowanceInv'
<1> SUFFICES ASSUME AllowanceInv, [AllowanceNext]_allowanceVars PROVE AllowanceInv'
  OBVIOUS
<1>1. ASSUME NEW r \in AiRequests, NEW k \in AiKinds, NEW n \in 1..MaxCount, AiBegins(r, k, n)
      PROVE  AllowanceInv'
  BY <1>1, BeginningKeeps
<1>2. ASSUME NEW r \in AiRequests,
             ModelCall(r) \/ CallAgain(r) \/ AiFails(r) \/ StoreImage(r)
               \/ SaveRewritten(r) \/ AiStops(r)
      PROVE  AllowanceInv'
  <2>1. GoesOn(r)
    BY <1>2, PlainSteps
  <2> QED
    BY <2>1, GoingOnKeeps
<1>3. ASSUME NEW r \in AiRequests, MeterCalls(r) PROVE AllowanceInv'
  <2>1. GoesOn(r)
    BY <1>3, MeteringGoesOn
  <2> QED
    BY <2>1, GoingOnKeeps
<1>4. ASSUME NEW r \in AiRequests, Charge(r) PROVE AllowanceInv'
  BY <1>4, ChargingKeeps
<1>5. CASE MonthTurns
  BY <1>5, TurningKeeps
<1>6. CASE UNCHANGED allowanceVars
  BY <1>6 DEF allowanceVars, AllowanceInv, AllowanceTypeOK, Fits, Admitted
<1> QED
  BY <1>1, <1>2, <1>3, <1>4, <1>5, <1>6 DEF AllowanceNext

(* No month's counter passes the plan's allowance unless requests for it   *)
(* overlapped or ran into another month (assertCanUse, usage.ts:44, before *)
(* the model is asked; recordQuotaUsage, usage.ts:66, after).              *)
THEOREM AllowanceIsKept == AllowanceSpec => []AllowanceHolds
<1>1. AllowanceInv => AllowanceHolds
  BY DEF AllowanceInv, AllowanceHolds, Fits
<1> QED
  BY <1>1, AllowanceInitInv, AllowanceStep, PTL DEF AllowanceSpec

-----------------------------------------------------------------------------
(***************************************************************************)
(* Images.  A ready image has its file until it is deleted, files go after *)
(* the row, and whoever attaches an image found it ready: so a blocking    *)
(* publication has images that are not being deleted, or raced with it.    *)
(***************************************************************************)
ImageJobs ==
  [pc: {"new", "done"}]
    \cup [pc: {"store", "ready", "markFailed"}, m: Assets]
    \cup [pc: {"clear", "fill"}, p: ImgPosts, ms: SUBSET Assets]
    \cup [pc: {"count", "soft", "detach", "files"}, m: Assets, key: BOOLEAN]

ImageRows == [status: {"none", "processing", "ready", "failed"},
              deleted: BOOLEAN, key: BOOLEAN, file: BOOLEAN]

ImagesTyped ==
  /\ asset \in [Assets -> ImageRows]
  /\ attached \in [ImgPosts -> SUBSET Assets]
  /\ DOMAIN publication = ImgPosts
  /\ job \in [ImgRequests -> ImageJobs]

Fetchable(m) == asset[m].file \/ asset[m].deleted
WasReady(m) == asset[m].status = "ready" \/ m \in raced

ReadyHasFile == \A m \in Assets : asset[m].status = "ready" => Fetchable(m)

JobHolds(j) ==
  /\ j.pc = "ready" => Fetchable(j.m)
  /\ j.pc \in {"detach", "files"} => asset[j.m].deleted
  /\ j.pc \in {"clear", "fill"} => \A m \in j.ms : WasReady(m)

AttachedWasReady == \A p \in ImgPosts : \A m \in attached[p] : WasReady(m)

BlockingIsSafe ==
  \A p \in ImgPosts : publication[p] \in Blocking =>
    \A m \in attached[p] \ raced : ~Doomed(m)

ImagesInv ==
  /\ ImagesTyped
  /\ ReadyHasFile
  /\ \A r \in ImgRequests : JobHolds(job[r])
  /\ AttachedWasReady
  /\ BlockingIsSafe

LEMMA ImageJobShapes ==
  ASSUME NEW j \in ImageJobs
  PROVE  /\ "pc" \in DOMAIN j
         /\ j.pc \in {"store", "ready", "markFailed", "count", "soft", "detach", "files"} =>
              j.m \in Assets
         /\ j.pc \in {"clear", "fill"} => j.p \in ImgPosts /\ j.ms \subseteq Assets
         /\ j.pc \in {"clear", "fill"} =>
              LET k == [j EXCEPT !.pc = "fill"] IN
              k \in ImageJobs /\ k.pc = "fill" /\ k.ms = j.ms
         /\ \A pc \in {"soft", "detach", "files"} :
              j.pc \in {"count", "soft", "detach", "files"} =>
                LET k == [j EXCEPT !.pc = pc] IN
                k \in ImageJobs /\ k.pc = pc /\ k.m = j.m
<1>1. CASE j \in [pc: {"new", "done"}]
  BY <1>1 DEF ImageJobs
<1>2. CASE j \in [pc: {"store", "ready", "markFailed"}, m: Assets]
  BY <1>2 DEF ImageJobs
<1>3. CASE j \in [pc: {"clear", "fill"}, p: ImgPosts, ms: SUBSET Assets]
  BY <1>3 DEF ImageJobs
<1>4. CASE j \in [pc: {"count", "soft", "detach", "files"}, m: Assets, key: BOOLEAN]
  BY <1>4 DEF ImageJobs
<1> QED
  BY <1>1, <1>2, <1>3, <1>4 DEF ImageJobs

LEMMA ImagesInitInv == ImagesInit => ImagesInv
<1> SUFFICES ASSUME ImagesInit PROVE ImagesInv
  OBVIOUS
<1>1. ImagesTyped
  <2>1. NoAsset \in ImageRows /\ Stored \in ImageRows /\ NewJob \in ImageJobs
    BY DEF NoAsset, Stored, NewJob, ImageRows, ImageJobs
  <2> QED
    BY <2>1 DEF ImagesInit, ImagesTyped
<1>2. ReadyHasFile
  <2>1. \A m \in Assets : asset[m] = NoAsset \/ asset[m] = Stored
    BY DEF ImagesInit
  <2> QED
    BY <2>1 DEF ReadyHasFile, Fetchable, NoAsset, Stored
<1>3. \A r \in ImgRequests : job[r].pc = "new"
  BY DEF ImagesInit, NewJob
<1> QED
  BY <1>1, <1>2, <1>3 DEF ImagesInit, ImagesInv, JobHolds, AttachedWasReady, BlockingIsSafe

(* What no operation undoes.                                               *)
ImagesKeep ==
  /\ asset' \in [Assets -> ImageRows]
  /\ raced \subseteq raced'
  /\ \A m \in Assets :
       /\ asset[m].deleted => asset'[m].deleted
       /\ asset[m].file => asset'[m].file \/ asset'[m].deleted
       /\ asset[m].status = "ready" => asset'[m].status = "ready" \/ m \in raced'
       /\ asset'[m].status = "ready" =>
            asset[m].status = "ready" \/ asset'[m].file \/ asset'[m].deleted

(* A request goes on to next; the publications are as they were, and it    *)
(* counted the publications if it is about to delete.                      *)
LEMMA ImageRequestGoesOn ==
  ASSUME ImagesInv, ImagesKeep, NEW r \in ImgRequests, NEW next \in ImageJobs,
         job' = [job EXCEPT ![r] = next], JobHolds(next)',
         attached' \in [ImgPosts -> SUBSET Assets], UNCHANGED publication,
         \A p \in ImgPosts : \A m \in attached'[p] \ attached[p] :
           WasReady(m)' /\ (Doomed(m) => m \in raced'),
         \A m \in Assets : asset'[m].deleted => Doomed(m),
         next.pc = "soft" =>
           \A p \in ImgPosts : publication[p] \in Blocking => next.m \notin attached'[p]
  PROVE  ImagesInv'
<1>1. /\ job'[r] = next /\ \A x \in ImgRequests \ {r} : job'[x] = job[x]
      /\ job' \in [ImgRequests -> ImageJobs]
  BY DEF ImagesInv, ImagesTyped
<1>2. ImagesTyped'
  BY <1>1 DEF ImagesInv, ImagesTyped, ImagesKeep
<1>3. ReadyHasFile'
  BY DEF ImagesInv, ReadyHasFile, Fetchable, ImagesKeep
<1>4. \A m \in Assets : WasReady(m) => WasReady(m)'
  BY DEF ImagesKeep, WasReady
<1>5. ASSUME NEW x \in ImgRequests PROVE JobHolds(job[x])'
  <2>1. CASE x = r
    BY <1>1, <2>1 DEF JobHolds, Fetchable, WasReady
  <2>2. CASE x # r
    <3>1. PICK j \in ImageJobs : j = job[x] /\ j = job'[x]
      BY <1>1, <2>2
    <3>2. JobHolds(j)
      BY <3>1 DEF ImagesInv
    <3>3. JobHolds(j)'
      BY <1>4, <3>2, ImageJobShapes DEF JobHolds, Fetchable, ImagesKeep
    <3> QED
      BY <3>1, <3>3 DEF JobHolds, Fetchable, WasReady
  <2> QED
    BY <2>1, <2>2
<1>6. AttachedWasReady'
  BY <1>4 DEF ImagesInv, ImagesTyped, AttachedWasReady
<1>7. BlockingIsSafe'
  <2> SUFFICES ASSUME NEW p \in ImgPosts, publication[p] \in Blocking,
                      NEW m \in attached'[p] \ raced', Doomed(m)'
               PROVE  FALSE
    BY DEF BlockingIsSafe
  <2>1. m \in Assets /\ ~Doomed(m)
    BY DEF ImagesInv, BlockingIsSafe, ImagesKeep
  <2>2. ~asset'[m].deleted
    BY <2>1
  <2>3. PICK x \in ImgRequests : job'[x].pc = "soft" /\ job'[x].m = m
    BY <2>2 DEF Doomed
  <2>4. x = r
    BY <1>1, <2>1, <2>3 DEF Doomed
  <2> QED
    BY <1>1, <2>3, <2>4
<1> QED
  BY <1>2, <1>3, <1>5, <1>6, <1>7 DEF ImagesInv

(* Uploads: an asset that is ready was stored first.                       *)
LEMMA ImageUploads ==
  ASSUME ImagesInv, NEW r \in ImgRequests,
         \/ \E m \in Assets : UploadCreates(r, m)
         \/ UploadStores(r) \/ UploadReady(r) \/ UploadMarksFailed(r)
  PROVE  ImagesInv'
<1>1. /\ asset \in [Assets -> ImageRows] /\ attached \in [ImgPosts -> SUBSET Assets]
      /\ job[r] \in ImageJobs /\ JobHolds(job[r])
      /\ UNCHANGED <<attached, publication>>
  BY DEF ImagesInv, ImagesTyped, UploadCreates, UploadStores, UploadReady,
         UploadMarksFailed, imagePubs
<1>2. PICK m \in Assets, next \in ImageJobs :
        /\ job' = [job EXCEPT ![r] = next]
        /\ \A x \in Assets \ {m} : asset'[x] = asset[x]
        /\ asset'[m] \in ImageRows /\ asset' \in [Assets -> ImageRows]
        /\ asset'[m].deleted = asset[m].deleted
        /\ asset[m].file => asset'[m].file
        /\ raced \subseteq raced'
        /\ asset[m].status = "ready" => asset'[m].status = "ready" \/ m \in raced'
        /\ asset'[m].status = "ready" => asset[m].status = "ready" \/ Fetchable(m)
        /\ next.pc \in {"store", "markFailed", "done"} \/ (next.pc = "ready" /\ next.m = m
                                                           /\ asset'[m].file)
  <2>1. ASSUME NEW m \in Assets, UploadCreates(r, m)
        PROVE  LET next == [pc |-> "store", m |-> m] IN
               next \in ImageJobs /\ next.pc = "store" /\ job' = [job EXCEPT ![r] = next]
    BY <2>1 DEF UploadCreates, Goes, ImageJobs
  <2>2. ASSUME NEW m \in Assets, NEW status \in {"processing", "ready", "failed"},
               asset' = [asset EXCEPT ![m].status = status]
        PROVE  /\ \A x \in Assets \ {m} : asset'[x] = asset[x]
               /\ asset'[m] \in ImageRows /\ asset' \in [Assets -> ImageRows]
               /\ asset'[m].deleted = asset[m].deleted /\ asset'[m].file = asset[m].file
               /\ asset'[m].status = status
    BY <1>1, <2>2 DEF ImageRows
  <2>3. CASE \E m \in Assets : UploadCreates(r, m)
    <3>1. PICK m \in Assets : UploadCreates(r, m)
      BY <2>3
    <3>2. PICK next \in ImageJobs : next.pc = "store" /\ job' = [job EXCEPT ![r] = next]
      BY <2>1, <3>1
    <3>3. /\ asset' = [asset EXCEPT ![m].status = "processing"]
          /\ asset[m].status = "none" /\ raced' = raced
      BY <3>1 DEF UploadCreates
    <3>4. /\ \A x \in Assets \ {m} : asset'[x] = asset[x]
          /\ asset'[m] \in ImageRows /\ asset' \in [Assets -> ImageRows]
          /\ asset'[m].deleted = asset[m].deleted /\ asset'[m].file = asset[m].file
          /\ asset'[m].status = "processing"
      BY <2>2, <3>3
    <3> QED
      BY <3>2, <3>3, <3>4
  <2>4. CASE UploadStores(r)
    <3>1. job[r].m \in Assets
      BY <1>1, <2>4, ImageJobShapes DEF UploadStores
    <3>2. PICK m \in Assets : m = job[r].m
      BY <3>1
    <3>3. CASE asset' = Put(job[r].m) /\ Goes(r, [pc |-> "ready", m |-> job[r].m])
      <4>1. PICK next \in ImageJobs : next = [pc |-> "ready", m |-> m]
        BY DEF ImageJobs
      <4>2. next.pc = "ready" /\ next.m = m /\ job' = [job EXCEPT ![r] = next]
        BY <3>2, <3>3, <4>1 DEF Goes
      <4>3. asset' = [asset EXCEPT ![m].file = TRUE] /\ raced' = raced
        BY <2>4, <3>2, <3>3 DEF Put, UploadStores
      <4>4. /\ \A x \in Assets \ {m} : asset'[x] = asset[x]
            /\ asset'[m] \in ImageRows /\ asset' \in [Assets -> ImageRows]
            /\ asset'[m].deleted = asset[m].deleted /\ asset'[m].file
            /\ asset'[m].status = asset[m].status
        BY <1>1, <4>3 DEF ImageRows
      <4> QED
        BY <4>2, <4>3, <4>4
    <3>4. CASE Goes(r, [pc |-> "markFailed", m |-> job[r].m]) /\ UNCHANGED asset
      <4>1. PICK next \in ImageJobs : next = [pc |-> "markFailed", m |-> m]
        BY DEF ImageJobs
      <4>2. next.pc = "markFailed" /\ job' = [job EXCEPT ![r] = next]
        BY <3>2, <3>4, <4>1 DEF Goes
      <4> QED
        BY <1>1, <2>4, <3>4, <4>2 DEF UploadStores
    <3> QED
      BY <2>4, <3>3, <3>4 DEF UploadStores
  <2>5. CASE UploadReady(r)
    <3>1. job[r].m \in Assets /\ Fetchable(job[r].m)
      BY <1>1, <2>5, ImageJobShapes DEF UploadReady, JobHolds
    <3>2. PICK m \in Assets : m = job[r].m /\ Fetchable(m)
      BY <3>1
    <3>3. Done \in ImageJobs /\ [pc |-> "markFailed", m |-> m] \in ImageJobs
          /\ Done.pc = "done" /\ [pc |-> "markFailed", m |-> m].pc = "markFailed"
      BY DEF ImageJobs, Done
    <3>4. PICK next \in ImageJobs : /\ next.pc \in {"done", "markFailed"}
                                    /\ job' = [job EXCEPT ![r] = next]
      BY <2>5, <3>2, <3>3 DEF UploadReady, Goes
    <3>5. raced' = raced
      BY <2>5 DEF UploadReady
    <3>6. CASE asset' = [asset EXCEPT ![m].status = "ready", ![m].key = TRUE]
      <4>1. /\ \A x \in Assets \ {m} : asset'[x] = asset[x]
            /\ asset'[m] \in ImageRows /\ asset' \in [Assets -> ImageRows]
            /\ asset'[m].deleted = asset[m].deleted /\ asset'[m].file = asset[m].file
            /\ asset'[m].status = "ready"
        BY <1>1, <3>6 DEF ImageRows
      <4> QED
        BY <3>2, <3>4, <3>5, <4>1
    <3>7. CASE UNCHANGED asset
      BY <1>1, <3>4, <3>5, <3>7
    <3> QED
      BY <2>5, <3>2, <3>6, <3>7 DEF UploadReady
  <2>6. CASE UploadMarksFailed(r)
    <3>1. job[r].m \in Assets
      BY <1>1, <2>6, ImageJobShapes DEF UploadMarksFailed
    <3>2. PICK m \in Assets : m = job[r].m
      BY <3>1
    <3>3. PICK next \in ImageJobs : next.pc = "done" /\ job' = [job EXCEPT ![r] = next]
      BY <2>6 DEF UploadMarksFailed, Goes, Done, ImageJobs
    <3>4. /\ asset' = [asset EXCEPT ![m].status = "failed"] /\ raced \subseteq raced'
          /\ asset[m].status = "ready" => m \in raced'
      BY <2>6, <3>2 DEF UploadMarksFailed
    <3>5. /\ \A x \in Assets \ {m} : asset'[x] = asset[x]
          /\ asset'[m] \in ImageRows /\ asset' \in [Assets -> ImageRows]
          /\ asset'[m].deleted = asset[m].deleted /\ asset'[m].file = asset[m].file
          /\ asset'[m].status = "failed"
      BY <2>2, <3>4
    <3> QED
      BY <3>3, <3>4, <3>5
  <2> QED
    BY <2>3, <2>4, <2>5, <2>6
<1>3. ImagesKeep
  BY <1>1, <1>2 DEF ImagesKeep, Fetchable
<1>4. JobHolds(next)'
  BY <1>2 DEF JobHolds, Fetchable
<1>5. \A x \in Assets : asset'[x].deleted => Doomed(x)
  BY <1>2 DEF Doomed
<1> QED
  BY <1>1, <1>2, <1>3, <1>4, <1>5, ImageRequestGoesOn

(* setPostMedia: what it found ready is attached, and is in the history if *)
(* it is being deleted by then.                                            *)
LEMMA ImageLists ==
  ASSUME ImagesInv, NEW r \in ImgRequests,
         \/ \E p \in ImgPosts, ms \in SUBSET Assets : SetFinds(r, p, ms)
         \/ SetClears(r) \/ SetFills(r)
  PROVE  ImagesInv'
<1>1. /\ asset \in [Assets -> ImageRows] /\ attached \in [ImgPosts -> SUBSET Assets]
      /\ job[r] \in ImageJobs /\ JobHolds(job[r])
      /\ UNCHANGED <<asset, publication>> /\ raced \subseteq raced'
  BY DEF ImagesInv, ImagesTyped, SetFinds, SetClears, SetFills, imagePubs
<1>2. ImagesKeep
  BY <1>1 DEF ImagesKeep
<1>3. \A x \in Assets : asset'[x].deleted => Doomed(x)
  BY <1>1 DEF Doomed
<1>4. Done \in ImageJobs /\ Done.pc = "done"
  BY DEF ImageJobs, Done
<1>5. CASE \E p \in ImgPosts, ms \in SUBSET Assets : SetFinds(r, p, ms)
  <2>1. PICK p \in ImgPosts, ms \in SUBSET Assets : SetFinds(r, p, ms)
    BY <1>5
  <2>2. PICK next \in ImageJobs : next = [pc |-> "clear", p |-> p, ms |-> ms]
    BY DEF ImageJobs
  <2>3. /\ job' = [job EXCEPT ![r] = next] /\ next.pc = "clear" /\ next.ms = ms
        /\ UNCHANGED <<attached, raced>>
    BY <2>1, <2>2 DEF SetFinds, Goes
  <2>4. \A m \in ms : WasReady(m)'
    BY <1>1, <2>1 DEF SetFinds, Usable, WasReady
  <2>5. JobHolds(next)'
    BY <2>3, <2>4 DEF JobHolds
  <2> QED
    BY <1>1, <1>2, <1>3, <2>3, <2>5, ImageRequestGoesOn
<1>6. CASE SetClears(r)
  <2>1. PICK j \in ImageJobs : j = job[r] /\ JobHolds(j) /\ j.pc = "clear"
    BY <1>1, <1>6 DEF SetClears
  <2>2. PICK next \in ImageJobs :
          /\ job' = [job EXCEPT ![r] = next]
          /\ next.pc = "done" \/ (next.pc = "fill" /\ next.ms = j.ms)
    <3>1. CASE job[r].ms = {}
      BY <1>4, <1>6, <3>1 DEF SetClears, Goes
    <3>2. CASE job[r].ms # {}
      <4>1. PICK next \in ImageJobs : next = [j EXCEPT !.pc = "fill"]
        BY <2>1, ImageJobShapes
      <4>2. next.pc = "fill" /\ next.ms = j.ms
        BY <2>1, <4>1, ImageJobShapes
      <4>3. job' = [job EXCEPT ![r] = next]
        BY <1>6, <2>1, <3>2, <4>1 DEF SetClears, Goes
      <4> QED
        BY <4>2, <4>3
    <3> QED
      BY <3>1, <3>2
  <2>3. /\ attached' = [attached EXCEPT ![j.p] = {}] /\ raced' = raced
        /\ j.p \in ImgPosts
    BY <1>6, <2>1, ImageJobShapes DEF SetClears
  <2>4. /\ attached' \in [ImgPosts -> SUBSET Assets]
        /\ \A p \in ImgPosts : attached'[p] \subseteq attached[p]
    BY <1>1, <2>3
  <2>5. JobHolds(next)'
    BY <1>1, <2>1, <2>2, <2>3 DEF JobHolds, WasReady
  <2> QED
    BY <1>1, <1>2, <1>3, <2>2, <2>4, <2>5, ImageRequestGoesOn
<1>7. CASE SetFills(r)
  <2>1. PICK j \in ImageJobs : j = job[r] /\ JobHolds(j) /\ j.pc = "fill"
    BY <1>1, <1>7 DEF SetFills
  <2>2. job' = [job EXCEPT ![r] = Done]
        /\ raced' = raced \cup {m \in j.ms : Doomed(m)}
        /\ \/ attached' = [attached EXCEPT ![j.p] = @ \cup j.ms]
           \/ attached' = attached
    BY <1>7, <2>1 DEF SetFills, Goes
  <2>3. j.p \in ImgPosts /\ j.ms \subseteq Assets
    BY <2>1, ImageJobShapes
  <2>4. /\ attached' \in [ImgPosts -> SUBSET Assets]
        /\ \A p \in ImgPosts : attached'[p] \ attached[p] \subseteq j.ms
    BY <1>1, <2>2, <2>3
  <2>5. \A m \in j.ms : WasReady(m)' /\ (Doomed(m) => m \in raced')
    BY <1>1, <2>1, <2>2 DEF JobHolds, WasReady
  <2>6. JobHolds(Done)'
    BY <1>4 DEF JobHolds
  <2>7. \A p \in ImgPosts : \A m \in attached'[p] \ attached[p] :
          WasReady(m)' /\ (Doomed(m) => m \in raced')
    BY <2>4, <2>5
  <2> QED
    BY <1>1, <1>2, <1>3, <1>4, <2>2, <2>4, <2>6, <2>7, ImageRequestGoesOn
<1> QED
  BY <1>5, <1>6, <1>7

(* deleteMedia: the publications were counted before the row is deleted,   *)
(* the row is before the lists and the files are touched.                  *)
LEMMA ImageDeletes ==
  ASSUME ImagesInv, NEW r \in ImgRequests,
         \/ \E m \in Assets : DeleteFinds(r, m)
         \/ DeleteCounts(r) \/ DeleteRow(r) \/ DeleteDetaches(r) \/ DeleteFiles(r)
         \/ ImgStops(r)
  PROVE  ImagesInv'
<1>1. /\ asset \in [Assets -> ImageRows] /\ attached \in [ImgPosts -> SUBSET Assets]
      /\ job[r] \in ImageJobs /\ JobHolds(job[r])
      /\ UNCHANGED <<publication, raced>>
  BY DEF ImagesInv, ImagesTyped, DeleteFinds, DeleteCounts, DeleteRow, DeleteDetaches,
         DeleteFiles, ImgStops, imagePubs
<1>2. PICK j \in ImageJobs : j = job[r] /\ JobHolds(j)
  BY <1>1
<1>3. Done \in ImageJobs /\ Done.pc = "done"
  BY DEF ImageJobs, Done
<1>4. ASSUME UNCHANGED asset
      PROVE  ImagesKeep /\ \A x \in Assets : asset'[x].deleted => Doomed(x)
  BY <1>1, <1>4 DEF ImagesKeep, Doomed
<1>5. CASE \E m \in Assets : DeleteFinds(r, m)
  <2>1. PICK m \in Assets : DeleteFinds(r, m)
    BY <1>5
  <2>2. asset[m].key \in BOOLEAN
    BY <1>1 DEF ImageRows
  <2>3. PICK next \in ImageJobs : next = [pc |-> "count", m |-> m, key |-> asset[m].key]
    BY <2>2 DEF ImageJobs
  <2>4. /\ job' = [job EXCEPT ![r] = next] /\ next.pc = "count"
        /\ UNCHANGED <<asset, attached>>
    BY <2>1, <2>3 DEF DeleteFinds, Goes
  <2>5. JobHolds(next)'
    BY <2>4 DEF JobHolds
  <2> QED
    BY <1>1, <1>4, <2>4, <2>5, ImageRequestGoesOn
<1>6. CASE DeleteCounts(r) /\ ~Blocked(j.m)
  <2>1. j.pc = "count" /\ UNCHANGED <<asset, attached>>
    BY <1>2, <1>6 DEF DeleteCounts
  <2>2. PICK next \in ImageJobs :
          next = [j EXCEPT !.pc = "soft"] /\ next.pc = "soft" /\ next.m = j.m
    BY <2>1, ImageJobShapes
  <2>3. job' = [job EXCEPT ![r] = next]
    BY <1>2, <1>6, <2>2 DEF DeleteCounts, Goes
  <2>4. JobHolds(next)'
    BY <2>2 DEF JobHolds
  <2>5. \A p \in ImgPosts : publication[p] \in Blocking => next.m \notin attached'[p]
    BY <1>6, <2>1, <2>2 DEF Blocked
  <2> QED
    BY <1>1, <1>4, <2>1, <2>3, <2>4, <2>5, ImageRequestGoesOn
<1>7. CASE ImgStops(r) \/ (DeleteCounts(r) /\ Blocked(j.m))
  <2>1. UNCHANGED <<asset, attached>> /\ job' = [job EXCEPT ![r] = Done]
    BY <1>2, <1>7 DEF ImgStops, DeleteCounts, Goes
  <2>2. JobHolds(Done)'
    BY <1>3 DEF JobHolds
  <2> QED
    BY <1>1, <1>3, <1>4, <2>1, <2>2, ImageRequestGoesOn
<1>8. CASE DeleteRow(r)
  <2>1. j.pc = "soft" /\ j.m \in Assets
    BY <1>2, <1>8, ImageJobShapes DEF DeleteRow
  <2>2. PICK next \in ImageJobs :
          next = [j EXCEPT !.pc = "detach"] /\ next.pc = "detach" /\ next.m = j.m
    BY <2>1, ImageJobShapes
  <2>3. /\ job' = [job EXCEPT ![r] = next] /\ UNCHANGED attached
        /\ asset' = [asset EXCEPT ![j.m].deleted = TRUE]
    BY <1>2, <1>8, <2>2 DEF DeleteRow, Goes
  <2>4. /\ asset' \in [Assets -> ImageRows] /\ asset'[j.m].deleted = TRUE
        /\ asset'[j.m].status = asset[j.m].status /\ asset'[j.m].file = asset[j.m].file
        /\ \A x \in Assets \ {j.m} : asset'[x] = asset[x]
    BY <1>1, <2>1, <2>3 DEF ImageRows
  <2>5. ImagesKeep
    BY <1>1, <2>4 DEF ImagesKeep
  <2>6. \A x \in Assets : asset'[x].deleted => Doomed(x)
    BY <1>2, <2>1, <2>4 DEF Doomed
  <2>7. JobHolds(next)'
    BY <2>2, <2>4 DEF JobHolds
  <2> QED
    BY <1>1, <2>2, <2>3, <2>5, <2>6, <2>7, ImageRequestGoesOn
<1>9. CASE DeleteDetaches(r)
  <2>1. j.pc = "detach" /\ j.m \in Assets /\ asset[j.m].deleted
    BY <1>2, <1>9, ImageJobShapes DEF DeleteDetaches, JobHolds
  <2>2. PICK next \in ImageJobs :
          next = [j EXCEPT !.pc = "files"] /\ next.pc = "files" /\ next.m = j.m
    BY <2>1, ImageJobShapes
  <2>3. /\ job' = [job EXCEPT ![r] = next] /\ UNCHANGED asset
        /\ attached' = [p \in ImgPosts |-> attached[p] \ {j.m}]
    BY <1>2, <1>9, <2>2 DEF DeleteDetaches, Goes
  <2>4. /\ attached' \in [ImgPosts -> SUBSET Assets]
        /\ \A p \in ImgPosts : attached'[p] \subseteq attached[p]
    BY <1>1, <2>3
  <2>5. JobHolds(next)'
    BY <2>1, <2>2, <2>3 DEF JobHolds
  <2> QED
    BY <1>1, <1>4, <2>2, <2>3, <2>4, <2>5, ImageRequestGoesOn
<1>10. CASE DeleteFiles(r)
  <2>1. j.pc = "files" /\ j.m \in Assets /\ asset[j.m].deleted
    BY <1>2, <1>10, ImageJobShapes DEF DeleteFiles, JobHolds
  <2>2. job' = [job EXCEPT ![r] = Done] /\ UNCHANGED attached
    BY <1>10 DEF DeleteFiles, Goes
  <2>3. asset' = asset \/ asset' = [asset EXCEPT ![j.m].file = FALSE]
    BY <1>2, <1>10 DEF DeleteFiles, Erase
  <2>4. /\ asset' \in [Assets -> ImageRows]
        /\ asset'[j.m].status = asset[j.m].status
        /\ asset'[j.m].deleted = asset[j.m].deleted
        /\ \A x \in Assets \ {j.m} : asset'[x] = asset[x]
    <3>1. CASE asset' = asset
      BY <1>1, <3>1
    <3>2. CASE asset' = [asset EXCEPT ![j.m].file = FALSE]
      BY <1>1, <2>1, <3>2 DEF ImageRows
    <3> QED
      BY <2>3, <3>1, <3>2
  <2>5. ImagesKeep
    BY <1>1, <2>1, <2>4 DEF ImagesKeep
  <2>6. \A x \in Assets : asset'[x].deleted => Doomed(x)
    BY <2>4 DEF Doomed
  <2>7. JobHolds(Done)'
    BY <1>3 DEF JobHolds
  <2> QED
    BY <1>1, <1>3, <2>2, <2>5, <2>6, <2>7, ImageRequestGoesOn
<1> QED
  BY <1>5, <1>6, <1>7, <1>8, <1>9, <1>10

(* A publication changes: one that begins to block takes what is being     *)
(* deleted into the history.                                               *)
LEMMA ImagePublications ==
  ASSUME ImagesInv, NEW p \in ImgPosts,
         ImgSchedule(p) \/ ImgCancel(p) \/ ImgRun(p) \/ ImgRunEnds(p)
  PROVE  ImagesInv'
<1>1. UNCHANGED <<asset, attached, job>> /\ \E status : Becomes(p, status)
  BY DEF ImgSchedule, ImgCancel, ImgRun, ImgRunEnds
<1>2. PICK status : Becomes(p, status)
  BY <1>1
<1>3. /\ DOMAIN publication' = ImgPosts /\ publication'[p] = status
      /\ \A q \in ImgPosts \ {p} : publication'[q] = publication[q]
      /\ raced \subseteq raced'
      /\ status \in Blocking /\ publication[p] \notin Blocking =>
           {m \in attached[p] : Doomed(m)} \subseteq raced'
  BY <1>2 DEF ImagesInv, ImagesTyped, Becomes
<1>4. ImagesTyped' /\ ReadyHasFile'
  BY <1>1, <1>3 DEF ImagesInv, ImagesTyped, ReadyHasFile, Fetchable
<1>5. \A m \in Assets : WasReady(m) => WasReady(m)'
  BY <1>1, <1>3 DEF WasReady
<1>6. ASSUME NEW r \in ImgRequests PROVE JobHolds(job[r])'
  <2>1. PICK j \in ImageJobs : j = job[r] /\ j = job'[r]
    BY <1>1 DEF ImagesInv, ImagesTyped
  <2>2. JobHolds(j)
    BY <2>1 DEF ImagesInv
  <2>3. JobHolds(j)'
    BY <1>1, <1>5, <2>2, ImageJobShapes DEF JobHolds, Fetchable
  <2> QED
    BY <2>1, <2>3 DEF JobHolds, Fetchable, WasReady
<1>7. AttachedWasReady'
  BY <1>1, <1>5 DEF ImagesInv, ImagesTyped, AttachedWasReady
<1>8. BlockingIsSafe'
  <2>1. \A m : Doomed(m)' => Doomed(m)
    BY <1>1 DEF Doomed
  <2> QED
    BY <1>1, <1>3, <2>1 DEF ImagesInv, BlockingIsSafe
<1> QED
  BY <1>4, <1>6, <1>7, <1>8 DEF ImagesInv

LEMMA ImagesInvariant == ImagesSpec => []ImagesInv
<1>1. ImagesInv /\ [ImagesNext]_imageVars => ImagesInv'
  <2> SUFFICES ASSUME ImagesInv, [ImagesNext]_imageVars PROVE ImagesInv'
    OBVIOUS
  <2>1. CASE UNCHANGED imageVars
    BY <2>1 DEF imageVars, imagePubs, ImagesInv, ImagesTyped, ReadyHasFile, Fetchable,
                JobHolds, WasReady, AttachedWasReady, BlockingIsSafe, Doomed
  <2>2. ASSUME NEW r \in ImgRequests,
               \/ \E m \in Assets : UploadCreates(r, m) \/ DeleteFinds(r, m)
               \/ UploadStores(r) \/ UploadReady(r) \/ UploadMarksFailed(r)
               \/ \E p \in ImgPosts, ms \in SUBSET Assets : SetFinds(r, p, ms)
               \/ SetClears(r) \/ SetFills(r)
               \/ DeleteCounts(r) \/ DeleteRow(r) \/ DeleteDetaches(r) \/ DeleteFiles(r)
               \/ ImgStops(r)
        PROVE  ImagesInv'
    BY <2>2, ImageUploads, ImageLists, ImageDeletes
  <2> QED
    BY <2>1, <2>2, ImagePublications DEF ImagesNext
<1> QED
  BY <1>1, ImagesInitInv, PTL DEF ImagesSpec

(* media.ts:238: every image of a post that is scheduled, publishing or    *)
(* published is ready and has its file, unless it was being deleted when   *)
(* the post took it, was scheduled or sent with it, or failed late.        *)
THEOREM ImagesAreThere == ImagesSpec => []ImagesCanBeFetched
<1>1. ImagesInv => ImagesCanBeFetched
  <2> SUFFICES ASSUME ImagesInv, NEW p \in ImgPosts, publication[p] \in Blocking,
                      NEW m \in attached[p] \ raced
               PROVE  Usable(m) /\ asset[m].file
    BY DEF ImagesCanBeFetched
  <2>1. m \in Assets /\ WasReady(m) /\ ~Doomed(m)
    BY DEF ImagesInv, ImagesTyped, AttachedWasReady, BlockingIsSafe
  <2> QED
    BY <2>1 DEF WasReady, Doomed, ImagesInv, ReadyHasFile, Fetchable, Usable
<1> QED
  BY <1>1, ImagesInvariant, PTL

-----------------------------------------------------------------------------
(***************************************************************************)
(* The sliding window.  As long as it matters for the count, an allowed    *)
(* call has an entry that no script, whatever its clock, has trimmed: so   *)
(* the calls of any stretch were in the set when the last was counted.     *)
(***************************************************************************)
WithinWindow(from) ==
  {c \in Calls : /\ callState[c].pc = "allowed"
                 /\ callState[c].at >= from
                 /\ callState[c].at + LargestSkew + MaxDelay < from + Window}

Counts(at) == tick + LargestSkew + MaxDelay < at + Window

RateTyped ==
  /\ tick \in Nat /\ expiry \in Nat
  /\ DOMAIN callState = Calls
  /\ \A e \in entry : e.score \in Nat
  /\ IsFiniteSet(entry)
  /\ IsFiniteSet({c \in Calls : callState[c].pc = "allowed"})

CallsInTime ==
  /\ \A c \in Calls : callState[c].pc = "sent" =>
       /\ callState[c].at \in Nat /\ callState[c].now \in Nat
       /\ callState[c].at <= tick /\ tick <= callState[c].at + MaxDelay
       /\ callState[c].at <= callState[c].now
       /\ callState[c].now <= callState[c].at + LargestSkew
  /\ \A c \in Calls : callState[c].pc = "allowed" =>
       /\ callState[c].at \in Nat
       /\ callState[c].at <= tick /\ callState[c].at + Window <= expiry

EntriesKept ==
  \A c \in Calls : callState[c].pc = "allowed" /\ Counts(callState[c].at) =>
    \E e \in entry : e.member = c /\ callState[c].at <= e.score + MaxDelay

RateInv == RateTyped /\ CallsInTime /\ EntriesKept /\ LimitHolds

LEMMA SkewFacts ==
  LargestSkew \in Nat /\ \A v \in Servers : Skew[v] \in Nat /\ Skew[v] <= LargestSkew
<1>1. \E k \in {Skew[v] : v \in Servers} : \A v \in Servers : Skew[v] <= k
  BY RateAssumption
<1>2. /\ LargestSkew \in {Skew[v] : v \in Servers}
      /\ \A v \in Servers : Skew[v] <= LargestSkew
  BY <1>1 DEF LargestSkew
<1> QED
  BY <1>2, RateAssumption

LEMMA RateConstants ==
  MaxDelay \in Nat /\ Limit \in Nat /\ Window \in Nat /\ LastTick \in Nat
  BY RateAssumption

LEMMA RateInitInv == RateInit => RateInv
<1> SUFFICES ASSUME RateInit PROVE RateInv
  OBVIOUS
<1>1. /\ tick = 0 /\ expiry = 0 /\ entry = {} /\ DOMAIN callState = Calls
      /\ \A c \in Calls : callState[c].pc = "idle"
  BY DEF RateInit
<1>2. {c \in Calls : callState[c].pc = "allowed"} = {}
  BY <1>1
<1>3. RateTyped
  BY <1>1, <1>2, FS_EmptySet DEF RateTyped
<1>4. LimitHolds
  <2> SUFFICES ASSUME NEW from \in 0..LastTick PROVE Cardinality(WithinWindow(from)) <= Limit
    BY DEF LimitHolds, WithinWindow
  <2>1. WithinWindow(from) = {}
    BY <1>1 DEF WithinWindow
  <2> QED
    BY <2>1, FS_EmptySet, RateConstants
<1> QED
  BY <1>1, <1>3, <1>4 DEF RateInv, CallsInTime, EntriesKept

(* An entry that counts outlives the trim of any script that runs now.     *)
LEMMA EntrySurvives ==
  ASSUME RateInv, NEW c \in Calls, callState[c].pc = "sent",
         NEW d \in Calls, callState[d].pc = "allowed", Counts(callState[d].at)
  PROVE  \E e \in Untrimmed(callState[c].now) :
           e.member = d /\ callState[d].at <= e.score + MaxDelay
<1>1. PICK e \in entry : e.member = d /\ callState[d].at <= e.score + MaxDelay
  BY DEF RateInv, EntriesKept
<1>2. /\ e.score \in Nat /\ tick \in Nat
      /\ callState[d].at \in Nat /\ callState[c].at \in Nat /\ callState[c].now \in Nat
      /\ callState[c].at <= tick /\ callState[c].now <= callState[c].at + LargestSkew
  BY <1>1 DEF RateInv, RateTyped, CallsInTime
<1>3. e.score + Window > callState[c].now
  <2>1. callState[c].now <= tick + LargestSkew
    BY <1>2, SkewFacts
  <2>2. tick + LargestSkew + MaxDelay < callState[d].at + Window
    BY DEF Counts
  <2> QED
    BY <1>1, <1>2, <2>1, <2>2, SkewFacts, RateConstants
<1> QED
  BY <1>1, <1>3 DEF Untrimmed

(* Nobody is allowed: the stretches hold what they held.                   *)
LEMMA SameAllowed ==
  ASSUME RateInv,
         \A c \in Calls : callState'[c].pc = "allowed" <=> callState[c].pc = "allowed",
         \A c \in Calls : callState[c].pc = "allowed" => callState'[c].at = callState[c].at
  PROVE  /\ IsFiniteSet({c \in Calls : callState[c].pc = "allowed"})'
         /\ LimitHolds'
<1>1. {c \in Calls : callState'[c].pc = "allowed"} = {c \in Calls : callState[c].pc = "allowed"}
  OBVIOUS
<1>2. \A from : WithinWindow(from)' = WithinWindow(from)
  BY DEF WithinWindow
<1>3. \A from \in 0..LastTick : Cardinality(WithinWindow(from)) <= Limit
  BY DEF RateInv, LimitHolds, WithinWindow
<1>4. \A from \in 0..LastTick : Cardinality(WithinWindow(from)') <= Limit
  BY <1>2, <1>3
<1> QED
  BY <1>1, <1>4 DEF RateInv, RateTyped, LimitHolds, WithinWindow

LEMMA RateReads ==
  ASSUME RateInv, NEW c \in Calls, NEW v \in Servers, ReadClock(c, v)
  PROVE  RateInv'
<1>1. /\ callState[c].pc = "idle" /\ tick \in Nat
      /\ callState'[c] = [pc |-> "sent", now |-> tick + Skew[v], at |-> tick]
      /\ DOMAIN callState' = Calls
      /\ \A d \in Calls \ {c} : callState'[d] = callState[d]
      /\ UNCHANGED <<tick, entry, expiry>>
  BY DEF RateInv, RateTyped, ReadClock, CallBecomes
<1>2. IsFiniteSet({d \in Calls : callState[d].pc = "allowed"})' /\ LimitHolds'
  BY <1>1, SameAllowed
<1>3. RateTyped'
  BY <1>1, <1>2 DEF RateInv, RateTyped
<1>4. CallsInTime'
  <2>1. /\ callState'[c].at = tick /\ callState'[c].now = tick + Skew[v]
        /\ callState'[c].now \in Nat /\ tick <= tick + MaxDelay
        /\ tick <= tick + Skew[v] /\ tick + Skew[v] <= tick + LargestSkew
    BY <1>1, SkewFacts, RateConstants
  <2> QED
    BY <1>1, <2>1 DEF RateInv, CallsInTime
<1>5. EntriesKept'
  BY <1>1 DEF RateInv, EntriesKept, Counts
<1> QED
  BY <1>2, <1>3, <1>4, <1>5 DEF RateInv

(* A refused or unanswered call counts nowhere.                            *)
LEMMA RateLetsGo ==
  ASSUME RateInv, NEW c \in Calls, NEW pc \in {"refused", "letThrough"},
         callState[c].pc = "sent", CallBecomes(c, [pc |-> pc]),
         entry' = entry \/ entry' = Untrimmed(callState[c].now),
         UNCHANGED <<tick, expiry>>
  PROVE  RateInv'
<1>1. /\ callState'[c].pc = pc /\ DOMAIN callState' = Calls
      /\ \A d \in Calls \ {c} : callState'[d] = callState[d]
  BY DEF RateInv, RateTyped, CallBecomes
<1>2. IsFiniteSet({d \in Calls : callState[d].pc = "allowed"})' /\ LimitHolds'
  BY <1>1, SameAllowed
<1>3. entry' \subseteq entry /\ IsFiniteSet(entry)
  BY DEF RateInv, RateTyped, Untrimmed
<1>4. IsFiniteSet(entry')
  BY <1>3, FS_Subset
<1>5. RateTyped'
  BY <1>1, <1>2, <1>3, <1>4 DEF RateInv, RateTyped
<1>6. CallsInTime'
  BY <1>1 DEF RateInv, CallsInTime
<1>7. EntriesKept'
  <2> SUFFICES ASSUME NEW d \in Calls, callState'[d].pc = "allowed",
                      tick' + LargestSkew + MaxDelay < callState'[d].at + Window
               PROVE  \E e \in entry' : e.member = d /\ callState'[d].at <= e.score + MaxDelay
    BY DEF EntriesKept, Counts
  <2>1. callState'[d] = callState[d] /\ callState[d].pc = "allowed"
    BY <1>1
  <2>2. Counts(callState[d].at)
    BY <2>1 DEF Counts
  <2>3. CASE entry' = entry
    BY <2>1, <2>2, <2>3 DEF RateInv, EntriesKept
  <2>4. CASE entry' = Untrimmed(callState[c].now)
    BY <2>1, <2>2, <2>4, EntrySurvives
  <2> QED
    BY <2>3, <2>4
<1> QED
  BY <1>2, <1>5, <1>6, <1>7 DEF RateInv

LEMMA RateTicks ==
  ASSUME RateInv, Tick
  PROVE  RateInv'
<1>1. /\ tick \in Nat /\ expiry \in Nat /\ tick' = tick + 1
      /\ UNCHANGED <<expiry, callState>>
      /\ entry' = IF tick' >= expiry THEN {} ELSE entry
      /\ \A c \in Calls : callState[c].pc = "sent" => tick < callState[c].at + MaxDelay
  BY DEF RateInv, RateTyped, Tick
<1>2. IsFiniteSet({d \in Calls : callState[d].pc = "allowed"})' /\ LimitHolds'
  BY <1>1, SameAllowed
<1>3. RateTyped'
  BY <1>1, <1>2, FS_EmptySet DEF RateInv, RateTyped
<1>4. CallsInTime'
  BY <1>1, RateConstants DEF RateInv, CallsInTime
<1>5. EntriesKept'
  <2> SUFFICES ASSUME NEW d \in Calls, callState[d].pc = "allowed",
                      tick + 1 + LargestSkew + MaxDelay < callState[d].at + Window
               PROVE  \E e \in entry' : e.member = d /\ callState[d].at <= e.score + MaxDelay
    BY <1>1 DEF EntriesKept, Counts
  <2>1. callState[d].at \in Nat /\ callState[d].at + Window <= expiry
    BY DEF RateInv, CallsInTime
  <2>2. tick' < expiry /\ Counts(callState[d].at)
    BY <1>1, <2>1, SkewFacts, RateConstants DEF Counts
  <2>3. entry' = entry
    BY <1>1, <2>2
  <2> QED
    BY <2>2, <2>3 DEF RateInv, EntriesKept
<1> QED
  BY <1>2, <1>3, <1>4, <1>5 DEF RateInv

(* The stretch with the call that is allowed now: all the others of it are *)
(* among the entries that were counted.                                    *)
LEMMA StretchWasCounted ==
  ASSUME RateInv, NEW c \in Calls, callState[c].pc = "sent",
         NEW S \in SUBSET Calls,
         \A d \in S : callState[d].pc = "allowed" /\ Counts(callState[d].at)
  PROVE  /\ IsFiniteSet(Untrimmed(callState[c].now))
         /\ IsFiniteSet(S)
         /\ Cardinality(S) <= Cardinality(Untrimmed(callState[c].now))
<1> DEFINE kept == Untrimmed(callState[c].now)
           entryOf == [d \in S |-> CHOOSE e \in kept : e.member = d]
<1>1. IsFiniteSet(kept)
  BY FS_Subset DEF RateInv, RateTyped, Untrimmed
<1>2. \A d \in S : \E e \in kept : e.member = d
  BY EntrySurvives
<1> HIDE DEF kept
<1>3. \A d \in S : entryOf[d] \in kept /\ entryOf[d].member = d
  BY <1>2
<1>4. entryOf \in Injection(S, kept)
  BY <1>3 DEF Injection, IsInjective
<1>5. IsFiniteSet(S) /\ Cardinality(S) <= Cardinality(kept)
  BY <1>1, <1>4, FS_Injection
<1> QED
  BY <1>1, <1>5 DEF kept

(* The script allows: the call's own entry is there, those that counted    *)
(* survive the trim, and no stretch that ends now held the limit already.  *)
LEMMA RateAllows ==
  ASSUME RateInv, NEW c \in Calls, callState[c].pc = "sent",
         ~IsFull(Cardinality(Untrimmed(callState[c].now))),
         entry' = Untrimmed(callState[c].now)
                    \cup {[score |-> callState[c].now, member |-> c]},
         expiry' = tick + Window, UNCHANGED tick,
         CallBecomes(c, [pc |-> "allowed", at |-> tick])
  PROVE  RateInv'
<1> DEFINE kept == Untrimmed(callState[c].now)
           own == [score |-> callState[c].now, member |-> c]
           Allowed == {d \in Calls : callState[d].pc = "allowed"}
<1>1. /\ callState'[c] = [pc |-> "allowed", at |-> tick] /\ DOMAIN callState' = Calls
      /\ \A d \in Calls \ {c} : callState'[d] = callState[d]
  BY DEF RateInv, RateTyped, CallBecomes
<1>2. /\ tick \in Nat /\ callState[c].at \in Nat /\ callState[c].now \in Nat
      /\ tick <= callState[c].at + MaxDelay /\ callState[c].at <= callState[c].now
  BY DEF RateInv, RateTyped, CallsInTime
<1>3. tick <= callState[c].now + MaxDelay /\ tick <= tick + Window /\ tick + Window \in Nat
  BY <1>2, RateConstants
<1>4. IsFiniteSet(kept) /\ kept \subseteq entry
  BY FS_Subset DEF RateInv, RateTyped, Untrimmed
<1>5. own.score = callState[c].now /\ own.member = c
  OBVIOUS
<1>6. entry' = kept \cup {own}
  OBVIOUS
<1> HIDE DEF kept, own
<1>7. RateTyped'
  <2>1. IsFiniteSet(entry')
    BY <1>4, <1>6, FS_AddElement
  <2>2. \A e \in entry' : e.score \in Nat
    BY <1>2, <1>4, <1>5, <1>6 DEF RateInv, RateTyped
  <2>3. {d \in Calls : callState'[d].pc = "allowed"} = Allowed \cup {c}
    BY <1>1
  <2>4. IsFiniteSet(Allowed \cup {c})
    BY FS_AddElement DEF RateInv, RateTyped
  <2> QED
    BY <1>1, <1>2, <1>3, <2>1, <2>2, <2>3, <2>4 DEF RateTyped
<1>8. CallsInTime'
  <2>1. ASSUME NEW d \in Calls, callState'[d].pc = "allowed"
        PROVE  /\ callState'[d].at \in Nat
               /\ callState'[d].at <= tick /\ callState'[d].at + Window <= tick + Window
    <3>1. callState'[d].at \in Nat /\ callState'[d].at <= tick
      BY <1>1, <1>2, <2>1 DEF RateInv, CallsInTime
    <3> QED
      BY <1>2, <3>1, RateConstants
  <2>2. \A d \in Calls : callState'[d].pc = "sent" => d # c
    BY <1>1
  <2> QED
    BY <1>1, <2>1, <2>2 DEF RateInv, CallsInTime
<1>9. EntriesKept'
  <2> SUFFICES ASSUME NEW d \in Calls, callState'[d].pc = "allowed",
                      tick + LargestSkew + MaxDelay < callState'[d].at + Window
               PROVE  \E e \in entry' : e.member = d /\ callState'[d].at <= e.score + MaxDelay
    BY DEF EntriesKept, Counts
  <2>1. CASE d = c
    BY <1>1, <1>3, <1>5, <1>6, <2>1
  <2>2. CASE d # c
    <3>1. callState'[d] = callState[d] /\ callState[d].pc = "allowed"
      BY <1>1, <2>2
    <3>2. Counts(callState[d].at)
      BY <3>1 DEF Counts
    <3>3. \E e \in kept : e.member = d /\ callState[d].at <= e.score + MaxDelay
      BY <3>1, <3>2, EntrySurvives DEF kept
    <3> QED
      BY <1>6, <3>1, <3>3
  <2> QED
    BY <2>1, <2>2
<1>10. ASSUME NEW from \in 0..LastTick PROVE Cardinality(WithinWindow(from)') <= Limit
  <2>1. CASE c \notin WithinWindow(from)'
    <3>1. WithinWindow(from)' = WithinWindow(from)
      BY <1>1, <2>1 DEF WithinWindow
    <3> QED
      BY <3>1 DEF RateInv, LimitHolds, WithinWindow
  <2>2. CASE c \in WithinWindow(from)'
    <3> DEFINE before == WithinWindow(from)' \ {c}
    <3>1. tick + LargestSkew + MaxDelay < from + Window
      BY <1>1, <2>2 DEF WithinWindow
    <3>2. ASSUME NEW d \in before
          PROVE  d \in Calls /\ callState[d].pc = "allowed" /\ Counts(callState[d].at)
      <4>1. /\ d \in Calls /\ callState[d].pc = "allowed" /\ callState[d].at >= from
        BY <1>1 DEF WithinWindow
      <4>2. callState[d].at \in Nat
        BY <4>1 DEF RateInv, CallsInTime
      <4> QED
        BY <1>2, <3>1, <4>1, <4>2, SkewFacts, RateConstants DEF Counts
    <3>3. WithinWindow(from)' = before \cup {c} /\ c \notin before
      BY <2>2
    <3> HIDE DEF before
    <3>4. before \in SUBSET Calls
      BY <3>2
    <3>5. /\ IsFiniteSet(before) /\ Cardinality(before) <= Cardinality(kept)
      BY <3>2, <3>4, StretchWasCounted DEF kept
    <3>6. /\ Cardinality(kept) \in Nat /\ Cardinality(before) \in Nat
          /\ Cardinality(before \cup {c}) = Cardinality(before) + 1
      BY <1>4, <3>3, <3>5, FS_CardinalityType, FS_AddElement
    <3>7. Cardinality(kept) < Limit
      BY <3>6, RateConstants DEF IsFull, kept
    <3>8. Cardinality(before \cup {c}) <= Limit
      BY <3>5, <3>6, <3>7, RateConstants
    <3> QED
      BY <3>3, <3>8
  <2> QED
    BY <2>1, <2>2
<1>11. LimitHolds'
  BY <1>10 DEF LimitHolds, WithinWindow
<1> QED
  BY <1>7, <1>8, <1>9, <1>11 DEF RateInv

LEMMA RateInvariant == RateSpec => []RateInv
<1>1. RateInv /\ [RateNext]_rateVars => RateInv'
  <2> SUFFICES ASSUME RateInv, [RateNext]_rateVars PROVE RateInv'
    OBVIOUS
  <2>1. CASE UNCHANGED rateVars
    <3>1. UNCHANGED <<tick, entry, expiry, callState>>
      BY <2>1 DEF rateVars
    <3>2. IsFiniteSet({d \in Calls : callState[d].pc = "allowed"})' /\ LimitHolds'
      BY <3>1, SameAllowed
    <3> QED
      BY <3>1, <3>2 DEF RateInv, RateTyped, CallsInTime, EntriesKept, Counts
  <2>2. ASSUME NEW c \in Calls, SlidingWindow(c) PROVE RateInv'
    <3>1. CASE IsFull(Cardinality(Untrimmed(callState[c].now)))
      BY <2>2, <3>1, RateLetsGo DEF SlidingWindow
    <3>2. CASE ~IsFull(Cardinality(Untrimmed(callState[c].now)))
      BY <2>2, <3>2, RateAllows DEF SlidingWindow
    <3> QED
      BY <3>1, <3>2
  <2>3. ASSUME NEW c \in Calls, RedisFails(c) PROVE RateInv'
    <3>1. PICK pc \in {"refused", "letThrough"} : CallBecomes(c, [pc |-> pc])
      BY <2>3 DEF RedisFails
    <3> QED
      BY <2>3, <3>1, RateLetsGo DEF RedisFails
  <2> QED
    BY <2>1, <2>2, <2>3, RateReads, RateTicks DEF RateNext
<1> QED
  BY <1>1, RateInitInv, PTL DEF RateSpec

(* rate-limit.ts:8: no stretch as long as the window, less what clocks and *)
(* delays make uncertain, sees more than the limit allowed.                *)
THEOREM RateIsLimited == RateSpec => []LimitHolds
<1>1. RateInv => LimitHolds
  BY DEF RateInv
<1> QED
  BY <1>1, RateInvariant, PTL

-----------------------------------------------------------------------------
(***************************************************************************)
(* Drafts passed without a warning have no fault and are not alike, for    *)
(* any texts, limits and answers of the model.                             *)
(***************************************************************************)
DraftRecord == [text: Drafts, warned: BOOLEAN]

(* What may be said of the drafts kept so far, not only of those delivered:*)
(* one kept from the first answer is compared again when the second comes, *)
(* but only from the side of the newcomer.                                 *)
SoundDrafts(s) ==
  \A i \in 1..Len(s) :
    ~s[i].warned =>
      /\ s[i].text \notin Faulty
      /\ \A o \in recent : <<s[i].text, o>> \notin Alike
      /\ \A j \in 1..Len(s) : ~s[j].warned => <<s[i].text, s[j].text>> \notin Alike

GateInv ==
  /\ count \in Nat
  /\ candidates \in Seq(Drafts)
  /\ accepted \in Seq(DraftRecord)
  /\ SoundDrafts(accepted)

LEMMA CandidatesAreTexts ==
  ASSUME NEW n \in Nat, NEW f \in [1..n -> Drafts]
  PROVE  f \in Seq(Drafts)
OBVIOUS

(* What comes after the drafts kept is sound with them, when every newcomer*)
(* was compared with them, with the recent posts and with the candidates.  *)
LEMMA NewcomersFit ==
  ASSUME GateInv, NEW new \in Seq(DraftRecord),
         \A i \in 1..Len(new) : ~new[i].warned =>
           /\ new[i].text \notin Faulty
           /\ ~TooClose(new[i].text, Others(accepted)),
         \A i \in 1..Len(new) : new[i].text \in ToSet(candidates)
  PROVE  /\ accepted \o new \in Seq(DraftRecord)
         /\ SoundDrafts(accepted \o new)
<1> DEFINE all == accepted \o new
           n == Len(accepted)
<1>1. /\ all \in Seq(DraftRecord)
      /\ Len(all) = n + Len(new)
      /\ \A i \in 1..(n + Len(new)) : all[i] = IF i <= n THEN accepted[i] ELSE new[i - n]
  BY ConcatProperties DEF GateInv
<1>2. n \in Nat /\ Len(new) \in Nat /\ Len(all) \in Nat
  BY <1>1 DEF GateInv
<1>3. ASSUME NEW i \in 1..Len(all)
      PROVE  \/ i \in 1..n /\ all[i] = accepted[i]
             \/ \E k \in 1..Len(new) : all[i] = new[k]
  <2>1. CASE i <= n
    BY <1>1, <1>2, <2>1
  <2>2. CASE ~(i <= n)
    <3>1. i - n \in 1..Len(new) /\ all[i] = new[i - n]
      BY <1>1, <1>2, <2>2
    <3> QED
      BY <3>1
  <2> QED
    BY <2>1, <2>2
<1> HIDE DEF all
<1>4. ASSUME NEW k \in 1..Len(new), ~new[k].warned
      PROVE  /\ \A o \in recent : <<new[k].text, o>> \notin Alike
             /\ \A j \in 1..n : <<new[k].text, accepted[j].text>> \notin Alike
             /\ \A m \in 1..Len(new) : <<new[k].text, new[m].text>> \notin Alike
  <2>1. \A o \in Others(accepted) : <<new[k].text, o>> \notin Alike
    BY <1>4 DEF TooClose
  <2>2. \A j \in 1..n : accepted[j] \in ToSet(accepted)
    BY DEF ToSet
  <2>3. \A j \in 1..n : accepted[j].text \in Others(accepted)
    BY <2>2 DEF Others
  <2>4. \A m \in 1..Len(new) : new[m].text \in Others(accepted)
    BY DEF Others
  <2>5. \A o \in recent : o \in Others(accepted)
    BY DEF Others
  <2> QED
    BY <2>1, <2>3, <2>4, <2>5
<1>5. ASSUME NEW i \in 1..Len(all), ~all[i].warned
      PROVE  /\ all[i].text \notin Faulty
             /\ \A o \in recent : <<all[i].text, o>> \notin Alike
  <2>1. CASE i \in 1..n /\ all[i] = accepted[i]
    BY <1>5, <2>1 DEF GateInv, SoundDrafts
  <2>2. ASSUME NEW k \in 1..Len(new), all[i] = new[k]
        PROVE  /\ all[i].text \notin Faulty
               /\ \A o \in recent : <<all[i].text, o>> \notin Alike
    BY <1>4, <1>5, <2>2
  <2> QED
    BY <1>3, <2>1, <2>2
<1>6. ASSUME NEW i \in 1..Len(all), NEW j \in 1..Len(all), ~all[i].warned, ~all[j].warned
      PROVE  <<all[i].text, all[j].text>> \notin Alike
  <2>1. CASE i \in 1..n /\ all[i] = accepted[i] /\ j \in 1..n /\ all[j] = accepted[j]
    BY <1>6, <2>1 DEF GateInv, SoundDrafts
  <2>2. ASSUME NEW k \in 1..Len(new), all[i] = new[k]
        PROVE  <<all[i].text, all[j].text>> \notin Alike
    BY <1>3, <1>4, <1>6, <2>2
  <2>3. ASSUME NEW k \in 1..Len(new), all[j] = new[k], i \in 1..n /\ all[i] = accepted[i]
        PROVE  <<all[i].text, all[j].text>> \notin Alike
    <3>1. <<all[j].text, all[i].text>> \notin Alike
      BY <1>4, <1>6, <2>3
    <3>2. \A a, b : <<a, b>> \in Alike => <<b, a>> \in Alike
      BY GateAssumption
    <3> QED
      BY <3>1, <3>2
  <2> QED
    BY <1>3, <2>1, <2>2, <2>3
<1>7. SoundDrafts(all)
  BY <1>5, <1>6 DEF SoundDrafts
<1> QED
  BY <1>1, <1>7 DEF all

(* Cutting the list to what was asked for leaves a sound one.              *)
LEMMA CutIsSound ==
  ASSUME NEW s \in Seq(DraftRecord), SoundDrafts(s), NEW m \in Nat, m <= Len(s)
  PROVE  /\ SubSeq(s, 1, m) \in Seq(DraftRecord)
         /\ SoundDrafts(SubSeq(s, 1, m))
<1>1. \A i \in 1..m : s[i] \in DraftRecord /\ i \in 1..Len(s)
  OBVIOUS
<1>2. /\ SubSeq(s, 1, m) \in Seq(DraftRecord)
      /\ Len(SubSeq(s, 1, m)) = IF 1 <= m THEN m - 1 + 1 ELSE 0
      /\ \A i \in 1..(m - 1 + 1) : SubSeq(s, 1, m)[i] = s[1 + i - 1]
  BY <1>1, SubSeqProperties
<1>3. Len(SubSeq(s, 1, m)) = m /\ \A i \in 1..m : SubSeq(s, 1, m)[i] = s[i]
  BY <1>2
<1> QED
  BY <1>1, <1>2, <1>3 DEF SoundDrafts

LEMMA GateChecks ==
  ASSUME GateInv, CheckDrafts
  PROVE  accepted' \in Seq(DraftRecord) /\ SoundDrafts(accepted')
<1> DEFINE bad == BlockedDrafts(accepted)
           again == IF attempt < MaxAttempts THEN bad ELSE {}
           rest == (1..Len(candidates)) \ again
<1>1. PICK kept \in InOrder(rest) :
        LET all == accepted \o [i \in 1..Len(kept) |->
                     [text |-> candidates[kept[i]], warned |-> kept[i] \in bad]]
        IN \/ accepted' = SubSeq(all, 1, IF Len(all) > count THEN count ELSE Len(all))
           \/ accepted' = all
  BY DEF CheckDrafts
<1> DEFINE new == [i \in 1..Len(kept) |->
                     [text |-> candidates[kept[i]], warned |-> kept[i] \in bad]]
           all == accepted \o new
<1>2. kept \in [1..Cardinality(rest) -> rest]
  BY DEF InOrder
<1>3. Len(kept) \in Nat /\ \A i \in 1..Len(kept) : kept[i] \in 1..Len(candidates)
  <2>1. Len(candidates) \in Nat
    BY DEF GateInv
  <2>2. IsFiniteSet(1..Len(candidates)) /\ rest \subseteq 1..Len(candidates)
    BY <2>1, FS_Interval
  <2>3. IsFiniteSet(rest)
    BY <2>2, FS_Subset
  <2> DEFINE n == Cardinality(rest)
  <2>4. n \in Nat
    BY <2>3, FS_CardinalityType
  <2>5. kept \in [1..n -> rest]
    BY <1>2
  <2> HIDE DEF n, rest
  <2>6. Len(kept) = n
    BY <2>4, <2>5
  <2> QED
    BY <2>2, <2>4, <2>5, <2>6
<1>4. new \in Seq(DraftRecord) /\ Len(new) = Len(kept)
  <2>1. \A i \in 1..Len(kept) : candidates[kept[i]] \in Drafts
    BY <1>3 DEF GateInv
  <2>2. \A i \in 1..Len(kept) : (kept[i] \in bad) \in BOOLEAN
    OBVIOUS
  <2>3. new \in [1..Len(kept) -> DraftRecord]
    BY <2>1, <2>2, Zenon DEF DraftRecord
  <2> HIDE DEF new
  <2> QED
    BY <1>3, <2>3
<1>5. \A i \in 1..Len(new) : new[i].text \in ToSet(candidates)
  BY <1>3, <1>4 DEF ToSet
<1>6. \A i \in 1..Len(new) : ~new[i].warned =>
        new[i].text \notin Faulty /\ ~TooClose(new[i].text, Others(accepted))
  BY <1>3, <1>4 DEF BlockedDrafts
<1> HIDE DEF new
<1>7. all \in Seq(DraftRecord) /\ SoundDrafts(all)
  BY <1>4, <1>5, <1>6, NewcomersFit
<1>8. CASE accepted' = all
  BY <1>7, <1>8
<1> HIDE DEF all
<1>9. CASE accepted' = SubSeq(all, 1, IF Len(all) > count THEN count ELSE Len(all))
  <2>1. Len(all) \in Nat /\ count \in Nat
    BY <1>7 DEF GateInv
  <2> DEFINE m == IF Len(all) > count THEN count ELSE Len(all)
  <2>2. m \in Nat /\ m <= Len(all)
    BY <2>1
  <2> HIDE DEF m
  <2>3. SubSeq(all, 1, m) \in Seq(DraftRecord) /\ SoundDrafts(SubSeq(all, 1, m))
    BY <1>7, <2>2, CutIsSound
  <2> QED
    BY <1>9, <2>3 DEF m
<1> QED
  BY <1>1, <1>8, <1>9 DEF all, new

LEMMA GateInvariant == GateSpec => []GateInv
<1>1. GateInit => GateInv
  <2> SUFFICES ASSUME GateInit PROVE GateInv
    OBVIOUS
  <2>1. count \in Nat
    BY GateAssumption DEF GateInit, Clamped
  <2>2. candidates \in Seq(Drafts) /\ accepted \in Seq(DraftRecord) /\ Len(accepted) = 0
    BY DEF GateInit
  <2> QED
    BY <2>1, <2>2 DEF GateInv, SoundDrafts
<1>2. GateInv /\ [GateNext]_gateVars => GateInv'
  <2> SUFFICES ASSUME GateInv, [GateNext]_gateVars PROVE GateInv'
    OBVIOUS
  <2>1. CASE ModelAnswers
    <3>1. candidates' \in Seq(Drafts)
      BY <2>1, CandidatesAreTexts DEF ModelAnswers
    <3> QED
      BY <2>1, <3>1 DEF ModelAnswers, GateInv, SoundDrafts
  <2>2. CASE ModelFails
    BY <2>2 DEF ModelFails, GateInv, SoundDrafts
  <2>3. CASE CheckDrafts
    <3>1. accepted' \in Seq(DraftRecord) /\ SoundDrafts(accepted')
      BY <2>3, GateChecks
    <3>2. UNCHANGED <<count, recent, candidates>>
      BY <2>3 DEF CheckDrafts
    <3> QED
      BY <3>1, <3>2 DEF GateInv, SoundDrafts
  <2>4. CASE UNCHANGED gateVars
    BY <2>4 DEF gateVars, GateInv, SoundDrafts
  <2> QED
    BY <2>1, <2>2, <2>3, <2>4 DEF GateNext
<1> QED
  BY <1>1, <1>2, PTL DEF GateSpec

(* The drafts delivered without a warning have no fault, are not alike     *)
(* among themselves and not like a recent post, whichever answer each came *)
(* with (quality.ts, checkDraft).                                          *)
THEOREM PassedDraftsDiffer == GateSpec => []UnwarnedDraftsDiffer
<1>1. GateInv => UnwarnedDraftsDiffer
  BY DEF GateInv, SoundDrafts, UnwarnedDraftsDiffer, TooClose
<1> QED
  BY <1>1, GateInvariant, PTL

-----------------------------------------------------------------------------
(***************************************************************************)
(* The calendar asks for exactly the posts of the days it shows, but where *)
(* the clocks change at a boundary, for days, weeks, months and zones of   *)
(* any size.                                                               *)
(***************************************************************************)
LEMMA MultiplesApart ==
  ASSUME NEW q \in Int, NEW d \in Int, NEW h \in Nat \ {0}, q < d
  PROVE  q * h + h <= d * h
<1>1. PICK k \in Nat : d = q + 1 + k
  <2> WITNESS d - q - 1 \in Nat
  <2> QED
    OBVIOUS
<1>2. d * h = q * h + h + k * h
  BY <1>1
<1>3. k * h >= 0
  OBVIOUS
<1> QED
  BY <1>2, <1>3

(* The day of an hour is at least d exactly if the hour is not before it.  *)
LEMMA DayOfHour ==
  ASSUME NEW w \in Int, NEW h \in Nat \ {0}, NEW d \in Int
  PROVE  /\ w \div h \in Int
         /\ w \div h >= d <=> w >= d * h
<1> DEFINE q == w \div h
<1>1. q \in Int /\ q * h <= w /\ w < q * h + h
  OBVIOUS
<1> HIDE DEF q
<1>2. CASE q < d
  <2>1. q * h + h <= d * h
    BY <1>1, <1>2, MultiplesApart
  <2> QED
    BY <1>1, <1>2, <2>1
<1>3. CASE q = d
  BY <1>1, <1>3
<1>4. CASE d < q
  <2>1. d * h + h <= q * h
    BY <1>1, <1>4, MultiplesApart
  <2> QED
    BY <1>1, <1>4, <2>1
<1> QED
  BY <1>1, <1>2, <1>3, <1>4 DEF q

(* Where a midnight is sure, the instant computed for it parts the instants*)
(* before it from those at or after it, on the wall clock of the zone.     *)
LEMMA MidnightParts ==
  ASSUME NEW day \in Int, NEW z \in Zones, NEW t \in Int, ~UnsureMidnight(day, z)
  PROVE  LocalDay(t, z) >= day <=> t >= StartOfLocalDay(day, z)
<1> DEFINE b == z.before
           a == z.after
           c == z.change
           m == day * DayHours
           Off(x) == IF x < c THEN b ELSE a
<1>1. /\ b \in Int /\ a \in Int /\ c \in Int
      /\ a = b + 1 \/ a = b - 1
      /\ DayHours \in Nat \ {0}
  <2>1. z \in [before: Int, after: Int, change: Int] /\ z.after - z.before \in {-1, 1}
    BY CalendarConstants
  <2>2. a \in Int /\ b \in Int /\ a - b \in {-1, 1}
    BY <2>1
  <2> HIDE DEF a, b
  <2>3. a = b + 1 \/ a = b - 1
    BY <2>2
  <2> QED
    BY <2>1, <2>2, <2>3, CalendarConstants
<1>2. m \in Int
  BY <1>1
<1>3. \A x \in Int : OffsetAt(x, z) = Off(x)
  BY DEF OffsetAt
<1>4. StartOfLocalDay(day, z) = m - Off(m - Off(m))
  <2>1. CorrectedOnce(day, z) = m - Off(m)
    BY <1>2, <1>3 DEF CorrectedOnce
  <2>2. m - Off(m) \in Int
    BY <1>1, <1>2
  <2> QED
    BY <1>3, <2>1, <2>2 DEF StartOfLocalDay
<1>5. WallClock(t, z) = t + Off(t)
  BY <1>3 DEF WallClock
<1>6. LocalDay(t, z) >= day <=> t + Off(t) >= m
  <2>1. t + Off(t) \in Int
    BY <1>1
  <2> QED
    BY <1>1, <1>5, <2>1, DayOfHour DEF LocalDay
<1>7. \A x \in Int : WallClock(x, z) = x + Off(x)
  BY <1>3 DEF WallClock
(* The clocks go forward past this midnight.                               *)
<1>8. ASSUME m = c + b, a = b + 1
      PROVE  b >= 0
  <2>1. \A x \in {m - b, m - a} : WallClock(x, z) # m
    <3>1. m - b \in Int /\ m - a \in Int
      BY <1>1, <1>2
    <3>2. (m - b) + Off(m - b) # m /\ (m - a) + Off(m - a) # m
      BY <1>1, <1>2, <1>8
    <3> QED
      BY <1>7, <3>1, <3>2
  <2>2. MidnightsOf(day, z) = {}
    BY <2>1 DEF MidnightsOf
  <2>3. ~(b < 0)
    BY <2>2 DEF UnsureMidnight
  <2> QED
    BY <1>1, <2>3
(* They go back to it.                                                     *)
<1>9. ASSUME m = c + a, a = b - 1
      PROVE  a < 0
  <2>1. m - b \in Int /\ m - a \in Int /\ m - b # m - a
    BY <1>1, <1>2, <1>9
  <2>2. (m - b) + Off(m - b) = m /\ (m - a) + Off(m - a) = m
    BY <1>1, <1>2, <1>9
  <2>3. m - b \in MidnightsOf(day, z) /\ m - a \in MidnightsOf(day, z)
    BY <1>7, <2>1, <2>2 DEF MidnightsOf
  <2>4. ~(a >= 0)
    BY <2>1, <2>3 DEF UnsureMidnight
  <2> QED
    BY <1>1, <2>4
<1> HIDE DEF b, a, c, m
<1>10. t + Off(t) >= m <=> t >= m - Off(m - Off(m))
  <2>1. CASE a = b + 1
    BY <1>1, <1>2, <1>8, <2>1
  <2>2. CASE a = b - 1
    BY <1>1, <1>2, <1>9, <2>2
  <2> QED
    BY <1>1, <2>1, <2>2
<1> QED
  BY <1>4, <1>6, <1>10

(* Every day an address may name lies in a month of the strip.             *)
LEMMA AnchorsHaveMonths ==
  ASSUME NEW day \in Anchors
  PROVE  day \in Int /\ MonthOf(day) \in Months
<1> DEFINE k == Len(MonthStarts)
           Late == {m \in 1..(k - 2) : day <= MonthEnd(m)}
<1>1. k \in Nat /\ k > 3 /\ \A m \in 1..k : MonthStarts[m] \in Int
  BY CalendarConstants
<1>2. /\ day \in Int
      /\ MonthStarts[2] <= day /\ day <= MonthEnd(k - 2)
  <2>1. 2 \in 1..k /\ k - 2 + 1 \in 1..k
    BY <1>1
  <2>2. MonthStart(2) \in Int /\ MonthEnd(k - 2) \in Int
    BY <1>1, <2>1 DEF MonthStart, MonthEnd
  <2> QED
    BY <2>2 DEF Anchors, MonthStart
<1>3. PICK m \in Late : \A n \in Late : ~(<<n, m>> \in OpToRel(<, Nat))
  <2>1. Late \subseteq Nat /\ Late # {}
    BY <1>1, <1>2
  <2> HIDE DEF Late
  <2> QED
    BY <2>1, NatLessThanWellFounded, WFMin
<1>4. m \in 1..(k - 2) /\ day <= MonthEnd(m)
  OBVIOUS
<1>5. MonthStart(m) <= day
  <2>1. CASE m = 1
    <3>1. MonthStarts[1] < MonthStarts[1 + 1]
      BY <1>1, CalendarConstants
    <3> QED
      BY <1>1, <1>2, <2>1, <3>1 DEF MonthStart
  <2>2. CASE m # 1
    <3>1. m - 1 \in 1..(k - 2) /\ m - 1 \in Nat /\ m \in Nat /\ m - 1 < m
      BY <1>1, <1>4, <2>2
    <3>2. <<m - 1, m>> \in OpToRel(<, Nat)
      BY <3>1 DEF OpToRel
    <3>3. ~(day <= MonthEnd(m - 1))
      BY <1>3, <3>1, <3>2
    <3>4. MonthEnd(m - 1) = MonthStarts[m] - 1 /\ MonthStarts[m] \in Int
      BY <1>1, <1>4, <3>1 DEF MonthEnd
    <3> QED
      BY <1>2, <3>3, <3>4 DEF MonthStart
  <2> QED
    BY <2>1, <2>2
<1>6. m \in Months /\ day \in MonthStart(m)..MonthEnd(m)
  <2>1. m \in 1..k /\ m + 1 \in 1..k /\ m \in Months
    BY <1>1, <1>4 DEF Months
  <2>2. MonthStart(m) \in Int /\ MonthEnd(m) \in Int
    BY <1>1, <2>1 DEF MonthStart, MonthEnd
  <2> QED
    BY <1>2, <1>4, <1>5, <2>1, <2>2
<1> QED
  BY <1>2, <1>6 DEF MonthOf

(* So the first and the last day of a view are days.                       *)
LEMMA ViewsHaveDays ==
  ASSUME NEW v \in Views, NEW day \in Anchors
  PROVE  FirstDay(v, day) \in Int /\ LastDay(v, day) \in Int
<1>1. /\ DayHours \in Nat \ {0} /\ WeekLength \in Nat \ {0} /\ ListLength \in Nat \ {0}
  BY CalendarConstants
<1>2. \A d \in Int : BackToWeekStart(d) \in Int /\ OnToWeekEnd(d) \in Int
  BY <1>1 DEF BackToWeekStart, OnToWeekEnd, DayOfWeek
<1>3. day \in Int /\ MonthOf(day) \in Months
  BY AnchorsHaveMonths
<1>4. CASE v = "month"
  <2>1. MonthOf(day) \in 1..Len(MonthStarts) /\ MonthOf(day) + 1 \in 1..Len(MonthStarts)
    BY <1>3, CalendarConstants DEF Months
  <2>2. MonthStart(MonthOf(day)) \in Int /\ MonthEnd(MonthOf(day)) \in Int
    BY <2>1, CalendarConstants DEF MonthStart, MonthEnd
  <2>3. PeriodStart(v, day) \in Int /\ PeriodEnd(v, day) \in Int
    BY <1>4, <2>2 DEF PeriodStart, PeriodEnd
  <2> QED
    BY <1>2, <1>4, <2>3 DEF FirstDay, LastDay
<1>5. CASE v = "week"
  <2>1. PeriodStart(v, day) \in Int
    BY <1>2, <1>3, <1>5 DEF PeriodStart
  <2>2. PeriodEnd(v, day) \in Int
    BY <1>1, <1>5, <2>1 DEF PeriodEnd
  <2> QED
    BY <1>5, <2>1, <2>2 DEF FirstDay, LastDay
<1>6. CASE v = "list"
  BY <1>1, <1>3, <1>6 DEF FirstDay, LastDay, PeriodStart, PeriodEnd
<1> QED
  BY <1>4, <1>5, <1>6 DEF Views

LEMMA CalendarTypesHold == CalendarSpec => []CalendarTypeOK
<1>1. CalendarInit => CalendarTypeOK
  BY DEF CalendarInit, CalendarTypeOK, Views
<1>2. CalendarTypeOK /\ [CalendarNext]_calendarVars => CalendarTypeOK'
  BY DEF CalendarTypeOK, CalendarNext, calendarVars, StepPeriod, ChangeView
<1> QED
  BY <1>1, <1>2, PTL DEF CalendarSpec

(* Whatever period, view and zone, the calendar's query returns exactly the*)
(* posts whose local day it shows, except where its first day, or the day  *)
(* after its last, begins in an hour the clocks skip or repeat on the side *)
(* of UTC where zonedTimeToUtc goes wrong (content/calendar.ts).           *)
THEOREM ShownDaysAreFetched == CalendarSpec => []DaysShownAreFetched
<1>1. CalendarTypeOK => DaysShownAreFetched
  <2> DEFINE first == FirstDay(view, anchor)
             next == LastDay(view, anchor) + 1
  <2> SUFFICES ASSUME CalendarTypeOK,
                      ~UnsureMidnight(first, zone), ~UnsureMidnight(next, zone),
                      NEW t \in Instants
               PROVE  (\E day \in Days(view, anchor) : InCell(t, day, zone)) <=>
                        t >= From(view, anchor, zone) /\ t < To(view, anchor, zone)
    BY DEF DaysShownAreFetched, EveryDayIsFetched
  <2>1. first \in Int /\ LastDay(view, anchor) \in Int /\ next \in Int
    BY ViewsHaveDays DEF CalendarTypeOK
  <2>2. zone \in Zones /\ t \in Int
    BY CalendarConstants DEF CalendarTypeOK
  <2>3. LocalDay(t, zone) >= first <=> t >= From(view, anchor, zone)
    BY <2>1, <2>2, MidnightParts DEF From
  <2>4. LocalDay(t, zone) >= next <=> t >= To(view, anchor, zone)
    BY <2>1, <2>2, MidnightParts DEF To
  <2>5. LocalDay(t, zone) \in Int /\ To(view, anchor, zone) \in Int
    <3>1. \A x \in Int : OffsetAt(x, zone) \in Int
      <4>1. zone \in [before: Int, after: Int, change: Int]
        BY <2>2, CalendarConstants
      <4> QED
        BY <4>1 DEF OffsetAt
    <3>2. next * DayHours \in Int /\ DayHours \in Nat \ {0}
      BY <2>1, CalendarConstants
    <3>3. CorrectedOnce(next, zone) \in Int
      BY <3>1, <3>2 DEF CorrectedOnce
    <3>4. WallClock(t, zone) \in Int
      BY <2>2, <3>1 DEF WallClock
    <3> QED
      BY <3>1, <3>2, <3>3, <3>4, DayOfHour DEF LocalDay, StartOfLocalDay, To
  <2>6. (\E day \in Days(view, anchor) : InCell(t, day, zone))
          <=> LocalDay(t, zone) >= first /\ LocalDay(t, zone) <= LastDay(view, anchor)
    BY <2>1, <2>5 DEF Days, InCell
  <2> QED
    BY <2>1, <2>2, <2>3, <2>4, <2>5, <2>6
<1> QED
  BY <1>1, CalendarTypesHold, PTL

-----------------------------------------------------------------------------
(***************************************************************************)
(* The types of the images, of the window and of the drafts: what the      *)
(* invariants above have no use for.                                       *)
(***************************************************************************)
(* Images.                                                                 *)
ImageExtras ==
  /\ publication \in [ImgPosts -> Blocking \cup {"none", "cancelled", "failed"}]
  /\ sending \subseteq ImgPosts
  /\ raced \subseteq Assets

LEMMA BecomesKeeps ==
  ASSUME ImagesInv, ImageExtras, NEW p \in ImgPosts,
         NEW status \in {"scheduled", "publishing", "published", "failed", "cancelled"},
         Becomes(p, status), sending' \subseteq ImgPosts
  PROVE  ImageExtras'
<1>1. publication' \in [ImgPosts -> Blocking \cup {"none", "cancelled", "failed"}]
  BY DEF ImageExtras, Becomes, Blocking
<1>2. attached[p] \subseteq Assets
  BY DEF ImagesInv, ImagesTyped
<1>3. raced' \subseteq Assets
  <2>1. CASE raced' = raced
    BY <2>1 DEF ImageExtras
  <2>2. CASE raced' = raced \cup {m \in attached[p] : Doomed(m)}
    BY <1>2, <2>2 DEF ImageExtras
  <2> QED
    BY <2>1, <2>2 DEF Becomes
<1> QED
  BY <1>1, <1>3 DEF ImageExtras

LEMMA ImageExtrasStep ==
  ImagesInv /\ ImageExtras /\ [ImagesNext]_imageVars => ImageExtras'
<1> SUFFICES ASSUME ImagesInv, ImageExtras, [ImagesNext]_imageVars
             PROVE  ImageExtras'
  OBVIOUS
<1>1. \A r \in ImgRequests : job[r] \in ImageJobs
  BY DEF ImagesInv, ImagesTyped
<1>2. CASE UNCHANGED <<publication, sending, raced>>
  BY <1>2 DEF ImageExtras
<1>3. ASSUME NEW r \in ImgRequests, UploadMarksFailed(r)
      PROVE  ImageExtras'
  <2>1. job[r].m \in Assets
    BY <1>1, <1>3, ImageJobShapes DEF UploadMarksFailed
  <2> QED
    BY <1>3, <2>1 DEF UploadMarksFailed, ImageExtras, imagePubs
<1>4. ASSUME NEW r \in ImgRequests, SetFills(r)
      PROVE  ImageExtras'
  <2>1. job[r].ms \subseteq Assets
    BY <1>1, <1>4, ImageJobShapes DEF SetFills
  <2>2. raced' = raced \cup {m \in job[r].ms : Doomed(m)}
    BY <1>4 DEF SetFills
  <2>3. raced' \subseteq Assets
    BY <2>1, <2>2 DEF ImageExtras
  <2> QED
    BY <1>4, <2>3 DEF SetFills, ImageExtras, imagePubs
<1>5. ASSUME NEW r \in ImgRequests,
             \/ \E m \in Assets : UploadCreates(r, m) \/ DeleteFinds(r, m)
             \/ UploadStores(r) \/ UploadReady(r)
             \/ \E p \in ImgPosts, ms \in SUBSET Assets : SetFinds(r, p, ms)
             \/ SetClears(r) \/ ImgStops(r)
      PROVE  UNCHANGED <<publication, sending, raced>>
  BY <1>5 DEF UploadCreates, DeleteFinds, UploadStores, UploadReady, SetFinds, SetClears,
              ImgStops, imagePubs
<1>6. ASSUME NEW r \in ImgRequests,
             DeleteCounts(r) \/ DeleteRow(r) \/ DeleteDetaches(r) \/ DeleteFiles(r)
      PROVE  UNCHANGED <<publication, sending, raced>>
  BY <1>6 DEF DeleteCounts, DeleteRow, DeleteDetaches, DeleteFiles, imagePubs
<1>7. ASSUME NEW p \in ImgPosts, ImgSchedule(p) \/ ImgCancel(p)
      PROVE  ImageExtras'
  <2>1. sending' \subseteq ImgPosts
    BY <1>7 DEF ImgSchedule, ImgCancel, ImageExtras
  <2> QED
    BY <1>7, <2>1, BecomesKeeps DEF ImgSchedule, ImgCancel
<1>8. ASSUME NEW p \in ImgPosts, ImgRun(p) \/ ImgRunEnds(p)
      PROVE  ImageExtras'
  <2>1. sending' \subseteq ImgPosts
    BY <1>8 DEF ImgRun, ImgRunEnds, ImageExtras
  <2>2. \E status \in {"scheduled", "publishing", "published", "failed"} : Becomes(p, status)
    BY <1>8 DEF ImgRun, ImgRunEnds
  <2> QED
    BY <2>1, <2>2, BecomesKeeps
<1>9. CASE UNCHANGED imageVars
  BY <1>2, <1>9 DEF imageVars, imagePubs
<1> QED
  BY <1>2, <1>3, <1>4, <1>5, <1>6, <1>7, <1>8, <1>9 DEF ImagesNext

LEMMA ImageTypesHold == ImagesSpec => []ImagesTypeOK
<1>1. ImagesInit => ImageExtras
  BY DEF ImagesInit, ImageExtras
<1>2. ImagesInv /\ ImageExtras => ImagesTypeOK
  <2> SUFFICES ASSUME ImagesInv, ImageExtras
               PROVE  ImagesTypeOK
    OBVIOUS
  <2>1. ASSUME NEW r \in ImgRequests
        PROVE  job[r].pc \in {"new", "store", "ready", "markFailed", "clear", "fill", "count",
                              "soft", "detach", "files", "done"}
    BY DEF ImagesInv, ImagesTyped, ImageJobs
  <2> QED
    BY <2>1 DEF ImagesInv, ImagesTyped, ImageExtras, ImageRows, ImagesTypeOK
<1> QED
  BY <1>1, <1>2, ImagesInvariant, ImageExtrasStep, PTL DEF ImagesSpec

-----------------------------------------------------------------------------
(* The sliding window.                                                     *)
RateShapes ==
  /\ tick \in 0..LastTick /\ expiry \in 0..(LastTick + Window) /\ closed \in BOOLEAN
  /\ \A e \in entry : e \in [score: Nat, member: Calls]
  /\ \A c \in Calls : callState[c].pc \in {"idle", "sent", "allowed", "refused", "letThrough"}

LEMMA RateShapesStep ==
  RateInv /\ RateShapes /\ [RateNext]_rateVars => RateShapes'
<1> SUFFICES ASSUME RateInv, RateShapes, [RateNext]_rateVars
             PROVE  RateShapes'
  OBVIOUS
<1>1. DOMAIN callState = Calls
  BY DEF RateInv, RateTyped
<1>2. ASSUME NEW c \in Calls, NEW next, CallBecomes(c, next),
             next.pc \in {"idle", "sent", "allowed", "refused", "letThrough"}
      PROVE  \A d \in Calls : callState'[d].pc \in {"idle", "sent", "allowed", "refused", "letThrough"}
  BY <1>1, <1>2 DEF CallBecomes, RateShapes
<1>3. ASSUME NEW c \in Calls, NEW v \in Servers, ReadClock(c, v)
      PROVE  RateShapes'
  <2>1. \A d \in Calls : callState'[d].pc \in {"idle", "sent", "allowed", "refused", "letThrough"}
    BY <1>2, <1>3 DEF ReadClock
  <2> QED
    BY <1>3, <2>1 DEF ReadClock, RateShapes
<1>4. ASSUME NEW c \in Calls, RedisFails(c)
      PROVE  RateShapes'
  <2>1. PICK pc \in {"refused", "letThrough"} : CallBecomes(c, [pc |-> pc])
    BY <1>4 DEF RedisFails
  <2>2. \A d \in Calls : callState'[d].pc \in {"idle", "sent", "allowed", "refused", "letThrough"}
    BY <1>2, <2>1
  <2> QED
    BY <1>4, <2>2 DEF RedisFails, RateShapes
<1>5. ASSUME NEW c \in Calls, SlidingWindow(c)
      PROVE  RateShapes'
  <2> DEFINE own == [score |-> callState[c].now, member |-> c]
             kept == Untrimmed(callState[c].now)
  <2>1. own \in [score: Nat, member: Calls]
    BY <1>5 DEF SlidingWindow, RateInv, CallsInTime
  <2>2. kept \subseteq entry
    BY DEF Untrimmed
  <2>3. tick + Window \in 0..(LastTick + Window)
    BY RateConstants DEF RateShapes
  <2>4. CASE IsFull(Cardinality(kept))
    <3>1. entry' = kept /\ CallBecomes(c, [pc |-> "refused"]) /\ UNCHANGED <<tick, expiry, closed>>
      BY <1>5, <2>4 DEF SlidingWindow
    <3>2. \A d \in Calls : callState'[d].pc \in {"idle", "sent", "allowed", "refused", "letThrough"}
      BY <1>2, <3>1
    <3> HIDE DEF kept
    <3> QED
      BY <2>2, <3>1, <3>2 DEF RateShapes
  <2>5. CASE ~IsFull(Cardinality(kept))
    <3>1. /\ entry' = kept \cup {own} /\ CallBecomes(c, [pc |-> "allowed", at |-> tick])
          /\ expiry' = tick + Window /\ UNCHANGED <<tick, closed>>
      BY <1>5, <2>5 DEF SlidingWindow
    <3>2. \A d \in Calls : callState'[d].pc \in {"idle", "sent", "allowed", "refused", "letThrough"}
      BY <1>2, <3>1
    <3> HIDE DEF kept, own
    <3> QED
      BY <2>1, <2>2, <2>3, <3>1, <3>2 DEF RateShapes
  <2> QED
    BY <2>4, <2>5
<1>6. CASE Tick
  <2>1. tick' \in 0..LastTick /\ entry' \subseteq entry
    BY <1>6, RateConstants DEF Tick, RateShapes
  <2> QED
    BY <1>6, <2>1 DEF Tick, RateShapes
<1>7. CASE UNCHANGED rateVars
  BY <1>7 DEF rateVars, RateShapes
<1> QED
  BY <1>3, <1>4, <1>5, <1>6, <1>7 DEF RateNext

LEMMA RateTypesHold == RateSpec => []RateTypeOK
<1>1. RateInit => RateShapes
  BY RateConstants DEF RateInit, RateShapes
<1>2. RateShapes => RateTypeOK
  BY DEF RateShapes, RateTypeOK
<1> QED
  BY <1>1, <1>2, RateInvariant, RateShapesStep, PTL DEF RateSpec

(* Drafts.  The next ask is for as many as were blocked, of an answer that *)
(* was no longer than the schema allows.                                   *)
GateShapes ==
  /\ count \in 1..MaxDrafts /\ howMany \in 1..MaxDrafts
  /\ recent \subseteq Drafts
  /\ attempt \in 1..MaxAttempts
  /\ gatePc \in {"ask", "check", "delivered", "failed"}
  /\ Len(candidates) \in 0..MaxDrafts

LEMMA AskedAgain ==
  ASSUME NEW n \in 0..MaxDrafts, NEW again \in SUBSET (1..n), again # {},
         NEW kept \in InOrder((1..n) \ again)
  PROVE  n - Len(kept) \in 1..MaxDrafts
<1> DEFINE rest == (1..n) \ again
           k == Cardinality(rest)
<1>1. n \in Nat /\ MaxDrafts \in Nat /\ n <= MaxDrafts
  BY GateAssumption
<1>2. IsFiniteSet(1..n) /\ Cardinality(1..n) = n
  <2>1. 0 \in Int /\ n \in Int /\ 1 \in Int
    BY <1>1
  <2>2. IsFiniteSet(1..n) /\ Cardinality(1..n) = IF 1 > n THEN 0 ELSE n - 1 + 1
    BY <2>1, FS_Interval
  <2> QED
    BY <1>1, <2>2
<1>3. (1..n) \cap again = again
  OBVIOUS
<1>4. /\ IsFiniteSet(rest) /\ IsFiniteSet(again)
      /\ k = n - Cardinality(again)
  <2>1. /\ IsFiniteSet(rest)
        /\ k = Cardinality(1..n) - Cardinality((1..n) \cap again)
    BY <1>2, FS_Difference
  <2>2. IsFiniteSet(again)
    BY <1>2, FS_Subset
  <2> QED
    BY <1>2, <1>3, <2>1, <2>2
<1>5. Cardinality(again) \in Nat /\ Cardinality(again) # 0 /\ k \in Nat
  BY <1>4, FS_CardinalityType, FS_EmptySet
<1>6. kept \in [1..k -> rest]
  BY DEF InOrder
<1> HIDE DEF k, rest
<1>7. Len(kept) = k
  BY <1>5, <1>6
<1> QED
  <2>1. Cardinality(again) \in 1..n
    BY <1>1, <1>4, <1>5
  <2> QED
    BY <1>1, <1>4, <1>5, <1>7, <2>1

LEMMA GateShapesStep ==
  GateInv /\ GateShapes /\ [GateNext]_gateVars => GateShapes'
<1> SUFFICES ASSUME GateInv, GateShapes, [GateNext]_gateVars
             PROVE  GateShapes'
  OBVIOUS
<1>1. CASE ModelAnswers
  <2>1. PICK n \in 1..MaxDrafts : candidates' \in [1..n -> Drafts]
    BY <1>1 DEF ModelAnswers
  <2>2. n \in Nat /\ n \in 0..MaxDrafts
    BY GateAssumption
  <2>3. Len(candidates') = n
    BY <2>1, <2>2
  <2> QED
    BY <1>1, <2>2, <2>3 DEF ModelAnswers, GateShapes
<1>2. CASE ModelFails
  BY <1>2 DEF ModelFails, GateShapes
<1>3. CASE CheckDrafts
  <2> DEFINE again == IF attempt < MaxAttempts THEN BlockedDrafts(accepted) ELSE {}
             rest == (1..Len(candidates)) \ again
  <2>1. CASE again = {}
    BY <1>3, <2>1 DEF CheckDrafts, GateShapes
  <2>2. CASE again # {}
    <3>1. PICK kept \in InOrder(rest) :
            /\ howMany' = Len(candidates) - Len(kept)
            /\ attempt' = attempt + 1 /\ gatePc' = "ask"
      BY <1>3, <2>2 DEF CheckDrafts
    <3>2. UNCHANGED <<count, recent, candidates>> /\ attempt < MaxAttempts
      BY <1>3, <2>2 DEF CheckDrafts
    <3>3. again \in SUBSET (1..Len(candidates))
      BY DEF BlockedDrafts
    <3>4. Len(candidates) \in 0..MaxDrafts
      BY DEF GateShapes
    <3> HIDE DEF again
    <3>5. Len(candidates) - Len(kept) \in 1..MaxDrafts
      BY <2>2, <3>3, <3>4, AskedAgain
    <3>6. attempt + 1 \in 1..MaxAttempts
      BY <3>2, GateAssumption DEF GateShapes
    <3> QED
      BY <3>1, <3>2, <3>5, <3>6 DEF GateShapes
  <2> QED
    BY <2>1, <2>2
<1>4. CASE UNCHANGED gateVars
  BY <1>4 DEF gateVars, GateShapes
<1> QED
  BY <1>1, <1>2, <1>3, <1>4 DEF GateNext

LEMMA GateTypesHold == GateSpec => []GateTypeOK
<1>1. GateInit => GateShapes
  <2> SUFFICES ASSUME GateInit
               PROVE  GateShapes
    OBVIOUS
  <2>1. PICK n \in 0..(MaxDrafts + 1) : count = Clamped(n)
    BY DEF GateInit
  <2>2. count \in 1..MaxDrafts
    BY <2>1, GateAssumption DEF Clamped
  <2>3. Len(candidates) = 0 /\ 0 \in 0..MaxDrafts /\ 1 \in 1..MaxAttempts
    BY GateAssumption DEF GateInit
  <2> QED
    BY <2>2, <2>3 DEF GateInit, GateShapes
<1>2. GateInv /\ GateShapes => GateTypeOK
  <2> SUFFICES ASSUME GateInv, GateShapes
               PROVE  GateTypeOK
    OBVIOUS
  <2>1. ToSet(candidates) \subseteq Drafts /\ ToSet(accepted) \subseteq DraftRecord
    BY DEF GateInv, ToSet
  <2> QED
    BY <2>1 DEF GateShapes, GateTypeOK, DraftRecord
<1> QED
  BY <1>1, <1>2, GateInvariant, GateShapesStep, PTL DEF GateSpec
=============================================================================
