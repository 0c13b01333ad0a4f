------------------------------ MODULE Tenancy -------------------------------
(***************************************************************************)
(* Which rows a query reaches (db/src/tenant.ts, db/src/client.ts).  A     *)
(* client is bound to a workspace, and its queries are rewritten, or it is *)
(* guarded, and a query that names no workspace is refused.  What else a   *)
(* query filters by is any set of rows; the workspace it names is absent,  *)
(* a workspace, or a filter that is not a plain identifier.  The guards    *)
(* look at workspaceId only: a query may reach further through a relation  *)
(* ("Known limits", tenant.ts:13-17).                                      *)
(***************************************************************************)
EXTENDS FiniteSets

CONSTANTS Tenants, Rows, Absent, Filter

ASSUME TenancyConstants ==
  /\ Absent \notin Tenants /\ Filter \notin Tenants /\ Absent # Filter
  /\ "guarded" \notin Tenants

VARIABLES
  owner,   \* the workspace of each row; Absent while there is none
  reached  \* history: the client of the last query, and the workspaces of the
           \* rows it found, of those it wrote or linked, and of those its
           \* relations speak of

tenancyVars == <<owner, reached>>

Named == Tenants \cup {Absent, Filter}
Operations == {"read", "delete", "update", "create", "createMany", "upsert", "other"}
Guarded == "guarded"
Refused == [op |-> "refused"]

(* A relation in the data: the row's workspace is connected, a row of      *)
(* another model is made along with it (without a workspace it fails at    *)
(* NOT NULL), or one that is there is linked, changed or included.         *)
NoRelation == [form |-> "none"]
Relations ==
  {NoRelation} \cup [form: {"connect", "nested"}, to: Tenants] \cup [form: {"linked"}, row: Rows]

(* where, data and, of an upsert, update name a workspace; the data of an  *)
(* upsert is what it creates, and createMany has a second row.  What an    *)
(* operation does not have is absent; Prisma takes a workspaceId or a      *)
(* connected workspace, not both.                                          *)
Query == [op: Operations, where: Named, data: Named, second: Named, update: Named,
          rows: SUBSET Rows, relation: Relations]
Queries ==
  {q \in Query :
     /\ q.op \in {"create", "createMany", "other"} => q.where = Absent /\ q.rows = {}
     /\ q.op \in {"read", "delete", "other"} => q.data = Absent
     /\ q.op # "createMany" => q.second = Absent
     /\ q.op # "upsert" => q.update = Absent
     /\ q.op \in {"createMany", "other"} => q.relation = NoRelation
     /\ q.relation.form = "nested" => q.op \in {"create", "update", "upsert"}
     /\ q.relation.form = "connect" =>
          (q.op = "update" /\ q.data = Absent) \/ (q.op = "upsert" /\ q.update = Absent)}

TenancyInit ==
  /\ owner \in [Rows -> Tenants \cup {Absent}]
  /\ reached = [by |-> Guarded, found |-> {}, touched |-> {}, said |-> {}]

-----------------------------------------------------------------------------
(* scopeArgs: the workspace is added; another one is refused.              *)
BindsAnything(named, t) == TRUE
Binds(named, t) == named \in {t, Absent}

ScopeArgs(q, t) ==
  IF \/ q.op = "other"
     \/ q.op \in {"read", "delete", "update", "upsert"} /\ ~Binds(q.where, t)
     \/ q.op = "update" /\ ~Binds(q.data, t)
     \/ q.op \in {"create", "createMany", "upsert"} /\ ~Binds(q.data, t)
     \/ q.op = "createMany" /\ ~Binds(q.second, t)
     \/ q.op = "upsert" /\ ~Binds(q.update, t)
  THEN Refused
  ELSE [q EXCEPT !.where = t,
                 !.data = IF q.op = "update" THEN @ ELSE t,
                 !.second = t]

(* assertTenantScoped: exactly one workspace is named.                     *)
AssertTenantScoped(q) ==
  IF \/ q.op = "other"
     \/ q.op \in {"read", "delete", "update", "upsert"} /\ q.where \notin Tenants
     \/ q.op = "update" /\ q.data \notin {q.where, Absent}
     \/ q.op \in {"create", "createMany"} /\ q.data \notin Tenants
     \/ q.op = "createMany" /\ q.second \notin Tenants
     \/ q.op = "upsert" /\ (q.data # q.where \/ q.update \notin {q.where, Absent})
  THEN Refused ELSE q

(* The Workspace model itself, which has no workspaceId: a bound client    *)
(* reads or updates the row of its own.                                    *)
ScopeWorkspaceArgs(op, id, t) ==
  IF op \in {"readOne", "update"} /\ Binds(id, t) THEN {t} ELSE {}

-----------------------------------------------------------------------------
(* The database: a query without a workspace reaches those of all.         *)
Matched(q) ==
  {r \in q.rows : owner[r] # Absent /\ (q.where \in Tenants => owner[r] = q.where)}
Moved(rows, to) == [r \in Rows |-> IF r \in rows /\ to # Absent THEN to ELSE owner[r]]
FreeRow == {r \in Rows : owner[r] = Absent}
Connected(q, named) == IF q.relation.form = "connect" THEN q.relation.to ELSE named

Effects(q) ==
  IF q.op = "read" THEN {owner}
  ELSE IF q.op = "delete" THEN {[r \in Rows |-> IF r \in Matched(q) THEN Absent ELSE owner[r]]}
  ELSE IF q.op = "update" THEN {Moved(Matched(q), Connected(q, q.data))}
  ELSE IF q.op = "create" THEN {Moved({r}, q.data) : r \in FreeRow}
  ELSE IF q.op = "createMany" THEN
    {[Moved({x[1]}, q.data) EXCEPT ![x[2]] = q.second] :
        x \in {y \in FreeRow \X FreeRow : y[1] # y[2]}}
  ELSE IF Matched(q) # {} THEN
    {Moved({r}, Connected(q, q.update)) : r \in Matched(q)}
  ELSE {Moved({r}, q.data) : r \in FreeRow}

WithNested(q, mid) ==
  IF q.relation.form = "nested" /\ (q.op = "update" => Matched(q) # {})
  THEN {[mid EXCEPT ![r] = q.relation.to] : r \in {s \in FreeRow : mid[s] = Absent}}
  ELSE {mid}

Linked(q) == IF q.relation.form = "linked" THEN {owner[q.relation.row]} ELSE {}
Said(q) ==
  IF q.relation.form \in {"connect", "nested"} THEN {q.relation.to} ELSE Linked(q)

Run(q, by) ==
  \E mid \in Effects(q) : \E after \in WithNested(q, mid) :
    /\ \A r \in Rows : after[r] \in Tenants \cup {Absent}     \* NOT NULL
    /\ owner' = after
    /\ reached' = [by |-> by,
                   found |-> {owner[r] : r \in Matched(q)},
                   touched |-> ({after[r] : r \in {s \in Rows : after[s] # owner[s]}}
                                  \cup Linked(q)) \ {Absent},
                   said |-> Said(q) \ {Absent}]

(* What the guards let through; a query that is refused does nothing.      *)
ScopedQueries == [t \in Tenants |-> {ScopeArgs(q, t) : q \in Queries} \ {Refused}]
GuardedQueries == {AssertTenantScoped(q) : q \in Queries} \ {Refused}

ScopedQuery(t) == \E q \in ScopedQueries[t] : Run(q, t)
WorkspaceQuery(t) ==
  /\ \E op \in {"readOne", "readMany", "update", "create", "delete"}, id \in Named :
       LET rows == ScopeWorkspaceArgs(op, id, t) IN
       /\ rows # {}
       /\ reached' = [by |-> t, found |-> rows, touched |-> {}, said |-> {}]
  /\ UNCHANGED owner

GuardedQuery == \E q \in GuardedQueries : Run(q, Guarded)

TenancyNext == GuardedQuery \/ \E t \in Tenants : ScopedQuery(t) \/ WorkspaceQuery(t)

TenancySpec == TenancyInit /\ [][TenancyNext]_tenancyVars

-----------------------------------------------------------------------------
TenancyTypeOK ==
  /\ owner \in [Rows -> Tenants \cup {Absent}]
  /\ reached \in [by: Tenants \cup {Guarded}, found: SUBSET Tenants,
                  touched: SUBSET Tenants, said: SUBSET Tenants]

(* A client bound to a workspace finds no row of another to read, change,  *)
(* move or delete, whatever operation, filters and data it is given        *)
(* (tenant.ts:4-11), and it writes in no other - but for what the          *)
(* relations of the query speak of, which the guards do not look at: the   *)
(* services answer for those (tenant.ts:13-17).                            *)
TenantsStayApart ==
  reached.by \in Tenants =>
    /\ reached.found \subseteq {reached.by}
    /\ reached.touched \subseteq {reached.by} \cup reached.said
=============================================================================
