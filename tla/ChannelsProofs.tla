--------------------------- MODULE ChannelsProofs ---------------------------
(***************************************************************************)
(* The connections to Facebook Pages, for any workspaces, Pages, requests  *)
(* and removals: a deletion leaves nothing, a disconnection takes nothing  *)
(* that is not its own, every loss is told about.                          *)
(*                                                                         *)
(* All three rest on identities not being given twice: an account or a row *)
(* carries the id of a request that can create no other.                   *)
(***************************************************************************)
EXTENDS Channels, FiniteSetTheorems, TLAPS

Disconnecting == {"delete", "count", "revoke", "revokeCall", "dropAccount"}
Checking == {"ask", "look", "mark", "tell"}
Removing == {"dropPages", "findPages", "dropFound", "dropAccounts", "removed"}
Connecting == {"consent", "exchange", "upsertAccount", "connect"}

(* Spent: no account, or no row at s, will be created under this id.       *)
AccountSpent(id) == id = Seed \/ (id \in ChannelRequests /\ fbCall[id] = Over)
RowSpent(s, id) ==
  \/ id = Seed
  \/ /\ id \in ChannelRequests
     /\ fbCall[id] = Over \/ (fbCall[id].pc = "connect" /\ s \notin fbCall[id].left)

CallOK(c) ==
  /\ c.pc \in {"new", "over"} \cup Connecting \cup Disconnecting \cup Checking \cup Removing
  /\ c.pc = "over" => c = Over
  /\ c.pc \in Connecting => c.w \in Workspaces
  /\ c.pc \in {"upsertAccount", "connect"} => c.token \in Nat
  /\ c.pc = "connect" => c.id \in Ids /\ c.left \subseteq PagesOf(c.w)
  /\ c.pc \in Disconnecting \cup Checking =>
       c.s \in Spots /\ c.id \in Ids /\ RowSpent(c.s, c.id)
  /\ c.pc \in Disconnecting => c.w = WorkspaceOf[c.s] /\ c.account \in Ids
  /\ c.pc \in Removing =>
       c.found \subseteq Workspaces \X Ids /\ \A f \in c.found : AccountSpent(f[2])

(* The requests made so far.                                               *)
Begun == {r \in ChannelRequests : fbCall[r].pc # "new"}

CallsOK ==
  /\ DOMAIN fbCall = ChannelRequests
  /\ \A r \in ChannelRequests : CallOK(fbCall[r])
  /\ IsFiniteSet(Begun)

RowsOK ==
  /\ \A w \in Workspaces : account[w] # NoRow => AccountSpent(account[w].id)
  /\ \A s \in Spots : channel[s] # NoRow => RowSpent(s, channel[s].id)

(* The accounts a deletion found do not come back.                         *)
RemovedIsGone ==
  \A r \in ChannelRequests : fbCall[r].pc = "removed" =>
    \A f \in fbCall[r].found : ~IsAccount(f[1], f[2])

(* An account is let go when no row was left on it: those it has since are *)
(* late.  When its token was read it was the account of the workspace, so  *)
(* that no other could have a row either.                                  *)
Bare(c) ==
  c.pc \in LettingGo =>
    \A s \in PagesOf(c.w) :
      channel[s] # NoRow /\ (c.pc = "revokeCall" \/ channel[s].account = c.account) => s \in late

LetGoIsBare == \A r \in ChannelRequests : Bare(fbCall[r])

(* What has been told or is being told was lost; and whoever is about to   *)
(* mark a row marked already crossed with the one that marked it.          *)
Telling(s) == Cardinality(At("tell", s, channel[s].id))

LossCounted(s) ==
  /\ news[s].told + Telling(s) <= news[s].lost \/ news[s].crossed
  /\ news[s].lost <= news[s].told + Telling(s) \/ news[s].silent
  /\ channel[s].status = "needs_reconnect" /\ At("mark", s, channel[s].id) # {}
       => news[s].crossed

LossesCounted == \A s \in Spots : channel[s] # NoRow => LossCounted(s)

ChannelsInv ==
  /\ ChannelsTypeOK
  /\ CallsOK
  /\ RowsOK
  /\ RemovedIsGone
  /\ LetGoIsBare
  /\ LossesCounted

-----------------------------------------------------------------------------
(* A request goes on: the others stay, and what is spent stays spent.      *)
CallMoved(r) ==
  /\ DOMAIN fbCall' = ChannelRequests
  /\ \A q \in ChannelRequests \ {r} : fbCall'[q] = fbCall[q]
  /\ fbCall[r].pc \notin {"over", "removed"}
  /\ fbCall[r].pc = "connect" =>
       fbCall'[r] = Over \/ (fbCall'[r].pc = "connect" /\ fbCall'[r].left \subseteq fbCall[r].left)

LEMMA Continued ==
  ASSUME CallsOK, NEW r \in ChannelRequests, NEW state, Continues(r, state),
         fbCall[r].pc \notin {"over", "removed", "connect"}
  PROVE  CallMoved(r) /\ fbCall'[r] = state
  BY DEF CallsOK, Continues, CallMoved

LEMMA SpentStays ==
  ASSUME NEW r \in ChannelRequests, CallMoved(r)
  PROVE  /\ \A id \in Ids : AccountSpent(id) => AccountSpent(id)'
         /\ \A s \in Spots, id \in Ids : RowSpent(s, id) => RowSpent(s, id)'
<1>1. fbCall[r] # Over
  BY DEF CallMoved, Over
<1>2. ASSUME NEW id \in Ids, AccountSpent(id) PROVE AccountSpent(id)'
  BY <1>1, <1>2 DEF AccountSpent, CallMoved
<1>3. ASSUME NEW s \in Spots, NEW id \in Ids, RowSpent(s, id) PROVE RowSpent(s, id)'
  <2>1. CASE id = Seed
    BY <2>1 DEF RowSpent
  <2>2. CASE id \in ChannelRequests /\ id # r
    BY <2>2, <1>3 DEF RowSpent, CallMoved
  <2>3. CASE id = r /\ id # Seed
    <3>1. fbCall[r].pc = "connect" /\ s \notin fbCall[r].left
      BY <2>3, <1>1, <1>3 DEF RowSpent
    <3> QED
      BY <3>1, <2>3 DEF RowSpent, CallMoved
  <2> QED
    BY <2>1, <2>2, <2>3 DEF Ids
<1> QED
  BY <1>2, <1>3

LEMMA CallsGoOn ==
  ASSUME CallsOK, NEW r \in ChannelRequests, CallMoved(r), CallOK(fbCall[r])'
  PROVE  CallsOK'
<1>1. ASSUME NEW q \in ChannelRequests, q # r PROVE CallOK(fbCall[q])'
  <2>1. fbCall'[q] = fbCall[q] /\ CallOK(fbCall[q])
    BY <1>1 DEF CallsOK, CallMoved
  <2>2. fbCall[q].pc \in Disconnecting \cup Checking =>
          RowSpent(fbCall[q].s, fbCall[q].id)'
    BY <2>1, SpentStays DEF CallOK
  <2>3. fbCall[q].pc \in Removing =>
          \A f \in fbCall[q].found : AccountSpent(f[2])'
    BY <2>1, SpentStays DEF CallOK
  <2> QED
    BY <2>1, <2>2, <2>3 DEF CallOK, PagesOf
<1>2. IsFiniteSet(Begun')
  <2>1. Begun' \subseteq Begun \cup {r}
    BY DEF Begun, CallMoved
  <2>2. IsFiniteSet(Begun \cup {r})
    BY FS_AddElement DEF CallsOK
  <2> QED
    BY <2>1, <2>2, FS_Subset
<1> QED
  BY <1>1, <1>2 DEF CallsOK, CallMoved

-----------------------------------------------------------------------------
(* What each conjunct needs of a step.                                     *)
LEMMA RowsGoOn ==
  ASSUME ChannelsTypeOK, RowsOK, NEW r \in ChannelRequests, CallMoved(r),
         \A w \in Workspaces : account'[w] # NoRow =>
           \/ account[w] # NoRow /\ account'[w].id = account[w].id
           \/ account'[w].id = r /\ fbCall'[r] = Over,
         \A s \in Spots : channel'[s] # NoRow =>
           \/ channel[s] # NoRow /\ channel'[s].id = channel[s].id
           \/ channel'[s].id = r /\ RowSpent(s, r)'
  PROVE  RowsOK'
<1>1. ASSUME NEW w \in Workspaces, account'[w] # NoRow PROVE AccountSpent(account[w].id)'
  <2>1. CASE account[w] # NoRow /\ account'[w].id = account[w].id
    <3>1. account[w].id \in Ids /\ AccountSpent(account[w].id)
      BY <2>1 DEF ChannelsTypeOK, RowsOK
    <3> QED
      BY <2>1, <3>1, SpentStays DEF AccountSpent
  <2>2. CASE account'[w].id = r /\ fbCall'[r] = Over
    BY <2>2 DEF AccountSpent
  <2> QED
    BY <1>1, <2>1, <2>2
<1>2. ASSUME NEW s \in Spots, channel'[s] # NoRow PROVE RowSpent(s, channel[s].id)'
  <2>1. CASE channel[s] # NoRow /\ channel'[s].id = channel[s].id
    <3>1. channel[s].id \in Ids /\ RowSpent(s, channel[s].id)
      BY <2>1 DEF ChannelsTypeOK, RowsOK
    <3> QED
      BY <2>1, <3>1, SpentStays DEF RowSpent
  <2>2. CASE channel'[s].id = r /\ RowSpent(s, r)'
    BY <2>2 DEF RowSpent
  <2> QED
    BY <1>2, <2>1, <2>2
<1> QED
  BY <1>1, <1>2 DEF RowsOK, NoRow

LEMMA RemovedGoesOn ==
  ASSUME CallsOK, RemovedIsGone, NEW r \in ChannelRequests, CallMoved(r),
         \A w \in Workspaces : account'[w] # NoRow =>
           \/ account[w] # NoRow /\ account'[w].id = account[w].id
           \/ account'[w].id = r,
         (fbCall[r].pc = "removed" =>
            \A f \in fbCall[r].found : ~IsAccount(f[1], f[2]))'
  PROVE  RemovedIsGone'
<1> SUFFICES ASSUME NEW q \in ChannelRequests, q # r, fbCall[q].pc = "removed",
                    NEW f \in fbCall[q].found
             PROVE  ~IsAccount(f[1], f[2])'
  BY DEF RemovedIsGone, CallMoved
<1>1. f \in Workspaces \X Ids /\ AccountSpent(f[2])
  BY DEF CallsOK, CallOK, Removing
<1>2. f[1] \in Workspaces /\ f[2] # r
  BY <1>1, ChannelConstants DEF AccountSpent, CallMoved, Over
<1>3. ~IsAccount(f[1], f[2])
  BY DEF RemovedIsGone
<1> QED
  BY <1>2, <1>3 DEF IsAccount, NoRow

LEMMA LetGoGoesOn ==
  ASSUME LetGoIsBare, NEW r \in ChannelRequests, CallMoved(r),
         \A s \in Spots : channel'[s] # NoRow =>
           channel[s] # NoRow /\ channel'[s].account = channel[s].account,
         late' = late,
         Bare(fbCall[r])'
  PROVE  LetGoIsBare'
<1> SUFFICES ASSUME NEW q \in ChannelRequests, q # r, fbCall'[q] = fbCall[q]
             PROVE  Bare(fbCall[q])'
  BY DEF LetGoIsBare, CallMoved
<1>1. Bare(fbCall[q])
  BY DEF LetGoIsBare
<1> QED
  BY <1>1 DEF Bare, PagesOf, NoRow

(* The request is at a step about the row there is now.                    *)
Concerns(r, pc, s) ==
  fbCall[r].pc = pc /\ fbCall[r].s = s /\ fbCall[r].id = channel[s].id

LEMMA LossGoesOn ==
  ASSUME NEW r \in ChannelRequests, CallMoved(r), NEW s \in Spots, LossCounted(s),
         channel'[s].id = channel[s].id, channel'[s].status = channel[s].status,
         news'[s] = news[s],
         Concerns(r, "tell", s)' <=> Concerns(r, "tell", s),
         Concerns(r, "mark", s)' =>
           Concerns(r, "mark", s) \/ channel[s].status # "needs_reconnect"
  PROVE  LossCounted(s)'
<1>1. At("tell", s, channel[s].id)' = At("tell", s, channel[s].id)
  BY DEF At, Concerns, CallMoved
<1>2. channel[s].status = "needs_reconnect" =>
        At("mark", s, channel[s].id)' \subseteq At("mark", s, channel[s].id)
  BY DEF At, Concerns, CallMoved
<1> QED
  BY <1>1, <1>2 DEF LossCounted, Telling

LEMMA TellersAreFew ==
  ASSUME CallsOK, NEW s, NEW id
  PROVE  IsFiniteSet(At("tell", s, id)) /\ IsFiniteSet(At("mark", s, id))
<1>1. At("tell", s, id) \subseteq Begun /\ At("mark", s, id) \subseteq Begun
  BY DEF At, Begun
<1> QED
  BY <1>1, FS_Subset DEF CallsOK

-----------------------------------------------------------------------------
(* Most steps create no row and change none: some only make rows go.       *)
OnlyDrops ==
  /\ account' \in [Workspaces -> {NoRow} \cup [id: Ids, token: Nat]]
  /\ \A w \in Workspaces : account'[w] \in {account[w], NoRow}
  /\ channel' = [s \in Spots |-> channel'[s]]
  /\ \A s \in Spots : channel'[s] \in {channel[s], NoRow}
  /\ \A s \in Spots : channel'[s] # NoRow => IsAccount(WorkspaceOf[s], channel[s].account)'
  /\ grant' \in {grant, grant + 1}
  /\ consent' \subseteq ChannelRequests
  /\ UNCHANGED <<removals, news, late>>

LEMMA NothingDrops ==
  ASSUME ChannelsTypeOK, UNCHANGED <<account, channel, removals, news, late>>,
         grant' \in {grant, grant + 1}, consent' \subseteq ChannelRequests
  PROVE  OnlyDrops
  BY DEF OnlyDrops, ChannelsTypeOK, IsAccount

LEMMA DropsKeepTypes ==
  ASSUME ChannelsTypeOK, OnlyDrops
  PROVE  ChannelsTypeOK'
<1>1. channel' \in [Spots -> {NoRow} \cup
        [id: Ids, account: Ids, token: Nat, status: {"active", "needs_reconnect"}]]
  <2>1. \A s \in Spots : channel'[s] \in {NoRow} \cup
          [id: Ids, account: Ids, token: Nat, status: {"active", "needs_reconnect"}]
    BY DEF ChannelsTypeOK, OnlyDrops
  <2>2. channel' = [s \in Spots |-> channel'[s]]
    BY DEF OnlyDrops
  <2> QED
    BY <2>1, <2>2
<1>2. \A s \in Spots : channel'[s] # NoRow => channel'[s].account = channel[s].account
  BY DEF OnlyDrops
<1>3. \A s \in Spots : channel'[s] # NoRow => IsAccount(WorkspaceOf[s], channel[s].account)'
  BY DEF OnlyDrops
<1>4. grant' \in Nat
  BY DEF OnlyDrops, ChannelsTypeOK
<1> QED
  BY <1>1, <1>3, <1>4 DEF OnlyDrops, ChannelsTypeOK

LEMMA DropsKeep ==
  ASSUME ChannelsInv, NEW r \in ChannelRequests, CallMoved(r), OnlyDrops,
         CallOK(fbCall[r])',
         (fbCall[r].pc = "removed" =>
            \A f \in fbCall[r].found : ~IsAccount(f[1], f[2]))',
         Bare(fbCall[r])',
         fbCall[r].pc # "tell", (fbCall[r].pc # "tell")',
         (fbCall[r].pc = "mark")' =>
           \A s \in Spots : Concerns(r, "mark", s)' => channel[s].status # "needs_reconnect"
  PROVE  ChannelsInv'
<1>1. ChannelsTypeOK'
  BY DropsKeepTypes DEF ChannelsInv
<1>2. CallsOK'
  BY CallsGoOn DEF ChannelsInv
<1>3. RowsOK'
  <2>1. \A w \in Workspaces : account'[w] # NoRow =>
          account[w] # NoRow /\ account'[w].id = account[w].id
    BY DEF OnlyDrops
  <2>2. \A s \in Spots : channel'[s] # NoRow =>
          channel[s] # NoRow /\ channel'[s].id = channel[s].id
    BY DEF OnlyDrops
  <2> QED
    BY <2>1, <2>2, RowsGoOn DEF ChannelsInv
<1>4. RemovedIsGone'
  <2>1. \A w \in Workspaces : account'[w] # NoRow =>
          account[w] # NoRow /\ account'[w].id = account[w].id
    BY DEF OnlyDrops
  <2> QED
    BY <2>1, RemovedGoesOn DEF ChannelsInv
<1>5. LetGoIsBare'
  <2>1. \A s \in Spots : channel'[s] # NoRow =>
          channel[s] # NoRow /\ channel'[s].account = channel[s].account
    BY DEF OnlyDrops
  <2>2. late' = late
    BY DEF OnlyDrops
  <2> QED
    BY <2>1, <2>2, LetGoGoesOn DEF ChannelsInv
<1>6. LossesCounted'
  <2> SUFFICES ASSUME NEW s \in Spots, channel'[s] # NoRow PROVE LossCounted(s)'
    BY DEF LossesCounted, NoRow
  <2>1. channel'[s] = channel[s] /\ news' = news
    BY DEF OnlyDrops
  <2>2. LossCounted(s)
    BY <2>1 DEF ChannelsInv, LossesCounted
  <2>3. Concerns(r, "tell", s)' <=> Concerns(r, "tell", s)
    BY DEF Concerns
  <2>4. Concerns(r, "mark", s)' => channel[s].status # "needs_reconnect"
    BY DEF Concerns
  <2> QED
    BY <2>1, <2>2, <2>3, <2>4, LossGoesOn
<1> QED
  BY <1>1, <1>2, <1>3, <1>4, <1>5, <1>6 DEF ChannelsInv

LEMMA OverIsOK ==
  ASSUME NEW r, fbCall'[r] = Over
  PROVE  CallOK(fbCall[r])'
  BY DEF CallOK, Over, Connecting, Disconnecting, Checking, Removing

LEMMA EndingKeeps ==
  ASSUME ChannelsInv, NEW r \in ChannelRequests, CallMoved(r), OnlyDrops,
         fbCall'[r] = Over, fbCall[r].pc # "tell"
  PROVE  ChannelsInv'
  BY DropsKeep, OverIsOK DEF Over, Bare, LettingGo

(* Connecting, up to the first row.                                        *)
LEMMA ConnectionSteps ==
  ASSUME ChannelsInv, NEW r \in ChannelRequests,
         \/ \E w \in Workspaces :
              \/ StartConnection(r, w)
              \/ \E id \in Ids, picked \in Picks(w) : ListPages(r, w, id, picked)
         \/ ConsumeConnectionState(r) \/ ExchangeCode(r)
  PROVE  ChannelsInv'
<1>1. ChannelsTypeOK /\ CallsOK /\ CallOK(fbCall[r])
  BY DEF ChannelsInv, CallsOK
<1>2. ASSUME NEW w \in Workspaces, StartConnection(r, w) PROVE ChannelsInv'
  <2>1. CallMoved(r) /\ fbCall'[r] = [pc |-> "consent", w |-> w] /\ fbCall[r].pc = "new"
    BY <1>1, <1>2, Continued DEF StartConnection
  <2>2. OnlyDrops
    BY <1>1, <1>2, NothingDrops DEF StartConnection, ChannelsTypeOK
  <2>3. CallOK(fbCall[r])'
    BY <2>1 DEF CallOK, Connecting, Disconnecting, Checking, Removing
  <2> QED
    BY <2>1, <2>2, <2>3, DropsKeep DEF Bare, LettingGo
<1>3. ASSUME NEW w \in Workspaces, NEW id \in Ids, NEW picked \in Picks(w),
             ListPages(r, w, id, picked)
      PROVE  ChannelsInv'
  <2>1. OnlyDrops
    BY <1>1, <1>3, NothingDrops DEF ListPages, ChannelsTypeOK
  <2>2. CASE Continues(r, Over)
    <3>1. CallMoved(r) /\ fbCall'[r] = Over /\ fbCall[r].pc = "new"
      BY <1>1, <1>3, <2>2, Continued DEF ListPages
    <3> QED
      BY <2>1, <3>1, EndingKeeps
  <2>3. CASE Continues(r, [pc |-> "connect", w |-> w, id |-> id, left |-> picked,
                           token |-> grant])
    <3>1. CallMoved(r) /\ fbCall[r].pc = "new"
          /\ fbCall'[r] = [pc |-> "connect", w |-> w, id |-> id, left |-> picked,
                           token |-> grant]
      BY <1>1, <1>3, <2>3, Continued DEF ListPages
    <3>2. picked \subseteq PagesOf(w) /\ grant \in Nat
      BY <1>1 DEF Picks, ChannelsTypeOK
    <3>3. CallOK(fbCall[r])'
      BY <3>1, <3>2 DEF CallOK, Connecting, Disconnecting, Checking, Removing, PagesOf
    <3> QED
      BY <2>1, <3>1, <3>3, DropsKeep DEF Bare, LettingGo
  <2> QED
    BY <1>3, <2>2, <2>3 DEF ListPages
<1>4. ASSUME ConsumeConnectionState(r) PROVE ChannelsInv'
  <2>1. OnlyDrops
    BY <1>1, <1>4, NothingDrops DEF ConsumeConnectionState, ChannelsTypeOK
  <2>2. CASE Continues(r, Over)
    <3>1. CallMoved(r) /\ fbCall'[r] = Over /\ fbCall[r].pc = "consent"
      BY <1>1, <1>4, <2>2, Continued DEF ConsumeConnectionState
    <3> QED
      BY <2>1, <3>1, EndingKeeps
  <2>3. CASE Continues(r, [pc |-> "exchange", w |-> fbCall[r].w])
    <3>1. CallMoved(r) /\ fbCall[r].pc = "consent"
          /\ fbCall'[r] = [pc |-> "exchange", w |-> fbCall[r].w]
      BY <1>1, <1>4, <2>3, Continued DEF ConsumeConnectionState
    <3>2. CallOK(fbCall[r])'
      BY <1>1, <3>1 DEF CallOK, Connecting, Disconnecting, Checking, Removing
    <3> QED
      BY <2>1, <3>1, <3>2, DropsKeep DEF Bare, LettingGo
  <2> QED
    BY <1>4, <2>2, <2>3 DEF ConsumeConnectionState
<1>5. ASSUME ExchangeCode(r) PROVE ChannelsInv'
  <2>1. OnlyDrops
    BY <1>1, <1>5, NothingDrops DEF ExchangeCode, ChannelsTypeOK
  <2>2. CASE Continues(r, Over)
    <3>1. CallMoved(r) /\ fbCall'[r] = Over /\ fbCall[r].pc = "exchange"
      BY <1>1, <1>5, <2>2, Continued DEF ExchangeCode
    <3> QED
      BY <2>1, <3>1, EndingKeeps
  <2>3. CASE Continues(r, [pc |-> "upsertAccount", w |-> fbCall[r].w, token |-> grant])
    <3>1. CallMoved(r) /\ fbCall[r].pc = "exchange"
          /\ fbCall'[r] = [pc |-> "upsertAccount", w |-> fbCall[r].w, token |-> grant]
      BY <1>1, <1>5, <2>3, Continued DEF ExchangeCode
    <3>2. grant \in Nat
      BY <1>1 DEF ChannelsTypeOK
    <3>3. CallOK(fbCall[r])'
      BY <1>1, <3>1, <3>2 DEF CallOK, Connecting, Disconnecting, Checking, Removing
    <3> QED
      BY <2>1, <3>1, <3>3, DropsKeep DEF Bare, LettingGo
  <2> QED
    BY <1>5, <2>2, <2>3 DEF ExchangeCode
<1> QED
  BY <1>2, <1>3, <1>4, <1>5

(* Disconnecting.  What is counted as bare stays bare of what is not late. *)
LEMMA DisconnectingSteps ==
  ASSUME ChannelsInv, NEW r \in ChannelRequests,
         \/ \E s \in Spots : Disconnect(r, s)
         \/ DeleteChannel(r) \/ CountRemaining(r) \/ ReadAccountToken(r)
         \/ RevokePermissions(r) \/ DropAccount(r)
  PROVE  ChannelsInv'
<1>1. ChannelsTypeOK /\ CallsOK /\ CallOK(fbCall[r])
  BY DEF ChannelsInv, CallsOK
<1>2. ASSUME NEW s \in Spots, Disconnect(r, s) PROVE ChannelsInv'
  <2>1. CallMoved(r) /\ fbCall[r].pc = "new" /\ channel[s] # NoRow
        /\ fbCall'[r] = [pc |-> "delete", s |-> s, w |-> WorkspaceOf[s],
                         id |-> channel[s].id, account |-> channel[s].account]
    BY <1>1, <1>2, Continued DEF Disconnect
  <2>2. OnlyDrops
    BY <1>1, <1>2, NothingDrops DEF Disconnect, ChannelsTypeOK
  <2>3. channel[s].id \in Ids /\ channel[s].account \in Ids /\ RowSpent(s, channel[s].id)
    BY <1>1, <2>1 DEF ChannelsTypeOK, ChannelsInv, RowsOK
  <2>4. RowSpent(s, channel[s].id)'
    <3>1. channel' = channel
      BY <1>2 DEF Disconnect
    <3> QED
      BY <2>1, <2>3, <3>1, SpentStays DEF RowSpent
  <2>5. channel' = channel
    BY <1>2 DEF Disconnect
  <2>6. CallOK(fbCall[r])'
    BY <2>1, <2>3, <2>4, <2>5 DEF CallOK, Connecting, Disconnecting, Checking, Removing
  <2> QED
    BY <2>1, <2>2, <2>6, DropsKeep DEF Bare, LettingGo
<1>3. ASSUME fbCall[r].pc \in Disconnecting, CallMoved(r), OnlyDrops,
             NEW c, fbCall'[r] = c, c.pc \in {"count"} \cup LettingGo,
             c.s = fbCall[r].s, c.id = fbCall[r].id,
             c.w = fbCall[r].w, c.account = fbCall[r].account, Bare(c)
      PROVE  ChannelsInv'
  <2>1. fbCall[r].s \in Spots /\ fbCall[r].id \in Ids /\ RowSpent(fbCall[r].s, fbCall[r].id)
    BY <1>1, <1>3 DEF CallOK
  <2>2. RowSpent(fbCall[r].s, fbCall[r].id)'
    BY <1>3, <2>1, SpentStays DEF RowSpent
  <2>3. c.pc \notin {"new", "over", "tell", "mark", "removed"} \cup Connecting \cup Checking \cup Removing
    BY <1>3 DEF LettingGo, Connecting, Checking, Removing
  <2>4. CallOK(fbCall[r])'
    <3>1. c.pc \in Disconnecting
      BY <1>3 DEF LettingGo, Disconnecting
    <3>2. c.s \in Spots /\ c.id \in Ids /\ c.w = WorkspaceOf[c.s] /\ c.account \in Ids
      BY <1>1, <1>3 DEF CallOK
    <3>3. fbCall'[r] = c /\ RowSpent(c.s, c.id)'
      BY <1>3, <2>2 DEF RowSpent
    <3> QED
      BY <2>3, <3>1, <3>2, <3>3 DEF CallOK, Connecting
  <2>5. Bare(fbCall[r])'
    BY <1>3 DEF OnlyDrops, Bare, PagesOf
  <2>6. fbCall[r].pc # "tell" /\ (fbCall[r].pc \notin {"tell", "mark", "removed"})'
    BY <1>3, <2>3 DEF Disconnecting, LettingGo
  <2> QED
    BY <1>3, <2>4, <2>5, <2>6, DropsKeep
<1>4. ASSUME DeleteChannel(r) PROVE ChannelsInv'
  <2>1. CASE IsRow(fbCall[r].s, fbCall[r].id)
    <3>1. /\ fbCall[r].pc = "delete"
          /\ channel' = [channel EXCEPT ![fbCall[r].s] = NoRow]
          /\ Continues(r, [fbCall[r] EXCEPT !.pc = "count"])
          /\ UNCHANGED <<account, grant, removals, consent, news, late>>
      BY <1>4, <2>1 DEF DeleteChannel
    <3>2. CallMoved(r) /\ fbCall'[r] = [fbCall[r] EXCEPT !.pc = "count"]
      BY <1>1, <3>1, Continued
    <3>3. OnlyDrops
      BY <1>1, <3>1 DEF OnlyDrops, ChannelsTypeOK, IsAccount
    <3>4. Bare([fbCall[r] EXCEPT !.pc = "count"])
      BY <1>1, <3>1 DEF Bare, LettingGo, CallOK
    <3>5. /\ fbCall'[r].pc = "count" /\ fbCall'[r].s = fbCall[r].s /\ fbCall'[r].id = fbCall[r].id
          /\ fbCall'[r].w = fbCall[r].w /\ fbCall'[r].account = fbCall[r].account
      BY <3>2
    <3> QED
      BY <1>3, <3>1, <3>2, <3>3, <3>4, <3>5 DEF Disconnecting
  <2>2. CASE ~IsRow(fbCall[r].s, fbCall[r].id)
    <3>1. fbCall[r].pc = "delete" /\ Continues(r, Over) /\ UNCHANGED channel
          /\ UNCHANGED <<account, grant, removals, consent, news, late>>
      BY <1>4, <2>2 DEF DeleteChannel
    <3>2. OnlyDrops
      BY <1>1, <3>1, NothingDrops DEF ChannelsTypeOK
    <3> QED
      BY <1>1, <3>1, <3>2, Continued, EndingKeeps
  <2> QED
    BY <2>1, <2>2
<1>5. ASSUME CountRemaining(r) PROVE ChannelsInv'
  <2>1. fbCall[r].pc = "count" /\ UNCHANGED <<account, channel, grant, removals, consent, news, late>>
    BY <1>5 DEF CountRemaining
  <2>2. OnlyDrops
    BY <1>1, <2>1, NothingDrops DEF ChannelsTypeOK
  <2>3. CASE RemainingPages(fbCall[r].w, fbCall[r].account) = {}
    <3>1. Continues(r, [fbCall[r] EXCEPT !.pc = "revoke"])
      BY <1>5, <2>3 DEF CountRemaining
    <3>2. CallMoved(r) /\ fbCall'[r] = [fbCall[r] EXCEPT !.pc = "revoke"]
      BY <1>1, <2>1, <3>1, Continued
    <3>3. Bare([fbCall[r] EXCEPT !.pc = "revoke"])
      BY <2>3 DEF Bare, RemainingPages, HeldBy
    <3>4. /\ fbCall'[r].pc = "revoke" /\ fbCall'[r].s = fbCall[r].s /\ fbCall'[r].id = fbCall[r].id
          /\ fbCall'[r].w = fbCall[r].w /\ fbCall'[r].account = fbCall[r].account
      BY <3>2
    <3> QED
      BY <1>3, <2>1, <2>2, <3>2, <3>3, <3>4 DEF Disconnecting, LettingGo
  <2>4. CASE RemainingPages(fbCall[r].w, fbCall[r].account) # {}
    <3>1. Continues(r, Over)
      BY <1>5, <2>4 DEF CountRemaining
    <3> QED
      BY <1>1, <2>1, <2>2, <3>1, Continued, EndingKeeps
  <2> QED
    BY <2>3, <2>4
<1>6. ASSUME fbCall[r].pc \in {"revoke", "revokeCall"}, CallMoved(r), OnlyDrops,
             fbCall'[r] = LetsGo(fbCall[r])
      PROVE  ChannelsInv'
  <2>1. /\ LetsGo(fbCall[r]).pc = "dropAccount" /\ LetsGo(fbCall[r]).s = fbCall[r].s
        /\ LetsGo(fbCall[r]).id = fbCall[r].id /\ LetsGo(fbCall[r]).w = fbCall[r].w
        /\ LetsGo(fbCall[r]).account = fbCall[r].account
    BY DEF LetsGo
  <2>2. Bare(LetsGo(fbCall[r]))
    BY <1>6, <2>1 DEF ChannelsInv, LetGoIsBare, Bare, LettingGo
  <2> QED
    BY <1>3, <1>6, <2>1, <2>2 DEF Disconnecting, LettingGo
<1>7. ASSUME ReadAccountToken(r) PROVE ChannelsInv'
  <2>1. fbCall[r].pc = "revoke" /\ UNCHANGED <<account, channel, grant, removals, consent, news, late>>
    BY <1>7 DEF ReadAccountToken
  <2>2. OnlyDrops
    BY <1>1, <2>1, NothingDrops DEF ChannelsTypeOK
  <2>3. Bare(fbCall[r])
    BY DEF ChannelsInv, LetGoIsBare
  <2>4. CASE IsAccount(fbCall[r].w, fbCall[r].account)
    <3> DEFINE c == [pc |-> "revokeCall", s |-> fbCall[r].s, w |-> fbCall[r].w,
                     id |-> fbCall[r].id, account |-> fbCall[r].account,
                     token |-> account[fbCall[r].w].token]
    <3>1. CallMoved(r) /\ fbCall'[r] = c
      BY <1>1, <1>7, <2>1, <2>4, Continued DEF ReadAccountToken
    <3>2. Bare(c)
      <4>1. \A s \in PagesOf(fbCall[r].w) : channel[s] # NoRow => s \in late
        BY <1>1, <2>1, <2>3, <2>4 DEF Bare, LettingGo, PagesOf, ChannelsTypeOK, IsAccount
      <4> QED
        BY <4>1 DEF Bare
    <3>3. /\ c.pc = "revokeCall" /\ c.s = fbCall[r].s /\ c.id = fbCall[r].id
          /\ c.w = fbCall[r].w /\ c.account = fbCall[r].account
      OBVIOUS
    <3> HIDE DEF c
    <3> QED
      BY <1>3, <2>1, <2>2, <3>1, <3>2, <3>3 DEF Disconnecting, LettingGo
  <2>5. CASE ~IsAccount(fbCall[r].w, fbCall[r].account)
    <3>1. CallMoved(r) /\ fbCall'[r] = LetsGo(fbCall[r])
      BY <1>1, <1>7, <2>1, <2>5, Continued DEF ReadAccountToken
    <3> QED
      BY <1>6, <2>1, <2>2, <3>1
  <2> QED
    BY <2>4, <2>5
<1>8. ASSUME RevokePermissions(r) PROVE ChannelsInv'
  <2>1. /\ fbCall[r].pc = "revokeCall" /\ Continues(r, LetsGo(fbCall[r]))
        /\ UNCHANGED <<account, channel, removals, consent, news, late>>
        /\ grant' \in {grant, grant + 1}
    BY <1>8 DEF RevokePermissions
  <2>2. OnlyDrops
    BY <1>1, <2>1, NothingDrops DEF ChannelsTypeOK
  <2>3. CallMoved(r) /\ fbCall'[r] = LetsGo(fbCall[r])
    BY <1>1, <2>1, Continued
  <2> QED
    BY <1>6, <2>1, <2>2, <2>3
<1>9. ASSUME DropAccount(r) PROVE ChannelsInv'
  <2>1. fbCall[r].pc = "dropAccount" /\ Continues(r, Over)
        /\ UNCHANGED <<grant, removals, consent, news, late>>
    BY <1>9 DEF DropAccount
  <2>2. OnlyDrops
    <3>1. CASE IsAccount(fbCall[r].w, fbCall[r].account)
      <4> DEFINE w == fbCall[r].w
      <4>1. account' = [account EXCEPT ![w] = NoRow] /\ channel' = Cascade(w, {account[w].id})
        BY <1>9, <3>1 DEF DropAccount, IsAccount
      <4>2. w \in Workspaces
        <5>1. w = WorkspaceOf[fbCall[r].s] /\ fbCall[r].s \in Spots
          BY <1>1, <2>1 DEF CallOK, Disconnecting
        <5> QED
          BY <5>1, ChannelConstants
      <4>3. \A s \in Spots : channel'[s] = IF WorkspaceOf[s] = w /\ channel[s] # NoRow
                 /\ channel[s].account = account[w].id THEN NoRow ELSE channel[s]
        BY <4>1 DEF Cascade
      <4>4. \A s \in Spots : channel'[s] # NoRow =>
              channel'[s] = channel[s] /\ WorkspaceOf[s] # w
        BY <1>1, <4>3 DEF ChannelsTypeOK, IsAccount
      <4>5. \A s \in Spots : channel'[s] # NoRow => IsAccount(WorkspaceOf[s], channel[s].account)'
        BY <1>1, <4>1, <4>4, ChannelConstants DEF ChannelsTypeOK, IsAccount
      <4>6. channel' = [s \in Spots |-> channel'[s]]
        BY <4>1 DEF Cascade
      <4> HIDE DEF w
      <4> QED
        BY <1>1, <2>1, <4>1, <4>2, <4>3, <4>5, <4>6 DEF OnlyDrops, ChannelsTypeOK
    <3>2. CASE ~IsAccount(fbCall[r].w, fbCall[r].account)
      <4>1. UNCHANGED <<account, channel>>
        BY <1>9, <3>2 DEF DropAccount
      <4> QED
        BY <1>1, <2>1, <4>1, NothingDrops DEF ChannelsTypeOK
    <3> QED
      BY <3>1, <3>2
  <2> QED
    BY <1>1, <2>1, <2>2, Continued, EndingKeeps
<1> QED
  BY <1>2, <1>4, <1>5, <1>7, <1>8, <1>9

(* Checking, up to the mark: who is about to mark has seen a row that was  *)
(* not marked.                                                             *)
LEMMA CheckingSteps ==
  ASSUME ChannelsInv, NEW r \in ChannelRequests,
         (\E s \in Spots : ReadToken(r, s)) \/ AskFacebook(r) \/ LookAtStatus(r)
  PROVE  ChannelsInv'
<1>1. ChannelsTypeOK /\ CallsOK /\ CallOK(fbCall[r])
  BY DEF ChannelsInv, CallsOK
<1>2. ASSUME NEW s \in Spots, ReadToken(r, s) PROVE ChannelsInv'
  <2>1. CallMoved(r) /\ fbCall[r].pc = "new" /\ channel[s] # NoRow /\ channel' = channel
        /\ fbCall'[r] = [pc |-> "ask", s |-> s, id |-> channel[s].id, token |-> channel[s].token]
    BY <1>1, <1>2, Continued DEF ReadToken
  <2>2. OnlyDrops
    BY <1>1, <1>2, NothingDrops DEF ReadToken, ChannelsTypeOK
  <2>3. channel[s].id \in Ids /\ RowSpent(s, channel[s].id)
    BY <1>1, <2>1 DEF ChannelsTypeOK, ChannelsInv, RowsOK
  <2>4. RowSpent(s, channel[s].id)'
    BY <2>1, <2>3, SpentStays DEF RowSpent
  <2>5. CallOK(fbCall[r])'
    BY <2>1, <2>3, <2>4 DEF CallOK, Connecting, Disconnecting, Checking, Removing
  <2> QED
    BY <2>1, <2>2, <2>5, DropsKeep DEF Bare, LettingGo
<1>3. ASSUME fbCall[r].pc \in Checking, fbCall[r].pc # "tell", CallMoved(r), OnlyDrops,
             NEW pc \in {"look", "mark"}, fbCall'[r] = [fbCall[r] EXCEPT !.pc = pc],
             pc = "mark" => IsRow(fbCall[r].s, fbCall[r].id) /\ WorthMarking(fbCall[r].s)
      PROVE  ChannelsInv'
  <2>1. fbCall'[r].pc = pc /\ fbCall'[r].s = fbCall[r].s /\ fbCall'[r].id = fbCall[r].id
    BY <1>3
  <2>2. fbCall[r].s \in Spots /\ fbCall[r].id \in Ids /\ RowSpent(fbCall[r].s, fbCall[r].id)
    BY <1>1, <1>3 DEF CallOK
  <2>3. RowSpent(fbCall[r].s, fbCall[r].id)'
    BY <1>3, <2>1, <2>2, SpentStays DEF RowSpent
  <2>4. CallOK(fbCall[r])'
    BY <1>1, <1>3, <2>1, <2>2, <2>3 DEF CallOK, Connecting, Disconnecting, Checking, Removing
  <2>5. (fbCall[r].pc \notin {"tell", "removed"})' /\ Bare(fbCall[r])'
    BY <2>1 DEF Bare, LettingGo
  <2>6. (fbCall[r].pc = "mark")' =>
           \A s \in Spots : Concerns(r, "mark", s)' => channel[s].status # "needs_reconnect"
    BY <1>3, <2>1 DEF Concerns, WorthMarking
  <2> QED
    BY <1>3, <2>4, <2>5, <2>6, DropsKeep
<1>4. ASSUME AskFacebook(r) PROVE ChannelsInv'
  <2>1. fbCall[r].pc = "ask" /\ UNCHANGED <<account, channel, grant, removals, consent, news, late>>
    BY <1>4 DEF AskFacebook
  <2>2. OnlyDrops
    BY <1>1, <2>1, NothingDrops DEF ChannelsTypeOK
  <2>3. CASE Continues(r, Over)
    BY <1>1, <2>1, <2>2, <2>3, Continued, EndingKeeps
  <2>4. CASE Continues(r, [fbCall[r] EXCEPT !.pc = "look"])
    <3>1. CallMoved(r) /\ fbCall'[r] = [fbCall[r] EXCEPT !.pc = "look"]
      BY <1>1, <2>1, <2>4, Continued
    <3> QED
      BY <1>3, <2>1, <2>2, <3>1 DEF Checking
  <2> QED
    BY <1>4, <2>3, <2>4 DEF AskFacebook
<1>5. ASSUME LookAtStatus(r) PROVE ChannelsInv'
  <2>1. fbCall[r].pc = "look" /\ UNCHANGED <<account, channel, grant, removals, consent, news, late>>
    BY <1>5 DEF LookAtStatus
  <2>2. OnlyDrops
    BY <1>1, <2>1, NothingDrops DEF ChannelsTypeOK
  <2>3. CASE IsRow(fbCall[r].s, fbCall[r].id) /\ WorthMarking(fbCall[r].s)
    <3>1. Continues(r, [fbCall[r] EXCEPT !.pc = "mark"])
      BY <1>5, <2>3 DEF LookAtStatus
    <3>2. CallMoved(r) /\ fbCall'[r] = [fbCall[r] EXCEPT !.pc = "mark"]
      BY <1>1, <2>1, <3>1, Continued
    <3> QED
      BY <1>3, <2>1, <2>2, <2>3, <3>2 DEF Checking
  <2>4. CASE ~(IsRow(fbCall[r].s, fbCall[r].id) /\ WorthMarking(fbCall[r].s))
    <3>1. Continues(r, Over)
      BY <1>5, <2>4 DEF LookAtStatus
    <3> QED
      BY <1>1, <2>1, <2>2, <3>1, Continued, EndingKeeps
  <2> QED
    BY <2>3, <2>4
<1> QED
  BY <1>2, <1>4, <1>5

(* Facebook's callbacks.                                                   *)
LEMMA RemovingSteps ==
  ASSUME ChannelsInv, NEW r \in ChannelRequests,
         \/ WebhookFinds(r) \/ WebhookFindsPages(r)
         \/ WebhookDropsPages(r) \/ WebhookDropsAccounts(r)
  PROVE  ChannelsInv'
<1>1. ChannelsTypeOK /\ CallsOK /\ CallOK(fbCall[r])
  BY DEF ChannelsInv, CallsOK
<1>2. ASSUME NEW found \in SUBSET (Workspaces \X Ids), \A f \in found : AccountSpent(f[2]),
             CallMoved(r), OnlyDrops, fbCall'[r].found = found, fbCall'[r].pc \in Removing,
             fbCall'[r].pc = "removed" => \A f \in found : ~IsAccount(f[1], f[2])',
             fbCall[r].pc # "tell"
      PROVE  ChannelsInv'
  <2>1. \A f \in found : AccountSpent(f[2])'
    BY <1>2, SpentStays
  <2>2. CallOK(fbCall[r])'
    BY <1>2, <2>1 DEF CallOK, Connecting, Disconnecting, Checking, Removing
  <2>3. (fbCall[r].pc \notin {"tell", "mark"})' /\ Bare(fbCall[r])'
    BY <1>2 DEF Removing, Bare, LettingGo
  <2>4. (fbCall[r].pc = "removed" => \A f \in fbCall[r].found : ~IsAccount(f[1], f[2]))'
    BY <1>2
  <2> QED
    BY <1>2, <2>2, <2>3, <2>4, DropsKeep
<1>3. ASSUME WebhookFinds(r) PROVE ChannelsInv'
  <2>1. fbCall[r].pc = "new" /\ UNCHANGED <<account, channel, grant, removals, consent, news, late>>
    BY <1>3 DEF WebhookFinds
  <2>2. CallMoved(r) /\ fbCall'[r].pc \in {"dropPages", "findPages"} /\ fbCall'[r].found = Found
    <3>1. CASE Continues(r, [pc |-> "dropPages", found |-> Found])
      BY <1>1, <2>1, <3>1, Continued
    <3>2. CASE Continues(r, [pc |-> "findPages", found |-> Found])
      BY <1>1, <2>1, <3>2, Continued
    <3> QED
      BY <1>3, <3>1, <3>2 DEF WebhookFinds
  <2>3. Found \in SUBSET (Workspaces \X Ids) /\ \A f \in Found : AccountSpent(f[2])
    BY <1>1 DEF Found, ChannelsTypeOK, ChannelsInv, RowsOK
  <2>4. OnlyDrops
    BY <1>1, <2>1, NothingDrops DEF ChannelsTypeOK
  <2> QED
    BY <1>2, <2>1, <2>2, <2>3, <2>4 DEF Removing
<1>4. fbCall[r].pc \in Removing =>
        /\ fbCall[r].found \in SUBSET (Workspaces \X Ids)
        /\ \A f \in fbCall[r].found : AccountSpent(f[2])
  BY <1>1 DEF CallOK
<1>5. ASSUME WebhookFindsPages(r) PROVE ChannelsInv'
  <2>1. fbCall[r].pc = "findPages" /\ UNCHANGED <<account, channel, grant, removals, consent, news, late>>
    BY <1>5 DEF WebhookFindsPages
  <2>2. CallMoved(r) /\ fbCall'[r].pc = "dropFound" /\ fbCall'[r].found = fbCall[r].found
    BY <1>1, <1>5, <2>1, Continued DEF WebhookFindsPages
  <2>3. OnlyDrops
    BY <1>1, <2>1, NothingDrops DEF ChannelsTypeOK
  <2> QED
    BY <1>2, <1>4, <2>1, <2>2, <2>3 DEF Removing
<1>6. ASSUME WebhookDropsPages(r) PROVE ChannelsInv'
  <2>1. fbCall[r].pc \in {"dropPages", "dropFound"}
        /\ UNCHANGED <<account, grant, removals, consent, news, late>>
        /\ Continues(r, [pc |-> "dropAccounts", found |-> fbCall[r].found])
    BY <1>6 DEF WebhookDropsPages
  <2>2. CallMoved(r) /\ fbCall'[r].pc = "dropAccounts" /\ fbCall'[r].found = fbCall[r].found
    BY <1>1, <2>1, Continued
  <2>3. channel' = [s \in Spots |-> channel'[s]]
        /\ \A s \in Spots : channel'[s] \in {channel[s], NoRow}
    BY <1>6 DEF WebhookDropsPages
  <2>4. OnlyDrops
    BY <1>1, <2>1, <2>3 DEF OnlyDrops, ChannelsTypeOK, IsAccount
  <2> QED
    BY <1>2, <1>4, <2>1, <2>2, <2>4 DEF Removing
<1>7. ASSUME WebhookDropsAccounts(r) PROVE ChannelsInv'
  <2> DEFINE gone == {w \in Workspaces : account[w] # NoRow
                                          /\ <<w, account[w].id>> \in fbCall[r].found}
  <2>1. /\ fbCall[r].pc = "dropAccounts"
        /\ account' = [w \in Workspaces |-> IF w \in gone THEN NoRow ELSE account[w]]
        /\ channel' = [s \in Spots |-> IF WorkspaceOf[s] \in gone
             THEN Cascade(WorkspaceOf[s], {account[WorkspaceOf[s]].id})[s] ELSE channel[s]]
        /\ Continues(r, [pc |-> "removed", found |-> fbCall[r].found])
        /\ UNCHANGED <<grant, removals, consent, news, late>>
    BY <1>7 DEF WebhookDropsAccounts
  <2>2. CallMoved(r) /\ fbCall'[r].pc = "removed" /\ fbCall'[r].found = fbCall[r].found
    BY <1>1, <2>1, Continued
  <2>3. \A s \in Spots : channel'[s] =
          IF WorkspaceOf[s] \in gone THEN NoRow ELSE channel[s]
    BY <1>1, <2>1 DEF Cascade, ChannelsTypeOK, IsAccount
  <2>4. channel' = [s \in Spots |-> channel'[s]]
    BY <2>1
  <2>5. \A f \in fbCall[r].found : ~IsAccount(f[1], f[2])'
    <3> SUFFICES ASSUME NEW f \in fbCall[r].found PROVE ~IsAccount(f[1], f[2])'
      OBVIOUS
    <3>1. f = <<f[1], f[2]>> /\ f[1] \in Workspaces
      BY <1>4, <2>1 DEF Removing
    <3> QED
      BY <2>1, <3>1 DEF IsAccount
  <2>6. \A s \in Spots : channel'[s] # NoRow => IsAccount(WorkspaceOf[s], channel[s].account)'
    BY <1>1, <2>1, <2>3, ChannelConstants DEF ChannelsTypeOK, IsAccount
  <2> HIDE DEF gone
  <2>7. OnlyDrops
    BY <1>1, <2>1, <2>3, <2>4, <2>6 DEF OnlyDrops, ChannelsTypeOK
  <2> QED
    BY <1>2, <1>4, <2>1, <2>2, <2>5, <2>7 DEF Removing
<1> QED
  BY <1>3, <1>5, <1>6, <1>7

-----------------------------------------------------------------------------
(* The steps that write a row.                                             *)
LEMMA UpsertKeeps ==
  ASSUME ChannelsInv, NEW r \in ChannelRequests, UpsertAccount(r)
  PROVE  ChannelsInv'
<1> DEFINE w == fbCall[r].w
           row == [id |-> IF account[w] = NoRow THEN r ELSE account[w].id,
                   token |-> fbCall[r].token]
<1>1. ChannelsTypeOK /\ CallsOK /\ CallOK(fbCall[r])
  BY DEF ChannelsInv, CallsOK
<1>2. /\ fbCall[r].pc = "upsertAccount" /\ Continues(r, Over)
      /\ account' = [account EXCEPT ![w] = row]
      /\ UNCHANGED <<channel, grant, removals, consent, news, late>>
  BY DEF UpsertAccount
<1>3. CallMoved(r) /\ fbCall'[r] = Over
  BY <1>1, <1>2, Continued
<1>4. w \in Workspaces /\ row \in [id: Ids, token: Nat] /\ row # NoRow
  <2>1. w \in Workspaces /\ fbCall[r].token \in Nat
    BY <1>1, <1>2 DEF CallOK, Connecting
  <2>2. account[w] # NoRow => account[w].id \in Ids
    BY <1>1, <2>1 DEF ChannelsTypeOK
  <2> QED
    BY <2>1, <2>2 DEF Ids, NoRow
<1>5. row.id = (IF account[w] = NoRow THEN r ELSE account[w].id)
  OBVIOUS
<1> HIDE DEF row, w
<1>6. account'[w] = row /\ \A v \in Workspaces \ {w} : account'[v] = account[v]
  BY <1>1, <1>2, <1>4 DEF ChannelsTypeOK
<1>7. ChannelsTypeOK'
  <2>1. account' \in [Workspaces -> {NoRow} \cup [id: Ids, token: Nat]]
    BY <1>1, <1>2, <1>4 DEF ChannelsTypeOK
  <2>2. ASSUME NEW s \in Spots, channel[s] # NoRow
        PROVE  IsAccount(WorkspaceOf[s], channel[s].account)'
    <3>1. IsAccount(WorkspaceOf[s], channel[s].account) /\ WorkspaceOf[s] \in Workspaces
      BY <1>1, <2>2, ChannelConstants DEF ChannelsTypeOK
    <3> QED
      BY <1>2, <1>4, <1>5, <1>6, <3>1 DEF IsAccount
  <2> QED
    BY <1>1, <1>2, <2>1, <2>2 DEF ChannelsTypeOK
<1>8. \A v \in Workspaces : account'[v] # NoRow =>
         \/ account[v] # NoRow /\ account'[v].id = account[v].id
         \/ account'[v].id = r /\ fbCall'[r] = Over
  BY <1>3, <1>5, <1>6
<1>9. CallsOK'
  BY <1>1, <1>3, CallsGoOn, OverIsOK
<1>10. RowsOK'
  BY <1>1, <1>2, <1>3, <1>8, RowsGoOn DEF ChannelsInv
<1>11. RemovedIsGone'
  BY <1>1, <1>3, <1>8, RemovedGoesOn DEF ChannelsInv, Over
<1>12. LetGoIsBare'
  BY <1>2, <1>3, LetGoGoesOn DEF ChannelsInv, Over, Bare, LettingGo
<1>13. LossesCounted'
  <2> SUFFICES ASSUME NEW s \in Spots, channel[s] # NoRow PROVE LossCounted(s)'
    BY <1>2 DEF LossesCounted, NoRow
  <2>1. LossCounted(s)
    BY DEF ChannelsInv, LossesCounted
  <2> QED
    BY <1>2, <1>3, <2>1, LossGoesOn DEF Concerns, Over
<1> QED
  BY <1>7, <1>9, <1>10, <1>11, <1>12, <1>13 DEF ChannelsInv

(* A row made anew has had no losses, and nobody is about to mark it or    *)
(* telling of it: its id was not spent before.                             *)
LEMMA ConnectKeeps ==
  ASSUME ChannelsInv, NEW r \in ChannelRequests, NEW s \in Spots, ConnectPage(r, s)
  PROVE  ChannelsInv'
<1> DEFINE w == fbCall[r].w
           next == IF fbCall[r].left = {s} THEN Over ELSE [fbCall[r] EXCEPT !.left = @ \ {s}]
           made == [id |-> IF channel[s] = NoRow THEN r ELSE channel[s].id,
                    account |-> fbCall[r].id, token |-> fbCall[r].token, status |-> "active"]
<1>1. ChannelsTypeOK /\ CallsOK /\ CallOK(fbCall[r])
  BY DEF ChannelsInv, CallsOK
<1>2. /\ fbCall[r].pc = "connect" /\ s \in fbCall[r].left
      /\ UNCHANGED <<account, grant, removals, consent>>
  BY DEF ConnectPage
<1>3. /\ w \in Workspaces /\ fbCall[r].token \in Nat /\ fbCall[r].id \in Ids
      /\ fbCall[r].left \subseteq PagesOf(w)
  BY <1>1, <1>2 DEF CallOK, Connecting
<1>4. WorkspaceOf[s] = w
  BY <1>2, <1>3 DEF PagesOf
<1>5. CASE ~IsAccount(w, fbCall[r].id) /\ Continues(r, Over) /\ UNCHANGED <<channel, news, late>>
  <2>1. CallMoved(r) /\ fbCall'[r] = Over
    BY <1>1, <1>2, <1>5 DEF CallMoved, Continues, CallsOK
  <2>2. OnlyDrops
    BY <1>1, <1>2, <1>5, NothingDrops DEF ChannelsTypeOK
  <2> QED
    BY <1>2, <2>1, <2>2, EndingKeeps
<1>6. CASE /\ IsAccount(w, fbCall[r].id)
           /\ channel' = [channel EXCEPT ![s] = made]
           /\ news' = IF channel[s] = NoRow THEN [news EXCEPT ![s] = NoNews] ELSE news
           /\ late' = IF BeingLetGo(w) THEN late \cup {s} ELSE late \ {s}
           /\ Continues(r, next)
  <2>1. fbCall'[r] = next /\ CallMoved(r)
    <3>1. fbCall'[r] = next
      BY <1>1, <1>6 DEF CallsOK, Continues
    <3>2. next = Over \/ (next.pc = "connect" /\ next.left = fbCall[r].left \ {s})
      BY <1>2
    <3> HIDE DEF next
    <3> QED
      BY <1>1, <1>2, <1>6, <3>1, <3>2 DEF CallsOK, Continues, CallMoved
  <2>2. CallsOK'
    <3>1. CASE next = Over
      BY <1>1, <2>1, <3>1, OverIsOK, CallsGoOn
    <3>2. CASE fbCall'[r] = [fbCall[r] EXCEPT !.left = fbCall[r].left \ {s}]
      <4>1. /\ fbCall'[r].pc = "connect" /\ fbCall'[r].w = w /\ fbCall'[r].id = fbCall[r].id
            /\ fbCall'[r].token = fbCall[r].token
            /\ fbCall'[r].left \subseteq fbCall[r].left
        BY <1>2, <2>1, <3>2 DEF CallMoved, Over
      <4>2. CallOK(fbCall[r])'
        BY <1>3, <4>1 DEF CallOK, PagesOf, Connecting, Disconnecting, Checking, Removing
      <4> QED
        BY <1>1, <2>1, <4>2, CallsGoOn
    <3> QED
      BY <2>1, <3>1, <3>2
  <2>3. RowSpent(s, r)'
    <3>1. next = Over \/ (next.pc = "connect" /\ next.left = fbCall[r].left \ {s})
      BY <1>2
    <3> HIDE DEF next
    <3> QED
      BY <2>1, <3>1 DEF RowSpent
  <2>4. fbCall'[r].pc \in {"connect", "over"}
    <3>1. next.pc \in {"connect", "over"}
      BY <1>2 DEF Over
    <3> QED
      BY <2>1, <3>1
  <2>5. /\ made \in [id: Ids, account: Ids, token: Nat, status: {"active", "needs_reconnect"}]
        /\ made # NoRow /\ made.account = fbCall[r].id /\ made.status = "active"
        /\ made.id = (IF channel[s] = NoRow THEN r ELSE channel[s].id)
    <3>1. channel[s] # NoRow => channel[s].id \in Ids
      BY <1>1 DEF ChannelsTypeOK
    <3> QED
      BY <1>3, <3>1 DEF Ids, NoRow
  <2> HIDE DEF next, made
  <2>6. channel'[s] = made /\ \A t \in Spots \ {s} : channel'[t] = channel[t]
    BY <1>1, <1>6 DEF ChannelsTypeOK
  <2>7. ChannelsTypeOK'
    <3>1. channel' \in [Spots -> {NoRow} \cup
        [id: Ids, account: Ids, token: Nat, status: {"active", "needs_reconnect"}]]
      BY <1>1, <1>6, <2>5 DEF ChannelsTypeOK
    <3>2. \A t \in Spots : channel'[t] # NoRow => IsAccount(WorkspaceOf[t], channel[t].account)'
      BY <1>1, <1>2, <1>4, <1>6, <2>5, <2>6 DEF ChannelsTypeOK, IsAccount
    <3>3. NoNews \in [lost: Nat, told: Nat, crossed: BOOLEAN, silent: BOOLEAN]
      BY DEF NoNews
    <3>4. news' \in [Spots -> [lost: Nat, told: Nat, crossed: BOOLEAN, silent: BOOLEAN]]
      BY <1>1, <1>6, <3>3 DEF ChannelsTypeOK
    <3> QED
      BY <1>1, <1>2, <1>6, <3>1, <3>2, <3>4 DEF ChannelsTypeOK
  <2>8. RowsOK'
    BY <1>1, <1>2, <2>1, <2>3, <2>5, <2>6, RowsGoOn DEF ChannelsInv
  <2>9. RemovedIsGone'
    BY <1>1, <1>2, <2>1, <2>4, RemovedGoesOn DEF ChannelsInv
  <2>10. LetGoIsBare'
    <3> SUFFICES ASSUME NEW q \in ChannelRequests, (fbCall[q].pc \in LettingGo)',
                        NEW t \in PagesOf(fbCall'[q].w), channel'[t] # NoRow,
                        fbCall'[q].pc = "revokeCall" \/ channel'[t].account = fbCall'[q].account
                 PROVE  t \in late'
      BY DEF LetGoIsBare, Bare, PagesOf, NoRow
    <3>1. q # r /\ fbCall'[q] = fbCall[q]
      BY <2>1, <2>4 DEF CallMoved, LettingGo
    <3>2. CASE t = s
      <4>1. fbCall[q].w = w
        BY <1>4, <3>1, <3>2 DEF PagesOf
      <4>2. BeingLetGo(w)
        BY <3>1, <4>1 DEF BeingLetGo
      <4> QED
        BY <1>6, <3>2, <4>2
    <3>3. CASE t # s
      <4>1. channel'[t] = channel[t] /\ t \in PagesOf(fbCall[q].w)
        BY <2>6, <3>1, <3>3 DEF PagesOf
      <4>2. t \in late
        BY <3>1, <4>1 DEF ChannelsInv, LetGoIsBare, Bare
      <4> QED
        BY <1>6, <3>3, <4>2
    <3> QED
      BY <3>2, <3>3
  <2>11. ASSUME NEW t \in Spots, t # s, channel'[t] # NoRow PROVE LossCounted(t)'
    <3>1. channel'[t] = channel[t] /\ news'[t] = news[t]
      BY <1>1, <1>6, <2>6, <2>11 DEF ChannelsTypeOK
    <3>2. LossCounted(t)
      BY <2>11, <3>1 DEF ChannelsInv, LossesCounted
    <3> QED
      BY <1>2, <2>1, <2>4, <3>1, <3>2, LossGoesOn DEF Concerns
  <2>12. LossCounted(s)'
    <3>1. CASE channel[s] # NoRow
      <4>1. channel'[s].id = channel[s].id /\ news'[s] = news[s] /\ channel'[s].status = "active"
        BY <1>6, <2>5, <2>6, <3>1
      <4>2. At("tell", s, channel[s].id)' = At("tell", s, channel[s].id)
        BY <1>2, <2>1, <2>4, <4>1 DEF At, CallMoved
      <4>3. LossCounted(s)
        BY <3>1 DEF ChannelsInv, LossesCounted
      <4>4. Telling(s)' = Telling(s)
        BY <4>1, <4>2 DEF Telling
      <4> QED
        BY <4>1, <4>3, <4>4 DEF LossCounted
    <3>2. CASE channel[s] = NoRow
      <4>1. channel'[s].id = r /\ channel'[s].status = "active"
        BY <2>5, <2>6, <3>2
      <4>2. news'[s] = NoNews
        BY <1>1, <1>6, <3>2 DEF ChannelsTypeOK
      <4>3. ASSUME NEW q \in At("tell", s, r)' PROVE FALSE
        <5>1. q \in ChannelRequests /\ q # r /\ fbCall'[q] = fbCall[q]
          BY <2>1, <2>4, <4>3 DEF At, CallMoved
        <5>2. fbCall[q].pc = "tell" /\ fbCall[q].s = s /\ fbCall[q].id = r
          BY <4>3, <5>1 DEF At
        <5>3. RowSpent(s, r)
          BY <1>1, <5>1, <5>2 DEF CallsOK, CallOK, Checking
        <5> QED
          BY <1>2, <5>3, ChannelConstants DEF RowSpent, Over
      <4>4. At("tell", s, channel[s].id)' = {}
        BY <4>1, <4>3
      <4>5. Cardinality({}) = 0
        BY FS_EmptySet
      <4>6. Telling(s)' = 0
        BY <4>4, <4>5 DEF Telling
      <4> QED
        BY <4>1, <4>2, <4>6 DEF LossCounted, NoNews
    <3> QED
      BY <3>1, <3>2
  <2>13. LossesCounted'
    BY <2>11, <2>12 DEF LossesCounted, NoRow
  <2> QED
    BY <2>2, <2>7, <2>8, <2>9, <2>10, <2>13 DEF ChannelsInv
<1> QED
  BY <1>5, <1>6 DEF ConnectPage

(* The mark.  A second one on a row that is marked already met the first,  *)
(* as the third part of LossCounted remembers.                             *)
LEMMA MarkKeeps ==
  ASSUME ChannelsInv, NEW r \in ChannelRequests, MarkChannel(r)
  PROVE  ChannelsInv'
<1>a. PICK s, id : s = fbCall[r].s /\ id = fbCall[r].id
  OBVIOUS
<1>1. ChannelsTypeOK /\ CallsOK /\ CallOK(fbCall[r])
  BY DEF ChannelsInv, CallsOK
<1>2. fbCall[r].pc = "mark" /\ UNCHANGED <<account, grant, removals, consent, late>>
  BY DEF MarkChannel
<1>3. s \in Spots /\ id \in Ids /\ RowSpent(s, id)
  BY <1>a, <1>1, <1>2 DEF CallOK, Checking
<1>4. CASE ~IsRow(s, id)
  <2>1. Continues(r, Over) /\ UNCHANGED <<channel, news>>
    BY <1>a, <1>4 DEF MarkChannel
  <2>2. OnlyDrops
    BY <1>1, <1>2, <2>1, NothingDrops DEF ChannelsTypeOK
  <2> QED
    BY <1>1, <1>2, <2>1, <2>2, Continued, EndingKeeps
<1>5. CASE IsRow(s, id)
  <2>1. /\ channel' = [channel EXCEPT ![s].status = "needs_reconnect"]
        /\ news' = [news EXCEPT
             ![s].lost = IF channel[s].status = "active" THEN @ + 1 ELSE @,
             ![s].crossed = @ \/ Cardinality(At("mark", s, id)) > 1]
        /\ Continues(r, [fbCall[r] EXCEPT !.pc = "tell"])
    BY <1>a, <1>5 DEF MarkChannel
  <2>2. CallMoved(r) /\ fbCall'[r] = [fbCall[r] EXCEPT !.pc = "tell"]
    BY <1>1, <1>2, <2>1, Continued
  <2>3. fbCall'[r].pc = "tell" /\ fbCall'[r].s = s /\ fbCall'[r].id = id
    BY <1>a, <2>2
  <2>4. CallOK(fbCall[r])'
    <3>1. RowSpent(s, id)'
      BY <1>3, <2>2, SpentStays
    <3> QED
      BY <1>3, <2>3, <3>1 DEF CallOK, RowSpent, Connecting, Disconnecting, Checking, Removing
  <2>5. CallsOK'
    BY <1>1, <2>2, <2>4, CallsGoOn
  <2>6. channel[s] # NoRow /\ channel[s].id = id
    BY <1>5 DEF IsRow
  <2>7. channel[s] \in [id: Ids, account: Ids, token: Nat, status: {"active", "needs_reconnect"}]
    BY <1>1, <1>3, <2>6 DEF ChannelsTypeOK
  <2>8. /\ news[s] \in [lost: Nat, told: Nat, crossed: BOOLEAN, silent: BOOLEAN]
        /\ \A t \in Spots \ {s} : news'[t] = news[t]
        /\ news'[s] \in [lost: Nat, told: Nat, crossed: BOOLEAN, silent: BOOLEAN]
        /\ news'[s].lost = (IF channel[s].status = "active" THEN news[s].lost + 1 ELSE news[s].lost)
        /\ news'[s].told = news[s].told
        /\ news'[s].crossed <=> (news[s].crossed \/ Cardinality(At("mark", s, id)) > 1)
        /\ news'[s].silent <=> news[s].silent
        /\ news' = [t \in Spots |-> news'[t]]
    <3>1. /\ news \in [Spots -> [lost: Nat, told: Nat, crossed: BOOLEAN, silent: BOOLEAN]]
          /\ news[s] \in [lost: Nat, told: Nat, crossed: BOOLEAN, silent: BOOLEAN]
      BY <1>1, <1>3 DEF ChannelsTypeOK
    <3> DEFINE lost == IF channel[s].status = "active" THEN news[s].lost + 1 ELSE news[s].lost
               crossed == news[s].crossed \/ Cardinality(At("mark", s, id)) > 1
    <3>2. news' = [news EXCEPT ![s] = [[news[s] EXCEPT !.lost = lost] EXCEPT !.crossed = crossed]]
      BY <1>3, <2>1, <3>1
    <3>3. lost \in Nat /\ crossed \in BOOLEAN
      BY <3>1
    <3> HIDE DEF lost, crossed
    <3>4. /\ news'[s] = [[news[s] EXCEPT !.lost = lost] EXCEPT !.crossed = crossed]
          /\ \A t \in Spots \ {s} : news'[t] = news[t]
          /\ news' = [t \in Spots |-> news'[t]]
      BY <1>3, <3>1, <3>2
    <3>5. /\ news'[s] \in [lost: Nat, told: Nat, crossed: BOOLEAN, silent: BOOLEAN]
          /\ news'[s].lost = lost /\ news'[s].told = news[s].told
          /\ news'[s].crossed <=> crossed
          /\ news'[s].silent <=> news[s].silent
      BY <3>1, <3>3, <3>4
    <3> QED
      BY <3>1, <3>4, <3>5 DEF lost, crossed
  <2>9. /\ channel'[s] = [channel[s] EXCEPT !.status = "needs_reconnect"]
        /\ \A t \in Spots \ {s} : channel'[t] = channel[t]
        /\ channel' = [t \in Spots |-> channel'[t]]
    BY <1>1, <1>3, <2>1 DEF ChannelsTypeOK
  <2>10. /\ channel'[s] \in [id: Ids, account: Ids, token: Nat, status: {"active", "needs_reconnect"}]
         /\ channel'[s] # NoRow /\ channel'[s].id = id
         /\ channel'[s].account = channel[s].account /\ channel'[s].status = "needs_reconnect"
    BY <2>6, <2>7, <2>9 DEF NoRow
  <2>11. \A t \in Spots : channel'[t] # NoRow => /\ channel[t] # NoRow
                                                 /\ channel'[t].id = channel[t].id
                                                 /\ channel'[t].account = channel[t].account
    BY <2>6, <2>9, <2>10
  <2>12. ChannelsTypeOK'
    <3>1. channel' \in [Spots -> {NoRow} \cup
        [id: Ids, account: Ids, token: Nat, status: {"active", "needs_reconnect"}]]
      BY <1>1, <2>9, <2>10 DEF ChannelsTypeOK
    <3>2. \A t \in Spots : channel'[t] # NoRow => IsAccount(WorkspaceOf[t], channel[t].account)'
      BY <1>1, <1>2, <2>11 DEF ChannelsTypeOK, IsAccount
    <3>3. news' \in [Spots -> [lost: Nat, told: Nat, crossed: BOOLEAN, silent: BOOLEAN]]
      BY <1>1, <2>8 DEF ChannelsTypeOK
    <3> QED
      BY <1>1, <1>2, <3>1, <3>2, <3>3 DEF ChannelsTypeOK
  <2>13. RowsOK'
    BY <1>1, <1>2, <2>2, <2>11, RowsGoOn DEF ChannelsInv
  <2>14. RemovedIsGone'
    BY <1>1, <1>2, <2>2, <2>3, RemovedGoesOn DEF ChannelsInv
  <2>15. LetGoIsBare'
    BY <1>2, <2>2, <2>3, <2>11, LetGoGoesOn DEF ChannelsInv, Bare, LettingGo
  <2>16. ASSUME NEW t \in Spots, t # s, channel'[t] # NoRow PROVE LossCounted(t)'
    <3>1. channel'[t] = channel[t] /\ news'[t] = news[t]
      BY <2>8, <2>9, <2>16
    <3>2. LossCounted(t)
      BY <2>11, <2>16 DEF ChannelsInv, LossesCounted
    <3> QED
      BY <1>a, <1>2, <2>2, <2>3, <2>16, <3>1, <3>2, LossGoesOn DEF Concerns
  <2>17. LossCounted(s)'
    <3>1. LossCounted(s)
      BY <1>3, <2>6 DEF ChannelsInv, LossesCounted
    <3>2. r \in At("mark", s, id) /\ r \notin At("tell", s, id)
      BY <1>a, <1>2 DEF At
    <3>3. IsFiniteSet(At("tell", s, id)) /\ IsFiniteSet(At("mark", s, id))
      BY <1>1, TellersAreFew
    <3>4. At("tell", s, id)' = At("tell", s, id) \cup {r}
      BY <2>2, <2>3 DEF At, CallMoved
    <3>5. Cardinality(At("tell", s, id)') = Cardinality(At("tell", s, id)) + 1
          /\ Cardinality(At("tell", s, id)) \in Nat
      BY <3>2, <3>3, <3>4, FS_AddElement, FS_CardinalityType
    <3>6. Telling(s)' = Telling(s) + 1 /\ Telling(s) \in Nat
      <4>1. Telling(s)' = Cardinality(At("tell", s, id)') /\ Telling(s) = Cardinality(At("tell", s, id))
        BY <2>6, <2>10 DEF Telling, At
      <4> QED
        BY <3>5, <4>1
    <3>7. ASSUME NEW q \in At("mark", s, id)' PROVE news'[s].crossed
      <4>1. q \in At("mark", s, id) /\ q # r
        BY <2>2, <2>3, <3>7 DEF At, CallMoved
      <4>2. Cardinality(At("mark", s, id)) > 1
        <5>1. {q, r} \subseteq At("mark", s, id)
          BY <3>2, <4>1
        <5>2. IsFiniteSet({r}) /\ Cardinality({r}) = 1
          BY FS_Singleton
        <5>3. Cardinality({r} \cup {q}) = 2
          BY <4>1, <5>2, FS_AddElement
        <5>4. {q, r} = {r} \cup {q}
          OBVIOUS
        <5>5. Cardinality({q, r}) <= Cardinality(At("mark", s, id))
          BY <3>3, <5>1, FS_Subset
        <5>6. Cardinality(At("mark", s, id)) \in Nat
          BY <3>3, FS_CardinalityType
        <5> QED
          BY <5>3, <5>4, <5>5, <5>6
      <4> QED
        BY <2>8, <4>2
    <3>8. channel[s].status # "active" => news[s].crossed
      <4>1. channel[s].status # "active" => channel[s].status = "needs_reconnect"
        BY <2>7
      <4> QED
        BY <2>6, <3>1, <3>2, <4>1 DEF LossCounted
    <3>9. /\ news[s].told + Telling(s) <= news[s].lost \/ news[s].crossed
          /\ news[s].lost <= news[s].told + Telling(s) \/ news[s].silent
      BY <3>1 DEF LossCounted
    <3>10. news[s].lost \in Nat /\ news[s].told \in Nat
      BY <2>8
    <3>11. (news[s].told + Telling(s) <= news[s].lost \/ news[s].crossed)'
      BY <2>8, <3>6, <3>8, <3>9, <3>10
    <3>12. (news[s].lost <= news[s].told + Telling(s) \/ news[s].silent)'
      BY <2>8, <3>6, <3>9, <3>10
    <3>13. (At("mark", s, channel[s].id) # {} => news[s].crossed)'
      BY <2>10, <3>7 DEF At
    <3> QED
      BY <3>11, <3>12, <3>13 DEF LossCounted
  <2>18. LossesCounted'
    BY <2>16, <2>17 DEF LossesCounted, NoRow
  <2> QED
    BY <2>5, <2>12, <2>13, <2>14, <2>15, <2>18 DEF ChannelsInv
<1> QED
  BY <1>4, <1>5

(* What a step about messages needs: only the history of rows moves, and   *)
(* the request that told, or stopped before it did, is over.               *)
LEMMA TellingEnds ==
  ASSUME ChannelsInv, NEW r \in ChannelRequests, fbCall[r].pc = "tell",
         Continues(r, Over), UNCHANGED <<account, channel, grant, removals, consent, late>>,
         news' \in [Spots -> [lost: Nat, told: Nat, crossed: BOOLEAN, silent: BOOLEAN]],
         \A s \in Spots : ~IsRow(s, fbCall[r].id) \/ s # fbCall[r].s => news'[s] = news[s],
         \A s \in Spots : IsRow(s, fbCall[r].id) /\ s = fbCall[r].s =>
           /\ news'[s].lost = news[s].lost
           /\ news[s].crossed => news'[s].crossed
           /\ \/ news'[s].told = news[s].told + 1 /\ (news[s].silent => news'[s].silent)
              \/ news'[s].told = news[s].told /\ news'[s].silent
  PROVE  ChannelsInv'
<1>1. ChannelsTypeOK /\ CallsOK
  BY DEF ChannelsInv
<1>2. CallMoved(r) /\ fbCall'[r] = Over
  BY <1>1, Continued
<1>3. ChannelsTypeOK'
  BY <1>1 DEF ChannelsTypeOK, IsAccount
<1>4. CallsOK'
  BY <1>1, <1>2, CallsGoOn, OverIsOK
<1>5. RowsOK' /\ RemovedIsGone' /\ LetGoIsBare'
  BY <1>1, <1>2, RowsGoOn, RemovedGoesOn, LetGoGoesOn DEF ChannelsInv, Over, Bare, LettingGo
<1>6. ASSUME NEW s \in Spots, channel[s] # NoRow PROVE LossCounted(s)'
  <2>1. LossCounted(s)
    BY <1>6 DEF ChannelsInv, LossesCounted
  <2>2. CASE ~IsRow(s, fbCall[r].id) \/ s # fbCall[r].s
    <3>1. news'[s] = news[s]
      BY <2>2
    <3>2. ~Concerns(r, "tell", s)
      BY <1>6, <2>2 DEF Concerns, IsRow
    <3> QED
      BY <1>2, <2>1, <3>1, <3>2, LossGoesOn DEF Concerns, Over
  <2>3. CASE IsRow(s, fbCall[r].id) /\ s = fbCall[r].s
    <3> DEFINE T == At("tell", s, channel[s].id)
    <3>1. r \in T /\ IsFiniteSet(T)
      <4>1. IsFiniteSet(T)
        BY <1>1, TellersAreFew
      <4> QED
        BY <2>3, <4>1 DEF At, IsRow
    <3>2. At("tell", s, channel[s].id)' = T \ {r}
      BY <1>2 DEF At, CallMoved, Over
    <3>3. At("mark", s, channel[s].id)' = At("mark", s, channel[s].id)
      BY <1>2 DEF At, CallMoved, Over
    <3>4. Cardinality(T \ {r}) = Cardinality(T) - 1 /\ Cardinality(T) \in Nat
            /\ Cardinality(T \ {r}) \in Nat
      BY <3>1, FS_RemoveElement, FS_CardinalityType
    <3>5. Telling(s)' = Telling(s) - 1 /\ Telling(s) \in Nat /\ Telling(s)' \in Nat
      BY <3>2, <3>4 DEF Telling
    <3>6. /\ news[s].lost \in Nat /\ news[s].told \in Nat
          /\ news'[s].lost \in Nat /\ news'[s].told \in Nat
      BY <1>1 DEF ChannelsTypeOK
    <3>7. /\ news[s].told + Telling(s) <= news[s].lost \/ news[s].crossed
          /\ news[s].lost <= news[s].told + Telling(s) \/ news[s].silent
          /\ channel[s].status = "needs_reconnect" /\ At("mark", s, channel[s].id) # {}
               => news[s].crossed
      BY <2>1 DEF LossCounted
    <3>8. /\ news'[s].lost = news[s].lost
          /\ news[s].crossed => news'[s].crossed
          /\ \/ news'[s].told = news[s].told + 1 /\ (news[s].silent => news'[s].silent)
             \/ news'[s].told = news[s].told /\ news'[s].silent
      BY <2>3
    <3> HIDE DEF T
    <3>9. (news[s].told + Telling(s) <= news[s].lost \/ news[s].crossed)'
      BY <3>5, <3>6, <3>7, <3>8
    <3>10. (news[s].lost <= news[s].told + Telling(s) \/ news[s].silent)'
      BY <3>5, <3>6, <3>7, <3>8
    <3> QED
      BY <3>3, <3>7, <3>8, <3>9, <3>10 DEF LossCounted
  <2> QED
    BY <2>2, <2>3
<1>7. LossesCounted'
  BY <1>6 DEF LossesCounted, NoRow
<1> QED
  BY <1>3, <1>4, <1>5, <1>7 DEF ChannelsInv

LEMMA NotifyKeeps ==
  ASSUME ChannelsInv, NEW r \in ChannelRequests, NotifyLoss(r)
  PROVE  ChannelsInv'
<1>1. PICK s, id : s = fbCall[r].s /\ id = fbCall[r].id
  OBVIOUS
<1>2. /\ fbCall[r].pc = "tell" /\ Continues(r, Over)
      /\ UNCHANGED <<account, channel, grant, removals, consent, late>>
      /\ news' = IF IsRow(s, id) THEN [news EXCEPT ![s].told = @ + 1] ELSE news
  BY <1>1 DEF NotifyLoss
<1>3. news \in [Spots -> [lost: Nat, told: Nat, crossed: BOOLEAN, silent: BOOLEAN]]
  BY DEF ChannelsInv, ChannelsTypeOK
<1>4. s \in Spots
  BY <1>1, <1>2 DEF ChannelsInv, CallsOK, CallOK, Checking
<1>5. CASE IsRow(s, id)
  <2>1. news' = [news EXCEPT ![s] = [news[s] EXCEPT !.told = news[s].told + 1]]
    BY <1>2, <1>5
  <2>2. news[s] \in [lost: Nat, told: Nat, crossed: BOOLEAN, silent: BOOLEAN]
    BY <1>3, <1>4
  <2>3. /\ news'[s] \in [lost: Nat, told: Nat, crossed: BOOLEAN, silent: BOOLEAN]
        /\ news'[s].lost = news[s].lost /\ news'[s].told = news[s].told + 1
        /\ news'[s].crossed <=> news[s].crossed
        /\ news'[s].silent <=> news[s].silent
    BY <1>3, <1>4, <2>1, <2>2
  <2>4. \A t \in Spots \ {s} : news'[t] = news[t]
    BY <1>3, <2>1
  <2>5. news' \in [Spots -> [lost: Nat, told: Nat, crossed: BOOLEAN, silent: BOOLEAN]]
    BY <1>3, <1>4, <2>1, <2>3, <2>4
  <2>7. \A t \in Spots : ~IsRow(t, fbCall[r].id) \/ t # fbCall[r].s => news'[t] = news[t]
    BY <1>1, <1>5, <2>4
  <2>8. \A t \in Spots : IsRow(t, fbCall[r].id) /\ t = fbCall[r].s =>
          /\ news'[t].lost = news[t].lost
          /\ news[t].crossed => news'[t].crossed
          /\ \/ news'[t].told = news[t].told + 1 /\ (news[t].silent => news'[t].silent)
             \/ news'[t].told = news[t].told /\ news'[t].silent
    BY <1>1, <2>3
  <2> QED
    BY <1>2, <1>5, <2>5, <2>7, <2>8, TellingEnds
<1>6. CASE ~IsRow(s, id)
  <2>1. news' = news
    BY <1>2, <1>6
  <2> QED
    BY <1>1, <1>2, <1>3, <1>6, <2>1, TellingEnds
<1> QED
  BY <1>5, <1>6

LEMMA StopKeeps ==
  ASSUME ChannelsInv, NEW r \in ChannelRequests, Stops(r)
  PROVE  ChannelsInv'
<1>1. PICK s, id : s = fbCall[r].s /\ id = fbCall[r].id
  OBVIOUS
<1>2. /\ fbCall[r].pc \notin {"new", "over", "removed"} /\ Continues(r, Over)
      /\ UNCHANGED <<account, channel, grant, removals, consent, late>>
      /\ news' = IF fbCall[r].pc = "tell" /\ IsRow(s, id)
                 THEN [news EXCEPT ![s].silent = TRUE] ELSE news
  BY <1>1 DEF Stops
<1>3. /\ ChannelsTypeOK /\ CallsOK
      /\ news \in [Spots -> [lost: Nat, told: Nat, crossed: BOOLEAN, silent: BOOLEAN]]
  BY DEF ChannelsInv, ChannelsTypeOK
<1>4. CASE fbCall[r].pc # "tell"
  <2>1. CallMoved(r) /\ fbCall'[r] = Over
    BY <1>2, <1>3 DEF CallMoved, Continues, CallsOK
  <2>2. OnlyDrops
    BY <1>2, <1>3, <1>4, NothingDrops DEF ChannelsTypeOK
  <2> QED
    BY <1>4, <2>1, <2>2, EndingKeeps
<1>5. CASE fbCall[r].pc = "tell" /\ IsRow(s, id)
  <2>1. news' = [news EXCEPT ![s] = [news[s] EXCEPT !.silent = TRUE]]
    BY <1>2, <1>5
  <2>2. s \in Spots
    BY <1>1, <1>5 DEF ChannelsInv, CallsOK, CallOK, Checking
  <2>3. news[s] \in [lost: Nat, told: Nat, crossed: BOOLEAN, silent: BOOLEAN]
    BY <1>3, <2>2
  <2>4. /\ news'[s] \in [lost: Nat, told: Nat, crossed: BOOLEAN, silent: BOOLEAN]
        /\ news'[s].lost = news[s].lost /\ news'[s].told = news[s].told
        /\ news'[s].crossed <=> news[s].crossed
        /\ news'[s].silent
    BY <1>3, <2>1, <2>2, <2>3
  <2>5. \A t \in Spots \ {s} : news'[t] = news[t]
    BY <1>3, <2>1
  <2>6. news' \in [Spots -> [lost: Nat, told: Nat, crossed: BOOLEAN, silent: BOOLEAN]]
    BY <1>3, <2>1, <2>2, <2>4, <2>5
  <2>7. \A t \in Spots : ~IsRow(t, fbCall[r].id) \/ t # fbCall[r].s => news'[t] = news[t]
    BY <1>1, <1>5, <2>5
  <2>8. \A t \in Spots : IsRow(t, fbCall[r].id) /\ t = fbCall[r].s =>
          /\ news'[t].lost = news[t].lost
          /\ news[t].crossed => news'[t].crossed
          /\ \/ news'[t].told = news[t].told + 1 /\ (news[t].silent => news'[t].silent)
             \/ news'[t].told = news[t].told /\ news'[t].silent
    BY <1>1, <2>4
  <2> QED
    BY <1>2, <1>5, <2>6, <2>7, <2>8, TellingEnds
<1>6. CASE fbCall[r].pc = "tell" /\ ~IsRow(s, id)
  <2>1. news' = news
    BY <1>2, <1>6
  <2> QED
    BY <1>1, <1>2, <1>3, <1>6, <2>1, TellingEnds
<1> QED
  BY <1>4, <1>5, <1>6

-----------------------------------------------------------------------------
LEMMA ChannelsInitInv == ChannelsInit => ChannelsInv
<1> SUFFICES ASSUME ChannelsInit PROVE ChannelsInv
  OBVIOUS
<1>1. PICK has \in [Spots -> BOOLEAN] :
        /\ channel = [s \in Spots |-> IF has[s]
             THEN [id |-> Seed, account |-> Seed, token |-> 0, status |-> "active"]
             ELSE NoRow]
        /\ account = [w \in Workspaces |->
             IF \E s \in Spots : WorkspaceOf[s] = w /\ has[s]
             THEN [id |-> Seed, token |-> 0] ELSE NoRow]
  BY DEF ChannelsInit
<1>2. /\ grant = 0 /\ removals = 0 /\ consent = {} /\ late = {}
      /\ fbCall = [r \in ChannelRequests |-> Fresh]
      /\ news = [s \in Spots |-> NoNews]
  BY DEF ChannelsInit
<1>3. Seed \in Ids
  BY DEF Ids
<1>4. ASSUME NEW s \in Spots, channel[s] # NoRow
      PROVE  /\ channel[s] = [id |-> Seed, account |-> Seed, token |-> 0, status |-> "active"]
             /\ IsAccount(WorkspaceOf[s], Seed)
  BY <1>1, <1>4, ChannelConstants DEF IsAccount, NoRow
<1>5. ChannelsTypeOK
  <2>1. channel \in [Spots -> {NoRow} \cup
        [id: Ids, account: Ids, token: Nat, status: {"active", "needs_reconnect"}]]
    BY <1>1, <1>3
  <2>2. account \in [Workspaces -> {NoRow} \cup [id: Ids, token: Nat]]
    BY <1>1, <1>3
  <2>3. news \in [Spots -> [lost: Nat, told: Nat, crossed: BOOLEAN, silent: BOOLEAN]]
    BY <1>2 DEF NoNews
  <2>4. removals \in 0..MaxRemovals
    BY <1>2, ChannelConstants
  <2> QED
    BY <1>2, <1>4, <2>1, <2>2, <2>3, <2>4 DEF ChannelsTypeOK
<1>6. \A r \in ChannelRequests : fbCall[r].pc = "new"
  BY <1>2 DEF Fresh
<1>7. CallsOK
  <2>1. \A r \in ChannelRequests : CallOK(fbCall[r])
    BY <1>6 DEF CallOK, Connecting, Disconnecting, Checking, Removing
  <2>2. IsFiniteSet(Begun)
    BY <1>6, FS_EmptySet DEF Begun
  <2> QED
    BY <1>2, <2>1, <2>2 DEF CallsOK
<1>8. RowsOK
  <2>1. \A w \in Workspaces : account[w] # NoRow => account[w].id = Seed
    BY <1>1
  <2> QED
    BY <1>4, <2>1 DEF RowsOK, AccountSpent, RowSpent
<1>9. RemovedIsGone /\ LetGoIsBare
  BY <1>6 DEF RemovedIsGone, LetGoIsBare, Bare, LettingGo
<1>10. LossesCounted
  <2> SUFFICES ASSUME NEW s \in Spots, channel[s] # NoRow PROVE LossCounted(s)
    BY DEF LossesCounted
  <2>1. At("tell", s, channel[s].id) = {} /\ channel[s].status = "active"
    BY <1>4, <1>6 DEF At
  <2>2. Telling(s) = 0
    BY <2>1, FS_EmptySet DEF Telling
  <2>3. news[s] = NoNews
    BY <1>2
  <2> QED
    BY <2>1, <2>2, <2>3 DEF LossCounted, NoNews
<1> QED
  BY <1>5, <1>7, <1>8, <1>9, <1>10 DEF ChannelsInv

(* Steps that leave the requests alone.                                    *)
LEMMA GrantsAndStates ==
  ASSUME ChannelsInv, UNCHANGED <<account, channel, fbCall, news, late>>,
         grant' \in Nat, removals' \in 0..MaxRemovals, consent' \subseteq ChannelRequests
  PROVE  ChannelsInv'
<1>1. ChannelsTypeOK'
  BY DEF ChannelsInv, ChannelsTypeOK, IsAccount
<1>2. CallsOK' /\ RowsOK'
  BY DEF ChannelsInv, CallsOK, RowsOK, CallOK, AccountSpent, RowSpent, Begun, PagesOf
<1>3. RemovedIsGone' /\ LetGoIsBare'
  BY DEF ChannelsInv, RemovedIsGone, LetGoIsBare, Bare, IsAccount, PagesOf
<1>4. LossesCounted'
  BY DEF ChannelsInv, LossesCounted, LossCounted, Telling, At
<1> QED
  BY <1>1, <1>2, <1>3, <1>4 DEF ChannelsInv

LEMMA ChannelsStep == ChannelsInv /\ [ChannelsNext]_channelVars => ChannelsInv'
<1> SUFFICES ASSUME ChannelsInv, [ChannelsNext]_channelVars PROVE ChannelsInv'
  OBVIOUS
<1>1. grant \in Nat /\ removals \in 0..MaxRemovals /\ consent \subseteq ChannelRequests
  BY DEF ChannelsInv, ChannelsTypeOK
<1>2. CASE RemoveAtFacebook
  <2>1. grant' \in Nat /\ removals' \in 0..MaxRemovals
    BY <1>1, <1>2, ChannelConstants DEF RemoveAtFacebook
  <2> QED
    BY <1>1, <1>2, <2>1, GrantsAndStates DEF RemoveAtFacebook
<1>3. ASSUME NEW r \in ChannelRequests, ChannelStep(r) PROVE ChannelsInv'
  <2>1. CASE \/ \E w \in Workspaces :
                 \/ StartConnection(r, w)
                 \/ \E id \in Ids, picked \in Picks(w) : ListPages(r, w, id, picked)
             \/ ConsumeConnectionState(r) \/ ExchangeCode(r)
    BY <2>1, ConnectionSteps
  <2>2. CASE StateExpires(r)
    BY <1>1, <2>2, GrantsAndStates DEF StateExpires
  <2>3. CASE UpsertAccount(r)
    BY <2>3, UpsertKeeps
  <2>4. CASE \E s \in Spots : ConnectPage(r, s)
    BY <2>4, ConnectKeeps
  <2>5. CASE \/ \E s \in Spots : Disconnect(r, s)
             \/ DeleteChannel(r) \/ CountRemaining(r) \/ ReadAccountToken(r)
             \/ RevokePermissions(r) \/ DropAccount(r)
    BY <2>5, DisconnectingSteps
  <2>6. CASE (\E s \in Spots : ReadToken(r, s)) \/ AskFacebook(r) \/ LookAtStatus(r)
    BY <2>6, CheckingSteps
  <2>7. CASE MarkChannel(r)
    BY <2>7, MarkKeeps
  <2>8. CASE NotifyLoss(r)
    BY <2>8, NotifyKeeps
  <2>9. CASE \/ WebhookFinds(r) \/ WebhookFindsPages(r)
             \/ WebhookDropsPages(r) \/ WebhookDropsAccounts(r)
    BY <2>9, RemovingSteps
  <2>10. CASE Stops(r)
    BY <2>10, StopKeeps
  <2> QED
    BY <1>3, <2>1, <2>2, <2>3, <2>4, <2>5, <2>6, <2>7, <2>8, <2>9, <2>10 DEF ChannelStep
<1>4. CASE UNCHANGED channelVars
  BY <1>1, <1>4, GrantsAndStates DEF channelVars
<1> QED
  BY <1>2, <1>3, <1>4 DEF ChannelsNext

LEMMA ChannelsCorrect == ChannelsSpec => []ChannelsInv
<1>1. ChannelsInit => ChannelsInv
  BY ChannelsInitInv
<1>2. ChannelsInv /\ [ChannelsNext]_channelVars => ChannelsInv'
  BY ChannelsStep
<1> QED
  BY <1>1, <1>2, PTL DEF ChannelsSpec

(* The rows have their types, and a Page's row has its account.            *)
THEOREM ChannelTypesHold == ChannelsSpec => []ChannelsTypeOK
  BY ChannelsCorrect, PTL DEF ChannelsInv

(* A deletion that answered left nothing of what it had found (both      *)
(* handleDeauthorize and handleDataDeletion), whatever crossed it: an id   *)
(* that was found is spent, and a row goes with its account.               *)
THEOREM DeletionLeavesNothing == ChannelsSpec => []DeletionIsComplete
<1>1. ChannelsInv => DeletionIsComplete
  <2> SUFFICES ASSUME ChannelsInv, NEW r \in ChannelRequests, fbCall[r].pc = "removed",
                      NEW f \in fbCall[r].found
               PROVE  ~IsAccount(f[1], f[2]) /\ HeldBy(f[1], f[2]) = {}
    BY DEF DeletionIsComplete
  <2>1. ~IsAccount(f[1], f[2])
    BY DEF ChannelsInv, RemovedIsGone
  <2> QED
    BY <2>1 DEF ChannelsInv, ChannelsTypeOK, HeldBy, PagesOf
<1> QED
  BY <1>1, ChannelsCorrect, PTL

(* markChannelNeedsReconnect tells of each loss once, but for the two      *)
(* gaps the property names.                                                *)
THEOREM LossesAreTold == ChannelsSpec => []EachLossIsTold
<1>1. ChannelsInv => EachLossIsTold
  <2> SUFFICES ASSUME ChannelsInv, NEW s \in Spots, channel[s] # NoRow
               PROVE  /\ news[s].told <= news[s].lost \/ news[s].crossed
                      /\ news[s].lost <= news[s].told + Cardinality(At("tell", s, channel[s].id))
                         \/ news[s].silent
    BY DEF EachLossIsTold
  <2>1. LossCounted(s)
    BY DEF ChannelsInv, LossesCounted
  <2>2. Telling(s) \in Nat
    BY TellersAreFew, FS_CardinalityType DEF ChannelsInv, Telling
  <2>3. news[s].told \in Nat /\ news[s].lost \in Nat
    BY DEF ChannelsInv, ChannelsTypeOK
  <2> QED
    BY <2>1, <2>2, <2>3 DEF LossCounted, Telling
<1> QED
  BY <1>1, ChannelsCorrect, PTL

-----------------------------------------------------------------------------
(* A request in the middle of a disconnection goes on by a step of its own.*)
LEMMA OnlyItself ==
  ASSUME ChannelsInv, NEW r \in ChannelRequests, NEW q \in ChannelRequests, ChannelStep(q),
         fbCall'[r] # fbCall[r], fbCall[r].pc \in {"delete", "revokeCall", "dropAccount"}
  PROVE  DeleteChannel(r) \/ RevokePermissions(r) \/ DropAccount(r) \/ Stops(r)
<1>1. DOMAIN fbCall = ChannelRequests
  BY DEF ChannelsInv, CallsOK
<1>2. ASSUME q # r PROVE FALSE
  <2> SUFFICES fbCall'[r] = fbCall[r]
    OBVIOUS
  <2>1. fbCall' = fbCall \/ \E state : fbCall' = [fbCall EXCEPT ![q] = state]
    <3>1. CASE \E w \in Workspaces : \/ StartConnection(q, w)
                                     \/ \E id \in Ids, picked \in Picks(w) : ListPages(q, w, id, picked)
      BY <3>1 DEF StartConnection, ListPages, Continues
    <3>2. CASE StateExpires(q) \/ ConsumeConnectionState(q) \/ ExchangeCode(q) \/ UpsertAccount(q)
      BY <3>2 DEF StateExpires, ConsumeConnectionState, ExchangeCode, UpsertAccount, Continues
    <3>3. CASE \E s \in Spots : ConnectPage(q, s) \/ Disconnect(q, s) \/ ReadToken(q, s)
      BY <3>3 DEF ConnectPage, Disconnect, ReadToken, Continues
    <3>4. CASE \/ DeleteChannel(q) \/ CountRemaining(q) \/ ReadAccountToken(q)
               \/ RevokePermissions(q) \/ DropAccount(q)
      BY <3>4 DEF DeleteChannel, CountRemaining, ReadAccountToken, RevokePermissions,
                  DropAccount, Continues
    <3>5. CASE AskFacebook(q) \/ LookAtStatus(q) \/ MarkChannel(q) \/ NotifyLoss(q)
      BY <3>5 DEF AskFacebook, LookAtStatus, MarkChannel, NotifyLoss, Continues
    <3>6. CASE WebhookFinds(q) \/ WebhookFindsPages(q)
      BY <3>6 DEF WebhookFinds, WebhookFindsPages, Continues
    <3>7. CASE WebhookDropsPages(q) \/ WebhookDropsAccounts(q) \/ Stops(q)
      BY <3>7 DEF WebhookDropsPages, WebhookDropsAccounts, Stops, Continues
    <3> QED
      BY <3>1, <3>2, <3>3, <3>4, <3>5, <3>6, <3>7 DEF ChannelStep
  <2> QED
    BY <1>1, <1>2, <2>1
<1>3. q = r
  BY <1>2
<1> QED
  BY <1>3 DEF ChannelStep, StartConnection, ListPages, StateExpires, ConsumeConnectionState,
     ExchangeCode, UpsertAccount, ConnectPage, Disconnect, CountRemaining, ReadAccountToken, ReadToken,
     AskFacebook, LookAtStatus, MarkChannel, NotifyLoss, WebhookFinds, WebhookFindsPages,
     WebhookDropsPages, WebhookDropsAccounts

(* What a disconnection may do to another Page of its workspace.           *)
Spares(r) ==
  \A s \in PagesOf(fbCall[r].w) :
    channel[s] # NoRow /\ ~(fbCall[r].pc = "delete" /\ fbCall[r].s = s) =>
      /\ \/ channel'[s] = channel[s]
         \/ s \in late /\ channel[s].account = fbCall[r].account
      /\ channel[s].token = grant => grant' = grant \/ s \in late

LEMMA DisconnectSpares ==
  ASSUME ChannelsInv, NEW r \in ChannelRequests, NEW q \in ChannelRequests, ChannelStep(q),
         fbCall'[r] # fbCall[r], fbCall[r].pc \in {"delete", "revokeCall", "dropAccount"}
  PROVE  Spares(r)
<1>1. ChannelsTypeOK
  BY DEF ChannelsInv
<1> SUFFICES ASSUME NEW s \in PagesOf(fbCall[r].w), channel[s] # NoRow,
                    ~(fbCall[r].pc = "delete" /\ fbCall[r].s = s)
             PROVE  /\ \/ channel'[s] = channel[s]
                       \/ s \in late /\ channel[s].account = fbCall[r].account
                    /\ grant' = grant \/ s \in late
  BY DEF Spares
<1>2. s \in Spots /\ WorkspaceOf[s] = fbCall[r].w
  BY DEF PagesOf
<1>3. Bare(fbCall[r])
  BY DEF ChannelsInv, LetGoIsBare
<1>4. CASE DeleteChannel(r)
  <2>1. /\ UNCHANGED grant
        /\ channel' = channel \/ channel' = [channel EXCEPT ![fbCall[r].s] = NoRow]
        /\ fbCall[r].s # s
    BY <1>4 DEF DeleteChannel
  <2> QED
    BY <1>1, <1>2, <2>1 DEF ChannelsTypeOK
<1>5. CASE RevokePermissions(r)
  <2>1. s \in late
    BY <1>3, <1>5 DEF RevokePermissions, Bare, LettingGo
  <2> QED
    BY <1>5, <2>1 DEF RevokePermissions
<1>6. CASE DropAccount(r)
  <2>1. UNCHANGED grant /\ fbCall[r].pc = "dropAccount"
    BY <1>6 DEF DropAccount
  <2>2. channel[s].account = fbCall[r].account => s \in late
    BY <1>3, <2>1 DEF Bare, LettingGo
  <2>3. channel[s].account # fbCall[r].account => channel'[s] = channel[s]
    BY <1>2, <1>6 DEF DropAccount, Cascade
  <2> QED
    BY <2>1, <2>2, <2>3
<1>7. CASE Stops(r)
  BY <1>7 DEF Stops
<1> QED
  BY <1>4, <1>5, <1>6, <1>7, OnlyItself

(* disconnectChannel lets the account go only when no other Page was left  *)
(* on it, and what is connected through it meanwhile is late.              *)
THEOREM DisconnectIsLocal == ChannelsSpec => DisconnectTakesOnlyItsOwn
<1>1. ChannelsInv /\ [ChannelsNext]_channelVars =>
        [\A r \in ChannelRequests :
           fbCall[r].pc \in {"delete", "revokeCall", "dropAccount"} /\ fbCall'[r] # fbCall[r] =>
             Spares(r)]_channelVars
  <2> SUFFICES ASSUME ChannelsInv, ChannelsNext, NEW r \in ChannelRequests,
                      fbCall[r].pc \in {"delete", "revokeCall", "dropAccount"},
                      fbCall'[r] # fbCall[r]
               PROVE  Spares(r)
    BY DEF channelVars
  <2>1. CASE RemoveAtFacebook
    BY <2>1 DEF RemoveAtFacebook
  <2>2. ASSUME NEW q \in ChannelRequests, ChannelStep(q) PROVE Spares(r)
    BY <2>2, DisconnectSpares
  <2> QED
    BY <2>1, <2>2 DEF ChannelsNext
<1> QED
  BY <1>1, ChannelsCorrect, PTL DEF ChannelsSpec, DisconnectTakesOnlyItsOwn, Spares
=============================================================================
