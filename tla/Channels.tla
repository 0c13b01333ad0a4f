------------------------------ MODULE Channels ------------------------------
(***************************************************************************)
(* The connections to one person's Facebook Pages (services/channels.ts,   *)
(* services/meta-webhooks.ts): the consent flow, the Pages a member picks, *)
(* the daily health check, disconnecting, and what Facebook's callbacks    *)
(* delete.  Every await is a step, and what a request found meanwhile is   *)
(* kept in fbCall.                                                         *)
(*                                                                         *)
(* grant counts how often the person's permission for the app ended: a     *)
(* token is good while it carries the number.  A row is identified by the  *)
(* request that created it, so one that was deleted and made again has a   *)
(* new identity.                                                           *)
(***************************************************************************)
EXTENDS FiniteSets, Naturals

CONSTANTS
  Workspaces,
  Spots,           \* a Page in a workspace
  WorkspaceOf,     \* [Spots -> Workspaces]
  ChannelRequests, \* bound: requests, each made once
  Seed,            \* identifies the rows that are there at the start
  MaxRemovals      \* bound: how often the person removes the app at Facebook

ASSUME ChannelConstants ==
  /\ WorkspaceOf \in [Spots -> Workspaces]
  /\ Seed \notin ChannelRequests /\ MaxRemovals \in Nat

VARIABLES
  account,   \* social_accounts: a row of each workspace
  channel,   \* social_channels: a row of each Page
  grant,     \* Facebook: the permission now in force
  removals,  \* Facebook: how often the person took it away there
  consent,   \* Redis: the requests whose connection state waits
  fbCall,    \* what each request is doing
  news,      \* history of a row: losses, messages, markers that crossed or stopped
  late       \* history: Pages connected while an account was let go

channelVars == <<account, channel, grant, removals, consent, fbCall, news, late>>

NoRow == [id |-> "none"]
Fresh == [pc |-> "new"]
Over == [pc |-> "over"]
NoNews == [lost |-> 0, told |-> 0, crossed |-> FALSE, silent |-> FALSE]

ChannelsInit ==
  /\ \E has \in [Spots -> BOOLEAN] :
       /\ channel = [s \in Spots |-> IF has[s]
            THEN [id |-> Seed, account |-> Seed, token |-> 0, status |-> "active"]
            ELSE NoRow]
       /\ account = [w \in Workspaces |->
            IF \E s \in Spots : WorkspaceOf[s] = w /\ has[s]
            THEN [id |-> Seed, token |-> 0] ELSE NoRow]
  /\ grant = 0 /\ removals = 0 /\ consent = {}
  /\ fbCall = [r \in ChannelRequests |-> Fresh]
  /\ news = [s \in Spots |-> NoNews] /\ late = {}

PagesOf(w) == {s \in Spots : WorkspaceOf[s] = w}
IsRow(s, id) == channel[s] # NoRow /\ channel[s].id = id
IsAccount(w, id) == account[w] # NoRow /\ account[w].id = id
HeldBy(w, id) == {s \in PagesOf(w) : channel[s] # NoRow /\ channel[s].account = id}
Continues(r, state) == fbCall' = [fbCall EXCEPT ![r] = state]

Ids == ChannelRequests \cup {Seed}

-----------------------------------------------------------------------------
(* startFacebookConnection: the state waits in Redis, for ten minutes, and *)
(* the person is at Facebook.                                              *)
StartConnection(r, w) ==
  /\ fbCall[r].pc = "new"
  /\ consent' = consent \cup {r}
  /\ Continues(r, [pc |-> "consent", w |-> w])
  /\ UNCHANGED <<account, channel, grant, removals, news, late>>

StateExpires(r) ==
  /\ r \in consent /\ consent' = consent \ {r}
  /\ UNCHANGED <<account, channel, grant, removals, fbCall, news, late>>

(* The callback takes the state; without one, or cancelled, nothing.       *)
ConsumeConnectionState(r) ==
  /\ fbCall[r].pc = "consent"
  /\ \/ r \in consent /\ consent' = consent \ {r}
        /\ Continues(r, [pc |-> "exchange", w |-> fbCall[r].w])
     \/ UNCHANGED consent /\ Continues(r, Over)
  /\ UNCHANGED <<account, channel, grant, removals, news, late>>

(* completeFacebookConnection: five calls to Facebook, any of which may    *)
(* fail, and then the account.                                             *)
ExchangeCode(r) ==
  /\ fbCall[r].pc = "exchange"
  /\ Continues(r, [pc |-> "upsertAccount", w |-> fbCall[r].w, token |-> grant]) \/ Continues(r, Over)
  /\ UNCHANGED <<account, channel, grant, removals, consent, news, late>>

UpsertAccount(r) ==
  /\ fbCall[r].pc = "upsertAccount"
  /\ LET w == fbCall[r].w IN
     account' = [account EXCEPT ![w] =
       [id |-> IF @ = NoRow THEN r ELSE @.id, token |-> fbCall[r].token]]
  /\ Continues(r, Over)
  /\ UNCHANGED <<channel, grant, removals, consent, news, late>>

-----------------------------------------------------------------------------
(* connectSelectedPages: the Pages are listed again with the token of the  *)
(* account in the address, which may be an old one.                        *)
ListPages(r, w, id, picked) ==
  /\ fbCall[r].pc = "new"
  /\ IF IsAccount(w, id) /\ account[w].token = grant
     THEN Continues(r, [pc |-> "connect", w |-> w, id |-> id, left |-> picked, token |-> grant])
     ELSE Continues(r, Over)
  /\ UNCHANGED <<account, channel, grant, removals, consent, news, late>>

(* The page's boxes: some of the Pages, at least one.                      *)
Picks(w) == SUBSET PagesOf(w) \ {{}}

(* Whoever found no Page left is on the way to ending the permission and   *)
(* deleting the account.                                                   *)
LettingGo == {"revoke", "revokeCall", "dropAccount"}
BeingLetGo(w) == \E r \in ChannelRequests : fbCall[r].pc \in LettingGo /\ fbCall[r].w = w

(* connectPages: one row after another; a row needs its account.           *)
ConnectPage(r, s) ==
  /\ fbCall[r].pc = "connect" /\ s \in fbCall[r].left
  /\ LET w == fbCall[r].w IN
     \/ /\ IsAccount(w, fbCall[r].id)
        /\ channel' = [channel EXCEPT ![s] =
             [id |-> IF @ = NoRow THEN r ELSE @.id, account |-> fbCall[r].id,
              token |-> fbCall[r].token, status |-> "active"]]
        /\ news' = IF channel[s] = NoRow THEN [news EXCEPT ![s] = NoNews] ELSE news
        /\ late' = IF BeingLetGo(w) THEN late \cup {s} ELSE late \ {s}
        /\ Continues(r, IF fbCall[r].left = {s} THEN Over ELSE [fbCall[r] EXCEPT !.left = @ \ {s}])
     \/ /\ ~IsAccount(w, fbCall[r].id)
        /\ Continues(r, Over)
        /\ UNCHANGED <<channel, news, late>>
  /\ UNCHANGED <<account, grant, removals, consent>>

-----------------------------------------------------------------------------
(* disconnectChannel: the row; when no other row has the account, the      *)
(* permissions and the account too.                                        *)
Disconnect(r, s) ==
  /\ fbCall[r].pc = "new" /\ channel[s] # NoRow
  /\ Continues(r, [pc |-> "delete", s |-> s, w |-> WorkspaceOf[s], id |-> channel[s].id,
                   account |-> channel[s].account])
  /\ UNCHANGED <<account, channel, grant, removals, consent, news, late>>

DeleteChannel(r) ==
  /\ fbCall[r].pc = "delete"
  /\ IF IsRow(fbCall[r].s, fbCall[r].id)
     THEN /\ channel' = [channel EXCEPT ![fbCall[r].s] = NoRow]
          /\ Continues(r, [fbCall[r] EXCEPT !.pc = "count"])
     ELSE Continues(r, Over) /\ UNCHANGED channel
  /\ UNCHANGED <<account, grant, removals, consent, news, late>>

OthersIgnored(w, id) == {}
RemainingPages(w, id) == HeldBy(w, id)

CountRemaining(r) ==
  /\ fbCall[r].pc = "count"
  /\ Continues(r, IF RemainingPages(fbCall[r].w, fbCall[r].account) = {}
                  THEN [fbCall[r] EXCEPT !.pc = "revoke"] ELSE Over)
  /\ UNCHANGED <<account, channel, grant, removals, consent, news, late>>

(* Best effort, and two awaits: the token the account has is read, and     *)
(* used even if the account goes, or comes back, before Facebook is asked. *)
(* An account that is gone and a call that fails are passed over.          *)
LetsGo(c) ==
  [pc |-> "dropAccount", s |-> c.s, w |-> c.w, id |-> c.id, account |-> c.account]

ReadAccountToken(r) ==
  /\ fbCall[r].pc = "revoke"
  /\ LET c == fbCall[r] IN
     IF IsAccount(c.w, c.account)
     THEN Continues(r, [pc |-> "revokeCall", s |-> c.s, w |-> c.w, id |-> c.id,
                        account |-> c.account, token |-> account[c.w].token])
     ELSE Continues(r, LetsGo(c))
  /\ UNCHANGED <<account, channel, grant, removals, consent, news, late>>

RevokePermissions(r) ==
  /\ fbCall[r].pc = "revokeCall"
  /\ \/ fbCall[r].token = grant /\ grant' = grant + 1
     \/ UNCHANGED grant
  /\ Continues(r, LetsGo(fbCall[r]))
  /\ UNCHANGED <<account, channel, removals, consent, news, late>>

(* The database deletes the rows of an account with it.                    *)
LeavesRows(w, ids) == channel
Cascade(w, ids) ==
  [s \in Spots |->
     IF WorkspaceOf[s] = w /\ channel[s] # NoRow /\ channel[s].account \in ids
     THEN NoRow ELSE channel[s]]

DropAccount(r) ==
  /\ fbCall[r].pc = "dropAccount"
  /\ LET w == fbCall[r].w IN
     IF IsAccount(w, fbCall[r].account)
     THEN /\ account' = [account EXCEPT ![w] = NoRow]
          /\ channel' = Cascade(w, {fbCall[r].account})
     ELSE UNCHANGED <<account, channel>>
  /\ Continues(r, Over)
  /\ UNCHANGED <<grant, removals, consent, news, late>>

-----------------------------------------------------------------------------
(* checkChannelHealth, and a run that Facebook refuses: the token is read, *)
(* Facebook asked; a token it no longer takes, and in the daily check any  *)
(* failure of that call, marks the Page.                                   *)
ReadToken(r, s) ==
  /\ fbCall[r].pc = "new" /\ channel[s] # NoRow /\ channel[s].status = "active"
  /\ Continues(r, [pc |-> "ask", s |-> s, id |-> channel[s].id, token |-> channel[s].token])
  /\ UNCHANGED <<account, channel, grant, removals, consent, news, late>>

DebugToken(token) == IF token = grant THEN BOOLEAN ELSE {FALSE}

AskFacebook(r) ==
  /\ fbCall[r].pc = "ask"
  /\ \E valid \in DebugToken(fbCall[r].token) :
       Continues(r, IF valid THEN Over ELSE [fbCall[r] EXCEPT !.pc = "look"])
  /\ UNCHANGED <<account, channel, grant, removals, consent, news, late>>

(* markChannelNeedsReconnect: not again for a Page that is marked.         *)
MarkedAnyway(s) == TRUE
WorthMarking(s) == channel[s].status # "needs_reconnect"

LookAtStatus(r) ==
  /\ fbCall[r].pc = "look"
  /\ Continues(r, IF IsRow(fbCall[r].s, fbCall[r].id) /\ WorthMarking(fbCall[r].s)
                  THEN [fbCall[r] EXCEPT !.pc = "mark"] ELSE Over)
  /\ UNCHANGED <<account, channel, grant, removals, consent, news, late>>

At(pc, s, id) ==
  {r \in ChannelRequests : fbCall[r].pc = pc /\ fbCall[r].s = s /\ fbCall[r].id = id}

MarkChannel(r) ==
  /\ fbCall[r].pc = "mark"
  /\ LET s == fbCall[r].s IN
     IF IsRow(s, fbCall[r].id)
     THEN /\ channel' = [channel EXCEPT ![s].status = "needs_reconnect"]
          /\ news' = [news EXCEPT
               ![s].lost = IF channel[s].status = "active" THEN @ + 1 ELSE @,
               ![s].crossed = @ \/ Cardinality(At("mark", s, fbCall[r].id)) > 1]
          /\ Continues(r, [fbCall[r] EXCEPT !.pc = "tell"])
     ELSE Continues(r, Over) /\ UNCHANGED <<channel, news>>
  /\ UNCHANGED <<account, grant, removals, consent, late>>

NotifyLoss(r) ==
  /\ fbCall[r].pc = "tell"
  /\ news' = IF IsRow(fbCall[r].s, fbCall[r].id)
             THEN [news EXCEPT ![fbCall[r].s].told = @ + 1] ELSE news
  /\ Continues(r, Over)
  /\ UNCHANGED <<account, channel, grant, removals, consent, late>>

-----------------------------------------------------------------------------
(* At Facebook the person removes the app; Facebook calls back, once or    *)
(* more often, and may ask for the deletion of the data at any time.       *)
RemoveAtFacebook ==
  /\ removals < MaxRemovals /\ removals' = removals + 1
  /\ grant' = grant + 1
  /\ UNCHANGED <<account, channel, consent, fbCall, news, late>>

(* handleDeauthorize and handleDataDeletion: the person's accounts of all  *)
(* workspaces, their Pages, then the accounts.  The latter looks the Pages *)
(* up first and deletes those.                                             *)
Found == {<<w, account[w].id>> : w \in {v \in Workspaces : account[v] # NoRow}}

WebhookFinds(r) ==
  /\ fbCall[r].pc = "new" /\ Found # {}
  /\ Continues(r, [pc |-> "dropPages", found |-> Found]) \/
     Continues(r, [pc |-> "findPages", found |-> Found])
  /\ UNCHANGED <<account, channel, grant, removals, consent, news, late>>

WebhookFindsPages(r) ==
  /\ fbCall[r].pc = "findPages"
  /\ Continues(r, [pc |-> "dropFound", found |-> fbCall[r].found,
                   rows |-> {<<s, channel[s].id>> : s \in
                               UNION {HeldBy(f[1], f[2]) : f \in fbCall[r].found}}])
  /\ UNCHANGED <<account, channel, grant, removals, consent, news, late>>

WebhookDropsPages(r) ==
  /\ fbCall[r].pc \in {"dropPages", "dropFound"}
  /\ channel' = [s \in Spots |->
       IF channel[s] # NoRow /\
          \/ fbCall[r].pc = "dropPages" /\ <<WorkspaceOf[s], channel[s].account>> \in fbCall[r].found
          \/ fbCall[r].pc = "dropFound" /\ <<s, channel[s].id>> \in fbCall[r].rows
       THEN NoRow ELSE channel[s]]
  /\ Continues(r, [pc |-> "dropAccounts", found |-> fbCall[r].found])
  /\ UNCHANGED <<account, grant, removals, consent, news, late>>

WebhookDropsAccounts(r) ==
  /\ fbCall[r].pc = "dropAccounts"
  /\ LET gone == {w \in Workspaces : account[w] # NoRow /\ <<w, account[w].id>> \in fbCall[r].found} IN
     /\ account' = [w \in Workspaces |-> IF w \in gone THEN NoRow ELSE account[w]]
     /\ channel' = [s \in Spots |-> LET w == WorkspaceOf[s] IN
          IF w \in gone THEN Cascade(w, {account[w].id})[s] ELSE channel[s]]
  /\ Continues(r, [pc |-> "removed", found |-> fbCall[r].found])
  /\ UNCHANGED <<grant, removals, consent, news, late>>

-----------------------------------------------------------------------------
(* A process stops, or a query of it fails.                                *)
Stops(r) ==
  /\ fbCall[r].pc \notin {"new", "over", "removed"}
  /\ news' = IF fbCall[r].pc = "tell" /\ IsRow(fbCall[r].s, fbCall[r].id)
             THEN [news EXCEPT ![fbCall[r].s].silent = TRUE] ELSE news
  /\ Continues(r, Over)
  /\ UNCHANGED <<account, channel, grant, removals, consent, late>>

ChannelStep(r) ==
  \/ \E w \in Workspaces :
       \/ StartConnection(r, w)
       \/ \E id \in Ids, picked \in Picks(w) : ListPages(r, w, id, picked)
  \/ StateExpires(r) \/ ConsumeConnectionState(r) \/ ExchangeCode(r) \/ UpsertAccount(r)
  \/ \E s \in Spots : ConnectPage(r, s) \/ Disconnect(r, s) \/ ReadToken(r, s)
  \/ DeleteChannel(r) \/ CountRemaining(r) \/ DropAccount(r)
  \/ ReadAccountToken(r) \/ RevokePermissions(r) \/ AskFacebook(r) \/ LookAtStatus(r) \/ MarkChannel(r) \/ NotifyLoss(r)
  \/ WebhookFinds(r) \/ WebhookFindsPages(r) \/ WebhookDropsPages(r) \/ WebhookDropsAccounts(r)
  \/ Stops(r)

ChannelsNext == RemoveAtFacebook \/ \E r \in ChannelRequests : ChannelStep(r)

ChannelsSpec == ChannelsInit /\ [][ChannelsNext]_channelVars

-----------------------------------------------------------------------------
ChannelsTypeOK ==
  /\ account \in [Workspaces -> {NoRow} \cup [id: Ids, token: Nat]]
  /\ channel \in [Spots -> {NoRow} \cup
       [id: Ids, account: Ids, token: Nat, status: {"active", "needs_reconnect"}]]
  /\ \A s \in Spots : channel[s] # NoRow => IsAccount(WorkspaceOf[s], channel[s].account)
  /\ grant \in Nat /\ removals \in 0..MaxRemovals /\ consent \subseteq ChannelRequests
  /\ news \in [Spots -> [lost: Nat, told: Nat, crossed: BOOLEAN, silent: BOOLEAN]]
  /\ late \subseteq Spots

(* "the account-level permissions are only handed back when the last Page  *)
(* on that account goes" (channels.ts:448): disconnecting a Page ends no   *)
(* other connected Page of the workspace, neither its row nor its          *)
(* permission - but for a Page connected while the account was let go,     *)
(* after the rest was counted: it goes with its own account, and loses the *)
(* permission.                                                             *)
DisconnectTakesOnlyItsOwn ==
  [][\A r \in ChannelRequests :
       fbCall[r].pc \in {"delete", "revokeCall", "dropAccount"} /\ fbCall'[r] # fbCall[r] =>
         \A s \in PagesOf(fbCall[r].w) :
           channel[s] # NoRow /\ ~(fbCall[r].pc = "delete" /\ fbCall[r].s = s) =>
             /\ \/ channel'[s] = channel[s]
                \/ s \in late /\ channel[s].account = fbCall[r].account
             /\ channel[s].token = grant => grant' = grant \/ s \in late
    ]_channelVars

(* A Page that stops working is told about, once for each time it does     *)
(* (channels.ts:411-424), whichever of checks, runs, reconnections and     *)
(* disconnections cross - unless two of them marked it together, and not   *)
(* fewer times unless a process stopped between the mark and the message.  *)
EachLossIsTold ==
  \A s \in Spots : channel[s] # NoRow =>
    LET n == news[s]
        telling == Cardinality(At("tell", s, channel[s].id)) IN
    /\ n.told <= n.lost \/ n.crossed
    /\ n.lost <= n.told + telling \/ n.silent

(* When the person's data was deleted, or the app removed, nothing of the  *)
(* connections found is left, though Pages were being connected through    *)
(* them (meta-webhooks.ts:60-66).                                          *)
DeletionIsComplete ==
  \A r \in ChannelRequests : fbCall[r].pc = "removed" =>
    \A f \in fbCall[r].found : ~IsAccount(f[1], f[2]) /\ HeldBy(f[1], f[2]) = {}
=============================================================================
