---------------------------- MODULE AiAllowance ----------------------------
(***************************************************************************)
(* What AI requests cost (ai/usage.ts, services/usage.ts) along the paths  *)
(* that spend: generateDrafts, rewriteDraft, regeneratePost and            *)
(* generatePostImage.  Each reads the month's counter, awaits the model    *)
(* once or twice, records what the calls cost, and adds what was produced  *)
(* to the counter of the month it is by then.                              *)
(***************************************************************************)
EXTENDS Naturals

CONSTANTS
  AiRequests,   \* bound: requests, each made once
  AiLimit,      \* the plan's allowance, of posts as of images
  MaxCount,     \* MAX_DRAFTS_PER_REQUEST
  Periods       \* bound: the months the requests fall into

ASSUME AllowanceAssumption ==
  AiLimit \in Nat /\ MaxCount \in Nat \ {0} /\ Periods \in Nat \ {0}

Metrics == {"aiPosts", "aiImages"}
AiKinds == {"generate", "rewrite", "regenerate", "image", "imageByHand"}
MetricOf(kind) == IF kind \in {"image", "imageByHand"} THEN "aiImages" ELSE "aiPosts"

VARIABLES
  month,        \* the current period
  counter,      \* usage_counters, for each month and metric
  metered,      \* model calls that ai_usage_events account for
  ai,           \* each request: kind, amount, calls, produced, pc
  shared        \* history: metrics two requests spent from side by side, or
                \* one that began in another month

allowanceVars == <<month, counter, metered, ai, shared>>

NewAi == [pc |-> "new", kind |-> "generate", amount |-> 0, calls |-> 0,
          made |-> 0, since |-> 1]

AllowanceInit ==
  /\ month = 1
  /\ counter = [m \in 1..Periods |-> [metric \in Metrics |-> 0]]
  /\ metered = 0
  /\ ai = [r \in AiRequests |-> NewAi]
  /\ shared = {}

Remaining(metric) ==
  IF counter[month][metric] < AiLimit THEN AiLimit - counter[month][metric] ELSE 0

(* Mutant: some is left, whatever is asked for.                            *)
SomeIsLeft(metric, n) == Remaining(metric) > 0
CanUse(metric, n) == Remaining(metric) >= n

Admitted(r, metric) ==
  ai[r].pc \in {"call", "meter", "store", "charge"} /\ MetricOf(ai[r].kind) = metric

(* assertCanUse, before anything is asked of the model.                    *)
AiBegins(r, kind, n) ==
  /\ ai[r].pc = "new"
  /\ kind # "generate" => n = 1
  /\ LET metric == MetricOf(kind) IN
     IF ~CanUse(metric, n)
     THEN ai' = [ai EXCEPT ![r].pc = "refused"] /\ UNCHANGED shared
     ELSE /\ ai' = [ai EXCEPT ![r] = [NewAi EXCEPT !.kind = kind, !.amount = n,
                      !.since = month,
                      !.pc = IF kind = "imageByHand" THEN "store" ELSE "call"]]
          /\ shared' = IF \E q \in AiRequests : Admitted(q, metric)
                       THEN shared \cup {metric} ELSE shared
  /\ UNCHANGED <<month, counter, metered>>

(* withUsage: the call, a second one for blocked drafts, and one event for *)
(* both.  A call that fails leaves no event.                               *)
ModelCall(r) ==
  /\ ai[r].pc = "call"
  /\ ai' = [ai EXCEPT ![r].calls = ai[r].calls + 1, ![r].pc = "meter"]
  /\ UNCHANGED <<month, counter, metered, shared>>

CallAgain(r) ==
  /\ ai[r].pc = "meter" /\ ai[r].kind = "generate" /\ ai[r].calls = 1
  /\ ai' = [ai EXCEPT ![r].pc = "call"]
  /\ UNCHANGED <<month, counter, metered, shared>>

AiFails(r) ==
  /\ ai[r].pc \in {"call", "store"}
  /\ ai' = [ai EXCEPT ![r].pc = "failed"]
  /\ UNCHANGED <<month, counter, metered, shared>>

MeterCalls(r) ==
  /\ ai[r].pc = "meter"
  /\ metered' = metered + ai[r].calls
  /\ \E n \in IF ai[r].kind = "generate" THEN 1..ai[r].amount ELSE {1} :
       ai' = [ai EXCEPT ![r].made = n,
                        ![r].pc = IF ai[r].kind = "image" THEN "store" ELSE "charge"]
  /\ UNCHANGED <<month, counter, shared>>

(* The provider draws the image, and the upload stores it.                 *)
StoreImage(r) ==
  /\ ai[r].pc = "store"
  /\ ai' = [ai EXCEPT ![r].made = 1, ![r].pc = "charge"]
  /\ UNCHANGED <<month, counter, metered, shared>>

Charge(r) ==
  /\ ai[r].pc = "charge"
  /\ LET metric == MetricOf(ai[r].kind) IN
     /\ counter' = [counter EXCEPT ![month][metric] = counter[month][metric] + ai[r].made]
     /\ shared' = IF ai[r].since # month THEN shared \cup {metric} ELSE shared
  /\ ai' = [ai EXCEPT ![r].pc = IF ai[r].kind = "regenerate" THEN "save" ELSE "ok"]
  /\ UNCHANGED <<month, metered>>

(* regeneratePost then edits the post, which may be gone.                  *)
SaveRewritten(r) ==
  /\ ai[r].pc = "save"
  /\ \E end \in {"ok", "chargedAndFailed"} : ai' = [ai EXCEPT ![r].pc = end]
  /\ UNCHANGED <<month, counter, metered, shared>>

(* The process stops; what was not charged by then never is.               *)
AiStops(r) ==
  /\ ai[r].pc \in {"call", "meter", "store", "charge"}
  /\ ai' = [ai EXCEPT ![r].pc = "failed"]
  /\ UNCHANGED <<month, counter, metered, shared>>

MonthTurns ==
  /\ month < Periods
  /\ month' = month + 1
  /\ UNCHANGED <<counter, metered, ai, shared>>

AllowanceNext ==
  \/ \E r \in AiRequests :
       \/ \E k \in AiKinds, n \in 1..MaxCount : AiBegins(r, k, n)
       \/ ModelCall(r) \/ CallAgain(r) \/ AiFails(r) \/ MeterCalls(r)
       \/ StoreImage(r) \/ Charge(r) \/ SaveRewritten(r) \/ AiStops(r)
  \/ MonthTurns

AllowanceSpec == AllowanceInit /\ [][AllowanceNext]_allowanceVars

-----------------------------------------------------------------------------
AllowanceTypeOK ==
  /\ month \in 1..Periods
  /\ counter \in [1..Periods -> [Metrics -> Nat]]
  /\ metered \in Nat
  /\ ai \in [AiRequests ->
       [pc: {"new", "refused", "call", "meter", "store", "charge", "save", "ok",
             "failed", "chargedAndFailed"},
        kind: AiKinds, amount: 0..MaxCount, calls: 0..2, made: 0..MaxCount, since: 1..Periods]]
  /\ shared \subseteq Metrics

(* The allowance is a limit (usage.ts:7): no month's counter passes it     *)
(* when requests for it come one after another and within one month.  Two  *)
(* at once, or one that begins in an earlier month, may: the check and the *)
(* count are separate queries with the model's answer between them.        *)
AllowanceHolds ==
  \A m \in 1..Periods, metric \in Metrics \ shared : counter[m][metric] <= AiLimit
=============================================================================
