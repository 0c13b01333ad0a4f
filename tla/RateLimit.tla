----------------------------- MODULE RateLimit ------------------------------
(***************************************************************************)
(* The sliding window in Redis (lib/rate-limit.ts).  A request carries the *)
(* clock of the server that took it; the script trims, counts and records  *)
(* in one step, but whenever it arrives.  The clocks differ, and a request *)
(* may wait, so entries are neither in order nor exact.                    *)
(***************************************************************************)
EXTENDS Naturals, FiniteSets

CONSTANTS
  Calls,         \* bound: requests of one caller to one bucket
  Servers, Skew, \* [Servers -> Nat]: how far ahead a clock is
  MaxDelay,      \* between reading the clock and the script
  Limit, Window,
  LastTick       \* bound of the time

ASSUME RateAssumption ==
  /\ {MaxDelay, Limit, Window, LastTick} \subseteq Nat
  /\ Skew \in [Servers -> Nat]
  /\ \E v \in Servers : \A u \in Servers : Skew[u] <= Skew[v]

VARIABLES
  tick,      \* the time
  entry,     \* the sorted set: the scores of the calls it holds
  expiry,    \* when Redis drops the key
  callState, \* what each call is doing
  closed     \* whether the bucket refuses when Redis is down

rateVars == <<tick, entry, expiry, callState, closed>>

RateInit ==
  /\ tick = 0 /\ entry = {} /\ expiry = 0
  /\ callState = [c \in Calls |-> [pc |-> "idle"]]
  /\ closed \in BOOLEAN

CallBecomes(c, state) == callState' = [callState EXCEPT ![c] = state]

(* checkRateLimit: Date.now() of a server, then the script.                *)
ReadClock(c, v) ==
  /\ callState[c].pc = "idle"
  /\ CallBecomes(c, [pc |-> "sent", now |-> tick + Skew[v], at |-> tick])
  /\ UNCHANGED <<tick, entry, expiry, closed>>

Untrimmed(now) == {e \in entry : e.score + Window > now}
OneTooMany(count) == count > Limit
IsFull(count) == count >= Limit

SlidingWindow(c) ==
  /\ callState[c].pc = "sent"
  /\ LET kept == Untrimmed(callState[c].now) IN
     IF IsFull(Cardinality(kept))
     THEN entry' = kept /\ CallBecomes(c, [pc |-> "refused"]) /\ UNCHANGED expiry
     ELSE /\ entry' = kept \cup {[score |-> callState[c].now, member |-> c]}
          /\ expiry' = tick + Window
          /\ CallBecomes(c, [pc |-> "allowed", at |-> tick])
  /\ UNCHANGED <<tick, closed>>

(* enforceRateLimit when Redis does not answer.                            *)
RedisFails(c) ==
  /\ callState[c].pc = "sent"
  /\ CallBecomes(c, [pc |-> IF closed THEN "refused" ELSE "letThrough"])
  /\ UNCHANGED <<tick, entry, expiry, closed>>

(* Time passes; what waits does not wait longer than MaxDelay.             *)
Tick ==
  /\ tick < LastTick /\ tick' = tick + 1
  /\ \A c \in Calls : callState[c].pc = "sent" => tick < callState[c].at + MaxDelay
  /\ entry' = IF tick' >= expiry THEN {} ELSE entry
  /\ UNCHANGED <<expiry, callState, closed>>

RateNext ==
  \/ Tick
  \/ \E c \in Calls : (\E v \in Servers : ReadClock(c, v)) \/ SlidingWindow(c) \/ RedisFails(c)

RateSpec == RateInit /\ [][RateNext]_rateVars

-----------------------------------------------------------------------------
RateTypeOK ==
  /\ tick \in 0..LastTick /\ expiry \in 0..(LastTick + Window) /\ closed \in BOOLEAN
  /\ entry \subseteq [score: Nat, member: Calls]
  /\ \A c \in Calls : callState[c].pc \in {"idle", "sent", "allowed", "refused", "letThrough"}

LargestSkew == CHOOSE k \in {Skew[v] : v \in Servers} : \A v \in Servers : Skew[v] <= k

(* "concurrent requests can't exceed the limit" (rate-limit.ts:8): however *)
(* the calls of several servers arrive, no stretch of time as long as the  *)
(* window, less what the clocks and the delays make uncertain, sees more   *)
(* of them allowed while Redis answers.                                    *)
LimitHolds ==
  \A from \in 0..LastTick :
    Cardinality({c \in Calls : /\ callState[c].pc = "allowed"
                               /\ callState[c].at >= from
                               /\ callState[c].at + LargestSkew + MaxDelay < from + Window})
      <= Limit
=============================================================================
