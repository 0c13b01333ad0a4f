----------------------------- MODULE DraftGate -----------------------------
(***************************************************************************)
(* Writing drafts (ai/pipelines/post-writer.ts) through the quality gate   *)
(* (ai/quality.ts): the model is asked, every candidate is checked against *)
(* the brand, the recent posts and its siblings, the blocked ones are asked*)
(* for once more, and what comes then is kept with its warnings.           *)
(*                                                                         *)
(* A text is a member of a small set.  What the regular expressions decide *)
(* of one text (language, banned phrase, Facebook's limits) is Faulty;     *)
(* what the trigrams and openers decide of two is Alike, which the code    *)
(* never asks of a text and its own copy.                                  *)
(***************************************************************************)
EXTENDS Naturals, SequencesExt, Paging

CONSTANTS
  Drafts,      \* the texts there are
  Faulty,      \* those the gate blocks by themselves
  Alike,       \* pairs, both ways: too close, or the same opener
  MaxDrafts,   \* MAX_DRAFTS_PER_REQUEST
  MaxAttempts  \* MAX_ATTEMPTS

ASSUME GateAssumption ==
  /\ MaxDrafts \in Nat \ {0} /\ MaxAttempts \in Nat \ {0}
  /\ Faulty \subseteq Drafts /\ Alike \subseteq Drafts \X Drafts
  /\ \A d \in Drafts : <<d, d>> \notin Alike
  /\ \A a \in Alike : <<a[2], a[1]>> \in Alike

VARIABLES
  count,       \* the drafts wanted, clamped
  recent,      \* bodies of the last posts
  candidates,  \* the model's last answer
  accepted,    \* drafts kept so far, with whether they carry a warning
  attempt,
  gatePc,      \* "ask", "check", "delivered", "failed"
  howMany      \* of the next ask

gateVars == <<count, recent, candidates, accepted, attempt, gatePc, howMany>>

(* The count is clamped to 1..MaxDrafts before anything else.              *)
NoLeast(n) == IF n > MaxDrafts THEN MaxDrafts ELSE n
Clamped(n) == IF n < 1 THEN 1 ELSE IF n > MaxDrafts THEN MaxDrafts ELSE n

GateInit ==
  /\ \E n \in 0..(MaxDrafts + 1) : count = Clamped(n)
  /\ recent \in SUBSET Drafts
  /\ candidates = <<>> /\ accepted = <<>>
  /\ attempt = 1
  /\ gatePc = "ask" /\ howMany = count

(* The schema asks for at least one post and at most MaxDrafts, whatever   *)
(* number the prompt named.                                                *)
ModelAnswers ==
  /\ gatePc = "ask"
  /\ \E n \in 1..MaxDrafts : candidates' \in [1..n -> Drafts]
  /\ gatePc' = "check"
  /\ UNCHANGED <<count, recent, accepted, attempt, howMany>>

ModelFails ==
  /\ gatePc = "ask"
  /\ gatePc' = "failed"
  /\ UNCHANGED <<count, recent, candidates, accepted, attempt, howMany>>

(* checkDraft: the others are the recent posts, the drafts kept, and the   *)
(* other candidates, the blocked ones among them.                          *)
TooClose(text, others) == \E o \in others : <<text, o>> \in Alike

BatchAlone(kept) == recent \cup ToSet(candidates)
Others(kept) == recent \cup {k.text : k \in ToSet(kept)} \cup ToSet(candidates)

BlockedDrafts(kept) ==
  {i \in 1..Len(candidates) :
     candidates[i] \in Faulty \/ TooClose(candidates[i], Others(kept))}

CheckDrafts ==
  /\ gatePc = "check"
  /\ LET bad == BlockedDrafts(accepted)
         again == IF attempt < MaxAttempts THEN bad ELSE {}
     IN \E kept \in InOrder((1..Len(candidates)) \ again) :
          LET all == accepted \o [i \in 1..Len(kept) |->
                       [text |-> candidates[kept[i]], warned |-> kept[i] \in bad]]
          IN IF again = {}
             THEN /\ accepted' = SubSeq(all, 1, IF Len(all) > count THEN count ELSE Len(all))
                  /\ gatePc' = "delivered"
                  /\ UNCHANGED <<attempt, howMany>>
             ELSE /\ accepted' = all
                  /\ attempt' = attempt + 1
                  /\ howMany' = Len(candidates) - Len(kept)
                  /\ gatePc' = "ask"
  /\ UNCHANGED <<count, recent, candidates>>

GateNext == ModelAnswers \/ ModelFails \/ CheckDrafts
GateSpec == GateInit /\ [][GateNext]_gateVars

-----------------------------------------------------------------------------
GateTypeOK ==
  /\ count \in 1..MaxDrafts /\ howMany \in 1..MaxDrafts
  /\ recent \subseteq Drafts /\ ToSet(candidates) \subseteq Drafts
  /\ ToSet(accepted) \subseteq [text: Drafts, warned: BOOLEAN]
  /\ attempt \in 1..MaxAttempts
  /\ gatePc \in {"ask", "check", "delivered", "failed"}

(* What reaches the composer without a warning is free of faults, and no   *)
(* two of it, nor it and a recent post, are alike (quality.ts:181), also   *)
(* when one was kept from the first answer and the other came with the     *)
(* second.  Word-for-word copies are not compared.                         *)
UnwarnedDraftsDiffer ==
  gatePc = "delivered" =>
    \A i \in 1..Len(accepted) :
      ~accepted[i].warned =>
        /\ accepted[i].text \notin Faulty
        /\ ~TooClose(accepted[i].text,
                     recent \cup {accepted[j].text : j \in {k \in 1..Len(accepted) :
                                                              ~accepted[k].warned}})
=============================================================================
