---------------------------- MODULE BrandPatches ----------------------------
(***************************************************************************)
(* What the brand profile promises those who change it, with no versions,  *)
(* reads and retries: a patch is carried out in one piece, on the fields   *)
(* as they are at that moment, or it is refused and changes nothing.       *)
(* Nothing but a patch changes a field, and none is carried out twice, but *)
(* for the first of all when the log of what was done fails.               *)
(***************************************************************************)
CONSTANTS
  Fields,    \* of all sections
  Values,    \* of a field, the empty one apart
  Requests   \* each is sent once

VARIABLES
  fields,    \* the profile's
  asked      \* the requests: what each asks for, and what became of it

patchVars == <<fields, asked>>

Sources == {"user", "onboarding", "analysis"}
Patches == [Fields -> Values \cup {"", "keep"}]
Empty == [value |-> "", source |-> "none"]

(* An idle request asks for nothing: not yet, no more, or not of the fields*)
Askings == [pc: {"asked"}, patch: Patches, source: Sources]
Idle(pc) == [pc |-> pc, patch |-> [f \in Fields |-> "keep"], source |-> "user"]

PatchesInit ==
  /\ fields = [f \in Fields |-> Empty]
  /\ asked = [r \in Requests |-> Idle("new")]

(* A field is left alone if the patch says nothing of it or nothing new, or*)
(* if a person filled it and the analysis would.                           *)
LeftAlone(field, value, source) ==
  \/ value \in {"keep", field.value}
  \/ source = "analysis" /\ field.source \in {"user", "onboarding"}

After(field, value, source) ==
  IF LeftAlone(field, value, source) THEN field
  ELSE IF value = "" THEN Empty
  ELSE [value |-> value, source |-> source]

-----------------------------------------------------------------------------
Ask(r) ==
  /\ asked[r].pc = "new"
  /\ asked'[r] \in Askings
  /\ asked' = [asked EXCEPT ![r] = asked'[r]]
  /\ UNCHANGED fields

CarriedOut(q) == fields' = [f \in Fields |-> After(fields[f], q.patch[f], q.source)]

Apply(r) ==
  /\ asked[r].pc = "asked"
  /\ CarriedOut(asked[r])
  /\ asked' = [asked EXCEPT ![r] = Idle("over")]

(* Carried out, but not logged: the asker is told of an error.             *)
ApplyUnlogged(r) ==
  /\ asked[r].pc = "asked"
  /\ CarriedOut(asked[r])
  /\ asked' = [asked EXCEPT ![r] = Idle("refused")]

(* The first of all, not logged: it is still asked for, to be carried out  *)
(* again on what there is by then.                                         *)
ApplyFirst(r) ==
  /\ asked[r].pc = "asked"
  /\ fields = [f \in Fields |-> Empty]
  /\ CarriedOut(asked[r])
  /\ UNCHANGED asked

Refuse(r) ==
  /\ asked[r].pc = "asked"
  /\ asked' = [asked EXCEPT ![r] = Idle("refused")]
  /\ UNCHANGED fields

(* A request about something else, the memories, leaves the fields alone.  *)
Aside(r) ==
  /\ asked[r].pc = "new"
  /\ asked'[r].pc \in {"refused", "over"}
  /\ asked' = [asked EXCEPT ![r] = Idle(asked'[r].pc)]
  /\ UNCHANGED fields

(* The refusal is told, or lost on its way.                                *)
Forget(r) ==
  /\ asked[r].pc = "refused"
  /\ asked' = [asked EXCEPT ![r] = Idle("over")]
  /\ UNCHANGED fields

PatchesNext ==
  \E r \in Requests :
    \/ Ask(r) \/ Apply(r) \/ ApplyUnlogged(r) \/ ApplyFirst(r)
    \/ Refuse(r) \/ Aside(r) \/ Forget(r)

PatchesSpec == PatchesInit /\ [][PatchesNext]_patchVars
=============================================================================
