----------------------------- MODULE BrandBrain -----------------------------
(***************************************************************************)
(* The brand profile: services/brand.ts and brand/sections.ts on the       *)
(* server, the dialogs the sections are edited in (brand/section-dialog),  *)
(* and the memories beside them.                                           *)
(*                                                                         *)
(* A profile row holds the sections' fields, each with the source of its   *)
(* value, and a version.  A request reads the row and writes it back only  *)
(* at the version it read; it tries three times.  A memory is written      *)
(* first and the version raised after.  One dialog holds the values its    *)
(* page had when it was opened and sends every field of its section.       *)
(***************************************************************************)
EXTENDS Naturals, FiniteSets

CONSTANTS
  Fields,         \* of all sections
  SectionOf,      \* [Fields -> sections]
  Values,         \* of a field, the empty one apart
  Tries,          \* attempts of a write: 3
  Memories,
  MaxMemories,    \* MAX_MEMORIES
  BrandRequests,  \* bound: each is sent once
  Dialogs         \* the open pages' dialogs, one section each

ASSUME BrandAssumption ==
  /\ MaxMemories \in Nat /\ Tries \in Nat \ {0}
  /\ {"", "keep"} \cap Values = {}
  /\ BrandRequests # {} /\ Dialogs \cap BrandRequests = {}

Sections == {SectionOf[f] : f \in Fields}
BrandSources == {"user", "onboarding", "analysis"}

VARIABLES
  version,    \* brand_profiles.version; 0 while there is no row
  fields,     \* its sections
  memories,   \* brand_memories
  request,
  dialog,
  latest,     \* history: for each field, what was last written for it
  named,      \* history: the last card that could be read, with its version
  unraised    \* history: a memory changed and the version never rose

brandDb == <<version, fields, memories>>
brandHistory == <<latest, named, unraised>>
brandVars == <<brandDb, request, dialog, brandHistory>>

NoField == [value |-> "", source |-> "none"]
Field == [value: Values \cup {""}, source: BrandSources \cup {"none"}]
Patch == [Fields -> Values \cup {"", "keep"}]   \* "keep" is undefined, "" is null
KeepAll == [f \in Fields |-> "keep"]

NewRequest ==
  [pc |-> "new", section |-> "none", patch |-> KeepAll, source |-> "user",
   tries |-> 0, seen |-> 0, read |-> [f \in Fields |-> NoField], from |-> "none"]

(* What a request has found is gone with its last step.                    *)
Ends(r, pc) ==
  request' = [request EXCEPT ![r] = [NewRequest EXCEPT !.pc = pc, !.from = request[r].from]]

BrandInit ==
  /\ version = 0
  /\ fields = [f \in Fields |-> NoField]
  /\ memories = {}
  /\ request = [r \in BrandRequests |-> NewRequest]
  /\ dialog \in [Dialogs -> [section: Sections, saving: {FALSE},
                             values: {[f \in Fields |-> ""]}]]
  /\ latest = [f \in Fields |-> ""]
  /\ named = [version |-> 0, fields |-> fields, memories |-> {}]
  /\ unraised = FALSE

(* A memory has changed and the version is still to be raised.             *)
Raising == {r \in BrandRequests : request[r].pc \in {"bump", "bumpCreate"}}

(* History: the card the AI is given and the version it goes by, between   *)
(* the two writes of a memory left out.                                    *)
Naming ==
  named' = IF Raising' # {} THEN named
           ELSE [version |-> version', fields |-> fields', memories |-> memories']

-----------------------------------------------------------------------------
(* updateBrandSection: the row is read, the patch applied to what was read.*)
AskUpdate(r, section, patch, source, from) ==
  /\ request[r].pc = "new"
  /\ request' = [request EXCEPT ![r] =
        [NewRequest EXCEPT !.pc = "read", !.section = section, !.patch = patch,
                           !.source = source, !.from = from]]

(* A step of the wizard, the analysis of a Page: one field of a section.   *)
AskElsewhere(r, f, v, source) ==
  /\ AskUpdate(r, SectionOf[f], [KeepAll EXCEPT ![f] = v], source, "none")
  /\ UNCHANGED <<brandDb, dialog, brandHistory>>

(* The action around it refuses a request before it has read anything: the *)
(* session, the role, the rate or the values are not right; or a statement *)
(* fails, the one that reads or the one that writes.                       *)
ActionRefuses(r) ==
  /\ request[r].pc \in {"read", "write"}
  /\ Ends(r, "refused")
  /\ UNCHANGED <<brandDb, dialog, brandHistory>>

(* The user wins over the machine.                                         *)
AnalysisWins(field, source) == FALSE
Yields(field, source) ==
  source = "analysis" /\ field.source \notin {"none", "analysis"}

Changed(current, patch, source) ==
  {f \in Fields : /\ patch[f] # "keep"
                  /\ ~Yields(current[f], source)
                  /\ patch[f] # current[f].value}

EmptyKeepsSource(current, patch, source) ==
  [f \in Fields |->
     IF f \notin Changed(current, patch, source) THEN current[f]
     ELSE [value |-> patch[f], source |-> source]]

ApplyPatch(current, patch, source) ==
  [f \in Fields |->
     IF f \notin Changed(current, patch, source) THEN current[f]
     ELSE IF patch[f] = "" THEN NoField
     ELSE [value |-> patch[f], source |-> source]]

(* Nothing changed: done, unless there is no row yet.                      *)
ReadRow(r) ==
  /\ request[r].pc = "read"
  /\ IF version # 0 /\ Changed(fields, request[r].patch, request[r].source) = {}
     THEN Ends(r, "ok")
     ELSE request' = [request EXCEPT ![r].seen = version, ![r].read = fields, ![r].pc = "write"]
  /\ UNCHANGED <<brandDb, dialog, brandHistory>>

(* Three attempts at most.                                                 *)
ReadsAgain(r) ==
  IF request[r].tries + 1 < Tries
  THEN request' = [request EXCEPT ![r].tries = request[r].tries + 1, ![r].pc = "read"]
  ELSE Ends(r, "refused")

(* The audit entry comes after the write.  When it fails the request is    *)
(* answered with an error, though its patch stands; but for the write that *)
(* creates the row it is in the same try, and is taken for a lost race.    *)
AuditFails(r) == IF version = 0 THEN ReadsAgain(r) ELSE Ends(r, "refused")

(* The write is conditional on the version read; a create on there being   *)
(* no row.  The loser reads again, as does a create that fails.            *)
WriteAnyway(r) == TRUE
StillAt(r) == version = request[r].seen

WriteRow(r) ==
  LET q == request[r]
      next == ApplyPatch(q.read, q.patch, q.source)
  IN /\ q.pc = "write"
     /\ StillAt(r)
     /\ fields' = [f \in Fields |-> IF SectionOf[f] = q.section THEN next[f] ELSE fields[f]]
     /\ version' = version + 1
     /\ latest' = [f \in Fields |->
           IF f \in Changed(fields, q.patch, q.source) THEN q.patch[f] ELSE latest[f]]
     /\ Ends(r, "ok") \/ AuditFails(r)
     /\ UNCHANGED <<memories, dialog, unraised>>
     /\ Naming

WriteLost(r) ==
  /\ request[r].pc = "write"
  /\ StillAt(r) => version = 0
  /\ ReadsAgain(r)
  /\ UNCHANGED <<brandDb, dialog, brandHistory>>

-----------------------------------------------------------------------------
(* addBrandMemory counts, then creates; deleteBrandMemory deletes.         *)
CountMemories(r) ==
  /\ request[r].pc = "new"
  /\ request' = [request EXCEPT ![r].pc =
        IF Cardinality(memories) >= MaxMemories THEN "refused" ELSE "create"]
  /\ UNCHANGED <<brandDb, dialog, brandHistory>>

CreateMemory(r, m) ==
  /\ request[r].pc = "create"
  /\ m \notin memories
  /\ memories' = memories \cup {m}
  /\ request' = [request EXCEPT ![r].pc = "bump"]
  /\ UNCHANGED <<version, fields, dialog, brandHistory>>

DeleteMemory(r, m) ==
  /\ request[r].pc = "new"
  /\ m \in memories
  /\ memories' = memories \ {m}
  /\ request' = [request EXCEPT ![r].pc = "bump"]
  /\ UNCHANGED <<version, fields, dialog, brandHistory>>

(* bumpVersion: increment, or create the row; a create that finds one is   *)
(* swallowed.                                                              *)
Bump(r) ==
  /\ request[r].pc = "bump"
  /\ version' = IF version = 0 THEN 0 ELSE version + 1
  /\ request' = [request EXCEPT ![r].pc = IF version = 0 THEN "bumpCreate" ELSE "ok"]
  /\ UNCHANGED <<fields, memories, dialog, latest, unraised>>
  /\ Naming

NeverFirst == 0
FirstVersion == 1

BumpCreate(r) ==
  /\ request[r].pc = "bumpCreate"
  /\ version' = IF version = 0 THEN FirstVersion ELSE version
  /\ request' = [request EXCEPT ![r].pc = "ok"]
  /\ UNCHANGED <<fields, memories, dialog, latest, unraised>>
  /\ Naming

(* The process stops between a memory and its version.                     *)
StopBeforeBump(r) ==
  /\ r \in Raising
  /\ request' = [request EXCEPT ![r].pc = "done"]
  /\ unraised' = TRUE
  /\ UNCHANGED <<brandDb, dialog, latest, named>>

-----------------------------------------------------------------------------
(* The dialog.  Opening it starts from the values its page has, and they   *)
(* stay the same while it is open; what the inputs can make of them is a   *)
(* draft: any values of the section's fields.                              *)
InSection(d) == {f \in Fields : SectionOf[f] = dialog[d].section}

DialogDrafts(d) ==
  {v \in [Fields -> Values \cup {""}] :
     \A f \in Fields \ InSection(d) : v[f] = dialog[d].values[f]}

(* Every field of the section is sent, an emptied one as null.             *)
SectionPatch(d, values) ==
  [f \in Fields |-> IF f \in InSection(d) THEN values[f] ELSE "keep"]

SubmitSection(d, r) ==
  /\ ~dialog[d].saving
  /\ \E draft \in DialogDrafts(d) :
       AskUpdate(r, dialog[d].section, SectionPatch(d, draft), "user", d)
  /\ dialog' = [dialog EXCEPT ![d].saving = TRUE]
  /\ UNCHANGED <<brandDb, brandHistory>>

(* The answer.  A good one brings the page the row as it is by then        *)
(* (revalidatePath) and closes the dialog; if none comes, saving stays set.*)
AnswerSection(r) ==
  LET d == request[r].from IN
  /\ request[r].pc \in {"ok", "refused"} /\ d # "none"
  /\ request' = [request EXCEPT ![r] = [NewRequest EXCEPT !.pc = "done"]]
  /\ dialog' =
       IF request[r].pc = "refused" THEN [dialog EXCEPT ![d].saving = FALSE]
       ELSE [dialog EXCEPT ![d].saving = FALSE,
                           ![d].values = [f \in Fields |-> fields[f].value]]
  /\ UNCHANGED <<brandDb, brandHistory>>

LoseAnswer(r) ==
  /\ request[r].pc \in {"ok", "refused"} /\ request[r].from # "none"
  /\ request' = [request EXCEPT ![r] = [NewRequest EXCEPT !.pc = "done"]]
  /\ UNCHANGED <<brandDb, dialog, brandHistory>>

(* The page is loaded again.                                               *)
VisitPage(d) ==
  /\ dialog' = [dialog EXCEPT ![d].values = [f \in Fields |-> fields[f].value],
                              ![d].saving = FALSE]
  /\ request' = [r \in BrandRequests |->
        IF request[r].from = d THEN [request[r] EXCEPT !.from = "none"] ELSE request[r]]
  /\ UNCHANGED <<brandDb, brandHistory>>

BrandNext ==
  \/ \E r \in BrandRequests :
       \/ \E f \in Fields, v \in Values \cup {""}, s \in {"onboarding", "analysis"} :
            AskElsewhere(r, f, v, s)
       \/ ActionRefuses(r) \/ ReadRow(r) \/ WriteRow(r) \/ WriteLost(r)
       \/ CountMemories(r)
       \/ \E m \in Memories : CreateMemory(r, m) \/ DeleteMemory(r, m)
       \/ Bump(r) \/ BumpCreate(r) \/ StopBeforeBump(r)
       \/ \E d \in Dialogs : SubmitSection(d, r)
       \/ AnswerSection(r) \/ LoseAnswer(r)
  \/ \E d \in Dialogs : VisitPage(d)

BrandSpec == BrandInit /\ [][BrandNext]_brandVars

-----------------------------------------------------------------------------
BrandTypeOK ==
  /\ version \in Nat
  /\ fields \in [Fields -> Field]
  /\ memories \subseteq Memories
  /\ request \in [BrandRequests ->
       [pc: {"new", "read", "write", "create", "bump", "bumpCreate", "ok", "refused", "done"},
        section: Sections \cup {"none"}, patch: Patch, source: BrandSources,
        tries: 0..Tries, seen: Nat, read: [Fields -> Field], from: Dialogs \cup {"none"}]]
  /\ dialog \in [Dialogs -> [section: Sections, saving: BOOLEAN,
                             values: [Fields -> Values \cup {""}]]]
  /\ latest \in [Fields -> Values \cup {""}]
  /\ named \in [version: Nat, fields: [Fields -> Field], memories: SUBSET Memories]
  /\ unraised \in BOOLEAN

(* No write undoes another (brand.ts:113): a field holds what was last     *)
(* written for it, however the requests to its section, to others and to   *)
(* the memories crossed between their read and their write.                *)
LatestEditStands == \A f \in Fields : fields[f].value = latest[f]

(* What a person typed is never changed or cleared by the analysis         *)
(* (sections.ts:176), also when the person typed it after the analysis had *)
(* read the row.                                                           *)
UserWinsOverMachine ==
  [][\A f \in Fields :
       fields[f].source \in {"user", "onboarding"} /\ fields'[f] # fields[f]
         => \E r \in BrandRequests : /\ request[r].pc = "write" /\ request'[r].pc # "write"
                                /\ request[r].source # "analysis"]_brandVars

(* The version is the cache key of the prompts built from the brand        *)
(* (brand.ts:58): outside the two steps of a memory write a card is not    *)
(* followed by another one under the same version, unless a process        *)
(* stopped between them.                                                   *)
VersionNamesTheCard ==
  [][Raising' = {} /\ ~unraised' /\ version' = named.version
       => fields' = named.fields /\ memories' = named.memories]_brandVars

-----------------------------------------------------------------------------
(* What each request asks for: its patch, from when it is sent until the   *)
(* row is written, found to need no change, or the request is refused.     *)
Asks ==
  [r \in BrandRequests |->
     LET q == request[r] IN
     IF q.pc \in {"read", "write"}
     THEN [pc |-> "asked", patch |-> q.patch, source |-> q.source]
     ELSE [pc |-> IF q.pc \in {"new", "refused"} THEN q.pc ELSE "over",
           patch |-> KeepAll, source |-> "user"]]

Promised == INSTANCE BrandPatches WITH Requests <- BrandRequests, asked <- Asks

(* Versions, reads and retries come to this: each patch is carried out in  *)
(* one piece, on the fields as they are then, or refused with nothing      *)
(* changed; the memories and the dialogs change no field (brand.ts:113).   *)
ImplementsPatches == Promised!PatchesSpec
=============================================================================
