---------------------------- MODULE BrandProofs -----------------------------
(***************************************************************************)
(* The brand profile for any fields, sections, requests, dialogs and       *)
(* memories: no write undoes another, what a person typed is kept from the *)
(* analysis, and a version names one card.                                 *)
(***************************************************************************)
EXTENDS BrandBrain, TLAPS

(* What a request holds that is about to write: a patch of its section     *)
(* only, and, while the version is the one it read, the row as it is.      *)
PatchesSection(q) ==
  q.pc \in {"read", "write"} =>
    \A f \in Fields : SectionOf[f] # q.section => q.patch[f] = "keep"
HasRead(q, v, row) ==
  q.pc = "write" => q.seen <= v /\ (q.seen = v => q.read = row)

ReadIsCurrent ==
  \A r \in BrandRequests :
    PatchesSection(request[r]) /\ HasRead(request[r], version, fields)

(* The last card that had a name of its own: it is the present one, while  *)
(* the version is the same, no memory waits for its bump and none lost it. *)
NameIsCurrent ==
  /\ named.version <= version
  /\ \A r \in BrandRequests : request[r].pc = "bumpCreate" => named.version = 0
  /\ Raising = {} /\ ~unraised /\ named.version = version
       => named.fields = fields /\ named.memories = memories

(* Before the row exists there is nothing in it.                           *)
NoRowIsEmpty == version = 0 => fields = [f \in Fields |-> NoField]

BrandInv ==
  BrandTypeOK /\ ReadIsCurrent /\ NameIsCurrent /\ LatestEditStands /\ NoRowIsEmpty

RequestType ==
  [pc: {"new", "read", "write", "create", "bump", "bumpCreate", "ok", "refused", "done"},
   section: Sections \cup {"none"}, patch: Patch, source: BrandSources,
   tries: 0..Tries, seen: Nat, read: [Fields -> Field], from: Dialogs \cup {"none"}]

ShownValues == [Fields -> Values \cup {""}]
DialogType == [section: Sections, saving: BOOLEAN, values: ShownValues]
DialogsTyped == dialog \in [Dialogs -> DialogType]

LEMMA DialogsAreTyped == ASSUME BrandInv PROVE DialogsTyped
  BY DEF BrandInv, BrandTypeOK, DialogsTyped, DialogType, ShownValues

(* A dialog's button and its values may change, its section not.           *)
LEMMA OneDialogChanges ==
  ASSUME NEW x \in DialogType, NEW v \in ShownValues, NEW s \in BOOLEAN
  PROVE  [x EXCEPT !.saving = s] \in DialogType /\ [x EXCEPT !.values = v] \in DialogType
  BY DEF DialogType

LEMMA DialogsChange ==
  ASSUME DialogsTyped, NEW d, NEW v \in ShownValues, NEW s \in BOOLEAN,
         \/ dialog' = [dialog EXCEPT ![d].saving = s]
         \/ dialog' = [dialog EXCEPT ![d].saving = s, ![d].values = v]
         \/ dialog' = [dialog EXCEPT ![d].values = v, ![d].saving = s]
  PROVE  DialogsTyped'
<1>1. dialog \in [Dialogs -> DialogType]
  BY DEF DialogsTyped
<1> SUFFICES dialog' \in [Dialogs -> DialogType]
  BY DEF DialogsTyped
<1>2. CASE dialog' = [dialog EXCEPT ![d].saving = s]
  BY <1>1, <1>2, OneDialogChanges
<1>3. CASE dialog' = [dialog EXCEPT ![d].saving = s, ![d].values = v]
  <2> DEFINE mid == [dialog EXCEPT ![d].saving = s]
  <2>1. mid \in [Dialogs -> DialogType]
    BY <1>1, OneDialogChanges
  <2>2. dialog' = [mid EXCEPT ![d].values = v]
    BY <1>3
  <2> HIDE DEF mid
  <2> QED
    BY <2>1, <2>2, OneDialogChanges
<1>4. CASE dialog' = [dialog EXCEPT ![d].values = v, ![d].saving = s]
  <2> DEFINE mid == [dialog EXCEPT ![d].values = v]
  <2>1. mid \in [Dialogs -> DialogType]
    BY <1>1, OneDialogChanges
  <2>2. dialog' = [mid EXCEPT ![d].saving = s]
    BY <1>4
  <2> HIDE DEF mid
  <2> QED
    BY <2>1, <2>2, OneDialogChanges
<1> QED
  BY <1>2, <1>3, <1>4

-----------------------------------------------------------------------------
LEMMA NewRequestType == NewRequest \in RequestType
<1>1. NoField \in Field /\ KeepAll \in Patch
  BY DEF NoField, Field, KeepAll, Patch
<1>2. 0 \in 0..Tries
  <2>1. Tries \in Nat
    BY BrandAssumption
  <2> QED
    BY <2>1
<1> DEFINE none == [f \in Fields |-> NoField]
<1>3. none \in [Fields -> Field]
  BY <1>1
<1> HIDE DEF none
<1>4. NewRequest = [pc |-> "new", section |-> "none", patch |-> KeepAll,
                    source |-> "user", tries |-> 0, seen |-> 0, read |-> none,
                    from |-> "none"]
  BY DEF NewRequest, none
<1> QED
  BY <1>1, <1>2, <1>3, <1>4 DEF RequestType, BrandSources

LEMMA BrandInitInv == BrandInit => BrandInv
<1> SUFFICES ASSUME BrandInit PROVE BrandInv
  OBVIOUS
<1>1. BrandTypeOK
  <2>1. fields \in [Fields -> Field]
    BY DEF BrandInit, NoField, Field
  <2>2. request \in [BrandRequests -> RequestType]
    BY NewRequestType DEF BrandInit
  <2>3. dialog \in [Dialogs -> [section: Sections, saving: BOOLEAN,
                                values: [Fields -> Values \cup {""}]]]
    <3>1. [f \in Fields |-> ""] \in [Fields -> Values \cup {""}]
      OBVIOUS
    <3> QED
      BY <3>1 DEF BrandInit
  <2> QED
    BY <2>1, <2>2, <2>3 DEF BrandInit, BrandTypeOK, RequestType
<1>2. \A r \in BrandRequests : request[r].pc = "new"
  BY DEF BrandInit, NewRequest
<1>3. ReadIsCurrent
  BY <1>2 DEF ReadIsCurrent, PatchesSection, HasRead
<1>4. NameIsCurrent
  <2>1. version = 0 /\ named = [version |-> 0, fields |-> fields, memories |-> {}]
          /\ memories = {}
    BY DEF BrandInit
  <2> QED
    BY <1>2, <2>1 DEF NameIsCurrent
<1>5. LatestEditStands
  BY DEF BrandInit, LatestEditStands, NoField
<1>6. NoRowIsEmpty
  BY DEF BrandInit, NoRowIsEmpty
<1> QED
  BY <1>1, <1>3, <1>4, <1>5, <1>6 DEF BrandInv

-----------------------------------------------------------------------------
(* Steps that touch neither the row, the memories nor the history, and     *)
(* neither begin nor end a memory's wait for its bump: for all but one     *)
(* request nothing changes, and that one has no claim on the row, keeps    *)
(* the one it had, or has just read the row as it is.                      *)
Quietly(r) ==
  /\ request' = [request EXCEPT ![r] = request'[r]]
  /\ request'[r] \in RequestType
  /\ request[r].pc \notin {"bump", "bumpCreate"}
  /\ request'[r].pc \notin {"bump", "bumpCreate"}
  /\ PatchesSection(request'[r])
  /\ request'[r].pc = "write" => request'[r].seen = version /\ request'[r].read = fields
  /\ UNCHANGED <<brandDb, brandHistory>>

LEMMA QuietKeeps ==
  ASSUME BrandInv, NEW r \in BrandRequests, Quietly(r), DialogsTyped'
  PROVE  BrandInv'
<1>1. request \in [BrandRequests -> RequestType]
  BY DEF BrandInv, BrandTypeOK, RequestType
<1>2. request' \in [BrandRequests -> RequestType]
  BY <1>1 DEF Quietly
<1>3. \A x \in BrandRequests : x # r => request'[x] = request[x]
  BY <1>1 DEF Quietly
<1>4. UNCHANGED <<version, fields, memories, latest, named, unraised>>
  BY DEF Quietly, brandDb, brandHistory
<1>5. BrandTypeOK'
  BY <1>2, <1>4 DEF BrandInv, BrandTypeOK, RequestType, DialogsTyped, DialogType, ShownValues
<1>6. ReadIsCurrent'
  <2>1. version \in Nat
    BY DEF BrandInv, BrandTypeOK
  <2>2. HasRead(request'[r], version, fields)
    BY <2>1 DEF Quietly, HasRead
  <2>3. \A x \in BrandRequests :
          PatchesSection(request'[x]) /\ HasRead(request'[x], version, fields)
    BY <1>3, <2>2 DEF BrandInv, ReadIsCurrent, Quietly
  <2> QED
    BY <1>4, <2>3 DEF ReadIsCurrent
<1>7. NameIsCurrent'
  <2>1. Raising' = Raising
    BY <1>3 DEF Raising, Quietly
  <2> QED
    BY <1>3, <1>4, <2>1 DEF BrandInv, NameIsCurrent, Quietly
<1>8. LatestEditStands' /\ NoRowIsEmpty'
  BY <1>4 DEF BrandInv, LatestEditStands, NoRowIsEmpty
<1> QED
  BY <1>5, <1>6, <1>7, <1>8 DEF BrandInv

-----------------------------------------------------------------------------
(* The requests' types, spelled out for the steps below.                   *)
LEMMA RequestsTyped ==
  ASSUME BrandInv
  PROVE  /\ request \in [BrandRequests -> RequestType]
         /\ version \in Nat /\ fields \in [Fields -> Field]
         /\ memories \subseteq Memories /\ latest \in [Fields -> Values \cup {""}]
  BY DEF BrandInv, BrandTypeOK, RequestType

LEMMA DialogsStay ==
  ASSUME BrandInv, UNCHANGED dialog PROVE DialogsTyped'
  BY DialogsAreTyped DEF DialogsTyped

LEMMA EndsType ==
  ASSUME BrandInv, NEW r \in BrandRequests, NEW pc \in {"ok", "refused"},
         Ends(r, pc)
  PROVE  /\ request' = [request EXCEPT ![r] = request'[r]]
         /\ request'[r] \in RequestType /\ request'[r].pc = pc
<1>1. request \in [BrandRequests -> RequestType]
  BY RequestsTyped
<1>2. request'[r] = [NewRequest EXCEPT !.pc = pc, !.from = request[r].from]
  BY <1>1 DEF Ends
<1>3. request'[r] \in RequestType /\ request'[r].pc = pc
  BY <1>1, <1>2, NewRequestType DEF RequestType
<1> QED
  BY <1>1, <1>2, <1>3 DEF Ends

(* A request that reads again, or gives up, keeps its patch to its section.*)
LEMMA ReadsAgainKeeps ==
  ASSUME BrandInv, NEW r \in BrandRequests, ReadsAgain(r), request[r].pc = "write"
  PROVE  /\ request' = [request EXCEPT ![r] = request'[r]]
         /\ request'[r] \in RequestType /\ request'[r].pc \in {"read", "refused"}
         /\ PatchesSection(request'[r])
         /\ request'[r].pc = "read" => /\ request'[r].patch = request[r].patch
                                       /\ request'[r].source = request[r].source
<1>1. request \in [BrandRequests -> RequestType]
  BY RequestsTyped
<1>2. CASE request[r].tries + 1 < Tries
  <2>1. request' = [request EXCEPT ![r].tries = request[r].tries + 1, ![r].pc = "read"]
    BY <1>2 DEF ReadsAgain
  <2>2. request'[r] = [request[r] EXCEPT !.tries = request[r].tries + 1, !.pc = "read"]
    BY <1>1, <2>1
  <2>3. request[r] \in RequestType
    BY <1>1
  <2>4. request[r].tries + 1 \in 0..Tries
    <3>1. Tries \in Nat
      BY BrandAssumption
    <3>2. request[r].tries \in 0..Tries
      BY <2>3 DEF RequestType
    <3> QED
      BY <1>2, <3>1, <3>2
  <2>5. /\ request'[r] \in RequestType /\ request'[r].pc = "read"
        /\ request'[r].patch = request[r].patch
        /\ request'[r].section = request[r].section
        /\ request'[r].source = request[r].source
    BY <2>2, <2>3, <2>4 DEF RequestType
  <2>6. PatchesSection(request'[r])
    BY <2>5 DEF BrandInv, ReadIsCurrent, PatchesSection
  <2>7. request' = [request EXCEPT ![r] = request'[r]]
    BY <1>1, <2>1, <2>2
  <2> QED
    BY <2>5, <2>6, <2>7
<1>3. CASE ~(request[r].tries + 1 < Tries)
  <2>1. Ends(r, "refused")
    BY <1>3 DEF ReadsAgain
  <2> QED
    BY <2>1, EndsType DEF PatchesSection
<1> QED
  BY <1>2, <1>3

(* After its write a request is done, told of an error, or reads again.    *)
LEMMA WriteEnds ==
  ASSUME BrandInv, NEW r \in BrandRequests, Ends(r, "ok") \/ AuditFails(r),
         request[r].pc = "write"
  PROVE  /\ request' = [request EXCEPT ![r] = request'[r]]
         /\ request'[r] \in RequestType /\ request'[r].pc \in {"ok", "read", "refused"}
         /\ PatchesSection(request'[r])
         /\ request'[r].pc = "read" => /\ version = 0
                                       /\ request'[r].patch = request[r].patch
                                       /\ request'[r].source = request[r].source
<1>1. CASE Ends(r, "ok")
  BY <1>1, EndsType DEF PatchesSection
<1>2. CASE AuditFails(r) /\ version = 0
  BY <1>2, ReadsAgainKeeps DEF AuditFails
<1>3. CASE AuditFails(r) /\ version # 0
  BY <1>3, EndsType DEF AuditFails, PatchesSection
<1> QED
  BY <1>1, <1>2, <1>3

LEMMA AskQuietly ==
  ASSUME BrandInv, NEW r \in BrandRequests, NEW section \in Sections,
         NEW patch \in Patch, NEW source \in BrandSources,
         NEW from \in Dialogs \cup {"none"},
         AskUpdate(r, section, patch, source, from),
         \A f \in Fields : SectionOf[f] # section => patch[f] = "keep",
         UNCHANGED <<brandDb, brandHistory>>
  PROVE  Quietly(r)
<1>1. request \in [BrandRequests -> RequestType]
  BY RequestsTyped
<1>2. request'[r] = [NewRequest EXCEPT !.pc = "read", !.section = section,
                       !.patch = patch, !.source = source, !.from = from]
        /\ request[r].pc = "new"
  BY <1>1 DEF AskUpdate
<1>3. request'[r] \in RequestType /\ request'[r].pc = "read"
        /\ request'[r].section = section /\ request'[r].patch = patch
  BY <1>2, NewRequestType DEF RequestType
<1>4. request' = [request EXCEPT ![r] = request'[r]]
  BY <1>1, <1>2 DEF AskUpdate
<1> QED
  BY <1>2, <1>3, <1>4 DEF Quietly, PatchesSection

(* Each step that leaves the row and the memories alone, but loading the   *)
(* page again, is a quiet one.                                             *)
QuietStep(r) ==
  \/ \E f \in Fields, v \in Values \cup {""}, s \in {"onboarding", "analysis"} :
       AskElsewhere(r, f, v, s)
  \/ ActionRefuses(r) \/ ReadRow(r) \/ WriteLost(r) \/ CountMemories(r)
  \/ \E d \in Dialogs : SubmitSection(d, r)
  \/ AnswerSection(r) \/ LoseAnswer(r)

LEMMA QuietSteps ==
  ASSUME BrandInv, NEW r \in BrandRequests, QuietStep(r)
  PROVE  BrandInv'
<1>1. /\ request \in [BrandRequests -> RequestType]
      /\ version \in Nat /\ fields \in [Fields -> Field]
  BY RequestsTyped
<1>2. ASSUME NEW f \in Fields, NEW v \in Values \cup {""},
             NEW s \in {"onboarding", "analysis"}, AskElsewhere(r, f, v, s)
      PROVE  BrandInv'
  <2> DEFINE patch == [KeepAll EXCEPT ![f] = v]
  <2>1. patch \in Patch /\ \A g \in Fields : SectionOf[g] # SectionOf[f] => patch[g] = "keep"
    BY DEF KeepAll, Patch
  <2>2. AskUpdate(r, SectionOf[f], patch, s, "none")
          /\ UNCHANGED <<brandDb, dialog, brandHistory>>
    BY <1>2 DEF AskElsewhere
  <2> HIDE DEF patch
  <2>3. SectionOf[f] \in Sections /\ s \in BrandSources
    BY DEF Sections, BrandSources
  <2>4. Quietly(r)
    BY <2>1, <2>2, <2>3, AskQuietly
  <2> QED
    BY <2>2, <2>4, QuietKeeps, DialogsStay
<1>3. CASE ActionRefuses(r)
  <2>1. Quietly(r)
    BY <1>3, EndsType DEF ActionRefuses, Quietly, PatchesSection
  <2> QED
    BY <1>3, <2>1, QuietKeeps, DialogsStay DEF ActionRefuses
<1>4. CASE ReadRow(r)
  <2>1. CASE Ends(r, "ok")
    <3>1. Quietly(r)
      BY <1>4, <2>1, EndsType DEF ReadRow, Quietly, PatchesSection
    <3> QED
      BY <1>4, <3>1, QuietKeeps, DialogsStay DEF ReadRow
  <2>2. CASE request' = [request EXCEPT ![r].seen = version, ![r].read = fields,
                                        ![r].pc = "write"]
    <3>1. request'[r] = [request[r] EXCEPT !.seen = version, !.read = fields,
                                           !.pc = "write"]
      BY <1>1, <2>2
    <3>2. request[r] \in RequestType /\ request[r].pc = "read"
      BY <1>1, <1>4 DEF ReadRow
    <3>3. /\ request'[r] \in RequestType /\ request'[r].pc = "write"
          /\ request'[r].seen = version /\ request'[r].read = fields
          /\ request'[r].patch = request[r].patch
          /\ request'[r].section = request[r].section
      BY <1>1, <3>1, <3>2 DEF RequestType
    <3>4. PatchesSection(request'[r])
      BY <3>2, <3>3 DEF BrandInv, ReadIsCurrent, PatchesSection
    <3>5. request' = [request EXCEPT ![r] = request'[r]]
      BY <1>1, <2>2, <3>1
    <3>6. Quietly(r)
      BY <1>4, <3>2, <3>3, <3>4, <3>5 DEF Quietly, ReadRow
    <3> QED
      BY <1>4, <3>6, QuietKeeps, DialogsStay DEF ReadRow
  <2> QED
    BY <1>4, <2>1, <2>2 DEF ReadRow
<1>5. CASE WriteLost(r)
  <2>1. ReadsAgain(r) /\ request[r].pc = "write"
    BY <1>5 DEF WriteLost
  <2>2. Quietly(r)
    BY <1>5, <2>1, ReadsAgainKeeps DEF WriteLost, Quietly
  <2> QED
    BY <1>5, <2>2, QuietKeeps, DialogsStay DEF WriteLost
<1>6. CASE CountMemories(r)
  <2>1. request'[r].pc \in {"refused", "create"} /\ request'[r] \in RequestType
          /\ request' = [request EXCEPT ![r] = request'[r]]
    BY <1>1, <1>6 DEF CountMemories, RequestType
  <2>2. Quietly(r)
    BY <1>6, <2>1 DEF CountMemories, Quietly, PatchesSection
  <2> QED
    BY <1>6, <2>2, QuietKeeps, DialogsStay DEF CountMemories
<1>7. ASSUME NEW d \in Dialogs, SubmitSection(d, r) PROVE BrandInv'
  <2>1. dialog \in [Dialogs -> [section: Sections, saving: BOOLEAN,
                                values: [Fields -> Values \cup {""}]]]
    BY DEF BrandInv, BrandTypeOK
  <2>2. PICK draft \in DialogDrafts(d) :
          AskUpdate(r, dialog[d].section, SectionPatch(d, draft), "user", d)
    BY <1>7 DEF SubmitSection
  <2>3. draft \in [Fields -> Values \cup {""}]
    BY DEF DialogDrafts
  <2>4. SectionPatch(d, draft) \in Patch
    BY <2>3 DEF SectionPatch, Patch
  <2>5. \A f \in Fields : SectionOf[f] # dialog[d].section
                          => SectionPatch(d, draft)[f] = "keep"
    BY DEF SectionPatch, InSection
  <2>6. dialog[d].section \in Sections /\ "user" \in BrandSources
    BY <2>1 DEF BrandSources
  <2>7. Quietly(r)
    BY <1>7, <2>2, <2>4, <2>5, <2>6, AskQuietly DEF SubmitSection
  <2>8. DialogsTyped'
    <3>1. dialog' = [dialog EXCEPT ![d].saving = TRUE]
      BY <1>7 DEF SubmitSection
    <3>2. DialogsTyped /\ dialog[d].values \in ShownValues
      BY DialogsAreTyped DEF DialogsTyped, DialogType
    <3> QED
      BY <3>1, <3>2, DialogsChange
  <2> QED
    BY <2>7, <2>8, QuietKeeps
<1>8. ASSUME request' = [request EXCEPT ![r] = [NewRequest EXCEPT !.pc = "done"]],
             request[r].pc \in {"ok", "refused"},
             UNCHANGED <<brandDb, brandHistory>>, DialogsTyped'
      PROVE  BrandInv'
  <2>1. request'[r] \in RequestType /\ request'[r].pc = "done"
          /\ request' = [request EXCEPT ![r] = request'[r]]
    BY <1>1, <1>8, NewRequestType DEF RequestType
  <2>2. Quietly(r)
    BY <1>8, <2>1 DEF Quietly, PatchesSection
  <2> QED
    BY <1>8, <2>2, QuietKeeps
<1>9. CASE AnswerSection(r)
  <2> DEFINE now == [f \in Fields |-> fields[f].value]
             home == request[r].from
  <2>1. now \in ShownValues
    BY <1>1 DEF Field, ShownValues
  <2>2. \/ dialog' = [dialog EXCEPT ![home].saving = FALSE]
        \/ dialog' = [dialog EXCEPT ![home].saving = FALSE, ![home].values = now]
    BY <1>9 DEF AnswerSection
  <2> HIDE DEF now, home
  <2>3. DialogsTyped'
    BY <2>1, <2>2, DialogsAreTyped, DialogsChange
  <2> QED
    BY <1>8, <1>9, <2>3 DEF AnswerSection
<1>10. CASE LoseAnswer(r)
  BY <1>8, <1>10, DialogsStay DEF LoseAnswer
<1> QED
  BY <1>2, <1>3, <1>4, <1>5, <1>6, <1>7, <1>9, <1>10 DEF QuietStep

(* Loading the page again leaves a request without its dialog.             *)
LEMMA VisitKeeps ==
  ASSUME BrandInv, NEW d \in Dialogs, VisitPage(d)
  PROVE  BrandInv'
<1>1. /\ request \in [BrandRequests -> RequestType]
      /\ fields \in [Fields -> Field]
  BY RequestsTyped
<1>2. UNCHANGED <<version, fields, memories, latest, named, unraised>>
  BY DEF VisitPage, brandDb, brandHistory
<1>3. \A r \in BrandRequests :
        /\ request'[r] \in RequestType
        /\ request'[r].pc = request[r].pc /\ request'[r].section = request[r].section
        /\ request'[r].patch = request[r].patch /\ request'[r].seen = request[r].seen
        /\ request'[r].read = request[r].read
  <2> SUFFICES ASSUME NEW r \in BrandRequests
               PROVE  /\ request'[r] \in RequestType
                      /\ request'[r].pc = request[r].pc
                      /\ request'[r].section = request[r].section
                      /\ request'[r].patch = request[r].patch
                      /\ request'[r].seen = request[r].seen
                      /\ request'[r].read = request[r].read
    OBVIOUS
  <2>1. request[r] \in RequestType
    BY <1>1
  <2>2. [request[r] EXCEPT !.from = "none"] \in RequestType
    BY <2>1 DEF RequestType
  <2>3. \/ request'[r] = request[r]
        \/ request'[r] = [request[r] EXCEPT !.from = "none"]
    BY DEF VisitPage
  <2> QED
    BY <2>1, <2>2, <2>3 DEF RequestType
<1>4. BrandTypeOK'
  <2> DEFINE now == [f \in Fields |-> fields[f].value]
  <2>1. now \in ShownValues
    BY <1>1 DEF Field, ShownValues
  <2>2. dialog' = [dialog EXCEPT ![d].values = now, ![d].saving = FALSE]
    BY DEF VisitPage
  <2> HIDE DEF now
  <2>3. DialogsTyped'
    BY <2>1, <2>2, DialogsAreTyped, DialogsChange
  <2>4. request' \in [BrandRequests -> RequestType]
    BY <1>3 DEF VisitPage
  <2> QED
    BY <1>2, <2>3, <2>4 DEF BrandInv, BrandTypeOK, RequestType, DialogsTyped, DialogType,
       ShownValues
<1>5. ReadIsCurrent'
  BY <1>2, <1>3 DEF BrandInv, ReadIsCurrent, PatchesSection, HasRead
<1>6. NameIsCurrent'
  <2>1. Raising' = Raising
    BY <1>3 DEF Raising
  <2> QED
    BY <1>2, <1>3, <2>1 DEF BrandInv, NameIsCurrent
<1>7. LatestEditStands' /\ NoRowIsEmpty'
  BY <1>2 DEF BrandInv, LatestEditStands, NoRowIsEmpty
<1> QED
  BY <1>4, <1>5, <1>6, <1>7 DEF BrandInv

-----------------------------------------------------------------------------
(* Writing the row.                                                        *)
LEMMA AppliedType ==
  ASSUME NEW current \in [Fields -> Field], NEW patch \in Patch, NEW source \in BrandSources
  PROVE  ApplyPatch(current, patch, source) \in [Fields -> Field]
<1>1. ASSUME NEW f \in Fields
      PROVE  (IF f \notin Changed(current, patch, source) THEN current[f]
              ELSE IF patch[f] = "" THEN NoField
              ELSE [value |-> patch[f], source |-> source]) \in Field
  <2>1. f \in Changed(current, patch, source) => patch[f] \in Values \cup {""}
    BY DEF Changed, Patch
  <2>2. NoField \in Field
    BY DEF NoField, Field
  <2> QED
    BY <2>1, <2>2 DEF Field
<1> QED
  BY <1>1 DEF ApplyPatch

LEMMA WriteRowKeeps ==
  ASSUME BrandInv, NEW r \in BrandRequests, WriteRow(r)
  PROVE  BrandInv'
<1>1. /\ request \in [BrandRequests -> RequestType]
      /\ version \in Nat /\ fields \in [Fields -> Field]
      /\ memories \subseteq Memories /\ latest \in [Fields -> Values \cup {""}]
  BY RequestsTyped
<1> DEFINE q == request[r]
           next == ApplyPatch(q.read, q.patch, q.source)
<1>2. /\ q \in RequestType /\ q.pc = "write" /\ q.seen = version
      /\ fields' = [f \in Fields |-> IF SectionOf[f] = q.section THEN next[f] ELSE fields[f]]
      /\ version' = version + 1
      /\ latest' = [f \in Fields |->
           IF f \in Changed(fields, q.patch, q.source) THEN q.patch[f] ELSE latest[f]]
      /\ Ends(r, "ok") \/ AuditFails(r)
      /\ memories' = memories /\ dialog' = dialog /\ unraised' = unraised
      /\ Naming
  BY <1>1 DEF WriteRow, StillAt
<1>3. q.read = fields /\ PatchesSection(q)
  BY <1>2 DEF BrandInv, ReadIsCurrent, HasRead
<1>4. q.patch \in Patch /\ q.source \in BrandSources
  BY <1>2 DEF RequestType
<1>5. next \in [Fields -> Field]
  BY <1>1, <1>3, <1>4, AppliedType
<1>6. /\ request' = [request EXCEPT ![r] = request'[r]]
      /\ request'[r] \in RequestType /\ request'[r].pc \in {"ok", "read", "refused"}
      /\ PatchesSection(request'[r])
  BY <1>2, WriteEnds
<1>7. \A x \in BrandRequests : x # r => request'[x] = request[x]
  BY <1>1, <1>6
<1> HIDE DEF q, next
<1>8. fields' \in [Fields -> Field]
  BY <1>1, <1>2, <1>5
<1>15. version \in Nat /\ version' = version + 1
  BY <1>1, <1>2
<1>16. version' \in Nat /\ version < version' /\ version' <= version'
  BY <1>15
<1>9. latest' \in [Fields -> Values \cup {""}]
  <2>1. \A f \in Changed(fields, q.patch, q.source) : q.patch[f] \in Values \cup {""}
    BY <1>4 DEF Changed, Patch
  <2> QED
    BY <1>1, <1>2, <2>1
<1>10. named' \in [version: Nat, fields: [Fields -> Field], memories: SUBSET Memories]
  <2>1. named \in [version: Nat, fields: [Fields -> Field], memories: SUBSET Memories]
    BY DEF BrandInv, BrandTypeOK
  <2> QED
    BY <1>1, <1>2, <1>8, <1>16, <2>1 DEF Naming
<1>11. BrandTypeOK'
  <2>1. request' \in [BrandRequests -> RequestType]
    BY <1>1, <1>6
  <2> QED
    BY <1>1, <1>2, <1>8, <1>9, <1>10, <1>16, <2>1 DEF BrandInv, BrandTypeOK, RequestType
<1>12. ReadIsCurrent'
  <2>1. ASSUME NEW x \in BrandRequests, x # r
        PROVE  PatchesSection(request'[x]) /\ HasRead(request'[x], version', fields')
    <3>1. PatchesSection(request[x]) /\ HasRead(request[x], version, fields)
      BY DEF BrandInv, ReadIsCurrent
    <3>2. request[x].seen \in Nat
      BY <1>1 DEF RequestType
    <3>3. request'[x] = request[x]
      BY <1>7, <2>1
    <3>4. request[x].pc = "write" => request[x].seen <= version
      BY <3>1 DEF HasRead
    <3>5. request[x].pc = "write" => request[x].seen <= version' /\ request[x].seen # version'
      BY <1>15, <3>2, <3>4
    <3> QED
      BY <3>1, <3>3, <3>5 DEF HasRead
  <2>2. PatchesSection(request'[r]) /\ HasRead(request'[r], version', fields')
    BY <1>6 DEF HasRead
  <2> QED
    BY <2>1, <2>2 DEF ReadIsCurrent
<1>13. NameIsCurrent'
  <2>1. named.version \in Nat /\ named.version <= version
    BY DEF BrandInv, BrandTypeOK, NameIsCurrent
  <2>2. CASE Raising' = {}
    <3>1. named' = [version |-> version', fields |-> fields', memories |-> memories']
      BY <1>2, <2>2 DEF Naming
    <3>2. \A x \in BrandRequests : request'[x].pc # "bumpCreate"
      BY <2>2 DEF Raising
    <3> QED
      BY <1>16, <3>1, <3>2 DEF NameIsCurrent
  <2>3. CASE Raising' # {}
    <3>1. named' = named
      BY <1>2, <2>3 DEF Naming
    <3>2. \A x \in BrandRequests : request'[x].pc = "bumpCreate" => request[x].pc = "bumpCreate"
      BY <1>6, <1>7
    <3>3. named'.version <= version'
      BY <1>15, <2>1, <3>1
    <3> QED
      BY <2>3, <3>1, <3>2, <3>3 DEF BrandInv, NameIsCurrent
  <2> QED
    BY <2>2, <2>3
<1>14. LatestEditStands'
  <2>1. ASSUME NEW f \in Fields PROVE fields'[f].value = latest'[f]
    <3>1. fields[f].value = latest[f]
      BY DEF BrandInv, LatestEditStands
    <3>2. CASE SectionOf[f] = q.section /\ f \in Changed(fields, q.patch, q.source)
      <4>1. fields'[f] = IF q.patch[f] = "" THEN NoField
                         ELSE [value |-> q.patch[f], source |-> q.source]
        BY <1>2, <1>3, <3>2 DEF next, ApplyPatch
      <4>2. latest'[f] = q.patch[f]
        BY <1>2, <3>2
      <4>3. CASE q.patch[f] = ""
        <5>1. fields'[f] = [value |-> q.patch[f], source |-> "none"]
          BY <4>1, <4>3 DEF NoField
        <5>2. fields'[f].value = q.patch[f]
          BY <5>1
        <5> QED
          BY <4>2, <5>2
      <4>4. CASE q.patch[f] # ""
        <5>1. fields'[f] = [value |-> q.patch[f], source |-> q.source]
          BY <4>1, <4>4
        <5>2. fields'[f].value = q.patch[f]
          BY <5>1
        <5> QED
          BY <4>2, <5>2
      <4> QED
        BY <4>3, <4>4
    <3>3. CASE SectionOf[f] = q.section /\ f \notin Changed(fields, q.patch, q.source)
      BY <1>2, <1>3, <3>1, <3>3 DEF next, ApplyPatch
    <3>4. CASE SectionOf[f] # q.section
      <4>1. q.patch[f] = "keep"
        BY <1>2, <1>3, <3>4 DEF PatchesSection
      <4>2. f \notin Changed(fields, q.patch, q.source)
        BY <4>1 DEF Changed
      <4> QED
        BY <1>2, <3>1, <3>4, <4>2
    <3> QED
      BY <3>2, <3>3, <3>4
  <2> QED
    BY <2>1 DEF LatestEditStands
<1>17. NoRowIsEmpty'
  BY <1>15 DEF NoRowIsEmpty
<1> QED
  BY <1>11, <1>12, <1>13, <1>14, <1>17 DEF BrandInv

-----------------------------------------------------------------------------
(* A memory and its version: the fields stay, and a request about to write *)
(* stays as it is.                                                         *)
MemoryStep(r) ==
  \/ \E m \in Memories : CreateMemory(r, m) \/ DeleteMemory(r, m)
  \/ Bump(r) \/ BumpCreate(r) \/ StopBeforeBump(r)

LEMMA MemoryStepShape ==
  ASSUME BrandInv, NEW r \in BrandRequests, MemoryStep(r)
  PROVE  /\ fields' = fields /\ latest' = latest /\ dialog' = dialog
         /\ request' \in [BrandRequests -> RequestType]
         /\ request'[r].pc \in {"bump", "bumpCreate", "ok", "done"}
         /\ \A x \in BrandRequests : x # r => request'[x] = request[x]
         /\ memories' \subseteq Memories /\ unraised' \in BOOLEAN
<1>1. /\ request \in [BrandRequests -> RequestType]
      /\ memories \subseteq Memories /\ unraised \in BOOLEAN
  BY RequestsTyped DEF BrandInv, BrandTypeOK
<1>2. ASSUME NEW pc \in {"bump", "bumpCreate", "ok", "done"},
             request' = [request EXCEPT ![r].pc = pc]
      PROVE  /\ request' \in [BrandRequests -> RequestType]
             /\ request'[r].pc \in {"bump", "bumpCreate", "ok", "done"}
             /\ \A x \in BrandRequests : x # r => request'[x] = request[x]
  <2>1. request[r] \in RequestType
    BY <1>1
  <2>2. [request[r] EXCEPT !.pc = pc] \in RequestType
    BY <2>1 DEF RequestType
  <2>3. request' = [request EXCEPT ![r] = [request[r] EXCEPT !.pc = pc]]
    BY <1>1, <1>2
  <2>4. request'[r] = [request[r] EXCEPT !.pc = pc]
    BY <1>1, <2>3
  <2>5. request'[r].pc = pc
    BY <2>1, <2>4 DEF RequestType
  <2> QED
    BY <1>1, <2>2, <2>3, <2>5
<1>3. ASSUME NEW m \in Memories, CreateMemory(r, m) \/ DeleteMemory(r, m)
      PROVE  /\ request' = [request EXCEPT ![r].pc = "bump"]
             /\ memories' \subseteq Memories
             /\ UNCHANGED <<version, fields, dialog, brandHistory>>
  BY <1>1, <1>3 DEF CreateMemory, DeleteMemory
<1>4. CASE \E m \in Memories : CreateMemory(r, m) \/ DeleteMemory(r, m)
  BY <1>1, <1>2, <1>3, <1>4 DEF brandHistory
<1>5. CASE Bump(r)
  BY <1>1, <1>2, <1>5 DEF Bump
<1>6. CASE BumpCreate(r)
  BY <1>1, <1>2, <1>6 DEF BumpCreate
<1>7. CASE StopBeforeBump(r)
  BY <1>1, <1>2, <1>7 DEF StopBeforeBump, brandDb
<1> QED
  BY <1>4, <1>5, <1>6, <1>7 DEF MemoryStep

(* The version never falls; it rises, or the card waits for its bump, or   *)
(* the bump was lost, or nothing of the card has changed.                  *)
LEMMA MemoryStepVersion ==
  ASSUME BrandInv, NEW r \in BrandRequests, MemoryStep(r)
  PROVE  /\ version' \in Nat /\ version <= version'
         /\ named' = named
              \/ named' = [version |-> version', fields |-> fields', memories |-> memories']
         /\ Raising' # {} => named' = named
         /\ request'[r].pc = "bumpCreate" => named.version = 0
         /\ Raising' = {} => named.version < version' \/ unraised'
<1>1. /\ request \in [BrandRequests -> RequestType] /\ version \in Nat
  BY RequestsTyped
<1>2. named.version \in Nat /\ named.version <= version
  BY DEF BrandInv, BrandTypeOK, NameIsCurrent
<1>3. request[r].pc = "bumpCreate" => named.version = 0
  BY DEF BrandInv, NameIsCurrent
<1>4. \A pc : request' = [request EXCEPT ![r].pc = pc] => request'[r].pc = pc
  BY <1>1 DEF RequestType
<1>5. request'[r].pc \in {"bump", "bumpCreate"} => Raising' # {}
  BY DEF Raising
<1>6. CASE \E m \in Memories : CreateMemory(r, m) \/ DeleteMemory(r, m)
  <2>1. request' = [request EXCEPT ![r].pc = "bump"] /\ version' = version /\ named' = named
    BY <1>6 DEF CreateMemory, DeleteMemory, brandHistory
  <2> QED
    BY <1>1, <1>4, <1>5, <2>1
<1>7. CASE Bump(r)
  <2>1. CASE version = 0
    <3>1. version' = 0 /\ request'[r].pc = "bumpCreate"
      BY <1>4, <1>7, <2>1 DEF Bump
    <3>2. named' = named
      BY <1>5, <1>7, <3>1 DEF Bump, Naming
    <3>3. named.version = 0
      BY <1>2, <2>1
    <3> QED
      BY <1>5, <2>1, <3>1, <3>2, <3>3
  <2>2. CASE version # 0
    <3>1. version' = version + 1 /\ request'[r].pc = "ok"
      BY <1>4, <1>7, <2>2 DEF Bump
    <3>2. version' \in Nat /\ version <= version' /\ named.version < version'
      BY <1>1, <1>2, <3>1
    <3> QED
      BY <1>7, <3>1, <3>2 DEF Bump, Naming
  <2> QED
    BY <2>1, <2>2
<1>8. CASE BumpCreate(r)
  <2>1. named.version = 0 /\ request'[r].pc = "ok"
    BY <1>3, <1>4, <1>8 DEF BumpCreate
  <2>2. version' = IF version = 0 THEN 1 ELSE version
    BY <1>8 DEF BumpCreate, FirstVersion
  <2>3. version' \in Nat /\ version <= version' /\ named.version < version'
    BY <1>1, <2>1, <2>2
  <2> QED
    BY <1>8, <2>1, <2>3 DEF BumpCreate, Naming
<1>9. CASE StopBeforeBump(r)
  <2>1. /\ version' = version /\ named' = named /\ unraised'
        /\ request'[r].pc = "done"
    BY <1>4, <1>9 DEF StopBeforeBump, brandDb
  <2> QED
    BY <1>1, <2>1
<1> QED
  BY <1>6, <1>7, <1>8, <1>9 DEF MemoryStep

LEMMA MemoryStepKeeps ==
  ASSUME BrandInv, NEW r \in BrandRequests, MemoryStep(r)
  PROVE  BrandInv'
<1>1. /\ fields' = fields /\ latest' = latest /\ dialog' = dialog
      /\ request' \in [BrandRequests -> RequestType]
      /\ request'[r].pc \in {"bump", "bumpCreate", "ok", "done"}
      /\ \A x \in BrandRequests : x # r => request'[x] = request[x]
      /\ memories' \subseteq Memories /\ unraised' \in BOOLEAN
  BY MemoryStepShape
<1>2. version' \in Nat /\ version <= version'
  BY MemoryStepVersion
<1>3. /\ named' = named
           \/ named' = [version |-> version', fields |-> fields', memories |-> memories']
      /\ Raising' # {} => named' = named
      /\ request'[r].pc = "bumpCreate" => named.version = 0
      /\ Raising' = {} => named.version < version' \/ unraised'
  BY MemoryStepVersion
<1>4. version \in Nat /\ fields \in [Fields -> Field]
  BY RequestsTyped
<1>5. BrandTypeOK'
  <2>1. named' \in [version: Nat, fields: [Fields -> Field], memories: SUBSET Memories]
    <3>1. named \in [version: Nat, fields: [Fields -> Field], memories: SUBSET Memories]
      BY DEF BrandInv, BrandTypeOK
    <3>2. CASE named' = named
      BY <3>1, <3>2
    <3>3. CASE named' = [version |-> version', fields |-> fields', memories |-> memories']
      <4>1. version' \in Nat /\ fields' \in [Fields -> Field] /\ memories' \in SUBSET Memories
        BY <1>1, <1>2, <1>4
      <4> QED
        BY <3>3, <4>1
    <3> QED
      BY <1>3, <3>2, <3>3
  <2> QED
    BY <1>1, <1>2, <2>1 DEF BrandInv, BrandTypeOK, RequestType
<1>6. ReadIsCurrent'
  <2>1. ASSUME NEW x \in BrandRequests, x # r
        PROVE  PatchesSection(request'[x]) /\ HasRead(request'[x], version', fields')
    <3>1. /\ PatchesSection(request[x]) /\ HasRead(request[x], version, fields)
          /\ request'[x] = request[x]
      BY <1>1, <2>1 DEF BrandInv, ReadIsCurrent
    <3>2. request'[x].seen \in Nat
      BY <1>1 DEF RequestType
    <3>3. request'[x].pc = "write" => request'[x].seen <= version
      BY <3>1 DEF HasRead
    <3>4. request'[x].pc = "write" =>
            /\ request'[x].seen <= version'
            /\ request'[x].seen = version' => request'[x].seen = version
      BY <1>2, <1>4, <3>2, <3>3
    <3> QED
      BY <1>1, <3>1, <3>4 DEF HasRead
  <2>2. PatchesSection(request'[r]) /\ HasRead(request'[r], version', fields')
    BY <1>1 DEF PatchesSection, HasRead
  <2> QED
    BY <2>1, <2>2 DEF ReadIsCurrent
<1>7. NameIsCurrent'
  <2>1. named.version \in Nat /\ named.version <= version
    BY DEF BrandInv, BrandTypeOK, NameIsCurrent
  <2>2. named.version <= version' /\ version' <= version'
    BY <1>2, <1>4, <2>1
  <2>3. named'.version <= version'
    BY <1>3, <2>2
  <2>4. \A x \in BrandRequests : request'[x].pc = "bumpCreate" => named'.version = 0
    <3>1. ASSUME NEW x \in BrandRequests, request'[x].pc = "bumpCreate"
          PROVE  named'.version = 0
      <4>1. Raising' # {}
        BY <3>1 DEF Raising
      <4>2. named.version = 0
        BY <1>1, <1>3, <3>1 DEF BrandInv, NameIsCurrent
      <4> QED
        BY <1>3, <4>1, <4>2
    <3> QED
      BY <3>1
  <2>5. ASSUME Raising' = {}, ~unraised', named'.version = version'
        PROVE  named'.fields = fields' /\ named'.memories = memories'
    <3>1. named.version < version'
      BY <1>3, <2>5
    <3>2. named.version # version'
      BY <1>2, <2>1, <3>1
    <3> QED
      BY <1>3, <2>5, <3>2
  <2> QED
    BY <2>3, <2>4, <2>5 DEF NameIsCurrent
<1>8. LatestEditStands'
  BY <1>1 DEF BrandInv, LatestEditStands
<1>9. NoRowIsEmpty'
  <2>1. version' = 0 => version = 0
    BY <1>2, <1>4
  <2> QED
    BY <1>1, <2>1 DEF BrandInv, NoRowIsEmpty
<1> QED
  BY <1>5, <1>6, <1>7, <1>8, <1>9 DEF BrandInv

-----------------------------------------------------------------------------
LEMMA BrandStepCases ==
  ASSUME BrandNext
  PROVE  \/ \E r \in BrandRequests : QuietStep(r) \/ WriteRow(r) \/ MemoryStep(r)
         \/ \E d \in Dialogs : VisitPage(d)
  BY DEF BrandNext, QuietStep, MemoryStep

LEMMA BrandStepKeeps == BrandInv /\ [BrandNext]_brandVars => BrandInv'
<1> SUFFICES ASSUME BrandInv, [BrandNext]_brandVars PROVE BrandInv'
  OBVIOUS
<1>1. CASE BrandNext
  BY <1>1, BrandStepCases, QuietSteps, WriteRowKeeps, MemoryStepKeeps, VisitKeeps
<1>2. CASE UNCHANGED brandVars
  <2>1. UNCHANGED <<version, fields, memories, request, dialog, latest, named, unraised>>
    BY <1>2 DEF brandVars, brandDb, brandHistory
  <2> QED
    BY <2>1 DEF BrandInv, BrandTypeOK, ReadIsCurrent, PatchesSection, HasRead,
                NameIsCurrent, Raising, LatestEditStands, NoRowIsEmpty
<1> QED
  BY <1>1, <1>2

LEMMA BrandCorrect == BrandSpec => []BrandInv
  BY BrandInitInv, BrandStepKeeps, PTL DEF BrandSpec

(* However the requests to the sections and the memories cross, a field    *)
(* holds what was last sent for it: a write happens only at the version    *)
(* its request has read, and that names one row.                           *)
THEOREM NoPatchIsLost == BrandSpec => []LatestEditStands
<1>1. BrandInv => LatestEditStands
  BY DEF BrandInv
<1> QED
  BY <1>1, BrandCorrect, PTL

(* Only a write that is not the analysis's changes what a person typed.    *)
LEMMA UserKept ==
  ASSUME BrandInv, [BrandNext]_brandVars, NEW f \in Fields,
         fields[f].source \in {"user", "onboarding"}, fields'[f] # fields[f]
  PROVE  \E r \in BrandRequests : /\ request[r].pc = "write" /\ request'[r].pc # "write"
                                 /\ request[r].source # "analysis"
<1>1. BrandNext
  BY DEF brandVars, brandDb
<1>2. CASE \E d \in Dialogs : VisitPage(d)
  BY <1>2 DEF VisitPage, brandDb
<1>3. ASSUME NEW r \in BrandRequests, QuietStep(r) PROVE FALSE
  BY <1>3 DEF QuietStep, AskElsewhere, ActionRefuses, ReadRow, WriteLost, CountMemories,
              SubmitSection, AnswerSection, LoseAnswer, brandDb
<1>4. ASSUME NEW r \in BrandRequests, MemoryStep(r) PROVE FALSE
  BY <1>4, MemoryStepShape
<1>5. PICK r \in BrandRequests : WriteRow(r)
  BY <1>1, <1>2, <1>3, <1>4, BrandStepCases DEF VisitPage, brandDb
<1>6. request[r].pc = "write" /\ request[r].seen = version
        /\ (Ends(r, "ok") \/ AuditFails(r))
  BY <1>5 DEF WriteRow, StillAt
<1>7. request'[r].pc # "write"
  BY <1>6, WriteEnds
<1>8. request[r].read = fields
  BY <1>6 DEF BrandInv, ReadIsCurrent, HasRead
<1>9. CASE request[r].source = "analysis"
  <2>1. Yields(fields[f], "analysis")
    BY DEF Yields
  <2>2. f \notin Changed(fields, request[r].patch, request[r].source)
    BY <1>9, <2>1 DEF Changed
  <2>3. ApplyPatch(fields, request[r].patch, request[r].source)[f] = fields[f]
    BY <2>2 DEF ApplyPatch
  <2>4. fields'[f] = fields[f]
    BY <1>5, <1>8, <2>3 DEF WriteRow
  <2> QED
    BY <2>4
<1> QED
  BY <1>6, <1>7, <1>9

(* The analysis never changes or clears what a person typed, also when the *)
(* person typed it after the analysis had read the row.                    *)
THEOREM PeopleWin == BrandSpec => UserWinsOverMachine
<1>1. BrandInv /\ [BrandNext]_brandVars =>
        [\A f \in Fields :
           fields[f].source \in {"user", "onboarding"} /\ fields'[f] # fields[f]
             => \E r \in BrandRequests : /\ request[r].pc = "write" /\ request'[r].pc # "write"
                                    /\ request[r].source # "analysis"]_brandVars
  BY UserKept
<1> QED
  BY <1>1, BrandCorrect, PTL DEF BrandSpec, UserWinsOverMachine

LEMMA NameKept ==
  ASSUME BrandInv, [BrandNext]_brandVars,
         Raising' = {}, ~unraised', version' = named.version
  PROVE  fields' = named.fields /\ memories' = named.memories
<1>1. version \in Nat /\ named.version \in Nat /\ named.version <= version
  BY DEF BrandInv, BrandTypeOK, NameIsCurrent
<1>2. ASSUME UNCHANGED <<version, fields, memories, named, unraised>>, Raising' = Raising
      PROVE  fields' = named.fields /\ memories' = named.memories
  BY <1>2 DEF BrandInv, NameIsCurrent
<1>3. request \in [BrandRequests -> RequestType]
  BY RequestsTyped
<1>4. ASSUME NEW r \in BrandRequests, WriteRow(r) PROVE FALSE
  <2>1. version' = version + 1
    BY <1>4 DEF WriteRow
  <2> QED
    BY <1>1, <2>1
<1>5. ASSUME NEW r \in BrandRequests, MemoryStep(r) PROVE FALSE
  <2>1. named.version < version'
    BY <1>5, MemoryStepVersion
  <2> QED
    BY <1>1, <2>1
<1>6. ASSUME NEW d \in Dialogs, VisitPage(d)
      PROVE  fields' = named.fields /\ memories' = named.memories
  <2>1. \A x \in BrandRequests : request'[x].pc = request[x].pc
    BY <1>3, <1>6 DEF VisitPage, RequestType
  <2> QED
    BY <1>2, <1>6, <2>1 DEF VisitPage, Raising, brandDb, brandHistory
<1>7. ASSUME NEW r \in BrandRequests, QuietStep(r)
      PROVE  fields' = named.fields /\ memories' = named.memories
  <2>1. UNCHANGED <<brandDb, brandHistory>>
    BY <1>7 DEF QuietStep, AskElsewhere, ActionRefuses, ReadRow, WriteLost, CountMemories,
                SubmitSection, AnswerSection, LoseAnswer
  <2>2. fields' = fields /\ memories' = memories /\ version' = version
          /\ named' = named /\ unraised' = unraised
    BY <2>1 DEF brandDb, brandHistory
  <2>3. BrandInv'
    BY <1>7, QuietSteps
  <2> QED
    BY <2>2, <2>3 DEF BrandInv, NameIsCurrent
<1>8. CASE UNCHANGED brandVars
  BY <1>2, <1>8 DEF brandVars, brandDb, brandHistory, Raising
<1> QED
  BY <1>4, <1>5, <1>6, <1>7, <1>8, BrandStepCases

(* Under one version the AI is given one card, unless a process stopped    *)
(* between a memory and its version.                                       *)
THEOREM OneCardPerVersion == BrandSpec => VersionNamesTheCard
<1>1. BrandInv /\ [BrandNext]_brandVars =>
        [Raising' = {} /\ ~unraised' /\ version' = named.version
           => fields' = named.fields /\ memories' = named.memories]_brandVars
  BY NameKept
<1> QED
  BY <1>1, BrandCorrect, PTL DEF BrandSpec, VersionNamesTheCard

-----------------------------------------------------------------------------
(* The promise.  What a request asks for, request by request.              *)
AskOf(q) ==
  IF q.pc \in {"read", "write"}
  THEN [pc |-> "asked", patch |-> q.patch, source |-> q.source]
  ELSE [pc |-> IF q.pc \in {"new", "refused"} THEN q.pc ELSE "over",
        patch |-> KeepAll, source |-> "user"]

LEMMA AsksAre == Asks = [r \in BrandRequests |-> AskOf(request[r])]
  BY DEF Asks, AskOf

LEMMA AskOfKinds ==
  ASSUME NEW q
  PROVE  /\ q.pc \in {"read", "write"} =>
              AskOf(q) = [pc |-> "asked", patch |-> q.patch, source |-> q.source]
         /\ q.pc \in {"new", "refused"} => AskOf(q) = Promised!Idle(q.pc)
         /\ q.pc \notin {"read", "write", "new", "refused"}
              => AskOf(q) = Promised!Idle("over")
  BY DEF AskOf, Promised!Idle, KeepAll

LEMMA InitIsPromised == BrandInit => Promised!PatchesInit
<1> SUFFICES ASSUME BrandInit PROVE Promised!PatchesInit
  OBVIOUS
<1>1. fields = [f \in Fields |-> Promised!Empty]
  BY DEF BrandInit, NoField, Promised!Empty
<1>2. \A r \in BrandRequests : AskOf(request[r]) = Promised!Idle("new")
  <2>1. \A r \in BrandRequests : request[r].pc = "new"
    BY DEF BrandInit, NewRequest
  <2> QED
    BY <2>1, AskOfKinds
<1>3. Asks = [r \in BrandRequests |-> Promised!Idle("new")]
  BY <1>2, AsksAre
<1> QED
  BY <1>1, <1>3 DEF Promised!PatchesInit

(* One request moves: so does what it asks for, and nothing else.          *)
LEMMA OneAskMoves ==
  ASSUME NEW r \in BrandRequests, \A x \in BrandRequests : x # r => request'[x] = request[x]
  PROVE  Asks' = [Asks EXCEPT ![r] = AskOf(request'[r])] /\ Asks[r] = AskOf(request[r])
           /\ Asks'[r] = AskOf(request'[r])
<1>1. Asks = [x \in BrandRequests |-> AskOf(request[x])]
  BY AsksAre
<1>2. Asks' = [x \in BrandRequests |-> AskOf(request'[x])]
  BY DEF Asks, AskOf
<1>3. \A x \in BrandRequests : x # r => AskOf(request'[x]) = AskOf(request[x])
  OBVIOUS
<1> QED
  BY <1>1, <1>2, <1>3

LEMMA SameAsks ==
  ASSUME \A x \in BrandRequests : AskOf(request'[x]) = AskOf(request[x])
  PROVE  UNCHANGED Asks
<1>1. Asks = [x \in BrandRequests |-> AskOf(request[x])]
        /\ Asks' = [x \in BrandRequests |-> AskOf(request'[x])]
  BY DEF Asks, AskOf
<1> QED
  BY <1>1

LEMMA SameAsksStutter ==
  ASSUME fields' = fields, \A x \in BrandRequests : AskOf(request'[x]) = AskOf(request[x])
  PROVE  UNCHANGED <<fields, Asks>>
  BY SameAsks

(* The moves of one request, by what it was and what it is then.           *)
LEMMA RequestAsks ==
  ASSUME NEW r \in BrandRequests, \A x \in BrandRequests : x # r => request'[x] = request[x],
         request[r].pc = "new", request'[r].pc = "read", request'[r].patch \in Patch,
         request'[r].source \in BrandSources, fields' = fields
  PROVE  Promised!Ask(r)
<1>1. Asks' = [Asks EXCEPT ![r] = AskOf(request'[r])]
        /\ Asks[r] = AskOf(request[r]) /\ Asks'[r] = AskOf(request'[r])
  BY OneAskMoves
<1>2. AskOf(request[r]).pc = "new"
  BY DEF AskOf
<1>3. AskOf(request'[r]) = [pc |-> "asked", patch |-> request'[r].patch,
                            source |-> request'[r].source]
  BY DEF AskOf
<1>4. AskOf(request'[r]) \in Promised!Askings
  <2>1. request'[r].patch \in Promised!Patches
    BY DEF Promised!Patches, Patch
  <2>2. request'[r].source \in Promised!Sources
    BY DEF Promised!Sources, BrandSources
  <2> QED
    BY <1>3, <2>1, <2>2 DEF Promised!Askings
<1> QED
  BY <1>1, <1>2, <1>4 DEF Promised!Ask

LEMMA RequestIsOver ==
  ASSUME NEW r \in BrandRequests, \A x \in BrandRequests : x # r => request'[x] = request[x],
         request'[r].pc \notin {"read", "write", "new", "refused"}
  PROVE  Asks' = [Asks EXCEPT ![r] = Promised!Idle("over")]
           /\ Asks[r] = AskOf(request[r]) /\ Asks'[r].pc = "over"
<1>1. AskOf(request'[r]) = Promised!Idle("over")
  BY DEF AskOf, Promised!Idle, KeepAll
<1> QED
  BY <1>1, OneAskMoves DEF Promised!Idle

LEMMA RequestIsRefused ==
  ASSUME NEW r \in BrandRequests, \A x \in BrandRequests : x # r => request'[x] = request[x],
         request'[r].pc = "refused"
  PROVE  Asks' = [Asks EXCEPT ![r] = Promised!Idle("refused")]
           /\ Asks[r] = AskOf(request[r]) /\ Asks'[r].pc = "refused"
<1>1. AskOf(request'[r]) = Promised!Idle("refused")
  BY DEF AskOf, Promised!Idle, KeepAll
<1> QED
  BY <1>1, OneAskMoves DEF Promised!Idle

(* The steps that change no field: one to a promised move, or to none.     *)
LEMMA QuietMoves ==
  ASSUME NEW r \in BrandRequests, \A x \in BrandRequests : x # r => request'[x] = request[x],
         fields' = fields
  PROVE  /\ request[r].pc \in {"read", "write"} /\ request'[r].pc = "refused"
              => Promised!Refuse(r)
         /\ request[r].pc = "new"
            /\ request'[r].pc \notin {"new", "read", "write"}
              => Promised!Aside(r)
         /\ request[r].pc = "refused"
            /\ request'[r].pc \notin {"new", "read", "write", "refused"}
              => Promised!Forget(r)
         /\ request[r].pc \notin {"new", "read", "write", "refused"}
            /\ request'[r].pc \notin {"new", "read", "write", "refused"}
              => UNCHANGED <<fields, Asks>>
         /\ request[r].pc \in {"read", "write"} /\ request'[r].pc \in {"read", "write"}
            /\ request'[r].patch = request[r].patch /\ request'[r].source = request[r].source
              => UNCHANGED <<fields, Asks>>
<1>1. ASSUME request[r].pc \in {"read", "write"}, request'[r].pc = "refused"
      PROVE  Promised!Refuse(r)
  <2>1. AskOf(request[r]).pc = "asked"
    BY <1>1 DEF AskOf
  <2> QED
    BY <1>1, <2>1, RequestIsRefused DEF Promised!Refuse
<1>2. ASSUME request[r].pc = "new", request'[r].pc \notin {"new", "read", "write"}
      PROVE  Promised!Aside(r)
  <2>1. AskOf(request[r]).pc = "new"
    BY <1>2 DEF AskOf
  <2>2. CASE request'[r].pc = "refused"
    BY <2>1, <2>2, RequestIsRefused DEF Promised!Aside
  <2>3. CASE request'[r].pc # "refused"
    BY <1>2, <2>1, <2>3, RequestIsOver DEF Promised!Aside
  <2> QED
    BY <2>2, <2>3
<1>3. ASSUME request[r].pc = "refused",
             request'[r].pc \notin {"new", "read", "write", "refused"}
      PROVE  Promised!Forget(r)
  <2>1. AskOf(request[r]).pc = "refused"
    BY <1>3 DEF AskOf
  <2> QED
    BY <1>3, <2>1, RequestIsOver DEF Promised!Forget
<1>4. ASSUME request[r].pc \notin {"new", "read", "write", "refused"},
             request'[r].pc \notin {"new", "read", "write", "refused"}
      PROVE  UNCHANGED <<fields, Asks>>
  <2>1. AskOf(request'[r]) = AskOf(request[r])
    BY <1>4 DEF AskOf
  <2> QED
    BY <2>1, SameAsksStutter
<1>5. ASSUME request[r].pc \in {"read", "write"}, request'[r].pc \in {"read", "write"},
             request'[r].patch = request[r].patch, request'[r].source = request[r].source
      PROVE  UNCHANGED <<fields, Asks>>
  <2>1. AskOf(request'[r]) = AskOf(request[r])
    BY <1>5 DEF AskOf
  <2> QED
    BY <2>1, SameAsksStutter
<1> QED
  BY <1>1, <1>2, <1>3, <1>4, <1>5

-----------------------------------------------------------------------------
(* Where the row is what the request read, its patch is carried out on the *)
(* fields as they are.                                                     *)
LEMMA ChangedIsCarriedOut ==
  ASSUME NEW current \in [Fields -> Field], NEW patch \in Patch, NEW source \in BrandSources,
         NEW f \in Fields
  PROVE  ApplyPatch(current, patch, source)[f]
           = Promised!After(current[f], patch[f], source)
<1>1. current[f] \in Field /\ current[f].source \in BrandSources \cup {"none"}
  BY DEF Field
<1>2. f \notin Changed(current, patch, source)
        <=> Promised!LeftAlone(current[f], patch[f], source)
  BY <1>1 DEF Changed, Yields, Promised!LeftAlone, BrandSources
<1>3. NoField = Promised!Empty
  BY DEF NoField, Promised!Empty
<1> QED
  BY <1>2, <1>3 DEF ApplyPatch, Promised!After

(* Where a patch says nothing of a field, it is left alone.                *)
LEMMA KeptIsLeftAlone ==
  ASSUME NEW field, NEW source PROVE Promised!After(field, "keep", source) = field
  BY DEF Promised!After, Promised!LeftAlone

LEMMA WriteIsPromised ==
  ASSUME BrandInv, NEW r \in BrandRequests, WriteRow(r)
  PROVE  Promised!Apply(r) \/ Promised!ApplyUnlogged(r) \/ Promised!ApplyFirst(r)
<1> DEFINE q == request[r]
           next == ApplyPatch(q.read, q.patch, q.source)
<1>1. /\ request \in [BrandRequests -> RequestType] /\ fields \in [Fields -> Field]
  BY RequestsTyped
<1>2. /\ q \in RequestType /\ q.pc = "write" /\ q.seen = version
      /\ fields' = [f \in Fields |-> IF SectionOf[f] = q.section THEN next[f] ELSE fields[f]]
      /\ Ends(r, "ok") \/ AuditFails(r)
  BY <1>1 DEF WriteRow, StillAt
<1>3. q.read = fields /\ PatchesSection(q)
  BY <1>2 DEF BrandInv, ReadIsCurrent, HasRead
<1>4. q.patch \in Patch /\ q.source \in BrandSources
  BY <1>2 DEF RequestType
<1>5. \A f \in Fields : next[f] = Promised!After(fields[f], q.patch[f], q.source)
  BY <1>1, <1>3, <1>4, ChangedIsCarriedOut
<1>6. \A f \in Fields : SectionOf[f] # q.section
        => fields[f] = Promised!After(fields[f], q.patch[f], q.source)
  BY <1>2, <1>3, KeptIsLeftAlone DEF PatchesSection
<1>7. /\ request' = [request EXCEPT ![r] = request'[r]]
      /\ request'[r].pc \in {"ok", "read", "refused"}
      /\ request'[r].pc = "read" => /\ version = 0 /\ request'[r].patch = q.patch
                                    /\ request'[r].source = q.source
  BY <1>2, WriteEnds
<1>8. \A x \in BrandRequests : x # r => request'[x] = request[x]
  BY <1>1, <1>7
<1>9. Asks[r] = AskOf(q)
  BY <1>8, OneAskMoves
<1>10. AskOf(q) = [pc |-> "asked", patch |-> q.patch, source |-> q.source]
  BY <1>2 DEF AskOf
<1> HIDE DEF next
<1>11. fields' = [f \in Fields |-> Promised!After(fields[f], q.patch[f], q.source)]
  BY <1>2, <1>5, <1>6
<1>12. Asks[r].pc = "asked" /\ Promised!CarriedOut(Asks[r])
  BY <1>9, <1>10, <1>11 DEF Promised!CarriedOut
<1>13. CASE request'[r].pc = "ok"
  BY <1>8, <1>12, <1>13, RequestIsOver DEF Promised!Apply
<1>14. CASE request'[r].pc = "refused"
  BY <1>8, <1>12, <1>14, RequestIsRefused DEF Promised!ApplyUnlogged
<1>15. CASE request'[r].pc = "read"
  <2>1. fields = [f \in Fields |-> Promised!Empty]
    BY <1>7, <1>15 DEF BrandInv, NoRowIsEmpty, NoField, Promised!Empty
  <2>2. \A x \in BrandRequests : AskOf(request'[x]) = AskOf(request[x])
    BY <1>2, <1>7, <1>8, <1>15 DEF AskOf
  <2>3. UNCHANGED Asks
    BY <2>2, SameAsks
  <2> QED
    BY <1>12, <2>1, <2>3 DEF Promised!ApplyFirst
<1> QED
  BY <1>7, <1>13, <1>14, <1>15

(* A patch found to change nothing is carried out all the same.            *)
LEMMA EmptyReadIsPromised ==
  ASSUME BrandInv, NEW r \in BrandRequests, request[r].pc = "read",
         Changed(fields, request[r].patch, request[r].source) = {},
         Ends(r, "ok"), fields' = fields
  PROVE  Promised!Apply(r)
<1> DEFINE q == request[r]
<1>1. /\ request \in [BrandRequests -> RequestType] /\ fields \in [Fields -> Field]
  BY RequestsTyped
<1>2. q.patch \in Patch /\ q.source \in BrandSources
  BY <1>1 DEF RequestType
<1>3. \A f \in Fields : fields[f] = Promised!After(fields[f], q.patch[f], q.source)
  <2> SUFFICES ASSUME NEW f \in Fields
               PROVE  fields[f] = Promised!After(fields[f], q.patch[f], q.source)
    OBVIOUS
  <2>1. ApplyPatch(fields, q.patch, q.source)[f] = fields[f]
    BY DEF ApplyPatch
  <2> QED
    BY <1>1, <1>2, <2>1, ChangedIsCarriedOut
<1>4. request' = [request EXCEPT ![r] = request'[r]] /\ request'[r].pc = "ok"
  BY EndsType
<1>5. \A x \in BrandRequests : x # r => request'[x] = request[x]
  BY <1>1, <1>4
<1>6. /\ Asks' = [Asks EXCEPT ![r] = Promised!Idle("over")] /\ Asks[r] = AskOf(q)
  BY <1>4, <1>5, RequestIsOver
<1>7. AskOf(q) = [pc |-> "asked", patch |-> q.patch, source |-> q.source]
  BY DEF AskOf
<1> HIDE DEF q
<1>8. fields' = [f \in Fields |-> Promised!After(fields[f], q.patch[f], q.source)]
  BY <1>1, <1>3
<1>9. Asks[r].pc = "asked" /\ Asks[r].patch = q.patch /\ Asks[r].source = q.source
  BY <1>6, <1>7
<1> QED
  BY <1>6, <1>8, <1>9 DEF Promised!Apply, Promised!CarriedOut

-----------------------------------------------------------------------------
PromisedStep == [Promised!PatchesNext]_Promised!patchVars

LEMMA PromisedMoves ==
  ASSUME \/ \E r \in BrandRequests :
              \/ Promised!Ask(r) \/ Promised!Apply(r) \/ Promised!ApplyUnlogged(r)
              \/ Promised!ApplyFirst(r) \/ Promised!Refuse(r)
              \/ Promised!Aside(r) \/ Promised!Forget(r)
         \/ UNCHANGED <<fields, Asks>>
  PROVE  PromisedStep
  BY DEF PromisedStep, Promised!PatchesNext, Promised!patchVars

(* A request sends a patch of its own.                                     *)
LEMMA AskIsPromised ==
  ASSUME BrandInv, NEW r \in BrandRequests, NEW section, NEW patch \in Patch,
         NEW source \in BrandSources, NEW from,
         AskUpdate(r, section, patch, source, from), fields' = fields
  PROVE  PromisedStep
<1>1. request \in [BrandRequests -> RequestType]
  BY RequestsTyped
<1>2. request'[r] = [NewRequest EXCEPT !.pc = "read", !.section = section,
                       !.patch = patch, !.source = source, !.from = from]
        /\ request[r].pc = "new" /\ \A x \in BrandRequests : x # r => request'[x] = request[x]
  BY <1>1 DEF AskUpdate
<1>3. request'[r].pc = "read" /\ request'[r].patch = patch /\ request'[r].source = source
  BY <1>2 DEF NewRequest
<1>4. Promised!Ask(r)
  BY <1>2, <1>3, RequestAsks
<1> QED
  BY <1>4, PromisedMoves

LEMMA QuietIsPromised ==
  ASSUME BrandInv, NEW r \in BrandRequests, QuietStep(r)
  PROVE  PromisedStep
<1>1. request \in [BrandRequests -> RequestType]
  BY RequestsTyped
<1>2. fields' = fields
  BY DEF QuietStep, AskElsewhere, ActionRefuses, ReadRow, WriteLost, CountMemories,
         SubmitSection, AnswerSection, LoseAnswer, brandDb
<1>3. ASSUME NEW f \in Fields, NEW v \in Values \cup {""},
             NEW s \in {"onboarding", "analysis"}, AskElsewhere(r, f, v, s)
      PROVE  PromisedStep
  <2> DEFINE patch == [KeepAll EXCEPT ![f] = v]
  <2>1. patch \in Patch
    BY DEF KeepAll, Patch
  <2>2. AskUpdate(r, SectionOf[f], patch, s, "none")
    BY <1>3 DEF AskElsewhere
  <2> HIDE DEF patch
  <2>3. s \in BrandSources
    BY DEF BrandSources
  <2> QED
    BY <1>2, <2>1, <2>2, <2>3, AskIsPromised
<1>4. ASSUME NEW d \in Dialogs, SubmitSection(d, r) PROVE PromisedStep
  <2>1. PICK draft \in DialogDrafts(d) :
          AskUpdate(r, dialog[d].section, SectionPatch(d, draft), "user", d)
    BY <1>4 DEF SubmitSection
  <2>2. SectionPatch(d, draft) \in Patch
    BY DEF DialogDrafts, SectionPatch, Patch
  <2>3. "user" \in BrandSources
    BY DEF BrandSources
  <2> QED
    BY <1>2, <2>1, <2>2, <2>3, AskIsPromised
<1>5. ASSUME NEW pc \in {"ok", "refused"}, Ends(r, pc)
      PROVE  request'[r].pc = pc /\ \A x \in BrandRequests : x # r => request'[x] = request[x]
  <2>1. request' = [request EXCEPT ![r] = request'[r]] /\ request'[r].pc = pc
    BY <1>5, EndsType
  <2> QED
    BY <1>1, <2>1
<1>6. CASE ActionRefuses(r)
  <2>1. Promised!Refuse(r)
    BY <1>2, <1>5, <1>6, QuietMoves DEF ActionRefuses
  <2> QED
    BY <2>1, PromisedMoves
<1>7. CASE ReadRow(r)
  <2>1. CASE version # 0 /\ Changed(fields, request[r].patch, request[r].source) = {}
    <3>1. Promised!Apply(r)
      BY <1>2, <1>7, <2>1, EmptyReadIsPromised DEF ReadRow
    <3> QED
      BY <3>1, PromisedMoves
  <2>2. CASE ~(version # 0 /\ Changed(fields, request[r].patch, request[r].source) = {})
    <3>1. request' = [request EXCEPT ![r].seen = version, ![r].read = fields,
                                     ![r].pc = "write"]
      BY <1>7, <2>2 DEF ReadRow
    <3>2. request'[r] = [request[r] EXCEPT !.seen = version, !.read = fields, !.pc = "write"]
            /\ \A x \in BrandRequests : x # r => request'[x] = request[x]
      BY <1>1, <3>1
    <3>3. request[r] \in RequestType /\ request[r].pc = "read"
      BY <1>1, <1>7 DEF ReadRow
    <3>4. request'[r].pc = "write" /\ request'[r].patch = request[r].patch
            /\ request'[r].source = request[r].source
      BY <3>2, <3>3 DEF RequestType
    <3>5. UNCHANGED <<fields, Asks>>
      BY <1>2, <3>2, <3>3, <3>4, QuietMoves
    <3> QED
      BY <3>5, PromisedMoves
  <2> QED
    BY <2>1, <2>2
<1>8. CASE WriteLost(r)
  <2>1. ReadsAgain(r) /\ request[r].pc = "write"
    BY <1>8 DEF WriteLost
  <2>2. \A x \in BrandRequests : x # r => request'[x] = request[x]
    BY <1>1, <2>1, ReadsAgainKeeps
  <2>3. Promised!Refuse(r) \/ UNCHANGED <<fields, Asks>>
    BY <1>2, <2>1, <2>2, ReadsAgainKeeps, QuietMoves
  <2> QED
    BY <2>3, PromisedMoves
<1>9. CASE CountMemories(r)
  <2>1. request[r].pc = "new" /\ request'[r].pc \in {"refused", "create"}
          /\ \A x \in BrandRequests : x # r => request'[x] = request[x]
    BY <1>1, <1>9 DEF CountMemories, RequestType
  <2>2. Promised!Aside(r)
    BY <1>2, <2>1, QuietMoves
  <2> QED
    BY <2>2, PromisedMoves
<1>10. CASE AnswerSection(r) \/ LoseAnswer(r)
  <2>1. request' = [request EXCEPT ![r] = [NewRequest EXCEPT !.pc = "done"]]
          /\ request[r].pc \in {"ok", "refused"}
    BY <1>10 DEF AnswerSection, LoseAnswer
  <2>2. request'[r].pc = "done" /\ \A x \in BrandRequests : x # r => request'[x] = request[x]
    BY <1>1, <2>1 DEF NewRequest
  <2>3. Promised!Forget(r) \/ UNCHANGED <<fields, Asks>>
    BY <1>2, <2>1, <2>2, QuietMoves
  <2> QED
    BY <2>3, PromisedMoves
<1> QED
  BY <1>3, <1>4, <1>6, <1>7, <1>8, <1>9, <1>10 DEF QuietStep

(* A memory's request was never asking for a field, nor does it now.       *)
LEMMA MemoryIsPromised ==
  ASSUME BrandInv, NEW r \in BrandRequests, MemoryStep(r)
  PROVE  PromisedStep
<1>1. /\ fields' = fields
      /\ request'[r].pc \in {"bump", "bumpCreate", "ok", "done"}
      /\ \A x \in BrandRequests : x # r => request'[x] = request[x]
  BY MemoryStepShape
<1>2. request[r].pc \in {"new", "create", "bump", "bumpCreate"}
  BY DEF MemoryStep, CreateMemory, DeleteMemory, Bump, BumpCreate, StopBeforeBump, Raising
<1>3. Promised!Aside(r) \/ UNCHANGED <<fields, Asks>>
  BY <1>1, <1>2, QuietMoves
<1> QED
  BY <1>3, PromisedMoves

LEMMA VisitIsPromised ==
  ASSUME BrandInv, NEW d \in Dialogs, VisitPage(d)
  PROVE  PromisedStep
<1>1. request \in [BrandRequests -> RequestType] /\ fields' = fields
  BY RequestsTyped DEF VisitPage, brandDb
<1>2. \A r \in BrandRequests : AskOf(request'[r]) = AskOf(request[r])
  <2> SUFFICES ASSUME NEW r \in BrandRequests
               PROVE  AskOf(request'[r]) = AskOf(request[r])
    OBVIOUS
  <2>1. request[r] \in RequestType
    BY <1>1
  <2>2. \/ request'[r] = request[r]
        \/ request'[r] = [request[r] EXCEPT !.from = "none"]
    BY DEF VisitPage
  <2>3. request'[r].pc = request[r].pc /\ request'[r].patch = request[r].patch
          /\ request'[r].source = request[r].source
    BY <2>1, <2>2 DEF RequestType
  <2> QED
    BY <2>3 DEF AskOf
<1>3. UNCHANGED <<fields, Asks>>
  BY <1>1, <1>2, SameAsksStutter
<1> QED
  BY <1>3, PromisedMoves

LEMMA StepIsPromised == BrandInv /\ [BrandNext]_brandVars => PromisedStep
<1> SUFFICES ASSUME BrandInv, [BrandNext]_brandVars PROVE PromisedStep
  OBVIOUS
<1>1. ASSUME NEW r \in BrandRequests, WriteRow(r) PROVE PromisedStep
  BY <1>1, WriteIsPromised, PromisedMoves
<1>2. CASE BrandNext
  BY <1>1, <1>2, BrandStepCases, QuietIsPromised, MemoryIsPromised, VisitIsPromised
<1>3. CASE UNCHANGED brandVars
  <2>1. fields' = fields /\ request' = request
    BY <1>3 DEF brandVars, brandDb
  <2>2. UNCHANGED <<fields, Asks>>
    BY <2>1, SameAsksStutter
  <2> QED
    BY <2>2, PromisedMoves
<1> QED
  BY <1>2, <1>3

(* Reads, conditional writes and retries come to one atomic step: a patch  *)
(* is carried out whole on the fields as they are, or refused, and not     *)
(* twice unless it was the first of all and its audit entry failed.        *)
THEOREM PatchesAreAtomic == BrandSpec => ImplementsPatches
<1>1. BrandInv /\ [BrandNext]_brandVars => [Promised!PatchesNext]_Promised!patchVars
  BY StepIsPromised DEF PromisedStep
<1> QED
  BY <1>1, BrandCorrect, InitIsPromised, PTL
     DEF BrandSpec, ImplementsPatches, Promised!PatchesSpec
=============================================================================
