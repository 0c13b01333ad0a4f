------------------------------ MODULE MCParts ------------------------------
(***************************************************************************)
(* The parts beside publishing and the editorial life of posts, for TLC.   *)
(* They share no state that any of them needs of another: what one leaves  *)
(* to another is an input there.  So a behaviour is one of a single part,  *)
(* while the others stay as they are, and one run checks them all.         *)
(***************************************************************************)
EXTENDS ContentList, PostSheet, SchedulePanel, Composer, MediaLibrary,
        BrandBrain, PostImages, DraftGate, AiAllowance, Channels,
        MCCalendar, RateLimit, Workspace, Tenancy

CONSTANTS d1, d2, d3, v1, v2, w1, x1, x2, x3

VARIABLE part   \* the part that moves

Tidied == [x \in SheetTexts |-> IF x = x3 THEN x1 ELSE x]   \* x3: x1 with a '#'
OneSection == [f \in Fields |-> "voice"]
AlikePair == {<<d1, d2>>, <<d2, d1>>}
Homes == [s \in Spots |-> w1]
Clocks == [v \in Servers |-> IF v = v1 THEN 0 ELSE 1]

(* The names of the posts mean nothing: the list starts in one order.      *)
FirstOrder == SetToSeq(ListPosts)

-----------------------------------------------------------------------------
(* One initial state of each part, for while another one moves.            *)
ListIdle == ListInit /\ state = [p \in ListPosts |-> "draft"]
SheetIdle ==
  /\ SheetInit
  /\ row = [text |-> CHOOSE x \in PostTexts : TRUE,
            status |-> "draft", live |-> TRUE]
PanelIdle ==
  /\ PanelInit /\ ~approved
  /\ channelId = CHOOSE p \in Pages : TRUE
  /\ \A i \in 1..2 : channels[i].status = "active"
  /\ fetch[CHOOSE s \in PanelSlots : TRUE].pc = "load"
ComposerIdle == ComposerInit /\ usedPosts = 0 /\ usedImages = 0
LibIdle == LibInit /\ kept = {}
BrandIdle ==
  /\ BrandInit
  /\ \A d \in Dialogs : dialog[d].section = CHOOSE s \in Sections : TRUE
ImagesIdle == ImagesInit /\ \A m \in Assets : asset[m] = NoAsset
GateIdle == GateInit /\ count = 1 /\ recent = {}
ChannelsIdle == ChannelsInit /\ \A s \in Spots : channel[s] = NoRow
RateIdle == RateInit /\ ~closed

(* One of which DaysShownAreFetched says nothing: the other parts need not *)
(* look at every hour of the strip in each of their states.                *)
CalendarAside ==
  CHOOSE c \in Anchors \X Zones : UnsureMidnight(FirstDay("list", c[1]), c[2])
CalendarIdle == view = "list" /\ anchor = CalendarAside[1] /\ zone = CalendarAside[2]

TenancyIdle == TenancyInit /\ \A r \in Rows : owner[r] = Absent

Parts == {"list", "sheet", "panel", "composer", "library", "brand",
          "images", "gate", "allowance", "channels", "calendar", "rate",
          "workspace", "tenancy"}

PartsInit ==
  /\ part \in Parts
  /\ order = FirstOrder /\ (IF part = "list" THEN ListInit ELSE ListIdle)
  /\ IF part = "sheet" THEN SheetInit ELSE SheetIdle
  /\ IF part = "panel" THEN PanelInit ELSE PanelIdle
  /\ IF part = "composer" THEN ComposerInit ELSE ComposerIdle
  /\ IF part = "library" THEN LibInit ELSE LibIdle
  /\ IF part = "brand" THEN BrandInit ELSE BrandIdle
  /\ IF part = "images" THEN ImagesInit ELSE ImagesIdle
  /\ IF part = "gate" THEN GateInit ELSE GateIdle
  /\ AllowanceInit
  /\ IF part = "channels" THEN ChannelsInit ELSE ChannelsIdle
  /\ IF part = "calendar" THEN CalendarInit ELSE CalendarIdle
  /\ IF part = "rate" THEN RateInit ELSE RateIdle
  /\ WorkspaceInit
  /\ IF part = "tenancy" THEN TenancyInit ELSE TenancyIdle

PartsVars == <<listVars, sheetVars, panelVars, composerVars, libVars,
               brandVars, imageVars, gateVars, allowanceVars,
               channelVars, calendarVars, rateVars, workspaceVars, tenancyVars>>

PartsNext ==
  /\ UNCHANGED part
  /\ \/ /\ part = "list" /\ ListNext
        /\ UNCHANGED <<sheetVars, panelVars, composerVars, libVars,
                       brandVars, imageVars, gateVars, allowanceVars,
                       channelVars, calendarVars, rateVars, workspaceVars,
                       tenancyVars>>
     \/ /\ part = "sheet" /\ SheetNext
        /\ UNCHANGED <<listVars, panelVars, composerVars, libVars,
                       brandVars, imageVars, gateVars, allowanceVars,
                       channelVars, calendarVars, rateVars, workspaceVars,
                       tenancyVars>>
     \/ /\ part = "panel" /\ PanelNext
        /\ UNCHANGED <<listVars, sheetVars, composerVars, libVars,
                       brandVars, imageVars, gateVars, allowanceVars,
                       channelVars, calendarVars, rateVars, workspaceVars,
                       tenancyVars>>
     \/ /\ part = "composer" /\ ComposerNext
        /\ UNCHANGED <<listVars, sheetVars, panelVars, libVars, brandVars,
                       imageVars, gateVars, allowanceVars, channelVars,
                       calendarVars, rateVars, workspaceVars, tenancyVars>>
     \/ /\ part = "library" /\ LibNext
        /\ UNCHANGED <<listVars, sheetVars, panelVars, composerVars,
                       brandVars, imageVars, gateVars, allowanceVars,
                       channelVars, calendarVars, rateVars, workspaceVars,
                       tenancyVars>>
     \/ /\ part = "brand" /\ BrandNext
        /\ UNCHANGED <<listVars, sheetVars, panelVars, composerVars,
                       libVars, imageVars, gateVars, allowanceVars,
                       channelVars, calendarVars, rateVars, workspaceVars,
                       tenancyVars>>
     \/ /\ part = "images" /\ ImagesNext
        /\ UNCHANGED <<listVars, sheetVars, panelVars, composerVars,
                       libVars, brandVars, gateVars, allowanceVars,
                       channelVars, calendarVars, rateVars, workspaceVars,
                       tenancyVars>>
     \/ /\ part = "gate" /\ GateNext
        /\ UNCHANGED <<listVars, sheetVars, panelVars, composerVars,
                       libVars, brandVars, imageVars, allowanceVars,
                       channelVars, calendarVars, rateVars, workspaceVars,
                       tenancyVars>>
     \/ /\ part = "allowance" /\ AllowanceNext
        /\ UNCHANGED <<listVars, sheetVars, panelVars, composerVars,
                       libVars, brandVars, imageVars, gateVars, channelVars,
                       calendarVars, rateVars, workspaceVars, tenancyVars>>
     \/ /\ part = "channels" /\ ChannelsNext
        /\ UNCHANGED <<listVars, sheetVars, panelVars, composerVars,
                       libVars, brandVars, imageVars, gateVars,
                       allowanceVars, calendarVars, rateVars, workspaceVars,
                       tenancyVars>>
     \/ /\ part = "calendar" /\ CalendarNext
        /\ UNCHANGED <<listVars, sheetVars, panelVars, composerVars,
                       libVars, brandVars, imageVars, gateVars,
                       allowanceVars, channelVars, rateVars, workspaceVars,
                       tenancyVars>>
     \/ /\ part = "rate" /\ RateNext
        /\ UNCHANGED <<listVars, sheetVars, panelVars, composerVars,
                       libVars, brandVars, imageVars, gateVars,
                       allowanceVars, channelVars, calendarVars,
                       workspaceVars, tenancyVars>>
     \/ /\ part = "workspace" /\ WorkspaceNext
        /\ UNCHANGED <<listVars, sheetVars, panelVars, composerVars,
                       libVars, brandVars, imageVars, gateVars,
                       allowanceVars, channelVars, calendarVars, rateVars,
                       tenancyVars>>
     \/ /\ part = "tenancy" /\ TenancyNext
        /\ UNCHANGED <<listVars, sheetVars, panelVars, composerVars,
                       libVars, brandVars, imageVars, gateVars,
                       allowanceVars, channelVars, calendarVars, rateVars,
                       workspaceVars>>

PartsSpec == PartsInit /\ [][PartsNext]_<<part, PartsVars>>

(* What tells two states of a behaviour apart.                             *)
PartsView ==
  <<part,
    CASE part = "list" -> listVars
      [] part = "sheet" -> sheetVars
      [] part = "panel" -> panelVars
      [] part = "composer" -> composerVars
      [] part = "library" -> libVars
      [] part = "brand" -> brandVars
      [] part = "images" -> imageVars
      [] part = "gate" -> gateVars
      [] part = "allowance" -> allowanceVars
      [] part = "channels" -> channelVars
      [] part = "calendar" -> calendarVars
      [] part = "rate" -> rateVars
      [] part = "workspace" -> workspaceVars
      [] part = "tenancy" -> tenancyVars>>

-----------------------------------------------------------------------------
(* The variables of every part have their types.                           *)
PartsTypeOK ==
  /\ part = "list" => ListTypeOK
  /\ part = "sheet" => SheetTypeOK
  /\ part = "panel" => PanelTypeOK
  /\ part = "composer" => ComposerTypeOK
  /\ part = "library" => LibTypeOK
  /\ part = "brand" => BrandTypeOK
  /\ part = "images" => ImagesTypeOK
  /\ part = "gate" => GateTypeOK
  /\ part = "allowance" => AllowanceTypeOK
  /\ part = "channels" => ChannelsTypeOK
  /\ part = "calendar" => CalendarTypeOK
  /\ part = "rate" => RateTypeOK
  /\ part = "workspace" => WorkspaceTypeOK
  /\ part = "tenancy" => TenancyTypeOK
=============================================================================
