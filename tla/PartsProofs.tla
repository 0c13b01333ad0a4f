---------------------------- MODULE PartsProofs ----------------------------
(***************************************************************************)
(* The parts side by side.  A behaviour of MCParts is one of the part that *)
(* moves, so what a part's own specification promises holds of it there.   *)
(* The types are all there is to say of the parts together.                *)
(***************************************************************************)
EXTENDS MCParts, BrandProofs, ServicesProofs, ChannelsProofs, ScreensProofs

(* The types of the parts whose invariant of old names them.               *)
LEMMA BrandTypesHold == BrandSpec => []BrandTypeOK
  BY BrandCorrect, PTL DEF BrandInv

LEMMA AllowanceTypesHold == AllowanceSpec => []AllowanceTypeOK
<1>1. AllowanceInv => AllowanceTypeOK
  BY DEF AllowanceInv
<1> QED
  BY <1>1, AllowanceInitInv, AllowanceStep, PTL DEF AllowanceSpec

LEMMA WorkspaceTypesHold == WorkspaceSpec => []WorkspaceTypeOK
<1>1. WorkspaceInv => WorkspaceTypeOK
  <2>1. ASSUME WorkspaceInv, NEW v \in Visits
        PROVE  visit[v].pc \in {"idle", "lock", "again", "create", "answered", "failed"}
    <3>1. visit[v] \in VisitType
      BY <2>1 DEF WorkspaceInv
    <3> QED
      BY <3>1 DEF VisitType
  <2> QED
    BY <2>1 DEF WorkspaceInv, WorkspaceTypeOK
<1> QED
  BY <1>1, WorkspaceInitInv, WorkspaceStep, PTL DEF WorkspaceSpec

LEMMA TenancyTypesHold == TenancySpec => []TenancyTypeOK
  BY TenancyTypeInit, TenancyStep, PTL DEF TenancySpec
-----------------------------------------------------------------------------
(* The part that moves is the same all along, and the others stay.         *)
LEMMA OnePartMoves ==
  [PartsNext]_<<part, PartsVars>> =>
    /\ part' = part
    /\ part = "list" => [ListNext]_listVars
    /\ part = "sheet" => [SheetNext]_sheetVars
    /\ part = "panel" => [PanelNext]_panelVars
    /\ part = "composer" => [ComposerNext]_composerVars
    /\ part = "library" => [LibNext]_libVars
    /\ part = "brand" => [BrandNext]_brandVars
    /\ part = "images" => [ImagesNext]_imageVars
    /\ part = "gate" => [GateNext]_gateVars
    /\ part = "allowance" => [AllowanceNext]_allowanceVars
    /\ part = "channels" => [ChannelsNext]_channelVars
    /\ part = "calendar" => [CalendarNext]_calendarVars
    /\ part = "rate" => [RateNext]_rateVars
    /\ part = "workspace" => [WorkspaceNext]_workspaceVars
    /\ part = "tenancy" => [TenancyNext]_tenancyVars
<1> SUFFICES ASSUME [PartsNext]_<<part, PartsVars>>
             PROVE  /\ part' = part
                    /\ part = "list" => [ListNext]_listVars
                    /\ part = "sheet" => [SheetNext]_sheetVars
                    /\ part = "panel" => [PanelNext]_panelVars
                    /\ part = "composer" => [ComposerNext]_composerVars
                    /\ part = "library" => [LibNext]_libVars
                    /\ part = "brand" => [BrandNext]_brandVars
                    /\ part = "images" => [ImagesNext]_imageVars
                    /\ part = "gate" => [GateNext]_gateVars
                    /\ part = "allowance" => [AllowanceNext]_allowanceVars
                    /\ part = "channels" => [ChannelsNext]_channelVars
                    /\ part = "calendar" => [CalendarNext]_calendarVars
                    /\ part = "rate" => [RateNext]_rateVars
                    /\ part = "workspace" => [WorkspaceNext]_workspaceVars
                    /\ part = "tenancy" => [TenancyNext]_tenancyVars
  OBVIOUS
<1>1. CASE PartsNext
  BY <1>1, Zenon DEF PartsNext
<1>2. CASE UNCHANGED <<part, PartsVars>>
  BY <1>2, Zenon DEF PartsVars
<1> QED
  BY <1>1, <1>2

(* Its first state is one of its own.                                      *)
LEMMA PartsStartAsTheirOwn ==
  PartsInit =>
    /\ part = "list" => ListInit
    /\ part = "sheet" => SheetInit
    /\ part = "panel" => PanelInit
    /\ part = "composer" => ComposerInit
    /\ part = "library" => LibInit
    /\ part = "brand" => BrandInit
    /\ part = "images" => ImagesInit
    /\ part = "gate" => GateInit
    /\ part = "allowance" => AllowanceInit
    /\ part = "channels" => ChannelsInit
    /\ part = "calendar" => CalendarInit
    /\ part = "rate" => RateInit
    /\ part = "workspace" => WorkspaceInit
    /\ part = "tenancy" => TenancyInit
BY Zenon DEF PartsInit

(* So its types hold whenever it is the one.                               *)
LEMMA ListPart == PartsSpec => [](part = "list" => ListTypeOK)
<1>1. PartsInit => (part = "list" => ListInit)
  BY PartsStartAsTheirOwn
<1>2. [PartsNext]_<<part, PartsVars>> => ((part = "list")' <=> part = "list")
  BY OnePartMoves
<1>3. [PartsNext]_<<part, PartsVars>> => (part = "list" => [ListNext]_listVars)
  BY OnePartMoves
<1> QED
  BY <1>1, <1>2, <1>3, ListTypesHold, PTL DEF PartsSpec, ListSpec

LEMMA SheetPart == PartsSpec => [](part = "sheet" => SheetTypeOK)
<1>1. PartsInit => (part = "sheet" => SheetInit)
  BY PartsStartAsTheirOwn
<1>2. [PartsNext]_<<part, PartsVars>> => ((part = "sheet")' <=> part = "sheet")
  BY OnePartMoves
<1>3. [PartsNext]_<<part, PartsVars>> => (part = "sheet" => [SheetNext]_sheetVars)
  BY OnePartMoves
<1> QED
  BY <1>1, <1>2, <1>3, SheetTypesHold, PTL DEF PartsSpec, SheetSpec

LEMMA PanelPart == PartsSpec => [](part = "panel" => PanelTypeOK)
<1>1. PartsInit => (part = "panel" => PanelInit)
  BY PartsStartAsTheirOwn
<1>2. [PartsNext]_<<part, PartsVars>> => ((part = "panel")' <=> part = "panel")
  BY OnePartMoves
<1>3. [PartsNext]_<<part, PartsVars>> => (part = "panel" => [PanelNext]_panelVars)
  BY OnePartMoves
<1> QED
  BY <1>1, <1>2, <1>3, PanelTypesHold, PTL DEF PartsSpec, PanelSpec

LEMMA ComposerPart == PartsSpec => [](part = "composer" => ComposerTypeOK)
<1>1. PartsInit => (part = "composer" => ComposerInit)
  BY PartsStartAsTheirOwn
<1>2. [PartsNext]_<<part, PartsVars>> => ((part = "composer")' <=> part = "composer")
  BY OnePartMoves
<1>3. [PartsNext]_<<part, PartsVars>> => (part = "composer" => [ComposerNext]_composerVars)
  BY OnePartMoves
<1> QED
  BY <1>1, <1>2, <1>3, ComposerTypesHold, PTL DEF PartsSpec, ComposerSpec

LEMMA LibPart == PartsSpec => [](part = "library" => LibTypeOK)
<1>1. PartsInit => (part = "library" => LibInit)
  BY PartsStartAsTheirOwn
<1>2. [PartsNext]_<<part, PartsVars>> => ((part = "library")' <=> part = "library")
  BY OnePartMoves
<1>3. [PartsNext]_<<part, PartsVars>> => (part = "library" => [LibNext]_libVars)
  BY OnePartMoves
<1> QED
  BY <1>1, <1>2, <1>3, LibTypesHold, PTL DEF PartsSpec, LibSpec

LEMMA BrandPart == PartsSpec => [](part = "brand" => BrandTypeOK)
<1>1. PartsInit => (part = "brand" => BrandInit)
  BY PartsStartAsTheirOwn
<1>2. [PartsNext]_<<part, PartsVars>> => ((part = "brand")' <=> part = "brand")
  BY OnePartMoves
<1>3. [PartsNext]_<<part, PartsVars>> => (part = "brand" => [BrandNext]_brandVars)
  BY OnePartMoves
<1> QED
  BY <1>1, <1>2, <1>3, BrandTypesHold, PTL DEF PartsSpec, BrandSpec

LEMMA ImagesPart == PartsSpec => [](part = "images" => ImagesTypeOK)
<1>1. PartsInit => (part = "images" => ImagesInit)
  BY PartsStartAsTheirOwn
<1>2. [PartsNext]_<<part, PartsVars>> => ((part = "images")' <=> part = "images")
  BY OnePartMoves
<1>3. [PartsNext]_<<part, PartsVars>> => (part = "images" => [ImagesNext]_imageVars)
  BY OnePartMoves
<1> QED
  BY <1>1, <1>2, <1>3, ImageTypesHold, PTL DEF PartsSpec, ImagesSpec

LEMMA GatePart == PartsSpec => [](part = "gate" => GateTypeOK)
<1>1. PartsInit => (part = "gate" => GateInit)
  BY PartsStartAsTheirOwn
<1>2. [PartsNext]_<<part, PartsVars>> => ((part = "gate")' <=> part = "gate")
  BY OnePartMoves
<1>3. [PartsNext]_<<part, PartsVars>> => (part = "gate" => [GateNext]_gateVars)
  BY OnePartMoves
<1> QED
  BY <1>1, <1>2, <1>3, GateTypesHold, PTL DEF PartsSpec, GateSpec

LEMMA AllowancePart == PartsSpec => [](part = "allowance" => AllowanceTypeOK)
<1>1. PartsInit => (part = "allowance" => AllowanceInit)
  BY PartsStartAsTheirOwn
<1>2. [PartsNext]_<<part, PartsVars>> => ((part = "allowance")' <=> part = "allowance")
  BY OnePartMoves
<1>3. [PartsNext]_<<part, PartsVars>> => (part = "allowance" => [AllowanceNext]_allowanceVars)
  BY OnePartMoves
<1> QED
  BY <1>1, <1>2, <1>3, AllowanceTypesHold, PTL DEF PartsSpec, AllowanceSpec

LEMMA ChannelsPart == PartsSpec => [](part = "channels" => ChannelsTypeOK)
<1>1. PartsInit => (part = "channels" => ChannelsInit)
  BY PartsStartAsTheirOwn
<1>2. [PartsNext]_<<part, PartsVars>> => ((part = "channels")' <=> part = "channels")
  BY OnePartMoves
<1>3. [PartsNext]_<<part, PartsVars>> => (part = "channels" => [ChannelsNext]_channelVars)
  BY OnePartMoves
<1> QED
  BY <1>1, <1>2, <1>3, ChannelTypesHold, PTL DEF PartsSpec, ChannelsSpec

LEMMA CalendarPart == PartsSpec => [](part = "calendar" => CalendarTypeOK)
<1>1. PartsInit => (part = "calendar" => CalendarInit)
  BY PartsStartAsTheirOwn
<1>2. [PartsNext]_<<part, PartsVars>> => ((part = "calendar")' <=> part = "calendar")
  BY OnePartMoves
<1>3. [PartsNext]_<<part, PartsVars>> => (part = "calendar" => [CalendarNext]_calendarVars)
  BY OnePartMoves
<1> QED
  BY <1>1, <1>2, <1>3, CalendarTypesHold, PTL DEF PartsSpec, CalendarSpec

LEMMA RatePart == PartsSpec => [](part = "rate" => RateTypeOK)
<1>1. PartsInit => (part = "rate" => RateInit)
  BY PartsStartAsTheirOwn
<1>2. [PartsNext]_<<part, PartsVars>> => ((part = "rate")' <=> part = "rate")
  BY OnePartMoves
<1>3. [PartsNext]_<<part, PartsVars>> => (part = "rate" => [RateNext]_rateVars)
  BY OnePartMoves
<1> QED
  BY <1>1, <1>2, <1>3, RateTypesHold, PTL DEF PartsSpec, RateSpec

LEMMA WorkspacePart == PartsSpec => [](part = "workspace" => WorkspaceTypeOK)
<1>1. PartsInit => (part = "workspace" => WorkspaceInit)
  BY PartsStartAsTheirOwn
<1>2. [PartsNext]_<<part, PartsVars>> => ((part = "workspace")' <=> part = "workspace")
  BY OnePartMoves
<1>3. [PartsNext]_<<part, PartsVars>> => (part = "workspace" => [WorkspaceNext]_workspaceVars)
  BY OnePartMoves
<1> QED
  BY <1>1, <1>2, <1>3, WorkspaceTypesHold, PTL DEF PartsSpec, WorkspaceSpec

LEMMA TenancyPart == PartsSpec => [](part = "tenancy" => TenancyTypeOK)
<1>1. PartsInit => (part = "tenancy" => TenancyInit)
  BY PartsStartAsTheirOwn
<1>2. [PartsNext]_<<part, PartsVars>> => ((part = "tenancy")' <=> part = "tenancy")
  BY OnePartMoves
<1>3. [PartsNext]_<<part, PartsVars>> => (part = "tenancy" => [TenancyNext]_tenancyVars)
  BY OnePartMoves
<1> QED
  BY <1>1, <1>2, <1>3, TenancyTypesHold, PTL DEF PartsSpec, TenancySpec

(* Whatever a part is asked to do, its variables keep their types: the     *)
(* records of its rows and requests have the fields their states promise,  *)
(* its counters stay in their bounds, and its lists hold rows there are.   *)
THEOREM PartsTypesHold == PartsSpec => []PartsTypeOK
<1> DEFINE Screens == /\ part = "list" => ListTypeOK
                      /\ part = "sheet" => SheetTypeOK
                      /\ part = "panel" => PanelTypeOK
                      /\ part = "composer" => ComposerTypeOK
                      /\ part = "library" => LibTypeOK
           Writing == /\ part = "brand" => BrandTypeOK
                      /\ part = "images" => ImagesTypeOK
                      /\ part = "gate" => GateTypeOK
                      /\ part = "allowance" => AllowanceTypeOK
           Around == /\ part = "channels" => ChannelsTypeOK
                     /\ part = "calendar" => CalendarTypeOK
                     /\ part = "rate" => RateTypeOK
                     /\ part = "workspace" => WorkspaceTypeOK
                     /\ part = "tenancy" => TenancyTypeOK
<1>1. PartsSpec => []Screens
  BY ListPart, SheetPart, PanelPart, ComposerPart, LibPart, PTL
<1>2. PartsSpec => []Writing
  BY BrandPart, ImagesPart, GatePart, AllowancePart, PTL
<1>3. PartsSpec => []Around
  BY ChannelsPart, CalendarPart, RatePart, WorkspacePart, TenancyPart, PTL
<1>4. Screens /\ Writing /\ Around => PartsTypeOK
  BY DEF PartsTypeOK
<1> HIDE DEF Screens, Writing, Around
<1> QED
  BY <1>1, <1>2, <1>3, <1>4, PTL
=============================================================================
