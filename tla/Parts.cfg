CONSTANTS
  ListPosts = {lp1, lp2}
  ListSlots = {s1, s2}
  PageSize = 1
  MaxChanges = 1
  MaxClicks = 2
  SheetTexts = {x1, x2, x3}
  AsSaved <- Tidied
  MaxSheetClicks = 3
  Pages = {pg1, pg2}
  PanelSlots = {t1, t2}
  MaxPanelClicks = 3
  MaxRuns = 2
  Words = {wd1, wd2}
  Rejected = {wd2}
  Images = {im1, im2}
  MaxImages = 1
  PostLimit = 2
  ImageLimit = 1
  MaxComposerSteps = 4
  LibImages = {i1, i2}
  AiImages = {i1}
  LibSlots = {u1, u2}
  LibPage = 1
  MaxLibClicks = 3
  Fields = {f1, f2}
  SectionOf <- OneSection
  Values = {"words"}
  Tries = 2
  Memories = {m1, m2}
  MaxMemories = 1
  BrandRequests = {b1, b2}
  Dialogs = {dg}
  ImgPosts = {ip1}
  Assets = {as1, as2}
  ImgRequests = {ir1, ir2}
  Drafts = {d1, d2, d3}
  Faulty = {d3}
  Alike <- AlikePair
  MaxDrafts = 3
  MaxAttempts = 2
  AiRequests = {a1, a2}
  AiLimit = 3
  MaxCount = 3
  Periods = 2
  Workspaces = {w1}
  Spots = {p1, p2}
  WorkspaceOf <- Homes
  ChannelRequests = {c1, c2, c3}
  Seed = seed
  MaxRemovals = 1
  DayHours = 8
  WeekLength = 3
  MonthStarts <- Starts
  ListLength = 4
  Zones <- Zoned
  Instants <- Strip
  Calls = {k1, k2, k3}
  Servers = {v1, v2}
  Skew <- Clocks
  MaxDelay = 1
  Limit = 2
  Window = 4
  LastTick = 7
  Users = {us1, us2}
  Visits = {vi1, vi2, vi3, vi4}
  Tenants = {tn1, tn2}
  Rows = {rw1, rw2}
  Absent = absent
  Filter = filter
  d1 = d1
  d2 = d2
  d3 = d3
  v1 = v1
  v2 = v2
  w1 = w1
  x1 = x1
  x2 = x2
  x3 = x3
SPECIFICATION PartsSpec
VIEW PartsView
INVARIANTS
  PartsTypeOK
  ListShownForFilter
  ListIsComplete
  PreviewIsThePost
  PanelShowsWhatItTold
  GridIsForSource
  LatestEditStands
  ImagesCanBeFetched
  UnwarnedDraftsDiffer
  AllowanceHolds
  EachLossIsTold
  DeletionIsComplete
  DaysShownAreFetched
  LimitHolds
  OneFirstWorkspace
  TenantsStayApart
PROPERTIES
  SavedIsWhatWasClicked
  UserWinsOverMachine
  VersionNamesTheCard
  ImplementsPatches
  DisconnectTakesOnlyItsOwn
CHECK_DEADLOCK FALSE
