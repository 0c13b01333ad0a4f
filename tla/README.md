# DPOST: formal models of publishing, editing and the parts around them

DPOST plans, writes and publishes Facebook posts for small businesses: a Next.js
application and a worker over PostgreSQL (Prisma), Redis and BullMQ. This directory
holds TLA+ modules for the parts whose correctness depends on the order in which
things happen, the TLC configurations that check them, and TLAPS proofs of the
results that matter most.

Check everything from this directory with

    tlc -workers 2 -config PublishingFailures.cfg MCPublishing.tla    # and Publishing*, Twice*, Retr*, Reta*
    tlc -workers 2 -config EditorialRequests.cfg MCEditorial.tla      # and EditLost
    tlc -workers 2 -config Parts.cfg MCParts.tla
    tlc -workers 2 -config CalendarMissesHours.cfg MCCalendar.tla
    for m in Publishing Queue Editorial Brand Services Channels Screens Parts; do tlapm ${m}Proofs.tla; done

## 1. Inventory

| Component | State it keeps | Operations | What makes it correct |
| --- | --- | --- | --- |
| **Publishing** (`services/scheduling.ts`, `services/publishing.ts`, `queue/publish-queue.ts`, worker `processors/publish.ts`) | `publications` (status, `jobVersion`, `attemptCount`, `scheduledAt`, `updatedAt`), `publish_attempts`, the BullMQ job table | schedule, reschedule, cancel, publish now, retry; run a job; the five-minute sweep | a post goes out once; only while its row still says so; nothing scheduled is forgotten; the table tells the truth about the Page |
| **Editorial** (`services/posts.ts`, `content/status.ts`, `services/post-ai.ts`) | `content_posts`, `post_revisions` | create, edit, approve, bulk approve, delete, restore, duplicate, restore a revision, regenerate; list by pages | approval is of a particular text; an edit never loses a text; the status machine; a list is complete |
| **Channels** (`services/channels.ts`, `services/meta-webhooks.ts`, maintenance timers) | `social_accounts`, `social_channels`, tokens, one-time OAuth states in Redis | connect, choose Pages, disconnect, daily health check, deauthorize and deletion callbacks | permissions handed back only with the last Page; the owner is told once; nothing is left after a deletion |
| **Media** (`services/media.ts`, storage) | `media_assets`, `post_media`, files | upload, attach, delete, list | an image a scheduled post needs is there |
| **Draft writing** (`ai/pipelines/*.ts`, `ai/quality.ts`) | none between requests | ask the model, check, ask again | what is passed without a warning is free of what the gate looks for |
| **AI quota** (`ai/usage.ts`, `services/usage.ts`) | `usage_counters`, `ai_usage_events` | check, call the model, meter, count | the allowance is a limit |
| **Brand profile** (`services/brand.ts`, `brand/sections.ts`) | `brand_profiles` with a version, `brand_memories` | patch a section, add or delete a memory | no patch is lost; people win over the analysis; one version is one card |
| **Calendar** (`content/calendar.ts`) | the view and the day in the address | ranges, local midnights, next and previous | every day shown is fetched, no other |
| **Rate limits** (`lib/rate-limit.ts`) | a sorted set per bucket and caller | one Lua script per request | at most `limit` requests in any window |
| **Workspace, tenancy** (`services/workspace.ts`, `packages/db/src/tenant.ts`) | memberships | bootstrap; rewrite or refuse a query | one first workspace; a query leaves its workspace by a relation at most |
| **Web pages** (`components/app/...`: content list, post sheet, schedule panel, composer, media library, brand dialogs) | their copy of what the server said, and requests under way | clicks, answers, reloads | what is on the screen is what the server has, or what was asked for |
| Roles, post rules, prompts, crypto, storage, email, auth, notifications, audit, configuration | none of their own, or append-only | | see section 7 |

How they interact. A page sends requests and applies answers as they come; it is
re-rendered, closed and opened meanwhile. A request of the web process calls a service;
services talk to PostgreSQL one statement at a time (few use a transaction) and to Redis
through BullMQ. The worker process takes jobs, reads rows that requests keep changing,
calls Facebook and writes the rows back. Timers in the worker run the sweep (five
minutes) and the token check (daily); Facebook calls back on its own. Nothing is locked
across an `await`, so each `await` is a point where every other process may run; that,
crashes, and lost or late answers are the hard behaviours of this system.

## 2. Modules

| Module | Models |
| --- | --- |
| `PublishQueue` | the BullMQ job table: ids, tries, stalls, retention |
| `Publishing` | every operation of the publishing core, one action per `await`, with failures |
| `Delivery` | what the core promises, without workers, queue or sweep |
| `Editorial` | posts, revisions and approvals, each request as its load and its write |
| `Channels` | the connections to Pages: consent, choice, check, disconnection, Facebook's callbacks |
| `PostImages` | uploads, the images of a post and deletions, beside scheduling and runs |
| `BrandBrain` | the brand profile, its memories and the dialogs it is edited in |
| `BrandPatches` | what the brand profile promises, without versions, reads and retries |
| `AiAllowance` | what AI requests check, spend and record |
| `DraftGate` | writing drafts through the quality gate |
| `RateLimit` | the sliding window, with servers' clocks and late scripts |
| `Workspace` | the first workspace of a user, under its lock |
| `Tenancy` | the rewriting and refusing of queries, and the rows they then reach, by filter, data and relations |
| `Calendar` | ranges, local midnights, steps between periods |
| `Paging` | a list read page by page: the table's order, the cursor, one row more than a page; the order a filter of an array keeps |
| `ContentList` | the content page: filter, pages, bulk actions, undo, with `listPosts` |
| `PostSheet` | the sheet of one post: its copies of text and status |
| `SchedulePanel` | the buttons and the list of publications in that sheet |
| `Composer` | writing a post: the model's answers, images, saving in two requests |
| `MediaLibrary` | the library's grid, uploads and image sheet, with `listMedia` |
| `MCPublishing`, `MCEditorial`, `MCCalendar` | symmetry and definitions for TLC |
| `MCParts` | the modules from `Channels` to `MediaLibrary` in one run |
| `PublishingProofs`, `QueueProofs`, `EditorialProofs`, `BrandProofs`, `ServicesProofs`, `ChannelsProofs`, `ScreensProofs`, `PartsProofs` | proofs, section 5 |

### Publishing

The state is the publications table (`pub`), `content_posts.plannedFor` (`planned`),
channel status (`chan`), the attempt rows (`log`), the job table (`jobs`), what each
worker slot, web request and sweep has read and where it stands (`run`, `req`,
`recon`), how many times Facebook has published the post (`onPage`), and two history
variables: `doubt` and the failure counter.

*Requests.* `RequestReads` is the read and the checks, `RequestWrites` the
create/update, `RequestQueues` the removal of the old job and `add()`, `RequestPlans`
the update of `plannedFor`. All four operations share this shape; `Accepts`,
`Written`, `DropOldJob` and `AfterQueue` hold what differs between them. A request
acts on what it read: the write is by id.

*A run.* `Start` is the hand-out of the job and the first read; `Claim`/`ClaimLost`
the conditional UPDATE; `Begin` the attempt row and the check of the channel read at
the start; `CallSucceeds`, `CallRefused`, `CallAnswerLost` the call; `NoteOk`,
`NotePublished`, `Announce` what follows it inside the `try` block; `LateError` what
an error there leads to; `NoteFail`, `NoteStatus`, `Settle` the steps of `fail()` and
the processor's decision to throw; `RunThrows` an error nothing catches. `RATE_LIMITED`
is treated as `TRANSIENT` is and shares its name. `CallSucceeds` may follow a
disconnect: the token was decrypted before.

*The queue.* `add()` does nothing while a job with the id exists, finished ones
included; `remove()` leaves an active job; a throw means another try while tries are
left; a job whose lock ran out is redelivered, at most `MaxStalls` times. BullMQ is
external: it is modelled from how the code uses it, taking for granted that it accepts
the custom job id `publicationId:jobVersion`.

*The sweep.* `SweepReads`, `SweepEnqueues` for each overdue row, `SweepReleases` for
the stuck ones (one UPDATE), `SweepAborts` when it dies between them.

*Failures* are named in `Faults` and counted up to `MaxFaults`: a crash of a worker,
of the web process or of the sweep; an error of the database; Redis refusing a call;
Redis losing every job; an answer of Facebook that never arrives; a live worker's lock
running out; a run that takes over ten minutes; a dead token; a disconnected Page.
Facebook refusing a call, for each failure class, is not counted: it may happen
at every call.

*Doubts.* Three things break the promise "a post goes out once" in the code as it is,
and the history variable `doubt` records them per publication:

| Doubt | What happened |
| --- | --- |
| `user` | a request wrote over a row a worker holds, over a published row, or (retry) over one that is no longer failed |
| `unstuck` | the sweep released a claim whose run was alive, or whose post was already out |
| `late` | a run failed after its call had got through |

The safety properties are about publications none of these has hit, and then hold
under every interleaving and every other failure. The doubts are as narrow as the
code allows: each is set by the very step that does the harm, never by the failure
that made it possible.

### Editorial

The state is `content_posts` (`post`: status, text, whether `approvedAt` and
`approvedById` are set, `deletedAt`), `post_revisions`, and what each request has
loaded (`req`). A text stands for body, hashtags and call to action together. Title,
language, planned date and the audit log are left out: no step depends on them.

`EditLoads` and `Save` are the two halves of `updatePost`, which hand edits,
`restoreRevision` and `regeneratePost` share: the snapshot and the next status come
from what was loaded, the write is by id. `RewriteAsks`, `RewriteAnswers` and
`RewriteFails` are the model call of `regeneratePost`, before `updatePost` loads the
post anew. `ApproveLoads`/`ApproveWrites` stand for one approval and for a bulk one,
which filters statuses itself; `DeleteLoads`/`DeleteWrites` for a single deletion;
`SetDeleted` for the bulk deletion and the restorations, conditional updates both. A
request that is refused, or dies between load and write, is one that takes no further
step. Creating a copy reads its original first, but the copy is the same whenever that
was, so `Duplicate` is one step.

The history variables are `had`, every text a post has ever had, and `crossed`, the
posts on which a save came between the load and the save of another edit. Nothing
archives a post: no service sets that status, which the proofs show rather than
assume (`NoneArchived`).

`Editorial` and `Publishing` share no state. Scheduling looks at the post once, when it is
asked, and `Publishing` takes it as approved; a publication's run reads the text when it
starts, and an edit, a withdrawn approval or a deletion by then does not stop it.

### Channels

`account` and `channel` are the rows, `consent` the states waiting in Redis, `fbCall`
what each request has found and where it stands. `grant` counts how often the person's
permission ended, at Facebook or by `RevokePermissions`: a token is good while it carries
the current number. Rows are told apart by the request that created them, so a late write
to a row that was deleted and made again finds nothing, as in the code. The requests are
`StartConnection` … `UpsertAccount` (the consent flow), `ListPages`/`ConnectPage` (one row
after another), `Disconnect`/`DeleteChannel`/`CountRemaining`/`ReadAccountToken`/`RevokePermissions`/
`DropAccount` (the token is read in one step and used in the next, whatever the account has
become), `ReadToken`/`AskFacebook`/`LookAtStatus`/`MarkChannel`/`NotifyLoss` (the
health check, and a run that Facebook refuses), `WebhookFinds` … `WebhookDropsAccounts`
(deauthorize goes by the account, deletion by the rows it looked up). Any of them may stop
(`Stops`). Histories: `news` counts losses and messages of a row, and notes two markers
that `crossed` and a process that stopped before its message (`silent`); `late` holds the
Pages connected while their account was being let go, which the code cannot keep.

### PostImages

`asset` is a row of `media_assets` and whether its file is there, `attached` is
`post_media`, `publication` and `sending` the status of the post's publication and the runs
that have claimed it, `job` what each request is doing. Uploads, `setPostMedia` and
`deleteMedia` are one action per query or file operation, each of which may fail or be the
last. The image sets are unordered. `raced` holds the images a post took, was scheduled or
was sent with while they were being deleted (`Doomed`), and those whose upload was marked
failed after they had been ready (the audit entry is inside the same `try`).

### BrandBrain

`version` and `fields` are the profile row, `memories` the memories, `request` what each
request has read. `ReadRow`/`WriteRow`/`WriteLost` are one round of `updateBrandSection`:
the write is conditional on the version read, and is tried `Tries` times. `CountMemories`,
`CreateMemory`, `DeleteMemory`, `Bump`, `BumpCreate` are the memory services, whose version
comes in a later statement. `Yields` is the rule between people and the analysis.
`SubmitSection`, `AnswerSection`, `LoseAnswer`, `VisitPage` are the section dialog, which
sends every field of its section. `latest`, `named` and `unraised` are histories: the last
value written for a field, the last card that could be read with its version, and that a
process stopped between a memory and its version.

A statement may fail. Before the write the request is refused (`ActionRefuses`); `AuditFails`
is the audit entry that is written after the row: the caller is told of an error although its
patch stands. For the write that creates the row the entry is inside the `try` whose `catch`
takes any failure for a lost race (`brand.ts:157`), so the patch is carried out again, on
whatever was changed meanwhile.

`BrandPatches` is the specification of the fields alone: a request asks for a patch, which is
carried out in one piece (`Apply`) or refused. `Asks` maps a request to what it still asks
for, and `ImplementsPatches` says that `BrandBrain` does nothing else. `ApplyUnlogged` and
`ApplyFirst` are there because of the audit entry.

### AiAllowance and DraftGate

`AiBegins` is `assertCanUse`; `ModelCall`, `CallAgain`, `MeterCalls` are `withUsage` around
one or two calls; `StoreImage` the image; `Charge` the count, in the month it is by then;
`SaveRewritten` what `regeneratePost` does with a text that is already paid for. A request
may fail or stop before each. `shared` holds the metrics two requests spent from side by
side, or one that ran into another month. `DraftGate` is the loop inside: `ModelAnswers`,
`CheckDrafts`. What the regular expressions say of one text is the set `Faulty`, what the
trigrams say of two the relation `Alike`, which never relates a text to its own copy, as
the code leaves copies out.

### RateLimit, Workspace, Tenancy, Calendar

`RateLimit`: a call carries the clock of its server (`ReadClock`) and the script runs up to
`MaxDelay` later (`SlidingWindow`); `Tick` drops the key when it expires; without Redis a
bucket is open or closed. `Workspace`: the fast path, the lock, the second look, the
creation, and a transaction that fails anywhere. `Tenancy`: a query is an operation with
the workspaces its parts name and with at most one relation: the row's workspace connected
(`data.workspace.connect`), a row of another model made along with it (`nested`), or a row
that is there linked, changed or included (`linked`). `ScopeArgs` and `AssertTenantScoped`
are the two guards, which look at `workspaceId` and at no relation; `Effects` and
`WithNested` are what the database then does. A refused query is no step. The guards
document nested writes as their limit (`tenant.ts:13-17`) and leave them to the services;
`TenantsStayApart` therefore promises that what is found to read, change or delete is the
client's own, and that what is written is its own but for what a relation speaks of. Raw SQL
and models that carry no workspace are outside the guards and outside the model. `Calendar`: `StartOfLocalDay` is the code's
two corrections, `From`/`To` what the page asks the database for, `Days`/`InCell` what it
shows. The months are a strip of first days and the zone changes its clocks once, by an hour,
which is the unit of time; how many hours a day has, days a week and months is left open.

### The pages

Each keeps the page's own state, what it awaits (`call`, `sent`, `fetch`, `asking`, `ask`)
and the little of the server it talks to. A click sends a request; the server runs it at
some time; its answer, an error or nothing arrives at another. A closure keeps the values
of its render. What the page does nothing about is noted in a history and excepted by name
in the property: `astray` (a body read after a newer load began, an old closure, a refusal,
a lost connection, another member), `sheetAstray`, `overtaken` (two loads crossed, or one
failed), `libAstray` (loads that cross or fail, an old closure, a lost connection, and
`unheard`: a change that ran and was answered with an error, `ChangeUnheard`). These histories are reset only where the code makes the matter good:
by a load from the top. What is excepted is not shown: each entry of
"hazards" in `PROJECT.json` says which part of it a property covers and which it excepts.

In `PostSheet` a text is stored as `AsSaved` makes it, which stands for the trimming and the
hashtag rule of `updatePost`; the sheet takes only the status of that answer and goes on
showing what was typed. `PreviewIsThePost` says the same words, not the same text
(`SameWords`): the post's own, or words the server made the post's from.

`ContentList` and `MediaLibrary` read their lists through `Paging`, as both services word one
query: `Sorted` is the one sequence of the matching rows in the table's order, `RowsFrom` what
follows the cursor's row, wherever that is by now, and `PageOf` the page cut from it with one
row more to know whether there is another.

## 3. Runs

The runs of `Publishing` use `MCPublishing`. One post on one Page is enough for the properties: no
step but the sweep and a disconnect touches two publications, and both treat each
row on its own. Deadlock checking is off: the version bound stops requests, and when
everything is settled nothing is left to do. `MaxVersion` bounds how often one
publication is asked for, `MaxFaults` how much goes wrong in one behaviour.

| Run | Instance | What it asks |
| --- | --- | --- |
| `PublishingRequests` | two requests, one worker, two versions, no failures | do the two counts of tries (`attemptCount < 3`, BullMQ's `attempts: 3`) agree; does a scheduled row always have a job coming; what may reopen a settled row |
| `PublishingFailures` | two workers, one version, three tries, any two of crash, error, lost answer, lost lock, slow run | the claim, the row, the Page and the attempt log agree; every step is a step of `Delivery` |
| `PublishingReschedules` | two workers, two versions, one failure of four kinds | runs against reschedules, cancels and disconnects: once, for the version claimed, not early |
| `PublishingLiveness` | two workers, one failure of every kind, fairness | everything asked for settles |
| `EditorialRequests` | two posts, two texts, two requests | edits, rewrites, approvals and deletions against each other: texts recoverable, approvals on record and of the text, statuses on the diagram |
| `Parts` | fourteen modules, bounds below | each part on its own: do the pages show what the server has, is each step of the brand profile one of `BrandPatches`, do patches, images, drafts, allowance, connections, calendar, limit, first workspace and tenancy keep what the code says of them |
| `CalendarMissesHours` | clocks that change at any hour, four zones each side of UTC | expected violation, section 6 |
| `TwicePublishNow`, `TwiceLateError`, `RetryWithoutTries`, `RetainedJobBlocks`, `EditLost` | expected violations | see section 6 |

`MaxTries` and `MaxAttempts` are equal in every run, as they are in the code (both
three); most runs use two, which is the smallest number with a retry.

`EditorialRequests` needs no bound: its state space is finite. Two requests are the
least that cross, two posts the least a bulk approval covers; deadlock is checked, as a
request can always begin.

### The run `Parts`

The modules from `Channels` to `MediaLibrary` share no state that one of them needs of
another: what a part leaves to another (the rows behind a page, the status of a Page) is an
input there. `MCParts` therefore chooses one part in its first state (`part`), lets that
part move in all its interleavings and leaves the others as they are; `PartsView` tells
states apart by that part's variables. It is the union of fourteen state spaces, about a
million states, not their product, and each property is about one of them. Every action of
every part is taken.

Deadlock checking is off, as requests and clicks are bounded and a behaviour ends when they
are used up. The bounds, and what they are enough for:

| Part | Bounds | Enough for |
| --- | --- | --- |
| content list | two posts, one to a page, two awaited calls, two clicks, one change by another member | two loads that cross, a second page, a bulk action with its undo |
| post sheet | three texts, one of them stored as another; three clicks | a save while typing, closing and opening between a request and its answer, a text the server rewrites |
| schedule panel | two Pages, two requests at once, three clicks, two steps of a run | an action while the list is loaded, a run that ends after a cancellation |
| composer | two texts, two images, cap of one, four steps | an image picked and one made, which together pass the cap; a save while something is typed |
| media library | two images, one to a page, two requests, three clicks | uploading while the filter changes, alt text and deletion at once, either with its answer lost |
| brand | two fields of one section, one value and the empty one, two requests, two tries, one dialog, cap of one memory | a lost race with its second try; a dialog beside a memory |
| images | one post, two assets, two requests | a deletion beside each other operation and beside runs |
| drafts | three texts, one faulty, two alike, two attempts, up to three drafts | alike texts over two answers |
| allowance | two requests, three posts, two months | a request at the edge of the allowance; two at once; the turn of the month |
| channels | one workspace with two Pages, three requests, one removal at Facebook | each pair of requests beside a third; a Page made again under a late write or a late revocation |
| calendar | days of eight hours, weeks of three days, months of 4, 5, 3, 4 days, zones from three hours behind to three ahead | weeks over month ends, a shorter month after a longer, a change at any hour around a midnight |
| rate limit | three calls, limit two, window four, one server a tick ahead, delay one | the third call in every order of clocks and arrivals |
| workspace | two users, four calls | two calls at the lock and one after a failure |
| tenancy | two workspaces, two rows | every query of every shape and relation against every ownership; a row and one made or linked along with it |

## 4. Fairness

`Fairness` gives weak fairness to each worker's next step, to the hand-out of a job,
to the timers (a delay ends, a lock expires, a row ages, the scheduled time comes) and
to the sweep: worker processes are restarted by the platform, and the sweep runs every
five minutes for as long as one is up. It asks nothing of users, and nothing of
failures. `CallSucceeds` and `CallRefused` have no fairness of their own, only the run
as a whole does: Facebook answers or the client gives up after 20 seconds.

`BusyFairSpec` adds that finished jobs are removed in the end. BullMQ removes them
only when another job of the queue finishes, so this is an assumption about a queue
that stays busy; with `FairSpec` alone `EveryPostSettles` fails (`RetainedJobBlocks`).

The other modules state no fairness: their properties are safety properties, and a request
that never goes on stands for one whose process stopped.

## 5. Proofs

`PublishingProofs` proves, for any number of posts, channels, workers, requests,
versions, tries and failures (from the named assumptions of `PublishQueue` and
`Publishing` only):

- `TypeCorrect`: `Spec => []TypeOK`;
- `ClaimCorrect`: the inductive invariant `ClaimInv`;
- `PostsOnce`, `OneWinner`, `ClaimNotStale`, `TableTellsTruth`, `RunsKnowThePage`: the
  properties the runs check, each as a consequence of `ClaimInv`.
  (`TableTellsTruth` also has `PublishedIsOnPage`, which no run lists: it follows from
  `ImplementsDelivery`, which one does, by `DeliveryPromises`.)

`OnceUnlessDisturbed` is not inductive. What makes it so: a run holds a claim on an
undisturbed publication only while the row says `publishing` with the version of its
job (or is gone with its channel); it is the only one; before its call the post is not
on the Page, after it exactly once; a row that is waiting, failed or cancelled has
nothing on the Page and no run holding it. A request that would break this sets `user`
in the same step, the sweep `unstuck`, an error after the call `late`; that is why the
three doubts are enough, which is what the proof shows.

Its second half builds on `ClaimInv` and proves `DeliveryKept` (`Spec` implements
`Delivery` under the mapping `StatusOf`, `OutOf`, `DisturbedPubs`) and
`SettledIsFinal`. The argument is by action: each step of `Next` moves each
publication by an arrow of `Delivery`, or disturbs it. `DeliveryPromises` says what that
promise is worth: whatever behaves like `Delivery` sends nothing undisturbed twice, calls
published only what is out and keeps waiting only what is not.

`QueueProofs` goes on to the job table and the attempt log, in four inductive invariants:

- `NothingStartsEarly` (`NeverEarly`): `NothingAhead` says that no job, run, request or sweep
  is ahead of its row's version, and `NothingEarly` that of a row that is not due and that
  nobody has overtaken there is at most a delayed job. Without the first, a job left from a
  later version could become the current one.
- `EveryPostIsLogged` (`AttemptOnRecord`): `LogInv` counts the runs that have an attempt row
  open (`InFlight`) together with the posts on the Page, so that a run which finishes a row
  takes none from a post. Counting needs finitely many workers (`WorkersAssumption`).
- `RetriesAreTried` (`RetryHasTryLeft`): `TriesInv` says that the row never counts fewer tries
  than the job has made. Its hypotheses are `"error" \notin Faults` (an error outside the
  `try` block, before the row has counted, uses up a try of the job only) and
  `MaxAttempts <= MaxTries` (both are three in the code).
- `ScheduledIsServed` (`ScheduledHasJob`): `JobsInv` pairs every active job with a run and
  every `publishing` row with the run that holds it; what a run that is about to end leaves is
  what it has written. It assumes `Calm`, that no process dies, Redis and the database answer
  and no live lock runs out, and `MaxAttempts <= MaxTries`. What follows a crash is the
  sweep's, and liveness.

The instance of `PublishingRequests` meets these hypotheses, and none can be spared: with
any one of the faults they exclude (a lost lock strikes when stalls have run out), or with
fewer tries in the queue than for the row, TLC finds one of the two properties violated.

`EditorialProofs` proves the inductive invariant `EditorialInv` and from it `TypesHold`,
`EditsAreUndoable`, `ApprovalOnRecord`, `ApprovalIsOfTheText` and
`StatusesFollowTheDiagram`, for any posts, texts and requests. What has to be added to
the properties is what a request may hold: a post that exists, and a loaded status that
is not archived; an edit then always ends in `draft` or `pending_review`
(`AfterEditType`), whatever the row has become meanwhile. The argument is by kind of
write: a new row, a save, or a mark that keeps the text (`MarkingKeeps`).

`BrandProofs` proves `NoPatchIsLost`, `PeopleWin`, `OneCardPerVersion` and the refinement
`PatchesAreAtomic` (`ImplementsPatches`) for any requests,
dialogs, sections, fields, values, memories and tries. `BrandInv` adds three things to the
types: a request that is about to write and whose version is still the row's has read the
row as it is (`ReadIsCurrent`; this is where the conditional write is needed, and it is why
the patch may be computed from what was read), and the last card with a name is the present
one while the version is the same, unless a memory waits for its bump or lost it
(`NameIsCurrent`), and without a row there are no values (`NoRowIsEmpty`). The refinement goes
by request: `QuietMoves` sorts the steps that change no field by what the request was and is
then; for a write, `ReadIsCurrent` makes the patch of what was read the patch of what is
there (`ChangedIsCarriedOut`), and the fields of other sections are left alone because the
patch says nothing of them.

`ServicesProofs` has the services that share nothing, one part of the module for each:

- *Tenancy.* `QueriesStayInTheWorkspace`, for any workspaces, rows, queries and relations: a
  scoped query names the client's workspace in its filter and in the fields it writes, or is
  refused; then what it matches is of that workspace, and so is what it writes, but for the
  workspaces its relation speaks of. The theorem does not say that a relation stays inside:
  the code does not see to that.
- *Workspace.* `FirstWorkspaceIsOne`: whoever is past the lock holds it, and whoever is about
  to create has seen that there is nothing, which nobody else can have changed since.
- *Allowance.* `AllowanceIsKept`: for any requests, allowance and months no month's counter
  passes the allowance, for the metrics nothing `shared`. `AllowanceInv` adds that at most one
  request spends from such a metric and what it may still charge fits (`Fits`), and that what
  it charges was asked for (`AsksForAll`).
- *Images.* `ImagesAreThere` (`ImagesCanBeFetched`): whoever attaches an image found it ready
  (`AttachedWasReady`), a ready image has its file until it is deleted (`ReadyHasFile`), files
  go after the row (`JobHolds`), and no image of a publication that blocks deletions is being
  deleted unless the two raced (`BlockingIsSafe`): the count of publications, and not the
  detaching, is what keeps the images.
- *Rate limit.* `RateIsLimited` (`LimitHolds`), for any calls, servers, skews, delays, limit and
  window: as long as it counts, an allowed call has an entry that no script has trimmed
  (`EntriesKept`) and the key has not expired (`CallsInTime`), so the calls of any stretch were
  all in the set when the last of them was counted. The skews must have a largest
  (`RateAssumption`).
- *Drafts.* `PassedDraftsDiffer` (`UnwarnedDraftsDiffer`), for any answers of the model, any
  number of attempts and of drafts: the invariant says of the drafts kept so far what the
  property says of those delivered, and `NewcomersFit` that a newcomer's comparison is enough
  for both sides, as similarity is symmetric (`GateAssumption`). The final cut to `count`
  keeps it.
- *Calendar.* `ShownDaysAreFetched` (`DaysShownAreFetched`), for any length of day, week and
  month, any offsets and any hour of the change: `MidnightParts` shows that, but at an
  `UnsureMidnight`, the instant computed for a local midnight parts the instants of the days
  before it from the rest. `CalendarConstants` asks that clocks change by one unit and once;
  the strip must have a month at either end to lend days.

`ChannelsProofs` proves `DeletionLeavesNothing` (`DeletionIsComplete`), `LossesAreTold`
(`EachLossIsTold`), `DisconnectIsLocal` (`DisconnectTakesOnlyItsOwn`) and the types, for any
workspaces, Pages, requests and removals. `ChannelsInv` says of ids that those of rows and
those that requests hold belong to requests that have begun (`RowsOK`, `CallsOK`): an id is
never used twice, so an account that a deletion found does not come back (`RemovedIsGone`).
`LetGoIsBare` says that the Pages on an account about to be dropped came after the count
(`Bare`; once the token is read this is so of every Page of the workspace, also of one
connected through an account made anew), and
`LossesCounted` counts messages under way with those sent, and that whoever is about to mark a
row that is marked already has crossed another.

`ScreensProofs` has a part for each page:

- *Schedule panel.* `PanelIsFresh`: while loads do not overlap there is one at most, and it
  brings, or has brought, all that was told.
- *Composer.* `SavedMeansSaved`: from the click on the request holds what was on the screen.
- *Content list, filter.* `ListIsForFilter`: the load with the current id is on its way or has
  passed the check, is the only one that will still be applied, and asked with the filter on
  the screen.
- *Post sheet.* `PreviewIsTrue`, for any rule `AsSaved` of what a save makes of a text: one
  request at a time, the list's copy is the post's or being loaded again, and the text shown
  is the post's or one that was saved as the post's, being edited, or in an answer under way.
- *Pages of a list.* `TableIsLine`, `SortedIsRow`, `TailIsRow` and `PageShows` say what
  `Paging` returns for any table and set: the matching rows in order, then what follows the
  cursor. `PagesJoin` and `NextShows` say that a page from the cursor on, appended to what a
  list shows, is again what the list should show, and `ShownOnce` that a list so made has
  each row once.
- *Library.* `GridIsTrue` (`GridIsForSource`): while nothing has gone astray one load at most is
  under way (`OneLoadAtATime`), and the page it brings fits the grid it will be put in
  (`PageFits`), also after uploads and deletions, which are followed by a load from the top when their answer
  is heard; one that ran unheard is astray.
- *Content list, pages.* `ListHoldsAll` (`ListIsComplete`): the same for the load with the
  current id (`NextFits`), on top of the filter's invariant.

The lists are finite and no row is called `"none"` (`ListAssumption`, `LibAssumption`). The
invariants were checked by TLC on three posts and three images before they were proved.

`PartsProofs` proves `PartsTypesHold` (`PartsTypeOK`) for the fourteen parts of `MCParts`. A
behaviour there is one of the part that moves (`OnePartMoves`, `PartsStartAsTheirOwn`), so it is
enough that each part keeps its types by itself. For that the answers under way have to be
described as well, as they become the state of a screen: a page that arrives holds rows there
are, whatever the table was (`PagesAreOfRows`); a model's answer is some texts and what is left
of an allowance (`AskingShape`); a save holds a text that can be posted; the next ask of the
model is for as many drafts as were blocked, at least one and no more than the schema lets
through (`AskedAgain`). These shapes are in the invariants `...Shapes` of `ServicesProofs` and
`ScreensProofs`, next to the part they are about.

What the proofs do not reach. Liveness (`EveryPostSettles`) rests on fairness and stays with
TLC; every other property of a run that passes is stated by a theorem. That `SetToSeqs`,
`Cardinality` and the library's sequence operators return what the lemmas say of them is
proved from the library's theorems, not assumed. The pure functions (`checkDraft`'s
expressions, the text rules) are constants or predicates of the models, so nothing is proved
about them.

## 6. Where the code and its words differ

Checked, as runs that end in a violation:

- `publishNow` does not refuse a publication that is being published
  (`scheduling.ts:229`, unlike `schedulePost`): the post goes out twice
  (`TwicePublishNow`).
- An error after Facebook's answer is handled as a failed call
  (`publishing.ts:225`): the retry posts again (`TwiceLateError`).
- `attemptCount` is never reset, so "tries a failed publication again, from the
  beginning" gets one try without a retry (`RetryWithoutTries`).
- The sweep queues under the id of a job that may still be retained, and `add()` then
  does nothing (`RetainedJobBlocks`).

- Two edits that load one post before either saves: the text of the first is gone, in
  no revision (`posts.ts:169`), although "every edit keeps the previous version". An
  edit of the title alone does it too, as it writes the loaded body back (`EditLost`).

- `zonedTimeToUtc` corrects its guess twice, "because a correction can itself cross a
  daylight-saving boundary" (`calendar.ts:41`). Behind UTC, where clocks skip midnight, the
  second correction undoes the first; at or ahead of UTC, where they repeat it, the later
  midnight is taken. The posts of that hour are fetched on the wrong side of the boundary
  (`CalendarMissesHours`). `DaysShownAreFetched`, in the run `Parts`, says that this is the
  only case (`UnsureMidnight`).

Seen while modelling, without a run of their own:

- the sweep does not look at the Page before it releases a stuck row (`publishing.ts:280`;
  docs/09:45 asks for that; `AtMostOnce` fails with `Faults = {"crash", "expiry"}`); a
  running job is not stopped by its version (`publish-queue.ts:83`); the writes after the
  call reopen a publication cancelled meanwhile; with Redis down a scheduling request fails
  after it changed the row (docs/09:43 promises a rollback);
- `withUsage` records only calls that succeeded (`usage.ts:161`), "whatever happens" says
  `usage.ts:150`; the check and the count of the allowance are separate, so requests at once
  overrun it, and one that runs into the next month is charged to it;
- the cut to the number of drafts asked for (`post-writer.ts:150`) discards some, which
  `quality.ts:13` rules out; a text is never compared with its own copy (`quality.ts:218`),
  so a word-for-word duplicate raises no warning;
- the calendar asks for `MAX_PAGE_SIZE` posts and no further page (`posts.ts:343`), "a month
  fits" says `posts.ts:331`;
- an upload whose process dies stays `processing`, in no list (`media.ts:87`);
- disconnecting the last Page of an account revokes the person's permissions for the whole
  app (`channels.ts:476`), those of Pages in another workspace too; a Page connected between
  the count and the deletion goes with the account;
- approving names no text (`posts.ts:358`): what is approved is what the post has by then;
- `setPostMedia` deletes the old list and creates the new one without a transaction
  (`media.ts:315`): a stop in between leaves the post without images;
- memories are counted before one is created (`brand.ts:213`), so two requests may pass the
  cap by one; a stop before the version is raised (`brand.ts:231`) leaves the cached card;
- cancelling one of a post's two Pages clears `plannedFor` for both (`scheduling.ts:189`);
- in the content list a body is applied without another look at its request's id
  (`content-list.tsx:75`), and a bulk action reloads with the filter of its click (`:114`);
  the schedule panel does not order its loads (`schedule-panel.tsx:61`); a section dialog
  whose action rejects stays saving (`section-dialog.tsx:75`);
- the section dialog sends every field of its section (`section-dialog.tsx:72`) and so puts
  back what someone else changed while it was open;
- after a save the sheet's preview keeps the text as it was typed (`post-sheet.tsx:119`),
  while `updatePost` trims it and normalises the hashtags (`posts.ts:175`): the tag `#sale`
  is stored as `sale` and shown as `##sale` until the sheet is opened again;
- a deletion that ran and is answered with an error (a later query or the audit entry of
  `media.ts:267-276` fails, or the answer is lost) leaves the image in the grid
  (`media-library.tsx:122`, `lib/api/client.ts:30`);
- disconnecting reads the account's token and revokes with it afterwards (`channels.ts:475`,
  `:476`): Pages the person connects again in between, through an account made anew, lose
  their permission at once;
- a client bound to a workspace refuses "queries that name a different workspace"
  (`tenant.ts:11`), but an update with `data.workspace.connect` names one and is let through
  (`tenant.ts:174-180`); no service words a query so.

## 7. Not modelled, and the plan

What is left, by weight:

1. Composition of `Editorial`, `Delivery` and `PostImages`: what goes out is the text and
   the images of one moment. The code reads both when a run starts and promises no more, so
   a property needs a document that says which text is meant.
2. `Channels` with two workspaces of one person in the run; the proofs have any number.
3. `completeOnboarding` and its flag in `BrandBrain`; the roles of `permissions.ts` as a
   guard of each service; the table of `GraphErrors` from codes to classes.

Not planned: the text rules (`validate.ts`, `quality.ts`'s expressions), prompts and the
brand card (wording; the modules have what is decided with them), crypto, storage drivers,
email, the auth library's configuration, forms of a single request, settings, the landing
page and components that only render. Read-only listings other than `listPosts` and
`listMedia` are left out, and so are titles, languages, file sizes, prices and links.
