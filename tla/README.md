# Samsung-Helper in TLA+

TLA+ models of the mail hub in `src/`: a worker that syncs mailboxes into
Postgres, extracts facts from the mail with a language model, and writes and
delivers one brief a day to each person. The modules follow the code; each
definition that models code is tied to its lines in `PROJECT.json` (`map`).

## The system

| component | state it keeps | operations | what makes it correct |
| --- | --- | --- | --- |
| job queue, schedules (`packages/jobs`, `apps/worker/index.ts`, `poll-accounts`) | pg-boss jobs: created, retry, active | send, fetch, complete, fail, expire; six cron schedules | at most one attempt of a job counts; retries end |
| sync-account job (`apps/worker/jobs/sync-account.ts`, `context.ts`) | `sync_state` (cursor, failures), `events` | delta or full sync, upsert, record, requeue; error policy | the cursor never passes mail that has no row; mail is ingested eventually; no retry storm; failures surface |
| connectors (`packages/connectors`) | the locals of one call; the mailbox is the provider's | `deltaSync`, `fullSync` page by page, `subscribe`, `renew`, token refresh | a truncated run resumes; a full sync seeds its cursor before it lists; `hasMore = false` means that nothing is left; whatever is passed over is passed over for a reason |
| HTTP client (`packages/connectors/src/http.ts`) | none | `requestJson` with its retries | a request fails or is answered; the delay of a 429 reaches the job |
| webhook receivers (`apps/web/app/api/webhooks`) | none | a valid push queues a sync | pushes collapse into one job |
| push subscriptions (`renew-subscriptions`, `ensureSubscription`) | `sync_state.subscription_*`; the provider's subscription | create, renew, clear | none on record lapses unseen; a lost one is replaced |
| accounts, token-health, reconnects | `accounts.status`, `encrypted_tokens` | flag, refresh, reconnect | a newer grant is lost only where a job or the script held the row already; no account calls a provider for ever with a dead one |
| token vault and its key rotation (`packages/crypto`, `scripts/reencrypt-tokens.ts`, `docs/key-rotation.md`) | sealed rows, each process's keyring | seal, open, re-encrypt | no row ever becomes unreadable; nobody is flagged for it but who connects ahead of the worker's deploy |
| extraction (`extract-events`, `packages/extraction`) | `events.extracted` | batch, call, save, mark | what was extracted is kept; everything is attempted |
| brief generation (`generate-brief`, `packages/brief/src/generate.ts`) | `briefs` | window, read, save per audience | no message twice; a brief generated again drops nothing it could keep |
| brief delivery (`deliver-brief`, `deliver.ts`) | none, and that is the trouble | look up, send | bounded copies; a late brief blocks nobody |
| normalizers, prefilter (`packages/connectors`, `packages/brief/src/prefilter.ts`, `classifyBatch`) | `events`: identity, conversation, owner, verdict | normalize, classify, upsert | no answered conversation is filtered out, whatever the batches; nobody's mail in another's brief |
| days open and grouping (`days-open.ts`, `group.ts`) | none, they read `events` | the query, the sections of a brief | a wait starts with the first mail unanswered and is not reset; an open question stays until it is answered |
| web pages, sessions, configuration, prompts | rendering, cookies, files | | not modelled: no state that changes, or pure conversion |

Components meet in three places: the queue (anyone asks for a sync, pg-boss
decides whether one is due), the `accounts` and `sync_state` rows (syncs,
token-health, renewals, the callback and the re-encryption script all write
them, without transactions across an await), and `events` (syncs insert,
extraction updates, briefs read).

What is hard: handlers keep running after `expireInMinutes` and overlap the
retry; every await is a point where another writer gets in; rows are read first
and written much later; a run may be cut off at any statement; providers
truncate, expire cursors, revoke grants and drop subscriptions. `PROJECT.json`
lists the places under `hazards`.

## The modules

Every module is a component: its tables and queue slots as variables, one action
per await-free stretch of its code, the provider and the clock as actions with
no fairness unless stated. `MC*.tla` adds what TLC needs and nothing else.

* **SyncAccount**: one account. A message is its position in the mailbox, a
  cursor the position up to which the provider takes us to be caught up, stored
  credentials the number of the user's grant. The queue has the three slots of a
  stately queue (`created`, `retry`, `active`). Handlers are `Runs`; `owners`
  are those pg-boss still listens to, so that a handler that outlived its job is
  one outside `owners`. A connector call is one step (`Delta`, `List`) except
  where its order matters (`Seed` before `List`).
* **Catchup**: what syncing a mailbox promises, in five actions without handlers,
  queue or pages: mail comes, leaves, gets its row, is let go, and the cursor moves
  over settled messages only. SyncAccount and MailboxSync both implement it
  (`CatchesUp`); there the state is already the abstract one but for `lost`, which
  is `left` in SyncAccount, and `gone`, which is empty there.
* **MailboxSync**: what SyncAccount takes as one step, a connector call, request by
  request: Outlook's delta pages and listing, Gmail's history, listing and fetches,
  IMAP's search, count and fetch, then `upsertEvents` chunk by chunk and the cursor.
  Between two requests mail arrives and leaves, a cursor expires, the worker dies.
  The queue and the error policy are left out: a run is begun at any time. A
  listing shows the newest first, by offset or by position as the provider likes;
  what shifts may be shown twice, what leaves may let another slip by. The ways in
  which the code lets mail go are the actions that add to `lost`: what is beyond a
  full sync's bound or older than its window, a Gmail message answered by 403, one
  IMAP cannot parse, one that slipped by in an offset listing, one announced
  between IMAP's empty search and the count it then takes for its cursor.
* **Subscription**: the subscription of one account over time, in periods of the
  renewal schedule (6 hours): what `sync_state` records of it and what the provider
  keeps alive. A sync is only its two reads and writes of the subscription. Renewals
  are handlers (`Renewers`) that overlap once the job of one has expired, and read
  the account, call the provider and write in separate steps; any of them may fail,
  crash, throw or be skipped. `missed` counts the periods in a row that ended with
  the subscription still due, `dropped` what the provider ended before its time.
* **KeyRotation**: the operator's procedure, the keyrings of the two services,
  the script, and worker jobs that hold a row while everything else moves on.
* **Extraction**: the rows of `events` by their state, the extraction job.
* **GenerateBrief**: clock, windows, the job, the `briefs` table. A message is
  just `extracted` or not: how that comes about is Extraction's part.
* **DeliverBrief**: the delivery job; a brief is there from some moment of its
  day on, or never.
* **Inbox**: several mailboxes, each of one person and one connector, and the
  rows of `events` in full. Mails come with any date and in any number of
  inboxes; a sync (`Syncs`) is a batch of a mailbox's messages, its verdicts reached
  in one look at the table (`ClassifyBatch`) and saved chunk by chunk (`Save`), or not
  (`Abandon`). Two syncs of one mailbox overlap, as they do once `expireInMinutes` has
  passed; `overtaken` remembers those whose look at the table is older than another's
  save. The three normalizers differ in what they take for the identity and the
  conversation of a message, its owner and its signals. The query of `days-open.ts`
  and the list of open questions of `group.ts` (`WaitingOn`) are operators over the
  rows; a mail is what the rules see of it (`Signs`), an extraction whether it holds a
  blocking question.
* **Attempts**: what extraction promises of each row, without jobs, handlers or
  batches: it is pending until it is settled, once; only when a handler has outlived
  its job (`loose`, Extraction's `outlived`) may it be settled again, and it never
  goes back among the pending. Extraction implements it (`SettlesOnce`).
* **Credentials**: what the store of credentials promises its readers, without keys,
  services or a procedure. `stored` is the grant that whoever has the deployed keys
  gets out of the row (none if they do not open it), `flagged` the mailboxes to be
  authorized again, `raced` and `ahead` KeyRotation's `overtaken` and `straddled`.
  KeyRotation implements it (`RotationUnseen`): to the readers every step of the
  rotation that changes keys or reseals a row is a stutter.
* **SyncAccountProofs**, **MailboxSyncProofs**, **KeyRotationProofs**,
  **InboxProofs**, **GenerateBriefProofs**, **ExtractionProofs**,
  **DeliverBriefProofs**, **SubscriptionProofs**: theorems and proofs.

The queue occurs in four modules in the form each queue has. A failed attempt
(`Fail`) returns to the queue until its retries are used up; `Expire` is
enabled whenever a job is active, which is what a handler of unbounded duration
looks like; `Crash` ends every handler and leaves the active job behind.

## The runs

| run | question | bounds |
| --- | --- | --- |
| SyncLive | `EventuallyIngested` for Outlook and IMAP, `FailingSurfaces`, and `NoRetryStorm` with reconnects and revocations | 1 handler (with two, liveness is too much for TLC), 2 messages, bound 1, 1 retry, threshold 1, 2 grants: truncation and partial upserts occur. A second grant is given only while no mail has come (`OneThing`), which keeps two independent troubles from multiplying |
| SyncOverlap | `NoMailSkipped`, `OneOwner`, `CatchesUp` (SyncAccount implements Catchup) | 2 handlers of one account, so that one may have outlived its job; all three connectors, 2 messages, bound 1, no retry (the next request is another attempt), 1 grant. More handlers, messages and any bound are in the theorems |
| SyncGmail | `EventuallyIngested` for Gmail: **violated** | 1 handler, 2 messages, bound 1, no retry |
| Pages | `DoneMeansDone`, `CatchesUp` (MailboxSync implements Catchup), `EventuallySaved` | 1 run of each connector, 3 messages of which the first may be old and the second a copy of the first; pages, chunks, bounds of 2 messages or 2 pages: a bound met exactly, one exceeded, a listing of more pages than the run may read all occur |
| Copies | `CopiesSaved`: **violated** | IMAP, 2 messages |
| Briefs | `NoEventTwice`, `RerunKeeps` | 2 runs, 3 days of 2 ticks, 1 message at any tick; retries add nothing here, since the schedule's own job and an expired run overlap already |
| BriefGap | `GapPickedUp`: **violated** | 1 run, 3 days |
| Delivery | `BoundedCopies`, `MissingBlocksNobody` | 2 people, 2 days, 2 retries |
| Inbox | `NoStrangersMail`, `OwnerThreadsKept`, `WaitsAgree`, `WaitNotReset`, `QuestionsStay` | 2 overlapping syncs, 2 people with every pair of the connectors Outlook, IMAP and Gmail over IMAP (Gmail's own is Outlook's identity with the labels of the last), 2 mails of 3 kinds, 2 dates: before, after and at the date of an answer |
| Extraction | `ExtractionKept`, `SettlesOnce` (Extraction implements Attempts), `EventuallyAttempted` | 2 overlapping runs, 3 messages in batches of 2 |
| Subscription | `NeverLapses`, `EventuallySubscribed` | 2 overlapping renewals and a sync, two ids, a window of 3 periods that is a whole lifetime; renewals overlap while the accounts give no trouble, and one account gives trouble at a time (`OneThing`). The theorem has no such bounds; with the code's window, 24 hours in periods of 6, it allows two periods in a row |
| KeyRotation | `AlwaysReadable`, `NobodyFlagged`, `LastGrantKept`, `RotationUnseen` (KeyRotation implements Credentials), `RotationEnds` | 2 accounts, 2 keys, 2 grants each; two rotations in a row give the same answers |

The bounds of the code (250 messages, 5 retries, 30 days) are scaled down; each
property is about what happens below, at and beyond the bound, and all three
occur with a bound of one or two. Each property of a passing run has a mutant, a
plausible bug (`\* Bug to refute`) under which TLC finds it violated.

### What the violated runs show

* **Gmail does not resume.** A truncated delta keeps its cursor
  (`gmail/sync.ts:192`), and the follow-up lists the same messages again.
  Outlook stores the next link, IMAP the last UID, and both get on.
* **A missed day leaves a gap.** Only yesterday's brief anchors a window.
* **Two copies of a mail stop an IMAP mailbox.** Over IMAP an event is keyed by its
  Message-ID. With two mails of one Message-ID in a batch, the upsert names a row
  twice, Postgres refuses the statement (`events.ts:30`), nothing is recorded and
  the next run lists the same batch: it never gets on. The counterexample is a lasso
  whose cycle has no failure but that statement (`Refused`); a run that breaks off
  before it, at `seed`, is not needed for the result. `EventuallySaved` holds
  without copies.

Seen on the way and not the subject of a run: the connectors decide `isFromOwner` by
the one list `env.ownerEmails`, whosever mailbox it is, while
`docs/audiences.md:45-48` and the comment in `sync-account.ts:99-102` mean the
account's own addresses (Inbox follows the code, and the owner in its properties is
the one the code takes); a bounded backfill does not resume either (its follow-up is
a delta from a cursor newer than all it left behind, the history variable `left`),
and the retry of a delivery sends again to those already served (`BoundedCopies`
says how often). `hazards` has the rest.

### Where the properties stop

Some races the code loses. The properties that meet them leave them out through a
history variable, and show that there are no others:

| property | does not hold for | variable |
| --- | --- | --- |
| `NoEventTwice` | a brief saved again after the next day's run has looked it up | `overtaken` in GenerateBrief |
| `RerunKeeps` | runs without a brief of the day before, and a run saved over the brief of a later one | |
| `OwnerThreadsKept` | a mailbox whose sync classified before another sync of it saved; conversations that IMAP mailboxes share | `overtaken` in Inbox |
| `LastGrantKept` | a mailbox connected while token-health, a sync or the script held its row | `overtaken` in KeyRotation |
| `NobodyFlagged` | a mailbox connected by a web service that is deployed ahead of the worker | `straddled` |
| `ExtractionKept`, `SettlesOnce` | a handler that has outlived its job | `outlived` |
| `NeverLapses` | a subscription the provider has dropped, or that nobody could renew for almost a window | `dropped`, `missed` |

And one is a gap that no property covers: mail that occurs, or is extracted, between a
brief's read of its rows and its save is in neither that brief nor the next
(`generate.ts:128`).

## Fairness

`Scheduling` is weak fairness of what runs by itself: cron schedules, the worker's
fetching, a handler's next step, pg-boss's expiry. `Persistence` is strong fairness
of steps that are tried again and again: a worker that crashes for ever at the same
statement would never get anywhere, and the code does not claim it would. The
provider's good will is not part of it, with one exception: in Subscription every
sync asks the provider for a subscription, and `Persistence` says that it is granted
at some time (`SF_vars(\E s \in Syncs : Subscribe(s))`). Elsewhere a property that
needs the provider's answer, or its restraint, says so (`Answers`,
`[]<><<Drop>>_vars`, `[]<><<Interrupt>>_vars`). For TLC the constraint `OneThing` of
SyncLive and of Subscription restricts what goes wrong at the same time: they check
the behaviours of `FairSpec` that stay within it, under the same fairness. What it
cuts off is not fair, or is a renewal that begins beside another one while an
account gives trouble, and has its turn later. MailboxSync asks only that runs are
begun again and again and take their steps; `AllSaved` has as its premise that from
some point on nothing fails but what the code does to itself (`Fail => Refused`).
Time passes in Subscription (`SF_vars(Tick)`): syncs last minutes, so there are
moments without one.

## The proofs

TLAPS checks, for all values of the constants:

* `TypeCorrect`, `SingleOwner` and `CursorNeverAhead` in **SyncAccountProofs**.
  `NoMailSkipped` is not inductive: a run in flight may write a cursor later. The
  invariant (`IInv`) adds that every handler's *own* cursor is covered, that what
  it has listed covers its next cursor together with `events` and `left`, and
  that its rows are in before it records. Coverage only ever grows, which is
  what lets a run that was overtaken write its old result without harm.
* `Refines`, there too: SyncAccount implements Catchup. Beside the invariant above
  it needs `Within`, that no cursor and no batch, stored or in flight, names a
  message that has not arrived; then `Record` is `Move`, `Save` is `Ingest`, `List`
  is `GiveUp` and everything else is a stutter or the mailbox's own.
* `TypeCorrect`, `NoMoreMeansDone`, `Refines` and `CursorNeverAhead` in
  **MailboxSyncProofs**. What a run holds is sound (`Sound`) in six parts, one for
  each thing that may go wrong between two requests: nothing beyond the mailbox
  (`Within`), what a delta has read is held up to its position (`Reads`), what a
  listing has shown or has ahead is all of the window (`Lists`), what IMAP found is
  (`Finds`) or what it counted (`Counts`), and what a finished call holds covers its
  next cursor, and the mailbox at its start if there is no more (`Closes`). Arrivals
  are beyond what a run has begun with, and a departure settles the message or moves
  it to `lost`, so that overlapping runs do not disturb each other. The last comes
  from Catchup by the refinement: whatever takes only its steps is never ahead of
  itself (`NeverAhead`).
* `TypeCorrect`, `NothingTwice` and `NothingDropped` in **GenerateBriefProofs**. The
  invariant says of every brief that it ends on its own day and before it was saved,
  begins no earlier than the day before and, as long as the brief of that day stands
  (`Stands`), where that one was saved (`Told`); and the same of what a run in flight
  has read (`Looks`). A brief stands if it is not `overtaken`, which grows exactly when
  a brief that was looked up is replaced, or if it was saved before the run began:
  that is what makes the rest survive a `Save`. Briefs of two days in a row are then
  apart by the save between them, others by whole days (`DaysApart`). For
  `NothingDropped`, an action property, both windows begin at that save, and the
  later run's ends no earlier.
* `TypeCorrect`, `PaidForKept`, `Settles` and `SettledForGood` in
  **ExtractionProofs**. Until a handler outlives its job at most one runs (`Sole`),
  and what it is about to save or to mark as failed is pending still, the two being
  apart (`Holds`). `Settles` says that Extraction implements Attempts, and also needs
  that what a handler has read, outlived or not, has a row (`Seen`): a late write
  then settles again but inserts nothing. `SettledForGood` is Attempts' own
  consequence: a failure is as final as an extraction.
* `TypeCorrect`, `Readable`, `NoNeedlessReauth`, `LastGrant`, `Refines` and
  `ReadersServed` in **KeyRotationProofs**. The invariant (`Inv`) says which
  keys the deployment, the keyrings of the services and the rows may carry at each
  stage of the procedure (`Deploys`, `NoneBehind`, `ScriptWindow`: in short the
  primary key or, from its introduction to the count, the one before it), that
  the worker opens what is stored and what its jobs hold (`WorkerOpens`), and that
  whatever may still be written back holds the user's last grant (`Fresh`), the
  last two but for the accounts the history variables name. `Refines`: KeyRotation
  implements Credentials. A step that only moves keys is a stutter because rows are
  readable before it and after it; a row written back is one because it is fresh,
  unless the account is overtaken, and then it holds a grant already given (`Past`).
  `ReadersServed` speaks of each reader's own keyring (`Served`): the jobs of a worker
  open what is stored and what they hold, but for mailboxes connected ahead of it while
  its keyring is behind the deployment, the script opens whatever is stored or on its
  list (`HeldOpens`), and what they find is a grant of the user.
* `TypeCorrect`, `OwnMailOnly`, `AnsweredKept`, `WaitsSound`, `WaitsGoOn` and
  `QuestionsGoOn` in **InboxProofs**. For the second the invariant (`IInv`) adds to
  the types that a batch holds messages of its own mailbox (`Queued`) and that a row
  is of an account whose mailbox has the message (`Delivered`): a row can change
  accounts, but only to that of the mailbox a sync has just read. For the third, an
  action property, `Checked` says that what a sync that is not overtaken has decided
  not to keep belongs to no conversation with a mail of the owner in the table *or
  in the rest of its batch*: without the rest of the batch the first chunk saved
  would break it. Syncs of other mailboxes cannot, since but for IMAP's References a
  conversation is of one mailbox (`ThreadScope`); another sync of the same mailbox
  can, and then this one is overtaken. `WaitsSound` compares the query, which looks
  for the newest row and the last of the owner's, with the set of dates after it;
  that these have a minimum and a maximum rests on `<` being well-founded
  (`Minimum`, `Maximum`). `WaitsGoOn`, an action property, needs that every row has
  the date of its mail (`Stamped`): a mail saved again, or for another mailbox,
  moves no date, so that mail of the others can only add to what is unanswered.
  `QuestionsGoOn` adds that what was found in a mail stays in its row
  (`FindingStays`), and that unanswered mail means a wait (`Meant`).
* `TypeCorrect` and `CopiesBounded` in **DeliverBriefProofs**. The number of copies
  is not inductive: a handler that is to send, and an attempt that is to come, will
  add to it. `CountInv` counts all three, the copies sent, the runs that may still
  send (`Running`) and the attempts of the jobs up to today that have not begun
  (`Open`), against the number of all attempts (`Bound`). Starting a job uses up an
  attempt and adds a run, sending uses up the run and adds a copy; a crash, a throw or
  an expiry gives nothing back. `QueueInv` (one job a day, one active) and `RunInv`
  (whose turn it is has left the list) make that an exchange of one for one.
* `TypeCorrect` and `StaysSubscribed` in **SubscriptionProofs**. But for those the
  provider has dropped, the subscription on record lives at least as long as the
  record says, and record and periods missed add up to the window, less one, or a
  whole lifetime (`Lasting`). What a sync stores, and what is on record when a renewal
  writes its date, was created or extended in this very period (`Fresher`): if another
  id has been put on record since the renewal read the row, whoever put it there has
  just been given it. For Gmail it is the one watch there is (`OneWatch`). That no
  handler outlives a period (6 hours) is what these rest on.

The assumptions are those of the constants (`SyncAssumption`,
`MailboxAssumption`, `RotationAssumption`, `InboxAssumption`, `BriefAssumption`,
`ExtractionAssumption`, `DeliverAssumption`, `SubscriptionAssumption`), which every run
of the module evaluates; they say no more than types and which names are taken.

All safety and action properties of the passing runs are theorems. Only
model-checked are the liveness properties, since fairness and ENABLED are beyond the
prover: `EventuallyIngested`, `FailingSurfaces`, `NoRetryStorm`, `EventuallySaved`,
`EventuallyAttempted`, `EventuallySubscribed`, `MissingBlocksNobody` and
`RotationEnds`.

## What is abstracted

* Rows of one account at a time in SyncAccount and Subscription: accounts share
  nothing but the worker, except in the renewal loop, where another account's
  failure is `Block`.
* Deletion of an account and the status `disabled`, which no code sets.
* `requestJson`: a request it retries is one step that sees the mailbox of its last
  attempt. Which messages are old and which are copies is fixed at the start.
* Message bodies and texts; but for Inbox a message counts as kept by the prefilter.
  In Inbox the sections of a brief but for the open questions, job numbers and the
  matching of keywords and domains.
* In KeyRotation a restarted service has no predecessor still at work, and the
  operator waits for both deploys before the script and after the clearing.
* Subscription counts time in whole periods, and no sync or renewal lasts one.
* Some awaits in a row are one step: `getAccount` and `buildAccountContext` (`Load`),
  the status and the failure count (`Reauth`), Gmail's fetches one by one
  (`FetchMessages`). A brief is always for all audiences and the day of its run.

## Not modelled

* Authorization flows, prompts and synthesis, configuration, web pages: text and
  conversions, or calls whose outcome the models choose (`PROJECT.json` has a reason
  for each component).
* The loop of attempts in `requestJson` and its delays: no property depends on when
  a request is made, and nothing but the request is repeated.
* The life of a pg-boss instance within a process (`getBoss`, `stopBoss`): the
  models begin once it has started.

## Plan

Done: Catchup, Attempts, Credentials, SyncAccount, MailboxSync, Subscription,
KeyRotation, Extraction, GenerateBrief, DeliverBrief, Inbox, their runs, and proofs of
every safety property and every refinement. What would come next:

1. A composition of Extraction and GenerateBrief over one `events` table: which
   mail reaches no brief at all (extracted late, or arriving while a brief is
   synthesized).
2. `getBoss`/`stopBoss`: the cached rejection, a drain that meets a start.
3. The backfill of a reconnect, which a taken slot of the queue drops.
4. In Inbox: the other sections of a brief, the mails of a conversation that are not
   in any inbox, the window of a brief, and the copy of a mail each of its readers
   should have.
5. An abstract queue (at most one attempt counts) that the four queues implement.
