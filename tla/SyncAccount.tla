----------------------------- MODULE SyncAccount -----------------------------
(***************************************************************************)
(* The life of one connected mailbox: the pg-boss queue that asks for its  *)
(* syncs, the worker's syncAccount handler cut at its awaits, the          *)
(* connector's view of the remote mailbox, the error policy, and the other *)
(* writers of the account row (token-health, the user's reconnects).       *)
(*                                                                         *)
(* A message is its position in the mailbox: messages 1 .. arrived exist.  *)
(* A cursor is the position up to which the provider considers us caught   *)
(* up (a Gmail historyId, a Graph delta link, an IMAP UID).  A stored      *)
(* credential is the number of the user's grant it was issued under.       *)
(* Webhook subscriptions are the subject of module Subscription.           *)
(***************************************************************************)
EXTENDS Integers

CONSTANTS
  Runs,       \* handler invocations that can be in flight at the same time
  Providers,  \* connectors that may serve the account
  Bound,      \* messages one run may fetch (MAX_MESSAGES_PER_RUN, pages * size)
  RetryLimit, \* pg-boss retries of a failed job
  Threshold,  \* FAILURE_ALERT_THRESHOLD; the failure counter is kept up to here
  MaxMail,    \* bound: messages that ever arrive
  MaxAged,    \* bound: messages that grow older than BACKFILL_DAYS
  MaxGrants   \* bound: times the user authorizes the account

ASSUME SyncAssumption ==
  /\ Providers \subseteq {"gmail", "outlook", "imap"}
  /\ Bound \in Nat \ {0}
  /\ RetryLimit \in Nat
  /\ Threshold \in Nat \ {0}
  /\ MaxMail \in Nat
  /\ MaxAged \in Nat
  /\ MaxGrants \in Nat \ {0}

VARIABLES
  arrived,  \* remote: messages in the mailbox
  aged,     \* remote: how many of them are older than BACKFILL_DAYS
  grants,   \* remote: grants the user has given so far
  dead,     \* remote: grants no longer honoured (revoked, expired)
  provider, \* accounts.provider
  status,   \* accounts.status
  tokens,   \* accounts.encrypted_tokens, as the grant they belong to
  cursor,   \* sync_state.cursor
  failures, \* sync_state.consecutive_failures, saturating at Threshold
  events,   \* messages with a row in events
  created,  \* the account's job in state created, if any
  retry,    \* the account's job in state retry, if any
  active,   \* the account's job in state active, if any
  pc,       \* where each handler invocation of the worker stands
  owners,   \* the invocations whose return or throw still settles the job
  ctx,      \* what each has read: the job's flag, then its AccountContext
  result,   \* what the connector gave it: a SyncResult
  left      \* history: messages a bounded full sync left unlisted

mailbox == <<arrived, aged, grants, dead>>
account == <<provider, status, tokens>>
queue   == <<created, retry, active>>
run     == <<pc, owners, ctx, result>>
vars    == <<mailbox, account, cursor, failures, events, queue, run, left>>

NoCursor == -1
Mail     == 1 .. MaxMail
Position == NoCursor .. MaxMail
Job      == [full : BOOLEAN, tries : 0 .. RetryLimit]
Steps    == {"idle", "load", "delta", "seed", "list", "save", "record",
             "more", "subscribe"}
Context  == [full : BOOLEAN, tokens : 0 .. MaxGrants, cursor : Position]
Result   == [emails : SUBSET Mail, nextCursor : Position, hasMore : BOOLEAN]

\* Nothing read, nothing listed: an invocation holds only what it still needs.
NoContext == [full |-> FALSE, tokens |-> 0, cursor |-> NoCursor]
NoResult  == [emails |-> {}, nextCursor |-> NoCursor, hasMore |-> FALSE]

TypeOK ==
  /\ arrived \in 0 .. MaxMail
  /\ aged \in 0 .. arrived
  /\ grants \in 1 .. MaxGrants
  /\ dead \in SUBSET (1 .. MaxGrants)
  /\ provider \in Providers
  /\ status \in {"active", "reauth_required"}
  /\ tokens \in 1 .. MaxGrants
  /\ cursor \in Position
  /\ failures \in 0 .. Threshold
  /\ events \in SUBSET Mail
  /\ created \in SUBSET Job
  /\ retry \in SUBSET Job
  /\ active \in SUBSET Job
  /\ pc \in [Runs -> Steps]
  /\ owners \in SUBSET Runs
  /\ ctx \in [Runs -> Context]
  /\ result \in [Runs -> Result]
  /\ left \in SUBSET Mail

-----------------------------------------------------------------------------
(* The queue.  Under the stately policy each of the three slots holds at   *)
(* most one job per singletonKey; a job that does not fit is dropped.      *)

Send(full) ==
  created' = IF created = {} THEN {[full |-> full, tries |-> 0]} ELSE created

\* Bug to refute: a failed job is retried for ever.
FailActiveForever ==
  /\ active' = {}
  /\ retry' = IF retry = {} THEN {[j EXCEPT !.tries = @ + 1] : j \in active}
                            ELSE retry

\* The active job goes back for a retry, or is given up.
FailActive ==
  /\ active' = {}
  /\ retry' = IF retry = {}
              THEN {[j EXCEPT !.tries = @ + 1] :
                      j \in {k \in active : k.tries < RetryLimit}}
              ELSE retry

\* The handler of run r returned: the job is done, unless it already timed out.
Complete(r) ==
  /\ active' = IF r \in owners THEN {} ELSE active
  /\ retry' = retry

\* The handler of run r threw; nobody listens any more if the job timed out.
Fail(r) == IF r \in owners THEN FailActive ELSE UNCHANGED <<active, retry>>

At(r, steps)  == pc[r] \in steps
Goto(r, step) == pc' = [pc EXCEPT ![r] = step]
Forget(r)     == /\ ctx' = [ctx EXCEPT ![r] = NoContext]
                 /\ result' = [result EXCEPT ![r] = NoResult]
Stop(r)       == Goto(r, "idle") /\ Forget(r) /\ owners' = owners \ {r}
Usable(r)     == ctx[r].tokens \notin dead
Least(a, b)   == IF a < b THEN a ELSE b

-----------------------------------------------------------------------------
(* The worker fetches a job and runs syncAccount on it.                    *)

Fetch(r) ==
  /\ At(r, {"idle"})
  /\ active = {}
  /\ \E j \in created \cup retry :
       /\ \/ j \in created /\ created' = {} /\ retry' = retry
          \/ j \in retry /\ retry' = {} /\ created' = created
       /\ active' = {j}
       /\ ctx' = [ctx EXCEPT ![r] = [@ EXCEPT !.full = j.full]]
  /\ Goto(r, "load")
  /\ owners' = owners \cup {r}
  /\ UNCHANGED <<mailbox, account, cursor, failures, events, result, left>>

\* getAccount and buildAccountContext: everything the run knows from here on.
Load(r) ==
  /\ At(r, {"load"})
  /\ \/ /\ status = "active"
        /\ Goto(r, IF ctx[r].full \/ cursor = NoCursor THEN "seed" ELSE "delta")
        /\ ctx' = [ctx EXCEPT ![r] = [full |-> FALSE, tokens |-> tokens,
                                      cursor |-> cursor]]
        /\ UNCHANGED <<owners, result, active, retry>>
     \/ /\ status # "active"
        /\ Stop(r)
        /\ Complete(r)
  /\ UNCHANGED <<mailbox, account, cursor, failures, events, created, left>>

\* ensureAccessToken inside a connector call: refresh, then saveTokens.
RefreshTokens(r) ==
  /\ At(r, {"delta", "seed", "list"})
  /\ provider # "imap"
  /\ Usable(r)
  /\ tokens' = ctx[r].tokens
  /\ UNCHANGED <<mailbox, provider, status, cursor, failures, events, queue,
                 run, left>>

\* Bug to refute: the cursor is recorded first, what was listed comes after it.
RecordedFirst(r, res) ==
  /\ Goto(r, "record")
  /\ ctx' = [ctx EXCEPT ![r] = [@ EXCEPT !.tokens = 0]]
  /\ result' = [result EXCEPT ![r] = res]
  /\ UNCHANGED owners

\* The connector call of run r is over and gave res; the credentials it used
\* are of no further use to the run.
Listed(r, res) ==
  /\ Goto(r, "save")
  /\ ctx' = [ctx EXCEPT ![r] = [@ EXCEPT !.tokens = 0]]
  /\ result' = [result EXCEPT ![r] = res]
  /\ UNCHANGED owners

\* deltaSync: the first messages after the cursor, at most Bound of them.
After(from) == (from + 1) .. Least(arrived, from + Bound)

GmailDelta(from) ==
  LET truncated == arrived - from >= Bound
  IN  [emails     |-> After(from),
       nextCursor |-> IF truncated THEN from ELSE arrived,
       hasMore    |-> truncated]

OutlookDelta(from) ==
  [emails     |-> After(from),
   nextCursor |-> Least(arrived, from + Bound),
   hasMore    |-> arrived - from > Bound]

ImapDelta(from) ==
  [emails     |-> After(from),
   nextCursor |-> Least(arrived, from + Bound),
   hasMore    |-> arrived - from >= Bound]

\* Bug to refute: a truncated run stores the newest cursor the provider gave.
DeltaNewest(from) == [OutlookDelta(from) EXCEPT !.nextCursor = arrived]

DeltaSync(from) ==
  CASE provider = "gmail"   -> GmailDelta(from)
    [] provider = "outlook" -> OutlookDelta(from)
    [] provider = "imap"    -> ImapDelta(from)

Delta(r) ==
  /\ At(r, {"delta"})
  /\ Usable(r)
  /\ Listed(r, DeltaSync(ctx[r].cursor))
  /\ UNCHANGED <<mailbox, account, cursor, failures, events, queue, left>>

\* CursorExpiredError: fall back to a bounded full sync in the same run.
CursorExpires(r) ==
  /\ At(r, {"delta"})
  /\ Usable(r)
  /\ Goto(r, "seed")
  /\ UNCHANGED <<mailbox, account, cursor, failures, events, queue, owners,
                 ctx, result, left>>

\* fullSync reads the cursor for "now" first (IMAP has none to read); whatever
\* goes wrong there is swallowed and leaves no cursor.
Seed(r) ==
  /\ At(r, {"seed"})
  /\ \/ UNCHANGED result
     \/ /\ provider # "imap"
        /\ Usable(r)
        /\ result' = [result EXCEPT ![r] = [@ EXCEPT !.nextCursor = arrived]]
  /\ Goto(r, "list")
  /\ UNCHANGED <<mailbox, account, cursor, failures, events, queue, owners,
                 ctx, left>>

\* ... then lists the newest Bound messages of the backfill window, down to
\* the last one it leaves out.
LeftOut == IF arrived - aged > Bound THEN arrived - Bound ELSE aged

GmailFull(seed) ==
  [emails |-> (LeftOut + 1) .. arrived, nextCursor |-> seed, hasMore |-> LeftOut > aged]

OutlookFull(seed) ==
  [emails |-> (LeftOut + 1) .. arrived, nextCursor |-> seed, hasMore |-> LeftOut > aged]

ImapFull ==
  [emails |-> (LeftOut + 1) .. arrived, nextCursor |-> arrived, hasMore |-> LeftOut > aged]

FullSync(seed) ==
  CASE provider = "gmail"   -> GmailFull(seed)
    [] provider = "outlook" -> OutlookFull(seed)
    [] provider = "imap"    -> ImapFull

List(r) ==
  /\ At(r, {"list"})
  /\ Usable(r)
  /\ Listed(r, FullSync(result[r].nextCursor))
  /\ left' = left \cup 1 .. LeftOut
  /\ UNCHANGED <<mailbox, account, cursor, failures, events, queue>>

\* upsertEvents: rows already there keep their place.
Save(r) ==
  /\ At(r, {"save"})
  /\ events' = events \cup result[r].emails
  /\ result' = [result EXCEPT ![r] = [@ EXCEPT !.emails = {}]]
  /\ Goto(r, "record")
  /\ UNCHANGED <<mailbox, account, cursor, failures, queue, owners, ctx, left>>

\* recordSyncSuccess with cursor: result.nextCursor ?? ctx.cursor.
Record(r) ==
  /\ At(r, {"record"})
  /\ cursor' = IF result[r].nextCursor = NoCursor THEN ctx[r].cursor
                                                 ELSE result[r].nextCursor
  /\ failures' = 0
  /\ Goto(r, IF result[r].hasMore THEN "more" ELSE "subscribe")
  /\ Forget(r)
  /\ UNCHANGED <<mailbox, account, events, queue, owners, left>>

\* "A bounded run left more pages behind": queue a delta for them.
More(r) ==
  /\ At(r, {"more"})
  /\ Send(FALSE)
  /\ Goto(r, "subscribe")
  /\ UNCHANGED <<mailbox, account, cursor, failures, events, retry, active,
                 owners, ctx, result, left>>

\* ensureSubscription is over and the handler returns.
Return(r) ==
  /\ At(r, {"subscribe"})
  /\ Stop(r)
  /\ Complete(r)
  /\ UNCHANGED <<mailbox, account, cursor, failures, events, created, left>>

-----------------------------------------------------------------------------
(* handleSyncError, and what is not covered by it.                         *)

\* Bug to refute: failed calls are not counted.
CallFailedUncounted(r) ==
  /\ At(r, {"delta", "list"})
  /\ Stop(r)
  /\ UNCHANGED <<mailbox, provider, tokens, cursor, failures, events, left>>

\* A connector call whose error reaches handleSyncError, and its counting.
CallFailed(r) ==
  /\ At(r, {"delta", "list"})
  /\ failures' = Least(failures + 1, Threshold)
  /\ Stop(r)
  /\ UNCHANGED <<mailbox, provider, tokens, cursor, events, left>>

\* Bug to refute: a dead grant leaves the account active.
ReauthUnflagged(r) ==
  /\ CallFailed(r)
  /\ ~Usable(r)
  /\ Complete(r)
  /\ UNCHANGED <<status, created>>

Reauth(r) ==
  /\ CallFailed(r)
  /\ ~Usable(r)
  /\ status' = "reauth_required"
  /\ Complete(r)
  /\ UNCHANGED created

RateLimited(r) ==
  /\ CallFailed(r)
  /\ Send(FALSE)
  /\ Complete(r)
  /\ UNCHANGED status

Transient(r) ==
  /\ CallFailed(r)
  /\ Fail(r)
  /\ UNCHANGED <<status, created>>

HandledError(r) == Reauth(r) \/ RateLimited(r) \/ Transient(r)

\* Outside the try, or in the bookkeeping of handleSyncError itself: the job
\* fails, nothing is recorded.  upsertEvents commits chunk by chunk, so part of
\* the batch may be in.
Throw(r) ==
  /\ At(r, {"load", "delta", "list", "save", "record", "more", "subscribe"})
  /\ \E part \in SUBSET result[r].emails : events' = events \cup part
  /\ Stop(r)
  /\ Fail(r)
  /\ UNCHANGED <<mailbox, account, cursor, failures, created, left>>

\* Bug to refute: a handler that timed out still settles its account's job.
ExpireAttached ==
  /\ active # {}
  /\ FailActive
  /\ UNCHANGED <<mailbox, account, cursor, failures, events, created, run, left>>

\* Bug to refute: a job whose handler has died with its worker stays active.
ExpireHeld ==
  /\ active # {}
  /\ owners # {}
  /\ FailActive
  /\ owners' = {}
  /\ UNCHANGED <<mailbox, account, cursor, failures, events, created, pc, ctx,
                 result, left>>

\* expireInMinutes: pg-boss fails the job, the handler itself keeps running.
Expire ==
  /\ active # {}
  /\ FailActive
  /\ owners' = {}
  /\ UNCHANGED <<mailbox, account, cursor, failures, events, created, pc, ctx,
                 result, left>>

\* The worker process dies; its active job stays behind until it expires.
Crash ==
  /\ pc' = [r \in Runs |-> "idle"]
  /\ owners' = {}
  /\ ctx' = [r \in Runs |-> NoContext]
  /\ result' = [r \in Runs |-> NoResult]
  /\ UNCHANGED <<mailbox, account, cursor, failures, events, queue, left>>

-----------------------------------------------------------------------------
(* Everyone else who writes to the account or asks for a sync.             *)

Requested ==
  /\ Send(FALSE)
  /\ UNCHANGED <<mailbox, account, cursor, failures, events, retry, active,
                 run, left>>

\* The poll schedule asks for a sync of every active account.
Poll == status = "active" /\ Requested

\* A push the Gmail receiver accepts names an active account ...
GmailPush == provider = "gmail" /\ status = "active" /\ Requested

\* ... the Graph receiver finds the account by its subscription, active or not.
GraphPush == provider = "outlook" /\ Requested

\* The user authorizes the mailbox again; the enqueue after it may be lost.
Reconnect ==
  /\ grants < MaxGrants
  /\ grants' = grants + 1
  /\ tokens' = grants + 1
  /\ status' = "active"
  /\ Send(TRUE) \/ UNCHANGED created
  /\ UNCHANGED <<arrived, aged, dead, provider, cursor, failures, events, retry, active,
                 run, left>>

\* The token-health job acts on the credentials of some earlier read: it saves
\* what it refreshed, or flags the account.  IMAP "refreshes" without a call.
TokenHealth ==
  /\ \E read \in 1 .. grants :
       \/ /\ read \notin dead \/ provider = "imap"
          /\ tokens' = read
          /\ UNCHANGED status
       \/ /\ read \in dead /\ provider # "imap"
          /\ status' = "reauth_required"
          /\ UNCHANGED tokens
  /\ UNCHANGED <<mailbox, provider, cursor, failures, events, queue, run, left>>

-----------------------------------------------------------------------------
(* The provider.                                                           *)

Arrive ==
  /\ arrived < MaxMail
  /\ arrived' = arrived + 1
  /\ UNCHANGED <<aged, grants, dead>>

Age ==
  /\ aged < Least(arrived, MaxAged)
  /\ aged' = aged + 1
  /\ UNCHANGED <<arrived, grants, dead>>

Revoke ==
  /\ \E g \in 1 .. grants : g \notin dead /\ dead' = dead \cup {g}
  /\ UNCHANGED <<arrived, aged, grants>>

Remote ==
  /\ Arrive \/ Age \/ Revoke
  /\ UNCHANGED <<account, cursor, failures, events, queue, run, left>>

-----------------------------------------------------------------------------
\* The OAuth callback has stored the account and asked for its first sync.
Init ==
  /\ arrived \in 0 .. MaxMail
  /\ aged \in 0 .. Least(arrived, MaxAged)
  /\ grants = 1
  /\ dead = {}
  /\ provider \in Providers
  /\ status = "active"
  /\ tokens = 1
  /\ cursor = NoCursor
  /\ failures = 0
  /\ events = {}
  /\ created = {[full |-> TRUE, tries |-> 0]}
  /\ retry = {}
  /\ active = {}
  /\ pc = [r \in Runs |-> "idle"]
  /\ owners = {}
  /\ ctx = [r \in Runs |-> NoContext]
  /\ result = [r \in Runs |-> NoResult]
  /\ left = {}

\* Everything a handler does to get on with its job.
Step(r) ==
  \/ Load(r) \/ Delta(r) \/ CursorExpires(r) \/ Seed(r) \/ List(r)
  \/ Save(r) \/ Record(r) \/ More(r) \/ Return(r)
  \/ HandledError(r) \/ Throw(r)

Next ==
  \/ \E r \in Runs : Fetch(r) \/ RefreshTokens(r) \/ Step(r)
  \/ Expire \/ Crash \/ Poll \/ GmailPush \/ GraphPush
  \/ Reconnect \/ TokenHealth \/ Remote

Spec == Init /\ [][Next]_vars

-----------------------------------------------------------------------------
(* Safety.                                                                 *)

Covered(n) == \A m \in Mail : m <= n => m \in events \cup left

\* The stored cursor never runs ahead of what was ingested: every message at
\* or before it has its row, or was beyond the bound of a full sync.  This is
\* what the order "upsertEvents, then recordSyncSuccess" and the snapshot of
\* the cursor at the start of a run are for; it must survive a run that
\* outlives its job, crashes, partial upserts and runs that overtake others.
NoMailSkipped == Covered(cursor)

\* Seen from the mailbox, the rows and the cursor alone, all of this is one
\* thing: rows are committed first, the cursor moves after them.  Nothing
\* leaves the mailbox here; what a bounded full sync leaves out is let go.
Promise == INSTANCE Catchup
             WITH arrived <- arrived, gone <- {}, rows <- events,
                  cursor <- cursor, lost <- left, MaxMail <- MaxMail

\* Every step of handlers, queue, users and provider is a step of Catchup or
\* none at all: also one of a handler that outlived its job.
CatchesUp == Promise!Spec

\* pg-boss never has two attempts of one account's sync that both count: at
\* most one handler still owns the active job, and only while there is one.
OneOwner ==
  \A r, s \in owners : active # {} /\ r = s

-----------------------------------------------------------------------------
(* Liveness.                                                               *)

\* The worker keeps fetching and its handlers keep running, pg-boss expires a
\* job that has no handler left, and the poll schedule keeps firing.
Scheduling ==
  /\ WF_vars(Poll)
  /\ WF_vars(Expire)
  /\ WF_vars(\E r \in Runs : Fetch(r))
  /\ \A r \in Runs : WF_vars(Step(r))

\* What is tried again and again gets through at some point: a statement on
\* the database, a connector call that ends in whatever way between two
\* crashes of the worker.
Persistence ==
  /\ SF_vars(\E r \in Runs : Load(r))
  /\ SF_vars(\E r \in Runs : Seed(r))
  /\ SF_vars(\E r \in Runs : Save(r))
  /\ SF_vars(\E r \in Runs : Record(r))
  /\ SF_vars(\E r \in Runs : Delta(r) \/ List(r) \/ HandledError(r))

FairSpec == Spec /\ Scheduling /\ Persistence

\* The provider answers: with messages, or with the news that the grant is
\* dead.  It need not, so this is a premise and no part of FairSpec.
Answers ==
  /\ SF_vars(\E r \in Runs : Delta(r) \/ List(r))
  /\ SF_vars(\E r \in Runs : Reauth(r))

\* A message that arrived gets its row, unless a bounded full sync left it out
\* or the account waits for its user.
EventuallyIngested ==
  Answers =>
    \A m \in Mail :
      m <= arrived ~> m \in events \cup left \/ status # "active"

\* "No retry storm": once the stored grant is dead for good, the worker
\* eventually stops calling the provider for this account.
NoRetryStorm ==
  Answers =>
    (<>[](tokens \in dead) =>
       <>[](\A r \in Runs : ~At(r, {"delta", "seed", "list"})))

\* An account whose provider answers no call any more ends up on /ops.
FailingSurfaces ==
  <>[][\A r \in Runs : ~Delta(r) /\ ~List(r)]_vars =>
    <>[](failures = Threshold \/ status # "active")
=============================================================================
