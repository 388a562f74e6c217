------------------------------ MODULE Extraction ------------------------------
(***************************************************************************)
(* Stage 2 of the pipeline: the extract-events queue, its handler cut at   *)
(* its awaits, and what it does to the rows that syncs put into events.    *)
(*                                                                         *)
(* A message is its rank by occurred_at.  All of them have the prefilter   *)
(* verdict 'keep': the others are never pending.                           *)
(***************************************************************************)
EXTENDS Integers, FiniteSets

CONSTANTS
  Runs,        \* handler invocations that can be in flight at the same time
  BatchSize,   \* events one run takes (BATCH_SIZE)
  RetryLimit,  \* pg-boss retries of a failed job
  MaxMessages  \* bound: messages that ever get a row

ASSUME ExtractionAssumption ==
  /\ BatchSize \in Nat \ {0}
  /\ RetryLimit \in Nat
  /\ MaxMessages \in Nat

VARIABLES
  row,      \* a message's row in events: none yet, or what extracted holds
  waiting,  \* jobs in state created or retry; more than one of a kind is like one
  active,   \* the job in state active, if any: the queue is a singleton
  pc,       \* where each handler invocation stands
  owners,   \* the invocations whose return or throw still settles the job
  ctx,      \* what each has read and been answered
  outlived  \* history: a handler was still running when its job expired

queue == <<waiting, active>>
run   == <<pc, owners, ctx>>
vars  == <<row, queue, run, outlived>>

Messages == 1 .. MaxMessages
Rows     == {"absent", "pending", "value", "error"}
Job      == [tries : 0 .. RetryLimit]
Steps    == {"idle", "load", "call", "call again", "save"}
Context  == [batch : SUBSET Messages, extracted : SUBSET Messages,
             failed : SUBSET Messages]

\* Nothing read: an invocation holds only what it still needs.
NoContext == [batch |-> {}, extracted |-> {}, failed |-> {}]

TypeOK ==
  /\ row \in [Messages -> Rows]
  /\ waiting \in SUBSET Job
  /\ active \in SUBSET Job
  /\ pc \in [Runs -> Steps]
  /\ owners \in SUBSET Runs
  /\ ctx \in [Runs -> Context]
  /\ outlived \in BOOLEAN

-----------------------------------------------------------------------------
(* The queue.                                                              *)

\* Every 15 minutes.
Schedule ==
  /\ waiting' = waiting \cup {[tries |-> 0]}
  /\ UNCHANGED <<row, active, run, outlived>>

\* Bug to refute: a failed job is retried for ever.
FailActiveForever ==
  /\ active' = {}
  /\ waiting' = waiting \cup {[tries |-> j.tries + 1] : j \in active}

\* The active job goes back for a retry, or is given up.
FailActive ==
  /\ active' = {}
  /\ waiting' = waiting \cup {[tries |-> j.tries + 1] :
                               j \in {k \in active : k.tries < RetryLimit}}

Fail(r)     == IF r \in owners THEN FailActive ELSE UNCHANGED queue
Complete(r) == /\ active' = IF r \in owners THEN {} ELSE active
               /\ waiting' = waiting

At(r, steps)  == pc[r] \in steps
Goto(r, step) == pc' = [pc EXCEPT ![r] = step]
Stop(r) == /\ Goto(r, "idle")
           /\ ctx' = [ctx EXCEPT ![r] = NoContext]
           /\ owners' = owners \ {r}

Fetch(r) ==
  /\ At(r, {"idle"})
  /\ active = {}
  /\ \E j \in waiting : waiting' = waiting \ {j} /\ active' = {j}
  /\ Goto(r, "load")
  /\ owners' = owners \cup {r}
  /\ UNCHANGED <<row, ctx, outlived>>

\* expireInMinutes: pg-boss fails the job, the handler itself keeps running.
Expire ==
  /\ active # {}
  /\ FailActive
  /\ outlived' = (outlived \/ owners # {})
  /\ owners' = {}
  /\ UNCHANGED <<row, pc, ctx>>

\* The worker process dies; its active job stays behind until it expires.
Crash ==
  /\ pc' = [r \in Runs |-> "idle"]
  /\ owners' = {}
  /\ ctx' = [r \in Runs |-> NoContext]
  /\ UNCHANGED <<row, queue, outlived>>

-----------------------------------------------------------------------------
(* extractEvents.                                                          *)

\* Bug to refute: what has failed is tried again.
PendingOrFailed == {m \in Messages : row[m] \in {"pending", "error"}}

Pending == {m \in Messages : row[m] = "pending"}

\* The oldest BatchSize of them.
Oldest(some) == {m \in some : Cardinality({k \in some : k < m}) < BatchSize}

Load(r) ==
  /\ At(r, {"load"})
  /\ \/ /\ Pending = {}
        /\ Stop(r)
        /\ Complete(r)
     \/ /\ Pending # {}
        /\ ctx' = [ctx EXCEPT ![r].batch = Oldest(Pending)]
        /\ Goto(r, "call")
        /\ UNCHANGED <<owners, queue>>
  /\ UNCHANGED <<row, outlived>>

\* extractBatch: the model answers for some of the messages.  References it
\* made up or repeated are dropped, messages it left out have failed.
Answer(r) ==
  /\ At(r, {"call", "call again"})
  /\ \E covered \in SUBSET ctx[r].batch :
       ctx' = [ctx EXCEPT ![r] = [batch     |-> ctx[r].batch,
                                  extracted |-> covered,
                                  failed    |-> ctx[r].batch \ covered]]
  /\ Goto(r, "save")
  /\ UNCHANGED <<row, queue, owners, outlived>>

\* No answer, or none that parses: once more, then the whole batch has failed.
NoAnswer(r) ==
  /\ At(r, {"call"})
  /\ Goto(r, "call again")
  /\ UNCHANGED <<row, queue, owners, ctx, outlived>>

GiveUp(r) ==
  /\ At(r, {"call again"})
  /\ ctx' = [ctx EXCEPT ![r].failed = ctx[r].batch]
  /\ Goto(r, "save")
  /\ UNCHANGED <<row, queue, owners, outlived>>

\* saveExtraction: one committed statement for each message.
SaveOne(r) ==
  /\ At(r, {"save"})
  /\ \E m \in ctx[r].extracted :
       /\ row' = [row EXCEPT ![m] = "value"]
       /\ ctx' = [ctx EXCEPT ![r].extracted = @ \ {m}]
  /\ UNCHANGED <<queue, pc, owners, outlived>>

\* Bug to refute: failures are left for the next run.
MarkNothing(r) ==
  /\ At(r, {"save"})
  /\ ctx[r].extracted = {}
  /\ Stop(r)
  /\ Complete(r)
  /\ UNCHANGED <<row, outlived>>

\* markExtractionFailed, whatever the rows hold by now; the handler returns.
Mark(r) ==
  /\ At(r, {"save"})
  /\ ctx[r].extracted = {}
  /\ row' = [m \in Messages |-> IF m \in ctx[r].failed THEN "error" ELSE row[m]]
  /\ Stop(r)
  /\ Complete(r)
  /\ UNCHANGED outlived

\* A statement on the database fails.
Throw(r) ==
  /\ At(r, {"load", "save"})
  /\ Stop(r)
  /\ Fail(r)
  /\ UNCHANGED <<row, outlived>>

-----------------------------------------------------------------------------
(* Syncs.                                                                  *)

\* Bug to refute: syncing a message again makes it pending again.
UpsertAnew(m) ==
  /\ row' = [row EXCEPT ![m] = "pending"]
  /\ UNCHANGED <<queue, run, outlived>>

\* upsertEvents: a row that is there keeps its extraction.
Upsert(m) ==
  /\ row' = [row EXCEPT ![m] = IF @ = "absent" THEN "pending" ELSE @]
  /\ UNCHANGED <<queue, run, outlived>>

Init ==
  /\ row = [m \in Messages |-> "absent"]
  /\ waiting = {}
  /\ active = {}
  /\ pc = [r \in Runs |-> "idle"]
  /\ owners = {}
  /\ ctx = [r \in Runs |-> NoContext]
  /\ outlived = FALSE

Step(r) ==
  \/ Load(r) \/ Answer(r) \/ NoAnswer(r) \/ GiveUp(r) \/ SaveOne(r) \/ Mark(r)
  \/ Throw(r)

Next ==
  \/ \E r \in Runs : Fetch(r) \/ Step(r)
  \/ \E m \in Messages : Upsert(m)
  \/ Schedule \/ Expire \/ Crash

Spec == Init /\ [][Next]_vars

-----------------------------------------------------------------------------
(* What extraction promises.                                               *)

\* "Must not throw away the extraction we already paid for": syncs, crashes
\* between two saves and retries leave what was extracted alone - as long as no
\* handler outlives its job, for then two of them have read the same rows.
ExtractionKept ==
  [][~outlived' => \A m \in Messages : row[m] = "value" => row'[m] = "value"]_vars

\* Seen from the rows alone: each is settled once, by its extraction or by a
\* failure, whatever handlers, syncs and crashes there are; while no handler
\* outlives its job, for then rows may be settled twice.
Promise == INSTANCE Attempts WITH row <- row, loose <- outlived, Messages <- Messages

\* Every step of handlers, queue and syncs is a step of Attempts or none at all:
\* what has failed is not tried again, what is done is not done again
\* (pendingExtraction, saveExtraction, markExtractionFailed, upsertEvents).
SettlesOnce == Promise!Spec

\* The schedule keeps firing, the worker keeps fetching and its handlers keep
\* running, and pg-boss expires a job that has no handler left.
Scheduling ==
  /\ WF_vars(Schedule)
  /\ WF_vars(Expire)
  /\ WF_vars(\E r \in Runs : Fetch(r))
  /\ \A r \in Runs : WF_vars(Step(r))

\* What is tried again and again gets through at some point: a statement on
\* the database, a call of the model that ends in whatever way.
Persistence ==
  /\ SF_vars(\E r \in Runs : Load(r))
  /\ SF_vars(\E r \in Runs : Answer(r) \/ GiveUp(r))
  /\ SF_vars(\E r \in Runs : SaveOne(r))
  /\ SF_vars(\E r \in Runs : Mark(r))

FairSpec == Spec /\ Scheduling /\ Persistence

\* "So they leave the pending queue instead of being picked up again forever":
\* every message is extracted or given up on, however often the model fails or
\* leaves it out, and whatever else is pending.
EventuallyAttempted ==
  \A m \in Messages : row[m] = "pending" ~> row[m] \in {"value", "error"}
=============================================================================
