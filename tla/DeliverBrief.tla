---------------------------- MODULE DeliverBrief ----------------------------
(***************************************************************************)
(* The morning's emails: the deliver-brief queue and its handler cut at    *)
(* its awaits.  How a brief comes to exist is the subject of module        *)
(* GenerateBrief; here one is generated at any moment of its day, or never.*)
(***************************************************************************)
EXTENDS Integers

CONSTANTS
  Runs,       \* handler invocations that can be in flight at the same time
  Audiences,  \* config/audiences.json, those with a deliverTo
  Days,       \* bound: days the model runs for
  RetryLimit  \* pg-boss retries of a failed job

ASSUME DeliverAssumption ==
  /\ Audiences # {}
  /\ Days \in Nat \ {0}
  /\ RetryLimit \in Nat

VARIABLES
  today,    \* the day in the brief's time zone
  cron,     \* the last day whose schedule has fired
  briefs,   \* the briefs there are, by date and audience
  waiting,  \* jobs in state created or retry
  active,   \* the job in state active, if any: the queue is a singleton
  pc,       \* where each handler invocation stands
  owners,   \* the invocations whose return or throw still settles the job
  ctx,      \* what each has read
  copies,   \* external: emails accepted, by date and audience
  troubled  \* history: something other than a missing brief went wrong

queue == <<waiting, active>>
run   == <<pc, owners, ctx>>
vars  == <<today, cron, briefs, queue, run, copies, troubled>>

Never   == -1
Day     == 0 .. Days - 1
Job     == [day : Day, tries : 0 .. RetryLimit]
Steps   == {"idle", "next", "send"}
Context == [date : Day, todo : SUBSET Audiences, audience : Audiences,
            missing : SUBSET Audiences]

\* Nothing read: an invocation holds only what it still needs.
NoContext == [date |-> 0, todo |-> {}, audience |-> CHOOSE a \in Audiences : TRUE,
              missing |-> {}]

Key(r) == <<ctx[r].date, ctx[r].audience>>

TypeOK ==
  /\ today \in Day
  /\ cron \in Day \cup {Never}
  /\ briefs \in SUBSET (Day \X Audiences)
  /\ waiting \in SUBSET Job
  /\ active \in SUBSET Job
  /\ pc \in [Runs -> Steps]
  /\ owners \in SUBSET Runs
  /\ ctx \in [Runs -> Context]
  /\ copies \in [Day \X Audiences -> Nat]
  /\ troubled \in BOOLEAN

-----------------------------------------------------------------------------
(* The queue.                                                              *)

\* The schedule fires once a day, late or not at all while nothing runs.
Schedule ==
  /\ cron < today
  /\ cron' = today
  /\ waiting' = waiting \cup {[day |-> today, tries |-> 0]}
  /\ UNCHANGED <<today, briefs, active, run, copies, troubled>>

\* Bug to refute: a failed job is retried for ever.
FailActiveForever ==
  /\ active' = {}
  /\ waiting' = waiting \cup {[j EXCEPT !.tries = @ + 1] : j \in active}

\* The active job goes back for a retry, or is given up.
FailActive ==
  /\ active' = {}
  /\ waiting' = waiting \cup {[j EXCEPT !.tries = @ + 1] :
                               j \in {k \in active : k.tries < RetryLimit}}

Fail(r)     == IF r \in owners THEN FailActive ELSE UNCHANGED queue
Complete(r) == /\ active' = IF r \in owners THEN {} ELSE active
               /\ waiting' = waiting

Goto(r, step) == pc' = [pc EXCEPT ![r] = step]
Stop(r) == /\ Goto(r, "idle")
           /\ ctx' = [ctx EXCEPT ![r] = NoContext]
           /\ owners' = owners \ {r}

\* The job names no date: every attempt delivers the briefs of its own day.
Start(r) ==
  /\ pc[r] = "idle"
  /\ active = {}
  /\ \E j \in waiting : waiting' = waiting \ {j} /\ active' = {j}
  /\ ctx' = [ctx EXCEPT ![r] = [NoContext EXCEPT !.date = today, !.todo = Audiences]]
  /\ Goto(r, "next")
  /\ owners' = owners \cup {r}
  /\ UNCHANGED <<today, cron, briefs, copies, troubled>>

\* expireInMinutes: pg-boss fails the job, the handler itself keeps running.
Expire ==
  /\ active # {}
  /\ FailActive
  /\ owners' = {}
  /\ troubled' = TRUE
  /\ UNCHANGED <<today, cron, briefs, pc, ctx, copies>>

\* The worker process dies; its active job stays behind until it expires.
Crash ==
  /\ pc' = [r \in Runs |-> "idle"]
  /\ owners' = {}
  /\ ctx' = [r \in Runs |-> NoContext]
  /\ troubled' = TRUE
  /\ UNCHANGED <<today, cron, briefs, queue, copies>>

-----------------------------------------------------------------------------
(* One audience's turn.                                                    *)

\* Bug to refute: a missing brief ends the attempt there and then.
LookUpOrThrow(r) ==
  /\ pc[r] = "next"
  /\ \E a \in ctx[r].todo :
       IF <<ctx[r].date, a>> \in briefs
       THEN /\ ctx' = [ctx EXCEPT ![r] = [ctx[r] EXCEPT !.audience = a, !.todo = @ \ {a}]]
            /\ Goto(r, "send")
            /\ UNCHANGED <<queue, owners>>
       ELSE Stop(r) /\ Fail(r)
  /\ UNCHANGED <<today, cron, briefs, copies, troubled>>

\* getBrief.  A missing brief is remembered, and the loop goes on.
LookUp(r) ==
  /\ pc[r] = "next"
  /\ \E a \in ctx[r].todo :
       IF <<ctx[r].date, a>> \in briefs
       THEN /\ ctx' = [ctx EXCEPT ![r] = [ctx[r] EXCEPT !.audience = a, !.todo = @ \ {a}]]
            /\ Goto(r, "send")
       ELSE /\ ctx' = [ctx EXCEPT ![r] =
                        [ctx[r] EXCEPT !.todo = @ \ {a}, !.missing = @ \cup {a}]]
            /\ UNCHANGED pc
  /\ UNCHANGED <<today, cron, briefs, queue, owners, copies, troubled>>

\* deliverBrief posts the email, and the provider accepts it.
Accepted(r) ==
  /\ pc[r] = "send"
  /\ copies' = [copies EXCEPT ![Key(r)] = @ + 1]
  /\ Goto(r, "next")
  /\ UNCHANGED <<today, cron, briefs, queue, owners, ctx, troubled>>

\* An answer that is not ok, or no provider configured: logged, never retried.
Refused(r) ==
  /\ pc[r] = "send"
  /\ Goto(r, "next")
  /\ troubled' = TRUE
  /\ UNCHANGED <<today, cron, briefs, queue, owners, ctx, copies>>

\* fetch or getBrief throws, and with it the whole attempt; the email may have
\* been accepted all the same.
Throw(r) ==
  /\ pc[r] \in {"next", "send"}
  /\ copies' \in {copies} \cup
       {[copies EXCEPT ![k] = @ + 1] : k \in {Key(r) : x \in {pc[r]} \cap {"send"}}}
  /\ Stop(r)
  /\ Fail(r)
  /\ troubled' = TRUE
  /\ UNCHANGED <<today, cron, briefs>>

\* Everyone has had their turn.  A missing brief fails the job after all.
Finish(r) ==
  /\ pc[r] = "next"
  /\ ctx[r].todo = {}
  /\ Stop(r)
  /\ IF ctx[r].missing = {} THEN Complete(r) ELSE Fail(r)
  /\ UNCHANGED <<today, cron, briefs, copies, troubled>>

-----------------------------------------------------------------------------
(* The rest of the world.                                                  *)

NewDay ==
  /\ today + 1 \in Day
  /\ today' = today + 1
  /\ UNCHANGED <<cron, briefs, queue, run, copies, troubled>>

Generate(a) ==
  /\ <<today, a>> \notin briefs
  /\ briefs' = briefs \cup {<<today, a>>}
  /\ UNCHANGED <<today, cron, queue, run, copies, troubled>>

Init ==
  /\ today = 0
  /\ cron = Never
  /\ briefs = {}
  /\ waiting = {}
  /\ active = {}
  /\ pc = [r \in Runs |-> "idle"]
  /\ owners = {}
  /\ ctx = [r \in Runs |-> NoContext]
  /\ copies = [key \in Day \X Audiences |-> 0]
  /\ troubled = FALSE

Work(r) == Start(r) \/ LookUp(r) \/ Accepted(r) \/ Finish(r)

Next ==
  \/ \E r \in Runs : Work(r) \/ Refused(r) \/ Throw(r)
  \/ \E a \in Audiences : Generate(a)
  \/ Schedule \/ Expire \/ Crash \/ NewDay

Spec == Init /\ [][Next]_vars

-----------------------------------------------------------------------------
(* What delivery promises.                                                 *)

\* Retries, throws, expiry and late schedules multiply the copies of a brief,
\* but never beyond the attempts of the jobs that could deliver that date.
BoundedCopies ==
  \A d \in Day, a \in Audiences : copies[<<d, a>>] <= (d + 1) * (RetryLimit + 1)

\* The worker keeps fetching, and its handlers keep running.
FairSpec == Spec /\ \A r \in Runs : WF_vars(Work(r))

\* "A missing brief for one person does not block anyone else's delivery", and
\* one that comes late is still delivered: whoever has a brief while a job has
\* an attempt to go gets an email, unless the day is over first or more goes
\* wrong than a missing brief.
MissingBlocksNobody ==
  \A d \in Day, a \in Audiences :
    today = d /\ <<d, a>> \in briefs /\ waiting # {}
      ~> copies[<<d, a>>] > 0 \/ today # d \/ troubled
=============================================================================
