---------------------------- MODULE GenerateBrief ----------------------------
(***************************************************************************)
(* The morning's briefs: the generate-brief queue, its handler cut at its  *)
(* awaits, and the window of messages each brief is built from.            *)
(*                                                                         *)
(* Time is counted in ticks, DayLength of them to a day of the brief's     *)
(* time zone.  A message counts once it is extracted; what extraction does *)
(* is the subject of module Extraction.                                    *)
(***************************************************************************)
EXTENDS Integers

CONSTANTS
  Runs,       \* handler invocations that can be in flight at the same time
  Audiences,  \* config/audiences.json: each gets a brief of its own mailboxes
  Messages,   \* bound: messages the prefilter keeps
  DayLength,  \* ticks in a day, and in DEFAULT_WINDOW_HOURS
  Days,       \* bound: days the model runs for
  RetryLimit  \* pg-boss retries of a failed job

ASSUME BriefAssumption ==
  /\ Audiences # {}
  /\ DayLength \in Nat \ {0}
  /\ Days \in Nat \ {0}
  /\ RetryLimit \in Nat

VARIABLES
  now,       \* the clock
  occurred,  \* events.occurred_at, Never before the message exists
  feeds,     \* the audience of the mailbox a message is in
  extracted, \* messages that carry a usable extraction
  cron,      \* the last day whose schedule has fired
  waiting,   \* jobs in state created or retry
  active,    \* the job in state active, if any: the queue is a singleton
  pc,        \* where each handler invocation stands
  owners,    \* the invocations whose return still settles the active job
  ctx,       \* what each has read
  briefs,    \* the table: for a date and an audience, at most one brief
  lookedUp,  \* history: dates whose brief served as a "previous brief"
  overtaken  \* history: of those, the ones saved (again) after that

clock    == <<now, cron>>
messages == <<occurred, feeds, extracted>>
queue    == <<waiting, active>>
run      == <<pc, owners, ctx>>
history  == <<lookedUp, overtaken>>
vars     == <<clock, messages, queue, run, briefs, history>>

Never   == -1
Tick    == 0 .. Days * DayLength - 1
Day     == 0 .. Days - 1
Job     == [day : Day, tries : 0 .. RetryLimit]
Steps   == {"idle", "next", "rows", "save"}
Context == [start : Tick, from : -DayLength .. Days * DayLength - 1,
            todo : SUBSET Audiences, audience : Audiences,
            items : SUBSET Messages, known : SUBSET Messages]
Brief   == [items : SUBSET Messages, known : SUBSET Messages, to : Tick, at : Tick]
NoBrief == [items |-> {}, known |-> {}, to |-> Never, at |-> Never]

\* Nothing read: an invocation holds only what it still needs.
NoContext == [start |-> 0, from |-> 0, todo |-> {},
              audience |-> CHOOSE a \in Audiences : TRUE,
              items |-> {}, known |-> {}]

\* briefDateFor: the day of a moment, in the brief's time zone.
DayOf(t) == t \div DayLength

Date(r)       == DayOf(ctx[r].start)
Goto(r, step) == pc' = [pc EXCEPT ![r] = step]

TypeOK ==
  /\ now \in Tick
  /\ occurred \in [Messages -> Tick \cup {Never}]
  /\ feeds \in [Messages -> Audiences]
  /\ extracted \in SUBSET Messages
  /\ cron \in Day \cup {Never}
  /\ waiting \in SUBSET Job
  /\ active \in SUBSET Job
  /\ pc \in [Runs -> Steps]
  /\ owners \in SUBSET Runs
  /\ ctx \in [Runs -> Context]
  /\ briefs \in [Day \X Audiences -> Brief \cup {NoBrief}]
  /\ lookedUp \in SUBSET (Day \X Audiences)
  /\ overtaken \in SUBSET lookedUp

-----------------------------------------------------------------------------
(* The queue.                                                              *)

\* The schedule fires once a day, at any moment of it, or not at all while
\* nothing runs that could fire it.
Schedule ==
  /\ cron < DayOf(now)
  /\ cron' = DayOf(now)
  /\ waiting' = waiting \cup {[day |-> DayOf(now), tries |-> 0]}
  /\ UNCHANGED <<now, messages, active, run, briefs, history>>

\* The worker fetches a job; one run covers every audience, all of them up to
\* the same moment.
Start(r) ==
  /\ pc[r] = "idle"
  /\ active = {}
  /\ \E j \in waiting : waiting' = waiting \ {j} /\ active' = {j}
  /\ ctx' = [ctx EXCEPT ![r] = [NoContext EXCEPT !.start = now, !.todo = Audiences]]
  /\ Goto(r, "next")
  /\ owners' = owners \cup {r}
  /\ UNCHANGED <<clock, messages, briefs, history>>

\* Every audience has had its turn: the handler returns.
Finish(r) ==
  /\ pc[r] = "next"
  /\ ctx[r].todo = {}
  /\ Goto(r, "idle")
  /\ ctx' = [ctx EXCEPT ![r] = NoContext]
  /\ active' = IF r \in owners THEN {} ELSE active
  /\ owners' = owners \ {r}
  /\ UNCHANGED <<clock, messages, waiting, briefs, history>>

\* Bug to refute: a failed job is retried for ever.
ExpireForever ==
  /\ active # {}
  /\ active' = {}
  /\ waiting' = waiting \cup {[j EXCEPT !.tries = @ + 1] : j \in active}
  /\ owners' = {}
  /\ UNCHANGED <<clock, messages, pc, ctx, briefs, history>>

\* expireInMinutes: pg-boss fails the job, the handler itself keeps running.
Expire ==
  /\ active # {}
  /\ active' = {}
  /\ waiting' = waiting \cup {[j EXCEPT !.tries = @ + 1] :
                               j \in {k \in active : k.tries < RetryLimit}}
  /\ owners' = {}
  /\ UNCHANGED <<clock, messages, pc, ctx, briefs, history>>

\* The worker process dies; its active job stays behind until it expires.
Crash ==
  /\ pc' = [r \in Runs |-> "idle"]
  /\ owners' = {}
  /\ ctx' = [r \in Runs |-> NoContext]
  /\ UNCHANGED <<clock, messages, queue, briefs, history>>

-----------------------------------------------------------------------------
(* One audience's turn.                                                    *)

\* Bug to refute: the previous brief is looked for under the brief's own date.
PreviousToday(r, a) == briefs[<<Date(r), a>>]

Previous(r, a) == IF Date(r) = 0 THEN NoBrief ELSE briefs[<<Date(r) - 1, a>>]

\* Bug to refute: the window is always the last 24 hours.
WindowAlways24h(start, previous) == start - DayLength

\* resolveWindow: from the previous brief, else over the last 24 hours.
WindowFrom(start, previous) ==
  IF previous = NoBrief THEN start - DayLength ELSE previous.at

ResolveWindow(r) ==
  /\ pc[r] = "next"
  /\ \E a \in ctx[r].todo :
       /\ ctx' = [ctx EXCEPT ![r] =
                    [ctx[r] EXCEPT !.audience = a, !.todo = @ \ {a},
                                   !.from = WindowFrom(ctx[r].start, Previous(r, a))]]
       /\ lookedUp' = lookedUp \cup {<<d, a>> : d \in {Date(r) - 1} \cap Day}
  /\ Goto(r, "rows")
  /\ UNCHANGED <<clock, messages, queue, owners, briefs, overtaken>>

\* extractedInWindow: from is part of the window, to is not.
InWindow(m, from, to) == from <= occurred[m] /\ occurred[m] < to

ReadRows(r) ==
  /\ pc[r] = "rows"
  /\ LET known == {m \in extracted : feeds[m] = ctx[r].audience}
     IN  ctx' = [ctx EXCEPT ![r] =
           [ctx[r] EXCEPT !.known = known,
                          !.items = {m \in known : InWindow(m, ctx[r].from, ctx[r].start)}]]
  /\ Goto(r, "save")
  /\ UNCHANGED <<clock, messages, queue, owners, briefs, history>>

\* The synthesis is over.  saveBrief replaces the brief this audience has for
\* this date, if any, and stamps it with the moment of the save.
Save(r) ==
  /\ pc[r] = "save"
  /\ LET key == <<Date(r), ctx[r].audience>>
     IN  /\ briefs' = [briefs EXCEPT ![key] =
                         [items |-> ctx[r].items, known |-> ctx[r].known,
                          to |-> ctx[r].start, at |-> now]]
         /\ overtaken' = overtaken \cup ({key} \cap lookedUp)
  /\ Goto(r, "next")
  /\ ctx' = [ctx EXCEPT ![r] = [ctx[r] EXCEPT !.known = {}, !.items = {}]]
  /\ UNCHANGED <<clock, messages, queue, owners, lookedUp>>

\* Whatever goes wrong for one audience is logged; the others get their turn.
Skip(r) ==
  /\ \/ /\ pc[r] = "next"
        /\ \E a \in ctx[r].todo : ctx' = [ctx EXCEPT ![r].todo = @ \ {a}]
     \/ /\ pc[r] \in {"rows", "save"}
        /\ ctx' = [ctx EXCEPT ![r] = [ctx[r] EXCEPT !.known = {}, !.items = {}]]
  /\ Goto(r, "next")
  /\ UNCHANGED <<clock, messages, queue, owners, briefs, history>>

-----------------------------------------------------------------------------
(* Time, mail and its extraction.                                          *)

Advance ==
  /\ now + 1 \in Tick
  /\ now' = now + 1
  /\ UNCHANGED <<cron, messages, queue, run, briefs, history>>

Occur(m) ==
  /\ occurred[m] = Never
  /\ occurred' = [occurred EXCEPT ![m] = now]
  /\ UNCHANGED <<clock, feeds, extracted, queue, run, briefs, history>>

Extract(m) ==
  /\ occurred[m] # Never
  /\ m \notin extracted
  /\ extracted' = extracted \cup {m}
  /\ UNCHANGED <<clock, occurred, feeds, queue, run, briefs, history>>

-----------------------------------------------------------------------------
Init ==
  /\ now = 0
  /\ occurred = [m \in Messages |-> Never]
  /\ feeds \in [Messages -> Audiences]
  /\ extracted = {}
  /\ cron = Never
  /\ waiting = {}
  /\ active = {}
  /\ pc = [r \in Runs |-> "idle"]
  /\ owners = {}
  /\ ctx = [r \in Runs |-> NoContext]
  /\ briefs = [key \in Day \X Audiences |-> NoBrief]
  /\ lookedUp = {}
  /\ overtaken = {}

Step(r) ==
  \/ Finish(r) \/ ResolveWindow(r) \/ ReadRows(r) \/ Save(r) \/ Skip(r)

Next ==
  \/ \E r \in Runs : Start(r) \/ Step(r)
  \/ \E m \in Messages : Occur(m) \/ Extract(m)
  \/ Schedule \/ Expire \/ Crash \/ Advance

Spec == Init /\ [][Next]_vars

-----------------------------------------------------------------------------
(* What the briefs promise.                                                *)

Saved(d, a) == briefs[<<d, a>>] # NoBrief

\* No message is told twice: it is in at most one of the briefs of a person.
\* The one way out is a run still under way when the next day's run looks for
\* its brief.  Retries, late schedules, missed days, crashes and regenerated
\* briefs are no excuse.
NoEventTwice ==
  \A a \in Audiences : \A d, e \in Day :
    d < e /\ <<d, a>> \notin overtaken =>
      briefs[<<d, a>>].items \cap briefs[<<e, a>>].items = {}

\* A later run of the same day, be it a retry, a late schedule's or an operator's,
\* replaces that day's brief and drops nothing the first one told (of what it
\* reads itself), provided the brief of the day before was saved before the first
\* run began: both begin where that one was saved.  Without such a brief both look
\* 24 hours back, and the later one from a later moment.
Keeps(d, a) ==
  LET yesterday == briefs[<<d - 1, a>>]
      first     == briefs[<<d, a>>]
      rerun     == briefs'[<<d, a>>]
  IN  yesterday # NoBrief /\ yesterday.at < first.to /\ first.to <= rerun.to =>
        first.items \cap rerun.known \subseteq rerun.items

RerunKeeps == [][\A d \in Day \ {0}, a \in Audiences : Keeps(d, a)]_vars

\* "So a missed or delayed run picks up the gap rather than dropping it": the
\* same with any number of days without a brief in between.
GapPickedUp ==
  \A a \in Audiences : \A d, e \in Day :
    /\ d < e
    /\ Saved(d, a) /\ Saved(e, a)
    /\ \A between \in d + 1 .. e - 1 : ~Saved(between, a)
    => \A m \in briefs[<<e, a>>].known :
         InWindow(m, briefs[<<d, a>>].at, briefs[<<e, a>>].to) => m \in briefs[<<e, a>>].items
=============================================================================
