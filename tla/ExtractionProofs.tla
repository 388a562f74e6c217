--------------------------- MODULE ExtractionProofs ---------------------------
(***************************************************************************)
(* Type correctness of Extraction, and that nothing that was extracted is  *)
(* lost while no handler outlives its job: for any number of handlers,     *)
(* messages and retries, and any size of a batch.                          *)
(***************************************************************************)
EXTENDS Extraction, TLAPS

-----------------------------------------------------------------------------
(* The inductive invariant.                                                *)

\* An owner has a job, there is no other owner, and without a handler that
\* outlived its job whoever runs is an owner: at most one runs.
Sole ==
  /\ owners # {} => active # {}
  /\ \A r, q \in owners : r = q
  /\ ~outlived => \A r \in Runs : pc[r] # "idle" => r \in owners

\* What a handler is about to extract or to give up on is pending still.
Holds(r) ==
  /\ pc[r] # "save" => ctx[r].extracted = {}
  /\ pc[r] \in {"call", "call again"} => \A m \in ctx[r].batch : row[m] = "pending"
  /\ pc[r] = "save" => /\ ctx[r].failed \cap ctx[r].extracted = {}
                       /\ \A m \in ctx[r].failed \cup ctx[r].extracted : row[m] = "pending"

IInv == TypeOK /\ Sole /\ (~outlived => \A r \in Runs : Holds(r))

-----------------------------------------------------------------------------
(* Helpers.                                                                *)

\* A run has no more in its batch than it was offered.
LEMMA OldestSubset ==
  ASSUME NEW some
  PROVE  Oldest(some) \subseteq some
  BY DEF Oldest

\* A run that holds nothing is well typed.
LEMMA EmptyTypes ==
  NoContext \in Context /\ NoContext.extracted = {}
  BY DEF NoContext, Context

\* A step of one run to a known place is well typed, and moves no other.
LEMMA GotoTypes ==
  ASSUME TypeOK, NEW r \in Runs, NEW step \in Steps, Goto(r, step)
  PROVE  /\ pc' \in [Runs -> Steps] /\ pc'[r] = step
         /\ \A q \in Runs : q # r => pc'[q] = pc[q]
  BY DEF Goto, TypeOK

\* So is what one run reads.
LEMMA ReadTypes ==
  ASSUME TypeOK, NEW r \in Runs, NEW c \in Context, ctx' = [ctx EXCEPT ![r] = c]
  PROVE  /\ ctx' \in [Runs -> Context] /\ ctx'[r] = c
         /\ \A q \in Runs : q # r => ctx'[q] = ctx[q]
  BY DEF TypeOK

\* A handler that returns or throws ends, and the queue keeps its types.
LEMMA StopTypes ==
  ASSUME TypeOK, NEW r \in Runs, Stop(r), Complete(r) \/ Fail(r)
  PROVE  /\ pc' \in [Runs -> Steps] /\ pc'[r] = "idle"
         /\ ctx' \in [Runs -> Context] /\ ctx'[r] = NoContext
         /\ \A q \in Runs : q # r => pc'[q] = pc[q] /\ ctx'[q] = ctx[q]
         /\ waiting' \in SUBSET Job /\ active' \in SUBSET Job
         /\ owners' = owners \ {r}
         /\ (r \notin owners => active' = active)
  <1>1. /\ Goto(r, "idle") /\ ctx' = [ctx EXCEPT ![r] = NoContext]
        /\ owners' = owners \ {r}
    BY DEF Stop
  <1>2. {[tries |-> j.tries + 1] : j \in {k \in active : k.tries < RetryLimit}} \subseteq Job
    BY ExtractionAssumption DEF TypeOK, Job
  <1>3. waiting' \in SUBSET Job /\ active' \in SUBSET Job /\ (r \notin owners => active' = active)
    BY <1>2 DEF Complete, Fail, FailActive, TypeOK, queue
  <1> QED
    BY <1>1, <1>3, EmptyTypes, GotoTypes, ReadTypes DEF Steps

\* The rows a handler holds stand as long as no other one takes them.
LEMMA HoldsStays ==
  ASSUME NEW r \in Runs, Holds(r), pc'[r] = pc[r], ctx'[r] = ctx[r],
         \A m \in Messages : row[m] = "pending" => row'[m] = "pending",
         ctx[r] \in Context
  PROVE  Holds(r)'
  <1>1. /\ ctx[r].batch \subseteq Messages
        /\ ctx[r].failed \subseteq Messages /\ ctx[r].extracted \subseteq Messages
    BY DEF Context
  <1> QED
    BY <1>1 DEF Holds

\* Only one handler runs, so one that has something to save is the only one.
LEMMA OthersIdle ==
  ASSUME Sole, ~outlived, NEW r \in Runs, pc[r] # "idle"
  PROVE  \A q \in Runs : q # r => pc[q] = "idle"
  BY DEF Sole

-----------------------------------------------------------------------------
(* Handlers.                                                               *)

\* The end of a handler, whatever it did to the rows.
LEMMA StopStep ==
  ASSUME IInv, NEW r \in Runs, pc[r] # "idle", Stop(r), Complete(r) \/ Fail(r),
         UNCHANGED outlived, row' \in [Messages -> Rows]
  PROVE  IInv'
  <1>1. TypeOK /\ Sole /\ (~outlived => \A q \in Runs : Holds(q))
    BY DEF IInv
  <1>2. /\ pc' \in [Runs -> Steps] /\ pc'[r] = "idle"
        /\ ctx' \in [Runs -> Context] /\ ctx'[r] = NoContext
        /\ \A q \in Runs : q # r => pc'[q] = pc[q] /\ ctx'[q] = ctx[q]
        /\ waiting' \in SUBSET Job /\ active' \in SUBSET Job
        /\ owners' = owners \ {r}
        /\ (r \notin owners => active' = active)
    BY <1>1, StopTypes
  <1>3. TypeOK'
    BY <1>1, <1>2 DEF TypeOK
  <1>4. Sole'
    BY <1>1, <1>2 DEF Sole
  <1>5. ASSUME ~outlived', NEW q \in Runs PROVE Holds(q)'
    <2>1. CASE q = r
      BY <1>2, <2>1 DEF Holds, NoContext
    <2>2. CASE q # r
      <3>1. pc[q] = "idle" /\ Holds(q)
        BY <1>1, <1>5, <2>2, OthersIdle
      <3> QED
        BY <1>2, <2>2, <3>1 DEF Holds
    <2> QED
      BY <2>1, <2>2
  <1> QED
    BY <1>3, <1>4, <1>5 DEF IInv

\* A handler that goes on: it is the only one, or one has outlived its job.
LEMMA GoOn ==
  ASSUME IInv, NEW r \in Runs, pc[r] # "idle", NEW step \in Steps, Goto(r, step),
         NEW c \in Context, ctx' = [ctx EXCEPT ![r] = c],
         row' \in [Messages -> Rows], ~outlived => Holds(r)',
         UNCHANGED <<queue, owners, outlived>>
  PROVE  IInv'
  <1>1. TypeOK /\ Sole /\ (~outlived => \A q \in Runs : Holds(q))
    BY DEF IInv
  <1>2. /\ pc' \in [Runs -> Steps] /\ pc'[r] = step
        /\ \A q \in Runs : q # r => pc'[q] = pc[q]
    BY <1>1, GotoTypes
  <1>3. /\ ctx' \in [Runs -> Context] /\ ctx'[r] = c
        /\ \A q \in Runs : q # r => ctx'[q] = ctx[q]
    BY <1>1, ReadTypes
  <1>4. TypeOK'
    BY <1>1, <1>2, <1>3 DEF TypeOK, queue
  <1>5. Sole'
    BY <1>1, <1>2 DEF Sole, queue
  <1>6. ASSUME ~outlived', NEW q \in Runs PROVE Holds(q)'
    <2>1. CASE q # r
      <3>1. pc[q] = "idle" /\ Holds(q)
        BY <1>1, <1>6, <2>1, OthersIdle
      <3> QED
        BY <1>2, <1>3, <2>1, <3>1 DEF Holds
    <2> QED
      BY <1>6, <2>1
  <1> QED
    BY <1>4, <1>5, <1>6 DEF IInv

\* Nothing is pending, or a batch is.
LEMMA LoadStep ==
  ASSUME IInv, NEW r \in Runs, Load(r)
  PROVE  IInv'
  <1>1. TypeOK /\ pc[r] # "idle" /\ pc[r] = "load" /\ UNCHANGED <<row, outlived>>
    BY DEF IInv, Load, At
  <1>2. CASE Pending = {}
    BY <1>1, <1>2, StopStep DEF Load, TypeOK
  <1>3. CASE Pending # {}
    <2> DEFINE c == [ctx[r] EXCEPT !.batch = Oldest(Pending)]
    <2>1. /\ ctx' = [ctx EXCEPT ![r] = c] /\ Goto(r, "call")
          /\ UNCHANGED <<queue, owners, outlived>>
      BY <1>1, <1>3 DEF Load
    <2>2. ctx[r] \in Context /\ Oldest(Pending) \subseteq Pending
      BY <1>1, OldestSubset DEF TypeOK
    <2>3. c \in Context /\ c.batch \subseteq Pending /\ c.extracted = ctx[r].extracted
      BY <2>2 DEF Context, Pending
    <2> HIDE DEF c
    <2>4. pc'[r] = "call" /\ ctx'[r] = c
      BY <1>1, <2>1, <2>3, GotoTypes, ReadTypes DEF Steps
    <2>5. ~outlived => Holds(r)'
      BY <1>1, <2>3, <2>4 DEF IInv, Holds, Pending
    <2> QED
      BY <1>1, <2>1, <2>3, <2>5, GoOn DEF Steps, TypeOK
  <1> QED
    BY <1>2, <1>3

\* The answer splits the batch.
LEMMA AnswerStep ==
  ASSUME IInv, NEW r \in Runs, Answer(r)
  PROVE  IInv'
  <1>1. TypeOK /\ pc[r] # "idle" /\ pc[r] \in {"call", "call again"}
    BY DEF IInv, Answer, At
  <1>2. PICK covered \in SUBSET ctx[r].batch :
          ctx' = [ctx EXCEPT ![r] = [batch     |-> ctx[r].batch,
                                     extracted |-> covered,
                                     failed    |-> ctx[r].batch \ covered]]
    BY DEF Answer
  <1> DEFINE c == [batch |-> ctx[r].batch, extracted |-> covered,
                   failed |-> ctx[r].batch \ covered]
  <1>3. Goto(r, "save") /\ UNCHANGED <<row, queue, owners, outlived>>
    BY DEF Answer
  <1>4. c \in Context
    BY <1>1 DEF TypeOK, Context
  <1>5. c.extracted = covered /\ c.failed = ctx[r].batch \ covered
    OBVIOUS
  <1>6. ctx' = [ctx EXCEPT ![r] = c]
    BY <1>2
  <1> HIDE DEF c
  <1>7. pc'[r] = "save" /\ ctx'[r] = c
    BY <1>1, <1>3, <1>4, <1>6, GotoTypes, ReadTypes DEF Steps
  <1>8. ~outlived => Holds(r)'
    BY <1>1, <1>3, <1>5, <1>7 DEF IInv, Holds
  <1> QED
    BY <1>1, <1>3, <1>4, <1>6, <1>8, GoOn DEF Steps, TypeOK

\* No answer: once more.
LEMMA NoAnswerStep ==
  ASSUME IInv, NEW r \in Runs, NoAnswer(r)
  PROVE  IInv'
  <1>1. TypeOK /\ pc[r] # "idle" /\ pc[r] = "call" /\ Goto(r, "call again")
    BY DEF IInv, NoAnswer, At
  <1>2. UNCHANGED <<row, queue, owners, ctx, outlived>>
    BY DEF NoAnswer
  <1>3. ctx[r] \in Context /\ ctx' = [ctx EXCEPT ![r] = ctx[r]]
    BY <1>1, <1>2 DEF TypeOK
  <1>4. pc'[r] = "call again"
    BY <1>1, GotoTypes DEF Steps
  <1>5. ~outlived => Holds(r)'
    BY <1>1, <1>2, <1>4 DEF IInv, Holds
  <1> QED
    BY <1>1, <1>2, <1>3, <1>5, GoOn DEF Steps, TypeOK

\* No answer again: the whole batch has failed.
LEMMA GiveUpStep ==
  ASSUME IInv, NEW r \in Runs, GiveUp(r)
  PROVE  IInv'
  <1> DEFINE c == [ctx[r] EXCEPT !.failed = ctx[r].batch]
  <1>1. TypeOK /\ pc[r] # "idle" /\ pc[r] = "call again" /\ Goto(r, "save")
    BY DEF IInv, GiveUp, At
  <1>2. ctx' = [ctx EXCEPT ![r] = c] /\ UNCHANGED <<row, queue, owners, outlived>>
    BY DEF GiveUp
  <1>3. ctx[r] \in Context
    BY <1>1 DEF TypeOK
  <1>4. c \in Context /\ c.failed = ctx[r].batch /\ c.extracted = ctx[r].extracted
    BY <1>3 DEF Context
  <1> HIDE DEF c
  <1>5. pc'[r] = "save" /\ ctx'[r] = c
    BY <1>1, <1>2, <1>4, GotoTypes, ReadTypes DEF Steps
  <1>6. ~outlived => Holds(r)'
    BY <1>1, <1>2, <1>4, <1>5 DEF IInv, Holds
  <1> QED
    BY <1>1, <1>2, <1>4, <1>6, GoOn DEF Steps, TypeOK

\* One message saved: it was none of the failed ones.
LEMMA SaveOneStep ==
  ASSUME IInv, NEW r \in Runs, SaveOne(r)
  PROVE  IInv'
  <1>1. PICK m \in ctx[r].extracted :
          /\ row' = [row EXCEPT ![m] = "value"]
          /\ ctx' = [ctx EXCEPT ![r].extracted = @ \ {m}]
    BY DEF SaveOne
  <1> DEFINE c == [ctx[r] EXCEPT !.extracted = @ \ {m}]
  <1>2. TypeOK /\ pc[r] # "idle" /\ pc[r] = "save" /\ UNCHANGED <<queue, pc, owners, outlived>>
    BY DEF IInv, SaveOne, At
  <1>3. ctx[r] \in Context
    BY <1>2 DEF TypeOK
  <1>4. c \in Context /\ c.failed = ctx[r].failed /\ c.extracted = ctx[r].extracted \ {m}
    BY <1>3 DEF Context
  <1>5. ctx' = [ctx EXCEPT ![r] = c]
    BY <1>1
  <1> HIDE DEF c
  <1>6. Goto(r, "save")
    BY <1>2 DEF Goto, TypeOK
  <1>7. pc'[r] = "save" /\ ctx'[r] = c
    BY <1>2, <1>4, <1>5, ReadTypes
  <1>8. row' \in [Messages -> Rows] /\ \A k \in Messages : k # m => row'[k] = row[k]
    BY <1>1, <1>2 DEF TypeOK, Rows
  <1>9. ctx[r].failed \subseteq Messages /\ ctx[r].extracted \subseteq Messages
    BY <1>3 DEF Context
  <1>10. ~outlived => Holds(r)'
    BY <1>2, <1>4, <1>7, <1>8, <1>9 DEF IInv, Holds
  <1> QED
    BY <1>2, <1>4, <1>5, <1>6, <1>8, <1>10, GoOn DEF Steps

\* The failures are marked, and the handler returns; or a statement fails.
LEMMA EndStep ==
  ASSUME IInv, NEW r \in Runs, Mark(r) \/ Throw(r)
  PROVE  IInv'
  <1>1. TypeOK /\ pc[r] # "idle" /\ Stop(r) /\ UNCHANGED outlived
    BY DEF IInv, Mark, Throw, At
  <1>2. (Complete(r) \/ Fail(r)) /\ row' \in [Messages -> Rows]
    BY <1>1 DEF Mark, Throw, TypeOK, Rows
  <1> QED
    BY <1>1, <1>2, StopStep

\* The worker fetches a job: then there was no owner, and if no handler has
\* outlived its job nobody runs.
LEMMA FetchStep ==
  ASSUME IInv, NEW r \in Runs, Fetch(r)
  PROVE  IInv'
  <1>1. TypeOK /\ Sole /\ UNCHANGED <<row, ctx, outlived>> /\ Goto(r, "load") /\ pc[r] = "idle"
    BY DEF IInv, Fetch, At
  <1>2. /\ pc' \in [Runs -> Steps] /\ pc'[r] = "load"
        /\ \A q \in Runs : q # r => pc'[q] = pc[q]
    BY <1>1, GotoTypes DEF Steps
  <1>3. PICK j \in waiting : waiting' = waiting \ {j} /\ active' = {j}
    BY DEF Fetch
  <1>4. active = {} /\ owners' = owners \cup {r} /\ owners = {}
    BY <1>1 DEF Fetch, Sole
  <1>5. TypeOK'
    BY <1>1, <1>2, <1>3, <1>4 DEF TypeOK
  <1>6. Sole'
    BY <1>1, <1>2, <1>3, <1>4 DEF Sole
  <1>7. ASSUME ~outlived', NEW q \in Runs PROVE Holds(q)'
    BY <1>1, <1>2, <1>7 DEF IInv, Holds
  <1> QED
    BY <1>5, <1>6, <1>7 DEF IInv

-----------------------------------------------------------------------------
(* The rest.                                                               *)

\* The schedule, expiry, a crash, and a sync.
LEMMA OutsideStep ==
  ASSUME IInv, Schedule \/ Expire \/ Crash \/ \E m \in Messages : Upsert(m)
  PROVE  IInv'
  <1>1. TypeOK /\ Sole /\ (~outlived => \A q \in Runs : Holds(q))
    BY DEF IInv
  <1>2. \A q \in Runs : ctx[q] \in Context
    BY <1>1 DEF TypeOK
  <1>3. CASE Schedule
    <2>1. [tries |-> 0] \in Job
      BY ExtractionAssumption DEF Job
    <2>2. TypeOK' /\ Sole'
      BY <1>1, <1>3, <2>1 DEF Schedule, TypeOK, Sole, run
    <2> QED
      BY <1>1, <1>2, <1>3, <2>2, HoldsStays DEF Schedule, run, IInv
  <1>4. CASE Expire
    <2>1. {[tries |-> j.tries + 1] : j \in {k \in active : k.tries < RetryLimit}} \subseteq Job
      BY <1>1, ExtractionAssumption DEF TypeOK, Job
    <2>2. TypeOK'
      BY <1>1, <1>4, <2>1 DEF Expire, FailActive, TypeOK
    <2>3. Sole' /\ (~outlived' => ~outlived)
      BY <1>1, <1>4 DEF Expire, FailActive, Sole, TypeOK
    <2> QED
      BY <1>1, <1>2, <1>4, <2>2, <2>3, HoldsStays DEF Expire, IInv
  <1>5. CASE Crash
    <2>1. TypeOK' /\ Sole'
      BY <1>1, <1>5, EmptyTypes DEF Crash, TypeOK, Steps, Sole, queue
    <2>2. \A q \in Runs : pc'[q] = "idle" /\ ctx'[q] = NoContext
      BY <1>5 DEF Crash
    <2>3. \A q \in Runs : Holds(q)'
      BY <2>2, EmptyTypes DEF Holds
    <2> QED
      BY <2>1, <2>3 DEF IInv
  <1>6. ASSUME NEW m \in Messages, Upsert(m) PROVE IInv'
    <2>1. /\ row' \in [Messages -> Rows]
          /\ \A k \in Messages : row[k] = "pending" => row'[k] = "pending"
      BY <1>1, <1>6 DEF Upsert, TypeOK, Rows
    <2>2. TypeOK' /\ Sole'
      BY <1>1, <1>6, <2>1 DEF Upsert, TypeOK, Sole, queue, run
    <2> QED
      BY <1>1, <1>2, <1>6, <2>1, <2>2, HoldsStays DEF Upsert, run, IInv
  <1> QED
    BY <1>3, <1>4, <1>5, <1>6

\* At the start nobody runs.
LEMMA InitHolds ==
  ASSUME Init
  PROVE  IInv
  <1>1. TypeOK /\ Sole
    BY EmptyTypes DEF Init, TypeOK, Rows, Steps, Sole
  <1>2. \A r \in Runs : pc[r] = "idle" /\ ctx[r] = NoContext
    BY DEF Init
  <1>3. \A r \in Runs : Holds(r)
    BY <1>2, EmptyTypes DEF Holds
  <1> QED
    BY <1>1, <1>3 DEF IInv

\* The invariant is inductive.
LEMMA Inductive ==
  IInv /\ [Next]_vars => IInv'
  <1> SUFFICES ASSUME IInv, [Next]_vars
               PROVE  IInv'
    OBVIOUS
  <1>1. CASE UNCHANGED vars
    <2>1. TypeOK' /\ Sole' /\ (~outlived' => \A r \in Runs : Holds(r)')
      BY <1>1 DEF vars, queue, run, IInv, TypeOK, Sole, Holds
    <2> QED
      BY <2>1 DEF IInv
  <1>2. ASSUME NEW r \in Runs, Fetch(r) \/ Step(r) PROVE IInv'
    BY <1>2, FetchStep, LoadStep, AnswerStep, NoAnswerStep, GiveUpStep, SaveOneStep, EndStep
    DEF Step
  <1> QED
    BY <1>1, <1>2, OutsideStep DEF Next

\* Every reachable state satisfies it.
LEMMA Invariance ==
  Spec => []IInv
  BY InitHolds, Inductive, PTL DEF Spec

\* Every variable keeps the type its table or queue has.
THEOREM TypeCorrect ==
  Spec => []TypeOK
  <1>1. IInv => TypeOK
    BY DEF IInv
  <1> QED
    BY <1>1, Invariance, PTL

\* What the language model was paid for is not thrown away: no sync, retry,
\* throw or crash between two saves replaces an extraction, and only a handler
\* that outlived its job could mark as failed what another has extracted.
THEOREM PaidForKept ==
  Spec => ExtractionKept
  <1>1. IInv /\ [Next]_vars =>
          [~outlived' => \A m \in Messages : row[m] = "value" => row'[m] = "value"]_vars
    <2> SUFFICES ASSUME IInv, Next, ~outlived', NEW m \in Messages, row[m] = "value"
                 PROVE  row'[m] = "value"
      OBVIOUS
    <2>1. TypeOK /\ row \in [Messages -> Rows] /\ outlived \in BOOLEAN
      BY DEF IInv, TypeOK
    <2>2. ASSUME NEW r \in Runs, Mark(r) PROVE row'[m] = "value"
      <3>1. ~outlived /\ pc[r] = "save"
        BY <2>2 DEF Mark, At
      <3>2. m \notin ctx[r].failed
        BY <3>1 DEF IInv, Holds
      <3> QED
        BY <2>2, <3>2 DEF Mark
    <2>3. ASSUME NEW r \in Runs, SaveOne(r) PROVE row'[m] = "value"
      BY <2>1, <2>3 DEF SaveOne
    <2>4. ASSUME NEW r \in Runs,
                 Fetch(r) \/ Load(r) \/ Answer(r) \/ NoAnswer(r) \/ GiveUp(r) \/ Throw(r)
          PROVE  row'[m] = "value"
      BY <2>4 DEF Fetch, Load, Answer, NoAnswer, GiveUp, Throw
    <2>5. ASSUME NEW k \in Messages, Upsert(k) PROVE row'[m] = "value"
      BY <2>1, <2>5 DEF Upsert
    <2>6. CASE Schedule \/ Expire \/ Crash
      BY <2>6 DEF Schedule, Expire, Crash
    <2> QED
      BY <2>2, <2>3, <2>4, <2>5, <2>6 DEF Next, Step
  <1> QED
    BY <1>1, Invariance, PTL DEF Spec, ExtractionKept

-----------------------------------------------------------------------------
(* The rows alone.                                                         *)

\* What a handler has read has a row, also one that has outlived its job.
Seen ==
  \A r \in Runs : \A m \in Messages :
    m \in ctx[r].batch \cup ctx[r].extracted \cup ctx[r].failed => row[m] # "absent"

\* A handler that starts has read nothing.
LEMMA SeenInit == Init => Seen
  BY DEF Init, Seen, NoContext

\* No row disappears.
LEMMA RowsStay ==
  ASSUME IInv, [Next]_vars, NEW m \in Messages, row[m] # "absent"
  PROVE  row'[m] # "absent"
  <1>1. row \in [Messages -> Rows]
    BY DEF IInv, TypeOK
  <1>2. CASE UNCHANGED vars
    BY <1>2 DEF vars
  <1>3. ASSUME NEW r \in Runs, SaveOne(r) \/ Mark(r) PROVE row'[m] # "absent"
    BY <1>1, <1>3 DEF SaveOne, Mark
  <1>4. ASSUME NEW r \in Runs,
               Fetch(r) \/ Load(r) \/ Answer(r) \/ NoAnswer(r) \/ GiveUp(r) \/ Throw(r)
        PROVE  row'[m] # "absent"
    BY <1>4 DEF Fetch, Load, Answer, NoAnswer, GiveUp, Throw
  <1>5. ASSUME NEW k \in Messages, Upsert(k) PROVE row'[m] # "absent"
    BY <1>1, <1>5 DEF Upsert
  <1>6. CASE Schedule \/ Expire \/ Crash
    BY <1>6 DEF Schedule, Expire, Crash
  <1> QED
    BY <1>2, <1>3, <1>4, <1>5, <1>6 DEF Next, Step

\* A handler reads what is pending, and answers for no more than it has read.
LEMMA SeenStep ==
  ASSUME IInv, Seen, NEW r \in Runs, Step(r), NEW q \in Runs, NEW m \in Messages,
         m \in ctx'[q].batch \cup ctx'[q].extracted \cup ctx'[q].failed
  PROVE  row[m] # "absent"
  <1>1. TypeOK /\ ctx[r] \in Context /\ ctx[q] \in Context
    BY DEF IInv, TypeOK
  <1>2. CASE q # r
    <2>1. ctx'[q] = ctx[q]
      BY <1>1, <1>2 DEF TypeOK, Step, Load, Answer, NoAnswer, GiveUp, SaveOne, Mark, Throw, Stop
    <2> QED
      BY <2>1 DEF Seen
  <1>3. CASE q = r
    <2>1. CASE ctx'[r] = NoContext
      BY <1>3, <2>1 DEF NoContext
    <2>2. CASE ctx'[r] = [ctx[r] EXCEPT !.batch = Oldest(Pending)]
      <3>1. Oldest(Pending) \subseteq Pending
        BY OldestSubset
      <3>2. /\ ctx'[r].batch = Oldest(Pending)
            /\ ctx'[r].extracted = ctx[r].extracted /\ ctx'[r].failed = ctx[r].failed
        BY <1>1, <2>2 DEF Context
      <3> QED
        BY <1>3, <3>1, <3>2 DEF Seen, Pending
    <2>3. CASE Answer(r)
      <3>1. PICK covered \in SUBSET ctx[r].batch :
              ctx' = [ctx EXCEPT ![r] = [batch     |-> ctx[r].batch,
                                         extracted |-> covered,
                                         failed    |-> ctx[r].batch \ covered]]
        BY <2>3 DEF Answer
      <3>2. ctx'[r] = [batch |-> ctx[r].batch, extracted |-> covered,
                       failed |-> ctx[r].batch \ covered]
        BY <1>1, <3>1 DEF TypeOK
      <3> QED
        BY <1>3, <3>2 DEF Seen
    <2>4. CASE ctx'[r] = [ctx[r] EXCEPT !.failed = ctx[r].batch]
      <3>1. /\ ctx'[r].batch = ctx[r].batch /\ ctx'[r].failed = ctx[r].batch
            /\ ctx'[r].extracted = ctx[r].extracted
        BY <1>1, <2>4 DEF Context
      <3> QED
        BY <1>3, <3>1 DEF Seen
    <2>5. CASE \E k \in ctx[r].extracted : ctx'[r] = [ctx[r] EXCEPT !.extracted = @ \ {k}]
      <3>1. /\ ctx'[r].batch = ctx[r].batch /\ ctx'[r].failed = ctx[r].failed
            /\ ctx'[r].extracted \subseteq ctx[r].extracted
        BY <1>1, <2>5 DEF Context
      <3> QED
        BY <1>3, <3>1 DEF Seen
    <2>6. CASE ctx'[r] = ctx[r]
      BY <1>3, <2>6 DEF Seen
    <2>7. CASE Load(r) \/ NoAnswer(r) \/ GiveUp(r) \/ SaveOne(r) \/ Mark(r) \/ Throw(r)
      <3>1. \/ ctx'[r] = NoContext \/ ctx'[r] = ctx[r]
            \/ ctx'[r] = [ctx[r] EXCEPT !.batch = Oldest(Pending)]
            \/ ctx'[r] = [ctx[r] EXCEPT !.failed = ctx[r].batch]
            \/ \E k \in ctx[r].extracted : ctx'[r] = [ctx[r] EXCEPT !.extracted = @ \ {k}]
        BY <1>1, <2>7 DEF TypeOK, Load, NoAnswer, GiveUp, SaveOne, Mark, Throw, Stop
      <3> QED
        BY <2>1, <2>2, <2>4, <2>5, <2>6, <3>1
    <2> QED
      BY <2>3, <2>7 DEF Step
  <1> QED
    BY <1>2, <1>3

\* No step makes a handler read what has no row.
LEMMA SeenNext == IInv /\ Seen /\ [Next]_vars => Seen'
  <1> SUFFICES ASSUME IInv, Seen, [Next]_vars, NEW q \in Runs, NEW m \in Messages,
                      m \in ctx'[q].batch \cup ctx'[q].extracted \cup ctx'[q].failed
               PROVE  row[m] # "absent"
    BY RowsStay DEF Seen
  <1>1. CASE Crash
    BY <1>1 DEF Crash, NoContext
  <1>2. CASE UNCHANGED ctx
    BY <1>2 DEF Seen
  <1>3. (\E r \in Runs : Step(r)) \/ Crash \/ UNCHANGED ctx
    BY DEF Next, Fetch, Upsert, Schedule, Expire, vars, run
  <1> QED
    BY <1>1, <1>2, <1>3, SeenStep

\* A step of the whole is one of the rows or none.
LEMMA Simulates == IInv /\ Seen /\ [Next]_vars => [Promise!Next]_(Promise!vars)
  <1> SUFFICES ASSUME IInv, Seen, [Next]_vars
               PROVE  Promise!Next \/ UNCHANGED Promise!vars
    OBVIOUS
  <1>1. /\ row \in [Messages -> Rows] /\ outlived \in BOOLEAN
        /\ \A r \in Runs : ctx[r] \in Context
    BY DEF IInv, TypeOK
  <1>2. ASSUME NEW r \in Runs, SaveOne(r) PROVE Promise!Next
    <2>1. PICK m \in ctx[r].extracted : row' = [row EXCEPT ![m] = "value"]
      BY <1>2 DEF SaveOne
    <2>2. m \in Messages /\ row[m] # "absent"
      BY <1>1 DEF Seen, Context
    <2>3. ~outlived => row[m] = "pending"
      BY <1>2 DEF SaveOne, At, IInv, Holds
    <2>4. Promise!Extract(m)
      BY <1>1, <1>2, <2>1, <2>2, <2>3
      DEF SaveOne, Promise!Extract, Promise!Open, Promise!Pending, Promise!Absent
    <2> QED
      BY <2>2, <2>4 DEF Promise!Next
  <1>3. ASSUME NEW r \in Runs, Mark(r) PROVE Promise!Next
    <2>1. ctx[r].failed \subseteq Messages /\ \A m \in ctx[r].failed : row[m] # "absent"
      BY <1>1 DEF Seen, Context
    <2>2. ~outlived => \A m \in ctx[r].failed : row[m] = "pending"
      BY <1>3 DEF Mark, At, IInv, Holds
    <2>3. \A m \in ctx[r].failed : Promise!Open(m)
      BY <1>1, <2>1, <2>2 DEF Promise!Open, Promise!Pending, Promise!Absent
    <2>4. Promise!GiveUp(ctx[r].failed)
      BY <1>3, <2>3 DEF Mark, Promise!GiveUp
    <2> QED
      BY <2>1, <2>4 DEF Promise!Next
  <1>4. ASSUME NEW m \in Messages, Upsert(m) PROVE Promise!Next \/ UNCHANGED Promise!vars
    <2>1. CASE row[m] = "absent"
      BY <1>1, <1>4, <2>1 DEF Upsert, Promise!Next, Promise!Insert, Promise!Absent
    <2>2. CASE row[m] # "absent"
      BY <1>1, <1>4, <2>2 DEF Upsert, Promise!vars
    <2> QED
      BY <2>1, <2>2
  <1>5. CASE Expire
    <2>1. UNCHANGED row /\ (outlived' = TRUE \/ outlived' = outlived)
      BY <1>1, <1>5 DEF Expire
    <2> QED
      BY <2>1 DEF Promise!Next, Promise!Loosen, Promise!vars
  <1>6. CASE UNCHANGED <<row, outlived>>
    BY <1>6 DEF Promise!vars
  <1>7. ASSUME NEW r \in Runs,
               Fetch(r) \/ Load(r) \/ Answer(r) \/ NoAnswer(r) \/ GiveUp(r) \/ Throw(r)
        PROVE  UNCHANGED <<row, outlived>>
    BY <1>7 DEF Fetch, Load, Answer, NoAnswer, GiveUp, Throw
  <1>8. CASE Schedule \/ Crash \/ UNCHANGED vars
    BY <1>6, <1>8 DEF Schedule, Crash, vars
  <1> QED
    BY <1>2, <1>3, <1>4, <1>5, <1>6, <1>7, <1>8 DEF Next, Step

\* Extraction implements Attempts: every message is settled once, for any number of
\* handlers, messages and retries, any batches, crashes and answers of the model.
THEOREM Settles == Spec => SettlesOnce
  <1>1. Init => Promise!Init
    BY DEF Init, Promise!Init
  <1>2. Spec => []Seen
    BY Invariance, SeenInit, SeenNext, PTL DEF Spec
  <1> QED
    BY <1>1, <1>2, Invariance, Simulates, PTL DEF Spec, SettlesOnce, Promise!Spec

\* Whatever implements Attempts keeps the rows what they are: it settles each once.
LEMMA AttemptsSettle == Promise!Spec => Promise!SettledOnce
  <1> DEFINE Typed == row \in [Messages -> Rows]
             Kept  == \A m \in Messages : row[m] \in {"value", "error"} =>
                        /\ row'[m] # "pending" /\ row'[m] # "absent"
                        /\ ~outlived' => row'[m] = row[m]
  <1> USE DEF Promise!Insert, Promise!Extract, Promise!GiveUp, Promise!Loosen,
              Promise!Open, Promise!Pending, Promise!Absent
  <1>1. Promise!Init => Typed
    BY DEF Promise!Init, Rows
  <1>2. Typed /\ [Promise!Next]_(Promise!vars) => Typed'
    BY DEF Promise!Next, Promise!vars, Rows
  <1>3. Typed /\ Promise!Next => Kept
    <2>1. ASSUME Typed, NEW m \in Messages, Promise!Insert(m) \/ Promise!Extract(m)
          PROVE  Kept
      BY <2>1
    <2>2. ASSUME NEW S \in SUBSET Messages, Promise!GiveUp(S) PROVE Kept
      BY <2>2
    <2>3. ASSUME Promise!Loosen PROVE Kept
      BY <2>3
    <2> QED
      BY <2>1, <2>2, <2>3 DEF Promise!Next
  <1>4. Typed /\ [Promise!Next]_(Promise!vars) => [Kept]_(Promise!vars)
    BY <1>3
  <1>5. Promise!Spec => [][Kept]_(Promise!vars)
    BY <1>1, <1>2, <1>4, PTL DEF Promise!Spec
  <1> QED
    BY <1>5 DEF Promise!SettledOnce

\* So a failure is as final as an extraction: while no handler outlives its job, no
\* row that has been settled changes, and none is ever pending again.
THEOREM SettledForGood == Spec => Promise!SettledOnce
  BY Settles, AttemptsSettle DEF SettlesOnce
=============================================================================
