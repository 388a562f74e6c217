-------------------------- MODULE DeliverBriefProofs --------------------------
(***************************************************************************)
(* Type correctness of DeliverBrief, and the bound on the copies of one    *)
(* email: for any number of overlapping handlers, audiences, days and      *)
(* retries.                                                                *)
(***************************************************************************)
EXTENDS DeliverBrief, FiniteSetTheorems, TLAPS

-----------------------------------------------------------------------------
(* Types.                                                                  *)

\* A run that has read nothing is well typed.
LEMMA EmptyTypes ==
  NoContext \in Context /\ NoContext.date = 0 /\ NoContext.todo = {}
  <1>1. 0 \in Day
    BY DeliverAssumption, SMT DEF Day
  <1>2. (CHOOSE a \in Audiences : TRUE) \in Audiences
    BY DeliverAssumption
  <1> QED
    BY <1>1, <1>2 DEF NoContext, Context

\* A step of one run to a known place is well typed, and moves no other.
LEMMA GotoTypes ==
  ASSUME TypeOK, NEW r \in Runs, NEW step \in Steps, Goto(r, step)
  PROVE  /\ pc' \in [Runs -> Steps] /\ pc'[r] = step
         /\ \A q \in Runs : q # r => pc'[q] = pc[q]
  BY DEF Goto, TypeOK

\* So is what one run reads.
LEMMA ReadTypes ==
  ASSUME TypeOK, NEW r \in Runs, NEW c \in Context, ctx' = [ctx EXCEPT ![r] = c]
  PROVE  /\ ctx' \in [Runs -> Context] /\ ctx'[r] = c
         /\ \A q \in Runs : q # r => ctx'[q] = ctx[q]
  BY DEF TypeOK

\* What Start writes down.
Begun(d) == [NoContext EXCEPT !.date = d, !.todo = Audiences]

\* ... is well typed.
LEMMA BegunTypes ==
  ASSUME NEW d \in Day
  PROVE  Begun(d) \in Context /\ Begun(d).date = d /\ Begun(d).todo = Audiences
  BY EmptyTypes, Zenon DEF Begun, Context

\* What LookUp writes down of a brief that is there.
Taken(c, a) == [c EXCEPT !.audience = a, !.todo = @ \ {a}]

\* ... is well typed, and of the same day.
LEMMA TakenTypes ==
  ASSUME NEW c \in Context, NEW a \in Audiences
  PROVE  /\ Taken(c, a) \in Context /\ Taken(c, a).date = c.date
         /\ Taken(c, a).audience = a /\ Taken(c, a).todo = c.todo \ {a}
  <1>1. c.todo \ {a} \in SUBSET Audiences
    BY DEF Context
  <1> QED
    BY <1>1, Zenon DEF Taken, Context

\* What it writes down of a brief that is not.
Missed(c, a) == [c EXCEPT !.todo = @ \ {a}, !.missing = @ \cup {a}]

\* ... is well typed, and of the same day.
LEMMA MissedTypes ==
  ASSUME NEW c \in Context, NEW a \in Audiences
  PROVE  /\ Missed(c, a) \in Context /\ Missed(c, a).date = c.date
         /\ Missed(c, a).todo = c.todo \ {a}
  <1>1. c.todo \ {a} \in SUBSET Audiences /\ c.missing \cup {a} \in SUBSET Audiences
    BY DEF Context
  <1> QED
    BY <1>1, Zenon DEF Missed, Context

\* A job on its way back into the queue.
LEMMA RetriedTypes ==
  ASSUME NEW j \in Job, j.tries < RetryLimit
  PROVE  /\ [j EXCEPT !.tries = @ + 1] \in Job
         /\ [j EXCEPT !.tries = @ + 1].day = j.day
         /\ [j EXCEPT !.tries = @ + 1].tries = j.tries + 1
  BY DeliverAssumption DEF Job

-----------------------------------------------------------------------------
(* The invariant.                                                          *)

\* One job a day at most, and at most one of them active.
QueueInv ==
  /\ cron <= today
  /\ \A j \in waiting \cup active : j.day <= cron
  /\ \A j, k \in waiting \cup active : j.day = k.day => j = k
  /\ waiting \cap active = {}
  /\ \A j, k \in active : j = k

\* Whose turn it is has been taken off the list.
RunInv ==
  \A r \in Runs :
    /\ ctx[r].date <= today
    /\ pc[r] = "send" => ctx[r].audience \notin ctx[r].todo

\* The runs that may still send the brief of a date to an audience, once each.
MaySend(r, a) == \/ pc[r] \in {"next", "send"} /\ a \in ctx[r].todo
                 \/ pc[r] = "send" /\ a = ctx[r].audience
Running(d, a) == {r \in Runs : ctx[r].date = d /\ MaySend(r, a)}

\* The attempts of the jobs so far: by the job's day, and the retries before it.
Attempts(d) == (0 .. d) \X (0 .. RetryLimit)

\* Those that have not begun, nor ever will if the job is done or given up.
ToGo(e, t) == \/ cron < e
              \/ \E j \in waiting : j.day = e /\ j.tries <= t
              \/ \E j \in active : j.day = e /\ j.tries < t
Open       == {p \in Attempts(today) : ToGo(p[1], p[2])}
OpenOn(d)  == IF d = today THEN Open ELSE {}

\* What has been sent, can still be sent by a run, or by an attempt to come.
Bound(d)    == (d + 1) * (RetryLimit + 1)
Count(d, a) == copies[<<d, a>>] + Cardinality(Running(d, a)) + Cardinality(OpenOn(d))

CountInv ==
  \A d \in Day, a \in Audiences :
    /\ IsFiniteSet(Running(d, a))
    /\ d <= today => Count(d, a) <= Bound(d)
    /\ d > today => copies[<<d, a>>] = 0 /\ Running(d, a) = {}

IInv == TypeOK /\ QueueInv /\ RunInv /\ CountInv

-----------------------------------------------------------------------------
(* Counting.                                                               *)

\* There are as many attempts as the bound allows copies.
LEMMA AttemptsCount ==
  ASSUME NEW d \in Nat
  PROVE  /\ IsFiniteSet(Attempts(d)) /\ Cardinality(Attempts(d)) = Bound(d)
         /\ Bound(d) \in Nat
  <1>1. RetryLimit \in Nat
    BY DeliverAssumption
  <1>2. IsFiniteSet(0 .. d) /\ Cardinality(0 .. d) = d + 1
    BY FS_Interval
  <1>3. IsFiniteSet(0 .. RetryLimit) /\ Cardinality(0 .. RetryLimit) = RetryLimit + 1
    BY <1>1, FS_Interval
  <1>4. Bound(d) \in Nat
    BY <1>1 DEF Bound
  <1> QED
    BY <1>2, <1>3, <1>4, FS_Product DEF Attempts, Bound

\* Those to go are some of them.
LEMMA OpenFinite ==
  ASSUME TypeOK
  PROVE  /\ IsFiniteSet(Open) /\ Cardinality(Open) \in Nat
         /\ Cardinality(Open) <= Bound(today)
         /\ \A d : IsFiniteSet(OpenOn(d)) /\ Cardinality(OpenOn(d)) \in Nat
  <1>1. today \in Nat
    BY DEF TypeOK, Day
  <1>2. Open \in SUBSET Attempts(today)
    BY DEF Open
  <1>3. IsFiniteSet(Open) /\ Cardinality(Open) <= Bound(today)
    BY <1>1, <1>2, AttemptsCount, FS_Subset
  <1> QED
    BY <1>3, FS_CardinalityType, FS_EmptySet DEF OpenOn

\* The same after a step.
LEMMA OpenFinitePrimed ==
  ASSUME TypeOK'
  PROVE  Cardinality(Open') \in Nat /\ Cardinality(Open') <= Bound(today')
  <1>1. today' \in Nat
    BY DEF TypeOK, Day
  <1>2. Open' \in SUBSET Attempts(today')
    BY DEF Open, Attempts
  <1> QED
    BY <1>1, <1>2, AttemptsCount, FS_Subset, FS_CardinalityType

\* A run that has sent is one that may no longer.
LEMMA SpendOne ==
  ASSUME NEW S, IsFiniteSet(S), NEW r \in S, NEW T \in SUBSET (S \ {r})
  PROVE  IsFiniteSet(T) /\ Cardinality(T) \in Nat /\ Cardinality(T) + 1 <= Cardinality(S)
  <1>1. IsFiniteSet(S \ {r}) /\ Cardinality(S \ {r}) = Cardinality(S) - 1
    BY FS_RemoveElement
  <1>2. IsFiniteSet(T) /\ Cardinality(T) <= Cardinality(S \ {r})
    BY <1>1, FS_Subset
  <1> QED
    BY <1>1, <1>2, FS_CardinalityType

\* What one email and one audience cost.
Spends(d, a) ==
  \/ /\ copies'[<<d, a>>] = copies[<<d, a>>]
     /\ Running(d, a)' \subseteq Running(d, a)
  \/ /\ copies'[<<d, a>>] = copies[<<d, a>>] + 1
     /\ \E r \in Running(d, a) : Running(d, a)' \subseteq Running(d, a) \ {r}

\* A step within a day that starts no attempt keeps the count.
LEMMA SpendStep ==
  ASSUME IInv, TypeOK', today' = today, Open' \subseteq Open,
         \A d \in Day, a \in Audiences : Spends(d, a)
  PROVE  CountInv'
  <1> SUFFICES ASSUME NEW d \in Day, NEW a \in Audiences
               PROVE  /\ IsFiniteSet(Running(d, a)')
                      /\ d <= today => Count(d, a)' <= Bound(d)
                      /\ d > today => copies'[<<d, a>>] = 0 /\ Running(d, a)' = {}
    BY DEF CountInv, Bound
  <1>1. /\ TypeOK /\ IsFiniteSet(Running(d, a))
        /\ d <= today => Count(d, a) <= Bound(d)
        /\ d > today => copies[<<d, a>>] = 0 /\ Running(d, a) = {}
    BY DEF IInv, CountInv
  <1>2. d \in Nat /\ today \in Nat /\ copies[<<d, a>>] \in Nat /\ copies'[<<d, a>>] \in Nat
    BY <1>1 DEF TypeOK, Day
  <1>3. Bound(d) \in Nat /\ Cardinality(Running(d, a)) \in Nat
        /\ Cardinality(OpenOn(d)) \in Nat /\ IsFiniteSet(OpenOn(d))
    BY <1>1, <1>2, AttemptsCount, FS_CardinalityType, OpenFinite
  <1>4. OpenOn(d)' \in SUBSET OpenOn(d)
    BY DEF OpenOn
  <1>5. Cardinality(OpenOn(d)') \in Nat /\ Cardinality(OpenOn(d)') <= Cardinality(OpenOn(d))
    BY <1>3, <1>4, FS_Subset, FS_CardinalityType
  <1>6. CASE /\ copies'[<<d, a>>] = copies[<<d, a>>]
             /\ Running(d, a)' \subseteq Running(d, a)
    <2>1. /\ IsFiniteSet(Running(d, a)') /\ Cardinality(Running(d, a)') \in Nat
          /\ Cardinality(Running(d, a)') <= Cardinality(Running(d, a))
      BY <1>1, <1>6, FS_Subset, FS_CardinalityType
    <2> QED
      BY <1>1, <1>2, <1>3, <1>5, <1>6, <2>1 DEF Count
  <1>7. CASE /\ copies'[<<d, a>>] = copies[<<d, a>>] + 1
             /\ \E r \in Running(d, a) : Running(d, a)' \subseteq Running(d, a) \ {r}
    <2>1. PICK r \in Running(d, a) : Running(d, a)' \subseteq Running(d, a) \ {r}
      BY <1>7
    <2>2. /\ IsFiniteSet(Running(d, a)') /\ Cardinality(Running(d, a)') \in Nat
          /\ Cardinality(Running(d, a)') + 1 <= Cardinality(Running(d, a))
      BY <1>1, <2>1, SpendOne
    <2>3. d <= today
      BY <1>1, <1>2, <2>1
    <2> QED
      BY <1>1, <1>2, <1>3, <1>5, <1>7, <2>2, <2>3 DEF Count
  <1> QED
    BY <1>6, <1>7 DEF Spends

-----------------------------------------------------------------------------
(* The queue.                                                              *)

\* Giving the active job up, or back for a retry, starts no attempt.
LEMMA FailActiveStep ==
  ASSUME TypeOK, QueueInv, FailActive, UNCHANGED <<cron, today>>
  PROVE  /\ waiting' \in SUBSET Job /\ active' \in SUBSET Job
         /\ QueueInv' /\ Open' \subseteq Open
  <1>1. /\ waiting \in SUBSET Job /\ active \in SUBSET Job
        /\ cron \in Int /\ today \in Int /\ RetryLimit \in Nat
    BY DeliverAssumption DEF TypeOK, Day, Never
  <1>2. active' = {} /\ waiting \subseteq waiting'
    BY DEF FailActive
  <1>3. ASSUME NEW j \in waiting', j \notin waiting
        PROVE  j \in Job /\ \E k \in active : j.day = k.day /\ j.tries = k.tries + 1
    <2>1. PICK k \in active : k.tries < RetryLimit /\ j = [k EXCEPT !.tries = @ + 1]
      BY <1>3 DEF FailActive
    <2> QED
      BY <1>1, <2>1, RetriedTypes
  <1>4. waiting' \in SUBSET Job /\ active' \in SUBSET Job
    BY <1>1, <1>2, <1>3
  <1>5. \A j \in waiting' : j.day <= cron
    BY <1>3 DEF QueueInv
  <1>6. ASSUME NEW j \in waiting', NEW k \in waiting', j.day = k.day PROVE j = k
    <2>1. CASE j \in waiting /\ k \in waiting
      BY <1>6, <2>1 DEF QueueInv
    <2>2. ASSUME NEW x \in waiting, NEW y \in waiting', y \notin waiting, x.day = y.day
          PROVE  FALSE
      <3>1. PICK l \in active : y.day = l.day
        BY <1>3, <2>2
      <3> QED
        BY <2>2, <3>1 DEF QueueInv
    <2>3. CASE j \notin waiting /\ k \notin waiting
      <3>1. PICK l \in active : l.tries < RetryLimit /\ j = [l EXCEPT !.tries = @ + 1]
        BY <2>3 DEF FailActive
      <3>2. PICK m \in active : m.tries < RetryLimit /\ k = [m EXCEPT !.tries = @ + 1]
        BY <2>3 DEF FailActive
      <3>3. l = m
        BY DEF QueueInv
      <3> QED
        BY <3>1, <3>2, <3>3
    <2> QED
      BY <1>6, <2>1, <2>2, <2>3
  <1>7. QueueInv'
    BY <1>2, <1>5, <1>6 DEF QueueInv
  <1>8. ASSUME NEW p \in Attempts(today), ToGo(p[1], p[2])'
        PROVE  ToGo(p[1], p[2])
    <2>1. p[1] \in Int /\ p[2] \in Int
      BY DEF Attempts
    <2>2. CASE cron < p[1]
      BY <2>2 DEF ToGo
    <2>3. ASSUME NEW j \in waiting', j.day = p[1], j.tries <= p[2]
          PROVE  ToGo(p[1], p[2])
      <3>1. CASE j \in waiting
        BY <2>3, <3>1 DEF ToGo
      <3>2. CASE j \notin waiting
        <4>1. PICK k \in active : j.day = k.day /\ j.tries = k.tries + 1
          BY <1>3, <3>2
        <4>2. k.tries \in Int
          BY <1>1 DEF Job
        <4>3. k.day = p[1] /\ k.tries < p[2]
          BY <2>1, <2>3, <4>1, <4>2
        <4> QED
          BY <4>3 DEF ToGo
      <3> QED
        BY <3>1, <3>2
    <2> QED
      BY <1>2, <1>8, <2>2, <2>3 DEF ToGo
  <1>9. Open' \subseteq Open
    BY <1>8 DEF Open, Attempts
  <1> QED
    BY <1>4, <1>7, <1>9

\* A job that is done takes its attempts along.
LEMMA SettledStep ==
  ASSUME TypeOK, QueueInv, NEW r \in Runs, Fail(r) \/ Complete(r), UNCHANGED <<cron, today>>
  PROVE  /\ waiting' \in SUBSET Job /\ active' \in SUBSET Job
         /\ QueueInv' /\ Open' \subseteq Open
  <1>1. CASE FailActive
    BY <1>1, FailActiveStep
  <1>2. CASE waiting' = waiting /\ active' \in {{}, active}
    <2>1. waiting' \in SUBSET Job /\ active' \in SUBSET Job
      BY <1>2 DEF TypeOK
    <2>2. active' \subseteq active
      BY <1>2
    <2>3. QueueInv'
      BY <1>2, <2>2 DEF QueueInv
    <2>4. \A p \in Attempts(today) : ToGo(p[1], p[2])' => ToGo(p[1], p[2])
      BY <1>2, <2>2 DEF ToGo
    <2>5. Open' \subseteq Open
      BY <2>4 DEF Open, Attempts
    <2> QED
      BY <2>1, <2>3, <2>5
  <1> QED
    BY <1>1, <1>2 DEF Fail, Complete, queue

-----------------------------------------------------------------------------
(* A run's steps.                                                          *)

\* What a run still has to do.
LEMMA RunTypes ==
  ASSUME IInv, NEW r \in Runs
  PROVE  /\ TypeOK /\ QueueInv /\ RunInv /\ CountInv
         /\ ctx[r] \in Context /\ ctx[r].date \in Day /\ ctx[r].audience \in Audiences
         /\ ctx[r].todo \in SUBSET Audiences /\ ctx[r].date <= today
         /\ pc[r] = "send" => ctx[r].audience \notin ctx[r].todo
         /\ today \in Day /\ today \in Nat
  <1>1. TypeOK /\ QueueInv /\ RunInv /\ CountInv
    BY DEF IInv
  <1>2. ctx[r] \in Context
    BY <1>1 DEF TypeOK
  <1> QED
    BY <1>1, <1>2 DEF TypeOK, RunInv, Context, Day

\* Runs that are not touched may send what they could.
LEMMA OthersRun ==
  ASSUME NEW r \in Runs, NEW d, NEW a,
         \A q \in Runs : q # r => pc'[q] = pc[q] /\ ctx'[q] = ctx[q]
  PROVE  /\ r \notin Running(d, a)' => Running(d, a)' \subseteq Running(d, a) \ {r}
         /\ (r \in Running(d, a)' => r \in Running(d, a))
              => Running(d, a)' \subseteq Running(d, a)
  BY DEF Running, MaySend

\* A run that stops sends nothing more.
LEMMA Stops ==
  ASSUME IInv, NEW r \in Runs, Stop(r)
  PROVE  /\ pc' \in [Runs -> Steps] /\ ctx' \in [Runs -> Context] /\ owners' \in SUBSET Runs
         /\ today' = today => RunInv'
         /\ \A d, a : Running(d, a)' \subseteq Running(d, a) \ {r}
  <1>1. TypeOK /\ RunInv /\ today \in Nat
    BY RunTypes
  <1>2. /\ pc' \in [Runs -> Steps] /\ pc'[r] = "idle"
        /\ \A q \in Runs : q # r => pc'[q] = pc[q]
    BY <1>1, GotoTypes DEF Stop, Steps
  <1>3. /\ ctx' \in [Runs -> Context] /\ ctx'[r] = NoContext
        /\ \A q \in Runs : q # r => ctx'[q] = ctx[q]
    BY <1>1, EmptyTypes, ReadTypes DEF Stop
  <1>4. today' = today => RunInv'
    BY <1>1, <1>2, <1>3, EmptyTypes DEF RunInv
  <1>5. \A d, a : r \notin Running(d, a)'
    BY <1>2 DEF Running, MaySend
  <1> QED
    BY <1>1, <1>2, <1>3, <1>4, <1>5, OthersRun DEF Stop, TypeOK

\* A run that goes on within its attempt.
LEMMA GoesOn ==
  ASSUME IInv, NEW r \in Runs, NEW step \in {"next", "send"}, NEW c \in Context,
         Goto(r, step), ctx' = [ctx EXCEPT ![r] = c], c.date = ctx[r].date,
         step = "send" => c.audience \notin c.todo,
         UNCHANGED <<today, cron, briefs, queue, owners>>, troubled' \in BOOLEAN,
         copies' \in [Day \X Audiences -> Nat],
         \A a \in Audiences :
           \/ /\ copies'[<<c.date, a>>] = copies[<<c.date, a>>]
              /\ a \in c.todo \/ (step = "send" /\ a = c.audience) => MaySend(r, a)
           \/ /\ copies'[<<c.date, a>>] = copies[<<c.date, a>>] + 1
              /\ MaySend(r, a) /\ a \notin c.todo /\ step = "next",
         \A d \in Day, a \in Audiences : d # c.date => copies'[<<d, a>>] = copies[<<d, a>>]
  PROVE  IInv'
  <1>1. TypeOK /\ QueueInv /\ RunInv /\ today \in Nat /\ step \in Steps
    BY RunTypes DEF Steps
  <1>2. /\ pc' \in [Runs -> Steps] /\ pc'[r] = step
        /\ \A q \in Runs : q # r => pc'[q] = pc[q]
    BY <1>1, GotoTypes
  <1>3. /\ ctx' \in [Runs -> Context] /\ ctx'[r] = c
        /\ \A q \in Runs : q # r => ctx'[q] = ctx[q]
    BY <1>1, ReadTypes
  <1>4. TypeOK'
    BY <1>1, <1>2, <1>3 DEF TypeOK, queue
  <1>5. QueueInv' /\ RunInv'
    BY <1>1, <1>2, <1>3 DEF QueueInv, RunInv, queue
  <1>6. Open' = Open
    BY DEF Open, ToGo, Attempts, queue
  <1>7. ASSUME NEW d \in Day, NEW a \in Audiences PROVE Spends(d, a)
    <2>1. r \in Running(d, a)' <=>
            d = c.date /\ (a \in c.todo \/ (step = "send" /\ a = c.audience))
      BY <1>2, <1>3 DEF Running, MaySend
    <2>2. r \in Running(d, a) <=> d = c.date /\ MaySend(r, a)
      BY DEF Running
    <2>3. CASE d # c.date
      BY <1>2, <1>3, <2>1, <2>3, OthersRun DEF Spends
    <2>4. CASE d = c.date /\ copies'[<<d, a>>] = copies[<<d, a>>] + 1 /\ MaySend(r, a)
               /\ a \notin c.todo /\ step = "next"
      BY <1>2, <1>3, <2>1, <2>2, <2>4, OthersRun DEF Spends
    <2>5. CASE d = c.date /\ copies'[<<d, a>>] = copies[<<d, a>>]
               /\ (a \in c.todo \/ (step = "send" /\ a = c.audience) => MaySend(r, a))
      BY <1>2, <1>3, <2>1, <2>2, <2>5, OthersRun DEF Spends
    <2> QED
      BY <2>3, <2>4, <2>5
  <1>8. CountInv'
    BY <1>4, <1>6, <1>7, SpendStep
  <1> QED
    BY <1>4, <1>5, <1>8 DEF IInv

\* getBrief.
LEMMA LookUpStep ==
  ASSUME IInv, NEW r \in Runs, LookUp(r)
  PROVE  IInv'
  <1>1. /\ TypeOK /\ ctx[r] \in Context /\ ctx[r].todo \in SUBSET Audiences
        /\ UNCHANGED <<today, cron, briefs, queue, owners, copies, troubled>>
        /\ pc[r] = "next" /\ copies \in [Day \X Audiences -> Nat] /\ troubled \in BOOLEAN
    BY RunTypes DEF LookUp, TypeOK
  <1>2. PICK a \in ctx[r].todo :
          \/ ctx' = [ctx EXCEPT ![r] = Taken(ctx[r], a)] /\ Goto(r, "send")
          \/ ctx' = [ctx EXCEPT ![r] = Missed(ctx[r], a)] /\ UNCHANGED pc
    BY Zenon DEF LookUp, Taken, Missed
  <1>3. a \in Audiences
    BY <1>1, <1>2
  <1>4. CASE ctx' = [ctx EXCEPT ![r] = Taken(ctx[r], a)] /\ Goto(r, "send")
    <2> DEFINE c == Taken(ctx[r], a)
    <2>1. /\ c \in Context /\ c.date = ctx[r].date
          /\ c.audience = a /\ c.todo = ctx[r].todo \ {a}
      BY <1>1, <1>3, TakenTypes
    <2> HIDE DEF c
    <2>2. \A b \in Audiences : b \in c.todo \/ b = c.audience => MaySend(r, b)
      BY <1>1, <1>2, <2>1 DEF MaySend
    <2>3. Goto(r, "send") /\ ctx' = [ctx EXCEPT ![r] = c]
      BY <1>4 DEF c
    <2> QED
      BY <1>1, <2>1, <2>2, <2>3, GoesOn
  <1>5. CASE ctx' = [ctx EXCEPT ![r] = Missed(ctx[r], a)] /\ UNCHANGED pc
    <2> DEFINE c == Missed(ctx[r], a)
    <2>1. c \in Context /\ c.date = ctx[r].date /\ c.todo = ctx[r].todo \ {a}
      BY <1>1, <1>3, MissedTypes
    <2> HIDE DEF c
    <2>2. \A b \in Audiences : b \in c.todo => MaySend(r, b)
      BY <1>1, <2>1 DEF MaySend
    <2>3. Goto(r, "next") /\ ctx' = [ctx EXCEPT ![r] = c]
      BY <1>1, <1>5 DEF c, Goto, TypeOK
    <2> QED
      BY <1>1, <2>1, <2>2, <2>3, GoesOn
  <1> QED
    BY <1>2, <1>4, <1>5

\* deliverBrief, with and without an email.
LEMMA SendStep ==
  ASSUME IInv, NEW r \in Runs, Accepted(r) \/ Refused(r)
  PROVE  IInv'
  <1> DEFINE c == ctx[r]
  <1>1. /\ TypeOK /\ c \in Context /\ c.date \in Day /\ c.audience \in Audiences
        /\ c.audience \notin c.todo /\ pc[r] = "send" /\ Goto(r, "next")
        /\ UNCHANGED <<today, cron, briefs, queue, owners, ctx>>
        /\ copies \in [Day \X Audiences -> Nat] /\ troubled \in BOOLEAN
        /\ troubled' \in BOOLEAN
    BY RunTypes DEF Accepted, Refused, TypeOK
  <1>2. ctx' = [ctx EXCEPT ![r] = c]
    BY <1>1 DEF TypeOK
  <1>3. MaySend(r, c.audience) /\ \A a \in c.todo : MaySend(r, a)
    BY <1>1 DEF MaySend
  <1>4. CASE Refused(r)
    <2>1. copies' = copies
      BY <1>4 DEF Refused
    <2> HIDE DEF c
    <2>2. c.date = ctx[r].date
      BY DEF c
    <2> QED
      BY <1>1, <1>2, <1>3, <2>1, <2>2, GoesOn
  <1>5. CASE Accepted(r)
    <2>1. copies' = [copies EXCEPT ![<<c.date, c.audience>>] = @ + 1]
      BY <1>5 DEF Accepted, Key
    <2> HIDE DEF c
    <2>2. c.date = ctx[r].date
      BY DEF c
    <2>3. copies' \in [Day \X Audiences -> Nat]
      BY <1>1, <2>1
    <2>4. \A d \in Day, a \in Audiences :
            copies'[<<d, a>>] = IF d = c.date /\ a = c.audience THEN copies[<<d, a>>] + 1
                                                               ELSE copies[<<d, a>>]
      BY <1>1, <2>1
    <2>5. ASSUME NEW a \in Audiences
          PROVE  \/ /\ copies'[<<c.date, a>>] = copies[<<c.date, a>>]
                    /\ a \in c.todo \/ ("next" = "send" /\ a = c.audience) => MaySend(r, a)
                 \/ /\ copies'[<<c.date, a>>] = copies[<<c.date, a>>] + 1
                    /\ MaySend(r, a) /\ a \notin c.todo /\ "next" = "next"
      BY <1>1, <1>3, <2>4
    <2>6. \A d \in Day, a \in Audiences : d # c.date => copies'[<<d, a>>] = copies[<<d, a>>]
      BY <2>4
    <2> QED
      BY <1>1, <1>2, <2>2, <2>3, <2>5, <2>6, GoesOn
  <1> QED
    BY <1>4, <1>5

\* A step that ends a run's attempt, after at most one more email.
LEMMA EndStep ==
  ASSUME IInv, NEW r \in Runs, Stop(r), Fail(r) \/ Complete(r),
         UNCHANGED <<today, cron, briefs>>, troubled' \in BOOLEAN,
         \/ copies' = copies
         \/ pc[r] = "send" /\ copies' = [copies EXCEPT ![Key(r)] = @ + 1]
  PROVE  IInv'
  <1>1. /\ TypeOK /\ QueueInv /\ ctx[r].date \in Day /\ ctx[r].audience \in Audiences
        /\ copies \in [Day \X Audiences -> Nat]
    BY RunTypes DEF TypeOK
  <1>2. /\ waiting' \in SUBSET Job /\ active' \in SUBSET Job
        /\ QueueInv' /\ Open' \subseteq Open
    BY <1>1, SettledStep
  <1>3. /\ pc' \in [Runs -> Steps] /\ ctx' \in [Runs -> Context] /\ owners' \in SUBSET Runs
        /\ RunInv'
        /\ \A d, a : Running(d, a)' \subseteq Running(d, a) \ {r}
    BY Stops
  <1>4. copies' \in [Day \X Audiences -> Nat]
    BY <1>1 DEF Key
  <1>5. TypeOK'
    BY <1>1, <1>2, <1>3, <1>4 DEF TypeOK
  <1>6. ASSUME NEW d \in Day, NEW a \in Audiences PROVE Spends(d, a)
    <2>1. CASE copies'[<<d, a>>] = copies[<<d, a>>]
      BY <1>3, <2>1 DEF Spends
    <2>2. CASE copies'[<<d, a>>] # copies[<<d, a>>]
      <3>1. /\ pc[r] = "send" /\ <<d, a>> = Key(r)
            /\ copies'[<<d, a>>] = copies[<<d, a>>] + 1
        BY <1>1, <2>2 DEF Key
      <3>2. d = ctx[r].date /\ a = ctx[r].audience
        BY <3>1 DEF Key
      <3>3. r \in Running(d, a)
        BY <3>1, <3>2 DEF Running, MaySend
      <3> QED
        BY <1>3, <3>1, <3>3 DEF Spends
    <2> QED
      BY <2>1, <2>2
  <1>7. CountInv'
    BY <1>2, <1>5, <1>6, SpendStep
  <1> QED
    BY <1>2, <1>3, <1>5, <1>7 DEF IInv

\* An exception, or the end of the list.
LEMMA ThrowFinishStep ==
  ASSUME IInv, NEW r \in Runs, Throw(r) \/ Finish(r)
  PROVE  IInv'
  <1>1. TypeOK
    BY DEF IInv
  <1>2. CASE Finish(r)
    BY <1>1, <1>2, EndStep DEF Finish, TypeOK
  <1>3. CASE Throw(r)
    <2>1. \/ copies' = copies
          \/ pc[r] = "send" /\ copies' = [copies EXCEPT ![Key(r)] = @ + 1]
      BY <1>3 DEF Throw
    <2> QED
      BY <1>3, <2>1, EndStep DEF Throw
  <1> QED
    BY <1>2, <1>3

\* The worker fetches a job: the attempt that begins was one to go.
LEMMA StartStep ==
  ASSUME IInv, NEW r \in Runs, Start(r)
  PROVE  IInv'
  <1>1. /\ TypeOK /\ QueueInv /\ RunInv /\ CountInv /\ today \in Day /\ today \in Nat
        /\ UNCHANGED <<today, cron, briefs, copies, troubled>>
        /\ pc[r] = "idle" /\ active = {} /\ Goto(r, "next") /\ owners' = owners \cup {r}
    BY RunTypes DEF Start
  <1>2. PICK j \in waiting : waiting' = waiting \ {j} /\ active' = {j}
    BY DEF Start
  <1>3. ctx' = [ctx EXCEPT ![r] = Begun(today)]
    BY Zenon DEF Start, Begun
  <1>4. /\ Begun(today) \in Context /\ Begun(today).date = today
        /\ Begun(today).todo = Audiences
    BY <1>1, BegunTypes
  <1>5. /\ ctx' \in [Runs -> Context] /\ ctx'[r] = Begun(today)
        /\ \A q \in Runs : q # r => ctx'[q] = ctx[q]
    BY <1>1, <1>3, <1>4, ReadTypes
  <1>6. /\ pc' \in [Runs -> Steps] /\ pc'[r] = "next"
        /\ \A q \in Runs : q # r => pc'[q] = pc[q]
    BY <1>1, GotoTypes DEF Steps
  <1>7. TypeOK'
    BY <1>1, <1>2, <1>5, <1>6 DEF TypeOK
  <1>8. QueueInv'
    BY <1>1, <1>2 DEF QueueInv
  <1>9. RunInv'
    BY <1>1, <1>4, <1>5, <1>6 DEF RunInv
  <1>10. j.day \in Nat /\ j.tries \in 0 .. RetryLimit /\ j.day <= cron /\ cron <= today
         /\ cron \in Int
    BY <1>1, <1>2 DEF TypeOK, QueueInv, Job, Day, Never
  <1> DEFINE p == <<j.day, j.tries>>
  <1>11. p \in Open
    <2>1. p \in Attempts(today)
      BY <1>1, <1>10 DEF Attempts
    <2>2. ToGo(j.day, j.tries)
      BY <1>2, <1>10 DEF ToGo
    <2> QED
      BY <2>1, <2>2 DEF Open
  <1>12. \A e \in Int, t \in Int : ToGo(e, t)' => ToGo(e, t)
    <2>1. ASSUME NEW e \in Int, NEW t \in Int, ToGo(e, t)' PROVE ToGo(e, t)
      <3>1. CASE j.day = e /\ j.tries < t
        <4>1. j.tries <= t
          BY <1>10, <3>1
        <4> QED
          BY <1>2, <3>1, <4>1 DEF ToGo
      <3> QED
        BY <1>1, <1>2, <2>1, <3>1 DEF ToGo
    <2> QED
      BY <2>1
  <1>13. ~ToGo(j.day, j.tries)'
    <2>1. ~(cron < j.day) /\ ~(j.tries < j.tries)
      BY <1>10
    <2>2. \A k \in waiting' : k.day # j.day
      BY <1>1, <1>2 DEF QueueInv
    <2> QED
      BY <1>1, <1>2, <2>1, <2>2 DEF ToGo
  <1>14. Open' \in SUBSET (Open \ {p})
    BY <1>1, <1>12, <1>13 DEF Open, Attempts
  <1>15. /\ IsFiniteSet(Open) /\ Cardinality(Open) \in Nat
         /\ Cardinality(Open') \in Nat /\ Cardinality(Open') + 1 <= Cardinality(Open)
    BY <1>1, <1>11, <1>14, OpenFinite, SpendOne
  <1>16. ASSUME NEW d \in Day, NEW a \in Audiences
         PROVE  /\ IsFiniteSet(Running(d, a)')
                /\ d <= today' => Count(d, a)' <= Bound(d)
                /\ d > today' => copies'[<<d, a>>] = 0 /\ Running(d, a)' = {}
    <2>1. /\ IsFiniteSet(Running(d, a))
          /\ d <= today => Count(d, a) <= Bound(d)
          /\ d > today => copies[<<d, a>>] = 0 /\ Running(d, a) = {}
      BY <1>1 DEF CountInv
    <2>2. d \in Nat /\ copies[<<d, a>>] \in Nat /\ copies'[<<d, a>>] = copies[<<d, a>>]
      BY <1>1 DEF TypeOK, Day
    <2>3. Bound(d) \in Nat /\ Cardinality(Running(d, a)) \in Nat
      BY <2>1, <2>2, AttemptsCount, FS_CardinalityType
    <2>4. r \notin Running(d, a) /\ (r \in Running(d, a)' => d = today)
      BY <1>1, <1>4, <1>5, <1>6 DEF Running, MaySend
    <2>5. CASE d = today
      <3>1. Running(d, a)' \in SUBSET (Running(d, a) \cup {r})
        BY <1>5, <1>6 DEF Running, MaySend
      <3>2. /\ IsFiniteSet(Running(d, a) \cup {r})
            /\ Cardinality(Running(d, a) \cup {r}) = Cardinality(Running(d, a)) + 1
        BY <2>1, <2>4, FS_AddElement
      <3>3. /\ IsFiniteSet(Running(d, a)') /\ Cardinality(Running(d, a)') \in Nat
            /\ Cardinality(Running(d, a)') <= Cardinality(Running(d, a)) + 1
        BY <3>1, <3>2, FS_Subset, FS_CardinalityType
      <3>4. OpenOn(d) = Open /\ OpenOn(d)' = Open'
        BY <1>1, <2>5 DEF OpenOn
      <3> QED
        BY <1>1, <1>15, <2>1, <2>2, <2>3, <2>5, <3>3, <3>4 DEF Count
    <2>6. CASE d # today
      <3>1. Running(d, a)' \in SUBSET Running(d, a)
        BY <1>5, <1>6, <2>4, <2>6, OthersRun
      <3>2. /\ IsFiniteSet(Running(d, a)') /\ Cardinality(Running(d, a)') \in Nat
            /\ Cardinality(Running(d, a)') <= Cardinality(Running(d, a))
        BY <2>1, <3>1, FS_Subset, FS_CardinalityType
      <3>3. OpenOn(d) = {} /\ OpenOn(d)' = {}
        BY <1>1, <2>6 DEF OpenOn
      <3> QED
        BY <1>1, <2>1, <2>2, <2>3, <3>1, <3>2, <3>3, FS_EmptySet DEF Count
    <2> QED
      BY <2>5, <2>6
  <1>17. CountInv'
    BY <1>16 DEF CountInv, Bound
  <1> QED
    BY <1>7, <1>8, <1>9, <1>17 DEF IInv

-----------------------------------------------------------------------------
(* All other steps.                                                        *)

\* pg-boss gives the active job up; its run goes on.
LEMMA ExpireStep ==
  ASSUME IInv, Expire
  PROVE  IInv'
  <1>1. TypeOK /\ QueueInv /\ RunInv
    BY DEF IInv
  <1>2. /\ waiting' \in SUBSET Job /\ active' \in SUBSET Job
        /\ QueueInv' /\ Open' \subseteq Open
    BY <1>1, FailActiveStep DEF Expire
  <1>3. TypeOK' /\ RunInv'
    BY <1>1, <1>2 DEF Expire, TypeOK, RunInv
  <1>4. \A d \in Day, a \in Audiences : Spends(d, a)
    BY DEF Expire, Spends, Running, MaySend
  <1>5. CountInv'
    BY <1>2, <1>3, <1>4, SpendStep DEF Expire
  <1> QED
    BY <1>2, <1>3, <1>5 DEF IInv

\* The worker dies, and nobody sends anything more.
LEMMA CrashStep ==
  ASSUME IInv, Crash
  PROVE  IInv'
  <1>1. TypeOK /\ QueueInv /\ RunInv /\ today \in Nat
    BY DEF IInv, TypeOK, Day
  <1>2. /\ \A r \in Runs : pc'[r] = "idle" /\ ctx'[r] = NoContext
        /\ UNCHANGED <<today, cron, briefs, queue, copies>>
    BY DEF Crash
  <1>3. TypeOK'
    BY <1>1, <1>2, EmptyTypes DEF Crash, TypeOK, Steps, queue
  <1>4. RunInv'
    BY <1>1, <1>2, EmptyTypes DEF RunInv
  <1>5. QueueInv' /\ Open' = Open
    BY <1>1, <1>2 DEF QueueInv, Open, ToGo, Attempts, queue
  <1>6. \A d, a : Running(d, a)' = {}
    BY <1>2 DEF Running, MaySend
  <1>7. CountInv'
    BY <1>2, <1>3, <1>5, <1>6, SpendStep DEF Spends
  <1> QED
    BY <1>3, <1>4, <1>5, <1>7 DEF IInv

\* The schedule, and the briefs.
LEMMA OutsideStep ==
  ASSUME IInv, Schedule \/ \E a \in Audiences : Generate(a)
  PROVE  IInv'
  <1>1. /\ TypeOK /\ QueueInv /\ RunInv /\ today \in Day /\ today \in Nat /\ cron \in Int
    BY DEF IInv, TypeOK, Day, Never
  <1>2. /\ UNCHANGED <<today, pc, owners, ctx, copies, troubled>>
    BY DEF Schedule, Generate, run
  <1>3. RunInv'
    BY <1>1, <1>2 DEF RunInv
  <1>4. \A d \in Day, a \in Audiences : Spends(d, a)
    BY <1>2 DEF Spends, Running, MaySend
  <1>5. CASE Schedule
    <2> DEFINE new == [day |-> today, tries |-> 0]
    <2>1. /\ new \in Job /\ new.day = today /\ new.tries = 0
      BY <1>1, DeliverAssumption DEF Job
    <2>2. /\ waiting' = waiting \cup {new} /\ active' = active /\ cron' = today /\ cron < today
          /\ briefs' = briefs
      BY <1>5 DEF Schedule
    <2> HIDE DEF new
    <2>3. TypeOK'
      BY <1>1, <1>2, <2>1, <2>2 DEF TypeOK
    <2>4. \A j \in waiting \cup active : j.day \in Int /\ j.day <= cron /\ j.day < today
      BY <1>1, <2>2 DEF QueueInv, TypeOK, Job, Day
    <2>5. QueueInv'
      <3>1. cron' <= today' /\ \A j \in waiting' \cup active' : j.day <= cron'
        BY <1>1, <1>2, <2>1, <2>2, <2>4
      <3>2. \A j, k \in waiting' \cup active' : j.day = k.day => j = k
        BY <1>1, <2>1, <2>2, <2>4 DEF QueueInv
      <3>3. waiting' \cap active' = {}
        BY <1>1, <2>1, <2>2, <2>4 DEF QueueInv
      <3> QED
        BY <1>1, <2>2, <3>1, <3>2, <3>3 DEF QueueInv
    <2>6. ASSUME NEW q \in Attempts(today), ToGo(q[1], q[2])' PROVE ToGo(q[1], q[2])
      <3>1. q[1] \in Int /\ q[1] <= today /\ q[2] \in Nat
        BY <1>1, DeliverAssumption DEF Attempts
      <3>2. CASE cron < q[1]
        BY <3>2 DEF ToGo
      <3>3. CASE ~(cron < q[1])
        <4>1. q[1] # today /\ ~(cron' < q[1])
          BY <1>1, <2>2, <3>1, <3>3
        <4> QED
          BY <2>1, <2>2, <2>6, <4>1 DEF ToGo
      <3> QED
        BY <3>2, <3>3
    <2>7. Open' \subseteq Open
      BY <1>2, <2>6 DEF Open, Attempts
    <2>8. CountInv'
      BY <1>2, <1>4, <2>3, <2>7, SpendStep
    <2> QED
      BY <1>3, <2>3, <2>5, <2>8 DEF IInv
  <1>6. CASE \E a \in Audiences : Generate(a)
    <2>1. UNCHANGED <<cron, waiting, active>>
      BY <1>6 DEF Generate, queue
    <2>2. TypeOK'
      BY <1>1, <1>2, <1>6, <2>1 DEF Generate, TypeOK
    <2>3. QueueInv' /\ Open' = Open
      BY <1>1, <1>2, <2>1 DEF QueueInv, Open, ToGo, Attempts
    <2>4. CountInv'
      BY <1>2, <1>4, <2>2, <2>3, SpendStep
    <2> QED
      BY <1>3, <2>2, <2>3, <2>4 DEF IInv
  <1> QED
    BY <1>5, <1>6

\* With the new day come its attempts, and those of the days before that are left.
LEMMA NewDayStep ==
  ASSUME IInv, NewDay
  PROVE  IInv'
  <1>1. /\ TypeOK /\ QueueInv /\ RunInv /\ CountInv /\ today \in Nat
        /\ today' = today + 1 /\ today' \in Day
        /\ UNCHANGED <<cron, briefs, waiting, active, pc, owners, ctx, copies, troubled>>
    BY DEF IInv, TypeOK, Day, NewDay, queue, run
  <1>2. TypeOK'
    BY <1>1 DEF TypeOK
  <1>3. QueueInv'
    <2>1. cron <= today + 1
      BY <1>1 DEF QueueInv, TypeOK, Day, Never
    <2> QED
      BY <1>1, <2>1 DEF QueueInv
  <1>4. RunInv'
    <2>1. \A r \in Runs : ctx[r].date \in Nat /\ ctx[r].date <= today + 1
      BY <1>1, RunTypes DEF Day
    <2> QED
      BY <1>1, <2>1 DEF RunInv
  <1>5. \A d, a : Running(d, a)' = Running(d, a)
    BY <1>1 DEF Running, MaySend
  <1>6. ASSUME NEW d \in Day, NEW a \in Audiences
        PROVE  /\ IsFiniteSet(Running(d, a)')
               /\ d <= today' => Count(d, a)' <= Bound(d)
               /\ d > today' => copies'[<<d, a>>] = 0 /\ Running(d, a)' = {}
    <2>1. /\ IsFiniteSet(Running(d, a))
          /\ d <= today => Count(d, a) <= Bound(d)
          /\ d > today => copies[<<d, a>>] = 0 /\ Running(d, a) = {}
      BY <1>1 DEF CountInv
    <2>2. d \in Nat /\ copies[<<d, a>>] \in Nat
      BY <1>1 DEF TypeOK, Day
    <2>3. Bound(d) \in Nat /\ Cardinality(Running(d, a)) \in Nat
          /\ Cardinality(OpenOn(d)) \in Nat
      BY <1>1, <2>1, <2>2, AttemptsCount, FS_CardinalityType, OpenFinite
    <2>4. CASE d <= today
      <3>1. OpenOn(d)' = {}
        BY <1>1, <2>2, <2>4 DEF OpenOn
      <3>2. Cardinality(OpenOn(d)') = 0
        BY <3>1, FS_EmptySet
      <3>3. Count(d, a)' = copies[<<d, a>>] + Cardinality(Running(d, a))
        BY <1>1, <1>5, <2>2, <2>3, <3>2 DEF Count
      <3> QED
        BY <1>1, <1>5, <2>1, <2>2, <2>3, <2>4, <3>3 DEF Count
    <2>5. CASE d = today'
      <3>1. copies[<<d, a>>] = 0 /\ Running(d, a) = {}
        BY <1>1, <2>1, <2>5
      <3>2. Cardinality(OpenOn(d)') <= Bound(today') /\ Cardinality(OpenOn(d)') \in Nat
        BY <1>2, <2>5, OpenFinitePrimed DEF OpenOn
      <3>3. Bound(today') = Bound(d)
        BY <2>5 DEF Bound
      <3>4. Count(d, a)' = Cardinality(OpenOn(d)')
        BY <1>1, <1>5, <3>1, <3>2, FS_EmptySet DEF Count
      <3> QED
        BY <1>1, <1>5, <2>1, <2>2, <2>5, <3>2, <3>3, <3>4
    <2>6. CASE d > today'
      BY <1>1, <1>5, <2>1, <2>2, <2>6
    <2> QED
      BY <1>1, <2>2, <2>4, <2>5, <2>6
  <1>7. CountInv'
    BY <1>6 DEF CountInv, Bound
  <1> QED
    BY <1>2, <1>3, <1>4, <1>7 DEF IInv

-----------------------------------------------------------------------------
(* Every step, and the theorems.                                           *)

\* At the start nothing is sent, and no attempt but those of the first day to go.
LEMMA InitHolds ==
  ASSUME Init
  PROVE  IInv
  <1>1. 0 \in Day /\ RetryLimit \in Nat
    BY DeliverAssumption, SMT DEF Day
  <1>2. TypeOK
    BY <1>1, EmptyTypes DEF Init, TypeOK, Steps
  <1>3. QueueInv
    BY DEF Init, QueueInv, Never
  <1>4. RunInv
    <2>1. today = 0 /\ \A r \in Runs : pc[r] = "idle" /\ ctx[r] = NoContext
      BY DEF Init
    <2>2. \A r \in Runs : ctx[r].date = 0
      BY <2>1, EmptyTypes
    <2>3. 0 <= 0
      OBVIOUS
    <2>4. \A r \in Runs : ctx[r].date <= today
      BY <2>1, <2>2, <2>3, Zenon
    <2> QED
      BY <2>1, <2>4 DEF RunInv
  <1>5. ASSUME NEW d \in Day, NEW a \in Audiences
        PROVE  /\ IsFiniteSet(Running(d, a))
               /\ d <= today => Count(d, a) <= Bound(d)
               /\ d > today => copies[<<d, a>>] = 0 /\ Running(d, a) = {}
    <2>1. Running(d, a) = {} /\ copies[<<d, a>>] = 0 /\ today = 0 /\ d \in Nat
      BY DEF Init, Running, MaySend, Day
    <2>2. Cardinality(OpenOn(d)) <= Bound(0) /\ Cardinality(OpenOn(d)) \in Nat
      <3>1. CASE d = today
        BY <1>2, <2>1, <3>1, OpenFinite DEF OpenOn
      <3>2. CASE d # today
        <4>1. Cardinality(OpenOn(d)) = 0 /\ Bound(0) \in Nat
          BY <3>2, FS_EmptySet, AttemptsCount DEF OpenOn
        <4> QED
          BY <4>1
      <3> QED
        BY <3>1, <3>2
    <2>3. Count(d, a) = Cardinality(OpenOn(d))
      BY <2>1, <2>2, FS_EmptySet DEF Count
    <2>4. d <= today => d = 0
      BY <2>1
    <2> QED
      BY <2>1, <2>2, <2>3, <2>4, FS_EmptySet
  <1>6. CountInv
    BY <1>5 DEF CountInv
  <1> QED
    BY <1>2, <1>3, <1>4, <1>6 DEF IInv

\* The invariant is inductive.
LEMMA Inductive ==
  IInv /\ [Next]_vars => IInv'
  <1> SUFFICES ASSUME IInv, [Next]_vars
               PROVE  IInv'
    OBVIOUS
  <1>1. CASE UNCHANGED vars
    <2>1. TypeOK'
      BY <1>1 DEF IInv, TypeOK, vars, queue, run
    <2>2. QueueInv' /\ Open' = Open /\ RunInv'
      BY <1>1 DEF IInv, QueueInv, RunInv, Open, ToGo, Attempts, vars, queue, run
    <2>3. CountInv'
      BY <1>1, <2>1, <2>2, SpendStep DEF Spends, Running, MaySend, vars, queue, run
    <2> QED
      BY <2>1, <2>2, <2>3 DEF IInv
  <1>2. ASSUME NEW r \in Runs, Work(r) \/ Refused(r) \/ Throw(r) PROVE IInv'
    BY <1>2, StartStep, LookUpStep, SendStep, ThrowFinishStep DEF Work
  <1> QED
    BY <1>1, <1>2, OutsideStep, ExpireStep, CrashStep, NewDayStep DEF Next

\* Every reachable state satisfies it.
LEMMA Invariance ==
  Spec => []IInv
  BY InitHolds, Inductive, PTL DEF Spec

\* Every variable keeps the type its table or queue has.
THEOREM TypeCorrect ==
  Spec => []TypeOK
  <1>1. IInv => TypeOK
    BY DEF IInv
  <1> QED
    BY <1>1, Invariance, PTL

\* However attempts overlap, fail, expire and are retried, nobody gets more
\* copies of a brief than there were attempts of the jobs up to its day.
THEOREM CopiesBounded ==
  Spec => []BoundedCopies
  <1>1. IInv => BoundedCopies
    <2> SUFFICES ASSUME IInv, NEW d \in Day, NEW a \in Audiences
                 PROVE  copies[<<d, a>>] <= (d + 1) * (RetryLimit + 1)
      BY DEF BoundedCopies
    <2>1. /\ TypeOK /\ IsFiniteSet(Running(d, a))
          /\ d <= today => Count(d, a) <= Bound(d)
          /\ d > today => copies[<<d, a>>] = 0
      BY DEF IInv, CountInv
    <2>2. d \in Nat /\ today \in Nat /\ copies[<<d, a>>] \in Nat
      BY <2>1 DEF TypeOK, Day
    <2>3. Bound(d) \in Nat /\ Cardinality(Running(d, a)) \in Nat
          /\ Cardinality(OpenOn(d)) \in Nat
      BY <2>1, <2>2, AttemptsCount, FS_CardinalityType, OpenFinite
    <2>4. copies[<<d, a>>] <= Bound(d)
      BY <2>1, <2>2, <2>3 DEF Count
    <2> QED
      BY <2>4 DEF Bound
  <1> QED
    BY <1>1, Invariance, PTL
=============================================================================
