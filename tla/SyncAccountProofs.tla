-------------------------- MODULE SyncAccountProofs --------------------------
(***************************************************************************)
(* Type correctness of SyncAccount, the ownership of the active job, that  *)
(* the stored cursor never runs ahead of the events, and that SyncAccount  *)
(* implements Catchup: for every number of handlers, every bound and every *)
(* provider.                                                               *)
(***************************************************************************)
EXTENDS SyncAccount, TLAPS

-----------------------------------------------------------------------------
(* Types.                                                                  *)

\* A connector call has credentials, and a delta a cursor to start from.
ReadyToCall ==
  \A r \in Runs :
    /\ At(r, {"delta"}) => ctx[r].cursor # NoCursor
    /\ At(r, {"delta", "seed", "list"}) => ctx[r].tokens # 0

TInv == TypeOK /\ ReadyToCall

\* What an invocation knows before it has read anything is well typed.
LEMMA EmptyTypes == NoContext \in Context /\ NoResult \in Result
  BY SyncAssumption DEF NoContext, NoResult, Context, Result, Position, NoCursor

\* Neither a new job nor a retried one leaves the bounds of Job.
LEMMA QueueTypes ==
  ASSUME TypeOK
  PROVE  /\ \A full \in BOOLEAN : Send(full) => created' \in SUBSET Job
         /\ FailActive => active' \in SUBSET Job /\ retry' \in SUBSET Job
         /\ \A r : Complete(r) => active' \in SUBSET Job /\ retry' \in SUBSET Job
         /\ \A r : Fail(r) => active' \in SUBSET Job /\ retry' \in SUBSET Job
  <1>1. ASSUME NEW full \in BOOLEAN, Send(full) PROVE created' \in SUBSET Job
    BY <1>1, SyncAssumption DEF Send, Job, TypeOK
  <1>2. FailActive => active' \in SUBSET Job /\ retry' \in SUBSET Job
    BY SyncAssumption DEF FailActive, Job, TypeOK
  <1>3. ASSUME NEW r, Complete(r)
        PROVE active' \in SUBSET Job /\ retry' \in SUBSET Job
    BY <1>3 DEF Complete, TypeOK
  <1>4. ASSUME NEW r, Fail(r)
        PROVE active' \in SUBSET Job /\ retry' \in SUBSET Job
    BY <1>4, <1>2 DEF Fail, TypeOK
  <1> QED
    BY <1>1, <1>2, <1>3, <1>4

\* A step of one invocation to a known place is well typed, and moves no other.
LEMMA GotoTypes ==
  ASSUME TypeOK, NEW r \in Runs, NEW step \in Steps, Goto(r, step)
  PROVE  /\ pc' \in [Runs -> Steps]
         /\ pc'[r] = step
         /\ \A q \in Runs : q # r => pc'[q] = pc[q]
  BY DEF Goto, TypeOK

\* An invocation that stops forgets everything, and disturbs no other.
LEMMA StopTypes ==
  ASSUME TInv, NEW r \in Runs, Stop(r)
  PROVE  /\ pc' \in [Runs -> Steps]
         /\ owners' \in SUBSET Runs
         /\ ctx' \in [Runs -> Context]
         /\ result' \in [Runs -> Result]
         /\ ReadyToCall'
  <1>1. pc' \in [Runs -> Steps] /\ pc'[r] = "idle"
        /\ \A q \in Runs : q # r => pc'[q] = pc[q]
    BY GotoTypes DEF Stop, TInv, Steps
  <1>2. ctx' \in [Runs -> Context] /\ result' \in [Runs -> Result]
        /\ \A q \in Runs : q # r => ctx'[q] = ctx[q]
    BY EmptyTypes DEF Stop, Forget, TInv, TypeOK
  <1>3. owners' \in SUBSET Runs
    BY DEF Stop, TInv, TypeOK
  <1>4. ReadyToCall'
    BY <1>1, <1>2 DEF ReadyToCall, TInv, At
  <1> QED
    BY <1>1, <1>2, <1>3, <1>4

\* What a delta gives is a SyncResult; the cursor in it lies in the mailbox, and
\* whatever is at or before it was at or before the old one or is in the batch.
LEMMA DeltaSyncGives ==
  ASSUME TypeOK, NEW from \in 0 .. MaxMail
  PROVE  /\ DeltaSync(from) \in Result
         /\ \A m \in Mail : m <= DeltaSync(from).nextCursor =>
                            m <= from \/ m \in DeltaSync(from).emails
  <1> USE SyncAssumption
  <1> DEFINE upto == Least(arrived, from + Bound)
  <1>1. upto \in 0 .. MaxMail /\ arrived \in 0 .. MaxMail
    BY DEF TypeOK, Least
  <1>2. After(from) = (from + 1) .. upto /\ (arrived - from < Bound => upto = arrived)
    BY DEF After, TypeOK, Least
  <1> HIDE DEF upto
  <1>3. After(from) \in SUBSET Mail
    BY <1>1, <1>2 DEF Mail
  <1>4. from \in Position /\ upto \in Position /\ arrived \in Position
    BY <1>1 DEF Position, NoCursor
  <1>5. \A m \in Mail : m <= upto => m <= from \/ m \in After(from)
    BY <1>1, <1>2 DEF Mail
  <1>6. CASE provider = "gmail"
    <2>1. DeltaSync(from) = GmailDelta(from)
      BY <1>6 DEF DeltaSync
    <2>2. GmailDelta(from) \in Result
      BY <1>3, <1>4 DEF GmailDelta, Result
    <2>3. /\ GmailDelta(from).nextCursor \in {from, upto}
          /\ GmailDelta(from).emails = After(from)
      BY <1>1, <1>2 DEF GmailDelta
    <2> QED
      BY <1>5, <2>1, <2>2, <2>3
  <1>7. CASE provider = "outlook"
    <2>1. DeltaSync(from) = OutlookDelta(from)
      BY <1>7 DEF DeltaSync
    <2>2. OutlookDelta(from) \in Result
      BY <1>3, <1>4 DEF OutlookDelta, Result, upto
    <2> QED
      BY <1>5, <2>1, <2>2 DEF OutlookDelta, upto
  <1>8. CASE provider = "imap"
    <2>1. DeltaSync(from) = ImapDelta(from)
      BY <1>8 DEF DeltaSync
    <2>2. ImapDelta(from) \in Result
      BY <1>3, <1>4 DEF ImapDelta, Result, upto
    <2> QED
      BY <1>5, <2>1, <2>2 DEF ImapDelta, upto
  <1> QED
    BY <1>6, <1>7, <1>8 DEF TypeOK

\* What a full sync gives is a SyncResult, and it leaves messages out.
LEMMA FullSyncTypes ==
  ASSUME TypeOK, NEW seed \in Position
  PROVE  /\ FullSync(seed) \in Result
         /\ FullSync(seed).nextCursor \in {seed, arrived}
         /\ FullSync(seed).emails = (LeftOut + 1) .. arrived
         /\ LeftOut \in 0 .. MaxMail
         /\ 1 .. LeftOut \in SUBSET Mail
  <1> USE SyncAssumption
  <1>1. LeftOut \in 0 .. MaxMail /\ arrived \in 0 .. MaxMail
    BY DEF LeftOut, TypeOK
  <1>2. 1 .. LeftOut \in SUBSET Mail /\ (LeftOut + 1) .. arrived \in SUBSET Mail
    BY <1>1 DEF Mail
  <1>3. arrived \in Position /\ (LeftOut > aged) \in BOOLEAN
    BY <1>1 DEF Position, NoCursor
  <1>4. PICK next \in {seed, arrived} :
          FullSync(seed) = [emails |-> (LeftOut + 1) .. arrived, nextCursor |-> next,
                            hasMore |-> LeftOut > aged]
    <2>1. CASE provider = "gmail"
      BY <2>1 DEF FullSync, GmailFull
    <2>2. CASE provider = "outlook"
      BY <2>2 DEF FullSync, OutlookFull
    <2>3. CASE provider = "imap"
      BY <2>3 DEF FullSync, ImapFull
    <2> QED
      BY <2>1, <2>2, <2>3 DEF TypeOK
  <1> QED
    BY <1>1, <1>2, <1>3, <1>4 DEF Result

\* What a full sync neither left out nor has in its batch is newer than its
\* cursor, provided its seed lies in the mailbox.
LEMMA FullSyncLists ==
  ASSUME TypeOK, NEW seed \in Position, seed <= arrived
  PROVE  \A m \in Mail : m <= FullSync(seed).nextCursor =>
                         m \in 1 .. LeftOut \cup FullSync(seed).emails
  <1> USE SyncAssumption
  <1> DEFINE next == FullSync(seed).nextCursor
  <1>1. /\ next \in Position /\ next <= arrived /\ LeftOut \in 0 .. MaxMail
        /\ FullSync(seed).emails = (LeftOut + 1) .. arrived
    <2>1. arrived \in 0 .. MaxMail
      BY DEF TypeOK
    <2> QED
      BY <2>1, FullSyncTypes DEF Position, NoCursor
  <1> HIDE DEF next
  <1>2. ASSUME NEW m \in Mail, m <= next
        PROVE  m \in 1 .. LeftOut \/ m \in (LeftOut + 1) .. arrived
    BY <1>1, <1>2 DEF Mail, Position, NoCursor, TypeOK
  <1> QED
    BY <1>1, <1>2 DEF next

\* A freshly connected account is well typed, with nothing in flight.
LEMMA TypeInit == Init => TInv
  <1> SUFFICES ASSUME Init PROVE TInv
    OBVIOUS
  <1>1. TypeOK
    BY EmptyTypes, SyncAssumption
       DEF Init, TypeOK, Least, Job, Position, NoCursor, Mail, Steps
  <1>2. ReadyToCall
    BY DEF Init, ReadyToCall, At
  <1> QED
    BY <1>1, <1>2 DEF TInv

\* Every operation keeps the types, and hands its successor what it needs.
LEMMA TypeStep == TInv /\ [Next]_vars => TInv'
  <1> SUFFICES ASSUME TInv, [Next]_vars PROVE TInv'
    OBVIOUS
  <1> USE SyncAssumption
  <1> USE DEF TInv
  <1>1. ASSUME NEW r \in Runs, Fetch(r) PROVE TInv'
    <2>1. PICK j \in created \cup retry :
            /\ \/ j \in created /\ created' = {} /\ retry' = retry
               \/ j \in retry /\ retry' = {} /\ created' = created
            /\ active' = {j}
            /\ ctx' = [ctx EXCEPT ![r] = [@ EXCEPT !.full = j.full]]
      BY <1>1 DEF Fetch
    <2>2. j \in Job
      BY <2>1 DEF TypeOK
    <2>3. created' \in SUBSET Job /\ retry' \in SUBSET Job /\ active' \in SUBSET Job
      BY <2>1, <2>2 DEF TypeOK
    <2>4. ctx' \in [Runs -> Context] /\ \A q \in Runs : q # r => ctx'[q] = ctx[q]
      BY <2>1, <2>2 DEF TypeOK, Context, Job
    <2>5. pc' \in [Runs -> Steps] /\ pc'[r] = "load"
          /\ \A q \in Runs : q # r => pc'[q] = pc[q]
      BY <1>1, GotoTypes DEF Fetch, Steps
    <2>6. TypeOK'
      BY <1>1, <2>3, <2>4, <2>5 DEF Fetch, TypeOK, mailbox, account
    <2> QED
      BY <2>4, <2>5, <2>6 DEF ReadyToCall, At
  <1>2. ASSUME NEW r \in Runs, Load(r) PROVE TInv'
    <2>1. CASE status = "active"
      <3> DEFINE step == IF ctx[r].full \/ cursor = NoCursor THEN "seed" ELSE "delta"
      <3>1. Goto(r, step) /\ step \in Steps
        BY <1>2, <2>1 DEF Load, Steps
      <3> HIDE DEF step
      <3>2. pc' \in [Runs -> Steps] /\ pc'[r] = step
            /\ \A q \in Runs : q # r => pc'[q] = pc[q]
        BY <3>1, GotoTypes
      <3> DEFINE read == [full |-> FALSE, tokens |-> tokens, cursor |-> cursor]
      <3>3. read \in Context /\ read.cursor = cursor /\ read.tokens = tokens
        BY DEF TypeOK, Context
      <3>4. ctx' = [ctx EXCEPT ![r] = read]
        BY <1>2, <2>1 DEF Load
      <3> HIDE DEF read
      <3>5. ctx' \in [Runs -> Context] /\ ctx'[r] = read
            /\ \A q \in Runs : q # r => ctx'[q] = ctx[q]
        BY <3>3, <3>4 DEF TypeOK
      <3>6. TypeOK'
        BY <1>2, <2>1, <3>2, <3>5 DEF Load, TypeOK, mailbox, account
      <3>7. step = "delta" => cursor # NoCursor
        BY DEF step
      <3> QED
        BY <3>3, <3>2, <3>5, <3>6, <3>7 DEF ReadyToCall, At, TypeOK
    <2>2. CASE status # "active"
      <3>1. Stop(r) /\ Complete(r)
        BY <1>2, <2>2 DEF Load
      <3> QED
        BY <1>2, <3>1, StopTypes, QueueTypes DEF Load, TypeOK, mailbox, account
    <2> QED
      BY <2>1, <2>2
  <1>3. ASSUME NEW r \in Runs, RefreshTokens(r) PROVE TInv'
    <2>1. ctx[r].tokens \in 1 .. MaxGrants
      BY <1>3 DEF RefreshTokens, ReadyToCall, TypeOK, Context
    <2> QED
      BY <1>3, <2>1
         DEF RefreshTokens, TypeOK, ReadyToCall, At, mailbox, queue, run
  <1>4. ASSUME NEW r \in Runs, NEW res \in Result, Listed(r, res)
        PROVE  /\ pc' \in [Runs -> Steps] /\ owners' \in SUBSET Runs
               /\ ctx' \in [Runs -> Context] /\ result' \in [Runs -> Result]
               /\ ReadyToCall'
    <2>1. pc' \in [Runs -> Steps] /\ pc'[r] = "save"
          /\ \A q \in Runs : q # r => pc'[q] = pc[q]
      BY <1>4, GotoTypes DEF Listed, Steps
    <2>2. ctx' \in [Runs -> Context] /\ \A q \in Runs : q # r => ctx'[q] = ctx[q]
      BY <1>4 DEF Listed, TypeOK, Context
    <2>3. result' \in [Runs -> Result] /\ owners' \in SUBSET Runs
      BY <1>4 DEF Listed, TypeOK
    <2> QED
      BY <2>1, <2>2, <2>3 DEF ReadyToCall, At
  <1>5. ASSUME NEW r \in Runs, Delta(r) PROVE TInv'
    <2>1. ctx[r].cursor \in 0 .. MaxMail
      BY <1>5 DEF Delta, ReadyToCall, TypeOK, Context, Position, NoCursor
    <2>2. DeltaSync(ctx[r].cursor) \in Result
      BY <2>1, DeltaSyncGives
    <2> QED
      BY <1>4, <1>5, <2>2 DEF Delta, TypeOK, mailbox, account, queue
  <1>6. ASSUME NEW r \in Runs, CursorExpires(r) PROVE TInv'
    <2>1. pc' \in [Runs -> Steps] /\ pc'[r] = "seed"
          /\ \A q \in Runs : q # r => pc'[q] = pc[q]
      BY <1>6, GotoTypes DEF CursorExpires, Steps
    <2>2. ctx[r].tokens # 0
      BY <1>6 DEF CursorExpires, ReadyToCall, At
    <2> QED
      BY <1>6, <2>1, <2>2
         DEF CursorExpires, TypeOK, ReadyToCall, At, mailbox, account, queue
  <1>7. ASSUME NEW r \in Runs, Seed(r) PROVE TInv'
    <2>1. pc' \in [Runs -> Steps] /\ pc'[r] = "list"
          /\ \A q \in Runs : q # r => pc'[q] = pc[q]
      BY <1>7, GotoTypes DEF Seed, Steps
    <2>2. ctx[r].tokens # 0
      BY <1>7 DEF Seed, ReadyToCall, At
    <2>3. result' \in [Runs -> Result]
      BY <1>7 DEF Seed, TypeOK, Result, Position, NoCursor
    <2> QED
      BY <1>7, <2>1, <2>2, <2>3
         DEF Seed, TypeOK, ReadyToCall, At, mailbox, account, queue
  <1>8. ASSUME NEW r \in Runs, List(r) PROVE TInv'
    <2>1. result[r].nextCursor \in Position
      BY DEF TypeOK, Result
    <2>2. FullSync(result[r].nextCursor) \in Result /\ 1 .. LeftOut \in SUBSET Mail
      BY <2>1, FullSyncTypes
    <2> QED
      BY <1>4, <1>8, <2>2 DEF List, TypeOK, mailbox, account, queue
  <1>9. ASSUME NEW r \in Runs, Save(r) PROVE TInv'
    <2>1. pc' \in [Runs -> Steps] /\ pc'[r] = "record"
          /\ \A q \in Runs : q # r => pc'[q] = pc[q]
      BY <1>9, GotoTypes DEF Save, Steps
    <2>2. result' \in [Runs -> Result] /\ events' \in SUBSET Mail
      BY <1>9 DEF Save, TypeOK, Result
    <2> QED
      BY <1>9, <2>1, <2>2 DEF Save, TypeOK, ReadyToCall, At, mailbox, account, queue
  <1>10. ASSUME NEW r \in Runs, Record(r) PROVE TInv'
    <2> DEFINE step == IF result[r].hasMore THEN "more" ELSE "subscribe"
    <2>1. Goto(r, step) /\ step \in {"more", "subscribe"}
      BY <1>10 DEF Record
    <2> HIDE DEF step
    <2>2. pc' \in [Runs -> Steps] /\ pc'[r] = step
          /\ \A q \in Runs : q # r => pc'[q] = pc[q]
      BY <2>1, GotoTypes DEF Steps
    <2>3. ctx' \in [Runs -> Context] /\ result' \in [Runs -> Result]
          /\ \A q \in Runs : q # r => ctx'[q] = ctx[q]
      BY <1>10, EmptyTypes DEF Record, Forget, TypeOK
    <2>4. cursor' \in Position /\ failures' \in 0 .. Threshold
      BY <1>10 DEF Record, TypeOK, Context, Result
    <2> QED
      BY <1>10, <2>1, <2>2, <2>3, <2>4
         DEF Record, TypeOK, ReadyToCall, At, mailbox, account, queue
  <1>11. ASSUME NEW r \in Runs, More(r) PROVE TInv'
    <2>1. pc' \in [Runs -> Steps] /\ pc'[r] = "subscribe"
          /\ \A q \in Runs : q # r => pc'[q] = pc[q]
      BY <1>11, GotoTypes DEF More, Steps
    <2>2. created' \in SUBSET Job
      BY <1>11, QueueTypes DEF More
    <2> QED
      BY <1>11, <2>1, <2>2 DEF More, TypeOK, ReadyToCall, At, mailbox, account
  <1>12. ASSUME NEW r \in Runs, Return(r) PROVE TInv'
    BY <1>12, StopTypes, QueueTypes DEF Return, TypeOK, mailbox, account
  <1>13. ASSUME NEW r \in Runs, HandledError(r) PROVE TInv'
    <2>1. ASSUME CallFailed(r)
          PROVE  failures' \in 0 .. Threshold /\ Stop(r)
                 /\ UNCHANGED <<mailbox, provider, tokens, cursor, events, left>>
      BY <2>1 DEF CallFailed, Least, TypeOK
    <2>2. CASE Reauth(r)
      BY <2>1, <2>2, StopTypes, QueueTypes DEF Reauth, TypeOK, mailbox
    <2>3. CASE RateLimited(r)
      BY <2>1, <2>3, StopTypes, QueueTypes DEF RateLimited, TypeOK, mailbox
    <2>4. CASE Transient(r)
      BY <2>1, <2>4, StopTypes, QueueTypes DEF Transient, TypeOK, mailbox
    <2> QED
      BY <1>13, <2>2, <2>3, <2>4 DEF HandledError
  <1>14. ASSUME NEW r \in Runs, Throw(r) PROVE TInv'
    <2>1. events' \in SUBSET Mail
      BY <1>14 DEF Throw, TypeOK, Result
    <2> QED
      BY <1>14, <2>1, StopTypes, QueueTypes DEF Throw, TypeOK, mailbox, account
  <1>15. ASSUME Expire PROVE TInv'
    BY <1>15, QueueTypes DEF Expire, TypeOK, ReadyToCall, At, mailbox, account
  <1>16. ASSUME Crash PROVE TInv'
    <2>1. TypeOK'
      BY <1>16, EmptyTypes DEF Crash, TypeOK, Steps, mailbox, account, queue
    <2> QED
      BY <1>16, <2>1 DEF Crash, ReadyToCall, At
  <1>17. ASSUME Requested PROVE TInv'
    <2>1. created' \in SUBSET Job
      BY <1>17, QueueTypes DEF Requested
    <2> QED
      BY <1>17, <2>1 DEF Requested, TypeOK, ReadyToCall, At, mailbox, account, run
  <1>18. ASSUME Reconnect PROVE TInv'
    <2>1. created' \in SUBSET Job
      BY <1>18, QueueTypes DEF Reconnect, TypeOK
    <2> QED
      BY <1>18, <2>1 DEF Reconnect, TypeOK, ReadyToCall, At, run
  <1>19. ASSUME TokenHealth PROVE TInv'
    BY <1>19 DEF TokenHealth, TypeOK, ReadyToCall, At, mailbox, queue, run
  <1>20. ASSUME Remote PROVE TInv'
    <2>1. arrived' \in 0 .. MaxMail /\ aged' \in 0 .. arrived'
          /\ grants' \in 1 .. MaxGrants /\ dead' \in SUBSET (1 .. MaxGrants)
      <3>1. CASE Arrive
        BY <3>1 DEF Arrive, TypeOK
      <3>2. CASE Age
        BY <3>2 DEF Age, Least, TypeOK
      <3>3. CASE Revoke
        BY <3>3 DEF Revoke, TypeOK
      <3> QED
        BY <1>20, <3>1, <3>2, <3>3 DEF Remote
    <2> QED
      BY <1>20, <2>1 DEF Remote, TypeOK, ReadyToCall, At, account, queue, run
  <1>21. ASSUME UNCHANGED vars PROVE TInv'
    BY <1>21 DEF vars, mailbox, account, queue, run, TypeOK, ReadyToCall, At
  <1> QED
    BY <1>1, <1>2, <1>3, <1>5, <1>6, <1>7, <1>8, <1>9, <1>10, <1>11, <1>12,
       <1>13, <1>14, <1>15, <1>16, <1>17, <1>18, <1>19, <1>20, <1>21
       DEF Next, Step, Poll, GmailPush, GraphPush

\* Every reachable state is well typed, and no connector call ever starts
\* without credentials, no delta without a cursor.
THEOREM TypeCorrect == Spec => [](TypeOK /\ ReadyToCall)
  <1>1. Init => TInv
    BY TypeInit
  <1>2. TInv /\ [Next]_vars => TInv'
    BY TypeStep
  <1> QED
    BY <1>1, <1>2, PTL DEF Spec, TInv

-----------------------------------------------------------------------------
(* The active job has at most one owner.                                   *)

\* The owner settles its job and leaves; anyone else leaves the job alone.
LEMMA Settled ==
  ASSUME OneOwner, NEW r \in Runs, owners' = owners \ {r}, Complete(r) \/ Fail(r)
  PROVE  OneOwner'
  <1>1. CASE r \in owners
    <2>1. owners' = {}
      BY <1>1 DEF OneOwner
    <2> QED
      BY <2>1 DEF OneOwner
  <1>2. CASE r \notin owners
    BY <1>2 DEF OneOwner, Complete, Fail
  <1> QED
    BY <1>1, <1>2

\* Whatever settles, fetches or expires the job, its owner stays unique.
LEMMA OwnerStep == OneOwner /\ [Next]_vars => OneOwner'
  <1> SUFFICES ASSUME OneOwner, [Next]_vars PROVE OneOwner'
    OBVIOUS
  <1>1. ASSUME NEW r \in Runs, Fetch(r) PROVE OneOwner'
    <2>1. owners = {} /\ owners' = {r}
      BY <1>1 DEF Fetch, OneOwner
    <2>2. active' # {}
      BY <1>1 DEF Fetch
    <2> QED
      BY <2>1, <2>2 DEF OneOwner
  <1>2. ASSUME NEW r \in Runs, Load(r) PROVE OneOwner'
    <2>1. CASE status = "active"
      BY <1>2, <2>1 DEF Load, OneOwner
    <2>2. CASE status # "active"
      BY <1>2, <2>2, Settled DEF Load, Stop
    <2> QED
      BY <2>1, <2>2
  <1>3. ASSUME NEW r \in Runs, Return(r) \/ HandledError(r) \/ Throw(r)
        PROVE  OneOwner'
    BY <1>3, Settled
       DEF Return, HandledError, Reauth, RateLimited, Transient, CallFailed,
           Throw, Stop
  <1>4. ASSUME NEW r \in Runs,
               \/ RefreshTokens(r) \/ Delta(r) \/ CursorExpires(r) \/ Seed(r)
               \/ List(r) \/ Save(r) \/ Record(r) \/ More(r)
        PROVE  OneOwner'
    <2>1. UNCHANGED <<owners, active>>
      BY <1>4 DEF RefreshTokens, Delta, CursorExpires, Seed, List, Save, Record,
                  More, Listed, queue, run
    <2> QED
      BY <2>1 DEF OneOwner
  <1>5. ASSUME Expire \/ Crash PROVE OneOwner'
    BY <1>5 DEF Expire, Crash, OneOwner
  <1>6. ASSUME Requested \/ Reconnect \/ TokenHealth \/ Remote \/ UNCHANGED vars
        PROVE  OneOwner'
    <2>1. UNCHANGED <<owners, active>>
      BY <1>6 DEF Requested, Reconnect, TokenHealth, Remote, vars, queue, run
    <2> QED
      BY <2>1 DEF OneOwner
  <1> QED
    BY <1>1, <1>2, <1>3, <1>4, <1>5, <1>6 DEF Next, Step, Poll, GmailPush, GraphPush

\* However handlers time out, crash and overtake each other, at most one of
\* them still settles the account's job, and only while that job is active.
THEOREM SingleOwner == Spec => []OneOwner
  <1>1. Init => OneOwner
    BY DEF Init, OneOwner
  <1>2. OneOwner /\ [Next]_vars => OneOwner'
    BY OwnerStep
  <1> QED
    BY <1>1, <1>2, PTL DEF Spec

-----------------------------------------------------------------------------
(* The stored cursor never runs ahead of the events.                       *)

\* What each invocation holds is as sound as the stored cursor: the cursor it
\* read is covered, before a connector call ends it has no position beyond the
\* mailbox, and the position it will store is covered by what is saved
\* together with what it still has to save.
Sound(r) ==
  /\ Covered(ctx[r].cursor)
  /\ ~At(r, {"save", "record"}) => result[r].nextCursor <= arrived
  /\ At(r, {"save", "record"}) =>
       \A m \in Mail :
         m <= result[r].nextCursor => m \in events \cup left \cup result[r].emails
  /\ At(r, {"record"}) => result[r].emails = {}

IngestInv == Covered(cursor) /\ \A r \in Runs : Sound(r)

\* A step that loses no row, no unlisted message and no remote message leaves
\* every invocation it does not touch sound, and the stored cursor covered.
LEMMA Untouched ==
  ASSUME TypeOK, TypeOK', IngestInv,
         events \subseteq events', left \subseteq left', arrived <= arrived'
  PROVE  /\ cursor' = cursor => Covered(cursor)'
         /\ \A r \in Runs :
              pc'[r] = pc[r] /\ ctx'[r] = ctx[r] /\ result'[r] = result[r]
                => Sound(r)'
  <1>1. cursor' = cursor => Covered(cursor)'
    BY DEF IngestInv, Covered
  <1>2. ASSUME NEW r \in Runs,
               pc'[r] = pc[r], ctx'[r] = ctx[r], result'[r] = result[r]
        PROVE  Sound(r)'
    <2>1. Covered(ctx[r].cursor)'
      BY <1>2 DEF IngestInv, Sound, Covered
    <2>2. ~At(r, {"save", "record"})' => result'[r].nextCursor <= arrived'
      <3>1. /\ result[r].nextCursor \in Int /\ arrived \in Int /\ arrived' \in Int
            /\ (~At(r, {"save", "record"}) => result[r].nextCursor <= arrived)
        BY SyncAssumption DEF TypeOK, Result, Position, NoCursor, IngestInv, Sound
      <3> QED
        BY <1>2, <3>1 DEF At
    <2> QED
      BY <1>2, <2>1, <2>2 DEF IngestInv, Sound, At
  <1> QED
    BY <1>1, <1>2

\* An invocation that forgets what it read and listed is sound.
LEMMA Forgotten ==
  ASSUME TypeOK, TypeOK', NEW r \in Runs, Forget(r), pc'[r] \notin {"save", "record"}
  PROVE  /\ Sound(r)'
         /\ \A q \in Runs : q # r => ctx'[q] = ctx[q] /\ result'[q] = result[q]
  <1>1. /\ ctx'[r] = NoContext /\ result'[r] = NoResult
        /\ \A q \in Runs : q # r => ctx'[q] = ctx[q] /\ result'[q] = result[q]
    BY DEF Forget, TypeOK
  <1>2. arrived' \in Nat
    BY SyncAssumption DEF TypeOK
  <1> QED
    BY <1>1, <1>2, SyncAssumption
       DEF Sound, Covered, At, NoContext, NoResult, NoCursor, Mail

\* ... which is all that happens to the mail when an invocation stops.
LEMMA Stopped ==
  ASSUME TypeOK, TypeOK', IngestInv, NEW r \in Runs, Stop(r),
         events \subseteq events', left' = left, arrived' = arrived, cursor' = cursor
  PROVE  IngestInv'
  <1>1. pc'[r] = "idle" /\ \A q \in Runs : q # r => pc'[q] = pc[q]
    BY GotoTypes DEF Stop, Steps
  <1>2. Sound(r)' /\ \A q \in Runs : q # r => ctx'[q] = ctx[q] /\ result'[q] = result[q]
    BY <1>1, Forgotten DEF Stop
  <1>3. arrived <= arrived'
    BY SyncAssumption DEF TypeOK
  <1> QED
    BY <1>1, <1>2, <1>3, Untouched DEF IngestInv

\* Every operation keeps the cursor, and what is in flight, behind the events.
LEMMA IngestStep == TInv /\ TInv' /\ IngestInv /\ [Next]_vars => IngestInv'
  <1> SUFFICES ASSUME TypeOK, TypeOK', ReadyToCall, IngestInv, [Next]_vars
               PROVE  IngestInv'
    BY DEF TInv
  <1> USE SyncAssumption
  <1>0. arrived \in Nat /\ arrived <= arrived
    BY DEF TypeOK
  <1>1. ASSUME NEW r \in Runs, Fetch(r) PROVE IngestInv'
    <2>1. pc'[r] = "load" /\ \A q \in Runs : q # r => pc'[q] = pc[q]
      BY <1>1, GotoTypes DEF Fetch, Steps
    <2>2. /\ \A q \in Runs : q # r => ctx'[q] = ctx[q]
          /\ ctx'[r].cursor = ctx[r].cursor
      BY <1>1 DEF Fetch, TypeOK, Context
    <2>3. UNCHANGED <<events, left, arrived, cursor, result>> /\ pc[r] = "idle"
      BY <1>1 DEF Fetch, mailbox, At
    <2>4. Sound(r)'
      BY <2>1, <2>2, <2>3 DEF IngestInv, Sound, Covered, At
    <2> QED
      BY <1>0, <2>1, <2>2, <2>3, <2>4, Untouched DEF IngestInv
  <1>2. ASSUME NEW r \in Runs, Load(r) PROVE IngestInv'
    <2>1. UNCHANGED <<events, left, arrived, cursor>> /\ pc[r] = "load"
      BY <1>2 DEF Load, mailbox, At
    <2>2. CASE status = "active"
      <3>1. pc'[r] \in {"seed", "delta"} /\ \A q \in Runs : q # r => pc'[q] = pc[q]
        BY <1>2, <2>2 DEF Load, Goto, TypeOK
      <3>2. /\ \A q \in Runs : q # r => ctx'[q] = ctx[q]
            /\ ctx'[r].cursor = cursor /\ result' = result
        BY <1>2, <2>2 DEF Load, TypeOK
      <3>3. Sound(r)'
        BY <2>1, <3>1, <3>2 DEF IngestInv, Sound, Covered, At
      <3> QED
        BY <1>0, <2>1, <3>1, <3>2, <3>3, Untouched DEF IngestInv
    <2>3. CASE status # "active"
      BY <1>2, <2>1, <2>3, Stopped DEF Load
    <2> QED
      BY <2>2, <2>3
  <1>3. ASSUME NEW r \in Runs, NEW res \in Result, Listed(r, res), cursor' = cursor,
               events' = events, left \subseteq left', arrived' = arrived,
               \A m \in Mail : m <= res.nextCursor => m \in events \cup left' \cup res.emails
        PROVE  IngestInv'
    <2>1. pc'[r] = "save" /\ \A q \in Runs : q # r => pc'[q] = pc[q]
      BY <1>3, GotoTypes DEF Listed, Steps
    <2>2. /\ \A q \in Runs : q # r => ctx'[q] = ctx[q] /\ result'[q] = result[q]
          /\ ctx'[r].cursor = ctx[r].cursor /\ result'[r] = res
      BY <1>3 DEF Listed, TypeOK, Context
    <2>3. Covered(ctx[r].cursor)'
      BY <1>3, <2>2 DEF IngestInv, Sound, Covered
    <2>4. Sound(r)'
      BY <1>3, <2>1, <2>2, <2>3 DEF Sound, At
    <2> QED
      BY <1>0, <1>3, <2>1, <2>2, <2>4, Untouched DEF IngestInv
  <1>4. ASSUME NEW r \in Runs, Delta(r) PROVE IngestInv'
    <2> DEFINE res == DeltaSync(ctx[r].cursor)
    <2>1. Listed(r, res) /\ UNCHANGED <<cursor, events, left, arrived>>
      BY <1>4 DEF Delta, mailbox
    <2>2. ctx[r].cursor \in 0 .. MaxMail /\ Covered(ctx[r].cursor)
      BY <1>4 DEF Delta, ReadyToCall, TypeOK, Context, Position, NoCursor, IngestInv, Sound
    <2>3. /\ res \in Result
          /\ \A m \in Mail : m <= res.nextCursor => m <= ctx[r].cursor \/ m \in res.emails
      BY <2>2, DeltaSyncGives
    <2>4. \A m \in Mail : m <= res.nextCursor => m \in events \cup left' \cup res.emails
      BY <2>1, <2>2, <2>3 DEF Covered
    <2> HIDE DEF res
    <2> QED
      BY <1>3, <2>1, <2>3, <2>4
  <1>5. ASSUME NEW r \in Runs, CursorExpires(r) PROVE IngestInv'
    <2>1. /\ pc[r] = "delta" /\ pc'[r] = "seed"
          /\ \A q \in Runs : q # r => pc'[q] = pc[q]
      BY <1>5, GotoTypes DEF CursorExpires, Steps, At
    <2>2. UNCHANGED <<events, left, arrived, cursor, ctx, result>>
      BY <1>5 DEF CursorExpires, mailbox
    <2>3. Sound(r)'
      BY <2>1, <2>2 DEF IngestInv, Sound, Covered, At
    <2> QED
      BY <1>0, <2>1, <2>2, <2>3, Untouched DEF IngestInv
  <1>6. ASSUME NEW r \in Runs, Seed(r) PROVE IngestInv'
    <2>1. /\ pc[r] = "seed" /\ pc'[r] = "list"
          /\ \A q \in Runs : q # r => pc'[q] = pc[q]
      BY <1>6, GotoTypes DEF Seed, Steps, At
    <2>2. UNCHANGED <<events, left, arrived, cursor, ctx>>
      BY <1>6 DEF Seed, mailbox
    <2>3. /\ \A q \in Runs : q # r => result'[q] = result[q]
          /\ result'[r].nextCursor \in {result[r].nextCursor, arrived}
      BY <1>6 DEF Seed, TypeOK, Result
    <2>4. result'[r].nextCursor <= arrived'
      BY <1>0, <2>1, <2>2, <2>3 DEF IngestInv, Sound, At
    <2>5. Sound(r)'
      BY <2>1, <2>2, <2>4 DEF IngestInv, Sound, Covered, At
    <2> QED
      BY <1>0, <2>1, <2>2, <2>3, <2>5, Untouched DEF IngestInv
  <1>7. ASSUME NEW r \in Runs, List(r) PROVE IngestInv'
    <2> DEFINE res == FullSync(result[r].nextCursor)
    <2>1. /\ Listed(r, res) /\ UNCHANGED <<cursor, events, arrived>>
          /\ left' = left \cup 1 .. LeftOut
      BY <1>7 DEF List, mailbox
    <2>2. result[r].nextCursor \in Position /\ result[r].nextCursor <= arrived
      BY <1>7 DEF List, At, IngestInv, Sound, TypeOK, Result
    <2>3. /\ res \in Result
          /\ \A m \in Mail : m <= res.nextCursor => m \in 1 .. LeftOut \cup res.emails
      BY <2>2, FullSyncTypes, FullSyncLists
    <2> HIDE DEF res
    <2> QED
      BY <1>3, <2>1, <2>3
  <1>8. ASSUME NEW r \in Runs, Save(r) PROVE IngestInv'
    <2>1. /\ pc[r] = "save" /\ pc'[r] = "record"
          /\ \A q \in Runs : q # r => pc'[q] = pc[q]
      BY <1>8, GotoTypes DEF Save, Steps, At
    <2>2. UNCHANGED <<left, arrived, cursor, ctx>> /\ events' = events \cup result[r].emails
      BY <1>8 DEF Save, mailbox
    <2>3. /\ \A q \in Runs : q # r => result'[q] = result[q]
          /\ result'[r].nextCursor = result[r].nextCursor /\ result'[r].emails = {}
      BY <1>8 DEF Save, TypeOK, Result
    <2>4. Sound(r)'
      BY <2>1, <2>2, <2>3 DEF IngestInv, Sound, Covered, At
    <2> QED
      BY <1>0, <2>1, <2>2, <2>3, <2>4, Untouched DEF IngestInv
  <1>9. ASSUME NEW r \in Runs, Record(r) PROVE IngestInv'
    <2>1. /\ pc[r] = "record" /\ pc'[r] \notin {"save", "record"}
          /\ \A q \in Runs : q # r => pc'[q] = pc[q]
      BY <1>9 DEF Record, At, Goto, TypeOK
    <2>2. UNCHANGED <<events, left, arrived>>
      BY <1>9 DEF Record, mailbox
    <2>3. /\ Sound(r)'
          /\ \A q \in Runs : q # r => ctx'[q] = ctx[q] /\ result'[q] = result[q]
      BY <1>9, <2>1, Forgotten DEF Record
    <2>4. Covered(result[r].nextCursor) /\ Covered(ctx[r].cursor)
      BY <2>1 DEF IngestInv, Sound, Covered, At
    <2>5. Covered(cursor)'
      BY <1>9, <2>2, <2>4 DEF Record, Covered
    <2> QED
      BY <1>0, <2>1, <2>2, <2>3, <2>5, Untouched DEF IngestInv
  <1>10. ASSUME NEW r \in Runs, More(r) PROVE IngestInv'
    <2>1. /\ pc[r] = "more" /\ pc'[r] = "subscribe"
          /\ \A q \in Runs : q # r => pc'[q] = pc[q]
      BY <1>10, GotoTypes DEF More, Steps, At
    <2>2. UNCHANGED <<events, left, arrived, cursor, ctx, result>>
      BY <1>10 DEF More, mailbox
    <2>3. Sound(r)'
      BY <2>1, <2>2 DEF IngestInv, Sound, Covered, At
    <2> QED
      BY <1>0, <2>1, <2>2, <2>3, Untouched DEF IngestInv
  <1>11. ASSUME NEW r \in Runs, Return(r) \/ HandledError(r) \/ Throw(r)
         PROVE  IngestInv'
    <2>1. Stop(r) /\ UNCHANGED <<left, arrived, cursor>> /\ events \subseteq events'
      BY <1>11 DEF Return, HandledError, Reauth, RateLimited, Transient, CallFailed,
                   Throw, mailbox
    <2> QED
      BY <2>1, Stopped
  <1>12. ASSUME Crash PROVE IngestInv'
    <2>1. UNCHANGED <<events, left, arrived, cursor>>
      BY <1>12 DEF Crash, mailbox
    <2>2. ASSUME NEW r \in Runs PROVE Sound(r)'
      <3>1. ctx'[r] = NoContext /\ result'[r] = NoResult /\ pc'[r] = "idle"
        BY <1>12 DEF Crash
      <3> QED
        BY <1>0, <2>1, <3>1 DEF Sound, Covered, At, NoContext, NoResult, NoCursor, Mail
    <2> QED
      BY <1>0, <2>1, <2>2, Untouched DEF IngestInv
  <1>13. ASSUME \/ \E r \in Runs : RefreshTokens(r)
                \/ Expire \/ Requested \/ Reconnect \/ TokenHealth \/ Remote
                \/ UNCHANGED vars
         PROVE  IngestInv'
    <2>1. UNCHANGED <<events, left, cursor, pc, ctx, result>>
      BY <1>13 DEF RefreshTokens, Expire, Requested, Reconnect, TokenHealth, Remote,
                   vars, run
    <2>2. arrived' = arrived \/ arrived' = arrived + 1
      BY <1>13 DEF RefreshTokens, Expire, Requested, Reconnect, TokenHealth, Remote,
                   Arrive, Age, Revoke, vars, mailbox
    <2>3. arrived <= arrived'
      BY <1>0, <2>2
    <2> QED
      BY <2>1, <2>3, Untouched DEF IngestInv
  <1> QED
    BY <1>1, <1>2, <1>4, <1>5, <1>6, <1>7, <1>8, <1>9, <1>10, <1>11, <1>12, <1>13
       DEF Next, Step, Poll, GmailPush, GraphPush

\* Whatever times out, crashes, half-saves or overtakes: no message at or before
\* the stored cursor is missing, other than those a full sync left unlisted.
THEOREM CursorNeverAhead == Spec => []NoMailSkipped
  <1>1. Init => TInv /\ IngestInv
    <2>1. Init => TInv
      BY TypeInit
    <2>2. ASSUME Init PROVE IngestInv
      BY <2>2, SyncAssumption
         DEF Init, IngestInv, Sound, Covered, At, NoContext, NoResult, NoCursor, Mail
    <2> QED
      BY <2>1, <2>2
  <1>2. TInv /\ IngestInv /\ [Next]_vars => (TInv /\ IngestInv)'
    BY TypeStep, IngestStep
  <1>3. IngestInv => NoMailSkipped
    BY DEF IngestInv, NoMailSkipped
  <1> QED
    BY <1>1, <1>2, <1>3, PTL DEF Spec

-----------------------------------------------------------------------------
(* SyncAccount implements Catchup: for any number of handlers, in whatever *)
(* order they overtake each other, a step of the queue, the handlers, the  *)
(* users or the provider is one step of the abstract mailbox or none.      *)

\* Nothing stored or in flight lies beyond what has arrived.
WithinRun(r) ==
  /\ ctx[r].cursor <= arrived
  /\ result[r].nextCursor <= arrived
  /\ result[r].emails \subseteq 1 .. arrived

Within == cursor <= arrived /\ \A r \in Runs : WithinRun(r)

\* As the mailbox only grows, an invocation that is not touched stays within it.
LEMMA StaysWithin ==
  ASSUME TypeOK, TypeOK', Within, arrived <= arrived'
  PROVE  /\ cursor' = cursor => cursor' <= arrived'
         /\ \A r \in Runs :
              ctx'[r] = ctx[r] /\ result'[r] = result[r] => WithinRun(r)'
  <1>1. arrived \in Nat /\ arrived' \in Nat /\ cursor \in Int
    BY SyncAssumption DEF TypeOK, Position, NoCursor
  <1>2. cursor' = cursor => cursor' <= arrived'
    BY <1>1 DEF Within
  <1>3. ASSUME NEW r \in Runs, ctx'[r] = ctx[r], result'[r] = result[r]
        PROVE  WithinRun(r)'
    <2>1. ctx[r].cursor \in Int /\ result[r].nextCursor \in Int
      BY SyncAssumption DEF TypeOK, Context, Result, Position, NoCursor
    <2>2. 1 .. arrived \subseteq 1 .. arrived'
      BY <1>1
    <2> QED
      BY <1>1, <1>3, <2>1, <2>2 DEF Within, WithinRun
  <1> QED
    BY <1>2, <1>3

\* An invocation that stops holds nothing, and the mailbox is as it was.
LEMMA StoppedWithin ==
  ASSUME TypeOK, TypeOK', Within, NEW r \in Runs, Forget(r), arrived' = arrived
  PROVE  \A q \in Runs : WithinRun(q)'
  <1>1. arrived \in Nat /\ arrived <= arrived'
    BY SyncAssumption DEF TypeOK
  <1>2. ctx'[r] = NoContext /\ result'[r] = NoResult
    BY DEF Forget, TypeOK
  <1>3. WithinRun(r)'
    BY <1>1, <1>2 DEF WithinRun, NoContext, NoResult, NoCursor
  <1>4. \A q \in Runs : q # r => ctx'[q] = ctx[q] /\ result'[q] = result[q]
    BY DEF Forget, TypeOK
  <1> QED
    BY <1>1, <1>3, <1>4, StaysWithin

\* What a delta gives lies within the mailbox.
LEMMA DeltaWithin ==
  ASSUME TypeOK, NEW from \in 0 .. MaxMail, from <= arrived
  PROVE  /\ DeltaSync(from).nextCursor <= arrived
         /\ DeltaSync(from).emails \subseteq 1 .. arrived
  <1> USE SyncAssumption
  <1> DEFINE upto == Least(arrived, from + Bound)
  <1>1. arrived \in Nat /\ from \in Nat /\ upto \in Nat /\ upto <= arrived
    BY DEF TypeOK, Least
  <1>2. After(from) = (from + 1) .. upto
    BY DEF After
  <1> HIDE DEF upto
  <1>3. After(from) \subseteq 1 .. arrived
    BY <1>1, <1>2
  <1>4. CASE provider = "gmail"
    BY <1>1, <1>3, <1>4 DEF DeltaSync, GmailDelta
  <1>5. CASE provider = "outlook"
    BY <1>1, <1>3, <1>5 DEF DeltaSync, OutlookDelta, upto
  <1>6. CASE provider = "imap"
    BY <1>1, <1>3, <1>6 DEF DeltaSync, ImapDelta, upto
  <1> QED
    BY <1>4, <1>5, <1>6 DEF TypeOK

\* No operation reaches beyond the mailbox.
LEMMA WithinStep == TInv /\ TInv' /\ Within /\ [Next]_vars => Within'
  <1> SUFFICES ASSUME TypeOK, TypeOK', ReadyToCall, Within, [Next]_vars
               PROVE  Within'
    BY DEF TInv
  <1> USE SyncAssumption
  <1>0. arrived \in Nat /\ arrived <= arrived
    BY DEF TypeOK
  <1>1. ASSUME NEW r \in Runs, Fetch(r) PROVE Within'
    <2>1. /\ \A q \in Runs : q # r => ctx'[q] = ctx[q]
          /\ ctx'[r].cursor = ctx[r].cursor
      BY <1>1 DEF Fetch, TypeOK, Context
    <2>2. UNCHANGED <<arrived, cursor, result>>
      BY <1>1 DEF Fetch, mailbox
    <2>3. WithinRun(r)'
      BY <2>1, <2>2 DEF Within, WithinRun
    <2> QED
      BY <1>0, <2>1, <2>2, <2>3, StaysWithin DEF Within
  <1>2. ASSUME NEW r \in Runs, Load(r) PROVE Within'
    <2>1. UNCHANGED <<arrived, cursor>>
      BY <1>2 DEF Load, mailbox
    <2>2. CASE status = "active"
      <3>1. /\ \A q \in Runs : q # r => ctx'[q] = ctx[q]
            /\ ctx'[r].cursor = cursor /\ result' = result
        BY <1>2, <2>2 DEF Load, TypeOK
      <3>2. WithinRun(r)'
        BY <2>1, <3>1 DEF Within, WithinRun
      <3> QED
        BY <1>0, <2>1, <3>1, <3>2, StaysWithin DEF Within
    <2>3. CASE status # "active"
      BY <1>0, <1>2, <2>1, <2>3, StaysWithin, StoppedWithin DEF Load, Stop, Within
    <2> QED
      BY <2>2, <2>3
  <1>3. ASSUME NEW r \in Runs, NEW res \in Result, Listed(r, res),
               cursor' = cursor, arrived' = arrived,
               res.nextCursor <= arrived, res.emails \subseteq 1 .. arrived
        PROVE  Within'
    <2>1. /\ \A q \in Runs : q # r => ctx'[q] = ctx[q] /\ result'[q] = result[q]
          /\ ctx'[r].cursor = ctx[r].cursor /\ result'[r] = res
      BY <1>3 DEF Listed, TypeOK, Context
    <2>2. WithinRun(r)'
      BY <1>3, <2>1 DEF Within, WithinRun
    <2> QED
      BY <1>0, <1>3, <2>1, <2>2, StaysWithin DEF Within
  <1>4. ASSUME NEW r \in Runs, Delta(r) PROVE Within'
    <2> DEFINE res == DeltaSync(ctx[r].cursor)
    <2>1. Listed(r, res) /\ UNCHANGED <<cursor, arrived>>
      BY <1>4 DEF Delta, mailbox
    <2>2. ctx[r].cursor \in 0 .. MaxMail /\ ctx[r].cursor <= arrived
      BY <1>4 DEF Delta, ReadyToCall, TypeOK, Context, Position, NoCursor, Within,
                  WithinRun
    <2>3. res \in Result /\ res.nextCursor <= arrived /\ res.emails \subseteq 1 .. arrived
      BY <2>2, DeltaSyncGives, DeltaWithin
    <2> HIDE DEF res
    <2> QED
      BY <1>3, <2>1, <2>3
  <1>5. ASSUME NEW r \in Runs, Seed(r) PROVE Within'
    <2>1. UNCHANGED <<arrived, cursor, ctx>>
      BY <1>5 DEF Seed, mailbox
    <2>2. /\ \A q \in Runs : q # r => result'[q] = result[q]
          /\ result'[r].nextCursor \in {result[r].nextCursor, arrived}
          /\ result'[r].emails = result[r].emails
      BY <1>5 DEF Seed, TypeOK, Result
    <2>3. WithinRun(r)'
      BY <1>0, <2>1, <2>2 DEF Within, WithinRun
    <2> QED
      BY <1>0, <2>1, <2>2, <2>3, StaysWithin DEF Within
  <1>6. ASSUME NEW r \in Runs, List(r) PROVE Within'
    <2> DEFINE res == FullSync(result[r].nextCursor)
    <2>1. Listed(r, res) /\ UNCHANGED <<cursor, arrived>>
      BY <1>6 DEF List, mailbox
    <2>2. result[r].nextCursor \in Position /\ result[r].nextCursor <= arrived
      BY DEF Within, WithinRun, TypeOK, Result
    <2>3. /\ res \in Result /\ res.nextCursor \in {result[r].nextCursor, arrived}
          /\ res.emails = (LeftOut + 1) .. arrived /\ LeftOut \in 0 .. MaxMail
      BY <2>2, FullSyncTypes
    <2> HIDE DEF res
    <2>4. res.emails \subseteq 1 .. arrived
      BY <1>0, <2>3
    <2> QED
      BY <1>0, <1>3, <2>1, <2>2, <2>3, <2>4
  <1>7. ASSUME NEW r \in Runs, Save(r) PROVE Within'
    <2>1. UNCHANGED <<arrived, cursor, ctx>>
      BY <1>7 DEF Save, mailbox
    <2>2. /\ \A q \in Runs : q # r => result'[q] = result[q]
          /\ result'[r].nextCursor = result[r].nextCursor /\ result'[r].emails = {}
      BY <1>7 DEF Save, TypeOK, Result
    <2>3. WithinRun(r)'
      BY <2>1, <2>2 DEF Within, WithinRun
    <2> QED
      BY <1>0, <2>1, <2>2, <2>3, StaysWithin DEF Within
  <1>8. ASSUME NEW r \in Runs, Record(r) PROVE Within'
    <2>1. Forget(r) /\ arrived' = arrived
      BY <1>8 DEF Record, mailbox
    <2>2. cursor' <= arrived'
      BY <1>8, <2>1 DEF Record, Within, WithinRun
    <2> QED
      BY <2>1, <2>2, StoppedWithin DEF Within
  <1>9. ASSUME NEW r \in Runs, Return(r) \/ HandledError(r) \/ Throw(r)
        PROVE  Within'
    <2>1. Forget(r) /\ UNCHANGED <<arrived, cursor>>
      BY <1>9 DEF Return, HandledError, Reauth, RateLimited, Transient, CallFailed,
                  Throw, Stop, mailbox
    <2> QED
      BY <1>0, <2>1, StaysWithin, StoppedWithin DEF Within
  <1>10. ASSUME Crash PROVE Within'
    <2>1. UNCHANGED <<arrived, cursor>>
      BY <1>10 DEF Crash, mailbox
    <2>2. ASSUME NEW r \in Runs PROVE WithinRun(r)'
      BY <1>0, <1>10, <2>1 DEF Crash, WithinRun, NoContext, NoResult, NoCursor
    <2> QED
      BY <1>0, <2>1, <2>2, StaysWithin DEF Within
  <1>11. ASSUME \/ \E r \in Runs : RefreshTokens(r) \/ CursorExpires(r) \/ More(r)
                \/ Expire \/ Requested \/ Reconnect \/ TokenHealth \/ Remote
                \/ UNCHANGED vars
         PROVE  Within'
    <2>1. UNCHANGED <<cursor, ctx, result>>
      BY <1>11 DEF RefreshTokens, CursorExpires, More, Expire, Requested, Reconnect,
                   TokenHealth, Remote, vars, run
    <2>2. arrived' = arrived \/ arrived' = arrived + 1
      BY <1>11 DEF RefreshTokens, CursorExpires, More, Expire, Requested, Reconnect,
                   TokenHealth, Remote, Arrive, Age, Revoke, vars, mailbox
    <2> QED
      BY <1>0, <2>1, <2>2, StaysWithin DEF Within
  <1> QED
    BY <1>1, <1>2, <1>4, <1>5, <1>6, <1>7, <1>8, <1>9, <1>10, <1>11
       DEF Next, Step, Poll, GmailPush, GraphPush

-----------------------------------------------------------------------------
(* The step simulation.                                                    *)

\* A step that changes neither mailbox, rows, cursor nor what was let go is no
\* step of Catchup.
LEMMA Stutters ==
  UNCHANGED <<arrived, events, cursor, left>> => UNCHANGED Promise!vars
  BY DEF Promise!vars

\* Recording a covered cursor is Catchup's Move.
LEMMA RecordMoves ==
  ASSUME TypeOK, IngestInv, Within, NEW r \in Runs, Record(r)
  PROVE  Promise!Move
  <1> USE SyncAssumption
  <1>1. UNCHANGED <<arrived, events, left>> /\ At(r, {"record"})
    BY DEF Record, mailbox
  <1>2. cursor' \in {ctx[r].cursor, result[r].nextCursor}
    BY DEF Record
  <1>3. /\ ctx[r].cursor \in Position /\ result[r].nextCursor \in Position
        /\ ctx[r].cursor <= arrived /\ result[r].nextCursor <= arrived
        /\ arrived \in 0 .. MaxMail
    BY DEF TypeOK, Context, Result, Within, WithinRun
  <1>4. cursor' \in Promise!NoCursor .. arrived
    BY <1>2, <1>3 DEF Promise!NoCursor, Position, NoCursor
  <1>5. Covered(ctx[r].cursor) /\ Covered(result[r].nextCursor)
    BY <1>1 DEF IngestInv, Sound, Covered, At
  <1>6. ASSUME NEW m \in 1 .. cursor' PROVE Promise!Settled(m)
    <2>1. m \in Mail /\ m <= cursor'
      BY <1>3, <1>4 DEF Promise!NoCursor, Mail
    <2> QED
      BY <1>2, <1>5, <2>1 DEF Covered, Promise!Settled
  <1> QED
    BY <1>1, <1>4, <1>6 DEF Promise!Move

\* Every operation is a step of Catchup or none.
LEMMA Simulates ==
  TInv /\ IngestInv /\ Within /\ [Next]_vars => [Promise!Next]_(Promise!vars)
  <1> SUFFICES ASSUME TypeOK, IngestInv, Within, [Next]_vars
               PROVE  Promise!Next \/ UNCHANGED Promise!vars
    BY DEF TInv
  <1> USE SyncAssumption
  <1>1. ASSUME NEW r \in Runs, NEW S \in SUBSET result[r].emails,
               events' = events \cup S, UNCHANGED <<arrived, cursor, left>>
        PROVE  Promise!Ingest
    <2>1. S \in SUBSET (1 .. arrived)
      BY DEF Within, WithinRun
    <2> QED
      BY <1>1, <2>1 DEF Promise!Ingest
  <1>2. ASSUME NEW r \in Runs, Save(r) PROVE Promise!Ingest
    BY <1>1, <1>2 DEF Save, mailbox
  <1>3. ASSUME NEW r \in Runs, Throw(r) PROVE Promise!Ingest
    BY <1>1, <1>3 DEF Throw, mailbox
  <1>4. ASSUME NEW r \in Runs, List(r) PROVE Promise!GiveUp
    <2>1. 1 .. LeftOut \in SUBSET (1 .. arrived)
      <3>1. LeftOut \in Int /\ LeftOut <= arrived /\ arrived \in Int
        BY DEF LeftOut, TypeOK
      <3> QED
        BY <3>1
    <2>2. UNCHANGED <<arrived, events, cursor>> /\ left' = left \cup 1 .. LeftOut
      BY <1>4 DEF List, mailbox
    <2> QED
      BY <2>1, <2>2 DEF Promise!GiveUp, Promise!LetGo
  <1>5. ASSUME NEW r \in Runs, Record(r) PROVE Promise!Move
    BY <1>5, RecordMoves
  <1>6. ASSUME Remote PROVE Promise!Arrive \/ UNCHANGED Promise!vars
    <2>1. UNCHANGED <<events, cursor, left>>
      BY <1>6 DEF Remote
    <2> QED
      BY <1>6, <2>1, Stutters DEF Remote, Arrive, Age, Revoke, Promise!Arrive
  <1>7. ASSUME \/ \E r \in Runs :
                    \/ Fetch(r) \/ RefreshTokens(r) \/ Load(r) \/ Delta(r)
                    \/ CursorExpires(r) \/ Seed(r) \/ More(r) \/ Return(r)
                    \/ HandledError(r)
               \/ Expire \/ Crash \/ Requested \/ Reconnect \/ TokenHealth
               \/ UNCHANGED vars
        PROVE  UNCHANGED Promise!vars
    <2>1. UNCHANGED <<arrived, events, cursor, left>>
      BY <1>7 DEF Fetch, RefreshTokens, Load, Delta, CursorExpires, Seed, More, Return,
                  HandledError, Reauth, RateLimited, Transient, CallFailed, Expire,
                  Crash, Requested, Reconnect, TokenHealth, vars, mailbox
    <2> QED
      BY <2>1, Stutters
  <1> QED
    BY <1>2, <1>3, <1>4, <1>5, <1>6, <1>7
       DEF Next, Step, Poll, GmailPush, GraphPush, Promise!Next

\* Whatever a handler, the queue, a user or the provider does is, for the
\* mailbox, one step of Catchup: rows first, the cursor only over settled mail.
THEOREM Refines == Spec => CatchesUp
  <1>1. Init => TInv /\ IngestInv /\ Within /\ Promise!Init
    <2>1. Init => TInv
      BY TypeInit
    <2>2. ASSUME Init PROVE IngestInv /\ Within
      BY <2>2, SyncAssumption
         DEF Init, IngestInv, Sound, Covered, At, NoContext, NoResult, NoCursor, Mail,
             Within, WithinRun
    <2>3. ASSUME Init PROVE Promise!Init
      BY <2>3 DEF Init, Promise!Init, NoCursor, Promise!NoCursor
    <2> QED
      BY <2>1, <2>2, <2>3
  <1>2. TInv /\ IngestInv /\ Within /\ [Next]_vars => (TInv /\ IngestInv /\ Within)'
    BY TypeStep, IngestStep, WithinStep
  <1>3. TInv /\ IngestInv /\ Within /\ [Next]_vars => [Promise!Next]_(Promise!vars)
    BY Simulates
  <1> QED
    BY <1>1, <1>2, <1>3, PTL DEF Spec, CatchesUp, Promise!Spec
=============================================================================
