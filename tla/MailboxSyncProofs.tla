-------------------------- MODULE MailboxSyncProofs --------------------------
(***************************************************************************)
(* Type correctness of MailboxSync, that the end of a chain of runs means  *)
(* what it says, and that MailboxSync implements Catchup: for every number *)
(* of overlapping runs, every page size and bound, every provider.         *)
(***************************************************************************)
EXTENDS MailboxSync, FiniteSetTheorems, TLAPS

-----------------------------------------------------------------------------
(* Types.                                                                  *)

\* The positions of the mailbox are positions.
LEMMA Sizes ==
  ASSUME TypeOK
  PROVE  /\ arrived \in Nat /\ arrived <= MaxMail /\ MaxMail \in Nat
         /\ arrived \in Position /\ cursor \in Position
         /\ aged \in Nat /\ aged <= arrived
         /\ 1 .. arrived \subseteq Mail
         /\ Old \subseteq 1 .. arrived
         /\ Window \subseteq Present /\ Present \subseteq 1 .. arrived
  <1>1. /\ arrived \in Nat /\ arrived <= MaxMail /\ MaxMail \in Nat
        /\ aged \in Nat /\ aged <= arrived
    BY MailboxAssumption DEF TypeOK
  <1> QED
    BY <1>1 DEF TypeOK, Position, NoCursor, Mail, Old, Window, Present

\* What is under way, and what is left of it, are calls.
LEMMA CallTypes ==
  ASSUME TypeOK, NEW emails \in SUBSET Mail, NEW next \in Position
  PROVE  /\ \A more \in BOOLEAN : Listing(emails, next, more) \in Call
         /\ \A pos \in 0 .. MaxMail, used \in Nat, ahead \in SUBSET Mail :
              Paging(pos, used, ahead, emails, next) \in Call
  BY Sizes DEF Listing, Paging, Call

\* A run that knows nothing yet is well typed.
LEMMA EmptyTypes == NoCall \in Call /\ NoContext \in Context
  BY MailboxAssumption
     DEF NoCall, Paging, Call, NoContext, Context, Position, NoCursor

\* A step of one run to a known place is well typed, and moves no other.
LEMMA GotoTypes ==
  ASSUME TypeOK, NEW r \in Runs, NEW step \in Steps, NEW c \in Call, Goto(r, step, c)
  PROVE  /\ pc' \in [Runs -> Steps] /\ pc'[r] = step
         /\ call' \in [Runs -> Call] /\ call'[r] = c
         /\ \A q \in Runs : q # r => pc'[q] = pc[q] /\ call'[q] = call[q]
  BY DEF Goto, TypeOK

\* A run that is over forgets everything.
LEMMA EndTypes ==
  ASSUME TypeOK, NEW r \in Runs, NEW step \in {"idle", "failed"}, End(r, step)
  PROVE  /\ pc' \in [Runs -> Steps] /\ pc'[r] = step
         /\ call' \in [Runs -> Call] /\ call'[r] = NoCall
         /\ ctx' \in [Runs -> Context] /\ ctx'[r] = NoContext
         /\ \A q \in Runs :
              q # r => pc'[q] = pc[q] /\ call'[q] = call[q] /\ ctx'[q] = ctx[q]
  <1>1. Goto(r, step, NoCall) /\ ctx' = [ctx EXCEPT ![r] = NoContext] /\ step \in Steps
    BY DEF End, Steps
  <1>2. ctx' \in [Runs -> Context] /\ ctx'[r] = NoContext
        /\ \A q \in Runs : q # r => ctx'[q] = ctx[q]
    BY <1>1, EmptyTypes DEF TypeOK
  <1> QED
    BY <1>1, <1>2, EmptyTypes, GotoTypes

\* The parts of what a run holds.
LEMMA Parts ==
  ASSUME TypeOK, NEW r \in Runs
  PROVE  /\ ctx[r].from \in Position /\ ctx[r].begun \in 0 .. MaxMail
         /\ call[r].pos \in 0 .. MaxMail /\ call[r].used \in Nat
         /\ call[r].ahead \in SUBSET Mail /\ call[r].emails \in SUBSET Mail
         /\ call[r].next \in Position /\ call[r].more \in BOOLEAN
  BY DEF TypeOK, Context, Call

-----------------------------------------------------------------------------
(* The invariant.                                                          *)

\* What is settled for run r, or will be once it has saved what it listed.
Held(r, m) == m \in rows \cup gone \cup lost \cup call[r].emails

\* Nothing a run holds lies beyond what has arrived.
Within(r) ==
  /\ ctx[r].from <= arrived /\ ctx[r].begun <= arrived
  /\ call[r].pos <= arrived /\ call[r].next <= arrived
  /\ call[r].ahead \subseteq 1 .. arrived
  /\ call[r].emails \subseteq 1 .. arrived

\* A delta has a cursor to start from; Outlook's pages are listed as they come.
Reads(r) ==
  pc[r] = "delta" =>
    /\ ctx[r].from # NoCursor /\ ctx[r].from <= call[r].pos
    /\ provider = "outlook" => \A m \in 1 .. call[r].pos : Held(r, m)

\* A listing under way has lost sight of nothing that was there at its start.
Lists(r) ==
  pc[r] = "list" /\ call[r].used > 0 =>
    \A m \in 1 .. arrived :
      m <= call[r].next \/ m <= ctx[r].begun =>
        Held(r, m) \/ m \in call[r].ahead \cup Old

\* What an IMAP search found, down to the last message it left out.
Finds(r) ==
  pc[r] = "fetch" /\ provider = "imap" =>
    \A m \in 1 .. arrived :
      m <= ctx[r].begun \/ (\E k \in call[r].emails : m <= k) =>
        m \in call[r].emails \cup call[r].ahead \cup gone \cup Old

\* ... and what it did not find.
Counts(r) == pc[r] = "count" => 1 .. ctx[r].begun \subseteq gone \cup Old

\* A connector call that is over accounts for everything up to its cursor and,
\* if it says there is no more, for everything that was there at its start.
Closes(r) ==
  pc[r] \in {"save", "record"} \/ (pc[r] = "fetch" /\ provider # "imap") =>
    /\ \A m \in 1 .. call[r].next : Held(r, m)
    /\ ~call[r].more => \A m \in 1 .. ctx[r].begun : Held(r, m)

Sound(r) ==
  /\ \A m \in 1 .. ctx[r].from : Promise!Settled(m)
  /\ Within(r)
  /\ Reads(r) /\ Lists(r) /\ Finds(r) /\ Counts(r) /\ Closes(r)
  /\ pc[r] = "record" => call[r].emails = {}

CaughtUp == \A m \in 1 .. cursor : Promise!Settled(m)

IInv == TypeOK /\ CaughtUp /\ \A r \in Runs : Sound(r)

-----------------------------------------------------------------------------
(* Frames: what a step leaves as it was stays sound.                       *)

\* Rows, departures and what was let go are never taken back.
Grows ==
  /\ rows \subseteq rows' /\ gone \subseteq gone' /\ lost \subseteq lost'
  /\ arrived' = arrived /\ UNCHANGED fixed

\* A step that takes nothing back leaves every run it does not touch sound.
LEMMA Untouched ==
  ASSUME TypeOK, Grows, NEW r \in Runs, Sound(r),
         pc'[r] = pc[r], ctx'[r] = ctx[r], call'[r] = call[r]
  PROVE  Sound(r)'
  <1>1. \A m : Promise!Settled(m) => Promise!Settled(m)'
    BY DEF Promise!Settled, Grows
  <1>2. \A m : Held(r, m) => Held(r, m)'
    BY DEF Held, Grows
  <1>3. Old' = Old /\ provider' = provider /\ arrived' = arrived /\ gone \subseteq gone'
    BY DEF Grows, fixed, Old
  <1>4. (\A m \in 1 .. ctx[r].from : Promise!Settled(m))' /\ Within(r)'
    BY <1>1, <1>3 DEF Sound, Within
  <1>5. Reads(r)'
    BY <1>2, <1>3 DEF Sound, Reads
  <1>6. Lists(r)'
    BY <1>2, <1>3 DEF Sound, Lists
  <1>7. Finds(r)'
    BY <1>3 DEF Sound, Finds
  <1>8. Counts(r)'
    BY <1>3 DEF Sound, Counts
  <1>9. Closes(r)'
    BY <1>2, <1>3 DEF Sound, Closes
  <1> QED
    BY <1>4, <1>5, <1>6, <1>7, <1>8, <1>9 DEF Sound

\* The stored cursor stays covered while it does not move.
LEMMA CursorStays ==
  ASSUME CaughtUp, Grows, cursor' = cursor
  PROVE  CaughtUp'
  BY DEF CaughtUp, Grows, Promise!Settled

\* A run that knows nothing is sound wherever it may be at its start or end.
LEMMA EmptyIsSound ==
  ASSUME TypeOK', NEW r \in Runs,
         ctx'[r] = NoContext, call'[r] = NoCall, pc'[r] \in {"idle", "failed"}
  PROVE  Sound(r)'
  <1>1. arrived' \in Nat
    BY MailboxAssumption DEF TypeOK
  <1> QED
    BY <1>1 DEF Sound, Within, Reads, Lists, Finds, Counts, Closes, NoContext, NoCall,
                Paging, NoCursor

\* One run moves on, the others and the cursor stay: it is its own soundness
\* that is left to show.
LEMMA OneMoves ==
  ASSUME IInv, TypeOK', Grows, cursor' = cursor, NEW r \in Runs, Sound(r)',
         \A q \in Runs :
           q # r => pc'[q] = pc[q] /\ call'[q] = call[q] /\ ctx'[q] = ctx[q]
  PROVE  IInv'
  BY Untouched, CursorStays DEF IInv

\* A request changes at most what has been let go.
Requested(r, step, c, S) ==
  /\ Goto(r, step, c)
  /\ lost' = lost \cup S
  /\ UNCHANGED <<mailbox, fixed, table, ctx>>

\* After a request the types are right, and the run's own soundness is left.
LEMMA Moves ==
  ASSUME IInv, NEW r \in Runs, NEW step \in Steps, NEW c \in Call,
         NEW S \in SUBSET (1 .. arrived), Requested(r, step, c, S)
  PROVE  /\ TypeOK' /\ pc'[r] = step /\ call'[r] = c
         /\ (\A m \in 1 .. ctx[r].from : Promise!Settled(m))'
         /\ Sound(r)' => IInv'
  <1>1. TypeOK
    BY DEF IInv
  <1>2. /\ pc' \in [Runs -> Steps] /\ pc'[r] = step
        /\ call' \in [Runs -> Call] /\ call'[r] = c
        /\ \A q \in Runs : q # r => pc'[q] = pc[q] /\ call'[q] = call[q]
    BY <1>1, GotoTypes DEF Requested
  <1>3. UNCHANGED <<arrived, gone, provider, aged, copies, rows, cursor, ctx>>
    BY DEF Requested, mailbox, fixed, table
  <1>4. lost' = lost \cup S
    BY DEF Requested
  <1>5. TypeOK'
    BY <1>1, <1>2, <1>3, <1>4 DEF TypeOK
  <1>6. Grows /\ cursor' = cursor
    BY <1>3, <1>4 DEF Grows, fixed
  <1>7. (\A m \in 1 .. ctx[r].from : Promise!Settled(m))'
    BY <1>3, <1>4 DEF IInv, Sound, Promise!Settled
  <1> QED
    BY <1>2, <1>3, <1>5, <1>6, <1>7, OneMoves

\* A connector call ends well if all is accounted for.
LEMMA Ends ==
  ASSUME IInv, NEW r \in Runs, NEW step \in {"save", "fetch"},
         NEW emails \in SUBSET (1 .. arrived), NEW next \in Position, next <= arrived,
         NEW more \in BOOLEAN, NEW S \in SUBSET (1 .. arrived),
         Requested(r, step, Listing(emails, next, more), S),
         step = "fetch" => provider # "imap",
         \A m \in 1 .. next : m \in rows \cup gone \cup lost \cup S \cup emails,
         ~more => \A m \in 1 .. ctx[r].begun :
                    m \in rows \cup gone \cup lost \cup S \cup emails
  PROVE  IInv'
  <1> DEFINE c == Listing(emails, next, more)
  <1>1. TypeOK /\ arrived \in Nat /\ emails \in SUBSET Mail /\ step \in Steps
    BY Sizes DEF IInv, Steps
  <1>2. /\ c \in Call /\ c.pos = 0 /\ c.ahead = {} /\ c.emails = emails
        /\ c.next = next /\ c.more = more
    BY <1>1, CallTypes DEF Listing
  <1> HIDE DEF c
  <1>3. /\ TypeOK' /\ pc'[r] = step /\ call'[r] = c
        /\ (\A m \in 1 .. ctx[r].from : Promise!Settled(m))'
        /\ Sound(r)' => IInv'
    BY <1>1, <1>2, Moves DEF c
  <1>4. UNCHANGED <<arrived, gone, provider, rows, ctx>> /\ lost' = lost \cup S
    BY DEF Requested, mailbox, fixed, table
  <1>5. Within(r)'
    BY <1>1, <1>2, <1>3, <1>4 DEF IInv, Sound, Within
  <1>6. Closes(r)'
    BY <1>2, <1>3, <1>4 DEF Closes, Held
  <1>7. Reads(r)' /\ Lists(r)' /\ Finds(r)' /\ Counts(r)' /\ pc'[r] # "record"
    BY <1>3, <1>4 DEF Reads, Lists, Finds, Counts
  <1> QED
    BY <1>3, <1>5, <1>6, <1>7 DEF Sound

\* A connector call goes on, with a page's worth more known than before.
LEMMA GoesOn ==
  ASSUME IInv, NEW r \in Runs, NEW step \in {"delta", "seed", "list", "count", "fetch"},
         NEW pos \in 0 .. arrived, NEW used \in Nat, NEW ahead \in SUBSET (1 .. arrived),
         NEW emails \in SUBSET (1 .. arrived), NEW next \in Position, next <= arrived,
         Requested(r, step, Paging(pos, used, ahead, emails, next), {}),
         step = "delta" =>
           /\ ctx[r].from # NoCursor /\ ctx[r].from <= pos
           /\ provider = "outlook" =>
                \A m \in 1 .. pos : m \in rows \cup gone \cup lost \cup emails,
         step = "list" /\ used > 0 =>
           \A m \in 1 .. arrived :
             m <= next \/ m <= ctx[r].begun =>
               m \in rows \cup gone \cup lost \cup emails \cup ahead \cup Old,
         step = "fetch" =>
           provider = "imap" /\ 1 .. arrived \subseteq emails \cup ahead \cup gone \cup Old,
         step = "count" => 1 .. ctx[r].begun \subseteq gone \cup Old
  PROVE  IInv'
  <1> DEFINE c == Paging(pos, used, ahead, emails, next)
  <1>1. /\ TypeOK /\ arrived \in Nat /\ emails \in SUBSET Mail /\ ahead \in SUBSET Mail
        /\ pos \in 0 .. MaxMail /\ pos <= arrived /\ step \in Steps
    BY Sizes DEF IInv, Steps
  <1>2. /\ c \in Call /\ c.pos = pos /\ c.used = used /\ c.ahead = ahead
        /\ c.emails = emails /\ c.next = next
    BY <1>1, CallTypes DEF Paging
  <1> HIDE DEF c
  <1>3. {} \in SUBSET (1 .. arrived)
    OBVIOUS
  <1>4. /\ pc'[r] = step /\ call'[r] = c
        /\ (\A m \in 1 .. ctx[r].from : Promise!Settled(m))'
        /\ Sound(r)' => IInv'
    BY <1>1, <1>2, <1>3, Moves DEF c
  <1>5. UNCHANGED <<arrived, gone, provider, aged, rows, ctx, lost>>
    BY DEF Requested, mailbox, fixed, table
  <1>6. Within(r)'
    BY <1>1, <1>2, <1>4, <1>5 DEF IInv, Sound, Within
  <1>7. Reads(r)'
    BY <1>2, <1>4, <1>5 DEF Reads, Held
  <1>8. Lists(r)'
    BY <1>2, <1>4, <1>5 DEF Lists, Held, Old
  <1>9. Finds(r)' /\ Counts(r)'
    BY <1>2, <1>4, <1>5 DEF Finds, Counts, Old
  <1>10. Closes(r)' /\ pc'[r] # "record"
    BY <1>4, <1>5 DEF Closes
  <1> QED
    BY <1>4, <1>6, <1>7, <1>8, <1>9, <1>10 DEF Sound

-----------------------------------------------------------------------------
(* The steps of a delta.                                                   *)

\* A page ends further on in the mailbox, or where it was at its end.
LEMMA PagesWithin ==
  ASSUME TypeOK, NEW pos \in 0 .. MaxMail, NEW end \in PageEnds(pos)
  PROVE  end \in 0 .. arrived /\ pos <= end /\ end \in Position /\ end <= arrived
  <1>1. arrived \in Nat /\ arrived <= MaxMail /\ pos \in Nat /\ PageSize \in Nat
    BY Sizes, MailboxAssumption
  <1>2. Least(arrived, pos + PageSize) \in Nat /\ Least(arrived, pos + PageSize) <= arrived
    BY <1>1 DEF Least
  <1>3. end \in pos .. Least(arrived, pos + PageSize)
    BY DEF PageEnds
  <1>4. end \in Nat /\ pos <= end /\ end <= arrived
    BY <1>1, <1>2, <1>3
  <1> QED
    BY <1>1, <1>4, MailboxAssumption DEF Position, NoCursor

\* Outlook's pages: what is listed reaches as far as the link that is kept.
LEMMA DrainDeltaStep ==
  ASSUME IInv, NEW r \in Runs, DrainDelta(r)
  PROVE  IInv'
  <1>1. TypeOK /\ Sound(r) /\ pc[r] = "delta" /\ provider = "outlook"
    BY DEF IInv, DrainDelta, At
  <1>2. PICK end \in PageEnds(call[r].pos) :
          LET emails == call[r].emails \cup (((call[r].pos + 1) .. end) \ gone)
              pages  == call[r].used + 1
          IN  \/ /\ end = arrived \/ pages >= MaxPages
                 /\ Goto(r, "save", Listing(emails, end, end # arrived))
              \/ /\ end # arrived /\ pages < MaxPages
                 /\ Goto(r, "delta", Paging(end, pages, {}, emails, NoCursor))
    BY DEF DrainDelta
  <1> DEFINE emails == call[r].emails \cup (((call[r].pos + 1) .. end) \ gone)
  <1>3. /\ call[r].pos \in 0 .. MaxMail /\ call[r].used + 1 \in Nat /\ arrived \in Nat
        /\ ctx[r].from \in Int /\ ctx[r].begun \in Nat
    BY <1>1, Parts, Sizes DEF Position, NoCursor
  <1>4. end \in 0 .. arrived /\ call[r].pos <= end /\ end \in Position /\ end <= arrived
    BY <1>1, <1>3, PagesWithin
  <1>5. emails \in SUBSET (1 .. arrived)
    BY <1>1, <1>3, <1>4 DEF Sound, Within
  <1>6. \A m \in 1 .. end : m \in rows \cup gone \cup lost \cup emails
    BY <1>1, <1>3, <1>4 DEF Sound, Reads, Held
  <1>7. UNCHANGED <<mailbox, fixed, table, lost, ctx>>
    BY DEF DrainDelta
  <1>8. CASE Goto(r, "save", Listing(emails, end, end # arrived))
    <2>1. Requested(r, "save", Listing(emails, end, end # arrived), {})
      BY <1>7, <1>8 DEF Requested
    <2>2. end = arrived => \A m \in 1 .. ctx[r].begun : m \in 1 .. end
      BY <1>1, <1>3 DEF Sound, Within
    <2>3. ~(end # arrived) =>
            \A m \in 1 .. ctx[r].begun : m \in rows \cup gone \cup lost \cup {} \cup emails
      BY <1>6, <2>2
    <2>4. \A m \in 1 .. end : m \in rows \cup gone \cup lost \cup {} \cup emails
      BY <1>6
    <2>5. (end # arrived) \in BOOLEAN /\ {} \in SUBSET (1 .. arrived)
      OBVIOUS
    <2> HIDE DEF emails
    <2> QED
      BY <1>4, <1>5, <2>1, <2>3, <2>4, <2>5, Ends
  <1>9. CASE Goto(r, "delta", Paging(end, call[r].used + 1, {}, emails, NoCursor))
    <2>1. Requested(r, "delta", Paging(end, call[r].used + 1, {}, emails, NoCursor), {})
      BY <1>7, <1>9 DEF Requested
    <2>2. ctx[r].from # NoCursor /\ ctx[r].from <= end
      BY <1>1, <1>3, <1>4 DEF Sound, Reads
    <2>3. NoCursor \in Position /\ NoCursor <= arrived /\ {} \in SUBSET (1 .. arrived)
      BY <1>3, MailboxAssumption DEF Position, NoCursor
    <2> HIDE DEF emails
    <2> QED
      BY <1>3, <1>4, <1>5, <1>6, <2>1, <2>2, <2>3, GoesOn
  <1> QED
    BY <1>2, <1>8, <1>9

\* Gmail's history: a truncated run keeps the cursor it read.
LEMMA HistoryStep ==
  ASSUME IInv, NEW r \in Runs, History(r)
  PROVE  IInv'
  <1> DEFINE from == ctx[r].from
  <1>1. TypeOK /\ Sound(r) /\ pc[r] = "delta" /\ provider = "gmail"
    BY DEF IInv, History, At
  <1>2. PICK end \in PageEnds(call[r].pos) :
          \/ /\ end - from >= Bound
             /\ Goto(r, "fetch", Listing((from + 1) .. (from + Bound), from, TRUE))
          \/ /\ end - from < Bound /\ end = arrived
             /\ Goto(r, "fetch", Listing((from + 1) .. end, end, FALSE))
          \/ /\ end - from < Bound /\ end # arrived
             /\ Goto(r, "delta", Paging(end, 0, {}, {}, NoCursor))
    BY DEF History, Truncated
  <1>3. /\ call[r].pos \in 0 .. MaxMail /\ arrived \in Nat /\ Bound \in Nat
        /\ from \in Position /\ ctx[r].begun \in Nat
    BY <1>1, Parts, Sizes, MailboxAssumption
  <1>4. /\ end \in 0 .. arrived /\ call[r].pos <= end /\ end \in Position
        /\ end <= arrived
    BY <1>1, <1>3, PagesWithin
  <1>5. from \in Nat /\ from <= arrived /\ from <= end
    BY <1>1, <1>3, <1>4 DEF Sound, Within, Reads, Position, NoCursor
  <1>6. \A m \in 1 .. from : m \in rows \cup gone \cup lost
    BY <1>1 DEF Sound, Promise!Settled
  <1>7. UNCHANGED <<mailbox, fixed, table, lost, ctx>>
    BY DEF History
  <1>8. CASE /\ end - from >= Bound
             /\ Goto(r, "fetch", Listing((from + 1) .. (from + Bound), from, TRUE))
    <2> DEFINE emails == (from + 1) .. (from + Bound)
    <2>1. Requested(r, "fetch", Listing(emails, from, TRUE), {})
      BY <1>7, <1>8 DEF Requested
    <2>2. emails \in SUBSET (1 .. arrived)
      BY <1>3, <1>4, <1>5, <1>8
    <2>3. \A m \in 1 .. from : m \in rows \cup gone \cup lost \cup {} \cup emails
      BY <1>6
    <2>4. ~TRUE => \A m \in 1 .. ctx[r].begun :
                     m \in rows \cup gone \cup lost \cup {} \cup emails
      OBVIOUS
    <2>5. TRUE \in BOOLEAN /\ {} \in SUBSET (1 .. arrived) /\ provider # "imap"
      BY <1>1
    <2> HIDE DEF emails, from
    <2> QED
      BY <1>3, <1>5, <2>1, <2>2, <2>3, <2>4, <2>5, Ends
  <1>9. CASE /\ end = arrived
             /\ Goto(r, "fetch", Listing((from + 1) .. end, end, FALSE))
    <2> DEFINE emails == (from + 1) .. end
    <2>1. Requested(r, "fetch", Listing(emails, end, FALSE), {})
      BY <1>7, <1>9 DEF Requested
    <2>2. emails \in SUBSET (1 .. arrived)
      BY <1>3, <1>4, <1>5
    <2>3. \A m \in 1 .. end : m \in rows \cup gone \cup lost \cup {} \cup emails
      BY <1>3, <1>4, <1>5, <1>6
    <2>4. \A m \in 1 .. ctx[r].begun : m \in 1 .. end
      BY <1>1, <1>3, <1>4, <1>9 DEF Sound, Within
    <2>5. ~FALSE => \A m \in 1 .. ctx[r].begun :
                      m \in rows \cup gone \cup lost \cup {} \cup emails
      BY <2>3, <2>4
    <2>6. FALSE \in BOOLEAN /\ {} \in SUBSET (1 .. arrived) /\ provider # "imap"
      BY <1>1
    <2> HIDE DEF emails
    <2> QED
      BY <1>4, <2>1, <2>2, <2>3, <2>5, <2>6, Ends
  <1>10. CASE Goto(r, "delta", Paging(end, 0, {}, {}, NoCursor))
    <2>1. Requested(r, "delta", Paging(end, 0, {}, {}, NoCursor), {})
      BY <1>7, <1>10 DEF Requested
    <2>2. NoCursor \in Position /\ NoCursor <= arrived /\ {} \in SUBSET (1 .. arrived)
      BY <1>3, MailboxAssumption DEF Position, NoCursor
    <2>3. from # NoCursor /\ 0 \in Nat
      BY <1>5 DEF NoCursor
    <2> QED
      BY <1>1, <1>4, <1>5, <2>1, <2>2, <2>3, GoesOn
  <1> QED
    BY <1>2, <1>8, <1>9, <1>10

\* What an IMAP fetch takes in above the cursor has no holes: what is not taken
\* is higher, and if anything is not, the run was cut off.
LEMMA CutsTakeAll ==
  ASSUME TypeOK, NEW from \in Position, NEW bad \in SUBSET Above(from),
         NEW taken \in Cuts(Above(from), bad)
  PROVE  /\ taken \subseteq 1 .. arrived
         /\ \A m \in 1 .. arrived, k \in taken :
              from < m /\ m <= k => m \in gone \/ m \in taken
         /\ ~CutOff({m \in taken \ bad : m > from}) =>
              \A m \in 1 .. arrived : from < m => m \in gone \/ m \in taken
  <1> DEFINE above == {m \in Present : m > from}
             fresh == {m \in taken \ bad : m > from}
  <1>1. arrived \in Nat /\ from \in Int /\ Present = (1 .. arrived) \ gone
    BY Sizes DEF Position, NoCursor, Present
  <1>2. Above(from) = IF above = {} THEN Highest(Present) ELSE above
    BY DEF Above
  <1>3. /\ taken \in SUBSET Above(from)
        /\ \A m \in taken, n \in Above(from) \ taken : m < n
        /\ taken # Above(from) => Cardinality(taken \ bad) = Bound
    BY DEF Cuts
  <1>4. Above(from) \subseteq Present
    BY <1>2 DEF Highest
  <1>5. \A m \in 1 .. arrived : from < m => m \in gone \/ m \in above
    BY <1>1
  <1>6. CASE above = {}
    BY <1>1, <1>3, <1>4, <1>5, <1>6
  <1>7. CASE above # {}
    <2>1. Above(from) = above
      BY <1>2, <1>7
    <2>2. \A m \in 1 .. arrived, k \in taken :
            from < m /\ m <= k => m \in gone \/ m \in taken
      <3> SUFFICES ASSUME NEW m \in above, NEW k \in taken, m <= k, m \notin taken
                   PROVE  FALSE
        BY <1>5
      <3>1. k < m
        BY <1>3, <2>1
      <3> QED
        BY <1>1, <1>3, <1>4, <3>1
    <2>3. ASSUME ~CutOff(fresh) PROVE taken = above
      <3>1. fresh = taken \ bad
        BY <1>3, <2>1
      <3>2. Cardinality(taken \ bad) # Bound
        BY <2>3, <3>1, MailboxAssumption DEF CutOff
      <3> QED
        BY <1>3, <2>1, <3>2
    <2> QED
      BY <1>1, <1>3, <1>4, <1>5, <2>2, <2>3
  <1> QED
    BY <1>6, <1>7

\* IMAP's delta: the cursor is the highest message taken in, parsed or not.
LEMMA ImapDeltaStep ==
  ASSUME IInv, NEW r \in Runs, ImapDelta(r)
  PROVE  IInv'
  <1> DEFINE from == ctx[r].from
  <1>1. TypeOK /\ Sound(r) /\ pc[r] = "delta"
    BY DEF IInv, ImapDelta, At
  <1>a. PICK bad \in SUBSET Above(from) :
          \E taken \in Cuts(Above(from), bad) :
            LET fresh == {m \in taken \ bad : m > from}
            IN  \E top \in {from} \cup taken :
                  /\ top >= from /\ \A m \in taken : m <= top
                  /\ Goto(r, "save", Listing(fresh, top, CutOff(fresh)))
                  /\ lost' = lost \cup {m \in taken \cap bad : m > from}
    BY DEF ImapDelta
  <1>b. PICK taken \in Cuts(Above(from), bad) :
          LET fresh == {m \in taken \ bad : m > from}
          IN  \E top \in {from} \cup taken :
                /\ top >= from /\ \A m \in taken : m <= top
                /\ Goto(r, "save", Listing(fresh, top, CutOff(fresh)))
                /\ lost' = lost \cup {m \in taken \cap bad : m > from}
    BY <1>a
  <1>2. PICK top \in {from} \cup taken :
          /\ top >= from /\ \A m \in taken : m <= top
          /\ Goto(r, "save", Listing({m \in taken \ bad : m > from}, top,
                                     CutOff({m \in taken \ bad : m > from})))
          /\ lost' = lost \cup {m \in taken \cap bad : m > from}
    BY <1>b
  <1> DEFINE fresh == {m \in taken \ bad : m > from}
             S     == {m \in taken \cap bad : m > from}
  <1>3. /\ from \in Position /\ from \in Int /\ from <= arrived /\ arrived \in Nat
        /\ arrived <= MaxMail /\ ctx[r].begun \in Nat /\ ctx[r].begun <= arrived
    BY <1>1, Parts, Sizes DEF Sound, Within, Position, NoCursor
  <1>4. /\ taken \subseteq 1 .. arrived
        /\ \A m \in 1 .. arrived, k \in taken :
             from < m /\ m <= k => m \in gone \/ m \in taken
        /\ ~CutOff(fresh) =>
             \A m \in 1 .. arrived : from < m => m \in gone \/ m \in taken
    BY <1>1, <1>3, CutsTakeAll
  <1>5. \A m \in 1 .. arrived : m <= from => m \in rows \cup gone \cup lost
    BY <1>1, <1>3 DEF Sound, Promise!Settled
  <1>6. fresh \in SUBSET (1 .. arrived) /\ S \in SUBSET (1 .. arrived)
    BY <1>4
  <1>7. /\ top \in Position /\ top <= arrived
        /\ CutOff(fresh) \in BOOLEAN
    <2>1. top = from \/ top \in taken
      BY <1>2
    <2>2. top \in Int /\ top <= arrived /\ top >= -1
      <3>1. CASE top = from
        BY <1>3, <3>1 DEF Position, NoCursor
      <3>2. CASE top \in taken
        BY <1>3, <1>4, <3>2
      <3> QED
        BY <2>1, <3>1, <3>2
    <2>3. top \in Position
      BY <1>3, <2>2, MailboxAssumption DEF Position, NoCursor
    <2>4. CutOff(fresh) \in BOOLEAN
      BY DEF CutOff
    <2> QED
      BY <2>2, <2>3, <2>4
  <1>8. \A m \in 1 .. top : m \in rows \cup gone \cup lost \cup S \cup fresh
    BY <1>3, <1>4, <1>5, <1>7
  <1>9. ~CutOff(fresh) =>
          \A m \in 1 .. ctx[r].begun : m \in rows \cup gone \cup lost \cup S \cup fresh
    BY <1>3, <1>4, <1>5
  <1>10. Requested(r, "save", Listing(fresh, top, CutOff(fresh)), S)
    BY <1>2 DEF ImapDelta, Requested
  <1> HIDE DEF fresh, S
  <1> QED
    BY <1>6, <1>7, <1>8, <1>9, <1>10, Ends

-----------------------------------------------------------------------------
(* The steps of a full sync.                                               *)

\* The cursor for "now" is read before anything is listed.
LEMMA SeedStep ==
  ASSUME IInv, NEW r \in Runs, Seed(r)
  PROVE  IInv'
  <1>1. PICK next \in {NoCursor, arrived} : Goto(r, "list", Paging(0, 0, {}, {}, next))
    BY DEF Seed
  <1>2. Requested(r, "list", Paging(0, 0, {}, {}, next), {})
    BY <1>1 DEF Seed, Requested
  <1>3. arrived \in Nat /\ arrived \in Position
    BY Sizes DEF IInv
  <1>4. NoCursor \in Position /\ NoCursor <= arrived
    BY <1>3, MailboxAssumption DEF Position, NoCursor
  <1>5. /\ next \in Position /\ next <= arrived /\ {} \in SUBSET (1 .. arrived)
        /\ 0 \in 0 .. arrived /\ 0 \in Nat
    BY <1>1, <1>3, <1>4
  <1> QED
    BY <1>2, <1>5, GoesOn

\* Before and after a page, whatever the cursor or the end of the listing will
\* account for is settled, listed, still to be shown, or outside the window.
LEMMA ListingSees ==
  ASSUME IInv, NEW r \in Runs, pc[r] = "list", NEW p \in Pages(r)
  PROVE  /\ p.fresh \subseteq Ahead(r) /\ Ahead(r) \subseteq 1 .. arrived
         /\ p.shown \in Nat /\ IsFiniteSet(p.fresh)
         /\ Cardinality(p.fresh) \in Nat /\ Cardinality(p.fresh) <= p.shown
         /\ \A m \in 1 .. arrived :
              m <= call[r].next \/ m <= ctx[r].begun =>
                m \in rows \cup gone \cup lost \cup call[r].emails \cup Ahead(r) \cup Old
  <1>1. TypeOK /\ Sound(r) /\ arrived \in Nat /\ call[r].used \in Nat
    BY Sizes, Parts DEF IInv
  <1>2. /\ p.fresh \in SUBSET Ahead(r) /\ p.shown \in 0 .. PageSize
        /\ Cardinality(p.fresh) <= p.shown
    BY DEF Pages
  <1>3. Present = (1 .. arrived) \ gone /\ Window = Present \ Old
    BY DEF Present, Window
  <1>4. Ahead(r) \subseteq 1 .. arrived
    BY <1>3 DEF Ahead
  <1>5. IsFiniteSet(1 .. arrived)
    BY <1>1, FS_Interval
  <1>6. IsFiniteSet(p.fresh) /\ p.fresh \in SUBSET (1 .. arrived)
    BY <1>2, <1>4, <1>5, FS_Subset
  <1>7. Cardinality(p.fresh) \in Nat
    BY <1>6, FS_CardinalityType
  <1>8. ASSUME NEW m \in 1 .. arrived, m <= call[r].next \/ m <= ctx[r].begun
        PROVE  m \in rows \cup gone \cup lost \cup call[r].emails \cup Ahead(r) \cup Old
    <2>1. CASE call[r].used = 0
      BY <1>3, <2>1 DEF Ahead
    <2>2. CASE call[r].used # 0
      <3>1. Held(r, m) \/ m \in call[r].ahead \cup Old
        BY <1>1, <1>8, <2>2 DEF Sound, Lists
      <3>2. Ahead(r) = call[r].ahead \cap Present
        BY <2>2 DEF Ahead
      <3> QED
        BY <1>3, <3>1, <3>2 DEF Held
    <2> QED
      BY <2>1, <2>2
  <1>9. p.shown \in Nat
    BY <1>2, MailboxAssumption
  <1> QED
    BY <1>2, <1>4, <1>6, <1>7, <1>8, <1>9

\* Outlook's listing: what is left at its end is let go.
LEMMA OutlookListStep ==
  ASSUME IInv, NEW r \in Runs, OutlookList(r)
  PROVE  IInv'
  <1>1. TypeOK /\ Sound(r) /\ pc[r] = "list"
    BY DEF IInv, OutlookList, At
  <1>2. PICK p \in Pages(r) :
          LET emails == call[r].emails \cup p.fresh
              ahead  == Ahead(r) \ p.fresh
              pages  == call[r].used + 1
              next   == call[r].next
          IN  \/ /\ Goto(r, "save", Listing(emails, next, ahead # {}))
                 /\ lost' = lost \cup ahead \cup Old
              \/ /\ Goto(r, "list", Paging(0, pages, ahead, emails, next))
                 /\ UNCHANGED lost
    BY DEF OutlookList
  <1> DEFINE emails == call[r].emails \cup p.fresh
             ahead  == Ahead(r) \ p.fresh
             next   == call[r].next
             S      == ahead \cup Old
  <1>3. /\ p.fresh \subseteq Ahead(r) /\ Ahead(r) \subseteq 1 .. arrived
        /\ \A m \in 1 .. arrived :
              m <= next \/ m <= ctx[r].begun =>
                m \in rows \cup gone \cup lost \cup call[r].emails \cup Ahead(r) \cup Old
    BY <1>1, ListingSees
  <1>4. /\ next \in Position /\ next <= arrived /\ arrived \in Nat /\ next \in Int
        /\ ctx[r].begun \in Nat /\ ctx[r].begun <= arrived /\ call[r].used + 1 \in Nat
        /\ call[r].emails \subseteq 1 .. arrived
    BY <1>1, Parts, Sizes DEF Sound, Within, Position, NoCursor
  <1>5. emails \in SUBSET (1 .. arrived) /\ ahead \in SUBSET (1 .. arrived)
    BY <1>3, <1>4
  <1>6. Old \subseteq 1 .. arrived
    BY <1>1, Sizes
  <1>7. \A m \in 1 .. arrived :
          m <= next \/ m <= ctx[r].begun =>
            m \in rows \cup gone \cup lost \cup emails \cup ahead \cup Old
    BY <1>3
  <1>8. CASE /\ Goto(r, "save", Listing(emails, next, ahead # {}))
             /\ lost' = lost \cup ahead \cup Old
    <2>1. lost' = lost \cup S
      BY <1>8
    <2>2. Requested(r, "save", Listing(emails, next, ahead # {}), S)
      BY <1>8, <2>1 DEF OutlookList, Requested
    <2>3. S \in SUBSET (1 .. arrived) /\ (ahead # {}) \in BOOLEAN
      BY <1>5, <1>6
    <2>4. \A m \in 1 .. next : m \in rows \cup gone \cup lost \cup S \cup emails
      BY <1>4, <1>7
    <2>5. ~(ahead # {}) => \A m \in 1 .. ctx[r].begun :
                             m \in rows \cup gone \cup lost \cup S \cup emails
      BY <1>4, <1>7
    <2> HIDE DEF emails, ahead, next, S
    <2> QED
      BY <1>4, <1>5, <2>2, <2>3, <2>4, <2>5, Ends
  <1>9. CASE /\ Goto(r, "list", Paging(0, call[r].used + 1, ahead, emails, next))
             /\ UNCHANGED lost
    <2>1. Requested(r, "list", Paging(0, call[r].used + 1, ahead, emails, next), {})
      BY <1>9 DEF OutlookList, Requested
    <2>2. 0 \in 0 .. arrived
      BY <1>4
    <2> HIDE DEF emails, ahead, next
    <2> QED
      BY <1>4, <1>5, <1>7, <2>1, <2>2, GoesOn
  <1> QED
    BY <1>2, <1>8, <1>9

\* As long as a page stays below the bound, nothing of it is cut off.
LEMMA KeepsAll ==
  ASSUME NEW F, IsFiniteSet(F), NEW k \in Int, Cardinality(F) < k
  PROVE  Newest(F, k) = F
  <1>1. ASSUME NEW m \in F PROVE Cardinality({n \in F : n > m}) < k
    <2> DEFINE above == {n \in F : n > m}
    <2>1. above \in SUBSET F
      OBVIOUS
    <2>2. IsFiniteSet(above) /\ Cardinality(above) <= Cardinality(F)
      BY <2>1, FS_Subset
    <2>3. Cardinality(above) \in Nat /\ Cardinality(F) \in Nat
      BY <2>2, FS_CardinalityType
    <2> HIDE DEF above
    <2>4. Cardinality(above) < k
      BY <2>2, <2>3
    <2> QED
      BY <2>4 DEF above
  <1> QED
    BY <1>1 DEF Newest

\* Gmail's listing: what is left at its end or beyond the bound is let go.
LEMMA GmailListStep ==
  ASSUME IInv, NEW r \in Runs, GmailList(r)
  PROVE  IInv'
  <1>1. TypeOK /\ Sound(r) /\ pc[r] = "list" /\ provider = "gmail"
    BY DEF IInv, GmailList, At
  <1>2. PICK p \in Pages(r) :
          LET ids    == call[r].used + p.shown
              room   == Bound - call[r].used - (p.shown - Cardinality(p.fresh))
              kept   == Newest(p.fresh, room)
              ahead  == Ahead(r) \ p.fresh
              emails == call[r].emails \cup kept
              next   == call[r].next
          IN  \/ /\ Goto(r, "fetch", Listing(emails, next, ids > Bound \/ ahead # {}))
                 /\ lost' = lost \cup ahead \cup (p.fresh \ kept) \cup Old
              \/ /\ ids < Bound
                 /\ Goto(r, "list", Paging(0, ids, ahead, emails, next))
                 /\ UNCHANGED lost
    BY DEF GmailList
  <1> DEFINE ids    == call[r].used + p.shown
             room   == Bound - call[r].used - (p.shown - Cardinality(p.fresh))
             kept   == Newest(p.fresh, room)
             ahead  == Ahead(r) \ p.fresh
             emails == call[r].emails \cup kept
             next   == call[r].next
             more   == ids > Bound \/ ahead # {}
             S      == ahead \cup (p.fresh \ kept) \cup Old
  <1>3. /\ p.fresh \subseteq Ahead(r) /\ Ahead(r) \subseteq 1 .. arrived
        /\ p.shown \in Nat /\ IsFiniteSet(p.fresh) /\ Cardinality(p.fresh) \in Nat
        /\ \A m \in 1 .. arrived :
              m <= next \/ m <= ctx[r].begun =>
                m \in rows \cup gone \cup lost \cup call[r].emails \cup Ahead(r) \cup Old
    BY <1>1, ListingSees
  <1>4. /\ next \in Position /\ next <= arrived /\ arrived \in Nat /\ next \in Int
        /\ ctx[r].begun \in Nat /\ ctx[r].begun <= arrived /\ call[r].used \in Nat
        /\ call[r].emails \subseteq 1 .. arrived /\ Bound \in Nat
    BY <1>1, Parts, Sizes, MailboxAssumption DEF Sound, Within, Position, NoCursor
  <1>5. kept \subseteq p.fresh /\ ids \in Nat /\ room \in Int
    BY <1>3, <1>4 DEF Newest
  <1>6. Old \subseteq 1 .. arrived
    BY <1>1, Sizes
  <1>7. emails \in SUBSET (1 .. arrived) /\ ahead \in SUBSET (1 .. arrived)
    BY <1>3, <1>4, <1>5
  <1>8. CASE /\ Goto(r, "fetch", Listing(emails, next, more))
             /\ lost' = lost \cup ahead \cup (p.fresh \ kept) \cup Old
    <2>1. \A m \in 1 .. arrived :
            m <= next \/ m <= ctx[r].begun =>
              m \in rows \cup gone \cup lost \cup S \cup emails
      <3> HIDE DEF next, kept
      <3> QED
        BY <1>3, <1>5
    <2>2. lost' = lost \cup S
      BY <1>8
    <2>3. Requested(r, "fetch", Listing(emails, next, more), S)
      BY <1>8, <2>2 DEF GmailList, Requested
    <2>4. S \in SUBSET (1 .. arrived)
      BY <1>3, <1>6
    <2>5. more \in BOOLEAN
      OBVIOUS
    <2> HIDE DEF emails, S, more, next
    <2>6. \A m \in 1 .. next : m \in rows \cup gone \cup lost \cup S \cup emails
      BY <1>4, <2>1
    <2>7. ~more => \A m \in 1 .. ctx[r].begun :
                     m \in rows \cup gone \cup lost \cup S \cup emails
      BY <1>4, <2>1
    <2>8. provider # "imap"
      BY <1>1
    <2> QED
      BY <1>4, <1>7, <2>3, <2>4, <2>5, <2>6, <2>7, <2>8, Ends
  <1>9. CASE /\ ids < Bound
             /\ Goto(r, "list", Paging(0, ids, ahead, emails, next))
             /\ UNCHANGED lost
    <2>1. Cardinality(p.fresh) < room
      BY <1>3, <1>4, <1>9
    <2>2. kept = p.fresh
      BY <1>3, <1>5, <2>1, KeepsAll
    <2>3. \A m \in 1 .. arrived :
            m <= next \/ m <= ctx[r].begun =>
              m \in rows \cup gone \cup lost \cup emails \cup ahead \cup Old
      BY <1>3, <2>2
    <2>4. Requested(r, "list", Paging(0, ids, ahead, emails, next), {})
      BY <1>9 DEF GmailList, Requested
    <2>5. 0 \in 0 .. arrived
      BY <1>4
    <2> HIDE DEF emails, ahead, next, ids
    <2> QED
      BY <1>4, <1>5, <1>7, <2>3, <2>4, <2>5, GoesOn
  <1> QED
    BY <1>2, <1>8, <1>9

\* Gmail's messages: what is not fetched is gone or let go.
LEMMA FetchMessagesStep ==
  ASSUME IInv, NEW r \in Runs, FetchMessages(r)
  PROVE  IInv'
  <1>1. TypeOK /\ Sound(r) /\ pc[r] = "fetch" /\ provider = "gmail"
    BY DEF IInv, FetchMessages, At
  <1>2. PICK forbidden \in SUBSET (call[r].emails \ gone) :
          /\ Goto(r, "save", Listing((call[r].emails \ gone) \ forbidden,
                                     call[r].next, call[r].more))
          /\ lost' = lost \cup forbidden
    BY DEF FetchMessages
  <1> DEFINE emails == (call[r].emails \ gone) \ forbidden
             next   == call[r].next
             more   == call[r].more
  <1>3. /\ next \in Position /\ next <= arrived /\ more \in BOOLEAN
        /\ call[r].emails \subseteq 1 .. arrived
    BY <1>1, Parts DEF Sound, Within
  <1>4. emails \in SUBSET (1 .. arrived) /\ forbidden \in SUBSET (1 .. arrived)
    BY <1>3
  <1>5. /\ \A m \in 1 .. next : Held(r, m)
        /\ ~more => \A m \in 1 .. ctx[r].begun : Held(r, m)
    BY <1>1 DEF Sound, Closes
  <1>6. \A m : Held(r, m) => m \in rows \cup gone \cup lost \cup forbidden \cup emails
    BY DEF Held
  <1>7. Requested(r, "save", Listing(emails, next, more), forbidden)
    BY <1>2 DEF FetchMessages, Requested
  <1> HIDE DEF emails, next, more
  <1>8. /\ \A m \in 1 .. next : m \in rows \cup gone \cup lost \cup forbidden \cup emails
        /\ ~more => \A m \in 1 .. ctx[r].begun :
                      m \in rows \cup gone \cup lost \cup forbidden \cup emails
    BY <1>5, <1>6
  <1> QED
    BY <1>3, <1>4, <1>7, <1>8, Ends

\* IMAP's search sees the whole window.
LEMMA ImapSearchStep ==
  ASSUME IInv, NEW r \in Runs, ImapSearch(r)
  PROVE  IInv'
  <1> DEFINE bounded == Newest(Window, Bound)
             rest    == Window \ bounded
  <1>1. TypeOK /\ Sound(r) /\ provider = "imap" /\ UNCHANGED <<mailbox, fixed, table, lost, ctx>>
    BY DEF IInv, ImapSearch, At
  <1>2. /\ arrived \in Nat /\ Window \subseteq 1 .. arrived
        /\ ctx[r].begun \in Nat /\ ctx[r].begun <= arrived
        /\ NoCursor \in Position /\ NoCursor <= arrived
    <2>1. arrived \in Nat /\ Window \subseteq 1 .. arrived
      BY <1>1, Sizes
    <2>2. ctx[r].begun \in Nat /\ ctx[r].begun <= arrived
      BY <1>1, Parts, MailboxAssumption DEF Sound, Within
    <2> QED
      BY <2>1, <2>2, MailboxAssumption DEF Position, NoCursor
  <1>3. 1 .. arrived \subseteq Window \cup gone \cup Old
    BY DEF Window, Present
  <1>4. CASE Window = {}
    <2>1. Requested(r, "count", Paging(0, 0, {}, {}, NoCursor), {})
      BY <1>1, <1>4 DEF ImapSearch, Requested, NoCall
    <2>2. 1 .. ctx[r].begun \subseteq gone \cup Old
      BY <1>2, <1>3, <1>4
    <2>3. {} \in SUBSET (1 .. arrived) /\ 0 \in 0 .. arrived /\ 0 \in Nat
      BY <1>2
    <2> QED
      BY <1>2, <2>1, <2>2, <2>3, GoesOn
  <1>5. CASE Window # {}
    <2>1. Requested(r, "fetch", Paging(0, 0, rest, bounded, NoCursor), {})
      BY <1>1, <1>5 DEF ImapSearch, Requested
    <2>2. bounded \in SUBSET (1 .. arrived) /\ rest \in SUBSET (1 .. arrived)
      BY <1>2 DEF Newest
    <2>3. 1 .. arrived \subseteq bounded \cup rest \cup gone \cup Old
      BY <1>3
    <2>4. 0 \in 0 .. arrived /\ 0 \in Nat
      BY <1>2
    <2> HIDE DEF bounded, rest
    <2> QED
      BY <1>1, <1>2, <2>1, <2>2, <2>3, <2>4, GoesOn
  <1> QED
    BY <1>4, <1>5

\* With nothing in the window, the number of messages is within the mailbox.
LEMMA ImapCountStep ==
  ASSUME IInv, NEW r \in Runs, ImapCount(r)
  PROVE  IInv'
  <1> DEFINE S == Old \cup {m \in Present : m <= Exists}
  <1>1. TypeOK /\ Sound(r) /\ pc[r] = "count" /\ arrived \in Nat
    BY Sizes DEF IInv, ImapCount, At
  <1>2. Present \in SUBSET (1 .. arrived) /\ Old \subseteq 1 .. arrived
    BY <1>1, Sizes
  <1>3. Exists \in Nat /\ Exists <= arrived
    <2>1. IsFiniteSet(1 .. arrived) /\ Cardinality(1 .. arrived) = arrived
      BY <1>1, FS_Interval
    <2>2. IsFiniteSet(Present) /\ Cardinality(Present) <= arrived
      BY <1>2, <2>1, FS_Subset
    <2> QED
      BY <2>2, FS_CardinalityType DEF Exists
  <1>4. Exists \in Position
    BY <1>1, <1>3, Sizes DEF Position, NoCursor
  <1>5. \A m \in 1 .. Exists : m \in rows \cup gone \cup lost \cup S \cup {}
    BY <1>1, <1>3 DEF Present
  <1>6. ~FALSE => \A m \in 1 .. ctx[r].begun :
                    m \in rows \cup gone \cup lost \cup S \cup {}
    BY <1>1 DEF Sound, Counts
  <1>7. Requested(r, "save", Listing({}, Exists, FALSE), S)
    <2>1. lost' = lost \cup S
      BY DEF ImapCount
    <2> QED
      BY <2>1 DEF ImapCount, Requested
  <1>8. S \in SUBSET (1 .. arrived) /\ {} \in SUBSET (1 .. arrived) /\ FALSE \in BOOLEAN
    BY <1>2
  <1> HIDE DEF S
  <1> QED
    BY <1>3, <1>4, <1>5, <1>6, <1>7, <1>8, Ends

\* IMAP's fetch: what the search found and the fetch did not is gone, does not
\* parse, or was beyond the bound.
LEMMA ImapFetchStep ==
  ASSUME IInv, NEW r \in Runs, ImapFetch(r)
  PROVE  IInv'
  <1> DEFINE there == call[r].emails \ gone
             more  == call[r].ahead # {}
  <1>1. TypeOK /\ Sound(r) /\ pc[r] = "fetch" /\ provider = "imap"
    BY DEF IInv, ImapFetch, At
  <1>2. PICK bad \in SUBSET there, top \in {0} \cup there :
          /\ \A m \in there : m <= top
          /\ Goto(r, "save", Listing(there \ bad, top, more))
          /\ lost' = lost \cup bad \cup (call[r].ahead \ gone) \cup Old
    BY DEF ImapFetch
  <1> DEFINE S == bad \cup (call[r].ahead \ gone) \cup Old
  <1>3. /\ call[r].emails \subseteq 1 .. arrived /\ call[r].ahead \subseteq 1 .. arrived
        /\ arrived \in Nat /\ ctx[r].begun \in Nat /\ ctx[r].begun <= arrived
        /\ Old \subseteq 1 .. arrived /\ arrived <= MaxMail /\ MaxMail \in Nat
    BY <1>1, Parts, Sizes DEF Sound, Within
  <1>4. top \in Nat /\ top <= arrived
    BY <1>2, <1>3
  <1>5. top \in Position
    BY <1>3, <1>4 DEF Position, NoCursor
  <1>6. \A m \in 1 .. arrived :
          m <= ctx[r].begun \/ (\E k \in call[r].emails : m <= k) =>
            m \in call[r].emails \cup call[r].ahead \cup gone \cup Old
    BY <1>1 DEF Sound, Finds
  <1>7. \A m : m \in call[r].emails \cup call[r].ahead \cup gone \cup Old =>
              m \in rows \cup gone \cup lost \cup S \cup (there \ bad)
    OBVIOUS
  <1>8. ASSUME NEW m \in 1 .. top
        PROVE  m \in rows \cup gone \cup lost \cup S \cup (there \ bad)
    <2>1. m \in 1 .. arrived /\ m <= top /\ m >= 1
      BY <1>3, <1>4
    <2>2. top \in call[r].emails
      BY <1>2, <1>4, <2>1
    <2> QED
      BY <1>6, <1>7, <2>1, <2>2
  <1>9. ~more => \A m \in 1 .. ctx[r].begun :
                   m \in rows \cup gone \cup lost \cup S \cup (there \ bad)
    <2>1. \A m \in 1 .. ctx[r].begun : m \in 1 .. arrived /\ m <= ctx[r].begun
      BY <1>3
    <2> QED
      BY <1>6, <1>7, <2>1
  <1>10. there \ bad \in SUBSET (1 .. arrived) /\ S \in SUBSET (1 .. arrived)
    BY <1>3
  <1>11. more \in BOOLEAN
    OBVIOUS
  <1>12. Requested(r, "save", Listing(there \ bad, top, more), S)
    <2>1. lost' = lost \cup S
      BY <1>2
    <2> QED
      BY <1>2, <2>1 DEF ImapFetch, Requested
  <1> DEFINE emails == there \ bad
  <1> HIDE DEF S, more, emails
  <1> QED
    BY <1>4, <1>5, <1>8, <1>9, <1>10, <1>11, <1>12, Ends DEF emails

-----------------------------------------------------------------------------
(* The steps around a connector call.                                      *)

\* A run starts from the stored cursor, up to which all is settled.
LEMMA BeginStep ==
  ASSUME IInv, NEW r \in Runs, Begin(r)
  PROVE  IInv'
  <1> DEFINE start == Paging(cursor, 0, {}, {}, NoCursor)
             read  == [from |-> cursor, begun |-> arrived]
  <1>1. /\ TypeOK /\ cursor \in Position /\ arrived \in 0 .. MaxMail
        /\ cursor <= arrived /\ CaughtUp
    BY Sizes DEF IInv, TypeOK, NoCursor
  <1>2. UNCHANGED <<arrived, gone, provider, aged, copies, rows, cursor, lost>>
    BY DEF Begin, mailbox, fixed, table
  <1>3. read \in Context /\ read.from = cursor /\ read.begun = arrived
    BY <1>1 DEF Context
  <1>4. ctx' = [ctx EXCEPT ![r] = read]
    BY DEF Begin
  <1> HIDE DEF read
  <1>5. ctx' \in [Runs -> Context] /\ ctx'[r] = read
        /\ \A q \in Runs : q # r => ctx'[q] = ctx[q]
    BY <1>1, <1>3, <1>4 DEF TypeOK
  <1>6. Grows /\ cursor' = cursor
    BY <1>2 DEF Grows, fixed
  <1>7. (\A m \in 1 .. ctx[r].from : Promise!Settled(m))'
    BY <1>1, <1>2, <1>3, <1>5 DEF CaughtUp, Promise!Settled
  <1>8. CASE Goto(r, "seed", NoCall)
    <2>1. /\ pc' \in [Runs -> Steps] /\ pc'[r] = "seed"
          /\ call' \in [Runs -> Call] /\ call'[r] = NoCall
          /\ \A q \in Runs : q # r => pc'[q] = pc[q] /\ call'[q] = call[q]
      BY <1>1, <1>8, EmptyTypes, GotoTypes DEF Steps
    <2>2. TypeOK'
      BY <1>1, <1>2, <1>5, <2>1 DEF TypeOK
    <2>3. Within(r)'
      BY <1>1, <1>2, <1>3, <1>5, <2>1 DEF Within, NoCall, Paging, NoCursor
    <2>4. Sound(r)'
      BY <1>7, <2>1, <2>3 DEF Sound, Reads, Lists, Finds, Counts, Closes
    <2> QED
      BY <1>5, <1>6, <2>1, <2>2, <2>4, OneMoves
  <1>9. CASE cursor # NoCursor /\ Goto(r, "delta", start)
    <2>1. cursor \in 0 .. MaxMail /\ NoCursor \in Position /\ NoCursor <= arrived
      BY <1>1, <1>9, MailboxAssumption DEF Position, NoCursor
    <2>2. /\ start \in Call /\ start.pos = cursor /\ start.ahead = {}
          /\ start.emails = {} /\ start.next = NoCursor
      BY <1>1, <2>1, CallTypes DEF Paging
    <2> HIDE DEF start
    <2>3. /\ pc' \in [Runs -> Steps] /\ pc'[r] = "delta"
          /\ call' \in [Runs -> Call] /\ call'[r] = start
          /\ \A q \in Runs : q # r => pc'[q] = pc[q] /\ call'[q] = call[q]
      BY <1>1, <1>9, <2>2, GotoTypes DEF Steps
    <2>4. TypeOK'
      BY <1>1, <1>2, <1>5, <2>3 DEF TypeOK
    <2>5. Within(r)'
      BY <1>1, <1>2, <1>3, <1>5, <2>1, <2>2, <2>3 DEF Within
    <2>6. Reads(r)'
      BY <1>1, <1>2, <1>3, <1>5, <1>9, <2>1, <2>2, <2>3
         DEF Reads, CaughtUp, Promise!Settled, Held
    <2>7. Sound(r)'
      BY <1>7, <2>3, <2>5, <2>6 DEF Sound, Lists, Finds, Counts, Closes
    <2> QED
      BY <1>5, <1>6, <2>3, <2>4, <2>7, OneMoves
  <1> QED
    BY <1>8, <1>9 DEF Begin

\* A delta that finds its cursor expired keeps nothing of what it listed.
LEMMA ExpiredStep ==
  ASSUME IInv, NEW r \in Runs, Expired(r)
  PROVE  IInv'
  <1>1. Requested(r, "seed", Paging(0, 0, {}, {}, NoCursor), {})
    BY DEF Expired, Requested, NoCall
  <1>2. arrived \in Nat
    BY Sizes DEF IInv
  <1>3. /\ NoCursor \in Position /\ NoCursor <= arrived /\ {} \in SUBSET (1 .. arrived)
        /\ 0 \in 0 .. arrived /\ 0 \in Nat
    BY <1>2, MailboxAssumption DEF Position, NoCursor
  <1> QED
    BY <1>1, <1>3, GoesOn

\* A chunk that is saved takes nothing away from what the run accounts for.
LEMMA SaveStep ==
  ASSUME IInv, NEW r \in Runs, Save(r)
  PROVE  IInv'
  <1>1. TypeOK /\ Sound(r) /\ pc[r] = "save"
    BY DEF IInv, Save
  <1>2. PICK C \in SUBSET call[r].emails :
          /\ rows' = rows \cup C
          /\ Goto(r, IF C = call[r].emails THEN "record" ELSE "save",
                  Listing(call[r].emails \ C, call[r].next, call[r].more))
    BY DEF Save, Chunks
  <1> DEFINE step == IF C = call[r].emails THEN "record" ELSE "save"
             c    == Listing(call[r].emails \ C, call[r].next, call[r].more)
  <1>3. UNCHANGED <<arrived, gone, provider, aged, copies, cursor, lost, ctx>>
    BY DEF Save, mailbox, fixed
  <1>4. /\ call[r].next \in Position /\ call[r].next <= arrived /\ call[r].more \in BOOLEAN
        /\ call[r].emails \in SUBSET Mail /\ call[r].emails \subseteq 1 .. arrived
        /\ arrived \in Nat
    BY <1>1, Parts, Sizes DEF Sound, Within
  <1>5. /\ c \in Call /\ c.emails = call[r].emails \ C /\ c.next = call[r].next
        /\ c.more = call[r].more /\ c.pos = 0 /\ c.ahead = {}
    BY <1>1, <1>4, CallTypes DEF Listing
  <1>6. step \in {"save", "record"} /\ step \in Steps
    BY DEF Steps
  <1>7. step = "record" => call[r].emails \ C = {}
    OBVIOUS
  <1> HIDE DEF step, c
  <1>8. /\ pc' \in [Runs -> Steps] /\ pc'[r] = step
        /\ call' \in [Runs -> Call] /\ call'[r] = c
        /\ \A q \in Runs : q # r => pc'[q] = pc[q] /\ call'[q] = call[q]
    BY <1>1, <1>2, <1>5, <1>6, GotoTypes DEF step, c
  <1>9. TypeOK'
    BY <1>1, <1>2, <1>3, <1>4, <1>8 DEF TypeOK
  <1>10. Grows /\ cursor' = cursor
    BY <1>2, <1>3 DEF Grows, fixed
  <1>11. (\A m \in 1 .. ctx[r].from : Promise!Settled(m))' /\ Within(r)'
    BY <1>1, <1>2, <1>3, <1>4, <1>5, <1>8 DEF Sound, Within, Promise!Settled
  <1>12. Closes(r)'
    <2>1. \A m : Held(r, m) => Held(r, m)'
      BY <1>2, <1>3, <1>5, <1>8 DEF Held
    <2> QED
      BY <1>1, <1>3, <1>5, <1>8, <2>1 DEF Sound, Closes
  <1>13. Sound(r)'
    BY <1>5, <1>6, <1>7, <1>8, <1>11, <1>12 DEF Sound, Reads, Lists, Finds, Counts
  <1> QED
    BY <1>3, <1>8, <1>9, <1>10, <1>13, OneMoves

\* A run that fails leaves no trace but the chunks it saved before.
LEMMA FailStep ==
  ASSUME IInv, NEW r \in Runs, Refused(r) \/ Fail(r)
  PROVE  IInv'
  <1>1. /\ End(r, "failed") /\ TypeOK
        /\ UNCHANGED <<arrived, gone, provider, aged, copies, rows, cursor, lost>>
    BY DEF Refused, Fail, IInv, mailbox, fixed, table
  <1>2. /\ pc' \in [Runs -> Steps] /\ pc'[r] = "failed"
        /\ call' \in [Runs -> Call] /\ call'[r] = NoCall
        /\ ctx' \in [Runs -> Context] /\ ctx'[r] = NoContext
        /\ \A q \in Runs :
             q # r => pc'[q] = pc[q] /\ call'[q] = call[q] /\ ctx'[q] = ctx[q]
    BY <1>1, EndTypes
  <1>3. TypeOK' /\ Grows
    BY <1>1, <1>2 DEF TypeOK, Grows, fixed
  <1>4. Sound(r)'
    BY <1>2, <1>3, EmptyIsSound
  <1> QED
    BY <1>1, <1>2, <1>3, <1>4, OneMoves

\* When the cursor is recorded, all that the run accounts for has been saved.
LEMMA Recorded ==
  ASSUME IInv, NEW r \in Runs, Record(r)
  PROVE  /\ cursor' \in Position /\ cursor' \in NoCursor .. arrived
         /\ \A m \in 1 .. cursor' : m \in rows \cup gone \cup lost
  <1>1. TypeOK /\ Sound(r) /\ pc[r] = "record"
    BY DEF IInv, Record
  <1>2. cursor' = ctx[r].from \/ cursor' = call[r].next
    BY DEF Record
  <1>3. /\ ctx[r].from \in Position /\ call[r].next \in Position /\ arrived \in Nat
        /\ ctx[r].from <= arrived /\ call[r].next <= arrived
    BY <1>1, Parts, Sizes DEF Sound, Within
  <1>4. \A m \in 1 .. ctx[r].from : m \in rows \cup gone \cup lost
    BY <1>1 DEF Sound, Promise!Settled
  <1>5. \A m \in 1 .. call[r].next : m \in rows \cup gone \cup lost
    BY <1>1 DEF Sound, Closes, Held
  <1>6. cursor' \in Position /\ cursor' <= arrived
    BY <1>2, <1>3
  <1> QED
    BY <1>2, <1>3, <1>4, <1>5, <1>6 DEF Position, NoCursor

\* ... so that the stored cursor stays covered.
LEMMA RecordStep ==
  ASSUME IInv, NEW r \in Runs, Record(r)
  PROVE  IInv'
  <1>1. /\ End(r, "idle") /\ TypeOK
        /\ UNCHANGED <<arrived, gone, provider, aged, copies, rows, lost>>
    BY DEF Record, IInv, mailbox, fixed
  <1>2. /\ pc' \in [Runs -> Steps] /\ pc'[r] = "idle"
        /\ call' \in [Runs -> Call] /\ call'[r] = NoCall
        /\ ctx' \in [Runs -> Context] /\ ctx'[r] = NoContext
        /\ \A q \in Runs :
             q # r => pc'[q] = pc[q] /\ call'[q] = call[q] /\ ctx'[q] = ctx[q]
    BY <1>1, EndTypes
  <1>3. cursor' \in NoCursor .. arrived
    BY Recorded
  <1>4. TypeOK' /\ Grows
    BY <1>1, <1>2, <1>3 DEF TypeOK, Grows, fixed
  <1>5. CaughtUp'
    BY <1>1, Recorded DEF CaughtUp, Promise!Settled
  <1>6. ASSUME NEW q \in Runs PROVE Sound(q)'
    BY <1>1, <1>2, <1>4, EmptyIsSound, Untouched DEF IInv
  <1> QED
    BY <1>4, <1>5, <1>6 DEF IInv

-----------------------------------------------------------------------------
(* The steps of the mailbox.                                               *)

\* A message that comes in is beyond everything a run has yet to account for.
LEMMA ArriveStep ==
  ASSUME IInv, Arrive
  PROVE  IInv'
  <1>1. /\ TypeOK /\ CaughtUp /\ arrived \in Nat /\ MaxMail \in Nat
        /\ arrived' = arrived + 1 /\ arrived < MaxMail
        /\ UNCHANGED <<gone, provider, aged, copies, rows, cursor, lost, pc, ctx, call>>
    BY Sizes DEF IInv, Arrive, fixed, table, run
  <1>2. TypeOK'
    <2>1. 1 .. arrived \subseteq 1 .. arrived'
      BY <1>1
    <2>2. cursor \in NoCursor .. arrived' /\ aged \in 0 .. arrived' /\ arrived' \in 0 .. MaxMail
      BY <1>1 DEF TypeOK, NoCursor
    <2>3. gone \in SUBSET (1 .. arrived') /\ rows \in SUBSET (1 .. arrived')
          /\ lost \in SUBSET (1 .. arrived')
      BY <1>1, <2>1 DEF TypeOK
    <2> QED
      BY <1>1, <2>2, <2>3 DEF TypeOK
  <1>3. CaughtUp'
    BY <1>1 DEF CaughtUp, Promise!Settled
  <1>4. ASSUME NEW r \in Runs PROVE Sound(r)'
    <2>1. /\ Sound(r) /\ ctx[r].from \in Int /\ ctx[r].begun \in Nat
          /\ call[r].pos \in Nat /\ call[r].next \in Int
      BY <1>1, Parts DEF IInv, Position, NoCursor
    <2>2. Within(r)'
      <3>1. 1 .. arrived \subseteq 1 .. arrived'
        BY <1>1
      <3> QED
        BY <1>1, <2>1, <3>1 DEF Sound, Within
    <2>3. (\A m \in 1 .. ctx[r].from : Promise!Settled(m))'
      BY <1>1, <2>1 DEF Sound, Promise!Settled
    <2>4. Reads(r)' /\ Counts(r)' /\ Closes(r)'
      BY <1>1, <2>1 DEF Sound, Reads, Counts, Closes, Held, Old
    <2>5. Lists(r)'
      <3>1. \A m \in 1 .. arrived' :
              m <= call[r].next \/ m <= ctx[r].begun => m \in 1 .. arrived
        BY <1>1, <2>1 DEF Sound, Within
      <3> QED
        BY <1>1, <2>1, <3>1 DEF Sound, Lists, Held, Old
    <2>6. Finds(r)'
      <3>1. \A m \in 1 .. arrived' :
              m <= ctx[r].begun \/ (\E k \in call[r].emails : m <= k) => m \in 1 .. arrived
        BY <1>1, <2>1 DEF Sound, Within
      <3> QED
        BY <1>1, <2>1, <3>1 DEF Sound, Finds, Old
    <2> QED
      BY <1>1, <2>1, <2>2, <2>3, <2>4, <2>5, <2>6 DEF Sound
  <1> QED
    BY <1>2, <1>3, <1>4 DEF IInv

\* What slips past a listing when m leaves and slip says that the rest moves up.
Slips(m, slip, r) ==
  IF slip /\ pc[r] = "list" /\ call[r].used > 0 /\ m \notin call[r].ahead
  THEN Highest(call[r].ahead \ gone) ELSE {}

\* Vanish, with what slips past each listing named.
LEMMA VanishParts ==
  ASSUME Vanish
  PROVE  \E m \in Present, slip \in BOOLEAN :
           /\ gone' = gone \cup {m}
           /\ lost' = lost \cup UNION {Slips(m, slip, r) : r \in Runs}
           /\ call' = [r \in Runs |->
                         [call[r] EXCEPT !.ahead = @ \ Slips(m, slip, r)]]
           /\ UNCHANGED <<arrived, provider, aged, copies, rows, cursor, pc, ctx>>
  BY Zenon DEF Vanish, Slips, fixed, table

\* A message that leaves is settled, and one that slips past a listing is let go.
LEMMA VanishStep ==
  ASSUME IInv, Vanish
  PROVE  IInv'
  <1>1. TypeOK /\ CaughtUp /\ arrived \in Nat
    BY Sizes DEF IInv
  <1>2. PICK m \in Present, slip \in BOOLEAN :
          /\ gone' = gone \cup {m}
          /\ lost' = lost \cup UNION {Slips(m, slip, r) : r \in Runs}
          /\ call' = [r \in Runs |->
                        [call[r] EXCEPT !.ahead = @ \ Slips(m, slip, r)]]
          /\ UNCHANGED <<arrived, provider, aged, copies, rows, cursor, pc, ctx>>
    BY VanishParts
  <1> DEFINE slipped(r) == Slips(m, slip, r)
  <1>3. \A r \in Runs : slipped(r) \subseteq call[r].ahead
                        /\ (pc[r] # "list" => slipped(r) = {})
    BY DEF Slips, Highest
  <1>4. ASSUME NEW r \in Runs
        PROVE  /\ call'[r] \in Call
               /\ call'[r].pos = call[r].pos /\ call'[r].used = call[r].used
               /\ call'[r].emails = call[r].emails /\ call'[r].next = call[r].next
               /\ call'[r].more = call[r].more
               /\ call'[r].ahead = call[r].ahead \ slipped(r)
    <2>1. call[r] \in Call /\ call'[r] = [call[r] EXCEPT !.ahead = @ \ slipped(r)]
      BY <1>1, <1>2 DEF TypeOK
    <2> HIDE DEF slipped
    <2> QED
      BY <2>1, Zenon DEF Call
  <1> HIDE DEF slipped
  <1>5. \A r \in Runs : slipped(r) \subseteq lost'
    BY <1>2 DEF slipped
  <1>6. call' \in [Runs -> Call]
    BY <1>2, <1>4
  <1>7. TypeOK'
    <2>1. m \in 1 .. arrived
      BY <1>2 DEF Present
    <2>2. \A r \in Runs : slipped(r) \subseteq 1 .. arrived
      BY <1>3 DEF IInv, Sound, Within
    <2>3. lost' \in SUBSET (1 .. arrived)
      BY <1>1, <1>2, <2>2 DEF TypeOK, slipped
    <2> QED
      BY <1>1, <1>2, <1>6, <2>1, <2>3 DEF TypeOK
  <1>8. Grows /\ cursor' = cursor
    BY <1>2 DEF Grows, fixed
  <1>9. CaughtUp'
    BY <1>1, <1>8, CursorStays
  <1>10. ASSUME NEW r \in Runs PROVE Sound(r)'
    <2>1. Sound(r)
      BY DEF IInv
    <2>2. /\ UNCHANGED <<arrived, provider, aged, rows, pc, ctx>>
          /\ gone \subseteq gone' /\ lost \subseteq lost'
      BY <1>2
    <2>3. \A k : Held(r, k) => Held(r, k)'
      BY <1>4, <2>2 DEF Held
    <2>4. (\A k \in 1 .. ctx[r].from : Promise!Settled(k))'
      BY <2>1, <2>2 DEF Sound, Promise!Settled
    <2>5. Within(r)'
      BY <1>4, <2>1, <2>2 DEF Sound, Within
    <2>6. Reads(r)' /\ Closes(r)' /\ Counts(r)'
      BY <1>4, <2>1, <2>2, <2>3 DEF Sound, Reads, Closes, Counts, Old
    <2>7. Lists(r)'
      <3>1. \A k : k \in call[r].ahead => Held(r, k)' \/ k \in call'[r].ahead
        BY <1>4, <1>5 DEF Held
      <3> QED
        BY <1>4, <2>1, <2>2, <2>3, <3>1 DEF Sound, Lists, Old
    <2>8. Finds(r)'
      <3>1. pc[r] = "fetch" => call'[r].ahead = call[r].ahead
        BY <1>3, <1>4
      <3> QED
        BY <1>4, <2>1, <2>2, <3>1 DEF Sound, Finds, Old
    <2> QED
      BY <1>4, <2>1, <2>2, <2>4, <2>5, <2>6, <2>7, <2>8 DEF Sound
  <1> QED
    BY <1>7, <1>9, <1>10 DEF IInv

-----------------------------------------------------------------------------
(* The theorems.                                                           *)

\* Before the first sync nothing is stored and nothing under way.
LEMMA InvInit == Init => IInv
  <1> SUFFICES ASSUME Init PROVE IInv
    OBVIOUS
  <1> USE MailboxAssumption
  <1>1. /\ arrived \in Nat /\ arrived <= MaxMail /\ cursor = NoCursor
        /\ aged \in 0 .. arrived /\ copies \in SUBSET Copies
    BY DEF Init, Least
  <1>2. TypeOK
    BY <1>1, EmptyTypes DEF Init, TypeOK, Steps, NoCursor
  <1>3. CaughtUp
    BY <1>1 DEF CaughtUp, NoCursor
  <1>4. ASSUME NEW r \in Runs PROVE Sound(r)
    <2>1. pc[r] = "idle" /\ ctx[r] = NoContext /\ call[r] = NoCall
      BY DEF Init
    <2> QED
      BY <1>1, <2>1 DEF Sound, Within, Reads, Lists, Finds, Counts, Closes, NoContext,
                        NoCall, Paging, NoCursor
  <1> QED
    BY <1>2, <1>3, <1>4 DEF IInv

\* Every step keeps the invariant.
LEMMA InvStep == IInv /\ [Next]_vars => IInv'
  <1> SUFFICES ASSUME IInv, [Next]_vars PROVE IInv'
    OBVIOUS
  <1>1. ASSUME NEW r \in Runs, Delta(r) PROVE IInv'
    BY <1>1, DrainDeltaStep, HistoryStep, ImapDeltaStep DEF Delta
  <1>2. ASSUME NEW r \in Runs, Full(r) PROVE IInv'
    BY <1>2, SeedStep, OutlookListStep, GmailListStep, FetchMessagesStep, ImapSearchStep,
       ImapCountStep, ImapFetchStep DEF Full
  <1>3. ASSUME NEW r \in Runs, Save(r) \/ Refused(r) \/ Fail(r) \/ Record(r) PROVE IInv'
    BY <1>3, SaveStep, FailStep, RecordStep
  <1>4. ASSUME NEW r \in Runs, Begin(r) \/ Expired(r) PROVE IInv'
    BY <1>4, BeginStep, ExpiredStep
  <1>5. CASE Arrive \/ Vanish
    BY <1>5, ArriveStep, VanishStep
  <1>6. CASE UNCHANGED vars
    <2>1. UNCHANGED <<arrived, gone, provider, aged, copies, rows, cursor, lost, pc, ctx,
                      call>>
      BY <1>6 DEF vars, mailbox, fixed, table, run
    <2>2. TypeOK' /\ Grows
      BY <2>1 DEF IInv, TypeOK, Grows, fixed
    <2>3. CaughtUp' /\ \A r \in Runs : Sound(r)'
      BY <2>1, <2>2, Untouched, CursorStays DEF IInv
    <2> QED
      BY <2>2, <2>3 DEF IInv
  <1> QED
    BY <1>1, <1>2, <1>3, <1>4, <1>5, <1>6 DEF Next, Step

\* The invariant holds however many runs overlap.
LEMMA Invariant == Spec => []IInv
  BY InvInit, InvStep, PTL DEF Spec

\* Whatever the pages, every variable keeps its type: in particular no cursor,
\* row or batch ever names a message that is not there yet.
THEOREM TypeCorrect == Spec => []TypeOK
  <1>1. IInv => TypeOK
    BY DEF IInv
  <1> QED
    BY <1>1, Invariant, PTL

\* A run that says there is no more has listed, or seen leave, or let go, all
\* that was in the mailbox when it began.
THEOREM NoMoreMeansDone == Spec => []DoneMeansDone
  <1>1. ASSUME IInv PROVE DoneMeansDone
    BY <1>1 DEF IInv, Sound, Closes, Held, DoneMeansDone, Promise!Settled
  <1> QED
    BY <1>1, Invariant, PTL

\* A connector call that gives up on messages is Catchup's GiveUp.
LEMMA CallSimulates ==
  ASSUME IInv, NEW r \in Runs, Delta(r) \/ Full(r)
  PROVE  Promise!GiveUp \/ UNCHANGED Promise!vars
  <1>1. UNCHANGED <<arrived, gone, rows, cursor>>
    BY DEF Delta, DrainDelta, History, ImapDelta, Full, Seed, OutlookList, GmailList,
           FetchMessages, ImapSearch, ImapCount, ImapFetch, mailbox, table
  <1>2. lost \subseteq lost'
    BY DEF Delta, DrainDelta, History, ImapDelta, Full, Seed, OutlookList, GmailList,
           FetchMessages, ImapSearch, ImapCount, ImapFetch
  <1>3. lost' \in SUBSET (1 .. arrived)
    <2>1. IInv'
      BY DrainDeltaStep, HistoryStep, ImapDeltaStep, SeedStep, OutlookListStep,
         GmailListStep, FetchMessagesStep, ImapSearchStep, ImapCountStep, ImapFetchStep
         DEF Delta, Full
    <2> QED
      BY <1>1, <2>1 DEF IInv, TypeOK
  <1>4. lost' = lost \cup lost'
    BY <1>2
  <1> QED
    BY <1>1, <1>3, <1>4 DEF Promise!GiveUp, Promise!LetGo

\* Every step is a step of Catchup or none.
LEMMA Simulates == IInv /\ [Next]_vars => [Promise!Next]_(Promise!vars)
  <1> SUFFICES ASSUME IInv, [Next]_vars
               PROVE  Promise!Next \/ UNCHANGED Promise!vars
    OBVIOUS
  <1> USE DEF Promise!Next
  <1>1. ASSUME NEW r \in Runs, Delta(r) \/ Full(r)
        PROVE  Promise!Next \/ UNCHANGED Promise!vars
    BY <1>1, CallSimulates
  <1>2. ASSUME NEW r \in Runs, Save(r) PROVE Promise!Ingest
    <2>1. UNCHANGED <<arrived, gone, cursor, lost>>
      BY <1>2 DEF Save, mailbox
    <2>2. PICK C \in SUBSET call[r].emails : rows' = rows \cup C
      BY <1>2 DEF Save, Chunks
    <2>3. C \in SUBSET (1 .. arrived)
      BY <2>2 DEF IInv, Sound, Within
    <2> QED
      BY <2>1, <2>2, <2>3 DEF Promise!Ingest
  <1>3. ASSUME NEW r \in Runs, Record(r) PROVE Promise!Move
    <2>1. UNCHANGED <<arrived, gone, rows, lost>>
      BY <1>3 DEF Record, mailbox
    <2> QED
      BY <1>3, <2>1, Recorded DEF Promise!Move, Promise!Settled, Promise!NoCursor, NoCursor
  <1>4. ASSUME NEW r \in Runs, Begin(r) \/ Expired(r) \/ Refused(r) \/ Fail(r)
        PROVE  UNCHANGED Promise!vars
    BY <1>4 DEF Begin, Expired, Refused, Fail, mailbox, table, Promise!vars
  <1>5. ASSUME Arrive PROVE Promise!Arrive
    BY <1>5 DEF Arrive, table, Promise!Arrive
  <1>6. ASSUME Vanish PROVE Promise!Vanish
    <2>1. PICK m \in Present :
            gone' = gone \cup {m} /\ lost \subseteq lost'
            /\ UNCHANGED <<arrived, rows, cursor>>
      BY <1>6, VanishParts
    <2>2. m \in 1 .. arrived /\ lost' = lost \cup lost'
      BY <2>1 DEF Present
    <2>3. lost' \in SUBSET (1 .. arrived)
      BY <1>6, <2>1, VanishStep DEF IInv, TypeOK
    <2> QED
      BY <2>1, <2>2, <2>3 DEF Promise!Vanish, Promise!LetGo
  <1>7. CASE UNCHANGED vars
    BY <1>7 DEF vars, mailbox, table, Promise!vars
  <1> QED
    BY <1>1, <1>2, <1>3, <1>4, <1>5, <1>6, <1>7 DEF Next, Step

\* Page by page, with arrivals, departures, expired cursors, half-saved batches
\* and runs that overtake each other, a sync keeps the promise of Catchup.
THEOREM Refines == Spec => CatchesUp
  <1>1. Init => Promise!Init
    <2> SUFFICES ASSUME Init PROVE Promise!Init
      OBVIOUS
    <2> QED
      BY DEF Init, Promise!Init, NoCursor, Promise!NoCursor
  <1> QED
    BY <1>1, Invariant, Simulates, PTL DEF Spec, CatchesUp, Promise!Spec

-----------------------------------------------------------------------------
(* What the steps of Catchup add up to.                                    *)

\* As rows, departures and what was let go are never taken back, a cursor that
\* moves over settled messages only stays behind them for ever.
LEMMA NeverAhead == Promise!Spec => []Promise!CaughtUp
  <1> USE DEF Promise!CaughtUp, Promise!Settled
  <1>1. Promise!Init => Promise!CaughtUp
    BY DEF Promise!Init, Promise!NoCursor
  <1>2. ASSUME Promise!CaughtUp, [Promise!Next]_(Promise!vars)
        PROVE  Promise!CaughtUp'
    <2>1. CASE Promise!Move
      BY <2>1 DEF Promise!Move
    <2>2. CASE Promise!Arrive \/ UNCHANGED Promise!vars
      BY <1>2, <2>2 DEF Promise!Arrive, Promise!vars
    <2>3. CASE Promise!Vanish \/ Promise!GiveUp \/ Promise!Ingest
      BY <1>2, <2>3 DEF Promise!Vanish, Promise!GiveUp, Promise!LetGo, Promise!Ingest
    <2> QED
      BY <1>2, <2>1, <2>2, <2>3 DEF Promise!Next
  <1> QED
    BY <1>1, <1>2, PTL DEF Promise!Spec

\* Whatever the providers, the pages and overlapping runs do to it, the stored
\* cursor is never ahead of the table: a message it has passed has its row, is
\* gone, or was let go in one of the ways the model names (recordSyncSuccess).
THEOREM CursorNeverAhead == Spec => []Promise!CaughtUp
  BY Refines, NeverAhead, PTL DEF CatchesUp
=============================================================================
