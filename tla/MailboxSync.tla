----------------------------- MODULE MailboxSync -----------------------------
(***************************************************************************)
(* One connector call, page by page: deltaSync and fullSync of the three   *)
(* connectors, with messages arriving in the mailbox and leaving it        *)
(* between two requests, the upsert of what the call returned, chunk by    *)
(* chunk, and the cursor written back.  Several runs may overlap (a        *)
(* handler that outlived its job and the retry).                           *)
(*                                                                         *)
(* A message is its position in the mailbox and a cursor the position the  *)
(* next delta starts after, as in SyncAccount, which has the queue, the    *)
(* credentials and the error policy that are left out here.  A request     *)
(* that requestJson retries sees the mailbox of its last attempt.          *)
(***************************************************************************)
EXTENDS Integers, FiniteSets

CONSTANTS
  Runs,      \* calls that may be under way at the same time
  Providers, \* connectors that may serve the account
  PageSize,  \* LIST_PAGE_SIZE, PAGE_SIZE
  MaxPages,  \* MAX_PAGES_PER_RUN (Outlook)
  Bound,     \* MAX_MESSAGES_PER_RUN (Gmail, IMAP)
  Chunk,     \* rows per statement of upsertEvents
  Copies,    \* messages that may carry the Message-ID of the one before them
  MaxMail,   \* bound: messages that ever arrive
  MaxAged    \* bound: messages older than BACKFILL_DAYS

ASSUME MailboxAssumption ==
  /\ Providers \subseteq {"gmail", "outlook", "imap"}
  /\ {PageSize, MaxPages, Bound, Chunk} \subseteq Nat \ {0}
  /\ MaxMail \in Nat
  /\ MaxAged \in Nat
  /\ Copies \subseteq 2 .. MaxMail

VARIABLES
  arrived,  \* remote: messages that have come in
  gone,     \* remote: those deleted or moved out of the inbox again
  provider, \* accounts.provider
  aged,     \* messages 1 .. aged are older than BACKFILL_DAYS
  copies,   \* messages that do carry the Message-ID of the one before them
  rows,     \* messages whose row is in events
  cursor,   \* sync_state.cursor
  lost,     \* history: messages a call has passed over for good
  pc,       \* where each run stands
  ctx,      \* what it has read: the cursor; history: the mailbox's size then
  call      \* the locals of its connector call, at the end its SyncResult

mailbox == <<arrived, gone>>
fixed   == <<provider, aged, copies>>
table   == <<rows, cursor>>
run     == <<pc, ctx, call>>
vars    == <<mailbox, fixed, table, lost, run>>

NoCursor == -1
Mail     == 1 .. MaxMail
Position == NoCursor .. MaxMail
Steps    == {"idle", "failed", "delta", "seed", "list", "count", "fetch", "save",
             "record"}
Context  == [from : Position, begun : 0 .. MaxMail]

\* A delta has gone through the mailbox up to pos.  A listing has the messages
\* in ahead still before it.  used counts pages (Outlook) or ids (Gmail).
Call == [pos : 0 .. MaxMail, used : Nat, ahead : SUBSET Mail,
         emails : SUBSET Mail, next : Position, more : BOOLEAN]

\* A call that is under way, and what is left of one once its loops are over.
Paging(pos, used, ahead, emails, next) ==
  [pos |-> pos, used |-> used, ahead |-> ahead, emails |-> emails, next |-> next,
   more |-> FALSE]
Listing(emails, next, more) ==
  [pos |-> 0, used |-> 0, ahead |-> {}, emails |-> emails, next |-> next,
   more |-> more]

NoContext == [from |-> NoCursor, begun |-> 0]
NoCall    == Paging(0, 0, {}, {}, NoCursor)

TypeOK ==
  /\ arrived \in 0 .. MaxMail
  /\ gone \in SUBSET (1 .. arrived)
  /\ provider \in Providers
  /\ aged \in 0 .. arrived
  /\ copies \in SUBSET Copies
  /\ rows \in SUBSET (1 .. arrived)
  /\ cursor \in NoCursor .. arrived
  /\ lost \in SUBSET (1 .. arrived)
  /\ pc \in [Runs -> Steps]
  /\ ctx \in [Runs -> Context]
  /\ call \in [Runs -> Call]

Least(a, b)   == IF a < b THEN a ELSE b
Present       == (1 .. arrived) \ gone
Old           == 1 .. aged
Window        == Present \ Old
Highest(S)    == {m \in S : \A n \in S : n <= m}
Newest(S, k)  == {m \in S : Cardinality({n \in S : n > m}) < k}

At(r, prov, step) == pc[r] = step /\ provider = prov
Goto(r, step, c)  == /\ pc' = [pc EXCEPT ![r] = step]
                     /\ call' = [call EXCEPT ![r] = c]

-----------------------------------------------------------------------------
(* syncAccount chooses between deltaSync and fullSync.                     *)

Begin(r) ==
  /\ pc[r] \in {"idle", "failed"}
  /\ \/ Goto(r, "seed", NoCall)
     \/ cursor # NoCursor /\ Goto(r, "delta", Paging(cursor, 0, {}, {}, NoCursor))
  /\ ctx' = [ctx EXCEPT ![r] = [from |-> cursor, begun |-> arrived]]
  /\ UNCHANGED <<mailbox, fixed, table, lost>>

\* CursorExpiredError, after any page: what the delta listed is dropped.
Expired(r) ==
  /\ pc[r] = "delta"
  /\ Goto(r, "seed", NoCall)
  /\ UNCHANGED <<mailbox, fixed, table, lost, ctx>>

-----------------------------------------------------------------------------
(* deltaSync.                                                              *)

\* The positions the next page may end at: short pages are the provider's
\* right, empty ones end the change log.
PageEnds(pos) ==
  {n \in pos .. Least(arrived, pos + PageSize) : n > pos \/ n = arrived}

\* One round of drainDelta: up to the deltaLink, or the nextLink of the last
\* page the run may read.
DrainDelta(r) ==
  /\ At(r, "outlook", "delta")
  /\ \E end \in PageEnds(call[r].pos) :
       LET emails == call[r].emails \cup (((call[r].pos + 1) .. end) \ gone)
           pages  == call[r].used + 1
       IN  \/ /\ end = arrived \/ pages >= MaxPages
              /\ Goto(r, "save", Listing(emails, end, end # arrived))
           \/ /\ end # arrived /\ pages < MaxPages
              /\ Goto(r, "delta", Paging(end, pages, {}, emails, NoCursor))
  /\ UNCHANGED <<mailbox, fixed, table, lost, ctx>>

\* Bug to refute: a truncated run stores the latest historyId it was given.
TruncatedLatest(from) == arrived

\* "A truncated run must keep the old cursor".
Truncated(from) == from

\* One page of Gmail's history.  It names what was added, also what has left
\* since; a run that has Bound ids stops there and keeps its cursor.
History(r) ==
  /\ At(r, "gmail", "delta")
  /\ \E end \in PageEnds(call[r].pos) :
       LET from == ctx[r].from
       IN  \/ /\ end - from >= Bound
              /\ Goto(r, "fetch", Listing((from + 1) .. (from + Bound),
                                     Truncated(from), TRUE))
           \/ /\ end - from < Bound /\ end = arrived
              /\ Goto(r, "fetch", Listing((from + 1) .. end, end, FALSE))
           \/ /\ end - from < Bound /\ end # arrived
              /\ Goto(r, "delta", Paging(end, 0, {}, {}, NoCursor))
  /\ UNCHANGED <<mailbox, fixed, table, lost, ctx>>

\* What a fetch over U may take in: it goes upwards, skips the messages in bad,
\* which do not parse, and stops at the Bound-th that does.
Cuts(U, bad) ==
  {T \in SUBSET U :
     /\ \A m \in T, n \in U \ T : m < n
     /\ T # U => Cardinality(T \ bad) = Bound
     /\ Cardinality(T \ bad) = Bound => Highest(T) \cap bad = {}
     /\ Cardinality(T \ bad) <= Bound}

\* fetch `lastUid + 1:*` answers with the highest message if none is above.
Above(from) ==
  LET above == {m \in Present : m > from}
  IN  IF above = {} THEN Highest(Present) ELSE above

\* Bug to refute: a run that was cut off at Bound thinks it has them all.
CutOffNever(fresh) == Cardinality(fresh) > Bound

CutOff(fresh) == Cardinality(fresh) >= Bound

ImapDelta(r) ==
  /\ At(r, "imap", "delta")
  /\ \E bad \in SUBSET Above(ctx[r].from) :
       \E taken \in Cuts(Above(ctx[r].from), bad) :
         LET from  == ctx[r].from
             fresh == {m \in taken \ bad : m > from}
         IN  \E top \in {from} \cup taken :
               /\ top >= from /\ \A m \in taken : m <= top
               /\ Goto(r, "save", Listing(fresh, top, CutOff(fresh)))
               /\ lost' = lost \cup {m \in taken \cap bad : m > from}
  /\ UNCHANGED <<mailbox, fixed, table, ctx>>

-----------------------------------------------------------------------------
(* fullSync.                                                               *)

\* The cursor for "now" comes first; a request that fails leaves none.
Seed(r) ==
  /\ pc[r] = "seed" /\ provider # "imap"
  /\ \E next \in {NoCursor, arrived} :
       Goto(r, "list", Paging(0, 0, {}, {}, next))
  /\ UNCHANGED <<mailbox, fixed, table, lost, ctx>>

\* The messages the listing has not shown yet; its first page sees them all.
Ahead(r) == IF call[r].used = 0 THEN Window ELSE call[r].ahead \cap Present

\* A page shows the newest of them, and, where new mail has shifted the
\* listing, messages shown before: `shown` entries in all.
Pages(r) ==
  {p \in [fresh : SUBSET Ahead(r), shown : 0 .. PageSize] :
     /\ Cardinality(p.fresh) <= p.shown
     /\ p.fresh = Newest(Ahead(r), Cardinality(p.fresh))
     /\ \/ Cardinality(p.fresh) = p.shown
        \/ call[r].used > 0 /\ arrived > ctx[r].begun}

\* The Outlook loop: until there is no nextLink, at most MaxPages times.
OutlookList(r) ==
  /\ At(r, "outlook", "list")
  /\ \E p \in Pages(r) :
       LET emails == call[r].emails \cup p.fresh
           ahead  == Ahead(r) \ p.fresh
           pages  == call[r].used + 1
           next   == call[r].next
       IN  \/ /\ ahead = {} \/ pages >= MaxPages
              /\ Goto(r, "save", Listing(emails, next, ahead # {}))
              /\ lost' = lost \cup ahead \cup Old
           \/ /\ ahead # {} /\ pages < MaxPages
              /\ Goto(r, "list", Paging(0, pages, ahead, emails, next))
              /\ UNCHANGED lost
  /\ UNCHANGED <<mailbox, fixed, table, ctx>>

\* The Gmail loop: until there is no pageToken, or Bound ids; what a page has
\* beyond them is cut off.
GmailList(r) ==
  /\ At(r, "gmail", "list")
  /\ \E p \in Pages(r) :
       LET ids    == call[r].used + p.shown
           room   == Bound - call[r].used - (p.shown - Cardinality(p.fresh))
           kept   == Newest(p.fresh, room)
           ahead  == Ahead(r) \ p.fresh
           emails == call[r].emails \cup kept
           next   == call[r].next
       IN  \/ /\ ahead = {} \/ ids >= Bound
              /\ Goto(r, "fetch", Listing(emails, next, ids > Bound \/ ahead # {}))
              /\ lost' = lost \cup ahead \cup (p.fresh \ kept) \cup Old
           \/ /\ ahead # {} /\ ids < Bound
              /\ Goto(r, "list", Paging(0, ids, ahead, emails, next))
              /\ UNCHANGED lost
  /\ UNCHANGED <<mailbox, fixed, table, ctx>>

\* Gmail's messages are fetched one by one: what has left the mailbox is
\* skipped (404), and so is what a 403 keeps back, although it is there.
FetchMessages(r) ==
  /\ At(r, "gmail", "fetch")
  /\ \E forbidden \in SUBSET (call[r].emails \ gone) :
       /\ Goto(r, "save", Listing((call[r].emails \ gone) \ forbidden,
                                  call[r].next, call[r].more))
       /\ lost' = lost \cup forbidden
  /\ UNCHANGED <<mailbox, fixed, table, ctx>>

\* IMAP searches the window first ...
ImapSearch(r) ==
  /\ At(r, "imap", "seed")
  /\ LET bounded == Newest(Window, Bound)
     IN  IF Window = {}
         THEN Goto(r, "count", NoCall)
         ELSE Goto(r, "fetch", Paging(0, 0, Window \ bounded, bounded, NoCursor))
  /\ UNCHANGED <<mailbox, fixed, table, lost, ctx>>

\* Bug to refute: uidNext for the number of messages.
UidNext == arrived + 1

Exists == Cardinality(Present)

\* ... finds nothing, and takes the number of messages for the cursor, as it
\* is by now: a message announced since may be passed over.
ImapCount(r) ==
  /\ At(r, "imap", "count")
  /\ Goto(r, "save", Listing({}, Exists, FALSE))
  /\ lost' = lost \cup Old \cup {m \in Present : m <= Exists}
  /\ UNCHANGED <<mailbox, fixed, table, ctx>>

\* ... or fetches the newest of what it found, as far as it is still there.
ImapFetch(r) ==
  /\ At(r, "imap", "fetch")
  /\ LET there == call[r].emails \ gone
     IN  \E bad \in SUBSET there, top \in {0} \cup there :
           /\ \A m \in there : m <= top
           /\ Goto(r, "save", Listing(there \ bad, top, call[r].ahead # {}))
           /\ lost' = lost \cup bad \cup (call[r].ahead \ gone) \cup Old
  /\ UNCHANGED <<mailbox, fixed, table, ctx>>

-----------------------------------------------------------------------------
(* upsertEvents and recordSyncSuccess.                                     *)

\* Bug to refute: the whole conversation goes by its first Message-ID.
IdOfThread(m) == 1

\* (source, external_id): over IMAP the Message-ID.
Id(m) == IF m \in copies THEN m - 1 ELSE m

\* Postgres refuses a statement that would update one row twice.
Clash(C) == \E m, n \in C : m # n /\ Id(m) = Id(n)

Chunks(r) ==
  {C \in SUBSET call[r].emails :
     Cardinality(C) = Least(Chunk, Cardinality(call[r].emails))}

\* The handler is over: it has returned ("idle") or thrown ("failed").
End(r, step) == /\ Goto(r, step, NoCall)
                /\ ctx' = [ctx EXCEPT ![r] = NoContext]

Save(r) ==
  /\ pc[r] = "save"
  /\ \E C \in Chunks(r) :
       /\ ~Clash(C)
       /\ rows' = rows \cup C
       /\ Goto(r, IF C = call[r].emails THEN "record" ELSE "save",
               Listing(call[r].emails \ C, call[r].next, call[r].more))
  /\ UNCHANGED <<mailbox, fixed, cursor, lost, ctx>>

\* The chunk is refused, the job throws, and nothing is recorded.
Refused(r) ==
  /\ pc[r] = "save"
  /\ \E C \in Chunks(r) : Clash(C)
  /\ End(r, "failed")
  /\ UNCHANGED <<mailbox, fixed, table, lost>>

\* cursor: result.nextCursor ?? ctx.cursor.
Record(r) ==
  /\ pc[r] = "record"
  /\ cursor' = IF call[r].next = NoCursor THEN ctx[r].from ELSE call[r].next
  /\ End(r, "idle")
  /\ UNCHANGED <<mailbox, fixed, rows, lost>>

\* Any request or statement fails, the worker dies, or a page that repeats a
\* message gets its chunk refused: the call's locals are forgotten.
Fail(r) ==
  /\ pc[r] \notin {"idle", "failed"}
  /\ End(r, "failed")
  /\ UNCHANGED <<mailbox, fixed, table, lost>>

-----------------------------------------------------------------------------
(* The mailbox.                                                            *)

Arrive ==
  /\ arrived < MaxMail
  /\ arrived' = arrived + 1
  /\ UNCHANGED <<gone, fixed, table, lost, run>>

\* A message leaves.  Where a provider continues its listings by an offset,
\* the rest moves up, and one not yet shown slips past the next page.
Vanish ==
  /\ \E m \in Present, slip \in BOOLEAN :
       LET Slipped(r) ==
             IF slip /\ pc[r] = "list" /\ call[r].used > 0 /\ m \notin call[r].ahead
             THEN Highest(call[r].ahead \ gone) ELSE {}
       IN  /\ gone' = gone \cup {m}
           /\ lost' = lost \cup UNION {Slipped(r) : r \in Runs}
           /\ call' = [r \in Runs |->
                         [call[r] EXCEPT !.ahead = @ \ Slipped(r)]]
  /\ UNCHANGED <<arrived, fixed, table, pc, ctx>>

Init ==
  /\ arrived \in 0 .. MaxMail
  /\ gone \in SUBSET (1 .. arrived)
  /\ provider \in Providers
  /\ aged \in 0 .. Least(arrived, MaxAged)
  /\ copies \in IF provider = "imap" THEN SUBSET Copies ELSE {{}}
  /\ rows = {}
  /\ cursor = NoCursor
  /\ lost = {}
  /\ pc = [r \in Runs |-> "idle"]
  /\ ctx = [r \in Runs |-> NoContext]
  /\ call = [r \in Runs |-> NoCall]

Delta(r) == DrainDelta(r) \/ History(r) \/ ImapDelta(r)

Full(r) ==
  \/ Seed(r) \/ OutlookList(r) \/ GmailList(r) \/ FetchMessages(r)
  \/ ImapSearch(r) \/ ImapCount(r) \/ ImapFetch(r)

Step(r) == Delta(r) \/ Full(r) \/ Save(r) \/ Refused(r) \/ Record(r)

Next ==
  \/ \E r \in Runs : Begin(r) \/ Expired(r) \/ Step(r) \/ Fail(r)
  \/ Arrive \/ Vanish

Spec == Init /\ [][Next]_vars

-----------------------------------------------------------------------------
(* Safety.                                                                 *)

\* However pages, arrivals, departures, expired cursors, broken upserts and
\* overlapping runs fall together, a sync does no more than Catchup allows:
\* the cursor passes a message only if it has its row, is gone, or was let go
\* in one of the ways the actions above name.
Promise == INSTANCE Catchup
            WITH arrived <- arrived, gone <- gone, rows <- rows, cursor <- cursor,
                 lost <- lost, MaxMail <- MaxMail

CatchesUp == Promise!Spec

\* hasMore = FALSE is the end of the chain of runs, so it must mean what it
\* says: nothing that was in the mailbox when the run began is still missing.
DoneMeansDone ==
  \A r \in Runs :
    pc[r] = "record" /\ ~call[r].more =>
      \A m \in 1 .. ctx[r].begun : Promise!Settled(m)

-----------------------------------------------------------------------------
(* Liveness.                                                               *)

\* Runs are started again and again (polls, retries) and get on.
FairSpec ==
  Spec /\ \A r \in Runs : WF_vars(Begin(r)) /\ WF_vars(Step(r))

\* Nothing fails any more but what the code does to itself, and every message
\* that came in has its row, is gone or was let go.
AllSaved ==
  <>[][\A r \in Runs : Fail(r) => Refused(r)]_vars =>
    \A m \in Mail :
      m <= arrived /\ provider # "gmail" ~> m \in rows \cup gone \cup lost

\* However the pages fall, whatever leaves in between and however often a
\* cursor expires, every message ends up in the table, provided that no two
\* carry the same Message-ID (and not over Gmail, where a truncated delta
\* starts over for ever: that is run SyncGmail).
EventuallySaved == [](copies = {}) => AllSaved

\* "Idempotent bulk upsert", "re-runnable: every event upserts": a message that
\* is in the mailbox twice must not keep the sync from getting on.
CopiesSaved == AllSaved
=============================================================================
