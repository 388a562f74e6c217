-------------------------------- MODULE Inbox --------------------------------
(***************************************************************************)
(* From the mailboxes of several people to the brief of each: whose mail   *)
(* it is, the verdict of the prefilter, the rows the mailboxes share, the  *)
(* days a thread has been open, and the questions a brief lists as open.   *)
(*                                                                         *)
(* How a sync gets its messages is the subject of SyncAccount, how rows    *)
(* get extracted that of Extraction, and when a brief is built that of     *)
(* GenerateBrief; here a sync brings any of the mailbox's messages, and    *)
(* two syncs of one mailbox overlap when the job of the first expires.     *)
(***************************************************************************)
EXTENDS Integers, FiniteSetsExt

CONSTANTS
  People,       \* each with one mailbox, which feeds that person's brief
  Providers,    \* what a mailbox can be: "gmail", "outlook", "imap", "gmail-imap"
  GlobalOwners, \* env.ownerEmails, whose mail the normalizers take for the owner's
  Kinds,        \* bound: the mails there can be
  Syncs,        \* handlers of the sync queue that can be at work at the same time
  Findings,     \* bound: what an extraction finds, a blocking_question or none
  Messages,     \* bound: how many mails there are
  MaxTime       \* bound: the stamps they carry

\* What the rules of the prefilter look at, besides the addresses.
Signs == {"ally", "job", "list", "category", "auto", "notifier", "empty", "bare"}

ASSUME InboxAssumption ==
  /\ {"imap", "none", "references"} \cap People = {}
  /\ \A k \in Kinds : /\ {k.inboxes, k.to} \subseteq SUBSET People
                      /\ k.signs \subseteq Signs
  /\ Kinds # {}
  /\ Findings \subseteq {"statement", "question"}
  /\ MaxTime \in Nat \ {0}

VARIABLES
  provider, \* accounts.provider
  mail,     \* the mails: the inboxes each is in, and its date
  box,      \* the mailbox a sync is about, if it is at work
  batch,    \* verdicts it has reached for messages it has not saved yet
  rows,     \* the table events
  overtaken \* history: syncs that classified before another one of the mailbox saved

sync == <<box, batch>>
vars == <<provider, mail, sync, rows, overtaken>>

Verdict == {"keep", "newsletter", "notification", "bulk"}
NoMail  == [kind |-> CHOOSE k \in Kinds : TRUE, at |-> 0]
Key     == (People \cup {"imap"}) \X Messages
Threads == (People \cup {"references"}) \X {k.thread : k \in Kinds}
Row     == [account : People, thread : Threads, at : 1 .. MaxTime, owner : BOOLEAN,
            verdict : Verdict, extraction : {"none"} \cup Findings]
NoRow   == [account |-> "none", thread |-> <<"none", "none">>, at |-> 0, owner |-> FALSE,
            verdict |-> "none", extraction |-> "none"]

TypeOK ==
  /\ provider \in [People -> Providers]
  /\ mail \in [Messages -> [kind : Kinds, at : 1 .. MaxTime] \cup {NoMail}]
  /\ box \in [Syncs -> People \cup {"none"}]
  /\ batch \in [Syncs -> [Messages -> Verdict \cup {"none"}]]
  /\ rows \in [Key -> Row \cup {NoRow}]
  /\ overtaken \in SUBSET Syncs

-----------------------------------------------------------------------------
(* What the connectors make of a message in a mailbox.                     *)

Inbox(p) == {m \in Messages : mail[m].at > 0 /\ p \in mail[m].kind.inboxes}

\* What all normalizers do: the date, the addresses, owners.has(from) or a label of
\* sent mail, and the signals but for those the provider does not give.
Event(m, scope, thread, sent, withheld) ==
  [scope |-> scope, thread |-> <<thread, mail[m].kind.thread>>, at |-> mail[m].at,
   owner |-> mail[m].kind.author \in GlobalOwners \/ sent,
   to |-> mail[m].kind.to, signs |-> mail[m].kind.signs \ ({"bare"} \cup withheld)]

\* The id and the conversation are of the mailbox; SENT is the label Google puts on
\* what was sent from it.
NormalizeGmail(p, m) == Event(m, p, p, mail[m].kind.author = p, {})

\* Graph has no categories, and may leave out the headers.
NormalizeOutlook(p, m) ==
  Event(m, p, p, FALSE,
        {"category"} \cup IF "bare" \in mail[m].kind.signs THEN {"list", "auto"} ELSE {})

\* The id is the Message-ID, the same in every mailbox; the conversation is Google's
\* where the server is Google's, with its labels, or else the root of References.
NormalizeImap(p, m, google) ==
  Event(m, "imap", IF google THEN p ELSE "references",
        google /\ mail[m].kind.author = p, IF google THEN {} ELSE {"category"})

Normalize(p, m) ==
  IF provider[p] = "gmail" THEN NormalizeGmail(p, m)
  ELSE IF provider[p] = "outlook" THEN NormalizeOutlook(p, m)
  ELSE NormalizeImap(p, m, provider[p] = "gmail-imap")

-----------------------------------------------------------------------------
(* The prefilter, of an event e of the mailbox p.                          *)

\* A counterparty of the list, by address or domain, and a job number.
Strong == {"ally", "job"}

\* The rules that keep a message whatever else is true of it.
Keeps(e, answered) == e.owner \/ Strong \cap e.signs # {} \/ answered

\* prefilter: the first rule that applies decides.  account.ownerEmails holds the
\* mailbox's own address (that of an account from before there was such a column
\* falls back on account.email, to the same effect).
Prefilter(p, e, answered) ==
  IF Keeps(e, answered) THEN "keep"
  ELSE IF {"list", "category"} \cap e.signs # {} THEN "newsletter"
  ELSE IF {"auto", "notifier", "empty"} \cap e.signs # {} THEN "notification"
  ELSE IF p \notin e.to THEN "bulk" ELSE "keep"

-----------------------------------------------------------------------------
(* The table.                                                              *)

Stored == {k \in Key : rows[k] # NoRow}

\* (source, external_id).
KeyOf(p, m) == <<Normalize(p, m).scope, m>>

\* threadsWithOwnerMessages, of all mailboxes.
OwnerThreads == {rows[k].thread : k \in {j \in Stored : rows[j].owner}}

\* Bug to refute: only the rows stored already are asked for the owner's mail.
ClassifyBatchStored(p, S) ==
  LET event == [m \in S |-> Normalize(p, m)] IN
  [m \in Messages |-> IF m \in S
                      THEN Prefilter(p, event[m], event[m].thread \in OwnerThreads)
                      ELSE "none"]

\* Conversations with the owner's mail in the table, or in the batch itself.
ClassifyBatch(p, S) ==
  LET event == [m \in S |-> Normalize(p, m)]
      owned == OwnerThreads \cup {event[m].thread : m \in {n \in S : event[n].owner}} IN
  [m \in Messages |-> IF m \in S
                      THEN Prefilter(p, event[m], event[m].thread \in owned)
                      ELSE "none"]

\* A mail comes in, in every mailbox it was sent to, with any date.
Arrive(m) ==
  /\ mail[m].at = 0
  /\ \E k \in Kinds, t \in 1 .. MaxTime : mail' = [mail EXCEPT ![m] = [kind |-> k, at |-> t]]
  /\ UNCHANGED <<provider, sync, rows, overtaken>>

NoBatch == [m \in Messages |-> "none"]

\* A sync has a batch of the mailbox's messages, new ones or not, and classifies
\* it after one look at the table; another one, whose job has expired, may be at it.
Classify(s, p) ==
  /\ box[s] = "none"
  /\ box' = [box EXCEPT ![s] = p]
  /\ \E S \in (SUBSET Inbox(p)) \ {{}} :
       batch' = [batch EXCEPT ![s] = ClassifyBatch(p, S)]
  /\ UNCHANGED <<provider, mail, rows, overtaken>>

\* A row as written.
ToRow(p, m, verdict, extraction) ==
  LET e == Normalize(p, m) IN
  [account |-> p, thread |-> e.thread, at |-> e.at, owner |-> e.owner,
   verdict |-> verdict, extraction |-> extraction]

\* Bug to refute: the verdict does not get into the row.
UpsertedUnread(s, m) == ToRow(box[s], m, "none", "none")

\* Bug to refute: a message that is synced again is to be extracted again.
UpsertedAfresh(s, m) == ToRow(box[s], m, batch[s][m], "none")

\* What a row becomes: everything the connector reads is overwritten, the verdict
\* and what was extracted are kept.
Upserted(s, m) ==
  LET old == rows[KeyOf(box[s], m)] IN
  IF old = NoRow THEN ToRow(box[s], m, batch[s][m], "none")
  ELSE ToRow(box[s], m, old.verdict, old.extraction)

Unsaved(s) == {m \in Messages : batch[s][m] # "none"}

\* upsertEvents commits a chunk; with the last one the sync is done.
Save(s) ==
  /\ \E C \in (SUBSET Unsaved(s)) \ {{}} :
       /\ rows' = [k \in Key |-> IF k[2] \in C /\ k = KeyOf(box[s], k[2])
                                 THEN Upserted(s, k[2]) ELSE rows[k]]
       /\ batch' = [batch EXCEPT ![s] = [m \in Messages |-> IF m \in C THEN "none" ELSE @[m]]]
       /\ box' = IF C = Unsaved(s) THEN [box EXCEPT ![s] = "none"] ELSE box
       /\ overtaken' = {q \in Syncs : /\ box'[q] # "none"
                                      /\ q \in overtaken \/ (q # s /\ box[q] = box[s])}
  /\ UNCHANGED <<provider, mail>>

\* A chunk fails or the worker dies: what is not saved is classified again by the
\* next sync.
Abandon(s) ==
  /\ box[s] # "none"
  /\ box' = [box EXCEPT ![s] = "none"]
  /\ batch' = [batch EXCEPT ![s] = NoBatch]
  /\ overtaken' = overtaken \ {s}
  /\ UNCHANGED <<provider, mail, rows>>

\* A kept message is extracted, or answered by nothing that can be used (and then
\* it is as if it had not been).
Extract(k) ==
  /\ rows[k].verdict = "keep"
  /\ rows[k].extraction = "none"
  /\ \E x \in Findings : rows' = [rows EXCEPT ![k].extraction = x]
  /\ UNCHANGED <<provider, mail, sync, overtaken>>

Init ==
  /\ provider \in [People -> Providers]
  /\ mail = [m \in Messages |-> NoMail]
  /\ box = [s \in Syncs |-> "none"]
  /\ batch = [s \in Syncs |-> NoBatch]
  /\ rows = [k \in Key |-> NoRow]
  /\ overtaken = {}

Next ==
  \/ \E m \in Messages : Arrive(m)
  \/ \E s \in Syncs : (\E p \in People : Classify(s, p)) \/ Save(s) \/ Abandon(s)
  \/ \E k \in Key : Extract(k)

Spec == Init /\ [][Next]_vars

-----------------------------------------------------------------------------
(* Days open: the query, for the rows of one thread.                       *)

RowsOf(t)  == {k \in Stored : rows[k].thread = t}
Inbound(R) == {k \in R : ~rows[k].owner}

\* SELECT DISTINCT ON takes any one of the rows with the latest date.
Newest(R) == {k \in R : \A j \in R : rows[j].at <= rows[k].at}

\* last_owner, with 0 for NULL.
LastOwnerAt(R) == Max({0} \cup {rows[k].at : k \in R \ Inbound(R)})

\* Bug to refute: a mail of the same date as the answer counts as unanswered.
UnansweredSince(R) == {rows[k].at : k \in {j \in Inbound(R) : rows[j].at >= LastOwnerAt(R)}}

\* Bug to refute: the clock starts at the last mail.
UnansweredLast(R) == {rows[k].at : k \in Inbound(R) \cap Newest(R)}

\* oldest_unanswered, before the minimum is taken.
Unanswered(R) == {rows[k].at : k \in {j \in Inbound(R) : rows[j].at > LastOwnerAt(R)}}

WaitingSince(R) == Min(Unanswered(R))

\* The query returns the thread, for one choice of its newest row or for all.
MayWait(R)  == (\E n \in Newest(R) : ~rows[n].owner) /\ Unanswered(R) # {}
MustWait(R) == (\A n \in Newest(R) : ~rows[n].owner) /\ Unanswered(R) # {}

-----------------------------------------------------------------------------
(* The brief.                                                              *)

\* Bug to refute: the brief is built from everybody's mail.
ItemsOfAll(p) == {k \in Stored : rows[k].verdict = "keep" /\ rows[k].extraction # "none"}

\* extractedInWindow, for a window that holds them all.
Items(p) ==
  {k \in Stored : /\ rows[k].account = p
                  /\ rows[k].verdict = "keep"
                  /\ rows[k].extraction # "none"}

\* waitingOnOthers: the items with a blocking question whose thread has days open.
WaitingOn(p) ==
  {k \in Items(p) : /\ rows[k].extraction = "question"
                    /\ MayWait(RowsOf(rows[k].thread))}

-----------------------------------------------------------------------------
(* What a reader of the briefs can rely on.                                *)

\* Whatever is in a person's brief is in that person's mailbox, although mailboxes
\* share rows and conversations and each sync takes rows over (upsertEvents,
\* extractedInWindow).
NoStrangersMail ==
  \A p \in People : \A k \in Items(p) : k[2] \in Inbox(p)

\* No message of a conversation with mail from GlobalOwners, or sent from the mailbox
\* itself where the provider says so, is filtered out when it is first stored, however
\* it was batched with that mail and wherever a sync broke off (classifyBatch).  Left
\* out are conversations that mailboxes share and mailboxes a sync is at whose look at
\* the table came before another sync of the same mailbox saved: there the owner's
\* mail can be stored between the look and the verdict's.
OwnerThreadsKept ==
  [][\A k \in Key :
       rows[k] = NoRow /\ rows'[k] # NoRow /\ rows'[k].verdict # "keep"
           /\ rows'[k].thread[1] \notin {"references"} \cup {box[s] : s \in overtaken}
         => \A j \in Key : rows'[j].thread = rows'[k].thread => ~rows'[j].owner]_vars

\* A thread is in the list of waits exactly if somebody wrote after everything the
\* owner wrote in it, it counts from the first who did, and which of several rows
\* of one date the query takes for the newest makes no difference (days-open.ts).
WaitsAgree ==
  \A t \in Threads :
    LET R    == RowsOf(t)
        open == {k \in Inbound(R) : \A j \in R \ Inbound(R) : rows[j].at < rows[k].at} IN
    /\ MayWait(R) <=> open # {}
    /\ MustWait(R) <=> open # {}
    /\ open # {} => /\ \A k \in open : WaitingSince(R) <= rows[k].at
                    /\ \E k \in open : WaitingSince(R) = rows[k].at

\* Whoever chases an answer does not make their own wait start later: as long as a
\* thread waits, gets no mail of the owner's and loses none to another mailbox,
\* it has been waiting at least as long as before (days-open.ts).
WaitNotReset ==
  [][rows' # rows => \A t \in Threads :
       LET R == RowsOf(t) IN
       /\ R \subseteq RowsOf(t)'
       /\ {k \in RowsOf(t)' : rows'[k].owner} = R \ Inbound(R)
       /\ MayWait(R)
       /\ MayWait(RowsOf(t))'
       => WaitingSince(RowsOf(t))' <= WaitingSince(R)]_vars

\* A question that is open in somebody's brief stays open there, or in the brief of
\* whoever the row goes to, whatever is synced, synced again, extracted or taken over,
\* until the owner has written in the thread or a mail of it has gone to another thread
\* (upsertEvents, days-open.ts, groupForBrief).
QuestionsStay ==
  [][rows' # rows => \A t \in Threads :
       LET R == RowsOf(t) IN
       /\ R \subseteq RowsOf(t)'
       /\ {k \in RowsOf(t)' : rows'[k].owner} = R \ Inbound(R)
       => \A p \in People : \A k \in R \cap WaitingOn(p) : k \in WaitingOn(rows[k].account)']_vars
=============================================================================
