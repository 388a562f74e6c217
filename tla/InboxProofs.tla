----------------------------- MODULE InboxProofs -----------------------------
(* Types of the inbox model, that nobody reads another's mail, that no        *)
(* conversation the owner has written in is filtered out, and that waits      *)
(* start where they should and go on, with their questions.                   *)
EXTENDS Inbox, WellFoundedInduction, TLAPS

\* A mail that has come in has a kind and a date.
LEMMA MailTyped ==
  ASSUME TypeOK, NEW m \in Messages
  PROVE  /\ mail[m].kind \in Kinds
         /\ mail[m].at # 0 => mail[m].at \in 1 .. MaxTime
  BY InboxAssumption DEF InboxAssumption, TypeOK, NoMail

\* Whatever the connector, an event has a conversation, a date and an owner or not.
LEMMA EventTyped ==
  ASSUME TypeOK, NEW p \in People, NEW m \in Inbox(p)
  PROVE  /\ Normalize(p, m).thread \in Threads
         /\ Normalize(p, m).at \in 1 .. MaxTime
         /\ Normalize(p, m).owner \in BOOLEAN
<1> DEFINE e(scope, thread, sent, withheld) == Event(m, scope, thread, sent, withheld)
<1>1. m \in Messages /\ mail[m].kind \in Kinds /\ mail[m].at \in 1 .. MaxTime
  <2>1. m \in Messages /\ mail[m].at > 0
    BY DEF Inbox
  <2>2. QED
    BY <2>1, MailTyped
<1>2. ASSUME NEW scope, NEW thread \in People \cup {"references"}, NEW sent \in BOOLEAN,
             NEW withheld
      PROVE  /\ e(scope, thread, sent, withheld).thread \in Threads
             /\ e(scope, thread, sent, withheld).at \in 1 .. MaxTime
             /\ e(scope, thread, sent, withheld).owner \in BOOLEAN
  BY <1>1 DEF Event, Threads
<1>3. CASE provider[p] = "gmail"
  BY <1>2, <1>3 DEF Normalize, NormalizeGmail
<1>4. CASE provider[p] = "outlook"
  BY <1>2, <1>4 DEF Normalize, NormalizeOutlook
<1>5. CASE provider[p] # "gmail" /\ provider[p] # "outlook"
  BY <1>2, <1>5 DEF Normalize, NormalizeImap
<1>6. QED
  BY <1>3, <1>4, <1>5

\* Every path through the prefilter ends in a verdict.
LEMMA PrefilterTyped ==
  ASSUME NEW p, NEW e, NEW answered
  PROVE  Prefilter(p, e, answered) \in Verdict
  BY DEF Prefilter, Verdict

\* A batch has verdicts for its own messages and for no others.
LEMMA ClassifyTyped ==
  ASSUME NEW p \in People, NEW S \in SUBSET Inbox(p)
  PROVE  /\ ClassifyBatch(p, S) \in [Messages -> Verdict \cup {"none"}]
         /\ \A m \in Messages : ClassifyBatch(p, S)[m] # "none" => m \in S
  BY PrefilterTyped DEF ClassifyBatch

\* What a sync writes is a row.
LEMMA RowTyped ==
  ASSUME TypeOK, NEW p \in People, NEW m \in Inbox(p),
         NEW verdict \in Verdict, NEW extraction \in {"none"} \cup Findings
  PROVE  ToRow(p, m, verdict, extraction) \in Row
  BY EventTyped DEF ToRow, Row

\* A row that exists is not the absence of one.
LEMMA RowIsSome == Row \cap {NoRow} = {}
  BY InboxAssumption DEF InboxAssumption, Row, NoRow

-----------------------------------------------------------------------------
(* The inductive invariant.                                                *)

\* A sync works on messages of its own mailbox.
Queued ==
  \A s \in Syncs, m \in Messages :
    batch[s][m] # "none" => box[s] \in People /\ m \in Inbox(box[s])

\* A row is of an account that has the message.
Delivered == \A k \in Stored : k[2] \in Inbox(rows[k].account)

IInv == TypeOK /\ Queued /\ Delivered

\* The table and the batches start empty.
LEMMA InitInv == Init => IInv
  BY InboxAssumption DEF InboxAssumption, Init, NoBatch, IInv, TypeOK, Queued, Delivered, Stored

\* A new mail leaves those there are where they are.
LEMMA ArriveStep ==
  ASSUME IInv, NEW m \in Messages, Arrive(m)
  PROVE  IInv'
<1>1. PICK k \in Kinds, t \in 1 .. MaxTime : mail' = [mail EXCEPT ![m] = [kind |-> k, at |-> t]]
  BY DEF Arrive
<1>2. TypeOK'
  BY <1>1 DEF Arrive, sync, IInv, TypeOK
<1>3. \A p \in People : Inbox(p) \subseteq Inbox(p)'
  BY <1>1 DEF Arrive, IInv, TypeOK, Inbox
<1>4. Queued'
  <2>1. box' = box /\ batch' = batch
    BY DEF Arrive, sync
  <2>2. \A s \in Syncs, n \in Messages :
          batch[s][n] # "none" => box[s] \in People /\ n \in Inbox(box[s])
    BY DEF IInv, Queued
  <2>3. QED
    BY <1>3, <2>1, <2>2 DEF Queued, Inbox
<1>5. Delivered'
  <2>1. \A k2 \in Stored : rows[k2].account \in People
    BY DEF Stored, IInv, TypeOK, Row
  <2>2. QED
    BY <1>3, <2>1 DEF Arrive, IInv, Delivered, Stored
<1>6. QED
  BY <1>2, <1>4, <1>5 DEF IInv

\* A batch is taken from the mailbox, which it leaves as it is.
LEMMA ClassifyStep ==
  ASSUME IInv, NEW s \in Syncs, NEW p \in People, Classify(s, p)
  PROVE  IInv'
<1>1. PICK S \in SUBSET Inbox(p) : batch' = [batch EXCEPT ![s] = ClassifyBatch(p, S)]
  BY DEF Classify
<1>2. box' = [box EXCEPT ![s] = p]
  BY DEF Classify
<1>3. TypeOK'
  BY <1>1, <1>2, ClassifyTyped DEF Classify, IInv, TypeOK
<1>4. \A q : Inbox(q)' = Inbox(q)
  BY DEF Classify, Inbox
<1>5. Queued'
  <2>1. /\ batch'[s] = ClassifyBatch(p, S) /\ box'[s] = p
        /\ \A q \in Syncs \ {s} : batch'[q] = batch[q] /\ box'[q] = box[q]
    BY <1>1, <1>2 DEF IInv, TypeOK
  <2>2. \A m \in Messages : batch'[s][m] # "none" => m \in Inbox(p)
    BY <2>1, ClassifyTyped
  <2>3. QED
    BY <2>1, <2>2 DEF Classify, IInv, Queued, Inbox
<1>6. Delivered'
  BY DEF Classify, IInv, Delivered, Stored, Inbox
<1>7. QED
  BY <1>3, <1>5, <1>6 DEF IInv

\* A batch that is given up leaves no verdict behind.
LEMMA AbandonStep ==
  ASSUME IInv, NEW s \in Syncs, Abandon(s)
  PROVE  IInv'
<1>1. TypeOK'
  BY DEF Abandon, NoBatch, IInv, TypeOK
<1>2. Queued'
  <2>1. /\ \A m \in Messages : batch'[s][m] = "none"
        /\ \A q \in Syncs \ {s} : batch'[q] = batch[q] /\ box'[q] = box[q]
    BY DEF Abandon, NoBatch, IInv, TypeOK
  <2>2. QED
    BY <2>1 DEF Abandon, IInv, Queued, Inbox
<1>3. Delivered'
  BY DEF Abandon, IInv, Delivered, Stored, Inbox
<1>4. QED
  BY <1>1, <1>2, <1>3 DEF IInv

\* What Save does to one row.
LEMMA UpsertedTyped ==
  ASSUME IInv, NEW s \in Syncs, NEW m \in Messages, batch[s][m] # "none"
  PROVE  /\ Upserted(s, m) \in Row
         /\ Upserted(s, m).account = box[s]
<1> DEFINE p == box[s]
<1>1. p \in People /\ m \in Inbox(p) /\ batch[s][m] \in Verdict
  BY DEF IInv, TypeOK, Queued
<1>2. CASE rows[KeyOf(p, m)] = NoRow
  BY <1>1, <1>2, RowTyped DEF Upserted, IInv, ToRow
<1>3. CASE rows[KeyOf(p, m)] # NoRow
  <2>1. KeyOf(p, m) \in Key
    BY <1>1 DEF KeyOf, Key, Normalize, NormalizeGmail, NormalizeOutlook, NormalizeImap, Event
  <2>2. rows[KeyOf(p, m)] \in Row
    BY <1>3, <2>1 DEF IInv, TypeOK
  <2>3. /\ rows[KeyOf(p, m)].verdict \in Verdict
        /\ rows[KeyOf(p, m)].extraction \in {"none"} \cup Findings
    BY <2>2 DEF Row
  <2>4. QED
    BY <1>1, <1>3, <2>3, RowTyped DEF Upserted, IInv, ToRow
<1>4. QED
  BY <1>2, <1>3

\* A chunk: which rows it writes, which verdicts it leaves, and whom it overtakes.
LEMMA SaveParts ==
  ASSUME IInv, NEW s \in Syncs, Save(s)
  PROVE  /\ \E C \in SUBSET Unsaved(s) :
              rows' = [k \in Key |-> IF k[2] \in C /\ k = KeyOf(box[s], k[2])
                                     THEN Upserted(s, k[2]) ELSE rows[k]]
         /\ batch' \in [Syncs -> [Messages -> Verdict \cup {"none"}]]
         /\ box' \in [Syncs -> People \cup {"none"}]
         /\ \A q \in Syncs, m \in Messages :
              batch'[q][m] # "none" => batch'[q][m] = batch[q][m] /\ box'[q] = box[q]
         /\ overtaken' \in SUBSET Syncs
         /\ \A q \in Syncs : /\ box'[q] = box[q] /\ box[q] # "none" /\ q \in overtaken
                               => q \in overtaken'
                             /\ q # s /\ box[q] = box[s] /\ box'[q] # "none" => q \in overtaken'
<1>1. PICK C \in SUBSET Unsaved(s) :
        /\ rows' = [k \in Key |-> IF k[2] \in C /\ k = KeyOf(box[s], k[2])
                                  THEN Upserted(s, k[2]) ELSE rows[k]]
        /\ batch' = [batch EXCEPT ![s] = [m \in Messages |-> IF m \in C THEN "none" ELSE @[m]]]
        /\ box' = IF C = Unsaved(s) THEN [box EXCEPT ![s] = "none"] ELSE box
        /\ overtaken' = {q \in Syncs : /\ box'[q] # "none"
                                       /\ q \in overtaken \/ (q # s /\ box[q] = box[s])}
  BY DEF Save
<1>2. batch' \in [Syncs -> [Messages -> Verdict \cup {"none"}]]
  BY <1>1 DEF IInv, TypeOK
<1>3. box' \in [Syncs -> People \cup {"none"}] /\ \A q \in Syncs \ {s} : box'[q] = box[q]
  BY <1>1 DEF IInv, TypeOK
<1>4. \A q \in Syncs \ {s} : batch'[q] = batch[q]
  BY <1>1 DEF IInv, TypeOK
<1>5. \A m \in Messages : batch'[s][m] = IF m \in C THEN "none" ELSE batch[s][m]
  BY <1>1 DEF IInv, TypeOK
<1>6. ASSUME NEW m \in Messages, batch'[s][m] # "none"
      PROVE  batch'[s][m] = batch[s][m] /\ box'[s] = box[s]
  <2>1. m \notin C /\ m \in Unsaved(s)
    BY <1>5, <1>6 DEF Unsaved
  <2>2. QED
    BY <1>1, <1>5, <1>6, <2>1
<1>7. QED
  BY <1>1, <1>2, <1>3, <1>4, <1>6

\* A sync writes rows for messages of its own mailbox.
LEMMA SaveStep ==
  ASSUME IInv, NEW s \in Syncs, Save(s)
  PROVE  IInv'
<1>1. PICK C \in SUBSET Unsaved(s) :
        rows' = [k \in Key |-> IF k[2] \in C /\ k = KeyOf(box[s], k[2])
                               THEN Upserted(s, k[2]) ELSE rows[k]]
  BY SaveParts
<1>2. mail' = mail /\ provider' = provider
  BY DEF Save
<1>3. rows' \in [Key -> Row \cup {NoRow}]
  BY <1>1, UpsertedTyped DEF IInv, TypeOK, Unsaved
<1>4. TypeOK'
  BY <1>2, <1>3, SaveParts DEF IInv, TypeOK
<1>5. Queued'
  <2>1. \A q \in Syncs, m \in Messages :
          batch'[q][m] # "none" => batch[q][m] # "none" /\ box'[q] = box[q]
    BY SaveParts
  <2>2. QED
    BY <1>2, <2>1 DEF IInv, Queued, Inbox
<1>6. Delivered'
  <2> SUFFICES ASSUME NEW k \in Key, rows'[k] # NoRow
               PROVE  k[2] \in Inbox(rows'[k].account)
    BY <1>2 DEF Delivered, Stored, Inbox
  <2>1. CASE k[2] \in C /\ k = KeyOf(box[s], k[2])
    <3>1. k[2] \in Messages /\ batch[s][k[2]] # "none"
      BY <1>1, <2>1 DEF Unsaved
    <3>2. rows'[k].account = box[s]
      BY <1>1, <2>1, <3>1, UpsertedTyped
    <3>3. QED
      BY <3>1, <3>2 DEF IInv, Queued
  <2>2. CASE ~(k[2] \in C /\ k = KeyOf(box[s], k[2]))
    <3>1. rows'[k] = rows[k] /\ rows[k] \in Row
      BY <1>1, <2>2 DEF IInv, TypeOK
    <3>2. QED
      BY <3>1 DEF IInv, Delivered, Stored
  <2>3. QED
    BY <2>1, <2>2
<1>7. QED
  BY <1>4, <1>5, <1>6 DEF IInv

\* An extraction is of a kept row, and changes nothing else in it.
LEMMA ExtractSame ==
  ASSUME IInv, NEW k \in Key, Extract(k)
  PROVE  /\ rows[k] # NoRow /\ rows[k].extraction = "none"
         /\ rows' \in [Key -> Row \cup {NoRow}]
         /\ \A j \in Key : /\ rows'[j].account = rows[j].account
                           /\ rows'[j].thread = rows[j].thread
                           /\ rows'[j].owner = rows[j].owner
                           /\ rows'[j].at = rows[j].at
                           /\ rows'[j].verdict = rows[j].verdict
                           /\ rows[j] = NoRow => rows'[j] = NoRow
                           /\ j # k => rows'[j] = rows[j]
<1>1. PICK x \in Findings : rows' = [rows EXCEPT ![k].extraction = x]
  BY DEF Extract
<1>2. rows[k] \in Row /\ rows[k] # NoRow /\ rows[k].extraction = "none"
  <2>1. NoRow.verdict # "keep"
    BY DEF NoRow
  <2>2. QED
    BY <2>1 DEF Extract, IInv, TypeOK
<1> DEFINE new == [rows[k] EXCEPT !.extraction = x]
<1>3. /\ new \in Row
      /\ new.account = rows[k].account
      /\ new.thread = rows[k].thread
      /\ new.owner = rows[k].owner
      /\ new.at = rows[k].at
      /\ new.verdict = rows[k].verdict
  BY <1>2 DEF Row
<1>4. rows' = [rows EXCEPT ![k] = new]
  BY <1>1
<1> HIDE DEF new
<1>5. rows'[k] = new /\ \A j \in Key \ {k} : rows'[j] = rows[j]
  BY <1>4 DEF IInv, TypeOK
<1>6. rows' \in [Key -> Row \cup {NoRow}]
  BY <1>3, <1>4 DEF IInv, TypeOK
<1>7. ASSUME NEW j \in Key
      PROVE  /\ rows'[j].account = rows[j].account
             /\ rows'[j].thread = rows[j].thread
             /\ rows'[j].owner = rows[j].owner
             /\ rows'[j].at = rows[j].at
             /\ rows'[j].verdict = rows[j].verdict
             /\ rows[j] = NoRow => rows'[j] = NoRow
             /\ j # k => rows'[j] = rows[j]
  <2>1. CASE j = k
    BY <1>2, <1>3, <1>5, <2>1
  <2>2. CASE j # k
    BY <1>5, <2>2
  <2>3. QED
    BY <2>1, <2>2
<1>8. QED
  BY <1>2, <1>6, <1>7

\* An extraction leaves its row with the account it had.
LEMMA ExtractStep ==
  ASSUME IInv, NEW k \in Key, Extract(k)
  PROVE  IInv'
<1>1. TypeOK' /\ Queued'
  BY ExtractSame DEF Extract, sync, IInv, TypeOK, Queued, Inbox
<1>2. Delivered'
  BY ExtractSame DEF Extract, IInv, Delivered, Stored, Inbox
<1>3. QED
  BY <1>1, <1>2 DEF IInv

\* Every step keeps the invariant.
LEMMA NextInv == IInv /\ [Next]_vars => IInv'
<1> SUFFICES ASSUME IInv, [Next]_vars PROVE IInv'
  OBVIOUS
<1>1. CASE Next
  BY <1>1, ArriveStep, ClassifyStep, AbandonStep, SaveStep, ExtractStep DEF Next
<1>2. CASE UNCHANGED vars
  BY <1>2 DEF vars, sync, IInv, TypeOK, Queued, Delivered, Stored, Inbox
<1>3. QED
  BY <1>1, <1>2

\* The invariant holds throughout.
LEMMA Invariant == Spec => []IInv
  BY InitInv, NextInv, PTL DEF Spec

-----------------------------------------------------------------------------
(* The theorems.                                                           *)

\* Every row, batch and mail has its type, in any mailboxes and for any mail.
THEOREM TypeCorrect == Spec => []TypeOK
  BY Invariant, PTL DEF IInv

\* A brief holds mail of its reader's mailbox only, for any number of people and
\* mails, although mailboxes share rows (upsertEvents, extractedInWindow).
THEOREM OwnMailOnly == Spec => []NoStrangersMail
<1>1. IInv => NoStrangersMail
  BY DEF IInv, Delivered, NoStrangersMail, Items
<1>2. QED
  BY <1>1, Invariant, PTL

-----------------------------------------------------------------------------
(* Answered conversations.                                                 *)

\* What a sync that no other of its mailbox has overtaken has decided not to keep
\* belongs to no conversation that has a mail of the owner, in the table or in the
\* rest of the batch.
Checked ==
  \A s \in Syncs \ overtaken, m \in Messages :
    batch[s][m] \notin {"none", "keep"} /\ Normalize(box[s], m).thread[1] # "references" =>
      /\ \A k \in Key : rows[k].thread = Normalize(box[s], m).thread => ~rows[k].owner
      /\ \A n \in Messages :
           batch[s][n] # "none" /\ Normalize(box[s], n).thread = Normalize(box[s], m).thread
             => ~Normalize(box[s], n).owner

\* A conversation is of the mailbox, or else identified by its References.
LEMMA ThreadScope ==
  ASSUME NEW p, NEW m
  PROVE  Normalize(p, m).thread[1] \in {p, "references"}
  BY DEF Normalize, NormalizeGmail, NormalizeOutlook, NormalizeImap, Event

\* The row a sync writes, as far as conversations are concerned.
LEMMA UpsertedEvent ==
  ASSUME NEW s, NEW m
  PROVE  /\ Upserted(s, m).thread = Normalize(box[s], m).thread
         /\ Upserted(s, m).owner = Normalize(box[s], m).owner
         /\ rows[KeyOf(box[s], m)] = NoRow => Upserted(s, m).verdict = batch[s][m]
  BY DEF Upserted, ToRow

\* No batch has a verdict to start with.
LEMMA CheckedInit == Init => Checked
  BY DEF Init, NoBatch, Checked

\* What is in a batch is normalized as before, if its sync and its mail are the same.
LEMMA SameEvent ==
  ASSUME NEW s, NEW m, mail'[m] = mail[m], provider' = provider, box'[s] = box[s]
  PROVE  Normalize(box[s], m)' = Normalize(box[s], m)
  BY DEF Normalize, NormalizeGmail, NormalizeOutlook, NormalizeImap, Event

\* A mail that comes in is in no batch yet.
LEMMA CheckedArrive ==
  ASSUME IInv, Checked, NEW m0 \in Messages, Arrive(m0)
  PROVE  Checked'
<1>1. \A s \in Syncs, m \in Messages : batch[s][m] # "none" => mail'[m] = mail[m]
  <2> SUFFICES ASSUME NEW s \in Syncs, NEW m \in Messages, batch[s][m] # "none"
               PROVE  mail'[m] = mail[m]
    OBVIOUS
  <2>1. mail[m].at > 0
    BY DEF IInv, Queued, Inbox
  <2>2. m # m0
    BY <2>1 DEF Arrive
  <2>3. QED
    BY <2>2 DEF Arrive, IInv, TypeOK
<1>2. UNCHANGED <<provider, box, batch, rows, overtaken>>
  BY DEF Arrive, sync
<1>3. \A s \in Syncs, m \in Messages :
        batch[s][m] # "none" => Normalize(box[s], m)' = Normalize(box[s], m)
  BY <1>1, <1>2, SameEvent
<1>4. QED
  BY <1>2, <1>3 DEF Checked

\* The verdict looks at the table and at the batch.
LEMMA ClassifyChecks ==
  ASSUME NEW p \in People, NEW S \in SUBSET Messages, NEW m \in Messages,
         ClassifyBatch(p, S)[m] \notin {"none", "keep"}
  PROVE  /\ \A k \in Key : rows[k].thread = Normalize(p, m).thread => ~rows[k].owner
         /\ \A n \in S : Normalize(p, n).thread = Normalize(p, m).thread => ~Normalize(p, n).owner
<1> DEFINE event == [n \in S |-> Normalize(p, n)]
           owned == OwnerThreads \cup {event[n].thread : n \in {l \in S : event[l].owner}}
<1>1. m \in S /\ Prefilter(p, event[m], event[m].thread \in owned) # "keep"
  BY DEF ClassifyBatch
<1>2. event[m].thread \notin owned
  BY <1>1 DEF Prefilter, Keeps
<1>3. \A k \in Key : rows[k].owner => k \in Stored
  BY DEF Stored, NoRow
<1>4. QED
  BY <1>1, <1>2, <1>3 DEF OwnerThreads

\* A new batch has checked the table and itself.
LEMMA CheckedClassify ==
  ASSUME IInv, Checked, NEW s \in Syncs, NEW p \in People, Classify(s, p)
  PROVE  Checked'
<1>1. PICK S \in SUBSET Inbox(p) : batch' = [batch EXCEPT ![s] = ClassifyBatch(p, S)]
  BY DEF Classify
<1>2. S \in SUBSET Messages
  BY DEF Inbox
<1>3. UNCHANGED <<provider, mail, rows, overtaken>>
  BY DEF Classify
<1>4. /\ batch'[s] = ClassifyBatch(p, S) /\ box'[s] = p
      /\ \A q \in Syncs \ {s} : batch'[q] = batch[q] /\ box'[q] = box[q]
  BY <1>1 DEF Classify, IInv, TypeOK
<1>5. \A m \in Messages : batch'[s][m] # "none" => m \in S
  BY <1>4, ClassifyTyped
<1>6. \A m : Normalize(box[s], m)' = Normalize(p, m)
  BY <1>3, <1>4 DEF Normalize, NormalizeGmail, NormalizeOutlook, NormalizeImap, Event
<1>7. \A q \in Syncs \ {s}, m \in Messages : Normalize(box[q], m)' = Normalize(box[q], m)
  BY <1>3, <1>4, SameEvent
<1> SUFFICES ASSUME NEW q \in Syncs \ overtaken, NEW m \in Messages,
                    batch'[q][m] \notin {"none", "keep"},
                    (Normalize(box[q], m)').thread[1] # "references"
             PROVE  /\ \A k \in Key :
                         rows[k].thread = (Normalize(box[q], m)').thread => ~rows[k].owner
                    /\ \A n \in Messages :
                         /\ batch'[q][n] # "none"
                         /\ (Normalize(box[q], n)').thread = (Normalize(box[q], m)').thread
                         => ~(Normalize(box[q], n)').owner
  BY <1>3 DEF Checked
<1>8. CASE q = s
  BY <1>2, <1>4, <1>5, <1>6, <1>8, ClassifyChecks
<1>9. CASE q # s
  BY <1>4, <1>7, <1>9 DEF Checked
<1>10. QED
  BY <1>8, <1>9

\* A batch that is given up has nothing left to check.
LEMMA CheckedAbandon ==
  ASSUME IInv, Checked, NEW s \in Syncs, Abandon(s)
  PROVE  Checked'
<1>1. /\ \A m \in Messages : batch'[s][m] = "none"
      /\ \A q \in Syncs \ {s} : batch'[q] = batch[q] /\ box'[q] = box[q]
      /\ \A q \in Syncs \ {s} : q \in overtaken => q \in overtaken'
      /\ UNCHANGED <<provider, mail, rows>>
  BY DEF Abandon, NoBatch, IInv, TypeOK
<1>2. \A q \in Syncs \ {s}, m \in Messages : Normalize(box[q], m)' = Normalize(box[q], m)
  BY <1>1, SameEvent
<1>3. QED
  BY <1>1, <1>2 DEF Checked

\* A chunk adds no mail of the owner to a conversation of what is left out, unless
\* it overtakes the sync that left it out.
LEMMA SaveKeepsClear ==
  ASSUME IInv, Checked, NEW s \in Syncs, Save(s),
         NEW q \in Syncs \ overtaken, q = s \/ box[q] # box[s],
         NEW m \in Messages, batch[q][m] \notin {"none", "keep"},
         Normalize(box[q], m).thread[1] # "references", NEW k \in Key,
         rows'[k].thread = Normalize(box[q], m).thread
  PROVE  ~rows'[k].owner
<1>1. PICK C \in SUBSET Unsaved(s) :
        rows' = [j \in Key |-> IF j[2] \in C /\ j = KeyOf(box[s], j[2])
                               THEN Upserted(s, j[2]) ELSE rows[j]]
  BY SaveParts
<1>2. CASE k[2] \in C /\ k = KeyOf(box[s], k[2])
  <2>1. /\ rows'[k].thread = Normalize(box[s], k[2]).thread
        /\ rows'[k].owner = Normalize(box[s], k[2]).owner
        /\ k[2] \in Messages /\ batch[s][k[2]] # "none"
    BY <1>1, <1>2, UpsertedEvent DEF Unsaved
  <2>2. Normalize(box[s], k[2]).thread[1] = Normalize(box[q], m).thread[1]
    BY <2>1
  <2>3. box[s] = box[q]
    BY <2>2, ThreadScope
  <2>4. q = s
    BY <2>3
  <2>5. QED
    BY <2>1, <2>4 DEF Checked
<1>3. CASE ~(k[2] \in C /\ k = KeyOf(box[s], k[2]))
  BY <1>1, <1>3 DEF Checked
<1>4. QED
  BY <1>2, <1>3

\* What a chunk leaves in its batch, or in the batches of others, stays checked.
LEMMA CheckedSave ==
  ASSUME IInv, Checked, NEW s \in Syncs, Save(s)
  PROVE  Checked'
<1>1. \A q \in Syncs, m \in Messages :
        batch'[q][m] # "none" => batch'[q][m] = batch[q][m] /\ box'[q] = box[q]
  BY SaveParts
<1>2. UNCHANGED <<provider, mail>>
  BY DEF Save
<1>3. \A q \in Syncs, m \in Messages :
        batch'[q][m] # "none" => Normalize(box[q], m)' = Normalize(box[q], m)
  BY <1>1, <1>2, SameEvent
<1>4. ASSUME NEW q \in Syncs, q \notin overtaken', NEW m \in Messages, batch'[q][m] # "none"
      PROVE  q \notin overtaken /\ (q = s \/ box[q] # box[s])
  <2>1. box'[q] = box[q] /\ box[q] # "none"
    <3>1. batch[q][m] # "none"
      BY <1>1, <1>4
    <3>2. box[q] \in People
      BY <3>1 DEF IInv, Queued
    <3>3. QED
      BY <1>1, <1>4, <3>2, InboxAssumption DEF InboxAssumption
  <2>2. QED
    BY <1>4, <2>1, SaveParts
<1>5. QED
  BY <1>1, <1>3, <1>4, SaveKeepsClear DEF Checked

\* An extraction puts no mail of the owner in a conversation.
LEMMA CheckedExtract ==
  ASSUME IInv, Checked, NEW k \in Key, Extract(k)
  PROVE  Checked'
<1>1. UNCHANGED <<provider, mail, box, batch, overtaken>>
  BY DEF Extract, sync
<1>2. \A q \in Syncs, m \in Messages : Normalize(box[q], m)' = Normalize(box[q], m)
  BY <1>1, SameEvent
<1>3. \A j \in Key : rows'[j].thread = rows[j].thread /\ rows'[j].owner = rows[j].owner
  BY ExtractSame
<1>4. QED
  BY <1>1, <1>2, <1>3 DEF Checked

\* Every step keeps what has been checked.
LEMMA CheckedNext == IInv /\ Checked /\ [Next]_vars => Checked'
<1> SUFFICES ASSUME IInv, Checked, [Next]_vars PROVE Checked'
  OBVIOUS
<1>1. CASE Next
  BY <1>1, CheckedArrive, CheckedClassify, CheckedAbandon, CheckedSave, CheckedExtract DEF Next
<1>2. CASE UNCHANGED vars
  BY <1>2 DEF vars, sync, Checked, Normalize, NormalizeGmail, NormalizeOutlook, NormalizeImap, Event
<1>3. QED
  BY <1>1, <1>2

\* The predicate of OwnerThreadsKept, on one step.
KeptStep ==
  \A k \in Key :
    rows[k] = NoRow /\ rows'[k] # NoRow /\ rows'[k].verdict # "keep"
        /\ rows'[k].thread[1] \notin {"references"} \cup {box[s] : s \in overtaken}
      => \A j \in Key : rows'[j].thread = rows'[k].thread => ~rows'[j].owner

\* Only a sync inserts rows, and it has checked those it does not keep.
LEMMA KeptSave ==
  ASSUME IInv, Checked, NEW s \in Syncs, Save(s)
  PROVE  KeptStep
<1> SUFFICES ASSUME NEW k \in Key, rows[k] = NoRow, rows'[k] # NoRow,
                    rows'[k].verdict # "keep", rows'[k].thread[1] # "references",
                    \A q \in overtaken : rows'[k].thread[1] # box[q],
                    NEW j \in Key, rows'[j].thread = rows'[k].thread
             PROVE  ~rows'[j].owner
  BY DEF KeptStep
<1>1. PICK C \in SUBSET Unsaved(s) :
        rows' = [i \in Key |-> IF i[2] \in C /\ i = KeyOf(box[s], i[2])
                               THEN Upserted(s, i[2]) ELSE rows[i]]
  BY SaveParts
<1>2. k[2] \in C /\ k = KeyOf(box[s], k[2]) /\ rows'[k] = Upserted(s, k[2])
  BY <1>1
<1>3. /\ rows'[k].thread = Normalize(box[s], k[2]).thread
      /\ rows'[k].verdict = batch[s][k[2]]
  BY <1>2, UpsertedEvent
<1>4. k[2] \in Messages /\ batch[s][k[2]] \notin {"none", "keep"}
  BY <1>2, <1>3 DEF Unsaved
<1>5. s \notin overtaken
  <2>1. rows'[k].thread[1] = box[s]
    BY <1>3, ThreadScope
  <2>2. QED
    BY <2>1
<1>6. QED
  BY <1>3, <1>4, <1>5, SaveKeepsClear

\* Every step keeps answered conversations, not only that of a sync.
LEMMA KeptNext == IInv /\ Checked /\ [Next]_vars => [KeptStep]_vars
<1> SUFFICES ASSUME IInv, Checked, Next PROVE KeptStep
  OBVIOUS
<1>1. ASSUME NEW m \in Messages, Arrive(m) PROVE KeptStep
  BY <1>1 DEF Arrive, KeptStep
<1>2. ASSUME NEW s \in Syncs, NEW p \in People, Classify(s, p) PROVE KeptStep
  BY <1>2 DEF Classify, KeptStep
<1>3. ASSUME NEW s \in Syncs, Abandon(s) PROVE KeptStep
  BY <1>3 DEF Abandon, KeptStep
<1>4. ASSUME NEW k \in Key, Extract(k) PROVE KeptStep
  BY <1>4, ExtractSame DEF KeptStep
<1>5. QED
  BY <1>1, <1>2, <1>3, <1>4, KeptSave DEF Next

\* No message of a conversation with mail that the normalizers take for the owner's is
\* filtered out when it is first stored, for any mailboxes with conversations of their
\* own, any batches and any interleaving of syncs, those of one mailbox included, as
\* long as none of them saves between another's look and its verdicts (classifyBatch).
THEOREM AnsweredKept == Spec => OwnerThreadsKept
<1>1. Spec => []Checked
  BY Invariant, CheckedInit, CheckedNext, PTL DEF Spec
<1>2. Spec => [][KeptStep]_vars
  BY <1>1, Invariant, KeptNext, PTL DEF Spec
<1>3. QED
  BY <1>2 DEF OwnerThreadsKept, KeptStep

-----------------------------------------------------------------------------
(* Waits.                                                                  *)

\* A set of numbers that is not empty has a least one, which is what Min chooses.
LEMMA Minimum ==
  ASSUME NEW S \in SUBSET Nat, S # {}
  PROVE  Min(S) \in S /\ \A y \in S : Min(S) <= y
<1> DEFINE R == {ss \in Nat \X Nat : ss[1] < ss[2]}
<1>1. IsWellFoundedOn(R, Nat)
  BY NatLessThanWellFounded DEF OpToRel
<1>2. PICK x \in S : \A y \in S : <<y, x>> \notin R
  BY <1>1, WFMin
<1>3. ASSUME NEW y \in S PROVE x <= y
  <2>1. x \in Nat /\ y \in Nat
    OBVIOUS
  <2>2. <<y, x>> \in Nat \X Nat /\ <<y, x>>[1] = y /\ <<y, x>>[2] = x
    BY <2>1
  <2>3. ~(y < x)
    BY <1>2, <2>2, Zenon
  <2>4. QED
    BY <2>1, <2>3
<1>4. QED
  BY <1>3 DEF Min

\* A set of dates has a last one, which is what Max chooses.
LEMMA Maximum ==
  ASSUME NEW S \in SUBSET (0 .. MaxTime), S # {}
  PROVE  Max(S) \in S /\ \A y \in S : y <= Max(S)
<1> DEFINE T == {MaxTime - y : y \in S}
<1>1. MaxTime \in Nat
  BY InboxAssumption DEF InboxAssumption
<1>2. T \in SUBSET Nat /\ T # {}
  <2>1. \A y \in S : MaxTime - y \in Nat
    BY <1>1
  <2>2. QED
    BY <2>1
<1>3. Min(T) \in T /\ \A z \in T : Min(T) <= z
  BY <1>2, Minimum
<1>4. PICK x \in S : Min(T) = MaxTime - x
  BY <1>3
<1>5. \A y \in S : x >= y
  <2> TAKE y \in S
  <2>1. MaxTime - x <= MaxTime - y
    BY <1>3, <1>4
  <2>2. x \in Int /\ y \in Int
    OBVIOUS
  <2>3. QED
    BY <1>1, <2>1, <2>2
<1>6. Max(S) \in S /\ \A y \in S : Max(S) >= y
  BY <1>5 DEF Max
<1>7. QED
  BY <1>6, <1>1

\* The inbound rows that no row of the owner's comes after or with.
Open(R) == {k \in Inbound(R) : \A j \in R \ Inbound(R) : rows[j].at < rows[k].at}

\* What is stored has a date, and the owner has written it or not.
LEMMA StoredTyped ==
  ASSUME TypeOK, NEW k \in Stored
  PROVE  /\ rows[k].at \in 1 .. MaxTime
         /\ rows[k].owner \in BOOLEAN
         /\ rows[k] \in Row
<1>1. rows[k] \in Row
  BY DEF TypeOK, Stored
<1>2. QED
  BY <1>1 DEF Row

\* The owner's last date is that of a row, or 0, and none of theirs is later.
LEMMA LastOwner ==
  ASSUME TypeOK, NEW R \in SUBSET Stored
  PROVE  /\ LastOwnerAt(R) \in 0 .. MaxTime
         /\ \/ LastOwnerAt(R) = 0
            \/ \E j \in R \ Inbound(R) : LastOwnerAt(R) = rows[j].at
         /\ \A j \in R \ Inbound(R) : rows[j].at <= LastOwnerAt(R)
<1> DEFINE S == {0} \cup {rows[k].at : k \in R \ Inbound(R)}
<1>1. MaxTime \in Nat
  BY InboxAssumption DEF InboxAssumption
<1>2. S \in SUBSET (0 .. MaxTime) /\ S # {}
  <2>1. \A k \in R : rows[k].at \in 0 .. MaxTime
    BY <1>1, StoredTyped
  <2>2. QED
    BY <1>1, <2>1
<1>3. Max(S) \in S /\ \A y \in S : y <= Max(S)
  BY <1>2, Maximum
<1>4. LastOwnerAt(R) = Max(S)
  BY DEF LastOwnerAt
<1>5. QED
  BY <1>2, <1>3, <1>4

\* After the owner's last date is after all that the owner wrote.
LEMMA OpenRows ==
  ASSUME TypeOK, NEW R \in SUBSET Stored
  PROVE  /\ Unanswered(R) = {rows[k].at : k \in Open(R)}
         /\ Unanswered(R) \subseteq Nat
<1>1. MaxTime \in Nat
  BY InboxAssumption DEF InboxAssumption
<1>2. ASSUME NEW k \in Inbound(R)
      PROVE  rows[k].at > LastOwnerAt(R) <=> k \in Open(R)
  <2>1. k \in R /\ rows[k].at \in 1 .. MaxTime
    BY StoredTyped DEF Inbound
  <2>2. \A j \in R \ Inbound(R) : rows[j].at \in 1 .. MaxTime
    BY StoredTyped
  <2>3. ASSUME rows[k].at > LastOwnerAt(R), NEW j \in R \ Inbound(R)
        PROVE  rows[j].at < rows[k].at
    BY <1>1, <2>1, <2>2, <2>3, LastOwner
  <2>4. ASSUME \A j \in R \ Inbound(R) : rows[j].at < rows[k].at
        PROVE  rows[k].at > LastOwnerAt(R)
    <3>1. CASE LastOwnerAt(R) = 0
      BY <1>1, <2>1, <3>1
    <3>2. CASE \E j \in R \ Inbound(R) : LastOwnerAt(R) = rows[j].at
      BY <1>1, <2>1, <2>2, <2>4, <3>2
    <3>3. QED
      BY <3>1, <3>2, LastOwner
  <2>5. QED
    BY <2>3, <2>4 DEF Open
<1>3. Open(R) = {j \in Inbound(R) : rows[j].at > LastOwnerAt(R)}
  BY <1>2 DEF Open
<1>4. \A k \in Open(R) : rows[k].at \in Nat
  BY <1>1, StoredTyped DEF Open, Inbound
<1>5. QED
  BY <1>3, <1>4 DEF Unanswered

\* Among rows there is one with the last date.
LEMMA NewestThere ==
  ASSUME TypeOK, NEW R \in SUBSET Stored, R # {}
  PROVE  Newest(R) # {}
<1> DEFINE S == {rows[k].at : k \in R}
<1>1. MaxTime \in Nat
  BY InboxAssumption DEF InboxAssumption
<1>2. S \in SUBSET (0 .. MaxTime) /\ S # {}
  <2>1. \A k \in R : rows[k].at \in 0 .. MaxTime
    BY <1>1, StoredTyped
  <2>2. QED
    BY <2>1
<1>3. Max(S) \in S /\ \A y \in S : y <= Max(S)
  BY <1>2, Maximum
<1>4. PICK k \in R : Max(S) = rows[k].at
  BY <1>3
<1>5. \A j \in R : rows[j].at <= rows[k].at
  BY <1>3, <1>4
<1>6. QED
  BY <1>5 DEF Newest

\* The owner has written none of the newest rows of a thread with an open one.
LEMMA NewestOpen ==
  ASSUME TypeOK, NEW R \in SUBSET Stored, Open(R) # {}, NEW n \in Newest(R)
  PROVE  ~rows[n].owner
<1>1. PICK k \in Open(R) : TRUE
  OBVIOUS
<1>2. MaxTime \in Nat
  BY InboxAssumption DEF InboxAssumption
<1>3. n \in R /\ k \in R /\ rows[k].at <= rows[n].at
  BY <1>1 DEF Newest, Open, Inbound
<1>4. rows[k].at \in 1 .. MaxTime /\ rows[n].at \in 1 .. MaxTime
  BY <1>3, StoredTyped
<1>5. ~(rows[n].at < rows[k].at)
  BY <1>2, <1>3, <1>4
<1>6. QED
  BY <1>1, <1>3, <1>5 DEF Open, Inbound

\* The wait counts from the first of the open rows.
LEMMA WaitsFrom ==
  ASSUME TypeOK, NEW R \in SUBSET Stored, Open(R) # {}
  PROVE  /\ \A k \in Open(R) : WaitingSince(R) <= rows[k].at
         /\ \E k \in Open(R) : WaitingSince(R) = rows[k].at
<1>1. Unanswered(R) \in SUBSET Nat /\ Unanswered(R) # {}
  BY OpenRows
<1>2. Min(Unanswered(R)) \in Unanswered(R) /\ \A y \in Unanswered(R) : Min(Unanswered(R)) <= y
  BY <1>1, Minimum
<1>3. QED
  BY <1>2, OpenRows DEF WaitingSince

\* The types of the rows are all that the agreement needs.
LEMMA Agree == TypeOK => WaitsAgree
<1> SUFFICES ASSUME TypeOK, NEW t \in Threads
             PROVE  LET R    == RowsOf(t)
                        open == {k \in Inbound(R) :
                                   \A j \in R \ Inbound(R) : rows[j].at < rows[k].at} IN
                    /\ MayWait(R) <=> open # {}
                    /\ MustWait(R) <=> open # {}
                    /\ open # {} => /\ \A k \in open : WaitingSince(R) <= rows[k].at
                                    /\ \E k \in open : WaitingSince(R) = rows[k].at
  BY DEF WaitsAgree
<1> DEFINE R == RowsOf(t)
<1>1. R \in SUBSET Stored
  BY DEF RowsOf
<1>2. Unanswered(R) # {} <=> Open(R) # {}
  BY <1>1, OpenRows
<1>3. ASSUME Open(R) # {}
      PROVE  (\E n \in Newest(R) : ~rows[n].owner) /\ (\A n \in Newest(R) : ~rows[n].owner)
  <2>1. R # {}
    BY <1>3 DEF Open, Inbound
  <2>2. QED
    BY <1>1, <1>3, <2>1, NewestThere, NewestOpen
<1>4. (MayWait(R) <=> Open(R) # {}) /\ (MustWait(R) <=> Open(R) # {})
  BY <1>2, <1>3 DEF MayWait, MustWait
<1>5. Open(R) # {} => /\ \A k \in Open(R) : WaitingSince(R) <= rows[k].at
                      /\ \E k \in Open(R) : WaitingSince(R) = rows[k].at
  BY <1>1, WaitsFrom
<1>6. QED
  BY <1>4, <1>5 DEF Open

\* A thread waits exactly if there is mail after all of the owner's, from the first
\* such mail on and whatever row is taken for the newest, for any rows (days-open.ts).
THEOREM WaitsSound == Spec => []WaitsAgree
  BY Agree, TypeCorrect, PTL

-----------------------------------------------------------------------------
(* Waits that go on.                                                       *)

\* A row has the date of its mail.
Stamped == \A k \in Stored : rows[k].at = mail[k[2]].at

\* Nothing is stored to start with.
LEMMA StampedInit == Init => Stamped
  BY DEF Init, Stamped, Stored

\* A mail that comes in is in no row yet.
LEMMA StampedArrive ==
  ASSUME IInv, Stamped, NEW m \in Messages, Arrive(m)
  PROVE  Stamped'
<1>1. \A k \in Stored : k[2] \in Messages /\ mail[k[2]].at > 0
  BY DEF IInv, Delivered, Inbox
<1>2. \A k \in Stored : mail'[k[2]] = mail[k[2]]
  BY <1>1 DEF Arrive, IInv, TypeOK
<1>3. QED
  BY <1>2 DEF Arrive, Stamped, Stored

\* Whatever the connector, the date is that of the mail.
LEMMA UpsertedAt ==
  ASSUME NEW s, NEW m
  PROVE  Upserted(s, m).at = mail[m].at
  BY DEF Upserted, ToRow, Normalize, NormalizeGmail, NormalizeOutlook, NormalizeImap, Event

\* A sync dates the rows it writes by their mails.
LEMMA StampedSave ==
  ASSUME IInv, Stamped, NEW s \in Syncs, Save(s)
  PROVE  Stamped'
<1>1. PICK C \in SUBSET Unsaved(s) :
        rows' = [i \in Key |-> IF i[2] \in C /\ i = KeyOf(box[s], i[2])
                               THEN Upserted(s, i[2]) ELSE rows[i]]
  BY SaveParts
<1>2. ASSUME NEW k \in Key, rows'[k] # NoRow
      PROVE  rows'[k].at = mail[k[2]].at
  <2>1. CASE k[2] \in C /\ k = KeyOf(box[s], k[2])
    BY <1>1, <2>1, UpsertedAt
  <2>2. CASE ~(k[2] \in C /\ k = KeyOf(box[s], k[2]))
    BY <1>1, <1>2, <2>2 DEF Stamped, Stored
  <2>3. QED
    BY <2>1, <2>2
<1>3. QED
  BY <1>2 DEF Save, Stamped, Stored

\* An extraction leaves the date alone.
LEMMA StampedExtract ==
  ASSUME IInv, Stamped, NEW k \in Key, Extract(k)
  PROVE  Stamped'
  BY ExtractSame DEF Extract, Stamped, Stored

\* Every step keeps the dates.
LEMMA StampedNext == IInv /\ Stamped /\ [Next]_vars => Stamped'
<1> SUFFICES ASSUME IInv, Stamped, [Next]_vars PROVE Stamped'
  OBVIOUS
<1>1. ASSUME NEW s \in Syncs, (\E p \in People : Classify(s, p)) \/ Abandon(s) PROVE Stamped'
  BY <1>1 DEF Classify, Abandon, Stamped, Stored
<1>2. CASE Next
  BY <1>1, <1>2, StampedArrive, StampedSave, StampedExtract DEF Next
<1>3. CASE UNCHANGED vars
  BY <1>3 DEF vars, Stamped, Stored
<1>4. QED
  BY <1>2, <1>3

\* The predicate of WaitNotReset, on one step.
ResetStep ==
  rows' # rows => \A t \in Threads :
    LET R == RowsOf(t) IN
    /\ R \subseteq RowsOf(t)'
    /\ {k \in RowsOf(t)' : rows'[k].owner} = R \ Inbound(R)
    /\ MayWait(R)
    /\ MayWait(RowsOf(t))'
    => WaitingSince(RowsOf(t))' <= WaitingSince(R)

\* A row that stays keeps its date, for no mail changes its own.
LEMMA SameDates ==
  ASSUME IInv, Stamped, Stamped', Next, rows' # rows, NEW k \in Stored, k \in Stored'
  PROVE  rows'[k].at = rows[k].at
<1>1. mail' = mail
  BY DEF Next, Arrive, Classify, Save, Abandon, Extract
<1>2. QED
  BY <1>1 DEF Stamped

\* More mails to choose from have no later first one.
LEMMA MinMono ==
  ASSUME NEW T \in SUBSET Nat, NEW S \in SUBSET T, S # {}
  PROVE  Min(T) <= Min(S)
  BY Minimum

\* What is unanswered after a step, as far as the rows of before go.
LEMMA StillUnanswered ==
  ASSUME TypeOK, NEW t \in Threads,
         RowsOf(t) \subseteq RowsOf(t)',
         \A k \in RowsOf(t) : rows'[k].at = rows[k].at,
         {k \in RowsOf(t)' : rows'[k].owner} = RowsOf(t) \ Inbound(RowsOf(t))
  PROVE  Unanswered(RowsOf(t)) \subseteq Unanswered(RowsOf(t))'
<1> DEFINE R == RowsOf(t)
<1>1. \A k \in R : k \in Inbound(R) => k \in Inbound(RowsOf(t))'
  BY DEF Inbound
<1>2. RowsOf(t)' \ Inbound(RowsOf(t))' = R \ Inbound(R)
  BY DEF Inbound
<1>3. LastOwnerAt(RowsOf(t))' = LastOwnerAt(R)
  <2>1. {rows'[k].at : k \in R \ Inbound(R)} = {rows[k].at : k \in R \ Inbound(R)}
    OBVIOUS
  <2>2. QED
    BY <1>2, <2>1 DEF LastOwnerAt
<1>4. Inbound(R) \subseteq R
  BY DEF Inbound
<1>5. ASSUME NEW k \in Inbound(R), rows[k].at > LastOwnerAt(R)
      PROVE  rows[k].at \in Unanswered(RowsOf(t))'
  <2>1. k \in Inbound(RowsOf(t))' /\ rows'[k].at = rows[k].at
    BY <1>1, <1>4, <1>5
  <2>2. QED
    BY <1>3, <1>5, <2>1 DEF Unanswered
<1>6. QED
  BY <1>5 DEF Unanswered

\* The dates a wait is taken from are numbers, before a step and after it.
Dated == \A t \in Threads : Unanswered(RowsOf(t)) \in SUBSET Nat

\* Rows are typed, hence their dates.
LEMMA RowsDated == IInv => Dated
  BY OpenRows DEF IInv, Dated, RowsOf

\* A step with mail of the others only moves no wait forward.
LEMMA ResetNext == IInv /\ Stamped /\ Stamped' /\ Dated' /\ [Next]_vars => [ResetStep]_vars
<1> SUFFICES ASSUME IInv, Stamped, Stamped', Dated', Next, rows' # rows, NEW t \in Threads,
                    MayWait(RowsOf(t)), MayWait(RowsOf(t))',
                    RowsOf(t) \subseteq RowsOf(t)',
                    {k \in RowsOf(t)' : rows'[k].owner} = RowsOf(t) \ Inbound(RowsOf(t))
             PROVE  WaitingSince(RowsOf(t))' <= WaitingSince(RowsOf(t))
  BY DEF ResetStep
<1>1. \A k \in RowsOf(t) : rows'[k].at = rows[k].at
  BY SameDates DEF RowsOf
<1>2. Unanswered(RowsOf(t)) \subseteq Unanswered(RowsOf(t))'
  BY <1>1, StillUnanswered DEF IInv
<1>3. Unanswered(RowsOf(t))' \in SUBSET Nat
  BY DEF Dated
<1>4. Unanswered(RowsOf(t)) # {}
  BY DEF MayWait
<1>5. Min(Unanswered(RowsOf(t))') <= Min(Unanswered(RowsOf(t)))
  BY <1>2, <1>3, <1>4, MinMono
<1>6. QED
  BY <1>5 DEF WaitingSince

\* No mail of the others makes a wait start later, for any rows and mailboxes, whoever
\* takes rows over and however often mails are saved again (days-open.ts).
THEOREM WaitsGoOn == Spec => WaitNotReset
<1>1. Spec => []Stamped
  BY Invariant, StampedInit, StampedNext, PTL DEF Spec
<1>2. Spec => []Dated
  BY RowsDated, Invariant, PTL
<1>3. Spec => [][ResetStep]_vars
  BY <1>1, <1>2, Invariant, ResetNext, PTL DEF Spec
<1>4. QED
  BY <1>3 DEF WaitNotReset, ResetStep

-----------------------------------------------------------------------------
(* Questions that stay open.                                               *)

\* A thread with unanswered mail is in the list of waits.
Meant == \A t \in Threads : Unanswered(RowsOf(t)) # {} => MayWait(RowsOf(t))

\* The newest row of such a thread is not the owner's.
LEMMA WaitsMeant == IInv => Meant
<1> SUFFICES ASSUME IInv, NEW t \in Threads, Unanswered(RowsOf(t)) # {}
             PROVE  MayWait(RowsOf(t))
  BY DEF Meant
<1>1. TypeOK /\ RowsOf(t) \in SUBSET Stored
  BY DEF IInv, RowsOf
<1>2. Open(RowsOf(t)) # {}
  BY <1>1, OpenRows
<1>3. QED
  BY <1>1, <1>2, Agree DEF WaitsAgree, Open

\* What is extracted from a row stays in it, as does its verdict.
LEMMA FindingStays ==
  ASSUME IInv, Next, NEW k \in Stored, rows[k].extraction # "none"
  PROVE  rows'[k].verdict = rows[k].verdict /\ rows'[k].extraction = rows[k].extraction
<1>1. ASSUME NEW s \in Syncs, Save(s)
      PROVE  rows'[k].verdict = rows[k].verdict /\ rows'[k].extraction = rows[k].extraction
  <2>1. PICK C \in SUBSET Unsaved(s) :
          rows' = [i \in Key |-> IF i[2] \in C /\ i = KeyOf(box[s], i[2])
                                 THEN Upserted(s, i[2]) ELSE rows[i]]
    BY <1>1, SaveParts
  <2>2. k \in Key /\ rows[k] # NoRow
    BY DEF Stored
  <2>3. CASE k[2] \in C /\ k = KeyOf(box[s], k[2])
    <3>1. rows'[k] = Upserted(s, k[2]) /\ rows[KeyOf(box[s], k[2])] = rows[k]
      BY <2>1, <2>2, <2>3
    <3>2. QED
      BY <2>2, <3>1 DEF Upserted, ToRow
  <2>4. CASE ~(k[2] \in C /\ k = KeyOf(box[s], k[2]))
    BY <2>1, <2>2, <2>4
  <2>5. QED
    BY <2>3, <2>4
<1>2. ASSUME NEW j \in Key, Extract(j)
      PROVE  rows'[k].verdict = rows[k].verdict /\ rows'[k].extraction = rows[k].extraction
  BY <1>2, ExtractSame DEF Stored
<1>3. QED
  BY <1>1, <1>2 DEF Next, Arrive, Classify, Abandon

\* The predicate of QuestionsStay, on one step.
QuestionStep ==
  rows' # rows => \A t \in Threads :
    LET R == RowsOf(t) IN
    /\ R \subseteq RowsOf(t)'
    /\ {k \in RowsOf(t)' : rows'[k].owner} = R \ Inbound(R)
    => \A p \in People : \A k \in R \cap WaitingOn(p) : k \in WaitingOn(rows[k].account)'

\* A step after which the thread still has unanswered mail keeps its questions.
LEMMA QuestionNext == IInv /\ Stamped /\ Stamped' /\ Meant' /\ [Next]_vars => [QuestionStep]_vars
<1> SUFFICES ASSUME IInv, Stamped, Stamped', Meant', Next, rows' # rows, NEW t \in Threads,
                    RowsOf(t) \subseteq RowsOf(t)',
                    {k \in RowsOf(t)' : rows'[k].owner} = RowsOf(t) \ Inbound(RowsOf(t)),
                    NEW p \in People, NEW k \in RowsOf(t), k \in WaitingOn(p)
             PROVE  k \in WaitingOn(rows[k].account)'
  BY DEF QuestionStep
<1>1. /\ k \in Stored /\ rows[k].verdict = "keep" /\ rows[k].extraction = "question"
      /\ rows[k].thread = t /\ MayWait(RowsOf(t))
  BY DEF WaitingOn, Items, RowsOf
<1>2. k \in Stored' /\ rows'[k].thread = t
  <2>1. k \in RowsOf(t)'
    OBVIOUS
  <2>2. QED
    BY <2>1 DEF RowsOf
<1>3. rows'[k].verdict = "keep" /\ rows'[k].extraction = "question"
  BY <1>1, FindingStays
<1>4. \A j \in RowsOf(t) : rows'[j].at = rows[j].at
  BY SameDates DEF RowsOf
<1>5. Unanswered(RowsOf(t)) \subseteq Unanswered(RowsOf(t))'
  BY <1>4, StillUnanswered DEF IInv
<1>6. MayWait(RowsOf(t))'
  BY <1>1, <1>5 DEF Meant, MayWait
<1>7. MayWait(RowsOf(rows[k].thread))'
  BY <1>2, <1>6
<1>8. QED
  BY <1>2, <1>3, <1>7 DEF WaitingOn, Items

\* An open question stays in the brief of whoever has the row until the owner writes
\* in its thread or a mail leaves the thread, for any mailboxes, saves and extractions.
THEOREM QuestionsGoOn == Spec => QuestionsStay
<1>1. Spec => []Stamped
  BY Invariant, StampedInit, StampedNext, PTL DEF Spec
<1>2. Spec => []Meant
  BY WaitsMeant, Invariant, PTL
<1>3. Spec => [][QuestionStep]_vars
  BY <1>1, <1>2, Invariant, QuestionNext, PTL DEF Spec
<1>4. QED
  BY <1>3 DEF QuestionsStay, QuestionStep
=============================================================================
