------------------------------- MODULE Catchup -------------------------------
(***************************************************************************)
(* What syncing one mailbox promises, without handlers, queue, pages or    *)
(* providers: the rows of messages are committed, then, as a step of its   *)
(* own, the cursor moves, and it never moves past a message that is        *)
(* neither in the table, nor gone from the mailbox, nor let go knowingly.  *)
(* Modules SyncAccount and MailboxSync implement it.                       *)
(***************************************************************************)
EXTENDS Integers

CONSTANT MaxMail  \* bound: messages that ever arrive

VARIABLES
  arrived,  \* messages 1 .. arrived have come in
  gone,     \* those of them that have left the mailbox again
  rows,     \* those with a row in events
  cursor,   \* sync_state.cursor, as a position in the mailbox
  lost      \* those that a sync has let go and that no delta will bring

vars == <<arrived, gone, rows, cursor, lost>>

NoCursor   == -1
Settled(m) == m \in rows \cup gone \cup lost

Init ==
  /\ arrived \in 0 .. MaxMail
  /\ gone \in SUBSET (1 .. arrived)
  /\ rows = {}
  /\ cursor = NoCursor
  /\ lost = {}

Arrive ==
  /\ arrived < MaxMail
  /\ arrived' = arrived + 1
  /\ UNCHANGED <<gone, rows, cursor, lost>>

LetGo == \E S \in SUBSET (1 .. arrived) : lost' = lost \cup S

\* A message that leaves may take others out of sight of a sync under way.
Vanish ==
  /\ \E m \in 1 .. arrived : gone' = gone \cup {m}
  /\ LetGo
  /\ UNCHANGED <<arrived, rows, cursor>>

GiveUp ==
  /\ LetGo
  /\ UNCHANGED <<arrived, gone, rows, cursor>>

Ingest ==
  /\ \E S \in SUBSET (1 .. arrived) : rows' = rows \cup S
  /\ UNCHANGED <<arrived, gone, cursor, lost>>

Move ==
  /\ cursor' \in NoCursor .. arrived
  /\ \A m \in 1 .. cursor' : Settled(m)
  /\ UNCHANGED <<arrived, gone, rows, lost>>

Next == Arrive \/ Vanish \/ GiveUp \/ Ingest \/ Move

Spec == Init /\ [][Next]_vars

\* What the steps add up to: everything up to the cursor is settled.
CaughtUp == \A m \in 1 .. cursor : Settled(m)
=============================================================================
