------------------------------- MODULE Attempts -------------------------------
(***************************************************************************)
(* What extraction promises of each message, without jobs, handlers,       *)
(* batches or a language model: its row is pending until it is settled, by *)
(* an extraction or by a failure, and is settled once.  Only when some     *)
(* handler has outlived its job may the row be settled again, and even     *)
(* then it does not go back among the pending.                             *)
(* Module Extraction implements it.                                        *)
(***************************************************************************)
CONSTANT Messages

VARIABLES
  row,   \* a message's row in events: none yet, or what extracted holds
  loose  \* a handler has outlived its job

vars == <<row, loose>>

Absent(m)  == row[m] = "absent"
Pending(m) == row[m] = "pending"

\* Rows that may be settled now.
Open(m) == Pending(m) \/ (loose /\ ~Absent(m))

Init ==
  /\ row = [m \in Messages |-> "absent"]
  /\ loose = FALSE

Insert(m) ==
  /\ Absent(m)
  /\ row' = [row EXCEPT ![m] = "pending"]
  /\ UNCHANGED loose

\* Extractions are saved one by one ...
Extract(m) ==
  /\ Open(m)
  /\ row' = [row EXCEPT ![m] = "value"]
  /\ UNCHANGED loose

\* ... and the failures of a batch together.
GiveUp(S) ==
  /\ \A m \in S : Open(m)
  /\ row' = [m \in Messages |-> IF m \in S THEN "error" ELSE row[m]]
  /\ UNCHANGED loose

Loosen ==
  /\ loose' = TRUE
  /\ UNCHANGED row

Next ==
  \/ \E m \in Messages : Insert(m) \/ Extract(m)
  \/ \E S \in SUBSET Messages : GiveUp(S)
  \/ Loosen

Spec == Init /\ [][Next]_vars

\* What the steps add up to: while no handler has outlived its job, a settled row
\* stays as it is, and never is one pending again.
SettledOnce ==
  [][\A m \in Messages : row[m] \in {"value", "error"} =>
       /\ row'[m] # "pending" /\ row'[m] # "absent"
       /\ ~loose' => row'[m] = row[m]]_vars
=============================================================================
