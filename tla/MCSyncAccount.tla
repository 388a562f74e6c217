---------------------------- MODULE MCSyncAccount ----------------------------
(* Model values for checking SyncAccount with TLC. *)
EXTENDS SyncAccount, TLC

\* Handlers are alike; sound where no liveness is checked.
HandlersAlike == Permutations(Runs)

\* A mailbox whose user connects a second time has received no mail.  A constraint:
\* the mailbox and its user, whose steps it cuts off, are under no fairness.
OneThing == grants = 1 \/ arrived = 0
=============================================================================
