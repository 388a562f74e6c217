----------------------------- MODULE Credentials -----------------------------
(***************************************************************************)
(* What the store of credentials promises its readers, without keys,       *)
(* services, a script or a procedure: each mailbox holds the grant its     *)
(* user gave last, and is flagged only if it could not be read.  An older  *)
(* grant comes back only where the mailbox was connected while somebody    *)
(* was about to write its row; a flag is only set where it was connected   *)
(* by a service that was ahead of the other.                               *)
(* Module KeyRotation implements it: a rotation is no step of it.          *)
(***************************************************************************)
EXTENDS Integers

CONSTANTS Accounts, MaxGrants

VARIABLES
  stored,   \* the grant in the row for who has the keys deployed or about to be,
            \* None if they do not open it
  given,    \* grants the user has given so far
  flagged,  \* mailboxes whose user is asked to authorize them again
  raced,    \* mailboxes connected while somebody was about to write the row
  ahead     \* mailboxes connected by a service that was ahead of the other

vars == <<stored, given, flagged, raced, ahead>>

None == 0

Init ==
  /\ stored = [a \in Accounts |-> 1]
  /\ given = [a \in Accounts |-> 1]
  /\ flagged = {}
  /\ raced = {}
  /\ ahead = {}

Connect(a) ==
  /\ given[a] < MaxGrants
  /\ given' = [given EXCEPT ![a] = @ + 1]
  /\ stored' = [stored EXCEPT ![a] = given[a] + 1]
  /\ flagged' = flagged \ {a}
  /\ raced' \in {raced, raced \cup {a}}
  /\ ahead' \in {ahead, ahead \cup {a}}

\* Somebody writes back what was stored before the user connected again.
Relapse(a) ==
  /\ a \in raced
  /\ \E g \in 1 .. given[a] : stored' = [stored EXCEPT ![a] = g]
  /\ UNCHANGED <<given, flagged, raced, ahead>>

Flag(a) ==
  /\ a \in ahead
  /\ flagged' = flagged \cup {a}
  /\ UNCHANGED <<stored, given, raced, ahead>>

Next == \E a \in Accounts : Connect(a) \/ Relapse(a) \/ Flag(a)

Spec == Init /\ [][Next]_vars
=============================================================================
