---------------------------- MODULE MCSubscription ----------------------------
(* Model values for checking Subscription with TLC. *)
EXTENDS Subscription, TLC

\* Renewals overlap while the accounts give no trouble, and one kind of trouble is
\* enough at a time.  A constraint: those who cause trouble are under no fairness,
\* and a renewal it puts off begins once the other is over or the trouble is.
OneThing ==
  LET overlap == \E r, q \in Renewers :
                   r # q /\ renewal[r].at # "idle" /\ renewal[q].at # "idle"
  IN  /\ overlap => blocks = 0 /\ tokens = "good" /\ status = "active"
      /\ blocked => tokens = "good" /\ status = "active"
=============================================================================
