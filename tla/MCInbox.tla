------------------------------- MODULE MCInbox -------------------------------
(* The mails for checking Inbox with TLC. *)
EXTENDS Inbox, TLC

\* An inquiry (and its chaser), the answer of a person of the global list, and mail of
\* one who is not on it, which is filtered out wherever a mailbox gets it.
Mail(author, inboxes, to, signs) ==
  [author |-> author, inboxes |-> inboxes, thread |-> "t", to |-> to, signs |-> signs]
MCKinds ==
  {Mail("supplier", {"jason", "moet"}, {"jason", "moet"}, {}),
   Mail("jason", {"jason", "moet"}, {"moet"}, {}),
   Mail("moet", {"jason"}, {"jason"}, {"category", "auto"})}

MCSymmetry == Permutations(Messages) \cup Permutations(Syncs)
=============================================================================
