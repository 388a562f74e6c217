----------------------------- MODULE Subscription -----------------------------
(***************************************************************************)
(* The push subscription of one mailbox: what sync_state stores about it,  *)
(* what the provider really keeps alive, and the two jobs in between.  A   *)
(* sync creates the subscription if it saw none when it began; the renewal *)
(* job extends it, or forgets it if that fails.  Handlers of either kind   *)
(* outlive their jobs and overlap (expireInMinutes).                       *)
(*                                                                         *)
(* Time is counted in periods of the renewal schedule (6 hours).  No sync  *)
(* and no renewal runs for as long as one, so time passes between them.    *)
(* What else a sync does, and how its queue works, is the subject of       *)
(* module SyncAccount.                                                     *)
(***************************************************************************)
EXTENDS Integers

CONSTANTS
  Syncs,     \* syncs of the account that can be in flight at the same time
  Renewers,  \* handlers of the renewal job that can be
  Providers, \* connectors with webhooks that may serve the account
  Ids,       \* the provider's subscription ids; used again once they are dead
  Lifetime,  \* periods a new or renewed subscription lives
  Window,    \* periods before its end it is due (RENEW_WINDOW_HOURS)
  MaxBlocks  \* bound: times another account turns undecryptable

ASSUME SubscriptionAssumption ==
  /\ Providers \subseteq {"outlook", "gmail"}
  /\ "none" \notin Ids
  /\ Lifetime \in Nat \ {0}
  /\ Window \in Nat \ {0}
  /\ MaxBlocks \in Nat

VARIABLES
  provider, \* accounts.provider
  status,   \* accounts.status
  tokens,   \* what accounts.encrypted_tokens is worth
  stored,   \* sync_state.subscription_id and _expires_at, as periods to go
  live,     \* external: periods each subscription really has to go, 0 if dead
  blocked,  \* an account earlier in the renewal list cannot be decrypted
  blocks,   \* how often that has been so
  sync,     \* where each sync stands, and the id it has read or been given
  renewal,  \* where each renewal stands, and the id it has read
  dropped,  \* history: subscriptions the provider ended before their time
  missed    \* history: periods in a row that ended with the subscription still due

account == <<provider, status, tokens>>
others  == <<blocked, blocks>>
history == <<dropped, missed>>
vars    == <<account, stored, live, others, sync, renewal, history>>

None    == "none"
Periods == 0 .. Lifetime
Idle    == [at |-> "idle", id |-> None]

TypeOK ==
  /\ provider \in Providers
  /\ status \in {"active", "reauth_required"}
  /\ tokens \in {"good", "dead", "unreadable"}
  /\ stored \in [id : Ids \cup {None}, left : Periods]
  /\ live \in [Ids -> Periods]
  /\ blocked \in BOOLEAN
  /\ blocks \in 0 .. MaxBlocks
  /\ sync \in [Syncs -> [at : {"idle", "ensure", "patch"}, id : Ids \cup {None}]]
  /\ renewal \in [Renewers -> [at : {"idle", "account", "call", "patch", "clear"},
                               id : Ids \cup {None}]]
  /\ dropped \in SUBSET Ids
  /\ missed \in Periods

Alive(id) == id # None /\ live[id] > 0

-----------------------------------------------------------------------------
(* A sync, as far as the subscription is concerned.                        *)

\* buildAccountContext: the stored id is read once, when the sync begins.
Begin(s) ==
  /\ sync[s].at = "idle"
  /\ status = "active"
  /\ tokens # "unreadable"
  /\ sync' = [sync EXCEPT ![s] = [at |-> "ensure", id |-> stored.id]]
  /\ UNCHANGED <<account, stored, live, others, renewal, history>>

\* The sync ends without a new subscription: it saw one when it began, or it
\* failed, or the provider would not create one.
End(s) ==
  /\ sync[s].at = "ensure"
  /\ sync' = [sync EXCEPT ![s] = Idle]
  /\ UNCHANGED <<account, stored, live, others, renewal, history>>

\* A new Graph subscription has an id nobody knows; Gmail has one watch for a
\* mailbox.
Fresh(id) ==
  IF provider = "gmail" THEN id = CHOOSE topic \in Ids : TRUE
  ELSE /\ live[id] = 0
       /\ id # stored.id
       /\ \A s \in Syncs : sync[s].id # id
       /\ \A r \in Renewers : renewal[r].id # id

\* The provider has created or extended it.
Extended(id) ==
  /\ live' = [live EXCEPT ![id] = Lifetime]
  /\ dropped' = dropped \ {id}

\* ensureSubscription.
Subscribe(s) ==
  /\ sync[s] = [at |-> "ensure", id |-> None]
  /\ tokens = "good"
  /\ \E id \in Ids :
       /\ Fresh(id)
       /\ Extended(id)
       /\ sync' = [sync EXCEPT ![s] = [at |-> "patch", id |-> id]]
  /\ UNCHANGED <<account, stored, others, renewal, missed>>

Patch(s) ==
  /\ sync[s].at = "patch"
  /\ stored' = [id |-> sync[s].id, left |-> Lifetime]
  /\ sync' = [sync EXCEPT ![s] = Idle]
  /\ UNCHANGED <<account, live, others, renewal, history>>

\* The database or the worker fails before the id is stored.
Lose(s) ==
  /\ sync[s].at = "patch"
  /\ sync' = [sync EXCEPT ![s] = Idle]
  /\ UNCHANGED <<account, stored, live, others, renewal, history>>

-----------------------------------------------------------------------------
(* The renewal job.                                                        *)

\* subscriptionsNeedingRenewal.
Due == stored.id # None /\ stored.left < Window

Goto(r, step) == renewal' = [renewal EXCEPT ![r].at = step]
Stop(r)       == renewal' = [renewal EXCEPT ![r] = Idle]

\* The schedule or a retry.  If nothing is due the job is over at once.
RenewBegin(r) ==
  /\ renewal[r].at = "idle"
  /\ Due
  /\ Goto(r, "account")
  /\ UNCHANGED <<account, stored, live, others, sync, history>>

\* buildAccountContext is outside the try: an account that cannot be decrypted
\* throws, and nobody behind it in the list has their turn.
RenewThrows(r) ==
  /\ renewal[r].at = "account"
  /\ blocked \/ tokens = "unreadable"
  /\ Stop(r)
  /\ UNCHANGED <<account, stored, live, others, sync, history>>

RenewSkips(r) ==
  /\ renewal[r].at = "account"
  /\ ~blocked
  /\ status # "active"
  /\ Stop(r)
  /\ UNCHANGED <<account, stored, live, others, sync, history>>

\* The subscription to extend is the one stored by now, if any.
RenewRead(r) ==
  /\ renewal[r].at = "account"
  /\ ~blocked
  /\ status = "active"
  /\ tokens # "unreadable"
  /\ renewal' = [renewal EXCEPT ![r] = [at |-> "call", id |-> stored.id]]
  /\ UNCHANGED <<account, stored, live, others, sync, history>>

\* Gmail's renewal is one more call of watch, and needs no subscription.
RenewOk(r) ==
  /\ renewal[r].at = "call"
  /\ tokens = "good"
  /\ \E id \in Ids :
       /\ IF provider = "gmail" THEN Fresh(id) ELSE id = renewal[r].id /\ Alive(id)
       /\ Extended(id)
  /\ Goto(r, "patch")
  /\ UNCHANGED <<account, stored, others, sync, missed>>

\* Bug to refute: a renewal that failed is taken for one that did not.
RenewFailsUnseen(r) ==
  /\ renewal[r].at = "call"
  /\ Goto(r, "patch")
  /\ UNCHANGED <<account, stored, live, others, sync, history>>

\* Whatever went wrong: it is gone, the grant is dead, the provider is down; or it
\* was extended, and the new date could not be stored.
RenewFails(r) ==
  /\ renewal[r].at \in {"call", "patch"}
  /\ Goto(r, "clear")
  /\ UNCHANGED <<account, stored, live, others, sync, history>>

\* Bug to refute: the periods gained are added to those left.
RenewPatchAdds(r) ==
  /\ renewal[r].at = "patch"
  /\ stored' = [stored EXCEPT !.left = @ + Lifetime]
  /\ Stop(r)
  /\ UNCHANGED <<account, live, others, sync, history>>

\* The new date goes into the row, whatever id is in it by now.
RenewPatch(r) ==
  /\ renewal[r].at = "patch"
  /\ stored' = [stored EXCEPT !.left = Lifetime]
  /\ Stop(r)
  /\ UNCHANGED <<account, live, others, sync, history>>

\* Bug to refute: a subscription that cannot be renewed stays on record.
RenewKeeps(r) ==
  /\ renewal[r].at = "clear"
  /\ Stop(r)
  /\ UNCHANGED <<account, stored, live, others, sync, history>>

RenewClear(r) ==
  /\ renewal[r].at = "clear"
  /\ stored' = [id |-> None, left |-> 0]
  /\ Stop(r)
  /\ UNCHANGED <<account, live, others, sync, history>>

\* The database or the worker fails in the middle of it; the job is retried.
RenewLost(r) ==
  /\ renewal[r].at # "idle"
  /\ Stop(r)
  /\ UNCHANGED <<account, stored, live, others, sync, history>>

-----------------------------------------------------------------------------
(* Everyone else.                                                          *)

\* Another account's tokens turn out to be undecryptable ...
Block ==
  /\ blocks < MaxBlocks
  /\ blocks' = blocks + 1
  /\ blocked' = TRUE
  /\ UNCHANGED <<account, stored, live, sync, renewal, history>>

\* ... until token-health flags that account.
Unblock ==
  /\ blocked
  /\ blocked' = FALSE
  /\ UNCHANGED <<blocks, account, stored, live, sync, renewal, history>>

TokensFail ==
  /\ tokens' \in {"dead", "unreadable"}
  /\ UNCHANGED <<provider, status, stored, live, others, sync, renewal, history>>

\* token-health, or a sync's connector call.
Flag ==
  /\ tokens # "good"
  /\ status' = "reauth_required"
  /\ UNCHANGED <<provider, tokens, stored, live, others, sync, renewal, history>>

\* upsertAccount leaves sync_state alone.
Reconnect ==
  /\ status' = "active"
  /\ tokens' = "good"
  /\ UNCHANGED <<provider, stored, live, others, sync, renewal, history>>

\* The provider drops a subscription, as Graph does with one that errors.
Drop ==
  /\ \E id \in Ids : /\ live[id] > 0
                     /\ live' = [live EXCEPT ![id] = 0]
                     /\ dropped' = dropped \cup {id}
  /\ UNCHANGED <<account, stored, others, sync, renewal, missed>>

Less(left) == IF left = 0 THEN 0 ELSE left - 1

Tick ==
  /\ \A s \in Syncs : sync[s].at = "idle"
  /\ \A r \in Renewers : renewal[r].at = "idle"
  /\ live' = [id \in Ids |-> Less(live[id])]
  /\ stored' = [stored EXCEPT !.left = Less(@)]
  /\ missed' = IF ~Due THEN 0 ELSE IF missed = Lifetime THEN missed ELSE missed + 1
  /\ UNCHANGED <<account, others, sync, renewal, dropped>>

Init ==
  /\ provider \in Providers
  /\ status = "active"
  /\ tokens = "good"
  /\ stored = [id |-> None, left |-> 0]
  /\ live = [id \in Ids |-> 0]
  /\ blocked = FALSE
  /\ blocks = 0
  /\ sync = [s \in Syncs |-> Idle]
  /\ renewal = [r \in Renewers |-> Idle]
  /\ dropped = {}
  /\ missed = 0

SyncStep(s) == Begin(s) \/ End(s) \/ Subscribe(s) \/ Patch(s) \/ Lose(s)

Renew(r) ==
  \/ RenewBegin(r) \/ RenewThrows(r) \/ RenewSkips(r) \/ RenewRead(r) \/ RenewOk(r)
  \/ RenewFails(r) \/ RenewPatch(r) \/ RenewClear(r) \/ RenewLost(r)

Next ==
  \/ \E s \in Syncs : SyncStep(s)
  \/ \E r \in Renewers : Renew(r)
  \/ Block \/ Unblock \/ TokensFail \/ Flag \/ Reconnect \/ Drop \/ Tick

Spec == Init /\ [][Next]_vars

-----------------------------------------------------------------------------
(* What the two jobs promise together.                                     *)

\* Unless the provider has dropped it, a subscription on record is dead only if it
\* was still due at the end of so many periods in a row as the window has before
\* its last one.  Fewer renewals may be crashed, blocked, skipped or never begun,
\* and any number may fail; whatever syncs and renewals overlap, none extends the
\* date of a subscription the provider has not extended.
NeverLapses ==
  stored.id # None /\ stored.id \notin dropped /\ missed < Window - 1 /\ missed < Lifetime
    => Alive(stored.id)

\* The worker, the schedules and time go on.
Scheduling ==
  /\ SF_vars(Tick)
  /\ \A r \in Renewers : WF_vars(Renew(r))
  /\ \A s \in Syncs : WF_vars(SyncStep(s))
  /\ WF_vars(Flag)
  /\ WF_vars(Unblock)

\* What is tried again and again gets through at some point: a statement on
\* the database, and also the provider's creation of a subscription that every
\* sync asks for.
Persistence ==
  /\ SF_vars(\E s \in Syncs : Subscribe(s))
  /\ SF_vars(\E s \in Syncs : Patch(s))
  /\ SF_vars(\E r \in Renewers : RenewRead(r))
  /\ SF_vars(\E r \in Renewers : RenewOk(r) \/ RenewFails(r))
  /\ SF_vars(\E r \in Renewers : RenewPatch(r))
  /\ SF_vars(\E r \in Renewers : RenewClear(r))

FairSpec == Spec /\ Scheduling /\ Persistence

\* However subscriptions lapse, are lost before they are stored, are created
\* twice or fail to be renewed: an active account never stays without a live one
\* for good, unless the provider goes on dropping them.
EventuallySubscribed ==
  \/ []<><<Drop>>_vars
  \/ []<>(status # "active" \/ tokens # "good" \/ Alive(stored.id))
=============================================================================
