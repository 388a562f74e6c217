-------------------------- MODULE SubscriptionProofs --------------------------
(***************************************************************************)
(* Type correctness of Subscription, and that a subscription on record     *)
(* does not lapse unseen: for any number of overlapping syncs and          *)
(* renewals, any ids, and any lifetime and window.                         *)
(***************************************************************************)
EXTENDS Subscription, TLAPS

-----------------------------------------------------------------------------
(* The invariant.                                                          *)

\* Created or extended in this very period, unless the provider has dropped it.
New(id) == live[id] = Lifetime \/ id \in dropped
Current == stored.id # None => New(stored.id)

\* No handler outlives the period it began in.  So a sync stores what is new; and
\* whoever put another id on record since a renewal read the row has put a new one
\* there, and the renewal, which has extended the old one, adds the right date to it.
Fresher ==
  /\ \A s \in Syncs : sync[s].at = "patch" => sync[s].id \in Ids /\ New(sync[s].id)
  /\ \A r \in Renewers : renewal[r].at = "call" => stored.id = renewal[r].id \/ Current
  /\ \A r \in Renewers : renewal[r].at = "patch" => Current

\* Gmail has one watch: the one created, extended and stored.
Topic    == CHOOSE topic \in Ids : TRUE
OneWatch ==
  provider = "gmail" =>
    /\ stored.id \in {None, Topic}
    /\ \A s \in Syncs : sync[s].at = "patch" => sync[s].id = Topic

\* The subscription lives as long as the record says, and the record shrinks
\* below the window only by periods that ended with the subscription still due.
Lasting ==
  stored.id # None =>
    /\ stored.id \notin dropped => stored.left <= live[stored.id]
    /\ stored.left + missed >= Window - 1 \/ stored.left + missed >= Lifetime

IInv == TypeOK /\ Fresher /\ OneWatch /\ Lasting

-----------------------------------------------------------------------------
(* Types.                                                                  *)

Stored   == [id : Ids \cup {None}, left : Periods]
Holding  == [at : {"idle", "ensure", "patch"}, id : Ids \cup {None}]
Renewing == [at : {"idle", "account", "call", "patch", "clear"}, id : Ids \cup {None}]

\* The records and the numbers of a state.
LEMMA Parts ==
  ASSUME IInv
  PROVE  /\ stored \in Stored /\ stored.id \in Ids \cup {None} /\ stored.left \in Nat
         /\ stored.left \in Periods /\ stored.left <= Lifetime
         /\ live \in [Ids -> Periods]
         /\ \A id \in Ids : live[id] \in Nat /\ live[id] \in Periods /\ live[id] <= Lifetime
         /\ missed \in Nat /\ missed <= Lifetime
         /\ Lifetime \in Nat \ {0} /\ Window \in Nat \ {0}
         /\ None \notin Ids /\ 0 \in Periods /\ Lifetime \in Periods
         /\ \A s \in Syncs : sync[s] \in Holding
         /\ \A r \in Renewers : renewal[r] \in Renewing
  BY SubscriptionAssumption DEF IInv, TypeOK, Stored, Holding, Renewing, Periods, None

\* A period less is still a number of periods.
LEMMA LessTypes ==
  ASSUME NEW left \in Periods
  PROVE  /\ Less(left) \in Periods /\ Less(left) \in Nat
         /\ left > 0 => Less(left) = left - 1
         /\ left = 0 => Less(left) = 0
  BY SubscriptionAssumption DEF Less, Periods

\* What one sync holds, and what the others do.
LEMMA SyncTypes ==
  ASSUME IInv, NEW s \in Syncs, NEW h \in Holding, sync' = [sync EXCEPT ![s] = h]
  PROVE  /\ sync' \in [Syncs -> Holding] /\ sync'[s] = h
         /\ \A q \in Syncs : q # s => sync'[q] = sync[q]
  BY DEF IInv, TypeOK, Holding

\* What one renewal holds, and what the others do.
LEMMA RenewalTypes ==
  ASSUME IInv, NEW r \in Renewers, NEW h \in Renewing, renewal' = [renewal EXCEPT ![r] = h]
  PROVE  /\ renewal' \in [Renewers -> Renewing] /\ renewal'[r] = h
         /\ \A q \in Renewers : q # r => renewal'[q] = renewal[q]
  BY DEF IInv, TypeOK, Renewing

\* A renewal goes on to another step with the id it has.
LEMMA GotoTypes ==
  ASSUME IInv, NEW r \in Renewers, NEW step \in {"idle", "account", "call", "patch", "clear"},
         Goto(r, step)
  PROVE  /\ renewal' \in [Renewers -> Renewing]
         /\ renewal'[r].at = step /\ renewal'[r].id = renewal[r].id
         /\ \A q \in Renewers : q # r => renewal'[q] = renewal[q]
  <1> DEFINE h == [renewal[r] EXCEPT !.at = step]
  <1>1. h \in Renewing /\ h.at = step /\ h.id = renewal[r].id
    <2>1. renewal[r] \in Renewing
      BY Parts
    <2> QED
      BY <2>1 DEF Renewing
  <1>2. renewal' = [renewal EXCEPT ![r] = h]
    BY DEF Goto
  <1> HIDE DEF h
  <1> QED
    BY <1>1, <1>2, RenewalTypes

\* A renewal is over.
LEMMA StopTypes ==
  ASSUME IInv, NEW r \in Renewers, Stop(r)
  PROVE  /\ renewal' \in [Renewers -> Renewing] /\ renewal'[r].at = "idle"
         /\ \A q \in Renewers : q # r => renewal'[q] = renewal[q]
  <1>1. Idle \in Renewing /\ Idle.at = "idle"
    BY DEF Renewing, Idle
  <1> QED
    BY <1>1, RenewalTypes DEF Stop

\* One subscription is created or extended: it is new, and no other is less so.
LEMMA ExtendedTypes ==
  ASSUME IInv, NEW id \in Ids, Extended(id)
  PROVE  /\ live' \in [Ids -> Periods] /\ dropped' \in SUBSET Ids
         /\ New(id)' /\ \A i \in Ids : New(i) => New(i)'
         /\ \A i \in Ids, left \in Periods :
              (i \notin dropped => left <= live[i]) => (i \notin dropped' => left <= live'[i])
  <1>1. live \in [Ids -> Periods] /\ Lifetime \in Periods /\ dropped \in SUBSET Ids
    BY Parts DEF IInv, TypeOK
  <1>2. \A left \in Periods : left <= Lifetime
    BY SubscriptionAssumption DEF Periods
  <1>3. live'[id] = Lifetime /\ \A i \in Ids : i # id => live'[i] = live[i]
    BY <1>1 DEF Extended
  <1>4. dropped' \in SUBSET Ids /\ \A i \in Ids : i # id => (i \in dropped' <=> i \in dropped)
    BY <1>1 DEF Extended
  <1>5. live' \in [Ids -> Periods]
    BY <1>1 DEF Extended
  <1>6. New(id)' /\ \A i \in Ids : New(i) => New(i)'
    BY <1>3, <1>4 DEF New
  <1> QED
    BY <1>2, <1>3, <1>4, <1>5, <1>6

-----------------------------------------------------------------------------
(* A sync.                                                                 *)

\* A sync begins, or ends without storing anything.
LEMMA BeginEndStep ==
  ASSUME IInv, NEW s \in Syncs, Begin(s) \/ End(s) \/ Lose(s)
  PROVE  IInv'
  <1>1. PICK h \in Holding : sync' = [sync EXCEPT ![s] = h] /\ h.at # "patch"
    <2>1. [at |-> "ensure", id |-> stored.id] \in Holding /\ Idle \in Holding
      BY Parts DEF Holding, Idle
    <2> QED
      BY <2>1 DEF Begin, End, Lose, Idle
  <1>2. /\ sync' \in [Syncs -> Holding] /\ sync'[s] = h
        /\ \A q \in Syncs : q # s => sync'[q] = sync[q]
    BY <1>1, SyncTypes
  <1>3. UNCHANGED <<account, stored, live, others, renewal, history>>
    BY DEF Begin, End, Lose
  <1>4. TypeOK'
    BY <1>1, <1>2, <1>3 DEF IInv, TypeOK, Holding, account, others, history
  <1>5. Fresher' /\ OneWatch' /\ Lasting'
    BY <1>1, <1>2, <1>3
       DEF IInv, Fresher, Current, New, OneWatch, Lasting, account, others, history
  <1> QED
    BY <1>4, <1>5 DEF IInv

\* ensureSubscription: a subscription more, or Gmail's watch once more.
LEMMA SubscribeStep ==
  ASSUME IInv, NEW s \in Syncs, Subscribe(s)
  PROVE  IInv'
  <1>1. PICK id \in Ids : /\ Fresh(id) /\ Extended(id)
                          /\ sync' = [sync EXCEPT ![s] = [at |-> "patch", id |-> id]]
    BY DEF Subscribe
  <1> DEFINE h == [at |-> "patch", id |-> id]
  <1>2. h \in Holding /\ h.at = "patch" /\ h.id = id
    BY DEF Holding
  <1>3. sync' = [sync EXCEPT ![s] = h]
    BY <1>1
  <1> HIDE DEF h
  <1>4. /\ sync' \in [Syncs -> Holding] /\ sync'[s] = h
        /\ \A q \in Syncs : q # s => sync'[q] = sync[q]
    BY <1>2, <1>3, SyncTypes
  <1>5. UNCHANGED <<account, stored, others, renewal, missed>>
    BY DEF Subscribe
  <1>6. /\ live' \in [Ids -> Periods] /\ dropped' \in SUBSET Ids
        /\ New(id)' /\ \A i \in Ids : New(i) => New(i)'
        /\ \A i \in Ids, left \in Periods :
             (i \notin dropped => left <= live[i]) => (i \notin dropped' => left <= live'[i])
    BY <1>1, ExtendedTypes
  <1>7. TypeOK'
    BY <1>2, <1>4, <1>5, <1>6 DEF IInv, TypeOK, Holding, account, others
  <1>8. Fresher'
    <2>1. Current => Current'
      BY <1>5, <1>6, Parts DEF Current, New
    <2>2. \A q \in Syncs : sync'[q].at = "patch" => sync'[q].id \in Ids /\ New(sync[q].id)'
      <3> SUFFICES ASSUME NEW q \in Syncs, sync'[q].at = "patch"
                   PROVE  sync'[q].id \in Ids /\ New(sync[q].id)'
        OBVIOUS
      <3>1. CASE q = s
        BY <1>2, <1>4, <1>6, <3>1 DEF New
      <3>2. CASE q # s
        BY <1>4, <1>6, <3>2 DEF IInv, Fresher, New
      <3> QED
        BY <3>1, <3>2
    <2> QED
      BY <1>5, <2>1, <2>2 DEF IInv, Fresher, New
  <1>9. OneWatch'
    BY <1>1, <1>2, <1>4, <1>5 DEF IInv, OneWatch, Fresh, Topic, account
  <1>10. Lasting'
    BY <1>5, <1>6, Parts DEF IInv, Lasting
  <1> QED
    BY <1>7, <1>8, <1>9, <1>10 DEF IInv

\* The id and the date are stored: both new.
LEMMA PatchStep ==
  ASSUME IInv, NEW s \in Syncs, Patch(s)
  PROVE  IInv'
  <1> DEFINE new == [id |-> sync[s].id, left |-> Lifetime]
  <1>1. sync[s].at = "patch" /\ sync[s].id \in Ids /\ New(sync[s].id)
    BY DEF Patch, IInv, Fresher
  <1>2. new \in Stored /\ new.id = sync[s].id /\ new.left = Lifetime
    BY <1>1, Parts DEF Stored
  <1>3. stored' = new /\ UNCHANGED <<account, live, others, renewal, history>>
    BY DEF Patch
  <1> HIDE DEF new
  <1>4. Idle \in Holding /\ Idle.at = "idle"
    BY DEF Holding, Idle
  <1>5. /\ sync' \in [Syncs -> Holding] /\ sync'[s] = Idle
        /\ \A q \in Syncs : q # s => sync'[q] = sync[q]
    BY <1>4, SyncTypes DEF Patch
  <1>6. TypeOK'
    BY <1>2, <1>3, <1>5 DEF IInv, TypeOK, Stored, Holding, account, others, history
  <1>7. Fresher'
    <2>1. Current'
      BY <1>1, <1>2, <1>3 DEF Current, New, history
    <2> QED
      BY <1>3, <1>4, <1>5, <2>1 DEF IInv, Fresher, New, history
  <1>8. OneWatch'
    BY <1>1, <1>2, <1>3, <1>4, <1>5 DEF IInv, OneWatch, account
  <1>9. Lasting'
    BY <1>1, <1>2, <1>3, Parts DEF Lasting, New, history
  <1> QED
    BY <1>6, <1>7, <1>8, <1>9 DEF IInv

-----------------------------------------------------------------------------
(* The renewal job.                                                        *)

\* A renewal begins, ends without storing anything, or fails.
LEMMA RenewQuietStep ==
  ASSUME IInv, NEW r \in Renewers,
         RenewBegin(r) \/ RenewThrows(r) \/ RenewSkips(r) \/ RenewFails(r) \/ RenewLost(r)
  PROVE  IInv'
  <1>1. UNCHANGED <<account, stored, live, others, sync, history>>
    BY DEF RenewBegin, RenewThrows, RenewSkips, RenewFails, RenewLost
  <1>2. /\ renewal' \in [Renewers -> Renewing]
        /\ renewal'[r].at \notin {"call", "patch"}
        /\ \A q \in Renewers : q # r => renewal'[q] = renewal[q]
    <2>1. CASE RenewBegin(r)
      BY <2>1, GotoTypes DEF RenewBegin
    <2>2. CASE RenewFails(r)
      BY <2>2, GotoTypes DEF RenewFails
    <2>3. CASE RenewThrows(r) \/ RenewSkips(r) \/ RenewLost(r)
      BY <2>3, StopTypes DEF RenewThrows, RenewSkips, RenewLost
    <2> QED
      BY <2>1, <2>2, <2>3
  <1>3. TypeOK'
    BY <1>1, <1>2 DEF IInv, TypeOK, Renewing, account, others, history
  <1>4. Fresher' /\ OneWatch' /\ Lasting'
    BY <1>1, <1>2
       DEF IInv, Fresher, Current, New, OneWatch, Lasting, account, others, history
  <1> QED
    BY <1>3, <1>4 DEF IInv

\* The renewal is to extend what is on record.
LEMMA RenewReadStep ==
  ASSUME IInv, NEW r \in Renewers, RenewRead(r)
  PROVE  IInv'
  <1> DEFINE h == [at |-> "call", id |-> stored.id]
  <1>1. h \in Renewing /\ h.at = "call" /\ h.id = stored.id
    BY Parts DEF Renewing
  <1>2. /\ renewal' = [renewal EXCEPT ![r] = h]
        /\ UNCHANGED <<account, stored, live, others, sync, history>>
    BY DEF RenewRead
  <1> HIDE DEF h
  <1>3. /\ renewal' \in [Renewers -> Renewing] /\ renewal'[r] = h
        /\ \A q \in Renewers : q # r => renewal'[q] = renewal[q]
    BY <1>1, <1>2, RenewalTypes
  <1>4. TypeOK'
    BY <1>2, <1>3 DEF IInv, TypeOK, Renewing, account, others, history
  <1>5. Fresher' /\ OneWatch' /\ Lasting'
    BY <1>1, <1>2, <1>3
       DEF IInv, Fresher, Current, New, OneWatch, Lasting, account, others, history
  <1> QED
    BY <1>4, <1>5 DEF IInv

\* The provider extends the subscription the renewal has read, or Gmail's watch: by
\* now the one on record is new.
LEMMA RenewOkStep ==
  ASSUME IInv, NEW r \in Renewers, RenewOk(r)
  PROVE  IInv'
  <1>1. PICK id \in Ids :
          /\ IF provider = "gmail" THEN Fresh(id) ELSE id = renewal[r].id /\ Alive(id)
          /\ Extended(id)
    BY DEF RenewOk
  <1>2. /\ live' \in [Ids -> Periods] /\ dropped' \in SUBSET Ids
        /\ New(id)' /\ \A i \in Ids : New(i) => New(i)'
        /\ \A i \in Ids, left \in Periods :
             (i \notin dropped => left <= live[i]) => (i \notin dropped' => left <= live'[i])
    BY <1>1, ExtendedTypes
  <1>3. /\ UNCHANGED <<account, stored, others, sync, missed>>
        /\ renewal[r].at = "call" /\ Goto(r, "patch")
    BY DEF RenewOk
  <1>4. /\ renewal' \in [Renewers -> Renewing] /\ renewal'[r].at = "patch"
        /\ \A q \in Renewers : q # r => renewal'[q] = renewal[q]
    BY <1>3, GotoTypes
  <1>5. TypeOK'
    BY <1>2, <1>3, <1>4 DEF IInv, TypeOK, Renewing, account, others
  <1>6. Current => Current'
    BY <1>2, <1>3, Parts DEF Current, New
  <1>7. Current'
    <2>1. stored.id \in {None, id} \/ Current
      BY <1>1, <1>3 DEF IInv, OneWatch, Fresh, Topic, Fresher
    <2>2. stored.id \in {None, id} => Current'
      BY <1>2, <1>3 DEF Current, New
    <2> QED
      BY <1>6, <2>1, <2>2
  <1>8. Fresher'
    BY <1>2, <1>3, <1>4, <1>7 DEF IInv, Fresher, New
  <1>9. OneWatch'
    BY <1>3 DEF IInv, OneWatch, account
  <1>10. Lasting'
    BY <1>2, <1>3, Parts DEF IInv, Lasting
  <1> QED
    BY <1>5, <1>8, <1>9, <1>10 DEF IInv

\* The new date goes into the row, and what is on record is new.
LEMMA RenewPatchStep ==
  ASSUME IInv, NEW r \in Renewers, RenewPatch(r)
  PROVE  IInv'
  <1> DEFINE new == [stored EXCEPT !.left = Lifetime]
  <1>1. /\ stored' = new /\ renewal[r].at = "patch" /\ Stop(r)
        /\ UNCHANGED <<account, live, others, sync, history>>
    BY DEF RenewPatch
  <1>2. new \in Stored /\ new.id = stored.id /\ new.left = Lifetime
    BY Parts DEF Stored
  <1> HIDE DEF new
  <1>3. /\ renewal' \in [Renewers -> Renewing] /\ renewal'[r].at = "idle"
        /\ \A q \in Renewers : q # r => renewal'[q] = renewal[q]
    BY <1>1, StopTypes
  <1>4. TypeOK'
    BY <1>1, <1>2, <1>3 DEF IInv, TypeOK, Stored, Renewing, account, others, history
  <1>5. Current /\ Current'
    BY <1>1, <1>2 DEF IInv, Fresher, Current, New, history
  <1>6. Fresher' /\ OneWatch'
    BY <1>1, <1>2, <1>3, <1>5 DEF IInv, Fresher, New, OneWatch, account, history
  <1>7. Lasting'
    BY <1>1, <1>2, <1>5, Parts DEF Lasting, Current, New, history
  <1> QED
    BY <1>4, <1>6, <1>7 DEF IInv

\* The record is cleared: there is nothing on it to be alive.
LEMMA RenewClearStep ==
  ASSUME IInv, NEW r \in Renewers, RenewClear(r)
  PROVE  IInv'
  <1> DEFINE new == [id |-> None, left |-> 0]
  <1>1. /\ stored' = new /\ Stop(r)
        /\ UNCHANGED <<account, live, others, sync, history>>
    BY DEF RenewClear
  <1>2. new \in Stored /\ new.id = None
    BY Parts DEF Stored
  <1> HIDE DEF new
  <1>3. /\ renewal' \in [Renewers -> Renewing] /\ renewal'[r].at = "idle"
        /\ \A q \in Renewers : q # r => renewal'[q] = renewal[q]
    BY <1>1, StopTypes
  <1>4. TypeOK'
    BY <1>1, <1>2, <1>3 DEF IInv, TypeOK, Stored, Renewing, account, others, history
  <1>5. Fresher' /\ OneWatch' /\ Lasting'
    BY <1>1, <1>2, <1>3
       DEF IInv, Fresher, Current, New, OneWatch, Lasting, account, others, history
  <1> QED
    BY <1>4, <1>5 DEF IInv

-----------------------------------------------------------------------------
(* Everyone else.                                                          *)

\* Another account's tokens, this one's, token-health, a reconnect: none of them
\* touches what is on record or alive.
LEMMA OthersStep ==
  ASSUME IInv, Block \/ Unblock \/ TokensFail \/ Flag \/ Reconnect
  PROVE  IInv'
  <1>1. UNCHANGED <<provider, stored, live, sync, renewal, history>>
    BY DEF Block, Unblock, TokensFail, Flag, Reconnect, account
  <1>2. status' \in {"active", "reauth_required"} /\ tokens' \in {"good", "dead", "unreadable"}
    BY DEF Block, Unblock, TokensFail, Flag, Reconnect, account, IInv, TypeOK
  <1>3. blocked' \in BOOLEAN
    <2>1. CASE Block \/ Unblock
      BY <2>1, Zenon DEF Block, Unblock
    <2>2. CASE TokensFail \/ Flag \/ Reconnect
      BY <2>2 DEF TokensFail, Flag, Reconnect, others, IInv, TypeOK
    <2> QED
      BY <2>1, <2>2
  <1>4. blocks' \in 0 .. MaxBlocks
    <2>1. blocks' = blocks \/ (blocks < MaxBlocks /\ blocks' = blocks + 1)
      BY DEF Block, Unblock, TokensFail, Flag, Reconnect, others
    <2> QED
      BY <2>1, SubscriptionAssumption DEF IInv, TypeOK
  <1>5. TypeOK'
    BY <1>1, <1>2, <1>3, <1>4 DEF IInv, TypeOK, history
  <1>6. Fresher' /\ OneWatch' /\ Lasting'
    BY <1>1 DEF IInv, Fresher, Current, New, OneWatch, Lasting, history
  <1> QED
    BY <1>5, <1>6 DEF IInv

\* The provider drops a subscription: that one is exempt.
LEMMA DropStep ==
  ASSUME IInv, Drop
  PROVE  IInv'
  <1>1. PICK id \in Ids : /\ live' = [live EXCEPT ![id] = 0]
                          /\ dropped' = dropped \cup {id}
    BY DEF Drop
  <1>2. UNCHANGED <<account, stored, others, sync, renewal, missed>>
    BY DEF Drop
  <1>3. live' \in [Ids -> Periods] /\ \A i \in Ids : i # id => live'[i] = live[i]
    BY <1>1, Parts
  <1>4. TypeOK'
    BY <1>1, <1>2, <1>3 DEF IInv, TypeOK, account, others
  <1>5. \A i \in Ids : New(i) => New(i)'
    BY <1>1, <1>3 DEF New
  <1>6. Current => Current'
    BY <1>2, <1>5, Parts DEF Current, New
  <1>7. Fresher'
    BY <1>2, <1>5, <1>6 DEF IInv, Fresher, New
  <1>8. OneWatch'
    BY <1>2 DEF IInv, OneWatch, account
  <1>9. Lasting'
    BY <1>1, <1>2, <1>3, Parts DEF IInv, Lasting
  <1> QED
    BY <1>4, <1>7, <1>8, <1>9 DEF IInv

\* A period passes between the jobs: the record and the subscription lose one
\* alike, and one period more is counted if the subscription was still due.
LEMMA TickStep ==
  ASSUME IInv, Tick
  PROVE  IInv'
  <1> DEFINE new == [stored EXCEPT !.left = Less(stored.left)]
  <1>1. /\ UNCHANGED <<account, others, sync, renewal, dropped>> /\ stored' = new
        /\ live' = [id \in Ids |-> Less(live[id])]
        /\ \A s \in Syncs : sync[s].at = "idle"
        /\ \A r \in Renewers : renewal[r].at = "idle"
    BY DEF Tick
  <1>2. /\ new \in Stored /\ new.id = stored.id /\ new.left = Less(stored.left)
        /\ Less(stored.left) \in Nat
    BY Parts, LessTypes DEF Stored
  <1> HIDE DEF new
  <1>3. live' \in [Ids -> Periods] /\ \A id \in Ids : live'[id] = Less(live[id])
    BY <1>1, Parts, LessTypes
  <1>4. missed' = IF ~Due THEN 0 ELSE IF missed = Lifetime THEN missed ELSE missed + 1
    BY DEF Tick
  <1>5. missed' \in Periods /\ missed' \in Nat
    BY <1>4, Parts DEF Periods
  <1>6. TypeOK'
    BY <1>1, <1>2, <1>3, <1>5 DEF IInv, TypeOK, Stored, account, others
  <1>7. Fresher'
    BY <1>1 DEF Fresher
  <1>8. OneWatch'
    BY <1>1, <1>2 DEF IInv, OneWatch, account
  <1>9. Lasting'
    <2> SUFFICES ASSUME stored.id # None
                 PROVE  /\ stored.id \notin dropped => Less(stored.left) <= Less(live[stored.id])
                        /\ \/ Less(stored.left) + missed' >= Window - 1
                           \/ Less(stored.left) + missed' >= Lifetime
      BY <1>1, <1>2, <1>3, Parts DEF Lasting
    <2>1. /\ stored.id \notin dropped => stored.left <= live[stored.id]
          /\ stored.left + missed >= Window - 1 \/ stored.left + missed >= Lifetime
      BY DEF IInv, Lasting
    <2>2. /\ stored.id \in Ids /\ stored.left \in Nat /\ stored.left \in Periods
          /\ live[stored.id] \in Nat /\ live[stored.id] \in Periods
          /\ missed \in Nat /\ missed <= Lifetime /\ Lifetime \in Nat /\ Window \in Nat \ {0}
      BY Parts
    <2>3. stored.id \notin dropped => Less(stored.left) <= Less(live[stored.id])
      BY <2>1, <2>2, LessTypes
    <2>4. CASE ~Due
      <3>1. stored.left >= Window /\ Less(stored.left) = stored.left - 1 /\ missed' = 0
        BY <1>4, <2>2, <2>4, LessTypes DEF Due
      <3> QED
        BY <2>2, <2>3, <3>1
    <2>5. CASE Due /\ missed = Lifetime
      BY <1>4, <2>2, <2>3, <2>5, LessTypes
    <2>6. CASE Due /\ missed # Lifetime
      <3>1. missed' = missed + 1
        BY <1>4, <2>6
      <3>2. Less(stored.left) + missed' >= stored.left + missed
        BY <2>2, <3>1, LessTypes
      <3>3. Less(stored.left) \in Nat
        BY <1>2
      <3> QED
        BY <1>5, <2>1, <2>2, <2>3, <3>2, <3>3
    <2> QED
      BY <2>4, <2>5, <2>6
  <1> QED
    BY <1>6, <1>7, <1>8, <1>9 DEF IInv

-----------------------------------------------------------------------------
(* Every step, and the theorems.                                           *)

\* At the start there is no subscription.
LEMMA InitHolds ==
  ASSUME Init
  PROVE  IInv
  <1>1. 0 \in Periods /\ 0 \in 0 .. MaxBlocks
    BY SubscriptionAssumption DEF Periods
  <1>2. TypeOK
    BY <1>1 DEF Init, TypeOK, Idle
  <1>3. Fresher /\ OneWatch /\ Lasting
    BY DEF Init, Fresher, OneWatch, Lasting, Idle
  <1> QED
    BY <1>2, <1>3 DEF IInv

\* The invariant is inductive.
LEMMA Inductive ==
  IInv /\ [Next]_vars => IInv'
  <1> SUFFICES ASSUME IInv, [Next]_vars
               PROVE  IInv'
    OBVIOUS
  <1>1. CASE UNCHANGED vars
    <2>1. TypeOK'
      BY <1>1 DEF vars, account, others, history, IInv, TypeOK
    <2>2. Fresher' /\ OneWatch' /\ Lasting'
      BY <1>1 DEF vars, account, others, history, IInv, Fresher, Current, New, OneWatch, Lasting
    <2> QED
      BY <2>1, <2>2 DEF IInv
  <1>2. ASSUME NEW s \in Syncs, SyncStep(s) PROVE IInv'
    BY <1>2, BeginEndStep, SubscribeStep, PatchStep DEF SyncStep
  <1>3. ASSUME NEW r \in Renewers, Renew(r) PROVE IInv'
    BY <1>3, RenewQuietStep, RenewReadStep, RenewOkStep, RenewPatchStep, RenewClearStep
       DEF Renew
  <1> QED
    BY <1>1, <1>2, <1>3, OthersStep, DropStep, TickStep DEF Next

\* Every reachable state satisfies it.
LEMMA Invariance ==
  Spec => []IInv
  BY InitHolds, Inductive, PTL DEF Spec

\* Every variable keeps the type its column or subscription has.
THEOREM TypeCorrect ==
  Spec => []TypeOK
  <1>1. IInv => TypeOK
    BY DEF IInv
  <1> QED
    BY <1>1, Invariance, PTL

\* A subscription on record that the provider has not dropped is alive, as long as
\* fewer periods in a row have ended with it still due than the window has before its
\* last one: whatever renewals fail, crash or overlap, nothing else kills it unseen.
THEOREM StaysSubscribed ==
  Spec => []NeverLapses
  <1>1. IInv => NeverLapses
    <2> SUFFICES ASSUME IInv, stored.id # None, stored.id \notin dropped,
                        missed < Window - 1, missed < Lifetime
                 PROVE  Alive(stored.id)
      BY DEF NeverLapses
    <2>1. /\ stored.left <= live[stored.id]
          /\ stored.left + missed >= Window - 1 \/ stored.left + missed >= Lifetime
      BY DEF IInv, Lasting
    <2>2. /\ stored.id \in Ids /\ live[stored.id] \in Nat /\ stored.left \in Nat
          /\ missed \in Nat /\ Window \in Nat /\ Lifetime \in Nat
      BY Parts
    <2>3. live[stored.id] > 0
      BY <2>1, <2>2
    <2> QED
      BY <2>3 DEF Alive
  <1> QED
    BY <1>1, Invariance, PTL
=============================================================================
