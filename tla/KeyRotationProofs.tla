-------------------------- MODULE KeyRotationProofs --------------------------
(***************************************************************************)
(* That a key rotation never makes a stored row unreadable, and makes      *)
(* nobody authorize a mailbox again, for any set of accounts and any       *)
(* number of rotations and grants.                                         *)
(***************************************************************************)
EXTENDS KeyRotation, TLAPS

-----------------------------------------------------------------------------
(* The inductive invariant.                                                *)

Retired == [primary |-> config.primary - 1, previous |-> {}]

\* What each stage of the procedure says of the keys deployed.
Deploys ==
  /\ stage = "steady"  => config.previous = {} /\ Deployed
  /\ stage = "both"    => /\ config.previous = {config.primary - 1}
                          /\ \A s \in Services : ring[s] \in {config, Retired}
  /\ stage = "counted" => Deployed
  /\ stage = "cleared" => /\ config.previous = {}
                          /\ \A s \in Services : ring[s].primary = config.primary

\* Only between the introduction of a key and the count that ends the script may
\* a row still be sealed with the key before.
NoneBehind ==
  stage # "both" => \A a \in Accounts : IsCurrent(config, sealed[a])

\* The script rewrites rows while both services hold both keys.
ScriptWindow == script = "running" => stage = "both" /\ Deployed

\* The worker opens every row stored and every row its jobs have read.
WorkerOpens ==
  \A a \in Accounts \ straddled :
    /\ Opens(ring["worker"], sealed[a])
    /\ \A row \in held[a] : Opens(ring["worker"], row)

KeysInv == Deploys /\ AlwaysReadable /\ NoneBehind /\ ScriptWindow

\* What a job or the script may yet write back, if not overtaken, is the last grant.
Fresh ==
  /\ \A a \in Accounts \ overtaken : \A row \in held[a] : row.grant = grants[a]
  /\ \A a \in todo \ overtaken :
       ~IsCurrent(config, list[a]) => list[a].grant = grants[a]

Inv ==
  /\ TypeOK /\ KeysInv
  /\ WorkerOpens /\ NobodyFlagged
  /\ Fresh /\ LastGrantKept

-----------------------------------------------------------------------------
(* Types.                                                                  *)

\* The first deployment is well typed.
LEMMA TypeInit == Init => TypeOK
  BY RotationAssumption
  DEF Init, TypeOK, Ring, Row, Keys, Services

\* A vault seals with a key there is.
LEMMA SealType ==
  ASSUME NEW vault \in Ring, NEW grant \in 1 .. MaxGrants
  PROVE  Seal(vault, grant) \in Row
  BY DEF Seal, Row, Ring

\* What an operator does is well typed.
LEMMA OperatorTypes ==
  ASSUME TypeOK
  PROVE  /\ Introduce \/ Clear \/ Settle => TypeOK'
         /\ \A s \in Services : Restart(s) => TypeOK'
  <1> USE RotationAssumption DEF deploy, account, rewrite, history
  <1>1. Introduce => TypeOK'
    BY DEF Introduce, TypeOK, Ring, Keys
  <1>2. Clear => TypeOK'
    BY DEF Clear, TypeOK, Ring
  <1>3. Settle => TypeOK'
    BY DEF Settle, TypeOK
  <1>4. ASSUME NEW s \in Services, Restart(s) PROVE TypeOK'
    <2>1. ring' \in [Services -> Ring]
      BY <1>4 DEF Restart, TypeOK
    <2>2. held' \in [Accounts -> SUBSET Row]
      BY <1>4 DEF Restart, TypeOK
    <2> QED
      BY <1>4, <2>1, <2>2 DEF Restart, TypeOK
  <1> QED
    BY <1>1, <1>2, <1>3, <1>4

\* What the script does is well typed.
LEMMA ScriptTypes ==
  ASSUME TypeOK
  PROVE  /\ Begin \/ Count \/ Interrupt => TypeOK'
         /\ \A a \in Accounts : Script(a) => TypeOK'
  <1> USE DEF deploy, account, rewrite, history
  <1>1. Begin => TypeOK'
    BY DEF Begin, TypeOK
  <1>2. Count => TypeOK'
    BY DEF Count, TypeOK
  <1>3. Interrupt => TypeOK'
    BY DEF Interrupt, TypeOK
  <1>4. ASSUME NEW a \in Accounts, Skip(a) PROVE TypeOK'
    BY <1>4 DEF Skip, TypeOK
  <1>5. ASSUME NEW a \in Accounts, Rewrite(a) PROVE TypeOK'
    <2>1. Seal(config, list[a].grant) \in Row
      BY SealType DEF TypeOK, Row
    <2> QED
      BY <1>5, <2>1 DEF Rewrite, TypeOK
  <1>6. ASSUME NEW a \in Accounts, FailOne(a) PROVE TypeOK'
    BY <1>6 DEF FailOne, TypeOK
  <1> QED
    BY <1>1, <1>2, <1>3, <1>4, <1>5, <1>6 DEF Script

\* What the services do is well typed.
LEMMA ServiceTypes ==
  ASSUME TypeOK, NEW a \in Accounts, Serve(a)
  PROVE  TypeOK'
  <1> USE DEF deploy, account, rewrite, history
  <1>1. CASE Read(a)
    BY <1>1 DEF Read, TypeOK
  <1>2. CASE Save(a)
    <2>1. PICK row \in held[a] :
            /\ sealed' = [sealed EXCEPT ![a] = Seal(ring["worker"], row.grant)]
            /\ held' = [held EXCEPT ![a] = @ \ {row}]
      BY <1>2 DEF Save
    <2>2. ring["worker"] \in Ring /\ row \in Row
      BY DEF TypeOK, Services
    <2>3. row.grant \in 1 .. MaxGrants
      BY <2>2 DEF Row
    <2>4. Seal(ring["worker"], row.grant) \in Row
      BY <2>2, <2>3, SealType
    <2> QED
      BY <1>2, <2>1, <2>4 DEF Save, TypeOK
  <1>3. CASE Release(a)
    BY <1>3 DEF Release, TypeOK
  <1>4. CASE Flag(a)
    BY <1>4 DEF Flag, TypeOK
  <1>5. CASE Reconnect(a)
    <2>1. grants[a] + 1 \in 1 .. MaxGrants
      BY <1>5, RotationAssumption DEF Reconnect, TypeOK
    <2>2. Seal(ring["web"], grants[a] + 1) \in Row
      BY <2>1, SealType DEF TypeOK, Services
    <2>3. sealed' \in [Accounts -> Row] /\ grants' \in [Accounts -> 1 .. MaxGrants]
      BY <1>5, <2>1, <2>2 DEF Reconnect, TypeOK
    <2> QED
      BY <1>5, <2>3 DEF Reconnect, TypeOK
  <1> QED
    BY <1>1, <1>2, <1>3, <1>4, <1>5 DEF Serve

\* Every step is well typed.
LEMMA TypeStep == TypeOK /\ [Next]_vars => TypeOK'
  <1> SUFFICES ASSUME TypeOK, [Next]_vars PROVE TypeOK'
    OBVIOUS
  <1>1. CASE UNCHANGED vars
    BY <1>1 DEF vars, deploy, account, rewrite, history, TypeOK
  <1> QED
    BY <1>1, OperatorTypes, ScriptTypes, ServiceTypes DEF Next

-----------------------------------------------------------------------------
(* Keys.                                                                   *)

\* A row sealed by a vault is opened by every vault that holds its key.
LEMMA SealOpens ==
  ASSUME NEW vault, NEW other, NEW grant
  PROVE  /\ Seal(vault, grant).key = vault.primary
         /\ Seal(vault, grant).grant = grant
         /\ vault.primary \in {other.primary} \cup other.previous
              => Opens(other, Seal(vault, grant))
  BY DEF Seal, Opens

\* Whatever a service seals, the keys deployed open, and outside "both" with the
\* primary one.
LEMMA ServiceKeys ==
  ASSUME TypeOK, KeysInv, NEW s \in Services
  PROVE  /\ ring[s].primary \in {config.primary} \cup config.previous
         /\ stage # "both" => ring[s].primary = config.primary
  BY DEF TypeOK, KeysInv, Deploys, Deployed, Retired

\* The operator's steps keep the keys in step with the procedure.
LEMMA OperatorKeys ==
  ASSUME TypeOK, KeysInv
  PROVE  /\ Introduce \/ Clear \/ Settle => KeysInv'
         /\ \A s \in Services : Restart(s) => KeysInv'
  <1> USE DEF deploy, account, rewrite, history
  <1>1. ASSUME Introduce PROVE KeysInv'
    <2>1. /\ config'.primary = config.primary + 1
          /\ config'.previous = {config.primary}
          /\ config'.primary - 1 = config.primary
      BY <1>1 DEF Introduce, TypeOK, Ring, Keys
    <2>2. config = [primary |-> config.primary, previous |-> {}]
      BY <1>1 DEF Introduce, TypeOK, Ring, KeysInv, Deploys
    <2>3. Deploys'
      BY <1>1, <2>1, <2>2 DEF Introduce, KeysInv, Deploys, Deployed, Retired
    <2>4. AlwaysReadable'
      BY <1>1, <2>1 DEF Introduce, KeysInv, NoneBehind, IsCurrent,
                        AlwaysReadable, Opens
    <2>5. NoneBehind' /\ ScriptWindow'
      BY <1>1 DEF Introduce, KeysInv, NoneBehind, ScriptWindow
    <2> QED
      BY <2>3, <2>4, <2>5 DEF KeysInv
  <1>2. ASSUME Clear PROVE KeysInv'
    BY <1>2 DEF Clear, KeysInv, Deploys, Deployed, AlwaysReadable, NoneBehind,
                IsCurrent, Opens, ScriptWindow
  <1>3. ASSUME Settle PROVE KeysInv'
    BY <1>3 DEF Settle, KeysInv, Deploys, Deployed, AlwaysReadable, NoneBehind,
                IsCurrent, Opens, ScriptWindow
  <1>4. ASSUME NEW s \in Services, Restart(s) PROVE KeysInv'
    <2>1. \A q \in Services : ring'[q] = IF q = s THEN config ELSE ring[q]
      BY <1>4 DEF Restart, TypeOK
    <2> QED
      BY <1>4, <2>1 DEF Restart, KeysInv, Deploys, Deployed, Retired,
         AlwaysReadable, NoneBehind, IsCurrent, Opens, ScriptWindow
  <1> QED
    BY <1>1, <1>2, <1>3, <1>4

\* The script seals only with the primary key; when it has seen no row under
\* another, there is none.
LEMMA ScriptKeys ==
  ASSUME TypeOK, KeysInv
  PROVE  /\ Begin \/ Count \/ Interrupt => KeysInv'
         /\ \A a \in Accounts : Script(a) => KeysInv'
  <1> USE DEF deploy, account, rewrite, history
  <1>1. ASSUME Begin PROVE KeysInv'
    BY <1>1 DEF Begin, KeysInv, Deploys, Deployed, Retired, AlwaysReadable,
                NoneBehind, IsCurrent, Opens, ScriptWindow
  <1>2. ASSUME Count PROVE KeysInv'
    <2>1. Deployed /\ stage = "both"
      BY <1>2 DEF Count, KeysInv, ScriptWindow
    <2> QED
      BY <1>2, <2>1 DEF Count, KeysInv, Deploys, Deployed, Retired,
         AlwaysReadable, NoneBehind, IsCurrent, Opens, ScriptWindow
  <1>3. ASSUME Interrupt PROVE KeysInv'
    BY <1>3 DEF Interrupt, KeysInv, Deploys, Deployed, Retired, AlwaysReadable,
                NoneBehind, IsCurrent, Opens, ScriptWindow
  <1>4. ASSUME NEW a \in Accounts, Skip(a) \/ FailOne(a) PROVE KeysInv'
    BY <1>4 DEF Skip, FailOne, KeysInv, Deploys, Deployed, Retired,
       AlwaysReadable, NoneBehind, IsCurrent, Opens, ScriptWindow
  <1>5. ASSUME NEW a \in Accounts, Rewrite(a) PROVE KeysInv'
    <2>1. /\ sealed'[a].key = config.primary
          /\ \A b \in Accounts : b # a => sealed'[b] = sealed[b]
      BY <1>5, SealOpens DEF Rewrite, TypeOK
    <2> QED
      BY <1>5, <2>1 DEF Rewrite, KeysInv, Deploys, Deployed, Retired,
         AlwaysReadable, NoneBehind, IsCurrent, Opens, ScriptWindow
  <1> QED
    BY <1>1, <1>2, <1>3, <1>4, <1>5 DEF Script

\* The services write what the keys deployed open.
LEMMA ServiceKeysStep ==
  ASSUME TypeOK, KeysInv, NEW a \in Accounts, Serve(a)
  PROVE  KeysInv'
  <1> USE DEF deploy, account, rewrite, history
  <1>1. UNCHANGED <<config, stage, ring, script>>
    BY DEF Serve, Read, Save, Release, Flag, Reconnect
  <1>2. \A b \in Accounts :
          \/ sealed'[b] = sealed[b]
          \/ \E s \in Services : sealed'[b].key = ring[s].primary
    <2>1. CASE Read(a) \/ Release(a) \/ Flag(a)
      BY <2>1 DEF Read, Release, Flag
    <2>2. CASE Save(a)
      <3>1. PICK row \in held[a] :
              sealed' = [sealed EXCEPT ![a] = Seal(ring["worker"], row.grant)]
        BY <2>2 DEF Save
      <3> QED
        BY <3>1, SealOpens DEF TypeOK, Services
    <2>3. CASE Reconnect(a)
      BY <2>3, SealOpens DEF Reconnect, TypeOK, Services
    <2> QED
      BY <2>1, <2>2, <2>3 DEF Serve
  <1>3. AlwaysReadable' /\ NoneBehind'
    BY <1>1, <1>2, ServiceKeys DEF KeysInv, AlwaysReadable, NoneBehind, Opens,
                                   IsCurrent
  <1> QED
    BY <1>1, <1>3 DEF KeysInv, Deploys, Deployed, Retired, ScriptWindow

\* Every step keeps them.
LEMMA KeysStep == TypeOK /\ KeysInv /\ [Next]_vars => KeysInv'
  <1> SUFFICES ASSUME TypeOK, KeysInv, [Next]_vars PROVE KeysInv'
    OBVIOUS
  <1>1. CASE UNCHANGED vars
    BY <1>1 DEF vars, deploy, account, rewrite, history, KeysInv, Deploys,
       Deployed, Retired, AlwaysReadable, NoneBehind, IsCurrent, Opens,
       ScriptWindow
  <1> QED
    BY <1>1, OperatorKeys, ScriptKeys, ServiceKeysStep DEF Next

\* The first deployment has one key, and every row under it.
LEMMA KeysInit == Init => KeysInv
  BY DEF Init, KeysInv, Deploys, Deployed, AlwaysReadable, NoneBehind, IsCurrent,
     Opens, ScriptWindow, Services

-----------------------------------------------------------------------------
(* What the worker can open, and what its jobs bring back.                 *)

\* The worker goes on opening what is stored and what its jobs hold, except for a
\* mailbox connected ahead of it; so it flags none but those.
LEMMA WorkerStep ==
  ASSUME TypeOK, KeysInv, WorkerOpens, NobodyFlagged, [Next]_vars
  PROVE  WorkerOpens' /\ NobodyFlagged'
  <1> USE DEF deploy, account, rewrite, history
  <1>1. CASE UNCHANGED vars
    BY <1>1 DEF vars, WorkerOpens, NobodyFlagged, Opens
  <1>2. CASE Introduce \/ Clear \/ Settle \/ Begin \/ Count \/ Interrupt
    BY <1>2 DEF Introduce, Clear, Settle, Begin, Count, Interrupt, WorkerOpens,
                NobodyFlagged, Opens
  <1>3. ASSUME NEW s \in Services, Restart(s)
        PROVE  WorkerOpens' /\ NobodyFlagged'
    <2>1. CASE s = "worker"
      <3>1. ring'["worker"] = config /\ \A a \in Accounts : held'[a] = {}
        BY <1>3, <2>1 DEF Restart, TypeOK
      <3> QED
        BY <1>3, <3>1 DEF Restart, WorkerOpens, NobodyFlagged, KeysInv,
                          AlwaysReadable, Opens
    <2>2. CASE s # "worker"
      <3>1. /\ ring'["worker"] = ring["worker"]
            /\ \A a \in Accounts : held'[a] = held[a]
        BY <1>3, <2>2 DEF Restart, TypeOK, Services
      <3> QED
        BY <1>3, <3>1 DEF Restart, WorkerOpens, NobodyFlagged, Opens
    <2> QED
      BY <2>1, <2>2
  <1>4. ASSUME NEW a \in Accounts, Skip(a) \/ FailOne(a)
        PROVE  WorkerOpens' /\ NobodyFlagged'
    BY <1>4 DEF Skip, FailOne, WorkerOpens, NobodyFlagged, Opens
  <1>5. ASSUME NEW a \in Accounts, Rewrite(a)
        PROVE  WorkerOpens' /\ NobodyFlagged'
    <2>1. ring["worker"] = config
      BY <1>5 DEF Rewrite, TypeOK, KeysInv, ScriptWindow, Deployed, Services
    <2>2. /\ sealed'[a].key = config.primary
          /\ \A b \in Accounts : b # a => sealed'[b] = sealed[b]
      BY <1>5, SealOpens DEF Rewrite, TypeOK
    <2> QED
      BY <1>5, <2>1, <2>2 DEF Rewrite, WorkerOpens, NobodyFlagged, Opens
  <1>6. ASSUME NEW a \in Accounts, Read(a) \/ Release(a)
        PROVE  WorkerOpens' /\ NobodyFlagged'
    <2>1. /\ held'[a] \subseteq held[a] \cup {sealed[a]}
          /\ \A b \in Accounts : b # a => held'[b] = held[b]
      BY <1>6 DEF Read, Release, TypeOK
    <2> QED
      BY <1>6, <2>1 DEF Read, Release, WorkerOpens, NobodyFlagged, Opens
  <1>7. ASSUME NEW a \in Accounts, Save(a)
        PROVE  WorkerOpens' /\ NobodyFlagged'
    <2>1. PICK row \in held[a] :
            /\ sealed' = [sealed EXCEPT ![a] = Seal(ring["worker"], row.grant)]
            /\ held' = [held EXCEPT ![a] = @ \ {row}]
      BY <1>7 DEF Save
    <2>2. /\ sealed'[a].key = ring["worker"].primary
          /\ held'[a] \subseteq held[a]
          /\ \A b \in Accounts : b # a => /\ sealed'[b] = sealed[b]
                                          /\ held'[b] = held[b]
      BY <2>1, SealOpens DEF TypeOK
    <2> QED
      BY <1>7, <2>2 DEF Save, WorkerOpens, NobodyFlagged, Opens
  <1>8. ASSUME NEW a \in Accounts, Flag(a)
        PROVE  WorkerOpens' /\ NobodyFlagged'
    <2>1. a \in straddled
      BY <1>8 DEF Flag, WorkerOpens
    <2>2. /\ held'[a] \subseteq held[a]
          /\ \A b \in Accounts : b # a => /\ status'[b] = status[b]
                                          /\ held'[b] = held[b]
      BY <1>8 DEF Flag, TypeOK
    <2> QED
      BY <1>8, <2>1, <2>2 DEF Flag, WorkerOpens, NobodyFlagged, Opens
  <1>9. ASSUME NEW a \in Accounts, Reconnect(a)
        PROVE  WorkerOpens' /\ NobodyFlagged'
    <2>1. \A b \in Accounts : b # a => /\ sealed'[b] = sealed[b]
                                       /\ status'[b] = status[b]
      BY <1>9 DEF Reconnect, TypeOK
    <2>2. status'[a] = "active"
      BY <1>9 DEF Reconnect, TypeOK
    <2>3. /\ straddled \subseteq straddled'
          /\ a \in straddled' \/ Opens(ring["worker"], sealed'[a])
      BY <1>9 DEF Reconnect
    <2> QED
      BY <1>9, <2>1, <2>2, <2>3 DEF Reconnect, WorkerOpens, NobodyFlagged, Opens
  <1> QED
    BY <1>1, <1>2, <1>3, <1>4, <1>5, <1>6, <1>7, <1>8, <1>9 DEF Next, Script, Serve

\* The grants that a job or the script may write back are the last ones, except
\* for a mailbox connected while they held its row.
LEMMA FreshStep ==
  ASSUME TypeOK, KeysInv, Fresh, LastGrantKept, [Next]_vars
  PROVE  Fresh' /\ LastGrantKept'
  <1> USE DEF deploy, account, rewrite, history
  <1>1. CASE UNCHANGED vars
    BY <1>1 DEF vars, Fresh, LastGrantKept, IsCurrent
  <1>2. CASE Introduce \/ Clear
    <2>1. todo = {}
      BY <1>2 DEF Introduce, Clear, TypeOK, KeysInv, ScriptWindow
    <2> QED
      BY <1>2, <2>1 DEF Introduce, Clear, Fresh, LastGrantKept
  <1>3. CASE Settle \/ Count \/ Interrupt
    BY <1>3 DEF Settle, Count, Interrupt, Fresh, LastGrantKept, IsCurrent
  <1>4. CASE Begin
    BY <1>4 DEF Begin, Fresh, LastGrantKept, IsCurrent, TypeOK
  <1>5. ASSUME NEW s \in Services, Restart(s) PROVE Fresh' /\ LastGrantKept'
    <2>1. \A a \in Accounts : held'[a] \subseteq held[a]
      BY <1>5 DEF Restart, TypeOK
    <2> QED
      BY <1>5, <2>1 DEF Restart, Fresh, LastGrantKept, IsCurrent
  <1>6. ASSUME NEW a \in Accounts, Script(a) PROVE Fresh' /\ LastGrantKept'
    <2>1. /\ todo' \subseteq todo
          /\ UNCHANGED <<config, list, held, grants, overtaken>>
      BY <1>6 DEF Script, Skip, Rewrite, FailOne
    <2>2. ASSUME NEW b \in Accounts, sealed'[b] # sealed[b]
          PROVE  /\ b \in todo /\ ~IsCurrent(config, list[b])
                 /\ sealed'[b].grant = list[b].grant
      <3>1. Rewrite(a)
        BY <1>6, <2>2 DEF Script, Skip, FailOne
      <3>2. sealed'[a] = Seal(config, list[a].grant) /\ a = b
        BY <3>1, <2>2 DEF Rewrite, TypeOK
      <3> QED
        BY <3>1, <3>2, SealOpens DEF Rewrite
    <2> QED
      BY <2>1, <2>2 DEF Fresh, LastGrantKept, IsCurrent
  <1>7. ASSUME NEW a \in Accounts, Read(a) \/ Release(a) \/ Flag(a)
        PROVE  Fresh' /\ LastGrantKept'
    <2>1. /\ held'[a] \subseteq held[a] \cup {sealed[a]}
          /\ \A b \in Accounts : b # a => held'[b] = held[b]
      BY <1>7 DEF Read, Release, Flag, TypeOK
    <2> QED
      BY <1>7, <2>1 DEF Read, Release, Flag, Fresh, LastGrantKept, IsCurrent
  <1>8. ASSUME NEW a \in Accounts, Save(a) PROVE Fresh' /\ LastGrantKept'
    <2>1. PICK row \in held[a] :
            /\ sealed' = [sealed EXCEPT ![a] = Seal(ring["worker"], row.grant)]
            /\ held' = [held EXCEPT ![a] = @ \ {row}]
      BY <1>8 DEF Save
    <2>2. /\ sealed'[a].grant = row.grant
          /\ held'[a] \subseteq held[a]
          /\ \A b \in Accounts : b # a => /\ sealed'[b] = sealed[b]
                                          /\ held'[b] = held[b]
      BY <2>1, SealOpens DEF TypeOK
    <2> QED
      BY <1>8, <2>2 DEF Save, Fresh, LastGrantKept, IsCurrent
  <1>9. ASSUME NEW a \in Accounts, Reconnect(a) PROVE Fresh' /\ LastGrantKept'
    <2>1. /\ sealed'[a].grant = grants'[a]
          /\ \A b \in Accounts : b # a => /\ sealed'[b] = sealed[b]
                                          /\ grants'[b] = grants[b]
      BY <1>9, SealOpens DEF Reconnect, TypeOK
    <2>2. /\ overtaken \subseteq overtaken'
          /\ InUse(a) => a \in overtaken'
      BY <1>9 DEF Reconnect
    <2> QED
      BY <1>9, <2>1, <2>2 DEF Reconnect, InUse, Fresh, LastGrantKept, IsCurrent,
                              TypeOK
  <1> QED
    BY <1>1, <1>2, <1>3, <1>4, <1>5, <1>6, <1>7, <1>8, <1>9 DEF Next, Serve

-----------------------------------------------------------------------------
(* The theorems.                                                           *)

\* All of it together is inductive.
LEMMA InvStep == Inv /\ [Next]_vars => Inv'
  <1> SUFFICES ASSUME Inv, [Next]_vars PROVE Inv'
    OBVIOUS
  <1>1. TypeOK'
    BY TypeStep DEF Inv
  <1>2. KeysInv'
    BY KeysStep DEF Inv
  <1>3. WorkerOpens' /\ NobodyFlagged'
    BY WorkerStep DEF Inv
  <1>4. Fresh' /\ LastGrantKept'
    BY FreshStep DEF Inv
  <1> QED
    BY <1>1, <1>2, <1>3, <1>4 DEF Inv

\* The first deployment satisfies it.
LEMMA InvInit == Init => Inv
  <1> SUFFICES ASSUME Init PROVE Inv
    OBVIOUS
  <1>1. TypeOK /\ KeysInv
    BY TypeInit, KeysInit
  <1>2. WorkerOpens /\ NobodyFlagged
    BY DEF Init, WorkerOpens, NobodyFlagged, Opens, Services
  <1>3. Fresh /\ LastGrantKept
    BY DEF Init, Fresh, LastGrantKept
  <1> QED
    BY <1>1, <1>2, <1>3 DEF Inv

\* It holds throughout.
LEMMA Always == Spec => []Inv
  <1> QED
    BY InvInit, InvStep, PTL DEF Spec

\* Every variable keeps its type, and only a running script has accounts to do.
THEOREM TypeCorrect == Spec => []TypeOK
  <1>1. Inv => TypeOK
    BY DEF Inv
  <1> QED
    BY <1>1, Always, PTL

\* Clearing the old key never makes a stored token undecryptable, wherever the
\* script failed or was interrupted and whatever the services wrote meanwhile.
THEOREM Readable == Spec => []AlwaysReadable
  <1>1. Inv => AlwaysReadable
    BY DEF Inv, KeysInv
  <1> QED
    BY <1>1, Always, PTL

\* A rotation flags no mailbox for authorizing again, but one connected by a web
\* service deployed ahead of the worker.
THEOREM NoNeedlessReauth == Spec => []NobodyFlagged
  <1>1. Inv => NobodyFlagged
    BY DEF Inv
  <1> QED
    BY <1>1, Always, PTL

\* A rotation brings back no grant the user has superseded, but where a job or
\* the script held the row before.
THEOREM LastGrant == Spec => []LastGrantKept
  <1>1. Inv => LastGrantKept
    BY DEF Inv
  <1> QED
    BY <1>1, Always, PTL

-----------------------------------------------------------------------------
(* Readers.                                                                *)

\* No row, read or stored, holds a grant the user has yet to give.
Past ==
  \A a \in Accounts : /\ \A row \in held[a] : row.grant <= grants[a]
                      /\ list[a].grant <= grants[a]
                      /\ sealed[a].grant <= grants[a]

\* The first rows hold the first grant.
LEMMA PastInit == Init => Past
  <1> SUFFICES ASSUME Init, NEW a \in Accounts
               PROVE  /\ \A row \in held[a] : row.grant <= grants[a]
                      /\ list[a].grant <= grants[a]
                      /\ sealed[a].grant <= grants[a]
    BY DEF Past
  <1>1. sealed[a].grant = 1 /\ list[a].grant = 1 /\ grants[a] = 1 /\ held[a] = {}
    BY DEF Init
  <1> QED
    BY <1>1

\* What a step writes has been given before, or is what the user gives.
LEMMA PastStep == TypeOK /\ Past /\ [Next]_vars => Past'
  <1> SUFFICES ASSUME TypeOK, Past, [Next]_vars PROVE Past'
    OBVIOUS
  <1> USE DEF deploy, account, rewrite, history
  <1>1. CASE UNCHANGED vars
    BY <1>1 DEF vars, Past
  <1>2. CASE Introduce \/ Clear \/ Settle \/ Count \/ Interrupt
    BY <1>2 DEF Introduce, Clear, Settle, Count, Interrupt, Past
  <1>3. CASE Begin
    BY <1>3 DEF Begin, Past
  <1>4. ASSUME NEW s \in Services, Restart(s) PROVE Past'
    <2>1. \A a \in Accounts : held'[a] \subseteq held[a]
      BY <1>4 DEF Restart, TypeOK
    <2> QED
      BY <1>4, <2>1 DEF Restart, Past
  <1>5. ASSUME NEW a \in Accounts, Script(a) PROVE Past'
    <2>1. UNCHANGED <<list, held, grants>>
      BY <1>5 DEF Script, Skip, Rewrite, FailOne
    <2>2. \A b \in Accounts : sealed'[b].grant \in {sealed[b].grant, list[b].grant}
      BY <1>5, SealOpens DEF Script, Skip, Rewrite, FailOne, TypeOK
    <2> QED
      BY <2>1, <2>2 DEF Past
  <1>6. ASSUME NEW a \in Accounts, Read(a) \/ Release(a) \/ Flag(a) PROVE Past'
    <2>1. /\ held'[a] \subseteq held[a] \cup {sealed[a]}
          /\ \A b \in Accounts : b # a => held'[b] = held[b]
      BY <1>6 DEF Read, Release, Flag, TypeOK
    <2> QED
      BY <1>6, <2>1 DEF Read, Release, Flag, Past
  <1>7. ASSUME NEW a \in Accounts, Save(a) PROVE Past'
    <2>1. PICK row \in held[a] :
            /\ sealed' = [sealed EXCEPT ![a] = Seal(ring["worker"], row.grant)]
            /\ held' = [held EXCEPT ![a] = @ \ {row}]
      BY <1>7 DEF Save
    <2>2. /\ sealed'[a].grant = row.grant
          /\ held'[a] \subseteq held[a]
          /\ \A b \in Accounts : b # a => /\ sealed'[b] = sealed[b]
                                          /\ held'[b] = held[b]
      BY <2>1, SealOpens DEF TypeOK
    <2> QED
      BY <1>7, <2>2 DEF Save, Past
  <1>8. ASSUME NEW a \in Accounts, Reconnect(a) PROVE Past'
    <2>1. /\ sealed'[a].grant = grants'[a]
          /\ \A b \in Accounts : b # a => /\ sealed'[b] = sealed[b]
                                          /\ grants'[b] = grants[b]
      BY <1>8, SealOpens DEF Reconnect, TypeOK
    <2>2. grants[a] \in Int /\ grants'[a] = grants[a] + 1 /\ UNCHANGED <<held, list>>
      BY <1>8, RotationAssumption DEF Reconnect, TypeOK
    <2>3. list[a].grant \in Int /\ \A row \in held[a] : row.grant \in Int
      BY RotationAssumption DEF TypeOK, Row
    <2>4. /\ \A row \in held[a] : row.grant <= grants'[a]
          /\ list[a].grant <= grants'[a]
      BY <2>2, <2>3 DEF Past
    <2> QED
      BY <2>1, <2>2, <2>4 DEF Past
  <1> QED
    BY <1>1, <1>2, <1>3, <1>4, <1>5, <1>6, <1>7, <1>8 DEF Next, Serve

\* What a reader gets of each row, and whose users are asked to authorize again.
Store   == [a \in Accounts |-> IF Opens(config, sealed[a]) THEN sealed[a].grant ELSE 0]
Flagged == {a \in Accounts : status[a] = "reauth_required"}

\* A step that changes no grant and no flag is none to the readers: every row can be
\* opened before it and after it.
LEMMA UnseenStep ==
  ASSUME AlwaysReadable, AlwaysReadable',
         \A a \in Accounts : sealed'[a].grant = sealed[a].grant,
         UNCHANGED <<status, grants, overtaken, straddled>>
  PROVE  UNCHANGED Promise!vars
  <1>1. Store' = Store
    BY DEF Store, AlwaysReadable
  <1>2. Flagged' = Flagged
    BY DEF Flagged
  <1> QED
    BY <1>1, <1>2 DEF Store, Flagged, Promise!vars

\* A row written back is as it was, unless its mailbox was connected meanwhile.
LEMMA WrittenBack ==
  ASSUME TypeOK, Past, AlwaysReadable, AlwaysReadable', LastGrantKept, NEW a \in Accounts,
         NEW g \in 1 .. grants[a], a \notin overtaken => g = grants[a],
         sealed'[a].grant = g, \A b \in Accounts : b # a => sealed'[b] = sealed[b],
         UNCHANGED <<status, grants, overtaken, straddled>>
  PROVE  Promise!Relapse(a) \/ UNCHANGED Promise!vars
  <1>1. CASE a \in overtaken
    <2>1. Store' = [Store EXCEPT ![a] = g]
      BY DEF Store, AlwaysReadable
    <2>2. Flagged' = Flagged
      BY DEF Flagged
    <2> QED
      BY <1>1, <2>1, <2>2 DEF Store, Flagged, Promise!Relapse
  <1>2. CASE a \notin overtaken
    <2>1. \A b \in Accounts : sealed'[b].grant = sealed[b].grant
      BY <1>2 DEF LastGrantKept
    <2> QED
      BY <2>1, UnseenStep
  <1> QED
    BY <1>1, <1>2

\* A step of the whole is one of the store or none.
LEMMA Simulates == Inv /\ Inv' /\ Past /\ [Next]_vars => [Promise!Next]_(Promise!vars)
  <1> SUFFICES ASSUME Inv, Inv', Past, [Next]_vars
               PROVE  Promise!Next \/ UNCHANGED Promise!vars
    OBVIOUS
  <1> USE DEF deploy, account, rewrite, history
  <1>1. TypeOK /\ AlwaysReadable /\ AlwaysReadable' /\ LastGrantKept /\ Fresh
    BY DEF Inv, KeysInv
  <1>2. ASSUME UNCHANGED <<sealed, status, grants, overtaken, straddled>>
        PROVE  UNCHANGED Promise!vars
    BY <1>1, <1>2, UnseenStep
  <1>3. ASSUME NEW a \in Accounts, Rewrite(a) PROVE Promise!Next \/ UNCHANGED Promise!vars
    <2>1. /\ sealed'[a].grant = list[a].grant
          /\ \A b \in Accounts : b # a => sealed'[b] = sealed[b]
      BY <1>1, <1>3, SealOpens DEF Rewrite, TypeOK
    <2>2. a \notin overtaken => list[a].grant = grants[a]
      BY <1>1, <1>3 DEF Rewrite, Fresh
    <2>3. list[a].grant \in 1 .. grants[a]
      BY <1>1, RotationAssumption DEF TypeOK, Row, Past
    <2>4. UNCHANGED <<status, grants, overtaken, straddled>>
      BY <1>3 DEF Rewrite
    <2> QED
      BY <1>1, <2>1, <2>2, <2>3, <2>4, WrittenBack DEF Promise!Next
  <1>4. ASSUME NEW a \in Accounts, Save(a) PROVE Promise!Next \/ UNCHANGED Promise!vars
    <2>1. PICK row \in held[a] :
            sealed' = [sealed EXCEPT ![a] = Seal(ring["worker"], row.grant)]
      BY <1>4 DEF Save
    <2>2. /\ sealed'[a].grant = row.grant
          /\ \A b \in Accounts : b # a => sealed'[b] = sealed[b]
      BY <1>1, <2>1, SealOpens DEF TypeOK
    <2>3. a \notin overtaken => row.grant = grants[a]
      BY <1>1 DEF Fresh
    <2>4. row.grant \in 1 .. grants[a]
      BY <1>1, RotationAssumption DEF TypeOK, Row, Past
    <2>5. UNCHANGED <<status, grants, overtaken, straddled>>
      BY <1>4 DEF Save
    <2> QED
      BY <1>1, <2>2, <2>3, <2>4, <2>5, WrittenBack DEF Promise!Next
  <1>5. ASSUME NEW a \in Accounts, Flag(a) PROVE Promise!Next
    <2>1. a \in straddled
      BY <1>5 DEF Flag, Inv, WorkerOpens
    <2>2. Flagged' = Flagged \cup {a}
      BY <1>1, <1>5 DEF Flag, Flagged, TypeOK
    <2>3. Store' = Store
      BY <1>5 DEF Flag, Store
    <2>4. Promise!Flag(a)
      BY <1>5, <2>1, <2>2, <2>3 DEF Flag, Store, Flagged, Promise!Flag
    <2> QED
      BY <2>4 DEF Promise!Next
  <1>6. ASSUME NEW a \in Accounts, Reconnect(a) PROVE Promise!Next
    <2>1. /\ sealed'[a].grant = grants[a] + 1
          /\ \A b \in Accounts : b # a => sealed'[b] = sealed[b]
      BY <1>1, <1>6, SealOpens DEF Reconnect, TypeOK
    <2>2. Store' = [Store EXCEPT ![a] = grants[a] + 1]
      BY <1>1, <2>1 DEF Store, AlwaysReadable
    <2>3. Flagged' = Flagged \ {a}
      BY <1>1, <1>6 DEF Reconnect, Flagged, TypeOK
    <2>4. /\ grants[a] < MaxGrants
          /\ grants' = [grants EXCEPT ![a] = @ + 1]
          /\ straddled' \in {straddled, straddled \cup {a}}
          /\ overtaken' \in {overtaken, overtaken \cup {a}}
      BY <1>6 DEF Reconnect
    <2>5. Promise!Connect(a)
      BY <2>2, <2>3, <2>4 DEF Store, Flagged, Promise!Connect
    <2> QED
      BY <2>5 DEF Promise!Next
  <1>7. CASE \/ UNCHANGED vars
             \/ Introduce \/ Clear \/ Settle \/ Begin \/ Count \/ Interrupt
             \/ \E s \in Services : Restart(s)
             \/ \E a \in Accounts : Skip(a) \/ FailOne(a) \/ Read(a) \/ Release(a)
    <2>1. UNCHANGED <<sealed, status, grants, overtaken, straddled>>
      BY <1>7 DEF vars, Introduce, Clear, Settle, Begin, Count, Interrupt, Restart, Skip,
                  FailOne, Read, Release
    <2> QED
      BY <1>2, <2>1
  <1> QED
    BY <1>3, <1>4, <1>5, <1>6, <1>7 DEF Next, Script, Serve

\* KeyRotation implements Credentials: to those who read the rows a rotation is not
\* there, for any number of mailboxes, rotations and grants, wherever the script fails
\* or is interrupted and whatever the services write meanwhile.
THEOREM Refines == Spec => RotationUnseen
  <1>1. Init => Promise!Init
    <2> SUFFICES ASSUME Init PROVE Promise!Init
      OBVIOUS
    <2>1. Store = [a \in Accounts |-> 1]
      BY DEF Init, Store, Opens
    <2>2. Flagged = {}
      BY DEF Init, Flagged
    <2> QED
      BY <2>1, <2>2 DEF Init, Store, Flagged, Promise!Init
  <1>2. Spec => []Past
    <2>1. Inv => TypeOK
      BY DEF Inv
    <2> QED
      BY <2>1, Always, PastInit, PastStep, PTL DEF Spec
  <1> QED
    BY <1>1, <1>2, Always, Simulates, PTL DEF Spec, RotationUnseen, Promise!Spec

-----------------------------------------------------------------------------
(* What each reader gets.                                                  *)

\* What a job of the worker opens with the vault the worker has, and what the script
\* opens with the one it was started with: any row stored or read and not done with,
\* and in it a grant of the user, the last unless the mailbox was connected while the
\* row was about to be written.  A worker that lags behind the keys deployed may fail
\* on the mailboxes connected by a web service that does not, until it starts again.
Served ==
  \A a \in Accounts :
    /\ a \notin straddled \/ ring["worker"] = config =>
         \A row \in {sealed[a]} \cup held[a] : Opens(ring["worker"], row)
    /\ script = "running" => Opens(config, sealed[a]) /\ Opens(config, list[a])
    /\ \A row \in {sealed[a]} \cup held[a] :
         /\ row.grant \in 1 .. grants[a]
         /\ a \notin overtaken => row.grant = grants[a]

\* The rows in the hands of a worker that has the keys deployed, and of the script.
HeldOpens ==
  \A a \in Accounts :
    /\ ring["worker"] = config => \A row \in held[a] : Opens(config, row)
    /\ script = "running" => Opens(config, list[a])

\* Nothing is in anybody's hands at first.
LEMMA HeldInit == Init => HeldOpens
  BY DEF Init, HeldOpens

\* The keys change only under a worker that thereby lags behind, and not while the
\* script runs; a worker that starts again has read nothing.
LEMMA HeldStep == Inv /\ Inv' /\ HeldOpens /\ [Next]_vars => HeldOpens'
  <1> SUFFICES ASSUME Inv, Inv', HeldOpens, [Next]_vars PROVE HeldOpens'
    OBVIOUS
  <1> USE DEF deploy, account, rewrite, history
  <1>1. /\ TypeOK /\ Deploys /\ AlwaysReadable /\ ScriptWindow
        /\ AlwaysReadable' /\ ScriptWindow'
    BY DEF Inv, KeysInv
  <1>2. CASE UNCHANGED vars
    BY <1>2 DEF vars, HeldOpens, Opens
  <1>3. CASE Introduce
    <2>1. ring["worker"] = config /\ config' # config /\ ring' = ring
      BY <1>1, <1>3 DEF Introduce, Deploys, Deployed, Services, TypeOK, Ring, Keys
    <2>2. stage' = "both" /\ script' # "running"
      BY <1>1, <1>3 DEF Introduce, ScriptWindow
    <2> QED
      BY <2>1, <2>2 DEF HeldOpens
  <1>4. CASE Clear
    <2>1. script' # "running"
      BY <1>1, <1>4 DEF Clear, ScriptWindow
    <2>2. ring["worker"] = config /\ UNCHANGED <<ring, held>>
      BY <1>1, <1>4 DEF Clear, Deploys, Deployed, Services
    <2>3. ring'["worker"] = config' => config' = config
      BY <2>2
    <2> QED
      BY <2>1, <2>2, <2>3 DEF HeldOpens, Opens
  <1>5. CASE Settle \/ Count \/ Interrupt
    BY <1>5 DEF Settle, Count, Interrupt, HeldOpens, Opens
  <1>6. CASE Begin
    BY <1>1, <1>6 DEF Begin, HeldOpens, AlwaysReadable, Opens
  <1>7. ASSUME NEW s \in Services, Restart(s) PROVE HeldOpens'
    <2>1. CASE s = "worker"
      BY <1>7, <2>1 DEF Restart, HeldOpens, Opens
    <2>2. CASE s # "worker"
      BY <1>1, <1>7, <2>2 DEF Restart, HeldOpens, Opens, TypeOK, Services
    <2> QED
      BY <2>1, <2>2
  <1>8. ASSUME NEW a \in Accounts, Script(a) PROVE HeldOpens'
    BY <1>8 DEF Script, Skip, Rewrite, FailOne, HeldOpens, Opens
  <1>9. ASSUME NEW a \in Accounts, Serve(a) PROVE HeldOpens'
    <2>1. \A b \in Accounts : held'[b] \subseteq held[b] \cup {sealed[b]}
      BY <1>1, <1>9 DEF Serve, Read, Save, Release, Flag, Reconnect, TypeOK
    <2>2. UNCHANGED <<config, ring, script, list>>
      BY <1>9 DEF Serve, Read, Save, Release, Flag, Reconnect
    <2> QED
      BY <1>1, <2>1, <2>2 DEF HeldOpens, AlwaysReadable, Opens
  <1> QED
    BY <1>2, <1>3, <1>4, <1>5, <1>6, <1>7, <1>8, <1>9 DEF Next

\* At every moment of a rotation each reader opens what it reads with its own vault,
\* and finds a grant of the mailbox's user in it: every job of the worker, except for a
\* mailbox connected ahead of it as long as it lags behind, and the script always.
THEOREM ReadersServed == Spec => []Served
  <1>1. Spec => []Past
    <2>1. Inv => TypeOK
      BY DEF Inv
    <2> QED
      BY <2>1, Always, PastInit, PastStep, PTL DEF Spec
  <1>2. Spec => []HeldOpens
    BY Always, HeldInit, HeldStep, PTL DEF Spec
  <1>3. Inv /\ Past /\ HeldOpens => Served
    <2> SUFFICES ASSUME Inv, Past, HeldOpens, NEW a \in Accounts
                 PROVE  /\ a \notin straddled \/ ring["worker"] = config =>
                             \A row \in {sealed[a]} \cup held[a] : Opens(ring["worker"], row)
                        /\ script = "running" => /\ Opens(config, sealed[a])
                                                 /\ Opens(config, list[a])
                        /\ \A row \in {sealed[a]} \cup held[a] :
                             /\ row.grant \in 1 .. grants[a]
                             /\ a \notin overtaken => row.grant = grants[a]
      BY DEF Served
    <2>1. /\ TypeOK /\ WorkerOpens /\ AlwaysReadable
          /\ LastGrantKept /\ Fresh
      BY DEF Inv, KeysInv
    <2>2. a \notin straddled \/ ring["worker"] = config =>
            \A row \in {sealed[a]} \cup held[a] : Opens(ring["worker"], row)
      BY <2>1 DEF WorkerOpens, AlwaysReadable, HeldOpens
    <2>3. script = "running" => Opens(config, sealed[a]) /\ Opens(config, list[a])
      BY <2>1 DEF AlwaysReadable, HeldOpens
    <2>4. ASSUME NEW row \in {sealed[a]} \cup held[a]
          PROVE  row.grant \in 1 .. grants[a] /\ (a \notin overtaken => row.grant = grants[a])
      <3>1. row \in Row /\ row.grant <= grants[a] /\ grants[a] \in 1 .. MaxGrants
        BY <2>1 DEF TypeOK, Past
      <3>2. row.grant \in 1 .. grants[a]
        BY <3>1, RotationAssumption DEF Row
      <3>3. a \notin overtaken => row.grant = grants[a]
        BY <2>1 DEF LastGrantKept, Fresh
      <3> QED
        BY <3>2, <3>3
    <2> QED
      BY <2>2, <2>3, <2>4
  <1> QED
    BY <1>1, <1>2, <1>3, Always, PTL
=============================================================================
