----------------------------- MODULE KeyRotation -----------------------------
(***************************************************************************)
(* The vault that seals accounts.encrypted_tokens, and the rotation of its *)
(* key: the operator's deploys, the script that re-encrypts the stored     *)
(* rows, and the two services that go on reading and writing them.         *)
(*                                                                         *)
(* A sealed row is the key that sealed it and the grant of the user it     *)
(* holds; keys and grants are numbered as they come into being.  That a    *)
(* key is told from others by eight digits of a hash is left out, and so   *)
(* are rows that no key opens.                                             *)
(***************************************************************************)
EXTENDS Integers

CONSTANTS
  Accounts,  \* connected mailboxes
  MaxKeys,   \* bound: keys ever generated
  MaxGrants  \* bound: times the user authorizes a mailbox

ASSUME RotationAssumption ==
  /\ MaxKeys \in Nat \ {0}
  /\ MaxGrants \in Nat \ {0}

VARIABLES
  config,    \* TOKEN_ENCRYPTION_KEY and _PREVIOUS, as the operator set them
  stage,     \* how far the operator is with docs/key-rotation.md
  ring,      \* the vault each service has cached since it started
  sealed,    \* accounts.encrypted_tokens
  status,    \* accounts.status
  grants,    \* external: grants the user has given for a mailbox so far
  held,      \* rows the worker's jobs have read and not done with
  script,    \* whether reencrypt-tokens runs, has run, or was interrupted
  list,      \* the rows it read when it started
  todo,      \* the accounts it has still to look at
  straddled, \* history: connected by a web service ahead of the worker
  overtaken  \* history: connected while someone still held the row before

deploy  == <<config, stage, ring>>
account == <<sealed, status, grants>>
rewrite == <<script, list, todo>>
history == <<straddled, overtaken>>
vars    == <<deploy, account, held, rewrite, history>>

Keys     == 1 .. MaxKeys
Services == {"web", "worker"}
Ring     == [primary : Keys, previous : SUBSET Keys]
Row      == [key : Keys, grant : 1 .. MaxGrants]

\* The script has rows to look at only while it runs.
TypeOK ==
  /\ config \in Ring
  /\ stage \in {"steady", "both", "counted", "cleared"}
  /\ ring \in [Services -> Ring]
  /\ sealed \in [Accounts -> Row]
  /\ status \in [Accounts -> {"active", "reauth_required"}]
  /\ grants \in [Accounts -> 1 .. MaxGrants]
  /\ held \in [Accounts -> SUBSET Row]
  /\ script \in {"idle", "running", "done"}
  /\ list \in [Accounts -> Row]
  /\ todo \in SUBSET Accounts
  /\ script # "running" => todo = {}
  /\ straddled \in SUBSET Accounts
  /\ overtaken \in SUBSET Accounts

-----------------------------------------------------------------------------
(* The vault.                                                              *)

\* Bug to refute: rows are opened with the primary key only.
OpensCurrent(vault, row) == row.key = vault.primary

\* decryptTokens finds the key that sealed the row, among all it has.
Opens(vault, row) == row.key \in {vault.primary} \cup vault.previous

\* encryptTokens.
Seal(vault, grant) == [key |-> vault.primary, grant |-> grant]

IsCurrent(vault, row) == row.key = vault.primary

Deployed == \A s \in Services : ring[s] = config

-----------------------------------------------------------------------------
(* The operator.                                                           *)

\* Steps 1 and 2: the old key stays for decryption, on both services.
Introduce ==
  /\ stage = "steady"
  /\ config.primary < MaxKeys
  /\ config' = [primary |-> config.primary + 1, previous |-> {config.primary}]
  /\ stage' = "both"
  /\ UNCHANGED <<ring, account, held, rewrite, history>>

\* A service starts again, deployed or crashed, and builds its vault anew.
Restart(s) ==
  /\ ring' = [ring EXCEPT ![s] = config]
  /\ held' = [a \in Accounts |-> IF s = "worker" THEN {} ELSE held[a]]
  /\ UNCHANGED <<config, stage, account, rewrite, history>>

\* Bug to refute: the old key goes before anybody has counted what is left under it.
ClearEarly ==
  /\ stage \in {"both", "counted"}
  /\ config' = [primary |-> config.primary, previous |-> {}]
  /\ stage' = "cleared"
  /\ UNCHANGED <<ring, account, held, rewrite, history>>

\* Step 4, once the script has reported "0 remaining under previous keys".
Clear ==
  /\ stage = "counted"
  /\ config' = [primary |-> config.primary, previous |-> {}]
  /\ stage' = "cleared"
  /\ UNCHANGED <<ring, account, held, rewrite, history>>

Settle ==
  /\ stage = "cleared"
  /\ Deployed
  /\ stage' = "steady"
  /\ UNCHANGED <<config, ring, account, held, rewrite, history>>

-----------------------------------------------------------------------------
(* Step 3: reencrypt-tokens, with the vault of config.                     *)

Begin ==
  /\ stage = "both"
  /\ Deployed
  /\ script # "running"
  /\ script' = "running"
  /\ list' = sealed
  /\ todo' = Accounts
  /\ UNCHANGED <<deploy, account, held, history>>

Skip(a) ==
  /\ a \in todo
  /\ IsCurrent(config, list[a])
  /\ todo' = todo \ {a}
  /\ UNCHANGED <<deploy, account, held, script, list, history>>

\* Bug to refute: a row that needs no new key is written all the same.
RewriteAnyway(a) ==
  /\ a \in todo
  /\ sealed' = [sealed EXCEPT ![a] = Seal(config, list[a].grant)]
  /\ todo' = todo \ {a}
  /\ UNCHANGED <<deploy, status, grants, held, script, list, history>>

\* Bug to refute: the row is sealed with the key it was sealed with.
RewriteSame(a) ==
  /\ a \in todo
  /\ ~IsCurrent(config, list[a])
  /\ sealed' = [sealed EXCEPT ![a] = list[a]]
  /\ todo' = todo \ {a}
  /\ UNCHANGED <<deploy, status, grants, held, script, list, history>>

\* What is sealed anew is the row as it was when the script started.
Rewrite(a) ==
  /\ a \in todo
  /\ ~IsCurrent(config, list[a])
  /\ Opens(config, list[a])
  /\ sealed' = [sealed EXCEPT ![a] = Seal(config, list[a].grant)]
  /\ todo' = todo \ {a}
  /\ UNCHANGED <<deploy, status, grants, held, script, list, history>>

\* A statement on the database fails; the script goes on to the next row.
FailOne(a) ==
  /\ a \in todo
  /\ ~IsCurrent(config, list[a])
  /\ todo' = todo \ {a}
  /\ UNCHANGED <<deploy, account, held, script, list, history>>

\* Bug to refute: the script ends without looking at the rows again.
CountNothing ==
  /\ script = "running"
  /\ todo = {}
  /\ script' = "done"
  /\ stage' = "counted"
  /\ UNCHANGED <<config, ring, account, held, list, todo, history>>

\* Bug to refute: the rows are counted while some are still being rewritten.
CountEarly ==
  /\ script = "running"
  /\ script' = "done"
  /\ stage' = IF \A a \in Accounts : IsCurrent(config, sealed[a]) THEN "counted"
                                                                 ELSE stage
  /\ UNCHANGED <<config, ring, account, held, list, todo, history>>

\* The rows are read again.  Any left under another key, and the operator
\* starts over.
Count ==
  /\ script = "running"
  /\ todo = {}
  /\ script' = "done"
  /\ stage' = IF \A a \in Accounts : IsCurrent(config, sealed[a]) THEN "counted"
                                                                 ELSE stage
  /\ UNCHANGED <<config, ring, account, held, list, todo, history>>

Interrupt ==
  /\ script = "running"
  /\ script' = "idle"
  /\ todo' = {}
  /\ UNCHANGED <<deploy, account, held, list, history>>

-----------------------------------------------------------------------------
(* The services.                                                           *)

\* The worker's syncs, its renewals and token-health read the row first ...
Read(a) ==
  /\ status[a] = "active"
  /\ held' = [held EXCEPT ![a] = @ \cup {sealed[a]}]
  /\ UNCHANGED <<deploy, account, rewrite, history>>

\* ... and, if they refreshed what is in it, write it in the end.
Save(a) ==
  /\ \E row \in held[a] :
       /\ Opens(ring["worker"], row)
       /\ sealed' = [sealed EXCEPT ![a] = Seal(ring["worker"], row.grant)]
       /\ held' = [held EXCEPT ![a] = @ \ {row}]
  /\ UNCHANGED <<deploy, status, grants, rewrite, history>>

Release(a) ==
  /\ \E row \in held[a] : held' = [held EXCEPT ![a] = @ \ {row}]
  /\ UNCHANGED <<deploy, account, rewrite, history>>

\* token-health flags an account whose row it cannot open.
Flag(a) ==
  /\ \E row \in held[a] :
       /\ ~Opens(ring["worker"], row)
       /\ held' = [held EXCEPT ![a] = @ \ {row}]
  /\ status' = [status EXCEPT ![a] = "reauth_required"]
  /\ UNCHANGED <<deploy, sealed, grants, rewrite, history>>

\* Somebody may yet write a row read earlier: a job of the worker, the script.
InUse(a) ==
  \/ held[a] # {}
  \/ a \in todo /\ ~IsCurrent(config, list[a])

\* The user authorizes the mailbox again, in the web service.
Reconnect(a) ==
  /\ grants[a] < MaxGrants
  /\ grants' = [grants EXCEPT ![a] = @ + 1]
  /\ sealed' = [sealed EXCEPT ![a] = Seal(ring["web"], grants[a] + 1)]
  /\ status' = [status EXCEPT ![a] = "active"]
  /\ straddled' = IF Opens(ring["worker"], sealed'[a]) THEN straddled
                                                       ELSE straddled \cup {a}
  /\ overtaken' = IF InUse(a) THEN overtaken \cup {a} ELSE overtaken
  /\ UNCHANGED <<deploy, held, rewrite>>

-----------------------------------------------------------------------------
Init ==
  /\ config = [primary |-> 1, previous |-> {}]
  /\ stage = "steady"
  /\ ring = [s \in Services |-> config]
  /\ sealed = [a \in Accounts |-> [key |-> 1, grant |-> 1]]
  /\ status = [a \in Accounts |-> "active"]
  /\ grants = [a \in Accounts |-> 1]
  /\ held = [a \in Accounts |-> {}]
  /\ script = "idle"
  /\ list = sealed
  /\ todo = {}
  /\ straddled = {}
  /\ overtaken = {}

Script(a) == Skip(a) \/ Rewrite(a) \/ FailOne(a)
Serve(a)  == Read(a) \/ Save(a) \/ Release(a) \/ Flag(a) \/ Reconnect(a)

Next ==
  \/ Introduce \/ Clear \/ Settle
  \/ Begin \/ Count \/ Interrupt
  \/ \E s \in Services : Restart(s)
  \/ \E a \in Accounts : Script(a) \/ Serve(a)

Spec == Init /\ [][Next]_vars

-----------------------------------------------------------------------------
(* What the procedure promises.                                            *)

\* "Clearing the old key before step 3 makes every stored token undecryptable":
\* the procedure never does.  Whatever is stored can be opened with the keys the
\* operator has deployed or is deploying, however the script fails or is
\* interrupted and whatever the services write meanwhile.
AlwaysReadable == \A a \in Accounts : Opens(config, sealed[a])

\* "It never requires re-authorizing a mailbox": none is flagged, except one
\* that was connected while the web service was already deployed with the new
\* key and the worker was not.
NobodyFlagged ==
  \A a \in Accounts : status[a] = "reauth_required" => a \in straddled

\* A rotation brings no superseded grant back: what is stored is the user's
\* last, except where the mailbox was connected while a job of the worker or the
\* script still held the row before.
LastGrantKept ==
  \A a \in Accounts : sealed[a].grant = grants[a] \/ a \in overtaken

\* Seen by those who read a row with the keys deployed or about to be, there are
\* no keys.
Promise == INSTANCE Credentials
             WITH stored  <- [a \in Accounts |-> IF Opens(config, sealed[a])
                                                 THEN sealed[a].grant ELSE 0],
                  given   <- grants,
                  flagged <- {a \in Accounts : status[a] = "reauth_required"},
                  raced   <- overtaken,
                  ahead   <- straddled,
                  Accounts <- Accounts, MaxGrants <- MaxGrants

\* Every step of the operator, the script and the services leaves what is stored
\* and who is flagged as they are, or is a step of Credentials (tokens.ts,
\* reencrypt-tokens.ts, updateTokens).
RotationUnseen == Promise!Spec

\* The operator goes on with the procedure, and starts the script again until
\* nothing remains.
Procedure ==
  /\ WF_vars(Clear) /\ WF_vars(Settle) /\ WF_vars(Begin) /\ WF_vars(Count)
  /\ \A s \in Services : WF_vars(Restart(s))
  /\ \A a \in Accounts : WF_vars(Skip(a) \/ FailOne(a)) /\ SF_vars(Rewrite(a))

FairSpec == Spec /\ Procedure

\* "The script is idempotent, so it is safe to re-run": a rotation ends, unless
\* the script is interrupted for ever.
RotationEnds == []<><<Interrupt>>_vars \/ []<>(stage = "steady")
=============================================================================
