----------------------------- MODULE Bootstrap -----------------------------
(***************************************************************************)
(* scripts/bootstrap/create_circle_wallets.py: the entity secret, its      *)
(* registration, the wallet set, the keepers' wallets and their ids in the *)
(* .env file.  Each call of Circle is a step, between which others act.    *)
(* The operator runs the script again after a crash, an exception or a     *)
(* lost answer of Circle, or for no reason at all.  Files are written in   *)
(* one step.                                                               *)
(*                                                                         *)
(* One call of Circle creates a batch: a wallet for every keeper on every  *)
(* chain, a keeper's wallets of a batch sharing one address, as EOAs of    *)
(* one key do.  A wallet is named by its batch, keeper and chain, and an   *)
(* address by its batch and keeper.  Other developers of the same Circle   *)
(* account may create wallet sets and wallets with names of their own, and *)
(* nobody deletes any.  No set is in the custody of end users, which the   *)
(* script drops from its list.  A list is one page, in an order that       *)
(* Circle does not specify.                                                *)
(***************************************************************************)
EXTENDS Naturals, FiniteSets

CONSTANTS
  Keepers,    \* WALLET_NAMES
  Chains,     \* BLOCKCHAINS
  MaxRuns,    \* runs of the script
  MaxSets,    \* wallet sets of the account
  OtherSizes, \* how many wallets of a set are not the script's
  SetPage,    \* page of get_wallet_sets, Circle's default
  WalletPage  \* page of get_wallets, page_size

Wallets == [batch : 1 .. MaxRuns, keeper : Keepers, chain : Chains]
Blank == [batch |-> 0]

VARIABLES
  runs,        \* runs of the script so far; a run generates at most one secret
  step,        \* where the run stands
  secretFile,  \* circle_entity_secret.txt: the run that generated it, or 0
  recovery,    \* is there a recovery file?
  registered,  \* Circle: the secret registered for the account, or 0
  sets,        \* Circle: wallet sets, numbered by their creation
  others,      \* Circle: how many other wallets each set holds
  wallets,     \* Circle: the keepers' wallets, with the set they are in
  found,       \* what the run has in its variables: a set and wallets
  ids, addrs   \* .env: *_WALLET_ID_* and *_WALLET_ADDR

fileVars == <<secretFile, recovery>>
circleVars == <<registered, sets, others, wallets>>
envVars == <<ids, addrs>>
vars == <<runs, step, secretFile, recovery, registered, sets, others, wallets, found, ids, addrs>>

Init ==
  /\ runs = 0
  /\ step = "stopped"
  /\ secretFile = 0 /\ recovery = FALSE
  /\ registered = 0 /\ sets = 0
  /\ others = [s \in 1 .. MaxSets |-> 0]
  /\ wallets = {}
  /\ found = [set |-> 0, wallets |-> {}]
  /\ ids = [k \in Keepers, c \in Chains |-> Blank]
  /\ addrs = [k \in Keepers |-> 0]

\* main is called, and reads .env.
Run ==
  /\ step = "stopped" /\ runs < MaxRuns
  /\ runs' = runs + 1
  /\ step' = "secret"
  /\ found' = [set |-> 0, wallets |-> {}]
  /\ UNCHANGED <<fileVars, circleVars, envVars>>

\* Mutant: a secret is generated by every run.
LoadOrCreateSecretAnew ==
  /\ step = "secret"
  /\ secretFile' = runs
  /\ step' = "register"
  /\ UNCHANGED <<runs, recovery, circleVars, found, envVars>>

\* load_or_create_entity_secret: the file is written before Circle is told.
LoadOrCreateSecret ==
  /\ step = "secret"
  /\ secretFile' = IF secretFile # 0 THEN secretFile ELSE runs
  /\ step' = "register"
  /\ UNCHANGED <<runs, recovery, circleVars, found, envVars>>

\* register_entity_secret with a recovery file in place: nothing to do.
SkipRegistration ==
  /\ step = "register" /\ recovery
  /\ step' = "set"
  /\ UNCHANGED <<runs, fileVars, circleVars, found, envVars>>

\* Circle registers the secret, once for the account, and answers with the
\* recovery file, or the answer is lost and the run ends.
RegisterSecret ==
  /\ step = "register" /\ ~recovery
  /\ registered = 0
  /\ registered' = secretFile
  /\ \/ recovery' = TRUE /\ step' = "set"
     \/ recovery' = FALSE /\ step' = "stopped"
  /\ UNCHANGED <<runs, secretFile, sets, others, wallets, found, envVars>>

In(set) == {w.wallet : w \in {v \in wallets : v.set = set}}
Expected == Cardinality(Keepers) * Cardinality(Chains)

\* The sets that can be the oldest on a page of all sets: the oldest of all,
\* or one that is followed by enough others to fill the page.
OldestOnPage == {s \in 1 .. sets : s = 1 \/ sets - s + 1 >= SetPage}

\* Mutant: the newest set is taken.
ListWalletSetsNewest ==
  /\ step = "set"
  /\ IF sets = 0
     THEN step' = "newset" /\ UNCHANGED found
     ELSE step' = "list" /\ found' = [found EXCEPT !.set = sets]
  /\ UNCHANGED <<runs, fileVars, circleVars, envVars>>

\* get_or_create_wallet_set lists the sets and takes the oldest it is shown.
ListWalletSets ==
  /\ step = "set"
  /\ \/ sets = 0 /\ step' = "newset" /\ UNCHANGED found
     \/ step' = "list" /\ \E s \in OldestOnPage : found' = [found EXCEPT !.set = s]
  /\ UNCHANGED <<runs, fileVars, circleVars, envVars>>

\* It saw no set, and creates one, signed with the secret of the file: by now
\* not the first of the account, if others were faster.  The answer may be lost.
CreateWalletSet ==
  /\ step = "newset" /\ sets < MaxSets
  /\ registered = secretFile
  /\ sets' = sets + 1
  /\ \/ step' = "list" /\ found' = [found EXCEPT !.set = sets']
     \/ step' = "stopped" /\ UNCHANGED found
  /\ UNCHANGED <<runs, fileVars, registered, others, wallets, envVars>>

\* list_wallets: a page of the set's wallets, of whatever name.  When it holds
\* as many as are needed, its wallets are used.
ListWallets ==
  LET foreign == others[found.set]
      total == Cardinality(In(found.set)) + foreign
      listed == IF total <= WalletPage THEN total ELSE WalletPage
  IN
  /\ step = "list"
  /\ \/ /\ listed < Expected
        /\ step' = "create" /\ UNCHANGED found
     \/ /\ listed >= Expected
        /\ \E shown \in SUBSET In(found.set) :
             /\ Cardinality(shown) <= listed /\ listed <= Cardinality(shown) + foreign
             /\ found' = [found EXCEPT !.wallets = shown]
        /\ step' = "write"
  /\ UNCHANGED <<runs, fileVars, circleVars, envVars>>

\* create_wallets: all of them in one call, whose answer may be lost.
CreateWallets ==
  /\ step = "create"
  /\ registered = secretFile
  /\ LET batch == [batch : {runs}, keeper : Keepers, chain : Chains] IN
       /\ wallets' = wallets \cup {[set |-> found.set, wallet |-> w] : w \in batch}
       /\ \/ step' = "write" /\ found' = [found EXCEPT !.wallets = batch]
          \/ step' = "stopped" /\ UNCHANGED found
  /\ UNCHANGED <<runs, fileVars, registered, sets, others, envVars>>

\* The wallets found of a keeper, and of a keeper on a chain.
Named(k) == {w \in found.wallets : w.keeper = k}
On(k, c) == {w \in Named(k) : w.chain = c}

\* by_name_chain keeps the last wallet of a keeper on a chain and by_name_addr
\* the first address of a keeper, in Circle's order, which is not specified.
\* A keeper without wallets gets blanks; update_env replaces what was there.
WriteEnv ==
  /\ step = "write"
  /\ \E last \in SUBSET found.wallets :
       /\ \A k \in Keepers, c \in Chains :
            On(k, c) # {} => \E w \in On(k, c) : last \cap On(k, c) = {w}
       /\ ids' = [p \in Keepers \X Chains |->
                   LET on == On(p[1], p[2])
                   IN  IF on = {} THEN Blank ELSE CHOOSE w \in last : w \in on]
  /\ addrs' \in {f \in [Keepers -> 0 .. MaxRuns] :
                   \A k \in Keepers :
                     IF Named(k) = {} THEN f[k] = 0 ELSE f[k] \in {w.batch : w \in Named(k)}}
  /\ step' = "stopped"
  /\ UNCHANGED <<runs, fileVars, circleVars, found>>

\* A run ends early: it is interrupted, a call of Circle raises, or Circle
\* refuses a second registration or a secret it does not know.
Stop ==
  /\ step # "stopped"
  /\ step' = "stopped"
  /\ UNCHANGED <<runs, fileVars, circleVars, found, envVars>>

\* Others use the same Circle account.
OtherSet ==
  /\ sets < MaxSets
  /\ sets' = sets + 1
  /\ UNCHANGED <<runs, step, fileVars, registered, others, wallets, found, envVars>>
OtherWallets(s) ==
  /\ s <= sets
  /\ \E n \in OtherSizes : others[s] < n /\ others' = [others EXCEPT ![s] = n]
  /\ UNCHANGED <<runs, step, fileVars, registered, sets, wallets, found, envVars>>

Script ==
  \/ Run
  \/ LoadOrCreateSecret
  \/ SkipRegistration \/ RegisterSecret
  \/ ListWalletSets \/ CreateWalletSet
  \/ ListWallets \/ CreateWallets
  \/ WriteEnv
  \/ Stop

Next == Script \/ OtherSet \/ \E s \in 1 .. MaxSets : OtherWallets(s)

-----------------------------------------------------------------------------
\* The entity secret is "one per Circle project, irrecoverable": once Circle
\* has registered one, the secret in the file is that one, whether or not the
\* script learned of the registration.
RegisteredSecretIsOnFile == registered # 0 => secretFile = registered
=============================================================================
