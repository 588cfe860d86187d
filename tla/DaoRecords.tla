----------------------------- MODULE DaoRecords -----------------------------
(***************************************************************************)
(* The record of one DAO: a row of PostgreSQL with its delegations,        *)
(* subscriptions and settings in tables of their own, and one item of      *)
(* DynamoDB that holds all of it.                                          *)
(*                                                                         *)
(* The consumer of the indexer handles the receipts of the DAO: its        *)
(* creation, the proposals that change its policy, its staking contract or *)
(* its code, transfers, and delegations.  A timer loads the version of     *)
(* upgraded code.  Requests of apps/api add followers and change settings. *)
(* Timers of apps/aggregator write statuses and funds back.  Nothing locks *)
(* row or item between a read and the write that follows from it.          *)
(*                                                                         *)
(* One action is the code between two awaits that read or write a store.   *)
(***************************************************************************)
EXTENDS Integers, Sequences, FiniteSets

CONSTANTS
  Users,        \* accounts that delegate, and follow
  Delegates,    \* accounts they delegate to
  Members,      \* accounts in the groups of a policy
  Groups,       \* the accounts in the groups of each policy
  MaxPolicies,  \* bound: policies
  Consumer,
  Timers,       \* timers of 30 seconds that load the version of a DAO
  Requests,     \* HTTP requests being served
  Pollers,      \* runs of the aggregator's timers
  None,
  Scenarios     \* bounds: what happens at most in one behaviour

PolicyIds == 0 .. MaxPolicies
Indexer == {Consumer} \cup Timers
Workers == Indexer \cup Requests \cup Pollers

Acts == {"ChangePolicy", "SetStakingContract", "UpgradeSelf"}
Delegating == {"delegate", "undelegate"}
Kinds == Acts \cup Delegating \cup {"create", "transfer"}
Asks == {"subscribe", "unsubscribe", "settings", "settingsParam"}

ASSUME WorkersAssumption ==
  /\ Consumer \notin Timers \cup Requests \cup Pollers
  /\ Timers \cap (Requests \cup Pollers) = {}
  /\ Requests \cap Pollers = {}
  /\ None \notin Workers

ASSUME RecordsAssumption ==
  /\ MaxPolicies \in Nat
  /\ Groups \in [PolicyIds -> SUBSET Members]
  /\ Scenarios \subseteq
       [migrated : BOOLEAN,          \* whether a migration stored the DAO
        daoDynamo : BOOLEAN,         \* the feature flag of that name
        settingsDynamo : BOOLEAN,    \* the feature flag of that name
        kinds : SUBSET (Kinds \ {"create"}),   \* the receipts that follow
        blocks : Nat,
        asks : SUBSET Asks,          \* requests
        polls : SUBSET {"status", "funds"},
        crashes : Nat,               \* restarts of the indexer
        faults : Nat]                \* requests that fail half-way

\* What the columns of a row and the attributes of an item hold: None stands
\* for null, undefined and what is not there.
Versions == Nat \cup {None}
Settings == [{"purpose", "theme"} -> 0 .. 1]
DelegationRecords ==
  [account : Delegates \cup {None}, balance : Nat \cup {None},
   delegators : {None} \cup SUBSET Users]
Rows ==
  [policy : PolicyIds, staking : BOOLEAN, members : SUBSET (Members \cup Delegates),
   amount : Nat, version : Versions]
Items ==
  [policy : PolicyIds, staking : BOOLEAN, members : SUBSET (Members \cup Delegates),
   amount : Nat, version : Versions, followers : SUBSET Users, settings : Settings,
   delegations : [Delegates -> DelegationRecords] \cup {None}]

ASSUME UsersAssumption == IsFiniteSet(Users) /\ Users # {}

ASSUME NoneAssumption ==
  /\ None \notin Nat \cup Users \cup Delegates
  /\ None \notin Rows \cup Items \cup [Delegates -> DelegationRecords]
  /\ \A D \in SUBSET Users : None # D

VARIABLES
  chain,      \* the blocks with a receipt of the DAO
  version,    \* of the code of the contract
  deploying,  \* approved upgrades that are not executed yet
  sql, sqlDelegations, subscriptions, sqlSettings,
  dyn,        \* the item, or None
  inList,     \* whether the id of the DAO is in the list of DAO ids
  pc,
  op,         \* what a request or a poller does
  seen,       \* the row or item a worker has read
  accounts,   \* the delegation accounts the consumer has read
  existing,   \* the delegations handleDelegate has read
  saving,     \* the delegation it saves
  todo,       \* the accounts it still has to save
  fetched,     \* the version a worker has read
  timers,     \* upgrades whose timer is set
  next,       \* the receipt the consumer handles next
  alone, settled,   \* history: no other worker has overlapped this one; the
                    \* receipt whose handler ran alone, and last, or 0
  scenario, crashes, faults

contract == <<chain, version, deploying>>
sqlTables == <<sql, sqlDelegations, subscriptions, sqlSettings>>
daoItem == <<dyn, inList>>
delegating == <<accounts, existing, saving, todo>>
memory == <<op, seen, delegating, fetched>>
bounds == <<scenario, crashes, faults>>

vars == <<contract, sqlTables, daoItem, pc, memory, timers, next, alone, settled, bounds>>

-----------------------------------------------------------------------------
(* Rows and items                                                          *)

NoSettings == [k \in {"purpose", "theme"} |-> 0]

NoDelegation == [account |-> None, balance |-> None, delegators |-> None]
NoDelegations == [a \in Delegates |-> NoDelegation]

\* The columns castCreateDao and castActProposalDao give.  The balance of a DAO
\* is the number of the block that changed it last.
Columns == {"policy", "staking", "members", "amount"}

NewRow == [policy |-> 0, staking |-> FALSE, members |-> {}, amount |-> 0,
           version |-> None]

\* A column that is not given keeps the value of the row.
WithColumns(old, row) ==
  [f \in DOMAIN old |-> IF f \in Columns THEN row[f] ELSE old[f]]

\* saveDao of a DAO that is not there: mapDaoDtoToDaoModel gives no followers,
\* settings, delegations or version.
NewItem == [policy |-> 0, staking |-> FALSE, members |-> {}, amount |-> 0,
            version |-> None, delegations |-> None, followers |-> {},
            settings |-> NoSettings]

\* Mutant: the item is put as a whole.
PutItem(item, row) == WithColumns(NewItem, row)

Saved(item, row) == WithColumns(IF item = None THEN NewItem ELSE item, row)

\* Mutant: the policy alone is saved.
SavedPolicy(old, row) ==
  IF old = None THEN WithColumns(NewRow, row) ELSE [old EXCEPT !.policy = row.policy]

SavedRow(old, row) == WithColumns(IF old = None THEN NewRow ELSE old, row)

Stored == IF scenario.daoDynamo THEN dyn ELSE sql

Known(delegations) == {a \in Delegates : delegations[a] # NoDelegation}

\* getDelegationAccountsByDaoId, from the store the flag names
Delegated(item) ==
  IF item = None THEN {}
  ELSE IF item.delegations = None THEN {} ELSE Known(item.delegations)

DelegationAccounts ==
  IF scenario.daoDynamo THEN Delegated(dyn) ELSE Known(sqlDelegations)

Now == chain[Len(chain)]
Receipt == chain[next]

\* delegation_balance_of at block k
Balance(k, a) == Cardinality({u \in Users : <<u, a>> \in chain[k].staked})

\* Mutant: the latest policy is loaded.
LatestPolicy(r) == Now.policy

\* The policy is read at the block of the receipt.
LoadedPolicy(r) == r.policy

\* The row the consumer saves: what the receipt changed is loaded, the rest is
\* as it was read.
RowToSave ==
  LET known == IF seen[Consumer] = None THEN NewRow ELSE seen[Consumer]
      loads == Receipt.kind \in {"create", "ChangePolicy"}
  IN  [policy |-> IF loads THEN LoadedPolicy(Receipt) ELSE known.policy,
       staking |-> IF Receipt.kind = "create" THEN Receipt.staking
                   ELSE known.staking \/ Receipt.kind = "SetStakingContract",
       members |-> IF loads THEN Groups[LoadedPolicy(Receipt)] \cup accounts
                   ELSE known.members,
       amount |-> known.amount]

\* The handler of a transfer saves the DAO it read as a whole, with the version; an
\* item that has none leaves the version of the row alone, like the other handlers.
SavedVersion ==
  IF Receipt.kind = "transfer" /\ (scenario.daoDynamo => seen[Consumer].version # None)
  THEN seen[Consumer].version
  ELSE IF sql = None THEN None ELSE sql.version

-----------------------------------------------------------------------------
(* Bookkeeping                                                             *)

GoTo(w, label) == pc' = [pc EXCEPT ![w] = label]

BeginsAt(w, label) ==
  /\ pc[w] = "off"
  /\ GoTo(w, label)
  /\ alone' = IF \A u \in Workers : pc[u] = "off" THEN w ELSE None
  /\ settled' = 0

Forgets(ws) ==
  /\ pc' = [w \in Workers |-> IF w \in ws THEN "off" ELSE pc[w]]
  /\ op' = [w \in Workers |-> IF w \in ws THEN "" ELSE op[w]]
  /\ seen' = [w \in Workers |-> IF w \in ws THEN None ELSE seen[w]]
  /\ fetched' = [w \in Workers |-> IF w \in ws THEN None ELSE fetched[w]]
  /\ IF Consumer \in ws
     THEN accounts' = {} /\ existing' = NoDelegations /\ saving' = NoDelegation
          /\ todo' = {}
     ELSE UNCHANGED delegating
  /\ alone' = IF alone \in ws THEN None ELSE alone

\* A request, a timer or a run of the aggregator ends.
Ends(w) == Forgets({w}) /\ UNCHANGED settled

\* The consumer has handled a receipt, or has recorded it as failed.
Passes(handled) ==
  /\ Forgets({Consumer})
  /\ next' = next + 1
  /\ settled' = IF handled /\ alone = Consumer THEN next ELSE 0

GoesOn(w, label) == GoTo(w, label) /\ UNCHANGED <<alone, settled>>

ConsumerAt(label) == pc[Consumer] = label

-----------------------------------------------------------------------------
Genesis(migrated) ==
  [kind |-> "create", policy |-> 0, staking |-> migrated, staked |-> {},
   by |-> None, to |-> None]

MigratedRow == [policy |-> 0, staking |-> TRUE, members |-> Groups[0],
                amount |-> 1, version |-> 0]

MigratedItem ==
  [policy |-> 0, staking |-> TRUE, members |-> Groups[0], amount |-> 1,
   version |-> 0, delegations |-> NoDelegations, followers |-> {},
   settings |-> NoSettings]

Init ==
  /\ scenario \in Scenarios
  /\ chain = <<Genesis(scenario.migrated)>> /\ version = 0 /\ deploying = 0
  /\ sql = IF scenario.migrated THEN MigratedRow ELSE None
  /\ dyn = IF scenario.migrated THEN MigratedItem ELSE None
  /\ sqlDelegations = NoDelegations /\ subscriptions = {}
  /\ sqlSettings = NoSettings /\ inList = scenario.migrated
  /\ pc = [w \in Workers |-> "off"]
  /\ op = [w \in Workers |-> ""]
  /\ seen = [w \in Workers |-> None]
  /\ fetched = [w \in Workers |-> None]
  /\ accounts = {} /\ existing = NoDelegations /\ saving = NoDelegation
  /\ todo = {} /\ timers = 0
  /\ next = IF scenario.migrated THEN 2 ELSE 1
  /\ alone = None /\ settled = 0
  /\ crashes = 0 /\ faults = 0

-----------------------------------------------------------------------------
(* The contract                                                            *)

\* The blocks a receipt of a kind may close.
Blocks(kind) ==
  LET b == [Now EXCEPT !.kind = kind, !.by = None, !.to = None]
      Pairs == IF kind = "delegate" THEN (Users \X Delegates) \ Now.staked
               ELSE Now.staked
  IN  IF kind = "ChangePolicy"
      THEN {[b EXCEPT !.policy = p] : p \in {Now.policy + 1} \cap PolicyIds}
      ELSE IF kind = "SetStakingContract"
      THEN {[b EXCEPT !.staking = s] : s \in {TRUE} \ {Now.staking}}
      ELSE IF kind \in Delegating
      THEN {[b EXCEPT !.by = p[1], !.to = p[2],
                      !.staked = IF kind = "delegate" THEN @ \cup {p} ELSE @ \ {p}]
              : p \in {q \in Pairs : Now.staking}}
      ELSE {b}

Block ==
  /\ Len(chain) < scenario.blocks
  /\ \E kind \in scenario.kinds : \E b \in Blocks(kind) :
       /\ chain' = Append(chain, b)
       /\ deploying' = deploying + IF kind = "UpgradeSelf" THEN 1 ELSE 0
  /\ UNCHANGED <<version, sqlTables, daoItem, pc, memory, timers, next, alone, settled,
                 bounds>>

\* An approved upgrade is executed.
Deploy ==
  /\ deploying > 0
  /\ deploying' = deploying - 1
  /\ version' = version + 1
  /\ UNCHANGED <<chain, sqlTables, daoItem, pc, memory, timers, next, alone, settled,
                 bounds>>

-----------------------------------------------------------------------------
(* handleCreateDao, handleApproveProposal, handleUnknownDaoTransaction     *)

FirstLabel(kind) ==
  IF kind = "create" THEN "accounts"
  ELSE IF kind \in Delegating THEN "delRead" ELSE "readDao"

ConsumerBegins ==
  /\ next <= Len(chain)
  /\ BeginsAt(Consumer, FirstLabel(Receipt.kind))
  /\ saving' = IF Receipt.by = None THEN NoDelegation
               ELSE [account |-> Receipt.to, balance |-> Balance(next, Receipt.to),
                     delegators |-> None]
  /\ seen' = [seen EXCEPT ![Consumer] =
                IF Receipt.kind = "create" THEN [NewRow EXCEPT !.amount = Len(chain)]
                ELSE None]
  /\ UNCHANGED <<contract, sqlTables, daoItem, op, accounts, existing, todo, fetched,
                 timers, next, bounds>>

\* The balance is that of the moment, not of the block.
ReadDao ==
  /\ ConsumerAt("readDao")
  /\ seen' = [seen EXCEPT ![Consumer] = [Stored EXCEPT !.amount = Len(chain)]]
  /\ GoesOn(Consumer, IF Receipt.kind = "ChangePolicy" THEN "accounts" ELSE "daoDyn")
  /\ timers' = timers + IF Receipt.kind = "UpgradeSelf" THEN 1 ELSE 0
  /\ UNCHANGED <<contract, sqlTables, daoItem, op, delegating, fetched, next, bounds>>

ReadAccounts ==
  /\ ConsumerAt("accounts")
  /\ accounts' = DelegationAccounts
  /\ GoesOn(Consumer, "daoDyn")
  /\ UNCHANGED <<contract, sqlTables, daoItem, op, seen, existing, saving, todo, fetched,
                 timers, next, bounds>>

\* DaoService.save: DynamoDB first.
SaveDaoDyn ==
  /\ ConsumerAt("daoDyn")
  /\ dyn' = Saved(dyn, RowToSave)
  /\ GoesOn(Consumer, "daoSql")
  /\ UNCHANGED <<contract, sqlTables, inList, memory, timers, next, bounds>>

SaveDaoSql ==
  /\ ConsumerAt("daoSql")
  /\ sql' = [SavedRow(sql, RowToSave) EXCEPT !.version = SavedVersion]
  /\ IF Receipt.kind = "create" THEN GoesOn(Consumer, "version") /\ UNCHANGED <<memory, next>>
     ELSE Passes(TRUE)
  /\ UNCHANGED <<contract, sqlDelegations, subscriptions, sqlSettings, daoItem, timers,
                 bounds>>

\* daoDynamoService.saveDaoId: nothing reads the list but this.
SaveDaoId ==
  /\ ConsumerAt("ids")
  /\ inList' = TRUE
  /\ Passes(TRUE)
  /\ UNCHANGED <<contract, sqlTables, dyn, timers, bounds>>

-----------------------------------------------------------------------------
(* setDaoVersion, called for a new DAO and by the timer                    *)

\* Mutant: the timer does not wait.
TimerFiresAtOnce(w) ==
  /\ timers > 0
  /\ timers' = timers - 1
  /\ BeginsAt(w, "version")
  /\ UNCHANGED <<contract, sqlTables, daoItem, memory, next, bounds>>

\* 30 seconds are taken to be enough for the upgrade.
TimerFires(w) ==
  /\ timers > 0 /\ deploying = 0
  /\ timers' = timers - 1
  /\ BeginsAt(w, "version")
  /\ UNCHANGED <<contract, sqlTables, daoItem, memory, next, bounds>>

ReadVersion(w) ==
  /\ pc[w] = "version"
  /\ fetched' = [fetched EXCEPT ![w] = version]
  /\ GoesOn(w, "versionDyn")
  /\ UNCHANGED <<contract, sqlTables, daoItem, op, seen, delegating, timers, next, bounds>>

SaveVersionDyn(w) ==
  /\ pc[w] = "versionDyn"
  /\ dyn' = [dyn EXCEPT !.version = fetched[w]]
  /\ GoesOn(w, "versionSql")
  /\ UNCHANGED <<contract, sqlTables, inList, memory, timers, next, bounds>>

SaveVersionSql(w) ==
  /\ pc[w] = "versionSql"
  /\ sql' = [sql EXCEPT !.version = fetched[w]]
  /\ IF w = Consumer THEN GoesOn(w, "ids") /\ UNCHANGED memory ELSE Ends(w)
  /\ UNCHANGED <<contract, sqlDelegations, subscriptions, sqlSettings, daoItem, timers,
                 next, bounds>>

-----------------------------------------------------------------------------
(* handleDelegate                                                          *)

\* DaoDynamoService.saveDelegation reads the item.
ReadDelegations ==
  /\ ConsumerAt("delRead")
  /\ dyn = None \/ dyn.delegations # None
  /\ seen' = [seen EXCEPT ![Consumer] = dyn]
  /\ GoesOn(Consumer, IF dyn = None THEN "delSql" ELSE "delWrite")
  /\ UNCHANGED <<contract, sqlTables, daoItem, op, delegating, fetched, timers, next,
                 bounds>>

\* An item handleCreateDao has made has no delegations: findIndex of undefined.
NoDelegationsThrows ==
  /\ ConsumerAt("delRead")
  /\ dyn # None /\ dyn.delegations = None
  /\ Passes(FALSE)
  /\ UNCHANGED <<contract, sqlTables, daoItem, timers, bounds>>

\* The balance or the delegators that are not given become undefined in the
\* item, since the new delegation is spread over the old one.
WriteDelegations ==
  /\ ConsumerAt("delWrite")
  /\ LET delegations == [seen[Consumer].delegations EXCEPT ![saving.account] = saving]
     IN  dyn' = [dyn EXCEPT !.delegations = delegations,
                            !.members = seen[Consumer].members \cup Known(delegations)]
  /\ GoesOn(Consumer, "delSql")
  /\ UNCHANGED <<contract, sqlTables, inList, memory, timers, next, bounds>>

\* delegationRepository.save keeps the columns that are not given.
MergedDelegation(old, new) ==
  [account |-> new.account,
   balance |-> IF new.balance = None THEN old.balance ELSE new.balance,
   delegators |-> IF new.delegators = None THEN old.delegators ELSE new.delegators]

Delegators(delegation) ==
  IF delegation.delegators = None THEN {} ELSE delegation.delegators

\* Mutant: the delegators known before are left out.
DelegationBySigner(a) ==
  [account |-> a,
   balance |-> IF a = Receipt.to THEN None ELSE Balance(next, a),
   delegators |-> {Receipt.by}]

\* The next of the accounts to save; the balance of the account of the receipt
\* has been saved before.
DelegationOf(a) ==
  [account |-> a,
   balance |-> IF a = Receipt.to THEN None ELSE Balance(next, a),
   delegators |-> Delegators(existing[a]) \cup {Receipt.by}]

SaveNext(accs) ==
  \E a \in accs :
    /\ saving' = DelegationOf(a)
    /\ todo' = accs \ {a}
    /\ GoesOn(Consumer, "delRead")

\* The first delegation that is saved has no delegators.
SaveDelegationSql ==
  /\ ConsumerAt("delSql")
  /\ sqlDelegations' =
       [sqlDelegations EXCEPT ![saving.account] = MergedDelegation(@, saving)]
  /\ IF saving.delegators = None
     THEN GoesOn(Consumer, "existing") /\ UNCHANGED <<saving, todo>>
     ELSE IF todo = {} THEN GoesOn(Consumer, "readRow") /\ UNCHANGED <<saving, todo>>
     ELSE SaveNext(todo)
  /\ UNCHANGED <<contract, sql, subscriptions, sqlSettings, daoItem, op, seen, accounts,
                 existing, fetched, timers, next, bounds>>

ReadExisting ==
  /\ ConsumerAt("existing")
  /\ existing' = IF scenario.daoDynamo THEN dyn.delegations ELSE sqlDelegations
  /\ GoesOn(Consumer, "delegatedAmounts")
  /\ UNCHANGED <<contract, sqlTables, daoItem, op, seen, accounts, saving, todo, fetched,
                 timers, next, bounds>>

\* get_user tells what the signer delegates now, not at the block.
DelegatedAmounts == {a \in Delegates : <<Receipt.by, a>> \in Now.staked}

\* Without a stored staking contract, or a delegation of the signer, the
\* handler returns.
ReadAmounts ==
  /\ ConsumerAt("delegatedAmounts")
  /\ IF Stored.staking /\ DelegatedAmounts # {}
     THEN SaveNext(DelegatedAmounts)
          /\ UNCHANGED <<op, seen, accounts, existing, fetched, next>>
     ELSE Passes(TRUE)
  /\ UNCHANGED <<contract, sqlTables, daoItem, timers, bounds>>

\* updateDaoMembers, in PostgreSQL only.
ReadMembers ==
  /\ ConsumerAt("readRow")
  /\ seen' = [seen EXCEPT ![Consumer] = sql]
  /\ GoesOn(Consumer, "readMembers")
  /\ UNCHANGED <<contract, sqlTables, daoItem, op, delegating, fetched, timers, next, bounds>>

ReadMemberAccounts ==
  /\ ConsumerAt("readMembers")
  /\ accounts' = DelegationAccounts
  /\ GoesOn(Consumer, "saveMembers")
  /\ UNCHANGED <<contract, sqlTables, daoItem, op, seen, existing, saving, todo, fetched,
                 timers, next, bounds>>

SaveMembers ==
  /\ ConsumerAt("saveMembers")
  /\ sql' = [seen[Consumer] EXCEPT !.members = @ \cup accounts]
  /\ Passes(TRUE)
  /\ UNCHANGED <<contract, sqlDelegations, subscriptions, sqlSettings, daoItem, timers,
                 bounds>>

\* The indexer restarts: the receipt is handled again, the timers are gone.
Crash ==
  /\ crashes < scenario.crashes
  /\ \E w \in Indexer : pc[w] # "off"
  /\ crashes' = crashes + 1
  /\ timers' = 0
  /\ Forgets(Indexer)
  /\ UNCHANGED <<contract, sqlTables, daoItem, next, settled, scenario, faults>>

-----------------------------------------------------------------------------
(* Requests: subscriptions and settings                                    *)

\* The guards and the foreign key ask for the row of the DAO.
RequestBegins(w) ==
  /\ sql # None
  /\ \E o \in scenario.asks :
       /\ op' = [op EXCEPT ![w] = o]
       /\ BeginsAt(w, IF o \in {"subscribe", "unsubscribe"} THEN "itemRead"
                    ELSE IF o = "settingsParam" THEN "settingsRead" ELSE "settingsSql")
  /\ UNCHANGED <<contract, sqlTables, daoItem, seen, delegating, fetched, timers, next,
                 bounds>>

ReadItem(w) ==
  /\ pc[w] = "itemRead"
  /\ seen' = [seen EXCEPT ![w] = dyn]
  /\ GoesOn(w, "itemWrite")
  /\ UNCHANGED <<contract, sqlTables, daoItem, op, delegating, fetched, timers, next, bounds>>

Follower == CHOOSE u \in Users : TRUE

\* The whole item is written back; what it lacks stays.
WrittenBack(item, followers) ==
  LET OrElse(new, old) == IF new = None THEN old ELSE new
  IN  [item EXCEPT !.followers = followers,
                   !.version = OrElse(@, dyn.version),
                   !.delegations = OrElse(@, dyn.delegations),
                   !.settings = IF @ = NoSettings THEN dyn.settings ELSE @]

FollowersAfter(o, followers) ==
  IF o = "subscribe" THEN followers \cup {Follower} ELSE followers \ {Follower}

WriteItem(w) ==
  /\ pc[w] = "itemWrite"
  /\ dyn' = WrittenBack(seen[w], FollowersAfter(op[w], seen[w].followers))
  /\ GoesOn(w, "subscriptionSql")
  /\ UNCHANGED <<contract, sqlTables, inList, memory, timers, next, bounds>>

\* The answer to a removal of nothing is NotFound.
WriteSubscription(w) ==
  /\ pc[w] = "subscriptionSql"
  /\ subscriptions' = FollowersAfter(op[w], subscriptions)
  /\ Ends(w)
  /\ UNCHANGED <<contract, sql, sqlDelegations, sqlSettings, daoItem, timers, next,
                 bounds>>

\* Settings and the parameter that is set: the other one must survive.
ReadSettings(w) ==
  /\ pc[w] = "settingsRead"
  /\ seen' = [seen EXCEPT ![w] = [settings |-> IF scenario.settingsDynamo
                                               THEN dyn.settings ELSE sqlSettings]]
  /\ GoesOn(w, "settingsSql")
  /\ UNCHANGED <<contract, sqlTables, daoItem, op, delegating, fetched, timers, next, bounds>>

SettingsOf(w) ==
  IF op[w] = "settings" THEN [NoSettings EXCEPT !["purpose"] = 1]
  ELSE [seen[w].settings EXCEPT !["theme"] = 1]

SaveSettingsSql(w) ==
  /\ pc[w] = "settingsSql"
  /\ sqlSettings' = SettingsOf(w)
  /\ GoesOn(w, "settingsDyn")
  /\ UNCHANGED <<contract, sql, sqlDelegations, subscriptions, daoItem, memory, timers,
                 next, bounds>>

SaveSettingsDyn(w) ==
  /\ pc[w] = "settingsDyn"
  /\ dyn' = [dyn EXCEPT !.settings = SettingsOf(w)]
  /\ Ends(w)
  /\ UNCHANGED <<contract, sqlTables, inList, timers, next, bounds>>

RequestFails(w) ==
  /\ pc[w] # "off"
  /\ faults < scenario.faults
  /\ faults' = faults + 1
  /\ Ends(w)
  /\ UNCHANGED <<contract, sqlTables, daoItem, timers, next, scenario, crashes>>

-----------------------------------------------------------------------------
(* Statuses and funds, in PostgreSQL only                                  *)

PollBegins(w) ==
  /\ sql # None
  /\ \E o \in scenario.polls :
       /\ op' = [op EXCEPT ![w] = o]
       /\ seen' = [seen EXCEPT ![w] = sql]
  /\ BeginsAt(w, "pollWrite")
  /\ UNCHANGED <<contract, sqlTables, daoItem, delegating, fetched, timers, next, bounds>>

\* A status that changed is saved with the whole row that was read, new funds
\* with the balance they were computed from.
PollWrite(w) ==
  /\ pc[w] = "pollWrite"
  /\ sql' = IF op[w] = "status" THEN seen[w]
            ELSE [sql EXCEPT !.amount = seen[w].amount]
  /\ Ends(w)
  /\ UNCHANGED <<contract, sqlDelegations, subscriptions, sqlSettings, daoItem, timers,
                 next, bounds>>

PollSkips(w) ==
  /\ pc[w] = "pollWrite" /\ op[w] = "status"
  /\ Ends(w)
  /\ UNCHANGED <<contract, sqlTables, daoItem, timers, next, bounds>>

-----------------------------------------------------------------------------
SetVersion(w) == ReadVersion(w) \/ SaveVersionDyn(w) \/ SaveVersionSql(w)

HandleDelegation ==
  \/ ReadDelegations \/ NoDelegationsThrows \/ WriteDelegations
  \/ SaveDelegationSql \/ ReadExisting \/ ReadAmounts
  \/ ReadMembers \/ ReadMemberAccounts \/ SaveMembers

Handle ==
  \/ ConsumerBegins \/ ReadDao \/ ReadAccounts \/ SaveDaoDyn \/ SaveDaoSql
  \/ SetVersion(Consumer) \/ SaveDaoId \/ HandleDelegation

LoadVersion(w) == TimerFires(w) \/ SetVersion(w)

Request(w) ==
  \/ RequestBegins(w)
  \/ ReadItem(w) \/ WriteItem(w) \/ WriteSubscription(w)
  \/ ReadSettings(w) \/ SaveSettingsSql(w) \/ SaveSettingsDyn(w)
  \/ RequestFails(w)

Poll(w) == PollBegins(w) \/ PollWrite(w) \/ PollSkips(w)

Next ==
  \/ Block \/ Deploy
  \/ Handle
  \/ \E w \in Timers : LoadVersion(w)
  \/ Crash
  \/ \E w \in Requests : Request(w)
  \/ \E w \in Pollers : Poll(w)

Spec == Init /\ [][Next]_vars

\* The event loop of the indexer goes on, timers fire, and approved upgrades
\* are executed.
FairSpec ==
  /\ Spec
  /\ WF_vars(Deploy)
  /\ WF_vars(Handle)
  /\ \A w \in Timers : WF_vars(LoadVersion(w))

-----------------------------------------------------------------------------
(* Properties                                                              *)

\* What a store shows of the DAO is what the contract said at block k.  Its
\* members are those of the policy, and delegates.
Shows(row, k, delegates) ==
  /\ row # None
  /\ row.policy = chain[k].policy
  /\ row.staking = chain[k].staking
  /\ Groups[row.policy] \subseteq row.members
  /\ row.members \subseteq Groups[row.policy] \cup delegates

\* Each time the consumer passes a receipt, restarts included, both stores show
\* the DAO as it was at the block of the receipt, as long as no status is
\* written back.  Followers that are added meanwhile disturb the item, and the
\* row only where handlers read the item.  The delegates are those of the store
\* the accounts were read from: a receipt that is handled again after a restart
\* may find fewer of them on chain than the item has.
BlocksShown ==
  [][next' # next /\ "status" \notin scenario.polls =>
       /\ scenario.asks = {} \/ ~scenario.daoDynamo
            => Shows(sql', next, DelegationAccounts)
       /\ scenario.asks = {} => Shows(dyn', next, Delegated(dyn'))]_vars

\* Whatever stale rows overlapping requests and timers have written back: the
\* handler of a new policy that runs alone makes row and item agree on it.
PolicyRepairs ==
  settled # 0 /\ chain[settled].kind = "ChangePolicy" =>
    /\ sql.policy = chain[settled].policy
    /\ \A f \in Columns : sql[f] = dyn[f]

\* Where one request is served at a time and none fails, followers and settings
\* are the same in both stores after each, whatever the indexer writes meanwhile.
RequestsAgree ==
  /\ scenario.faults = 0 /\ dyn # None
  /\ \E w \in Requests : Requests = {w} /\ pc[w] = "off"
  => dyn.followers = subscriptions /\ dyn.settings = sqlSettings

\* With delegations read from PostgreSQL, each time the consumer passes a
\* receipt, every delegation has there the balance of the block, although it is
\* saved by halves, and every delegator who has not taken back what was
\* delegated.
DelegationsExact ==
  [][next' # next /\ scenario.migrated /\ ~scenario.daoDynamo =>
       \A a \in Known(sqlDelegations') :
         /\ sqlDelegations'[a].balance = Balance(next, a)
         /\ \A u \in Users :
              (\A k \in next .. Len(chain) : <<u, a>> \in chain[k].staked)
                => u \in Delegators(sqlDelegations'[a])]_vars

Upgraded == Cardinality({k \in 1 .. next - 1 : chain[k].kind = "UpgradeSelf"})

VersionAwaited(v) ==
  /\ scenario.crashes = 0 /\ "status" \notin scenario.polls
  /\ scenario.kinds \cap (Delegating \cup {"transfer"}) = {}
  /\ Upgraded >= v

\* Without a restart, every upgrade handled is followed by the version it
\* brought, unless a handler or a poller writes the whole row back meanwhile.
VersionShown ==
  \A v \in 1 .. 2 :
    VersionAwaited(v) ~> /\ sql # None
                         /\ sql.version # None
                         /\ sql.version >= v
=============================================================================
