----------------------------- MODULE MCServices -----------------------------
(***************************************************************************)
(* Instances of Accounts, Notifications, Aggregation, DataMigration,       *)
(* SearchIndex and Permissions for TLC: a behaviour is one of one of the   *)
(* modules, while the others rest.                                         *)
(***************************************************************************)
EXTENDS Accounts, Notifications, Aggregation, DataMigration, SearchIndex, Permissions

VARIABLE part

QuietAccount ==
  [settings |-> 1, sends |-> 0, entries |-> 0, ticks |-> 0, purges |-> 0, failures |-> 0,
   together |-> FALSE, dynamo |-> FALSE]

MCAccountScenarios ==
  {\* an address is replaced, codes are entered late, run out and are asked again
   [QuietAccount EXCEPT !.settings = 2, !.sends = 1, !.entries = 2],
   [QuietAccount EXCEPT !.settings = 2, !.sends = 2, !.entries = 1, !.ticks = 1,
                        !.dynamo = TRUE],
   [QuietAccount EXCEPT !.sends = 2, !.entries = 1, !.ticks = 3, !.purges = 1,
                        !.dynamo = TRUE],
   \* requests that fail, and requests that overlap
   [QuietAccount EXCEPT !.settings = 2, !.failures = 1, !.sends = 1, !.entries = 1],
   [QuietAccount EXCEPT !.settings = 2, !.sends = 1, !.entries = 1, !.together = TRUE,
                        !.dynamo = TRUE],
   [QuietAccount EXCEPT !.settings = 2, !.sends = 1, !.entries = 1, !.together = TRUE]}

QuietInbox ==
  [events |-> 2, asked |-> {}, requests |-> 0, expiries |-> 0, connections |-> 0,
   notifierRestarts |-> 0, overlap |-> FALSE, dynamo |-> FALSE]

MCNoteScenarios ==
  {\* the whole inbox and single notes, with items that expire
   [QuietInbox EXCEPT !.asked = {"readAll", "archiveAll"}, !.requests = 2, !.expiries = 1],
   [QuietInbox EXCEPT !.asked = {"readAll", "archiveAll", "update"}, !.requests = 2,
                      !.dynamo = TRUE],
   [QuietInbox EXCEPT !.asked = {"update"}, !.requests = 1, !.expiries = 1],
   \* settings and sockets
   [QuietInbox EXCEPT !.asked = {"settings"}, !.requests = 2, !.connections = 2],
   \* requests that overlap with events, and restarts of the notifier
   [QuietInbox EXCEPT !.asked = {"readAll"}, !.requests = 1, !.overlap = TRUE,
                      !.dynamo = TRUE],
   [QuietInbox EXCEPT !.events = 1, !.asked = {"settings", "readAll"}, !.requests = 2,
                      !.notifierRestarts = 1, !.dynamo = TRUE]}

QuietJobs ==
  [changes |-> 2, periods |-> 0, days |-> 0, jobs |-> {"dao"}, starts |-> 1, visits |-> 0,
   markets |-> 0, jobFailures |-> 0, indexed |-> FALSE, dynamo |-> FALSE]

MCAggregationScenarios ==
  {\* the DAO is loaded again, beside the indexer and after it has missed receipts
   [QuietJobs EXCEPT !.changes = 3, !.indexed = TRUE],
   [QuietJobs EXCEPT !.changes = 3, !.starts = 2, !.jobFailures = 1, !.dynamo = TRUE],
   [QuietJobs EXCEPT !.indexed = TRUE, !.periods = 1, !.jobs = {"dao", "expired"},
                     !.starts = 2],
   \* responses that are read while they are cleared
   [QuietJobs EXCEPT !.visits = 2, !.indexed = TRUE, !.starts = 0, !.days = 1,
                     !.dynamo = TRUE],
   \* the other jobs, which fail and start again
   [QuietJobs EXCEPT !.changes = 1, !.indexed = TRUE, !.days = 1, !.jobs = {"statuses"},
                     !.starts = 2, !.visits = 1],
   [QuietJobs EXCEPT !.changes = 0, !.markets = 2, !.jobs = {"prices", "stats"},
                     !.starts = 3, !.jobFailures = 1],
   [QuietJobs EXCEPT !.changes = 1, !.markets = 1, !.jobs = {"prices", "stats", "dao"},
                     !.starts = 3, !.dynamo = TRUE]}

QuietData ==
  [kind |-> "proposals", migrations |-> 1, checks |-> 0, creations |-> 0, changes |-> 0,
   removals |-> 0, breaks |-> 0]

MCFirstTable == CHOOSE f \in [1 .. 3 -> Records] : \A i, j \in 1 .. 3 : f[i] = f[j] => i = j

MCBeginnings ==
  [unlisted : SUBSET {MCFirstTable[1], MCFirstTable[3]},
   stored : {{MCFirstTable[2]}, {MCFirstTable[1], MCFirstTable[2], Dao}, {MCFirstTable[3], Dao}}]

MCDataScenarios ==
  \* beside handlers, broken off and repeated, and followed by a check
  {[QuietData EXCEPT !.kind = k, !.creations = 1, !.changes = 1] : k \in Kinds \ {"bounties"}}
  \cup {[QuietData EXCEPT !.kind = "bounties", !.creations = 1],
        [QuietData EXCEPT !.kind = "bounties", !.changes = 1]}
  \cup {[QuietData EXCEPT !.kind = k, !.migrations = 2, !.breaks = 1] :
          k \in {"notifications", "bounties"}}
  \cup {[QuietData EXCEPT !.removals = 1],
        \* rows created in front of others push them behind the last chunk
        [QuietData EXCEPT !.creations = 2],
        [QuietData EXCEPT !.kind = "bounties", !.checks = 1],
        [QuietData EXCEPT !.migrations = 0, !.creations = 1, !.changes = 1, !.checks = 1]}

MCIndexScenarios ==
  {[saves |-> 2, mappings |-> 3, interruptions |-> 2],
   [saves |-> 3, mappings |-> 2, interruptions |-> 1]}

Role(kind, balance, accounts, permissions) ==
  [council |-> FALSE, kind |-> kind, balance |-> balance, accountIds |-> accounts,
   permissions |-> permissions]

Council(v) == [Role("Group", 0, {v}, {<<"*", "*">>}) EXCEPT !.council = TRUE]

\* A council and proposals of everyone; tokens that vote on one type; a group
\* that may only reject.
MCPolicies ==
  {{Council(CHOOSE v \in Voters : TRUE),
    Role("Everyone", 0, {}, {<<"*", "AddProposal">>})},
   {Role("Member", 1, {}, {<<"config", "VoteApprove">>, <<"*", "AddProposal">>})},
   {Role("Group", 0, Voters, {<<"*", "VoteReject">>}),
    Role("Everyone", 0, {}, {<<"config", "VoteApprove">>})}}

MCListings ==
  [dao : PolicyDaos, label : {"config"}, proposer : {CHOOSE v \in Voters : TRUE}]

MCPermissionScenarios ==
  {[requests |-> 1, policies |-> p, stakes |-> 2 - p] : p \in 0 .. 2}

Init ==
  /\ part \in {"accounts", "notes", "jobs", "data", "search", "permissions"}
  /\ AccountInit
  /\ part # "accounts" => budget = CHOOSE s \in AccountScenarios : TRUE
  /\ NotificationInit
  /\ part # "notes" => noteBudget = CHOOSE s \in NoteScenarios : TRUE
  /\ AggregationInit
  /\ part # "jobs" => allowed = CHOOSE s \in AggregationScenarios : TRUE
  /\ DataInit
  /\ part # "data" => /\ left = CHOOSE s \in DataScenarios : TRUE
                      /\ \A r \in DOMAIN rows : rows[r].listed
                      /\ items = [r \in {table[2]} |-> Row(0, "old", 0, TRUE)]
  /\ SearchInit
  /\ part # "search" => remaining = CHOOSE s \in IndexScenarios : TRUE
  /\ PermissionInit
  /\ part # "permissions" =>
       /\ permissionBudget = CHOOSE s \in PermissionScenarios : TRUE
       /\ tables.roles = [d \in PolicyDaos |-> CHOOSE r \in Policies : TRUE]

Next ==
  /\ part' = part
  /\ \/ /\ part = "accounts" /\ AccountNext
        /\ UNCHANGED <<noteVars, aggregationVars, dataVars, searchVars, permissionVars>>
     \/ /\ part = "notes" /\ NotificationNext
        /\ UNCHANGED <<accountVars, aggregationVars, dataVars, searchVars, permissionVars>>
     \/ /\ part = "jobs" /\ AggregationNext
        /\ UNCHANGED <<accountVars, noteVars, dataVars, searchVars, permissionVars>>
     \/ /\ part = "data" /\ DataNext
        /\ UNCHANGED <<accountVars, noteVars, aggregationVars, searchVars, permissionVars>>
     \/ /\ part = "search" /\ SearchNext
        /\ UNCHANGED <<accountVars, noteVars, aggregationVars, dataVars, permissionVars>>
     \/ /\ part = "permissions" /\ PermissionNext
        /\ UNCHANGED <<accountVars, noteVars, aggregationVars, dataVars, searchVars>>

AllVars ==
  <<part, accountVars, noteVars, aggregationVars, dataVars, searchVars, permissionVars>>

Spec == Init /\ [][Next]_AllVars

\* The jobs, the indexer and the cache alone.
JobsSpec == Init /\ part = "jobs" /\ [][Next]_AllVars
=============================================================================
