---------------------------- MODULE Aggregation ----------------------------
(***************************************************************************)
(* The jobs of apps/aggregator on one DAO, beside the indexer and the      *)
(* readers of apps/api.  Four jobs run at most once at a time each, by a   *)
(* flag in memory: one loads the DAO again from its contract, the others   *)
(* renew token prices, the status of the DAO and its statistics of the     *)
(* day.  A fifth expires proposals; its flag is read and never set.        *)
(* The job that loads the DAO repairs what the indexer missed: it reads    *)
(* the proposals of the contract chunk by chunk, deletes the rows the      *)
(* contract does not have, saves the others and counts again.              *)
(* Responses of apps/api are cached; handlers and jobs list the keys to    *)
(* clear and then delete them.                                             *)
(***************************************************************************)
EXTENDS Integers, Sequences, FiniteSets, StoreWrites

CONSTANTS
  MaxNumber,            \* bound: proposals
  ChunkSize,            \* PROPOSAL_REQUEST_CHUNK_SIZE, 50
  Runs,                 \* runs of jobs, one at a time each
  Visitors,             \* requests of readers
  Missing,
  AggregationScenarios  \* bounds: what happens at most in one behaviour

Flags == {"dao", "prices", "statuses", "stats"}  \* the jobs whose flag is set
Jobs == Flags \cup {"expired"}
Numbers == 0 .. MaxNumber - 1

ASSUME AggregationAssumption ==
  /\ MaxNumber \in Nat /\ ChunkSize \in Nat \ {0}
  /\ Missing \notin Runs \cup Visitors \cup Jobs
  /\ AggregationScenarios \subseteq
       [changes : Nat, periods : Nat, days : Nat, jobs : SUBSET Jobs, starts : Nat,
        visits : Nat, markets : Nat, jobFailures : Nat, indexed : BOOLEAN,
        dynamo : BOOLEAN]

VARIABLES
  contract,             \* the proposals of the contract
  overdue,              \* proposals whose vote period is over
  news,                 \* receipts the indexer has to handle
  proposalItem, proposalRow,
  daoItem, daoRow,      \* counts, status and funds of the DAO
  statsItem, statsRow,  \* of the day
  market, tokenPrice,   \* the price at coingecko, and the one stored
  responses,            \* the cache of responses
  inProgress,           \* AggregatorState: the flags that are set
  runJob, runStep, runHolds,
  indexStep, indexHolds,
  visitStep, visitHolds,
  allowed,              \* what the scenario still allows
  \* history
  lone,                 \* the run nothing has overlapped, or Missing
  repaired,             \* the last to change anything was a lone run that loaded the DAO
  uncleared,            \* rows were written, or a late response stored, since a clear
  lateVisits,           \* visitors that had read the rows when the keys were listed
  flagLost

chainVars == <<contract, overdue, news>>
rowVars == <<proposalItem, proposalRow, daoItem, daoRow, statsItem, statsRow>>
runVars == <<inProgress, runJob, runStep, runHolds>>
indexVars == <<indexStep, indexHolds>>
visitVars == <<visitStep, visitHolds>>
loneVars == <<lone, repaired>>
freshVars == <<uncleared, lateVisits>>
aggregationVars ==
  <<chainVars, rowVars, market, tokenPrice, responses, runVars, indexVars, visitVars, allowed,
    loneVars, freshVars, flagLost>>

NoCounts == [total |-> 0, active |-> 0, status |-> "Inactive", funds |-> 0]

AggregationInit ==
  /\ contract = [p \in Numbers |-> "none"] /\ overdue = {} /\ news = <<>>
  /\ proposalItem = <<>> /\ proposalRow = <<>>
  /\ daoItem = NoCounts /\ daoRow = NoCounts
  /\ statsItem = Missing /\ statsRow = Missing
  /\ market = 0 /\ tokenPrice = 0
  /\ responses = <<>>
  /\ inProgress = {}
  /\ runJob = [r \in Runs |-> Missing]
  /\ runStep = [r \in Runs |-> "idle"]
  /\ runHolds = [r \in Runs |-> Missing]
  /\ indexStep = "idle" /\ indexHolds = Missing
  /\ visitStep = [v \in Visitors |-> "idle"]
  /\ visitHolds = [v \in Visitors |-> Missing]
  /\ allowed \in AggregationScenarios
  /\ lone = Missing /\ repaired = FALSE
  /\ uncleared = FALSE /\ lateVisits = {} /\ flagLost = FALSE

Spend(f) == allowed[f] > 0 /\ allowed' = [allowed EXCEPT ![f] = @ - 1]

\* Something other than the run r happens to the DAO or its records.
Disturbs == lone' = Missing /\ repaired' = FALSE

-----------------------------------------------------------------------------
(* What the records show                                                   *)

Existing(c) == {p \in Numbers : c[p] \notin {"none", "removed"}}

\* getDaoProposalCount, getDaoActiveProposalCount, as the flag ProposalDynamo says
\* (DaoDynamo is switched with it): archived items are counted,
\* and the vote status of an item is never Expired.  One page is counted.
Counts ==
  IF allowed.dynamo
    THEN [total  |-> Cardinality(DOMAIN proposalItem),
          active |-> Cardinality({p \in DOMAIN proposalItem :
                                    proposalItem[p].status = "InProgress"})]
    ELSE [total  |-> Cardinality(DOMAIN proposalRow),
          active |-> Cardinality({p \in DOMAIN proposalRow :
                                    /\ proposalRow[p].status = "InProgress"
                                    /\ ~proposalRow[p].expired})]

\* getDaoStatus: a proposal that is open, or was created within a day.
DaoStatus ==
  IF \E p \in DOMAIN proposalRow :
       \/ proposalRow[p].status = "InProgress" /\ ~proposalRow[p].expired
       \/ proposalRow[p].recent
    THEN "Active" ELSE "Inactive"

Overdue ==
  {p \in DOMAIN proposalRow \cap overdue :
     proposalRow[p].status = "InProgress" /\ ~proposalRow[p].expired}

\* ProposalService.create: the item is saved unarchived; the row is not expired
\* any more, and keeps its time of creation if the proposal comes without one.
SaveItemOf(p, status) ==
  proposalItem' = Upsert(proposalItem, p, [status |-> status, archived |-> FALSE])

SaveRowOf(p, status, recent) ==
  proposalRow' = Upsert(proposalRow, p,
                     [status |-> status, expired |-> FALSE,
                      recent |-> recent \/ (p \in DOMAIN proposalRow
                                            /\ proposalRow[p].recent)])

Without(f, gone) == [x \in DOMAIN f \ gone |-> f[x]]

-----------------------------------------------------------------------------
(* The cache                                                               *)

\* What a response is cached under: the list of proposals asked for without a query
\* and with one, the list of an account, and everything else.
ListPaths == {"/proposals", "/proposals?", "/proposals/account-proposals/"}
Paths == ListPaths \cup {"/daos"}

\* handleProposalCache deletes the keys that go on with a query; it asks for one
\* after account-proposals too, where the key has the account.
HandledPaths == {"/proposals?"}

\* clearCache leaves what begins with /proposals to handleProposalCache.
ClearedPaths == Paths \ ListPaths

\* Mutant: a prefix no key has.
NoKeys(paths) == {}

Keys(paths) == DOMAIN responses \cap paths

\* The keys of lists with a query are listed: rows written so far will not be shown from
\* what is cached, but a visitor that has read them may store them later.
ListProposalKeys ==
  /\ uncleared' = FALSE
  /\ lateVisits' = {v \in Visitors : visitStep[v] = "store"}

Listing ==
  [p \in DOMAIN proposalRow |->
     [status |-> proposalRow[p].status, expired |-> proposalRow[p].expired]]

Read(path) == IF path \in ListPaths THEN Listing ELSE daoRow

\* HttpCacheInterceptor: what is cached is answered, else the database is read ...
Visit(v) ==
  /\ visitStep[v] = "idle" /\ Spend("visits")
  /\ \E path \in Paths :
       /\ path \notin DOMAIN responses
       /\ visitHolds' = [visitHolds EXCEPT ![v] = [path |-> path, body |-> Read(path)]]
  /\ visitStep' = [visitStep EXCEPT ![v] = "store"]
  /\ UNCHANGED <<chainVars, rowVars, market, tokenPrice, responses, runVars, indexVars,
                 loneVars, freshVars, flagLost>>

\* ... and the response is cached for REDIS_HTTP_CACHE_TTL, six hours.
Store(v) ==
  /\ visitStep[v] = "store"
  /\ responses' = Upsert(responses, visitHolds[v].path, visitHolds[v].body)
  /\ visitStep' = [visitStep EXCEPT ![v] = "idle"]
  /\ visitHolds' = [visitHolds EXCEPT ![v] = Missing]
  /\ uncleared' = (uncleared \/ (visitHolds[v].path \in HandledPaths /\ v \in lateVisits))
  /\ lateVisits' = lateVisits \ {v}
  /\ UNCHANGED <<chainVars, rowVars, market, tokenPrice, runVars, indexVars, allowed, loneVars,
                 flagLost>>

-----------------------------------------------------------------------------
(* The contract, and the indexer                                           *)

\* A proposal is added, decided or removed.  A receipt may be one the indexer
\* will not see.
Change ==
  /\ Spend("changes")
  /\ \E p \in Numbers, s \in {"InProgress", "Approved", "removed"} :
       /\ IF s = "InProgress"
            THEN contract[p] = "none" /\ \A q \in 0 .. p - 1 : contract[q] # "none"
            ELSE contract[p] = "InProgress"
       /\ contract' = [contract EXCEPT ![p] = s]
       /\ news' = IF allowed.indexed THEN Append(news, [number |-> p, status |-> s]) ELSE news
  /\ Disturbs
  /\ UNCHANGED <<overdue, rowVars, market, tokenPrice, responses, runVars, indexVars,
                 visitVars, freshVars, flagLost>>

PeriodEnds ==
  /\ Spend("periods")
  /\ \E p \in Numbers : contract[p] = "InProgress" /\ overdue' = overdue \cup {p}
  /\ UNCHANGED <<contract, news, rowVars, market, tokenPrice, responses, runVars, indexVars,
                 visitVars, loneVars, freshVars, flagLost>>

\* The proposals there are were created more than a day ago, and statistics are
\* those of another day.
DayEnds ==
  /\ Spend("days")
  /\ proposalRow' = [p \in DOMAIN proposalRow |-> [proposalRow[p] EXCEPT !.recent = FALSE]]
  /\ Disturbs
  /\ UNCHANGED <<chainVars, proposalItem, daoItem, daoRow, statsItem, statsRow, market,
                 tokenPrice, responses, runVars, indexVars, visitVars, freshVars,
                 flagLost>>

MarketMoves ==
  /\ Spend("markets")
  /\ market' = market + 1
  /\ UNCHANGED <<chainVars, rowVars, tokenPrice, responses, runVars, indexVars, visitVars,
                 loneVars, freshVars, flagLost>>

Indexes(at, next, holds) ==
  /\ indexStep = at
  /\ indexStep' = next
  /\ indexHolds' = holds
  /\ Disturbs
  /\ UNCHANGED <<contract, overdue, statsItem, statsRow, market, tokenPrice, runVars,
                 visitVars, allowed, flagLost>>

\* The handler of a proposal reads the DAO first; it will write its status back.
BeginNews ==
  /\ news # <<>>
  /\ Indexes("idle", "item", [new |-> Head(news), status |-> daoRow.status])
  /\ UNCHANGED <<news, proposalItem, proposalRow, daoItem, daoRow, responses, freshVars>>

\* ProposalService.create and remove, the item first.
IndexItem ==
  LET p == indexHolds.new.number
      s == indexHolds.new.status
  IN
  /\ Indexes("item", "row", indexHolds)
  /\ IF s = "removed"
       THEN proposalItem' = IF p \in DOMAIN proposalItem
                              THEN [proposalItem EXCEPT ![p].archived = TRUE] ELSE proposalItem
       ELSE SaveItemOf(p, s)
  /\ UNCHANGED <<news, proposalRow, daoItem, daoRow, responses, freshVars>>

IndexRow ==
  LET p == indexHolds.new.number
      s == indexHolds.new.status
  IN
  /\ Indexes("row", "count", indexHolds)
  /\ IF s = "removed" THEN proposalRow' = Without(proposalRow, {p})
                      ELSE SaveRowOf(p, s, s = "InProgress")
  /\ uncleared' = TRUE
  /\ UNCHANGED <<news, proposalItem, daoItem, daoRow, responses, lateVisits>>

\* DaoService.save: the counts and the status read at first, the item first.
IndexCount ==
  /\ Indexes("count", "daoItem", Over([status |-> indexHolds.status], Counts))
  /\ UNCHANGED <<news, proposalItem, proposalRow, daoItem, daoRow, responses, freshVars>>

\* With the flag on, an answer that has the count only is taken for one with
\* items, and the call fails: the receipt is tried again, now or never.
IndexCountFails ==
  /\ allowed.dynamo
  /\ Indexes("count", "idle", Missing)
  /\ news' \in {news, Tail(news)}
  /\ UNCHANGED <<proposalItem, proposalRow, daoItem, daoRow, responses, freshVars>>

IndexDaoItem ==
  /\ Indexes("daoItem", "daoRow", indexHolds)
  /\ daoItem' = Over(daoItem, indexHolds)
  /\ UNCHANGED <<news, proposalItem, proposalRow, daoRow, responses, freshVars>>

IndexDaoRow ==
  /\ Indexes("daoRow", "keys", Missing)
  /\ daoRow' = Over(daoRow, indexHolds)
  /\ UNCHANGED <<news, proposalItem, proposalRow, daoItem, responses, freshVars>>

\* handleProposalCache
IndexKeys ==
  /\ Indexes("keys", "delete", Keys(HandledPaths))
  /\ ListProposalKeys
  /\ UNCHANGED <<news, proposalItem, proposalRow, daoItem, daoRow, responses>>

IndexDelete ==
  /\ Indexes("delete", "idle", Missing)
  /\ responses' = Without(responses, indexHolds)
  /\ news' = Tail(news)
  /\ UNCHANGED <<proposalItem, proposalRow, daoItem, daoRow, freshVars>>

IndexNews ==
  BeginNews \/ IndexItem \/ IndexRow \/ IndexCount \/ IndexCountFails \/ IndexDaoItem
  \/ IndexDaoRow \/ IndexKeys \/ IndexDelete

-----------------------------------------------------------------------------
(* The runs of the jobs                                                    *)

First(j) == CASE j = "dao" -> "info" [] j = "prices" -> "market" [] j = "statuses" -> "dao"
              [] j = "stats" -> "stats" [] j = "expired" -> "find"

\* A timer, or an event sent by an administrator: a run whose flag is set returns.
Start(r) ==
  /\ runStep[r] = "idle" /\ Spend("starts")
  /\ \E j \in allowed.jobs \ inProgress :
       /\ runJob' = [runJob EXCEPT ![r] = j]
       /\ runStep' = [runStep EXCEPT ![r] = First(j)]
       /\ inProgress' = inProgress \cup ({j} \cap Flags)
  /\ lone' = IF indexStep = "idle" /\ \A q \in Runs : runStep[q] = "idle" THEN r ELSE Missing
  /\ repaired' = FALSE
  /\ UNCHANGED <<chainVars, rowVars, market, tokenPrice, responses, runHolds, indexVars,
                 visitVars, freshVars, flagLost>>

Moves(r, next, holds) ==
  /\ runStep' = [runStep EXCEPT ![r] = next]
  /\ runHolds' = [runHolds EXCEPT ![r] = holds]
  /\ UNCHANGED <<chainVars, market, indexVars, visitVars, allowed>>

At(r, j, s) == runJob[r] = j /\ runStep[r] = s

\* Mutant: the flag is stopped after a run that succeeds only.
StaysSet(j) == inProgress

Stopped(j) == inProgress \ {j}

\* A run ends, and its flag is cleared, whoever has set it.
Ends(r) ==
  /\ Moves(r, "idle", Missing)
  /\ runJob' = [runJob EXCEPT ![r] = Missing]
  /\ inProgress' = Stopped(runJob[r])

Reads(r, next, holds) ==
  /\ Moves(r, next, holds)
  /\ UNCHANGED <<rowVars, tokenPrice, responses, inProgress, runJob, loneVars, freshVars,
                 flagLost>>

\* getDaoInfo: the number of proposals ever added; the row of the DAO is saved
\* with it and read back.
GetInfo(r) ==
  /\ At(r, "dao", "info")
  /\ Reads(r, "chunk", [last |-> Cardinality({p \in Numbers : contract[p] # "none"}),
                        chunk |-> 0, proposals |-> <<>>])

\* Mutant: without the chunk that is not full.
FullChunks(last) == last \div ChunkSize

Chunks(last) == last \div ChunkSize + 1

\* getProposalsByDaoId: one chunk after the other, each as the contract then is.
GetChunk(r) ==
  LET h == runHolds[r]
      from == h.chunk * ChunkSize
      chunk == [p \in Existing(contract) \cap from .. from + ChunkSize - 1 |-> contract[p]]
      read == Over(h.proposals, chunk)
  IN
  /\ At(r, "dao", "chunk")
  /\ IF h.chunk < Chunks(h.last)
       THEN Reads(r, "chunk", [h EXCEPT !.chunk = @ + 1, !.proposals = read])
       ELSE Reads(r, "list", h.proposals)

\* aggregateProposalsByDao: the rows the contract did not have are to be deleted.
ListRows(r) ==
  /\ At(r, "dao", "list")
  /\ Reads(r, "delete", [gone |-> DOMAIN proposalRow \ DOMAIN runHolds[r],
                         proposals |-> runHolds[r]])

\* removeMultiple: rows only, no item is archived.
DeleteRow(r) ==
  LET h == runHolds[r] IN
  /\ At(r, "dao", "delete")
  /\ \/ h.gone = {} /\ Moves(r, "create", [items |-> DOMAIN h.proposals, rows |-> {},
                                           proposals |-> h.proposals])
        /\ UNCHANGED <<proposalRow, uncleared>>
     \/ \E p \in h.gone :
          /\ proposalRow' = Without(proposalRow, {p})
          /\ Moves(r, "delete", [h EXCEPT !.gone = @ \ {p}])
          /\ uncleared' = TRUE
  /\ UNCHANGED <<proposalItem, daoItem, daoRow, statsItem, statsRow, tokenPrice, responses,
                 inProgress, runJob, loneVars, lateVisits, flagLost>>

\* Five proposals at a time are created, each as an item and then as a row.
CreateItem(r) ==
  LET h == runHolds[r] IN
  /\ At(r, "dao", "create")
  /\ \E p \in h.items :
       /\ SaveItemOf(p, h.proposals[p])
       /\ Moves(r, "create", [h EXCEPT !.items = @ \ {p}, !.rows = @ \cup {p}])
  /\ UNCHANGED <<proposalRow, daoItem, daoRow, statsItem, statsRow, tokenPrice, responses,
                 inProgress, runJob, loneVars, freshVars, flagLost>>

CreateRow(r) ==
  LET h == runHolds[r] IN
  /\ At(r, "dao", "create")
  /\ \E p \in h.rows :
       /\ SaveRowOf(p, h.proposals[p], FALSE)
       /\ Moves(r, "create", [h EXCEPT !.rows = @ \ {p}])
  /\ uncleared' = TRUE
  /\ UNCHANGED <<proposalItem, daoItem, daoRow, statsItem, statsRow, tokenPrice, responses,
                 inProgress, runJob, loneVars, lateVisits, flagLost>>

\* aggregateDaoAdditionalFields: the status, ...
GetStatus(r) ==
  /\ At(r, "dao", "create")
  /\ runHolds[r].items = {} /\ runHolds[r].rows = {}
  /\ Reads(r, "counts", [status |-> DaoStatus])

\* ... the counts, ...
GetCounts(r) ==
  /\ runStep[r] = "counts"
  /\ Reads(r, IF runJob[r] = "dao" THEN "funds" ELSE "saveItem", Over(runHolds[r], Counts))

\* ... and the funds; the job of prices writes them to the row only.
GetFunds(r) ==
  /\ runStep[r] = "funds"
  /\ Reads(r, IF runJob[r] = "dao" THEN "saveItem" ELSE "saveRow",
           Upsert(runHolds[r], "funds", tokenPrice))

SaveFieldsItem(r) ==
  /\ runStep[r] = "saveItem"
  /\ daoItem' = Over(daoItem, runHolds[r])
  /\ Moves(r, "saveRow", runHolds[r])
  /\ UNCHANGED <<proposalItem, proposalRow, daoRow, statsItem, statsRow, tokenPrice, responses,
                 inProgress, runJob, loneVars, freshVars, flagLost>>

\* The last write of the jobs that load the DAO and expire proposals.
SaveFieldsRow(r) ==
  /\ runStep[r] = "saveRow"
  /\ daoRow' = Over(daoRow, runHolds[r])
  /\ IF runJob[r] \in {"dao", "expired"}
       THEN Ends(r) /\ repaired' = (runJob[r] = "dao" /\ lone = r)
       ELSE Moves(r, "keys", Missing) /\ UNCHANGED <<inProgress, runJob, repaired>>
  /\ UNCHANGED <<proposalItem, proposalRow, daoItem, statsItem, statsRow, tokenPrice, responses,
                 lone, freshVars, flagLost>>

-----------------------------------------------------------------------------
(* Prices, statuses, statistics, expired proposals                         *)

\* aggregateTokenPrices: coingecko is asked ...
AskMarket(r) ==
  /\ At(r, "prices", "market")
  /\ Reads(r, "savePrice", market)

\* ... and the price of NEAR saved.
SavePrice(r) ==
  /\ At(r, "prices", "savePrice")
  /\ tokenPrice' = runHolds[r]
  /\ Moves(r, "funds", <<>>)
  /\ UNCHANGED <<rowVars, responses, inProgress, runJob, loneVars, freshVars,
                 flagLost>>

\* aggregateDaoStatuses: every row is read ...
ReadDao(r) ==
  /\ At(r, "statuses", "dao")
  /\ Reads(r, "status", daoRow)

\* ... and saved whole if its status is another.
FindStatus(r) ==
  /\ At(r, "statuses", "status")
  /\ Reads(r, IF runHolds[r].status = DaoStatus THEN "keys" ELSE "saveRow",
           [runHolds[r] EXCEPT !.status = DaoStatus])

\* getDaoStats: the DAO as the flag says.
TakeStats(r) ==
  /\ At(r, "stats", "stats")
  /\ Reads(r, "statsRow", IF allowed.dynamo THEN daoItem ELSE daoRow)

SaveStatsRow(r) ==
  /\ At(r, "stats", "statsRow")
  /\ statsRow' = runHolds[r]
  /\ Moves(r, "statsItem", runHolds[r])
  /\ UNCHANGED <<proposalItem, proposalRow, daoItem, daoRow, statsItem, tokenPrice, responses,
                 inProgress, runJob, loneVars, freshVars, flagLost>>

\* The flag of this job is cleared before the cache is.
SaveStatsItem(r) ==
  /\ At(r, "stats", "statsItem")
  /\ statsItem' = runHolds[r]
  /\ inProgress' = Stopped("stats")
  /\ Moves(r, "keys", Missing)
  /\ UNCHANGED <<proposalItem, proposalRow, daoItem, daoRow, statsRow, tokenPrice, responses,
                 runJob, loneVars, freshVars, flagLost>>

\* updateExpiredProposals: whether there is one, ...
FindExpiredRows(r) ==
  /\ At(r, "expired", "find")
  /\ Reads(r, "expire", Overdue # {})

\* ... then one update, and the DAOs found are counted again.
ExpireRows(r) ==
  /\ At(r, "expired", "expire")
  /\ proposalRow' = [p \in DOMAIN proposalRow |->
                       [proposalRow[p] EXCEPT !.expired = @ \/ p \in Overdue]]
  /\ uncleared' = (uncleared \/ Overdue # {})
  /\ IF runHolds[r] THEN Moves(r, "counts", <<>>) /\ UNCHANGED <<inProgress, runJob>>
                    ELSE Ends(r)
  /\ UNCHANGED <<proposalItem, daoItem, daoRow, statsItem, statsRow, tokenPrice, responses,
                 loneVars, lateVisits, flagLost>>

\* clearCache
ListKeys(r) ==
  /\ runStep[r] = "keys"
  /\ Reads(r, "clear", Keys(ClearedPaths))

DeleteKeys(r) ==
  /\ runStep[r] = "clear"
  /\ responses' = Without(responses, runHolds[r])
  /\ IF runJob[r] = "stats"
       THEN /\ Moves(r, "idle", Missing)
            /\ runJob' = [runJob EXCEPT ![r] = Missing] /\ UNCHANGED inProgress
       ELSE Ends(r)
  /\ UNCHANGED <<rowVars, tokenPrice, loneVars, freshVars, flagLost>>

\* Where a store, the contract or coingecko fails: a failure for one DAO is
\* logged and the job goes on; any other ends the run.
OneDaoFails(r) ==
  \/ runJob[r] = "prices" /\ runStep[r] \in {"funds", "saveRow"}
  \/ runJob[r] = "statuses" /\ runStep[r] \in {"status", "saveRow"}
  \/ runJob[r] = "stats" /\ runStep[r] \in {"stats", "statsRow", "statsItem"}

JobFails(r) ==
  /\ runStep[r] # "idle" /\ Spend("jobFailures")
  /\ lone' = IF lone = r THEN Missing ELSE lone
  /\ \/ /\ OneDaoFails(r)
        /\ runStep' = [runStep EXCEPT ![r] = "keys"]
        /\ runHolds' = [runHolds EXCEPT ![r] = Missing]
        /\ inProgress' = IF runJob[r] = "stats" THEN Stopped("stats") ELSE inProgress
        /\ UNCHANGED <<runJob, flagLost>>
     \/ \* one proposal is not created
        /\ At(r, "dao", "create")
        /\ \E p \in runHolds[r].items \cup runHolds[r].rows :
             runHolds' = [runHolds EXCEPT ![r].items = @ \ {p}, ![r].rows = @ \ {p}]
        /\ UNCHANGED <<runStep, runJob, inProgress, flagLost>>
     \/ /\ ~OneDaoFails(r) /\ ~At(r, "dao", "create")
        /\ runStep' = [runStep EXCEPT ![r] = "idle"]
        /\ runHolds' = [runHolds EXCEPT ![r] = Missing]
        /\ runJob' = [runJob EXCEPT ![r] = Missing]
        /\ inProgress' = Stopped(runJob[r])
        /\ flagLost' = (flagLost \/ (runJob[r] = "stats" /\ runStep[r] \in {"keys", "clear"}))
  /\ UNCHANGED <<chainVars, rowVars, market, tokenPrice, responses, indexVars, visitVars,
                 repaired, freshVars>>

RunStep(r) ==
  \/ Start(r)
  \/ GetInfo(r) \/ GetChunk(r) \/ ListRows(r) \/ DeleteRow(r) \/ CreateItem(r) \/ CreateRow(r)
  \/ GetStatus(r) \/ GetCounts(r) \/ GetFunds(r) \/ SaveFieldsItem(r) \/ SaveFieldsRow(r)
  \/ AskMarket(r) \/ SavePrice(r) \/ ReadDao(r) \/ FindStatus(r)
  \/ TakeStats(r) \/ SaveStatsRow(r) \/ SaveStatsItem(r)
  \/ FindExpiredRows(r) \/ ExpireRows(r)
  \/ ListKeys(r) \/ DeleteKeys(r) \/ JobFails(r)

AggregationNext ==
  \/ Change \/ PeriodEnds \/ DayEnds \/ MarketMoves
  \/ IndexNews
  \/ \E r \in Runs : RunStep(r)
  \/ \E v \in Visitors : Visit(v) \/ Store(v)

AggregationSpec == AggregationInit /\ [][AggregationNext]_aggregationVars

-----------------------------------------------------------------------------
(* Properties                                                              *)

\* After a run of aggregateDaoById that neither the chain nor the indexer nor
\* another job has overlapped, and of which nothing failed, the rows are the
\* proposals of the contract, each has an item that shows it unarchived, and
\* the DAO shows their counts, its status and its funds in both stores, whatever
\* receipts were missed before: the chunks, the deletions, the saves five at a
\* time and the counts fit together.
AggregationRepairs ==
  repaired =>
    /\ DOMAIN proposalRow = Existing(contract)
    /\ \A p \in Existing(contract) :
         /\ proposalRow[p].status = contract[p]
         /\ proposalItem[p] = [status |-> contract[p], archived |-> FALSE]
    /\ \A dao \in {daoItem, daoRow} :
         /\ [total |-> dao.total, active |-> dao.active] = Counts
         /\ dao.status = DaoStatus /\ dao.funds = tokenPrice

Working(j) ==
  {r \in Runs : runJob[r] = j /\ ~(j = "stats" /\ runStep[r] \in {"keys", "clear"})}

\* The flag of a job is set exactly while one run of it works, so that neither
\* two runs write over each other nor a failed run stops the job for ever; a run
\* of the statistics that fails after it cleared its flag may clear the flag of
\* the next run (AggregatorService).
JobsExclusive ==
  ~flagLost =>
    \A j \in Flags :
      /\ Cardinality(Working(j)) <= 1
      /\ j \in inProgress <=> Working(j) # {}

\* A cached list of proposals asked for with a query shows the rows, once its
\* keys were cleared after the last row was written, unless a response was stored
\* that had been read before the keys were listed: no row is written after the
\* keys are listed and no response read later is deleted for it
\* (handleProposalCache, HttpCacheInterceptor).  What the jobs write stays hidden
\* until the next receipt, and the other lists are not cleared: see ListsCleared.
ResponsesFresh ==
  ~uncleared /\ indexStep # "delete" /\ "/proposals?" \in DOMAIN responses =>
    responses["/proposals?"] = Listing

=============================================================================
