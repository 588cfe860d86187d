--------------------------- MODULE Services_proofs ---------------------------
(***************************************************************************)
(* Proofs about the aggregator and the cache of responses (Aggregation),   *)
(* the addresses and codes of an account (Accounts) and its inbox          *)
(* (Notifications).                                                        *)
(***************************************************************************)
EXTENDS Aggregation, Accounts, Notifications, SequenceTheorems, FiniteSetTheorems, TLAPS

(***************************************************************************)
(* The aggregator                                                          *)
(***************************************************************************)
\* Functions from some of S to T.
Partly(S, T) == UNION {[D -> T] : D \in SUBSET S}

Voted == {"InProgress", "Approved"}
DaoStatuses == {"Active", "Inactive"}
AllFields == {"total", "active", "status", "funds"}
DaoRecords == [total : Nat, active : Nat, status : DaoStatuses, funds : Nat]
ProposalRows == [status : Voted, expired : BOOLEAN, recent : BOOLEAN]
ProposalItems == [status : Voted, archived : BOOLEAN]
News == [number : Numbers, status : Voted \cup {"removed"}]

\* Some of the fields of a DAO.
FieldsOf(h, D) ==
  /\ DOMAIN h = D
  /\ "total" \in D => h.total \in Nat
  /\ "active" \in D => h.active \in Nat
  /\ "status" \in D => h.status \in DaoStatuses
  /\ "funds" \in D => h.funds \in Nat

StoresType ==
  /\ contract \in [Numbers -> Voted \cup {"none", "removed"}]
  /\ overdue \subseteq Numbers /\ news \in Seq(News)
  /\ proposalItem \in Partly(Numbers, ProposalItems)
  /\ proposalRow \in Partly(Numbers, ProposalRows)
  /\ daoItem \in DaoRecords /\ daoRow \in DaoRecords
  /\ statsItem \in DaoRecords \cup {Missing} /\ statsRow \in DaoRecords \cup {Missing}
  /\ market \in Nat /\ tokenPrice \in Nat
  /\ allowed \in [changes : Nat, periods : Nat, days : Nat, jobs : SUBSET Jobs, starts : Nat,
                  visits : Nat, markets : Nat, jobFailures : Nat, indexed : BOOLEAN,
                  dynamo : BOOLEAN]

IndexType ==
  /\ indexStep \in {"idle", "item", "row", "count", "daoItem", "daoRow", "keys", "delete"}
  /\ indexStep \in {"item", "row", "count"} =>
       indexHolds \in [new : News, status : DaoStatuses]
  /\ indexStep \in {"daoItem", "daoRow"} => FieldsOf(indexHolds, {"total", "active", "status"})
  /\ indexStep = "delete" => indexHolds \subseteq HandledPaths
  /\ indexStep # "idle" => news # <<>>

CacheType ==
  /\ DOMAIN responses \subseteq Paths
  /\ visitStep \in [Visitors -> {"idle", "store"}]
  /\ visitHolds = [v \in Visitors |-> visitHolds[v]]
  /\ \A v \in Visitors : visitStep[v] = "store" => visitHolds[v].path \in Paths
  /\ uncleared \in BOOLEAN /\ lateVisits \subseteq Visitors

\* The steps of each job.
JobSteps(j) ==
  CASE j = "dao" -> {"info", "chunk", "list", "delete", "create", "counts", "funds",
                     "saveItem", "saveRow"}
    [] j = "prices" -> {"market", "savePrice", "funds", "saveRow", "keys", "clear"}
    [] j = "statuses" -> {"dao", "status", "saveRow", "keys", "clear"}
    [] j = "stats" -> {"stats", "statsRow", "statsItem", "keys", "clear"}
    [] j = "expired" -> {"find", "expire", "counts", "saveItem", "saveRow"}

\* What a run has read, by its step.
HoldsType(j, s, h) ==
  /\ s = "chunk" => h \in [last : Nat, chunk : Nat, proposals : Partly(Numbers, Voted)]
  /\ s = "list" => h \in Partly(Numbers, Voted)
  /\ s = "delete" => h \in [gone : SUBSET Numbers, proposals : Partly(Numbers, Voted)]
  /\ s = "create" =>
       /\ h \in [items : SUBSET Numbers, rows : SUBSET Numbers,
                 proposals : Partly(Numbers, Voted)]
       /\ h.items \cup h.rows \subseteq DOMAIN h.proposals
  /\ s = "counts" => FieldsOf(h, IF j = "dao" THEN {"status"} ELSE {})
  /\ s = "funds" => FieldsOf(h, IF j = "dao" THEN AllFields \ {"funds"} ELSE {})
  /\ s = "saveItem" => FieldsOf(h, IF j = "dao" THEN AllFields ELSE {"total", "active"})
  /\ s = "saveRow" => FieldsOf(h, CASE j = "dao" -> AllFields
                                    [] j = "expired" -> {"total", "active"}
                                    [] j = "prices" -> {"funds"}
                                    [] j = "statuses" -> AllFields)
  /\ s \in {"status", "statsRow", "statsItem"} => h \in DaoRecords
  /\ s = "savePrice" => h \in Nat
  /\ s = "expire" => h \in BOOLEAN
  /\ s = "clear" => h \subseteq ClearedPaths

RunType(r) ==
  IF runStep[r] = "idle" THEN runJob[r] = Missing
  ELSE /\ runJob[r] \in Jobs /\ runStep[r] \in JobSteps(runJob[r])
       /\ HoldsType(runJob[r], runStep[r], runHolds[r])

RunsType ==
  /\ inProgress \subseteq Flags /\ flagLost \in BOOLEAN
  /\ runJob = [r \in Runs |-> runJob[r]]
  /\ runStep = [r \in Runs |-> runStep[r]]
  /\ runHolds = [r \in Runs |-> runHolds[r]]
  /\ \A r \in Runs : RunType(r)
  /\ lone \in Runs \cup {Missing} /\ repaired \in BOOLEAN

\* At most one run works on a job that has a flag, and the flag says whether.
FlagsInv ==
  ~flagLost =>
    /\ \A j \in Flags : \A r, q \in Working(j) : r = q
    /\ \A j \in Flags : j \in inProgress <=> Working(j) # {}

\* What is cached, and what a visitor is about to cache, when nothing has been
\* written since the keys were listed.
FreshInv ==
  ~uncleared =>
    /\ ("/proposals?" \in DOMAIN responses
         /\ ~(indexStep = "delete" /\ "/proposals?" \in indexHolds)) =>
         responses["/proposals?"] = Listing
    /\ \A v \in Visitors \ lateVisits :
         (visitStep[v] = "store" /\ visitHolds[v].path = "/proposals?") =>
           visitHolds[v].body = Listing

\* The contract numbers its proposals one after another.
NumbersInv == \E k \in 0 .. MaxNumber : \A p \in Numbers : contract[p] # "none" <=> p < k

Added == {p \in Numbers : contract[p] # "none"}

Existent(S) == [p \in Existing(contract) \cap S |-> contract[p]]

RowRepaired(p) == p \in DOMAIN proposalRow /\ proposalRow[p].status = contract[p]
ItemRepaired(p) ==
  p \in DOMAIN proposalItem /\ proposalItem[p] = [status |-> contract[p], archived |-> FALSE]

RowsRepaired ==
  /\ DOMAIN proposalRow = Existing(contract)
  /\ \A p \in Existing(contract) : RowRepaired(p) /\ ItemRepaired(p)

\* The fields a run has computed so far are those the records now show.
ComputedInv(h) ==
  /\ "status" \in DOMAIN h => h.status = DaoStatus
  /\ "total" \in DOMAIN h => h.total = Counts.total
  /\ "active" \in DOMAIN h => h.active = Counts.active
  /\ "funds" \in DOMAIN h => h.funds = tokenPrice

\* What a run that loads the DAO has done, when nothing has overlapped it.
LoadInv(s, h) ==
  /\ s = "chunk" => /\ h.last = Cardinality(Added) /\ h.chunk <= Chunks(h.last)
                    /\ h.proposals = Existent(0 .. h.chunk * ChunkSize - 1)
  /\ s = "list" => h = Existent(Numbers)
  /\ s = "delete" => /\ h.proposals = Existent(Numbers)
                     /\ h.gone = DOMAIN proposalRow \ Existing(contract)
  /\ s = "create" => /\ h.proposals = Existent(Numbers)
                     /\ DOMAIN proposalRow \subseteq Existing(contract)
                     /\ \A p \in Existing(contract) : /\ p \in h.items \/ ItemRepaired(p)
                                                      /\ p \in h.items \cup h.rows \/ RowRepaired(p)
  /\ s \in {"counts", "funds", "saveItem", "saveRow"} => RowsRepaired /\ ComputedInv(h)
  /\ s = "saveRow" => ComputedInv(daoItem)

\* Nothing else is going on while a run is the only one, ...
LoneInv ==
  lone # Missing =>
    /\ indexStep = "idle" /\ \A r \in Runs \ {lone} : runStep[r] = "idle"
    /\ runJob[lone] = "dao" => LoadInv(runStep[lone], runHolds[lone])

\* ... or after the last of them has repaired the records.
RepairedInv ==
  repaired =>
    /\ indexStep = "idle" /\ \A r \in Runs : runStep[r] = "idle"
    /\ RowsRepaired /\ ComputedInv(daoItem) /\ ComputedInv(daoRow)

AggregationInv ==
  /\ StoresType /\ IndexType /\ CacheType /\ RunsType
  /\ FlagsInv
  /\ FreshInv
  /\ NumbersInv
  /\ LoneInv /\ RepairedInv

-----------------------------------------------------------------------------
(* What a store or a request holds                                         *)

LEMMA PartlyFacts ==
  ASSUME NEW S, NEW T
  PROVE  /\ <<>> \in Partly(S, T)
         /\ \A f \in Partly(S, T) : /\ DOMAIN f \subseteq S /\ f = [x \in DOMAIN f |-> f[x]]
                                    /\ \A x \in DOMAIN f : f[x] \in T
         /\ \A D \in SUBSET S : \A f \in [D -> T] : f \in Partly(S, T)
<1>1. <<>> \in [{} -> T]
  OBVIOUS
<1> QED
  BY <1>1 DEF Partly

LEMMA UpsertFacts ==
  ASSUME NEW S, NEW T, NEW f \in Partly(S, T), NEW k \in S, NEW v \in T
  PROVE  Upsert(f, k, v) \in Partly(S, T)
<1>1. DOMAIN f \subseteq S /\ \A x \in DOMAIN f : f[x] \in T
  BY PartlyFacts
<1>2. Upsert(f, k, v) \in [DOMAIN f \cup {k} -> T]
  BY <1>1 DEF Upsert
<1> QED
  BY <1>1, <1>2, PartlyFacts

LEMMA OverFacts ==
  ASSUME NEW S, NEW T, NEW f \in Partly(S, T), NEW g \in Partly(S, T)
  PROVE  Over(f, g) \in Partly(S, T)
<1>1. /\ DOMAIN f \subseteq S /\ \A x \in DOMAIN f : f[x] \in T
      /\ DOMAIN g \subseteq S /\ \A x \in DOMAIN g : g[x] \in T
  BY PartlyFacts
<1>2. Over(f, g) \in [DOMAIN f \cup DOMAIN g -> T]
  BY <1>1 DEF Over
<1> QED
  BY <1>1, <1>2, PartlyFacts

LEMMA WithoutFacts ==
  ASSUME NEW S, NEW T, NEW f \in Partly(S, T), NEW gone
  PROVE  Without(f, gone) \in Partly(S, T)
<1>1. DOMAIN f \subseteq S /\ \A x \in DOMAIN f : f[x] \in T
  BY PartlyFacts
<1>2. Without(f, gone) \in [DOMAIN f \ gone -> T]
  BY <1>1 DEF Without
<1> QED
  BY <1>1, <1>2, PartlyFacts

\* The records of a DAO with some fields saved over them.
LEMMA DaoFacts ==
  ASSUME NEW h, NEW D \in SUBSET AllFields, FieldsOf(h, D)
  PROVE  /\ \A dao \in DaoRecords : /\ Over(dao, h) \in DaoRecords
                                    /\ \A x \in D : Over(dao, h)[x] = h[x]
         /\ D = AllFields => \A dao : \A x \in D : Over(dao, h)[x] = h[x]
<1>1. ASSUME NEW dao \in DaoRecords
      PROVE  Over(dao, h) \in DaoRecords
  <2> DEFINE new == Over(dao, h)
  <2>1. DOMAIN dao = AllFields
    BY DEF DaoRecords, AllFields
  <2>2. DOMAIN new = AllFields
    BY <2>1 DEF Over, FieldsOf
  <2>3. /\ new["total"] = IF "total" \in D THEN h["total"] ELSE dao["total"]
        /\ new["active"] = IF "active" \in D THEN h["active"] ELSE dao["active"]
        /\ new["status"] = IF "status" \in D THEN h["status"] ELSE dao["status"]
        /\ new["funds"] = IF "funds" \in D THEN h["funds"] ELSE dao["funds"]
    BY <2>1 DEF Over, FieldsOf, AllFields
  <2>4. new = [x \in AllFields |-> new[x]]
    BY <2>1 DEF Over, FieldsOf
  <2> HIDE DEF new
  <2>5. new.total \in Nat /\ new.active \in Nat /\ new.status \in DaoStatuses /\ new.funds \in Nat
    BY <2>3 DEF FieldsOf, DaoRecords
  <2>6. new = [total |-> new.total, active |-> new.active, status |-> new.status,
               funds |-> new.funds]
    BY <2>4 DEF AllFields
  <2>7. new \in DaoRecords
    BY <2>5, <2>6 DEF DaoRecords
  <2> QED
    BY <2>7 DEF new
<1> QED
  BY <1>1 DEF Over, FieldsOf

LEMMA CountsFacts ==
  ASSUME StoresType
  PROVE  /\ Counts.total \in Nat /\ Counts.active \in Nat /\ DOMAIN Counts = {"total", "active"}
         /\ DaoStatus \in DaoStatuses
         /\ \A S : S \subseteq Numbers => IsFiniteSet(S) /\ Cardinality(S) \in Nat
<1>1. ASSUME NEW S, S \subseteq Numbers
      PROVE  IsFiniteSet(S) /\ Cardinality(S) \in Nat
  <2>1. IsFiniteSet(Numbers)
    BY AggregationAssumption, FS_Interval DEF Numbers
  <2>2. IsFiniteSet(S)
    BY <1>1, <2>1, FS_Subset
  <2> QED
    BY <2>2, FS_CardinalityType
<1>2. /\ DOMAIN proposalItem \subseteq Numbers /\ DOMAIN proposalRow \subseteq Numbers
  BY PartlyFacts DEF StoresType
<1>3. /\ {p \in DOMAIN proposalItem : proposalItem[p].status = "InProgress"} \subseteq Numbers
      /\ {p \in DOMAIN proposalRow : /\ proposalRow[p].status = "InProgress"
                                     /\ ~proposalRow[p].expired} \subseteq Numbers
  BY <1>2
<1>4. Counts.total \in Nat /\ Counts.active \in Nat
  BY <1>1, <1>2, <1>3 DEF Counts
<1>5. DOMAIN Counts = {"total", "active"}
  BY DEF Counts
<1>6. DaoStatus \in DaoStatuses
  BY DEF DaoStatus, DaoStatuses
<1> QED
  BY <1>1, <1>4, <1>5, <1>6

-----------------------------------------------------------------------------
(* What each step leaves alone                                             *)

\* The steps of the other runs stay.
Kept(r) ==
  \A q \in Runs \ {r} : /\ runJob'[q] = runJob[q] /\ runStep'[q] = runStep[q]
                        /\ runHolds'[q] = runHolds[q]

RunsAre == /\ runJob = [r \in Runs |-> runJob[r]]
           /\ runStep = [r \in Runs |-> runStep[r]]
           /\ runHolds = [r \in Runs |-> runHolds[r]]

LEMMA MovesEffect ==
  ASSUME RunsAre, NEW r \in Runs, NEW next, NEW holds, Moves(r, next, holds)
  PROVE  /\ runStep'[r] = next /\ runHolds'[r] = holds
         /\ runJob' = runJob => RunsAre' /\ runJob'[r] = runJob[r] /\ Kept(r)
BY DEF RunsAre, Moves, Kept

LEMMA EndsEffect ==
  ASSUME RunsAre, NEW r \in Runs, Ends(r)
  PROVE  /\ runStep'[r] = "idle" /\ runJob'[r] = Missing /\ inProgress' = inProgress \ {runJob[r]}
         /\ RunsAre' /\ Kept(r)
BY DEF RunsAre, Ends, Moves, Kept, Stopped

LEMMA StartEffect ==
  ASSUME RunsAre, NEW r \in Runs, Start(r)
  PROVE  /\ RunsAre' /\ Kept(r) /\ runStep[r] = "idle"
         /\ \E j \in allowed.jobs \ inProgress :
              /\ runJob'[r] = j /\ runStep'[r] = First(j)
              /\ inProgress' = inProgress \cup ({j} \cap Flags)
BY DEF RunsAre, Start, Kept

LEMMA ReadsEffect ==
  ASSUME RunsAre, NEW r \in Runs, NEW next, NEW holds, Reads(r, next, holds)
  PROVE  /\ runStep'[r] = next /\ runHolds'[r] = holds /\ runJob'[r] = runJob[r]
         /\ RunsAre' /\ Kept(r)
BY MovesEffect DEF Reads

LEMMA JobFailsEffect ==
  ASSUME RunsAre, NEW r \in Runs, JobFails(r)
  PROVE  RunsAre' /\ Kept(r)
BY DEF RunsAre, JobFails, Kept

Loads(r) ==
  \/ GetInfo(r) \/ GetChunk(r) \/ ListRows(r)
  \/ GetStatus(r) \/ GetCounts(r) \/ GetFunds(r)
  \/ AskMarket(r) \/ ReadDao(r) \/ FindStatus(r) \/ TakeStats(r)
  \/ FindExpiredRows(r) \/ ListKeys(r)

LEMMA LoadsRead ==
  ASSUME NEW r \in Runs, Loads(r)
  PROVE  \E next, holds : Reads(r, next, holds)
<1>1. CASE GetInfo(r)
  BY <1>1 DEF GetInfo
<1>2. CASE GetChunk(r)
  <2> DEFINE h == runHolds[r]
             from == h.chunk * ChunkSize
             chunk == [p \in Existing(contract) \cap from .. from + ChunkSize - 1 |-> contract[p]]
  <2>1. \/ Reads(r, "chunk", [h EXCEPT !.chunk = @ + 1, !.proposals = Over(h.proposals, chunk)])
        \/ Reads(r, "list", h.proposals)
    BY <1>2 DEF GetChunk
  <2> QED
    BY <2>1
<1>3. CASE FindStatus(r)
  BY <1>3 DEF FindStatus
<1>4. CASE GetCounts(r) \/ GetFunds(r) \/ TakeStats(r)
  BY <1>4 DEF GetCounts, GetFunds, TakeStats
<1>5. CASE ListRows(r) \/ GetStatus(r) \/ AskMarket(r) \/ ReadDao(r) \/ FindExpiredRows(r)
           \/ ListKeys(r)
  BY <1>5 DEF ListRows, GetStatus, AskMarket, ReadDao, FindExpiredRows, ListKeys
<1> QED
  BY <1>1, <1>2, <1>3, <1>4, <1>5 DEF Loads

LEMMA RunsKept ==
  ASSUME RunsAre, NEW r \in Runs, RunStep(r)
  PROVE  RunsAre' /\ Kept(r)
<1>1. CASE Loads(r)
  BY <1>1, LoadsRead, ReadsEffect
<1>2. CASE Start(r) \/ JobFails(r)
  BY <1>2, StartEffect, JobFailsEffect
<1>3. CASE DeleteRow(r)
  <2>1. /\ \E next, holds : Moves(r, next, holds)
        /\ runJob' = runJob
    BY <1>3 DEF DeleteRow
  <2> QED
    BY <2>1, MovesEffect
<1>4. CASE CreateItem(r) \/ CreateRow(r)
  <2>1. /\ \E next, holds : Moves(r, next, holds)
        /\ runJob' = runJob
    BY <1>4 DEF CreateItem, CreateRow
  <2> QED
    BY <2>1, MovesEffect
<1>5. CASE SaveFieldsItem(r) \/ SavePrice(r) \/ SaveStatsRow(r) \/ SaveStatsItem(r)
  <2>1. /\ \E next, holds : Moves(r, next, holds)
        /\ runJob' = runJob
    BY <1>5 DEF SaveFieldsItem, SavePrice, SaveStatsRow, SaveStatsItem
  <2> QED
    BY <2>1, MovesEffect
<1>6. CASE SaveFieldsRow(r)
  <2>1. Ends(r) \/ (Moves(r, "keys", Missing) /\ runJob' = runJob)
    BY <1>6 DEF SaveFieldsRow
  <2> QED
    BY <2>1, EndsEffect, MovesEffect
<1>7. CASE ExpireRows(r)
  <2>1. Ends(r) \/ (Moves(r, "counts", <<>>) /\ runJob' = runJob)
    BY <1>7 DEF ExpireRows
  <2> QED
    BY <2>1, EndsEffect, MovesEffect
<1>8. CASE DeleteKeys(r)
  <2>1. CASE runJob[r] = "stats"
    BY <1>8, <2>1 DEF DeleteKeys, Moves, RunsAre, Kept
  <2>2. CASE runJob[r] # "stats"
    BY <1>8, <2>2, EndsEffect DEF DeleteKeys
  <2> QED
    BY <2>1, <2>2
<1> QED
  BY <1>1, <1>2, <1>3, <1>4, <1>5, <1>6, <1>7, <1>8 DEF RunStep, Loads


\* What the steps leave alone.
LEMMA RunFrame ==
  ASSUME NEW r \in Runs, RunStep(r)
  PROVE  /\ UNCHANGED <<chainVars, market, indexVars, visitVars>>
         /\ ~Start(r) /\ ~JobFails(r) => allowed' = allowed
         /\ proposalRow' = proposalRow \/ DeleteRow(r) \/ CreateRow(r) \/ ExpireRows(r)
         /\ proposalItem' = proposalItem \/ CreateItem(r)
         /\ daoItem' = daoItem \/ SaveFieldsItem(r)
         /\ daoRow' = daoRow \/ SaveFieldsRow(r)
         /\ statsItem' = statsItem \/ SaveStatsItem(r)
         /\ statsRow' = statsRow \/ SaveStatsRow(r)
         /\ tokenPrice' = tokenPrice \/ SavePrice(r)
         /\ responses' = responses \/ DeleteKeys(r)
         /\ UNCHANGED freshVars \/ DeleteRow(r) \/ CreateRow(r) \/ ExpireRows(r)
         /\ lateVisits' = lateVisits
         /\ lone' = lone \/ Start(r) \/ JobFails(r)
         /\ repaired' = repaired \/ Start(r) \/ SaveFieldsRow(r)
         /\ flagLost' = flagLost \/ JobFails(r)
<1>1. CASE Loads(r)
  <2>1. PICK next, holds : Reads(r, next, holds)
    BY <1>1, LoadsRead
  <2> QED
    BY <2>1 DEF Reads, Moves, rowVars, loneVars, freshVars
<1>2. CASE Start(r)
  BY <1>2 DEF Start, rowVars, freshVars
<1>3. CASE JobFails(r)
  BY <1>3 DEF JobFails, rowVars, freshVars
<1>4. CASE DeleteRow(r)
  BY <1>4 DEF DeleteRow, Moves, loneVars, freshVars
<1>5. CASE CreateItem(r)
  BY <1>5 DEF CreateItem, Moves, loneVars, freshVars
<1>6. CASE CreateRow(r)
  BY <1>6 DEF CreateRow, Moves, loneVars, freshVars
<1>7. CASE SaveFieldsItem(r)
  BY <1>7 DEF SaveFieldsItem, Moves, loneVars, freshVars
<1>8. CASE SaveFieldsRow(r)
  BY <1>8 DEF SaveFieldsRow, Ends, Moves, loneVars, freshVars
<1>9. CASE SavePrice(r)
  BY <1>9 DEF SavePrice, Moves, rowVars, loneVars, freshVars
<1>10. CASE SaveStatsRow(r)
  BY <1>10 DEF SaveStatsRow, Moves, loneVars, freshVars
<1>11. CASE SaveStatsItem(r)
  BY <1>11 DEF SaveStatsItem, Moves, loneVars, freshVars
<1>12. CASE ExpireRows(r)
  BY <1>12 DEF ExpireRows, Ends, Moves, loneVars, freshVars
<1>13. CASE DeleteKeys(r)
  BY <1>13 DEF DeleteKeys, Ends, Moves, rowVars, loneVars, freshVars
<1> QED
  BY <1>1, <1>2, <1>3, <1>4, <1>5, <1>6, <1>7, <1>8, <1>9, <1>10, <1>11, <1>12, <1>13
  DEF RunStep, Loads

LEMMA IndexFrame ==
  ASSUME IndexNews
  PROVE  /\ UNCHANGED <<contract, overdue, statsItem, statsRow, market, tokenPrice, runVars,
                        visitVars, allowed, flagLost>>
         /\ Disturbs
         /\ news' = news \/ IndexDelete \/ IndexCountFails
         /\ proposalItem' = proposalItem \/ IndexItem
         /\ proposalRow' = proposalRow \/ IndexRow
         /\ daoItem' = daoItem \/ IndexDaoItem
         /\ daoRow' = daoRow \/ IndexDaoRow
         /\ responses' = responses \/ IndexDelete
         /\ uncleared' = uncleared \/ IndexRow \/ IndexKeys
         /\ lateVisits' = lateVisits \/ IndexKeys
<1>1. CASE BeginNews
  BY <1>1 DEF BeginNews, Indexes, freshVars
<1>2. CASE IndexItem
  BY <1>2 DEF IndexItem, Indexes, freshVars
<1>3. CASE IndexRow
  BY <1>3 DEF IndexRow, Indexes, freshVars
<1>4. CASE IndexCount
  BY <1>4 DEF IndexCount, Indexes, freshVars
<1>5. CASE IndexDaoItem
  BY <1>5 DEF IndexDaoItem, Indexes, freshVars
<1>6. CASE IndexDaoRow
  BY <1>6 DEF IndexDaoRow, Indexes, freshVars
<1>7. CASE IndexKeys
  BY <1>7 DEF IndexKeys, Indexes
<1>8. CASE IndexDelete
  BY <1>8 DEF IndexDelete, Indexes, freshVars
<1>9. CASE IndexCountFails
  BY <1>9 DEF IndexCountFails, Indexes, freshVars
<1> QED
  BY <1>1, <1>2, <1>3, <1>4, <1>5, <1>6, <1>7, <1>8, <1>9 DEF IndexNews

LEMMA WorldFrame ==
  ASSUME Change \/ PeriodEnds \/ DayEnds \/ MarketMoves
  PROVE  /\ UNCHANGED <<proposalItem, daoItem, daoRow, statsItem, statsRow, tokenPrice, responses,
                        runVars, indexVars, visitVars, freshVars, flagLost>>
         /\ proposalRow' = proposalRow \/ DayEnds
         /\ contract' = contract \/ Change
         /\ news' = news \/ Change
         /\ UNCHANGED loneVars \/ Disturbs
         /\ Change \/ DayEnds => Disturbs
BY DEF Change, PeriodEnds, DayEnds, MarketMoves, rowVars, chainVars

LEMMA VisitFrame ==
  ASSUME NEW v \in Visitors, Visit(v) \/ Store(v)
  PROVE  /\ UNCHANGED <<chainVars, rowVars, market, tokenPrice, runVars, indexVars, loneVars,
                        flagLost>>
         /\ responses' = responses \/ Store(v)
         /\ UNCHANGED freshVars \/ Store(v)
BY DEF Visit, Store

-----------------------------------------------------------------------------
(* Types                                                                   *)

LEMMA RunTypes ==
  ASSUME RunsType, NEW r \in Runs, runStep[r] # "idle"
  PROVE  /\ runJob[r] \in Jobs /\ runStep[r] \in JobSteps(runJob[r])
         /\ HoldsType(runJob[r], runStep[r], runHolds[r])
BY DEF RunsType, RunType

LEMMA ItemSaved ==
  ASSUME StoresType, NEW p \in Numbers, NEW s \in Voted, SaveItemOf(p, s)
  PROVE  /\ proposalItem' \in Partly(Numbers, ProposalItems)
         /\ DOMAIN proposalItem' = DOMAIN proposalItem \cup {p}
         /\ proposalItem'[p] = [status |-> s, archived |-> FALSE]
         /\ \A q \in DOMAIN proposalItem \ {p} : proposalItem'[q] = proposalItem[q]
<1> DEFINE item == [status |-> s, archived |-> FALSE]
<1>1. item \in ProposalItems
  BY DEF ProposalItems
<1>2. proposalItem \in Partly(Numbers, ProposalItems) /\ proposalItem' = Upsert(proposalItem, p, item)
  BY DEF StoresType, SaveItemOf
<1> HIDE DEF item
<1>3. Upsert(proposalItem, p, item) \in Partly(Numbers, ProposalItems)
  BY <1>1, <1>2, UpsertFacts
<1>4. /\ DOMAIN Upsert(proposalItem, p, item) = DOMAIN proposalItem \cup {p}
      /\ Upsert(proposalItem, p, item)[p] = item
      /\ \A q \in DOMAIN proposalItem \ {p} : Upsert(proposalItem, p, item)[q] = proposalItem[q]
  BY DEF Upsert
<1> QED
  BY <1>2, <1>3, <1>4 DEF item

LEMMA RowSaved ==
  ASSUME StoresType, NEW p \in Numbers, NEW s \in Voted, NEW recent \in BOOLEAN,
         SaveRowOf(p, s, recent)
  PROVE  /\ proposalRow' \in Partly(Numbers, ProposalRows)
         /\ DOMAIN proposalRow' = DOMAIN proposalRow \cup {p}
         /\ proposalRow'[p].status = s
         /\ \A q \in DOMAIN proposalRow \ {p} : proposalRow'[q] = proposalRow[q]
<1> DEFINE row == [status |-> s, expired |-> FALSE,
                   recent |-> recent \/ (p \in DOMAIN proposalRow /\ proposalRow[p].recent)]
<1>1. p \in DOMAIN proposalRow => proposalRow[p].recent \in BOOLEAN
  <2>1. p \in DOMAIN proposalRow => proposalRow[p] \in ProposalRows
    BY PartlyFacts DEF StoresType
  <2> QED
    BY <2>1 DEF ProposalRows
<1>2. row \in ProposalRows /\ row.status = s
  BY <1>1 DEF ProposalRows
<1>3. proposalRow' = Upsert(proposalRow, p, row)
  BY DEF SaveRowOf
<1>4. proposalRow \in Partly(Numbers, ProposalRows)
  BY DEF StoresType
<1>5. row \in ProposalRows
  BY <1>2
<1> HIDE DEF row
<1>6. Upsert(proposalRow, p, row) \in Partly(Numbers, ProposalRows)
  BY <1>4, <1>5, UpsertFacts
<1>7. /\ DOMAIN Upsert(proposalRow, p, row) = DOMAIN proposalRow \cup {p}
      /\ Upsert(proposalRow, p, row)[p] = row
      /\ \A q \in DOMAIN proposalRow \ {p} : Upsert(proposalRow, p, row)[q] = proposalRow[q]
  BY DEF Upsert
<1> QED
  BY <1>2, <1>3, <1>6, <1>7

LEMMA RowsOld ==
  ASSUME StoresType, NEW f \in [DOMAIN proposalRow -> BOOLEAN],
         NEW g \in [DOMAIN proposalRow -> BOOLEAN],
         proposalRow' = [p \in DOMAIN proposalRow |->
                           [proposalRow[p] EXCEPT !.expired = f[p], !.recent = g[p]]]
  PROVE  /\ proposalRow' \in Partly(Numbers, ProposalRows)
         /\ DOMAIN proposalRow' = DOMAIN proposalRow
         /\ \A p \in DOMAIN proposalRow : /\ proposalRow'[p].status = proposalRow[p].status
                                          /\ proposalRow'[p].expired = f[p]
<1>1. DOMAIN proposalRow \subseteq Numbers
      /\ \A p \in DOMAIN proposalRow : proposalRow[p] \in ProposalRows
  BY PartlyFacts DEF StoresType
<1>2. \A p \in DOMAIN proposalRow :
        /\ [proposalRow[p] EXCEPT !.expired = f[p], !.recent = g[p]] \in ProposalRows
        /\ [proposalRow[p] EXCEPT !.expired = f[p], !.recent = g[p]].status = proposalRow[p].status
        /\ [proposalRow[p] EXCEPT !.expired = f[p], !.recent = g[p]].expired = f[p]
  BY <1>1 DEF ProposalRows
<1>3. proposalRow' \in [DOMAIN proposalRow -> ProposalRows]
  BY <1>2
<1>4. proposalRow' \in Partly(Numbers, ProposalRows)
  BY <1>1, <1>3, PartlyFacts
<1> QED
  BY <1>2, <1>4

\* Rows of another day, and rows that are expired.
LEMMA RowsAged ==
  ASSUME StoresType, DayEnds \/ \E r \in Runs : ExpireRows(r)
  PROVE  /\ proposalRow' \in Partly(Numbers, ProposalRows)
         /\ DOMAIN proposalRow' = DOMAIN proposalRow
         /\ \A p \in DOMAIN proposalRow :
              /\ proposalRow'[p].status = proposalRow[p].status
              /\ proposalRow'[p].expired =
                   IF DayEnds THEN proposalRow[p].expired
                   ELSE proposalRow[p].expired \/ p \in Overdue
<1>1. \A p \in DOMAIN proposalRow : proposalRow[p] \in ProposalRows
  BY PartlyFacts DEF StoresType
<1> DEFINE f == [p \in DOMAIN proposalRow |->
                   IF DayEnds THEN proposalRow[p].expired
                   ELSE proposalRow[p].expired \/ p \in Overdue]
           g == [p \in DOMAIN proposalRow |-> IF DayEnds THEN FALSE ELSE proposalRow[p].recent]
<1>2. f \in [DOMAIN proposalRow -> BOOLEAN] /\ g \in [DOMAIN proposalRow -> BOOLEAN]
  BY <1>1 DEF ProposalRows
<1>3. \A p \in DOMAIN proposalRow :
        /\ proposalRow[p] = [status |-> proposalRow[p].status, expired |-> proposalRow[p].expired,
                             recent |-> proposalRow[p].recent]
  BY <1>1 DEF ProposalRows
<1>4. proposalRow' = [p \in DOMAIN proposalRow |->
                        [proposalRow[p] EXCEPT !.expired = f[p], !.recent = g[p]]]
  <2>1. CASE DayEnds
    <3>1. proposalRow' = [p \in DOMAIN proposalRow |-> [proposalRow[p] EXCEPT !.recent = FALSE]]
      BY <2>1 DEF DayEnds
    <3>2. \A p \in DOMAIN proposalRow :
            [proposalRow[p] EXCEPT !.recent = FALSE] =
              [proposalRow[p] EXCEPT !.expired = f[p], !.recent = g[p]]
      BY <1>1, <2>1 DEF ProposalRows
    <3> QED
      BY <3>1, <3>2
  <2>2. CASE ~DayEnds
    <3>1. proposalRow' = [p \in DOMAIN proposalRow |->
                            [proposalRow[p] EXCEPT !.expired = @ \/ p \in Overdue]]
      BY <2>2 DEF ExpireRows
    <3>2. \A p \in DOMAIN proposalRow :
            [proposalRow[p] EXCEPT !.expired = @ \/ p \in Overdue] =
              [proposalRow[p] EXCEPT !.expired = f[p], !.recent = g[p]]
      BY <1>1, <2>2 DEF ProposalRows
    <3> QED
      BY <3>1, <3>2
  <2> QED
    BY <2>1, <2>2
<1> HIDE DEF f, g
<1>5. /\ proposalRow' \in Partly(Numbers, ProposalRows)
      /\ DOMAIN proposalRow' = DOMAIN proposalRow
      /\ \A p \in DOMAIN proposalRow : /\ proposalRow'[p].status = proposalRow[p].status
                                       /\ proposalRow'[p].expired = f[p]
  BY <1>2, <1>4, RowsOld
<1> QED
  BY <1>5 DEF f

LEMMA ProposalItemsNext ==
  ASSUME StoresType, IndexType, RunsType, AggregationNext
  PROVE  proposalItem' \in Partly(Numbers, ProposalItems)
<1>0. proposalItem \in Partly(Numbers, ProposalItems)
  BY DEF StoresType
<1>1. CASE IndexItem
  <2> DEFINE p == indexHolds.new.number
             s == indexHolds.new.status
  <2>1. indexStep = "item"
    BY <1>1 DEF IndexItem, Indexes
  <2>2. p \in Numbers /\ s \in Voted \cup {"removed"}
    BY <2>1 DEF IndexType, News
  <2>3. CASE s = "removed" /\ p \notin DOMAIN proposalItem
    BY <1>0, <1>1, <2>3 DEF IndexItem
  <2>4. CASE s = "removed" /\ p \in DOMAIN proposalItem
    <3>1. proposalItem' = [proposalItem EXCEPT ![p].archived = TRUE]
      BY <1>1, <2>4 DEF IndexItem
    <3>2. /\ DOMAIN proposalItem \subseteq Numbers
          /\ proposalItem = [x \in DOMAIN proposalItem |-> proposalItem[x]]
          /\ \A x \in DOMAIN proposalItem : proposalItem[x] \in ProposalItems
      BY <1>0, PartlyFacts
    <3>3. [proposalItem[p] EXCEPT !.archived = TRUE] \in ProposalItems
      BY <2>4, <3>2 DEF ProposalItems
    <3>4. proposalItem' \in [DOMAIN proposalItem -> ProposalItems]
      BY <3>1, <3>2, <3>3
    <3> QED
      BY <3>2, <3>4, PartlyFacts
  <2>5. CASE s # "removed"
    <3>1. SaveItemOf(p, s) /\ s \in Voted
      BY <1>1, <2>2, <2>5 DEF IndexItem
    <3> QED
      BY <2>2, <3>1, ItemSaved
  <2> QED
    BY <2>3, <2>4, <2>5
<1>2. ASSUME NEW r \in Runs, CreateItem(r)
      PROVE  proposalItem' \in Partly(Numbers, ProposalItems)
  <2>1. runStep[r] = "create"
    BY <1>2 DEF CreateItem, At
  <2>2. /\ runHolds[r].items \subseteq DOMAIN runHolds[r].proposals
        /\ runHolds[r].proposals \in Partly(Numbers, Voted)
    BY <2>1, RunTypes DEF HoldsType
  <2>3. PICK p \in runHolds[r].items : SaveItemOf(p, runHolds[r].proposals[p])
    BY <1>2 DEF CreateItem
  <2>4. p \in Numbers /\ runHolds[r].proposals[p] \in Voted
    BY <2>2, PartlyFacts
  <2> QED
    BY <2>3, <2>4, ItemSaved
<1>3. CASE ~IndexItem /\ ~\E r \in Runs : CreateItem(r)
  <2>1. proposalItem' = proposalItem
    BY <1>3, RunFrame, IndexFrame, WorldFrame, VisitFrame DEF AggregationNext, rowVars
  <2> QED
    BY <1>0, <2>1
<1> QED
  BY <1>1, <1>2, <1>3

LEMMA ProposalRowsNext ==
  ASSUME StoresType, IndexType, RunsType, AggregationNext
  PROVE  proposalRow' \in Partly(Numbers, ProposalRows)
<1>0. proposalRow \in Partly(Numbers, ProposalRows)
  BY DEF StoresType
<1>1. CASE IndexRow
  <2> DEFINE p == indexHolds.new.number
             s == indexHolds.new.status
  <2>1. indexStep = "row"
    BY <1>1 DEF IndexRow, Indexes
  <2>2. p \in Numbers /\ s \in Voted \cup {"removed"}
    BY <2>1 DEF IndexType, News
  <2>3. CASE s = "removed"
    BY <1>0, <1>1, <2>3, WithoutFacts DEF IndexRow
  <2>4. CASE s # "removed"
    <3>1. SaveRowOf(p, s, s = "InProgress") /\ s \in Voted /\ (s = "InProgress") \in BOOLEAN
      BY <1>1, <2>2, <2>4 DEF IndexRow
    <3> QED
      BY <2>2, <3>1, RowSaved
  <2> QED
    BY <2>3, <2>4
<1>2. ASSUME NEW r \in Runs, CreateRow(r)
      PROVE  proposalRow' \in Partly(Numbers, ProposalRows)
  <2>1. runStep[r] = "create"
    BY <1>2 DEF CreateRow, At
  <2>2. /\ runHolds[r].rows \subseteq DOMAIN runHolds[r].proposals
        /\ runHolds[r].proposals \in Partly(Numbers, Voted)
    BY <2>1, RunTypes DEF HoldsType
  <2>3. PICK p \in runHolds[r].rows : SaveRowOf(p, runHolds[r].proposals[p], FALSE)
    BY <1>2 DEF CreateRow
  <2>4. p \in Numbers /\ runHolds[r].proposals[p] \in Voted
    BY <2>2, PartlyFacts
  <2> QED
    BY <2>3, <2>4, RowSaved
<1>3. ASSUME NEW r \in Runs, DeleteRow(r)
      PROVE  proposalRow' \in Partly(Numbers, ProposalRows)
  <2>1. proposalRow' = proposalRow \/ \E p : proposalRow' = Without(proposalRow, {p})
    BY <1>3 DEF DeleteRow
  <2> QED
    BY <1>0, <2>1, WithoutFacts
<1>4. CASE DayEnds \/ \E r \in Runs : ExpireRows(r)
  BY <1>4, RowsAged
<1>5. CASE /\ ~IndexRow /\ ~DayEnds
           /\ ~\E r \in Runs : CreateRow(r) \/ DeleteRow(r) \/ ExpireRows(r)
  <2>1. proposalRow' = proposalRow
    BY <1>5, RunFrame, IndexFrame, WorldFrame, VisitFrame DEF AggregationNext, rowVars
  <2> QED
    BY <1>0, <2>1
<1> QED
  BY <1>1, <1>2, <1>3, <1>4, <1>5

\* What a run writes to the DAO are fields of the DAO.
LEMMA RunFields ==
  ASSUME RunsType, NEW r \in Runs, runStep[r] \in {"saveItem", "saveRow"}
  PROVE  \E D \in SUBSET AllFields : FieldsOf(runHolds[r], D)
<1>1. /\ runJob[r] \in {"dao", "expired", "prices", "statuses"}
      /\ runStep[r] = "saveItem" => runJob[r] \in {"dao", "expired"}
      /\ HoldsType(runJob[r], runStep[r], runHolds[r])
  BY RunTypes DEF JobSteps, Jobs, Flags
<1>2. CASE runStep[r] = "saveItem"
  BY <1>1, <1>2 DEF HoldsType, AllFields
<1>3. CASE runStep[r] = "saveRow"
  <2>1. {"total", "active"} \subseteq AllFields /\ {"funds"} \subseteq AllFields
    BY DEF AllFields
  <2> QED
    BY <1>1, <1>3, <2>1 DEF HoldsType
<1> QED
  BY <1>2, <1>3

LEMMA DaoNext ==
  ASSUME StoresType, IndexType, RunsType, AggregationNext
  PROVE  daoItem' \in DaoRecords /\ daoRow' \in DaoRecords
<1>0. daoItem \in DaoRecords /\ daoRow \in DaoRecords
  BY DEF StoresType
<1>1. ASSUME IndexDaoItem \/ IndexDaoRow
      PROVE  \A dao \in DaoRecords : Over(dao, indexHolds) \in DaoRecords
  <2>1. FieldsOf(indexHolds, {"total", "active", "status"})
    BY <1>1 DEF IndexDaoItem, IndexDaoRow, Indexes, IndexType
  <2>2. {"total", "active", "status"} \in SUBSET AllFields
    BY DEF AllFields
  <2> QED
    BY <2>1, <2>2, DaoFacts
<1>2. ASSUME NEW r \in Runs, SaveFieldsItem(r) \/ SaveFieldsRow(r)
      PROVE  \A dao \in DaoRecords : Over(dao, runHolds[r]) \in DaoRecords
  <2>1. runStep[r] \in {"saveItem", "saveRow"}
    BY <1>2 DEF SaveFieldsItem, SaveFieldsRow
  <2>2. PICK D \in SUBSET AllFields : FieldsOf(runHolds[r], D)
    BY <2>1, RunFields
  <2> QED
    BY <2>2, DaoFacts
<1>3. daoItem' \in DaoRecords
  <2>1. CASE IndexDaoItem
    BY <1>0, <1>1, <2>1 DEF IndexDaoItem
  <2>2. CASE \E r \in Runs : SaveFieldsItem(r)
    BY <1>0, <1>2, <2>2 DEF SaveFieldsItem
  <2>3. CASE ~IndexDaoItem /\ ~\E r \in Runs : SaveFieldsItem(r)
    <3>1. daoItem' = daoItem
      BY <2>3, RunFrame, IndexFrame, WorldFrame, VisitFrame DEF AggregationNext, rowVars
    <3> QED
      BY <1>0, <3>1
  <2> QED
    BY <2>1, <2>2, <2>3
<1>4. daoRow' \in DaoRecords
  <2>1. CASE IndexDaoRow
    BY <1>0, <1>1, <2>1 DEF IndexDaoRow
  <2>2. CASE \E r \in Runs : SaveFieldsRow(r)
    BY <1>0, <1>2, <2>2 DEF SaveFieldsRow
  <2>3. CASE ~IndexDaoRow /\ ~\E r \in Runs : SaveFieldsRow(r)
    <3>1. daoRow' = daoRow
      BY <2>3, RunFrame, IndexFrame, WorldFrame, VisitFrame DEF AggregationNext, rowVars
    <3> QED
      BY <1>0, <3>1
  <2> QED
    BY <2>1, <2>2, <2>3
<1> QED
  BY <1>3, <1>4

LEMMA StoresNext ==
  ASSUME StoresType, IndexType, RunsType, AggregationNext
  PROVE  StoresType'
<1>1. contract' \in [Numbers -> Voted \cup {"none", "removed"}]
  <2>1. CASE Change
    BY <2>1 DEF StoresType, Change, Voted
  <2>2. CASE ~Change
    <3>1. contract' = contract
      BY <2>2, RunFrame, IndexFrame, WorldFrame, VisitFrame DEF AggregationNext, chainVars
    <3> QED
      BY <3>1 DEF StoresType
  <2> QED
    BY <2>1, <2>2
<1>2. overdue' \subseteq Numbers
  <2>1. CASE PeriodEnds
    BY <2>1 DEF StoresType, PeriodEnds
  <2>2. CASE ~PeriodEnds
    <3>1. overdue' = overdue
      BY <2>2, RunFrame, IndexFrame, VisitFrame DEF AggregationNext, chainVars, Change, DayEnds,
         MarketMoves
    <3> QED
      BY <3>1 DEF StoresType
  <2> QED
    BY <2>1, <2>2
<1>3. news' \in Seq(News)
  <2>0. news \in Seq(News)
    BY DEF StoresType
  <2>1. CASE Change
    <3>1. PICK p \in Numbers, s \in {"InProgress", "Approved", "removed"} :
            news' = IF allowed.indexed THEN Append(news, [number |-> p, status |-> s]) ELSE news
      BY <2>1 DEF Change
    <3>2. [number |-> p, status |-> s] \in News
      BY DEF News, Voted
    <3> QED
      BY <2>0, <3>1, <3>2, AppendProperties
  <2>2. CASE IndexDelete \/ IndexCountFails
    <3>1. news # <<>> /\ news' \in {news, Tail(news)}
      BY <2>2 DEF IndexDelete, IndexCountFails, Indexes, IndexType
    <3> QED
      BY <2>0, <3>1, HeadTailProperties
  <2>3. CASE ~Change /\ ~IndexDelete /\ ~IndexCountFails
    <3>1. news' = news
      BY <2>3, RunFrame, IndexFrame, WorldFrame, VisitFrame DEF AggregationNext, chainVars
    <3> QED
      BY <2>0, <3>1
  <2> QED
    BY <2>1, <2>2, <2>3
<1>4. market' \in Nat /\ tokenPrice' \in Nat
  <2>0. market \in Nat /\ tokenPrice \in Nat
    BY DEF StoresType
  <2>1. market' \in Nat
    <3>1. market' = market \/ market' = market + 1
      BY RunFrame, IndexFrame, VisitFrame DEF AggregationNext, Change, PeriodEnds, DayEnds,
         MarketMoves
    <3> QED
      BY <2>0, <3>1
  <2>2. ASSUME NEW r \in Runs, SavePrice(r)
        PROVE  tokenPrice' \in Nat
    <3>1. runStep[r] = "savePrice" /\ tokenPrice' = runHolds[r]
      BY <2>2 DEF SavePrice, At
    <3> QED
      BY <3>1, RunTypes DEF HoldsType
  <2>3. ASSUME ~\E r \in Runs : SavePrice(r)
        PROVE  tokenPrice' \in Nat
    <3>1. tokenPrice' = tokenPrice
      BY <2>3, RunFrame, IndexFrame, WorldFrame, VisitFrame DEF AggregationNext
    <3> QED
      BY <2>0, <3>1
  <2> QED
    BY <2>1, <2>2, <2>3
<1>5. /\ statsItem' \in DaoRecords \cup {Missing} /\ statsRow' \in DaoRecords \cup {Missing}
  <2>1. ASSUME NEW r \in Runs, SaveStatsRow(r) \/ SaveStatsItem(r)
        PROVE  runHolds[r] \in DaoRecords
    <3>1. runStep[r] \in {"statsRow", "statsItem"}
      BY <2>1 DEF SaveStatsRow, SaveStatsItem, At
    <3> QED
      BY <3>1, RunTypes DEF HoldsType
  <2>2. /\ statsItem' = statsItem \/ \E r \in Runs : SaveStatsItem(r)
        /\ statsRow' = statsRow \/ \E r \in Runs : SaveStatsRow(r)
    BY RunFrame, IndexFrame, WorldFrame, VisitFrame DEF AggregationNext, rowVars
  <2>3. statsItem' = statsItem \/ \E r \in Runs : statsItem' = runHolds[r] /\ SaveStatsItem(r)
    BY <2>2 DEF SaveStatsItem
  <2>4. statsRow' = statsRow \/ \E r \in Runs : statsRow' = runHolds[r] /\ SaveStatsRow(r)
    BY <2>2 DEF SaveStatsRow
  <2> QED
    BY <2>1, <2>3, <2>4 DEF StoresType
<1>6. allowed' \in [changes : Nat, periods : Nat, days : Nat, jobs : SUBSET Jobs, starts : Nat,
                    visits : Nat, markets : Nat, jobFailures : Nat, indexed : BOOLEAN,
                    dynamo : BOOLEAN]
  <2> DEFINE A == [changes : Nat, periods : Nat, days : Nat, jobs : SUBSET Jobs, starts : Nat,
                   visits : Nat, markets : Nat, jobFailures : Nat, indexed : BOOLEAN,
                   dynamo : BOOLEAN]
  <2>0. allowed \in A
    BY DEF StoresType
  <2>1. \/ allowed' = allowed
        \/ \E f \in {"changes", "periods", "days", "starts", "visits", "markets", "jobFailures"} :
             Spend(f)
    <3>1. CASE \E r \in Runs : RunStep(r)
      BY <3>1, RunFrame DEF Start, JobFails
    <3>2. CASE IndexNews
      BY <3>2, IndexFrame
    <3>3. CASE Change \/ PeriodEnds \/ DayEnds \/ MarketMoves
      BY <3>3 DEF Change, PeriodEnds, DayEnds, MarketMoves
    <3>4. CASE \E v \in Visitors : Visit(v) \/ Store(v)
      BY <3>4 DEF Visit, Store
    <3> QED
      BY <3>1, <3>2, <3>3, <3>4 DEF AggregationNext
  <2>2. ASSUME NEW f \in {"changes", "periods", "days", "starts", "visits", "markets",
                          "jobFailures"}, Spend(f)
        PROVE  allowed' \in A
    <3>1. allowed[f] \in Nat /\ allowed[f] > 0
      BY <2>0, <2>2 DEF Spend
    <3>2. allowed[f] - 1 \in Nat
      BY <3>1
    <3>3. allowed' = [allowed EXCEPT ![f] = allowed[f] - 1]
      BY <2>2 DEF Spend
    <3> QED
      BY <2>0, <3>2, <3>3
  <2> QED
    BY <2>0, <2>1, <2>2
<1> QED
  BY <1>1, <1>2, <1>3, <1>4, <1>5, <1>6, ProposalItemsNext, ProposalRowsNext, DaoNext
  DEF StoresType

LEMMA IndexNext ==
  ASSUME StoresType, IndexType, RunsType, AggregationNext
  PROVE  IndexType'
<1>1. CASE ~IndexNews
  <2>1. indexStep' = indexStep /\ indexHolds' = indexHolds
    BY <1>1, RunFrame, WorldFrame, VisitFrame DEF AggregationNext, indexVars
  <2>2. news' = news \/ Change
    BY <1>1, RunFrame, WorldFrame, VisitFrame DEF AggregationNext, chainVars
  <2>3. news # <<>> => news' # <<>>
    <3>1. ASSUME Change, news # <<>> PROVE news' # <<>>
      <4>1. PICK p \in Numbers, s \in {"InProgress", "Approved", "removed"} :
              news' = IF allowed.indexed THEN Append(news, [number |-> p, status |-> s]) ELSE news
        BY <3>1 DEF Change
      <4>2. [number |-> p, status |-> s] \in News /\ news \in Seq(News)
        BY DEF News, Voted, StoresType
      <4> QED
        BY <3>1, <4>1, <4>2, AppendProperties
    <3> QED
      BY <2>2, <3>1
  <2> QED
    BY <2>1, <2>3 DEF IndexType
<1>2. CASE IndexNews
  <2>1. CASE BeginNews
    <3>1. /\ indexStep' = "item" /\ news # <<>> /\ news' = news
          /\ indexHolds' = [new |-> Head(news), status |-> daoRow.status]
      BY <2>1 DEF BeginNews, Indexes
    <3>2. Head(news) \in News
      BY <3>1, HeadTailProperties DEF StoresType
    <3>3. daoRow.status \in DaoStatuses
      BY DEF StoresType, DaoRecords
    <3> QED
      BY <3>1, <3>2, <3>3 DEF IndexType
  <2>2. CASE IndexItem \/ IndexRow
    BY <2>2 DEF IndexItem, IndexRow, Indexes, IndexType
  <2>3. CASE IndexCount
    <3>1. /\ indexStep = "count" /\ indexStep' = "daoItem" /\ news' = news
          /\ indexHolds' = Over([status |-> indexHolds.status], Counts)
      BY <2>3 DEF IndexCount, Indexes
    <3>2. indexHolds.status \in DaoStatuses /\ news # <<>>
      BY <3>1 DEF IndexType
    <3>3. DOMAIN Counts = {"total", "active"} /\ Counts.total \in Nat /\ Counts.active \in Nat
      BY CountsFacts
    <3>4. FieldsOf(indexHolds', {"total", "active", "status"})
      BY <3>1, <3>2, <3>3 DEF FieldsOf, Over
    <3> QED
      BY <3>1, <3>2, <3>4 DEF IndexType
  <2>4. CASE IndexDaoItem \/ IndexDaoRow
    BY <2>4 DEF IndexDaoItem, IndexDaoRow, Indexes, IndexType
  <2>5. CASE IndexKeys
    BY <2>5 DEF IndexKeys, Indexes, IndexType, Keys
  <2>6. CASE IndexDelete
    BY <2>6 DEF IndexDelete, Indexes, IndexType
  <2>7. CASE IndexCountFails
    BY <2>7 DEF IndexCountFails, Indexes, IndexType
  <2> QED
    BY <1>2, <2>1, <2>2, <2>3, <2>4, <2>5, <2>6, <2>7 DEF IndexNews
<1> QED
  BY <1>1, <1>2

LEMMA CacheNext ==
  ASSUME IndexType, CacheType, RunsType, AggregationNext
  PROVE  CacheType'
<1>1. DOMAIN responses' \subseteq Paths
  <2>1. ASSUME NEW v \in Visitors, Store(v) PROVE DOMAIN responses' \subseteq Paths
    <3>1. /\ visitStep[v] = "store"
          /\ responses' = Upsert(responses, visitHolds[v].path, visitHolds[v].body)
      BY <2>1 DEF Store
    <3> QED
      BY <3>1 DEF CacheType, Upsert
  <2>2. CASE IndexDelete \/ \E r \in Runs : DeleteKeys(r)
    BY <2>2 DEF IndexDelete, DeleteKeys, Without, CacheType
  <2>3. CASE /\ ~IndexDelete /\ ~\E r \in Runs : DeleteKeys(r)
             /\ ~\E v \in Visitors : Store(v)
    <3>1. responses' = responses
      BY <2>3, RunFrame, IndexFrame, WorldFrame, VisitFrame DEF AggregationNext
    <3> QED
      BY <3>1 DEF CacheType
  <2> QED
    BY <2>1, <2>2, <2>3
<1>2. /\ visitStep' \in [Visitors -> {"idle", "store"}]
      /\ visitHolds' = [v \in Visitors |-> visitHolds'[v]]
      /\ \A v \in Visitors : visitStep'[v] = "store" => visitHolds'[v].path \in Paths
  <2>1. ASSUME NEW v \in Visitors, Visit(v)
        PROVE  /\ visitStep' \in [Visitors -> {"idle", "store"}]
               /\ visitHolds' = [w \in Visitors |-> visitHolds'[w]]
               /\ \A w \in Visitors : visitStep'[w] = "store" => visitHolds'[w].path \in Paths
    <3>1. PICK path \in Paths :
            /\ visitHolds' = [visitHolds EXCEPT ![v] = [path |-> path, body |-> Read(path)]]
            /\ visitStep' = [visitStep EXCEPT ![v] = "store"]
      BY <2>1 DEF Visit
    <3> QED
      BY <3>1 DEF CacheType, Paths
  <2>2. ASSUME NEW v \in Visitors, Store(v)
        PROVE  /\ visitStep' \in [Visitors -> {"idle", "store"}]
               /\ visitHolds' = [w \in Visitors |-> visitHolds'[w]]
               /\ \A w \in Visitors : visitStep'[w] = "store" => visitHolds'[w].path \in Paths
    BY <2>2 DEF Store, CacheType
  <2>3. CASE ~\E v \in Visitors : Visit(v) \/ Store(v)
    <3>1. visitStep' = visitStep /\ visitHolds' = visitHolds
      BY <2>3, RunFrame, IndexFrame, WorldFrame DEF AggregationNext, visitVars
    <3> QED
      BY <3>1 DEF CacheType
  <2> QED
    BY <2>1, <2>2, <2>3
<1>3. uncleared' \in BOOLEAN /\ lateVisits' \subseteq Visitors
  <2>1. CASE \E r \in Runs : RunStep(r)
    BY <2>1, RunFrame DEF DeleteRow, CreateRow, ExpireRows, CacheType, freshVars
  <2>2. CASE IndexNews
    BY <2>2, IndexFrame DEF IndexRow, IndexKeys, ListProposalKeys, CacheType
  <2>3. CASE Change \/ PeriodEnds \/ DayEnds \/ MarketMoves
    BY <2>3, WorldFrame DEF CacheType, freshVars
  <2>4. CASE \E v \in Visitors : Visit(v) \/ Store(v)
    BY <2>4, VisitFrame DEF Store, CacheType, freshVars
  <2> QED
    BY <2>1, <2>2, <2>3, <2>4 DEF AggregationNext
<1> QED
  BY <1>1, <1>2, <1>3 DEF CacheType

LEMMA RunMoved ==
  ASSUME RunsAre, NEW r \in Runs, NEW s, NEW h, Moves(r, s, h), runJob' = runJob, s # "idle",
         runJob[r] \in Jobs, s \in JobSteps(runJob[r]), HoldsType(runJob[r], s, h)
  PROVE  RunType(r)'
<1>1. runStep'[r] = s /\ runHolds'[r] = h /\ runJob'[r] = runJob[r]
  BY MovesEffect
<1> QED
  BY <1>1 DEF RunType

\* The run that loads the DAO.
LEMMA LoadTypes ==
  ASSUME StoresType, RunsType, NEW r \in Runs,
         \/ GetInfo(r) \/ GetChunk(r) \/ ListRows(r) \/ DeleteRow(r) \/ CreateItem(r)
         \/ CreateRow(r) \/ GetStatus(r)
  PROVE  RunType(r)'
<1> DEFINE h == runHolds[r]
           P == Partly(Numbers, Voted)
<1>1. /\ runJob[r] = "dao" /\ runStep[r] \in {"info", "chunk", "list", "delete", "create"}
      /\ HoldsType("dao", runStep[r], h)
  <2>1. runJob[r] = "dao" /\ runStep[r] \in {"info", "chunk", "list", "delete", "create"}
    BY DEF GetInfo, GetChunk, ListRows, DeleteRow, CreateItem, CreateRow, GetStatus, At
  <2> QED
    BY <2>1, RunTypes
<1>2. RunsAre /\ "dao" \in Jobs
  BY DEF RunsType, RunsAre, Jobs, Flags
<1>3. {"info", "chunk", "list", "delete", "create", "counts"} \subseteq JobSteps("dao")
  BY DEF JobSteps
<1>4. ASSUME NEW s \in {"info", "chunk", "list", "delete", "create", "counts"}, NEW new,
             Moves(r, s, new), runJob' = runJob, HoldsType("dao", s, new)
      PROVE  RunType(r)'
  BY <1>1, <1>2, <1>3, <1>4, RunMoved
<1>5. CASE GetInfo(r)
  <2> DEFINE new == [last |-> Cardinality({p \in Numbers : contract[p] # "none"}),
                     chunk |-> 0, proposals |-> <<>>]
  <2>1. Moves(r, "chunk", new) /\ runJob' = runJob
    BY <1>5 DEF GetInfo, Reads
  <2>2. Cardinality({p \in Numbers : contract[p] # "none"}) \in Nat /\ <<>> \in P
    BY CountsFacts, PartlyFacts
  <2>3. HoldsType("dao", "chunk", new)
    BY <2>2 DEF HoldsType
  <2> HIDE DEF new
  <2> QED
    BY <1>4, <2>1, <2>3
<1>6. CASE GetChunk(r)
  <2> DEFINE from == h.chunk * ChunkSize
             chunk == [p \in Existing(contract) \cap from .. from + ChunkSize - 1 |-> contract[p]]
             read == Over(h.proposals, chunk)
             new == [h EXCEPT !.chunk = @ + 1, !.proposals = read]
  <2>1. /\ runStep[r] = "chunk" /\ runJob' = runJob
        /\ Moves(r, "chunk", new) \/ Moves(r, "list", h.proposals)
    BY <1>6 DEF GetChunk, Reads, At
  <2>2. h \in [last : Nat, chunk : Nat, proposals : P]
    BY <1>1, <2>1 DEF HoldsType
  <2>3. read \in P
    <3>1. \A p \in Existing(contract) : p \in Numbers /\ contract[p] \in Voted
      BY DEF StoresType, Existing, Voted
    <3>2. chunk \in [Existing(contract) \cap from .. from + ChunkSize - 1 -> Voted]
      BY <3>1
    <3>3. Existing(contract) \cap from .. from + ChunkSize - 1 \in SUBSET Numbers
      BY <3>1
    <3>4. chunk \in P
      BY <3>2, <3>3, PartlyFacts
    <3>5. h.proposals \in P
      BY <2>2
    <3> HIDE DEF chunk, h, P
    <3>6. Over(h.proposals, chunk) \in Partly(Numbers, Voted)
      BY <3>4, <3>5, OverFacts DEF P
    <3> QED
      BY <3>6 DEF P
  <2>4. HoldsType("dao", "list", h.proposals)
    BY <2>2 DEF HoldsType
  <2>5. HoldsType("dao", "chunk", new)
    <3> HIDE DEF read
    <3>0. h.chunk + 1 \in Nat
      BY <2>2
    <3>1. new \in [last : Nat, chunk : Nat, proposals : P]
      <4> HIDE DEF h, P
      <4> QED
        BY <2>2, <2>3, <3>0
    <3> HIDE DEF new
    <3> QED
      BY <3>1 DEF HoldsType
  <2> HIDE DEF new
  <2> QED
    BY <1>4, <2>1, <2>4, <2>5
<1>7. CASE ListRows(r)
  <2> DEFINE new == [gone |-> DOMAIN proposalRow \ DOMAIN h, proposals |-> h]
  <2>1. runStep[r] = "list" /\ Moves(r, "delete", new) /\ runJob' = runJob
    BY <1>7 DEF ListRows, Reads, At
  <2>2. h \in P /\ DOMAIN proposalRow \subseteq Numbers
    BY <1>1, <2>1, PartlyFacts DEF HoldsType, StoresType
  <2>3. HoldsType("dao", "delete", new)
    BY <2>2 DEF HoldsType
  <2> HIDE DEF new
  <2> QED
    BY <1>4, <2>1, <2>3
<1>8. CASE DeleteRow(r)
  <2>1. /\ runStep[r] = "delete" /\ runJob' = runJob
        /\ \/ Moves(r, "create", [items |-> DOMAIN h.proposals, rows |-> {},
                                  proposals |-> h.proposals])
           \/ \E p : Moves(r, "delete", [h EXCEPT !.gone = @ \ {p}])
    BY <1>8 DEF DeleteRow, At
  <2>2. h \in [gone : SUBSET Numbers, proposals : P]
    BY <1>1, <2>1 DEF HoldsType
  <2>3. DOMAIN h.proposals \subseteq Numbers
    BY <2>2, PartlyFacts
  <2>4. HoldsType("dao", "create", [items |-> DOMAIN h.proposals, rows |-> {},
                                    proposals |-> h.proposals])
    BY <2>2, <2>3 DEF HoldsType
  <2>5. \A p : HoldsType("dao", "delete", [h EXCEPT !.gone = @ \ {p}])
    BY <2>2 DEF HoldsType
  <2> QED
    BY <1>4, <2>1, <2>4, <2>5
<1>9. CASE CreateItem(r) \/ CreateRow(r)
  <2>1. /\ runStep[r] = "create" /\ runJob' = runJob
        /\ \/ \E p \in h.items : Moves(r, "create", [h EXCEPT !.items = @ \ {p},
                                                              !.rows = @ \cup {p}])
           \/ \E p \in h.rows : Moves(r, "create", [h EXCEPT !.rows = @ \ {p}])
    BY <1>9 DEF CreateItem, CreateRow, At
  <2>2. /\ h \in [items : SUBSET Numbers, rows : SUBSET Numbers, proposals : P]
        /\ h.items \cup h.rows \subseteq DOMAIN h.proposals
    BY <1>1, <2>1 DEF HoldsType
  <2>3. /\ \A p \in h.items : HoldsType("dao", "create", [h EXCEPT !.items = @ \ {p},
                                                                   !.rows = @ \cup {p}])
        /\ \A p \in h.rows : HoldsType("dao", "create", [h EXCEPT !.rows = @ \ {p}])
    BY <2>2 DEF HoldsType
  <2> QED
    BY <1>4, <2>1, <2>3
<1>10. CASE GetStatus(r)
  <2>1. Moves(r, "counts", [status |-> DaoStatus]) /\ runJob' = runJob
    BY <1>10 DEF GetStatus, Reads
  <2>2. HoldsType("dao", "counts", [status |-> DaoStatus])
    BY CountsFacts DEF HoldsType, FieldsOf
  <2> QED
    BY <1>4, <2>1, <2>2
<1> QED
  BY <1>5, <1>6, <1>7, <1>8, <1>9, <1>10

\* Fields of the DAO that a run reads and saves.
LEMMA FieldTypes ==
  ASSUME StoresType, RunsType, NEW r \in Runs,
         GetCounts(r) \/ GetFunds(r) \/ SaveFieldsItem(r) \/ SaveFieldsRow(r)
  PROVE  RunType(r)'
<1> DEFINE h == runHolds[r]
           j == runJob[r]
<1>1. /\ runStep[r] \in {"counts", "funds", "saveItem", "saveRow"}
      /\ j \in Jobs /\ runStep[r] \in JobSteps(j) /\ HoldsType(j, runStep[r], h)
  <2>1. runStep[r] \in {"counts", "funds", "saveItem", "saveRow"}
    BY DEF GetCounts, GetFunds, SaveFieldsItem, SaveFieldsRow
  <2> QED
    BY <2>1, RunTypes
<1>2. RunsAre
  BY DEF RunsType, RunsAre
<1>3. CASE GetCounts(r)
  <2>1. /\ runStep[r] = "counts" /\ runJob' = runJob
        /\ Moves(r, IF j = "dao" THEN "funds" ELSE "saveItem", Over(h, Counts))
    BY <1>3 DEF GetCounts, Reads
  <2>2. j \in {"dao", "expired"}
    BY <1>1, <2>1 DEF JobSteps, Jobs, Flags
  <2>3. DOMAIN Counts = {"total", "active"} /\ Counts.total \in Nat /\ Counts.active \in Nat
    BY CountsFacts
  <2>4. CASE j = "dao"
    <3>1. FieldsOf(h, {"status"})
      BY <1>1, <2>1, <2>4 DEF HoldsType
    <3>2. FieldsOf(Over(h, Counts), AllFields \ {"funds"})
      BY <2>3, <3>1 DEF FieldsOf, Over, AllFields
    <3>3. HoldsType("dao", "funds", Over(h, Counts)) /\ "funds" \in JobSteps("dao")
      BY <3>2 DEF HoldsType, JobSteps
    <3> QED
      BY <1>1, <1>2, <2>1, <2>4, <3>3, RunMoved
  <2>5. CASE j = "expired"
    <3>1. FieldsOf(h, {})
      BY <1>1, <2>1, <2>5 DEF HoldsType
    <3>2. FieldsOf(Over(h, Counts), {"total", "active"})
      BY <2>3, <3>1 DEF FieldsOf, Over
    <3>3. HoldsType("expired", "saveItem", Over(h, Counts)) /\ "saveItem" \in JobSteps("expired")
      BY <3>2 DEF HoldsType, JobSteps
    <3> QED
      BY <1>1, <1>2, <2>1, <2>5, <3>3, RunMoved
  <2> QED
    BY <2>2, <2>4, <2>5
<1>4. CASE GetFunds(r)
  <2>1. /\ runStep[r] = "funds" /\ runJob' = runJob
        /\ Moves(r, IF j = "dao" THEN "saveItem" ELSE "saveRow", Upsert(h, "funds", tokenPrice))
    BY <1>4 DEF GetFunds, Reads
  <2>2. j \in {"dao", "prices"}
    BY <1>1, <2>1 DEF JobSteps, Jobs, Flags
  <2>3. tokenPrice \in Nat
    BY DEF StoresType
  <2>4. CASE j = "dao"
    <3>1. FieldsOf(h, AllFields \ {"funds"})
      BY <1>1, <2>1, <2>4 DEF HoldsType
    <3>2. FieldsOf(Upsert(h, "funds", tokenPrice), AllFields)
      BY <2>3, <3>1 DEF FieldsOf, Upsert, AllFields
    <3>3. /\ HoldsType("dao", "saveItem", Upsert(h, "funds", tokenPrice))
          /\ "saveItem" \in JobSteps("dao")
      BY <3>2 DEF HoldsType, JobSteps
    <3> QED
      BY <1>1, <1>2, <2>1, <2>4, <3>3, RunMoved
  <2>5. CASE j = "prices"
    <3>1. FieldsOf(h, {})
      BY <1>1, <2>1, <2>5 DEF HoldsType
    <3>2. FieldsOf(Upsert(h, "funds", tokenPrice), {"funds"})
      BY <2>3, <3>1 DEF FieldsOf, Upsert
    <3>3. /\ HoldsType("prices", "saveRow", Upsert(h, "funds", tokenPrice))
          /\ "saveRow" \in JobSteps("prices")
      BY <3>2 DEF HoldsType, JobSteps
    <3> QED
      BY <1>1, <1>2, <2>1, <2>5, <3>3, RunMoved
  <2> QED
    BY <2>2, <2>4, <2>5
<1>5. CASE SaveFieldsItem(r)
  <2>1. /\ runStep[r] = "saveItem" /\ runJob' = runJob /\ Moves(r, "saveRow", h)
    BY <1>5 DEF SaveFieldsItem
  <2>2. j \in {"dao", "expired"}
    BY <1>1, <2>1 DEF JobSteps, Jobs, Flags
  <2>3. FieldsOf(h, IF j = "dao" THEN AllFields ELSE {"total", "active"})
    BY <1>1, <2>1 DEF HoldsType
  <2>4. HoldsType(j, "saveRow", h) /\ "saveRow" \in JobSteps(j)
    BY <2>2, <2>3 DEF HoldsType, JobSteps
  <2> QED
    BY <1>1, <1>2, <2>1, <2>4, RunMoved
<1>6. CASE SaveFieldsRow(r)
  <2>1. /\ runStep[r] = "saveRow"
        /\ \/ Ends(r)
           \/ j \notin {"dao", "expired"} /\ Moves(r, "keys", Missing) /\ runJob' = runJob
    BY <1>6 DEF SaveFieldsRow
  <2>2. CASE Ends(r)
    BY <1>2, <2>2, EndsEffect DEF RunType
  <2>3. CASE j \notin {"dao", "expired"} /\ Moves(r, "keys", Missing) /\ runJob' = runJob
    <3>1. "keys" \in JobSteps(j)
      BY <1>1, <2>1, <2>3 DEF JobSteps, Jobs, Flags
    <3>2. HoldsType(j, "keys", Missing)
      BY DEF HoldsType
    <3> QED
      BY <1>1, <1>2, <2>3, <3>1, <3>2, RunMoved
  <2> QED
    BY <2>1, <2>2, <2>3
<1> QED
  BY <1>3, <1>4, <1>5, <1>6

\* The jobs of prices, statuses, statistics and expired proposals.
LEMMA OtherTypes ==
  ASSUME StoresType, RunsType, NEW r \in Runs,
         \/ AskMarket(r) \/ SavePrice(r) \/ ReadDao(r) \/ FindStatus(r) \/ TakeStats(r)
         \/ SaveStatsRow(r) \/ SaveStatsItem(r) \/ FindExpiredRows(r) \/ ExpireRows(r)
         \/ ListKeys(r) \/ DeleteKeys(r)
  PROVE  RunType(r)'
<1> DEFINE h == runHolds[r]
           j == runJob[r]
<1>1. /\ runStep[r] # "idle" => j \in Jobs /\ runStep[r] \in JobSteps(j)
      /\ runStep[r] # "idle" => HoldsType(j, runStep[r], h)
  BY RunTypes
<1>2. RunsAre
  BY DEF RunsType, RunsAre
<1>3. CASE AskMarket(r) \/ SavePrice(r)
  <2>1. /\ j = "prices" /\ runStep[r] \in {"market", "savePrice"} /\ runJob' = runJob
        /\ Moves(r, "savePrice", market) \/ Moves(r, "funds", <<>>)
    BY <1>3 DEF AskMarket, SavePrice, Reads, At
  <2>2. /\ HoldsType("prices", "savePrice", market) /\ "savePrice" \in JobSteps("prices")
        /\ HoldsType("prices", "funds", <<>>) /\ "funds" \in JobSteps("prices")
    BY DEF HoldsType, StoresType, FieldsOf, JobSteps
  <2> QED
    BY <1>1, <1>2, <2>1, <2>2, RunMoved
<1>4. CASE ReadDao(r) \/ FindStatus(r)
  <2> DEFINE new == [h EXCEPT !.status = DaoStatus]
  <2>1. /\ j = "statuses" /\ runStep[r] \in {"dao", "status"} /\ runJob' = runJob
        /\ \/ Moves(r, "status", daoRow)
           \/ runStep[r] = "status" /\ (Moves(r, "keys", new) \/ Moves(r, "saveRow", new))
    BY <1>4 DEF ReadDao, FindStatus, Reads, At
  <2>2. HoldsType("statuses", "status", daoRow)
    BY DEF HoldsType, StoresType
  <2>3. ASSUME runStep[r] = "status"
        PROVE  HoldsType("statuses", "keys", new) /\ HoldsType("statuses", "saveRow", new)
    <3>1. h \in DaoRecords
      BY <1>1, <2>1, <2>3 DEF HoldsType
    <3>2. new \in DaoRecords
      BY <3>1, CountsFacts DEF DaoRecords
    <3>3. FieldsOf(new, AllFields)
      BY <3>2 DEF DaoRecords, FieldsOf, AllFields
    <3> QED
      BY <3>3 DEF HoldsType
  <2>4. {"status", "keys", "saveRow"} \subseteq JobSteps("statuses")
    BY DEF JobSteps
  <2> HIDE DEF new
  <2> QED
    BY <1>1, <1>2, <2>1, <2>2, <2>3, <2>4, RunMoved
<1>5. CASE TakeStats(r) \/ SaveStatsRow(r) \/ SaveStatsItem(r)
  <2>1. /\ j = "stats" /\ runStep[r] \in {"stats", "statsRow", "statsItem"} /\ runJob' = runJob
        /\ \/ Moves(r, "statsRow", IF allowed.dynamo THEN daoItem ELSE daoRow)
           \/ runStep[r] = "statsRow" /\ Moves(r, "statsItem", h)
           \/ Moves(r, "keys", Missing)
    BY <1>5 DEF TakeStats, SaveStatsRow, SaveStatsItem, Reads, At
  <2>2. HoldsType("stats", "statsRow", IF allowed.dynamo THEN daoItem ELSE daoRow)
    BY DEF HoldsType, StoresType
  <2>3. runStep[r] = "statsRow" => HoldsType("stats", "statsItem", h)
    BY <1>1 DEF HoldsType
  <2>4. HoldsType("stats", "keys", Missing) /\ {"statsRow", "statsItem", "keys"} \subseteq JobSteps("stats")
    BY DEF HoldsType, JobSteps
  <2> QED
    BY <1>1, <1>2, <2>1, <2>2, <2>3, <2>4, RunMoved
<1>6. CASE FindExpiredRows(r) \/ ExpireRows(r)
  <2>1. /\ j = "expired" /\ runStep[r] \in {"find", "expire"}
        /\ \/ Moves(r, "expire", Overdue # {}) /\ runJob' = runJob
           \/ Moves(r, "counts", <<>>) /\ runJob' = runJob
           \/ Ends(r)
    BY <1>6 DEF FindExpiredRows, ExpireRows, Reads, At
  <2>2. /\ HoldsType("expired", "expire", Overdue # {}) /\ HoldsType("expired", "counts", <<>>)
        /\ {"expire", "counts"} \subseteq JobSteps("expired")
    BY DEF HoldsType, FieldsOf, JobSteps
  <2>3. CASE Ends(r)
    BY <1>2, <2>3, EndsEffect DEF RunType
  <2>4. CASE ~Ends(r)
    BY <1>1, <1>2, <2>1, <2>2, <2>4, RunMoved
  <2> QED
    BY <2>3, <2>4
<1>7. CASE ListKeys(r)
  <2>1. runStep[r] = "keys" /\ Moves(r, "clear", Keys(ClearedPaths)) /\ runJob' = runJob
    BY <1>7 DEF ListKeys, Reads
  <2>2. HoldsType(j, "clear", Keys(ClearedPaths))
    BY DEF HoldsType, Keys
  <2>3. "clear" \in JobSteps(j)
    BY <1>1, <2>1 DEF JobSteps, Jobs, Flags
  <2> QED
    BY <1>1, <1>2, <2>1, <2>2, <2>3, RunMoved
<1>8. CASE DeleteKeys(r)
  <2>1. CASE Ends(r)
    BY <1>2, <2>1, EndsEffect DEF RunType
  <2>2. CASE ~Ends(r)
    <3>1. Moves(r, "idle", Missing) /\ runJob' = [runJob EXCEPT ![r] = Missing]
      BY <1>8, <2>2 DEF DeleteKeys
    <3> QED
      BY <1>2, <3>1 DEF Moves, RunsAre, RunType
  <2> QED
    BY <2>1, <2>2
<1> QED
  BY <1>3, <1>4, <1>5, <1>6, <1>7, <1>8

LEMMA FailTypes ==
  ASSUME StoresType, RunsType, NEW r \in Runs, Start(r) \/ JobFails(r)
  PROVE  RunType(r)'
<1> DEFINE h == runHolds[r]
           j == runJob[r]
<1>1. RunsAre
  BY DEF RunsType, RunsAre
<1>2. CASE Start(r)
  <2>1. PICK k \in allowed.jobs \ inProgress : runJob'[r] = k /\ runStep'[r] = First(k)
    BY <1>1, <1>2, StartEffect
  <2>2. k \in Jobs
    BY DEF StoresType
  <2>3. First(k) \in JobSteps(k)
        /\ First(k) \in {"info", "market", "dao", "stats", "find"}
    BY <2>2 DEF First, JobSteps, Jobs, Flags
  <2>4. HoldsType(k, First(k), runHolds'[r])
    BY <2>3 DEF HoldsType
  <2> QED
    BY <2>1, <2>2, <2>3, <2>4 DEF RunType
<1>3. CASE JobFails(r)
  <2>1. runStep[r] # "idle"
    BY <1>3 DEF JobFails
  <2>2. /\ j \in Jobs /\ runStep[r] \in JobSteps(j) /\ HoldsType(j, runStep[r], h)
    BY <2>1, RunTypes
  <2>3. CASE OneDaoFails(r) /\ runStep' = [runStep EXCEPT ![r] = "keys"] /\ runJob' = runJob
    <3>1. runStep'[r] = "keys" /\ runJob'[r] = j
      BY <1>1, <2>3 DEF RunsAre
    <3>2. "keys" \in JobSteps(j)
      BY <2>3 DEF OneDaoFails, JobSteps
    <3> QED
      BY <2>2, <3>1, <3>2 DEF RunType, HoldsType
  <2>4. CASE /\ At(r, "dao", "create")
             /\ \E p \in h.items \cup h.rows :
                  runHolds' = [runHolds EXCEPT ![r].items = @ \ {p}, ![r].rows = @ \ {p}]
             /\ UNCHANGED <<runStep, runJob>>
    <3>1. PICK p \in h.items \cup h.rows :
            runHolds' = [runHolds EXCEPT ![r].items = @ \ {p}, ![r].rows = @ \ {p}]
      BY <2>4
    <3>2. j = "dao" /\ runStep[r] = "create" /\ runJob'[r] = j /\ runStep'[r] = "create"
      BY <2>4 DEF At
    <3>3. /\ h \in [items : SUBSET Numbers, rows : SUBSET Numbers,
                    proposals : Partly(Numbers, Voted)]
          /\ h.items \cup h.rows \subseteq DOMAIN h.proposals
      BY <2>2, <3>2 DEF HoldsType
    <3>4. runHolds'[r] = [h EXCEPT !.items = @ \ {p}, !.rows = @ \ {p}]
      BY <1>1, <3>1, <3>3 DEF RunsAre
    <3>5. HoldsType("dao", "create", [h EXCEPT !.items = @ \ {p}, !.rows = @ \ {p}])
      BY <3>3 DEF HoldsType
    <3> HIDE DEF h, j
    <3> QED
      BY <2>2, <3>2, <3>4, <3>5 DEF RunType
  <2>5. CASE runStep' = [runStep EXCEPT ![r] = "idle"] /\ runJob' = [runJob EXCEPT ![r] = Missing]
    BY <1>1, <2>5 DEF RunsAre, RunType
  <2> QED
    BY <1>3, <2>3, <2>4, <2>5 DEF JobFails
<1> QED
  BY <1>2, <1>3

LEMMA RunsNext ==
  ASSUME StoresType, IndexType, RunsType, AggregationNext
  PROVE  RunsType'
<1>1. ASSUME NEW r \in Runs, RunStep(r) PROVE RunsType'
  <2>0. RunsAre
    BY DEF RunsAre, RunsType
  <2>1. RunsAre' /\ Kept(r)
    BY <1>1, <2>0, RunsKept
  <2>2. RunType(r)'
    BY <1>1, LoadTypes, FieldTypes, OtherTypes, FailTypes DEF RunStep
  <2>3. ASSUME NEW q \in Runs \ {r} PROVE RunType(q)'
    BY <2>1, <2>3 DEF Kept, RunType, RunsType
  <2>4. inProgress' \subseteq Flags
    <3>1. ASSUME Start(r) PROVE inProgress' \subseteq Flags
      BY <2>0, <3>1, StartEffect DEF RunsType
    <3>2. \/ inProgress' = inProgress \/ Start(r)
          \/ \E j : inProgress' = inProgress \ {j}
      <4>1. CASE Loads(r)
        BY <4>1, LoadsRead DEF Reads
      <4>2. CASE \/ DeleteRow(r) \/ CreateItem(r) \/ CreateRow(r) \/ SaveFieldsItem(r)
                 \/ SavePrice(r) \/ SaveStatsRow(r)
        BY <4>2 DEF DeleteRow, CreateItem, CreateRow, SaveFieldsItem, SavePrice, SaveStatsRow
      <4>3. CASE SaveFieldsRow(r) \/ SaveStatsItem(r) \/ ExpireRows(r) \/ DeleteKeys(r)
        BY <4>3 DEF SaveFieldsRow, SaveStatsItem, ExpireRows, DeleteKeys, Ends, Stopped
      <4>4. CASE JobFails(r)
        BY <4>4 DEF JobFails, Stopped
      <4> QED
        BY <1>1, <4>1, <4>2, <4>3, <4>4 DEF RunStep, Loads
    <3> QED
      BY <3>1, <3>2 DEF RunsType
  <2>5. flagLost' \in BOOLEAN
    BY <1>1, RunFrame DEF RunsType, JobFails
  <2>6. lone' \in Runs \cup {Missing}
    BY <1>1, RunFrame DEF RunsType, JobFails, Start
  <2>7. repaired' \in BOOLEAN
    <3>1. ASSUME SaveFieldsRow(r) PROVE repaired' \in BOOLEAN
      BY <3>1 DEF SaveFieldsRow, RunsType
    <3> QED
      BY <1>1, <3>1, RunFrame DEF RunsType, Start
  <2> QED
    BY <2>1, <2>2, <2>3, <2>4, <2>5, <2>6, <2>7 DEF RunsType, RunsAre
<1>2. CASE ~\E r \in Runs : RunStep(r)
  <2>1. UNCHANGED <<runVars, flagLost>>
    BY <1>2, IndexFrame, WorldFrame, VisitFrame DEF AggregationNext
  <2>2. UNCHANGED loneVars \/ Disturbs
    BY <1>2, IndexFrame, WorldFrame, VisitFrame DEF AggregationNext
  <2>3. \A r \in Runs : RunType(r)'
    BY <2>1 DEF RunsType, RunType, runVars
  <2>4. lone' \in Runs \cup {Missing} /\ repaired' \in BOOLEAN
    BY <2>2 DEF RunsType, loneVars, Disturbs
  <2> QED
    BY <2>1, <2>3, <2>4 DEF RunsType, runVars
<1> QED
  BY <1>1, <1>2

-----------------------------------------------------------------------------
(* Flags                                                                   *)

\* A step of r that leaves the flags, and whether r works, alone.
LEMMA FlagsKept ==
  ASSUME FlagsInv, NEW r \in Runs, Kept(r), flagLost' = flagLost, inProgress' = inProgress,
         \A j \in Flags : runJob'[r] = j /\ ~(j = "stats" /\ runStep'[r] \in {"keys", "clear"})
                      <=> runJob[r] = j /\ ~(j = "stats" /\ runStep[r] \in {"keys", "clear"})
  PROVE  FlagsInv'
<1>1. \A j \in Flags : Working(j)' = Working(j)
  BY DEF Kept, Working
<1> QED
  BY <1>1 DEF FlagsInv

\* A step with which r stops working and clears its flag.
LEMMA FlagsStopped ==
  ASSUME FlagsInv, NEW r \in Runs, NEW j, Kept(r), flagLost' = flagLost,
         r \in Working(j), inProgress' = inProgress \ {j},
         \A k \in Flags : r \notin Working(k)'
  PROVE  FlagsInv'
<1> SUFFICES ASSUME ~flagLost' PROVE FlagsInv'
  BY DEF FlagsInv
<1>0. runJob[r] = j
  BY DEF Working
<1>1. \A k \in Flags : \A q \in Runs \ {r} : q \in Working(k)' <=> q \in Working(k)
  BY DEF Kept, Working
<1>2. \A k \in Flags \ {j} : r \notin Working(k)
  BY <1>0 DEF Working
<1>3. \A k \in Flags : Working(k)' = Working(k) \ {r}
  BY <1>1 DEF Working
<1>4. j \in Flags => Working(j)' = {}
  BY <1>3 DEF FlagsInv
<1>5. \A k \in Flags : k \in inProgress' <=> Working(k)' # {}
  <2> SUFFICES ASSUME NEW k \in Flags PROVE k \in inProgress' <=> Working(k)' # {}
    OBVIOUS
  <2>1. CASE k = j
    BY <1>4, <2>1
  <2>2. CASE k # j
    <3>1. Working(k)' = Working(k)
      BY <1>2, <1>3, <2>2
    <3> QED
      BY <2>2, <3>1 DEF FlagsInv
  <2> QED
    BY <2>1, <2>2
<1>6. \A k \in Flags : \A a, b \in Working(k)' : a = b
  BY <1>3 DEF FlagsInv
<1> QED
  BY <1>5, <1>6 DEF FlagsInv

LEMMA FlagsStarted ==
  ASSUME RunsType, StoresType, FlagsInv, NEW r \in Runs, Start(r)
  PROVE  FlagsInv'
<1>1. RunsAre
  BY DEF RunsType, RunsAre
<1>2. Kept(r) /\ runStep[r] = "idle"
  BY <1>1, StartEffect
<1>3. PICK j \in allowed.jobs \ inProgress :
        /\ runJob'[r] = j /\ runStep'[r] = First(j)
        /\ inProgress' = inProgress \cup ({j} \cap Flags)
  BY <1>1, StartEffect
<1>4. runJob[r] = Missing /\ j \in Jobs /\ flagLost' = flagLost
  BY <1>2 DEF RunsType, RunType, StoresType, Start
<1>5. First(j) \notin {"keys", "clear"}
  BY <1>4 DEF First, Jobs, Flags
<1>6. \A k \in Flags : \A q \in Runs \ {r} : q \in Working(k)' <=> q \in Working(k)
  BY <1>2 DEF Kept, Working
<1>7. \A k \in Flags : r \in Working(k)' <=> k = j
  BY <1>3, <1>5 DEF Working
<1>8. \A k \in Flags : r \notin Working(k)
  BY <1>4, AggregationAssumption DEF Working, Jobs
<1>9. \A k \in Flags : Working(k)' = IF k = j THEN Working(k) \cup {r} ELSE Working(k)
  BY <1>6, <1>7, <1>8 DEF Working
<1> SUFFICES ASSUME ~flagLost' PROVE FlagsInv'
  BY DEF FlagsInv
<1>10. j \in Flags => Working(j) = {}
  BY <1>4 DEF FlagsInv
<1>11. \A k \in Flags : k \in inProgress' <=> Working(k)' # {}
  <2> SUFFICES ASSUME NEW k \in Flags PROVE k \in inProgress' <=> Working(k)' # {}
    OBVIOUS
  <2>1. CASE k = j
    BY <1>3, <1>9, <2>1
  <2>2. CASE k # j
    BY <1>3, <1>4, <1>9, <2>2 DEF FlagsInv
  <2> QED
    BY <2>1, <2>2
<1>12. \A k \in Flags : \A a, b \in Working(k)' : a = b
  BY <1>4, <1>9, <1>10 DEF FlagsInv
<1> QED
  BY <1>11, <1>12 DEF FlagsInv

LEMMA FlagsNext ==
  ASSUME StoresType, IndexType, RunsType, FlagsInv, AggregationNext
  PROVE  FlagsInv'
<1>1. CASE ~\E r \in Runs : RunStep(r)
  <2>1. UNCHANGED <<runVars, flagLost>>
    BY <1>1, IndexFrame, WorldFrame, VisitFrame DEF AggregationNext
  <2> QED
    BY <2>1 DEF FlagsInv, Working, runVars
<1>2. ASSUME NEW r \in Runs, RunStep(r)
      PROVE  FlagsInv'
  <2>0. RunsAre
    BY DEF RunsType, RunsAre
  <2>1. Kept(r)
    BY <1>2, <2>0, RunsKept
  <2>2. CASE Start(r)
    BY <2>2, FlagsStarted
  <2>3. runStep[r] # "idle" => runJob[r] \in Jobs /\ runStep[r] \in JobSteps(runJob[r])
    BY RunTypes
  <2>4. ASSUME NEW s, NEW h, Moves(r, s, h), runJob' = runJob, inProgress' = inProgress,
               flagLost' = flagLost,
               runJob[r] = "stats" =>
                 (runStep[r] \in {"keys", "clear"} <=> s \in {"keys", "clear"})
        PROVE  FlagsInv'
    <3>1. runStep'[r] = s /\ runJob'[r] = runJob[r]
      BY <2>0, <2>4, MovesEffect
    <3>2. \A j \in Flags :
            runJob'[r] = j /\ ~(j = "stats" /\ runStep'[r] \in {"keys", "clear"})
            <=> runJob[r] = j /\ ~(j = "stats" /\ runStep[r] \in {"keys", "clear"})
      BY <2>4, <3>1
    <3> QED
      BY <2>1, <2>4, <3>2, FlagsKept
  <2>5. CASE GetInfo(r) \/ GetChunk(r) \/ ListRows(r) \/ DeleteRow(r) \/ CreateItem(r)
             \/ CreateRow(r) \/ GetStatus(r)
    <3>1. /\ runJob[r] = "dao" /\ UNCHANGED <<runJob, inProgress, flagLost>>
          /\ \E s, h : Moves(r, s, h)
      <4>1. CASE DeleteRow(r) \/ CreateItem(r) \/ CreateRow(r)
        BY <4>1 DEF DeleteRow, CreateItem, CreateRow, At
      <4>2. CASE GetInfo(r) \/ GetChunk(r) \/ ListRows(r) \/ GetStatus(r)
        <5>1. runJob[r] = "dao"
          BY <4>2 DEF GetInfo, GetChunk, ListRows, GetStatus, At
        <5> QED
          BY <4>2, <5>1, LoadsRead DEF Loads, Reads
      <4> QED
        BY <2>5, <4>1, <4>2
    <3> QED
      BY <2>4, <3>1
  <2>6. CASE GetCounts(r) \/ GetFunds(r) \/ SaveFieldsItem(r)
    <3>1. runStep[r] \in {"counts", "funds", "saveItem"}
      BY <2>6 DEF GetCounts, GetFunds, SaveFieldsItem
    <3>2. runJob[r] # "stats"
      BY <2>3, <3>1 DEF JobSteps
    <3>3. UNCHANGED <<runJob, inProgress, flagLost>> /\ \E s, h : Moves(r, s, h)
      BY <2>6 DEF GetCounts, GetFunds, SaveFieldsItem, Reads
    <3> QED
      BY <2>4, <3>2, <3>3
  <2>7. CASE AskMarket(r) \/ SavePrice(r) \/ ReadDao(r) \/ FindStatus(r) \/ FindExpiredRows(r)
    <3>1. runJob[r] # "stats"
      BY <2>7 DEF AskMarket, SavePrice, ReadDao, FindStatus, FindExpiredRows, At
    <3>2. UNCHANGED <<runJob, inProgress, flagLost>> /\ \E s, h : Moves(r, s, h)
      BY <2>7 DEF AskMarket, SavePrice, ReadDao, FindStatus, FindExpiredRows, Reads
    <3> QED
      BY <2>4, <3>1, <3>2
  <2>8. CASE TakeStats(r) \/ SaveStatsRow(r)
    <3>1. /\ runStep[r] \in {"stats", "statsRow"} /\ UNCHANGED <<runJob, inProgress, flagLost>>
          /\ \E h : Moves(r, "statsRow", h) \/ Moves(r, "statsItem", h)
      BY <2>8 DEF TakeStats, SaveStatsRow, Reads, At
    <3> QED
      BY <2>4, <3>1
  <2>9. CASE ListKeys(r)
    <3>1. /\ runStep[r] = "keys" /\ UNCHANGED <<runJob, inProgress, flagLost>>
          /\ \E h : Moves(r, "clear", h)
      BY <2>9 DEF ListKeys, Reads
    <3> QED
      BY <2>4, <3>1
  <2>10. ASSUME flagLost' = flagLost, inProgress' = inProgress \ {runJob[r]},
                r \in Working(runJob[r]), \A k \in Flags : r \notin Working(k)'
         PROVE  FlagsInv'
    <3>1. PICK j : j = runJob[r]
      OBVIOUS
    <3>2. r \in Working(j) /\ inProgress' = inProgress \ {j}
      BY <2>10, <3>1
    <3> QED
      BY <2>1, <2>10, <3>2, FlagsStopped
  <2>11. ASSUME runJob'[r] = Missing PROVE \A k \in Flags : r \notin Working(k)'
    BY <2>11, AggregationAssumption DEF Working, Jobs
  <2>12. ASSUME Ends(r), flagLost' = flagLost, r \in Working(runJob[r])
         PROVE  FlagsInv'
    BY <2>0, <2>10, <2>11, <2>12, EndsEffect
  <2>13. CASE SaveFieldsRow(r)
    <3>1. runStep[r] = "saveRow" /\ flagLost' = flagLost
      BY <2>13 DEF SaveFieldsRow
    <3>2. runJob[r] # "stats" /\ r \in Working(runJob[r])
      BY <2>3, <3>1 DEF JobSteps, Working
    <3>3. Ends(r) \/ (Moves(r, "keys", Missing) /\ UNCHANGED <<inProgress, runJob>>)
      BY <2>13 DEF SaveFieldsRow
    <3> QED
      BY <2>4, <2>12, <3>1, <3>2, <3>3
  <2>14. CASE ExpireRows(r)
    <3>1. runJob[r] = "expired" /\ runStep[r] = "expire" /\ flagLost' = flagLost
      BY <2>14 DEF ExpireRows, At
    <3>2. r \in Working(runJob[r])
      BY <3>1 DEF Working
    <3>3. Ends(r) \/ (Moves(r, "counts", <<>>) /\ UNCHANGED <<inProgress, runJob>>)
      BY <2>14 DEF ExpireRows
    <3> QED
      BY <2>4, <2>12, <3>1, <3>2, <3>3
  <2>15. CASE SaveStatsItem(r)
    <3>1. /\ runJob[r] = "stats" /\ runStep[r] = "statsItem" /\ flagLost' = flagLost
          /\ inProgress' = inProgress \ {"stats"} /\ Moves(r, "keys", Missing)
          /\ runJob' = runJob
      BY <2>15 DEF SaveStatsItem, At, Stopped
    <3>2. runJob'[r] = "stats" /\ runStep'[r] = "keys"
      BY <2>0, <3>1, MovesEffect
    <3>3. r \in Working(runJob[r]) /\ \A k \in Flags : r \notin Working(k)'
      BY <3>1, <3>2 DEF Working
    <3> QED
      BY <2>10, <3>1, <3>3
  <2>16. CASE DeleteKeys(r)
    <3>0. runStep[r] = "clear" /\ flagLost' = flagLost
      BY <2>16 DEF DeleteKeys
    <3>1. CASE runJob[r] # "stats"
      <4>1. Ends(r) /\ r \in Working(runJob[r])
        BY <2>16, <3>1 DEF DeleteKeys, Working
      <4> QED
        BY <2>12, <3>0, <4>1
    <3>2. CASE runJob[r] = "stats"
      <4>1. inProgress' = inProgress /\ runJob'[r] = Missing
        BY <2>0, <2>16, <3>2 DEF DeleteKeys, RunsAre
      <4>2. \A j \in Flags :
              runJob'[r] = j /\ ~(j = "stats" /\ runStep'[r] \in {"keys", "clear"})
              <=> runJob[r] = j /\ ~(j = "stats" /\ runStep[r] \in {"keys", "clear"})
        BY <3>0, <3>2, <4>1, AggregationAssumption DEF Jobs
      <4> QED
        BY <2>1, <3>0, <4>1, <4>2, FlagsKept
    <3> QED
      BY <3>1, <3>2
  <2>17. CASE JobFails(r)
    <3>0. runStep[r] # "idle"
      BY <2>17 DEF JobFails
    <3>1. CASE /\ OneDaoFails(r) /\ runStep' = [runStep EXCEPT ![r] = "keys"]
               /\ inProgress' = IF runJob[r] = "stats" THEN Stopped("stats") ELSE inProgress
               /\ UNCHANGED <<runJob, flagLost>>
      <4>1. runStep'[r] = "keys" /\ runJob'[r] = runJob[r]
        BY <2>0, <3>1 DEF RunsAre
      <4>2. CASE runJob[r] = "stats"
        <5>1. r \in Working(runJob[r])
          BY <3>1, <4>2 DEF OneDaoFails, Working
        <5>2. \A k \in Flags : r \notin Working(k)'
          BY <4>1, <4>2 DEF Working
        <5> QED
          BY <2>10, <3>1, <4>2, <5>1, <5>2 DEF Stopped
      <4>3. CASE runJob[r] # "stats"
        <5>1. \A j \in Flags :
                runJob'[r] = j /\ ~(j = "stats" /\ runStep'[r] \in {"keys", "clear"})
                <=> runJob[r] = j /\ ~(j = "stats" /\ runStep[r] \in {"keys", "clear"})
          BY <4>1, <4>3
        <5> QED
          BY <2>1, <3>1, <4>3, <5>1, FlagsKept
      <4> QED
        BY <4>2, <4>3
    <3>2. CASE UNCHANGED <<runStep, runJob, inProgress, flagLost>>
      BY <3>2 DEF FlagsInv, Working
    <3>3. CASE /\ ~OneDaoFails(r)
               /\ runJob' = [runJob EXCEPT ![r] = Missing]
               /\ inProgress' = Stopped(runJob[r])
               /\ flagLost' = (flagLost \/ (runJob[r] = "stats"
                                             /\ runStep[r] \in {"keys", "clear"}))
      <4>1. runJob'[r] = Missing
        BY <2>0, <3>3 DEF RunsAre
      <4>2. CASE runJob[r] = "stats" /\ runStep[r] \in {"keys", "clear"}
        BY <3>3, <4>2 DEF FlagsInv
      <4>3. CASE ~(runJob[r] = "stats" /\ runStep[r] \in {"keys", "clear"})
        <5>1. r \in Working(runJob[r])
          BY <4>3 DEF Working
        <5>2. flagLost' = flagLost
          BY <3>3, <4>3 DEF RunsType
        <5> QED
          BY <2>10, <2>11, <3>3, <4>1, <5>1, <5>2 DEF Stopped
      <4> QED
        BY <4>2, <4>3
    <3> QED
      BY <2>17, <3>1, <3>2, <3>3 DEF JobFails
  <2> QED
    BY <1>2, <2>2, <2>5, <2>6, <2>7, <2>8, <2>9, <2>13, <2>14, <2>15, <2>16, <2>17
    DEF RunStep
<1> QED
  BY <1>1, <1>2

-----------------------------------------------------------------------------
(* The cache                                                               *)

\* A step after which nothing is uncleared shows the rows as they were shown.
LEMMA ListingKept ==
  ASSUME StoresType, AggregationNext, ~uncleared'
  PROVE  Listing' = Listing
<1>1. CASE DayEnds
  <2>1. /\ DOMAIN proposalRow' = DOMAIN proposalRow
        /\ \A p \in DOMAIN proposalRow : /\ proposalRow'[p].status = proposalRow[p].status
                                         /\ proposalRow'[p].expired = proposalRow[p].expired
    BY <1>1, RowsAged
  <2> QED
    BY <2>1 DEF Listing
<1>2. CASE ~DayEnds /\ \E r \in Runs : ExpireRows(r)
  <2>1. Overdue = {}
    BY <1>2 DEF ExpireRows
  <2>2. /\ DOMAIN proposalRow' = DOMAIN proposalRow
        /\ \A p \in DOMAIN proposalRow :
             /\ proposalRow'[p].status = proposalRow[p].status
             /\ proposalRow'[p].expired = (proposalRow[p].expired \/ p \in Overdue)
    BY <1>2, RowsAged
  <2>3. \A p \in DOMAIN proposalRow : proposalRow[p].expired \in BOOLEAN
    <3>1. \A p \in DOMAIN proposalRow : proposalRow[p] \in ProposalRows
      BY PartlyFacts DEF StoresType
    <3> QED
      BY <3>1 DEF ProposalRows
  <2>4. \A p \in DOMAIN proposalRow : proposalRow'[p].expired = proposalRow[p].expired
    BY <2>1, <2>2, <2>3
  <2> QED
    BY <2>2, <2>4 DEF Listing
<1>3. CASE ~DayEnds /\ ~\E r \in Runs : ExpireRows(r)
  <2>1. ~IndexRow
    BY DEF IndexRow
  <2>2. \A r \in Runs : ~CreateRow(r)
    BY DEF CreateRow
  <2>3. \A r \in Runs : DeleteRow(r) => proposalRow' = proposalRow
    BY DEF DeleteRow
  <2>4. proposalRow' = proposalRow
    BY <1>3, <2>1, <2>2, <2>3, RunFrame, IndexFrame, WorldFrame, VisitFrame
    DEF AggregationNext, rowVars
  <2> QED
    BY <2>4 DEF Listing
<1> QED
  BY <1>1, <1>2, <1>3

LEMMA FreshNext ==
  ASSUME StoresType, IndexType, CacheType, RunsType, FreshInv, AggregationNext
  PROVE  FreshInv'
<1> SUFFICES ASSUME ~uncleared' PROVE FreshInv'
  BY DEF FreshInv
<1>1. Listing' = Listing
  BY ListingKept
<1>2. CASE IndexKeys
  <2>1. /\ indexStep' = "delete" /\ indexHolds' = Keys(HandledPaths) /\ responses' = responses
        /\ lateVisits' = {v \in Visitors : visitStep[v] = "store"} /\ visitStep' = visitStep
    BY <1>2 DEF IndexKeys, Indexes, ListProposalKeys, visitVars
  <2>2. "/proposals?" \in DOMAIN responses' => "/proposals?" \in indexHolds'
    BY <2>1 DEF Keys, HandledPaths
  <2> QED
    BY <2>1, <2>2 DEF FreshInv
<1>3. CASE IndexNews /\ ~IndexKeys
  <2>1. ~uncleared /\ lateVisits' = lateVisits /\ UNCHANGED visitVars
    <3>1. ~IndexRow /\ uncleared \in BOOLEAN
      BY DEF IndexRow, CacheType
    <3> QED
      BY <1>3, <3>1, IndexFrame DEF freshVars
  <2>2. CASE IndexDelete
    <3>1. indexStep = "delete" /\ indexStep' = "idle" /\ responses' = Without(responses, indexHolds)
      BY <2>2 DEF IndexDelete, Indexes
    <3>2. "/proposals?" \in DOMAIN responses' =>
            /\ "/proposals?" \in DOMAIN responses /\ "/proposals?" \notin indexHolds
            /\ responses'["/proposals?"] = responses["/proposals?"]
      BY <3>1 DEF Without
    <3> QED
      BY <1>1, <2>1, <3>2 DEF FreshInv, visitVars
  <2>3. CASE ~IndexDelete
    <3>1. indexStep # "delete" /\ responses' = responses
      BY <1>3, <2>3, IndexFrame DEF IndexNews, BeginNews, IndexItem, IndexRow, IndexCount,
         IndexCountFails, IndexDaoItem, IndexDaoRow, Indexes
    <3> QED
      BY <1>1, <2>1, <3>1 DEF FreshInv, visitVars
  <2> QED
    BY <2>2, <2>3
<1>4. ASSUME NEW r \in Runs, RunStep(r) PROVE FreshInv'
  <2>1. ~uncleared /\ lateVisits' = lateVisits /\ UNCHANGED <<visitVars, indexVars>>
    <3>1. uncleared \in BOOLEAN
      BY DEF CacheType
    <3>2. UNCHANGED freshVars \/ DeleteRow(r) \/ CreateRow(r) \/ ExpireRows(r)
      BY <1>4, RunFrame
    <3>3. ~uncleared
      BY <3>1, <3>2 DEF DeleteRow, CreateRow, ExpireRows, freshVars
    <3> QED
      BY <1>4, <3>3, RunFrame
  <2>2. /\ "/proposals?" \in DOMAIN responses' => "/proposals?" \in DOMAIN responses
        /\ "/proposals?" \in DOMAIN responses' => responses'["/proposals?"] = responses["/proposals?"]
    <3>1. CASE responses' = responses
      BY <3>1
    <3>2. CASE DeleteKeys(r)
      BY <3>2 DEF DeleteKeys, Without
    <3> QED
      BY <1>4, <3>1, <3>2, RunFrame
  <2> QED
    BY <1>1, <2>1, <2>2 DEF FreshInv, visitVars, indexVars
<1>5. CASE Change \/ PeriodEnds \/ DayEnds \/ MarketMoves
  <2>1. UNCHANGED <<responses, indexVars, visitVars, freshVars>>
    BY <1>5, WorldFrame
  <2> QED
    BY <1>1, <2>1 DEF FreshInv, visitVars, indexVars, freshVars
<1>6. ASSUME NEW v \in Visitors, Visit(v) PROVE FreshInv'
  <2>1. UNCHANGED <<responses, indexVars, freshVars>>
    BY <1>6 DEF Visit
  <2>2. PICK path \in Paths :
          visitHolds' = [visitHolds EXCEPT ![v] = [path |-> path, body |-> Read(path)]]
    BY <1>6 DEF Visit
  <2>3. visitStep' = [visitStep EXCEPT ![v] = "store"]
    BY <1>6 DEF Visit
  <2>4. visitHolds'[v].path = "/proposals?" => visitHolds'[v].body = Listing
    BY <2>2 DEF CacheType, Read, ListPaths
  <2>5. \A w \in Visitors \ {v} : visitHolds'[w] = visitHolds[w] /\ visitStep'[w] = visitStep[w]
    BY <2>2, <2>3 DEF CacheType
  <2> QED
    BY <1>1, <2>1, <2>4, <2>5 DEF FreshInv, indexVars, freshVars
<1>7. ASSUME NEW v \in Visitors, Store(v) PROVE FreshInv'
  <2>1. /\ visitStep[v] = "store" /\ visitStep'[v] = "idle" /\ UNCHANGED indexVars
        /\ \A w \in Visitors \ {v} : visitHolds'[w] = visitHolds[w] /\ visitStep'[w] = visitStep[w]
        /\ responses' = Upsert(responses, visitHolds[v].path, visitHolds[v].body)
        /\ uncleared' = (uncleared \/ (visitHolds[v].path \in HandledPaths /\ v \in lateVisits))
        /\ lateVisits' = lateVisits \ {v}
    BY <1>7 DEF Store, CacheType
  <2>2. ~uncleared /\ (visitHolds[v].path = "/proposals?" => v \notin lateVisits)
    BY <2>1 DEF HandledPaths
  <2>3. visitHolds[v].path = "/proposals?" => responses'["/proposals?"] = Listing
    BY <2>1, <2>2 DEF FreshInv, Upsert
  <2>4. visitHolds[v].path # "/proposals?" =>
          /\ "/proposals?" \in DOMAIN responses' => "/proposals?" \in DOMAIN responses
          /\ "/proposals?" \in DOMAIN responses' =>
               responses'["/proposals?"] = responses["/proposals?"]
    BY <2>1 DEF Upsert
  <2>5. \A w \in Visitors \ lateVisits' : visitStep'[w] = "store" => w \in Visitors \ lateVisits /\ w # v
    BY <2>1
  <2> QED
    BY <1>1, <2>1, <2>2, <2>3, <2>4, <2>5 DEF FreshInv, indexVars
<1> QED
  BY <1>2, <1>3, <1>4, <1>5, <1>6, <1>7 DEF AggregationNext

LEMMA NumbersNext ==
  ASSUME StoresType, IndexType, RunsType, NumbersInv, AggregationNext
  PROVE  NumbersInv'
<1>1. CASE Change
  <2>1. PICK p \in Numbers, s \in {"InProgress", "Approved", "removed"} :
          /\ IF s = "InProgress"
               THEN contract[p] = "none" /\ \A q \in 0 .. p - 1 : contract[q] # "none"
               ELSE contract[p] = "InProgress"
          /\ contract' = [contract EXCEPT ![p] = s]
    BY <1>1 DEF Change
  <2>2. PICK k \in 0 .. MaxNumber : \A q \in Numbers : contract[q] # "none" <=> q < k
    BY DEF NumbersInv
  <2>3. \A q \in Numbers : contract'[q] = IF q = p THEN s ELSE contract[q]
    BY <2>1 DEF StoresType
  <2>4. CASE s = "InProgress"
    <3>1. k = p
      <4>1. ~(p < k)
        BY <2>1, <2>2, <2>4
      <4>2. \A q \in 0 .. p - 1 : q < k
        BY <2>1, <2>2, <2>4, AggregationAssumption DEF Numbers
      <4>3. p > 0 => p - 1 < k
        BY <4>2, AggregationAssumption DEF Numbers
      <4> QED
        BY <4>1, <4>3, AggregationAssumption DEF Numbers
    <3>2. k + 1 \in 0 .. MaxNumber
      BY <3>1, AggregationAssumption DEF Numbers
    <3>3. \A q \in Numbers : contract'[q] # "none" <=> q < k + 1
      BY <2>2, <2>3, <2>4, <3>1, AggregationAssumption DEF Numbers
    <3> QED
      BY <3>2, <3>3 DEF NumbersInv
  <2>5. CASE s # "InProgress"
    <3>1. \A q \in Numbers : contract'[q] # "none" <=> q < k
      BY <2>1, <2>2, <2>3, <2>5
    <3> QED
      BY <3>1 DEF NumbersInv
  <2> QED
    BY <2>4, <2>5
<1>2. CASE ~Change
  <2>1. contract' = contract
    BY <1>2, RunFrame, IndexFrame, WorldFrame, VisitFrame DEF AggregationNext, chainVars
  <2> QED
    BY <2>1 DEF NumbersInv
<1> QED
  BY <1>1, <1>2

-----------------------------------------------------------------------------
(* A run that nothing overlaps                                             *)

LEMMA LastChunk ==
  ASSUME NEW n \in Nat
  PROVE  Chunks(n) \in Nat /\ n < Chunks(n) * ChunkSize
<1>1. ChunkSize \in Nat /\ ChunkSize > 0
  BY AggregationAssumption
<1>2. PICK c : c = ChunkSize
  OBVIOUS
<1>3. c \in Nat /\ c > 0
  BY <1>1, <1>2
<1>4. n \div c \in Nat
  BY <1>3
<1>5. n < (n \div c + 1) * c
  BY <1>3, <1>4
<1> QED
  BY <1>2, <1>4, <1>5 DEF Chunks

\* The proposals ever added are those before the next number.
LEMMA AddedFacts ==
  ASSUME StoresType, NumbersInv
  PROVE  Cardinality(Added) \in Nat /\ \A p \in Existing(contract) : p < Cardinality(Added)
<1>1. PICK k \in 0 .. MaxNumber : \A p \in Numbers : contract[p] # "none" <=> p < k
  BY DEF NumbersInv
<1>2. k \in Nat /\ k <= MaxNumber /\ MaxNumber \in Nat
  BY AggregationAssumption
<1>3. Added = 0 .. k - 1
  BY <1>1, <1>2 DEF Added, Numbers
<1>4. Cardinality(0 .. k - 1) = k
  BY <1>2, FS_Interval
<1>5. \A p \in Existing(contract) : p < k
  BY <1>1 DEF Existing
<1> QED
  BY <1>2, <1>3, <1>4, <1>5

LEMMA ShownKept ==
  ASSUME UNCHANGED <<contract, proposalItem, proposalRow, tokenPrice>>,
         allowed'.dynamo = allowed.dynamo
  PROVE  /\ RowsRepaired' = RowsRepaired
         /\ \A h : ComputedInv(h)' = ComputedInv(h)
<1>1. Counts' = Counts
  BY DEF Counts
<1>2. DaoStatus' = DaoStatus
  BY DEF DaoStatus
<1>3. RowsRepaired' = RowsRepaired
  BY DEF RowsRepaired, RowRepaired, ItemRepaired, Existing
<1>4. \A h : ComputedInv(h)' = ComputedInv(h)
  BY <1>1, <1>2 DEF ComputedInv
<1> QED
  BY <1>3, <1>4

LEMMA LoadKept ==
  ASSUME UNCHANGED <<contract, rowVars, tokenPrice>>, allowed'.dynamo = allowed.dynamo,
         NEW s, NEW h, LoadInv(s, h)
  PROVE  LoadInv(s, h)'
<1>1. UNCHANGED <<contract, proposalItem, proposalRow, daoItem, tokenPrice>>
  BY DEF rowVars
<1>2. /\ RowsRepaired' = RowsRepaired
      /\ \A f : ComputedInv(f)' = ComputedInv(f)
  BY <1>1, ShownKept
<1>3. ComputedInv(daoItem)' = ComputedInv(daoItem)
  <2>1. PICK f : f = daoItem
    OBVIOUS
  <2>2. ComputedInv(f)' = ComputedInv(f)
    BY <1>2
  <2> QED
    BY <1>1, <1>2, <2>1 DEF ComputedInv
<1>4. /\ Added' = Added /\ Existing(contract)' = Existing(contract)
      /\ \A S : Existent(S)' = Existent(S)
  BY <1>1 DEF Added, Existing, Existent
<1>5. \A p : RowRepaired(p)' = RowRepaired(p) /\ ItemRepaired(p)' = ItemRepaired(p)
  BY <1>1 DEF RowRepaired, ItemRepaired
<1> QED
  BY <1>1, <1>2, <1>3, <1>4, <1>5 DEF LoadInv

\* A step of a run that loads the DAO, which is not its last.
LEMMA LoadNext ==
  ASSUME StoresType, RunsType, NumbersInv, NEW r \in Runs, RunStep(r), runJob[r] = "dao",
         ~JobFails(r), ~Start(r), runJob'[r] = "dao",
         LoadInv(runStep[r], runHolds[r]),
         NEW s, NEW h, s = runStep'[r], h = runHolds'[r]
  PROVE  LoadInv(s, h)'
<1> DEFINE h0 == runHolds[r]
<1>1. RunsAre
  BY DEF RunsType, RunsAre
<1>2. contract' = contract /\ allowed' = allowed
  BY RunFrame DEF chainVars
<1>3. runStep[r] # "idle"
  BY AggregationAssumption DEF RunsType, RunType, Jobs, Flags
<1>4. runStep[r] \in JobSteps("dao") /\ HoldsType("dao", runStep[r], h0)
  BY <1>3, RunTypes
<1>5. Existing(contract)' = Existing(contract) /\ Existing(contract) \subseteq Numbers
  BY <1>2 DEF Existing
<1>6. /\ \A S : Existent(S)' = Existent(S)
      /\ DOMAIN Existent(Numbers) = Existing(contract)
      /\ \A p \in Existing(contract) : Existent(Numbers)[p] = contract[p]
  BY <1>2, <1>5 DEF Existent, Existing
<1>7. CASE GetInfo(r)
  <2> DEFINE n == Cardinality({p \in Numbers : contract[p] # "none"})
             new == [last |-> n, chunk |-> 0, proposals |-> <<>>]
  <2>1. Reads(r, "chunk", new)
    BY <1>7 DEF GetInfo
  <2>2. s = "chunk" /\ h = new
    BY <1>1, <2>1, ReadsEffect
  <2>3. Added' = Added /\ n = Cardinality(Added)
    BY <1>2 DEF Added
  <2>4. n \in Nat /\ Chunks(n) \in Nat
    BY <2>3, AddedFacts, LastChunk
  <2>5. Existent(0 .. 0 * ChunkSize - 1) = <<>>
    <3>1. 0 .. 0 * ChunkSize - 1 = {}
      BY AggregationAssumption
    <3> QED
      BY <3>1 DEF Existent
  <2>6. /\ h.last = Cardinality(Added) /\ h.chunk <= Chunks(h.last)
        /\ h.proposals = Existent(0 .. h.chunk * ChunkSize - 1)
    BY <2>2, <2>3, <2>4, <2>5
  <2> QED
    BY <1>6, <2>2, <2>3, <2>6 DEF LoadInv
<1>8. CASE GetChunk(r)
  <2> DEFINE c == h0.chunk
             from == c * ChunkSize
             chunk == [p \in Existing(contract) \cap from .. from + ChunkSize - 1 |-> contract[p]]
             read == Over(h0.proposals, chunk)
             new == [h0 EXCEPT !.chunk = @ + 1, !.proposals = read]
  <2>1. /\ runStep[r] = "chunk"
        /\ \/ c < Chunks(h0.last) /\ Reads(r, "chunk", new)
           \/ ~(c < Chunks(h0.last)) /\ Reads(r, "list", h0.proposals)
    BY <1>8 DEF GetChunk, At
  <2>2. h0 \in [last : Nat, chunk : Nat, proposals : Partly(Numbers, Voted)]
    BY <1>4, <2>1 DEF HoldsType
  <2>3. /\ h0.last = Cardinality(Added) /\ c <= Chunks(h0.last)
        /\ h0.proposals = Existent(0 .. from - 1)
    BY <2>1 DEF LoadInv
  <2>4. c \in Nat /\ h0.last \in Nat /\ ChunkSize \in Nat /\ ChunkSize > 0
    BY <2>2, AggregationAssumption
  <2>5. Chunks(h0.last) \in Nat /\ h0.last < Chunks(h0.last) * ChunkSize
    BY <2>4, LastChunk
  <2>6. Added' = Added
    BY <1>2 DEF Added
  <2>7. CASE c < Chunks(h0.last) /\ Reads(r, "chunk", new)
    <3>1. s = "chunk" /\ h = new
      BY <1>1, <2>7, ReadsEffect
    <3>2. h.last = h0.last /\ h.chunk = c + 1 /\ h.proposals = read
      <4>1. /\ h0 = [last |-> h0.last, chunk |-> c, proposals |-> h0.proposals]
            /\ new = [[h0 EXCEPT !.chunk = c + 1] EXCEPT !.proposals = read]
        BY <2>2
      <4> HIDE DEF read, c, h0, new
      <4> QED
        BY <3>1, <4>1
    <3>3. from \in Nat /\ (c + 1) * ChunkSize = from + ChunkSize
      BY <2>4
    <3>4. read = Existent(0 .. (from + ChunkSize) - 1)
      <4>1. \A p \in Numbers : p \in 0 .. (from + ChunkSize) - 1
                               <=> p \in 0 .. from - 1 \/ p \in from .. from + ChunkSize - 1
        <5> HIDE DEF from
        <5> QED
          BY <2>4, <3>3 DEF Numbers
      <4> HIDE DEF from
      <4> QED
        BY <1>5, <2>3, <4>1 DEF Over, Existent
    <3>5. c + 1 <= Chunks(h0.last)
      <4> HIDE DEF c
      <4> QED
        BY <2>4, <2>5, <2>7
    <3>6. /\ h.last = Cardinality(Added) /\ h.chunk <= Chunks(h.last)
          /\ h.proposals = Existent(0 .. h.chunk * ChunkSize - 1)
      <4>1. h.chunk * ChunkSize = from + ChunkSize
        BY <3>2, <3>3
      <4>2. h.proposals = Existent(0 .. h.chunk * ChunkSize - 1)
        <5>1. h.proposals = Existent(0 .. (from + ChunkSize) - 1)
          BY <3>2, <3>4
        <5> HIDE DEF from
        <5> QED
          BY <4>1, <5>1
      <4> QED
        BY <2>3, <3>2, <3>5, <4>2
    <3> QED
      BY <1>6, <2>6, <3>1, <3>6 DEF LoadInv
  <2>8. CASE ~(c < Chunks(h0.last)) /\ Reads(r, "list", h0.proposals)
    <3>1. s = "list" /\ h = h0.proposals
      BY <1>1, <2>8, ReadsEffect
    <3>2. c = Chunks(h0.last)
      BY <2>3, <2>4, <2>5, <2>8
    <3>3. h0.last < from
      BY <2>5, <3>2
    <3>4. \A p \in Existing(contract) : p \in Numbers /\ p < h0.last
      BY <1>5, <2>3, AddedFacts
    <3>5. \A p \in Existing(contract) : p \in 0 .. from - 1
      <4>1. from \in Nat
        BY <2>4
      <4> HIDE DEF from
      <4> QED
        BY <2>4, <3>3, <3>4, <4>1, AggregationAssumption DEF Numbers
    <3>6. Existent(0 .. from - 1) = Existent(Numbers)
      <4> HIDE DEF from
      <4> QED
        BY <3>4, <3>5 DEF Existent
    <3> QED
      BY <1>6, <2>3, <3>1, <3>6 DEF LoadInv
  <2> QED
    BY <2>1, <2>7, <2>8
<1>9. CASE ListRows(r)
  <2> DEFINE new == [gone |-> DOMAIN proposalRow \ DOMAIN h0, proposals |-> h0]
  <2>1. runStep[r] = "list" /\ Reads(r, "delete", new)
    BY <1>9 DEF ListRows, At
  <2>2. s = "delete" /\ h = new /\ proposalRow' = proposalRow
    BY <1>1, <2>1, ReadsEffect DEF Reads, rowVars
  <2>3. h0 = Existent(Numbers)
    BY <2>1 DEF LoadInv
  <2>4. h.proposals = Existent(Numbers) /\ h.gone = DOMAIN proposalRow \ Existing(contract)
    BY <1>6, <2>2, <2>3
  <2> QED
    BY <1>5, <1>6, <2>2, <2>4 DEF LoadInv
<1>10. CASE DeleteRow(r)
  <2>1. /\ runStep[r] = "delete" /\ runJob' = runJob /\ proposalItem' = proposalItem
        /\ \/ /\ h0.gone = {} /\ proposalRow' = proposalRow
              /\ Moves(r, "create", [items |-> DOMAIN h0.proposals, rows |-> {},
                                     proposals |-> h0.proposals])
           \/ \E p \in h0.gone : /\ proposalRow' = Without(proposalRow, {p})
                                 /\ Moves(r, "delete", [h0 EXCEPT !.gone = @ \ {p}])
    BY <1>10 DEF DeleteRow, At
  <2>2. h0.proposals = Existent(Numbers) /\ h0.gone = DOMAIN proposalRow \ Existing(contract)
    BY <2>1 DEF LoadInv
  <2>3. h0 \in [gone : SUBSET Numbers, proposals : Partly(Numbers, Voted)]
    BY <1>4, <2>1 DEF HoldsType
  <2>4. CASE /\ h0.gone = {} /\ proposalRow' = proposalRow
             /\ Moves(r, "create", [items |-> DOMAIN h0.proposals, rows |-> {},
                                    proposals |-> h0.proposals])
    <3>1. /\ s = "create"
          /\ h = [items |-> DOMAIN h0.proposals, rows |-> {}, proposals |-> h0.proposals]
      BY <1>1, <2>4, MovesEffect
    <3>2. /\ h.proposals = Existent(Numbers) /\ h.items = Existing(contract)
          /\ DOMAIN proposalRow \subseteq Existing(contract)
      BY <1>6, <2>2, <2>4, <3>1
    <3> QED
      BY <1>5, <1>6, <2>4, <3>1, <3>2 DEF LoadInv
  <2>5. ASSUME NEW p \in h0.gone, proposalRow' = Without(proposalRow, {p}),
               Moves(r, "delete", [h0 EXCEPT !.gone = @ \ {p}])
        PROVE  LoadInv(s, h)'
    <3>1. s = "delete" /\ h = [h0 EXCEPT !.gone = @ \ {p}]
      BY <1>1, <2>5, MovesEffect
    <3>2. h.proposals = h0.proposals /\ h.gone = h0.gone \ {p}
      BY <2>3, <3>1
    <3>3. DOMAIN proposalRow' = DOMAIN proposalRow \ {p}
      BY <2>5 DEF Without
    <3> QED
      BY <1>5, <1>6, <2>2, <3>1, <3>2, <3>3 DEF LoadInv
  <2> QED
    BY <2>1, <2>4, <2>5
<1>11. CASE CreateItem(r) \/ CreateRow(r)
  <2>1. runStep[r] = "create" /\ runJob' = runJob
    BY <1>11 DEF CreateItem, CreateRow, At
  <2>2. /\ h0.proposals = Existent(Numbers) /\ DOMAIN proposalRow \subseteq Existing(contract)
        /\ \A p \in Existing(contract) : /\ p \in h0.items \/ ItemRepaired(p)
                                         /\ p \in h0.items \cup h0.rows \/ RowRepaired(p)
    BY <2>1 DEF LoadInv
  <2>3. /\ h0 \in [items : SUBSET Numbers, rows : SUBSET Numbers,
                   proposals : Partly(Numbers, Voted)]
        /\ h0.items \cup h0.rows \subseteq Existing(contract)
    BY <1>4, <1>6, <2>1, <2>2 DEF HoldsType
  <2>4. \A p \in Existing(contract) : contract[p] \in Voted
    BY DEF Existing, StoresType, Voted
  <2>5. CASE CreateItem(r)
    <3>1. PICK p \in h0.items :
            /\ SaveItemOf(p, h0.proposals[p])
            /\ Moves(r, "create", [h0 EXCEPT !.items = @ \ {p}, !.rows = @ \cup {p}])
      BY <2>5 DEF CreateItem
    <3>2. s = "create" /\ h = [h0 EXCEPT !.items = @ \ {p}, !.rows = @ \cup {p}]
      BY <1>1, <2>1, <3>1, MovesEffect
    <3>3. /\ h.proposals = h0.proposals /\ h.items = h0.items \ {p}
          /\ h.rows = h0.rows \cup {p}
      BY <2>3, <3>2
    <3>4. p \in Existing(contract) /\ p \in Numbers /\ h0.proposals[p] = contract[p]
      BY <1>5, <1>6, <2>2, <2>3
    <3>5. SaveItemOf(p, contract[p]) /\ contract[p] \in Voted /\ proposalRow' = proposalRow
      BY <2>4, <2>5, <3>1, <3>4 DEF CreateItem
    <3>6. /\ DOMAIN proposalItem' = DOMAIN proposalItem \cup {p}
          /\ proposalItem'[p] = [status |-> contract[p], archived |-> FALSE]
          /\ \A q \in DOMAIN proposalItem \ {p} : proposalItem'[q] = proposalItem[q]
      BY <3>4, <3>5, ItemSaved
    <3>7. /\ ItemRepaired(p)' /\ \A q \in Existing(contract) : ItemRepaired(q) => ItemRepaired(q)'
          /\ \A q \in Existing(contract) : RowRepaired(q)' = RowRepaired(q)
      BY <1>2, <3>5, <3>6 DEF ItemRepaired, RowRepaired
    <3> QED
      BY <1>5, <1>6, <2>2, <3>2, <3>3, <3>5, <3>7 DEF LoadInv
  <2>6. CASE CreateRow(r)
    <3>1. PICK p \in h0.rows : /\ SaveRowOf(p, h0.proposals[p], FALSE)
                               /\ Moves(r, "create", [h0 EXCEPT !.rows = @ \ {p}])
      BY <2>6 DEF CreateRow
    <3>2. s = "create" /\ h = [h0 EXCEPT !.rows = @ \ {p}]
      BY <1>1, <2>1, <3>1, MovesEffect
    <3>3. /\ h.proposals = h0.proposals /\ h.items = h0.items /\ h.rows = h0.rows \ {p}
      BY <2>3, <3>2
    <3>4. p \in Existing(contract) /\ p \in Numbers /\ h0.proposals[p] = contract[p]
      BY <1>5, <1>6, <2>2, <2>3
    <3>5. SaveRowOf(p, contract[p], FALSE) /\ contract[p] \in Voted /\ proposalItem' = proposalItem
      BY <2>4, <2>6, <3>1, <3>4 DEF CreateRow
    <3>6. /\ DOMAIN proposalRow' = DOMAIN proposalRow \cup {p}
          /\ proposalRow'[p].status = contract[p]
          /\ \A q \in DOMAIN proposalRow \ {p} : proposalRow'[q] = proposalRow[q]
      BY <3>4, <3>5, RowSaved
    <3>7. /\ RowRepaired(p)' /\ \A q \in Existing(contract) : RowRepaired(q) => RowRepaired(q)'
          /\ \A q \in Existing(contract) : ItemRepaired(q)' = ItemRepaired(q)
      BY <1>2, <3>5, <3>6 DEF ItemRepaired, RowRepaired
    <3>8. DOMAIN proposalRow' \subseteq Existing(contract)
      BY <2>2, <3>4, <3>6
    <3> QED
      BY <1>5, <1>6, <2>2, <3>2, <3>3, <3>7, <3>8 DEF LoadInv
  <2> QED
    BY <1>11, <2>5, <2>6
<1>12. CASE GetStatus(r) \/ GetCounts(r) \/ GetFunds(r)
  <2>1. \E new : /\ Reads(r, runStep'[r], new)
                 /\ GetStatus(r) => new = [status |-> DaoStatus] /\ runStep'[r] = "counts"
                 /\ GetCounts(r) => new = Over(h0, Counts) /\ runStep'[r] = "funds"
                 /\ GetFunds(r) => new = Upsert(h0, "funds", tokenPrice)
                                   /\ runStep'[r] = "saveItem"
    <3>1. CASE GetStatus(r)
      <4>1. Reads(r, "counts", [status |-> DaoStatus]) /\ runStep[r] = "create"
        BY <3>1 DEF GetStatus, At
      <4>2. runStep'[r] = "counts" /\ ~GetCounts(r) /\ ~GetFunds(r)
        BY <1>1, <4>1, ReadsEffect DEF GetCounts, GetFunds
      <4> QED
        BY <4>1, <4>2
    <3>2. CASE GetCounts(r)
      <4>1. Reads(r, "funds", Over(h0, Counts)) /\ runStep[r] = "counts"
        BY <3>2 DEF GetCounts
      <4>2. runStep'[r] = "funds" /\ ~GetStatus(r) /\ ~GetFunds(r)
        BY <1>1, <4>1, ReadsEffect DEF GetStatus, GetFunds, At
      <4> QED
        BY <4>1, <4>2
    <3>3. CASE GetFunds(r)
      <4>1. Reads(r, "saveItem", Upsert(h0, "funds", tokenPrice)) /\ runStep[r] = "funds"
        BY <3>3 DEF GetFunds
      <4>2. runStep'[r] = "saveItem" /\ ~GetStatus(r) /\ ~GetCounts(r)
        BY <1>1, <4>1, ReadsEffect DEF GetStatus, GetCounts, At
      <4> QED
        BY <4>1, <4>2
    <3> QED
      BY <1>12, <3>1, <3>2, <3>3
  <2>2. PICK new : /\ Reads(r, runStep'[r], new)
                   /\ GetStatus(r) => new = [status |-> DaoStatus] /\ runStep'[r] = "counts"
                   /\ GetCounts(r) => new = Over(h0, Counts) /\ runStep'[r] = "funds"
                   /\ GetFunds(r) => new = Upsert(h0, "funds", tokenPrice)
                                     /\ runStep'[r] = "saveItem"
    BY <2>1
  <2>3. h = new /\ UNCHANGED <<proposalItem, proposalRow, tokenPrice>>
    BY <1>1, <2>2, ReadsEffect DEF Reads, rowVars
  <2>4. RowsRepaired
    <3>1. CASE GetStatus(r)
      <4>1. runStep[r] = "create" /\ h0.items = {} /\ h0.rows = {}
        BY <3>1 DEF GetStatus, At
      <4>2. /\ DOMAIN proposalRow \subseteq Existing(contract)
            /\ \A p \in Existing(contract) : RowRepaired(p) /\ ItemRepaired(p)
        BY <4>1 DEF LoadInv
      <4>3. Existing(contract) \subseteq DOMAIN proposalRow
        BY <4>2 DEF RowRepaired
      <4> QED
        BY <4>2, <4>3 DEF RowsRepaired
    <3>2. CASE GetCounts(r) \/ GetFunds(r)
      BY <3>2 DEF GetCounts, GetFunds, LoadInv
    <3> QED
      BY <1>12, <3>1, <3>2
  <2>5. ComputedInv(new)
    <3>1. CASE GetStatus(r)
      BY <2>2, <3>1 DEF ComputedInv
    <3>2. CASE GetCounts(r)
      <4>1. runStep[r] = "counts"
        BY <3>2 DEF GetCounts
      <4>2. ComputedInv(h0) /\ DOMAIN h0 = {"status"}
        BY <1>4, <4>1 DEF LoadInv, HoldsType, FieldsOf
      <4>3. DOMAIN Counts = {"total", "active"}
        BY CountsFacts
      <4>4. new = Over(h0, Counts)
        BY <2>2, <3>2
      <4> QED
        BY <4>2, <4>3, <4>4 DEF ComputedInv, Over
    <3>3. CASE GetFunds(r)
      <4>1. runStep[r] = "funds"
        BY <3>3 DEF GetFunds
      <4>2. ComputedInv(h0) /\ DOMAIN h0 = AllFields \ {"funds"}
        BY <1>4, <4>1 DEF LoadInv, HoldsType, FieldsOf
      <4>3. new = Upsert(h0, "funds", tokenPrice)
        BY <2>2, <3>3
      <4> QED
        BY <4>2, <4>3 DEF ComputedInv, Upsert, AllFields
    <3> QED
      BY <1>12, <3>1, <3>2, <3>3
  <2>6. RowsRepaired' /\ ComputedInv(h)'
    BY <1>2, <2>3, <2>4, <2>5, ShownKept
  <2>7. s \in {"counts", "funds", "saveItem"}
    BY <1>12, <2>2
  <2> QED
    BY <2>6, <2>7 DEF LoadInv
<1>13. CASE SaveFieldsItem(r)
  <2>1. /\ runStep[r] = "saveItem" /\ runJob' = runJob /\ Moves(r, "saveRow", h0)
        /\ daoItem' = Over(daoItem, h0)
        /\ UNCHANGED <<proposalItem, proposalRow, tokenPrice>>
    BY <1>13 DEF SaveFieldsItem
  <2>2. s = "saveRow" /\ h = h0
    BY <1>1, <2>1, MovesEffect
  <2>3. RowsRepaired /\ ComputedInv(h0) /\ DOMAIN h0 = AllFields
    BY <1>4, <2>1 DEF LoadInv, HoldsType, FieldsOf
  <2>4. PICK new : new = Over(daoItem, h0)
    OBVIOUS
  <2>5. ComputedInv(new)
    BY <2>3, <2>4 DEF ComputedInv, Over, AllFields
  <2>6. RowsRepaired' /\ ComputedInv(h)' /\ ComputedInv(new)'
    BY <1>2, <2>1, <2>2, <2>3, <2>5, ShownKept
  <2>7. ComputedInv(daoItem)'
    BY <2>1, <2>4, <2>6 DEF ComputedInv
  <2> QED
    BY <2>2, <2>6, <2>7 DEF LoadInv
<1>14. CASE SaveFieldsRow(r)
  BY <1>1, <1>14, EndsEffect, AggregationAssumption DEF SaveFieldsRow, Jobs, Flags
<1>15. CASE ListKeys(r) \/ DeleteKeys(r)
  <2>1. runStep[r] \in {"keys", "clear"}
    BY <1>15 DEF ListKeys, DeleteKeys
  <2> QED
    BY <1>4, <2>1 DEF JobSteps
<1>16. CASE \/ AskMarket(r) \/ SavePrice(r) \/ ReadDao(r) \/ FindStatus(r) \/ TakeStats(r)
            \/ SaveStatsRow(r) \/ SaveStatsItem(r) \/ FindExpiredRows(r) \/ ExpireRows(r)
  BY <1>16 DEF AskMarket, SavePrice, ReadDao, FindStatus, TakeStats, SaveStatsRow,
     SaveStatsItem, FindExpiredRows, ExpireRows, At
<1> QED
  BY <1>7, <1>8, <1>9, <1>10, <1>11, <1>12, <1>13, <1>14, <1>15, <1>16 DEF RunStep

\* Only a run that is idle is started, and only the others go on.
LEMMA NotIdle ==
  ASSUME RunsType, NEW r \in Runs, RunStep(r), ~Start(r)
  PROVE  runStep[r] # "idle"
BY DEF RunStep, GetInfo, GetChunk, ListRows, DeleteRow, CreateItem, CreateRow, GetStatus, GetCounts,
   GetFunds, SaveFieldsItem, SaveFieldsRow, AskMarket, SavePrice, ReadDao, FindStatus, TakeStats,
   SaveStatsRow, SaveStatsItem, FindExpiredRows, ExpireRows, ListKeys, DeleteKeys, JobFails, At

\* What neither a run, nor the indexer, nor a change of the DAO disturbs.
LEMMA QuietKept ==
  ASSUME StoresType, AggregationNext, ~Change, ~DayEnds, ~IndexNews, ~\E r \in Runs : RunStep(r)
  PROVE  /\ UNCHANGED <<contract, rowVars, tokenPrice, indexVars, runVars, loneVars>>
         /\ allowed'.dynamo = allowed.dynamo
<1>1. \/ PeriodEnds \/ MarketMoves
      \/ \E v \in Visitors : Visit(v) \/ Store(v)
  BY DEF AggregationNext
<1>2. UNCHANGED <<contract, rowVars, tokenPrice, indexVars, runVars, loneVars>>
  BY <1>1, VisitFrame DEF PeriodEnds, MarketMoves, chainVars
<1>3. allowed' = allowed \/ \E f \in {"periods", "markets", "visits"} : Spend(f)
  BY <1>1 DEF PeriodEnds, MarketMoves, Visit, Store
<1>4. allowed'.dynamo = allowed.dynamo
  BY <1>3 DEF Spend, StoresType
<1> QED
  BY <1>2, <1>4

LEMMA LoneNext ==
  ASSUME StoresType, IndexType, RunsType, NumbersInv, LoneInv, AggregationNext
  PROVE  LoneInv'
<1>1. CASE Change \/ DayEnds \/ IndexNews
  <2>1. lone' = Missing
    BY <1>1, WorldFrame, IndexFrame DEF Disturbs
  <2> QED
    BY <2>1 DEF LoneInv
<1>2. CASE ~Change /\ ~DayEnds /\ ~IndexNews /\ ~\E r \in Runs : RunStep(r)
  <2>1. /\ UNCHANGED <<contract, rowVars, tokenPrice, indexVars, runVars, loneVars>>
        /\ allowed'.dynamo = allowed.dynamo
    BY <1>2, QuietKept
  <2> SUFFICES ASSUME lone # Missing PROVE LoneInv'
    BY <2>1 DEF LoneInv, loneVars
  <2>2. PICK s, h : s = runStep[lone] /\ h = runHolds[lone]
    OBVIOUS
  <2>3. runJob[lone] = "dao" => LoadInv(s, h)'
    BY <2>1, <2>2, LoadKept DEF LoneInv
  <2>4. runJob'[lone'] = "dao" => LoadInv(runStep[lone], runHolds[lone])'
    BY <2>1, <2>2, <2>3 DEF runVars, loneVars, LoadInv
  <2> QED
    BY <2>1, <2>4 DEF LoneInv, indexVars, runVars, loneVars
<1>3. ASSUME NEW r \in Runs, RunStep(r) PROVE LoneInv'
  <2>1. RunsAre /\ UNCHANGED indexVars
    BY <1>3, RunFrame DEF RunsType, RunsAre
  <2>2. Kept(r)
    BY <1>3, <2>1, RunsKept
  <2>3. CASE Start(r)
    <3>1. lone' = IF indexStep = "idle" /\ \A q \in Runs : runStep[q] = "idle"
                    THEN r ELSE Missing
      BY <2>3 DEF Start
    <3>2. CASE indexStep = "idle" /\ \A q \in Runs : runStep[q] = "idle"
      <4>1. lone' = r /\ indexStep' = "idle"
        BY <2>1, <3>1, <3>2 DEF indexVars
      <4>2. \A q \in Runs \ {r} : runStep'[q] = "idle"
        BY <2>2, <3>2 DEF Kept
      <4>3. runJob'[r] = "dao" => runStep'[r] = "info"
        BY <2>1, <2>3, StartEffect DEF First
      <4>4. runJob'[lone'] = "dao" => LoadInv(runStep[lone], runHolds[lone])'
        BY <4>1, <4>3 DEF LoadInv
      <4> QED
        BY <4>1, <4>2, <4>4 DEF LoneInv
    <3>3. CASE ~(indexStep = "idle" /\ \A q \in Runs : runStep[q] = "idle")
      BY <3>1, <3>3 DEF LoneInv
    <3> QED
      BY <3>2, <3>3
  <2>4. CASE ~Start(r)
    <3>1. runStep[r] # "idle"
      BY <1>3, <2>4, NotIdle
    <3>2. lone = Missing \/ lone = r
      BY <3>1 DEF LoneInv, RunsType
    <3>3. CASE lone = Missing \/ JobFails(r)
      <4>1. lone' = Missing
        BY <1>3, <2>4, <3>2, <3>3, RunFrame DEF JobFails
      <4> QED
        BY <4>1 DEF LoneInv
    <3>4. CASE lone # Missing /\ ~JobFails(r)
      <4>1. lone = r /\ lone' = r
        BY <1>3, <2>4, <3>2, <3>4, RunFrame
      <4>2. indexStep' = "idle" /\ \A q \in Runs \ {r} : runStep'[q] = "idle"
        BY <2>1, <2>2, <3>4, <4>1 DEF LoneInv, Kept, indexVars
      <4>3. ASSUME runJob'[r] = "dao" PROVE LoadInv(runStep[lone], runHolds[lone])'
        <5>1. runJob[r] = "dao"
          <6>1. \/ runJob'[r] = runJob[r] \/ runJob'[r] = Missing
            <7>1. CASE Loads(r)
              BY <2>1, <7>1, LoadsRead, ReadsEffect
            <7>2. CASE \/ DeleteRow(r) \/ CreateItem(r) \/ CreateRow(r) \/ SaveFieldsItem(r)
                       \/ SavePrice(r) \/ SaveStatsRow(r) \/ SaveStatsItem(r)
              BY <7>2 DEF DeleteRow, CreateItem, CreateRow, SaveFieldsItem, SavePrice,
                 SaveStatsRow, SaveStatsItem
            <7>3. CASE SaveFieldsRow(r) \/ ExpireRows(r)
              BY <2>1, <7>3, EndsEffect DEF SaveFieldsRow, ExpireRows
            <7>4. CASE DeleteKeys(r)
              <8>1. Ends(r) \/ runJob' = [runJob EXCEPT ![r] = Missing]
                BY <7>4 DEF DeleteKeys
              <8> QED
                BY <2>1, <8>1, EndsEffect DEF RunsAre
            <7> QED
              BY <1>3, <2>4, <3>4, <7>1, <7>2, <7>3, <7>4 DEF RunStep, Loads
          <6> QED
            BY <4>3, <6>1, AggregationAssumption DEF Jobs, Flags
        <5>2. LoadInv(runStep[r], runHolds[r])
          BY <3>4, <4>1, <5>1 DEF LoneInv
        <5>3. PICK s, h : s = runStep'[r] /\ h = runHolds'[r]
          OBVIOUS
        <5>4. LoadInv(s, h)'
          BY <1>3, <2>4, <3>4, <4>3, <5>1, <5>2, <5>3, LoadNext
        <5> QED
          BY <4>1, <5>3, <5>4 DEF LoadInv
      <4> QED
        BY <4>1, <4>2, <4>3 DEF LoneInv
    <3> QED
      BY <3>3, <3>4
  <2> QED
    BY <2>3, <2>4
<1> QED
  BY <1>1, <1>2, <1>3

LEMMA RepairedNext ==
  ASSUME StoresType, IndexType, RunsType, LoneInv, RepairedInv, AggregationNext
  PROVE  RepairedInv'
<1>1. CASE Change \/ DayEnds \/ IndexNews
  <2>1. repaired' = FALSE
    BY <1>1, WorldFrame, IndexFrame DEF Disturbs
  <2> QED
    BY <2>1 DEF RepairedInv
<1>2. CASE ~Change /\ ~DayEnds /\ ~IndexNews /\ ~\E r \in Runs : RunStep(r)
  <2>1. /\ UNCHANGED <<contract, rowVars, tokenPrice, indexVars, runVars, loneVars>>
        /\ allowed'.dynamo = allowed.dynamo
    BY <1>2, QuietKept
  <2>2. PICK item, row : item = daoItem /\ row = daoRow
    OBVIOUS
  <2>3. /\ RowsRepaired' = RowsRepaired
        /\ \A h : ComputedInv(h)' = ComputedInv(h)
    BY <2>1, ShownKept DEF rowVars
  <2>4. ComputedInv(item)' = ComputedInv(item) /\ ComputedInv(row)' = ComputedInv(row)
    BY <2>3
  <2>5. repaired => ComputedInv(daoItem)' /\ ComputedInv(daoRow)'
    BY <2>1, <2>2, <2>4 DEF RepairedInv, ComputedInv, rowVars
  <2> QED
    BY <2>1, <2>3, <2>5 DEF RepairedInv, loneVars, indexVars, runVars
<1>3. ASSUME NEW r \in Runs, RunStep(r) PROVE RepairedInv'
  <2>1. RunsAre /\ UNCHANGED indexVars
    BY <1>3, RunFrame DEF RunsType, RunsAre
  <2>2. CASE Start(r)
    BY <2>2 DEF Start, RepairedInv
  <2>3. CASE ~Start(r)
    <3>1. runStep[r] # "idle"
      BY <1>3, <2>3, NotIdle
    <3>2. repaired = FALSE
      BY <3>1 DEF RepairedInv, RunsType
    <3> SUFFICES ASSUME repaired' PROVE RepairedInv'
      BY DEF RepairedInv
    <3>3. SaveFieldsRow(r)
      BY <1>3, <2>3, <3>2, RunFrame
    <3>4. /\ runStep[r] = "saveRow" /\ runJob[r] = "dao" /\ lone = r /\ Ends(r)
          /\ daoRow' = Over(daoRow, runHolds[r])
          /\ UNCHANGED <<proposalItem, proposalRow, daoItem, tokenPrice>>
      BY <3>2, <3>3 DEF SaveFieldsRow
    <3>5. Kept(r) /\ runStep'[r] = "idle"
      BY <2>1, <3>4, EndsEffect
    <3>6. /\ indexStep = "idle" /\ \A q \in Runs \ {r} : runStep[q] = "idle"
          /\ LoadInv("saveRow", runHolds[r])
      BY <3>4, AggregationAssumption DEF LoneInv
    <3>7. indexStep' = "idle" /\ \A q \in Runs : runStep'[q] = "idle"
      BY <2>1, <3>5, <3>6 DEF Kept, indexVars
    <3>8. RowsRepaired /\ ComputedInv(runHolds[r]) /\ ComputedInv(daoItem)
      BY <3>6 DEF LoadInv
    <3>9. DOMAIN runHolds[r] = AllFields
      BY <3>4, RunTypes DEF HoldsType, FieldsOf
    <3>10. PICK row, item : row = Over(daoRow, runHolds[r]) /\ item = daoItem
      OBVIOUS
    <3>11. ComputedInv(row) /\ ComputedInv(item)
      BY <3>8, <3>9, <3>10 DEF ComputedInv, Over, AllFields
    <3>12. contract' = contract /\ allowed' = allowed
      <4>1. ~JobFails(r)
        BY <3>2 DEF JobFails
      <4> QED
        BY <1>3, <2>3, <4>1, RunFrame DEF chainVars
    <3>13. RowsRepaired' /\ ComputedInv(row)' /\ ComputedInv(item)'
      BY <3>4, <3>8, <3>11, <3>12, ShownKept
    <3>14. ComputedInv(daoRow)' /\ ComputedInv(daoItem)'
      BY <3>4, <3>10, <3>13 DEF ComputedInv
    <3> QED
      BY <3>7, <3>13, <3>14 DEF RepairedInv
  <2> QED
    BY <2>2, <2>3
<1> QED
  BY <1>1, <1>2, <1>3

-----------------------------------------------------------------------------
(* The invariant                                                           *)

LEMMA AggregationStarts ==
  ASSUME AggregationInit PROVE AggregationInv
<1> USE DEF AggregationInit
<1>1. StoresType
  <2>1. NoCounts \in DaoRecords
    BY DEF NoCounts, DaoRecords, DaoStatuses
  <2>2. <<>> \in Partly(Numbers, ProposalItems) /\ <<>> \in Partly(Numbers, ProposalRows)
    BY PartlyFacts
  <2>3. <<>> \in Seq(News)
    OBVIOUS
  <2> QED
    BY <2>1, <2>2, <2>3, AggregationAssumption DEF StoresType
<1>2. IndexType /\ CacheType
  <2>1. DOMAIN responses = {}
    OBVIOUS
  <2>2. IndexType
    BY DEF IndexType
  <2>3. CacheType
    BY <2>1 DEF CacheType
  <2> QED
    BY <2>2, <2>3
<1>3. RunsType
  BY DEF RunsType, RunType
<1>4. FlagsInv
  <2>1. \A j \in Flags : Working(j) = {}
    BY AggregationAssumption DEF Working, Jobs
  <2> QED
    BY <2>1 DEF FlagsInv
<1>5. FreshInv
  BY DEF FreshInv
<1>6. NumbersInv
  <2>1. 0 \in 0 .. MaxNumber /\ \A p \in Numbers : contract[p] # "none" <=> p < 0
    BY AggregationAssumption DEF Numbers
  <2> QED
    BY <2>1 DEF NumbersInv
<1>7. LoneInv /\ RepairedInv
  BY DEF LoneInv, RepairedInv
<1> QED
  BY <1>1, <1>2, <1>3, <1>4, <1>5, <1>6, <1>7 DEF AggregationInv

LEMMA AggregationSteps ==
  ASSUME AggregationInv, [AggregationNext]_aggregationVars PROVE AggregationInv'
<1>1. CASE AggregationNext
  BY <1>1, StoresNext, IndexNext, CacheNext, RunsNext, FlagsNext, FreshNext, NumbersNext,
     LoneNext, RepairedNext DEF AggregationInv
<1>2. CASE UNCHANGED aggregationVars
  <2> USE <1>2 DEF aggregationVars, chainVars, rowVars, runVars, indexVars, visitVars, loneVars,
        freshVars, AggregationInv
  <2>1. StoresType'
    BY DEF StoresType
  <2>2. RunsType'
    BY DEF RunsType, RunType
  <2>7. IndexType' /\ NumbersInv'
    BY DEF IndexType, NumbersInv
  <2>8. CacheType'
    BY DEF CacheType
  <2>3. FlagsInv'
    BY DEF FlagsInv, Working
  <2>4. FreshInv'
    BY DEF FreshInv, Listing
  <2>5. LoneInv'
    BY DEF LoneInv, LoadInv, RowsRepaired, RowRepaired, ItemRepaired, Existing, Existent, Added,
       ComputedInv, Counts, DaoStatus
  <2>6. RepairedInv'
    BY DEF RepairedInv, RowsRepaired, RowRepaired, ItemRepaired, Existing, ComputedInv, Counts,
       DaoStatus
  <2> QED
    BY <2>1, <2>2, <2>3, <2>4, <2>5, <2>6, <2>7, <2>8
<1> QED
  BY <1>1, <1>2

\* The inductive invariant of the aggregator: the types of what the stores, the
\* cache, the indexer and the runs hold; the flags and who works under them; what
\* is cached when nothing was written since the keys were listed; the numbers of
\* the contract; and how far a run that nothing overlaps has repaired the DAO.
THEOREM AggregationInvariant == AggregationSpec => []AggregationInv
<1>1. AggregationInit => AggregationInv
  BY AggregationStarts
<1>2. AggregationInv /\ [AggregationNext]_aggregationVars => AggregationInv'
  BY AggregationSteps
<1> QED
  BY <1>1, <1>2, PTL DEF AggregationSpec

\* For any number of runs, two runs of one job never work at a time, and the
\* flag of a job is set exactly while one works, until a failure of the statistics
\* after their flag was cleared (AggregatorService).
THEOREM JobsAreExclusive == AggregationSpec => []JobsExclusive
<1>1. AggregationInv => JobsExclusive
  <2> SUFFICES ASSUME AggregationInv, ~flagLost, NEW j \in Flags
               PROVE  /\ Cardinality(Working(j)) <= 1
                      /\ j \in inProgress <=> Working(j) # {}
    BY DEF JobsExclusive
  <2>1. /\ \A r, q \in Working(j) : r = q
        /\ j \in inProgress <=> Working(j) # {}
    BY DEF AggregationInv, FlagsInv
  <2>2. CASE Working(j) = {}
    BY <2>1, <2>2, FS_EmptySet
  <2>3. CASE Working(j) # {}
    <3>1. PICK r : Working(j) = {r}
      BY <2>1, <2>3
    <3>2. Cardinality({r}) = 1
      BY FS_Singleton
    <3>3. Cardinality(Working(j)) <= 1
      BY <3>1, <3>2
    <3> QED
      BY <2>1, <3>3
  <2> QED
    BY <2>2, <2>3
<1> QED
  BY <1>1, AggregationInvariant, PTL

\* For any number of visitors, runs and proposals, a cached list of proposals asked
\* for with a query shows the rows, once its keys were cleared after the last row was written and
\* unless a response read before that was stored after it (handleProposalCache,
\* HttpCacheInterceptor).
THEOREM ResponsesAreFresh == AggregationSpec => []ResponsesFresh
<1>1. AggregationInv => ResponsesFresh
  BY DEF AggregationInv, FreshInv, ResponsesFresh
<1> QED
  BY <1>1, AggregationInvariant, PTL

\* For any number of proposals and any size of the chunks, a run of
\* aggregateDaoById that nothing overlaps and of which nothing fails leaves the
\* rows, the items and the DAO in both stores as the contract is.
THEOREM AggregationAlwaysRepairs == AggregationSpec => []AggregationRepairs
<1>1. AggregationInv => AggregationRepairs
  <2> SUFFICES ASSUME AggregationInv, repaired PROVE AggregationRepairs
    BY DEF AggregationRepairs
  <2>1. RowsRepaired /\ ComputedInv(daoItem) /\ ComputedInv(daoRow)
    BY DEF AggregationInv, RepairedInv
  <2>2. daoItem \in DaoRecords /\ daoRow \in DaoRecords
    BY DEF AggregationInv, StoresType
  <2>3. Counts = [total |-> Counts.total, active |-> Counts.active]
    BY DEF Counts
  <2>4. \A dao \in {daoItem, daoRow} :
          /\ dao.total = Counts.total /\ dao.active = Counts.active
          /\ dao.status = DaoStatus /\ dao.funds = tokenPrice
    BY <2>1, <2>2 DEF ComputedInv, DaoRecords
  <2>5. /\ DOMAIN proposalRow = Existing(contract)
        /\ \A p \in Existing(contract) :
             /\ proposalRow[p].status = contract[p]
             /\ proposalItem[p] = [status |-> contract[p], archived |-> FALSE]
    BY <2>1 DEF RowsRepaired, RowRepaired, ItemRepaired
  <2> QED
    BY <2>3, <2>4, <2>5 DEF AggregationRepairs
<1> QED
  BY <1>1, AggregationInvariant, PTL

(***************************************************************************)
(* Accounts                                                                *)
(***************************************************************************)
Addresses == Emails \cup Phones

\* Some of the fields of an account.
AccountFields(h) ==
  /\ DOMAIN h \subseteq Fields
  /\ \A c \in Channels \cap DOMAIN h :
       h[c] \in [to : AddressesOf(c), verified : BOOLEAN] \cup {Null}
  /\ "alert" \in DOMAIN h => h["alert"] \in Nat \cup {Null}

WholeAccount(h) == DOMAIN h = Fields /\ AccountFields(h)

\* A code kept for the address a.
KeptFor(a, kept) == kept = Null \/ (kept.code \in DOMAIN codes /\ codes[kept.code].address = a)

AccountStores ==
  /\ AccountFields(accountItem) /\ WholeAccount(accountRow)
  /\ codeItem = [a \in Addresses |-> codeItem[a]] /\ codeRow = [a \in Addresses |-> codeRow[a]]
  /\ \A a \in Addresses : KeptFor(a, codeItem[a]) /\ KeptFor(a, codeRow[a])
  /\ lastAlert \in Nat /\ alerts = [n \in DOMAIN alerts |-> alerts[n]]

CodesType ==
  /\ Cardinality(DOMAIN codes) \in Nat /\ DOMAIN codes = 1 .. Cardinality(DOMAIN codes)
  /\ codes \in [DOMAIN codes -> [address : Addresses, delivered : SUBSET Addresses]]
  /\ entered \subseteq DOMAIN codes
  /\ agreed \in BOOLEAN /\ disturbed \in BOOLEAN

Writes == {"saveItem", "saveRow"}
AlertSteps == {"createUser", "deleteAlert", "createAlert"}

\* The steps of a request, and what it holds.
SettingType(t) ==
  LET fields == saving[t].fields
      next == saving[t].next
  IN
  /\ step[t] \in Writes \cup AlertSteps \cup {"readRow"}
  /\ step[t] \in Writes =>
       /\ next \in {"readRow", "createAlert", "deleteAlert", "end"}
       /\ IF next = "readRow" THEN /\ AccountFields(fields) /\ DOMAIN fields \subseteq Channels
                                   /\ \A c \in DOMAIN fields : fields[c] # Null
                                                               /\ ~fields[c].verified
          ELSE WholeAccount(fields) /\ found[t] = fields
       /\ next = "createAlert" => fields["alert"] \in {Null, 0}
       /\ next \in {"deleteAlert", "end"} => fields["alert"] \notin {Null, 0}
  /\ step[t] \in AlertSteps =>
       /\ WholeAccount(found[t])
       /\ step[t] = "createAlert" => found[t]["alert"] \in {Null, 0}
       /\ step[t] = "deleteAlert" => found[t]["alert"] \notin {Null, 0}

SendingType(t) ==
  LET c == request[t].channel IN
  /\ c \in Channels
  /\ step[t] \in {"find", "keepItem", "keepRow", "deliver"}
  /\ step[t] = "keepItem" => /\ AccountFields(found[t].account)
                             /\ c \in DOMAIN found[t].account /\ found[t].account[c] # Null
  /\ step[t] \in {"keepRow", "deliver"} =>
       /\ found[t].address \in AddressesOf(c)
       /\ found[t].code.code \in DOMAIN codes
       /\ codes[found[t].code.code].address = found[t].address

VerifyingType(t) ==
  /\ request[t].channel \in Channels /\ request[t].code \in entered
  /\ step[t] \in Writes \cup {"find"}
  /\ step[t] \in Writes => saving[t].next = "end" /\ AccountFields(saving[t].fields)

ThreadType(t) ==
  step[t] # "idle" => \/ request[t].kind = "set" /\ SettingType(t)
                      \/ request[t].kind = "send" /\ SendingType(t)
                      \/ request[t].kind = "verify" /\ VerifyingType(t)

ThreadsType ==
  /\ step = [t \in AccountThreads |-> step[t]] /\ request = [t \in AccountThreads |-> request[t]]
  /\ found = [t \in AccountThreads |-> found[t]] /\ saving = [t \in AccountThreads |-> saving[t]]
  /\ \A t \in AccountThreads : ThreadType(t)

\* A request that is alone, or that no other has disturbed, is the only one.
AloneInv ==
  /\ alone # Null => alone \in AccountThreads /\ Busy \subseteq {alone}
  /\ agreed /\ Busy # {} => alone # Null
  /\ ~disturbed => agreed

\* A field is the same in both stores.
SameField(f) == accountRow[f] = IF f \in DOMAIN accountItem THEN accountItem[f] ELSE Null

SavedItem(t) ==
  \A f \in DOMAIN saving[t].fields : f \in DOMAIN accountItem /\ accountItem[f] = saving[t].fields[f]

\* The stores agree but for what is being saved.
AgreeInv ==
  /\ agreed => \A f \in Fields :
       \/ SameField(f)
       \/ \E t \in AccountThreads : step[t] = "saveRow" /\ f \in DOMAIN saving[t].fields
  /\ \A t \in AccountThreads : alone = t /\ step[t] = "saveRow" => SavedItem(t)

AlertHeld(n) == DOMAIN alerts = IF n \in {Null, 0} THEN {} ELSE {n}

TargetsOf(h) == {h[c].to : c \in {c \in Channels : h[c] # Null}}

\* Notifi holds one alert of the account, with its addresses.
AlertShown(h) ==
  /\ AlertHeld(h["alert"])
  /\ IF h["alert"] \in {Null, 0} THEN \A c \in Channels : h[c] = Null
     ELSE alerts[h["alert"]] = TargetsOf(h)

\* The same account but for flags.
SameAddress(h, f) == IF f \in Channels
                       THEN /\ h[f] = Null <=> accountRow[f] = Null
                            /\ h[f] # Null => h[f].to = accountRow[f].to
                       ELSE h[f] = accountRow[f]

\* What Notifi holds while one request is served after the other.
AlertInv(t) ==
  LET k == request[t].kind
      c == request[t].channel
      next == saving[t].next
  IN
  /\ (k = "set" /\ (step[t] = "readRow" \/ (step[t] \in Writes /\ next = "readRow"))) =>
       AlertHeld(accountRow["alert"])
  /\ (k = "set" /\ (step[t] \in AlertSteps
                    \/ (step[t] \in Writes /\ next \in {"createAlert", "deleteAlert"}))) =>
       AlertHeld(found[t]["alert"])
  /\ (k = "set" /\ step[t] \in Writes /\ next = "end") => AlertShown(found[t])
  /\ k # "set" => AlertShown(accountRow)
  /\ (k = "send" /\ step[t] = "keepItem") => SameAddress(found[t].account, c)
  /\ (k = "send" /\ step[t] \in {"keepRow", "deliver"}) =>
       accountRow[c] # Null /\ accountRow[c].to = found[t].address
  /\ (k = "verify" /\ step[t] \in Writes) =>
       \A f \in DOMAIN saving[t].fields : SameAddress(saving[t].fields, f)

Confirmed ==
  {a \in Addresses : \E k \in entered : codes[k].address = a /\ codes[k].delivered = {a}}

\* Flags are shown for confirmed addresses only, wherever they travel.
FlagsShown ==
  /\ VerifiedIn(accountItem) \subseteq Confirmed /\ VerifiedIn(accountRow) \subseteq Confirmed
  /\ \A t \in Busy : /\ step[t] \in Writes => VerifiedIn(saving[t].fields) \subseteq Confirmed
                     /\ step[t] \in AlertSteps => VerifiedIn(found[t]) \subseteq Confirmed

SoloInv ==
  ~disturbed =>
    /\ Busy = {} => AlertShown(accountRow)
    /\ \A t \in Busy : AlertInv(t)
    /\ \A k \in DOMAIN codes : codes[k].delivered \in {{}, {codes[k].address}}
    /\ \A k \in entered : codes[k].delivered # {}
    /\ FlagsShown

AccountInv ==
  /\ AccountStores /\ CodesType /\ ThreadsType
  /\ AloneInv /\ AgreeInv
  /\ SoloInv

-----------------------------------------------------------------------------
(* What the fields of an account are                                       *)

LEMMA FieldsOver ==
  ASSUME NEW f, NEW g, AccountFields(f), AccountFields(g)
  PROVE  AccountFields(Over(f, g))
BY DEF AccountFields, Over

LEMMA FieldsUser ==
  ASSUME NEW h, WholeAccount(h)
  PROVE  WholeAccount(Upsert(h, "user", TRUE))
BY DEF WholeAccount, AccountFields, Upsert, Fields, Channels

LEMMA FieldsAlert ==
  ASSUME NEW h, NEW n \in Nat, WholeAccount(h)
  PROVE  WholeAccount(Upsert(h, "alert", n))
BY DEF WholeAccount, AccountFields, Upsert, Fields, Channels

LEMMA FieldsVerified ==
  ASSUME NEW h, NEW c \in Channels, NEW v \in [to : AddressesOf(c), verified : BOOLEAN],
         AccountFields(h)
  PROVE  AccountFields(Upsert(h, c, v))
BY DEF AccountFields, Upsert, Fields, Channels

\* The account that is found has the address that is asked for.
LEMMA AddressFound ==
  ASSUME AccountStores, NEW c \in Channels, AddressIn(Account, c) # Null
  PROVE  /\ AccountFields(Account) /\ c \in DOMAIN Account
         /\ AddressIn(Account, c) = Account[c]
         /\ Account[c] \in [to : AddressesOf(c), verified : BOOLEAN]
         /\ Account[c].to \in Addresses
<1>1. AccountFields(Account)
  BY DEF AccountStores, Account, WholeAccount
<1>2. c \in DOMAIN Account /\ Account[c] # Null /\ AddressIn(Account, c) = Account[c]
  BY DEF AddressIn
<1>3. Account[c] \in [to : AddressesOf(c), verified : BOOLEAN]
  BY <1>1, <1>2 DEF AccountFields
<1>4. AddressesOf(c) \subseteq Addresses
  BY DEF AddressesOf, Addresses
<1> QED
  BY <1>1, <1>2, <1>3, <1>4

-----------------------------------------------------------------------------
(* What each step leaves alone                                             *)

ThreadsAre ==
  /\ step = [t \in AccountThreads |-> step[t]] /\ request = [t \in AccountThreads |-> request[t]]
  /\ found = [t \in AccountThreads |-> found[t]] /\ saving = [t \in AccountThreads |-> saving[t]]

Others(t) ==
  \A q \in AccountThreads \ {t} : /\ step'[q] = step[q] /\ request'[q] = request[q]
                                  /\ found'[q] = found[q] /\ saving'[q] = saving[q]

Asks(t) == AskSetting(t) \/ AskCode(t) \/ EnterCode(t)

Goes(t) ==
  \/ SaveItem(t) \/ SaveRow(t)
  \/ ReadRow(t) \/ CreateUser(t) \/ DeleteAlert(t) \/ AlertGone(t) \/ CreateAlert(t)
  \/ FindAccount(t) \/ KeepItem(t) \/ KeepRow(t) \/ Deliver(t)
  \/ CutShort(t)

Timers == FindExpired \/ DeleteItems \/ DeleteRows \/ AccountTick

LEMMA AsksEffect ==
  ASSUME ThreadsAre, NEW t \in AccountThreads, Asks(t)
  PROVE  /\ step[t] = "idle" /\ UNCHANGED <<stores, notifi, codes>>
         /\ disturbed' = (disturbed \/ Busy # {}) /\ agreed' = (agreed /\ Busy = {})
         /\ alone' = (IF Busy = {} THEN t ELSE Null)
         /\ entered \subseteq entered'
         /\ entered' \subseteq entered \cup {k \in DOMAIN codes : codes[k].delivered # {}}
         /\ ThreadsAre' /\ Others(t) /\ found'[t] = found[t]
<1>1. CASE AskSetting(t)
  <2>1. PICK r, fields : Accept(t, "saveItem", r) /\ Saving(t, fields, "readRow")
    BY <1>1 DEF AskSetting
  <2> QED
    BY <1>1, <2>1 DEF AskSetting, Accept, Saving, ThreadsAre, Others
<1>2. CASE AskCode(t)
  BY <1>2 DEF AskCode, Accept, ThreadsAre, Others
<1>3. CASE EnterCode(t)
  BY <1>3 DEF EnterCode, Accept, ThreadsAre, Others
<1> QED
  BY <1>1, <1>2, <1>3 DEF Asks

LEMMA FinishEffect ==
  ASSUME ThreadsAre, NEW t \in AccountThreads, Finish(t)
  PROVE  ThreadsAre' /\ Others(t) /\ step'[t] = "idle"
BY DEF Finish, ThreadsAre, Others

LEMMA SaveWholeEffect ==
  ASSUME ThreadsAre, NEW t \in AccountThreads, NEW account, NEW next, SaveWhole(t, account, next)
  PROVE  /\ ThreadsAre' /\ Others(t) /\ step'[t] = "saveItem" /\ request' = request
         /\ found'[t] = account /\ saving'[t] = [fields |-> account, next |-> next]
         /\ UNCHANGED <<alone, agreed>>
BY DEF SaveWhole, Saving, GoOn, ThreadsAre, Others

LEMMA GoesEffect ==
  ASSUME ThreadsAre, NEW t \in AccountThreads, Goes(t)
  PROVE  /\ ThreadsAre' /\ Others(t) /\ step[t] # "idle"
         /\ accountItem' = accountItem \/ SaveItem(t)
         /\ accountRow' = accountRow \/ SaveRow(t)
         /\ codeItem' = codeItem \/ KeepItem(t)
         /\ codeRow' = codeRow \/ KeepRow(t)
         /\ codes' = codes \/ KeepItem(t) \/ Deliver(t)
         /\ alerts' = alerts \/ DeleteAlert(t) \/ CreateAlert(t)
         /\ lastAlert' = lastAlert \/ CreateAlert(t)
         /\ entered' = entered /\ alone' = alone
         /\ agreed' = agreed \/ SaveRow(t) \/ CutShort(t)
         /\ disturbed' = disturbed \/ CutShort(t)
         /\ step'[t] = "idle" \/ request' = request
<1>1. CASE SaveItem(t)
  BY <1>1 DEF SaveItem, GoOn, ThreadsAre, Others, notifi
<1>2. CASE SaveRow(t)
  <2>1. CASE saving[t].next = "end"
    BY <1>2, <2>1, FinishEffect DEF SaveRow, notifi
  <2>2. CASE saving[t].next # "end"
    BY <1>2, <2>2 DEF SaveRow, GoOn, ThreadsAre, Others, notifi
  <2> QED
    BY <2>1, <2>2
<1>3. CASE ReadRow(t)
  BY <1>3 DEF ReadRow, GoOn, ThreadsAre, Others, stores, notifi
<1>4. CASE CreateUser(t) \/ DeleteAlert(t) \/ CreateAlert(t)
  <2>1. \E account, next : SaveWhole(t, account, next)
    BY <1>4 DEF CreateUser, DeleteAlert, CreateAlert
  <2> QED
    BY <1>4, <2>1, SaveWholeEffect DEF CreateUser, DeleteAlert, CreateAlert, stores
<1>5. CASE AlertGone(t)
  BY <1>5, FinishEffect DEF AlertGone, stores, notifi, ghosts
<1>6. CASE FindAccount(t)
  <2>1. \/ Finish(t) /\ UNCHANGED <<alone, agreed>>
        \/ \E account, next : SaveWhole(t, account, next)
        \/ \E h : /\ found' = [found EXCEPT ![t] = h]
                  /\ GoOn(t, "keepItem") /\ UNCHANGED saving
    BY <1>6 DEF FindAccount
  <2>2. /\ step[t] = "find"
        /\ UNCHANGED <<stores, notifi, codes, entered, disturbed>>
    BY <1>6 DEF FindAccount
  <2>3. CASE Finish(t) /\ UNCHANGED <<alone, agreed>>
    BY <2>2, <2>3, FinishEffect DEF stores, notifi
  <2>4. CASE \E account, next : SaveWhole(t, account, next)
    BY <2>2, <2>4, SaveWholeEffect DEF stores, notifi
  <2>5. CASE \E h : /\ found' = [found EXCEPT ![t] = h]
                    /\ GoOn(t, "keepItem") /\ UNCHANGED saving
    BY <2>2, <2>5 DEF GoOn, ThreadsAre, Others, stores, notifi
  <2> QED
    BY <2>1, <2>3, <2>4, <2>5
<1>7. CASE KeepItem(t)
  <2>1. \E h : found' = [found EXCEPT ![t] = h]
    BY <1>7 DEF KeepItem
  <2> QED
    BY <1>7, <2>1 DEF KeepItem, GoOn, ThreadsAre, Others, notifi
<1>8. CASE KeepRow(t)
  BY <1>8 DEF KeepRow, GoOn, ThreadsAre, Others, notifi
<1>9. CASE Deliver(t)
  <2>1. Finish(t) /\ step[t] = "deliver"
    BY <1>9 DEF Deliver
  <2> QED
    BY <1>9, <2>1, FinishEffect DEF Deliver, stores, notifi
<1>10. CASE CutShort(t)
  BY <1>10, FinishEffect DEF CutShort, stores, notifi
<1> QED
  BY <1>1, <1>2, <1>3, <1>4, <1>5, <1>6, <1>7, <1>8, <1>9, <1>10 DEF Goes

LEMMA TimersEffect ==
  ASSUME Timers
  PROVE  /\ UNCHANGED <<accountItem, accountRow, notifi, serving, ghosts>>
         /\ codeItem' = codeItem \/ codeItem' = [a \in Addresses |-> IF a \in purging THEN Null
                                                                     ELSE codeItem[a]]
         /\ codeRow' = codeRow \/ codeRow' = [a \in Addresses |-> IF Expired(codeRow[a]) THEN Null
                                                                  ELSE codeRow[a]]
BY DEF Timers, FindExpired, DeleteItems, DeleteRows, AccountTick, stores, Addresses

-----------------------------------------------------------------------------
(* Types                                                                   *)

\* What a request does, by its kind.
LEMMA ThreadTypes ==
  ASSUME ThreadsType, NEW t \in AccountThreads
  PROVE  /\ ThreadsAre
         /\ step[t] # "idle" => /\ request[t].kind \in {"set", "send", "verify"}
                                /\ request[t].kind = "set" => SettingType(t)
                                /\ request[t].kind = "send" => SendingType(t)
                                /\ request[t].kind = "verify" => VerifyingType(t)
BY DEF ThreadsType, ThreadsAre, ThreadType

\* A request that keeps a code, and one that delivers it.
LEMMA KeepTypes ==
  ASSUME AccountStores, ThreadsType, NEW t \in AccountThreads,
         step[t] \in {"keepItem", "keepRow", "deliver"}
  PROVE  /\ request[t].kind = "send" /\ request[t].channel \in Channels
         /\ step[t] = "keepItem" =>
              /\ found[t].account[request[t].channel].to \in AddressesOf(request[t].channel)
              /\ found[t].account[request[t].channel].to \in Addresses
         /\ step[t] \in {"keepRow", "deliver"} =>
              /\ found[t].address \in Addresses
              /\ found[t].code.code \in DOMAIN codes
              /\ codes[found[t].code.code].address = found[t].address
<1>1. request[t].kind = "send" /\ SendingType(t)
  BY ThreadTypes DEF SettingType, VerifyingType, Writes, AlertSteps
<1>2. \A c \in Channels : AddressesOf(c) \subseteq Addresses
  BY DEF AddressesOf, Addresses
<1>3. CASE step[t] = "keepItem"
  <2> DEFINE c == request[t].channel
             h == found[t].account
  <2>1. AccountFields(h) /\ c \in Channels /\ c \in DOMAIN h /\ h[c] # Null
    BY <1>1, <1>3 DEF SendingType
  <2>2. h[c] \in [to : AddressesOf(c), verified : BOOLEAN]
    BY <2>1 DEF AccountFields
  <2> QED
    BY <1>1, <1>2, <1>3, <2>1, <2>2
<1>4. CASE step[t] # "keepItem"
  BY <1>1, <1>2, <1>4 DEF SendingType
<1> QED
  BY <1>3, <1>4

LEMMA FunctionInto ==
  ASSUME NEW f, NEW S, f = [x \in DOMAIN f |-> f[x]], \A x \in DOMAIN f : f[x] \in S
  PROVE  f \in [DOMAIN f -> S]
OBVIOUS

LEMMA CodesNext ==
  ASSUME AccountStores, CodesType, ThreadsType, AccountNext
  PROVE  /\ CodesType' /\ DOMAIN codes \subseteq DOMAIN codes' /\ entered \subseteq entered'
         /\ \A k \in DOMAIN codes : codes'[k].address = codes[k].address
         /\ \A k \in DOMAIN codes' \ DOMAIN codes : codes'[k].delivered = {}
<1>0. ThreadsAre
  BY DEF ThreadsType, ThreadsAre
<1>1. ASSUME NEW t \in AccountThreads, KeepItem(t)
      PROVE  /\ CodesType' /\ DOMAIN codes \subseteq DOMAIN codes' /\ entered \subseteq entered'
             /\ \A k \in DOMAIN codes : codes'[k].address = codes[k].address
             /\ \A k \in DOMAIN codes' \ DOMAIN codes : codes'[k].delivered = {}
  <2> DEFINE a == found[t].account[request[t].channel].to
             k == Cardinality(DOMAIN codes) + 1
             new == [address |-> a, delivered |-> {}]
  <2>1. step[t] = "keepItem" /\ codes' = Upsert(codes, k, new) /\ entered' = entered
        /\ agreed' = agreed /\ disturbed' = disturbed
    BY <1>1 DEF KeepItem, GoOn
  <2>2. a \in Addresses
    BY <2>1, KeepTypes
  <2>3. new \in [address : Addresses, delivered : SUBSET Addresses]
    BY <2>2
  <2>4. PICK n \in Nat : n = Cardinality(DOMAIN codes) /\ DOMAIN codes = 1 .. n
    BY DEF CodesType
  <2>5. k = n + 1
    BY <2>4
  <2>14. k \notin DOMAIN codes
    <3>1. n + 1 \notin 1 .. n
      OBVIOUS
    <3> HIDE DEF k
    <3> QED
      BY <2>4, <2>5, <3>1
  <2>6. DOMAIN codes' = 1 .. n + 1
    <3>1. DOMAIN codes' = DOMAIN codes \cup {k}
      BY <2>1 DEF Upsert
    <3>2. 1 .. n + 1 = 1 .. n \cup {n + 1}
      OBVIOUS
    <3> QED
      BY <2>4, <2>5, <3>1, <3>2
  <2>7. Cardinality(1 .. n + 1) = n + 1
    BY FS_Interval
  <2>8. \A j \in DOMAIN codes : codes'[j] = codes[j]
    BY <2>1, <2>14 DEF Upsert
  <2>9. codes'[k] = new
    BY <2>1 DEF Upsert
  <2>10. codes' = [j \in DOMAIN codes' |-> codes'[j]]
    BY <2>1 DEF Upsert
  <2>11. DOMAIN codes' = DOMAIN codes \cup {k}
    BY <2>1 DEF Upsert
  <2> HIDE DEF new, k
  <2>12. codes' \in [DOMAIN codes' -> [address : Addresses, delivered : SUBSET Addresses]]
    BY <2>3, <2>8, <2>9, <2>10, <2>11 DEF CodesType
  <2>13. CodesType'
    BY <2>1, <2>6, <2>7, <2>8, <2>11, <2>12 DEF CodesType
  <2>15. /\ DOMAIN codes \subseteq DOMAIN codes' /\ entered \subseteq entered'
         /\ \A i \in DOMAIN codes : codes'[i].address = codes[i].address
    BY <2>1, <2>8, <2>11
  <2>16. \A i \in DOMAIN codes' \ DOMAIN codes : codes'[i].delivered = {}
    BY <2>9, <2>11 DEF new
  <2> QED
    BY <2>13, <2>15, <2>16
<1>2. ASSUME NEW t \in AccountThreads, Deliver(t)
      PROVE  /\ CodesType' /\ DOMAIN codes \subseteq DOMAIN codes' /\ entered \subseteq entered'
             /\ \A k \in DOMAIN codes : codes'[k].address = codes[k].address
             /\ \A k \in DOMAIN codes' \ DOMAIN codes : codes'[k].delivered = {}
  <2> DEFINE j == found[t].code.code
             c == request[t].channel
  <2>1. /\ step[t] = "deliver" /\ entered' = entered
        /\ agreed' = agreed /\ disturbed' = disturbed
        /\ codes' = codes \/ codes' = [codes EXCEPT ![j].delivered = Targets(c)]
    BY <1>2 DEF Deliver
  <2>2. j \in DOMAIN codes /\ c \in Channels
    BY <2>1, KeepTypes
  <2>3. CASE codes' = codes
    BY <2>1, <2>3 DEF CodesType
  <2>4. CASE codes' = [codes EXCEPT ![j].delivered = Targets(c)]
    <3>1. Targets(c) \subseteq Addresses
      BY <2>2 DEF Targets, AddressesOf, Addresses
    <3>2. codes'[j] = [codes[j] EXCEPT !.delivered = Targets(c)]
          /\ DOMAIN codes' = DOMAIN codes
          /\ \A k \in DOMAIN codes \ {j} : codes'[k] = codes[k]
      BY <2>2, <2>4 DEF CodesType
    <3>3. codes'[j] \in [address : Addresses, delivered : SUBSET Addresses]
          /\ codes'[j].address = codes[j].address
      BY <2>2, <3>1, <3>2 DEF CodesType
    <3>4. codes' \in [DOMAIN codes' -> [address : Addresses, delivered : SUBSET Addresses]]
      <4>1. PICK g : g = codes'
        OBVIOUS
      <4>2. \A k \in DOMAIN g : g[k] \in [address : Addresses, delivered : SUBSET Addresses]
        BY <3>2, <3>3, <4>1 DEF CodesType
      <4>3. g = [k \in DOMAIN g |-> g[k]]
        BY <2>4, <4>1
      <4>4. g \in [DOMAIN g -> [address : Addresses, delivered : SUBSET Addresses]]
        BY <4>2, <4>3, FunctionInto
      <4> QED
        BY <4>1, <4>4
    <3>5. /\ DOMAIN codes \subseteq DOMAIN codes' /\ entered \subseteq entered'
          /\ \A k \in DOMAIN codes : codes'[k].address = codes[k].address
      BY <2>1, <3>2, <3>3
    <3>7. CodesType'
      BY <2>1, <3>2, <3>4 DEF CodesType
    <3> QED
      BY <3>2, <3>5, <3>7
  <2> QED
    BY <2>1, <2>3, <2>4
<1>3. CASE ~\E t \in AccountThreads : KeepItem(t) \/ Deliver(t)
  <2>1. CASE \E t \in AccountThreads : Asks(t)
    BY <1>0, <2>1, AsksEffect DEF CodesType
  <2>2. CASE \E t \in AccountThreads : Goes(t)
    <3>1. /\ codes' = codes /\ entered' = entered
          /\ agreed' \in BOOLEAN /\ disturbed' \in BOOLEAN
      BY <1>0, <1>3, <2>2, GoesEffect DEF CodesType, SaveRow, GoOn, CutShort
    <3> QED
      BY <3>1 DEF CodesType
  <2>3. CASE Timers
    BY <2>3, TimersEffect DEF CodesType, ghosts
  <2> QED
    BY <2>1, <2>2, <2>3 DEF AccountNext, Asks, Goes, Timers
<1> QED
  BY <1>1, <1>2, <1>3


\* What a request writes are fields of an account.
LEMMA WriteTypes ==
  ASSUME ThreadsType, NEW t \in AccountThreads, step[t] \in Writes
  PROVE  /\ AccountFields(saving[t].fields)
         /\ \/ request[t].kind = "set" /\ SettingType(t)
            \/ request[t].kind = "verify" /\ VerifyingType(t)
<1>1. step[t] # "idle"
  BY DEF Writes
<1>2. \/ request[t].kind = "set" /\ SettingType(t)
      \/ request[t].kind = "verify" /\ VerifyingType(t)
  BY <1>1, ThreadTypes DEF SendingType, Writes
<1>3. SettingType(t) => AccountFields(saving[t].fields)
  BY DEF SettingType, WholeAccount
<1>4. VerifyingType(t) => AccountFields(saving[t].fields)
  BY DEF VerifyingType
<1> QED
  BY <1>2, <1>3, <1>4

\* A request that makes the alert again.
LEMMA AlertTypes ==
  ASSUME ThreadsType, NEW t \in AccountThreads, step[t] \in AlertSteps
  PROVE  /\ request[t].kind = "set" /\ WholeAccount(found[t])
         /\ found[t]["alert"] \in Nat \cup {Null}
         /\ step[t] = "createAlert" => found[t]["alert"] \in {Null, 0}
         /\ step[t] = "deleteAlert" => found[t]["alert"] \notin {Null, 0}
<1>1. request[t].kind = "set" /\ SettingType(t)
  BY ThreadTypes DEF AlertSteps, SendingType, VerifyingType, Writes
<1>2. WholeAccount(found[t])
  BY <1>1 DEF SettingType
<1>3. found[t]["alert"] \in Nat \cup {Null}
  BY <1>2 DEF WholeAccount, AccountFields, Fields
<1> QED
  BY <1>1, <1>2, <1>3 DEF SettingType

LEMMA AccountStoresNext ==
  ASSUME AccountStores, CodesType, ThreadsType, AccountNext
  PROVE  AccountStores'
<1>0. ThreadsAre
  BY DEF ThreadsType, ThreadsAre
<1>1. /\ DOMAIN codes \subseteq DOMAIN codes'
      /\ \A k \in DOMAIN codes : codes'[k].address = codes[k].address
  BY CodesNext
<1> DEFINE KeptNext(a, kept) ==
      kept = Null \/ (kept.code \in DOMAIN codes' /\ codes'[kept.code].address = a)
<1>2. \A a \in Addresses : KeptNext(a, codeItem[a]) /\ KeptNext(a, codeRow[a])
  BY <1>1 DEF AccountStores, KeptFor
<1>3. AccountFields(accountItem)' /\ WholeAccount(accountRow)'
  <2>1. CASE UNCHANGED <<accountItem, accountRow>>
    BY <2>1 DEF AccountStores, AccountFields, WholeAccount
  <2>2. ASSUME NEW t \in AccountThreads, SaveItem(t)
        PROVE  AccountFields(accountItem)' /\ WholeAccount(accountRow)'
    <3>1. accountItem' = Over(accountItem, saving[t].fields) /\ accountRow' = accountRow
          /\ step[t] \in Writes
      BY <2>2 DEF SaveItem, ItemAfter, Writes
    <3>2. AccountFields(Over(accountItem, saving[t].fields))
      BY <3>1, WriteTypes, FieldsOver DEF AccountStores
    <3> QED
      BY <3>1, <3>2 DEF AccountStores, AccountFields, WholeAccount
  <2>3. ASSUME NEW t \in AccountThreads, SaveRow(t)
        PROVE  AccountFields(accountItem)' /\ WholeAccount(accountRow)'
    <3>1. accountRow' = Over(accountRow, saving[t].fields) /\ accountItem' = accountItem
          /\ step[t] \in Writes
      BY <2>3 DEF SaveRow, Writes
    <3>2. AccountFields(Over(accountRow, saving[t].fields))
      BY <3>1, WriteTypes, FieldsOver DEF AccountStores, WholeAccount
    <3>3. DOMAIN Over(accountRow, saving[t].fields) = Fields
      <4>1. DOMAIN saving[t].fields \subseteq Fields
        BY <3>1, WriteTypes DEF AccountFields
      <4> QED
        BY <4>1 DEF Over, AccountStores, WholeAccount
    <3> QED
      BY <3>1, <3>2, <3>3 DEF AccountStores, AccountFields, WholeAccount
  <2>4. CASE ~\E t \in AccountThreads : SaveItem(t) \/ SaveRow(t)
    <3>1. UNCHANGED <<accountItem, accountRow>>
      BY <1>0, <2>4, AsksEffect, GoesEffect, TimersEffect
         DEF AccountNext, Asks, Goes, Timers, stores
    <3> QED
      BY <2>1, <3>1
  <2> QED
    BY <2>2, <2>3, <2>4
<1>4. /\ codeItem' = [a \in Addresses |-> codeItem'[a]]
      /\ \A a \in Addresses : KeptNext(a, codeItem'[a])
  <2>1. CASE codeItem' = codeItem
    BY <1>2, <2>1 DEF AccountStores
  <2>2. ASSUME NEW t \in AccountThreads, KeepItem(t)
        PROVE  /\ codeItem' = [a \in Addresses |-> codeItem'[a]]
               /\ \A a \in Addresses : KeptNext(a, codeItem'[a])
    <3> DEFINE a == found[t].account[request[t].channel].to
               k == Cardinality(DOMAIN codes) + 1
    <3>1. /\ codes' = Upsert(codes, k, [address |-> a, delivered |-> {}])
          /\ codeItem' = [codeItem EXCEPT ![a] = [code |-> k, at |-> clock]]
      BY <2>2 DEF KeepItem
    <3>2. k \in DOMAIN codes' /\ codes'[k].address = a
      BY <3>1 DEF Upsert
    <3>3. KeptNext(a, [code |-> k, at |-> clock])
      BY <3>2
    <3> HIDE DEF KeptNext, a, k
    <3> QED
      BY <1>2, <3>1, <3>3 DEF AccountStores
  <2>3. CASE codeItem' = [a \in Addresses |-> IF a \in purging THEN Null ELSE codeItem[a]]
    BY <1>2, <2>3
  <2> QED
    BY <1>0, <2>1, <2>2, <2>3, AsksEffect, GoesEffect, TimersEffect
       DEF AccountNext, Asks, Goes, Timers, stores
<1>5. /\ codeRow' = [a \in Addresses |-> codeRow'[a]]
      /\ \A a \in Addresses : KeptNext(a, codeRow'[a])
  <2>1. CASE codeRow' = codeRow
    BY <1>2, <2>1 DEF AccountStores
  <2>2. ASSUME NEW t \in AccountThreads, KeepRow(t)
        PROVE  /\ codeRow' = [a \in Addresses |-> codeRow'[a]]
               /\ \A a \in Addresses : KeptNext(a, codeRow'[a])
    <3>1. /\ codeRow' = [codeRow EXCEPT ![found[t].address] = found[t].code]
          /\ step[t] = "keepRow"
      BY <2>2 DEF KeepRow
    <3>2. KeptNext(found[t].address, found[t].code)
      BY <1>1, <3>1, KeepTypes
    <3> HIDE DEF KeptNext
    <3> QED
      BY <1>2, <3>1, <3>2 DEF AccountStores
  <2>3. CASE codeRow' = [a \in Addresses |-> IF Expired(codeRow[a]) THEN Null ELSE codeRow[a]]
    BY <1>2, <2>3
  <2> QED
    BY <1>0, <2>1, <2>2, <2>3, AsksEffect, GoesEffect, TimersEffect
       DEF AccountNext, Asks, Goes, Timers, stores
<1>6. lastAlert' \in Nat /\ alerts' = [n \in DOMAIN alerts' |-> alerts'[n]]
  <2>1. CASE UNCHANGED <<alerts, lastAlert>>
    BY <2>1 DEF AccountStores
  <2>2. ASSUME NEW t \in AccountThreads, DeleteAlert(t)
        PROVE  lastAlert' \in Nat /\ alerts' = [n \in DOMAIN alerts' |-> alerts'[n]]
    BY <2>2 DEF DeleteAlert, AccountStores
  <2>3. ASSUME NEW t \in AccountThreads, CreateAlert(t)
        PROVE  lastAlert' \in Nat /\ alerts' = [n \in DOMAIN alerts' |-> alerts'[n]]
    <3>1. lastAlert' = lastAlert + 1 /\ \E targets : alerts' = Upsert(alerts, lastAlert', targets)
      BY <2>3 DEF CreateAlert
    <3> QED
      BY <3>1 DEF Upsert, AccountStores
  <2>4. CASE ~\E t \in AccountThreads : DeleteAlert(t) \/ CreateAlert(t)
    <3>1. UNCHANGED <<alerts, lastAlert>>
      BY <1>0, <2>4, AsksEffect, GoesEffect, TimersEffect
         DEF AccountNext, Asks, Goes, Timers, notifi
    <3> QED
      BY <2>1, <3>1
  <2> QED
    BY <2>2, <2>3, <2>4
<1> QED
  BY <1>3, <1>4, <1>5, <1>6 DEF AccountStores, KeptFor

\* A step of another request leaves the type of a request as it is.
LEMMA OtherThread ==
  ASSUME AccountStores, CodesType, ThreadsType, AccountNext, NEW q \in AccountThreads,
         step'[q] = step[q], request'[q] = request[q], found'[q] = found[q],
         saving'[q] = saving[q]
  PROVE  ThreadType(q)'
<1>1. /\ DOMAIN codes \subseteq DOMAIN codes' /\ entered \subseteq entered'
      /\ \A k \in DOMAIN codes : codes'[k].address = codes[k].address
  BY CodesNext
<1>2. SettingType(q) => SettingType(q)'
  BY DEF SettingType, WholeAccount, AccountFields
<1>3. SendingType(q) => SendingType(q)'
  BY <1>1 DEF SendingType, AccountFields
<1>4. VerifyingType(q) => VerifyingType(q)'
  BY <1>1 DEF VerifyingType, AccountFields
<1>5. ThreadType(q)
  BY DEF ThreadsType
<1> QED
  BY <1>2, <1>3, <1>4, <1>5 DEF ThreadType

\* A request that asks.
LEMMA AskedType ==
  ASSUME AccountStores, CodesType, ThreadsAre, NEW t \in AccountThreads, Asks(t)
  PROVE  ThreadType(t)'
<1>1. CASE AskSetting(t)
  <2>1. PICK c \in Channels : \E a \in AddressesOf(c) :
          /\ Accept(t, "saveItem", [kind |-> "set", channel |-> c, address |-> a])
          /\ Saving(t, [f \in {c} |-> NewAddress(a)], "readRow")
    BY <1>1 DEF AskSetting
  <2>2. PICK a \in AddressesOf(c) :
          /\ Accept(t, "saveItem", [kind |-> "set", channel |-> c, address |-> a])
          /\ Saving(t, [f \in {c} |-> NewAddress(a)], "readRow")
    BY <2>1
  <2> DEFINE fields == [f \in {c} |-> NewAddress(a)]
  <2>3. /\ step'[t] = "saveItem" /\ request'[t].kind = "set"
        /\ saving'[t] = [fields |-> fields, next |-> "readRow"]
    BY <2>2 DEF Accept, Saving, ThreadsAre
  <2>4. fields[c] \in [to : AddressesOf(c), verified : BOOLEAN] /\ ~fields[c].verified
    BY DEF NewAddress
  <2>5. fields[c] # Null
    BY <2>4, AccountAssumption DEF AddressesOf
  <2>6. AccountFields(fields) /\ DOMAIN fields = {c}
    BY <2>4 DEF AccountFields, Fields, Channels
  <2> HIDE DEF fields
  <2>7. SettingType(t)'
    BY <2>3, <2>4, <2>5, <2>6 DEF SettingType, AccountFields, Writes, AlertSteps
  <2> QED
    BY <2>3, <2>7 DEF ThreadType
<1>2. CASE AskCode(t)
  <2>1. PICK c \in Channels : Accept(t, "find", [kind |-> "send", channel |-> c])
    BY <1>2 DEF AskCode
  <2>2. step'[t] = "find" /\ request'[t].kind = "send" /\ request'[t].channel = c
    BY <2>1 DEF Accept, ThreadsAre
  <2>3. SendingType(t)'
    BY <2>2 DEF SendingType
  <2> QED
    BY <2>2, <2>3 DEF ThreadType
<1>3. CASE EnterCode(t)
  <2>1. PICK c \in Channels : \E k \in {k \in DOMAIN codes : codes[k].delivered # {}} :
          /\ Accept(t, "find", [kind |-> "verify", channel |-> c, code |-> k])
          /\ entered' = entered \cup {k}
    BY <1>3 DEF EnterCode
  <2>2. PICK k \in DOMAIN codes :
          /\ Accept(t, "find", [kind |-> "verify", channel |-> c, code |-> k])
          /\ entered' = entered \cup {k}
    BY <2>1
  <2>3. /\ step'[t] = "find" /\ request'[t].kind = "verify" /\ request'[t].channel = c
        /\ request'[t].code = k
    BY <2>2 DEF Accept, ThreadsAre
  <2>4. VerifyingType(t)'
    BY <2>2, <2>3 DEF VerifyingType, Writes
  <2> QED
    BY <2>3, <2>4 DEF ThreadType
<1> QED
  BY <1>1, <1>2, <1>3 DEF Asks

\* A request whose account is found.
LEMMA FoundEffect ==
  ASSUME AccountStores, ThreadsType, NEW t \in AccountThreads, FindAccount(t), step'[t] # "idle"
  PROVE  LET c == request[t].channel IN
         /\ request' = request /\ alone' = alone /\ agreed' = agreed /\ c \in Channels
         /\ AccountFields(Account) /\ c \in DOMAIN Account /\ Account[c] # Null
         /\ Account[c] \in [to : AddressesOf(c), verified : BOOLEAN]
         /\ \/ /\ request[t].kind = "send" /\ SendingType(t) /\ step'[t] = "keepItem"
               /\ found'[t].account = Account /\ saving' = saving
            \/ /\ request[t].kind = "verify" /\ VerifyingType(t) /\ step'[t] = "saveItem"
               /\ CodeFor(Account[c].to) # Null
               /\ CodeFor(Account[c].to).code = request[t].code
               /\ saving'[t].next = "end"
               /\ saving'[t].fields = Upsert(Account, c, [Account[c] EXCEPT !.verified = TRUE])
<1> DEFINE c == request[t].channel
           address == AddressIn(Account, c)
           code == CodeFor(address.to)
<1>1. ThreadsAre /\ step[t] = "find"
  BY DEF ThreadsType, ThreadsAre, FindAccount
<1>2. ~Finish(t)
  BY <1>1, FinishEffect
<1>3. /\ address # Null
      /\ \/ /\ request[t].kind = "send"
            /\ found' = [found EXCEPT ![t] = [account |-> Account, old |-> code]]
            /\ GoOn(t, "keepItem") /\ UNCHANGED saving
         \/ /\ request[t].kind = "verify" /\ code # Null /\ code.code = request[t].code
            /\ SaveWhole(t, Upsert(Account, c, [address EXCEPT !.verified = TRUE]), "end")
  BY <1>2 DEF FindAccount
<1>4. /\ request[t].kind = "send" => SendingType(t)
      /\ request[t].kind = "verify" => VerifyingType(t)
  BY <1>1, ThreadTypes
<1>5. c \in Channels
  BY <1>3, <1>4 DEF SendingType, VerifyingType
<1>6. /\ AccountFields(Account) /\ c \in DOMAIN Account /\ address = Account[c]
      /\ Account[c] \in [to : AddressesOf(c), verified : BOOLEAN]
  BY <1>3, <1>5, AddressFound
<1>7. CASE request[t].kind = "send"
  <2>1. /\ found' = [found EXCEPT ![t] = [account |-> Account, old |-> code]]
        /\ GoOn(t, "keepItem") /\ UNCHANGED saving
    BY <1>3, <1>7
  <2>2. /\ request' = request /\ alone' = alone /\ agreed' = agreed
        /\ step'[t] = "keepItem" /\ saving' = saving
    BY <1>1, <2>1 DEF GoOn, ThreadsAre
  <2>3. found'[t].account = Account
    <3> HIDE DEF code
    <3> QED
      BY <1>1, <2>1 DEF ThreadsAre
  <2> HIDE DEF address, code
  <2> QED
    BY <1>3, <1>4, <1>5, <1>6, <1>7, <2>2, <2>3
<1>8. CASE request[t].kind = "verify"
  <2>1. /\ code # Null /\ code.code = request[t].code
        /\ SaveWhole(t, Upsert(Account, c, [address EXCEPT !.verified = TRUE]), "end")
    BY <1>3, <1>8
  <2> DEFINE h == Upsert(Account, c, [address EXCEPT !.verified = TRUE])
  <2>2. /\ request' = request /\ alone' = alone /\ agreed' = agreed
        /\ step'[t] = "saveItem" /\ saving'[t] = [fields |-> h, next |-> "end"]
    <3> HIDE DEF h
    <3> QED
      BY <1>1, <2>1, SaveWholeEffect DEF h
  <2>3. saving'[t].next = "end" /\ saving'[t].fields = h
    BY <2>2
  <2>4. code = CodeFor(Account[c].to) /\ h = Upsert(Account, c, [Account[c] EXCEPT !.verified = TRUE])
    BY <1>6
  <2> HIDE DEF address, code, h
  <2> QED
    BY <1>3, <1>4, <1>5, <1>6, <1>8, <2>1, <2>2, <2>3, <2>4
<1> QED
  BY <1>3, <1>7, <1>8

\* The account saved with what Notifi answered.
LEMMA SavedWhole ==
  ASSUME ThreadsType, NEW t \in AccountThreads, NEW h, NEW next, WholeAccount(h),
         request[t].kind = "set", SaveWhole(t, h, next),
         next \in {"createAlert", "deleteAlert", "end"},
         next = "createAlert" => h["alert"] \in {Null, 0},
         next \in {"deleteAlert", "end"} => h["alert"] \notin {Null, 0}
  PROVE  ThreadType(t)'
<1>1. ThreadsAre
  BY DEF ThreadsType, ThreadsAre
<1>5. /\ step'[t] = "saveItem" /\ request' = request
      /\ found'[t] = h /\ saving'[t] = [fields |-> h, next |-> next]
  BY <1>1, SaveWholeEffect
<1>2. /\ step'[t] = "saveItem" /\ request'[t] = request[t]
      /\ found'[t] = h /\ saving'[t].fields = h /\ saving'[t].next = next
  BY <1>5
<1>3. WholeAccount(saving[t].fields)'
  BY <1>2 DEF WholeAccount, AccountFields
<1>4. SettingType(t)'
  BY <1>2, <1>3 DEF SettingType, Writes, AlertSteps
<1> QED
  BY <1>2, <1>4 DEF ThreadType

LEMMA GoneType ==
  ASSUME AccountStores, CodesType, ThreadsType, AccountNext, NEW t \in AccountThreads, Goes(t)
  PROVE  ThreadType(t)'
<1>0. ThreadsAre /\ step[t] # "idle" /\ ThreadType(t)
  BY GoesEffect DEF ThreadsType, ThreadsAre
<1>1. CASE step'[t] = "idle"
  BY <1>1 DEF ThreadType
<1> SUFFICES ASSUME step'[t] # "idle"
             PROVE  ThreadType(t)'
  BY <1>1
<1>2. CASE SaveItem(t)
  <2>1. /\ step[t] = "saveItem" /\ step'[t] = "saveRow" /\ UNCHANGED <<request, found, saving, entered>>
        /\ codes' = codes
    BY <1>0, <1>2 DEF SaveItem, GoOn, ThreadsAre
  <2>2. SettingType(t) => SettingType(t)'
    BY <2>1 DEF SettingType, WholeAccount, AccountFields, Writes, AlertSteps
  <2>3. VerifyingType(t) => VerifyingType(t)'
    BY <2>1 DEF VerifyingType, AccountFields, Writes
  <2> QED
    BY <2>1, <2>2, <2>3, WriteTypes DEF ThreadType, Writes
<1>3. CASE SaveRow(t)
  <2>1. saving[t].next # "end"
    BY <1>0, <1>3, FinishEffect DEF SaveRow
  <2>2. /\ step[t] = "saveRow" /\ step'[t] = saving[t].next /\ UNCHANGED <<request, found, saving>>
    BY <1>0, <1>3, <2>1 DEF SaveRow, GoOn, ThreadsAre
  <2>3. request[t].kind = "set" /\ SettingType(t)
    BY <2>1, <2>2, WriteTypes DEF VerifyingType, Writes
  <2>4. SettingType(t)'
    <3>1. CASE saving[t].next = "readRow"
      BY <2>2, <3>1 DEF SettingType, Writes, AlertSteps
    <3>2. CASE saving[t].next \in {"createAlert", "deleteAlert"}
      <4>1. WholeAccount(found[t]) /\ found[t] = saving[t].fields
        BY <2>2, <2>3, <3>2 DEF SettingType, Writes
      <4>2. WholeAccount(found[t])'
        BY <2>2, <4>1 DEF WholeAccount, AccountFields
      <4> QED
        BY <2>2, <2>3, <3>2, <4>1, <4>2 DEF SettingType, Writes, AlertSteps
    <3> QED
      BY <2>1, <2>2, <2>3, <3>1, <3>2 DEF SettingType, Writes
  <2> QED
    BY <2>2, <2>3, <2>4 DEF ThreadType
<1>4. CASE ReadRow(t)
  <2>1. /\ step[t] = "readRow" /\ request' = request /\ found'[t] = accountRow
        /\ step'[t] = IF accountRow["user"] = Null THEN "createUser"
                      ELSE IF accountRow["alert"] \in {Null, 0} THEN "createAlert"
                      ELSE "deleteAlert"
    BY <1>0, <1>4 DEF ReadRow, GoOn, ThreadsAre
  <2>2. request[t].kind = "set"
    BY <1>0, <2>1, ThreadTypes DEF SendingType, VerifyingType, Writes
  <2>3. WholeAccount(found[t])'
    BY <2>1 DEF AccountStores, WholeAccount, AccountFields
  <2>4. SettingType(t)'
    BY <2>1, <2>3 DEF SettingType, Writes, AlertSteps
  <2> QED
    BY <2>1, <2>2, <2>4 DEF ThreadType
<1>5. CASE CreateUser(t)
  <2> DEFINE h == Upsert(found[t], "user", TRUE)
             next == IF found[t]["alert"] \in {Null, 0} THEN "createAlert" ELSE "deleteAlert"
  <2>1. step[t] \in AlertSteps /\ SaveWhole(t, h, next)
    BY <1>5 DEF CreateUser, AlertSteps
  <2>2. request[t].kind = "set" /\ WholeAccount(found[t])
    BY <2>1, AlertTypes
  <2>3. WholeAccount(h)
    BY <2>2, FieldsUser
  <2>4. h["alert"] = found[t]["alert"]
    BY <2>2 DEF Upsert, WholeAccount, Fields
  <2> HIDE DEF h
  <2> QED
    BY <2>1, <2>2, <2>3, <2>4, SavedWhole
<1>6. CASE DeleteAlert(t)
  <2> DEFINE h == Upsert(found[t], "alert", 0)
  <2>1. step[t] \in AlertSteps /\ SaveWhole(t, h, "createAlert")
    BY <1>6 DEF DeleteAlert, AlertSteps
  <2>2. request[t].kind = "set" /\ WholeAccount(found[t])
    BY <2>1, AlertTypes
  <2>3. WholeAccount(h)
    BY <2>2, FieldsAlert
  <2>4. h["alert"] = 0
    BY DEF Upsert
  <2> HIDE DEF h
  <2> QED
    BY <2>1, <2>2, <2>3, <2>4, SavedWhole
<1>7. CASE CreateAlert(t)
  <2>0. PICK n \in Nat : n = lastAlert'  /\ n # 0
    BY <1>7 DEF CreateAlert, AccountStores
  <2> DEFINE h == Upsert(found[t], "alert", n)
  <2>1. step[t] \in AlertSteps /\ SaveWhole(t, h, "end")
    BY <1>7, <2>0 DEF CreateAlert, AlertSteps
  <2>2. request[t].kind = "set" /\ WholeAccount(found[t])
    BY <2>1, AlertTypes
  <2>3. WholeAccount(h)
    BY <2>2, FieldsAlert
  <2>4. h["alert"] \notin {Null, 0}
    BY <2>0, AccountAssumption DEF Upsert
  <2> HIDE DEF h
  <2> QED
    BY <2>1, <2>2, <2>3, <2>4, SavedWhole
<1>8. CASE FindAccount(t)
  <2> DEFINE c == request[t].channel
             h == Upsert(Account, c, [Account[c] EXCEPT !.verified = TRUE])
  <2>1. CASE request[t].kind = "send"
    <3>1. /\ request' = request /\ step'[t] = "keepItem" /\ found'[t].account = Account
          /\ AccountFields(Account) /\ c \in Channels /\ c \in DOMAIN Account /\ Account[c] # Null
      BY <1>8, <2>1, FoundEffect
    <3>2. AccountFields(found[t].account)'
      BY <3>1 DEF AccountFields
    <3>3. SendingType(t)'
      BY <3>1, <3>2 DEF SendingType
    <3> QED
      BY <2>1, <3>1, <3>3 DEF ThreadType
  <2>2. CASE request[t].kind = "verify"
    <3>1. /\ request' = request /\ step'[t] = "saveItem" /\ VerifyingType(t) /\ c \in Channels
          /\ AccountFields(Account) /\ Account[c] \in [to : AddressesOf(c), verified : BOOLEAN]
          /\ saving'[t].next = "end" /\ saving'[t].fields = h
      BY <1>8, <2>2, FoundEffect
    <3>2. [Account[c] EXCEPT !.verified = TRUE] \in [to : AddressesOf(c), verified : BOOLEAN]
      BY <3>1
    <3>3. AccountFields(h)
      BY <3>1, <3>2, FieldsVerified
    <3>4. entered \subseteq entered'
      BY CodesNext
    <3> HIDE DEF h, c
    <3>5. AccountFields(saving[t].fields)'
      BY <3>1, <3>3 DEF AccountFields
    <3>6. VerifyingType(t)'
      BY <3>1, <3>4, <3>5 DEF VerifyingType, Writes
    <3> QED
      BY <2>2, <3>1, <3>6 DEF ThreadType
  <2> QED
    BY <1>8, <2>1, <2>2, FoundEffect
<1>9. CASE KeepItem(t)
  <2> DEFINE a == found[t].account[request[t].channel].to
             k == Cardinality(DOMAIN codes) + 1
             kept == [code |-> k, at |-> clock]
  <2>1. /\ step[t] = "keepItem" /\ step'[t] = "keepRow" /\ request' = request
        /\ codes' = Upsert(codes, k, [address |-> a, delivered |-> {}])
        /\ codeItem' = [codeItem EXCEPT ![a] = kept]
        /\ found' = [found EXCEPT ![t] = [address |-> a, code |-> codeItem'[a], old |-> @.old]]
    BY <1>0, <1>9 DEF KeepItem, GoOn, ThreadsAre
  <2>2. /\ request[t].kind = "send" /\ request[t].channel \in Channels
        /\ a \in AddressesOf(request[t].channel) /\ a \in Addresses
    BY <2>1, KeepTypes
  <2>3. codeItem'[a] = kept
    BY <2>1, <2>2 DEF AccountStores
  <2>4. k \in DOMAIN codes' /\ codes'[k].address = a
    BY <2>1 DEF Upsert
  <2>5. found'[t].address = a /\ found'[t].code = codeItem'[a]
    BY <1>0, <2>1 DEF ThreadsAre
  <2>6. found'[t].code.code = k
    BY <2>3, <2>5
  <2> HIDE DEF a, k
  <2>7. SendingType(t)'
    BY <2>1, <2>2, <2>4, <2>5, <2>6 DEF SendingType
  <2> QED
    BY <2>1, <2>2, <2>7 DEF ThreadType
<1>10. CASE KeepRow(t)
  <2>1. /\ step[t] = "keepRow" /\ step'[t] = "deliver"
        /\ UNCHANGED <<request, found, codes>>
    BY <1>0, <1>10 DEF KeepRow, GoOn, ThreadsAre
  <2>2. request[t].kind = "send" /\ SendingType(t)
    BY <1>0, <2>1, KeepTypes, ThreadTypes
  <2>3. SendingType(t)'
    BY <2>1, <2>2 DEF SendingType
  <2> QED
    BY <2>1, <2>2, <2>3 DEF ThreadType
<1>11. CASE Deliver(t) \/ CutShort(t) \/ AlertGone(t)
  BY <1>0, <1>11, FinishEffect DEF Deliver, CutShort, AlertGone
<1> QED
  BY <1>2, <1>3, <1>4, <1>5, <1>6, <1>7, <1>8, <1>9, <1>10, <1>11 DEF Goes

LEMMA ThreadsNext ==
  ASSUME AccountStores, CodesType, ThreadsType, AccountNext
  PROVE  ThreadsType'
<1>0. ThreadsAre
  BY DEF ThreadsType, ThreadsAre
<1>1. ASSUME NEW t \in AccountThreads, Asks(t)
      PROVE  ThreadsType'
  <2>1. ThreadsAre' /\ Others(t)
    BY <1>0, <1>1, AsksEffect
  <2>2. \A q \in AccountThreads \ {t} : ThreadType(q)'
    BY <2>1, OtherThread DEF Others
  <2>3. ThreadType(t)'
    BY <1>0, <1>1, AskedType
  <2> QED
    BY <2>1, <2>2, <2>3 DEF ThreadsType, ThreadsAre
<1>2. ASSUME NEW t \in AccountThreads, Goes(t)
      PROVE  ThreadsType'
  <2>1. ThreadsAre' /\ Others(t)
    BY <1>0, <1>2, GoesEffect
  <2>2. \A q \in AccountThreads \ {t} : ThreadType(q)'
    BY <2>1, OtherThread DEF Others
  <2>3. ThreadType(t)'
    BY <1>2, GoneType
  <2> QED
    BY <2>1, <2>2, <2>3 DEF ThreadsType, ThreadsAre
<1>3. CASE Timers
  <2>1. UNCHANGED serving
    BY <1>3, TimersEffect
  <2>2. \A q \in AccountThreads : ThreadType(q)'
    BY <2>1, OtherThread DEF serving
  <2> QED
    BY <1>0, <2>1, <2>2 DEF ThreadsType, ThreadsAre, serving
<1> QED
  BY <1>1, <1>2, <1>3 DEF AccountNext, Asks, Goes, Timers

-----------------------------------------------------------------------------
(* The two stores                                                          *)

\* A request saves a row after its item, and then it goes on.
LEMMA SavingSteps ==
  ASSUME ThreadsType, NEW t \in AccountThreads, Goes(t)
  PROVE  /\ step[t] = "saveRow" => SaveRow(t) \/ CutShort(t)
         /\ step'[t] = "saveRow" => SaveItem(t)
<1>0. ThreadsAre
  BY DEF ThreadsType, ThreadsAre
<1>1. CASE SaveItem(t)
  BY <1>1 DEF SaveItem
<1>2. CASE SaveRow(t)
  <2>1. step[t] = "saveRow"
    BY <1>2 DEF SaveRow
  <2>2. saving[t].next \in {"readRow", "createAlert", "deleteAlert", "end"}
    BY <2>1, WriteTypes DEF SettingType, VerifyingType, Writes
  <2>3. step'[t] = "idle" \/ step'[t] = saving[t].next
    BY <1>0, <1>2, FinishEffect DEF SaveRow, GoOn, ThreadsAre
  <2> QED
    BY <1>2, <2>2, <2>3
<1>3. CASE ReadRow(t)
  BY <1>0, <1>3 DEF ReadRow, GoOn, ThreadsAre
<1>4. CASE CreateUser(t) \/ DeleteAlert(t) \/ CreateAlert(t)
  <2>1. \E account, next : SaveWhole(t, account, next)
    BY <1>4 DEF CreateUser, DeleteAlert, CreateAlert
  <2>2. step'[t] = "saveItem"
    BY <1>0, <2>1, SaveWholeEffect
  <2> QED
    BY <1>4, <2>2 DEF CreateUser, DeleteAlert, CreateAlert
<1>5. CASE AlertGone(t)
  BY <1>0, <1>5, FinishEffect DEF AlertGone
<1>6. CASE FindAccount(t)
  <2>1. \/ Finish(t)
        \/ \E account, next : SaveWhole(t, account, next)
        \/ GoOn(t, "keepItem")
    BY <1>6 DEF FindAccount
  <2>2. step'[t] # "saveRow"
    BY <1>0, <2>1, FinishEffect, SaveWholeEffect DEF GoOn, ThreadsAre
  <2> QED
    BY <1>6, <2>2 DEF FindAccount
<1>7. CASE KeepItem(t)
  BY <1>0, <1>7 DEF KeepItem, GoOn, ThreadsAre
<1>8. CASE KeepRow(t)
  BY <1>0, <1>8 DEF KeepRow, GoOn, ThreadsAre
<1>9. CASE Deliver(t)
  BY <1>0, <1>9, FinishEffect DEF Deliver
<1>10. CASE CutShort(t)
  BY <1>0, <1>10, FinishEffect DEF CutShort
<1> QED
  BY <1>1, <1>2, <1>3, <1>4, <1>5, <1>6, <1>7, <1>8, <1>9, <1>10 DEF Goes

\* What is recorded when a row is saved.
LEMMA SaveRowGhosts ==
  ASSUME ThreadsType, NEW t \in AccountThreads, SaveRow(t)
  PROVE  /\ agreed => agreed'
         /\ agreed' /\ ~agreed => /\ request[t].kind = "set" /\ alone = t
                                  /\ saving[t].next = "end" /\ step'[t] = "idle"
<1>1. ThreadsAre
  BY DEF ThreadsType, ThreadsAre
<1> QED
  BY <1>1, FinishEffect DEF SaveRow, GoOn

LEMMA AloneNext ==
  ASSUME CodesType, ThreadsType, AloneInv, AccountNext
  PROVE  AloneInv'
<1>0. ThreadsAre /\ Null \notin AccountThreads
  BY AccountAssumption DEF ThreadsType, ThreadsAre
<1>1. ASSUME NEW t \in AccountThreads, Asks(t)
      PROVE  AloneInv'
  <2>1. /\ disturbed' = (disturbed \/ Busy # {}) /\ agreed' = (agreed /\ Busy = {})
        /\ alone' = (IF Busy = {} THEN t ELSE Null) /\ Others(t)
    BY <1>0, <1>1, AsksEffect
  <2>2. Busy' \subseteq Busy \cup {t}
    BY <2>1 DEF Busy, Others
  <2>3. CASE Busy = {}
    BY <1>0, <2>1, <2>2, <2>3 DEF AloneInv
  <2>4. CASE Busy # {}
    BY <2>1, <2>4 DEF AloneInv
  <2> QED
    BY <2>3, <2>4
<1>2. ASSUME NEW t \in AccountThreads, Goes(t)
      PROVE  AloneInv'
  <2>1. /\ Others(t) /\ step[t] # "idle" /\ alone' = alone
        /\ agreed' = agreed \/ SaveRow(t) \/ CutShort(t)
        /\ disturbed' = disturbed \/ CutShort(t)
    BY <1>0, <1>2, GoesEffect
  <2>2. Busy' \subseteq Busy /\ t \in Busy
    BY <2>1 DEF Busy, Others
  <2>3. step'[t] = "idle" => Busy' \subseteq Busy \ {t}
    BY <2>1 DEF Busy, Others
  <2>4. CASE agreed' = agreed /\ disturbed' = disturbed
    BY <2>1, <2>2, <2>4 DEF AloneInv
  <2>5. CASE SaveRow(t)
    <3>1. disturbed' = disturbed
      BY <2>5 DEF SaveRow
    <3>2. agreed' /\ ~agreed => Busy' = {}
      BY <1>0, <2>2, <2>3, <2>5, SaveRowGhosts DEF AloneInv
    <3> QED
      BY <2>1, <2>2, <2>5, <3>1, <3>2, SaveRowGhosts DEF AloneInv
  <2>6. CASE CutShort(t)
    <3>1. disturbed' = TRUE /\ (agreed' => agreed)
      BY <2>6 DEF CutShort
    <3> QED
      BY <2>1, <2>2, <3>1 DEF AloneInv
  <2> QED
    BY <2>1, <2>4, <2>5, <2>6
<1>3. CASE Timers
  BY <1>3, TimersEffect DEF AloneInv, Busy, serving, ghosts
<1> QED
  BY <1>1, <1>2, <1>3 DEF AccountNext, Asks, Goes, Timers

\* A request that is served while the stores agree is served alone.
LEMMA ServedAlone ==
  ASSUME AloneInv, agreed, NEW t \in Busy
  PROVE  alone = t /\ Busy = {t}
BY DEF AloneInv

LEMMA AgreeNext ==
  ASSUME AccountStores, CodesType, ThreadsType, AloneInv, AgreeInv, AccountNext
  PROVE  AgreeInv'
<1>0. ThreadsAre /\ Null \notin AccountThreads
  BY AccountAssumption DEF ThreadsType, ThreadsAre
<1>1. ASSUME NEW t \in AccountThreads, Asks(t)
      PROVE  AgreeInv'
  <2>1. /\ agreed' = (agreed /\ Busy = {}) /\ step[t] = "idle"
        /\ alone' = (IF Busy = {} THEN t ELSE Null) /\ Others(t)
        /\ UNCHANGED <<accountItem, accountRow>>
    BY <1>0, <1>1, AsksEffect DEF stores
  <2>2. agreed' => \A f \in Fields : SameField(f)
    BY <2>1 DEF AgreeInv, Busy
  <2>3. step'[t] # "saveRow"
    <3>1. \E first \in {"saveItem", "find"} : \E r : Accept(t, first, r)
      BY <1>1 DEF Asks, AskSetting, AskCode, EnterCode
    <3> QED
      BY <1>0, <3>1 DEF Accept, ThreadsAre
  <2>4. \A q \in AccountThreads : alone' = q => step'[q] # "saveRow"
    BY <1>0, <2>1, <2>3
  <2> QED
    BY <2>1, <2>2, <2>4 DEF AgreeInv, SameField
<1>2. ASSUME NEW t \in AccountThreads, Goes(t)
      PROVE  AgreeInv'
  <2>1. /\ Others(t) /\ step[t] # "idle" /\ alone' = alone /\ t \in Busy
        /\ accountItem' = accountItem \/ SaveItem(t)
        /\ accountRow' = accountRow \/ SaveRow(t)
        /\ agreed' = agreed \/ SaveRow(t) \/ CutShort(t)
    BY <1>0, <1>2, GoesEffect DEF Busy
  <2>2. alone # Null => alone = t
    BY <2>1 DEF AloneInv
  <2>3. CASE SaveItem(t)
    <3>1. /\ step[t] = "saveItem" /\ step'[t] = "saveRow" /\ saving' = saving /\ agreed' = agreed
          /\ accountItem' = Over(accountItem, saving[t].fields) /\ accountRow' = accountRow
      BY <1>0, <2>3 DEF SaveItem, GoOn, ThreadsAre, ItemAfter
    <3>2. SavedItem(t)'
      BY <3>1 DEF SavedItem, Over
    <3>3. ASSUME NEW f \in Fields, f \notin DOMAIN saving[t].fields
          PROVE  SameField(f)' <=> SameField(f)
      BY <3>1, <3>3 DEF SameField, Over
    <3>4. ASSUME agreed', NEW f \in Fields, f \notin DOMAIN saving[t].fields
          PROVE  SameField(f)'
      <4>1. ~\E q \in AccountThreads : step[q] = "saveRow"
        BY <2>1, <3>1, <3>4, ServedAlone DEF Busy
      <4> QED
        BY <3>1, <3>3, <3>4, <4>1 DEF AgreeInv
    <3>5. agreed' => \A f \in Fields :
            \/ SameField(f)'
            \/ \E q \in AccountThreads : step'[q] = "saveRow" /\ f \in DOMAIN saving'[q].fields
      BY <3>1, <3>4
    <3>6. \A q \in AccountThreads : alone' = q /\ step'[q] = "saveRow" => SavedItem(q)'
      BY <1>0, <2>1, <2>2, <3>2
    <3> QED
      BY <3>5, <3>6 DEF AgreeInv
  <2>4. CASE SaveRow(t)
    <3>1. /\ step[t] = "saveRow" /\ accountItem' = accountItem
          /\ accountRow' = Over(accountRow, saving[t].fields)
      BY <2>4 DEF SaveRow
    <3>2. step'[t] # "saveRow"
      BY <1>2, <2>4, SavingSteps DEF SaveItem, SaveRow
    <3>3. \A q \in AccountThreads : alone' = q => step'[q] # "saveRow"
      BY <1>0, <2>1, <2>2, <3>2
    <3>4. ASSUME agreed'
          PROVE  alone = t
      BY <2>1, <2>4, <3>4, SaveRowGhosts, ServedAlone
    <3>5. ASSUME agreed', NEW f \in Fields, f \in DOMAIN saving[t].fields
          PROVE  SameField(f)'
      <4>1. SavedItem(t)
        BY <3>1, <3>4, <3>5 DEF AgreeInv
      <4> QED
        BY <3>1, <3>5, <4>1 DEF SavedItem, SameField, Over
    <3>6. ASSUME agreed', NEW f \in Fields, f \notin DOMAIN saving[t].fields
          PROVE  SameField(f)'
      <4>1. agreed
        <5>1. SUFFICES ASSUME ~agreed PROVE FALSE
          OBVIOUS
        <5>2. request[t].kind = "set" /\ saving[t].next = "end"
          BY <2>4, <3>6, <5>1, SaveRowGhosts
        <5>3. WholeAccount(saving[t].fields)
          BY <3>1, <5>2, WriteTypes DEF SettingType, Writes
        <5> QED
          BY <3>6, <5>3 DEF WholeAccount
      <4>2. \A q \in AccountThreads \ {t} : step[q] # "saveRow"
        BY <2>1, <4>1, ServedAlone DEF Busy
      <4>3. SameField(f)
        BY <3>6, <4>1, <4>2 DEF AgreeInv
      <4>4. f \in DOMAIN accountRow
        BY DEF AccountStores, WholeAccount
      <4> QED
        BY <3>1, <3>6, <4>3, <4>4 DEF SameField, Over
    <3>7. agreed' => \A f \in Fields : SameField(f)'
      BY <3>5, <3>6
    <3> QED
      BY <3>3, <3>7 DEF AgreeInv
  <2>5. CASE ~SaveItem(t) /\ ~SaveRow(t)
    <3>1. UNCHANGED <<accountItem, accountRow>> /\ step'[t] # "saveRow"
      BY <1>2, <2>1, <2>5, SavingSteps
    <3>2. agreed' => agreed /\ step[t] # "saveRow"
      BY <1>2, <2>1, <2>5, SavingSteps DEF CutShort
    <3>3. ASSUME agreed', NEW f \in Fields
          PROVE  SameField(f)'
      <4>1. ~\E q \in AccountThreads : step[q] = "saveRow"
        BY <2>1, <3>2, <3>3, ServedAlone DEF Busy
      <4>2. SameField(f)
        BY <3>2, <3>3, <4>1 DEF AgreeInv
      <4> QED
        BY <3>1, <4>2 DEF SameField
    <3>4. \A q \in AccountThreads : alone' = q => step'[q] # "saveRow"
      BY <1>0, <2>1, <2>2, <3>1
    <3> QED
      BY <3>3, <3>4 DEF AgreeInv
  <2> QED
    BY <2>3, <2>4, <2>5
<1>3. CASE Timers
  BY <1>3, TimersEffect DEF AgreeInv, SameField, SavedItem, serving, ghosts
<1> QED
  BY <1>1, <1>2, <1>3 DEF AccountNext, Asks, Goes, Timers

-----------------------------------------------------------------------------
(* Flags and alerts                                                        *)

\* Two accounts with the same addresses and alert are shown alike.
LEMMA ShownAlike ==
  ASSUME NEW h, NEW g, AlertShown(h), h["alert"] = g["alert"],
         \A c \in Channels : /\ h[c] = Null <=> g[c] = Null
                             /\ h[c] # Null => h[c].to = g[c].to
  PROVE  AlertShown(g)
<1>1. TargetsOf(h) = TargetsOf(g)
  BY DEF TargetsOf
<1> QED
  BY <1>1 DEF AlertShown

LEMMA VerifiedOver ==
  ASSUME NEW f, NEW g
  PROVE  VerifiedIn(Over(f, g)) \subseteq VerifiedIn(f) \cup VerifiedIn(g)
BY DEF VerifiedIn, Over

LEMMA VerifiedUpsert ==
  ASSUME NEW h, NEW x, NEW v, x \notin Channels
  PROVE  VerifiedIn(Upsert(h, x, v)) \subseteq VerifiedIn(h)
BY DEF VerifiedIn, Upsert

LEMMA VerifiedChannel ==
  ASSUME NEW h, NEW c \in Channels, NEW v
  PROVE  VerifiedIn(Upsert(h, c, v)) \subseteq VerifiedIn(h) \cup {v.to}
BY DEF VerifiedIn, Upsert

LEMMA ConfirmedGrows ==
  ASSUME entered \subseteq entered', \A k \in entered : codes'[k] = codes[k]
  PROVE  Confirmed \subseteq Confirmed'
BY DEF Confirmed

\* A code is delivered to the address of the account.
LEMMA TargetsShown ==
  ASSUME AccountStores, AlertShown(accountRow), NEW c \in Channels, accountRow[c] # Null
  PROVE  Targets(c) = {accountRow[c].to}
<1> DEFINE n == accountRow["alert"]
<1>1. n \notin {Null, 0} /\ DOMAIN alerts = {n} /\ alerts[n] = TargetsOf(accountRow)
  BY DEF AlertShown, AlertHeld
<1> HIDE DEF n
<1>2. UNION {alerts[m] : m \in DOMAIN alerts} = TargetsOf(accountRow)
  BY <1>1
<1>3. \A d \in Channels : accountRow[d] # Null => accountRow[d].to \in AddressesOf(d)
  BY DEF AccountStores, WholeAccount, AccountFields, Fields
<1>4. \A d \in Channels : d # c => AddressesOf(d) \cap AddressesOf(c) = {}
  BY AccountAssumption DEF Channels, AddressesOf
<1>5. AddressesOf(c) \cap TargetsOf(accountRow) = {accountRow[c].to}
  BY <1>3, <1>4 DEF TargetsOf
<1> QED
  BY <1>2, <1>5 DEF Targets

\* The account that is found, between requests and while one is served alone.
LEMMA FoundAlike ==
  ASSUME AccountStores, \A f \in Fields : SameField(f), NEW f \in DOMAIN Account
  PROVE  f \in Fields /\ Account[f] = accountRow[f]
BY DEF SameField, Account, AccountStores, AccountFields, WholeAccount

\* Without a failure, a request is served after the other.
LEMMA SoloStep ==
  ASSUME CodesType, ThreadsType, AloneInv, AgreeInv, SoloInv, AccountNext, ~disturbed'
  PROVE  /\ ~disturbed /\ agreed
         /\ \A t \in AccountThreads : Asks(t) => Busy = {} /\ AlertShown(accountRow)
         /\ \A t \in AccountThreads : Goes(t) =>
              /\ ~CutShort(t) /\ Busy = {t} /\ AlertInv(t)
              /\ step[t] # "saveRow" => \A f \in Fields : SameField(f)
              /\ step[t] = "saveRow" => SavedItem(t)
<1>0. ThreadsAre
  BY DEF ThreadsType, ThreadsAre
<1>1. ~disturbed
  <2>1. ASSUME NEW t \in AccountThreads, Asks(t)
        PROVE  ~disturbed
    BY <1>0, <2>1, AsksEffect
  <2>2. ASSUME NEW t \in AccountThreads, Goes(t)
        PROVE  ~disturbed
    BY <1>0, <2>2, GoesEffect DEF CutShort
  <2>3. CASE Timers
    BY <2>3, TimersEffect DEF ghosts
  <2> QED
    BY <2>1, <2>2, <2>3 DEF AccountNext, Asks, Goes, Timers
<1>2. agreed
  BY <1>1 DEF AloneInv
<1>3. ASSUME NEW t \in AccountThreads, Asks(t)
      PROVE  Busy = {} /\ AlertShown(accountRow)
  BY <1>0, <1>1, <1>3, AsksEffect DEF SoloInv
<1>4. ASSUME NEW t \in AccountThreads, Goes(t)
      PROVE  /\ ~CutShort(t) /\ Busy = {t} /\ AlertInv(t)
             /\ step[t] # "saveRow" => \A f \in Fields : SameField(f)
             /\ step[t] = "saveRow" => SavedItem(t)
  <2>1. t \in Busy /\ ~CutShort(t)
    BY <1>0, <1>4, GoesEffect DEF Busy, CutShort
  <2>2. Busy = {t} /\ alone = t
    BY <1>2, <2>1, ServedAlone
  <2>3. AlertInv(t)
    BY <1>1, <2>1 DEF SoloInv
  <2>4. step[t] # "saveRow" => \A f \in Fields : SameField(f)
    BY <1>2, <2>2 DEF AgreeInv, Busy
  <2>5. step[t] = "saveRow" => SavedItem(t)
    BY <2>2 DEF AgreeInv
  <2> QED
    BY <2>1, <2>2, <2>3, <2>4, <2>5
<1> QED
  BY <1>1, <1>2, <1>3, <1>4

\* The codes delivered while requests are served one after the other.
LEMMA DeliveredNext ==
  ASSUME AccountStores, CodesType, ThreadsType, AloneInv, AgreeInv, SoloInv, AccountNext,
         ~disturbed'
  PROVE  /\ \A k \in DOMAIN codes' : codes'[k].delivered \in {{}, {codes'[k].address}}
         /\ \A k \in entered' : codes'[k].delivered # {}
         /\ Confirmed \subseteq Confirmed'
<1>0. ThreadsAre
  BY DEF ThreadsType, ThreadsAre
<1>1. /\ \A k \in DOMAIN codes : codes[k].delivered \in {{}, {codes[k].address}}
      /\ \A k \in entered : codes[k].delivered # {}
      /\ entered \subseteq DOMAIN codes
  BY SoloStep DEF SoloInv, CodesType
<1>2. ASSUME NEW t \in AccountThreads, KeepItem(t)
      PROVE  /\ \A k \in DOMAIN codes' : codes'[k].delivered \in {{}, {codes'[k].address}}
             /\ \A k \in entered' : codes'[k].delivered # {}
             /\ Confirmed \subseteq Confirmed'
  <2> DEFINE a == found[t].account[request[t].channel].to
             k == Cardinality(DOMAIN codes) + 1
             new == [address |-> a, delivered |-> {}]
  <2>1. codes' = Upsert(codes, k, new) /\ entered' = entered
    BY <1>2 DEF KeepItem
  <2>2. k \notin DOMAIN codes
    <3>1. PICK n \in Nat : n = Cardinality(DOMAIN codes) /\ DOMAIN codes = 1 .. n
      BY DEF CodesType
    <3>2. n + 1 \notin 1 .. n /\ k = n + 1
      BY <3>1
    <3> HIDE DEF k
    <3> QED
      BY <3>1, <3>2
  <2>3. new.delivered = {}
    OBVIOUS
  <2> HIDE DEF k, new
  <2>4. /\ \A i \in DOMAIN codes : codes'[i] = codes[i]
        /\ codes'[k] = new /\ DOMAIN codes' = DOMAIN codes \cup {k}
    BY <2>1, <2>2 DEF Upsert
  <2>5. Confirmed \subseteq Confirmed'
    BY <1>1, <2>1, <2>4, ConfirmedGrows
  <2>6. \A i \in DOMAIN codes' : codes'[i].delivered \in {{}, {codes'[i].address}}
    BY <1>1, <2>3, <2>4
  <2>7. \A i \in entered' : codes'[i].delivered # {}
    BY <1>1, <2>1, <2>4
  <2> QED
    BY <2>5, <2>6, <2>7
<1>3. ASSUME NEW t \in AccountThreads, Deliver(t)
      PROVE  /\ \A k \in DOMAIN codes' : codes'[k].delivered \in {{}, {codes'[k].address}}
             /\ \A k \in entered' : codes'[k].delivered # {}
             /\ Confirmed \subseteq Confirmed'
  <2> DEFINE j == found[t].code.code
             c == request[t].channel
             a == found[t].address
  <2>1. /\ step[t] = "deliver" /\ entered' = entered
        /\ codes' = codes \/ codes' = [codes EXCEPT ![j].delivered = Targets(c)]
    BY <1>3 DEF Deliver
  <2>2. j \in DOMAIN codes /\ c \in Channels /\ codes[j].address = a /\ request[t].kind = "send"
    BY <2>1, KeepTypes
  <2>3. AlertInv(t)
    BY <1>3, SoloStep DEF Goes
  <2>4. AlertShown(accountRow) /\ accountRow[c] # Null /\ accountRow[c].to = a
    BY <2>1, <2>2, <2>3 DEF AlertInv
  <2>5. Targets(c) = {a}
    BY <2>2, <2>4, TargetsShown
  <2>6. CASE codes' = codes
    BY <1>1, <2>1, <2>6, ConfirmedGrows
  <2>7. CASE codes' = [codes EXCEPT ![j].delivered = Targets(c)]
    <3>1. /\ codes'[j] = [codes[j] EXCEPT !.delivered = {a}] /\ DOMAIN codes' = DOMAIN codes
          /\ \A i \in DOMAIN codes \ {j} : codes'[i] = codes[i]
      BY <2>2, <2>5, <2>7 DEF CodesType
    <3>2. codes'[j].delivered = {a} /\ codes'[j].address = a
      BY <2>2, <3>1 DEF CodesType
    <3>3. \A i \in DOMAIN codes : codes'[i].address = codes[i].address
      BY <2>2, <3>1, <3>2
    <3>4. \A i \in entered : codes'[i].delivered = codes[i].delivered
      BY <1>1, <2>2, <3>1, <3>2
    <3>5. Confirmed \subseteq Confirmed'
      BY <1>1, <2>1, <3>3, <3>4 DEF Confirmed
    <3>6. \A i \in DOMAIN codes' : codes'[i].delivered \in {{}, {codes'[i].address}}
      BY <1>1, <3>1, <3>2
    <3>7. \A i \in entered' : codes'[i].delivered # {}
      BY <1>1, <2>1, <3>4
    <3> QED
      BY <3>5, <3>6, <3>7
  <2> QED
    BY <2>1, <2>6, <2>7
<1>4. ASSUME codes' = codes, entered \subseteq entered',
             entered' \subseteq entered \cup {k \in DOMAIN codes : codes[k].delivered # {}}
      PROVE  /\ \A k \in DOMAIN codes' : codes'[k].delivered \in {{}, {codes'[k].address}}
             /\ \A k \in entered' : codes'[k].delivered # {}
             /\ Confirmed \subseteq Confirmed'
  BY <1>1, <1>4, ConfirmedGrows
<1>5. CASE ~\E t \in AccountThreads : KeepItem(t) \/ Deliver(t)
  <2>1. /\ codes' = codes /\ entered \subseteq entered'
        /\ entered' \subseteq entered \cup {k \in DOMAIN codes : codes[k].delivered # {}}
    BY <1>0, <1>5, AsksEffect, GoesEffect, TimersEffect
       DEF AccountNext, Asks, Goes, Timers, ghosts
  <2> QED
    BY <1>4, <2>1
<1> QED
  BY <1>2, <1>3, <1>5

\* What Notifi holds after a step of a request that is served alone.
LEMMA AlertNext ==
  ASSUME AccountStores, CodesType, ThreadsType, AloneInv, AgreeInv, SoloInv, AccountNext,
         ~disturbed', NEW t \in AccountThreads, Goes(t)
  PROVE  IF step'[t] = "idle" THEN AlertShown(accountRow)' ELSE AlertInv(t)'
<1>0. ThreadsAre /\ step[t] # "idle" /\ ~CutShort(t) /\ AlertInv(t)
  BY GoesEffect, SoloStep DEF ThreadsType, ThreadsAre
<1>13. /\ step[t] # "saveRow" => \A f \in Fields : SameField(f)
       /\ step[t] = "saveRow" => SavedItem(t)
  BY SoloStep
<1>14. /\ request[t].kind \in {"set", "send", "verify"}
       /\ request[t].kind = "set" => SettingType(t)
       /\ request[t].kind = "send" => SendingType(t)
       /\ request[t].kind = "verify" => VerifyingType(t)
  BY <1>0, ThreadTypes
<1>1. CASE SaveItem(t)
  <2>1. /\ step[t] = "saveItem" /\ step'[t] = "saveRow"
        /\ UNCHANGED <<request, found, saving, accountRow, alerts>>
    BY <1>0, <1>1 DEF SaveItem, GoOn, ThreadsAre, notifi
  <2>2. request[t].kind # "send"
    BY <2>1, WriteTypes DEF Writes
  <2> QED
    BY <1>0, <2>1, <2>2 DEF AlertInv, AlertHeld, AlertShown, TargetsOf, SameAddress, Writes, AlertSteps
<1>2. CASE SaveRow(t)
  <2> DEFINE fields == saving[t].fields
  <2>1. /\ step[t] = "saveRow" /\ accountRow' = Over(accountRow, fields) /\ alerts' = alerts
    BY <1>2 DEF SaveRow, notifi
  <2>2. AccountFields(fields) /\ DOMAIN fields \subseteq Fields /\ DOMAIN accountRow = Fields
    BY <2>1, WriteTypes DEF Writes, AccountFields, AccountStores, WholeAccount
  <2>3. \A f \in Fields : accountRow'[f] = IF f \in DOMAIN fields THEN fields[f] ELSE accountRow[f]
    BY <2>1, <2>2 DEF Over
  <2>4. CASE saving[t].next = "end"
    <3>1. step'[t] = "idle"
      BY <1>0, <1>2, <2>4, FinishEffect DEF SaveRow
    <3>2. CASE request[t].kind = "set"
      <4>1. AlertShown(found[t]) /\ WholeAccount(fields) /\ found[t] = fields
        BY <1>0, <1>14, <2>1, <2>4, <3>2 DEF AlertInv, SettingType, Writes
      <4>2. \A f \in Fields : accountRow'[f] = fields[f]
        BY <2>3, <4>1 DEF WholeAccount
      <4>3. TargetsOf(accountRow)' = TargetsOf(fields)
        BY <4>2 DEF TargetsOf, Fields
      <4>4. \A f \in Fields : accountRow'[f] = found[t][f]
        BY <4>1, <4>2
      <4>5. AlertShown(accountRow)'
        BY <2>1, <4>1, <4>3, <4>4 DEF AlertShown, AlertHeld, Fields
      <4> QED
        BY <3>1, <4>5
    <3>3. CASE request[t].kind # "set"
      <4>1. request[t].kind = "verify"
        BY <2>1, <3>3, WriteTypes DEF Writes
      <4>2. AlertShown(accountRow) /\ \A f \in DOMAIN fields : SameAddress(fields, f)
        BY <1>0, <2>1, <4>1 DEF AlertInv, Writes
      <4>3. PICK g : g = accountRow'
        OBVIOUS
      <4>4. g["alert"] = accountRow["alert"]
        BY <2>3, <4>2, <4>3 DEF SameAddress, Fields, Channels
      <4>5. \A c \in Channels : /\ accountRow[c] = Null <=> g[c] = Null
                                /\ accountRow[c] # Null => accountRow[c].to = g[c].to
        BY <2>3, <4>2, <4>3 DEF SameAddress, Fields
      <4>6. AlertShown(g)
        BY <4>2, <4>4, <4>5, ShownAlike
      <4>7. AlertShown(accountRow)'
        BY <2>1, <4>3, <4>6 DEF AlertShown, AlertHeld, TargetsOf
      <4> QED
        BY <3>1, <4>7
    <3> QED
      BY <3>2, <3>3
  <2>5. CASE saving[t].next # "end"
    <3>1. step'[t] = saving[t].next /\ UNCHANGED <<request, found, saving>>
      BY <1>0, <1>2, <2>5 DEF SaveRow, GoOn, ThreadsAre
    <3>2. request[t].kind = "set" /\ SettingType(t)
      BY <2>1, <2>5, WriteTypes DEF VerifyingType, Writes
    <3>3. CASE saving[t].next = "readRow"
      <4>1. AlertHeld(accountRow["alert"])
        BY <1>0, <2>1, <3>2, <3>3 DEF AlertInv, Writes
      <4>2. accountRow'["alert"] = accountRow["alert"]
        BY <2>1, <2>3, <3>2, <3>3 DEF SettingType, Writes, Channels, Fields
      <4>3. AlertHeld(accountRow["alert"])'
        BY <2>1, <4>1, <4>2 DEF AlertHeld
      <4>4. step'[t] = "readRow" /\ request'[t].kind = "set"
        BY <3>1, <3>2, <3>3
      <4>5. AlertInv(t)'
        BY <4>3, <4>4 DEF AlertInv, Writes, AlertSteps
      <4> QED
        BY <4>4, <4>5
    <3>4. CASE saving[t].next \in {"createAlert", "deleteAlert"}
      <4>1. AlertHeld(found[t]["alert"])
        BY <1>0, <2>1, <3>2, <3>4 DEF AlertInv, Writes
      <4>2. AlertHeld(found[t]["alert"])'
        BY <2>1, <3>1, <4>1 DEF AlertHeld
      <4>3. step'[t] \in {"createAlert", "deleteAlert"} /\ request'[t].kind = "set"
        BY <3>1, <3>2, <3>4
      <4>4. AlertInv(t)'
        BY <4>2, <4>3 DEF AlertInv, Writes, AlertSteps
      <4> QED
        BY <4>3, <4>4
    <3> QED
      BY <2>1, <2>5, <3>2, <3>3, <3>4 DEF SettingType, Writes
  <2> QED
    BY <2>4, <2>5
<1>3. CASE ReadRow(t)
  <2>1. /\ step[t] = "readRow" /\ step'[t] \in AlertSteps /\ request' = request
        /\ found'[t] = accountRow /\ alerts' = alerts
    BY <1>0, <1>3 DEF ReadRow, GoOn, ThreadsAre, AlertSteps, notifi
  <2>2. request[t].kind = "set"
    BY <1>14, <2>1 DEF SendingType, VerifyingType, Writes
  <2>3. AlertHeld(accountRow["alert"])
    BY <1>0, <2>1, <2>2 DEF AlertInv
  <2>4. AlertHeld(found[t]["alert"])'
    BY <2>1, <2>3 DEF AlertHeld
  <2>5. AlertInv(t)'
    BY <2>1, <2>2, <2>4 DEF AlertInv, Writes, AlertSteps
  <2> QED
    BY <2>1, <2>5 DEF AlertSteps
<1>4. ASSUME NEW h, NEW next, SaveWhole(t, h, next), request[t].kind = "set", next # "readRow",
             next = "end" => AlertShown(h)', next # "end" => AlertHeld(h["alert"])'
      PROVE  step'[t] # "idle" /\ AlertInv(t)'
  <2>1. /\ step'[t] = "saveItem" /\ request' = request /\ found'[t] = h
        /\ saving'[t] = [fields |-> h, next |-> next]
    BY <1>0, <1>4, SaveWholeEffect
  <2>2. saving'[t].next = next
    BY <2>1
  <2>3. next # "end" => AlertHeld(found[t]["alert"])'
    BY <1>4, <2>1 DEF AlertHeld
  <2>4. next = "end" => AlertShown(found[t])'
    BY <1>4, <2>1 DEF AlertShown, AlertHeld, TargetsOf
  <2>5. AlertInv(t)'
    BY <1>4, <2>1, <2>2, <2>3, <2>4 DEF AlertInv, Writes, AlertSteps
  <2> QED
    BY <2>1, <2>5
<1>5. CASE CreateUser(t)
  <2> DEFINE h == Upsert(found[t], "user", TRUE)
             next == IF found[t]["alert"] \in {Null, 0} THEN "createAlert" ELSE "deleteAlert"
  <2>1. step[t] \in AlertSteps /\ SaveWhole(t, h, next) /\ alerts' = alerts
    BY <1>5 DEF CreateUser, AlertSteps
  <2>2. request[t].kind = "set" /\ WholeAccount(found[t])
    BY <2>1, AlertTypes
  <2>3. h["alert"] = found[t]["alert"]
    BY <2>2 DEF Upsert, WholeAccount, Fields
  <2>4. AlertHeld(found[t]["alert"])
    BY <1>0, <2>1, <2>2 DEF AlertInv
  <2> HIDE DEF h
  <2>5. PICK g : g = h
    OBVIOUS
  <2>6. AlertHeld(g["alert"])'
    BY <2>1, <2>3, <2>4, <2>5 DEF AlertHeld
  <2> QED
    BY <1>4, <2>1, <2>2, <2>5, <2>6
<1>6. CASE DeleteAlert(t)
  <2> DEFINE h == Upsert(found[t], "alert", 0)
  <2>1. /\ step[t] = "deleteAlert" /\ SaveWhole(t, h, "createAlert")
        /\ alerts' = [n \in DOMAIN alerts \ {found[t]["alert"]} |-> alerts[n]]
    BY <1>6 DEF DeleteAlert
  <2>2. request[t].kind = "set" /\ found[t]["alert"] \notin {Null, 0}
    BY <2>1, AlertTypes DEF AlertSteps
  <2>3. AlertHeld(found[t]["alert"])
    BY <1>0, <2>1, <2>2 DEF AlertInv, AlertSteps
  <2>4. DOMAIN alerts' = {}
    BY <2>1, <2>2, <2>3 DEF AlertHeld
  <2>5. h["alert"] = 0
    BY DEF Upsert
  <2> HIDE DEF h
  <2>6. PICK g : g = h
    OBVIOUS
  <2>7. AlertHeld(g["alert"])'
    BY <2>4, <2>5, <2>6 DEF AlertHeld
  <2> QED
    BY <1>4, <2>1, <2>2, <2>6, <2>7
<1>7. CASE CreateAlert(t)
  <2>0. PICK n \in Nat : n = lastAlert' /\ n # 0
    BY <1>7 DEF CreateAlert, AccountStores
  <2> DEFINE h == Upsert(found[t], "alert", n)
  <2>1. /\ step[t] = "createAlert" /\ SaveWhole(t, h, "end")
        /\ alerts' = Upsert(alerts, n, TargetsOf(found[t]))
    BY <1>7, <2>0 DEF CreateAlert, TargetsOf
  <2>2. /\ request[t].kind = "set" /\ WholeAccount(found[t])
        /\ found[t]["alert"] \in {Null, 0}
    BY <2>1, AlertTypes DEF AlertSteps
  <2>3. AlertHeld(found[t]["alert"])
    BY <1>0, <2>1, <2>2 DEF AlertInv, AlertSteps
  <2>4. DOMAIN alerts' = {n} /\ alerts'[n] = TargetsOf(found[t])
    BY <2>1, <2>2, <2>3 DEF AlertHeld, Upsert
  <2>5. h["alert"] = n /\ \A c \in Channels : h[c] = found[t][c]
    BY <2>2 DEF Upsert, WholeAccount, Fields, Channels
  <2> HIDE DEF h
  <2>6. PICK g : g = h
    OBVIOUS
  <2>7. TargetsOf(g) = TargetsOf(found[t])
    BY <2>5, <2>6 DEF TargetsOf
  <2>8. AlertShown(g)'
    BY <2>0, <2>4, <2>5, <2>6, <2>7, AccountAssumption DEF AlertShown, AlertHeld, TargetsOf
  <2> QED
    BY <1>4, <2>1, <2>2, <2>6, <2>8
<1>8. CASE AlertGone(t)
  <2>1. step[t] = "deleteAlert" /\ found[t]["alert"] \notin DOMAIN alerts
    BY <1>8 DEF AlertGone
  <2>2. request[t].kind = "set" /\ found[t]["alert"] \notin {Null, 0}
    BY <2>1, AlertTypes DEF AlertSteps
  <2> QED
    BY <1>0, <2>1, <2>2 DEF AlertInv, AlertHeld, AlertSteps
<1>9. CASE FindAccount(t)
  <2> DEFINE c == request[t].channel
             h == Upsert(Account, c, [Account[c] EXCEPT !.verified = TRUE])
  <2>1. step[t] = "find" /\ UNCHANGED <<accountRow, alerts>>
    BY <1>9 DEF FindAccount, stores, notifi
  <2>2. request[t].kind # "set"
    BY <1>14, <2>1 DEF SettingType, Writes, AlertSteps
  <2>3. AlertShown(accountRow)'
    BY <1>0, <2>1, <2>2 DEF AlertInv, AlertShown, AlertHeld, TargetsOf
  <2>4. \A f \in Fields : SameField(f)
    BY <1>13, <2>1
  <2>5. CASE step'[t] = "idle"
    BY <2>3, <2>5
  <2>6. CASE step'[t] # "idle" /\ request[t].kind = "send"
    <3>1. /\ request' = request /\ c \in Channels /\ c \in DOMAIN Account
          /\ step'[t] = "keepItem" /\ found'[t].account = Account
      BY <1>9, <2>6, FoundEffect
    <3>2. PICK g : g = Account
      OBVIOUS
    <3>3. g[c] = accountRow[c]
      BY <2>4, <3>1, <3>2, FoundAlike
    <3>4. SameAddress(found[t].account, request[t].channel)'
      BY <2>1, <3>1, <3>2, <3>3 DEF SameAddress
    <3>5. AlertInv(t)'
      BY <2>3, <2>6, <3>1, <3>4 DEF AlertInv, Writes, AlertSteps
    <3> QED
      BY <2>6, <3>5
  <2>7. CASE step'[t] # "idle" /\ request[t].kind = "verify"
    <3>1. /\ request' = request /\ c \in Channels /\ c \in DOMAIN Account /\ Account[c] # Null
          /\ step'[t] = "saveItem" /\ saving'[t].fields = h
          /\ Account[c] \in [to : AddressesOf(c), verified : BOOLEAN]
      BY <1>9, <2>7, FoundEffect
    <3>2. PICK g : g = h
      OBVIOUS
    <3>3. PICK v : v = [Account[c] EXCEPT !.verified = TRUE]
      OBVIOUS
    <3>4. v \in [to : AddressesOf(c), verified : BOOLEAN] /\ v.to = Account[c].to
      BY <3>1, <3>3
    <3>5. v # Null
      BY <3>1, <3>4, AccountAssumption DEF AddressesOf
    <3>6. DOMAIN g = DOMAIN Account /\ g[c] = v
          /\ \A f \in DOMAIN Account \ {c} : g[f] = Account[f]
      BY <3>1, <3>2, <3>3 DEF Upsert
    <3>7. \A f \in DOMAIN Account : f \in Fields /\ Account[f] = accountRow[f]
      BY <2>4, FoundAlike
    <3> HIDE DEF h, c
    <3>8. \A f \in DOMAIN g : SameAddress(g, f)
      BY <3>1, <3>4, <3>5, <3>6, <3>7 DEF SameAddress
    <3>9. \A f \in DOMAIN g : SameAddress(g, f)'
      BY <2>1, <3>8 DEF SameAddress
    <3>10. (\A f \in DOMAIN saving[t].fields : SameAddress(saving[t].fields, f))'
      BY <3>1, <3>2, <3>9 DEF SameAddress
    <3>11. AlertInv(t)'
      BY <2>3, <2>7, <3>1, <3>10 DEF AlertInv, Writes, AlertSteps
    <3> QED
      BY <2>7, <3>11
  <2> QED
    BY <1>14, <2>2, <2>5, <2>6, <2>7
<1>10. CASE KeepItem(t)
  <2> DEFINE c == request[t].channel
             a == found[t].account[c].to
  <2>1. /\ step[t] = "keepItem" /\ step'[t] = "keepRow" /\ UNCHANGED <<request, accountRow, alerts>>
        /\ found' = [found EXCEPT ![t] = [address |-> a, code |-> codeItem'[a], old |-> @.old]]
    BY <1>0, <1>10 DEF KeepItem, GoOn, ThreadsAre, notifi
  <2>2. request[t].kind = "send" /\ SendingType(t)
    BY <1>14, <2>1, KeepTypes
  <2>3. c \in Channels /\ found[t].account[c] # Null
    BY <2>1, <2>2 DEF SendingType
  <2>4. AlertShown(accountRow) /\ SameAddress(found[t].account, c)
    BY <1>0, <2>1, <2>2 DEF AlertInv
  <2>5. accountRow[c] # Null /\ accountRow[c].to = a
    BY <2>3, <2>4 DEF SameAddress
  <2>6. found'[t].address = a
    BY <1>0, <2>1 DEF ThreadsAre
  <2>7. AlertShown(accountRow)'
    BY <2>1, <2>4 DEF AlertShown, AlertHeld, TargetsOf
  <2>8. AlertInv(t)'
    BY <2>1, <2>2, <2>5, <2>6, <2>7 DEF AlertInv, Writes, AlertSteps
  <2> QED
    BY <2>1, <2>8
<1>11. CASE KeepRow(t)
  <2>1. /\ step[t] = "keepRow" /\ step'[t] = "deliver"
        /\ UNCHANGED <<request, found, accountRow, alerts>>
    BY <1>0, <1>11 DEF KeepRow, GoOn, ThreadsAre, notifi
  <2>2. request[t].kind = "send"
    BY <2>1, KeepTypes
  <2>3. AlertInv(t)'
    BY <1>0, <2>1, <2>2 DEF AlertInv, AlertShown, AlertHeld, TargetsOf, Writes, AlertSteps
  <2> QED
    BY <2>1, <2>3
<1>12. CASE Deliver(t)
  <2>1. step[t] = "deliver" /\ step'[t] = "idle" /\ UNCHANGED <<accountRow, alerts>>
    BY <1>0, <1>12, FinishEffect DEF Deliver, stores, notifi
  <2>2. request[t].kind = "send"
    BY <2>1, KeepTypes
  <2>3. AlertShown(accountRow)'
    BY <1>0, <2>1, <2>2 DEF AlertInv, AlertShown, AlertHeld, TargetsOf
  <2> QED
    BY <2>1, <2>3
<1> QED
  BY <1>0, <1>1, <1>2, <1>3, <1>5, <1>6, <1>7, <1>8, <1>9, <1>10, <1>11, <1>12 DEF Goes

\* The flags that a request carries or has written.
LEMMA AccountFlagsNext ==
  ASSUME AccountStores, CodesType, ThreadsType, AloneInv, AgreeInv, SoloInv, AccountNext,
         ~disturbed', NEW t \in AccountThreads, Goes(t)
  PROVE  FlagsShown'
<1>0. ThreadsAre /\ step[t] # "idle" /\ Others(t) /\ Busy = {t} /\ ~CutShort(t)
  BY GoesEffect, SoloStep DEF ThreadsType, ThreadsAre
<1>1. FlagsShown /\ Confirmed \subseteq Confirmed'
  BY SoloStep, DeliveredNext DEF SoloInv
<1>2. /\ VerifiedIn(accountItem) \subseteq Confirmed' /\ VerifiedIn(accountRow) \subseteq Confirmed'
      /\ step[t] \in Writes => VerifiedIn(saving[t].fields) \subseteq Confirmed'
      /\ step[t] \in AlertSteps => VerifiedIn(found[t]) \subseteq Confirmed'
  BY <1>0, <1>1 DEF FlagsShown
<1>3. Busy' \subseteq {t}
  BY <1>0 DEF Busy, Others
<1>4. ASSUME VerifiedIn(accountItem)' \subseteq Confirmed', VerifiedIn(accountRow)' \subseteq Confirmed',
             step'[t] # "idle",
             step'[t] \in Writes => VerifiedIn(saving[t].fields)' \subseteq Confirmed',
             step'[t] \in AlertSteps => VerifiedIn(found[t])' \subseteq Confirmed'
      PROVE  FlagsShown'
  BY <1>3, <1>4 DEF FlagsShown
<1>5. ASSUME VerifiedIn(accountItem)' \subseteq Confirmed', VerifiedIn(accountRow)' \subseteq Confirmed',
             step'[t] = "idle"
      PROVE  FlagsShown'
  BY <1>3, <1>5 DEF FlagsShown, Busy
<1>6. UNCHANGED <<accountItem, accountRow>> => /\ VerifiedIn(accountItem)' \subseteq Confirmed'
                                               /\ VerifiedIn(accountRow)' \subseteq Confirmed'
  BY <1>2 DEF VerifiedIn
<1>7. CASE SaveItem(t)
  <2>1. /\ step[t] \in Writes /\ step'[t] = "saveRow" /\ UNCHANGED <<saving, accountRow>>
        /\ accountItem' = Over(accountItem, saving[t].fields)
    BY <1>0, <1>7 DEF SaveItem, GoOn, ThreadsAre, ItemAfter, Writes
  <2>2. PICK g : g = accountItem'
    OBVIOUS
  <2>3. VerifiedIn(g) \subseteq Confirmed'
    BY <1>2, <2>1, <2>2, VerifiedOver
  <2>4. VerifiedIn(accountItem)' \subseteq Confirmed' /\ VerifiedIn(accountRow)' \subseteq Confirmed'
    BY <1>2, <2>1, <2>2, <2>3 DEF VerifiedIn
  <2>5. VerifiedIn(saving[t].fields)' \subseteq Confirmed'
    BY <1>2, <2>1 DEF VerifiedIn
  <2> QED
    BY <1>4, <2>1, <2>4, <2>5 DEF AlertSteps
<1>8. CASE SaveRow(t)
  <2>1. /\ step[t] \in Writes /\ step[t] = "saveRow" /\ UNCHANGED accountItem
        /\ accountRow' = Over(accountRow, saving[t].fields)
    BY <1>8 DEF SaveRow, Writes
  <2>2. PICK g : g = accountRow'
    OBVIOUS
  <2>3. VerifiedIn(g) \subseteq Confirmed'
    BY <1>2, <2>1, <2>2, VerifiedOver
  <2>4. VerifiedIn(accountItem)' \subseteq Confirmed' /\ VerifiedIn(accountRow)' \subseteq Confirmed'
    BY <1>2, <2>1, <2>2, <2>3 DEF VerifiedIn
  <2>5. CASE saving[t].next = "end"
    BY <1>0, <1>5, <1>8, <2>4, <2>5, FinishEffect DEF SaveRow
  <2>6. CASE saving[t].next # "end"
    <3>1. step'[t] = saving[t].next /\ UNCHANGED <<found, saving>>
      BY <1>0, <1>8, <2>6 DEF SaveRow, GoOn, ThreadsAre
    <3>2. saving[t].next \in {"readRow", "createAlert", "deleteAlert"} /\ SettingType(t)
      BY <2>1, <2>6, WriteTypes DEF SettingType, VerifyingType, Writes
    <3>3. step'[t] \in AlertSteps => found[t] = saving[t].fields
      BY <2>1, <3>1, <3>2 DEF SettingType, Writes, AlertSteps
    <3>4. step'[t] \in AlertSteps => VerifiedIn(found[t])' \subseteq Confirmed'
      BY <1>2, <2>1, <3>1, <3>3 DEF VerifiedIn
    <3>5. step'[t] # "idle" /\ step'[t] \notin Writes
      BY <3>1, <3>2 DEF Writes
    <3> QED
      BY <1>4, <2>4, <3>4, <3>5
  <2> QED
    BY <2>5, <2>6
<1>9. CASE ReadRow(t)
  <2>1. /\ step'[t] \in AlertSteps /\ found'[t] = accountRow /\ UNCHANGED <<accountItem, accountRow>>
    BY <1>0, <1>9 DEF ReadRow, GoOn, ThreadsAre, AlertSteps, stores
  <2>2. VerifiedIn(found[t])' \subseteq Confirmed'
    BY <1>2, <2>1 DEF VerifiedIn
  <2> QED
    BY <1>4, <1>6, <2>1, <2>2 DEF AlertSteps, Writes
<1>10. CASE CreateUser(t) \/ DeleteAlert(t) \/ CreateAlert(t)
  <2>1. PICK h, next : /\ SaveWhole(t, h, next)
                       /\ h = Upsert(found[t], "user", TRUE)
                          \/ \E n : h = Upsert(found[t], "alert", n)
    BY <1>10 DEF CreateUser, DeleteAlert, CreateAlert
  <2>2. step[t] \in AlertSteps /\ UNCHANGED <<accountItem, accountRow>>
    BY <1>10 DEF CreateUser, DeleteAlert, CreateAlert, AlertSteps, stores
  <2>3. step'[t] = "saveItem" /\ saving'[t] = [fields |-> h, next |-> next]
    BY <1>0, <2>1, SaveWholeEffect
  <2>4. saving'[t].fields = h
    BY <2>3
  <2>5. "user" \notin Channels /\ "alert" \notin Channels
    BY DEF Channels
  <2>6. VerifiedIn(h) \subseteq VerifiedIn(found[t])
    BY <2>1, <2>5, VerifiedUpsert
  <2>7. VerifiedIn(saving[t].fields)' \subseteq Confirmed'
    BY <1>2, <2>2, <2>4, <2>6 DEF VerifiedIn
  <2> QED
    BY <1>4, <1>6, <2>2, <2>3, <2>7 DEF AlertSteps
<1>11. CASE AlertGone(t) \/ Deliver(t)
  <2>1. step'[t] = "idle" /\ UNCHANGED <<accountItem, accountRow>>
    BY <1>0, <1>11, FinishEffect DEF AlertGone, Deliver, stores
  <2> QED
    BY <1>5, <1>6, <2>1
<1>12. CASE FindAccount(t)
  <2> DEFINE c == request[t].channel
             h == Upsert(Account, c, [Account[c] EXCEPT !.verified = TRUE])
  <2>1. UNCHANGED <<accountItem, accountRow, codes, entered, disturbed>>
    BY <1>12 DEF FindAccount, stores
  <2>2. CASE step'[t] = "idle"
    BY <1>5, <1>6, <2>1, <2>2
  <2>3. CASE step'[t] # "idle" /\ step'[t] = "keepItem"
    BY <1>4, <1>6, <2>1, <2>3 DEF Writes, AlertSteps
  <2>4. CASE step'[t] # "idle" /\ step'[t] # "keepItem"
    <3>1. /\ c \in Channels /\ VerifyingType(t) /\ step'[t] = "saveItem" /\ c \in DOMAIN Account
          /\ Account[c] \in [to : AddressesOf(c), verified : BOOLEAN]
          /\ CodeFor(Account[c].to) # Null /\ CodeFor(Account[c].to).code = request[t].code
          /\ saving'[t].fields = h
      BY <1>12, <2>4, FoundEffect
    <3>2. PICK a \in Addresses : a = Account[c].to
      BY <3>1 DEF Addresses, AddressesOf
    <3>3. PICK v : v = [Account[c] EXCEPT !.verified = TRUE]
      OBVIOUS
    <3>4. v.to = a
      BY <3>1, <3>2, <3>3
    <3>5. PICK k \in entered : k = CodeFor(a).code
      BY <3>1, <3>2 DEF VerifyingType
    <3>6. codes[k].address = a
      BY <3>1, <3>2, <3>5 DEF CodeFor, AccountStores, KeptFor
    <3>7. codes[k].delivered = {a}
      BY <3>5, <3>6, SoloStep DEF SoloInv, CodesType
    <3>8. a \in Confirmed
      BY <3>5, <3>6, <3>7 DEF Confirmed
    <3>9. PICK g : g = h
      OBVIOUS
    <3>10. VerifiedIn(g) \subseteq VerifiedIn(Account) \cup {a}
      <4>1. g = Upsert(Account, c, v)
        BY <3>3, <3>9
      <4> HIDE DEF c
      <4> QED
        BY <3>1, <3>4, <4>1, VerifiedChannel
    <3>11. VerifiedIn(Account) \subseteq Confirmed'
      BY <1>2 DEF Account
    <3>12. VerifiedIn(g) \subseteq Confirmed'
      BY <1>1, <3>8, <3>10, <3>11
    <3> HIDE DEF h, c
    <3>13. VerifiedIn(saving[t].fields)' \subseteq Confirmed'
      BY <3>1, <3>9, <3>12 DEF VerifiedIn
    <3> QED
      BY <1>4, <1>6, <2>1, <3>1, <3>13 DEF AlertSteps
  <2> QED
    BY <2>2, <2>3, <2>4
<1>13. CASE KeepItem(t) \/ KeepRow(t)
  <2>1. step'[t] \in {"keepRow", "deliver"} /\ UNCHANGED <<accountItem, accountRow>>
    BY <1>0, <1>13 DEF KeepItem, KeepRow, GoOn, ThreadsAre
  <2> QED
    BY <1>4, <1>6, <2>1 DEF Writes, AlertSteps
<1> QED
  BY <1>0, <1>7, <1>8, <1>9, <1>10, <1>11, <1>12, <1>13 DEF Goes

\* A step that leaves the account, Notifi and the requests alone.
LEMMA SoloKept ==
  ASSUME SoloInv, UNCHANGED <<accountItem, accountRow, notifi, serving, ghosts>>
  PROVE  SoloInv'
<1> SUFFICES ASSUME ~disturbed'
             PROVE  SoloInv'
  BY DEF SoloInv
<1>1. ~disturbed
  BY DEF ghosts
<1>2. Busy' = Busy /\ (AlertShown(accountRow)' <=> AlertShown(accountRow))
  BY DEF Busy, AlertShown, AlertHeld, TargetsOf, serving, notifi
<1>3. \A q \in Busy : AlertInv(q) => AlertInv(q)'
  BY DEF AlertInv, AlertShown, AlertHeld, TargetsOf, SameAddress, serving, notifi
<1>4. Confirmed' = Confirmed
  BY DEF Confirmed, ghosts
<1>5. VerifiedIn(accountItem)' = VerifiedIn(accountItem)
      /\ VerifiedIn(accountRow)' = VerifiedIn(accountRow)
  BY DEF VerifiedIn
<1>6. \A q \in Busy : /\ VerifiedIn(saving[q].fields)' = VerifiedIn(saving[q].fields)
                     /\ VerifiedIn(found[q])' = VerifiedIn(found[q])
                     /\ step'[q] = step[q]
  BY DEF VerifiedIn, serving
<1>7. FlagsShown'
  BY <1>1, <1>2, <1>4, <1>5, <1>6 DEF SoloInv, FlagsShown
<1> QED
  BY <1>1, <1>2, <1>3, <1>7 DEF SoloInv, ghosts

LEMMA SoloNext ==
  ASSUME AccountStores, CodesType, ThreadsType, AloneInv, AgreeInv, SoloInv, AccountNext
  PROVE  SoloInv'
<1> SUFFICES ASSUME ~disturbed'
             PROVE  SoloInv'
  BY DEF SoloInv
<1>1. ThreadsAre
  BY DEF ThreadsType, ThreadsAre
<1>2. /\ \A k \in DOMAIN codes' : codes'[k].delivered \in {{}, {codes'[k].address}}
      /\ \A k \in entered' : codes'[k].delivered # {}
      /\ Confirmed \subseteq Confirmed'
  BY DeliveredNext
<1>3. FlagsShown
  BY SoloStep DEF SoloInv
<1>4. ASSUME NEW t \in AccountThreads, Asks(t)
      PROVE  SoloInv'
  <2>1. Busy = {} /\ AlertShown(accountRow)
    BY <1>4, SoloStep
  <2>2. Others(t) /\ UNCHANGED <<accountItem, accountRow, alerts>>
    BY <1>1, <1>4, AsksEffect DEF stores, notifi
  <2>3. /\ Busy' = {t}
        /\ \/ /\ step'[t] = "saveItem" /\ request'[t].kind = "set"
              /\ saving'[t].next = "readRow"
              /\ VerifiedIn(saving[t].fields)' = {}
           \/ step'[t] = "find" /\ request'[t].kind \in {"send", "verify"}
    <3>1. CASE AskSetting(t)
      <4>1. PICK c \in Channels : \E a \in AddressesOf(c) :
              /\ Accept(t, "saveItem", [kind |-> "set", channel |-> c, address |-> a])
              /\ Saving(t, [f \in {c} |-> NewAddress(a)], "readRow")
        BY <3>1 DEF AskSetting
      <4>2. PICK a \in AddressesOf(c) :
              /\ Accept(t, "saveItem", [kind |-> "set", channel |-> c, address |-> a])
              /\ Saving(t, [f \in {c} |-> NewAddress(a)], "readRow")
        BY <4>1
      <4>3. /\ step'[t] = "saveItem" /\ request'[t].kind = "set" /\ saving'[t].next = "readRow"
            /\ saving'[t].fields = [f \in {c} |-> NewAddress(a)]
        BY <1>1, <4>2 DEF Accept, Saving, ThreadsAre
      <4>4. VerifiedIn(saving[t].fields)' = {}
        BY <4>3 DEF VerifiedIn, NewAddress
      <4>5. step'[t] # "idle"
        BY <4>3
      <4>6. Busy' = {t}
        BY <2>1, <2>2, <4>5 DEF Busy, Others
      <4> QED
        BY <4>3, <4>4, <4>6
    <3>2. CASE AskCode(t)
      <4>1. PICK c : Accept(t, "find", [kind |-> "send", channel |-> c])
        BY <3>2 DEF AskCode
      <4>2. step'[t] = "find" /\ request'[t].kind = "send"
        BY <1>1, <4>1 DEF Accept, ThreadsAre
      <4>3. Busy' = {t}
        BY <2>1, <2>2, <4>2 DEF Busy, Others
      <4> QED
        BY <4>2, <4>3
    <3>3. CASE EnterCode(t)
      <4>1. PICK c, k : Accept(t, "find", [kind |-> "verify", channel |-> c, code |-> k])
        BY <3>3 DEF EnterCode
      <4>2. step'[t] = "find" /\ request'[t].kind = "verify"
        BY <1>1, <4>1 DEF Accept, ThreadsAre
      <4>3. Busy' = {t}
        BY <2>1, <2>2, <4>2 DEF Busy, Others
      <4> QED
        BY <4>2, <4>3
    <3> QED
      BY <1>4, <3>1, <3>2, <3>3 DEF Asks
  <2>4. AlertShown(accountRow)' /\ AlertHeld(accountRow["alert"])'
    BY <2>1, <2>2 DEF AlertShown, AlertHeld, TargetsOf
  <2>5. AlertInv(t)'
    BY <2>3, <2>4 DEF AlertInv, Writes, AlertSteps
  <2>6. FlagsShown'
    <3>1. VerifiedIn(accountItem)' = VerifiedIn(accountItem)
          /\ VerifiedIn(accountRow)' = VerifiedIn(accountRow)
      BY <2>2 DEF VerifiedIn
    <3>2. step'[t] \in Writes => VerifiedIn(saving[t].fields)' \subseteq Confirmed'
      BY <2>3 DEF Writes
    <3>3. step'[t] \notin AlertSteps
      BY <2>3 DEF AlertSteps
    <3>4. VerifiedIn(accountItem)' \subseteq Confirmed' /\ VerifiedIn(accountRow)' \subseteq Confirmed'
      BY <1>2, <1>3, <3>1 DEF FlagsShown
    <3>5. \A q \in Busy' : q = t
      BY <2>3
    <3> QED
      BY <3>2, <3>3, <3>4, <3>5 DEF FlagsShown
  <2>7. Busy' # {} /\ \A q \in Busy' : AlertInv(q)'
    BY <2>3, <2>5
  <2> QED
    BY <1>2, <2>6, <2>7 DEF SoloInv
<1>5. ASSUME NEW t \in AccountThreads, Goes(t)
      PROVE  SoloInv'
  <2>1. Busy = {t} /\ Others(t)
    BY <1>1, <1>5, GoesEffect, SoloStep
  <2>2. Busy' \subseteq {t} /\ (step'[t] # "idle" => t \in Busy')
    BY <2>1 DEF Busy, Others
  <2>3. step'[t] = "idle" <=> Busy' = {}
    BY <2>1 DEF Busy, Others
  <2>4. Busy' = {} => AlertShown(accountRow)'
    BY <1>5, <2>3, AlertNext
  <2>5. Busy' # {} => AlertInv(t)'
    BY <1>5, <2>3, AlertNext
  <2>6. FlagsShown'
    BY <1>5, AccountFlagsNext
  <2>7. \A q \in Busy' : AlertInv(q)'
    BY <2>2, <2>5
  <2> QED
    BY <1>2, <2>4, <2>6, <2>7 DEF SoloInv
<1>6. CASE Timers
  BY <1>6, TimersEffect, SoloKept
<1> QED
  BY <1>4, <1>5, <1>6 DEF AccountNext, Asks, Goes, Timers

-----------------------------------------------------------------------------
(* The theorems of an account                                              *)

\* A state in which an account begins satisfies the invariant, whatever the
\* scenario; a step that changes nothing keeps it.
LEMMA AccountStarts ==
  ASSUME AccountInit
  PROVE  AccountInv
<1>1. Busy = {} /\ alerts = <<>> /\ codes = <<>> /\ entered = {}
  BY DEF AccountInit, Busy
<1>2. AccountStores
  <2>1. AccountFields(accountItem) /\ WholeAccount(accountRow)
    BY DEF AccountInit, AccountFields, WholeAccount, Fields, Channels
  <2> QED
    BY <2>1 DEF AccountInit, AccountStores, KeptFor, Addresses
<1>3. CodesType
  <2>1. DOMAIN codes = {} /\ Cardinality({}) = 0
    BY <1>1, FS_EmptySet
  <2>2. 1 .. 0 = {}
    OBVIOUS
  <2>3. codes \in [DOMAIN codes -> [address : Addresses, delivered : SUBSET Addresses]]
    BY <1>1
  <2> QED
    <3>1. Cardinality(DOMAIN codes) = 0
      BY <2>1
    <3>2. /\ Cardinality(DOMAIN codes) \in Nat
          /\ DOMAIN codes = 1 .. Cardinality(DOMAIN codes)
      BY <2>1, <2>2, <3>1
    <3>3. entered \subseteq DOMAIN codes /\ agreed \in BOOLEAN /\ disturbed \in BOOLEAN
      BY <1>1 DEF AccountInit
    <3> QED
      BY <2>3, <3>2, <3>3 DEF CodesType
<1>4. ThreadsType
  <2>1. \A t \in AccountThreads : step[t] = "idle"
    BY DEF AccountInit
  <2>2. \A t \in AccountThreads : ThreadType(t)
    BY <2>1 DEF ThreadType
  <2>3. ThreadsAre
    BY DEF AccountInit, ThreadsAre
  <2> QED
    BY <2>2, <2>3 DEF ThreadsType, ThreadsAre
<1>5. AloneInv /\ AgreeInv
  BY <1>1 DEF AccountInit, AloneInv, AgreeInv, SameField, Fields, Channels
<1>6. SoloInv
  <2>1. AlertShown(accountRow)
    BY <1>1 DEF AccountInit, AlertShown, AlertHeld, Fields, Channels
  <2>2. FlagsShown
    BY <1>1 DEF AccountInit, FlagsShown, VerifiedIn, Fields, Channels
  <2> QED
    BY <1>1, <2>1, <2>2 DEF SoloInv
<1> QED
  BY <1>2, <1>3, <1>4, <1>5, <1>6 DEF AccountInv

LEMMA AccountStutters ==
  ASSUME AccountInv, UNCHANGED accountVars
  PROVE  AccountInv'
<1>1. UNCHANGED <<stores, notifi, serving, ghosts>> /\ Busy' = Busy
  BY DEF accountVars, Busy, serving
<1>2. AccountStores' /\ CodesType'
  BY <1>1 DEF AccountInv, AccountStores, CodesType, KeptFor, WholeAccount, AccountFields,
              stores, notifi, ghosts
<1>3. ThreadsType'
  BY <1>1 DEF AccountInv, ThreadsType, ThreadType, SettingType, SendingType, VerifyingType,
              WholeAccount, AccountFields, serving, ghosts
<1>4. AloneInv' /\ AgreeInv'
  BY <1>1 DEF AccountInv, AloneInv, AgreeInv, SameField, SavedItem, stores, serving, ghosts
<1>5. SoloInv'
  BY <1>1, SoloKept DEF AccountInv, stores
<1> QED
  BY <1>2, <1>3, <1>4, <1>5 DEF AccountInv

\* Whatever requests on the account overlap, fail or end between two writes,
\* and whenever old codes are removed: fields, codes and requests have their
\* types, every code kept in a store was made for its address, the stores
\* agree but for what is being saved, and as long as requests come one after
\* the other Notifi holds at most one alert, the one of the account
\* (AccountService, OtpService).
THEOREM AccountInvariant == AccountSpec => []AccountInv
<1>1. AccountInit => AccountInv
  BY AccountStarts
<1>2. AccountInv /\ [AccountNext]_accountVars => AccountInv'
  BY AccountStoresNext, CodesNext, ThreadsNext, AloneNext, AgreeNext, SoloNext, AccountStutters
     DEF AccountInv
<1> QED
  BY <1>1, <1>2, PTL DEF AccountSpec

\* An address is shown as verified, in either store, only after a code that was
\* delivered to that address and to no other was entered, as long as requests
\* come one after the other (verifyEmail, createNotifiAlert).
THEOREM AddressesAreConfirmed == AccountSpec => []AddressConfirmed
<1>1. AccountInv => AddressConfirmed
  <2> SUFFICES ASSUME AccountInv, ~disturbed
               PROVE  AddressConfirmed
    BY DEF AddressConfirmed
  <2>1. VerifiedIn(accountItem) \cup VerifiedIn(accountRow) \subseteq Confirmed
    BY DEF AccountInv, SoloInv, FlagsShown
  <2> QED
    BY <2>1 DEF AddressConfirmed, Confirmed
<1> QED
  BY <1>1, AccountInvariant, PTL

\* Between requests the item and the row of the account are the same, unless
\* requests overlapped or one ended between its two writes, and again after an
\* address is set by a request of its own (AccountService.create).
THEOREM AccountsAlwaysAgree == AccountSpec => []AccountsAgree
<1>1. AccountInv => AccountsAgree
  BY DEF AccountInv, AgreeInv, SameField, AccountsAgree, Busy
<1> QED
  BY <1>1, AccountInvariant, PTL

(***************************************************************************)
(* The inbox of an account                                                 *)
(***************************************************************************)
NoteFlags == [muted : BOOLEAN, read : BOOLEAN, archived : BOOLEAN]

\* Notes with an item or a row.
NoteTable(notes) ==
  /\ DOMAIN notes \subseteq Notes /\ notes = [n \in DOMAIN notes |-> notes[n]]
  /\ \A n \in DOMAIN notes : notes[n] \in NoteFlags

SettingsTable(settings) ==
  /\ DOMAIN settings \subseteq Scopes /\ settings = [s \in DOMAIN settings |-> settings[s]]
  /\ \A s \in DOMAIN settings : settings[s] \in SettingsChoices

Ids == {Absent} \cup SUBSET Notes

InboxStores ==
  /\ NoteTable(noteItem) /\ NoteTable(noteRow)
  /\ unreadIds \in Ids /\ unarchivedIds \in Ids
  /\ SettingsTable(settingsItem) /\ SettingsTable(settingsRow)
  /\ connected \subseteq Sockets /\ pushed \in [Sockets -> SUBSET Notes]
  /\ calm \in BOOLEAN

\* A note that is saved: its item, its entries in the lists, its row.
Keeping == {"readIds", "saveIds", "saveNote"}

KeepingType(t) ==
  /\ noteAsk[t].note \in Notes
  /\ noteStep[t] \in {"readIds", "saveNote"} => noteHolds[t] \in NoteFlags
  /\ noteStep[t] = "saveIds" =>
       noteHolds[t] \in [flags : NoteFlags, unread : SUBSET Notes, unarchived : SUBSET Notes]

EventType(t) ==
  /\ noteAsk[t].kind = "event" /\ noteAsk[t].note \in Notes /\ noteAsk[t].required \in BOOLEAN
  /\ \/ noteStep[t] = "decide"
     \/ noteStep[t] = "putItem" /\ noteHolds[t].muted \in BOOLEAN
     \/ noteStep[t] \in Keeping /\ KeepingType(t)
     \/ noteStep[t] = "push" /\ noteHolds[t] \in NoteFlags

UpdateType(t) ==
  /\ noteAsk[t].kind = "update" /\ noteAsk[t].note \in Notes /\ noteAsk[t].flags \in NoteFlags
  /\ \/ noteStep[t] \in {"findNote", "saveFlags"}
     \/ noteStep[t] \in Keeping /\ KeepingType(t)

WholeType(t) ==
  /\ noteAsk[t].kind \in {"readAll", "archiveAll"}
  /\ \/ noteStep[t] = "getIds"
     \/ noteStep[t] \in {"updateItem", "clearIds", "updateRows"} /\ noteHolds[t] \subseteq Notes

SettingsType(t) ==
  /\ noteAsk[t].kind = "settings"
  /\ noteAsk[t].scope \in Scopes /\ noteAsk[t].choice \in SettingsChoices
  /\ \/ noteStep[t] \in {"getSettings", "saveSettingsRow"}
     \/ noteStep[t] = "saveSettings" /\ SettingsTable(noteHolds[t])

ServingType(t) ==
  \/ noteStep[t] = "idle"
  \/ EventType(t) \/ UpdateType(t) \/ WholeType(t) \/ SettingsType(t)

NoteThreadsAre ==
  /\ noteStep = [t \in NoteThreads |-> noteStep[t]]
  /\ noteAsk = [t \in NoteThreads |-> noteAsk[t]]
  /\ noteHolds = [t \in NoteThreads |-> noteHolds[t]]

InboxThreads == NoteThreadsAre /\ \A t \in NoteThreads : ServingType(t)

\* The list of unread ids is that of the rows.
ListShown == unreadIds = IF DOMAIN noteRow = {} THEN Absent ELSE UnreadRows

\* The item of a note is as its row.
ItemShown(n) ==
  n \in DOMAIN noteRow /\ noteItem[n].read = noteRow[n].read /\ noteItem[n].muted = noteRow[n].muted

ItemsShown == \A n \in DOMAIN noteItem : ItemShown(n)

\* The list with the note that is being saved.
ListWith(n, flags) == unreadIds = Listed(UnreadRows, n, flags.read)

\* What a request that nothing overlaps has changed so far.
KeepingInv(t) ==
  LET n == noteAsk[t].note
      flags == IF noteStep[t] = "saveIds" THEN noteHolds[t].flags ELSE noteHolds[t]
  IN
  /\ n \in DOMAIN noteItem /\ noteItem[n].read = flags.read /\ noteItem[n].muted = flags.muted
  /\ noteAsk[t].kind = "update" => flags = noteAsk[t].flags
  /\ \A m \in DOMAIN noteItem \ {n} : ItemShown(m)
  /\ noteStep[t] \in {"readIds", "saveIds"} => ListShown
  /\ noteStep[t] = "saveIds" =>
       noteHolds[t].unread = IF unreadIds = Absent THEN {} ELSE unreadIds
  /\ noteStep[t] = "saveNote" => ListWith(n, flags)

\* Items are flagged one by one, the list is cleared early, and the rows follow.
ReadingInv(t) ==
  /\ noteHolds[t] \subseteq UnreadRows
  /\ noteStep[t] \in {"updateItem", "clearIds"} => DOMAIN noteRow # {}
  /\ noteStep[t] = "updateRows" =>
       noteHolds[t] = {} /\ unreadIds = IF DOMAIN noteRow = {} THEN Absent ELSE {}
  /\ \A n \in DOMAIN noteItem :
       /\ n \in DOMAIN noteRow /\ noteItem[n].muted = noteRow[n].muted
       /\ noteItem[n].read <=> (noteRow[n].read \/ n \in UnreadRows \ noteHolds[t])

CalmInv(t) ==
  /\ IF noteStep[t] \in Keeping THEN KeepingInv(t)
     ELSE IF noteAsk[t].kind = "readAll" /\ noteStep[t] # "getIds" THEN ReadingInv(t)
     ELSE ListShown /\ ItemsShown
  /\ IF noteStep[t] = "saveSettingsRow"
       THEN settingsItem = Upsert(settingsRow, noteAsk[t].scope, noteAsk[t].choice)
     ELSE settingsItem = settingsRow
  /\ noteStep[t] = "saveSettings" => noteHolds[t] = settingsItem

InboxCalm ==
  calm => /\ Served = {} => ListShown /\ ItemsShown /\ settingsItem = settingsRow
          /\ \A t \in Served : Served = {t} /\ CalmInv(t)

InboxInv == InboxStores /\ InboxThreads /\ InboxCalm

-----------------------------------------------------------------------------
(* Threads                                                                 *)

NoteOthers(t) ==
  \A q \in NoteThreads \ {t} : /\ noteStep'[q] = noteStep[q] /\ noteAsk'[q] = noteAsk[q]
                               /\ noteHolds'[q] = noteHolds[q]

Arrivals(t) == ReceiveEvent(t) \/ AskInbox(t)

Serves(t) ==
  \/ Decide(t) \/ PutNote(t) \/ ReadIds(t) \/ SaveIds(t) \/ SaveNote(t) \/ Push(t)
  \/ GetIds(t) \/ UpdateItem(t) \/ ClearIds(t) \/ UpdateRows(t)
  \/ FindNote(t) \/ SaveFlags(t) \/ GetSettings(t) \/ SaveSettings(t) \/ SaveSettingsRow(t)

LEMMA ArriveEffect ==
  ASSUME NoteThreadsAre, NEW t \in NoteThreads, NEW first, NEW ask, Arrive(t, first, ask)
  PROVE  /\ NoteThreadsAre' /\ NoteOthers(t) /\ noteStep[t] = "idle"
         /\ noteStep'[t] = first /\ noteAsk'[t] = ask
         /\ UNCHANGED <<noteStores, connected, pushed>> /\ calm' = (calm /\ Served = {})
BY DEF Arrive, NoteThreadsAre, NoteOthers

LEMMA ThenEffect ==
  ASSUME NoteThreadsAre, NEW t \in NoteThreads, NEW next, NEW held, Then(t, next, held)
  PROVE  /\ NoteThreadsAre' /\ NoteOthers(t)
         /\ noteStep'[t] = next /\ noteHolds'[t] = held /\ noteAsk' = noteAsk
BY DEF Then, NoteThreadsAre, NoteOthers

LEMMA DropEffect ==
  ASSUME NoteThreadsAre, NEW t \in NoteThreads, Drop(t)
  PROVE  NoteThreadsAre' /\ NoteOthers(t) /\ noteStep'[t] = "idle"
BY DEF Drop, NoteThreadsAre, NoteOthers

LEMMA OtherServing ==
  ASSUME NEW q \in NoteThreads, ServingType(q), noteStep'[q] = noteStep[q],
         noteAsk'[q] = noteAsk[q], noteHolds'[q] = noteHolds[q]
  PROVE  ServingType(q)'
<1>1. EventType(q) => EventType(q)'
  BY DEF EventType, KeepingType
<1>2. UpdateType(q) => UpdateType(q)'
  BY DEF UpdateType, KeepingType
<1>3. WholeType(q) => WholeType(q)'
  BY DEF WholeType
<1>4. SettingsType(q) => SettingsType(q)'
  BY DEF SettingsType, SettingsTable
<1> QED
  BY <1>1, <1>2, <1>3, <1>4 DEF ServingType

LEMMA ThreadsFrom ==
  ASSUME InboxThreads, NEW t \in NoteThreads, NoteThreadsAre', NoteOthers(t), ServingType(t)'
  PROVE  InboxThreads'
<1>1. \A q \in NoteThreads \ {t} : ServingType(q)'
  BY OtherServing DEF InboxThreads, NoteOthers
<1> QED
  BY <1>1 DEF InboxThreads

\* What a request may be by the step it is at.
LEMMA StepTypes ==
  ASSUME InboxThreads, NEW t \in NoteThreads
  PROVE  /\ noteStep[t] \in {"decide", "putItem", "push"} => EventType(t)
         /\ noteStep[t] \in Keeping => KeepingType(t) /\ (EventType(t) \/ UpdateType(t))
         /\ noteStep[t] \in {"findNote", "saveFlags"} => UpdateType(t)
         /\ noteStep[t] \in {"getIds", "updateItem", "clearIds", "updateRows"} => WholeType(t)
         /\ noteStep[t] \in {"getSettings", "saveSettings", "saveSettingsRow"} => SettingsType(t)
<1>1. ServingType(t)
  BY DEF InboxThreads
<1>2. EventType(t) => noteStep[t] \in {"decide", "putItem", "push"} \cup Keeping
  BY DEF EventType
<1>3. UpdateType(t) => noteStep[t] \in {"findNote", "saveFlags"} \cup Keeping
  BY DEF UpdateType
<1>4. WholeType(t) => noteStep[t] \in {"getIds", "updateItem", "clearIds", "updateRows"}
  BY DEF WholeType
<1>5. SettingsType(t) => noteStep[t] \in {"getSettings", "saveSettings", "saveSettingsRow"}
  BY DEF SettingsType
<1>6. /\ noteStep[t] \in Keeping /\ EventType(t) => KeepingType(t)
      /\ noteStep[t] \in Keeping /\ UpdateType(t) => KeepingType(t)
  BY DEF EventType, UpdateType, Keeping
<1> QED
  BY <1>1, <1>2, <1>3, <1>4, <1>5, <1>6 DEF ServingType, Keeping

\* The notes that are put and changed.
LEMMA NoteUpsert ==
  ASSUME NEW notes, NEW n \in Notes, NEW flags \in NoteFlags, NoteTable(notes)
  PROVE  /\ NoteTable(Upsert(notes, n, flags)) /\ Upsert(notes, n, flags)[n] = flags
         /\ DOMAIN Upsert(notes, n, flags) = DOMAIN notes \cup {n}
         /\ \A m \in DOMAIN notes \ {n} : Upsert(notes, n, flags)[m] = notes[m]
BY DEF NoteTable, Upsert

LEMMA FlaggedType ==
  ASSUME NEW flags \in NoteFlags, NEW kind
  PROVE  /\ Flagged(flags, kind) \in NoteFlags
         /\ Flagged(flags, kind).muted = flags.muted
         /\ Flagged(flags, kind).read = IF kind = "readAll" THEN TRUE ELSE flags.read
BY DEF Flagged, NoteFlags

LEMMA ListedType ==
  ASSUME NEW ids \in SUBSET Notes, NEW n \in Notes, NEW out
  PROVE  Listed(ids, n, out) \in SUBSET Notes
BY DEF Listed

LEMMA NewNoteType ==
  ASSUME NEW muted \in BOOLEAN
  PROVE  NewNote(muted) \in NoteFlags
BY DEF NewNote, NoteFlags

LEMMA StatusType ==
  ASSUME NEW settings, NEW required \in BOOLEAN
  PROVE  Status(settings, required).muted \in BOOLEAN
BY DEF Status

\* The row of a note that is saved.
LEMMA RowAfterType ==
  ASSUME InboxStores, InboxThreads, NEW t \in NoteThreads, noteStep[t] = "saveNote"
  PROVE  /\ RowAfter(t) \in NoteFlags
         /\ noteAsk[t].kind = "event" => /\ RowAfter(t).read = noteHolds[t].read
                                         /\ RowAfter(t).muted = noteHolds[t].muted
         /\ noteAsk[t].kind # "event" => RowAfter(t) = noteAsk[t].flags
<1>1. KeepingType(t) /\ (EventType(t) \/ UpdateType(t))
  BY StepTypes DEF Keeping
<1>2. noteAsk[t].note \in Notes /\ noteHolds[t] \in NoteFlags
  BY <1>1 DEF KeepingType
<1>3. CASE noteAsk[t].kind = "event"
  <2> DEFINE n == noteAsk[t].note
             kept == IF n \in DOMAIN noteRow THEN noteRow[n].archived ELSE FALSE
  <2>1. kept \in BOOLEAN
    BY <1>2 DEF InboxStores, NoteTable, NoteFlags
  <2>2. RowAfter(t) = [noteHolds[t] EXCEPT !.archived = kept]
    BY <1>3 DEF RowAfter
  <2> HIDE DEF kept
  <2> QED
    BY <1>2, <1>3, <2>1, <2>2 DEF NoteFlags
<1>4. CASE noteAsk[t].kind # "event"
  BY <1>1, <1>4 DEF RowAfter, EventType, UpdateType
<1> QED
  BY <1>3, <1>4

-----------------------------------------------------------------------------
(* Types                                                                   *)

\* What is asked.
LEMMA ArrivesWith ==
  ASSUME NEW t \in NoteThreads, Arrivals(t)
  PROVE  \E first, ask :
          /\ Arrive(t, first, ask)
          /\ \/ /\ first = "decide" /\ ask.kind = "event"
                /\ ask.note \in Notes /\ ask.required \in BOOLEAN
             \/ first = "getIds" /\ ask.kind \in {"readAll", "archiveAll"}
             \/ /\ first = "findNote" /\ ask.kind = "update"
                /\ ask.note \in Notes /\ ask.flags \in NoteFlags
             \/ /\ first = "getSettings" /\ ask.kind = "settings"
                /\ ask.scope \in Scopes /\ ask.choice \in SettingsChoices
<1>1. CASE ReceiveEvent(t)
  <2>1. PICK n \in Notes : \E required \in BOOLEAN :
          Arrive(t, "decide", [kind |-> "event", note |-> n, required |-> required])
    BY <1>1 DEF ReceiveEvent
  <2>2. PICK required \in BOOLEAN :
          Arrive(t, "decide", [kind |-> "event", note |-> n, required |-> required])
    BY <2>1
  <2> QED
    BY <2>2
<1>2. CASE "readAll" \in noteBudget.asked /\ Arrive(t, "getIds", [kind |-> "readAll"])
  BY <1>2
<1>3. CASE "archiveAll" \in noteBudget.asked /\ Arrive(t, "getIds", [kind |-> "archiveAll"])
  BY <1>3
<1>4. CASE \E n \in Notes, f \in NoteFlags :
             Arrive(t, "findNote", [kind |-> "update", note |-> n, flags |-> f])
  <2>1. PICK n \in Notes : \E f \in NoteFlags :
          Arrive(t, "findNote", [kind |-> "update", note |-> n, flags |-> f])
    BY <1>4
  <2>2. PICK f \in NoteFlags :
          Arrive(t, "findNote", [kind |-> "update", note |-> n, flags |-> f])
    BY <2>1
  <2> QED
    BY <2>2
<1>5. CASE \E s \in Scopes, c \in SettingsChoices :
             Arrive(t, "getSettings", [kind |-> "settings", scope |-> s, choice |-> c])
  <2>1. PICK s \in Scopes : \E c \in SettingsChoices :
          Arrive(t, "getSettings", [kind |-> "settings", scope |-> s, choice |-> c])
    BY <1>5
  <2>2. PICK c \in SettingsChoices :
          Arrive(t, "getSettings", [kind |-> "settings", scope |-> s, choice |-> c])
    BY <2>1
  <2> QED
    BY <2>2
<1>6. CASE AskInbox(t)
  BY <1>6, <1>2, <1>3, <1>4, <1>5 DEF AskInbox, NoteFlags
<1> QED
  BY <1>1, <1>6 DEF Arrivals

LEMMA InboxArrives ==
  ASSUME InboxStores, InboxThreads, NEW t \in NoteThreads, Arrivals(t)
  PROVE  InboxStores' /\ InboxThreads'
<1>0. NoteThreadsAre
  BY DEF InboxThreads
<1>1. PICK first, ask :
        /\ Arrive(t, first, ask)
        /\ \/ /\ first = "decide" /\ ask.kind = "event"
              /\ ask.note \in Notes /\ ask.required \in BOOLEAN
           \/ first = "getIds" /\ ask.kind \in {"readAll", "archiveAll"}
           \/ /\ first = "findNote" /\ ask.kind = "update"
              /\ ask.note \in Notes /\ ask.flags \in NoteFlags
           \/ /\ first = "getSettings" /\ ask.kind = "settings"
              /\ ask.scope \in Scopes /\ ask.choice \in SettingsChoices
  BY ArrivesWith
<1>2. /\ NoteThreadsAre' /\ NoteOthers(t) /\ noteStep'[t] = first /\ noteAsk'[t] = ask
      /\ UNCHANGED <<noteStores, connected, pushed>> /\ calm' = (calm /\ Served = {})
  BY <1>0, <1>1, ArriveEffect
<1>3. ServingType(t)'
  BY <1>1, <1>2 DEF ServingType, EventType, UpdateType, WholeType, SettingsType
<1>4. InboxStores'
  BY <1>2 DEF InboxStores, NoteTable, SettingsTable, noteStores
<1> QED
  BY <1>2, <1>3, <1>4, ThreadsFrom

\* What is left as it is keeps its type.
LEMMA StoresKept ==
  ASSUME InboxStores
  PROVE  /\ noteItem' = noteItem => NoteTable(noteItem)'
         /\ noteRow' = noteRow => NoteTable(noteRow)'
         /\ settingsItem' = settingsItem => SettingsTable(settingsItem)'
         /\ settingsRow' = settingsRow => SettingsTable(settingsRow)'
BY DEF InboxStores, NoteTable, SettingsTable

LEMMA SettingsUpsert ==
  ASSUME NEW settings, NEW s \in Scopes, NEW c \in SettingsChoices, SettingsTable(settings)
  PROVE  SettingsTable(Upsert(settings, s, c))
BY DEF SettingsTable, Upsert

LEMMA InboxStoresServe ==
  ASSUME InboxStores, InboxThreads, NEW t \in NoteThreads, Serves(t)
  PROVE  InboxStores'
<1>0. NoteThreadsAre
  BY DEF InboxThreads
<1>1. CASE Decide(t) \/ ReadIds(t) \/ GetIds(t) \/ FindNote(t) \/ GetSettings(t)
  BY <1>1, StoresKept
     DEF Decide, ReadIds, GetIds, FindNote, GetSettings, InboxStores, noteStores
<1>2. CASE PutNote(t)
  <2> DEFINE n == noteAsk[t].note
             flags == NewNote(noteHolds[t].muted)
  <2>1. noteStep[t] = "putItem" /\ noteItem' = Upsert(noteItem, n, flags)
        /\ UNCHANGED <<unreadIds, unarchivedIds, noteRow, settingsItem, settingsRow, connected,
                       pushed, calm>>
    BY <1>2 DEF PutNote
  <2>2. n \in Notes /\ flags \in NoteFlags
    BY <2>1, StepTypes, NewNoteType DEF EventType, Keeping
  <2> HIDE DEF n, flags
  <2>3. NoteTable(Upsert(noteItem, n, flags))
    BY <2>2, NoteUpsert DEF InboxStores
  <2>4. NoteTable(noteItem)'
    BY <2>1, <2>3 DEF NoteTable
  <2> QED
    BY <2>1, <2>4, StoresKept DEF InboxStores
<1>3. CASE SaveIds(t)
  <2>1. noteStep[t] = "saveIds"
        /\ unreadIds' = Listed(noteHolds[t].unread, noteAsk[t].note, noteHolds[t].flags.read)
        /\ unarchivedIds' = Listed(noteHolds[t].unarchived, noteAsk[t].note,
                                   noteHolds[t].flags.archived)
        /\ UNCHANGED <<noteItem, noteRow, settingsItem, settingsRow, connected, pushed, calm>>
    BY <1>3 DEF SaveIds
  <2>2. noteAsk[t].note \in Notes /\ noteHolds[t].unread \in SUBSET Notes
        /\ noteHolds[t].unarchived \in SUBSET Notes
    BY <2>1, StepTypes DEF KeepingType, Keeping
  <2>3. unreadIds' \in Ids /\ unarchivedIds' \in Ids
    BY <2>1, <2>2, ListedType DEF Ids
  <2> QED
    BY <2>1, <2>3, StoresKept DEF InboxStores
<1>4. CASE SaveNote(t)
  <2> DEFINE n == noteAsk[t].note
             flags == RowAfter(t)
  <2>1. noteStep[t] = "saveNote" /\ noteRow' = Upsert(noteRow, n, flags)
        /\ UNCHANGED <<noteItem, unreadIds, unarchivedIds, settingsItem, settingsRow, connected,
                       pushed, calm>>
    BY <1>4 DEF SaveNote
  <2>2. n \in Notes /\ flags \in NoteFlags
    BY <2>1, StepTypes, RowAfterType DEF KeepingType, Keeping
  <2> HIDE DEF n, flags
  <2>3. NoteTable(Upsert(noteRow, n, flags))
    BY <2>2, NoteUpsert DEF InboxStores
  <2>4. NoteTable(noteRow)'
    BY <2>1, <2>3 DEF NoteTable
  <2> QED
    BY <2>1, <2>4, StoresKept DEF InboxStores
<1>5. CASE Push(t)
  <2>1. noteStep[t] = "push" /\ UNCHANGED <<noteStores, connected, calm>>
        /\ pushed' = IF noteHolds[t].muted THEN pushed
                     ELSE [s \in Sockets |-> IF s \in connected
                                               THEN pushed[s] \cup {noteAsk[t].note}
                                               ELSE pushed[s]]
    BY <1>5 DEF Push
  <2>2. noteAsk[t].note \in Notes
    BY <2>1, StepTypes DEF EventType
  <2>3. pushed' \in [Sockets -> SUBSET Notes]
    BY <2>1, <2>2 DEF InboxStores
  <2> QED
    BY <2>1, <2>3, StoresKept DEF InboxStores, noteStores
<1>6. CASE UpdateItem(t)
  <2>1. noteStep[t] = "updateItem"
        /\ UNCHANGED <<unreadIds, unarchivedIds, noteRow, settingsItem, settingsRow, connected,
                       pushed>>
    BY <1>6 DEF UpdateItem
  <2>2. calm' \in BOOLEAN
    BY <1>6 DEF UpdateItem, InboxStores
  <2>3. noteItem' = noteItem
        \/ \E n \in DOMAIN noteItem :
             noteItem' = [noteItem EXCEPT ![n] = Flagged(@, noteAsk[t].kind)]
    BY <1>6 DEF UpdateItem
  <2>4. NoteTable(noteItem)'
    <3>1. CASE noteItem' = noteItem
      BY <3>1, StoresKept
    <3>2. ASSUME NEW n \in DOMAIN noteItem,
                 noteItem' = [noteItem EXCEPT ![n] = Flagged(@, noteAsk[t].kind)]
          PROVE  NoteTable(noteItem)'
      <4>1. noteItem[n] \in NoteFlags
        BY <3>2 DEF InboxStores, NoteTable
      <4>2. Flagged(noteItem[n], noteAsk[t].kind) \in NoteFlags
        BY <4>1, FlaggedType
      <4>3. DOMAIN noteItem' = DOMAIN noteItem
            /\ noteItem' = [m \in DOMAIN noteItem' |-> noteItem'[m]]
            /\ \A m \in DOMAIN noteItem : noteItem'[m] = IF m = n
                 THEN Flagged(noteItem[n], noteAsk[t].kind) ELSE noteItem[m]
        BY <3>2
      <4> QED
        BY <4>2, <4>3 DEF InboxStores, NoteTable
    <3> QED
      BY <2>3, <3>1, <3>2
  <2> QED
    BY <2>1, <2>2, <2>4, StoresKept DEF InboxStores
<1>7. CASE ClearIds(t)
  <2>1. /\ unreadIds' \in {unreadIds, {}} /\ unarchivedIds' \in {unarchivedIds, {}}
        /\ UNCHANGED <<noteItem, noteRow, settingsItem, settingsRow, connected, pushed, calm>>
    BY <1>7 DEF ClearIds
  <2>2. unreadIds' \in Ids /\ unarchivedIds' \in Ids
    BY <2>1 DEF InboxStores, Ids
  <2> QED
    BY <2>1, <2>2, StoresKept DEF InboxStores
<1>8. CASE UpdateRows(t)
  <2>1. noteRow' = [n \in DOMAIN noteRow |-> Flagged(noteRow[n], noteAsk[t].kind)]
        /\ UNCHANGED <<noteItem, unreadIds, unarchivedIds, settingsItem, settingsRow, connected,
                       pushed, calm>>
    BY <1>8 DEF UpdateRows
  <2>2. \A n \in DOMAIN noteRow : Flagged(noteRow[n], noteAsk[t].kind) \in NoteFlags
    BY FlaggedType DEF InboxStores, NoteTable
  <2>3. NoteTable(noteRow)'
    BY <2>1, <2>2 DEF InboxStores, NoteTable
  <2> QED
    BY <2>1, <2>3, StoresKept DEF InboxStores
<1>9. CASE SaveFlags(t)
  <2> DEFINE n == noteAsk[t].note
             flags == noteAsk[t].flags
  <2>1. noteStep[t] = "saveFlags" /\ noteItem' = Upsert(noteItem, n, flags)
        /\ UNCHANGED <<unreadIds, unarchivedIds, noteRow, settingsItem, settingsRow, connected,
                       pushed>>
        /\ calm' = (calm /\ n \in DOMAIN noteItem)
    BY <1>9 DEF SaveFlags
  <2>2. n \in Notes /\ flags \in NoteFlags
    BY <2>1, StepTypes DEF UpdateType
  <2> HIDE DEF n, flags
  <2>3. NoteTable(Upsert(noteItem, n, flags))
    BY <2>2, NoteUpsert DEF InboxStores
  <2>4. NoteTable(noteItem)'
    BY <2>1, <2>3 DEF NoteTable
  <2> QED
    BY <2>1, <2>4, StoresKept DEF InboxStores
<1>10. CASE SaveSettings(t)
  <2>1. noteStep[t] = "saveSettings"
        /\ settingsItem' = Upsert(noteHolds[t], noteAsk[t].scope, noteAsk[t].choice)
        /\ UNCHANGED <<noteItem, unreadIds, unarchivedIds, noteRow, settingsRow, connected,
                       pushed, calm>>
    BY <1>10 DEF SaveSettings
  <2>2. SettingsTable(Upsert(noteHolds[t], noteAsk[t].scope, noteAsk[t].choice))
    BY <2>1, StepTypes, SettingsUpsert DEF SettingsType
  <2>3. SettingsTable(settingsItem)'
    BY <2>1, <2>2 DEF SettingsTable
  <2> QED
    BY <2>1, <2>3, StoresKept DEF InboxStores
<1>11. CASE SaveSettingsRow(t)
  <2>1. noteStep[t] = "saveSettingsRow"
        /\ settingsRow' = Upsert(settingsRow, noteAsk[t].scope, noteAsk[t].choice)
        /\ UNCHANGED <<noteItem, unreadIds, unarchivedIds, noteRow, settingsItem, connected,
                       pushed, calm>>
    BY <1>11 DEF SaveSettingsRow
  <2>2. SettingsTable(Upsert(settingsRow, noteAsk[t].scope, noteAsk[t].choice))
    BY <2>1, StepTypes, SettingsUpsert DEF SettingsType, InboxStores
  <2>3. SettingsTable(settingsRow)'
    BY <2>1, <2>2 DEF SettingsTable
  <2> QED
    BY <2>1, <2>3, StoresKept DEF InboxStores
<1> QED
  BY <1>1, <1>2, <1>3, <1>4, <1>5, <1>6, <1>7, <1>8, <1>9, <1>10, <1>11 DEF Serves

LEMMA IdsRead ==
  ASSUME NEW ids \in Ids
  PROVE  (IF ids = Absent THEN {} ELSE ids) \in SUBSET Notes
BY DEF Ids

\* A request goes on with what it holds, or it is over.
LEMMA InboxThreadsServe ==
  ASSUME InboxStores, InboxThreads, NEW t \in NoteThreads, Serves(t)
  PROVE  InboxThreads' /\ NoteOthers(t) /\ noteStep[t] # "idle"
<1>0. NoteThreadsAre
  BY DEF InboxThreads
<1>1. ASSUME Drop(t), noteStep[t] # "idle"
      PROVE  InboxThreads' /\ NoteOthers(t) /\ noteStep[t] # "idle"
  <2>1. NoteThreadsAre' /\ NoteOthers(t) /\ noteStep'[t] = "idle"
    BY <1>0, <1>1, DropEffect
  <2>2. ServingType(t)'
    BY <2>1 DEF ServingType
  <2> QED
    BY <1>1, <2>1, <2>2, ThreadsFrom
<1>2. ASSUME NEW next, NEW held, Then(t, next, held), noteStep[t] # "idle",
             noteAsk'[t] = noteAsk[t] /\ noteStep'[t] = next /\ noteHolds'[t] = held =>
               ServingType(t)'
      PROVE  InboxThreads' /\ NoteOthers(t) /\ noteStep[t] # "idle"
  <2>1. /\ NoteThreadsAre' /\ NoteOthers(t)
        /\ noteStep'[t] = next /\ noteHolds'[t] = held /\ noteAsk' = noteAsk
    BY <1>0, <1>2, ThenEffect
  <2>2. ServingType(t)'
    BY <1>2, <2>1
  <2> QED
    BY <1>2, <2>1, <2>2, ThreadsFrom
<1>3. CASE Decide(t)
  <2>1. PICK muted : noteStep[t] = "decide" /\ muted \in BOOLEAN
                     /\ (Drop(t) \/ Then(t, "putItem", [muted |-> muted]))
    <3> DEFINE settings == IF noteBudget.dynamo THEN settingsItem ELSE settingsRow
               status == Status(settings, noteAsk[t].required)
    <3>1. noteStep[t] = "decide" /\ (Drop(t) \/ Then(t, "putItem", [muted |-> status.muted]))
      BY <1>3 DEF Decide
    <3>2. noteAsk[t].required \in BOOLEAN
      BY <3>1, StepTypes DEF EventType
    <3> HIDE DEF settings
    <3>3. status.muted \in BOOLEAN
      BY <3>2, StatusType
    <3> HIDE DEF status
    <3> QED
      BY <3>1, <3>3
  <2>2. EventType(t)
    BY <2>1, StepTypes
  <2>3. ASSUME Then(t, "putItem", [muted |-> muted])
        PROVE  InboxThreads' /\ NoteOthers(t) /\ noteStep[t] # "idle"
    <3>1. [muted |-> muted].muted = muted
      OBVIOUS
    <3> DEFINE held == [muted |-> muted]
    <3> HIDE DEF held
    <3>2. noteAsk'[t] = noteAsk[t] /\ noteStep'[t] = "putItem" /\ noteHolds'[t] = held =>
            ServingType(t)'
      BY <2>1, <2>2, <3>1 DEF held, ServingType, EventType
    <3> QED
      BY <1>2, <2>1, <2>3, <3>2 DEF held
  <2> QED
    BY <1>1, <2>1, <2>3
<1>4. CASE PutNote(t)
  <2> DEFINE n == noteAsk[t].note
             flags == NewNote(noteHolds[t].muted)
  <2>1. noteStep[t] = "putItem" /\ noteItem' = Upsert(noteItem, n, flags)
        /\ Then(t, "readIds", noteItem'[n])
    BY <1>4 DEF PutNote
  <2>2. EventType(t) /\ n \in Notes /\ flags \in NoteFlags
    BY <2>1, StepTypes, NewNoteType DEF EventType, Keeping
  <2>3. PICK held : held = noteItem'[n]
    OBVIOUS
  <2>4. held \in NoteFlags
    <3> HIDE DEF n, flags
    <3>1. held = Upsert(noteItem, n, flags)[n]
      BY <2>1, <2>3
    <3>2. Upsert(noteItem, n, flags)[n] = flags
      BY DEF Upsert
    <3> QED
      BY <2>2, <3>1, <3>2
  <2>5. noteAsk'[t] = noteAsk[t] /\ noteStep'[t] = "readIds" /\ noteHolds'[t] = held =>
          ServingType(t)'
    BY <2>2, <2>4 DEF ServingType, EventType, KeepingType, Keeping
  <2> QED
    BY <1>2, <2>1, <2>3, <2>5
<1>5. CASE ReadIds(t)
  <2> DEFINE unread == IF unreadIds = Absent THEN {} ELSE unreadIds
             unarchived == IF unarchivedIds = Absent THEN {} ELSE unarchivedIds
             held == [flags |-> noteHolds[t], unread |-> unread, unarchived |-> unarchived]
  <2>1. noteStep[t] = "readIds" /\ Then(t, "saveIds", held)
    BY <1>5 DEF ReadIds
  <2>2. KeepingType(t) /\ (EventType(t) \/ UpdateType(t)) /\ noteHolds[t] \in NoteFlags
    BY <2>1, StepTypes DEF Keeping, KeepingType
  <2>3. unread \in SUBSET Notes /\ unarchived \in SUBSET Notes
    BY IdsRead DEF InboxStores
  <2>4. held \in [flags : NoteFlags, unread : SUBSET Notes, unarchived : SUBSET Notes]
    BY <2>2, <2>3
  <2> HIDE DEF held
  <2>5. noteAsk'[t] = noteAsk[t] /\ noteStep'[t] = "saveIds" /\ noteHolds'[t] = held =>
          ServingType(t)'
    BY <2>2, <2>4 DEF ServingType, EventType, UpdateType, KeepingType, Keeping
  <2> QED
    BY <1>2, <2>1, <2>5
<1>6. CASE SaveIds(t)
  <2> DEFINE held == noteHolds[t].flags
  <2>1. noteStep[t] = "saveIds" /\ Then(t, "saveNote", held)
    BY <1>6 DEF SaveIds
  <2>2. KeepingType(t) /\ (EventType(t) \/ UpdateType(t)) /\ held \in NoteFlags
    BY <2>1, StepTypes DEF Keeping, KeepingType
  <2> HIDE DEF held
  <2>3. noteAsk'[t] = noteAsk[t] /\ noteStep'[t] = "saveNote" /\ noteHolds'[t] = held =>
          ServingType(t)'
    BY <2>2 DEF ServingType, EventType, UpdateType, KeepingType, Keeping
  <2> QED
    BY <1>2, <2>1, <2>3
<1>7. CASE SaveNote(t)
  <2>1. /\ noteStep[t] = "saveNote"
        /\ Drop(t) \/ (noteAsk[t].kind = "event" /\ Then(t, "push", noteHolds[t]))
    BY <1>7 DEF SaveNote
  <2>2. CASE noteAsk[t].kind = "event" /\ Then(t, "push", noteHolds[t])
    <3>1. EventType(t) /\ noteHolds[t] \in NoteFlags
      BY <2>1, <2>2, StepTypes DEF Keeping, KeepingType, UpdateType
    <3>2. noteAsk'[t] = noteAsk[t] /\ noteStep'[t] = "push" /\ noteHolds'[t] = noteHolds[t] =>
            ServingType(t)'
      BY <3>1 DEF ServingType, EventType
    <3> QED
      BY <1>2, <2>1, <2>2, <3>2
  <2> QED
    BY <1>1, <2>1, <2>2
<1>8. CASE Push(t) \/ UpdateRows(t) \/ SaveSettingsRow(t)
  BY <1>1, <1>8 DEF Push, UpdateRows, SaveSettingsRow
<1>9. CASE GetIds(t)
  <2> DEFINE held == IF unreadIds = Absent THEN {} ELSE unreadIds
             next == IF unreadIds \in {Absent, {}} THEN "updateRows" ELSE "updateItem"
  <2>1. noteStep[t] = "getIds" /\ Then(t, next, held)
    BY <1>9 DEF GetIds
  <2>2. WholeType(t) /\ held \in SUBSET Notes
    BY <2>1, StepTypes, IdsRead DEF InboxStores
  <2>4. next \in {"updateRows", "updateItem"}
    OBVIOUS
  <2> HIDE DEF held, next
  <2>3. noteAsk'[t] = noteAsk[t] /\ noteStep'[t] = next /\ noteHolds'[t] = held =>
          ServingType(t)'
    BY <2>2, <2>4 DEF ServingType, WholeType
  <2> QED
    BY <1>2, <2>1, <2>3
<1>10. CASE UpdateItem(t) \/ ClearIds(t)
  <2>1. PICK next, held : /\ noteStep[t] \in {"updateItem", "clearIds"}
                          /\ Drop(t) \/ Then(t, next, held)
                          /\ next \in {"updateItem", "clearIds", "updateRows"}
                          /\ held \subseteq noteHolds[t]
    <3>1. CASE UpdateItem(t)
      <4>1. PICK n : Drop(t) \/ Then(t, "clearIds", noteHolds[t] \ {n})
        BY <3>1 DEF UpdateItem
      <4> QED
        BY <3>1, <4>1 DEF UpdateItem
    <3>2. CASE ClearIds(t)
      BY <3>2 DEF ClearIds
    <3> QED
      BY <1>10, <3>1, <3>2
  <2>2. WholeType(t) /\ held \subseteq Notes
    BY <2>1, StepTypes DEF WholeType
  <2>3. noteAsk'[t] = noteAsk[t] /\ noteStep'[t] = next /\ noteHolds'[t] = held =>
          ServingType(t)'
    BY <2>1, <2>2 DEF ServingType, WholeType
  <2> QED
    BY <1>1, <1>2, <2>1, <2>3
<1>11. CASE FindNote(t)
  <2>1. noteStep[t] = "findNote" /\ (Drop(t) \/ Then(t, "saveFlags", Absent))
    BY <1>11 DEF FindNote
  <2>2. UpdateType(t)
    BY <2>1, StepTypes
  <2>3. noteAsk'[t] = noteAsk[t] /\ noteStep'[t] = "saveFlags" /\ noteHolds'[t] = Absent =>
          ServingType(t)'
    BY <2>2 DEF ServingType, UpdateType
  <2> QED
    BY <1>1, <1>2, <2>1, <2>3
<1>12. CASE SaveFlags(t)
  <2> DEFINE held == noteAsk[t].flags
  <2>1. noteStep[t] = "saveFlags" /\ (Drop(t) \/ Then(t, "readIds", held))
    BY <1>12 DEF SaveFlags
  <2>2. UpdateType(t) /\ held \in NoteFlags
    BY <2>1, StepTypes DEF UpdateType
  <2> HIDE DEF held
  <2>3. noteAsk'[t] = noteAsk[t] /\ noteStep'[t] = "readIds" /\ noteHolds'[t] = held =>
          ServingType(t)'
    BY <2>2 DEF ServingType, UpdateType, KeepingType, Keeping
  <2> QED
    BY <1>1, <1>2, <2>1, <2>3
<1>13. CASE GetSettings(t)
  <2>1. noteStep[t] = "getSettings" /\ Then(t, "saveSettings", settingsItem)
    BY <1>13 DEF GetSettings
  <2>2. SettingsType(t) /\ SettingsTable(settingsItem)
    BY <2>1, StepTypes DEF InboxStores
  <2>3. PICK held : held = settingsItem
    OBVIOUS
  <2>4. SettingsTable(held)
    BY <2>2, <2>3
  <2>5. noteAsk'[t] = noteAsk[t] /\ noteStep'[t] = "saveSettings" /\ noteHolds'[t] = held =>
          ServingType(t)'
    BY <2>2, <2>4 DEF ServingType, SettingsType, SettingsTable
  <2> QED
    BY <1>2, <2>1, <2>3, <2>5
<1>14. CASE SaveSettings(t)
  <2>1. noteStep[t] = "saveSettings" /\ Then(t, "saveSettingsRow", Absent)
    BY <1>14 DEF SaveSettings
  <2>2. SettingsType(t)
    BY <2>1, StepTypes
  <2>3. noteAsk'[t] = noteAsk[t] /\ noteStep'[t] = "saveSettingsRow" /\ noteHolds'[t] = Absent =>
          ServingType(t)'
    BY <2>2 DEF ServingType, SettingsType
  <2> QED
    BY <1>2, <2>1, <2>3
<1> QED
  BY <1>3, <1>4, <1>5, <1>6, <1>7, <1>8, <1>9, <1>10, <1>11, <1>12, <1>13, <1>14 DEF Serves

\* A note expires, a thread is lost, a socket is opened or closed.
LEMMA InboxOthers ==
  ASSUME InboxStores, InboxThreads,
         \/ \E t \in NoteThreads : LoseThread(t)
         \/ \E s \in Sockets : Connection(s)
         \/ \E n \in Notes : Expire(n)
  PROVE  /\ InboxStores' /\ InboxThreads'
         /\ calm' => /\ UNCHANGED <<unreadIds, noteRow, settingsItem, settingsRow, noteServing>>
                     /\ calm /\ (noteItem' # noteItem => Served = {})
                     /\ DOMAIN noteItem' \subseteq DOMAIN noteItem
                     /\ \A n \in DOMAIN noteItem' : noteItem'[n] = noteItem[n]
<1>1. ASSUME NEW t \in NoteThreads, LoseThread(t)
      PROVE  InboxStores' /\ InboxThreads' /\ ~calm'
  <2>1. NoteThreadsAre' /\ NoteOthers(t) /\ noteStep'[t] = "idle" /\ ~calm'
    BY <1>1 DEF LoseThread, InboxThreads, NoteThreadsAre, NoteOthers
  <2>2. InboxThreads'
    BY <2>1, ThreadsFrom DEF ServingType
  <2>3. InboxStores'
    BY <1>1, StoresKept DEF LoseThread, InboxStores, noteStores
  <2> QED
    BY <2>1, <2>2, <2>3
<1>2. ASSUME UNCHANGED noteServing
      PROVE  InboxThreads'
  <2>1. \A q \in NoteThreads : ServingType(q)'
    BY <1>2, OtherServing DEF noteServing, InboxThreads
  <2> QED
    BY <1>2, <2>1 DEF noteServing, InboxThreads, NoteThreadsAre
<1>3. ASSUME NEW s \in Sockets, Connection(s)
      PROVE  /\ InboxStores' /\ InboxThreads'
             /\ UNCHANGED <<noteStores, noteServing, calm>>
  <2>1. InboxStores'
    BY <1>3, StoresKept DEF Connection, InboxStores, noteStores
  <2> QED
    BY <1>2, <1>3, <2>1 DEF Connection
<1>4. ASSUME NEW n \in Notes, Expire(n)
      PROVE  /\ InboxStores' /\ InboxThreads'
             /\ UNCHANGED <<unreadIds, noteRow, settingsItem, settingsRow, noteServing>>
             /\ calm' = (calm /\ Served = {})
             /\ noteItem' = [m \in DOMAIN noteItem \ {n} |-> noteItem[m]]
  <2>1. NoteTable(noteItem)'
    BY <1>4 DEF Expire, InboxStores, NoteTable
  <2>2. InboxStores'
    BY <1>4, <2>1, StoresKept DEF Expire, InboxStores
  <2> QED
    BY <1>2, <1>4, <2>2 DEF Expire
<1> QED
  BY <1>1, <1>3, <1>4 DEF noteStores

-----------------------------------------------------------------------------
(* One request after the other                                             *)

Shown == ListShown /\ ItemsShown /\ settingsItem = settingsRow

LEMMA CalmFrom ==
  ASSUME NEW t \in NoteThreads, NoteOthers(t), Served \subseteq {t},
         noteStep'[t] = "idle" => Shown', noteStep'[t] # "idle" => CalmInv(t)'
  PROVE  InboxCalm'
<1>1. Served' \subseteq {t} /\ (noteStep'[t] = "idle" <=> Served' = {})
  BY DEF Served, NoteOthers
<1>2. \A q \in Served' : Served' = {q} /\ CalmInv(q)'
  BY <1>1
<1> QED
  BY <1>1, <1>2 DEF InboxCalm, Shown

\* The unread rows, by the list.
LEMMA ListOfRows ==
  ASSUME InboxStores, ListShown
  PROVE  /\ (IF unreadIds = Absent THEN {} ELSE unreadIds) = UnreadRows
         /\ unreadIds \in {Absent, {}} => UnreadRows = {}
         /\ unreadIds \notin {Absent, {}} => DOMAIN noteRow # {}
<1>1. UnreadRows \in SUBSET Notes
  BY DEF UnreadRows, InboxStores, NoteTable
<1>2. UnreadRows # Absent
  BY <1>1, NoteAssumption
<1>3. DOMAIN noteRow = {} => UnreadRows = {}
  BY DEF UnreadRows
<1> QED
  BY <1>2, <1>3 DEF ListShown

LEMMA InboxKept ==
  ASSUME Shown, UNCHANGED <<noteItem, unreadIds, noteRow, settingsItem, settingsRow>>
  PROVE  Shown'
BY DEF Shown, ListShown, ItemsShown, ItemShown, UnreadRows

\* While a request is where it has changed nothing, all is shown.
LEMMA CalmShown ==
  ASSUME NEW t \in NoteThreads, CalmInv(t),
         noteStep[t] \notin Keeping \cup {"saveSettingsRow"},
         noteAsk[t].kind # "readAll" \/ noteStep[t] = "getIds"
  PROVE  Shown
BY DEF CalmInv, Shown

LEMMA ShownCalm ==
  ASSUME NEW t \in NoteThreads, Shown',
         noteStep'[t] \notin Keeping \cup {"saveSettingsRow", "saveSettings"},
         noteAsk'[t].kind # "readAll" \/ noteStep'[t] = "getIds"
  PROVE  CalmInv(t)'
BY DEF CalmInv, Shown

LEMMA CalmArrives ==
  ASSUME InboxInv, NEW t \in NoteThreads, Arrivals(t)
  PROVE  InboxCalm'
<1> SUFFICES ASSUME calm'
             PROVE  InboxCalm'
  BY DEF InboxCalm
<1>1. PICK first, ask :
        /\ Arrive(t, first, ask) /\ first \in {"decide", "findNote", "getSettings", "getIds"}
        /\ ask.kind # "readAll" \/ first = "getIds"
  BY ArrivesWith
<1>2. /\ NoteOthers(t) /\ noteStep'[t] = first /\ noteAsk'[t] = ask
      /\ UNCHANGED <<noteStores, connected, pushed>> /\ calm /\ Served = {}
  BY <1>1, ArriveEffect DEF InboxInv, InboxThreads
<1>3. Shown
  BY <1>2 DEF InboxInv, InboxCalm, Shown
<1>4. Shown'
  BY <1>2, <1>3, InboxKept DEF noteStores
<1>5. CalmInv(t)'
  BY <1>1, <1>2, <1>4, ShownCalm DEF Keeping
<1> QED
  BY <1>1, <1>2, <1>4, <1>5, CalmFrom

\* A request that nothing overlaps.
LEMMA CalmServed ==
  ASSUME InboxInv, NEW t \in NoteThreads, Serves(t), calm'
  PROVE  calm /\ Served = {t} /\ CalmInv(t) /\ NoteOthers(t) /\ NoteThreadsAre
<1>1. calm
  BY DEF Serves, Decide, PutNote, ReadIds, SaveIds, SaveNote, Push, GetIds, UpdateItem, ClearIds,
         UpdateRows, FindNote, SaveFlags, GetSettings, SaveSettings, SaveSettingsRow
<1>2. NoteOthers(t) /\ noteStep[t] # "idle" /\ NoteThreadsAre
  BY InboxThreadsServe DEF InboxInv, InboxThreads
<1> QED
  BY <1>1, <1>2 DEF InboxInv, InboxCalm, Served

\* A note that is put, listed and saved.
LEMMA CalmKeeps ==
  ASSUME InboxInv, NEW t \in NoteThreads, calm', NoteThreadsAre, CalmInv(t),
         PutNote(t) \/ ReadIds(t) \/ SaveIds(t) \/ SaveNote(t) \/ SaveFlags(t)
  PROVE  IF noteStep'[t] = "idle" THEN Shown' ELSE CalmInv(t)'
<1> DEFINE n == noteAsk[t].note
<1>0. InboxStores /\ InboxThreads
  BY DEF InboxInv
<1>1. ASSUME NEW flags \in NoteFlags, noteStep[t] \in {"putItem", "saveFlags"}, n \in Notes,
             noteItem' = Upsert(noteItem, n, flags), Then(t, "readIds", flags),
             UNCHANGED <<unreadIds, noteRow, settingsItem, settingsRow>>,
             noteAsk[t].kind \in {"event", "update"},
             noteAsk[t].kind = "update" => flags = noteAsk[t].flags
      PROVE  noteStep'[t] # "idle" /\ CalmInv(t)'
  <2>1. /\ noteStep'[t] = "readIds" /\ noteHolds'[t] = flags /\ noteAsk' = noteAsk
    BY <1>1, ThenEffect
  <2>2. Shown
    BY <1>1, CalmShown DEF Keeping
  <2>3. /\ noteItem'[n] = flags /\ DOMAIN noteItem' = DOMAIN noteItem \cup {n}
        /\ \A m \in DOMAIN noteItem \ {n} : noteItem'[m] = noteItem[m]
    <3> HIDE DEF n
    <3> QED
      BY <1>1 DEF Upsert
  <2>4. ListShown' /\ settingsItem' = settingsRow'
    BY <1>1, <2>2 DEF Shown, ListShown, UnreadRows
  <2>5. \A m \in DOMAIN noteItem' \ {n} : ItemShown(m)'
    BY <1>1, <2>2, <2>3 DEF Shown, ItemsShown, ItemShown
  <2>6. KeepingInv(t)'
    BY <1>1, <2>1, <2>3, <2>4, <2>5 DEF KeepingInv
  <2> QED
    BY <2>1, <2>4, <2>6 DEF CalmInv, Keeping
<1>2. CASE PutNote(t)
  <2> DEFINE flags == NewNote(noteHolds[t].muted)
  <2>1. noteStep[t] = "putItem" /\ noteItem' = Upsert(noteItem, n, flags)
        /\ Then(t, "readIds", noteItem'[n])
        /\ UNCHANGED <<unreadIds, noteRow, settingsItem, settingsRow>>
    BY <1>2 DEF PutNote
  <2>2. EventType(t) /\ n \in Notes /\ flags \in NoteFlags
    BY <1>0, <2>1, StepTypes, NewNoteType DEF EventType, Keeping
  <2>3. noteItem'[n] = flags
    <3> HIDE DEF n, flags
    <3> QED
      BY <2>1 DEF Upsert
  <2>4. noteAsk[t].kind = "event"
    BY <2>2 DEF EventType
  <2> HIDE DEF n, flags
  <2> QED
    BY <1>1, <2>1, <2>2, <2>3, <2>4
<1>3. CASE SaveFlags(t)
  <2> DEFINE flags == noteAsk[t].flags
  <2>1. noteStep[t] = "saveFlags" /\ noteItem' = Upsert(noteItem, n, flags)
        /\ Then(t, "readIds", flags)
        /\ UNCHANGED <<unreadIds, noteRow, settingsItem, settingsRow>>
    BY <1>3 DEF SaveFlags
  <2>2. noteAsk[t].kind = "update" /\ n \in Notes /\ flags \in NoteFlags
    BY <1>0, <2>1, StepTypes DEF UpdateType
  <2> HIDE DEF n
  <2> QED
    BY <1>1, <2>1, <2>2
<1>4. CASE ReadIds(t)
  <2> DEFINE held == [flags |-> noteHolds[t],
                      unread |-> IF unreadIds = Absent THEN {} ELSE unreadIds,
                      unarchived |-> IF unarchivedIds = Absent THEN {} ELSE unarchivedIds]
  <2>1. noteStep[t] = "readIds" /\ Then(t, "saveIds", held)
        /\ UNCHANGED <<noteItem, unreadIds, noteRow, settingsItem, settingsRow>>
    BY <1>4 DEF ReadIds, noteStores
  <2>2. held.flags = noteHolds[t] /\ held.unread = IF unreadIds = Absent THEN {} ELSE unreadIds
    OBVIOUS
  <2> HIDE DEF held
  <2>3. noteStep'[t] = "saveIds" /\ noteHolds'[t] = held /\ noteAsk' = noteAsk
    BY <2>1, ThenEffect
  <2>4. KeepingInv(t) /\ settingsItem = settingsRow
    BY <2>1 DEF CalmInv, Keeping
  <2>5. KeepingInv(t)'
    BY <2>1, <2>2, <2>3, <2>4 DEF KeepingInv, ItemShown, ListShown, UnreadRows
  <2> QED
    BY <2>1, <2>3, <2>4, <2>5 DEF CalmInv, Keeping
<1>5. CASE SaveIds(t)
  <2> DEFINE flags == noteHolds[t].flags
  <2>1. noteStep[t] = "saveIds" /\ Then(t, "saveNote", flags)
        /\ unreadIds' = Listed(noteHolds[t].unread, n, flags.read)
        /\ UNCHANGED <<noteItem, noteRow, settingsItem, settingsRow>>
    BY <1>5 DEF SaveIds
  <2>2. noteStep'[t] = "saveNote" /\ noteHolds'[t] = flags /\ noteAsk' = noteAsk
    BY <2>1, ThenEffect
  <2>3. KeepingInv(t) /\ settingsItem = settingsRow
    BY <2>1 DEF CalmInv, Keeping
  <2>4. noteHolds[t].unread = UnreadRows
    BY <1>0, <2>1, <2>3, ListOfRows DEF KeepingInv
  <2>5. unreadIds' = Listed(UnreadRows', n, flags.read)
    BY <2>1, <2>4 DEF UnreadRows
  <2>6. KeepingInv(t)'
    <3>1. ListWith(noteAsk[t].note, noteHolds[t])'
      BY <2>2, <2>5 DEF ListWith
    <3> QED
      BY <2>1, <2>2, <2>3, <3>1 DEF KeepingInv, ItemShown
  <2> QED
    BY <2>1, <2>2, <2>3, <2>6 DEF CalmInv, Keeping
<1>6. CASE SaveNote(t)
  <2> DEFINE flags == noteHolds[t]
             row == RowAfter(t)
  <2>1. noteStep[t] = "saveNote" /\ noteRow' = Upsert(noteRow, n, row)
        /\ IF noteAsk[t].kind = "event" THEN Then(t, "push", flags) ELSE Drop(t)
    BY <1>6 DEF SaveNote
  <2>13. UNCHANGED <<noteItem, unreadIds, settingsItem, settingsRow>>
    BY <1>6 DEF SaveNote
  <2>2. KeepingInv(t) /\ settingsItem = settingsRow
    BY <2>1 DEF CalmInv, Keeping
  <2>3. KeepingType(t) /\ (EventType(t) \/ UpdateType(t))
    BY <1>0, <2>1, StepTypes DEF Keeping
  <2>4. /\ n \in DOMAIN noteItem /\ noteItem[n].read = flags.read /\ noteItem[n].muted = flags.muted
        /\ noteAsk[t].kind = "update" => flags = noteAsk[t].flags
        /\ \A m \in DOMAIN noteItem \ {n} : ItemShown(m)
        /\ unreadIds = Listed(UnreadRows, n, flags.read)
    BY <2>1, <2>2 DEF KeepingInv, ListWith
  <2>5. row.read = flags.read /\ row.muted = flags.muted
    BY <1>0, <2>1, <2>3, <2>4, RowAfterType DEF EventType, UpdateType
  <2>6. n \in Notes /\ flags.read \in BOOLEAN
    BY <2>1, <2>3 DEF KeepingType, NoteFlags
  <2>7. /\ noteRow'[n] = row /\ DOMAIN noteRow' = DOMAIN noteRow \cup {n}
        /\ \A m \in DOMAIN noteRow \ {n} : noteRow'[m] = noteRow[m]
    <3> HIDE DEF n, row
    <3> QED
      BY <2>1 DEF Upsert
  <2>8. UnreadRows' = Listed(UnreadRows, n, flags.read)
    <3> HIDE DEF n, row, flags
    <3> QED
      BY <2>5, <2>6, <2>7 DEF UnreadRows, Listed
  <2>9. ListShown'
    BY <2>4, <2>7, <2>8, <2>13 DEF ListShown
  <2>10. ItemsShown'
    <3> SUFFICES ASSUME NEW m \in DOMAIN noteItem
                 PROVE  ItemShown(m)'
      BY <2>13 DEF ItemsShown
    <3>1. CASE m = n
      BY <2>4, <2>5, <2>7, <2>13, <3>1 DEF ItemShown
    <3>2. CASE m # n
      <4>1. ItemShown(m)
        BY <2>4, <3>2
      <4>2. m \in DOMAIN noteRow'  /\ noteRow'[m] = noteRow[m]
        BY <2>7, <3>2, <4>1 DEF ItemShown
      <4> QED
        BY <2>13, <4>1, <4>2 DEF ItemShown
    <3> QED
      BY <3>1, <3>2
  <2>11. Shown'
    BY <2>2, <2>9, <2>10, <2>13 DEF Shown
  <2>12. noteStep'[t] = "idle" \/ (noteStep'[t] = "push" /\ noteAsk'[t].kind = "event")
    BY <2>1, ThenEffect, DropEffect
  <2> QED
    BY <2>11, <2>12, ShownCalm DEF Keeping
<1> QED
  BY <1>2, <1>3, <1>4, <1>5, <1>6

\* Everything is read: what an item, the list and a row show in between.
LEMMA CalmReads ==
  ASSUME InboxInv, NEW t \in NoteThreads, calm, calm', NoteThreadsAre, CalmInv(t),
         GetIds(t) \/ UpdateItem(t) \/ ClearIds(t) \/ UpdateRows(t),
         noteAsk[t].kind = "readAll"
  PROVE  IF noteStep'[t] = "idle" THEN Shown' ELSE CalmInv(t)'
<1>0. InboxStores
  BY DEF InboxInv
<1>1. UnreadRows \subseteq DOMAIN noteRow /\ \A n \in UnreadRows : ~noteRow[n].read
  BY DEF UnreadRows
<1>2. \A n \in DOMAIN noteItem : noteItem[n] \in NoteFlags
  BY <1>0 DEF InboxStores, NoteTable
<1>3. \A n \in DOMAIN noteRow : noteRow[n] \in NoteFlags
  BY <1>0 DEF InboxStores, NoteTable
<1>4. CASE GetIds(t)
  <2> DEFINE held == IF unreadIds = Absent THEN {} ELSE unreadIds
             next == IF unreadIds \in {Absent, {}} THEN "updateRows" ELSE "updateItem"
  <2>1. noteStep[t] = "getIds" /\ Then(t, next, held)
        /\ UNCHANGED <<noteItem, unreadIds, noteRow, settingsItem, settingsRow>>
    BY <1>4 DEF GetIds, noteStores
  <2>2. Shown
    BY <2>1, CalmShown DEF Keeping
  <2>3. /\ held = UnreadRows
        /\ unreadIds \in {Absent, {}} => UnreadRows = {}
        /\ unreadIds \notin {Absent, {}} => DOMAIN noteRow # {}
    BY <1>0, <2>2, ListOfRows DEF Shown
  <2>4. next \in {"updateRows", "updateItem"} /\ (next = "updateRows" <=> unreadIds \in {Absent, {}})
    OBVIOUS
  <2>5. next = "updateRows" => unreadIds = IF DOMAIN noteRow = {} THEN Absent ELSE {}
    BY <2>2, <2>3, <2>4 DEF Shown, ListShown
  <2> HIDE DEF held, next
  <2>6. noteStep'[t] = next /\ noteHolds'[t] = held /\ noteAsk' = noteAsk
    BY <2>1, ThenEffect
  <2>7. \A n \in DOMAIN noteItem :
          /\ n \in DOMAIN noteRow /\ noteItem[n].muted = noteRow[n].muted
          /\ noteItem[n].read <=> (noteRow[n].read \/ n \in UnreadRows \ held)
    BY <2>2, <2>3 DEF Shown, ItemsShown, ItemShown
  <2>8. UnreadRows' = UnreadRows
    BY <2>1 DEF UnreadRows
  <2>9. ReadingInv(t)'
    BY <2>1, <2>3, <2>4, <2>5, <2>6, <2>7, <2>8 DEF ReadingInv
  <2> QED
    BY <2>1, <2>2, <2>4, <2>6, <2>9 DEF CalmInv, Shown, Keeping
<1>5. CASE UpdateItem(t)
  <2>1. noteStep[t] = "updateItem" /\ UNCHANGED <<unreadIds, noteRow, settingsItem, settingsRow>>
    BY <1>5 DEF UpdateItem
  <2>2. PICK n \in noteHolds[t] :
          /\ n \in DOMAIN noteItem
          /\ noteItem' = [noteItem EXCEPT ![n] = Flagged(@, noteAsk[t].kind)]
          /\ Then(t, "clearIds", noteHolds[t] \ {n})
    BY <1>5 DEF UpdateItem
  <2>3. noteStep'[t] = "clearIds" /\ noteHolds'[t] = noteHolds[t] \ {n} /\ noteAsk' = noteAsk
    BY <2>2, ThenEffect
  <2>4. ReadingInv(t) /\ settingsItem = settingsRow
    BY <2>1 DEF CalmInv, Keeping
  <2>5. /\ DOMAIN noteItem' = DOMAIN noteItem
        /\ noteItem'[n] = Flagged(noteItem[n], "readAll")
        /\ \A m \in DOMAIN noteItem \ {n} : noteItem'[m] = noteItem[m]
    BY <2>2
  <2>6. noteItem'[n].muted = noteItem[n].muted /\ noteItem'[n].read = TRUE
    BY <1>2, <2>2, <2>5, FlaggedType
  <2>7. UnreadRows' = UnreadRows
    BY <2>1 DEF UnreadRows
  <2>8. noteHolds[t] \subseteq UnreadRows /\ DOMAIN noteRow # {}
    BY <2>1, <2>4 DEF ReadingInv
  <2>9. \A m \in DOMAIN noteItem' :
          /\ m \in DOMAIN noteRow' /\ noteItem'[m].muted = noteRow'[m].muted
          /\ noteItem'[m].read <=> (noteRow'[m].read \/ m \in UnreadRows' \ noteHolds'[t])
    <3> SUFFICES ASSUME NEW m \in DOMAIN noteItem
                 PROVE  /\ m \in DOMAIN noteRow /\ noteItem'[m].muted = noteRow[m].muted
                        /\ noteItem'[m].read <=>
                             (noteRow[m].read \/ m \in UnreadRows \ (noteHolds[t] \ {n}))
      BY <2>1, <2>3, <2>5, <2>7
    <3>1. /\ m \in DOMAIN noteRow /\ noteItem[m].muted = noteRow[m].muted
          /\ noteItem[m].read <=> (noteRow[m].read \/ m \in UnreadRows \ noteHolds[t])
      BY <2>4 DEF ReadingInv
    <3>2. CASE m = n
      BY <2>2, <2>6, <2>8, <3>1, <3>2
    <3>3. CASE m # n
      BY <2>5, <3>1, <3>3
    <3> QED
      BY <3>2, <3>3
  <2>10. ReadingInv(t)'
    BY <2>1, <2>3, <2>7, <2>8, <2>9 DEF ReadingInv
  <2> QED
    BY <2>1, <2>3, <2>4, <2>10 DEF CalmInv, Keeping
<1>6. CASE ClearIds(t)
  <2>1. noteStep[t] = "clearIds" /\ UNCHANGED <<noteItem, noteRow, settingsItem, settingsRow>>
        /\ unreadIds' = {}
        /\ Then(t, IF noteHolds[t] = {} THEN "updateRows" ELSE "updateItem", noteHolds[t])
    BY <1>6 DEF ClearIds
  <2>2. /\ noteStep'[t] = IF noteHolds[t] = {} THEN "updateRows" ELSE "updateItem"
        /\ noteHolds'[t] = noteHolds[t] /\ noteAsk' = noteAsk
    BY <2>1, ThenEffect
  <2>3. ReadingInv(t) /\ settingsItem = settingsRow
    BY <2>1 DEF CalmInv, Keeping
  <2>4. UnreadRows' = UnreadRows
    BY <2>1 DEF UnreadRows
  <2>5. ReadingInv(t)'
    BY <2>1, <2>2, <2>3, <2>4 DEF ReadingInv
  <2> QED
    BY <2>1, <2>2, <2>3, <2>5 DEF CalmInv, Keeping
<1>7. CASE UpdateRows(t)
  <2>1. noteStep[t] = "updateRows" /\ UNCHANGED <<noteItem, unreadIds, settingsItem, settingsRow>>
        /\ noteRow' = [n \in DOMAIN noteRow |-> Flagged(noteRow[n], noteAsk[t].kind)]
        /\ Drop(t)
    BY <1>7 DEF UpdateRows
  <2>2. ReadingInv(t) /\ settingsItem = settingsRow
    BY <2>1 DEF CalmInv, Keeping
  <2>3. /\ noteHolds[t] = {} /\ unreadIds = IF DOMAIN noteRow = {} THEN Absent ELSE {}
        /\ \A n \in DOMAIN noteItem :
             /\ n \in DOMAIN noteRow /\ noteItem[n].muted = noteRow[n].muted
             /\ noteItem[n].read <=> (noteRow[n].read \/ n \in UnreadRows)
    BY <2>1, <2>2 DEF ReadingInv
  <2>4. DOMAIN noteRow' = DOMAIN noteRow
        /\ \A n \in DOMAIN noteRow : noteRow'[n] = Flagged(noteRow[n], "readAll")
    BY <2>1
  <2>5. \A n \in DOMAIN noteRow : noteRow'[n].muted = noteRow[n].muted /\ noteRow'[n].read = TRUE
    <3> SUFFICES ASSUME NEW n \in DOMAIN noteRow
                 PROVE  noteRow'[n].muted = noteRow[n].muted /\ noteRow'[n].read = TRUE
      OBVIOUS
    <3>1. noteRow[n] \in NoteFlags
      BY <1>3
    <3>2. Flagged(noteRow[n], "readAll").muted = noteRow[n].muted
          /\ Flagged(noteRow[n], "readAll").read = TRUE
      BY <3>1, FlaggedType
    <3> QED
      BY <3>2, <2>4
  <2>6. UnreadRows' = {}
    BY <2>4, <2>5 DEF UnreadRows
  <2>7. ListShown'
    BY <2>1, <2>3, <2>4, <2>6 DEF ListShown
  <2>8. \A n \in DOMAIN noteItem : noteItem[n].read = TRUE
    <3> SUFFICES ASSUME NEW n \in DOMAIN noteItem
                 PROVE  noteItem[n].read = TRUE
      OBVIOUS
    <3>1. n \in DOMAIN noteRow /\ (noteItem[n].read <=> (noteRow[n].read \/ n \in UnreadRows))
      BY <2>3
    <3>2. noteRow[n].read \/ n \in UnreadRows
      BY <3>1 DEF UnreadRows
    <3>3. noteItem[n].read \in BOOLEAN
      BY <1>2 DEF NoteFlags
    <3> QED
      BY <3>1, <3>2, <3>3
  <2>9. ItemsShown'
    BY <2>1, <2>3, <2>4, <2>5, <2>8 DEF ItemsShown, ItemShown
  <2>10. Shown'
    BY <2>1, <2>2, <2>7, <2>9 DEF Shown
  <2> QED
    BY <2>1, <2>10, DropEffect
<1> QED
  BY <1>4, <1>5, <1>6, <1>7

\* Archiving changes nothing that is shown.
LEMMA CalmArchives ==
  ASSUME InboxInv, NEW t \in NoteThreads, calm, calm', NoteThreadsAre, CalmInv(t),
         GetIds(t) \/ UpdateItem(t) \/ ClearIds(t) \/ UpdateRows(t),
         noteAsk[t].kind # "readAll"
  PROVE  IF noteStep'[t] = "idle" THEN Shown' ELSE CalmInv(t)'
<1>1. noteStep[t] \in {"getIds", "updateItem", "clearIds", "updateRows"}
  BY DEF GetIds, UpdateItem, ClearIds, UpdateRows
<1>2. Shown
  BY <1>1, CalmShown DEF Keeping
<1>3. UNCHANGED <<settingsItem, settingsRow>>
  BY DEF GetIds, UpdateItem, ClearIds, UpdateRows, noteStores
<1>4. /\ noteStep'[t] \in {"idle", "updateItem", "clearIds", "updateRows"}
      /\ noteStep'[t] # "idle" => noteAsk' = noteAsk
  BY ThenEffect, DropEffect DEF GetIds, UpdateItem, ClearIds, UpdateRows
<1>5. unreadIds' = unreadIds
  BY DEF GetIds, UpdateItem, ClearIds, UpdateRows, noteStores
<1>6. /\ DOMAIN noteItem' = DOMAIN noteItem
      /\ \A n \in DOMAIN noteItem : /\ noteItem'[n].read = noteItem[n].read
                                    /\ noteItem'[n].muted = noteItem[n].muted
  <2>1. CASE noteItem' = noteItem
    BY <2>1
  <2>2. CASE UpdateItem(t)
    <3>1. PICK n \in DOMAIN noteItem :
            noteItem' = [noteItem EXCEPT ![n] = Flagged(@, noteAsk[t].kind)]
      BY <2>2 DEF UpdateItem
    <3>2. noteItem[n] \in NoteFlags
      BY DEF InboxInv, InboxStores, NoteTable
    <3>3. /\ Flagged(noteItem[n], noteAsk[t].kind).read = noteItem[n].read
          /\ Flagged(noteItem[n], noteAsk[t].kind).muted = noteItem[n].muted
      BY <3>2, FlaggedType
    <3> QED
      BY <3>1, <3>3
  <2> QED
    BY <2>1, <2>2 DEF GetIds, ClearIds, UpdateRows, noteStores
<1>7. /\ DOMAIN noteRow' = DOMAIN noteRow
      /\ \A n \in DOMAIN noteRow : /\ noteRow'[n].read = noteRow[n].read
                                   /\ noteRow'[n].muted = noteRow[n].muted
  <2>1. CASE noteRow' = noteRow
    BY <2>1
  <2>2. CASE UpdateRows(t)
    <3>1. noteRow' = [n \in DOMAIN noteRow |-> Flagged(noteRow[n], noteAsk[t].kind)]
      BY <2>2 DEF UpdateRows
    <3>2. \A n \in DOMAIN noteRow :
            /\ Flagged(noteRow[n], noteAsk[t].kind).read = noteRow[n].read
            /\ Flagged(noteRow[n], noteAsk[t].kind).muted = noteRow[n].muted
      BY FlaggedType DEF InboxInv, InboxStores, NoteTable
    <3> QED
      BY <3>1, <3>2
  <2> QED
    BY <2>1, <2>2 DEF GetIds, UpdateItem, ClearIds, noteStores
<1>8. UnreadRows' = UnreadRows
  BY <1>7 DEF UnreadRows
<1>9. ListShown' /\ settingsItem' = settingsRow'
  BY <1>2, <1>3, <1>5, <1>7, <1>8 DEF Shown, ListShown
<1>10. ItemsShown'
  BY <1>2, <1>6, <1>7 DEF Shown, ItemsShown, ItemShown
<1>11. Shown'
  BY <1>9, <1>10 DEF Shown
<1> QED
  BY <1>4, <1>11, ShownCalm DEF Keeping

\* Events that are decided or pushed, notes that are found, and the settings.
LEMMA CalmOthers ==
  ASSUME InboxInv, NEW t \in NoteThreads, calm, calm', NoteThreadsAre, CalmInv(t),
         \/ Decide(t) \/ Push(t) \/ FindNote(t)
         \/ GetSettings(t) \/ SaveSettings(t) \/ SaveSettingsRow(t)
  PROVE  IF noteStep'[t] = "idle" THEN Shown' ELSE CalmInv(t)'
<1>1. UNCHANGED <<noteItem, unreadIds, noteRow>>
  BY DEF Decide, Push, FindNote, GetSettings, SaveSettings, SaveSettingsRow, noteStores
<1>2. /\ noteStep[t] \in {"decide", "push", "findNote", "getSettings", "saveSettings",
                          "saveSettingsRow"}
      /\ noteAsk[t].kind # "readAll"
  <2>1. noteStep[t] \in {"decide", "push", "findNote", "getSettings", "saveSettings",
                         "saveSettingsRow"}
    BY DEF Decide, Push, FindNote, GetSettings, SaveSettings, SaveSettingsRow
  <2>2. EventType(t) \/ UpdateType(t) \/ SettingsType(t)
    BY <2>1, StepTypes DEF InboxInv
  <2> QED
    BY <2>1, <2>2 DEF EventType, UpdateType, SettingsType
<1>3. ListShown /\ ItemsShown
  BY <1>2 DEF CalmInv, Keeping
<1>4. ListShown' /\ ItemsShown'
  BY <1>1, <1>3 DEF ListShown, ItemsShown, ItemShown, UnreadRows
<1>5. ASSUME noteStep'[t] \notin Keeping \cup {"idle"}, noteAsk' = noteAsk,
             settingsItem' = IF noteStep'[t] = "saveSettingsRow"
               THEN Upsert(settingsRow', noteAsk[t].scope, noteAsk[t].choice) ELSE settingsRow',
             noteStep'[t] = "saveSettings" => noteHolds'[t] = settingsItem'
      PROVE  CalmInv(t)'
  BY <1>2, <1>4, <1>5 DEF CalmInv
<1>6. CASE Decide(t) \/ Push(t) \/ FindNote(t)
  <2>1. /\ noteStep'[t] \in {"idle", "putItem", "saveFlags"}
        /\ noteStep'[t] # "idle" => noteAsk' = noteAsk
    BY <1>6, ThenEffect, DropEffect DEF Decide, Push, FindNote
  <2>2. UNCHANGED <<settingsItem, settingsRow>>
    BY <1>6 DEF Decide, Push, FindNote, noteStores
  <2>3. settingsItem = settingsRow
    BY <1>2, <1>6 DEF CalmInv, Decide, Push, FindNote
  <2> QED
    BY <1>4, <1>5, <2>1, <2>2, <2>3 DEF Shown, Keeping
<1>7. CASE GetSettings(t)
  <2>1. noteStep[t] = "getSettings" /\ Then(t, "saveSettings", settingsItem)
        /\ UNCHANGED <<settingsItem, settingsRow>>
    BY <1>7 DEF GetSettings, noteStores
  <2>2. noteStep'[t] = "saveSettings" /\ noteHolds'[t] = settingsItem /\ noteAsk' = noteAsk
    BY <2>1, ThenEffect
  <2>3. settingsItem = settingsRow
    BY <2>1 DEF CalmInv
  <2> QED
    BY <1>5, <2>1, <2>2, <2>3 DEF Keeping
<1>8. CASE SaveSettings(t)
  <2>1. noteStep[t] = "saveSettings" /\ Then(t, "saveSettingsRow", Absent)
        /\ settingsItem' = Upsert(noteHolds[t], noteAsk[t].scope, noteAsk[t].choice)
        /\ settingsRow' = settingsRow
    BY <1>8 DEF SaveSettings
  <2>2. noteStep'[t] = "saveSettingsRow" /\ noteAsk' = noteAsk
    BY <2>1, ThenEffect
  <2>3. settingsItem = settingsRow /\ noteHolds[t] = settingsItem
    BY <2>1 DEF CalmInv
  <2> QED
    BY <1>5, <2>1, <2>2, <2>3 DEF Keeping
<1>9. CASE SaveSettingsRow(t)
  <2>1. noteStep[t] = "saveSettingsRow" /\ Drop(t) /\ settingsItem' = settingsItem
        /\ settingsRow' = Upsert(settingsRow, noteAsk[t].scope, noteAsk[t].choice)
    BY <1>9 DEF SaveSettingsRow
  <2>2. settingsItem = Upsert(settingsRow, noteAsk[t].scope, noteAsk[t].choice)
    BY <2>1 DEF CalmInv
  <2> QED
    BY <1>4, <2>1, <2>2, DropEffect DEF Shown
<1> QED
  BY <1>6, <1>7, <1>8, <1>9

LEMMA InboxNext ==
  ASSUME InboxInv, NotificationNext
  PROVE  InboxInv'
<1>1. ASSUME NEW t \in NoteThreads, Arrivals(t)
      PROVE  InboxInv'
  BY <1>1, InboxArrives, CalmArrives DEF InboxInv
<1>2. ASSUME NEW t \in NoteThreads, Serves(t)
      PROVE  InboxInv'
  <2>1. InboxStores' /\ InboxThreads'
    BY <1>2, InboxStoresServe, InboxThreadsServe DEF InboxInv
  <2>2. ASSUME calm'
        PROVE  InboxCalm'
    <3>1. calm /\ Served = {t} /\ CalmInv(t) /\ NoteOthers(t) /\ NoteThreadsAre
      BY <1>2, <2>2, CalmServed
    <3>2. IF noteStep'[t] = "idle" THEN Shown' ELSE CalmInv(t)'
      BY <1>2, <2>2, <3>1, CalmKeeps, CalmReads, CalmArchives, CalmOthers DEF Serves
    <3> QED
      BY <3>1, <3>2, CalmFrom
  <2>3. ~calm' => InboxCalm'
    BY DEF InboxCalm
  <2> QED
    BY <2>1, <2>2, <2>3 DEF InboxInv
<1>3. CASE \/ \E t \in NoteThreads : LoseThread(t)
           \/ \E s \in Sockets : Connection(s)
           \/ \E n \in Notes : Expire(n)
  <2>1. InboxStores' /\ InboxThreads'
    BY <1>3, InboxOthers DEF InboxInv
  <2>2. ASSUME calm'
        PROVE  InboxCalm'
    <3>1. /\ UNCHANGED <<unreadIds, noteRow, settingsItem, settingsRow, noteServing>>
          /\ calm /\ (noteItem' # noteItem => Served = {})
          /\ DOMAIN noteItem' \subseteq DOMAIN noteItem
          /\ \A n \in DOMAIN noteItem' : noteItem'[n] = noteItem[n]
      BY <1>3, <2>2, InboxOthers DEF InboxInv
    <3>2. Served' = Served
      BY <3>1 DEF Served, noteServing
    <3>3. CASE Served = {}
      <4>1. ListShown /\ ItemsShown /\ settingsItem = settingsRow
        BY <3>1, <3>3 DEF InboxInv, InboxCalm
      <4>2. ListShown' /\ ItemsShown' /\ settingsItem' = settingsRow'
        BY <3>1, <4>1 DEF ListShown, ItemsShown, ItemShown, UnreadRows
      <4> QED
        BY <3>2, <3>3, <4>2 DEF InboxCalm
    <3>4. CASE Served # {}
      <4>1. noteItem' = noteItem
        BY <3>1, <3>4
      <4>2. \A t \in Served : Served = {t} /\ CalmInv(t)
        BY <3>1 DEF InboxInv, InboxCalm
      <4>3. \A t \in Served : CalmInv(t)'
        <5> SUFFICES ASSUME NEW t \in Served
                     PROVE  CalmInv(t)'
          OBVIOUS
        <5>1. CalmInv(t)
          BY <4>2
        <5>2. UNCHANGED <<unreadIds, noteItem, noteRow, settingsItem, settingsRow, noteStep,
                          noteAsk, noteHolds>>
          BY <3>1, <4>1 DEF noteServing
        <5>3. UnreadRows' = UnreadRows
          BY <5>2 DEF UnreadRows
        <5>4. ListShown' = ListShown /\ ItemsShown' = ItemsShown
          BY <5>2, <5>3 DEF ListShown, ItemsShown, ItemShown
        <5>5. KeepingInv(t)' = KeepingInv(t)
          BY <5>2, <5>3, <5>4 DEF KeepingInv, ListWith, ItemShown
        <5>6. ReadingInv(t)' = ReadingInv(t)
          BY <5>2, <5>3, <5>4 DEF ReadingInv, ListWith, ItemShown
        <5> QED
          BY <5>1, <5>2, <5>4, <5>5, <5>6 DEF CalmInv
      <4> QED
        BY <3>2, <3>4, <4>2, <4>3 DEF InboxCalm
    <3> QED
      BY <3>3, <3>4
  <2>3. ~calm' => InboxCalm'
    BY DEF InboxCalm
  <2> QED
    BY <2>1, <2>2, <2>3 DEF InboxInv
<1> QED
  BY <1>1, <1>2, <1>3 DEF NotificationNext, Arrivals, Serves

LEMMA InboxStarts ==
  ASSUME NotificationInit
  PROVE  InboxInv
<1>1. DOMAIN noteItem = {} /\ DOMAIN noteRow = {} /\ DOMAIN settingsItem = {}
      /\ DOMAIN settingsRow = {}
  BY DEF NotificationInit
<1>2. InboxStores
  BY <1>1 DEF NotificationInit, InboxStores, NoteTable, SettingsTable, Ids
<1>3. InboxThreads
  BY DEF NotificationInit, InboxThreads, NoteThreadsAre, ServingType
<1>4. Served = {}
  BY DEF NotificationInit, Served
<1>5. ListShown /\ ItemsShown /\ settingsItem = settingsRow
  BY <1>1 DEF NotificationInit, ListShown, ItemsShown
<1> QED
  BY <1>2, <1>3, <1>4, <1>5 DEF InboxInv, InboxCalm

LEMMA InboxStutters ==
  ASSUME InboxInv, UNCHANGED noteVars
  PROVE  InboxInv'
<1>1. UNCHANGED <<noteStores, connected, pushed, noteServing, calm>>
  BY DEF noteVars
<1>2. InboxStores'
  BY <1>1, StoresKept DEF InboxInv, InboxStores, noteStores
<1>3. InboxThreads'
  <2>1. \A q \in NoteThreads : ServingType(q)'
    BY <1>1, OtherServing DEF noteServing, InboxInv, InboxThreads
  <2> QED
    BY <1>1, <2>1 DEF noteServing, InboxInv, InboxThreads, NoteThreadsAre
<1>4. Served' = Served /\ (Shown => Shown')
  BY <1>1 DEF Served, noteServing, noteStores, Shown, ListShown, ItemsShown, ItemShown, UnreadRows
<1>5. \A t \in Served : CalmInv(t) => CalmInv(t)'
  BY <1>1 DEF CalmInv, KeepingInv, ReadingInv, ListShown, ItemsShown, ItemShown, UnreadRows,
              ListWith, noteServing, noteStores
<1>6. InboxCalm'
  BY <1>1, <1>4, <1>5 DEF InboxInv, InboxCalm, Shown
<1> QED
  BY <1>2, <1>3, <1>6 DEF InboxInv

\* However events and requests overlap, fail or are lost, and whenever items
\* expire: notes, lists, settings and requests have their types; and as long as
\* they come one after the other, the list of unread ids, the items and the
\* settings differ from the rows by no more than what the one that is being
\* served has changed so far (AccountNotificationService).
THEOREM InboxInvariant == NotificationSpec => []InboxInv
<1>1. NotificationInit => InboxInv
  BY InboxStarts
<1>2. InboxInv /\ [NotificationNext]_noteVars => InboxInv'
  BY InboxNext, InboxStutters
<1> QED
  BY <1>1, <1>2, PTL DEF NotificationSpec

\* Between events and requests served one at a time and to their end, the list
\* of unread ids, the flags of the items and the settings are those of the rows,
\* for any number of notes, events and requests (createMultiple,
\* readAccountNotifications, AccountNotificationSettingsService.create).
THEOREM InboxAlwaysAgrees == NotificationSpec => []InboxAgrees
<1>1. InboxInv => InboxAgrees
  BY DEF InboxInv, InboxCalm, ListShown, ItemsShown, ItemShown, InboxAgrees
<1> QED
  BY <1>1, InboxInvariant, PTL
=============================================================================
