------------------------- MODULE ProposalProjection -------------------------
(***************************************************************************)
(* How the proposals of a DAO contract are projected into the stores.      *)
(*                                                                         *)
(* The contract (external) adds proposals, counts votes and changes its    *)
(* policy, and closes blocks; each call is a receipt.  A worker handles a  *)
(* receipt by reading the stored DAO and proposal, asking an RPC node for  *)
(* the proposal as it was at the end of the receipt's block, and writing   *)
(* the proposal and then the DAO row, each to DynamoDB and then to         *)
(* PostgreSQL.  Nothing locks the rows between the reads and the writes.   *)
(* The workers are the consumer of apps/indexer-processor, which takes the *)
(* receipts in order, the retries of receipts that failed there, and the   *)
(* wallet callbacks of apps/api, which may run ahead of the consumer.  A   *)
(* timer of apps/aggregator marks the proposals whose vote period is over. *)
(*                                                                         *)
(* One action is the code between two awaits that read or write a store.   *)
(***************************************************************************)
EXTENDS Integers, Sequences, FiniteSets

CONSTANTS
  MaxProposals,     \* bound: proposals of the DAO
  Voters,
  PolicyChanges,    \* the proposals of kind ChangePolicy
  Consumer,         \* the consumer of the stream
  Retriers,         \* retries of failed receipts
  Wallets,          \* wallet callbacks
  Pollers,          \* runs of the expired proposals timer
  None,
  ProposalDynamo,   \* the feature flag of that name
  DaoDynamo,        \* the feature flag of that name
  Scenarios         \* bounds: what happens at most in one behaviour

Ids == 1 .. MaxProposals

Handlers == {Consumer} \cup Retriers \cup Wallets
Workers == Handlers \cup Pollers

Votes == {"VoteApprove", "VoteReject", "VoteRemove"}
Ops == Votes \cup {"AddProposal", "Finalize", "RemoveProposal"}
Status == {"absent", "InProgress", "Approved", "Rejected", "Expired"}

HandlerPC == {"readDao", "readProposal", "saveDyn", "saveSql", "count",
              "daoDyn", "daoSql", "mark", "skip"}
ASSUME WorkersAssumption ==
  /\ Consumer \notin Retriers \cup Wallets \cup Pollers
  /\ Retriers \cap Wallets = {}
  /\ Pollers \cap (Retriers \cup Wallets) = {}
  /\ None \notin Workers

ASSUME BoundsAssumption ==
  /\ MaxProposals \in Nat
  /\ Scenarios \subseteq [receipts : Nat,     \* calls of the contract
                          callbacks : BOOLEAN, \* whether wallets call back
                          faults : Nat,       \* awaits that fail
                          crashes : Nat]      \* restarts of the indexer process
  /\ PolicyChanges \subseteq Ids
  /\ ProposalDynamo \in BOOLEAN
  /\ DaoDynamo \in BOOLEAN

VARIABLES
  \* the contract
  receipts,   \* the calls, in order
  blocks,     \* at the end of each block: its proposals (status, votes), how
              \* many were added, and the version of its policy
  late,       \* proposals whose vote period is over
  \* the stores
  dyn, sql,         \* the proposals
  daoDyn, daoSql,   \* the DAO row
  handled,          \* receipts that have a marker
  failed,           \* receipts recorded by the error tracker
  \* memory of the workers
  pc,
  job,        \* the receipt a handler works on
  dao,        \* the policy in the DAO row it has read
  entity,     \* the proposal it has read
  counts,     \* the proposal counts it has read
  next,       \* the receipt the consumer handles next
  \* history
  alone,      \* the worker no other worker has overlapped so far, or None
  settled,    \* the receipt whose handler ran alone, and last, or 0
  counted,    \* the DAO row was written last by a worker that ran alone
  \* bounds
  scenario, faults, crashes

chainVars == <<receipts, blocks>>
stores == <<dyn, sql, daoDyn, daoSql, handled, failed>>
memory == <<job, dao, entity, counts, next>>
history == <<alone, settled, counted>>

vars == <<chainVars, late, stores, pc, memory, history, scenario, faults, crashes>>

-----------------------------------------------------------------------------
(* Proposals and rows.                                                     *)

NoProposal == [status |-> "absent", votes |-> {}]

NewProposal == [status |-> "InProgress", votes |-> {}]

\* The contract when the DAO has just been created, and now.
Genesis ==
  [proposals |-> [p \in Ids |-> NoProposal], added |-> 0, policy |-> 0]
Contract == IF blocks = <<>> THEN Genesis ELSE blocks[Len(blocks)]

NoRow == [status |-> "absent", votes |-> {}, voteStatus |-> "Active",
          actions |-> {}, archived |-> FALSE]

NoCounts == [total |-> 0, active |-> 0]

Present(store) == {p \in Ids : store[p].status # "absent"}

\* The proposals the active count counts.
Running(store) ==
  {p \in Ids : store[p].status = "InProgress" /\ store[p].voteStatus # "Expired"}

Proposals == IF ProposalDynamo THEN dyn ELSE sql

Receipt(w) == receipts[job[w]]
BlockOf(w) == blocks[Receipt(w).block]

\* The proposal at the end of the block of the receipt.
OnChain(w) == BlockOf(w).proposals[Receipt(w).id]

ActionOf(r) == <<r.by, r.op>>

\* A new proposal is stored as running and without votes, whatever the RPC
\* node says.
CreatedRow(r) ==
  [status |-> "InProgress", votes |-> {}, voteStatus |-> "Active",
   actions |-> {ActionOf(r)}, archived |-> FALSE]

\* Mutant: the status is taken from the stored proposal.
StaleRow(e, s, r) ==
  [status |-> e.status, votes |-> s.votes, voteStatus |-> e.voteStatus,
   actions |-> e.actions \cup {ActionOf(r)}, archived |-> FALSE]

\* Status and votes come from the RPC node, the vote status and the earlier
\* actions from the proposal read before.
ActedRow(e, s, r) ==
  [status |-> s.status, votes |-> s.votes, voteStatus |-> e.voteStatus,
   actions |-> e.actions \cup {ActionOf(r)}, archived |-> FALSE]

Row(w) == IF Receipt(w).op = "AddProposal" THEN CreatedRow(Receipt(w))
          ELSE ActedRow(entity[w], OnChain(w), Receipt(w))

\* Mutant: the policy that was read is written back.
PolicyRead(w) == dao[w]

\* The policy is loaded when an approved proposal changes it; otherwise the
\* one that was read is written back.
PolicyToSave(w) ==
  IF /\ Receipt(w).op = "VoteApprove"
     /\ OnChain(w).status = "Approved"
     /\ Receipt(w).id \in PolicyChanges
  THEN BlockOf(w).policy ELSE dao[w]

GoTo(w, label) == pc' = [pc EXCEPT ![w] = label]

\* The worker starts: from here on it runs alone only if all others are off.
Begins(w) ==
  /\ alone' = IF \A u \in Workers \ {w} : pc[u] = "off" THEN w ELSE None
  /\ settled' = 0
  /\ counted' = FALSE

\* The worker forgets what it was doing.
Stops(ws) ==
  /\ pc' = [w \in Workers |-> IF w \in ws THEN "off" ELSE pc[w]]
  /\ job' = [w \in Handlers |-> IF w \in ws THEN 0 ELSE job[w]]
  /\ dao' = [w \in Handlers |-> IF w \in ws THEN 0 ELSE dao[w]]
  /\ entity' = [w \in Handlers |-> IF w \in ws THEN NoRow ELSE entity[w]]
  /\ counts' = [w \in Workers |-> IF w \in ws THEN NoCounts ELSE counts[w]]
  /\ alone' = IF alone \in ws THEN None ELSE alone

-----------------------------------------------------------------------------
Init ==
  /\ receipts = <<>> /\ blocks = <<>>
  /\ late = {}
  /\ dyn = [p \in Ids |-> NoRow] /\ sql = dyn
  /\ daoDyn = [policy |-> 0, total |-> 0, active |-> 0] /\ daoSql = daoDyn
  /\ handled = {} /\ failed = {}
  /\ pc = [w \in Workers |-> "off"]
  /\ job = [w \in Handlers |-> 0]
  /\ dao = [w \in Handlers |-> 0]
  /\ entity = [w \in Handlers |-> NoRow]
  /\ counts = [w \in Workers |-> NoCounts]
  /\ next = 1
  /\ alone = None /\ settled = 0 /\ counted = FALSE
  /\ scenario \in Scenarios /\ faults = 0 /\ crashes = 0

-----------------------------------------------------------------------------
(* The contract                                                            *)

Requests == [op : Ops, id : Ids, by : Voters]

\* The states a request may leave its proposal in; none if it is refused.  A
\* vote may decide the proposal; one that VoteRemove decides is deleted.
Outcomes(c, r) ==
  LET old == c.proposals[r.id]
      running == old.status = "InProgress"
      voted == [old EXCEPT !.votes = @ \cup {<<r.by, r.op>>}]
      Only(allowed, states) == IF allowed THEN states ELSE {}
  IN CASE r.op = "AddProposal" -> Only(r.id = c.added + 1, {NewProposal})
       [] r.op = "Finalize" ->
            Only(running /\ r.id \in late, {[old EXCEPT !.status = "Expired"]})
       [] r.op = "RemoveProposal" -> Only(running, {NoProposal})
       [] r.op \in Votes ->
            Only(/\ running /\ r.id \notin late
                 /\ \A op \in Votes : <<r.by, op>> \notin old.votes,
                 {voted,
                  CASE r.op = "VoteApprove" -> [voted EXCEPT !.status = "Approved"]
                    [] r.op = "VoteReject" -> [voted EXCEPT !.status = "Rejected"]
                    [] r.op = "VoteRemove" -> NoProposal})

\* The contract after request r has left its proposal in state s.
After(c, r, s) ==
  [proposals |-> [c.proposals EXCEPT ![r.id] = s],
   added |-> c.added + IF r.op = "AddProposal" THEN 1 ELSE 0,
   policy |-> c.policy
     + IF s.status = "Approved" /\ r.id \in PolicyChanges THEN 1 ELSE 0]

InBlock(r) == [op |-> r.op, id |-> r.id, by |-> r.by, block |-> Len(blocks) + 1]

\* A block with one or two calls is final, and its receipts are published.
\* Nobody sees the contract between two calls of a block.
Block ==
  /\ \E r \in Requests : \E s \in Outcomes(Contract, r) :
       LET c == After(Contract, r, s)
       IN  \/ /\ receipts' = Append(receipts, InBlock(r))
              /\ blocks' = Append(blocks, c)
           \/ \E q \in Requests : \E t \in Outcomes(c, q) :
                /\ receipts' = receipts \o <<InBlock(r), InBlock(q)>>
                /\ blocks' = Append(blocks, After(c, q, t))
  /\ Len(receipts') <= scenario.receipts
  /\ UNCHANGED <<late, stores, pc, memory, history, faults,
                 scenario, crashes>>

\* The vote period of a proposal ends.
VotePeriodEnds(p) ==
  /\ p \in 1 .. Contract.added \ late
  /\ late' = late \cup {p}
  /\ UNCHANGED <<chainVars, stores, pc, memory, history, faults,
                 scenario, crashes>>

-----------------------------------------------------------------------------
(* A handler is called                                                     *)

Begin(w, k) ==
  /\ pc[w] = "off"
  /\ k \notin handled
  /\ GoTo(w, "readDao")
  /\ job' = [job EXCEPT ![w] = k]
  /\ Begins(w)
  /\ UNCHANGED <<chainVars, late, stores, dao, entity, counts, next, faults,
                 scenario, crashes>>

ConsumerBegins == next <= Len(receipts) /\ Begin(Consumer, next)

\* The marker is found.
ConsumerPasses ==
  /\ pc[Consumer] = "off"
  /\ next \in handled
  /\ next' = next + 1
  /\ UNCHANGED <<chainVars, late, stores, pc, job, dao, entity, counts, history,
                 faults,
                 scenario, crashes>>

RetryBegins(w) ==
  \E k \in failed : /\ \A u \in Retriers : job[u] # k
                    /\ Begin(w, k)

CallbackBegins(w) ==
  /\ scenario.callbacks
  /\ \E k \in 1 .. Len(receipts) : Begin(w, k)

-----------------------------------------------------------------------------
(* handleAddProposal, handleActProposal                                    *)

\* A proposal that was removed in the block that added it is skipped.
ReadDao(w) ==
  /\ pc[w] = "readDao"
  /\ dao' = [dao EXCEPT ![w] = IF DaoDynamo THEN daoDyn.policy ELSE daoSql.policy]
  /\ GoTo(w, IF Receipt(w).op # "AddProposal" THEN "readProposal"
             ELSE IF OnChain(w).status = "absent" THEN "skip" ELSE "saveDyn")
  /\ UNCHANGED <<chainVars, late, stores, job, entity, counts, next, history,
                 faults,
                 scenario, crashes>>

\* A proposal that is not stored is skipped.
ReadProposal(w) ==
  LET row == Proposals[Receipt(w).id]
  IN  /\ pc[w] = "readProposal"
      /\ entity' = [entity EXCEPT ![w] = row]
      /\ GoTo(w, IF row.status = "absent" THEN "skip" ELSE "saveDyn")
      /\ UNCHANGED <<chainVars, late, stores, job, dao, counts, next, history,
                     faults,
                 scenario, crashes>>

\* The read of a DynamoDB item fails: getItemById swallows the error.
MissProposal(w) ==
  /\ pc[w] = "readProposal" /\ ProposalDynamo
  /\ faults < scenario.faults
  /\ faults' = faults + 1
  /\ GoTo(w, "skip")
  /\ UNCHANGED <<chainVars, late, stores, memory, history, scenario, crashes>>

\* Mutant: the action RemoveProposal is forgotten.
RemovesByVote(w) == /\ Receipt(w).op = "VoteRemove"
                    /\ OnChain(w).status = "absent"

Removes(w) == /\ Receipt(w).op \in {"VoteRemove", "RemoveProposal"}
              /\ OnChain(w).status = "absent"

\* handleApproveProposal and handleRejectProposal read a property of the
\* proposal, which is null when the contract has deleted it.
NullProposal(w) == /\ Receipt(w).op \in {"VoteApprove", "VoteReject", "Finalize"}
                   /\ OnChain(w).status = "absent"

\* ProposalService.create and remove: DynamoDB first.
SaveDyn(w) ==
  /\ pc[w] = "saveDyn" /\ ~NullProposal(w)
  /\ dyn' = [dyn EXCEPT ![Receipt(w).id] =
               IF Removes(w) THEN [@ EXCEPT !.archived = TRUE]
               ELSE [Row(w) EXCEPT !.voteStatus = "Active"]]
  /\ GoTo(w, "saveSql")
  /\ UNCHANGED <<chainVars, late, sql, daoDyn, daoSql, handled, failed, memory,
                 history, faults,
                 scenario, crashes>>

\* Rows of actions are added to those that are there.
SaveSql(w) ==
  /\ pc[w] = "saveSql"
  /\ sql' = [sql EXCEPT ![Receipt(w).id] =
               IF Removes(w) THEN NoRow
               ELSE [Row(w) EXCEPT !.actions = @ \cup sql[Receipt(w).id].actions]]
  /\ GoTo(w, "count")
  /\ UNCHANGED <<chainVars, late, dyn, daoDyn, daoSql, handled, failed, memory,
                 history, faults,
                 scenario, crashes>>

-----------------------------------------------------------------------------
(* DaoService.save, called by a handler and by the aggregator              *)

\* The item count of DynamoDB includes the archived items.
Count(w) ==
  /\ pc[w] = "count"
  /\ counts' = [counts EXCEPT ![w] = [total |-> Cardinality(Present(Proposals)),
                                      active |-> Cardinality(Running(Proposals))]]
  /\ GoTo(w, "daoDyn")
  /\ UNCHANGED <<chainVars, late, stores, job, dao, entity, next, history,
                 faults,
                 scenario, crashes>>

\* Mutant: the active count is forgotten.
SavedTotal(w, row) ==
  [policy |-> IF w \in Handlers THEN PolicyToSave(w) ELSE row.policy,
   total |-> counts[w].total, active |-> row.active]

\* A handler writes the whole row, the aggregator the counts only.
SavedDao(w, row) ==
  [policy |-> IF w \in Handlers THEN PolicyToSave(w) ELSE row.policy,
   total |-> counts[w].total, active |-> counts[w].active]

SaveDaoDyn(w) ==
  /\ pc[w] = "daoDyn"
  /\ daoDyn' = SavedDao(w, daoDyn)
  /\ GoTo(w, "daoSql")
  /\ UNCHANGED <<chainVars, late, dyn, sql, daoSql, handled, failed, memory,
                 history, faults,
                 scenario, crashes>>

SaveDaoSql(w) ==
  /\ w \in Handlers
  /\ pc[w] = "daoSql"
  /\ daoSql' = SavedDao(w, daoSql)
  /\ GoTo(w, "mark")
  /\ UNCHANGED <<chainVars, late, dyn, sql, daoDyn, handled, failed, memory,
                 history, faults,
                 scenario, crashes>>

-----------------------------------------------------------------------------
(* The end of a handler                                                    *)

\* The marker is saved, for a skipped receipt too.
Mark(w) ==
  /\ pc[w] \in {"mark", "skip"}
  /\ handled' = handled \cup {job[w]}
  /\ next' = IF w = Consumer THEN next + 1 ELSE next
  /\ settled' = IF alone = w /\ pc[w] = "mark" THEN job[w] ELSE 0
  /\ counted' = (alone = w /\ pc[w] = "mark")
  /\ Stops({w})
  /\ UNCHANGED <<chainVars, late, dyn, sql, daoDyn, daoSql, failed, faults,
                 scenario, crashes>>

\* Mutant: the consumer goes on without recording the receipt.
Forgets(w) ==
  /\ next' = IF w = Consumer THEN next + 1 ELSE next
  /\ Stops({w})
  /\ UNCHANGED <<chainVars, late, dyn, sql, daoDyn, daoSql, handled, failed,
                 settled, counted, scenario, crashes>>

\* The handler rejects: the consumer records the receipt and goes on, a retry
\* waits for its next attempt.
Rejects(w) ==
  /\ IF w = Consumer THEN failed' = failed \cup {job[w]} /\ next' = next + 1
     ELSE UNCHANGED <<failed, next>>
  /\ Stops({w})
  /\ UNCHANGED <<chainVars, late, dyn, sql, daoDyn, daoSql, handled, settled,
                 counted, scenario, crashes>>

NullThrows(w) ==
  /\ pc[w] = "saveDyn" /\ NullProposal(w)
  /\ Rejects(w)
  /\ UNCHANGED faults

Throws(w) ==
  /\ pc[w] # "off"
  /\ faults < scenario.faults
  /\ faults' = faults + 1
  /\ Rejects(w)

\* The indexer process restarts; the consumer reads the same entry again.
Crash ==
  /\ crashes < scenario.crashes
  /\ \E w \in {Consumer} \cup Retriers : pc[w] # "off"
  /\ crashes' = crashes + 1
  /\ Stops({Consumer} \cup Retriers)
  /\ UNCHANGED <<chainVars, late, stores, next, settled, counted, scenario, faults>>

-----------------------------------------------------------------------------
(* updateExpiredProposals of the aggregator                                *)

Overdue(store) == Running(store) \cap late

\* The ids of the DAOs to update are read before the update; the end of a
\* run does not wait for the run before.
PollBegins(w) ==
  /\ pc[w] = "off"
  /\ GoTo(w, "expire")
  /\ counts' = [counts EXCEPT ![w].total = Cardinality(Overdue(sql))]
  /\ Begins(w)
  /\ UNCHANGED <<chainVars, late, stores, job, dao, entity, next, faults,
                 scenario, crashes>>

\* Mutant: only the DynamoDB items are marked.
ExpireDyn(w) ==
  /\ pc[w] = "expire"
  /\ dyn' = [p \in Ids |-> IF p \in Overdue(dyn)
                           THEN [dyn[p] EXCEPT !.voteStatus = "Expired"] ELSE dyn[p]]
  /\ Stops({w})
  /\ UNCHANGED <<chainVars, late, sql, daoDyn, daoSql, handled, failed, next,
                 settled, counted, faults,
                 scenario, crashes>>

\* Only the PostgreSQL rows are marked.
Expire(w) ==
  /\ pc[w] = "expire"
  /\ sql' = [p \in Ids |-> IF p \in Overdue(sql)
                           THEN [sql[p] EXCEPT !.voteStatus = "Expired"] ELSE sql[p]]
  /\ IF counts[w].total > 0 THEN GoTo(w, "count") /\ UNCHANGED <<memory, alone>>
     ELSE Stops({w}) /\ UNCHANGED next
  /\ UNCHANGED <<chainVars, late, dyn, daoDyn, daoSql, handled, failed, settled,
                 counted, faults,
                 scenario, crashes>>

PollEnds(w) ==
  /\ w \in Pollers
  /\ pc[w] = "daoSql"
  /\ daoSql' = SavedDao(w, daoSql)
  /\ counted' = (alone = w)
  /\ Stops({w})
  /\ UNCHANGED <<chainVars, late, dyn, sql, daoDyn, handled, failed, next,
                 settled, faults,
                 scenario, crashes>>

-----------------------------------------------------------------------------
SaveDao(w) == Count(w) \/ SaveDaoDyn(w)

Handle(w) == \/ ReadDao(w) \/ ReadProposal(w) \/ SaveDyn(w) \/ SaveSql(w)
             \/ SaveDao(w) \/ SaveDaoSql(w) \/ Mark(w) \/ NullThrows(w)

ConsumerStep == ConsumerBegins \/ ConsumerPasses \/ Handle(Consumer)

RetryStep(w) == RetryBegins(w) \/ Handle(w)

Poll(w) == PollBegins(w) \/ Expire(w) \/ SaveDao(w) \/ PollEnds(w)

Next ==
  \/ Block
  \/ \E p \in Ids : VotePeriodEnds(p)
  \/ ConsumerStep
  \/ \E w \in Retriers : RetryStep(w)
  \/ \E w \in Wallets : CallbackBegins(w) \/ Handle(w)
  \/ \E w \in Handlers : MissProposal(w)
  \/ \E w \in Workers : Throws(w)
  \/ \E w \in Pollers : Poll(w)
  \/ Crash

Spec == Init /\ [][Next]_vars

\* The event loop goes on with ready promises, the stream and the timer with
\* the next run.
FairSpec ==
  /\ Spec
  /\ WF_vars(ConsumerStep)
  /\ \A w \in Retriers : WF_vars(RetryStep(w))
  /\ \A w \in Pollers : WF_vars(Poll(w))

-----------------------------------------------------------------------------
(* Properties                                                              *)

\* What the contract said of proposal p at the end of some block, or the state
\* a proposal is created in.
WasOnChain(p, row) ==
  \/ row.status = "InProgress" /\ row.votes = {}
  \/ \E b \in 1 .. Len(blocks) :
       /\ row.status = blocks[b].proposals[p].status
       /\ row.votes = blocks[b].proposals[p].votes

\* A stored proposal shows status and votes of one and the same block, and no
\* action that is not on chain: handlers that overlap, or run out of order,
\* mix whole states of a proposal but never the parts of two.
OnlyChainStates ==
  \A p \in Ids, store \in {dyn, sql} :
    store[p].status # "absent" =>
      /\ WasOnChain(p, store[p])
      /\ \A a \in store[p].actions :
           \E k \in 1 .. Len(receipts) :
             receipts[k].id = p /\ ActionOf(receipts[k]) = a

Shows(row, s) == row.status = s.status /\ row.votes = s.votes

\* Whatever overlapping handlers, failures and restarts have left behind: a
\* handler that acts on a stored proposal while no other worker runs makes
\* both stores and the DAO row agree with the block of its receipt.
SoloRepairs ==
  settled # 0 =>
    LET r == receipts[settled]
        s == blocks[r.block].proposals[r.id]
    IN  /\ r.op # "AddProposal" =>
             IF s.status = "absent"
             THEN sql[r.id] = NoRow /\ dyn[r.id].archived
             ELSE /\ Shows(sql[r.id], s) /\ Shows(dyn[r.id], s)
                  /\ ~dyn[r.id].archived
                  /\ ActionOf(r) \in sql[r.id].actions \cap dyn[r.id].actions
        /\ r.op = "VoteApprove" /\ s.status = "Approved" /\ r.id \in PolicyChanges
             => daoSql.policy = blocks[r.block].policy
        /\ daoSql = daoDyn

\* After a worker that saved the DAO row alone, the counts of the DAO are
\* those of the store the feature flag selects.
CountsShown ==
  counted => /\ daoSql.total = Cardinality(Present(Proposals))
             /\ daoSql.active = Cardinality(Running(Proposals))

\* The consumer has passed the receipts of the first b blocks.
Passed(b) ==
  \A k \in 1 .. Len(receipts) : (k < next) <=> (receipts[k].block <= b)

\* With nothing but restarts going wrong, each time the consumer passes the
\* last receipt of a block, both stores show the proposals and the policy the
\* contract had at the end of that block.
BlockShown ==
  \A b \in 1 .. Len(blocks) :
    Passed(b) =>
      \A p \in Ids :
        LET s == blocks[b].proposals[p]
        IN  /\ Shows(sql[p], s)
            /\ IF s.status = "absent"
               THEN dyn[p].status = "absent" \/ dyn[p].archived
               ELSE Shows(dyn[p], s) /\ ~dyn[p].archived
            /\ daoSql.policy = blocks[b].policy

BlocksExact ==
  [][next' # next /\ ~scenario.callbacks /\ scenario.faults = 0
       => BlockShown']_vars

\* A running proposal whose vote period is over is shown as expired, or is
\* closed, although every handler writes back the vote status it has read.
ExpiryShown ==
  \A p \in Ids : p \in Overdue(sql) ~> p \notin Overdue(sql)

=============================================================================
