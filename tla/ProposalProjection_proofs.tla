---------------------- MODULE ProposalProjection_proofs ----------------------
(***************************************************************************)
(* Proofs about ProposalProjection, for every number of proposals, every   *)
(* set of voters and workers, both values of each feature flag, and every  *)
(* bound.                                                                  *)
(***************************************************************************)
EXTENDS ProposalProjection, SequenceTheorems, FiniteSetTheorems, TLAPS

Ballots == SUBSET (Voters \X Votes)

States == [status : Status, votes : Ballots]

Rows == [status : Status, votes : Ballots, voteStatus : {"Active", "Expired"},
         actions : SUBSET (Voters \X Ops), archived : BOOLEAN]

BlockSet == [proposals : [Ids -> States], added : Nat, policy : Nat]

ReceiptSet == [op : Ops, id : Ids, by : Voters, block : Nat \ {0}]

DaoRows == [policy : Nat, total : Nat, active : Nat]

CountSet == [total : Nat, active : Nat]

PollerPC == {"off", "expire", "count", "daoDyn", "daoSql"}

Keys == 1 .. Len(receipts)

ChainType ==
  /\ receipts \in Seq(ReceiptSet)
  /\ blocks \in Seq(BlockSet)
  /\ \A k \in Keys : receipts[k].block <= Len(blocks)
  /\ late \subseteq Ids

StoresType ==
  /\ dyn \in [Ids -> Rows] /\ sql \in [Ids -> Rows]
  /\ daoDyn \in DaoRows /\ daoSql \in DaoRows
  /\ handled \subseteq Keys /\ failed \subseteq Keys

MemoryType ==
  /\ pc \in [Workers -> HandlerPC \cup PollerPC]
  /\ \A w \in Handlers : pc[w] # "expire"
  /\ \A w \in Pollers : pc[w] \in PollerPC
  /\ job \in [Handlers -> Nat]
  /\ dao \in [Handlers -> Nat]
  /\ entity \in [Handlers -> Rows]
  /\ counts \in [Workers -> CountSet]
  /\ next \in Nat \ {0}

HistoryType ==
  /\ alone \in Workers \cup {None}
  /\ settled \in Nat
  /\ counted \in BOOLEAN
  /\ scenario \in Scenarios /\ faults \in Nat /\ crashes \in Nat

TypeOK == ChainType /\ StoresType /\ MemoryType /\ HistoryType

\* A handler that runs has a receipt; one that writes to PostgreSQL has not
\* met a proposal the contract has deleted under it.
HandlerInv(w) ==
  /\ pc[w] # "off" => job[w] \in Keys
  /\ pc[w] = "off" => entity[w] = NoRow
  /\ pc[w] = "saveSql" => ~NullProposal(w)

\* The actions are those of receipts about proposal p.
ActionsReal(p, actions) ==
  \A a \in actions : \E k \in Keys : receipts[k].id = p /\ ActionOf(receipts[k]) = a

\* OnlyChainStates, with the proposals the handlers hold.
ChainInv ==
  /\ \A p \in Ids, store \in {dyn, sql} :
       /\ store[p].status # "absent" => WasOnChain(p, store[p])
       /\ ActionsReal(p, store[p].actions)
  /\ \A w \in Handlers : pc[w] # "off" => ActionsReal(Receipt(w).id, entity[w].actions)

\* DynamoDB and PostgreSQL show the proposal after a handler has acted on it.
DynShown(w) ==
  Receipt(w).op # "AddProposal" =>
    LET row == dyn[Receipt(w).id]
    IN  IF OnChain(w).status = "absent" THEN row.archived
        ELSE Shows(row, OnChain(w)) /\ ~row.archived /\ ActionOf(Receipt(w)) \in row.actions

SqlShown(w) ==
  Receipt(w).op # "AddProposal" =>
    LET row == sql[Receipt(w).id]
    IN  IF OnChain(w).status = "absent" THEN row = NoRow
        ELSE Shows(row, OnChain(w)) /\ ActionOf(Receipt(w)) \in row.actions

Counted(c) ==
  /\ c.total = Cardinality(Present(Proposals))
  /\ c.active = Cardinality(Running(Proposals))

\* What worker w has done so far, if no other has overlapped it.
Follows(w) ==
  /\ w \in Handlers =>
       /\ pc[w] \in {"saveSql", "count", "daoDyn", "daoSql", "mark"} => DynShown(w)
       /\ pc[w] \in {"count", "daoDyn", "daoSql", "mark"} => SqlShown(w)
       /\ pc[w] \in {"daoSql", "mark"} =>
            daoDyn = [policy |-> PolicyToSave(w), total |-> counts[w].total,
                      active |-> counts[w].active]
       /\ pc[w] = "mark" => daoSql = daoDyn
  /\ pc[w] \in {"daoDyn", "daoSql", "mark"} => Counted(counts[w])

SoloInv ==
  /\ alone # None => \A v \in Workers \ {alone} : pc[v] = "off"
  /\ settled # 0 \/ counted => \A w \in Workers : pc[w] = "off"
  /\ settled # 0 => settled \in Keys
  /\ \A w \in Workers : alone = w => Follows(w)

\* The inductive invariant.
IInv ==
  /\ TypeOK
  /\ \A w \in Handlers : HandlerInv(w)
  /\ ChainInv
  /\ SoloInv /\ SoloRepairs /\ CountsShown

-----------------------------------------------------------------------------
(* The contract                                                            *)

LEMMA OutcomesType ==
  ASSUME NEW c \in BlockSet, NEW r \in Requests, NEW s \in Outcomes(c, r)
  PROVE  s \in States
<1> DEFINE old == c.proposals[r.id]
           voted == [old EXCEPT !.votes = @ \cup {<<r.by, r.op>>}]
<1>1. old \in States /\ r.op \in Ops /\ r.by \in Voters
  BY DEF BlockSet, Requests
<1>2. NewProposal \in States /\ NoProposal \in States
  BY DEF NewProposal, NoProposal, States, Status, Ballots
<1>3. CASE r.op = "AddProposal"
  <2>1. s \in IF r.id = c.added + 1 THEN {NewProposal} ELSE {}
    BY <1>3 DEF Outcomes, Votes
  <2> QED
    BY <1>2, <2>1
<1>4. CASE r.op = "Finalize"
  <2>1. s = [old EXCEPT !.status = "Expired"]
    BY <1>4 DEF Outcomes, Votes
  <2> QED
    BY <1>1, <2>1 DEF States, Status
<1>5. CASE r.op = "RemoveProposal"
  <2>1. s = NoProposal
    BY <1>5 DEF Outcomes, Votes
  <2> QED
    BY <1>2, <2>1
<1>6. CASE r.op \in Votes
  <2>0. <<r.by, r.op>> \in Voters \X Votes
    BY <1>1, <1>6
  <2>1. voted \in States
    BY <1>1, <2>0 DEF States, Ballots
  <2>2. r.op \notin {"AddProposal", "Finalize", "RemoveProposal"}
    BY <1>6 DEF Votes
  <2>3. s \in {voted, CASE r.op = "VoteApprove" -> [voted EXCEPT !.status = "Approved"]
                        [] r.op = "VoteReject" -> [voted EXCEPT !.status = "Rejected"]
                        [] r.op = "VoteRemove" -> NoProposal}
    BY <1>6, <2>2 DEF Outcomes
  <2>4. CASE r.op = "VoteApprove"
    BY <2>1, <2>3, <2>4 DEF States, Status
  <2>5. CASE r.op = "VoteReject"
    BY <2>1, <2>3, <2>5 DEF States, Status
  <2>6. CASE r.op = "VoteRemove"
    BY <1>2, <2>1, <2>3, <2>6
  <2> QED
    BY <1>6, <2>4, <2>5, <2>6 DEF Votes
<1> QED
  BY <1>1, <1>3, <1>4, <1>5, <1>6 DEF Ops

LEMMA AfterType ==
  ASSUME NEW c \in BlockSet, NEW r \in Requests, NEW s \in States
  PROVE  After(c, r, s) \in BlockSet
BY DEF After, BlockSet, Requests

LEMMA ContractType ==
  ASSUME ChainType
  PROVE  Contract \in BlockSet
<1>1. CASE blocks = <<>>
  BY <1>1 DEF Contract, Genesis, NoProposal, BlockSet, States, Status, Ballots
<1>2. CASE blocks # <<>>
  BY <1>2 DEF Contract, ChainType
<1> QED
  BY <1>1, <1>2

\* Receipts and blocks are only added, and a receipt never changes.
Grows ==
  /\ Len(receipts) \in Nat /\ Len(receipts') \in Nat /\ Len(receipts) <= Len(receipts')
  /\ \A k \in Keys : receipts'[k] = receipts[k] /\ receipts[k].block \in 1 .. Len(blocks)
                     /\ receipts[k] \in ReceiptSet
  /\ Len(blocks) \in Nat /\ Len(blocks') \in Nat /\ Len(blocks) <= Len(blocks')
  /\ \A b \in 1 .. Len(blocks) : blocks'[b] = blocks[b] /\ blocks[b] \in BlockSet

LEMMA InBlockType ==
  ASSUME ChainType, NEW r \in Requests
  PROVE  InBlock(r) \in ReceiptSet /\ InBlock(r).block = Len(blocks) + 1
BY DEF InBlock, Requests, ReceiptSet, ChainType

LEMMA ChainFacts ==
  ASSUME ChainType
  PROVE  /\ \A k \in Keys : receipts[k] \in ReceiptSet /\ receipts[k].block \in 1 .. Len(blocks)
         /\ \A b \in 1 .. Len(blocks) : blocks[b] \in BlockSet
         /\ Len(receipts) \in Nat /\ Len(blocks) \in Nat
<1>1. receipts \in Seq(ReceiptSet) /\ blocks \in Seq(BlockSet)
  BY DEF ChainType
<1>2. \A k \in Keys : receipts[k] \in ReceiptSet /\ receipts[k].block \in Nat \ {0}
  <2>1. \A k \in Keys : receipts[k] \in ReceiptSet
    BY <1>1 DEF Keys
  <2> QED
    BY <2>1 DEF ReceiptSet
<1>3. Len(receipts) \in Nat /\ Len(blocks) \in Nat
  BY <1>1
<1> QED
  BY <1>1, <1>2, <1>3 DEF ChainType

LEMMA BlockGrows ==
  ASSUME ChainType, Block
  PROVE  ChainType' /\ Grows
<1> DEFINE Extended ==
             \E new \in Seq(ReceiptSet), c \in BlockSet :
               /\ receipts' = receipts \o new /\ blocks' = Append(blocks, c)
               /\ \A k \in 1 .. Len(new) : new[k].block = Len(blocks) + 1
<1>1. Extended
  <2>0. PICK r \in Requests :
          \E s \in Outcomes(Contract, r) :
            LET c == After(Contract, r, s)
            IN  \/ /\ receipts' = Append(receipts, InBlock(r))
                   /\ blocks' = Append(blocks, c)
                \/ \E q \in Requests : \E t \in Outcomes(c, q) :
                     /\ receipts' = receipts \o <<InBlock(r), InBlock(q)>>
                     /\ blocks' = Append(blocks, After(c, q, t))
    BY DEF Block
  <2>1. PICK s \in Outcomes(Contract, r) :
          LET c == After(Contract, r, s)
          IN  \/ /\ receipts' = Append(receipts, InBlock(r))
                 /\ blocks' = Append(blocks, c)
              \/ \E q \in Requests : \E t \in Outcomes(c, q) :
                   /\ receipts' = receipts \o <<InBlock(r), InBlock(q)>>
                   /\ blocks' = Append(blocks, After(c, q, t))
    BY <2>0
  <2> DEFINE c == After(Contract, r, s)
  <2>2. c \in BlockSet
    BY ContractType, OutcomesType, AfterType
  <2>3. CASE receipts' = Append(receipts, InBlock(r)) /\ blocks' = Append(blocks, c)
    <3> DEFINE new == <<InBlock(r)>>
    <3>1. new \in Seq(ReceiptSet) /\ Len(new) = 1 /\ new[1] = InBlock(r)
      BY InBlockType
    <3>2. receipts' = receipts \o new
      BY <2>3, <3>1, InBlockType DEF ChainType
    <3>3. \A k \in 1 .. Len(new) : new[k].block = Len(blocks) + 1
      BY <3>1, InBlockType
    <3> QED
      BY <2>2, <2>3, <3>1, <3>2, <3>3
  <2>4. ASSUME NEW q \in Requests, NEW t \in Outcomes(c, q),
               receipts' = receipts \o <<InBlock(r), InBlock(q)>>,
               blocks' = Append(blocks, After(c, q, t))
        PROVE  Extended
    <3> DEFINE new == <<InBlock(r), InBlock(q)>>
    <3>1. new \in Seq(ReceiptSet) /\ Len(new) = 2 /\ new[1] = InBlock(r) /\ new[2] = InBlock(q)
      BY InBlockType
    <3>2. After(c, q, t) \in BlockSet
      BY <2>2, OutcomesType, AfterType
    <3>3. \A k \in 1 .. Len(new) : new[k].block = Len(blocks) + 1
      BY <3>1, InBlockType
    <3> QED
      BY <2>4, <3>1, <3>2, <3>3
  <2> QED
    BY <2>1, <2>3, <2>4
<1>2. PICK new \in Seq(ReceiptSet), c \in BlockSet :
        /\ receipts' = receipts \o new /\ blocks' = Append(blocks, c)
        /\ \A k \in 1 .. Len(new) : new[k].block = Len(blocks) + 1
  BY <1>1
<1>3. receipts \in Seq(ReceiptSet) /\ blocks \in Seq(BlockSet)
  BY DEF ChainType
<1>4. /\ receipts' \in Seq(ReceiptSet) /\ Len(receipts') = Len(receipts) + Len(new)
      /\ \A k \in 1 .. Len(receipts) : receipts'[k] = receipts[k]
      /\ \A k \in 1 .. Len(receipts') : k \notin 1 .. Len(receipts) =>
           receipts'[k] = new[k - Len(receipts)] /\ k - Len(receipts) \in 1 .. Len(new)
  BY <1>2, <1>3
<1>5. /\ blocks' \in Seq(BlockSet) /\ Len(blocks') = Len(blocks) + 1
      /\ \A b \in 1 .. Len(blocks) : blocks'[b] = blocks[b]
  BY <1>2, <1>3
<1>6. \A k \in 1 .. Len(receipts') : receipts'[k].block <= Len(blocks')
  <2> SUFFICES ASSUME NEW k \in 1 .. Len(receipts')
               PROVE  receipts'[k].block <= Len(blocks')
    OBVIOUS
  <2>1. CASE k \in 1 .. Len(receipts)
    <3>1. receipts'[k] = receipts[k] /\ receipts[k].block <= Len(blocks)
          /\ receipts[k].block \in Nat
      <4>1. receipts[k] \in ReceiptSet
        BY <1>3, <2>1
      <4> QED
        BY <1>4, <2>1, <4>1 DEF ChainType, Keys, ReceiptSet
    <3>2. Len(blocks) \in Nat /\ Len(blocks') = Len(blocks) + 1
      BY <1>3, <1>5
    <3> QED
      BY <3>1, <3>2
  <2>2. CASE k \notin 1 .. Len(receipts)
    <3> DEFINE j == k - Len(receipts)
    <3>1. receipts'[k] = new[j] /\ j \in 1 .. Len(new)
      BY <1>4, <2>2
    <3>2. new[j].block = Len(blocks) + 1
      BY <1>2, <3>1
    <3>3. Len(blocks) \in Nat /\ Len(blocks') = Len(blocks) + 1
      BY <1>3, <1>5
    <3> QED
      BY <3>1, <3>2, <3>3
  <2> QED
    BY <2>1, <2>2
<1>7. late' \subseteq Ids
  BY DEF Block, ChainType
<1>8. ChainType'
  BY <1>4, <1>5, <1>6, <1>7 DEF ChainType, Keys
<1>9. Grows
  <2>1. \A k \in Keys : receipts[k] \in ReceiptSet /\ receipts[k].block \in 1 .. Len(blocks)
    BY ChainFacts
  <2>2. \A b \in 1 .. Len(blocks) : blocks[b] \in BlockSet
    BY <1>3
  <2>3. Len(receipts) \in Nat /\ Len(new) \in Nat /\ Len(blocks) \in Nat
    BY <1>2, <1>3
  <2> QED
    BY <1>4, <1>5, <2>1, <2>2, <2>3 DEF Grows, Keys
<1> QED
  BY <1>8, <1>9

LEMMA ChainStays ==
  ASSUME ChainType, UNCHANGED chainVars
  PROVE  Grows
BY ChainFacts DEF Grows, ChainType, chainVars, Keys

-----------------------------------------------------------------------------
(* A step of the contract, of the consumer past a marker, or of a worker   *)

Outside == Block \/ (\E p \in Ids : VotePeriodEnds(p)) \/ ConsumerPasses

Handles(w) ==
  /\ w \in Handlers
  /\ \/ \E k \in Keys : Begin(w, k)
     \/ MissProposal(w) \/ Handle(w)

Moves(w) ==
  \/ Handles(w)
  \/ w \in Pollers /\ Poll(w)
  \/ Throws(w)

LEMMA OneMoves ==
  ASSUME TypeOK, Next
  PROVE  Outside \/ Crash \/ \E w \in Workers : Moves(w)
<1>1. CASE ConsumerStep
  <2>1. CASE ConsumerBegins
    <3>1. next \in Keys
      BY <2>1, ChainFacts DEF ConsumerBegins, TypeOK, MemoryType, Keys
    <3> QED
      BY <2>1, <3>1 DEF ConsumerBegins, Moves, Handles, Handlers, Workers
  <2> QED
    BY <1>1, <2>1 DEF ConsumerStep, Outside, Moves, Handles, Handlers, Workers
<1>2. ASSUME NEW w \in Retriers, RetryStep(w)
      PROVE  Moves(w)
  BY <1>2 DEF RetryStep, RetryBegins, TypeOK, StoresType, Moves, Handles, Handlers, Workers
<1>3. ASSUME NEW w \in Wallets, CallbackBegins(w) \/ Handle(w)
      PROVE  Moves(w)
  BY <1>3 DEF CallbackBegins, Keys, Moves, Handles, Handlers, Workers
<1> QED
  BY <1>1, <1>2, <1>3 DEF Next, Outside, Moves, Handles, Handlers, Workers

LEMMA WorkerSets ==
  /\ Handlers \subseteq Workers /\ Pollers \subseteq Workers /\ Handlers \cap Pollers = {}
  /\ Workers = Handlers \cup Pollers /\ None \notin Workers /\ Consumer \in Handlers
BY WorkersAssumption DEF Workers, Handlers

\* What a handler works on.
LEMMA HandlerFacts ==
  ASSUME ChainType, StoresType, MemoryType, NEW w \in Handlers, job[w] \in Keys
  PROVE  /\ Receipt(w) \in ReceiptSet /\ Receipt(w) = receipts[job[w]]
         /\ Receipt(w).id \in Ids /\ Receipt(w).op \in Ops /\ Receipt(w).by \in Voters
         /\ ActionOf(Receipt(w)) \in Voters \X Ops
         /\ Receipt(w).block \in 1 .. Len(blocks)
         /\ BlockOf(w) \in BlockSet /\ OnChain(w) \in States
         /\ OnChain(w) = blocks[Receipt(w).block].proposals[Receipt(w).id]
         /\ Row(w) \in Rows /\ PolicyToSave(w) \in Nat
<1>1. /\ Receipt(w) \in ReceiptSet /\ Receipt(w) = receipts[job[w]]
      /\ Receipt(w).block \in 1 .. Len(blocks)
  BY ChainFacts DEF Receipt
<1>2. /\ Receipt(w).id \in Ids /\ Receipt(w).op \in Ops /\ Receipt(w).by \in Voters
      /\ ActionOf(Receipt(w)) \in Voters \X Ops
  BY <1>1 DEF ReceiptSet, ActionOf
<1>3. BlockOf(w) \in BlockSet
  BY <1>1, ChainFacts DEF BlockOf
<1>4. OnChain(w) \in States
  BY <1>2, <1>3 DEF OnChain, BlockSet
<1>5. Row(w) \in Rows
  <2>1. CreatedRow(Receipt(w)) \in Rows
    BY <1>2 DEF CreatedRow, Rows, Status, Ballots
  <2>2. entity[w] \in Rows
    BY DEF MemoryType
  <2>3. ActedRow(entity[w], OnChain(w), Receipt(w)) \in Rows
    BY <1>2, <1>4, <2>2 DEF ActedRow, Rows, States
  <2> QED
    BY <2>1, <2>3 DEF Row
<1>6. PolicyToSave(w) \in Nat
  BY <1>3 DEF PolicyToSave, MemoryType, BlockSet
<1> QED
  BY <1>1, <1>2, <1>3, <1>4, <1>5, <1>6 DEF OnChain, BlockOf

LEMMA CountsNat ==
  ASSUME NEW S \in SUBSET Ids
  PROVE  Cardinality(S) \in Nat
<1>1. IsFiniteSet(Ids)
  BY FS_Interval, BoundsAssumption DEF Ids
<1> QED
  BY <1>1, FS_Subset, FS_CardinalityType

\* A worker that stops.
LEMMA StopsType ==
  ASSUME MemoryType, NEW ws \in SUBSET Workers, Stops(ws), next' \in Nat \ {0},
         alone \in Workers \cup {None}
  PROVE  /\ MemoryType'
         /\ alone' \in Workers \cup {None}
<1>1. NoRow \in Rows /\ NoCounts \in CountSet
  BY DEF NoRow, NoCounts, Rows, CountSet, Status, Ballots
<1>2. pc' \in [Workers -> HandlerPC \cup PollerPC]
  BY DEF MemoryType, Stops, PollerPC
<1>3. /\ \A w \in Handlers : pc'[w] # "expire"
      /\ \A w \in Pollers : pc'[w] \in PollerPC
  BY WorkerSets DEF MemoryType, Stops, PollerPC
<1>4. job' \in [Handlers -> Nat] /\ dao' \in [Handlers -> Nat]
  BY DEF MemoryType, Stops
<1>5. entity' \in [Handlers -> Rows]
  BY <1>1 DEF MemoryType, Stops
<1>6. counts' \in [Workers -> CountSet]
  BY <1>1 DEF MemoryType, Stops
<1> QED
  BY <1>2, <1>3, <1>4, <1>5, <1>6 DEF MemoryType, Stops

\* A worker that goes on.
LEMMA GoToType ==
  ASSUME MemoryType, NEW w \in Workers, NEW label \in HandlerPC \cup PollerPC, GoTo(w, label),
         w \in Handlers => label # "expire", w \in Pollers => label \in PollerPC
  PROVE  /\ pc' \in [Workers -> HandlerPC \cup PollerPC]
         /\ \A v \in Handlers : pc'[v] # "expire"
         /\ \A v \in Pollers : pc'[v] \in PollerPC
         /\ pc'[w] = label
         /\ \A v \in Workers \ {w} : pc'[v] = pc[v]
BY WorkerSets DEF GoTo, MemoryType

LEMMA InitType == Init => TypeOK
<1> SUFFICES ASSUME Init PROVE TypeOK
  OBVIOUS
<1>1. NoRow \in Rows /\ NoCounts \in CountSet
  BY DEF NoRow, NoCounts, Rows, CountSet, Status, Ballots
<1>2. ChainType
  BY DEF Init, ChainType, Keys
<1>3. StoresType
  BY <1>1 DEF Init, StoresType, DaoRows
<1>4. MemoryType
  <2>1. pc \in [Workers -> HandlerPC \cup PollerPC]
    BY DEF Init, PollerPC
  <2>2. counts \in [Workers -> CountSet] /\ entity \in [Handlers -> Rows]
    BY <1>1 DEF Init
  <2>3. job \in [Handlers -> Nat] /\ dao \in [Handlers -> Nat] /\ next \in Nat \ {0}
    BY DEF Init
  <2> QED
    BY <2>1, <2>2, <2>3, WorkerSets DEF Init, MemoryType, PollerPC
<1>5. HistoryType
  BY DEF Init, HistoryType
<1> QED
  BY <1>2, <1>3, <1>4, <1>5 DEF TypeOK

\* Every step leaves the types as they are.
LEMMA NextType ==
  ASSUME TypeOK, \A w \in Handlers : HandlerInv(w), [Next]_vars
  PROVE  TypeOK'
<1>0. /\ ChainType /\ StoresType /\ MemoryType /\ HistoryType
      /\ \A w \in Handlers : w \in Workers
      /\ \A w \in Pollers : w \in Workers /\ w \notin Handlers
  BY WorkerSets DEF TypeOK
<1>1. CASE UNCHANGED vars
  BY <1>1 DEF vars, chainVars, stores, memory, history, TypeOK, ChainType, StoresType, MemoryType,
     HistoryType, Keys
<1>2. CASE Block
  <2>1. ChainType' /\ Grows
    BY <1>0, <1>2, BlockGrows
  <2>2. Keys \subseteq Keys'
    BY <2>1 DEF Grows, Keys
  <2> QED
    BY <1>0, <1>2, <2>1, <2>2 DEF Block, stores, memory, history, TypeOK, StoresType, MemoryType,
       HistoryType
<1>3. ASSUME UNCHANGED chainVars, late' \subseteq Ids
      PROVE  ChainType' /\ Keys' = Keys
  BY <1>0, <1>3 DEF ChainType, chainVars, Keys
<1>4. ASSUME NEW p \in Ids, VotePeriodEnds(p)
      PROVE  TypeOK'
  <2>1. late' \subseteq Ids /\ UNCHANGED chainVars
    BY <1>0, <1>4 DEF VotePeriodEnds, ChainType
  <2> QED
    BY <1>0, <1>3, <1>4, <2>1 DEF VotePeriodEnds, stores, memory, history, TypeOK, StoresType,
       MemoryType, HistoryType
<1>5. CASE ConsumerPasses
  BY <1>0, <1>3, <1>5 DEF ConsumerPasses, stores, memory, history, TypeOK, ChainType, StoresType,
     MemoryType, HistoryType
<1>6. CASE Crash
  <2>1. {Consumer} \cup Retriers \in SUBSET Workers
    BY DEF Workers, Handlers
  <2>2. MemoryType' /\ alone' \in Workers \cup {None}
    BY <1>0, <1>6, <2>1, StopsType DEF Crash, MemoryType, HistoryType
  <2> QED
    BY <1>0, <1>3, <1>6, <2>2 DEF Crash, stores, TypeOK, ChainType, StoresType, HistoryType
<1>7. ASSUME NEW w \in Handlers, NEW k \in Keys, Begin(w, k)
      PROVE  TypeOK'
  <2>1. alone' \in Workers \cup {None}
    BY <1>0, <1>7 DEF Begin, Begins
  <2>2. /\ pc' \in [Workers -> HandlerPC \cup PollerPC]
        /\ \A v \in Handlers : pc'[v] # "expire"
        /\ \A v \in Pollers : pc'[v] \in PollerPC
    BY <1>0, <1>7, GoToType DEF Begin, HandlerPC
  <2>3. job' \in [Handlers -> Nat]
    BY <1>0, <1>7, ChainFacts DEF Begin, MemoryType, Keys
  <2> QED
    BY <1>0, <1>3, <1>7, <2>1, <2>2, <2>3 DEF Begin, Begins, stores, TypeOK, ChainType, StoresType,
       MemoryType, HistoryType
<1>8. ASSUME NEW w \in Handlers, ReadDao(w)
      PROVE  TypeOK'
  <2>1. /\ pc' \in [Workers -> HandlerPC \cup PollerPC]
        /\ \A v \in Handlers : pc'[v] # "expire"
        /\ \A v \in Pollers : pc'[v] \in PollerPC
    BY <1>0, <1>8, GoToType DEF ReadDao, HandlerPC
  <2>2. dao' \in [Handlers -> Nat]
    BY <1>0, <1>8 DEF ReadDao, StoresType, MemoryType, DaoRows
  <2> QED
    BY <1>0, <1>3, <1>8, <2>1, <2>2 DEF ReadDao, stores, history, TypeOK, ChainType, StoresType,
       MemoryType, HistoryType
<1>9. ASSUME NEW w \in Handlers, pc[w] # "off"
      PROVE  /\ job[w] \in Keys /\ Receipt(w) \in ReceiptSet /\ Receipt(w).id \in Ids
             /\ OnChain(w) \in States /\ Row(w) \in Rows /\ PolicyToSave(w) \in Nat
  BY <1>0, <1>9, HandlerFacts DEF HandlerInv
<1>10. ASSUME NEW w \in Handlers, ReadProposal(w)
       PROVE  TypeOK'
  <2>1. /\ pc' \in [Workers -> HandlerPC \cup PollerPC]
        /\ \A v \in Handlers : pc'[v] # "expire"
        /\ \A v \in Pollers : pc'[v] \in PollerPC
    BY <1>0, <1>10, GoToType DEF ReadProposal, HandlerPC
  <2>2. Receipt(w).id \in Ids
    BY <1>9, <1>10 DEF ReadProposal
  <2>3. entity' \in [Handlers -> Rows]
    BY <1>0, <1>10, <2>2 DEF ReadProposal, StoresType, MemoryType, Proposals
  <2> QED
    BY <1>0, <1>3, <1>10, <2>1, <2>3 DEF ReadProposal, stores, history, TypeOK, ChainType,
       StoresType, MemoryType, HistoryType
<1>11. ASSUME NEW w \in Handlers, MissProposal(w)
       PROVE  TypeOK'
  <2>1. /\ pc' \in [Workers -> HandlerPC \cup PollerPC]
        /\ \A v \in Handlers : pc'[v] # "expire"
        /\ \A v \in Pollers : pc'[v] \in PollerPC
    BY <1>0, <1>11, GoToType DEF MissProposal, HandlerPC
  <2> QED
    BY <1>0, <1>3, <1>11, <2>1 DEF MissProposal, stores, memory, history, TypeOK, ChainType,
       StoresType, MemoryType, HistoryType
<1>12. ASSUME NEW w \in Handlers, SaveDyn(w) \/ SaveSql(w)
       PROVE  TypeOK'
  <2>1. /\ pc' \in [Workers -> HandlerPC \cup PollerPC]
        /\ \A v \in Handlers : pc'[v] # "expire"
        /\ \A v \in Pollers : pc'[v] \in PollerPC
    BY <1>0, <1>12, GoToType DEF SaveDyn, SaveSql, HandlerPC
  <2>2. Receipt(w).id \in Ids /\ Row(w) \in Rows
    BY <1>9, <1>12 DEF SaveDyn, SaveSql
  <2>3. NoRow \in Rows
    BY DEF NoRow, Rows, Status, Ballots
  <2>4. [Row(w) EXCEPT !.voteStatus = "Active"] \in Rows
    BY <2>2 DEF Rows
  <2>5. \A p \in Ids : [dyn[p] EXCEPT !.archived = TRUE] \in Rows
    BY <1>0 DEF StoresType, Rows
  <2>6. \A p \in Ids : [Row(w) EXCEPT !.actions = @ \cup sql[p].actions] \in Rows
    BY <1>0, <2>2 DEF StoresType, Rows
  <2>7. dyn' \in [Ids -> Rows] /\ sql' \in [Ids -> Rows]
    BY <1>0, <1>12, <2>2, <2>3, <2>4, <2>5, <2>6 DEF SaveDyn, SaveSql, StoresType
  <2> QED
    BY <1>0, <1>3, <1>12, <2>1, <2>7 DEF SaveDyn, SaveSql, memory, history, TypeOK, ChainType,
       StoresType, MemoryType, HistoryType
<1>13. ASSUME NEW w \in Workers, Count(w)
       PROVE  TypeOK'
  <2>1. /\ pc' \in [Workers -> HandlerPC \cup PollerPC]
        /\ \A v \in Handlers : pc'[v] # "expire"
        /\ \A v \in Pollers : pc'[v] \in PollerPC
    BY <1>0, <1>13, GoToType DEF Count, HandlerPC, PollerPC
  <2>2. Cardinality(Present(Proposals)) \in Nat /\ Cardinality(Running(Proposals)) \in Nat
    BY CountsNat DEF Present, Running
  <2>3. counts' \in [Workers -> CountSet]
    BY <1>0, <1>13, <2>2 DEF Count, MemoryType, CountSet
  <2> QED
    BY <1>0, <1>3, <1>13, <2>1, <2>3 DEF Count, stores, history, TypeOK, ChainType, StoresType,
       MemoryType, HistoryType
<1>14. ASSUME NEW w \in Workers, pc[w] # "off", NEW row \in DaoRows
       PROVE  SavedDao(w, row) \in DaoRows
  <2>1. counts[w] \in CountSet
    BY <1>0 DEF MemoryType
  <2>2. CASE w \in Handlers
    BY <1>9, <1>14, <2>1, <2>2 DEF SavedDao, DaoRows, CountSet
  <2>3. CASE w \notin Handlers
    BY <1>14, <2>1, <2>3 DEF SavedDao, DaoRows, CountSet
  <2> QED
    BY <2>2, <2>3
<1>15. ASSUME NEW w \in Workers, SaveDaoDyn(w)
       PROVE  TypeOK'
  <2>1. /\ pc' \in [Workers -> HandlerPC \cup PollerPC]
        /\ \A v \in Handlers : pc'[v] # "expire"
        /\ \A v \in Pollers : pc'[v] \in PollerPC
    BY <1>0, <1>15, GoToType DEF SaveDaoDyn, HandlerPC, PollerPC
  <2>2. daoDyn' \in DaoRows
    BY <1>0, <1>14, <1>15 DEF SaveDaoDyn, StoresType
  <2> QED
    BY <1>0, <1>3, <1>15, <2>1, <2>2 DEF SaveDaoDyn, memory, history, TypeOK, ChainType, StoresType,
       MemoryType, HistoryType
<1>16. ASSUME NEW w \in Workers, SaveDaoSql(w)
       PROVE  TypeOK'
  <2>1. /\ pc' \in [Workers -> HandlerPC \cup PollerPC]
        /\ \A v \in Handlers : pc'[v] # "expire"
        /\ \A v \in Pollers : pc'[v] \in PollerPC
    BY <1>0, <1>16, GoToType DEF SaveDaoSql, HandlerPC, PollerPC
  <2>2. daoSql' \in DaoRows
    BY <1>0, <1>14, <1>16 DEF SaveDaoSql, StoresType
  <2> QED
    BY <1>0, <1>3, <1>16, <2>1, <2>2 DEF SaveDaoSql, memory, history, TypeOK, ChainType, StoresType,
       MemoryType, HistoryType
<1>17. ASSUME NEW w \in Handlers, Mark(w)
       PROVE  TypeOK'
  <2>1. MemoryType' /\ alone' \in Workers \cup {None}
    BY <1>0, <1>17, StopsType DEF Mark, MemoryType, HistoryType
  <2>2. job[w] \in Keys /\ job[w] \in Nat
    BY <1>0, <1>9, <1>17 DEF Mark, MemoryType
  <2> QED
    BY <1>0, <1>3, <1>17, <2>1, <2>2 DEF Mark, TypeOK, ChainType, StoresType, HistoryType
<1>18. ASSUME NEW w \in Workers, pc[w] # "off", Rejects(w), faults' \in Nat
       PROVE  TypeOK'
  <2>1. MemoryType' /\ alone' \in Workers \cup {None}
    BY <1>0, <1>18, StopsType DEF Rejects, MemoryType, HistoryType
  <2>2. failed' \subseteq Keys
    BY <1>0, <1>9, <1>18, WorkerSets DEF Rejects, StoresType
  <2> QED
    BY <1>0, <1>3, <1>18, <2>1, <2>2 DEF Rejects, TypeOK, ChainType, StoresType, HistoryType
<1>19. ASSUME NEW w \in Pollers, PollBegins(w)
       PROVE  TypeOK'
  <2>1. /\ pc' \in [Workers -> HandlerPC \cup PollerPC]
        /\ \A v \in Handlers : pc'[v] # "expire"
        /\ \A v \in Pollers : pc'[v] \in PollerPC
    BY <1>0, <1>19, GoToType DEF PollBegins, HandlerPC, PollerPC
  <2>2. Cardinality(Overdue(sql)) \in Nat
    BY CountsNat DEF Overdue, Running
  <2>3. counts' \in [Workers -> CountSet]
    BY <1>0, <1>19, <2>2 DEF PollBegins, MemoryType, CountSet
  <2>4. alone' \in Workers \cup {None}
    BY <1>0, <1>19 DEF PollBegins, Begins
  <2> QED
    BY <1>0, <1>3, <1>19, <2>1, <2>3, <2>4 DEF PollBegins, Begins, stores, TypeOK, ChainType,
       StoresType, MemoryType, HistoryType
<1>20. ASSUME NEW w \in Pollers, Expire(w)
       PROVE  TypeOK'
  <2>1. sql' \in [Ids -> Rows]
    BY <1>0, <1>20 DEF Expire, StoresType, Rows
  <2>2. MemoryType' /\ alone' \in Workers \cup {None}
    <3>1. CASE counts[w].total > 0
      <4>1. /\ pc' \in [Workers -> HandlerPC \cup PollerPC]
            /\ \A v \in Handlers : pc'[v] # "expire"
            /\ \A v \in Pollers : pc'[v] \in PollerPC
        BY <1>0, <1>20, <3>1, GoToType DEF Expire, HandlerPC, PollerPC
      <4> QED
        BY <1>0, <1>20, <3>1, <4>1 DEF Expire, memory, MemoryType, HistoryType
    <3>2. CASE ~ (counts[w].total > 0)
      BY <1>0, <1>20, <3>2, StopsType DEF Expire, MemoryType, HistoryType
    <3> QED
      BY <3>1, <3>2
  <2> QED
    BY <1>0, <1>3, <1>20, <2>1, <2>2 DEF Expire, TypeOK, ChainType, StoresType, HistoryType
<1>21. ASSUME NEW w \in Pollers, PollEnds(w)
       PROVE  TypeOK'
  <2>1. MemoryType' /\ alone' \in Workers \cup {None}
    BY <1>0, <1>21, StopsType DEF PollEnds, MemoryType, HistoryType
  <2>2. daoSql' \in DaoRows
    BY <1>0, <1>14, <1>21 DEF PollEnds, StoresType
  <2> QED
    BY <1>0, <1>3, <1>21, <2>1, <2>2 DEF PollEnds, TypeOK, ChainType, StoresType, HistoryType
<1>22. ASSUME NEW w \in Workers, Moves(w)
       PROVE  TypeOK'
  <2>1. CASE Handles(w)
    <3>1. CASE NullThrows(w)
      <4>1. faults' \in Nat /\ pc[w] # "off"
        BY <1>0, <3>1 DEF NullThrows, HistoryType
      <4> QED
        BY <1>18, <3>1, <4>1 DEF NullThrows
    <3> QED
      BY <1>7, <1>8, <1>10, <1>11, <1>12, <1>13, <1>15, <1>16, <1>17, <2>1, <3>1
         DEF Handles, Handle, SaveDao
  <2>2. CASE w \in Pollers /\ Poll(w)
    BY <1>13, <1>15, <1>19, <1>20, <1>21, <2>2 DEF Poll, SaveDao
  <2>3. CASE Throws(w)
    <3>1. faults' \in Nat
      BY <1>0, <2>3 DEF Throws, HistoryType
    <3> QED
      BY <1>18, <2>3, <3>1 DEF Throws
  <2> QED
    BY <1>22, <2>1, <2>2, <2>3 DEF Moves
<1> QED
  BY <1>1, <1>2, <1>4, <1>5, <1>6, <1>22, OneMoves DEF Outside

-----------------------------------------------------------------------------
(* What a step leaves alone                                                *)

\* A worker that stops forgets, and the others stay where they are.
LEMMA Stopped ==
  ASSUME MemoryType, NEW ws \in SUBSET Workers, Stops(ws)
  PROVE  /\ \A v \in Workers : /\ pc'[v] = IF v \in ws THEN "off" ELSE pc[v]
                               /\ counts'[v] = IF v \in ws THEN NoCounts ELSE counts[v]
         /\ \A v \in Handlers : /\ job'[v] = IF v \in ws THEN 0 ELSE job[v]
                                /\ dao'[v] = IF v \in ws THEN 0 ELSE dao[v]
                                /\ entity'[v] = IF v \in ws THEN NoRow ELSE entity[v]
BY DEF Stops, MemoryType

Same(v) ==
  /\ pc'[v] = pc[v] /\ counts'[v] = counts[v]
  /\ v \in Handlers => job'[v] = job[v] /\ dao'[v] = dao[v] /\ entity'[v] = entity[v]

LEMMA StoppedOne ==
  ASSUME MemoryType, NEW w \in Workers, Stops({w})
  PROVE  /\ pc'[w] = "off" /\ counts'[w] = NoCounts
         /\ w \in Handlers => job'[w] = 0 /\ dao'[w] = 0 /\ entity'[w] = NoRow
         /\ \A v \in Workers \ {w} : Same(v)
<1>1. /\ pc'[w] = "off" /\ counts'[w] = NoCounts
      /\ w \in Handlers => job'[w] = 0 /\ dao'[w] = 0 /\ entity'[w] = NoRow
  BY DEF Stops, MemoryType
<1>2. \A v \in Workers \ {w} : pc'[v] = pc[v] /\ counts'[v] = counts[v]
  BY DEF Stops, MemoryType
<1>3. \A v \in Handlers \ {w} : job'[v] = job[v] /\ dao'[v] = dao[v] /\ entity'[v] = entity[v]
  BY DEF Stops, MemoryType
<1> QED
  BY <1>1, <1>2, <1>3 DEF Same

LEMMA OthersStay ==
  ASSUME TypeOK, NEW w \in Workers, Moves(w)
  PROVE  /\ \A v \in Workers \ {w} : Same(v)
         /\ UNCHANGED chainVars /\ Grows
<1>0. MemoryType /\ ChainType /\ {w} \in SUBSET Workers
  BY DEF TypeOK
<1>1. ASSUME Stops({w})
      PROVE  \A v \in Workers \ {w} : Same(v)
  BY <1>0, <1>1, StoppedOne
<1>2. ASSUME \/ \E k \in Keys : Begin(w, k)
             \/ ReadDao(w) \/ ReadProposal(w) \/ MissProposal(w) \/ SaveDyn(w) \/ SaveSql(w)
             \/ SaveDao(w) \/ SaveDaoSql(w) \/ PollBegins(w)
             \/ Expire(w) /\ counts[w].total > 0
      PROVE  \A v \in Workers \ {w} : Same(v)
  <2>1. /\ \E label : pc' = [pc EXCEPT ![w] = label]
        /\ counts' = counts \/ \E c : counts' = [counts EXCEPT ![w] = c]
        /\ job' = job \/ \E k : job' = [job EXCEPT ![w] = k]
        /\ dao' = dao \/ \E d : dao' = [dao EXCEPT ![w] = d]
        /\ entity' = entity \/ \E e : entity' = [entity EXCEPT ![w] = e]
    <3>1. CASE \E k \in Keys : Begin(w, k)
      BY <3>1 DEF Begin, GoTo
    <3>2. CASE ReadDao(w) \/ ReadProposal(w) \/ MissProposal(w) \/ SaveDyn(w) \/ SaveSql(w)
      BY <3>2 DEF ReadDao, ReadProposal, MissProposal, SaveDyn, SaveSql, GoTo, memory
    <3>3. CASE Count(w)
      BY <3>3 DEF Count, GoTo
    <3>4. CASE SaveDaoDyn(w) \/ SaveDaoSql(w)
      BY <3>4 DEF SaveDaoDyn, SaveDaoSql, GoTo, memory
    <3>5. CASE PollBegins(w)
      BY <3>5 DEF PollBegins, GoTo
    <3>6. CASE Expire(w) /\ counts[w].total > 0
      BY <3>6 DEF Expire, GoTo, memory
    <3> QED
      BY <1>2, <3>1, <3>2, <3>3, <3>4, <3>5, <3>6 DEF SaveDao
  <2>2. \A v \in Workers \ {w} : pc'[v] = pc[v] /\ counts'[v] = counts[v]
    BY <1>0, <2>1 DEF MemoryType
  <2>3. \A v \in Handlers \ {w} : job'[v] = job[v] /\ dao'[v] = dao[v] /\ entity'[v] = entity[v]
    BY <1>0, <2>1 DEF MemoryType
  <2> QED
    BY <2>2, <2>3 DEF Same
<1>4. \A v \in Workers \ {w} : Same(v)
  BY <1>1, <1>2 DEF Moves, Handles, Handle, Poll, Throws, NullThrows, Rejects, Mark, PollEnds, Expire
<1>5. UNCHANGED chainVars
  BY DEF Moves, Handles, Handle, Poll, SaveDao, Throws, NullThrows, Rejects, Mark, PollEnds, Expire,
     Begin, ReadDao, ReadProposal, MissProposal, SaveDyn, SaveSql, Count, SaveDaoDyn, SaveDaoSql,
     PollBegins
<1> QED
  BY <1>0, <1>4, <1>5, ChainStays

LEMMA OutsideStays ==
  ASSUME TypeOK, Outside
  PROVE  /\ \A v \in Workers : Same(v)
         /\ Grows /\ UNCHANGED <<stores, history>>
<1>0. ChainType
  BY DEF TypeOK
<1>1. Grows
  <2>1. CASE Block
    BY <1>0, <2>1, BlockGrows
  <2>2. CASE ~Block
    BY <1>0, <2>2, ChainStays DEF Outside, VotePeriodEnds, ConsumerPasses
  <2> QED
    BY <2>1, <2>2
<1>2. UNCHANGED <<stores, history>> /\ UNCHANGED <<pc, job, dao, entity, counts>>
  BY DEF Outside, Block, VotePeriodEnds, ConsumerPasses, memory
<1> QED
  BY <1>1, <1>2 DEF Same

\* A receipt and its block are the same after the chain has grown.
LEMMA Stable ==
  ASSUME Grows, NEW w \in Handlers, job[w] \in Keys, job'[w] = job[w]
  PROVE  /\ Receipt(w)' = Receipt(w) /\ BlockOf(w)' = BlockOf(w) /\ OnChain(w)' = OnChain(w)
         /\ job'[w] \in Keys'
         /\ NullProposal(w)' = NullProposal(w)
<1>1. Receipt(w)' = Receipt(w) /\ Receipt(w).block \in 1 .. Len(blocks) /\ job'[w] \in Keys'
  BY DEF Grows, Keys, Receipt
<1>2. BlockOf(w)' = BlockOf(w)
  BY <1>1 DEF Grows, BlockOf
<1>3. OnChain(w)' = OnChain(w)
  BY <1>1, <1>2 DEF OnChain
<1> QED
  BY <1>1, <1>2, <1>3 DEF NullProposal

LEMMA HandlerInit == Init => \A w \in Handlers : HandlerInv(w)
BY WorkerSets DEF Init, HandlerInv

LEMMA SameHandler ==
  ASSUME Grows, NEW v \in Handlers, HandlerInv(v), Same(v)
  PROVE  HandlerInv(v)'
<1>1. pc'[v] = pc[v] /\ job'[v] = job[v] /\ entity'[v] = entity[v]
  BY DEF Same
<1>2. CASE pc[v] = "off"
  BY <1>1, <1>2 DEF HandlerInv
<1>3. CASE pc[v] # "off"
  BY <1>1, <1>3, Stable DEF HandlerInv
<1> QED
  BY <1>2, <1>3

LEMMA HandlerNext ==
  ASSUME TypeOK, \A w \in Handlers : HandlerInv(w), [Next]_vars
  PROVE  \A w \in Handlers : HandlerInv(w)'
<1>0. /\ ChainType /\ MemoryType
      /\ \A w \in Handlers : w \in Workers
  BY WorkerSets DEF TypeOK
<1>1. CASE UNCHANGED vars
  BY <1>1 DEF vars, chainVars, memory, HandlerInv, Keys, NullProposal, Receipt, OnChain, BlockOf
<1>2. CASE Outside
  BY <1>0, <1>2, OutsideStays, SameHandler
<1>3. CASE Crash
  <2>1. Grows
    BY <1>0, <1>3, ChainStays DEF Crash
  <2>2. ASSUME NEW v \in Handlers
        PROVE  HandlerInv(v)'
    <3>1. {Consumer} \cup Retriers \in SUBSET Workers /\ Stops({Consumer} \cup Retriers)
      BY <1>3 DEF Crash, Workers, Handlers
    <3>2. CASE v \in {Consumer} \cup Retriers
      <4>1. pc'[v] = "off" /\ entity'[v] = NoRow
        BY <1>0, <3>1, <3>2, Stopped
      <4> QED
        BY <4>1 DEF HandlerInv
    <3>3. CASE v \notin {Consumer} \cup Retriers
      <4>1. Same(v)
        BY <1>0, <3>1, <3>3, Stopped DEF Same
      <4> QED
        BY <2>1, <4>1, SameHandler
    <3> QED
      BY <3>2, <3>3
  <2> QED
    BY <2>2
<1>4. ASSUME NEW w \in Workers, Moves(w)
      PROVE  \A v \in Handlers : HandlerInv(v)'
  <2>0. Grows /\ \A v \in Workers \ {w} : Same(v)
    BY <1>4, OthersStay
  <2>1. \A v \in Handlers \ {w} : HandlerInv(v)'
    BY <1>0, <2>0, SameHandler
  <2>2. ASSUME w \in Handlers
        PROVE  HandlerInv(w)'
    <3>1. CASE Stops({w})
      <4>1. pc'[w] = "off" /\ entity'[w] = NoRow
        BY <1>0, <2>2, <3>1, StoppedOne
      <4> QED
        BY <4>1 DEF HandlerInv
    <3>2. CASE \E k \in Keys : Begin(w, k)
      <4>1. PICK k \in Keys : Begin(w, k)
        BY <3>2
      <4>2. pc'[w] = "readDao" /\ job'[w] = k
        BY <1>0, <2>2, <4>1 DEF Begin, GoTo, MemoryType
      <4>3. k \in Keys'
        BY <2>0 DEF Grows, Keys
      <4> QED
        BY <4>2, <4>3 DEF HandlerInv
    <3>3. CASE \/ ReadDao(w) \/ ReadProposal(w) \/ MissProposal(w) \/ SaveSql(w)
               \/ SaveDao(w) \/ SaveDaoSql(w)
      <4>1. pc[w] # "off" /\ pc'[w] \notin {"off", "saveSql"} /\ job'[w] = job[w]
        BY <1>0, <3>3 DEF ReadDao, ReadProposal, MissProposal, SaveSql, SaveDao, Count,
           SaveDaoDyn, SaveDaoSql, GoTo, memory, MemoryType
      <4>2. job[w] \in Keys
        BY <2>2, <4>1 DEF HandlerInv
      <4> QED
        BY <2>0, <2>2, <4>1, <4>2, Stable DEF HandlerInv
    <3>4. CASE SaveDyn(w)
      <4>1. pc[w] # "off" /\ pc'[w] = "saveSql" /\ job'[w] = job[w] /\ ~NullProposal(w)
        BY <1>0, <3>4 DEF SaveDyn, GoTo, memory, MemoryType
      <4>2. job[w] \in Keys
        BY <2>2, <4>1 DEF HandlerInv
      <4> QED
        BY <2>0, <2>2, <4>1, <4>2, Stable DEF HandlerInv
    <3>5. w \notin Pollers
      BY <2>2, WorkerSets
    <3> QED
      BY <1>4, <3>1, <3>2, <3>3, <3>4, <3>5
         DEF Moves, Handles, Handle, Throws, NullThrows, Rejects, Mark
  <2> QED
    BY <2>1, <2>2
<1> QED
  BY <1>1, <1>2, <1>3, <1>4, OneMoves

-----------------------------------------------------------------------------
(* Stored proposals show states of the chain                               *)

RowReal(p, row) ==
  (row.status # "absent" => WasOnChain(p, row)) /\ ActionsReal(p, row.actions)

Holds(w) == pc[w] # "off" => ActionsReal(Receipt(w).id, entity[w].actions)

LEMMA ChainParts ==
  ChainInv <=> /\ \A p \in Ids : RowReal(p, dyn[p]) /\ RowReal(p, sql[p])
               /\ \A w \in Handlers : Holds(w)
BY DEF ChainInv, RowReal, Holds

LEMMA ActionsGrow ==
  ASSUME Grows, NEW p, NEW actions, ActionsReal(p, actions)
  PROVE  ActionsReal(p, actions)'
<1>1. \A k \in Keys : k \in Keys' /\ receipts'[k] = receipts[k]
  BY DEF Grows, Keys
<1> QED
  BY <1>1 DEF ActionsReal

LEMMA RealGrows ==
  ASSUME Grows, NEW p, NEW row, RowReal(p, row)
  PROVE  RowReal(p, row)'
<1>1. ActionsReal(p, row.actions)'
  BY ActionsGrow DEF RowReal
<1>2. \A b \in 1 .. Len(blocks) : b \in 1 .. Len(blocks') /\ blocks'[b] = blocks[b]
  BY DEF Grows
<1>3. WasOnChain(p, row) => WasOnChain(p, row)'
  BY <1>2 DEF WasOnChain
<1> QED
  BY <1>1, <1>3 DEF RowReal

LEMMA ChainInit == Init => ChainInv
BY DEF Init, ChainInv, NoRow, ActionsReal

\* What a handler writes is real.
LEMMA RowIsReal ==
  ASSUME ChainType, StoresType, MemoryType, NEW w \in Handlers, HandlerInv(w), Holds(w), pc[w] # "off"
  PROVE  /\ RowReal(Receipt(w).id, Row(w))
         /\ ActionOf(Receipt(w)) \in Row(w).actions
<1> DEFINE r == Receipt(w)
           p == r.id
<1>1. /\ job[w] \in Keys /\ r = receipts[job[w]] /\ r.block \in 1 .. Len(blocks)
      /\ OnChain(w) = blocks[r.block].proposals[p]
  BY HandlerFacts DEF HandlerInv
<1>2. ActionsReal(p, entity[w].actions)
  BY DEF Holds
<1>3. CASE r.op = "AddProposal"
  <2>1. Row(w) = CreatedRow(r)
    BY <1>3 DEF Row
  <2>2. WasOnChain(p, Row(w))
    BY <2>1 DEF CreatedRow, WasOnChain
  <2>3. Row(w).actions = {ActionOf(r)}
    BY <2>1 DEF CreatedRow
  <2>4. ActionsReal(p, Row(w).actions)
    BY <1>1, <2>3 DEF ActionsReal
  <2> QED
    BY <2>2, <2>3, <2>4 DEF RowReal
<1>4. CASE r.op # "AddProposal"
  <2>1. Row(w) = ActedRow(entity[w], OnChain(w), r)
    BY <1>4 DEF Row
  <2>2. /\ Row(w).status = OnChain(w).status /\ Row(w).votes = OnChain(w).votes
        /\ Row(w).actions = entity[w].actions \cup {ActionOf(r)}
    BY <2>1 DEF ActedRow
  <2>3. WasOnChain(p, Row(w))
    BY <1>1, <2>2 DEF WasOnChain
  <2>4. ActionsReal(p, Row(w).actions)
    BY <1>1, <1>2, <2>2 DEF ActionsReal
  <2> QED
    BY <2>2, <2>3, <2>4 DEF RowReal
<1> QED
  BY <1>3, <1>4

LEMMA SameHolds ==
  ASSUME Grows, NEW v \in Handlers, HandlerInv(v), Holds(v), Same(v)
  PROVE  Holds(v)'
<1>1. pc'[v] = pc[v] /\ job'[v] = job[v] /\ entity'[v] = entity[v]
  BY DEF Same
<1>2. CASE pc[v] = "off"
  BY <1>1, <1>2 DEF Holds
<1>3. CASE pc[v] # "off"
  <2>1. Receipt(v)' = Receipt(v)
    BY <1>1, <1>3, Stable DEF HandlerInv
  <2>2. ActionsReal(Receipt(v).id, entity[v].actions)
    BY <1>3 DEF Holds
  <2>3. \A k \in Keys : k \in Keys' /\ receipts'[k] = receipts[k]
    BY DEF Grows, Keys
  <2>4. ASSUME NEW a \in entity[v].actions
        PROVE  \E k \in Keys' : receipts'[k].id = Receipt(v).id /\ ActionOf(receipts'[k]) = a
    BY <2>2, <2>3 DEF ActionsReal
  <2> QED
    BY <1>1, <2>1, <2>4 DEF Holds, ActionsReal
<1> QED
  BY <1>2, <1>3

LEMMA RowLike ==
  ASSUME NEW p, NEW old, NEW new, RowReal(p, old),
         new.status = old.status, new.votes = old.votes, new.actions = old.actions
  PROVE  RowReal(p, new)
BY DEF RowReal, WasOnChain

\* What a step of a worker does to the stored proposals is real.
LEMMA StoresReal ==
  ASSUME TypeOK, \A w \in Handlers : HandlerInv(w), ChainInv, NEW w \in Workers, Moves(w)
  PROVE  \A p \in Ids : RowReal(p, dyn'[p]) /\ RowReal(p, sql'[p])
<1>0. /\ ChainType /\ StoresType /\ MemoryType
      /\ \A p \in Ids : /\ RowReal(p, dyn[p]) /\ RowReal(p, sql[p])
                        /\ dyn[p] \in Rows /\ sql[p] \in Rows
      /\ \A v \in Handlers : HandlerInv(v) /\ Holds(v)
  BY ChainParts DEF TypeOK, StoresType
<1>1. CASE w \in Handlers /\ SaveDyn(w)
  <2> DEFINE i == Receipt(w).id
  <2>1. i \in Ids /\ Row(w) \in Rows /\ RowReal(i, Row(w)) /\ sql' = sql
    BY <1>0, <1>1, HandlerFacts, RowIsReal DEF SaveDyn, HandlerInv
  <2>2. dyn' = [dyn EXCEPT ![i] = IF Removes(w) THEN [dyn[i] EXCEPT !.archived = TRUE]
                                  ELSE [Row(w) EXCEPT !.voteStatus = "Active"]]
    BY <1>0, <1>1, <2>1 DEF SaveDyn, StoresType
  <2>3. CASE Removes(w)
    <3>1. dyn'[i] = [dyn[i] EXCEPT !.archived = TRUE]
      BY <1>0, <2>1, <2>2, <2>3 DEF StoresType
    <3>2. /\ dyn'[i].status = dyn[i].status /\ dyn'[i].votes = dyn[i].votes
          /\ dyn'[i].actions = dyn[i].actions
      BY <1>0, <2>1, <3>1 DEF Rows
    <3>3. RowReal(i, dyn'[i])
      BY <1>0, <2>1, <3>2, RowLike
    <3> QED
      BY <1>0, <2>1, <2>2, <3>3 DEF StoresType
  <2>4. CASE ~Removes(w)
    <3>1. dyn'[i] = [Row(w) EXCEPT !.voteStatus = "Active"]
      BY <1>0, <2>1, <2>2, <2>4 DEF StoresType
    <3>2. /\ dyn'[i].status = Row(w).status /\ dyn'[i].votes = Row(w).votes
          /\ dyn'[i].actions = Row(w).actions
      BY <2>1, <3>1 DEF Rows
    <3>3. RowReal(i, dyn'[i])
      BY <2>1, <3>2, RowLike
    <3> QED
      BY <1>0, <2>1, <2>2, <3>3 DEF StoresType
  <2> QED
    BY <2>3, <2>4
<1>2. CASE w \in Handlers /\ SaveSql(w)
  <2> DEFINE i == Receipt(w).id
             row == [Row(w) EXCEPT !.actions = @ \cup sql[i].actions]
  <2>1. i \in Ids /\ Row(w) \in Rows /\ RowReal(i, Row(w)) /\ dyn' = dyn
    BY <1>0, <1>2, HandlerFacts, RowIsReal DEF SaveSql, HandlerInv
  <2>2. sql' = [sql EXCEPT ![i] = IF Removes(w) THEN NoRow ELSE row]
    BY <1>2 DEF SaveSql
  <2>3. RowReal(i, NoRow)
    BY DEF RowReal, NoRow, ActionsReal
  <2>4. /\ row.status = Row(w).status /\ row.votes = Row(w).votes
        /\ row.actions = Row(w).actions \cup sql[i].actions
    BY <2>1 DEF Rows
  <2>5. RowReal(i, row)
    <3>1. ActionsReal(i, row.actions)
      BY <1>0, <2>1, <2>4 DEF RowReal, ActionsReal
    <3>2. row.status # "absent" => WasOnChain(i, row)
      BY <2>1, <2>4 DEF RowReal, WasOnChain
    <3> QED
      BY <3>1, <3>2 DEF RowReal
  <2>6. sql'[i] = NoRow \/ sql'[i] = row
    BY <1>0, <2>1, <2>2 DEF StoresType
  <2>7. RowReal(i, sql'[i])
    BY <2>3, <2>5, <2>6
  <2> QED
    BY <1>0, <2>1, <2>2, <2>7 DEF StoresType
<1>3. CASE Expire(w)
  <2>1. /\ dyn' = dyn
        /\ \A p \in Ids : sql'[p] = sql[p] \/ sql'[p] = [sql[p] EXCEPT !.voteStatus = "Expired"]
    BY <1>3 DEF Expire
  <2>2. ASSUME NEW p \in Ids
        PROVE  RowReal(p, sql'[p])
    <3>1. /\ sql'[p].status = sql[p].status /\ sql'[p].votes = sql[p].votes
          /\ sql'[p].actions = sql[p].actions
      BY <1>0, <2>1 DEF Rows
    <3> QED
      BY <1>0, <3>1, RowLike
  <2> QED
    BY <1>0, <2>1, <2>2
<1>4. CASE ~ (w \in Handlers /\ (SaveDyn(w) \/ SaveSql(w))) /\ ~ Expire(w)
  <2>1. dyn' = dyn /\ sql' = sql
    BY <1>4 DEF Moves, Handles, Handle, Poll, SaveDao, Throws, NullThrows, Rejects, Mark, PollEnds,
       Begin, ReadDao, ReadProposal, MissProposal, Count, SaveDaoDyn, SaveDaoSql, PollBegins, stores
  <2> QED
    BY <1>0, <2>1
<1> QED
  BY <1>1, <1>2, <1>3, <1>4

LEMMA ChainNext ==
  ASSUME TypeOK, \A w \in Handlers : HandlerInv(w), ChainInv, [Next]_vars
  PROVE  ChainInv'
<1>0. /\ ChainType /\ StoresType /\ MemoryType
      /\ \A w \in Handlers : w \in Workers /\ HandlerInv(w) /\ Holds(w)
      /\ \A p \in Ids : RowReal(p, dyn[p]) /\ RowReal(p, sql[p])
  BY WorkerSets, ChainParts DEF TypeOK
<1>1. ASSUME Grows, \A p \in Ids : RowReal(p, dyn'[p]) /\ RowReal(p, sql'[p]),
             \A w \in Handlers : Holds(w)'
      PROVE  ChainInv'
  <2>1. ASSUME NEW p \in Ids, NEW row, RowReal(p, row)
        PROVE  /\ row.status # "absent" => WasOnChain(p, row)'
               /\ ActionsReal(p, row.actions)'
    BY <1>1, <2>1, RealGrows DEF RowReal
  <2>2. \A p \in Ids : /\ (dyn'[p].status # "absent" => WasOnChain(p, dyn[p])')
                       /\ ActionsReal(p, dyn[p].actions)'
    BY <1>1, <2>1 DEF WasOnChain, ActionsReal
  <2>3. \A p \in Ids : /\ (sql'[p].status # "absent" => WasOnChain(p, sql[p])')
                       /\ ActionsReal(p, sql[p].actions)'
    BY <1>1, <2>1 DEF WasOnChain, ActionsReal
  <2> QED
    BY <1>1, <2>2, <2>3 DEF ChainInv, Holds
<1>2. CASE UNCHANGED vars
  BY <1>2 DEF vars, chainVars, stores, memory, ChainInv, WasOnChain, ActionsReal, Keys, Receipt
<1>3. CASE Outside
  <2>1. /\ Grows /\ UNCHANGED <<dyn, sql>> /\ \A v \in Workers : Same(v)
    BY <1>3, OutsideStays DEF stores
  <2>2. \A w \in Handlers : Holds(w)'
    BY <1>0, <2>1, SameHolds
  <2> QED
    BY <1>0, <1>1, <2>1, <2>2
<1>4. CASE Crash
  <2>1. Grows /\ UNCHANGED <<dyn, sql>>
    BY <1>0, <1>4, ChainStays DEF Crash, stores
  <2>2. ASSUME NEW v \in Handlers
        PROVE  Holds(v)'
    <3>1. {Consumer} \cup Retriers \in SUBSET Workers /\ Stops({Consumer} \cup Retriers)
      BY <1>4 DEF Crash, Workers, Handlers
    <3>2. CASE v \in {Consumer} \cup Retriers
      <4>1. pc'[v] = "off"
        BY <1>0, <3>1, <3>2, Stopped
      <4> QED
        BY <4>1 DEF Holds
    <3>3. CASE v \notin {Consumer} \cup Retriers
      <4>1. Same(v)
        BY <1>0, <3>1, <3>3, Stopped DEF Same
      <4> QED
        BY <1>0, <2>1, <4>1, SameHolds
    <3> QED
      BY <3>2, <3>3
  <2> QED
    BY <1>0, <1>1, <2>1, <2>2
<1>5. ASSUME NEW w \in Workers, Moves(w)
      PROVE  ChainInv'
  <2>1. Grows /\ UNCHANGED chainVars /\ \A v \in Workers \ {w} : Same(v)
    BY <1>5, OthersStay
  <2>2. \A p \in Ids : RowReal(p, dyn'[p]) /\ RowReal(p, sql'[p])
    BY <1>5, StoresReal
  <2>3. ASSUME w \in Handlers
        PROVE  Holds(w)'
    <3>1. CASE Stops({w})
      <4>1. pc'[w] = "off"
        BY <1>0, <3>1, StoppedOne
      <4> QED
        BY <4>1 DEF Holds
    <3>2. CASE \E k \in Keys : Begin(w, k)
      <4>1. entity'[w] = NoRow
        BY <1>0, <2>3, <3>2 DEF Begin, HandlerInv
      <4> QED
        BY <4>1 DEF Holds, NoRow, ActionsReal
    <3>3. CASE ReadProposal(w)
      <4> DEFINE i == Receipt(w).id
      <4>1. i \in Ids
        BY <1>0, <2>3, <3>3, HandlerFacts DEF ReadProposal, HandlerInv
      <4>2. entity'[w] = Proposals[i] /\ job' = job
        BY <1>0, <2>3, <3>3 DEF ReadProposal, MemoryType
      <4>3. Receipt(w)' = Receipt(w)
        BY <2>1, <4>2 DEF Receipt, chainVars
      <4>4. ActionsReal(i, Proposals[i].actions)
        BY <1>0, <4>1 DEF Proposals, RowReal
      <4> QED
        BY <2>1, <4>2, <4>3, <4>4 DEF Holds, ActionsReal, Keys, chainVars
    <3>4. CASE \/ ReadDao(w) \/ MissProposal(w) \/ SaveDyn(w) \/ SaveSql(w)
               \/ SaveDao(w) \/ SaveDaoSql(w)
      <4>1. pc[w] # "off" /\ job' = job /\ entity' = entity
        BY <3>4 DEF ReadDao, MissProposal, SaveDyn, SaveSql, SaveDao, Count, SaveDaoDyn, SaveDaoSql,
           memory
      <4> QED
        BY <1>0, <2>1, <2>3, <4>1 DEF Holds, ActionsReal, Keys, Receipt, chainVars
    <3>5. w \notin Pollers
      BY <2>3, WorkerSets
    <3> QED
      BY <1>5, <3>1, <3>2, <3>3, <3>4, <3>5
         DEF Moves, Handles, Handle, Throws, NullThrows, Rejects, Mark
  <2>4. \A v \in Handlers : Holds(v)'
    BY <1>0, <2>1, <2>3, SameHolds
  <2> QED
    BY <1>1, <2>1, <2>2, <2>4
<1> QED
  BY <1>2, <1>3, <1>4, <1>5, OneMoves

-----------------------------------------------------------------------------
(* A worker that runs alone makes the stores agree                         *)

LEMMA SoloInit == Init => SoloInv /\ SoloRepairs /\ CountsShown
BY WorkerSets DEF Init, SoloInv, SoloRepairs, CountsShown

LEMMA SameViews ==
  ASSUME Grows, NEW v \in Handlers, HandlerInv(v), Same(v), pc[v] # "off"
  PROVE  /\ Receipt(v)' = Receipt(v) /\ OnChain(v)' = OnChain(v) /\ BlockOf(v)' = BlockOf(v)
         /\ PolicyToSave(v)' = PolicyToSave(v)
<1>1. /\ Receipt(v)' = Receipt(v) /\ OnChain(v)' = OnChain(v) /\ BlockOf(v)' = BlockOf(v)
  BY Stable DEF Same, HandlerInv
<1> QED
  BY <1>1 DEF PolicyToSave, Same

\* Nothing of what a worker has done is undone while it does not step and no
\* store is written.
LEMMA SameFollows ==
  ASSUME Grows, NEW v \in Workers, v \in Handlers => HandlerInv(v), Same(v), Follows(v),
         UNCHANGED <<dyn, sql, daoDyn, daoSql>>
  PROVE  Follows(v)'
<1>1. pc'[v] = pc[v] /\ counts'[v] = counts[v]
  BY DEF Same
<1>2. pc[v] \in {"daoDyn", "daoSql", "mark"} => Counted(counts[v])'
  BY <1>1 DEF Follows, Counted, Present, Running, Proposals
<1>3. ASSUME v \in Handlers, pc[v] # "off"
      PROVE  /\ DynShown(v) => DynShown(v)'
             /\ SqlShown(v) => SqlShown(v)'
             /\ PolicyToSave(v)' = PolicyToSave(v)
  BY <1>3, SameViews DEF DynShown, SqlShown
<1> QED
  BY <1>1, <1>2, <1>3 DEF Follows

LEMMA SoloOutside ==
  ASSUME TypeOK, \A w \in Handlers : HandlerInv(w), SoloInv, SoloRepairs, CountsShown, Outside
  PROVE  SoloInv' /\ SoloRepairs' /\ CountsShown'
<1>1. /\ \A v \in Workers : Same(v)
      /\ Grows /\ UNCHANGED <<stores, history>>
  BY OutsideStays
<1>2. CountsShown'
  BY <1>1 DEF CountsShown, stores, history, Present, Running, Proposals
<1>3. SoloRepairs'
  <2> SUFFICES ASSUME settled # 0
               PROVE  SoloRepairs'
    BY <1>1 DEF SoloRepairs, history
  <2>1. /\ receipts'[settled] = receipts[settled]
        /\ blocks'[receipts[settled].block] = blocks[receipts[settled].block]
    BY <1>1 DEF SoloInv, Grows
  <2> QED
    BY <1>1, <2>1 DEF SoloRepairs, stores, history
<1>4. settled' # 0 => settled' \in Keys'
  BY <1>1 DEF SoloInv, Grows, Keys, history
<1>5. \A v \in Workers : alone' = v => Follows(v)'
  BY <1>1, SameFollows DEF SoloInv, stores, history
<1> QED
  BY <1>1, <1>2, <1>3, <1>4, <1>5 DEF SoloInv, history, Same

LEMMA SoloBegins ==
  ASSUME TypeOK, NEW w \in Workers, Moves(w), Begins(w), pc'[w] \in {"readDao", "expire"}
  PROVE  SoloInv' /\ SoloRepairs' /\ CountsShown'
<1>1. settled' = 0 /\ counted' = FALSE
  BY DEF Begins
<1>2. /\ alone' = None \/ alone' = w
      /\ alone' = w => \A v \in Workers \ {w} : pc[v] = "off"
  <2>1. alone' = IF \A u \in Workers \ {w} : pc[u] = "off" THEN w ELSE None
    BY DEF Begins
  <2> QED
    BY <2>1, WorkerSets
<1>3. \A v \in Workers \ {w} : pc'[v] = pc[v]
  BY OthersStay DEF Same
<1>4. Follows(w)'
  BY DEF Follows
<1>5. SoloInv'
  BY <1>1, <1>2, <1>3, <1>4, WorkerSets DEF SoloInv
<1> QED
  BY <1>1, <1>5 DEF SoloRepairs, CountsShown

LEMMA SoloGoes ==
  ASSUME TypeOK, SoloInv, NEW w \in Workers, Moves(w), pc[w] # "off",
         UNCHANGED history, alone = w => Follows(w)'
  PROVE  SoloInv' /\ SoloRepairs' /\ CountsShown'
<1>1. settled = 0 /\ counted = FALSE
  BY DEF SoloInv, TypeOK, HistoryType
<1>2. alone = None \/ alone = w
  BY DEF SoloInv, TypeOK, HistoryType
<1>3. \A v \in Workers \ {w} : pc'[v] = pc[v]
  BY OthersStay DEF Same
<1>4. SoloInv'
  BY <1>1, <1>2, <1>3, WorkerSets DEF SoloInv, history
<1> QED
  BY <1>1, <1>4 DEF SoloRepairs, CountsShown, history

LEMMA SoloStops ==
  ASSUME TypeOK, SoloInv, NEW w \in Workers, Moves(w), pc[w] # "off", Stops({w}),
         settled' # 0 => alone = w /\ settled' \in Keys /\ SoloRepairs',
         counted' => alone = w /\ CountsShown'
  PROVE  SoloInv' /\ SoloRepairs' /\ CountsShown'
<1>1. alone = None \/ alone = w
  BY DEF SoloInv, TypeOK, HistoryType
<1>2. alone' = None
  BY <1>1 DEF Stops
<1>3. pc'[w] = "off" /\ \A v \in Workers \ {w} : pc'[v] = pc[v]
  BY StoppedOne DEF TypeOK, Same
<1>4. Keys' = Keys
  BY OthersStay DEF Keys, chainVars
<1>5. SoloInv'
  BY <1>2, <1>3, <1>4, WorkerSets DEF SoloInv
<1> QED
  BY <1>5 DEF SoloRepairs, CountsShown

LEMMA SoloCrash ==
  ASSUME TypeOK, SoloInv, Crash
  PROVE  SoloInv' /\ SoloRepairs' /\ CountsShown'
<1> DEFINE ws == {Consumer} \cup Retriers
<1>0. ws \in SUBSET Workers /\ Stops(ws) /\ MemoryType
  BY DEF Crash, Workers, Handlers, TypeOK
<1>1. PICK w \in ws : pc[w] # "off"
  BY DEF Crash
<1>2. settled = 0 /\ counted = FALSE /\ settled' = settled /\ counted' = counted
  BY <1>0, <1>1 DEF SoloInv, TypeOK, HistoryType, Crash
<1>3. alone = None \/ alone = w
  BY <1>0, <1>1 DEF SoloInv, TypeOK, HistoryType
<1>4. alone' = None
  BY <1>1, <1>3 DEF Stops, Crash
<1>5. SoloInv'
  BY <1>2, <1>4, WorkerSets DEF SoloInv
<1> QED
  BY <1>2, <1>5 DEF SoloRepairs, CountsShown

\* A handler that goes on, with the same receipt.
LEMMA SoloViews ==
  ASSUME NEW w \in Handlers, UNCHANGED <<chainVars, job, dao>>
  PROVE  /\ Receipt(w)' = Receipt(w) /\ OnChain(w)' = OnChain(w)
         /\ PolicyToSave(w)' = PolicyToSave(w)
         /\ DynShown(w) /\ dyn' = dyn => DynShown(w)'
         /\ SqlShown(w) /\ sql' = sql => SqlShown(w)'
<1>1. /\ Receipt(w)' = Receipt(w) /\ BlockOf(w)' = BlockOf(w) /\ OnChain(w)' = OnChain(w)
  BY DEF Receipt, BlockOf, OnChain, chainVars
<1> QED
  BY <1>1 DEF PolicyToSave, DynShown, SqlShown

LEMMA SoloSaveDyn ==
  ASSUME TypeOK, NEW w \in Handlers, HandlerInv(w), SaveDyn(w)
  PROVE  Follows(w)'
<1>1. /\ pc[w] = "saveDyn" /\ pc'[w] = "saveSql" /\ ~NullProposal(w)
      /\ UNCHANGED <<chainVars, job, dao>>
  BY WorkerSets DEF SaveDyn, GoTo, TypeOK, MemoryType, memory
<1>2. job[w] \in Keys /\ ChainType /\ StoresType /\ MemoryType
  BY <1>1 DEF HandlerInv, TypeOK
<1>3. DynShown(w)'
  <2>1. /\ Receipt(w)' = Receipt(w) /\ OnChain(w)' = OnChain(w)
        /\ Receipt(w).id \in Ids /\ Receipt(w).op \in Ops /\ OnChain(w) \in States
    BY <1>1, <1>2, SoloViews, HandlerFacts
  <2>2. dyn'[Receipt(w).id] = IF Removes(w) THEN [dyn[Receipt(w).id] EXCEPT !.archived = TRUE]
                              ELSE [Row(w) EXCEPT !.voteStatus = "Active"]
    BY <1>2, <2>1 DEF SaveDyn, StoresType
  <2> SUFFICES ASSUME Receipt(w).op # "AddProposal"
               PROVE  LET row == dyn'[Receipt(w).id]
                      IN  IF OnChain(w).status = "absent" THEN row.archived
                          ELSE /\ Shows(row, OnChain(w)) /\ ~row.archived
                               /\ ActionOf(Receipt(w)) \in row.actions
    BY <2>1 DEF DynShown
  <2>3. CASE OnChain(w).status = "absent"
    <3>1. Removes(w)
      BY <1>1, <2>1, <2>3 DEF Removes, NullProposal, Ops, Votes
    <3>2. dyn[Receipt(w).id] \in Rows
      BY <1>2, <2>1 DEF StoresType
    <3> QED
      BY <2>2, <2>3, <3>1, <3>2 DEF Rows
  <2>4. CASE OnChain(w).status # "absent"
    <3>1. ~Removes(w)
      BY <2>4 DEF Removes
    <3> QED
      BY <2>2, <2>4, <3>1 DEF Row, ActedRow, Shows
  <2> QED
    BY <2>3, <2>4
<1> QED
  BY <1>1, <1>3 DEF Follows

LEMMA SoloSaveSql ==
  ASSUME TypeOK, NEW w \in Handlers, HandlerInv(w), SaveSql(w), Follows(w)
  PROVE  Follows(w)'
<1>1. /\ pc[w] = "saveSql" /\ pc'[w] = "count" /\ ~NullProposal(w) /\ dyn' = dyn
      /\ UNCHANGED <<chainVars, job, dao>>
  BY WorkerSets DEF SaveSql, GoTo, TypeOK, MemoryType, memory, HandlerInv
<1>2. job[w] \in Keys /\ ChainType /\ StoresType /\ MemoryType
  BY <1>1 DEF HandlerInv, TypeOK
<1>3. DynShown(w)'
  BY <1>1, SoloViews DEF Follows
<1>4. SqlShown(w)'
  <2>1. /\ Receipt(w)' = Receipt(w) /\ OnChain(w)' = OnChain(w)
        /\ Receipt(w).id \in Ids /\ Receipt(w).op \in Ops /\ OnChain(w) \in States
    BY <1>1, <1>2, SoloViews, HandlerFacts
  <2> DEFINE old == sql[Receipt(w).id].actions
  <2>2. sql'[Receipt(w).id] = IF Removes(w) THEN NoRow
                              ELSE [Row(w) EXCEPT !.actions = @ \cup old]
    BY <1>2, <2>1 DEF SaveSql, StoresType
  <2> SUFFICES ASSUME Receipt(w).op # "AddProposal"
               PROVE  LET row == sql'[Receipt(w).id]
                      IN  IF OnChain(w).status = "absent" THEN row = NoRow
                          ELSE /\ Shows(row, OnChain(w))
                               /\ ActionOf(Receipt(w)) \in row.actions
    BY <2>1 DEF SqlShown
  <2>3. CASE OnChain(w).status = "absent"
    <3>1. Removes(w)
      BY <1>1, <2>1, <2>3 DEF Removes, NullProposal, Ops, Votes
    <3> QED
      BY <2>2, <2>3, <3>1
  <2>4. CASE OnChain(w).status # "absent"
    <3>1. ~Removes(w)
      BY <2>4 DEF Removes
    <3> QED
      BY <2>2, <2>4, <3>1 DEF Row, ActedRow, Shows
  <2> QED
    BY <2>3, <2>4
<1> QED
  BY <1>1, <1>3, <1>4 DEF Follows

LEMMA SoloCount ==
  ASSUME TypeOK, NEW w \in Workers, Count(w), Follows(w)
  PROVE  Follows(w)'
<1>1. /\ pc[w] = "count" /\ pc'[w] = "daoDyn" /\ UNCHANGED <<chainVars, job, dao, stores>>
      /\ counts'[w] = [total |-> Cardinality(Present(Proposals)),
                       active |-> Cardinality(Running(Proposals))]
  BY DEF Count, GoTo, TypeOK, MemoryType
<1>2. Counted(counts[w])'
  BY <1>1 DEF Counted, Present, Running, Proposals, stores
<1>3. w \in Handlers => DynShown(w)' /\ SqlShown(w)'
  BY <1>1, SoloViews DEF Follows, stores
<1> QED
  BY <1>1, <1>2, <1>3 DEF Follows

LEMMA SoloSaveDaoDyn ==
  ASSUME TypeOK, NEW w \in Workers, SaveDaoDyn(w), Follows(w)
  PROVE  Follows(w)'
<1>1. /\ pc[w] = "daoDyn" /\ pc'[w] = "daoSql" /\ UNCHANGED <<chainVars, job, dao, dyn, sql, counts>>
      /\ daoDyn' = SavedDao(w, daoDyn)
  BY DEF SaveDaoDyn, GoTo, TypeOK, MemoryType, memory
<1>2. Counted(counts[w])'
  BY <1>1 DEF Follows, Counted, Present, Running, Proposals
<1>3. ASSUME w \in Handlers
      PROVE  /\ DynShown(w)' /\ SqlShown(w)'
             /\ daoDyn' = [policy |-> PolicyToSave(w)', total |-> counts'[w].total,
                           active |-> counts'[w].active]
  BY <1>1, <1>3, SoloViews DEF Follows, SavedDao
<1> QED
  BY <1>1, <1>2, <1>3 DEF Follows

LEMMA SoloSaveDaoSql ==
  ASSUME TypeOK, NEW w \in Handlers, SaveDaoSql(w), Follows(w)
  PROVE  Follows(w)'
<1>1. /\ pc[w] = "daoSql" /\ pc'[w] = "mark"
      /\ UNCHANGED <<chainVars, job, dao, dyn, sql, daoDyn, counts>>
      /\ daoSql' = SavedDao(w, daoSql)
  BY WorkerSets DEF SaveDaoSql, GoTo, TypeOK, MemoryType, memory
<1>2. Counted(counts[w])'
  BY <1>1 DEF Follows, Counted, Present, Running, Proposals
<1>3. /\ DynShown(w)' /\ SqlShown(w)'
      /\ daoDyn' = [policy |-> PolicyToSave(w)', total |-> counts'[w].total,
                    active |-> counts'[w].active]
      /\ daoSql' = daoDyn'
  BY <1>1, SoloViews DEF Follows, SavedDao
<1> QED
  BY <1>1, <1>2, <1>3 DEF Follows

\* A handler that ran alone has made both stores and the DAO row agree.
LEMMA SoloMark ==
  ASSUME TypeOK, \A v \in Handlers : HandlerInv(v), SoloInv, NEW w \in Handlers,
         Moves(w), Mark(w)
  PROVE  SoloInv' /\ SoloRepairs' /\ CountsShown'
<1>0. w \in Workers /\ job[w] \in Keys /\ ChainType /\ StoresType /\ MemoryType
  BY WorkerSets DEF HandlerInv, TypeOK, Mark
<1>1. /\ settled' # 0 => alone = w /\ pc[w] = "mark" /\ settled' = job[w]
      /\ counted' => alone = w /\ pc[w] = "mark"
      /\ pc[w] # "off" /\ Stops({w})
      /\ UNCHANGED <<receipts, blocks, dyn, sql, daoDyn, daoSql>>
  BY DEF Mark, chainVars
<1>2. ASSUME alone = w, pc[w] = "mark"
      PROVE  /\ DynShown(w) /\ SqlShown(w) /\ daoSql = daoDyn /\ Counted(counts[w])
             /\ daoDyn = [policy |-> PolicyToSave(w), total |-> counts[w].total,
                          active |-> counts[w].active]
  BY <1>0, <1>2 DEF SoloInv, Follows
<1>3. ASSUME settled' # 0
      PROVE  SoloRepairs'
  <2> DEFINE r == receipts[job[w]]
             s == blocks[r.block].proposals[r.id]
  <2>1. alone = w /\ pc[w] = "mark" /\ settled' = job[w]
    BY <1>1, <1>3
  <2>2. r = Receipt(w) /\ s = OnChain(w) /\ blocks[r.block] = BlockOf(w)
    BY DEF Receipt, OnChain, BlockOf
  <2>3. r.op # "AddProposal" =>
             IF s.status = "absent"
             THEN sql[r.id] = NoRow /\ dyn[r.id].archived
             ELSE /\ Shows(sql[r.id], s) /\ Shows(dyn[r.id], s)
                  /\ ~dyn[r.id].archived
                  /\ ActionOf(r) \in sql[r.id].actions \cap dyn[r.id].actions
    BY <1>2, <2>1, <2>2 DEF DynShown, SqlShown
  <2>4. r.op = "VoteApprove" /\ s.status = "Approved" /\ r.id \in PolicyChanges
             => daoSql.policy = blocks[r.block].policy
    BY <1>2, <2>1, <2>2 DEF PolicyToSave
  <2>5. daoSql = daoDyn
    BY <1>2, <2>1
  <2> HIDE DEF r, s
  <2>6. /\ r = receipts'[settled'] /\ s = blocks'[r.block].proposals[r.id]
        /\ blocks' = blocks /\ UNCHANGED <<dyn, sql, daoDyn, daoSql>>
    BY <1>1, <2>1 DEF r, s
  <2> QED
    BY <2>3, <2>4, <2>5, <2>6 DEF SoloRepairs
<1>4. ASSUME counted'
      PROVE  CountsShown'
  <2>1. Counted(counts[w]) /\ daoSql.total = counts[w].total /\ daoSql.active = counts[w].active
    BY <1>1, <1>2, <1>4
  <2> QED
    BY <1>1, <2>1 DEF CountsShown, Counted, Present, Running, Proposals
<1> QED
  BY <1>0, <1>1, <1>3, <1>4, SoloStops

LEMMA SoloPollEnds ==
  ASSUME TypeOK, SoloInv, NEW w \in Workers, Moves(w), PollEnds(w)
  PROVE  SoloInv' /\ SoloRepairs' /\ CountsShown'
<1>1. /\ pc[w] = "daoSql" /\ Stops({w}) /\ w \in Pollers
      /\ counted' => alone = w
      /\ daoSql' = SavedDao(w, daoSql) /\ settled' = settled
      /\ UNCHANGED <<dyn, sql>>
  BY DEF PollEnds
<1>2. settled = 0
  BY <1>1 DEF SoloInv, TypeOK, HistoryType
<1>3. ASSUME counted'
      PROVE  CountsShown'
  <2>1. Counted(counts[w])
    BY <1>1, <1>3 DEF SoloInv, Follows
  <2>2. daoSql'.total = counts[w].total /\ daoSql'.active = counts[w].active
    BY <1>1 DEF SavedDao
  <2> QED
    BY <1>1, <2>1, <2>2 DEF CountsShown, Counted, Present, Running, Proposals
<1> QED
  BY <1>1, <1>2, <1>3, SoloStops

\* A worker that gives up.
LEMMA SoloGivesUp ==
  ASSUME TypeOK, SoloInv, NEW w \in Workers, Moves(w), pc[w] # "off", Stops({w}),
         UNCHANGED <<settled, counted>>
  PROVE  SoloInv' /\ SoloRepairs' /\ CountsShown'
<1>1. settled = 0 /\ counted = FALSE
  BY DEF SoloInv, TypeOK, HistoryType
<1> QED
  BY <1>1, SoloStops

LEMMA SoloNext ==
  ASSUME TypeOK, \A w \in Handlers : HandlerInv(w), SoloInv, SoloRepairs, CountsShown,
         [Next]_vars
  PROVE  SoloInv' /\ SoloRepairs' /\ CountsShown'
<1>0. MemoryType
  BY DEF TypeOK
<1>1. CASE UNCHANGED vars
  <2>1. UNCHANGED <<receipts, blocks, dyn, sql, daoDyn, daoSql, settled, counted>>
    BY <1>1 DEF vars, chainVars, stores, history
  <2>2. SoloRepairs' /\ CountsShown'
    BY <2>1 DEF SoloRepairs, CountsShown, Present, Running, Proposals
  <2>3. Grows /\ \A v \in Workers : Same(v)
    BY <1>1, ChainStays DEF TypeOK, vars, memory, Same
  <2>4. \A v \in Workers : alone' = v => Follows(v)'
    BY <1>1, <2>1, <2>3, SameFollows DEF SoloInv, vars, history
  <2> QED
    BY <1>1, <2>2, <2>4 DEF SoloInv, vars, chainVars, history, Keys
<1>2. CASE Outside
  BY <1>2, SoloOutside
<1>3. CASE Crash
  BY <1>3, SoloCrash
<1>4. ASSUME NEW w \in Workers, Moves(w)
      PROVE  SoloInv' /\ SoloRepairs' /\ CountsShown'
  <2> DEFINE Goal == SoloInv' /\ SoloRepairs' /\ CountsShown'
  <2>1. alone = w => Follows(w)
    BY DEF SoloInv
  <2>2. CASE \E k \in Keys : Begin(w, k)
    <3>1. Begins(w) /\ pc'[w] = "readDao"
      BY <1>0, <2>2 DEF Begin, GoTo, MemoryType
    <3> QED
      BY <1>4, <3>1, SoloBegins
  <2>3. CASE PollBegins(w)
    <3>1. Begins(w) /\ pc'[w] = "expire"
      BY <1>0, <2>3 DEF PollBegins, GoTo, MemoryType
    <3> QED
      BY <1>4, <3>1, SoloBegins
  <2>4. ASSUME w \in Handlers, ReadDao(w) \/ ReadProposal(w) \/ MissProposal(w)
        PROVE  Goal
    <3>1. pc[w] # "off" /\ pc'[w] \in {"readProposal", "skip", "saveDyn"} /\ UNCHANGED history
      BY <1>0, <2>4 DEF ReadDao, ReadProposal, MissProposal, GoTo, MemoryType
    <3>2. Follows(w)'
      BY <3>1 DEF Follows
    <3> QED
      BY <1>4, <3>1, <3>2, SoloGoes
  <2>5. ASSUME w \in Handlers, SaveDyn(w)
        PROVE  Goal
    <3>1. pc[w] # "off" /\ UNCHANGED history
      BY <2>5 DEF SaveDyn
    <3> QED
      BY <1>4, <2>5, <3>1, SoloSaveDyn, SoloGoes
  <2>6. ASSUME w \in Handlers, SaveSql(w)
        PROVE  Goal
    <3>1. pc[w] # "off" /\ UNCHANGED history
      BY <2>6 DEF SaveSql
    <3> QED
      BY <1>4, <2>1, <2>6, <3>1, SoloSaveSql, SoloGoes
  <2>7. CASE Count(w)
    <3>1. pc[w] # "off" /\ UNCHANGED history
      BY <2>7 DEF Count
    <3> QED
      BY <1>4, <2>1, <2>7, <3>1, SoloCount, SoloGoes
  <2>8. CASE SaveDaoDyn(w)
    <3>1. pc[w] # "off" /\ UNCHANGED history
      BY <2>8 DEF SaveDaoDyn
    <3> QED
      BY <1>4, <2>1, <2>8, <3>1, SoloSaveDaoDyn, SoloGoes
  <2>9. ASSUME w \in Handlers, SaveDaoSql(w)
        PROVE  Goal
    <3>1. pc[w] # "off" /\ UNCHANGED history
      BY <2>9 DEF SaveDaoSql
    <3> QED
      BY <1>4, <2>1, <2>9, <3>1, SoloSaveDaoSql, SoloGoes
  <2>10. ASSUME w \in Handlers, Mark(w)
         PROVE  Goal
    BY <1>4, <2>10, SoloMark
  <2>11. CASE PollEnds(w)
    BY <1>4, <2>11, SoloPollEnds
  <2>12. CASE NullThrows(w) \/ Throws(w)
    <3>1. pc[w] # "off" /\ Stops({w}) /\ UNCHANGED <<settled, counted>>
      BY <2>12 DEF NullThrows, Throws, Rejects
    <3> QED
      BY <1>4, <3>1, SoloGivesUp
  <2>13. ASSUME w \in Pollers, Expire(w)
         PROVE  Goal
    <3>1. CASE counts[w].total > 0
      <4>1. pc[w] # "off" /\ pc'[w] = "count" /\ UNCHANGED history
        BY <1>0, <2>13, <3>1 DEF Expire, GoTo, MemoryType, history
      <4>2. Follows(w)'
        BY <2>13, <4>1, WorkerSets DEF Follows
      <4> QED
        BY <1>4, <4>1, <4>2, SoloGoes
    <3>2. CASE ~(counts[w].total > 0)
      <4>1. pc[w] # "off" /\ Stops({w}) /\ UNCHANGED <<settled, counted>>
        BY <2>13, <3>2 DEF Expire
      <4> QED
        BY <1>4, <4>1, SoloGivesUp
    <3> QED
      BY <3>1, <3>2
  <2> QED
    BY <1>4, <2>2, <2>3, <2>4, <2>5, <2>6, <2>7, <2>8, <2>9, <2>10, <2>11, <2>12, <2>13
    DEF Moves, Handles, Handle, Poll, SaveDao
<1> QED
  BY <1>1, <1>2, <1>3, <1>4, OneMoves

-----------------------------------------------------------------------------
(* Theorems                                                                *)

\* The inductive invariant: types, what a running handler has met, whose
\* actions the stores and the handlers hold, and how far a worker that no
\* other overlaps has come.
THEOREM Invariant == Spec => []IInv
<1>1. Init => IInv
  BY InitType, HandlerInit, ChainInit, SoloInit DEF IInv
<1>2. IInv /\ [Next]_vars => IInv'
  <2> SUFFICES ASSUME IInv, [Next]_vars
               PROVE  IInv'
    OBVIOUS
  <2>1. TypeOK /\ (\A w \in Handlers : HandlerInv(w)) /\ ChainInv
        /\ SoloInv /\ SoloRepairs /\ CountsShown
    BY DEF IInv
  <2>2. TypeOK'
    BY <2>1, NextType
  <2>3. \A w \in Handlers : HandlerInv(w)'
    BY <2>1, HandlerNext
  <2>4. ChainInv'
    BY <2>1, <2>2, ChainNext
  <2>5. SoloInv' /\ SoloRepairs' /\ CountsShown'
    BY <2>1, SoloNext
  <2> QED
    BY <2>2, <2>3, <2>4, <2>5 DEF IInv
<1> QED
  BY <1>1, <1>2, PTL DEF Spec

\* The stores, the memory of every worker and the contract keep their types.
THEOREM TypeCorrect == Spec => []TypeOK
<1>1. IInv => TypeOK
  BY DEF IInv
<1> QED
  BY <1>1, Invariant, PTL

\* Handlers that overlap, fail, are retried or run ahead of the consumer never
\* mix the parts of two states of a proposal, nor store an action that is not
\* on chain: handleAddProposal and handleActProposal with ProposalService.
THEOREM ChainStatesOnly == Spec => []OnlyChainStates
<1>1. IInv => OnlyChainStates
  BY DEF IInv, ChainInv, OnlyChainStates, ActionsReal, Keys
<1> QED
  BY <1>1, Invariant, PTL

\* Whatever was left behind, a handler that acts on a stored proposal while no
\* other worker runs makes both stores and the DAO row agree with the block of
\* its receipt: handleActProposal and DaoService.save.
THEOREM SoloRepairsAlways == Spec => []SoloRepairs
<1>1. IInv => SoloRepairs
  BY DEF IInv
<1> QED
  BY <1>1, Invariant, PTL

\* The counts that DaoService.save writes are those of the store the feature
\* flag selects when no other worker has run meanwhile.
THEOREM CountsAreShown == Spec => []CountsShown
<1>1. IInv => CountsShown
  BY DEF IInv
<1> QED
  BY <1>1, Invariant, PTL

-----------------------------------------------------------------------------
(* At the end of a block                                                   *)

\* The premise of BlocksExact.
Calm == ~scenario.callbacks /\ scenario.faults = 0

StateAfter(b, p) == IF b = 0 THEN NoProposal ELSE blocks[b].proposals[p]

PolicyAfter(b) == IF b = 0 THEN 0 ELSE blocks[b].policy

\* Receipt k of block b is about proposal p, or changes the policy.
Touches(k, b, p) == receipts[k].block = b /\ receipts[k].id = p

Changes(k, b) ==
  /\ receipts[k].block = b /\ receipts[k].op = "VoteApprove"
  /\ receipts[k].id \in PolicyChanges
  /\ blocks[b].proposals[receipts[k].id].status = "Approved"

Removing == {"VoteRemove", "RemoveProposal"}

\* The receipts of a block tell how it differs from the block before: which
\* proposals, and how those that were added or removed come to be.
ProposalTold(b, p) ==
  LET s == StateAfter(b, p)
      touching == {k \in Keys : Touches(k, b, p)}
  IN  /\ touching = {} => s = StateAfter(b - 1, p)
      /\ s.status = "absent" => s = NoProposal
      /\ \A k \in touching : s.status = "absent" /\ receipts[k].op \notin Removing =>
           \E j \in touching : j > k
      /\ \A k \in touching : receipts[k].op = "AddProposal" =>
           /\ \A j \in touching : k <= j
           /\ touching = {k} => s = NewProposal
      /\ (\A k \in touching : receipts[k].op # "AddProposal") /\ touching # {} =>
           StateAfter(b - 1, p).status # "absent"

PolicyTold(b) ==
  PolicyAfter(b) # PolicyAfter(b - 1) => \E k \in Keys : Changes(k, b)

\* Ids that are not given yet, and proposals that are gone, have no state.
Fresh(c) ==
  /\ \A p \in Ids : p > c.added => c.proposals[p] = NoProposal
  /\ \A p \in Ids : c.proposals[p].status = "absent" => c.proposals[p] = NoProposal

ChainTold ==
  /\ \A i, j \in Keys : i <= j => receipts[i].block <= receipts[j].block
  /\ \A b \in 1 .. Len(blocks) :
       /\ \E k \in Keys : receipts[k].block = b
       /\ \A p \in Ids : ProposalTold(b, p)
       /\ PolicyTold(b)
  /\ Fresh(Contract)

\* What BlockShown says of proposal p.
Shown(p, s) ==
  /\ Shows(sql[p], s)
  /\ IF s.status = "absent" THEN dyn[p].status = "absent" \/ dyn[p].archived
     ELSE Shows(dyn[p], s) /\ ~dyn[p].archived

\* The receipts of block b about proposal p, from n on.
Pending(b, n, p) == {k \in Keys : n <= k /\ Touches(k, b, p)}

\* The stores, when of block b the receipts from n on are still to be handled.
Place(b, n, p) ==
  LET s == StateAfter(b, p)
  IN  /\ Pending(b, n, p) = {} => Shown(p, s)
      /\ s.status = "absent" /\ Proposals[p].status = "absent" => Shown(p, NoProposal)
      /\ /\ Pending(b, n, p) # {} /\ s.status # "absent"
         /\ \A k \in Pending(b, n, p) : receipts[k].op # "AddProposal"
         => dyn[p].status # "absent" /\ sql[p].status # "absent"

PolicyStays(b, n) == \A k \in Keys : n <= k => ~Changes(k, b)

PolicyPlace(b, n) ==
  PolicyStays(b, n) => daoDyn.policy = PolicyAfter(b) /\ daoSql.policy = PolicyAfter(b)

\* The block of the receipt that is handled, or comes next.
Current == IF next \in Keys THEN receipts[next].block ELSE Len(blocks)

\* What a handler of receipt r, with s on chain, leaves in the stores.
Left(r, s) == IF r.op = "AddProposal" THEN NewProposal ELSE s

DynLeft(r, s) ==
  IF s.status = "absent" THEN r.op \in Removing /\ dyn[r.id].archived
  ELSE Shows(dyn[r.id], Left(r, s)) /\ ~dyn[r.id].archived

SqlLeft(r, s) == Shows(sql[r.id], Left(r, s))

\* The consumer at its receipt.
ConsumerHas(r, s) ==
  /\ pc[Consumer] = "readProposal" => r.op # "AddProposal"
  /\ pc[Consumer] = "saveDyn" /\ r.op = "AddProposal" => s.status # "absent"
  /\ pc[Consumer] \in {"saveSql", "count", "daoDyn", "daoSql", "mark"} => DynLeft(r, s)
  /\ pc[Consumer] \in {"count", "daoDyn", "daoSql", "mark"} => SqlLeft(r, s)
  /\ pc[Consumer] = "skip" =>
       s.status = "absent" /\ (r.op # "AddProposal" => Shown(r.id, NoProposal))

\* The policy the consumer has read, and written.
PolicyHeld(c, n) ==
  /\ pc[Consumer] \in {"readProposal", "saveDyn", "saveSql", "count", "daoDyn", "daoSql"} =>
       (PolicyStays(c, n) => dao[Consumer] = PolicyAfter(c))
  /\ pc[Consumer] \in {"daoSql", "mark"} => daoDyn.policy = PolicyToSave(Consumer)
  /\ pc[Consumer] = "mark" => daoSql.policy = PolicyToSave(Consumer)

ConsumerCalm ==
  pc[Consumer] # "off" =>
    /\ job[Consumer] = next
    /\ ConsumerHas(receipts[next], OnChain(Consumer))
    /\ PolicyHeld(Current, next)

StoresCalm ==
  /\ \A p \in Ids : Place(Current, next, p)
  /\ PolicyPlace(Current, next)

\* The handler of receipt k reads a property of a proposal that is gone.
Null(k) ==
  /\ receipts[k].op \in {"VoteApprove", "VoteReject", "Finalize"}
  /\ blocks[receipts[k].block].proposals[receipts[k].id].status = "absent"

\* Only receipts that can never be handled are retried, and nobody calls back.
OthersCalm ==
  /\ next <= Len(receipts) + 1
  /\ \A k \in failed : Null(k) /\ k < next
  /\ \A k \in handled : k < next
  /\ \A w \in Wallets : pc[w] = "off"
  /\ \A w \in Retriers :
       /\ pc[w] \in {"off", "readDao", "readProposal", "saveDyn", "skip"}
       /\ pc[w] # "off" => job[w] \in failed

CalmState == OthersCalm /\ ConsumerCalm /\ StoresCalm

CalmInv == Calm => CalmState

-----------------------------------------------------------------------------
(* A call of the contract                                                  *)

LEMMA OutcomeFacts ==
  ASSUME NEW c \in BlockSet, Fresh(c), NEW r \in Requests, NEW s \in Outcomes(c, r)
  PROVE  /\ r.op = "AddProposal" =>
              r.id = c.added + 1 /\ c.proposals[r.id] = NoProposal /\ s = NewProposal
         /\ r.op # "AddProposal" => c.proposals[r.id].status = "InProgress"
         /\ s.status = "absent" => r.op \in Removing /\ s = NoProposal
         /\ s.status = "Approved" => r.op = "VoteApprove"
<1> DEFINE old == c.proposals[r.id]
           voted == [old EXCEPT !.votes = @ \cup {<<r.by, r.op>>}]
<1>1. old \in States /\ r.op \in Ops /\ r.by \in Voters /\ r.id \in Ids /\ c.added \in Nat
  BY DEF BlockSet, Requests
<1>2. NewProposal.status = "InProgress" /\ NoProposal.status = "absent"
  BY DEF NewProposal, NoProposal
<1>3. CASE r.op = "AddProposal"
  <2>1. s \in IF r.id = c.added + 1 THEN {NewProposal} ELSE {}
    BY <1>3 DEF Outcomes, Votes
  <2>2. r.id = c.added + 1 /\ s = NewProposal
    BY <2>1
  <2>3. r.id > c.added
    BY <1>1, <2>2
  <2>4. c.proposals[r.id] = NoProposal
    BY <1>1, <2>3 DEF Fresh
  <2> QED
    BY <1>2, <1>3, <2>2, <2>4
<1>4. CASE r.op = "Finalize"
  <2>1. s = [old EXCEPT !.status = "Expired"] /\ old.status = "InProgress"
    BY <1>4 DEF Outcomes, Votes
  <2>2. s.status = "Expired"
    BY <1>1, <2>1 DEF States
  <2> QED
    BY <1>4, <2>1, <2>2
<1>5. CASE r.op = "RemoveProposal"
  <2>1. s = NoProposal /\ old.status = "InProgress"
    BY <1>5 DEF Outcomes, Votes
  <2> QED
    BY <1>2, <1>5, <2>1 DEF Removing
<1>6. CASE r.op \in Votes
  <2>1. r.op \notin {"AddProposal", "Finalize", "RemoveProposal"}
    BY <1>6 DEF Votes
  <2>2. /\ s \in {voted, CASE r.op = "VoteApprove" -> [voted EXCEPT !.status = "Approved"]
                           [] r.op = "VoteReject" -> [voted EXCEPT !.status = "Rejected"]
                           [] r.op = "VoteRemove" -> NoProposal}
        /\ old.status = "InProgress"
    BY <1>6, <2>1 DEF Outcomes
  <2>3. voted.status = old.status
    BY <1>1 DEF States
  <2>4. /\ [voted EXCEPT !.status = "Approved"].status = "Approved"
        /\ [voted EXCEPT !.status = "Rejected"].status = "Rejected"
    BY <1>1 DEF States
  <2>5. CASE r.op = "VoteApprove"
    BY <2>1, <2>2, <2>3, <2>4, <2>5
  <2>6. CASE r.op = "VoteReject"
    BY <2>1, <2>2, <2>3, <2>4, <2>6
  <2>7. CASE r.op = "VoteRemove"
    BY <1>2, <2>1, <2>2, <2>3, <2>7 DEF Removing
  <2> QED
    BY <1>6, <2>5, <2>6, <2>7 DEF Votes
<1> QED
  BY <1>1, <1>3, <1>4, <1>5, <1>6 DEF Ops

LEMMA CallFacts ==
  ASSUME NEW c \in BlockSet, Fresh(c), NEW r \in Requests, NEW s \in Outcomes(c, r)
  PROVE  LET d == After(c, r, s)
         IN  /\ d \in BlockSet /\ Fresh(d)
             /\ d.proposals[r.id] = s /\ r.id <= d.added
             /\ \A p \in Ids \ {r.id} : d.proposals[p] = c.proposals[p]
             /\ d.policy # c.policy => r.id \in PolicyChanges /\ s.status = "Approved"
<1> DEFINE d == After(c, r, s)
<1>1. s \in States /\ r.id \in Ids /\ c.added \in Nat /\ c.policy \in Nat
  BY OutcomesType DEF BlockSet, Requests
<1>2. d \in BlockSet
  BY <1>1, AfterType
<1>3. d.proposals[r.id] = s /\ \A p \in Ids \ {r.id} : d.proposals[p] = c.proposals[p]
  BY <1>1 DEF After, BlockSet
<1>4. d.added = c.added + IF r.op = "AddProposal" THEN 1 ELSE 0
  BY DEF After
<1>5. d.policy # c.policy => r.id \in PolicyChanges /\ s.status = "Approved"
  BY <1>1 DEF After
<1>6. /\ r.op = "AddProposal" => r.id = c.added + 1
      /\ r.op # "AddProposal" => c.proposals[r.id].status = "InProgress"
      /\ s.status = "absent" => s = NoProposal
  BY OutcomeFacts
<1>7. r.id \in Int
  BY <1>1 DEF Ids
<1>8. r.id <= d.added
  <2>1. CASE r.op = "AddProposal"
    BY <1>1, <1>4, <1>6, <2>1
  <2>2. CASE r.op # "AddProposal"
    <3>1. c.proposals[r.id] # NoProposal
      BY <1>6, <2>2 DEF NoProposal
    <3>2. ~(r.id > c.added)
      BY <1>1, <3>1 DEF Fresh
    <3> QED
      BY <1>1, <1>4, <1>7, <2>2, <3>2
  <2> QED
    BY <2>1, <2>2
<1>9. Fresh(d)
  <2>1. ASSUME NEW p \in Ids, p > d.added PROVE d.proposals[p] = NoProposal
    <3>1. p # r.id /\ p > c.added
      <4>1. p \in Int
        BY DEF Ids
      <4> QED
        BY <1>1, <1>4, <1>7, <1>8, <2>1, <4>1
    <3> QED
      BY <1>3, <3>1 DEF Fresh
  <2>2. ASSUME NEW p \in Ids, d.proposals[p].status = "absent" PROVE d.proposals[p] = NoProposal
    BY <1>3, <1>6, <2>2 DEF Fresh
  <2> QED
    BY <2>1, <2>2 DEF Fresh
<1> QED
  BY <1>2, <1>3, <1>5, <1>8, <1>9

LEMMA ToldInit == Init => ChainTold
<1> SUFFICES ASSUME Init PROVE ChainTold
  OBVIOUS
<1>1. Keys = {} /\ Len(blocks) = 0 /\ Contract = Genesis
  BY DEF Init, Keys, Contract
<1>2. Fresh(Genesis)
  BY DEF Fresh, Genesis
<1> QED
  BY <1>1, <1>2 DEF ChainTold

\* How a block is told by its first call, and by its second.
LEMMA OneCallTold ==
  ASSUME NEW c \in BlockSet, Fresh(c), NEW r \in Requests, NEW s \in Outcomes(c, r),
         NEW d, d = After(c, r, s), NEW p \in Ids
  PROVE  /\ p # r.id => d.proposals[p] = c.proposals[p]
         /\ d.proposals[p].status = "absent" => d.proposals[p] = NoProposal
         /\ p = r.id => /\ d.proposals[p].status = "absent" => r.op \in Removing
                        /\ r.op = "AddProposal" => d.proposals[p] = NewProposal
                        /\ r.op # "AddProposal" => c.proposals[p].status # "absent"
         /\ d.policy # c.policy => /\ r.id \in PolicyChanges /\ r.op = "VoteApprove"
                                   /\ d.proposals[r.id].status = "Approved"
<1>1. /\ d.proposals[r.id] = s /\ (p # r.id => d.proposals[p] = c.proposals[p])
      /\ d.policy # c.policy => r.id \in PolicyChanges /\ s.status = "Approved"
      /\ Fresh(d)
  BY CallFacts
<1>2. /\ r.op = "AddProposal" => s = NewProposal
      /\ r.op # "AddProposal" => c.proposals[r.id].status = "InProgress"
      /\ s.status = "absent" => r.op \in Removing
      /\ s.status = "Approved" => r.op = "VoteApprove"
  BY OutcomeFacts
<1>3. d.proposals[p].status = "absent" => d.proposals[p] = NoProposal
  BY <1>1 DEF Fresh
<1> QED
  BY <1>1, <1>2, <1>3

LEMMA TwoCallsTold ==
  ASSUME NEW c \in BlockSet, Fresh(c), NEW r \in Requests, NEW s \in Outcomes(c, r),
         NEW d, d = After(c, r, s),
         NEW q \in Requests, NEW t \in Outcomes(d, q), NEW e, e = After(d, q, t)
  PROVE  /\ r.id = q.id => /\ q.op # "AddProposal"
                           /\ r.op # "AddProposal" => c.proposals[r.id].status # "absent"
         /\ e.policy # c.policy =>
              \E x \in {r, q} : /\ x.id \in PolicyChanges /\ x.op = "VoteApprove"
                                /\ e.proposals[x.id].status = "Approved"
<1>1. /\ d \in BlockSet /\ Fresh(d) /\ d.proposals[r.id] = s /\ r.id <= d.added
      /\ d.policy # c.policy => r.id \in PolicyChanges /\ s.status = "Approved"
  BY CallFacts
<1>2. /\ r.op # "AddProposal" => c.proposals[r.id].status = "InProgress"
      /\ s.status = "Approved" => r.op = "VoteApprove"
  BY OutcomeFacts
<1>3. /\ q.op = "AddProposal" => q.id = d.added + 1 /\ d.proposals[q.id] = NoProposal
      /\ q.op # "AddProposal" => d.proposals[q.id].status = "InProgress"
      /\ t.status = "Approved" => q.op = "VoteApprove"
  BY <1>1, OutcomeFacts
<1>4. /\ e.proposals[q.id] = t
      /\ \A p \in Ids \ {q.id} : e.proposals[p] = d.proposals[p]
      /\ e.policy # d.policy => q.id \in PolicyChanges /\ t.status = "Approved"
  BY <1>1, CallFacts
<1>5. d.added \in Nat /\ r.id \in Int /\ r.id \in Ids
  BY <1>1 DEF BlockSet, Requests, Ids
<1>6. r.id = q.id => q.op # "AddProposal"
  BY <1>1, <1>3, <1>5
<1>7. ASSUME d.policy # c.policy PROVE q.id # r.id
  <2>1. d.proposals[r.id].status = "Approved"
    BY <1>1, <1>7
  <2>2. d.proposals[q.id].status # "Approved"
    <3>1. NoProposal.status = "absent"
      BY DEF NoProposal
    <3> QED
      BY <1>3, <3>1
  <2> QED
    BY <2>1, <2>2
<1>8. ASSUME e.policy # c.policy
      PROVE  \E x \in {r, q} : /\ x.id \in PolicyChanges /\ x.op = "VoteApprove"
                               /\ e.proposals[x.id].status = "Approved"
  <2>1. CASE e.policy # d.policy
    BY <1>3, <1>4, <2>1
  <2>2. CASE e.policy = d.policy
    <3>1. d.policy # c.policy
      BY <1>8, <2>2
    <3>2. e.proposals[r.id] = s
      BY <1>1, <1>4, <1>5, <1>7, <3>1
    <3> QED
      BY <1>1, <1>2, <3>1, <3>2
  <2> QED
    BY <2>1, <2>2
<1> QED
  BY <1>2, <1>6, <1>8

-----------------------------------------------------------------------------
(* The chain grows by a block                                              *)

NewBlock ==
  /\ Len(blocks') = Len(blocks) + 1 /\ Len(receipts) < Len(receipts')
  /\ \A k \in Keys' \ Keys : receipts'[k].block = Len(blocks) + 1

LEMMA StatesStay ==
  ASSUME ChainType, Grows, NEW b \in 0 .. Len(blocks)
  PROVE  /\ \A p \in Ids : StateAfter(b, p)' = StateAfter(b, p)
         /\ PolicyAfter(b)' = PolicyAfter(b)
BY DEF Grows, StateAfter, PolicyAfter

LEMMA KeysGrow ==
  ASSUME Grows
  PROVE  /\ Keys \subseteq Keys' /\ Keys \subseteq Nat /\ Keys' \subseteq Nat
         /\ \A k \in Keys : receipts'[k] = receipts[k]
BY DEF Grows, Keys

LEMMA TouchesStays ==
  ASSUME ChainType, Grows, NewBlock, NEW b \in 1 .. Len(blocks), NEW p \in Ids
  PROVE  /\ {k \in Keys : Touches(k, b, p)}' = {k \in Keys : Touches(k, b, p)}
         /\ \A k \in Keys' : Changes(k, b)' <=> k \in Keys /\ Changes(k, b)
<1>1. Len(blocks) \in Nat /\ Keys \subseteq Keys' /\ \A k \in Keys : receipts'[k] = receipts[k]
  BY KeysGrow DEF Grows
<1>2. \A k \in Keys' : receipts'[k].block = b => k \in Keys
  BY <1>1 DEF NewBlock
<1>3. blocks'[b] = blocks[b]
  BY DEF Grows
<1>4. \A k \in Keys' : Touches(k, b, p)' <=> k \in Keys /\ Touches(k, b, p)
  BY <1>1, <1>2 DEF Touches
<1>5. \A k \in Keys' : Changes(k, b)' <=> k \in Keys /\ Changes(k, b)
  BY <1>1, <1>2, <1>3 DEF Changes
<1> QED
  BY <1>1, <1>4, <1>5

LEMMA OldTold ==
  ASSUME ChainType, ChainTold, Grows, NewBlock, NEW b \in 1 .. Len(blocks)
  PROVE  /\ \E k \in Keys' : receipts'[k].block = b
         /\ \A p \in Ids : ProposalTold(b, p)'
         /\ PolicyTold(b)'
<1>1. Keys \subseteq Keys' /\ \A k \in Keys : receipts'[k] = receipts[k]
  BY KeysGrow
<1>2. b \in 0 .. Len(blocks) /\ b - 1 \in 0 .. Len(blocks)
  OBVIOUS
<1>3. \E k \in Keys' : receipts'[k].block = b
  BY <1>1 DEF ChainTold
<1>4. ASSUME NEW p \in Ids PROVE ProposalTold(b, p)'
  <2> DEFINE touching == {k \in Keys : Touches(k, b, p)}
  <2>1. touching' = touching
    BY TouchesStays
  <2>2. StateAfter(b, p)' = StateAfter(b, p) /\ StateAfter(b - 1, p)' = StateAfter(b - 1, p)
    BY <1>2, StatesStay
  <2>3. \A k \in touching : receipts'[k] = receipts[k]
    BY <1>1
  <2>4. ProposalTold(b, p)
    BY DEF ChainTold
  <2> QED
    BY <2>1, <2>2, <2>3, <2>4 DEF ProposalTold
<1>5. PolicyTold(b)'
  <2>1. PolicyAfter(b)' = PolicyAfter(b) /\ PolicyAfter(b - 1)' = PolicyAfter(b - 1)
    BY <1>2, StatesStay
  <2>2. PolicyTold(b)
    BY DEF ChainTold
  <2>3. ASSUME PolicyAfter(b) # PolicyAfter(b - 1) PROVE \E k \in Keys' : Changes(k, b)'
    <3>1. PICK k \in Keys : Changes(k, b)
      BY <2>2, <2>3 DEF PolicyTold
    <3>2. Changes(k, b)'
      <4>1. receipts'[k] = receipts[k] /\ blocks'[b] = blocks[b]
        BY <1>1 DEF Grows
      <4> QED
        BY <3>1, <4>1 DEF Changes
    <3> QED
      BY <1>1, <3>2
  <2> QED
    BY <2>1, <2>3 DEF PolicyTold
<1> QED
  BY <1>3, <1>4, <1>5

\* The contract is as the last block left it.
LEMMA ContractAfter ==
  ASSUME ChainType
  PROVE  /\ \A p \in Ids : StateAfter(Len(blocks), p) = Contract.proposals[p]
         /\ PolicyAfter(Len(blocks)) = Contract.policy
<1>1. blocks \in Seq(BlockSet)
  BY DEF ChainType
<1>2. blocks = <<>> <=> Len(blocks) = 0
  BY <1>1
<1> QED
  BY <1>2 DEF StateAfter, PolicyAfter, Contract, Genesis

LEMMA NewOne ==
  ASSUME ChainType, Fresh(Contract), NEW b, b = Len(blocks) + 1,
         NEW n, n = Len(receipts) + 1, NEW r \in Requests, NEW s \in Outcomes(Contract, r),
         NEW d, d = After(Contract, r, s),
         receipts' = Append(receipts, InBlock(r)), blocks' = Append(blocks, d)
  PROVE  /\ Grows /\ NewBlock
         /\ \E k \in Keys' : receipts'[k].block = b
         /\ \A p \in Ids : ProposalTold(b, p)'
         /\ PolicyTold(b)'
         /\ Fresh(Contract)'
         /\ \A i, j \in Keys' \ Keys : i <= j => receipts'[i].block <= receipts'[j].block
<1>1. /\ Contract \in BlockSet /\ d \in BlockSet /\ Fresh(d)
      /\ Len(receipts) \in Nat /\ Len(blocks) \in Nat
      /\ receipts \in Seq(ReceiptSet) /\ blocks \in Seq(BlockSet)
  BY ContractType, CallFacts DEF ChainType
<1>2. InBlock(r) \in ReceiptSet /\ InBlock(r).block = b /\ InBlock(r).id = r.id
      /\ InBlock(r).op = r.op
  BY InBlockType DEF InBlock
<1>3. /\ Len(receipts') = n /\ receipts'[n] = InBlock(r)
      /\ \A k \in 1 .. Len(receipts) : receipts'[k] = receipts[k]
      /\ Len(blocks') = b /\ blocks'[b] = d
      /\ \A k \in 1 .. Len(blocks) : blocks'[k] = blocks[k]
  BY <1>1, <1>2
<1>4. Keys' = Keys \cup {n} /\ n \notin Keys
  BY <1>1, <1>3 DEF Keys
<1>5. /\ \A k \in Keys : receipts[k] \in ReceiptSet /\ receipts[k].block \in 1 .. Len(blocks)
      /\ \A k \in 1 .. Len(blocks) : blocks[k] \in BlockSet
  BY ChainFacts
<1>6. Grows
  BY <1>1, <1>3, <1>5 DEF Grows, Keys
<1>7. NewBlock
  BY <1>1, <1>2, <1>3, <1>4 DEF NewBlock
<1>8. \A k \in Keys' : receipts'[k].block = b <=> k = n
  BY <1>1, <1>2, <1>3, <1>4, <1>5 DEF Keys
<1>9. /\ \A p \in Ids : StateAfter(b, p)' = d.proposals[p]
                        /\ StateAfter(b - 1, p)' = Contract.proposals[p]
      /\ PolicyAfter(b)' = d.policy /\ PolicyAfter(b - 1)' = Contract.policy
  <2>1. b # 0 /\ b - 1 = Len(blocks) /\ Len(blocks) \in 0 .. Len(blocks)
    BY <1>1
  <2>2. /\ \A p \in Ids : StateAfter(b, p)' = d.proposals[p]
        /\ PolicyAfter(b)' = d.policy
    BY <1>3, <2>1 DEF StateAfter, PolicyAfter
  <2> QED
    BY <1>6, <2>1, <2>2, StatesStay, ContractAfter
<1>10. Contract' = d
  <2>1. blocks' # <<>>
    BY <1>1, <1>3
  <2> QED
    BY <1>3, <2>1 DEF Contract
<1>11. ASSUME NEW p \in Ids PROVE ProposalTold(b, p)'
  <2> DEFINE touching == {k \in Keys : Touches(k, b, p)}
  <2>1. touching' = IF p = r.id THEN {n} ELSE {}
    BY <1>2, <1>3, <1>4, <1>8 DEF Touches
  <2>2. /\ p # r.id => d.proposals[p] = Contract.proposals[p]
        /\ d.proposals[p].status = "absent" => d.proposals[p] = NoProposal
        /\ p = r.id => /\ d.proposals[p].status = "absent" => r.op \in Removing
                       /\ r.op = "AddProposal" => d.proposals[p] = NewProposal
                       /\ r.op # "AddProposal" => Contract.proposals[p].status # "absent"
    BY <1>1, OneCallTold
  <2>3. receipts'[n].op = r.op
    BY <1>2, <1>3
  <2>4. n <= n
    BY <1>1
  <2> QED
    BY <1>9, <2>1, <2>2, <2>3, <2>4 DEF ProposalTold
<1>12. PolicyTold(b)'
  <2>1. d.policy # Contract.policy => /\ r.id \in PolicyChanges /\ r.op = "VoteApprove"
                                      /\ d.proposals[r.id].status = "Approved"
    BY <1>1, OneCallTold DEF Requests
  <2>2. d.policy # Contract.policy => Changes(n, b)'
    BY <1>2, <1>3, <2>1 DEF Changes
  <2> QED
    BY <1>4, <1>9, <2>2 DEF PolicyTold
<1>13. Fresh(Contract)'
  BY <1>1, <1>10 DEF Fresh
<1> QED
  BY <1>1, <1>2, <1>3, <1>4, <1>6, <1>7, <1>11, <1>12, <1>13

LEMMA NewTwo ==
  ASSUME ChainType, Fresh(Contract), NEW b, b = Len(blocks) + 1,
         NEW n, n = Len(receipts) + 1, NEW m, m = Len(receipts) + 2,
         NEW r \in Requests, NEW s \in Outcomes(Contract, r),
         NEW d, d = After(Contract, r, s),
         NEW q \in Requests, NEW t \in Outcomes(d, q), NEW e, e = After(d, q, t),
         receipts' = receipts \o <<InBlock(r), InBlock(q)>>, blocks' = Append(blocks, e)
  PROVE  /\ Grows /\ NewBlock
         /\ \E k \in Keys' : receipts'[k].block = b
         /\ \A p \in Ids : ProposalTold(b, p)'
         /\ PolicyTold(b)'
         /\ Fresh(Contract)'
         /\ \A i, j \in Keys' \ Keys : i <= j => receipts'[i].block <= receipts'[j].block
<1>1. /\ Contract \in BlockSet /\ d \in BlockSet /\ Fresh(d) /\ e \in BlockSet /\ Fresh(e)
      /\ Len(receipts) \in Nat /\ Len(blocks) \in Nat
      /\ receipts \in Seq(ReceiptSet) /\ blocks \in Seq(BlockSet)
  BY ContractType, CallFacts DEF ChainType
<1>2. /\ InBlock(r) \in ReceiptSet /\ InBlock(r).block = b /\ InBlock(r).id = r.id
      /\ InBlock(r).op = r.op
      /\ InBlock(q) \in ReceiptSet /\ InBlock(q).block = b /\ InBlock(q).id = q.id
      /\ InBlock(q).op = q.op
  BY InBlockType DEF InBlock
<1>3. /\ Len(receipts') = m /\ receipts'[n] = InBlock(r) /\ receipts'[m] = InBlock(q)
      /\ \A k \in 1 .. Len(receipts) : receipts'[k] = receipts[k]
      /\ Len(blocks') = b /\ blocks'[b] = e
      /\ \A k \in 1 .. Len(blocks) : blocks'[k] = blocks[k]
  <2> DEFINE new == <<InBlock(r), InBlock(q)>>
  <2>1. new \in Seq(ReceiptSet)
    BY <1>2
  <2>2. Len(new) = 2 /\ new[1] = InBlock(r) /\ new[2] = InBlock(q)
    BY <1>2
  <2>3. receipts' = receipts \o new
    OBVIOUS
  <2> HIDE DEF new
  <2>4. /\ Len(receipts') = Len(receipts) + 2
        /\ receipts'[Len(receipts) + 1] = new[1] /\ receipts'[Len(receipts) + 2] = new[2]
        /\ \A k \in 1 .. Len(receipts) : receipts'[k] = receipts[k]
    BY <1>1, <2>1, <2>2, <2>3
  <2> QED
    BY <1>1, <2>2, <2>4
<1>4. Keys' = Keys \cup {n, m} /\ n \notin Keys /\ m \notin Keys /\ n # m /\ n <= m
      /\ ~(m <= n) /\ ~(n > m) /\ m > n
  <2>1. Keys' = 1 .. m /\ Keys = 1 .. Len(receipts)
    BY <1>3 DEF Keys
  <2>2. m = Len(receipts) + 2 /\ n = Len(receipts) + 1 /\ Len(receipts) \in Nat
    BY <1>1
  <2>3. 1 .. m = 1 .. Len(receipts) \cup {n, m}
    BY <2>2
  <2> QED
    BY <2>1, <2>2, <2>3
<1>5. /\ \A k \in Keys : receipts[k] \in ReceiptSet /\ receipts[k].block \in 1 .. Len(blocks)
      /\ \A k \in 1 .. Len(blocks) : blocks[k] \in BlockSet
  BY ChainFacts
<1>6. Grows
  BY <1>1, <1>3, <1>5 DEF Grows, Keys
<1>7. NewBlock
  BY <1>1, <1>2, <1>3, <1>4 DEF NewBlock
<1>8. \A k \in Keys' : receipts'[k].block = b <=> k \in {n, m}
  BY <1>1, <1>2, <1>3, <1>4, <1>5 DEF Keys
<1>9. /\ \A p \in Ids : StateAfter(b, p)' = e.proposals[p]
                        /\ StateAfter(b - 1, p)' = Contract.proposals[p]
      /\ PolicyAfter(b)' = e.policy /\ PolicyAfter(b - 1)' = Contract.policy
  <2>1. b # 0 /\ b - 1 = Len(blocks) /\ Len(blocks) \in 0 .. Len(blocks)
    BY <1>1
  <2>2. /\ \A p \in Ids : StateAfter(b, p)' = e.proposals[p]
        /\ PolicyAfter(b)' = e.policy
    BY <1>3, <2>1 DEF StateAfter, PolicyAfter
  <2> QED
    BY <1>6, <2>1, <2>2, StatesStay, ContractAfter
<1>10. Contract' = e
  <2>1. blocks' # <<>>
    BY <1>1, <1>3
  <2> QED
    BY <1>3, <2>1 DEF Contract
<1>11. ASSUME NEW p \in Ids PROVE ProposalTold(b, p)'
  <2> DEFINE touching == {k \in Keys : Touches(k, b, p)}
  <2>1. touching' = {k \in {n, m} : IF k = n THEN p = r.id ELSE p = q.id}
    <3>1. \A k \in Keys' : Touches(k, b, p)' <=> /\ k \in {n, m}
                                                 /\ IF k = n THEN p = r.id ELSE p = q.id
      BY <1>2, <1>3, <1>4, <1>8 DEF Touches
    <3> QED
      BY <1>4, <3>1
  <2>2. /\ p # r.id => d.proposals[p] = Contract.proposals[p]
        /\ p = r.id => /\ d.proposals[p].status = "absent" => r.op \in Removing
                       /\ r.op = "AddProposal" => d.proposals[p] = NewProposal
                       /\ r.op # "AddProposal" => Contract.proposals[p].status # "absent"
    BY <1>1, OneCallTold
  <2>3. /\ p # q.id => e.proposals[p] = d.proposals[p]
        /\ e.proposals[p].status = "absent" => e.proposals[p] = NoProposal
        /\ p = q.id => /\ e.proposals[p].status = "absent" => q.op \in Removing
                       /\ q.op = "AddProposal" => e.proposals[p] = NewProposal
                       /\ q.op # "AddProposal" => d.proposals[p].status # "absent"
    BY <1>1, OneCallTold
  <2>4. p = r.id /\ p = q.id => q.op # "AddProposal"
    <3>1. r.id = q.id => q.op # "AddProposal"
      BY <1>1, TwoCallsTold
    <3> QED
      BY <3>1
  <2>5. receipts'[n].op = r.op /\ receipts'[m].op = q.op
    BY <1>2, <1>3
  <2>6. n <= n /\ m <= m
    BY <1>1
  <2>7. CASE p = r.id /\ p = q.id
    <3>1. touching' = {n, m}
      BY <2>1, <2>7
    <3> QED
      <4>1. r.op # "AddProposal" => StateAfter(b - 1, p)'.status # "absent"
        BY <1>9, <2>2, <2>7
      <4>2. StateAfter(b, p)'.status = "absent" => /\ StateAfter(b, p)' = NoProposal
                                                  /\ q.op \in Removing
        BY <1>9, <2>3, <2>7
      <4>3. q.op # "AddProposal"
        BY <2>4, <2>7
      <4>4. \A j \in {n, m} : n <= j
        BY <1>4, <2>6
      <4>5. {n, m} # {n} /\ {n, m} # {} /\ m > n /\ m \in {n, m}
        <5>1. n # m /\ m > n
          BY <1>4
        <5>2. {n, m} # {n}
          BY <5>1, Zenon
        <5> QED
          BY <5>1, <5>2
      <4> QED
        BY <2>5, <3>1, <4>1, <4>2, <4>3, <4>4, <4>5 DEF ProposalTold
  <2>8. CASE p = r.id /\ p # q.id
    <3>1. touching' = {n}
      BY <1>4, <2>1, <2>8
    <3> QED
      <4>1. /\ StateAfter(b, p)'.status = "absent" => /\ StateAfter(b, p)' = NoProposal
                                                     /\ r.op \in Removing
            /\ r.op = "AddProposal" => StateAfter(b, p)' = NewProposal
            /\ r.op # "AddProposal" => StateAfter(b - 1, p)'.status # "absent"
        BY <1>9, <2>2, <2>3, <2>8
      <4>2. receipts'[n].op = r.op /\ n <= n
        BY <2>5, <2>6
      <4>3. {n} # {}
        OBVIOUS
      <4> QED
        BY <3>1, <4>1, <4>2, <4>3 DEF ProposalTold
  <2>9. CASE p # r.id /\ p = q.id
    <3>1. touching' = {m}
      BY <1>4, <2>1, <2>9
    <3> QED
      <4>1. /\ StateAfter(b, p)'.status = "absent" => /\ StateAfter(b, p)' = NoProposal
                                                     /\ q.op \in Removing
            /\ q.op = "AddProposal" => StateAfter(b, p)' = NewProposal
            /\ q.op # "AddProposal" => StateAfter(b - 1, p)'.status # "absent"
        BY <1>9, <2>2, <2>3, <2>9
      <4>2. receipts'[m].op = q.op /\ m <= m
        BY <2>5, <2>6
      <4>3. {m} # {}
        OBVIOUS
      <4> QED
        BY <3>1, <4>1, <4>2, <4>3 DEF ProposalTold
  <2>10. CASE p # r.id /\ p # q.id
    <3>1. touching' = {}
      BY <2>1, <2>10
    <3> QED
      BY <1>9, <2>2, <2>3, <2>10, <3>1 DEF ProposalTold
  <2> QED
    BY <2>7, <2>8, <2>9, <2>10
<1>12. PolicyTold(b)'
  <2>1. e.policy # Contract.policy =>
          \E x \in {r, q} : /\ x.id \in PolicyChanges /\ x.op = "VoteApprove"
                            /\ e.proposals[x.id].status = "Approved"
    BY <1>1, TwoCallsTold
  <2>2. ASSUME e.policy # Contract.policy PROVE Changes(n, b)' \/ Changes(m, b)'
    BY <1>2, <1>3, <2>1, <2>2 DEF Changes
  <2> QED
    BY <1>4, <1>9, <2>2 DEF PolicyTold
<1>13. Fresh(Contract)'
  BY <1>1, <1>10 DEF Fresh
<1>14. \A i, j \in Keys' \ Keys : receipts'[i].block <= receipts'[j].block
  <2>1. \A k \in Keys' \ Keys : receipts'[k].block = b
    BY <1>4, <1>8
  <2>2. b <= b
    BY <1>1
  <2> QED
    BY <2>1, <2>2
<1>15. \E k \in Keys' : receipts'[k].block = b
  BY <1>4, <1>8
<1> QED
  BY <1>6, <1>7, <1>11, <1>12, <1>13, <1>14, <1>15

LEMMA ToldBlock ==
  ASSUME ChainType, ChainTold, Block
  PROVE  ChainTold' /\ Grows /\ NewBlock
<1>1. Fresh(Contract)
  BY DEF ChainTold
<1>2. PICK b : b = Len(blocks) + 1
  OBVIOUS
<1>3. /\ Grows /\ NewBlock
      /\ \E k \in Keys' : receipts'[k].block = b
      /\ \A p \in Ids : ProposalTold(b, p)'
      /\ PolicyTold(b)'
      /\ Fresh(Contract)'
      /\ \A i, j \in Keys' \ Keys : i <= j => receipts'[i].block <= receipts'[j].block
  <2> DEFINE Goal ==
        /\ Grows /\ NewBlock
        /\ \E k \in Keys' : receipts'[k].block = b
        /\ \A p \in Ids : ProposalTold(b, p)'
        /\ PolicyTold(b)'
        /\ Fresh(Contract)'
        /\ \A i, j \in Keys' \ Keys : i <= j => receipts'[i].block <= receipts'[j].block
  <2>0. PICK r \in Requests :
          \E s \in Outcomes(Contract, r) :
            LET c == After(Contract, r, s)
            IN  \/ /\ receipts' = Append(receipts, InBlock(r))
                   /\ blocks' = Append(blocks, c)
                \/ \E q \in Requests : \E t \in Outcomes(c, q) :
                     /\ receipts' = receipts \o <<InBlock(r), InBlock(q)>>
                     /\ blocks' = Append(blocks, After(c, q, t))
    BY DEF Block
  <2>1. PICK s \in Outcomes(Contract, r) :
          LET c == After(Contract, r, s)
          IN  \/ /\ receipts' = Append(receipts, InBlock(r))
                 /\ blocks' = Append(blocks, c)
              \/ \E q \in Requests : \E t \in Outcomes(c, q) :
                   /\ receipts' = receipts \o <<InBlock(r), InBlock(q)>>
                   /\ blocks' = Append(blocks, After(c, q, t))
    BY <2>0
  <2>2. PICK d : d = After(Contract, r, s)
    OBVIOUS
  <2>3. PICK n : n = Len(receipts) + 1
    OBVIOUS
  <2>4. CASE receipts' = Append(receipts, InBlock(r)) /\ blocks' = Append(blocks, d)
    <3> HIDE DEF Goal
    <3>1. Goal
      BY <1>1, <1>2, <2>2, <2>3, <2>4, NewOne DEF Goal
    <3> QED
      BY <3>1 DEF Goal
  <2>5. ASSUME NEW q \in Requests, NEW t \in Outcomes(d, q),
               receipts' = receipts \o <<InBlock(r), InBlock(q)>>,
               blocks' = Append(blocks, After(d, q, t))
        PROVE  Goal
    <3>1. PICK m : m = Len(receipts) + 2
      OBVIOUS
    <3>2. PICK e : e = After(d, q, t)
      OBVIOUS
    <3>3. blocks' = Append(blocks, e)
      BY <2>5, <3>2
    <3> HIDE DEF Goal
    <3> QED
      BY <1>1, <1>2, <2>2, <2>3, <2>5, <3>1, <3>2, <3>3, NewTwo DEF Goal
  <2> QED
    BY <2>1, <2>2, <2>4, <2>5
<1>4. Len(blocks) \in Nat /\ Len(blocks') = b /\ Len(receipts) \in Nat /\ Len(receipts') \in Nat
  BY <1>2, <1>3 DEF Grows, NewBlock
<1>5. ASSUME NEW c \in 1 .. Len(blocks')
      PROVE  /\ \E k \in Keys' : receipts'[k].block = c
             /\ \A p \in Ids : ProposalTold(c, p)'
             /\ PolicyTold(c)'
  <2>1. CASE c = b
    BY <1>3, <2>1
  <2>2. CASE c # b
    <3>1. c \in 1 .. Len(blocks)
      BY <1>2, <1>4, <2>2
    <3> QED
      BY <1>3, <3>1, OldTold
  <2> QED
    BY <2>1, <2>2
<1>6. ASSUME NEW i \in Keys', NEW j \in Keys', i <= j
      PROVE  receipts'[i].block <= receipts'[j].block
  <2>1. /\ Keys' = 1 .. Len(receipts') /\ Keys = 1 .. Len(receipts)
    BY DEF Keys
  <2>2. \A k \in Keys : receipts'[k] = receipts[k] /\ receipts[k].block \in 1 .. Len(blocks)
    BY <1>3 DEF Grows
  <2>3. \A k \in Keys' \ Keys : receipts'[k].block = Len(blocks) + 1
    BY <1>3 DEF NewBlock
  <2>4. CASE j \in Keys
    <3>1. i \in Keys
      BY <1>4, <1>6, <2>1, <2>4
    <3> QED
      BY <1>6, <2>2, <2>4, <3>1 DEF ChainTold
  <2>5. CASE j \notin Keys
    <3>1. receipts'[j].block = Len(blocks) + 1
      BY <2>3, <2>5
    <3>2. CASE i \in Keys
      BY <1>4, <2>2, <3>1, <3>2
    <3>3. CASE i \notin Keys
      BY <1>3, <1>6, <2>5, <3>3
    <3> QED
      BY <3>2, <3>3
  <2> QED
    BY <2>4, <2>5
<1> QED
  BY <1>3, <1>5, <1>6 DEF ChainTold

LEMMA ToldStays ==
  ASSUME ChainTold, UNCHANGED chainVars
  PROVE  ChainTold'
<1>1. receipts' = receipts /\ blocks' = blocks /\ Keys' = Keys /\ Contract' = Contract
  BY DEF chainVars, Keys, Contract
<1>2. ASSUME NEW b \in 1 .. Len(blocks), NEW p \in Ids PROVE ProposalTold(b, p)'
  <2> DEFINE touching == {k \in Keys : Touches(k, b, p)}
  <2>1. touching' = touching
    BY <1>1 DEF Touches
  <2>2. StateAfter(b, p)' = StateAfter(b, p) /\ StateAfter(b - 1, p)' = StateAfter(b - 1, p)
    BY <1>1 DEF StateAfter
  <2>3. ProposalTold(b, p)
    BY DEF ChainTold
  <2> QED
    BY <1>1, <2>1, <2>2, <2>3 DEF ProposalTold
<1>3. ASSUME NEW b \in 1 .. Len(blocks) PROVE PolicyTold(b)'
  <2>1. PolicyTold(b)
    BY DEF ChainTold
  <2>2. \A k : Changes(k, b)' <=> Changes(k, b)
    BY <1>1 DEF Changes
  <2> QED
    BY <1>1, <2>1, <2>2 DEF PolicyTold, PolicyAfter
<1>4. Fresh(Contract)'
  BY <1>1 DEF ChainTold, Fresh
<1> QED
  BY <1>1, <1>2, <1>3, <1>4 DEF ChainTold

\* Only Block changes the chain.
LEMMA ChainOrBlock ==
  ASSUME TypeOK, [Next]_vars
  PROVE  Block \/ UNCHANGED chainVars
BY DEF Next, vars, VotePeriodEnds, ConsumerStep, ConsumerBegins, Begin, ConsumerPasses, Handle,
       ReadDao, ReadProposal, SaveDyn, SaveSql, SaveDao, Count, SaveDaoDyn, SaveDaoSql, Mark,
       NullThrows, Rejects, RetryStep, RetryBegins, CallbackBegins, MissProposal, Throws, Poll,
       PollBegins, Expire, PollEnds, Crash

LEMMA ToldNext ==
  ASSUME TypeOK, ChainTold, [Next]_vars
  PROVE  ChainTold'
BY ChainOrBlock, ToldBlock, ToldStays DEF TypeOK

-----------------------------------------------------------------------------
(* The stores between two receipts                                         *)

\* Nothing that is shown of proposal p changes.
Looks(p) ==
  /\ sql'[p].status = sql[p].status /\ sql'[p].votes = sql[p].votes
  /\ dyn'[p].status = dyn[p].status /\ dyn'[p].votes = dyn[p].votes
  /\ dyn'[p].archived = dyn[p].archived

LEMMA ShownStays ==
  ASSUME NEW p, Looks(p), NEW s
  PROVE  Shown(p, s)' <=> Shown(p, s)
BY DEF Looks, Shown, Shows

LEMMA PlaceStays ==
  ASSUME UNCHANGED chainVars, NEW b, NEW n, NEW p, Looks(p), Place(b, n, p)
  PROVE  Place(b, n, p)'
<1>1. receipts' = receipts /\ blocks' = blocks /\ Keys' = Keys
  BY DEF chainVars, Keys
<1>2. StateAfter(b, p)' = StateAfter(b, p)
  BY <1>1 DEF StateAfter
<1>3. Pending(b, n, p)' = Pending(b, n, p)
  BY <1>1 DEF Pending, Touches
<1>4. Proposals[p].status' = Proposals[p].status
  BY DEF Proposals, Looks
<1>5. /\ Shown(p, StateAfter(b, p))' <=> Shown(p, StateAfter(b, p))
      /\ Shown(p, NoProposal)' <=> Shown(p, NoProposal)
  <2>1. PICK s : s = StateAfter(b, p)
    OBVIOUS
  <2>2. Shown(p, s)' <=> Shown(p, s)
    BY ShownStays
  <2>3. Shown(p, NoProposal)' <=> Shown(p, NoProposal)
    BY ShownStays
  <2> QED
    BY <1>2, <2>1, <2>2, <2>3 DEF Shown, Shows
<1> QED
  BY <1>1, <1>2, <1>3, <1>4, <1>5 DEF Place, Looks

LEMMA PolicyKept ==
  ASSUME UNCHANGED chainVars, NEW b, NEW n, PolicyPlace(b, n),
         daoDyn'.policy = daoDyn.policy, daoSql'.policy = daoSql.policy
  PROVE  PolicyPlace(b, n)'
<1>1. receipts' = receipts /\ blocks' = blocks /\ Keys' = Keys
  BY DEF chainVars, Keys
<1>2. PolicyStays(b, n)' <=> PolicyStays(b, n)
  BY <1>1 DEF PolicyStays, Changes
<1>3. PolicyAfter(b)' = PolicyAfter(b)
  BY <1>1 DEF PolicyAfter
<1> QED
  BY <1>2, <1>3 DEF PolicyPlace

\* The receipts before m are those of the blocks up to c.
Parts(c, m) == \A k \in Keys : k < m <=> receipts[k].block <= c

LEMMA NextChainFacts ==
  ASSUME ChainType'
  PROVE  /\ Len(receipts') \in Nat /\ Len(blocks') \in Nat /\ Keys' = 1 .. Len(receipts')
         /\ \A k \in Keys' : k \in Nat /\ receipts'[k].block \in 1 .. Len(blocks')
<1>1. receipts' \in Seq(ReceiptSet) /\ blocks' \in Seq(BlockSet) /\ Keys' = 1 .. Len(receipts')
  BY DEF ChainType, Keys
<1>2. \A k \in Keys' : receipts'[k] \in ReceiptSet /\ receipts'[k].block \in Nat \ {0}
  <2>1. \A k \in Keys' : receipts'[k] \in ReceiptSet
    BY <1>1
  <2> QED
    BY <2>1 DEF ReceiptSet
<1> QED
  BY <1>1, <1>2 DEF ChainType

\* At the end of a block nothing of it is pending.
LEMMA NothingPending ==
  ASSUME ChainType', NEW c \in Nat, NEW m \in Nat, Parts(c, m)', NEW p
  PROVE  Pending(c, m, p)' = {} /\ PolicyStays(c, m)'
<1>1. \A k \in Keys' : m <= k => receipts'[k].block # c
  BY NextChainFacts DEF Parts
<1> QED
  BY <1>1 DEF Pending, Touches, PolicyStays, Changes

\* The end of block c is the beginning of the block after it.
LEMMA Onward ==
  ASSUME ChainType', ChainTold', NEW c \in Nat, NEW b, b = c + 1, b <= Len(blocks'),
         NEW m \in Nat, Parts(c, m)',
         \A p \in Ids : Place(c, m, p)', PolicyPlace(c, m)'
  PROVE  (\A p \in Ids : Place(b, m, p)') /\ PolicyPlace(b, m)'
<1>1. /\ Len(blocks') \in Nat /\ b \in 1 .. Len(blocks') /\ b - 1 = c /\ b # 0
      /\ \A k \in Keys' : k \in Nat /\ receipts'[k].block \in 1 .. Len(blocks')
  BY NextChainFacts
<1>2. \A k \in Keys' : receipts'[k].block = b => m <= k
  BY <1>1 DEF Parts
<1>3. ASSUME NEW p \in Ids PROVE Place(b, m, p)'
  <2>1. PICK T : T = {k \in Keys' : Touches(k, b, p)'}
    OBVIOUS
  <2>2. PICK s : s = StateAfter(b, p)'
    OBVIOUS
  <2>3. PICK s0 : s0 = StateAfter(c, p)'
    OBVIOUS
  <2>4. Pending(b, m, p)' = T
    BY <1>2, <2>1 DEF Pending, Touches
  <2>5. /\ T = {} => s = s0
        /\ (\A k \in T : receipts'[k].op # "AddProposal") /\ T # {} => s0.status # "absent"
    <3>1. ProposalTold(b, p)'
      BY <1>1 DEF ChainTold
    <3>2. {k \in Keys : Touches(k, b, p)}' = T
      BY <2>1
    <3>3. StateAfter(b - 1, p)' = s0
      BY <1>1, <2>3
    <3> QED
      BY <2>2, <3>1, <3>2, <3>3 DEF ProposalTold
  <2>6. s0.status = "absent" => s0 = NoProposal
    <3>1. CASE c = 0
      BY <2>3, <3>1 DEF StateAfter
    <3>2. CASE c # 0
      <4>1. ProposalTold(c, p)'
        <5>1. c \in 1 .. Len(blocks')
          BY <1>1, <3>2
        <5> QED
          BY <5>1 DEF ChainTold
      <4> QED
        BY <2>3, <4>1 DEF ProposalTold
    <3> QED
      BY <3>1, <3>2
  <2>7. Shown(p, s0)'
    <3>1. Pending(c, m, p)' = {}
      BY NothingPending
    <3>2. Shown(p, StateAfter(c, p))'
      BY <3>1 DEF Place
    <3> QED
      BY <2>3, <3>2 DEF Shown, Shows
  <2>8. T = {} => Shown(p, s)'
    <3>1. ASSUME T = {} PROVE Shown(p, s)'
      <4>1. s = s0
        BY <2>5, <3>1
      <4> QED
        BY <2>7, <4>1
    <3> QED
      BY <3>1
  <2>9. s0.status # "absent" => dyn'[p].status # "absent" /\ sql'[p].status # "absent"
    BY <2>7 DEF Shown, Shows
  <2>10. Proposals'[p].status = "absent" => Shown(p, NoProposal)'
    <3>1. CASE s0.status = "absent"
      <4>1. s0 = NoProposal
        BY <2>6, <3>1
      <4> QED
        BY <2>7, <4>1
    <3>2. CASE s0.status # "absent"
      BY <2>9, <3>2 DEF Proposals
    <3> QED
      BY <3>1, <3>2
  <2>11. T = {} => Shown(p, StateAfter(b, p))'
    BY <2>2, <2>8 DEF Shown, Shows
  <2> QED
    BY <2>2, <2>4, <2>5, <2>9, <2>10, <2>11 DEF Place
<1>4. PolicyPlace(b, m)'
  <2>1. daoDyn'.policy = PolicyAfter(c)' /\ daoSql'.policy = PolicyAfter(c)'
    <3>1. PolicyStays(c, m)'
      BY NothingPending
    <3> QED
      BY <3>1 DEF PolicyPlace
  <2>2. ASSUME PolicyStays(b, m)' PROVE PolicyAfter(b)' = PolicyAfter(c)'
    <3>1. \A k \in Keys' : ~Changes(k, b)'
      BY <1>2, <2>2 DEF PolicyStays, Changes
    <3>2. PolicyTold(b)'
      BY <1>1 DEF ChainTold
    <3>3. PolicyAfter(b - 1)' = PolicyAfter(c)'
      BY <1>1
    <3> QED
      BY <3>1, <3>2, <3>3 DEF PolicyTold
  <2> QED
    BY <2>1, <2>2 DEF PolicyPlace
<1> QED
  BY <1>3, <1>4

\* What the consumer has done with receipt n of block c, when it goes on to
\* receipt m.
Done(n, c, m) ==
  /\ n \in Keys /\ c = receipts[n].block /\ m = n + 1
  /\ \A p \in Ids : Place(c, m, p)
  /\ PolicyPlace(c, m)

\* Blocks follow each other without a gap.
LEMMA BlockBefore ==
  ASSUME ChainType', ChainTold', NEW n \in Keys', NEW c, c = receipts'[n].block,
         NEW m \in Keys', m = n + 1, NEW b, b = receipts'[m].block, b # c
  PROVE  b = c + 1 /\ Parts(c, m)' /\ c \in Nat /\ b <= Len(blocks')
<1>1. /\ Len(blocks') \in Nat /\ c \in 1 .. Len(blocks') /\ b \in 1 .. Len(blocks')
      /\ n \in Nat /\ m \in Nat
      /\ \A k \in Keys' : k \in Nat /\ receipts'[k].block \in 1 .. Len(blocks')
  BY NextChainFacts
<1>2. \A i, j \in Keys' : i <= j => receipts'[i].block <= receipts'[j].block
  BY DEF ChainTold
<1>3. b > c
  <2>1. n <= m
    BY <1>1
  <2>2. c <= b
    BY <1>2, <2>1
  <2> QED
    BY <1>1, <2>2
<1>4. ASSUME NEW k \in Keys' PROVE k < m <=> receipts'[k].block <= c
  <2>1. CASE k < m
    <3>1. k <= n
      BY <1>1, <2>1
    <3> QED
      BY <1>2, <2>1, <3>1
  <2>2. CASE ~(k < m)
    <3>1. m <= k
      BY <1>1, <2>2
    <3>2. b <= receipts'[k].block
      BY <1>2, <3>1
    <3> QED
      BY <1>1, <1>3, <2>2, <3>2
  <2> QED
    BY <2>1, <2>2
<1>5. b = c + 1
  <2> SUFFICES ASSUME b # c + 1 PROVE FALSE
    OBVIOUS
  <2>1. c + 1 \in 1 .. Len(blocks') /\ c + 1 < b
    BY <1>1, <1>3
  <2>2. PICK k \in Keys' : receipts'[k].block = c + 1
    BY <2>1 DEF ChainTold
  <2>3. ~(k < m)
    BY <1>1, <1>4, <2>2
  <2>4. m <= k
    BY <1>1, <2>3
  <2>5. b <= receipts'[k].block
    BY <1>2, <2>4
  <2> QED
    BY <1>1, <2>1, <2>2, <2>5
<1> QED
  BY <1>1, <1>4, <1>5 DEF Parts

LEMMA LastBlock ==
  ASSUME ChainType', ChainTold', NEW n \in Keys', NEW c, c = receipts'[n].block, n + 1 \notin Keys'
  PROVE  c = Len(blocks')
<1>1. /\ Len(receipts') \in Nat /\ Keys' = 1 .. Len(receipts')
      /\ Len(blocks') \in Nat /\ c \in 1 .. Len(blocks') /\ n \in Nat
      /\ \A k \in Keys' : k \in Nat /\ receipts'[k].block \in 1 .. Len(blocks')
  BY NextChainFacts
<1>2. PICK k \in Keys' : receipts'[k].block = Len(blocks')
  <2>1. Len(blocks') \in 1 .. Len(blocks')
    BY <1>1
  <2> QED
    BY <2>1 DEF ChainTold
<1>3. k <= n
  BY <1>1
<1>4. receipts'[k].block <= c
  BY <1>3 DEF ChainTold
<1> QED
  BY <1>1, <1>2, <1>4

LEMMA PassPlace ==
  ASSUME ChainType', ChainTold', NEW n, NEW c, NEW m, m = next', Done(n, c, m)'
  PROVE  (\A p \in Ids : Place(Current, next, p)') /\ PolicyPlace(Current, next)'
<1>1. /\ n \in Keys' /\ c = receipts'[n].block /\ m = n + 1
      /\ \A p \in Ids : Place(c, m, p)'
      /\ PolicyPlace(c, m)'
  BY DEF Done
<1>2. PICK b : b = Current'
  OBVIOUS
<1>3. (\A p \in Ids : Place(b, m, p)') /\ PolicyPlace(b, m)'
  <2>1. CASE m \in Keys'
    <3>1. b = receipts'[m].block
      BY <1>2, <2>1 DEF Current
    <3>2. CASE b = c
      BY <1>1, <3>2
    <3>3. CASE b # c
      <4>1. b = c + 1 /\ Parts(c, m)' /\ c \in Nat /\ b <= Len(blocks')
        BY <1>1, <2>1, <3>1, <3>3, BlockBefore
      <4>2. m \in Nat
        BY <2>1, NextChainFacts
      <4> QED
        BY <1>1, <4>1, <4>2, Onward
    <3> QED
      BY <3>2, <3>3
  <2>2. CASE m \notin Keys'
    <3>1. b = Len(blocks')
      BY <1>2, <2>2 DEF Current
    <3>2. c = Len(blocks')
      BY <1>1, <2>2, LastBlock
    <3> QED
      BY <1>1, <3>1, <3>2
  <2> QED
    BY <2>1, <2>2
<1> QED
  BY <1>2, <1>3

\* The consumer has passed the last receipt of block b.
LEMMA ShownAfter ==
  ASSUME ChainType', ChainTold', NEW n, NEW c, NEW m, m = next', Done(n, c, m)'
  PROVE  BlockShown'
<1>1. /\ n \in Keys' /\ c = receipts'[n].block /\ m = n + 1
      /\ \A p \in Ids : Place(c, m, p)'
      /\ PolicyPlace(c, m)'
  BY DEF Done
<1>2. /\ Len(receipts') \in Nat /\ Keys' = 1 .. Len(receipts')
      /\ Len(blocks') \in Nat /\ c \in 1 .. Len(blocks') /\ n \in Nat /\ m \in Nat
      /\ \A k \in Keys' : k \in Nat /\ receipts'[k].block \in 1 .. Len(blocks')
  BY <1>1, NextChainFacts
<1>3. ASSUME NEW b \in 1 .. Len(blocks'), Passed(b)'
      PROVE  b = c
  <2>1. \A k \in Keys' : k < m <=> receipts'[k].block <= b
    BY <1>2, <1>3 DEF Passed
  <2>2. c <= b
    BY <1>1, <1>2, <2>1
  <2>3. PICK k \in Keys' : receipts'[k].block = b
    BY <1>3 DEF ChainTold
  <2>4. k <= n
    BY <1>1, <1>2, <2>1, <2>3
  <2>5. b <= c
    BY <1>1, <2>3, <2>4 DEF ChainTold
  <2> QED
    BY <1>2, <2>2, <2>5
<1>4. ASSUME Passed(c)', NEW p \in Ids
      PROVE  Shown(p, blocks[c].proposals[p])' /\ daoSql'.policy = blocks'[c].policy
  <2>1. Parts(c, m)'
    BY <1>2, <1>4 DEF Passed, Parts
  <2>2. Pending(c, m, p)' = {} /\ PolicyStays(c, m)'
    BY <1>2, <2>1, NothingPending
  <2>3. /\ StateAfter(c, p)' = blocks'[c].proposals[p]
        /\ PolicyAfter(c)' = blocks'[c].policy
    BY <1>2 DEF StateAfter, PolicyAfter
  <2>4. Shown(p, StateAfter(c, p))'
    BY <1>1, <2>2 DEF Place
  <2>5. daoSql'.policy = PolicyAfter(c)'
    BY <1>1, <2>2 DEF PolicyPlace
  <2> QED
    BY <2>3, <2>4, <2>5 DEF Shown, Shows
<1>5. ASSUME NEW b \in 1 .. Len(blocks'), Passed(b)', NEW p \in Ids
      PROVE  LET s == blocks'[b].proposals[p]
             IN  /\ Shows(sql'[p], s)
                 /\ IF s.status = "absent"
                    THEN dyn'[p].status = "absent" \/ dyn'[p].archived
                    ELSE Shows(dyn'[p], s) /\ ~dyn'[p].archived
                 /\ daoSql'.policy = blocks'[b].policy
  <2>1. b = c
    BY <1>3, <1>5
  <2>2. Shown(p, blocks[c].proposals[p])' /\ daoSql'.policy = blocks'[c].policy
    BY <1>4, <1>5, <2>1
  <2> QED
    BY <2>1, <2>2 DEF Shown, Shows
<1> QED
  BY <1>5 DEF BlockShown, Shows

-----------------------------------------------------------------------------
(* A step of the consumer                                                  *)

\* The consumer handles receipt r, the n-th, of block c, which left the
\* proposal in state s.
At(n, c, r, s) ==
  /\ n = next /\ n \in Keys /\ n \in Nat /\ n = job[Consumer]
  /\ r = receipts[n] /\ r = Receipt(Consumer) /\ r.op \in Ops /\ r.id \in Ids
  /\ c = r.block /\ c = Current /\ c \in 1 .. Len(blocks)
  /\ s = OnChain(Consumer) /\ s = StateAfter(c, r.id) /\ s \in States
  /\ s.status = "absent" => s = NoProposal
  /\ BlockOf(Consumer).policy = PolicyAfter(c)
  /\ Changes(n, c) <=> /\ r.op = "VoteApprove" /\ s.status = "Approved"
                       /\ r.id \in PolicyChanges
  /\ ProposalTold(c, r.id) /\ n \in Pending(c, n, r.id)
  /\ ConsumerHas(r, s) /\ PolicyHeld(c, n)
  /\ \A p \in Ids : Place(c, n, p)
  /\ PolicyPlace(c, n)

LEMMA ConsumerAt ==
  ASSUME TypeOK, ChainTold, HandlerInv(Consumer), ConsumerCalm, StoresCalm,
         pc[Consumer] # "off"
  PROVE  \E n, c, r, s : At(n, c, r, s)
<1>1. PICK n : n = next
  OBVIOUS
<1>2. PICK r : r = Receipt(Consumer)
  OBVIOUS
<1>3. PICK c : c = r.block
  OBVIOUS
<1>4. PICK s : s = OnChain(Consumer)
  OBVIOUS
<1>5. job[Consumer] = n /\ n \in Keys /\ ConsumerHas(receipts[n], OnChain(Consumer))
      /\ PolicyHeld(Current, n)
  BY <1>1 DEF ConsumerCalm, HandlerInv
<1>6. /\ r = receipts[n] /\ r.op \in Ops /\ r.id \in Ids /\ c \in 1 .. Len(blocks)
      /\ s \in States /\ s = blocks[c].proposals[r.id] /\ BlockOf(Consumer) = blocks[c]
  BY <1>2, <1>3, <1>4, <1>5, WorkerSets, HandlerFacts DEF TypeOK, BlockOf
<1>7. n \in Nat /\ c # 0
  BY <1>1, <1>6 DEF TypeOK, MemoryType
<1>8. Current = c
  BY <1>1, <1>3, <1>5, <1>6 DEF Current
<1>9. s = StateAfter(c, r.id) /\ blocks[c].policy = PolicyAfter(c)
  BY <1>6, <1>7 DEF StateAfter, PolicyAfter
<1>10. ProposalTold(c, r.id)
  BY <1>6 DEF ChainTold
<1>11. s.status = "absent" => s = NoProposal
  BY <1>9, <1>10 DEF ProposalTold
<1>12. n \in Pending(c, n, r.id)
  BY <1>3, <1>5, <1>6, <1>7 DEF Pending, Touches
<1>13. Changes(n, c) <=> /\ r.op = "VoteApprove" /\ s.status = "Approved"
                         /\ r.id \in PolicyChanges
  BY <1>3, <1>6 DEF Changes
<1>14. (\A p \in Ids : Place(c, n, p)) /\ PolicyPlace(c, n)
  BY <1>1, <1>8 DEF StoresCalm
<1>15. ConsumerHas(r, s) /\ PolicyHeld(c, n)
  BY <1>4, <1>5, <1>6, <1>8
<1>16. At(n, c, r, s)
  BY <1>1, <1>2, <1>3, <1>4, <1>5, <1>6, <1>7, <1>8, <1>9, <1>10, <1>11, <1>12, <1>13, <1>14, <1>15
     DEF At
<1> QED
  BY <1>16

\* What a step within the handling of the receipt has to show.
LEMMA Goes ==
  ASSUME NEW n, NEW c, NEW r, NEW s, At(n, c, r, s), UNCHANGED <<chainVars, next>>,
         job'[Consumer] = n, ConsumerHas(r, s)', PolicyHeld(c, n)',
         \A p \in Ids : Place(c, n, p)', PolicyPlace(c, n)'
  PROVE  ConsumerCalm' /\ StoresCalm'
<1>1. receipts' = receipts /\ blocks' = blocks /\ next' = n /\ n = next /\ c = Current
      /\ r = receipts[n] /\ s = OnChain(Consumer) /\ n = job[Consumer]
  BY DEF chainVars, At
<1>2. Current' = c
  BY <1>1 DEF Current, Keys
<1>3. OnChain(Consumer)' = s
  BY <1>1 DEF OnChain, BlockOf, Receipt
<1>4. receipts'[next'] = r
  BY <1>1
<1>5. ConsumerHas(receipts[next], OnChain(Consumer))'
  BY <1>3, <1>4
<1>6. PolicyHeld(Current, next)' /\ PolicyPlace(Current, next)'
  BY <1>1, <1>2
<1>7. \A p \in Ids : Place(Current, next, p)'
  BY <1>1, <1>2
<1> QED
  BY <1>1, <1>5, <1>6, <1>7 DEF ConsumerCalm, StoresCalm

LEMMA PolicyViews ==
  ASSUME UNCHANGED chainVars, NEW c, NEW n
  PROVE  /\ PolicyStays(c, n)' <=> PolicyStays(c, n)
         /\ PolicyAfter(c)' = PolicyAfter(c)
         /\ \A w \in Handlers : job'[w] = job[w] /\ dao'[w] = dao[w] =>
              PolicyToSave(w)' = PolicyToSave(w)
<1>1. receipts' = receipts /\ blocks' = blocks /\ Keys' = Keys
  BY DEF chainVars, Keys
<1>2. PolicyStays(c, n)' <=> PolicyStays(c, n)
  BY <1>1 DEF PolicyStays, Changes
<1>3. PolicyAfter(c)' = PolicyAfter(c)
  BY <1>1 DEF PolicyAfter
<1>4. ASSUME NEW w \in Handlers, job'[w] = job[w], dao'[w] = dao[w]
      PROVE  PolicyToSave(w)' = PolicyToSave(w)
  BY <1>1, <1>4 DEF PolicyToSave, Receipt, OnChain, BlockOf
<1> QED
  BY <1>2, <1>3, <1>4

\* A handler that writes the policy as the contract has it, unless a later
\* receipt of the block changes it.
LEMMA PolicySaved ==
  ASSUME NEW n, NEW c, NEW r, NEW s, At(n, c, r, s),
         PolicyStays(c, n) => dao[Consumer] = PolicyAfter(c)
  PROVE  /\ PolicyStays(c, n) => PolicyToSave(Consumer) = PolicyAfter(c)
         /\ Changes(n, c) => PolicyToSave(Consumer) = PolicyAfter(c)
<1>1. Changes(n, c) => PolicyToSave(Consumer) = PolicyAfter(c)
  BY DEF At, PolicyToSave
<1>2. ~Changes(n, c) => PolicyToSave(Consumer) = dao[Consumer]
  BY DEF At, PolicyToSave
<1>3. PolicyStays(c, n) => ~Changes(n, c)
  BY DEF At, PolicyStays
<1> QED
  BY <1>1, <1>2, <1>3

LEMMA ConsumerBegin ==
  ASSUME TypeOK, StoresCalm, ConsumerBegins
  PROVE  ConsumerCalm' /\ StoresCalm'
<1>1. /\ pc'[Consumer] = "readDao" /\ job'[Consumer] = next
      /\ UNCHANGED <<chainVars, next, stores>>
  BY WorkerSets DEF ConsumerBegins, Begin, GoTo, TypeOK, MemoryType
<1>2. ConsumerCalm'
  <2>1. ConsumerHas(receipts[next], OnChain(Consumer))' /\ PolicyHeld(Current, next)'
    BY <1>1 DEF ConsumerHas, PolicyHeld
  <2> QED
    BY <1>1, <2>1 DEF ConsumerCalm
<1>3. PICK n, c : n = next /\ c = Current
  OBVIOUS
<1>4. Current' = c /\ next' = n
  BY <1>1, <1>3 DEF Current, chainVars, Keys
<1>5. (\A p \in Ids : Place(c, n, p)) /\ PolicyPlace(c, n)
  BY <1>3 DEF StoresCalm
<1>6. \A p \in Ids : Looks(p)
  BY <1>1 DEF stores, Looks
<1>7. (\A p \in Ids : Place(c, n, p)') /\ PolicyPlace(c, n)'
  BY <1>1, <1>5, <1>6, PlaceStays, PolicyKept DEF stores
<1> QED
  BY <1>2, <1>4, <1>7 DEF StoresCalm

LEMMA ConsumerReadDao ==
  ASSUME TypeOK, NEW n, NEW c, NEW r, NEW s, At(n, c, r, s), ReadDao(Consumer)
  PROVE  ConsumerCalm' /\ StoresCalm'
<1>1. /\ UNCHANGED <<chainVars, next>> /\ UNCHANGED stores /\ job' = job
      /\ dao'[Consumer] = IF DaoDynamo THEN daoDyn.policy ELSE daoSql.policy
      /\ pc'[Consumer] = IF r.op # "AddProposal" THEN "readProposal"
                         ELSE IF s.status = "absent" THEN "skip" ELSE "saveDyn"
  BY WorkerSets DEF ReadDao, GoTo, TypeOK, MemoryType, At
<1>2. \A p \in Ids : Looks(p)
  BY <1>1 DEF stores, Looks
<1>3. (\A p \in Ids : Place(c, n, p)') /\ PolicyPlace(c, n)'
  BY <1>1, <1>2, PlaceStays, PolicyKept DEF stores, At
<1>4. ConsumerHas(r, s)'
  BY <1>1 DEF ConsumerHas
<1>5. PolicyHeld(c, n)'
  <2>1. PolicyStays(c, n) => dao'[Consumer] = PolicyAfter(c)
    BY <1>1 DEF At, PolicyPlace
  <2>2. PolicyStays(c, n)' => dao'[Consumer] = PolicyAfter(c)'
    BY <1>1, <2>1, PolicyViews
  <2>3. pc'[Consumer] \notin {"daoSql", "mark"}
    BY <1>1
  <2> QED
    BY <2>2, <2>3 DEF PolicyHeld
<1> QED
  BY <1>1, <1>3, <1>4, <1>5, Goes DEF At

\* The policy the consumer holds, after a step that writes no policy.
LEMMA HeldStays ==
  ASSUME NEW n, NEW c, NEW r, NEW s, At(n, c, r, s), UNCHANGED chainVars,
         job'[Consumer] = job[Consumer], dao'[Consumer] = dao[Consumer],
         pc[Consumer] \in {"readProposal", "saveDyn", "saveSql", "count", "daoDyn", "daoSql"},
         pc'[Consumer] \notin {"daoSql", "mark"}
  PROVE  PolicyHeld(c, n)'
<1>1. PolicyStays(c, n) => dao[Consumer] = PolicyAfter(c)
  BY DEF At, PolicyHeld
<1>2. PolicyStays(c, n)' => dao'[Consumer] = PolicyAfter(c)'
  BY <1>1, PolicyViews
<1> QED
  BY <1>2 DEF PolicyHeld

LEMMA ConsumerReadProposal ==
  ASSUME TypeOK, NEW n, NEW c, NEW r, NEW s, At(n, c, r, s), ReadProposal(Consumer)
  PROVE  ConsumerCalm' /\ StoresCalm'
<1>1. /\ UNCHANGED <<chainVars, next>> /\ UNCHANGED stores /\ job' = job /\ dao' = dao
      /\ pc[Consumer] = "readProposal"
      /\ pc'[Consumer] = IF Proposals[r.id].status = "absent" THEN "skip" ELSE "saveDyn"
  BY WorkerSets DEF ReadProposal, GoTo, TypeOK, MemoryType, At
<1>2. \A p \in Ids : Looks(p)
  BY <1>1 DEF stores, Looks
<1>3. (\A p \in Ids : Place(c, n, p)') /\ PolicyPlace(c, n)'
  BY <1>1, <1>2, PlaceStays, PolicyKept DEF stores, At
<1>4. r.op # "AddProposal"
  BY <1>1 DEF At, ConsumerHas
<1>5. ASSUME Proposals[r.id].status = "absent"
      PROVE  s.status = "absent" /\ Shown(r.id, NoProposal)
  <2>1. Place(c, n, r.id) /\ s = StateAfter(c, r.id)
    BY DEF At
  <2>2. s.status = "absent"
    <3> SUFFICES ASSUME s.status # "absent" PROVE FALSE
      OBVIOUS
    <3>1. PICK k \in Pending(c, n, r.id) : receipts[k].op = "AddProposal"
      <4>1. dyn[r.id].status = "absent" \/ sql[r.id].status = "absent"
        BY <1>5 DEF Proposals
      <4>2. Pending(c, n, r.id) # {}
        BY DEF At
      <4> QED
        BY <2>1, <4>1, <4>2 DEF Place
    <3>2. k \in Keys /\ n <= k /\ Touches(k, c, r.id) /\ Touches(n, c, r.id) /\ n \in Keys
      BY <3>1 DEF Pending, At
    <3>3. k <= n
      BY <3>1, <3>2 DEF At, ProposalTold
    <3>4. k = n
      BY <3>2, <3>3 DEF Keys
    <3> QED
      BY <1>4, <3>1, <3>4 DEF At
  <2>3. Shown(r.id, NoProposal)
    BY <1>5, <2>1, <2>2 DEF Place
  <2> QED
    BY <2>2, <2>3
<1>6. ConsumerHas(r, s)'
  <2>1. CASE Proposals[r.id].status = "absent"
    <3>1. Shown(r.id, NoProposal)'
      <4>1. Shown(r.id, NoProposal) /\ Looks(r.id)
        BY <1>2, <1>5, <2>1 DEF At
      <4> QED
        BY <4>1, ShownStays
    <3> QED
      BY <1>1, <1>5, <2>1, <3>1 DEF ConsumerHas
  <2>2. CASE Proposals[r.id].status # "absent"
    BY <1>1, <1>4, <2>2 DEF ConsumerHas
  <2> QED
    BY <2>1, <2>2
<1>7. PolicyHeld(c, n)'
  BY <1>1, HeldStays
<1> QED
  BY <1>1, <1>3, <1>6, <1>7, Goes DEF At

LEMMA ConsumerSaveDyn ==
  ASSUME TypeOK, NEW n, NEW c, NEW r, NEW s, At(n, c, r, s), SaveDyn(Consumer)
  PROVE  ConsumerCalm' /\ StoresCalm'
<1>0. /\ dyn \in [Ids -> Rows] /\ sql \in [Ids -> Rows] /\ entity[Consumer] \in Rows
      /\ r.id \in Ids /\ s \in States
  BY WorkerSets DEF TypeOK, StoresType, MemoryType, At
<1>1. /\ UNCHANGED <<chainVars, next>> /\ job' = job /\ dao' = dao
      /\ sql' = sql /\ daoDyn' = daoDyn /\ daoSql' = daoSql
      /\ pc[Consumer] = "saveDyn" /\ pc'[Consumer] = "saveSql" /\ ~NullProposal(Consumer)
  BY WorkerSets DEF SaveDyn, GoTo, TypeOK, MemoryType, At, memory
<1>2. \A p \in Ids \ {r.id} : Looks(p)
  BY <1>0, <1>1 DEF SaveDyn, Looks, At
<1>3. s.status = "absent" => r.op \in Removing
  <2>1. r.op = "AddProposal" => s.status # "absent"
    BY <1>1 DEF At, ConsumerHas
  <2>2. r.op \in {"VoteApprove", "VoteReject", "Finalize"} => s.status # "absent"
    BY <1>1 DEF At, NullProposal
  <2> QED
    BY <2>1, <2>2 DEF At, Ops, Votes, Removing
<1>4. CASE Removes(Consumer)
  <2>1. r.op \in Removing /\ s.status = "absent"
    BY <1>4 DEF Removes, Removing, At
  <2>2. dyn'[r.id] = [dyn[r.id] EXCEPT !.archived = TRUE]
    BY <1>0, <1>4 DEF SaveDyn, At
  <2>3. dyn'[r.id].status = dyn[r.id].status /\ dyn'[r.id].archived
    BY <1>0, <2>2 DEF Rows
  <2>4. ConsumerHas(r, s)'
    BY <1>1, <2>1, <2>3 DEF ConsumerHas, DynLeft
  <2>5. Place(c, n, r.id)'
    <3>1. s = StateAfter(c, r.id) /\ Place(c, n, r.id)
      BY DEF At
    <3>2. s = StateAfter(c, r.id)'
      BY <1>1, <3>1 DEF StateAfter, chainVars
    <3>3. n \in Pending(c, n, r.id)'
      <4>1. n \in Pending(c, n, r.id)
        BY DEF At
      <4> QED
        BY <1>1, <4>1 DEF Pending, Touches, Keys, chainVars
    <3>4. ASSUME Proposals'[r.id].status = "absent" PROVE Shown(r.id, NoProposal)'
      <4>1. Proposals[r.id].status = "absent"
        BY <1>1, <2>3, <3>4 DEF Proposals
      <4>2. Shown(r.id, NoProposal)
        BY <2>1, <3>1, <4>1 DEF Place
      <4> QED
        BY <1>1, <2>3, <4>2 DEF Shown, Shows, NoProposal
    <3> QED
      BY <2>1, <3>2, <3>3, <3>4 DEF Place
  <2>6. \A p \in Ids : Place(c, n, p)'
    BY <1>1, <1>2, <2>5, PlaceStays DEF At
  <2>7. PolicyPlace(c, n)' /\ PolicyHeld(c, n)'
    BY <1>1, PolicyKept, HeldStays DEF At
  <2> QED
    BY <1>1, <2>4, <2>6, <2>7, Goes DEF At
<1>5. CASE ~Removes(Consumer)
  <2>1. s.status # "absent"
    BY <1>3, <1>5 DEF Removes, Removing, At
  <2>2. dyn'[r.id] = [Row(Consumer) EXCEPT !.voteStatus = "Active"] /\ Row(Consumer) \in Rows
    <3>1. Row(Consumer) \in Rows
      BY WorkerSets, HandlerFacts DEF TypeOK, At
    <3> QED
      BY <1>0, <1>5, <3>1 DEF SaveDyn, At
  <2>3. /\ dyn'[r.id].status = Row(Consumer).status /\ dyn'[r.id].votes = Row(Consumer).votes
        /\ dyn'[r.id].archived = Row(Consumer).archived
    BY <2>2 DEF Rows
  <2>4. Shows(Row(Consumer), Left(r, s)) /\ ~Row(Consumer).archived
    <3>1. CASE r.op = "AddProposal"
      BY <3>1 DEF At, Row, CreatedRow, Shows, Left, NewProposal
    <3>2. CASE r.op # "AddProposal"
      BY <3>2 DEF At, Row, ActedRow, Shows, Left
    <3> QED
      BY <3>1, <3>2
  <2>5. Shows(dyn'[r.id], Left(r, s)) /\ ~dyn'[r.id].archived
    BY <2>3, <2>4 DEF Shows
  <2>6. ConsumerHas(r, s)'
    BY <1>1, <2>1, <2>5 DEF ConsumerHas, DynLeft, Shows
  <2>7. dyn'[r.id].status # "absent"
    <3>1. Left(r, s).status # "absent"
      BY <2>1 DEF Left, NewProposal
    <3> QED
      BY <2>5, <3>1 DEF Shows
  <2>8. Place(c, n, r.id)'
    <3>1. s = StateAfter(c, r.id) /\ Place(c, n, r.id)
      BY DEF At
    <3>2. s = StateAfter(c, r.id)'
      BY <1>1, <3>1 DEF StateAfter, chainVars
    <3>3. Pending(c, n, r.id)' = Pending(c, n, r.id) /\ n \in Pending(c, n, r.id)
      <4>1. n \in Pending(c, n, r.id)
        BY DEF At
      <4>2. receipts' = receipts /\ Keys' = Keys
        BY <1>1 DEF chainVars, Keys
      <4> QED
        BY <4>1, <4>2 DEF Pending, Touches
    <3>4. receipts' = receipts
      BY <1>1 DEF chainVars
    <3> QED
      BY <1>1, <2>1, <2>7, <3>1, <3>2, <3>3, <3>4 DEF Place
  <2>9. \A p \in Ids : Place(c, n, p)'
    BY <1>1, <1>2, <2>8, PlaceStays DEF At
  <2>10. PolicyPlace(c, n)' /\ PolicyHeld(c, n)'
    BY <1>1, PolicyKept, HeldStays DEF At
  <2> QED
    BY <1>1, <2>6, <2>9, <2>10, Goes DEF At
<1> QED
  BY <1>4, <1>5

LEMMA ConsumerSaveSql ==
  ASSUME TypeOK, NEW n, NEW c, NEW r, NEW s, At(n, c, r, s), SaveSql(Consumer)
  PROVE  ConsumerCalm' /\ StoresCalm'
<1>0. /\ dyn \in [Ids -> Rows] /\ sql \in [Ids -> Rows] /\ r.id \in Ids /\ s \in States
  BY DEF TypeOK, StoresType, At
<1>1. /\ UNCHANGED <<chainVars, next>> /\ job' = job /\ dao' = dao
      /\ dyn' = dyn /\ daoDyn' = daoDyn /\ daoSql' = daoSql
      /\ pc[Consumer] = "saveSql" /\ pc'[Consumer] = "count"
  BY WorkerSets DEF SaveSql, GoTo, TypeOK, MemoryType, At, memory
<1>2. \A p \in Ids \ {r.id} : Looks(p)
  BY <1>0, <1>1 DEF SaveSql, Looks, At
<1>3. DynLeft(r, s)
  BY <1>1 DEF At, ConsumerHas
<1>4. DynLeft(r, s)'
  BY <1>1, <1>3 DEF DynLeft, Shows
<1>5. SqlLeft(r, s)'
  <2>1. CASE Removes(Consumer)
    <3>1. sql'[r.id] = NoRow /\ s.status = "absent" /\ r.op \in Removing
      BY <1>0, <2>1 DEF SaveSql, At, Removes, Removing
    <3>2. s = NoProposal /\ Left(r, s) = s
      BY <3>1 DEF At, Left, Removing
    <3> QED
      BY <3>1, <3>2 DEF SqlLeft, Shows, NoRow, NoProposal
  <2>2. CASE ~Removes(Consumer)
    <3>1. Row(Consumer) \in Rows
      BY WorkerSets, HandlerFacts DEF TypeOK, At
    <3>2. sql'[r.id] = [Row(Consumer) EXCEPT !.actions = @ \cup sql[r.id].actions]
      BY <1>0, <2>2 DEF SaveSql, At
    <3>3. sql'[r.id].status = Row(Consumer).status /\ sql'[r.id].votes = Row(Consumer).votes
      BY <3>1, <3>2 DEF Rows
    <3>4. Shows(Row(Consumer), Left(r, s))
      <4>1. CASE r.op = "AddProposal"
        BY <4>1 DEF At, Row, CreatedRow, Shows, Left, NewProposal
      <4>2. CASE r.op # "AddProposal"
        BY <4>2 DEF At, Row, ActedRow, Shows, Left
      <4> QED
        BY <4>1, <4>2
    <3> QED
      BY <3>3, <3>4 DEF SqlLeft, Shows
  <2> QED
    BY <2>1, <2>2
<1>6. ConsumerHas(r, s)'
  BY <1>1, <1>4, <1>5 DEF ConsumerHas
<1>7. Place(c, n, r.id)'
  <2>1. s = StateAfter(c, r.id) /\ Place(c, n, r.id)
    BY DEF At
  <2>2. s = StateAfter(c, r.id)'
    BY <1>1, <2>1 DEF StateAfter, chainVars
  <2>3. receipts' = receipts /\ Keys' = Keys
    BY <1>1 DEF chainVars, Keys
  <2>4. Pending(c, n, r.id)' = Pending(c, n, r.id) /\ n \in Pending(c, n, r.id)
    <3>1. n \in Pending(c, n, r.id)
      BY DEF At
    <3> QED
      BY <2>3, <3>1 DEF Pending, Touches
  <2>5. CASE s.status = "absent"
    <3>1. dyn'[r.id].archived /\ r.op \in Removing
      BY <1>1, <1>3, <2>5 DEF DynLeft
    <3>2. s = NoProposal /\ Left(r, s) = s
      BY <2>5, <3>1 DEF At, Left, Removing
    <3>3. Shows(sql'[r.id], NoProposal)
      BY <1>5, <3>2 DEF SqlLeft, Shows
    <3>4. Shown(r.id, NoProposal)'
      BY <3>1, <3>3 DEF Shown, Shows, NoProposal
    <3> QED
      BY <2>2, <2>4, <2>5, <3>4 DEF Place
  <2>6. CASE s.status # "absent"
    <3>1. Left(r, s).status # "absent"
      BY <2>6 DEF Left, NewProposal
    <3>2. sql'[r.id].status # "absent"
      BY <1>5, <3>1 DEF SqlLeft, Shows
    <3>3. dyn'[r.id].status # "absent"
      BY <1>4, <2>6, <3>1 DEF DynLeft, Shows
    <3> QED
      BY <2>2, <2>4, <2>6, <3>2, <3>3 DEF Place
  <2> QED
    BY <2>5, <2>6
<1>8. \A p \in Ids : Place(c, n, p)'
  BY <1>1, <1>2, <1>7, PlaceStays DEF At
<1>9. PolicyPlace(c, n)' /\ PolicyHeld(c, n)'
  BY <1>1, PolicyKept, HeldStays DEF At
<1> QED
  BY <1>1, <1>6, <1>8, <1>9, Goes DEF At

LEMMA LeftStays ==
  ASSUME NEW r, NEW s, Looks(r.id)
  PROVE  /\ DynLeft(r, s) => DynLeft(r, s)'
         /\ SqlLeft(r, s) => SqlLeft(r, s)'
BY DEF Looks, DynLeft, SqlLeft, Shows

LEMMA ConsumerCount ==
  ASSUME TypeOK, NEW n, NEW c, NEW r, NEW s, At(n, c, r, s), Count(Consumer)
  PROVE  ConsumerCalm' /\ StoresCalm'
<1>1. /\ UNCHANGED <<chainVars, next>> /\ UNCHANGED stores /\ job' = job /\ dao' = dao
      /\ pc[Consumer] = "count" /\ pc'[Consumer] = "daoDyn"
  BY WorkerSets DEF Count, GoTo, TypeOK, MemoryType
<1>2. \A p \in Ids : Looks(p)
  BY <1>1 DEF stores, Looks
<1>3. (\A p \in Ids : Place(c, n, p)') /\ PolicyPlace(c, n)'
  BY <1>1, <1>2, PlaceStays, PolicyKept DEF stores, At
<1>4. ConsumerHas(r, s)'
  <2>1. DynLeft(r, s) /\ SqlLeft(r, s) /\ Looks(r.id)
    BY <1>1, <1>2 DEF At, ConsumerHas
  <2> QED
    BY <1>1, <2>1, LeftStays DEF ConsumerHas
<1>5. PolicyHeld(c, n)'
  BY <1>1, HeldStays
<1> QED
  BY <1>1, <1>3, <1>4, <1>5, Goes DEF At

LEMMA ConsumerSaveDaoDyn ==
  ASSUME TypeOK, NEW n, NEW c, NEW r, NEW s, At(n, c, r, s), SaveDaoDyn(Consumer)
  PROVE  ConsumerCalm' /\ StoresCalm'
<1>1. /\ UNCHANGED <<chainVars, next>> /\ job' = job /\ dao' = dao
      /\ dyn' = dyn /\ sql' = sql /\ daoSql' = daoSql
      /\ daoDyn'.policy = PolicyToSave(Consumer)
      /\ pc[Consumer] = "daoDyn" /\ pc'[Consumer] = "daoSql"
  BY WorkerSets DEF SaveDaoDyn, SavedDao, GoTo, TypeOK, MemoryType, memory
<1>2. \A p \in Ids : Looks(p)
  BY <1>1 DEF Looks
<1>3. \A p \in Ids : Place(c, n, p)'
  BY <1>1, <1>2, PlaceStays DEF At
<1>4. ConsumerHas(r, s)'
  <2>1. DynLeft(r, s) /\ SqlLeft(r, s) /\ Looks(r.id)
    BY <1>1, <1>2 DEF At, ConsumerHas
  <2> QED
    BY <1>1, <2>1, LeftStays DEF ConsumerHas
<1>5. PolicyStays(c, n) => dao[Consumer] = PolicyAfter(c)
  BY <1>1 DEF At, PolicyHeld
<1>6. PolicyStays(c, n) => PolicyToSave(Consumer) = PolicyAfter(c)
  BY <1>5, PolicySaved
<1>7. /\ PolicyStays(c, n)' <=> PolicyStays(c, n)
      /\ PolicyAfter(c)' = PolicyAfter(c)
      /\ PolicyToSave(Consumer)' = PolicyToSave(Consumer)
  BY <1>1, WorkerSets, PolicyViews
<1>8. PolicyPlace(c, n)'
  BY <1>1, <1>6, <1>7 DEF PolicyPlace, At
<1>9. PolicyHeld(c, n)'
  BY <1>1, <1>5, <1>7 DEF PolicyHeld
<1> QED
  BY <1>1, <1>3, <1>4, <1>8, <1>9, Goes DEF At

LEMMA ConsumerSaveDaoSql ==
  ASSUME TypeOK, NEW n, NEW c, NEW r, NEW s, At(n, c, r, s), SaveDaoSql(Consumer)
  PROVE  ConsumerCalm' /\ StoresCalm'
<1>1. /\ UNCHANGED <<chainVars, next>> /\ job' = job /\ dao' = dao
      /\ dyn' = dyn /\ sql' = sql /\ daoDyn' = daoDyn
      /\ daoSql'.policy = PolicyToSave(Consumer)
      /\ pc[Consumer] = "daoSql" /\ pc'[Consumer] = "mark"
  BY WorkerSets DEF SaveDaoSql, SavedDao, GoTo, TypeOK, MemoryType, memory
<1>2. \A p \in Ids : Looks(p)
  BY <1>1 DEF Looks
<1>3. \A p \in Ids : Place(c, n, p)'
  BY <1>1, <1>2, PlaceStays DEF At
<1>4. ConsumerHas(r, s)'
  <2>1. DynLeft(r, s) /\ SqlLeft(r, s) /\ Looks(r.id)
    BY <1>1, <1>2 DEF At, ConsumerHas
  <2> QED
    BY <1>1, <2>1, LeftStays DEF ConsumerHas
<1>5. /\ PolicyStays(c, n) => dao[Consumer] = PolicyAfter(c)
      /\ daoDyn.policy = PolicyToSave(Consumer)
  BY <1>1 DEF At, PolicyHeld
<1>6. PolicyStays(c, n) => PolicyToSave(Consumer) = PolicyAfter(c)
  BY <1>5, PolicySaved
<1>7. /\ PolicyStays(c, n)' <=> PolicyStays(c, n)
      /\ PolicyAfter(c)' = PolicyAfter(c)
      /\ PolicyToSave(Consumer)' = PolicyToSave(Consumer)
  BY <1>1, WorkerSets, PolicyViews
<1>8. PolicyPlace(c, n)'
  BY <1>1, <1>5, <1>6, <1>7 DEF PolicyPlace
<1>9. PolicyHeld(c, n)'
  BY <1>1, <1>5, <1>7 DEF PolicyHeld
<1> QED
  BY <1>1, <1>3, <1>4, <1>8, <1>9, Goes DEF At

-----------------------------------------------------------------------------
(* The consumer goes on to the next receipt                                *)

\* Receipt n is no longer pending, and nothing has changed for the others.
LEMMA PendingAfter ==
  ASSUME NEW n, NEW c, NEW r, NEW s, At(n, c, r, s), Len(receipts) \in Nat, NEW m, m = n + 1,
         NEW p \in Ids
  PROVE  /\ p # r.id => Pending(c, m, p) = Pending(c, n, p)
         /\ Pending(c, m, r.id) = Pending(c, n, r.id) \ {n}
<1>1. \A k \in Keys : k \in Int /\ (m <= k <=> n <= k /\ k # n)
  BY DEF Keys, At
<1>2. Touches(n, c, p) <=> p = r.id
  BY DEF At, Touches
<1>3. ASSUME p # r.id PROVE Pending(c, m, p) = Pending(c, n, p)
  <2>1. \A k \in Keys : Touches(k, c, p) => k # n
    BY <1>2, <1>3
  <2> QED
    BY <1>1, <2>1 DEF Pending
<1>4. Pending(c, m, r.id) = Pending(c, n, r.id) \ {n}
  BY <1>1 DEF Pending
<1> QED
  BY <1>3, <1>4

\* Where the stores are after receipt n, if they are right about its proposal.
LEMMA AllPlaced ==
  ASSUME ChainType, NEW n, NEW c, NEW r, NEW s, At(n, c, r, s), NEW m, m = n + 1,
         Place(c, m, r.id)
  PROVE  \A p \in Ids : Place(c, m, p)
<1>1. ASSUME NEW p \in Ids, p # r.id PROVE Place(c, m, p)
  <2>1. Place(c, n, p)
    BY DEF At
  <2>2. Pending(c, m, p) = Pending(c, n, p)
    BY <1>1, ChainFacts, PendingAfter
  <2> QED
    BY <2>1, <2>2 DEF Place
<1> QED
  BY <1>1

\* A later receipt of the block is about a proposal that the block removes, if
\* this one does not remove it.
LEMMA StillPending ==
  ASSUME ChainType, NEW n, NEW c, NEW r, NEW s, At(n, c, r, s), NEW m, m = n + 1,
         s.status = "absent", r.op \notin Removing
  PROVE  Pending(c, m, r.id) # {}
<1>1. n \in Keys /\ Touches(n, c, r.id) /\ r = receipts[n] /\ s = StateAfter(c, r.id)
  BY DEF At, Pending
<1>2. PICK j \in {k \in Keys : Touches(k, c, r.id)} : j > n
  BY <1>1 DEF At, ProposalTold
<1>3. j \in Keys /\ Touches(j, c, r.id) /\ m <= j
  BY <1>1, <1>2 DEF Keys, At
<1> QED
  BY <1>3 DEF Pending

LEMMA PlaceSkipped ==
  ASSUME ChainType, NEW n, NEW c, NEW r, NEW s, At(n, c, r, s), NEW m, m = n + 1,
         s.status = "absent", r.op \in Removing => Shown(r.id, NoProposal)
  PROVE  Place(c, m, r.id)
<1>1. s = StateAfter(c, r.id) /\ Place(c, n, r.id) /\ s = NoProposal
  BY DEF At
<1>2. Pending(c, m, r.id) = {} => Shown(r.id, s)
  BY <1>1, StillPending
<1> QED
  BY <1>1, <1>2 DEF Place

LEMMA PlaceMarked ==
  ASSUME ChainType, NEW n, NEW c, NEW r, NEW s, At(n, c, r, s), NEW m, m = n + 1,
         pc[Consumer] = "mark"
  PROVE  Place(c, m, r.id)
<1>1. s = StateAfter(c, r.id) /\ DynLeft(r, s) /\ SqlLeft(r, s)
  BY DEF At, ConsumerHas
<1>2. CASE s.status = "absent"
  <2>1. r.op \in Removing /\ dyn[r.id].archived
    BY <1>1, <1>2 DEF DynLeft
  <2>2. s = NoProposal /\ Left(r, s) = NoProposal
    BY <1>2, <2>1 DEF At, Left, Removing
  <2>3. Shown(r.id, NoProposal)
    BY <1>1, <2>1, <2>2 DEF SqlLeft, Shown, NoProposal
  <2> QED
    BY <1>2, <2>3, PlaceSkipped
<1>3. CASE s.status # "absent"
  <2>1. Left(r, s).status # "absent"
    BY <1>3 DEF Left, NewProposal
  <2>2. dyn[r.id].status # "absent" /\ sql[r.id].status # "absent"
    BY <1>1, <1>3, <2>1 DEF DynLeft, SqlLeft, Shows
  <2>3. ASSUME Pending(c, m, r.id) = {} PROVE Shown(r.id, s)
    <3>1. Left(r, s) = s
      <4>1. CASE r.op = "AddProposal"
        <5>1. PICK T : T = {k \in Keys : Touches(k, c, r.id)}
          OBVIOUS
        <5>2. n \in T /\ r = receipts[n]
          BY <5>1 DEF At, Pending
        <5>3. \A j \in T : n <= j
          BY <4>1, <5>1, <5>2 DEF At, ProposalTold
        <5>4. T \subseteq Pending(c, n, r.id)
          BY <5>1, <5>3 DEF Pending
        <5>5. Pending(c, n, r.id) \subseteq {n}
          <6>1. r.id \in Ids
            BY DEF At
          <6>2. Pending(c, m, r.id) = Pending(c, n, r.id) \ {n}
            BY <6>1, ChainFacts, PendingAfter
          <6> QED
            BY <2>3, <6>2
        <5>6. T = {n}
          BY <5>2, <5>4, <5>5
        <5>7. s = NewProposal
          BY <1>1, <4>1, <5>1, <5>2, <5>6 DEF At, ProposalTold
        <5> QED
          BY <4>1, <5>7 DEF Left
      <4>2. CASE r.op # "AddProposal"
        BY <4>2 DEF Left
      <4> QED
        BY <4>1, <4>2
    <3> QED
      BY <1>1, <1>3, <3>1 DEF DynLeft, SqlLeft, Shown
  <2> QED
    BY <1>1, <1>3, <2>2, <2>3 DEF Place
<1> QED
  BY <1>2, <1>3

LEMMA PolicyPassed ==
  ASSUME ChainType, NEW n, NEW c, NEW r, NEW s, At(n, c, r, s), NEW m, m = n + 1,
         Changes(n, c) => daoDyn.policy = PolicyAfter(c) /\ daoSql.policy = PolicyAfter(c)
  PROVE  PolicyPlace(c, m)
<1>1. \A k \in Keys : n <= k => k = n \/ m <= k
  BY DEF Keys, At
<1>2. PolicyStays(c, m) /\ ~Changes(n, c) => PolicyStays(c, n)
  BY <1>1 DEF PolicyStays
<1>3. PolicyPlace(c, n)
  BY DEF At
<1> QED
  BY <1>2, <1>3 DEF PolicyPlace

LEMMA ConsumerMark ==
  ASSUME TypeOK, NEW n, NEW c, NEW r, NEW s, At(n, c, r, s), Mark(Consumer),
         NEW m, m = n + 1
  PROVE  m = next' /\ Done(n, c, m)'
<1>0. ChainType /\ MemoryType
  BY DEF TypeOK
<1>1. /\ UNCHANGED chainVars /\ next' = m
      /\ dyn' = dyn /\ sql' = sql /\ daoDyn' = daoDyn /\ daoSql' = daoSql
  BY DEF Mark, At
<1>2. pc[Consumer] = "mark" \/ pc[Consumer] = "skip"
  BY DEF Mark
<1>3. Place(c, m, r.id)
  <2>1. CASE pc[Consumer] = "mark"
    BY <1>0, <2>1, PlaceMarked
  <2>2. CASE pc[Consumer] = "skip"
    <3>1. s.status = "absent" /\ (r.op \in Removing => Shown(r.id, NoProposal))
      BY <2>2 DEF At, ConsumerHas, Removing
    <3> QED
      BY <1>0, <3>1, PlaceSkipped
  <2> QED
    BY <1>2, <2>1, <2>2
<1>4. PolicyPlace(c, m)
  <2>1. ASSUME Changes(n, c)
        PROVE  daoDyn.policy = PolicyAfter(c) /\ daoSql.policy = PolicyAfter(c)
    <3>1. pc[Consumer] = "mark"
      BY <1>2, <2>1 DEF At, ConsumerHas
    <3>2. daoDyn.policy = PolicyToSave(Consumer) /\ daoSql.policy = PolicyToSave(Consumer)
      BY <3>1 DEF At, PolicyHeld
    <3>3. PolicyToSave(Consumer) = PolicyAfter(c)
      BY <2>1 DEF At, PolicyToSave
    <3> QED
      BY <3>2, <3>3
  <2> QED
    BY <1>0, <2>1, PolicyPassed
<1>5. \A p \in Ids : Place(c, m, p)'
  <2>1. \A p \in Ids : Place(c, m, p)
    BY <1>0, <1>3, AllPlaced
  <2>2. \A p \in Ids : Looks(p)
    BY <1>1 DEF Looks
  <2> QED
    BY <1>1, <2>1, <2>2, PlaceStays
<1>6. PolicyPlace(c, m)'
  BY <1>1, <1>4, PolicyKept
<1>7. n \in Keys' /\ c = receipts'[n].block
  BY <1>1 DEF At, chainVars, Keys
<1> QED
  BY <1>1, <1>5, <1>6, <1>7 DEF Done

LEMMA ConsumerNullThrows ==
  ASSUME TypeOK, NEW n, NEW c, NEW r, NEW s, At(n, c, r, s), NullThrows(Consumer),
         NEW m, m = n + 1
  PROVE  m = next' /\ Done(n, c, m)' /\ Null(n)
<1>0. ChainType /\ MemoryType
  BY DEF TypeOK
<1>1. /\ UNCHANGED chainVars /\ next' = m
      /\ dyn' = dyn /\ sql' = sql /\ daoDyn' = daoDyn /\ daoSql' = daoSql
  BY DEF NullThrows, Rejects, At
<1>2. r.op \in {"VoteApprove", "VoteReject", "Finalize"} /\ s.status = "absent"
  BY DEF NullThrows, NullProposal, At
<1>3. Place(c, m, r.id)
  BY <1>0, <1>2, PlaceSkipped DEF Removing
<1>4. PolicyPlace(c, m)
  <2>1. ~Changes(n, c)
    BY <1>2 DEF At
  <2> QED
    BY <1>0, <2>1, PolicyPassed
<1>5. \A p \in Ids : Place(c, m, p)'
  <2>1. \A p \in Ids : Place(c, m, p)
    BY <1>0, <1>3, AllPlaced
  <2>2. \A p \in Ids : Looks(p)
    BY <1>1 DEF Looks
  <2> QED
    BY <1>1, <2>1, <2>2, PlaceStays
<1>6. PolicyPlace(c, m)'
  BY <1>1, <1>4, PolicyKept
<1>7. n \in Keys' /\ c = receipts'[n].block
  BY <1>1 DEF At, chainVars, Keys
<1>8. Null(n)
  <2>1. s = blocks[c].proposals[r.id]
    BY DEF At, StateAfter
  <2> QED
    BY <1>2, <2>1 DEF At, Null
<1> QED
  BY <1>1, <1>5, <1>6, <1>7, <1>8 DEF Done

-----------------------------------------------------------------------------
(* Steps that leave the consumer where it is                               *)

\* The consumer stays at its receipt and nothing it relies on changes.
LEMMA ConsumerStays ==
  ASSUME TypeOK, ChainTold, HandlerInv(Consumer), ConsumerCalm, StoresCalm,
         UNCHANGED <<chainVars, next>>, Same(Consumer),
         \A p \in Ids : Looks(p),
         daoDyn'.policy = daoDyn.policy, daoSql'.policy = daoSql.policy
  PROVE  ConsumerCalm' /\ StoresCalm'
<1>1. PICK n, c : n = next /\ c = Current
  OBVIOUS
<1>2. Current' = c /\ next' = n
  BY <1>1 DEF Current, chainVars, Keys
<1>3. (\A p \in Ids : Place(c, n, p)) /\ PolicyPlace(c, n)
  BY <1>1 DEF StoresCalm
<1>4. (\A p \in Ids : Place(c, n, p)') /\ PolicyPlace(c, n)'
  BY <1>3, PlaceStays, PolicyKept
<1>5. StoresCalm'
  BY <1>2, <1>4 DEF StoresCalm
<1>6. pc'[Consumer] = pc[Consumer] /\ job'[Consumer] = job[Consumer]
      /\ dao'[Consumer] = dao[Consumer]
  BY WorkerSets DEF Same
<1>7. CASE pc[Consumer] = "off"
  BY <1>5, <1>6, <1>7 DEF ConsumerCalm
<1>8. CASE pc[Consumer] # "off"
  <2>1. PICK n1, c1, r, s : At(n1, c1, r, s)
    BY <1>8, ConsumerAt
  <2>2. n1 = n /\ c1 = c
    BY <1>1, <2>1 DEF At
  <2>3. ConsumerHas(r, s) /\ PolicyHeld(c1, n1) /\ Looks(r.id)
    BY <2>1 DEF At
  <2>4. ConsumerHas(r, s)'
    <3>1. /\ DynLeft(r, s) => DynLeft(r, s)'
          /\ SqlLeft(r, s) => SqlLeft(r, s)'
          /\ Shown(r.id, NoProposal) => Shown(r.id, NoProposal)'
      BY <2>3, LeftStays, ShownStays
    <3> QED
      BY <1>6, <2>3, <3>1 DEF ConsumerHas
  <2>5. PolicyHeld(c1, n1)'
    <3>1. /\ PolicyStays(c1, n1)' <=> PolicyStays(c1, n1)
          /\ PolicyAfter(c1)' = PolicyAfter(c1)
          /\ PolicyToSave(Consumer)' = PolicyToSave(Consumer)
      BY <1>6, WorkerSets, PolicyViews
    <3> QED
      BY <1>6, <2>3, <3>1 DEF PolicyHeld
  <2>6. job'[Consumer] = n1
    BY <1>6, <2>1 DEF At
  <2> QED
    BY <1>4, <2>1, <2>2, <2>4, <2>5, <2>6, Goes
<1> QED
  BY <1>7, <1>8

\* The other workers stay where they are.
LEMMA OthersKept ==
  ASSUME OthersCalm, UNCHANGED <<chainVars, next, handled, failed>>,
         \A w \in Wallets \cup Retriers : Same(w)
  PROVE  OthersCalm'
<1>1. receipts' = receipts /\ blocks' = blocks
  BY DEF chainVars
<1>2. \A k : Null(k)' <=> Null(k)
  BY <1>1 DEF Null
<1>3. \A w \in Wallets \cup Retriers : pc'[w] = pc[w]
  BY DEF Same
<1>4. \A w \in Retriers : job'[w] = job[w]
  BY DEF Same, Handlers
<1>5. \A w \in Wallets : pc'[w] = "off"
  BY <1>3 DEF OthersCalm
<1>6. \A w \in Retriers : /\ pc'[w] \in {"off", "readDao", "readProposal", "saveDyn", "skip"}
                          /\ pc'[w] # "off" => job'[w] \in failed
  BY <1>3, <1>4 DEF OthersCalm
<1> QED
  BY <1>1, <1>2, <1>5, <1>6 DEF OthersCalm

-----------------------------------------------------------------------------
(* A block closes                                                          *)

\* What has been said of a block stays true when another one is added.
LEMMA BlockKeeps ==
  ASSUME ChainType, Grows, NewBlock, UNCHANGED stores,
         NEW c \in 0 .. Len(blocks), NEW n
  PROVE  /\ PolicyStays(c, n)' <=> PolicyStays(c, n)
         /\ PolicyAfter(c)' = PolicyAfter(c)
         /\ PolicyPlace(c, n) => PolicyPlace(c, n)'
         /\ \A p \in Ids : Place(c, n, p) => Place(c, n, p)'
<1>1. Len(blocks) \in Nat /\ Keys \subseteq Keys' /\ \A k \in Keys : receipts'[k] = receipts[k]
  BY KeysGrow DEF Grows
<1>2. \A k \in Keys' : receipts'[k].block = c => k \in Keys
  BY <1>1 DEF NewBlock
<1>3. \A k \in Keys : receipts[k].block \in 1 .. Len(blocks)
  BY ChainFacts
<1>4. \A k \in Keys' : Changes(k, c)' <=> k \in Keys /\ Changes(k, c)
  <2>1. ASSUME NEW k \in Keys' PROVE Changes(k, c)' <=> k \in Keys /\ Changes(k, c)
    <3>1. CASE k \in Keys /\ receipts[k].block = c
      <4>1. c \in 1 .. Len(blocks)
        BY <1>3, <3>1
      <4>2. blocks'[c] = blocks[c] /\ receipts'[k] = receipts[k]
        BY <1>1, <3>1, <4>1 DEF Grows
      <4> QED
        BY <3>1, <4>2 DEF Changes
    <3>2. CASE ~(k \in Keys /\ receipts[k].block = c)
      <4>1. receipts'[k].block # c
        BY <1>1, <1>2, <3>2
      <4> QED
        BY <3>2, <4>1 DEF Changes
    <3> QED
      BY <3>1, <3>2
  <2> QED
    BY <2>1
<1>5. PolicyStays(c, n)' <=> PolicyStays(c, n)
  BY <1>1, <1>4 DEF PolicyStays
<1>6. PolicyAfter(c)' = PolicyAfter(c)
  BY StatesStay
<1>7. PolicyPlace(c, n) => PolicyPlace(c, n)'
  BY <1>5, <1>6 DEF PolicyPlace, stores
<1>8. ASSUME NEW p \in Ids, Place(c, n, p) PROVE Place(c, n, p)'
  <2>1. StateAfter(c, p)' = StateAfter(c, p)
    BY StatesStay
  <2>2. \A k \in Keys' : Touches(k, c, p)' <=> k \in Keys /\ Touches(k, c, p)
    BY <1>1, <1>2 DEF Touches
  <2>3. Pending(c, n, p)' = Pending(c, n, p)
    BY <1>1, <2>2 DEF Pending
  <2>4. \A k \in Pending(c, n, p) : receipts'[k] = receipts[k]
    BY <1>1 DEF Pending
  <2>5. dyn' = dyn /\ sql' = sql
    BY DEF stores
  <2>6. Proposals' = Proposals
    BY <2>5 DEF Proposals
  <2>7. /\ Shown(p, StateAfter(c, p)) => Shown(p, StateAfter(c, p))'
        /\ Shown(p, NoProposal) => Shown(p, NoProposal)'
    BY <2>1, <2>5 DEF Shown, Shows
  <2> QED
    BY <1>8, <2>1, <2>3, <2>4, <2>5, <2>6, <2>7 DEF Place
<1> QED
  BY <1>5, <1>6, <1>7, <1>8

LEMMA BlockStores ==
  ASSUME ChainType, ChainType', ChainTold', Grows, NewBlock, UNCHANGED stores, next' = next,
         next \in Nat \ {0}, next <= Len(receipts) + 1, StoresCalm
  PROVE  StoresCalm' /\ (next \in Keys => Current' = Current)
<1>1. PICK n, c : n = next /\ c = Current
  OBVIOUS
<1>2. /\ Len(blocks) \in Nat /\ Len(receipts) \in Nat /\ Len(receipts') \in Nat
      /\ Keys = 1 .. Len(receipts) /\ Keys' = 1 .. Len(receipts')
      /\ Keys \subseteq Keys'
      /\ \A k \in Keys : receipts'[k] = receipts[k] /\ receipts[k].block \in 1 .. Len(blocks)
  BY ChainFacts, KeysGrow DEF Grows, Keys
<1>3. c \in 0 .. Len(blocks)
  <2>1. CASE next \in Keys
    BY <1>1, <1>2, <2>1 DEF Current
  <2>2. CASE next \notin Keys
    BY <1>1, <1>2, <2>2 DEF Current
  <2> QED
    BY <2>1, <2>2
<1>4. (\A p \in Ids : Place(c, n, p)') /\ PolicyPlace(c, n)'
  <2>1. (\A p \in Ids : Place(c, n, p)) /\ PolicyPlace(c, n)
    BY <1>1 DEF StoresCalm
  <2> QED
    BY <1>3, <2>1, BlockKeeps
<1>5. CASE next \in Keys
  <2>1. Current' = c /\ next' = n
    BY <1>1, <1>2, <1>5 DEF Current
  <2> QED
    BY <1>1, <1>4, <2>1 DEF StoresCalm
<1>6. CASE next \notin Keys
  <2>1. n = Len(receipts) + 1 /\ n \in Nat
    BY <1>1, <1>2, <1>6
  <2>2. c = Len(blocks) /\ c \in Nat
    BY <1>1, <1>2, <1>6 DEF Current
  <2>3. PICK b : b = c + 1
    OBVIOUS
  <2>4. n \in Keys' /\ Len(blocks') = b /\ b <= Len(blocks') /\ n \notin Keys
    BY <1>2, <2>1, <2>2, <2>3 DEF NewBlock
  <2>5. Current' = b /\ next' = n
    BY <1>1, <2>2, <2>3, <2>4 DEF Current, NewBlock
  <2>6. Parts(c, n)'
    <3>1. ASSUME NEW k \in Keys' PROVE k < n <=> receipts'[k].block <= c
      <4>1. CASE k \in Keys
        BY <1>2, <2>1, <2>2, <4>1
      <4>2. CASE k \notin Keys
        BY <1>2, <2>1, <2>2, <4>2 DEF NewBlock
      <4> QED
        BY <4>1, <4>2
    <3> QED
      BY <3>1 DEF Parts
  <2>7. (\A p \in Ids : Place(b, n, p)') /\ PolicyPlace(b, n)'
    BY <1>4, <2>1, <2>2, <2>3, <2>4, <2>6, Onward
  <2> QED
    BY <1>6, <2>5, <2>7 DEF StoresCalm
<1> QED
  BY <1>5, <1>6

LEMMA CalmBlock ==
  ASSUME TypeOK, ChainType', ChainTold, ChainTold', HandlerInv(Consumer), CalmState, Block
  PROVE  CalmState'
<1>0. ChainType /\ OthersCalm /\ ConsumerCalm /\ StoresCalm /\ next \in Nat \ {0}
  BY DEF CalmState, TypeOK, MemoryType
<1>1. Grows /\ NewBlock
  BY <1>0, ToldBlock
<1>2. /\ next' = next /\ job' = job /\ dao' = dao /\ pc' = pc /\ UNCHANGED stores
      /\ dyn' = dyn /\ sql' = sql /\ daoDyn' = daoDyn /\ daoSql' = daoSql
      /\ handled' = handled /\ failed' = failed
  BY DEF Block, memory, stores
<1>3. StoresCalm' /\ (next \in Keys => Current' = Current)
  BY <1>0, <1>1, <1>2, BlockStores DEF OthersCalm
<1>4. OthersCalm'
  <2>1. next' <= Len(receipts') + 1
    BY <1>0, <1>1, <1>2 DEF OthersCalm, Grows
  <2>2. ASSUME NEW k \in failed PROVE Null(k)'
    <3>1. Null(k) /\ k \in Keys
      BY <1>0 DEF OthersCalm, TypeOK, StoresType
    <3>2. receipts'[k] = receipts[k] /\ receipts[k].block \in 1 .. Len(blocks)
      BY <1>1, <3>1 DEF Grows
    <3>3. blocks'[receipts[k].block] = blocks[receipts[k].block]
      BY <1>1, <3>2 DEF Grows
    <3> QED
      BY <3>1, <3>2, <3>3 DEF Null
  <2> QED
    BY <1>0, <1>2, <2>1, <2>2 DEF OthersCalm
<1>5. ConsumerCalm'
  <2>1. CASE pc[Consumer] = "off"
    BY <1>2, <2>1 DEF ConsumerCalm
  <2>2. CASE pc[Consumer] # "off"
    <3>1. PICK n, c, r, s : At(n, c, r, s)
      BY <1>0, <2>2, ConsumerAt
    <3>2. /\ n = next /\ n \in Keys /\ c = Current /\ n = job[Consumer] /\ r = receipts[n]
          /\ c \in 0 .. Len(blocks) /\ s = OnChain(Consumer)
          /\ ConsumerHas(r, s) /\ PolicyHeld(c, n)
      BY <3>1, <1>0, ChainFacts DEF At
    <3>3. OnChain(Consumer)' = s /\ PolicyToSave(Consumer)' = PolicyToSave(Consumer)
      <4>1. Receipt(Consumer)' = Receipt(Consumer) /\ BlockOf(Consumer)' = BlockOf(Consumer)
            /\ OnChain(Consumer)' = OnChain(Consumer)
        BY <1>1, <1>2, <3>2, WorkerSets, Stable
      <4> QED
        BY <1>2, <3>2, <4>1 DEF PolicyToSave
    <3>4. receipts'[next'] = r /\ Current' = c /\ next' = n
      BY <1>1, <1>2, <1>3, <3>2 DEF Grows
    <3>5. ConsumerHas(r, s)'
      BY <1>2, <3>2 DEF ConsumerHas, DynLeft, SqlLeft, Shown, Shows
    <3>6. PolicyHeld(c, n)'
      <4>1. /\ PolicyStays(c, n)' <=> PolicyStays(c, n)
            /\ PolicyAfter(c)' = PolicyAfter(c)
        BY <1>0, <1>1, <1>2, <3>2, BlockKeeps
      <4> QED
        BY <1>2, <3>2, <3>3, <4>1 DEF PolicyHeld
    <3>7. ConsumerHas(receipts[next], OnChain(Consumer))' /\ PolicyHeld(Current, next)'
      BY <3>3, <3>4, <3>5, <3>6
    <3> QED
      BY <1>2, <3>2, <3>7 DEF ConsumerCalm
  <2> QED
    BY <2>1, <2>2
<1> QED
  BY <1>3, <1>4, <1>5 DEF CalmState

-----------------------------------------------------------------------------
(* With nothing but restarts going wrong                                   *)

LEMMA CalmInit == Init => CalmState
<1> SUFFICES ASSUME Init PROVE CalmState
  OBVIOUS
<1>1. /\ Keys = {} /\ Len(blocks) = 0 /\ Len(receipts) = 0 /\ next = 1 /\ handled = {} /\ failed = {}
      /\ \A w \in Workers : pc[w] = "off"
  BY DEF Init, Keys
<1>2. Current = 0
  BY <1>1 DEF Current
<1>3. ASSUME NEW p \in Ids PROVE Place(0, 1, p)
  <2>1. Shown(p, NoProposal)
    BY DEF Init, Shown, Shows, NoProposal, NoRow
  <2>2. StateAfter(0, p) = NoProposal /\ Pending(0, 1, p) = {} /\ NoProposal.status = "absent"
    BY <1>1 DEF StateAfter, Pending, NoProposal
  <2> QED
    BY <2>1, <2>2 DEF Place
<1>4. PolicyPlace(0, 1)
  BY DEF Init, PolicyPlace, PolicyAfter
<1>5. StoresCalm
  BY <1>1, <1>2, <1>3, <1>4 DEF StoresCalm
<1>6. ConsumerCalm
  BY <1>1, WorkerSets DEF ConsumerCalm
<1>7. OthersCalm
  BY <1>1 DEF OthersCalm, Workers, Handlers
<1> QED
  BY <1>5, <1>6, <1>7 DEF CalmState

\* A worker that is not the consumer, and writes nothing that BlockShown tells.
LEMMA CalmOther ==
  ASSUME TypeOK, ChainTold, HandlerInv(Consumer), CalmState,
         UNCHANGED <<chainVars, next>>, Same(Consumer), \A p \in Ids : Looks(p),
         daoDyn'.policy = daoDyn.policy, daoSql'.policy = daoSql.policy, OthersCalm'
  PROVE  CalmState'
BY ConsumerStays DEF CalmState

\* The consumer is done with its receipt.
LEMMA CalmDone ==
  ASSUME ChainType, ChainType', ChainTold', OthersCalm, UNCHANGED chainVars, StoresType, MemoryType,
         NEW n, n = next, n = job[Consumer], n \in Keys, NEW m, m = n + 1, m = next',
         NEW c, Done(n, c, m)', Stops({Consumer}),
         \/ handled' = handled \cup {n} /\ failed' = failed
         \/ handled' = handled /\ failed' = failed \cup {n} /\ Null(n)
  PROVE  CalmState' /\ BlockShown'
<1>1. StoresCalm'
  BY PassPlace DEF StoresCalm
<1>2. BlockShown'
  BY ShownAfter
<1>3. /\ pc'[Consumer] = "off"
      /\ \A w \in Wallets \cup Retriers : pc'[w] = pc[w] /\ job'[w] = job[w]
  <2>1. Consumer \in Workers /\ Consumer \notin Wallets \cup Retriers
        /\ Wallets \cup Retriers \subseteq Handlers /\ Handlers \subseteq Workers
    BY WorkersAssumption DEF Workers, Handlers
  <2> QED
    BY <2>1, StoppedOne DEF Same
<1>4. receipts' = receipts /\ blocks' = blocks
  BY DEF chainVars
<1>5. n \in Nat /\ n <= Len(receipts) /\ Len(receipts) \in Nat
  BY ChainFacts DEF Keys
<1>6. \A k : Null(k)' <=> Null(k)
  BY <1>4 DEF Null
<1>7. \A k \in handled \cup failed \cup {n} : k < next'
  <2>1. \A k \in handled \cup failed : k < n /\ k \in Keys
    BY DEF OthersCalm, StoresType
  <2>2. \A k \in Keys : k \in Int
    BY DEF Keys
  <2>3. ASSUME NEW k \in handled \cup failed PROVE k < next'
    <3>1. k < n /\ k \in Int /\ n \in Int /\ next' = n + 1
      BY <1>5, <2>1, <2>2
    <3> QED
      BY <3>1
  <2>4. n < next'
    BY <1>5
  <2> QED
    BY <2>3, <2>4
<1>8. next' <= Len(receipts') + 1
  BY <1>4, <1>5
<1>9. \A k \in failed' : Null(k)'
  BY <1>6 DEF OthersCalm
<1>10. \A w \in Retriers : pc'[w] # "off" => job'[w] \in failed'
  BY <1>3 DEF OthersCalm
<1>11. OthersCalm'
  BY <1>3, <1>7, <1>8, <1>9, <1>10 DEF OthersCalm
<1>12. ConsumerCalm'
  BY <1>3 DEF ConsumerCalm
<1> QED
  BY <1>1, <1>2, <1>11, <1>12 DEF CalmState

LEMMA CalmConsumer ==
  ASSUME TypeOK, ChainType', ChainTold, ChainTold', HandlerInv(Consumer), CalmState,
         ConsumerStep
  PROVE  CalmState' /\ (next' # next => BlockShown')
<1>0. /\ ChainType /\ StoresType /\ MemoryType /\ OthersCalm /\ ConsumerCalm /\ StoresCalm
      /\ Consumer \in Workers /\ Consumer \in Handlers
  BY WorkerSets DEF TypeOK, CalmState
<1>1. ASSUME Moves(Consumer), UNCHANGED <<next, handled, failed>>, ConsumerCalm', StoresCalm'
      PROVE  CalmState' /\ (next' # next => BlockShown')
  <2>1. UNCHANGED chainVars /\ \A v \in Workers \ {Consumer} : Same(v)
    BY <1>0, <1>1, OthersStay
  <2>2. \A w \in Wallets \cup Retriers : Same(w)
    BY <2>1, WorkersAssumption DEF Workers, Handlers
  <2>3. OthersCalm'
    BY <1>0, <1>1, <2>1, <2>2, OthersKept
  <2> QED
    BY <1>1, <2>3 DEF CalmState
<1>2. CASE ConsumerBegins
  <2>1. ConsumerCalm' /\ StoresCalm'
    BY <1>0, <1>2, ConsumerBegin
  <2>2. next \in Keys
    BY <1>0, <1>2, ChainFacts DEF ConsumerBegins, MemoryType, Keys
  <2>3. Moves(Consumer) /\ UNCHANGED <<next, handled, failed>>
    BY <1>0, <1>2, <2>2 DEF ConsumerBegins, Moves, Handles, Begin, stores
  <2> QED
    BY <1>1, <2>1, <2>3
<1>3. CASE ConsumerPasses
  <2>1. next < next
    BY <1>0, <1>3 DEF ConsumerPasses, OthersCalm
  <2> QED
    BY <1>0, <2>1 DEF MemoryType
<1>4. CASE Handle(Consumer)
  <2>1. pc[Consumer] # "off"
    BY <1>4 DEF Handle, ReadDao, ReadProposal, SaveDyn, SaveSql, SaveDao, Count, SaveDaoDyn,
       SaveDaoSql, Mark, NullThrows
  <2>2. PICK n, c, r, s : At(n, c, r, s)
    BY <1>0, <2>1, ConsumerAt
  <2>3. Moves(Consumer)
    BY <1>0, <1>4 DEF Moves, Handles
  <2>4. ASSUME \/ ReadDao(Consumer) \/ ReadProposal(Consumer) \/ SaveDyn(Consumer)
               \/ SaveSql(Consumer) \/ SaveDao(Consumer) \/ SaveDaoSql(Consumer)
        PROVE  CalmState' /\ (next' # next => BlockShown')
    <3>1. ConsumerCalm' /\ StoresCalm'
      BY <2>2, <2>4, ConsumerReadDao, ConsumerReadProposal, ConsumerSaveDyn, ConsumerSaveSql,
         ConsumerCount, ConsumerSaveDaoDyn, ConsumerSaveDaoSql DEF SaveDao
    <3>2. UNCHANGED <<next, handled, failed>>
      BY <2>4 DEF ReadDao, ReadProposal, SaveDyn, SaveSql, SaveDao, Count, SaveDaoDyn,
         SaveDaoSql, stores, memory
    <3> QED
      BY <1>1, <2>3, <3>1, <3>2
  <2>5. PICK m : m = n + 1
    OBVIOUS
  <2>6. n = next /\ n = job[Consumer] /\ n \in Keys
    BY <2>2 DEF At
  <2>7. CASE Mark(Consumer)
    <3>1. m = next' /\ Done(n, c, m)'
      BY <2>2, <2>5, <2>7, ConsumerMark
    <3>2. /\ Stops({Consumer}) /\ UNCHANGED chainVars
          /\ handled' = handled \cup {n} /\ failed' = failed
      BY <2>6, <2>7 DEF Mark
    <3> QED
      BY <1>0, <2>5, <2>6, <3>1, <3>2, CalmDone
  <2>8. CASE NullThrows(Consumer)
    <3>1. m = next' /\ Done(n, c, m)' /\ Null(n)
      BY <2>2, <2>5, <2>8, ConsumerNullThrows
    <3>2. /\ Stops({Consumer}) /\ UNCHANGED chainVars
          /\ handled' = handled /\ failed' = failed \cup {n}
      BY <2>6, <2>8 DEF NullThrows, Rejects
    <3> QED
      BY <1>0, <2>5, <2>6, <3>1, <3>2, CalmDone
  <2> QED
    BY <1>4, <2>4, <2>7, <2>8 DEF Handle
<1> QED
  BY <1>2, <1>3, <1>4 DEF ConsumerStep

LEMMA CalmRetrier ==
  ASSUME TypeOK, ChainTold, HandlerInv(Consumer), CalmState,
         NEW w \in Retriers, HandlerInv(w), RetryStep(w)
  PROVE  CalmState' /\ next' = next
<1>0. /\ ChainType /\ StoresType /\ MemoryType /\ OthersCalm
      /\ w \in Workers /\ w \in Handlers /\ w # Consumer
      /\ Consumer \in Workers /\ \A v \in (Wallets \cup Retriers) \ {w} : v \in Workers \ {w}
  BY WorkersAssumption DEF TypeOK, CalmState, Workers, Handlers
<1>1. /\ pc[w] \in {"off", "readDao", "readProposal", "saveDyn", "skip"}
      /\ pc[w] # "off" => /\ job[w] \in failed /\ job[w] \in Keys /\ Null(job[w])
                          /\ job[w] < next
  BY <1>0 DEF OthersCalm, HandlerInv
<1>2. pc[w] # "off" => /\ Receipt(w).op # "AddProposal" /\ NullProposal(w)
  BY <1>1 DEF Null, NullProposal, Receipt, OnChain, BlockOf
<1>3. Moves(w)
  BY <1>0 DEF RetryStep, RetryBegins, StoresType, Moves, Handles
<1>4. UNCHANGED chainVars /\ \A v \in Workers \ {w} : Same(v)
  BY <1>0, <1>3, OthersStay
<1> DEFINE Waits ==
             /\ UNCHANGED <<next, failed, dyn, sql, daoDyn, daoSql>>
             /\ \A k \in handled' : k \in handled \/ k < next
             /\ pc'[w] \in {"off", "readDao", "readProposal", "saveDyn", "skip"}
             /\ pc'[w] # "off" => job'[w] \in failed
<1>5. ASSUME RetryBegins(w) PROVE Waits
  <2>1. PICK k \in failed : Begin(w, k)
    BY <1>5 DEF RetryBegins
  <2> QED
    BY <1>0, <2>1 DEF Begin, GoTo, MemoryType, stores
<1>6. ASSUME ReadDao(w) PROVE Waits
  <2>1. pc[w] = "readDao" /\ pc'[w] = "readProposal" /\ job' = job
        /\ UNCHANGED next /\ UNCHANGED stores
    BY <1>0, <1>2, <1>6 DEF ReadDao, GoTo, MemoryType
  <2> QED
    BY <1>1, <2>1 DEF stores
<1>7. ASSUME ReadProposal(w) PROVE Waits
  <2>1. pc[w] = "readProposal" /\ pc'[w] \in {"skip", "saveDyn"} /\ job' = job
        /\ UNCHANGED next /\ UNCHANGED stores
    BY <1>0, <1>7 DEF ReadProposal, GoTo, MemoryType
  <2> QED
    BY <1>1, <2>1 DEF stores
<1>8. ASSUME Mark(w) PROVE Waits
  <2>1. pc'[w] = "off"
    BY <1>0, <1>8, StoppedOne DEF Mark
  <2>2. pc[w] # "off" /\ handled' = handled \cup {job[w]}
        /\ UNCHANGED <<next, failed, dyn, sql, daoDyn, daoSql>>
    BY <1>0, <1>8 DEF Mark
  <2> QED
    BY <1>1, <2>1, <2>2
<1>9. ASSUME NullThrows(w) PROVE Waits
  <2>1. pc'[w] = "off"
    BY <1>0, <1>9, StoppedOne DEF NullThrows, Rejects
  <2>2. UNCHANGED <<next, failed, dyn, sql, daoDyn, daoSql, handled>>
    BY <1>0, <1>9 DEF NullThrows, Rejects
  <2> QED
    BY <2>1, <2>2
<1>10. ~(SaveDyn(w) \/ SaveSql(w) \/ SaveDao(w) \/ SaveDaoSql(w))
  BY <1>1, <1>2 DEF SaveDyn, SaveSql, SaveDao, Count, SaveDaoDyn, SaveDaoSql
<1>11. Waits
  BY <1>5, <1>6, <1>7, <1>8, <1>9, <1>10 DEF RetryStep, Handle
<1>12. Same(Consumer) /\ \A p \in Ids : Looks(p)
  BY <1>0, <1>4, <1>11 DEF Looks
<1>13. OthersCalm'
  <2>1. receipts' = receipts /\ blocks' = blocks
    BY <1>4 DEF chainVars
  <2>2. \A k : Null(k)' <=> Null(k)
    BY <2>1 DEF Null
  <2>3. \A v \in (Wallets \cup Retriers) \ {w} : pc'[v] = pc[v] /\ job'[v] = job[v]
    BY <1>0, <1>4 DEF Same, Handlers
  <2>4. \A v \in Wallets : pc'[v] = "off"
    BY <1>0, <2>3, WorkersAssumption DEF OthersCalm
  <2>5. \A v \in Retriers : /\ pc'[v] \in {"off", "readDao", "readProposal", "saveDyn", "skip"}
                            /\ pc'[v] # "off" => job'[v] \in failed
    BY <1>0, <1>11, <2>3 DEF OthersCalm
  <2>6. \A k \in handled' : k < next
    BY <1>0, <1>11 DEF OthersCalm
  <2> QED
    BY <1>0, <1>11, <2>1, <2>2, <2>4, <2>5, <2>6 DEF OthersCalm
<1>14. CalmState'
  BY <1>4, <1>11, <1>12, <1>13, CalmOther
<1> QED
  BY <1>11, <1>14

LEMMA CalmPoller ==
  ASSUME TypeOK, ChainTold, HandlerInv(Consumer), CalmState, NEW w \in Pollers, Poll(w)
  PROVE  CalmState' /\ next' = next
<1>0. /\ ChainType /\ StoresType /\ MemoryType /\ OthersCalm /\ w \in Workers /\ w \notin Handlers
      /\ Consumer \in Workers \ {w} /\ Wallets \cup Retriers \subseteq Workers \ {w}
  BY WorkersAssumption DEF TypeOK, CalmState, Workers, Handlers
<1>1. UNCHANGED chainVars /\ \A v \in Workers \ {w} : Same(v)
  <2>1. Moves(w)
    BY DEF Moves
  <2> QED
    BY <1>0, <2>1, OthersStay
<1>2. /\ next' = next /\ handled' = handled /\ failed' = failed
      /\ daoDyn'.policy = daoDyn.policy /\ daoSql'.policy = daoSql.policy
  BY <1>0 DEF Poll, SaveDao, PollBegins, Expire, Count, SaveDaoDyn, PollEnds, SavedDao, Stops,
     stores, memory
<1>3. \A p \in Ids : Looks(p)
  <2>1. CASE Expire(w)
    <3>1. dyn' = dyn
      BY <2>1 DEF Expire
    <3>2. ASSUME NEW p \in Ids
          PROVE  sql'[p].status = sql[p].status /\ sql'[p].votes = sql[p].votes
      <4>1. sql'[p] = IF p \in Overdue(sql) THEN [sql[p] EXCEPT !.voteStatus = "Expired"]
                      ELSE sql[p]
        BY <2>1 DEF Expire
      <4>2. sql[p] \in Rows
        BY <1>0 DEF StoresType
      <4> QED
        BY <4>1, <4>2 DEF Rows
    <3> QED
      BY <3>1, <3>2 DEF Looks
  <2>2. CASE PollBegins(w) \/ SaveDao(w) \/ PollEnds(w)
    BY <2>2 DEF PollBegins, SaveDao, Count, SaveDaoDyn, PollEnds, stores, Looks
  <2> QED
    BY <2>1, <2>2 DEF Poll
<1>4. OthersCalm'
  BY <1>0, <1>1, <1>2, OthersKept
<1> QED
  BY <1>0, <1>1, <1>2, <1>3, <1>4, CalmOther

LEMMA CalmCrash ==
  ASSUME TypeOK, CalmState, Crash
  PROVE  CalmState' /\ next' = next
<1>0. MemoryType /\ OthersCalm /\ StoresCalm /\ Wallets \subseteq Handlers
      /\ {Consumer} \cup Retriers \in SUBSET Workers /\ Handlers \subseteq Workers
  BY DEF TypeOK, CalmState, Workers, Handlers
<1>1. /\ UNCHANGED chainVars /\ UNCHANGED stores /\ next' = next
      /\ Stops({Consumer} \cup Retriers)
  BY DEF Crash
<1>2. /\ pc'[Consumer] = "off" /\ \A v \in Retriers : pc'[v] = "off"
      /\ \A v \in Wallets : pc'[v] = pc[v]
  <2>1. \A v \in Wallets : v \in Workers /\ v \notin {Consumer} \cup Retriers
    BY <1>0, WorkersAssumption
  <2>2. \A v \in {Consumer} \cup Retriers : v \in Workers
    BY <1>0
  <2> QED
    BY <1>0, <1>1, <2>1, <2>2, Stopped
<1>3. ConsumerCalm'
  BY <1>2 DEF ConsumerCalm
<1>4. StoresCalm'
  <2>1. PICK n, c : n = next /\ c = Current
    OBVIOUS
  <2>2. Current' = c /\ next' = n
    BY <1>1, <2>1 DEF Current, chainVars, Keys
  <2>3. (\A p \in Ids : Place(c, n, p)) /\ PolicyPlace(c, n)
    BY <1>0, <2>1 DEF StoresCalm
  <2>4. \A p \in Ids : Looks(p)
    BY <1>1 DEF stores, Looks
  <2>5. (\A p \in Ids : Place(c, n, p)') /\ PolicyPlace(c, n)'
    BY <1>1, <2>3, <2>4, PlaceStays, PolicyKept DEF stores
  <2> QED
    BY <2>2, <2>5 DEF StoresCalm
<1>5. OthersCalm'
  <2>1. receipts' = receipts /\ blocks' = blocks /\ handled' = handled /\ failed' = failed
    BY <1>1 DEF chainVars, stores
  <2>2. \A k : Null(k)' <=> Null(k)
    BY <2>1 DEF Null
  <2> QED
    BY <1>0, <1>1, <1>2, <2>1, <2>2 DEF OthersCalm
<1> QED
  BY <1>1, <1>3, <1>4, <1>5 DEF CalmState

LEMMA CalmNext ==
  ASSUME TypeOK, TypeOK', \A w \in Handlers : HandlerInv(w), ChainTold, Calm, CalmState,
         [Next]_vars
  PROVE  CalmState' /\ (next' # next => BlockShown')
<1>0. /\ ChainTold' /\ ChainType' /\ HandlerInv(Consumer) /\ OthersCalm
      /\ faults \in Nat /\ scenario.faults = 0 /\ ~scenario.callbacks
  BY ToldNext, WorkerSets DEF TypeOK, CalmState, HistoryType, Calm
<1>1. ASSUME UNCHANGED <<chainVars, stores, pc, memory>>
      PROVE  CalmState' /\ (next' # next => BlockShown')
  <2>1. /\ next' = next /\ \A v : Same(v)
        /\ UNCHANGED <<handled, failed, dyn, sql, daoDyn, daoSql>>
    BY <1>1 DEF memory, stores, Same
  <2>2. OthersCalm'
    BY <1>0, <1>1, <2>1, OthersKept
  <2>3. \A p \in Ids : Looks(p)
    BY <2>1 DEF Looks
  <2> QED
    BY <1>0, <1>1, <2>1, <2>2, <2>3, CalmOther
<1>2. CASE UNCHANGED vars
  BY <1>1, <1>2 DEF vars
<1>3. CASE Block
  BY <1>0, <1>3, CalmBlock DEF Block, memory
<1>4. ASSUME NEW p \in Ids, VotePeriodEnds(p)
      PROVE  CalmState' /\ (next' # next => BlockShown')
  BY <1>1, <1>4 DEF VotePeriodEnds
<1>5. CASE ConsumerStep
  BY <1>0, <1>5, CalmConsumer
<1>6. ASSUME NEW w \in Retriers, RetryStep(w)
      PROVE  CalmState' /\ (next' # next => BlockShown')
  <2>1. HandlerInv(w)
    BY DEF Handlers
  <2> QED
    BY <1>0, <1>6, <2>1, CalmRetrier
<1>7. ASSUME NEW w \in Wallets, CallbackBegins(w) \/ Handle(w)
      PROVE  FALSE
  <2>1. pc[w] = "off"
    BY <1>0 DEF OthersCalm
  <2>2. ~Handle(w)
    BY <2>1 DEF Handle, ReadDao, ReadProposal, SaveDyn, SaveSql, SaveDao, Count, SaveDaoDyn,
       SaveDaoSql, Mark, NullThrows
  <2> QED
    BY <1>0, <1>7, <2>2 DEF CallbackBegins
<1>8. ASSUME NEW w, MissProposal(w) \/ Throws(w)
      PROVE  FALSE
  BY <1>0, <1>8 DEF MissProposal, Throws
<1>9. ASSUME NEW w \in Pollers, Poll(w)
      PROVE  CalmState' /\ (next' # next => BlockShown')
  BY <1>0, <1>9, CalmPoller
<1>10. CASE Crash
  BY <1>10, CalmCrash
<1> QED
  BY <1>2, <1>3, <1>4, <1>5, <1>6, <1>7, <1>8, <1>9, <1>10 DEF Next

LEMMA ScenarioStays ==
  ASSUME [Next]_vars
  PROVE  scenario' = scenario
BY DEF Next, vars, Block, VotePeriodEnds, ConsumerStep, ConsumerBegins, Begin, ConsumerPasses,
   Handle, ReadDao, ReadProposal, SaveDyn, SaveSql, SaveDao, Count, SaveDaoDyn, SaveDaoSql, Mark,
   NullThrows, Rejects, RetryStep, RetryBegins, CallbackBegins, MissProposal, Throws, Poll,
   PollBegins, Expire, PollEnds, Crash

-----------------------------------------------------------------------------
(* Theorems about the end of a block                                       *)

\* The inductive invariant behind BlocksExact: what the receipts of a block tell
\* of it, how far the stores are with the block the consumer is in, and, with
\* nothing but restarts going wrong, what the consumer holds and why nobody else
\* writes.
THEOREM CalmInvariant == Spec => [](ChainTold /\ CalmInv)
<1>1. Init => ChainTold /\ CalmInv
  BY ToldInit, CalmInit DEF CalmInv
<1>2. IInv /\ IInv' /\ ChainTold /\ CalmInv /\ [Next]_vars => ChainTold' /\ CalmInv'
  <2> SUFFICES ASSUME IInv, IInv', ChainTold, CalmInv, [Next]_vars
               PROVE  ChainTold' /\ CalmInv'
    OBVIOUS
  <2>1. /\ TypeOK /\ TypeOK' /\ \A w \in Handlers : HandlerInv(w)
    BY DEF IInv
  <2>2. ChainTold'
    BY <2>1, ToldNext
  <2>3. ASSUME Calm' PROVE CalmState'
    <3>1. Calm
      BY <2>3, ScenarioStays DEF Calm
    <3> QED
      BY <2>1, <3>1, CalmNext DEF CalmInv
  <2> QED
    BY <2>2, <2>3 DEF CalmInv
<1> QED
  BY <1>1, <1>2, Invariant, PTL DEF Spec

\* With nothing but restarts going wrong, each time the consumer passes the last
\* receipt of a block both stores show the proposals and the policy the contract
\* had at its end, although the timer and retries of receipts that can never be
\* handled run beside it: handleAddProposal, handleActProposal and the save of
\* the DAO row, however many receipts and restarts there are.
THEOREM BlocksAlwaysExact == Spec => BlocksExact
<1>1. IInv /\ IInv' /\ ChainTold /\ CalmInv /\ [Next]_vars
      => [next' # next /\ ~scenario.callbacks /\ scenario.faults = 0 => BlockShown']_vars
  <2> SUFFICES ASSUME IInv, IInv', ChainTold, CalmInv, [Next]_vars,
                      next' # next, ~scenario.callbacks, scenario.faults = 0
               PROVE  BlockShown'
    OBVIOUS
  <2>1. /\ TypeOK /\ TypeOK' /\ \A w \in Handlers : HandlerInv(w)
    BY DEF IInv
  <2>2. Calm /\ CalmState
    BY DEF Calm, CalmInv
  <2> QED
    BY <2>1, <2>2, CalmNext
<1> QED
  BY <1>1, Invariant, CalmInvariant, PTL DEF Spec, BlocksExact
=============================================================================
