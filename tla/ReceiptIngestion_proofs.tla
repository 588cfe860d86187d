----------------------- MODULE ReceiptIngestion_proofs -----------------------
(***************************************************************************)
(* Receipt ingestion for every number of receipts, entries, workers and    *)
(* failures: no receipt is lost, effects precede markers and follow the    *)
(* order of the receipt, and every step is a step of the ledger.           *)
(***************************************************************************)
EXTENDS ReceiptIngestion, TLAPS

\* A receipt action is a receipt with the position of one of its actions.
LEMMA ActionPairs ==
  /\ \A r, i : <<r, i>> \in ReceiptActions
                 <=> r \in Receipts /\ i \in 1 .. NumActions[r]
  /\ \A e \in ReceiptActions :
       /\ e = <<e[1], e[2]>>
       /\ e[1] \in Receipts
       /\ e[2] \in 1 .. NumActions[e[1]]
  BY DEF ReceiptActions

\* Every entry of the stream carries a receipt.
LEMMA StreamTypes ==
  ASSUME StoresTypeOK
  PROVE  /\ stream \subseteq 1 .. NumEntries
         /\ \A k \in 1 .. published : ReceiptOf[k] \in Receipts
         /\ \A k \in stream : k \in 1 .. published /\ ReceiptOf[k] \in Receipts
<1>1. 1 .. published \subseteq 1 .. NumEntries
  BY StreamAssumption DEF StoresTypeOK
<1>2. QED
  BY <1>1, StreamAssumption DEF StoresTypeOK

\* The invariant holds initially.
LEMMA InitInv == Init => IInv
<1> SUFFICES ASSUME Init PROVE IInv
  OBVIOUS
<1> USE DEF Init, Workers
<1>1. /\ pc[Consumer] = "poll"
      /\ \A w \in Retriers \cup Wallets : pc[w] = "off"
      /\ \A w \in Workers : pc[w] \in {"poll", "off"}
  BY WorkersAssumption
<1>2. StoresTypeOK
  BY StreamAssumption DEF StoresTypeOK, ErrorStatus
<1>3. WorkersTypeOK
  <2>1. \A w \in Workers : pc[w] \in LabelsOf(w)
    BY <1>1, WorkersAssumption DEF LabelsOf, ConsumerPC
  <2>2. pc \in [Workers -> ConsumerPC \cup HandlerPC \cup RetrierPC \cup {"off"}]
    BY DEF ConsumerPC
  <2>3. QED
    BY <2>1, <2>2 DEF WorkersTypeOK
<1>4. MemoryTypeOK
  <2>1. batch \subseteq 1 .. published /\ cur \in 0 .. published
    OBVIOUS
  <2>2. /\ errOf \in [Retriers -> ReceiptActions \cup {None}]
        /\ attempts \in [Retriers -> Nat]
    OBVIOUS
  <2>3. QED
    BY <2>1, <2>2 DEF MemoryTypeOK
<1>5. TypeOK
  BY <1>2, <1>3, <1>4, BoundsAssumption DEF TypeOK, BoundsTypeOK
<1>6. EntryInv /\ RecordInv
  BY <1>1 DEF EntryInv, RecordInv, ConsumerBusy
<1>7. ProgressInv /\ RetryInv
  BY <1>1 DEF ProgressInv, Progress, RetryInv, Retry, HandlerPC, RetrierPC
<1>8. QED
  BY <1>5, <1>6, <1>7
  DEF IInv, NoReceiptLost, MarkedAfterEffects, AppliedInOrder,
      HandlerStateTruthful, ResolvedMeansDone

\* Markers and errors only move towards done: a receipt that is done stays
\* done, and one that is settled stays settled.
LEMMA SettledStays ==
  ASSUME handled \subseteq handled',
         \A e \in ReceiptActions :
           ErrorIsOpen(e) => ErrorIsOpen(e)' \/ ReceiptDone(e[1])
  PROVE  /\ \A r, i : Done(r, i) => Done(r, i)'
         /\ \A r \in Receipts : ReceiptDone(r) => ReceiptDone(r)'
         /\ \A r \in Receipts : Settled(r) => Settled(r)'
<1>1. \A r, i : Done(r, i) => Done(r, i)'
  BY DEF Done
<1>2. \A r \in Receipts : ReceiptDone(r) => ReceiptDone(r)'
  BY <1>1 DEF ReceiptDone
<1>3. ASSUME NEW r \in Receipts, Settled(r), ~ReceiptDone(r)
      PROVE  Settled(r)'
  <2>1. PICK i \in 1 .. NumActions[r] : ErrorIsOpen(<<r, i>>)
    BY <1>3 DEF Settled
  <2>2. <<r, i>> \in ReceiptActions
    BY ActionPairs
  <2>3. ErrorIsOpen(<<r, i>>)'
    BY <1>3, <2>1, <2>2
  <2>4. QED
    BY <2>3 DEF Settled
<1>4. QED
  BY <1>1, <1>2, <1>3 DEF Settled

\* A step that leaves the stream, the markers, the effects, the errors and
\* the handler state alone preserves what is said about them.
DataInv ==
  /\ NoReceiptLost /\ MarkedAfterEffects /\ AppliedInOrder
  /\ ResolvedMeansDone /\ HandlerStateTruthful

LEMMA QuietData ==
  ASSUME DataInv, UNCHANGED <<redis, errors, database>>
  PROVE  DataInv'
<1>1. UNCHANGED <<published, stream, dynErr, sqlErr, handled, applied,
                  hStatus, hReceipt>>
  BY DEF redis, errors, database
<1>2. \A r : Settled(r)' = Settled(r) /\ ReceiptDone(r)' = ReceiptDone(r)
  BY <1>1 DEF Settled, ReceiptDone, Done, ErrorIsOpen
<1>3. QED
  BY <1>1, <1>2
  DEF DataInv, NoReceiptLost, MarkedAfterEffects, AppliedInOrder,
      ResolvedMeansDone, HandlerStateTruthful


-----------------------------------------------------------------------------
(* Types of the worker variables                                           *)

\* Moving a worker to a label of its own code keeps the types.
LEMMA TypePC ==
  ASSUME WorkersTypeOK, NEW w \in Workers, NEW l \in LabelsOf(w), GoTo(w, l),
         rec' \in [Workers -> Receipts \cup {None}],
         idx' \in [Workers -> Nat],
         seen' \in [Workers -> SUBSET ReceiptActions]
  PROVE  WorkersTypeOK'
<1>1. l \in ConsumerPC \cup HandlerPC \cup RetrierPC \cup {"off"}
  BY DEF LabelsOf
<1>2. pc' \in [Workers -> ConsumerPC \cup HandlerPC \cup RetrierPC \cup {"off"}]
  BY <1>1 DEF WorkersTypeOK, GoTo
<1>3. ASSUME NEW v \in Workers PROVE pc'[v] \in LabelsOf(v)
  BY DEF WorkersTypeOK, GoTo
<1>4. QED
  BY <1>2, <1>3 DEF WorkersTypeOK, LabelsOf

\* The labels of the handler belong to every worker.
LEMMA HandlerLabels ==
  \A w \in Workers : HandlerPC \subseteq LabelsOf(w)
  BY DEF LabelsOf

LEMMA TypeStart ==
  ASSUME WorkersTypeOK, NEW w \in Workers, NEW r \in Receipts,
         StartReceipt(w, r)
  PROVE  /\ rec' \in [Workers -> Receipts \cup {None}]
         /\ idx' \in [Workers -> Nat]
  BY DEF WorkersTypeOK, StartReceipt

LEMMA TypeDrop ==
  ASSUME WorkersTypeOK, NEW w \in Workers, DropReceipt(w)
  PROVE  /\ rec' \in [Workers -> Receipts \cup {None}]
         /\ idx' \in [Workers -> Nat]
         /\ seen' \in [Workers -> SUBSET ReceiptActions]
  BY DEF WorkersTypeOK, DropReceipt

-----------------------------------------------------------------------------
(* What a step of one worker leaves alone                                  *)

\* The other workers keep their place.
Local(w) ==
  /\ \A v \in Workers \ {w} : pc'[v] = pc[v] /\ rec'[v] = rec[v] /\ idx'[v] = idx[v]
  /\ \A v \in Retriers \ {w} : errOf'[v] = errOf[v]

\* Markers and effects are added, error records are not deleted, and an open
\* error is closed only when its receipt is done.
Grows ==
  /\ handled \subseteq handled'
  /\ applied \subseteq applied'
  /\ \A e \in ReceiptActions :
       /\ ErrorIsOpen(e) => ErrorIsOpen(e)' \/ ReceiptDone(e[1])
       /\ dynErr[e] # "none" => dynErr'[e] # "none"

LEMMA ProgressStays ==
  ASSUME Grows, NEW v \in Workers, Progress(v),
         pc'[v] = pc[v], rec'[v] = rec[v], idx'[v] = idx[v]
  PROVE  Progress(v)'
<1>1. \A r, i : Done(r, i) => Done(r, i)'
  BY DEF Done, Grows
<1>2. ActionAt(v)' = ActionAt(v)
  BY DEF ActionAt
<1>3. QED
  BY <1>1, <1>2 DEF Progress, Grows

LEMMA RetryStays ==
  ASSUME TypeOK, Grows, NEW v \in Retriers, Retry(v),
         pc'[v] = pc[v], rec'[v] = rec[v], errOf'[v] = errOf[v]
  PROVE  Retry(v)'
<1>1. \A r \in Receipts : ReceiptDone(r) => ReceiptDone(r)'
  BY SettledStays DEF Grows
<1>2. CASE pc[v] = "off"
  BY <1>2 DEF Retry, HandlerPC, RetrierPC
<1>3. CASE pc[v] # "off"
  <2>1. errOf[v] \in ReceiptActions
    BY <1>3 DEF Retry
  <2>2. errOf[v][1] \in Receipts
    BY <2>1, ActionPairs
  <2>3. QED
    BY <1>1, <1>3, <2>1, <2>2 DEF Retry
<1>4. QED
  BY <1>2, <1>3

LEMMA RecordStays ==
  ASSUME IInv, Grows, pc'[Consumer] = pc[Consumer],
         rec'[Consumer] = rec[Consumer], idx'[Consumer] = idx[Consumer]
  PROVE  RecordInv'
<1>1. ActionAt(Consumer)' = ActionAt(Consumer)
  BY DEF ActionAt
<1>2. RecordInv
  BY DEF IInv
<1>3. ASSUME pc[Consumer] \in {"failState", "xdel"}
      PROVE  Settled(rec[Consumer])'
  <2>1. cur \in stream /\ rec[Consumer] = ReceiptOf[cur]
    BY <1>3 DEF IInv, EntryInv, ConsumerBusy
  <2>2. rec[Consumer] \in Receipts
    BY <2>1, StreamTypes DEF IInv, TypeOK
  <2>3. QED
    BY <1>2, <1>3, <2>2, SettledStays DEF RecordInv, Grows
<1>4. QED
  BY <1>1, <1>2, <1>3 DEF RecordInv, Grows

LEMMA EntryStays ==
  ASSUME EntryInv, UNCHANGED <<stream, batch, cur, hReceipt>>,
         pc'[Consumer] = pc[Consumer] \/ ConsumerBusy,
         rec'[Consumer] = rec[Consumer]
  PROVE  EntryInv'
  BY DEF EntryInv, ConsumerBusy

\* The frame of every step of a worker: its own place and what the step does
\* to the stores are all that is left to check.
LEMMA WorkerStep ==
  ASSUME IInv, NEW w \in Workers, Local(w), Grows,
         TypeOK', EntryInv', RecordInv', DataInv',
         Progress(w)', w \in Retriers => Retry(w)'
  PROVE  IInv'
<1>1. ProgressInv'
  <2>1. ASSUME NEW v \in Workers PROVE Progress(v)'
    <3>1. CASE v = w
      BY <3>1
    <3>2. CASE v # w
      BY <3>2, ProgressStays DEF IInv, ProgressInv, Local
    <3>3. QED
      BY <3>1, <3>2
  <2>2. QED
    BY <2>1 DEF ProgressInv, Workers
<1>2. RetryInv'
  <2>1. ASSUME NEW v \in Retriers PROVE Retry(v)'
    <3>1. CASE v = w
      BY <3>1
    <3>2. CASE v # w
      <4>1. v \in Workers \ {w}
        BY <3>2 DEF Workers
      <4>2. QED
        BY <3>2, <4>1, RetryStays DEF IInv, RetryInv, Local
    <3>3. QED
      BY <3>1, <3>2
  <2>2. QED
    BY <2>1 DEF RetryInv
<1>3. QED
  BY <1>1, <1>2 DEF IInv, DataInv

LEMMA QuietGrows ==
  ASSUME UNCHANGED <<redis, errors, database>>
  PROVE  Grows
  BY DEF Grows, redis, errors, database, ErrorIsOpen

LEMMA QuietTypes ==
  ASSUME StoresTypeOK, UNCHANGED <<redis, errors, database>>
  PROVE  StoresTypeOK'
  BY DEF StoresTypeOK, redis, errors, database

\* Memory of the consumer, of the retriers and of the start that is unchanged
\* keeps its type.
LEMMA MemoryStays ==
  ASSUME MemoryTypeOK, UNCHANGED <<published, consumerMem, retryMem, bootMem>>
  PROVE  MemoryTypeOK'
  BY DEF MemoryTypeOK, consumerMem, retryMem, bootMem

LEMMA BoundsStay ==
  ASSUME BoundsTypeOK, UNCHANGED bounds
  PROVE  BoundsTypeOK'
  BY DEF BoundsTypeOK, bounds

\* A step that only adds markers or effects.
LEMMA DataStays ==
  ASSUME StoresTypeOK, DataInv, Grows,
         UNCHANGED <<redis, errors, hStatus, hReceipt>>,
         MarkedAfterEffects', AppliedInOrder'
  PROVE  DataInv'
<1>1. UNCHANGED <<published, stream, dynErr, sqlErr>>
  BY DEF redis, errors
<1>2. \A r \in Receipts : /\ ReceiptDone(r) => ReceiptDone(r)'
                          /\ Settled(r) => Settled(r)'
  BY SettledStays DEF Grows
<1>3. NoReceiptLost'
  BY <1>1, <1>2, StreamTypes DEF DataInv, NoReceiptLost
<1>4. ResolvedMeansDone'
  BY <1>1, <1>2, ActionPairs DEF DataInv, ResolvedMeansDone
<1>5. HandlerStateTruthful'
  BY <1>2 DEF DataInv, HandlerStateTruthful, StoresTypeOK
<1>6. QED
  BY <1>3, <1>4, <1>5 DEF DataInv

-----------------------------------------------------------------------------
(* The steps of handling an action, by any worker                          *)

\* What is left to check of a step inside the handler.
LEMMA HandlerStep ==
  ASSUME IInv, NEW w \in Workers, pc[w] \in HandlerPC,
         NEW l \in HandlerPC, GoTo(w, l),
         NEW i \in Nat, idx' = [idx EXCEPT ![w] = i],
         UNCHANGED <<redis, errors, hStatus, hReceipt, rec, seen, consumerMem,
                     retryMem, bootMem>>,
         BoundsTypeOK', handled' \subseteq ReceiptActions,
         applied' \subseteq ReceiptActions, Grows,
         Progress(w)', MarkedAfterEffects', AppliedInOrder'
  PROVE  IInv'
<1>1. WorkersTypeOK'
  BY TypePC, HandlerLabels DEF IInv, TypeOK, WorkersTypeOK
<1>2. StoresTypeOK'
  BY DEF IInv, TypeOK, StoresTypeOK, redis, errors
<1>3. MemoryTypeOK'
  BY MemoryStays DEF IInv, TypeOK, redis
<1>4. TypeOK'
  BY <1>1, <1>2, <1>3 DEF TypeOK
<1>5. DataInv'
  BY DataStays DEF IInv, TypeOK, DataInv
<1>6. Local(w)
  BY DEF Local, GoTo, IInv, TypeOK, WorkersTypeOK, retryMem, Workers
<1>7. pc'[w] = l
  BY DEF GoTo, IInv, TypeOK, WorkersTypeOK
<1>8. EntryInv'
  <2>1. pc'[Consumer] = pc[Consumer] \/ ConsumerBusy
    BY DEF GoTo, IInv, TypeOK, WorkersTypeOK, ConsumerBusy, HandlerPC
  <2>2. QED
    BY <2>1, EntryStays DEF IInv, redis, consumerMem
<1>9. RecordInv'
  <2>1. CASE w = Consumer
    BY <1>7, <2>1 DEF RecordInv, HandlerPC
  <2>2. CASE w # Consumer
    <3>1. Consumer \in Workers \ {w}
      BY <2>2 DEF Workers
    <3>2. QED
      BY <3>1, <1>6, RecordStays DEF Local
  <2>3. QED
    BY <2>1, <2>2
<1>10. ASSUME w \in Retriers PROVE Retry(w)'
  <2>1. Retry(w)
    BY <1>10 DEF IInv, RetryInv
  <2>2. errOf' = errOf /\ rec' = rec
    BY DEF retryMem
  <2>3. errOf[w] \in ReceiptActions /\ rec[w] = errOf[w][1]
    BY <2>1 DEF Retry, HandlerPC
  <2>4. pc'[w] \in HandlerPC /\ pc'[w] \notin RetrierPC
    BY <1>7 DEF HandlerPC, RetrierPC
  <2>5. QED
    BY <2>2, <2>3, <2>4 DEF Retry
<1>11. QED
  BY <1>4, <1>5, <1>6, <1>8, <1>9, <1>10, WorkerStep

\* Where a worker is inside the handler.
LEMMA HandlerFacts ==
  ASSUME IInv, NEW w \in Workers, pc[w] \in HandlerPC
  PROVE  /\ rec[w] \in Receipts /\ idx[w] \in Nat /\ idx[w] >= 1
         /\ NumActions[rec[w]] \in Nat
         /\ \A j \in 1 .. idx[w] - 1 : Done(rec[w], j)
         /\ pc[w] \in {"run", "mark"} =>
              ActionAt(w) \in ReceiptActions /\ rec[w] \notin FailedReceipts
         /\ pc[w] = "mark" => ActionAt(w) \in applied
<1>1. Progress(w)
  BY DEF IInv, ProgressInv
<1>2. idx[w] \in Nat
  BY DEF IInv, TypeOK, WorkersTypeOK
<1>3. rec[w] \in Receipts /\ NumActions[rec[w]] \in Nat
  BY <1>1, ReceiptsAssumption DEF Progress
<1>4. QED
  BY <1>1, <1>2, <1>3, ActionPairs DEF Progress, ActionAt

\* A worker past the last action of its receipt has it done.
LEMMA DoneAtEnd ==
  ASSUME IInv, NEW w \in Workers, pc[w] \in HandlerPC, ~MoreActions(w)
  PROVE  ReceiptDone(rec[w])
<1>1. /\ idx[w] \in Nat /\ idx[w] >= 1 /\ NumActions[rec[w]] \in Nat
      /\ \A j \in 1 .. idx[w] - 1 : Done(rec[w], j)
  BY HandlerFacts
<1>2. idx[w] > NumActions[rec[w]]
  BY <1>1 DEF MoreActions
<1>3. QED
  BY <1>1, <1>2 DEF ReceiptDone

LEMMA SkipInv ==
  ASSUME IInv, NEW w \in Workers, SkipAction(w)
  PROVE  IInv'
<1>1. /\ pc[w] = "check" /\ pc[w] \in HandlerPC /\ Done(rec[w], idx[w])
      /\ idx' = [idx EXCEPT ![w] = idx[w] + 1]
      /\ UNCHANGED <<redis, errors, database, pc, rec, seen, consumerMem,
                     retryMem, bootMem, bounds>>
  BY DEF SkipAction, HandlerPC
<1>2. GoTo(w, pc[w])
  BY <1>1 DEF GoTo, IInv, TypeOK, WorkersTypeOK
<1>3. idx[w] + 1 \in Nat /\ idx'[w] = idx[w] + 1
  BY <1>1 DEF IInv, TypeOK, WorkersTypeOK
<1>4. UNCHANGED <<handled, applied, hStatus, hReceipt>>
  BY <1>1 DEF database
<1>5. Progress(w)'
  <2>1. /\ rec[w] \in Receipts /\ idx[w] \in Nat /\ idx[w] >= 1
        /\ \A j \in 1 .. idx[w] - 1 : Done(rec[w], j)
    BY <1>1, HandlerFacts
  <2>2. pc'[w] = "check" /\ rec'[w] = rec[w]
    BY <1>1
  <2>3. ASSUME NEW j \in 1 .. idx'[w] - 1 PROVE Done(rec[w], j)
    BY <1>1, <1>3, <2>1, <2>3
  <2>4. \A j \in 1 .. idx'[w] - 1 : Done(rec[w], j)'
    BY <1>4, <2>2, <2>3 DEF Done
  <2>5. QED
    BY <1>3, <2>1, <2>2, <2>4 DEF Progress
<1>6. MarkedAfterEffects' /\ AppliedInOrder'
  BY <1>4 DEF IInv, MarkedAfterEffects, AppliedInOrder
<1>7. handled' \subseteq ReceiptActions /\ applied' \subseteq ReceiptActions
  BY <1>4 DEF IInv, TypeOK, StoresTypeOK
<1>8. Grows /\ BoundsTypeOK'
  BY <1>1, QuietGrows, BoundsStay DEF IInv, TypeOK
<1>9. QED
  BY ONLY IInv, w \in Workers, <1>1, <1>2, <1>3, <1>4, <1>5, <1>6, <1>7, <1>8,
          HandlerStep

LEMMA StartInv ==
  ASSUME IInv, NEW w \in Workers, StartAction(w) \/ MissMarker(w)
  PROVE  IInv'
<1>1. /\ pc[w] \in HandlerPC /\ GoTo(w, "run") /\ "run" \in HandlerPC
      /\ idx[w] \in 1 .. NumActions[rec[w]] /\ rec[w] \notin FailedReceipts
      /\ UNCHANGED <<redis, errors, database, idx, rec, seen, consumerMem,
                     retryMem, bootMem>>
  BY DEF StartAction, MissMarker, MoreActions, Done, HandlerPC
<1>2. BoundsTypeOK'
  <2>1. CASE StartAction(w)
    BY <2>1, BoundsStay DEF StartAction, IInv, TypeOK
  <2>2. CASE MissMarker(w)
    BY <2>2, BoundsAssumption DEF MissMarker, IInv, TypeOK, BoundsTypeOK
  <2>3. QED
    BY <2>1, <2>2
<1>3. /\ idx[w] \in Nat /\ idx' = [idx EXCEPT ![w] = idx[w]]
      /\ pc'[w] = "run"
  BY <1>1 DEF GoTo, IInv, TypeOK, WorkersTypeOK
<1>4. UNCHANGED <<handled, applied, hStatus, hReceipt>>
  BY <1>1 DEF database
<1>5. Progress(w)'
  <2>1. /\ rec[w] \in Receipts /\ idx[w] >= 1
        /\ \A j \in 1 .. idx[w] - 1 : Done(rec[w], j)
    BY <1>1, HandlerFacts
  <2>2. \A j \in 1 .. idx[w] - 1 : Done(rec[w], j)'
    BY <1>1, <1>4, <2>1 DEF Done
  <2>3. QED
    BY <1>1, <1>3, <2>1, <2>2 DEF Progress
<1>6. MarkedAfterEffects' /\ AppliedInOrder'
  BY <1>4 DEF IInv, MarkedAfterEffects, AppliedInOrder
<1>7. handled' \subseteq ReceiptActions /\ applied' \subseteq ReceiptActions
  BY <1>4 DEF IInv, TypeOK, StoresTypeOK
<1>8. Grows
  BY <1>1, QuietGrows
<1>9. QED
  BY ONLY IInv, w \in Workers, <1>1, <1>2, <1>3, <1>4, <1>5, <1>6, <1>7, <1>8,
          HandlerStep

LEMMA RunInv ==
  ASSUME IInv, NEW w \in Workers, RunHandlers(w)
  PROVE  IInv'
<1>1. /\ pc[w] = "run" /\ pc[w] \in HandlerPC
      /\ GoTo(w, "mark") /\ "mark" \in HandlerPC
      /\ applied' = applied \cup {ActionAt(w)}
      /\ UNCHANGED <<redis, errors, handled, hStatus, hReceipt, idx, rec, seen,
                     consumerMem, retryMem, bootMem, bounds>>
  BY DEF RunHandlers, HandlerPC
<1>2. BoundsTypeOK'
  BY <1>1, BoundsStay DEF IInv, TypeOK
<1>3. /\ idx[w] \in Nat /\ idx' = [idx EXCEPT ![w] = idx[w]]
      /\ pc'[w] = "mark"
  BY <1>1 DEF GoTo, IInv, TypeOK, WorkersTypeOK
<1>4. /\ rec[w] \in Receipts /\ idx[w] >= 1
      /\ \A j \in 1 .. idx[w] - 1 : Done(rec[w], j)
      /\ ActionAt(w) \in ReceiptActions /\ rec[w] \notin FailedReceipts
  BY <1>1, HandlerFacts
<1>5. Progress(w)'
  <2>1. \A j \in 1 .. idx[w] - 1 : Done(rec[w], j)'
    BY <1>1, <1>4 DEF Done
  <2>2. idx[w] \in 1 .. NumActions[rec[w]]
    BY <1>4, ActionPairs DEF ActionAt
  <2>3. ActionAt(w)' \in applied'
    BY <1>1 DEF ActionAt
  <2>4. QED
    BY <1>1, <1>3, <1>4, <2>1, <2>2, <2>3 DEF Progress
<1>6. MarkedAfterEffects'
  BY <1>1 DEF IInv, MarkedAfterEffects
<1>7. AppliedInOrder'
  <2>1. \A j \in 1 .. idx[w] - 1 : <<rec[w], j>> \in handled
    BY <1>4 DEF Done
  <2>2. ActionAt(w)[1] = rec[w] /\ ActionAt(w)[2] = idx[w]
    BY DEF ActionAt
  <2>3. QED
    BY <1>1, <1>4, <2>1, <2>2 DEF IInv, AppliedInOrder
<1>8. handled' \subseteq ReceiptActions /\ applied' \subseteq ReceiptActions
  BY <1>1, <1>4 DEF IInv, TypeOK, StoresTypeOK
<1>9. Grows
  BY <1>1 DEF Grows, errors, ErrorIsOpen
<1>10. QED
  BY ONLY IInv, w \in Workers, <1>1, <1>2, <1>3, <1>5, <1>6, <1>7, <1>8, <1>9,
          HandlerStep

LEMMA MarkInv ==
  ASSUME IInv, NEW w \in Workers, SaveMarker(w)
  PROVE  IInv'
<1>1. /\ pc[w] = "mark" /\ pc[w] \in HandlerPC
      /\ GoTo(w, "check") /\ "check" \in HandlerPC
      /\ handled' = handled \cup {ActionAt(w)}
      /\ idx' = [idx EXCEPT ![w] = idx[w] + 1]
      /\ UNCHANGED <<redis, errors, applied, hStatus, hReceipt, rec, seen,
                     consumerMem, retryMem, bootMem, bounds>>
  BY DEF SaveMarker, HandlerPC
<1>2. BoundsTypeOK'
  BY <1>1, BoundsStay DEF IInv, TypeOK
<1>3. /\ idx[w] + 1 \in Nat /\ idx'[w] = idx[w] + 1
      /\ pc'[w] = "check"
  BY <1>1 DEF GoTo, IInv, TypeOK, WorkersTypeOK
<1>4. /\ rec[w] \in Receipts /\ idx[w] \in Nat /\ idx[w] >= 1
      /\ \A j \in 1 .. idx[w] - 1 : Done(rec[w], j)
      /\ ActionAt(w) \in ReceiptActions /\ ActionAt(w) \in applied
  BY <1>1, HandlerFacts
<1>5. Progress(w)'
  <2>1. /\ handled \subseteq handled' /\ <<rec[w], idx[w]>> \in handled'
        /\ rec' = rec
    BY <1>1 DEF ActionAt
  <2>2. ASSUME NEW j \in 1 .. idx[w] PROVE Done(rec[w], j)'
    <3>1. CASE j = idx[w]
      BY <2>1, <3>1 DEF Done
    <3>2. CASE j # idx[w]
      <4>1. j \in 1 .. idx[w] - 1
        BY <1>4, <3>2
      <4>2. QED
        BY <1>4, <2>1, <4>1 DEF Done
    <3>3. QED
      BY <3>1, <3>2
  <2>3. 1 .. idx'[w] - 1 = 1 .. idx[w]
    BY <1>3, <1>4
  <2>4. QED
    BY <1>3, <1>4, <2>1, <2>2, <2>3 DEF Progress
<1>6. MarkedAfterEffects'
  BY <1>1, <1>4 DEF IInv, MarkedAfterEffects
<1>7. AppliedInOrder'
  BY <1>1 DEF IInv, AppliedInOrder
<1>8. handled' \subseteq ReceiptActions /\ applied' \subseteq ReceiptActions
  BY <1>1, <1>4 DEF IInv, TypeOK, StoresTypeOK
<1>9. Grows
  BY <1>1 DEF Grows, errors, ErrorIsOpen
<1>10. QED
  BY ONLY IInv, w \in Workers, <1>1, <1>2, <1>3, <1>5, <1>6, <1>7, <1>8, <1>9,
          HandlerStep

-----------------------------------------------------------------------------
(* The steps of the consumer outside the handler                           *)

\* The worker itself moves, and drops its receipt or keeps it.
LEMMA MoveFacts ==
  ASSUME IInv, NEW w \in Workers, NEW l \in LabelsOf(w), GoTo(w, l),
         \/ UNCHANGED <<rec, idx, seen>>
         \/ UNCHANGED <<rec, idx>> /\ seen' \in [Workers -> SUBSET ReceiptActions]
         \/ DropReceipt(w)
  PROVE  /\ WorkersTypeOK'
         /\ pc'[w] = l
         /\ \A v \in Workers \ {w} :
              pc'[v] = pc[v] /\ rec'[v] = rec[v] /\ idx'[v] = idx[v]
<1>1. WorkersTypeOK
  BY DEF IInv, TypeOK
<1>2. /\ rec' \in [Workers -> Receipts \cup {None}]
      /\ idx' \in [Workers -> Nat]
      /\ seen' \in [Workers -> SUBSET ReceiptActions]
  BY <1>1, TypeDrop DEF WorkersTypeOK
<1>3. WorkersTypeOK'
  BY <1>1, <1>2, TypePC
<1>4. QED
  BY <1>1, <1>3 DEF WorkersTypeOK, GoTo, DropReceipt

LEMMA ConsumerMoves ==
  ASSUME IInv, NEW l \in ConsumerPC, GoTo(Consumer, l),
         \/ UNCHANGED <<rec, idx, seen>>
         \/ UNCHANGED <<rec, idx>> /\ seen' \in [Workers -> SUBSET ReceiptActions]
         \/ DropReceipt(Consumer),
         errOf' = errOf, Grows,
         StoresTypeOK', MemoryTypeOK', BoundsTypeOK',
         EntryInv', RecordInv', DataInv'
  PROVE  IInv'
<1>1. Consumer \in Workers /\ Consumer \notin Retriers
  BY WorkersAssumption DEF Workers
<1>2. l \in LabelsOf(Consumer)
  BY DEF LabelsOf
<1>3. WorkersTypeOK' /\ pc'[Consumer] = l /\ Local(Consumer)
  BY <1>1, <1>2, MoveFacts DEF Local
<1>4. Progress(Consumer)'
  BY <1>3 DEF Progress, HandlerPC, ConsumerPC
<1>5. TypeOK'
  BY <1>3 DEF TypeOK
<1>6. QED
  BY <1>1, <1>3, <1>4, <1>5, WorkerStep

\* Changes of the errors: nothing open is closed unless its receipt is done,
\* and nothing else is resolved.
LEMMA ErrorsStay ==
  ASSUME StoresTypeOK, DataInv, Grows, UNCHANGED <<redis, database>>,
         \A e \in ReceiptActions :
           "Resolved" \in {dynErr'[e], sqlErr'[e]} =>
             "Resolved" \in {dynErr[e], sqlErr[e]} \/ ReceiptDone(e[1])
  PROVE  DataInv'
<1>1. UNCHANGED <<published, stream, handled, applied, hStatus, hReceipt>>
  BY DEF redis, database
<1>2. \A r \in Receipts : /\ ReceiptDone(r) => ReceiptDone(r)'
                          /\ Settled(r) => Settled(r)'
  BY SettledStays DEF Grows
<1>3. NoReceiptLost'
  BY <1>1, <1>2, StreamTypes DEF DataInv, NoReceiptLost
<1>4. ResolvedMeansDone'
  BY <1>1, <1>2, ActionPairs DEF DataInv, ResolvedMeansDone
<1>5. HandlerStateTruthful'
  BY <1>1, <1>2 DEF DataInv, HandlerStateTruthful, StoresTypeOK
<1>6. QED
  BY <1>1, <1>3, <1>4, <1>5 DEF DataInv, MarkedAfterEffects, AppliedInOrder

\* The receipt of a busy consumer, and what the invariant says of it.
LEMMA ConsumerFacts ==
  ASSUME IInv, ConsumerBusy
  PROVE  /\ cur \in stream /\ cur \in 1 .. published
         /\ rec[Consumer] = ReceiptOf[cur] /\ hReceipt = rec[Consumer]
         /\ rec[Consumer] \in Receipts
  BY StreamTypes DEF IInv, EntryInv, TypeOK

LEMMA PublishInv ==
  ASSUME IInv, Publish
  PROVE  IInv'
<1>1. /\ published < NumEntries
      /\ published' = published + 1 /\ stream' = stream \cup {published + 1}
      /\ UNCHANGED <<dynErr, openIds, sqlErr, handled, applied, hStatus,
                     hReceipt, pc, rec, idx, seen, batch, cur, errOf,
                     attempts, booted, resume, faults, outages, crashes,
                     callbacks>>
  BY DEF Publish, errors, database, consumerMem, retryMem, bootMem, bounds
<1>2. published \in Nat /\ published' \in 0 .. NumEntries
  BY <1>1, StreamAssumption DEF IInv, TypeOK, StoresTypeOK
<1>3. 1 .. published' = (1 .. published) \cup {published + 1}
  BY <1>1, <1>2
<1>4. StoresTypeOK'
  BY <1>1, <1>2, <1>3 DEF IInv, TypeOK, StoresTypeOK
<1>5. WorkersTypeOK' /\ BoundsTypeOK'
  BY <1>1 DEF IInv, TypeOK, WorkersTypeOK, LabelsOf, BoundsTypeOK
<1>6. MemoryTypeOK'
  <2>1. batch \subseteq 1 .. published /\ cur \in 0 .. published
    BY DEF IInv, TypeOK, MemoryTypeOK
  <2>2. batch' \subseteq 1 .. published' /\ cur' \in 0 .. published'
    BY <1>1, <1>2, <1>3, <2>1
  <2>3. QED
    BY <1>1, <2>2 DEF IInv, TypeOK, MemoryTypeOK
<1>7. \A r : /\ Settled(r)' = Settled(r) /\ ReceiptDone(r)' = ReceiptDone(r)
             /\ \A i : Done(r, i)' = Done(r, i)
  BY <1>1 DEF Settled, ReceiptDone, Done, ErrorIsOpen
<1>8. NoReceiptLost'
  BY <1>1, <1>3, <1>7 DEF IInv, NoReceiptLost
<1>9. MarkedAfterEffects' /\ AppliedInOrder' /\ ResolvedMeansDone' /\ HandlerStateTruthful'
  BY <1>1, <1>7
  DEF IInv, MarkedAfterEffects, AppliedInOrder, ResolvedMeansDone,
      HandlerStateTruthful
<1>10. EntryInv'
  BY <1>1 DEF IInv, EntryInv, ConsumerBusy
<1>11. Grows
  BY <1>1 DEF Grows, ErrorIsOpen
<1>12. ProgressInv'
  BY <1>1, <1>11, ProgressStays DEF IInv, ProgressInv, Workers
<1>13. RecordInv'
  BY <1>1, <1>11, RecordStays
<1>14. RetryInv'
  BY <1>1, <1>11, RetryStays DEF IInv, RetryInv, Workers
<1>15. QED
  BY <1>4, <1>5, <1>6, <1>8, <1>9, <1>10, <1>12, <1>13, <1>14 DEF IInv, TypeOK

LEMMA PollInv ==
  ASSUME IInv, Poll
  PROVE  IInv'
<1>1. /\ GoTo(Consumer, "begin") /\ "begin" \in ConsumerPC
      /\ \E n \in BatchSizes : batch' = FirstEntries(n)
      /\ UNCHANGED <<redis, errors, database, rec, idx, seen, cur, retryMem,
                     bootMem, bounds>>
  BY DEF Poll, ConsumerPC
<1>2. batch' \subseteq stream
  BY <1>1 DEF FirstEntries
<1>3. Grows /\ StoresTypeOK' /\ DataInv' /\ BoundsTypeOK'
  BY <1>1, QuietGrows, QuietTypes, QuietData, BoundsStay
  DEF IInv, TypeOK, DataInv
<1>4. MemoryTypeOK'
  BY <1>1, <1>2 DEF IInv, TypeOK, StoresTypeOK, MemoryTypeOK, redis, retryMem, bootMem
<1>5. pc'[Consumer] = "begin"
  BY <1>1 DEF GoTo, IInv, TypeOK, WorkersTypeOK, Workers
<1>6. EntryInv' /\ RecordInv'
  BY <1>1, <1>2, <1>5 DEF EntryInv, RecordInv, ConsumerBusy, redis
<1>7. QED
  BY <1>1, <1>3, <1>4, <1>6, ConsumerMoves DEF retryMem

LEMMA BeginInv ==
  ASSUME IInv, BeginReceipt
  PROVE  IInv'
<1>1. PICK k \in batch :
        /\ cur' = k /\ StartReceipt(Consumer, ReceiptOf[k])
        /\ hReceipt' = ReceiptOf[k]
  BY DEF BeginReceipt
<1>2. /\ pc[Consumer] = "begin" /\ hStatus' = "InProgress"
      /\ GoTo(Consumer, "check")
      /\ UNCHANGED <<published, stream, dynErr, openIds, sqlErr, handled,
                     applied, seen, batch, errOf, attempts, booted, resume,
                     bounds>>
  BY DEF BeginReceipt, redis, errors, retryMem, bootMem
<1>3. /\ Consumer \in Workers /\ Consumer \notin Retriers
      /\ "check" \in LabelsOf(Consumer)
  BY WorkersAssumption DEF Workers, LabelsOf, HandlerPC
<1>4. k \in stream /\ k \in 1 .. published /\ ReceiptOf[k] \in Receipts
  BY StreamTypes DEF IInv, EntryInv, TypeOK
<1>5. WorkersTypeOK /\ StoresTypeOK /\ MemoryTypeOK /\ BoundsTypeOK
  BY DEF IInv, TypeOK
<1>6. /\ rec' \in [Workers -> Receipts \cup {None}]
      /\ idx' \in [Workers -> Nat]
      /\ seen' \in [Workers -> SUBSET ReceiptActions]
  BY <1>1, <1>2, <1>3, <1>4, <1>5, TypeStart DEF WorkersTypeOK
<1>7. WorkersTypeOK'
  BY <1>2, <1>3, <1>5, <1>6, TypePC
<1>8. StoresTypeOK'
  BY <1>1, <1>2, <1>4, <1>5 DEF StoresTypeOK
<1>9. MemoryTypeOK'
  <2>1. cur' \in 0 .. published'
    BY <1>1, <1>2, <1>4
  <2>2. QED
    BY <1>2, <1>5, <2>1 DEF MemoryTypeOK
<1>10. TypeOK'
  BY <1>2, <1>5, <1>7, <1>8, <1>9, BoundsStay DEF TypeOK
<1>11. /\ pc'[Consumer] = "check" /\ rec'[Consumer] = ReceiptOf[k]
       /\ idx'[Consumer] = 1
       /\ Local(Consumer)
  BY <1>1, <1>2, <1>3, <1>5 DEF GoTo, StartReceipt, WorkersTypeOK, Local
<1>12. Grows
  BY <1>2 DEF Grows, ErrorIsOpen
<1>13. Progress(Consumer)'
  BY <1>4, <1>11 DEF Progress, HandlerPC
<1>14. EntryInv' /\ RecordInv'
  BY <1>1, <1>2, <1>4, <1>11 DEF EntryInv, RecordInv, ConsumerBusy, IInv
<1>15. DataInv'
  <2>1. \A r : Settled(r)' = Settled(r) /\ ReceiptDone(r)' = ReceiptDone(r)
    BY <1>2 DEF Settled, ReceiptDone, Done, ErrorIsOpen
  <2>2. QED
    BY <1>2, <2>1
    DEF IInv, DataInv, NoReceiptLost, MarkedAfterEffects, AppliedInOrder,
        ResolvedMeansDone, HandlerStateTruthful
<1>16. QED
  BY <1>3, <1>10, <1>11, <1>12, <1>13, <1>14, <1>15, WorkerStep

\* The state the handler saves at the end of a receipt.
LEMMA StatusInv ==
  ASSUME IInv, ConsumerBusy, NEW s \in {"Success", "Failed"}, hStatus' = s,
         s = "Success" => ReceiptDone(rec[Consumer]),
         Settled(rec[Consumer]), GoTo(Consumer, "xdel"),
         UNCHANGED <<redis, errors, handled, applied, hReceipt, rec, idx, seen,
                     consumerMem, retryMem, bootMem, bounds>>
  PROVE  IInv'
<1>1. UNCHANGED <<published, stream, dynErr, openIds, sqlErr, batch, cur, errOf>>
  BY DEF redis, errors, consumerMem, retryMem
<1>2. "xdel" \in ConsumerPC
  BY DEF ConsumerPC
<1>3. Grows
  BY <1>1 DEF Grows, ErrorIsOpen
<1>4. StoresTypeOK' /\ MemoryTypeOK' /\ BoundsTypeOK'
  <2>1. hReceipt \in Receipts
    BY ConsumerFacts
  <2>2. StoresTypeOK'
    BY <1>1, <2>1 DEF IInv, TypeOK, StoresTypeOK
  <2>3. QED
    BY <1>1, <2>2, MemoryStays, BoundsStay DEF IInv, TypeOK
<1>5. \A r : Settled(r)' = Settled(r) /\ ReceiptDone(r)' = ReceiptDone(r)
  BY <1>1 DEF Settled, ReceiptDone, Done, ErrorIsOpen
<1>6. DataInv'
  BY <1>1, <1>5, ConsumerFacts
  DEF IInv, DataInv, NoReceiptLost, MarkedAfterEffects, AppliedInOrder,
      ResolvedMeansDone, HandlerStateTruthful
<1>7. pc'[Consumer] = "xdel"
  BY DEF GoTo, IInv, TypeOK, WorkersTypeOK, Workers
<1>8. RecordInv'
  BY <1>5, <1>7 DEF RecordInv
<1>9. EntryInv'
  BY <1>1, EntryStays DEF IInv
<1>10. QED
  BY <1>1, <1>2, <1>3, <1>4, <1>6, <1>8, <1>9, ConsumerMoves

LEMMA FinishInv ==
  ASSUME IInv, FinishReceipt
  PROVE  IInv'
<1>1. pc[Consumer] = "check" /\ pc[Consumer] \in HandlerPC /\ ConsumerBusy
  BY DEF FinishReceipt, ConsumerBusy, HandlerPC
<1>2. ReceiptDone(rec[Consumer])
  BY <1>1, DoneAtEnd DEF FinishReceipt, Workers
<1>3. QED
  BY <1>1, <1>2, StatusInv DEF FinishReceipt, Settled

LEMMA FailedStateInv ==
  ASSUME IInv, SaveFailedState
  PROVE  IInv'
  BY StatusInv DEF SaveFailedState, IInv, RecordInv, ConsumerBusy

LEMMA DeleteInv ==
  ASSUME IInv, DeleteEntry
  PROVE  IInv'
<1> DEFINE l == IF batch' = {} THEN "poll" ELSE "begin"
<1>1. /\ pc[Consumer] = "xdel" /\ ConsumerBusy
      /\ stream' = stream \ {cur} /\ batch' = batch \ {cur} /\ cur' = 0
      /\ GoTo(Consumer, l) /\ l \in {"poll", "begin"} /\ l \in ConsumerPC
      /\ DropReceipt(Consumer)
      /\ UNCHANGED <<published, dynErr, openIds, sqlErr, handled, applied,
                     hStatus, hReceipt, errOf, attempts, booted, resume, bounds>>
  BY DEF DeleteEntry, ConsumerBusy, ConsumerPC, errors, database, retryMem,
         bootMem
<1>2. StoresTypeOK' /\ MemoryTypeOK' /\ BoundsTypeOK'
  <2>1. published \in Nat
    BY StreamAssumption DEF IInv, TypeOK, StoresTypeOK
  <2>2. StoresTypeOK'
    BY <1>1 DEF IInv, TypeOK, StoresTypeOK
  <2>3. 0 \in 0 .. published'
    BY <1>1, <2>1
  <2>4. MemoryTypeOK'
    BY <1>1, <2>3 DEF IInv, TypeOK, MemoryTypeOK
  <2>5. QED
    BY <1>1, <2>2, <2>4, BoundsStay DEF IInv, TypeOK
<1>3. \A r : Settled(r)' = Settled(r) /\ ReceiptDone(r)' = ReceiptDone(r)
  BY <1>1 DEF Settled, ReceiptDone, Done, ErrorIsOpen
<1>4. Settled(ReceiptOf[cur])
  BY <1>1, ConsumerFacts DEF IInv, RecordInv
<1>5. NoReceiptLost'
  BY <1>1, <1>3, <1>4 DEF IInv, NoReceiptLost
<1>6. DataInv'
  BY <1>1, <1>3, <1>5
  DEF IInv, DataInv, MarkedAfterEffects, AppliedInOrder, ResolvedMeansDone,
      HandlerStateTruthful
<1>7. pc'[Consumer] = l
  BY <1>1 DEF GoTo, IInv, TypeOK, WorkersTypeOK, Workers
<1>8. EntryInv' /\ RecordInv'
  BY <1>1, <1>7 DEF IInv, EntryInv, RecordInv, ConsumerBusy
<1>9. Grows
  BY <1>1 DEF Grows, ErrorIsOpen
<1> HIDE DEF l
<1>10. QED
  BY <1>1, <1>2, <1>6, <1>8, <1>9, ConsumerMoves

LEMMA CatchInv ==
  ASSUME IInv, ConsumerCatches
  PROVE  IInv'
<1>1. /\ pc[Consumer] \in HandlerPC /\ ConsumerBusy
      /\ pc[Consumer] \in {"run", "mark"} \/ MoreActions(Consumer)
      /\ GoTo(Consumer, "errSave") /\ "errSave" \in ConsumerPC
      /\ faults < MaxFaults /\ faults' = faults + 1
      /\ UNCHANGED <<redis, errors, database, rec, idx, seen, consumerMem,
                     retryMem, bootMem, outages, crashes, callbacks>>
  BY DEF ConsumerCatches, ActionThrows, ConsumerPC, HandlerPC, ConsumerBusy
<1>2. ActionAt(Consumer) \in ReceiptActions
  <2>1. Consumer \in Workers
    BY DEF Workers
  <2>2. CASE MoreActions(Consumer)
    BY <1>1, <2>1, <2>2, HandlerFacts, ActionPairs DEF MoreActions, ActionAt
  <2>3. CASE pc[Consumer] \in {"run", "mark"}
    BY <1>1, <2>1, <2>3, HandlerFacts
  <2>4. QED
    BY <1>1, <2>2, <2>3
<1>3. Grows /\ StoresTypeOK' /\ DataInv' /\ MemoryTypeOK'
  BY <1>1, QuietGrows, QuietTypes, QuietData, MemoryStays
  DEF IInv, TypeOK, DataInv, redis
<1>4. BoundsTypeOK'
  BY <1>1, BoundsAssumption DEF IInv, TypeOK, BoundsTypeOK
<1>5. pc'[Consumer] = "errSave"
  BY <1>1 DEF GoTo, IInv, TypeOK, WorkersTypeOK, Workers
<1>6. EntryInv'
  BY <1>1, EntryStays DEF IInv, redis, consumerMem, database
<1>7. RecordInv'
  BY <1>1, <1>2, <1>5 DEF RecordInv, ActionAt
<1>8. QED
  BY <1>1, <1>3, <1>4, <1>6, <1>7, ConsumerMoves DEF retryMem

LEMMA SaveDynamoInv ==
  ASSUME IInv, SaveDynamoError
  PROVE  IInv'
<1> DEFINE e == ActionAt(Consumer)
<1>1. /\ pc[Consumer] = "errSave" /\ ConsumerBusy /\ e \in ReceiptActions
      /\ GoTo(Consumer, "errRead") /\ "errRead" \in ConsumerPC
      /\ dynErr' = [dynErr EXCEPT ![e] = "Open"]
      /\ UNCHANGED <<redis, openIds, sqlErr, database, rec, idx, seen,
                     consumerMem, retryMem, bootMem, bounds>>
  BY DEF SaveDynamoError, IInv, RecordInv, ConsumerPC, ConsumerBusy
<1>2. dynErr \in [ReceiptActions -> ErrorStatus]
  BY DEF IInv, TypeOK, StoresTypeOK
<1> HIDE DEF e
<1>3. \A x \in ReceiptActions : dynErr'[x] = IF x = e THEN "Open" ELSE dynErr[x]
  BY <1>1, <1>2
<1>4. dynErr' \in [ReceiptActions -> ErrorStatus]
  BY <1>1, <1>2 DEF ErrorStatus
<1>5. Grows
  BY <1>1, <1>3 DEF Grows, database, ErrorIsOpen
<1>6. StoresTypeOK'
  BY <1>1, <1>4 DEF IInv, TypeOK, StoresTypeOK, redis, database
<1>7. DataInv'
  BY <1>1, <1>3, <1>5, ErrorsStay DEF IInv, TypeOK, DataInv
<1>8. MemoryTypeOK' /\ BoundsTypeOK'
  BY <1>1, MemoryStays, BoundsStay DEF IInv, TypeOK, redis
<1>9. pc'[Consumer] = "errRead"
  BY <1>1 DEF GoTo, IInv, TypeOK, WorkersTypeOK, Workers
<1>10. EntryInv'
  BY <1>1, EntryStays DEF IInv, redis, consumerMem, database
<1>11. ActionAt(Consumer)' = e
  BY <1>1 DEF ActionAt, e
<1>12. RecordInv'
  BY <1>1, <1>3, <1>9, <1>11 DEF RecordInv
<1>13. QED
  BY <1>1, <1>5, <1>6, <1>7, <1>8, <1>10, <1>12, ConsumerMoves DEF retryMem

LEMMA ReadToAddInv ==
  ASSUME IInv, ReadToAddOpenId
  PROVE  IInv'
<1>1. /\ pc[Consumer] = "errRead" /\ ConsumerBusy
      /\ GoTo(Consumer, "errSql") \/ GoTo(Consumer, "errWrite")
      /\ UNCHANGED <<redis, errors, database, rec, idx, consumerMem, retryMem,
                     bootMem, bounds>>
  BY DEF ReadToAddOpenId, ConsumerBusy
<1>2. PICK l \in {"errSql", "errWrite"} : GoTo(Consumer, l)
  BY <1>1
<1>3. l \in ConsumerPC
  BY DEF ConsumerPC
<1>4. seen' \in [Workers -> SUBSET ReceiptActions]
  BY DEF ReadToAddOpenId, IInv, TypeOK, StoresTypeOK, WorkersTypeOK
<1>5. Grows /\ StoresTypeOK' /\ DataInv' /\ MemoryTypeOK' /\ BoundsTypeOK'
  BY <1>1, QuietGrows, QuietTypes, QuietData, MemoryStays, BoundsStay
  DEF IInv, TypeOK, DataInv, redis
<1>6. pc'[Consumer] = l
  BY <1>2 DEF GoTo, IInv, TypeOK, WorkersTypeOK, Workers
<1>7. EntryInv'
  BY <1>1, EntryStays DEF IInv, redis, consumerMem, database
<1>8. RecordInv'
  BY <1>1, <1>6 DEF IInv, RecordInv, ActionAt, errors
<1>9. QED
  BY <1>1, <1>2, <1>3, <1>4, <1>5, <1>7, <1>8, ConsumerMoves DEF retryMem

LEMMA WriteAddedInv ==
  ASSUME IInv, WriteAddedOpenId
  PROVE  IInv'
<1>1. /\ pc[Consumer] = "errWrite" /\ ConsumerBusy
      /\ ActionAt(Consumer) \in ReceiptActions
      /\ openIds' = seen[Consumer] \cup {ActionAt(Consumer)}
      /\ GoTo(Consumer, "errSql") /\ "errSql" \in ConsumerPC
      /\ UNCHANGED <<redis, dynErr, sqlErr, database, rec, idx, seen,
                     consumerMem, retryMem, bootMem, bounds>>
  BY DEF WriteAddedOpenId, IInv, RecordInv, ConsumerPC, ConsumerBusy
<1>2. seen \in [Workers -> SUBSET ReceiptActions] /\ Consumer \in Workers
  BY DEF IInv, TypeOK, WorkersTypeOK, Workers
<1>3. Grows
  BY <1>1 DEF Grows, database, ErrorIsOpen
<1>4. openIds' \subseteq ReceiptActions
  BY <1>1, <1>2
<1>5. StoresTypeOK'
  BY <1>1, <1>4 DEF IInv, TypeOK, StoresTypeOK, redis, database
<1>6. DataInv'
  BY <1>1, <1>3, ErrorsStay DEF IInv, TypeOK, DataInv
<1>7. MemoryTypeOK' /\ BoundsTypeOK'
  BY <1>1, MemoryStays, BoundsStay DEF IInv, TypeOK, redis
<1>8. pc'[Consumer] = "errSql"
  BY <1>1, <1>2 DEF GoTo, IInv, TypeOK, WorkersTypeOK
<1>9. EntryInv'
  BY <1>1, EntryStays DEF IInv, redis, consumerMem, database
<1>10. RecordInv'
  BY <1>1, <1>8 DEF IInv, RecordInv, ActionAt
<1>11. QED
  BY <1>1, <1>2, <1>3, <1>5, <1>6, <1>7, <1>9, <1>10, ConsumerMoves DEF retryMem

LEMMA DiesInv ==
  ASSUME IInv, ConsumerDies
  PROVE  IInv'
<1>1. /\ GoTo(Consumer, "dead") /\ "dead" \in ConsumerPC
      /\ DropReceipt(Consumer) /\ batch' = {} /\ cur' = 0
      /\ outages < MaxOutages /\ outages' = outages + 1
      /\ UNCHANGED <<redis, errors, database, retryMem, bootMem, faults,
                     crashes, callbacks>>
  BY DEF ConsumerDies, ConsumerPC
<1>2. Grows /\ StoresTypeOK' /\ DataInv'
  BY <1>1, QuietGrows, QuietTypes, QuietData DEF IInv, TypeOK, DataInv
<1>3. BoundsTypeOK'
  BY <1>1, BoundsAssumption DEF IInv, TypeOK, BoundsTypeOK
<1>4. MemoryTypeOK'
  <2>1. 0 \in 0 .. published'
    BY <1>1, StreamAssumption DEF IInv, TypeOK, StoresTypeOK, redis
  <2>2. QED
    BY <1>1, <2>1 DEF IInv, TypeOK, MemoryTypeOK, retryMem, bootMem
<1>5. pc'[Consumer] = "dead"
  BY <1>1 DEF GoTo, IInv, TypeOK, WorkersTypeOK, Workers
<1>6. EntryInv' /\ RecordInv'
  BY <1>1, <1>5 DEF EntryInv, RecordInv, ConsumerBusy
<1>7. QED
  BY <1>1, <1>2, <1>3, <1>4, <1>6, ConsumerMoves DEF retryMem

\* Two workers move here: the consumer, and the retrier it starts.
LEMMA SaveSqlInv ==
  ASSUME IInv, SaveSqlError
  PROVE  IInv'
<1>0. PICK e \in ReceiptActions : e = ActionAt(Consumer)
  BY DEF SaveSqlError, IInv, RecordInv
<1>1. PICK w \in Retriers :
        /\ pc[w] = "off"
        /\ pc' = [pc EXCEPT ![Consumer] = "failState", ![w] = "get"]
        /\ errOf' = [errOf EXCEPT ![w] = e]
  BY <1>0 DEF SaveSqlError
<1>2. /\ pc[Consumer] = "errSql" /\ ConsumerBusy
      /\ dynErr[e] # "none"
      /\ sqlErr' = [sqlErr EXCEPT ![e] =
                      IF sqlErr[e] = "none" THEN "Open" ELSE sqlErr[e]]
      /\ UNCHANGED <<redis, dynErr, openIds, database, rec, idx, seen,
                     consumerMem, attempts, bootMem, bounds>>
  BY <1>0 DEF SaveSqlError, StatusSaved, IInv, RecordInv, ConsumerBusy
<1>3. /\ sqlErr \in [ReceiptActions -> ErrorStatus]
      /\ dynErr \in [ReceiptActions -> ErrorStatus]
      /\ Consumer \in Workers /\ Consumer \notin Retriers /\ w \in Workers
  BY WorkersAssumption DEF IInv, TypeOK, StoresTypeOK, Workers
<1>4. e = <<rec[Consumer], idx[Consumer]>> /\ e[1] = rec[Consumer]
  BY <1>0 DEF ActionAt
<1>5. /\ \A x \in ReceiptActions \ {e} : sqlErr'[x] = sqlErr[x]
      /\ sqlErr'[e] = IF sqlErr[e] = "none" THEN "Open" ELSE sqlErr[e]
      /\ sqlErr' \in [ReceiptActions -> ErrorStatus]
  BY <1>2, <1>3 DEF ErrorStatus
<1>6. Grows
  BY <1>2, <1>5 DEF Grows, database, ErrorIsOpen
<1>7. /\ pc'[Consumer] = "failState" /\ pc'[w] = "get"
      /\ \A v \in Workers \ {Consumer, w} : pc'[v] = pc[v]
      /\ \A v \in Retriers \ {w} : errOf'[v] = errOf[v]
      /\ errOf'[w] = e
  BY <1>1, <1>3 DEF IInv, TypeOK, WorkersTypeOK, MemoryTypeOK
<1>8. StoresTypeOK' /\ BoundsTypeOK'
  BY <1>2, <1>5, BoundsStay DEF IInv, TypeOK, StoresTypeOK, redis, database
<1>9. WorkersTypeOK'
  <2>1. /\ pc' \in [Workers -> ConsumerPC \cup HandlerPC \cup RetrierPC \cup {"off"}]
    BY <1>1, <1>3 DEF IInv, TypeOK, WorkersTypeOK, ConsumerPC, RetrierPC
  <2>2. "failState" \in LabelsOf(Consumer) /\ "get" \in LabelsOf(w)
    BY <1>3 DEF LabelsOf, ConsumerPC, RetrierPC
  <2>3. \A v \in Workers : pc'[v] \in LabelsOf(v)
    BY <1>7, <2>2 DEF IInv, TypeOK, WorkersTypeOK
  <2>4. QED
    BY <1>2, <2>1, <2>3 DEF IInv, TypeOK, WorkersTypeOK, LabelsOf
<1>10. MemoryTypeOK'
  BY <1>1, <1>2 DEF IInv, TypeOK, MemoryTypeOK, redis, consumerMem, bootMem
<1>11. DataInv'
  BY <1>2, <1>5, <1>6, ErrorsStay DEF IInv, TypeOK, DataInv
<1>12. EntryInv'
  BY <1>2, EntryStays DEF IInv, redis, consumerMem, database
<1>13. Settled(rec[Consumer])'
  <2>1. rec'[Consumer] = rec[Consumer] /\ dynErr' = dynErr
        /\ handled' = handled
    BY <1>2 DEF database
  <2>2. ErrorIsOpen(e)' \/ "Resolved" \in {dynErr[e], sqlErr[e]}
    BY <1>2, <1>3, <1>5, <2>1 DEF ErrorIsOpen, ErrorStatus
  <2>3. CASE ErrorIsOpen(e)'
    <3>1. idx[Consumer] \in 1 .. NumActions[rec[Consumer]]
      BY <1>4, ActionPairs
    <3>2. QED
      BY <1>4, <2>1, <2>3, <3>1 DEF Settled
  <2>4. CASE "Resolved" \in {dynErr[e], sqlErr[e]}
    <3>1. ReceiptDone(rec[Consumer])
      BY <1>2, <1>4, <2>4 DEF IInv, ResolvedMeansDone
    <3>2. QED
      BY <2>1, <3>1 DEF Settled, ReceiptDone, Done
  <2>5. QED
    BY <2>2, <2>3, <2>4
<1>14. RecordInv'
  BY <1>7, <1>13 DEF RecordInv
<1>15. ProgressInv'
  <2>1. Progress(Consumer)' /\ Progress(w)'
    BY <1>7 DEF Progress, HandlerPC
  <2>2. ASSUME NEW v \in Workers \ {Consumer, w} PROVE Progress(v)'
    BY <1>2, <1>6, <1>7, ProgressStays DEF IInv, ProgressInv
  <2>3. QED
    BY <2>1, <2>2 DEF ProgressInv, Workers
<1>16. RetryInv'
  <2>1. Retry(w)'
    BY <1>2, <1>7 DEF Retry, HandlerPC
  <2>2. ASSUME NEW v \in Retriers \ {w} PROVE Retry(v)'
    <3>1. v \in Workers \ {Consumer, w}
      BY <1>3 DEF Workers
    <3>2. QED
      BY <1>2, <1>6, <1>7, <3>1, RetryStays DEF IInv, RetryInv
  <2>3. QED
    BY <2>1, <2>2 DEF RetryInv
<1>17. QED
  BY <1>8, <1>9, <1>10, <1>11, <1>12, <1>14, <1>15, <1>16
  DEF IInv, TypeOK, DataInv

-----------------------------------------------------------------------------
(* The steps of the background resolution                                  *)

\* What is left to check of a step of a retrier or a callback that leaves
\* the stream and the consumer alone.
LEMMA OtherMoves ==
  ASSUME IInv, NEW w \in Retriers \cup Wallets, NEW l \in LabelsOf(w),
         GoTo(w, l),
         \/ UNCHANGED <<rec, idx, seen>>
         \/ UNCHANGED <<rec, idx>> /\ seen' \in [Workers -> SUBSET ReceiptActions]
         \/ DropReceipt(w),
         \A v \in Retriers \ {w} : errOf'[v] = errOf[v],
         UNCHANGED <<stream, consumerMem, hReceipt>>,
         Grows, StoresTypeOK', MemoryTypeOK', BoundsTypeOK', DataInv',
         Progress(w)', w \in Retriers => Retry(w)'
  PROVE  IInv'
<1>1. w \in Workers /\ w # Consumer /\ Consumer \in Workers \ {w}
  BY WorkersAssumption DEF Workers
<1>2. WorkersTypeOK' /\ Local(w)
  BY <1>1, MoveFacts DEF Local
<1>3. EntryInv'
  BY <1>1, <1>2, EntryStays DEF IInv, Local, consumerMem
<1>4. RecordInv'
  BY <1>1, <1>2, RecordStays DEF Local
<1>5. TypeOK'
  BY <1>2 DEF TypeOK
<1>6. QED
  BY <1>1, <1>2, <1>3, <1>4, <1>5, WorkerStep

LEMMA QuietMoves ==
  ASSUME IInv, NEW w \in Retriers \cup Wallets, NEW l \in LabelsOf(w),
         GoTo(w, l),
         \/ UNCHANGED <<rec, idx, seen>>
         \/ UNCHANGED <<rec, idx>> /\ seen' \in [Workers -> SUBSET ReceiptActions]
         \/ DropReceipt(w),
         \A v \in Retriers \ {w} : errOf'[v] = errOf[v],
         UNCHANGED <<redis, errors, database, consumerMem>>,
         MemoryTypeOK', BoundsTypeOK',
         Progress(w)', w \in Retriers => Retry(w)'
  PROVE  IInv'
<1>1. Grows /\ StoresTypeOK' /\ DataInv'
  BY QuietGrows, QuietTypes, QuietData DEF IInv, TypeOK, DataInv
<1>2. UNCHANGED <<stream, consumerMem, hReceipt>>
  BY DEF redis, database
<1>3. QED
  BY <1>1, <1>2, OtherMoves

\* A retrier at a point of its own code.
LEMMA RetrierFacts ==
  ASSUME IInv, NEW w \in Retriers
  PROVE  /\ w \in Workers /\ w # Consumer
         /\ pc[w] # "off" =>
              errOf[w] \in ReceiptActions /\ errOf[w][1] \in Receipts
         /\ pc[w] \in RetrierPC \ {"get"} => ReceiptDone(errOf[w][1])
         /\ pc[w] \in HandlerPC => rec[w] = errOf[w][1]
         /\ RetrierPC \cup HandlerPC \cup {"off"} = LabelsOf(w)
         /\ \A l : GoTo(w, l) => pc'[w] = l
<1>1. w \in Workers /\ w # Consumer
  BY WorkersAssumption DEF Workers
<1>2. Retry(w)
  BY DEF IInv, RetryInv
<1>3. \A l : GoTo(w, l) => pc'[w] = l
  BY <1>1 DEF GoTo, IInv, TypeOK, WorkersTypeOK
<1>4. QED
  BY <1>1, <1>2, <1>3, ActionPairs DEF Retry, LabelsOf

LEMMA LoadInv ==
  ASSUME IInv, LoadOpenErrors \/ LoadOpenErrorsFails
  PROVE  IInv'
<1>1. UNCHANGED <<redis, errors, database, pc, rec, idx, seen, batch, cur,
                  errOf, attempts>>
  BY DEF LoadOpenErrors, LoadOpenErrorsFails, consumerMem, retryMem
<1>2. resume' \subseteq ReceiptActions /\ booted' = TRUE
  BY DEF LoadOpenErrors, LoadOpenErrorsFails, OpenErrorIds, IInv, TypeOK,
         StoresTypeOK, MemoryTypeOK
<1>3. BoundsTypeOK'
  BY BoundsAssumption
  DEF LoadOpenErrors, LoadOpenErrorsFails, IInv, TypeOK, BoundsTypeOK, bounds
<1>4. Grows /\ StoresTypeOK' /\ DataInv'
  BY <1>1, QuietGrows, QuietTypes, QuietData DEF IInv, TypeOK, DataInv
<1>5. WorkersTypeOK'
  BY <1>1 DEF IInv, TypeOK, WorkersTypeOK, LabelsOf
<1>6. MemoryTypeOK'
  BY <1>1, <1>2 DEF IInv, TypeOK, MemoryTypeOK, redis
<1>7. EntryInv' /\ RecordInv'
  BY <1>1, <1>4, EntryStays, RecordStays DEF IInv, redis, database
<1>8. ProgressInv'
  BY <1>1, <1>4, ProgressStays DEF IInv, ProgressInv, Workers
<1>9. RetryInv'
  BY <1>1, <1>4, RetryStays DEF IInv, RetryInv, Workers
<1>10. QED
  BY <1>3, <1>4, <1>5, <1>6, <1>7, <1>8, <1>9 DEF IInv, TypeOK, DataInv

LEMMA ResumeInv ==
  ASSUME IInv, NEW w \in Retriers, ResumeError(w)
  PROVE  IInv'
<1>1. PICK e \in resume : /\ resume' = resume \ {e}
                          /\ errOf' = [errOf EXCEPT ![w] = e]
  BY DEF ResumeError
<1>2. /\ GoTo(w, "get") /\ "get" \in RetrierPC
      /\ UNCHANGED <<redis, errors, database, rec, idx, seen, consumerMem,
                     attempts, booted, bounds>>
  BY DEF ResumeError, RetrierPC
<1>3. e \in ReceiptActions /\ errOf \in [Retriers -> ReceiptActions \cup {None}]
  BY DEF IInv, TypeOK, MemoryTypeOK
<1>4. MemoryTypeOK' /\ BoundsTypeOK'
  <2>1. errOf' \in [Retriers -> ReceiptActions \cup {None}]
    BY <1>1, <1>3
  <2>2. MemoryTypeOK'
    BY <1>1, <1>2, <2>1 DEF IInv, TypeOK, MemoryTypeOK, redis, consumerMem
  <2>3. QED
    BY <1>2, <2>2, BoundsStay DEF IInv, TypeOK
<1>5. Progress(w)' /\ Retry(w)'
  BY <1>1, <1>2, <1>3, RetrierFacts DEF Progress, Retry, HandlerPC
<1>6. "get" \in LabelsOf(w)
  BY <1>2, RetrierFacts
<1>7. QED
  BY <1>1, <1>2, <1>4, <1>5, <1>6, QuietMoves

\* The end of a backOff, and of one attempt.
LEMMA StopFacts ==
  ASSUME IInv, NEW w \in Retriers, StopRetrier(w)
  PROVE  /\ GoTo(w, "off") /\ DropReceipt(w) /\ "off" \in LabelsOf(w)
         /\ \A v \in Retriers \ {w} : errOf'[v] = errOf[v]
         /\ errOf' \in [Retriers -> ReceiptActions \cup {None}]
         /\ attempts' \in [Retriers -> Nat]
         /\ Progress(w)' /\ Retry(w)'
<1>1. Progress(w)' /\ Retry(w)'
  BY RetrierFacts DEF StopRetrier, Progress, Retry, HandlerPC, RetrierPC
<1>2. "off" \in LabelsOf(w)
  BY RetrierFacts
<1>3. QED
  BY <1>1, <1>2 DEF StopRetrier, IInv, TypeOK, MemoryTypeOK

LEMMA AttemptFacts ==
  ASSUME IInv, NEW w \in Retriers, pc[w] # "off", NextAttempt(w)
  PROVE  /\ \E l \in LabelsOf(w) : GoTo(w, l)
         /\ DropReceipt(w)
         /\ \A v \in Retriers \ {w} : errOf'[v] = errOf[v]
         /\ errOf' \in [Retriers -> ReceiptActions \cup {None}]
         /\ attempts' \in [Retriers -> Nat]
         /\ Progress(w)' /\ Retry(w)'
<1>1. CASE StopRetrier(w)
  BY <1>1, StopFacts
<1>2. CASE ~StopRetrier(w)
  <2>1. /\ GoTo(w, "get") /\ DropReceipt(w) /\ errOf' = errOf
        /\ attempts' = [attempts EXCEPT ![w] = attempts[w] + 1]
    BY <1>2 DEF NextAttempt
  <2>2. Progress(w)' /\ Retry(w)' /\ "get" \in LabelsOf(w)
    BY <2>1, RetrierFacts DEF Progress, Retry, HandlerPC, RetrierPC
  <2>3. QED
    BY <2>1, <2>2 DEF IInv, TypeOK, MemoryTypeOK
<1>3. QED
  BY <1>1, <1>2

LEMMA GetInv ==
  ASSUME IInv, NEW w \in Retriers, GetError(w)
  PROVE  IInv'
<1>1. /\ pc[w] = "get"
      /\ UNCHANGED <<redis, errors, database, consumerMem, bootMem, bounds>>
  BY DEF GetError
<1>2. BoundsTypeOK'
  BY <1>1, BoundsStay DEF IInv, TypeOK
<1>3. CASE ErrorIsOpen(errOf[w])
  <2>1. /\ StartReceipt(w, errOf[w][1]) /\ GoTo(w, "check")
        /\ UNCHANGED <<seen, retryMem>>
    BY <1>3 DEF GetError
  <2>2. /\ errOf[w] \in ReceiptActions /\ errOf[w][1] \in Receipts
        /\ w \in Workers /\ w # Consumer /\ Consumer \in Workers \ {w}
        /\ "check" \in LabelsOf(w) /\ pc'[w] = "check"
    BY <1>1, <2>1, RetrierFacts DEF Workers, HandlerPC
  <2>3. StoresTypeOK' /\ MemoryTypeOK' /\ DataInv' /\ Grows
    BY <1>1, <2>1, QuietTypes, MemoryStays, QuietData, QuietGrows
    DEF IInv, TypeOK, DataInv, redis
  <2>4. /\ rec' \in [Workers -> Receipts \cup {None}]
        /\ idx' \in [Workers -> Nat]
        /\ seen' \in [Workers -> SUBSET ReceiptActions]
    BY <2>1, <2>2, TypeStart DEF IInv, TypeOK, WorkersTypeOK
  <2>5. WorkersTypeOK'
    BY <2>1, <2>2, <2>4, TypePC DEF IInv, TypeOK
  <2>6. /\ Local(w)
        /\ rec'[w] = errOf[w][1] /\ idx'[w] = 1 /\ errOf' = errOf
    BY <2>1, <2>2
    DEF Local, GoTo, StartReceipt, IInv, TypeOK, WorkersTypeOK, retryMem
  <2>7. Progress(w)' /\ Retry(w)'
    BY <2>2, <2>6 DEF Progress, Retry, HandlerPC, RetrierPC
  <2>8. EntryInv' /\ RecordInv'
    BY <1>1, <2>2, <2>3, <2>6, EntryStays, RecordStays
    DEF IInv, Local, redis, database, consumerMem
  <2>9. TypeOK'
    BY <1>2, <2>3, <2>5 DEF TypeOK
  <2>10. QED
    BY <2>2, <2>3, <2>6, <2>7, <2>8, <2>9, WorkerStep
<1>4. CASE ~ErrorIsOpen(errOf[w])
  <2>1. StopRetrier(w)
    BY <1>4 DEF GetError
  <2>2. MemoryTypeOK'
    BY <1>1, <2>1, StopFacts DEF IInv, TypeOK, MemoryTypeOK, redis, consumerMem, bootMem
  <2>3. QED
    BY <1>1, <1>2, <2>1, <2>2, StopFacts, QuietMoves
<1>5. QED
  BY <1>3, <1>4

LEMMA FinishRetryInv ==
  ASSUME IInv, NEW w \in Retriers, FinishRetry(w)
  PROVE  IInv'
<1>1. /\ pc[w] = "check" /\ pc[w] \in HandlerPC /\ ~MoreActions(w)
      /\ GoTo(w, "setRead") /\ "setRead" \in RetrierPC
      /\ UNCHANGED <<redis, errors, database, rec, idx, seen, consumerMem,
                     retryMem, bootMem, bounds>>
  BY DEF FinishRetry, HandlerPC, RetrierPC
<1>2. /\ ReceiptDone(rec[w]) /\ rec[w] = errOf[w][1]
      /\ errOf[w] \in ReceiptActions
      /\ "setRead" \in LabelsOf(w) /\ pc'[w] = "setRead"
  BY <1>1, RetrierFacts, DoneAtEnd
<1>3. MemoryTypeOK' /\ BoundsTypeOK'
  BY <1>1, MemoryStays, BoundsStay DEF IInv, TypeOK, redis
<1>4. ReceiptDone(errOf[w][1])'
  BY <1>1, <1>2 DEF ReceiptDone, Done, database, retryMem
<1>5. Progress(w)' /\ Retry(w)'
  BY <1>1, <1>2, <1>4 DEF Progress, Retry, HandlerPC, retryMem
<1>6. QED
  BY <1>1, <1>2, <1>3, <1>5, QuietMoves DEF retryMem

LEMMA ReadToRemoveInv ==
  ASSUME IInv, NEW w \in Retriers, ReadToRemoveOpenId(w)
  PROVE  IInv'
<1>1. /\ pc[w] = "setRead" /\ pc[w] \in RetrierPC \ {"get"}
      /\ \E l \in {"setWrite", "setDyn"} : GoTo(w, l)
      /\ UNCHANGED <<redis, errors, database, rec, idx, consumerMem, retryMem,
                     bootMem, bounds>>
  BY DEF ReadToRemoveOpenId, RetrierPC
<1>2. PICK l \in {"setWrite", "setDyn"} : GoTo(w, l)
  BY <1>1
<1>3. /\ ReceiptDone(errOf[w][1]) /\ errOf[w] \in ReceiptActions
      /\ l \in LabelsOf(w) /\ pc'[w] = l
  BY <1>1, <1>2, RetrierFacts DEF RetrierPC
<1>4. seen' \in [Workers -> SUBSET ReceiptActions]
  BY DEF ReadToRemoveOpenId, IInv, TypeOK, StoresTypeOK, WorkersTypeOK
<1>5. MemoryTypeOK' /\ BoundsTypeOK'
  BY <1>1, MemoryStays, BoundsStay DEF IInv, TypeOK, redis
<1>6. ReceiptDone(errOf[w][1])'
  BY <1>1, <1>3 DEF ReceiptDone, Done, database, retryMem
<1>7. Progress(w)' /\ Retry(w)'
  BY <1>1, <1>3, <1>6 DEF Progress, Retry, HandlerPC, retryMem
<1>8. QED
  BY <1>1, <1>2, <1>3, <1>4, <1>5, <1>7, QuietMoves DEF retryMem

LEMMA WriteRemovedInv ==
  ASSUME IInv, NEW w \in Retriers, WriteRemovedOpenId(w)
  PROVE  IInv'
<1>1. /\ pc[w] = "setWrite" /\ pc[w] \in RetrierPC \ {"get"}
      /\ openIds' = seen[w] \ {errOf[w]}
      /\ GoTo(w, "setDyn") /\ "setDyn" \in RetrierPC
      /\ UNCHANGED <<redis, dynErr, sqlErr, database, rec, idx, seen,
                     consumerMem, retryMem, bootMem, bounds>>
  BY DEF WriteRemovedOpenId, RetrierPC
<1>2. /\ ReceiptDone(errOf[w][1]) /\ errOf[w] \in ReceiptActions
      /\ "setDyn" \in LabelsOf(w) /\ pc'[w] = "setDyn" /\ w \in Workers
  BY <1>1, RetrierFacts
<1>3. Grows
  BY <1>1 DEF Grows, database, ErrorIsOpen
<1>4. StoresTypeOK'
  <2>1. openIds' \subseteq ReceiptActions
    BY <1>1, <1>2 DEF IInv, TypeOK, WorkersTypeOK
  <2>2. QED
    BY <1>1, <2>1 DEF IInv, TypeOK, StoresTypeOK, redis, database
<1>5. DataInv'
  BY <1>1, <1>3, ErrorsStay DEF IInv, TypeOK, DataInv
<1>6. MemoryTypeOK' /\ BoundsTypeOK'
  BY <1>1, MemoryStays, BoundsStay DEF IInv, TypeOK, redis
<1>7. ReceiptDone(errOf[w][1])'
  BY <1>1, <1>2 DEF ReceiptDone, Done, database, retryMem
<1>8. Progress(w)' /\ Retry(w)'
  BY <1>1, <1>2, <1>7 DEF Progress, Retry, HandlerPC, retryMem
<1>9. QED
  BY <1>1, <1>2, <1>3, <1>4, <1>5, <1>6, <1>8, OtherMoves
  DEF retryMem, redis, database

LEMMA ResolveDynamoInv ==
  ASSUME IInv, NEW w \in Retriers, ResolveDynamo(w)
  PROVE  IInv'
<1>1. /\ pc[w] = "setDyn" /\ pc[w] \in RetrierPC \ {"get"}
      /\ dynErr' = [dynErr EXCEPT ![errOf[w]] = "Resolved"]
      /\ GoTo(w, "setSql") /\ "setSql" \in RetrierPC
      /\ UNCHANGED <<redis, openIds, sqlErr, database, rec, idx, seen,
                     consumerMem, retryMem, bootMem, bounds>>
  BY DEF ResolveDynamo, RetrierPC
<1>2. /\ ReceiptDone(errOf[w][1]) /\ errOf[w] \in ReceiptActions
      /\ "setSql" \in LabelsOf(w) /\ pc'[w] = "setSql"
  BY <1>1, RetrierFacts
<1>3. dynErr \in [ReceiptActions -> ErrorStatus]
  BY DEF IInv, TypeOK, StoresTypeOK
<1>4. /\ \A e \in ReceiptActions :
           dynErr'[e] = IF e = errOf[w] THEN "Resolved" ELSE dynErr[e]
      /\ dynErr' \in [ReceiptActions -> ErrorStatus]
  BY <1>1, <1>3 DEF ErrorStatus
<1>5. Grows
  BY <1>1, <1>2, <1>4 DEF Grows, database, ErrorIsOpen
<1>6. StoresTypeOK'
  BY <1>1, <1>4 DEF IInv, TypeOK, StoresTypeOK, redis, database
<1>7. DataInv'
  BY <1>1, <1>2, <1>4, <1>5, ErrorsStay DEF IInv, TypeOK, DataInv
<1>8. MemoryTypeOK' /\ BoundsTypeOK'
  BY <1>1, MemoryStays, BoundsStay DEF IInv, TypeOK, redis
<1>9. ReceiptDone(errOf[w][1])'
  BY <1>1, <1>2 DEF ReceiptDone, Done, database, retryMem
<1>10. Progress(w)' /\ Retry(w)'
  BY <1>1, <1>2, <1>9 DEF Progress, Retry, HandlerPC, retryMem
<1>11. QED
  BY <1>1, <1>2, <1>5, <1>6, <1>7, <1>8, <1>10, OtherMoves
  DEF retryMem, redis, database

LEMMA ResolveSqlInv ==
  ASSUME IInv, NEW w \in Retriers, ResolveSql(w)
  PROVE  IInv'
<1>1. /\ pc[w] = "setSql" /\ pc[w] \in RetrierPC \ {"get"}
      /\ sqlErr' = [sqlErr EXCEPT ![errOf[w]] =
                      IF sqlErr[errOf[w]] = "none" THEN sqlErr[errOf[w]]
                      ELSE "Resolved"]
      /\ StopRetrier(w)
      /\ UNCHANGED <<redis, dynErr, openIds, database, consumerMem, bootMem,
                     bounds>>
  BY DEF ResolveSql, RetrierPC
<1>2. /\ ReceiptDone(errOf[w][1]) /\ errOf[w] \in ReceiptActions
  BY <1>1, RetrierFacts
<1>3. sqlErr \in [ReceiptActions -> ErrorStatus]
  BY DEF IInv, TypeOK, StoresTypeOK
<1>4. /\ \A e \in ReceiptActions : e # errOf[w] => sqlErr'[e] = sqlErr[e]
      /\ sqlErr' \in [ReceiptActions -> ErrorStatus]
  BY <1>1, <1>3 DEF ErrorStatus
<1>5. Grows
  BY <1>1, <1>2, <1>4 DEF Grows, database, ErrorIsOpen
<1>6. StoresTypeOK'
  BY <1>1, <1>4 DEF IInv, TypeOK, StoresTypeOK, redis, database
<1>7. DataInv'
  BY <1>1, <1>2, <1>4, <1>5, ErrorsStay DEF IInv, TypeOK, DataInv
<1>8. BoundsTypeOK'
  BY <1>1, BoundsStay DEF IInv, TypeOK
<1>9. MemoryTypeOK'
  BY <1>1, StopFacts DEF IInv, TypeOK, MemoryTypeOK, redis, consumerMem, bootMem
<1>10. QED
  BY <1>1, <1>5, <1>6, <1>7, <1>8, <1>9, StopFacts, OtherMoves
  DEF redis, database

LEMMA AttemptFailsInv ==
  ASSUME IInv, NEW w \in Retriers, RetryThrows(w) \/ TrackerThrows(w)
  PROVE  IInv'
<1>1. /\ pc[w] # "off" /\ NextAttempt(w)
      /\ faults < MaxFaults /\ faults' = faults + 1
      /\ UNCHANGED <<redis, errors, database, consumerMem, bootMem, outages,
                     crashes, callbacks>>
  BY DEF RetryThrows, TrackerThrows, ActionThrows, RetrierPC
<1>2. PICK l \in LabelsOf(w) : GoTo(w, l)
  BY <1>1, AttemptFacts
<1>3. BoundsTypeOK'
  BY <1>1, BoundsAssumption DEF IInv, TypeOK, BoundsTypeOK
<1>4. MemoryTypeOK'
  BY <1>1, AttemptFacts
  DEF IInv, TypeOK, MemoryTypeOK, redis, consumerMem, bootMem
<1>5. QED
  BY <1>1, <1>2, <1>3, <1>4, AttemptFacts, QuietMoves

-----------------------------------------------------------------------------
(* The steps of the wallet callback, and the crash                         *)

LEMMA WalletFacts ==
  ASSUME IInv, NEW w \in Wallets
  PROVE  /\ w \in Workers /\ w \notin Retriers /\ w # Consumer
         /\ {"check", "off"} \subseteq LabelsOf(w)
         /\ \A l : GoTo(w, l) => pc'[w] = l
  BY WorkersAssumption
  DEF Workers, LabelsOf, HandlerPC, GoTo, IInv, TypeOK, WorkersTypeOK

\* A callback goes to the first action of a receipt.
LEMMA CallbackStarts ==
  ASSUME IInv, NEW w \in Wallets, NEW r \in Receipts,
         StartReceipt(w, r), GoTo(w, "check"), seen' = seen,
         UNCHANGED <<redis, errors, database, consumerMem, retryMem, bootMem>>,
         BoundsTypeOK'
  PROVE  IInv'
<1>1. /\ w \in Workers /\ w \notin Retriers /\ Consumer \in Workers \ {w}
      /\ "check" \in LabelsOf(w) /\ pc'[w] = "check"
  BY WalletFacts DEF Workers
<1>2. StoresTypeOK' /\ MemoryTypeOK' /\ DataInv' /\ Grows
  BY QuietTypes, MemoryStays, QuietData, QuietGrows DEF IInv, TypeOK, DataInv, redis
<1>3. /\ rec' \in [Workers -> Receipts \cup {None}]
      /\ idx' \in [Workers -> Nat]
      /\ seen' \in [Workers -> SUBSET ReceiptActions]
  BY <1>1, TypeStart DEF IInv, TypeOK, WorkersTypeOK
<1>4. WorkersTypeOK'
  BY <1>1, <1>3, TypePC DEF IInv, TypeOK
<1>5. Local(w) /\ rec'[w] = r /\ idx'[w] = 1
  BY <1>1 DEF Local, GoTo, StartReceipt, IInv, TypeOK, WorkersTypeOK, retryMem
<1>6. Progress(w)'
  BY <1>1, <1>5 DEF Progress, HandlerPC
<1>7. EntryInv' /\ RecordInv'
  BY <1>1, <1>2, <1>5, EntryStays, RecordStays
  DEF IInv, Local, redis, database, consumerMem
<1>8. QED
  BY <1>1, <1>2, <1>4, <1>5, <1>6, <1>7, WorkerStep DEF TypeOK

\* A callback is over.
LEMMA CallbackStops ==
  ASSUME IInv, NEW w \in Wallets, GoTo(w, "off"), DropReceipt(w),
         UNCHANGED <<redis, errors, database, consumerMem, retryMem, bootMem,
                     bounds>>
  PROVE  IInv'
<1>1. w \notin Retriers /\ "off" \in LabelsOf(w) /\ pc'[w] = "off"
  BY WalletFacts
<1>2. MemoryTypeOK' /\ BoundsTypeOK'
  BY MemoryStays, BoundsStay DEF IInv, TypeOK, redis
<1>3. Progress(w)'
  BY <1>1 DEF Progress, HandlerPC
<1>4. QED
  BY <1>1, <1>2, <1>3, QuietMoves DEF retryMem

LEMMA CallbackInv ==
  ASSUME IInv, NEW w \in Wallets,
         StartCallback(w) \/ NextReceipt(w) \/ CallbackEnds(w)
  PROVE  IInv'
<1>1. CASE StartCallback(w)
  <2>1. PICK r \in Receipts : StartReceipt(w, r)
    BY <1>1 DEF StartCallback
  <2>2. BoundsTypeOK'
    BY <1>1, BoundsAssumption DEF StartCallback, IInv, TypeOK, BoundsTypeOK
  <2>3. QED
    BY <1>1, <2>1, <2>2, CallbackStarts DEF StartCallback
<1>2. CASE NextReceipt(w)
  <2>2. w \in Workers /\ pc[w] = "check" /\ rec[w] \in Receipts
    BY <1>2, WalletFacts, HandlerFacts DEF NextReceipt, HandlerPC
  <2>3. CASE NextInTx[rec[w]] = None
    BY <1>2, <2>3, CallbackStops DEF NextReceipt
  <2>4. CASE NextInTx[rec[w]] # None
    <3>1. NextInTx[rec[w]] \in Receipts
      BY <2>2, <2>4, ReceiptsAssumption
    <3>2. /\ StartReceipt(w, NextInTx[rec[w]]) /\ GoTo(w, "check")
          /\ seen' = seen
      BY <1>2, <2>2, <2>4
      DEF NextReceipt, GoTo, IInv, TypeOK, WorkersTypeOK
    <3>3. BoundsTypeOK'
      BY <1>2, BoundsStay DEF NextReceipt, IInv, TypeOK
    <3>4. QED
      BY <1>2, <3>1, <3>2, <3>3, CallbackStarts DEF NextReceipt
  <2>5. QED
    BY <2>3, <2>4
<1>3. CASE CallbackEnds(w)
  BY <1>3, CallbackStops DEF CallbackEnds
<1>4. QED
  BY <1>1, <1>2, <1>3

LEMMA CrashInv ==
  ASSUME IInv, Crash
  PROVE  IInv'
<1>1. /\ crashes < MaxCrashes /\ crashes' = crashes + 1
      /\ batch' = {} /\ cur' = 0
      /\ errOf' = [w \in Retriers |-> None]
      /\ attempts' = [w \in Retriers |-> 0]
      /\ booted' = FALSE /\ resume' = {}
      /\ UNCHANGED <<redis, errors, database, faults, outages, callbacks>>
  BY DEF Crash
<1>2. /\ pc' = [w \in Workers |->
                  IF w \notin {Consumer} \cup Retriers THEN pc[w]
                  ELSE IF w = Consumer THEN "poll" ELSE "off"]
      /\ rec' = [w \in Workers |->
                  IF w \in {Consumer} \cup Retriers THEN None ELSE rec[w]]
      /\ idx' = [w \in Workers |->
                  IF w \in {Consumer} \cup Retriers THEN 0 ELSE idx[w]]
      /\ seen' = [w \in Workers |->
                  IF w \in {Consumer} \cup Retriers THEN {} ELSE seen[w]]
  BY DEF Crash
<1>3. /\ pc'[Consumer] = "poll"
      /\ \A w \in Retriers : pc'[w] = "off"
      /\ \A w \in Wallets : pc'[w] = pc[w] /\ rec'[w] = rec[w] /\ idx'[w] = idx[w]
  BY <1>2, WorkersAssumption DEF Workers
<1>4. Grows /\ StoresTypeOK' /\ DataInv'
  BY <1>1, QuietGrows, QuietTypes, QuietData DEF IInv, TypeOK, DataInv
<1>5. BoundsTypeOK'
  BY <1>1, BoundsAssumption DEF IInv, TypeOK, BoundsTypeOK
<1>6. MemoryTypeOK'
  <2>1. 0 \in 0 .. published'
    BY <1>1, StreamAssumption DEF IInv, TypeOK, StoresTypeOK, redis
  <2>2. /\ errOf' \in [Retriers -> ReceiptActions \cup {None}]
        /\ attempts' \in [Retriers -> Nat]
    BY <1>1
  <2>3. QED
    BY <1>1, <2>1, <2>2 DEF MemoryTypeOK
<1>7. WorkersTypeOK'
  <2>1. WorkersTypeOK
    BY DEF IInv, TypeOK
  <2>2. pc' \in [Workers -> ConsumerPC \cup HandlerPC \cup RetrierPC \cup {"off"}]
    BY <1>2, <2>1 DEF WorkersTypeOK, ConsumerPC
  <2>3. /\ rec' \in [Workers -> Receipts \cup {None}]
        /\ idx' \in [Workers -> Nat]
        /\ seen' \in [Workers -> SUBSET ReceiptActions]
    BY <1>2, <2>1 DEF WorkersTypeOK
  <2>4. \A w \in Workers : pc'[w] \in LabelsOf(w)
    BY <1>3, <2>1 DEF WorkersTypeOK, LabelsOf, Workers, ConsumerPC
  <2>5. QED
    BY <2>2, <2>3, <2>4 DEF WorkersTypeOK, LabelsOf
<1>8. EntryInv' /\ RecordInv' /\ RetryInv'
  BY <1>1, <1>3
  DEF EntryInv, RecordInv, RetryInv, Retry, ConsumerBusy, HandlerPC, RetrierPC
<1>9. ProgressInv'
  <2>1. \A w \in Wallets : Progress(w)'
    BY <1>3, <1>4, ProgressStays DEF IInv, ProgressInv, Workers
  <2>2. \A w \in {Consumer} \cup Retriers : Progress(w)'
    BY <1>3 DEF Progress, HandlerPC
  <2>3. QED
    BY <2>1, <2>2 DEF ProgressInv, Workers
<1>10. QED
  BY <1>4, <1>5, <1>6, <1>7, <1>8, <1>9 DEF IInv, TypeOK, DataInv

-----------------------------------------------------------------------------
(* The invariant                                                           *)

LEMMA HandleActionInv ==
  ASSUME IInv, NEW w \in Workers, HandleAction(w)
  PROVE  IInv'
  BY SkipInv, StartInv, RunInv, MarkInv DEF HandleAction

LEMMA ConsumerStepInv ==
  ASSUME IInv, ConsumerStep
  PROVE  IInv'
<1>1. CASE HandleAction(Consumer)
  BY <1>1, HandleActionInv DEF Workers
<1>2. CASE Poll \/ BeginReceipt \/ FinishReceipt \/ DeleteEntry
  BY <1>2, PollInv, BeginInv, FinishInv, DeleteInv
<1>3. CASE \/ SaveDynamoError \/ ReadToAddOpenId \/ WriteAddedOpenId
           \/ SaveSqlError \/ SaveFailedState
  BY <1>3, SaveDynamoInv, ReadToAddInv, WriteAddedInv, SaveSqlInv, FailedStateInv
<1>4. QED
  BY <1>1, <1>2, <1>3 DEF ConsumerStep

LEMMA RetrierStepInv ==
  ASSUME IInv, NEW w \in Retriers, RetrierStep(w)
  PROVE  IInv'
<1>1. CASE HandleAction(w)
  BY <1>1, HandleActionInv DEF Workers
<1>2. CASE ResumeError(w) \/ GetError(w) \/ FinishRetry(w)
  BY <1>2, ResumeInv, GetInv, FinishRetryInv
<1>3. CASE \/ ReadToRemoveOpenId(w) \/ WriteRemovedOpenId(w)
           \/ ResolveDynamo(w) \/ ResolveSql(w)
  BY <1>3, ReadToRemoveInv, WriteRemovedInv, ResolveDynamoInv, ResolveSqlInv
<1>4. QED
  BY <1>1, <1>2, <1>3 DEF RetrierStep

LEMMA FailureInv ==
  ASSUME IInv, Failure
  PROVE  IInv'
<1>1. CASE ConsumerCatches \/ ConsumerDies \/ LoadOpenErrorsFails \/ Crash
  BY <1>1, CatchInv, DiesInv, LoadInv, CrashInv
<1>2. CASE \E w \in Workers : MissMarker(w)
  BY <1>2, StartInv
<1>3. CASE \E w \in Retriers : RetryThrows(w) \/ TrackerThrows(w)
  BY <1>3, AttemptFailsInv
<1>4. CASE \E w \in Wallets : CallbackEnds(w)
  BY <1>4, CallbackInv
<1>5. QED
  BY <1>1, <1>2, <1>3, <1>4 DEF Failure

LEMMA StutterInv ==
  ASSUME IInv, UNCHANGED vars
  PROVE  IInv'
<1>1. UNCHANGED <<redis, errors, database, pc, rec, idx, seen, batch, cur,
                  errOf, attempts, booted, resume, bounds>>
  BY DEF vars, consumerMem, retryMem, bootMem
<1>2. Grows /\ StoresTypeOK' /\ DataInv' /\ BoundsTypeOK'
  BY <1>1, QuietGrows, QuietTypes, QuietData, BoundsStay DEF IInv, TypeOK, DataInv
<1>3. WorkersTypeOK' /\ MemoryTypeOK'
  BY <1>1 DEF IInv, TypeOK, WorkersTypeOK, LabelsOf, MemoryTypeOK, redis
<1>4. EntryInv' /\ RecordInv'
  BY <1>1, <1>2, EntryStays, RecordStays DEF IInv, redis, database
<1>5. ProgressInv' /\ RetryInv'
  BY <1>1, <1>2, ProgressStays, RetryStays
  DEF IInv, ProgressInv, RetryInv, Workers
<1>6. QED
  BY <1>2, <1>3, <1>4, <1>5 DEF IInv, TypeOK, DataInv

LEMMA NextInv ==
  ASSUME IInv, [Next]_vars
  PROVE  IInv'
<1>1. CASE Publish \/ ConsumerStep \/ LoadOpenErrors \/ Failure
  BY <1>1, PublishInv, ConsumerStepInv, LoadInv, FailureInv
<1>2. CASE \E w \in Retriers : RetrierStep(w)
  BY <1>2, RetrierStepInv
<1>3. CASE \E w \in Wallets : StartCallback(w) \/ WalletStep(w)
  BY <1>3, CallbackInv, HandleActionInv DEF WalletStep, Workers
<1>4. CASE Quiescent \/ UNCHANGED vars
  BY <1>4, StutterInv DEF Quiescent
<1>5. QED
  BY <1>1, <1>2, <1>3, <1>4 DEF Next

\* The inductive invariant holds in every reachable state: what each worker
\* knows of the receipt it handles is true of the stores, at every await.
THEOREM Invariant == Spec => []IInv
<1>1. Init => IInv
  BY InitInv
<1>2. IInv /\ [Next]_vars => IInv'
  BY NextInv
<1>3. QED
  BY <1>1, <1>2, PTL DEF Spec

\* Every variable keeps its type and every worker stays in its own code.
THEOREM TypeCorrect == Spec => []TypeOK
<1>1. IInv => TypeOK
  BY DEF IInv
<1>2. QED
  BY <1>1, Invariant, PTL

\* No receipt is lost: whatever fails or restarts, a receipt whose entry has
\* left the stream is handled or booked as an open error.
THEOREM ReceiptsSafe == Spec => []NoReceiptLost
<1>1. IInv => NoReceiptLost
  BY DEF IInv
<1>2. QED
  BY <1>1, Invariant, PTL

\* A marker stands for effects that are in the database.
THEOREM MarkersSafe == Spec => []MarkedAfterEffects
<1>1. IInv => MarkedAfterEffects
  BY DEF IInv
<1>2. QED
  BY <1>1, Invariant, PTL

\* The actions of a receipt take effect in their order, and those of a failed
\* transaction never do.
THEOREM OrderKept == Spec => []AppliedInOrder
<1>1. IInv => AppliedInOrder
  BY DEF IInv
<1>2. QED
  BY <1>1, Invariant, PTL

\* An error shown as resolved belongs to a receipt that is handled.
THEOREM ResolutionTruthful == Spec => []ResolvedMeansDone
<1>1. IInv => ResolvedMeansDone
  BY DEF IInv
<1>2. QED
  BY <1>1, Invariant, PTL

\* The state the API reports of the handler is true of the receipt it names.
THEOREM StateTruthful == Spec => []HandlerStateTruthful
<1>1. IInv => HandlerStateTruthful
  BY DEF IInv
<1>2. QED
  BY <1>1, Invariant, PTL

\* The rows that one step changes.
LEMMA SqlSteps ==
  ASSUME IInv, Next
  PROVE  \A e \in ReceiptActions :
           sqlErr[e] = "Resolved" => sqlErr'[e] = "Resolved"
<1>1. sqlErr \in [ReceiptActions -> ErrorStatus]
  BY DEF IInv, TypeOK, StoresTypeOK
<1>2. CASE SaveSqlError
  BY <1>1, <1>2 DEF SaveSqlError, StatusSaved
<1>3. CASE \E w \in Retriers : ResolveSql(w)
  BY <1>1, <1>3 DEF ResolveSql
<1>4. ASSUME NEW w, HandleAction(w) PROVE sqlErr' = sqlErr
  BY <1>4
  DEF HandleAction, SkipAction, StartAction, RunHandlers, SaveMarker, errors
<1>5. CASE ConsumerStep /\ ~SaveSqlError
  BY <1>4, <1>5
  DEF ConsumerStep, Poll, BeginReceipt, FinishReceipt, DeleteEntry,
      SaveDynamoError, ReadToAddOpenId, WriteAddedOpenId, SaveFailedState, errors
<1>6. ASSUME NEW w, RetrierStep(w), ~ResolveSql(w) PROVE sqlErr' = sqlErr
  BY <1>4, <1>6
  DEF RetrierStep, ResumeError, GetError, FinishRetry, ReadToRemoveOpenId,
      WriteRemovedOpenId, ResolveDynamo, errors
<1>7. CASE Failure
  BY <1>7
  DEF Failure, ConsumerCatches, ConsumerDies, LoadOpenErrorsFails, Crash,
      MissMarker, RetryThrows, TrackerThrows, ActionThrows, CallbackEnds, errors
<1>8. CASE \E w \in Wallets : StartCallback(w) \/ WalletStep(w)
  BY <1>4, <1>8 DEF StartCallback, WalletStep, NextReceipt, errors
<1>9. CASE Publish \/ LoadOpenErrors \/ Quiescent
  BY <1>9 DEF Publish, LoadOpenErrors, Quiescent, vars, errors
<1>10. QED
  BY <1>2, <1>3, <1>5, <1>6, <1>7, <1>8, <1>9 DEF Next

\* A resolved error row is never opened again, however often its entry is
\* delivered and fails.
THEOREM ResolutionFinal == Spec => SqlResolvedIsFinal
<1>1. IInv /\ [Next]_vars =>
        [\A e \in ReceiptActions :
           sqlErr[e] = "Resolved" => sqlErr'[e] = "Resolved"]_vars
  BY SqlSteps
<1>2. QED
  BY <1>1, Invariant, PTL DEF Spec, SqlResolvedIsFinal

-----------------------------------------------------------------------------
(* The ledger                                                              *)

\* The book of open errors.
Book == {e \in ReceiptActions : ErrorIsOpen(e)}

\* The two modules say the same of a receipt that is done.
LEMMA SameDone ==
  \A r \in Receipts : ReceiptDone(r) <=> Ledger!ReceiptDone(r)
  BY DEF ReceiptDone, Done, Ledger!ReceiptDone, Ledger!Done

\* A step that leaves the stream, the markers and the book alone.
LEMMA LedgerStutters ==
  ASSUME UNCHANGED <<published, stream, handled>>, Book' = Book
  PROVE  [Ledger!Next]_(Ledger!vars)
  BY DEF Ledger!vars, Book

LEMMA QuietLedger ==
  ASSUME UNCHANGED <<redis, errors, handled>>
  PROVE  [Ledger!Next]_(Ledger!vars)
<1>1. Book' = Book
  BY DEF Book, errors, ErrorIsOpen
<1>2. QED
  BY <1>1, LedgerStutters DEF redis

\* One error is booked for a receipt of the stream.
LEMMA LedgerBooks ==
  ASSUME NEW e \in ReceiptActions, NEW k \in stream, ReceiptOf[k] = e[1],
         UNCHANGED <<published, stream, handled>>, Book' = Book \cup {e}
  PROVE  Ledger!Next
<1>1. e[1] \in Receipts /\ e[2] \in 1 .. NumActions[e[1]] /\ e = <<e[1], e[2]>>
  BY ActionPairs
<1>2. Ledger!Book(e[1], e[2])
  BY <1>1 DEF Ledger!Book, Book
<1>3. QED
  BY <1>1, <1>2 DEF Ledger!Next

\* One error of a receipt that is done is closed.
LEMMA LedgerCloses ==
  ASSUME NEW e \in ReceiptActions, ReceiptDone(e[1]),
         UNCHANGED <<published, stream, handled>>, Book' = Book \ {e}
  PROVE  Ledger!Next
<1>1. e[1] \in Receipts /\ e[2] \in 1 .. NumActions[e[1]] /\ e = <<e[1], e[2]>>
  BY ActionPairs
<1>2. Ledger!Close(e[1], e[2])
  BY <1>1, SameDone DEF Ledger!Close, Book
<1>3. QED
  BY <1>1, <1>2 DEF Ledger!Next

LEMMA PublishLedger ==
  ASSUME Publish
  PROVE  Ledger!Next
<1>1. Book' = Book
  BY DEF Publish, Book, errors, ErrorIsOpen
<1>2. Ledger!Publish
  BY <1>1 DEF Publish, Ledger!Publish, database, Book
<1>3. QED
  BY <1>2 DEF Ledger!Next

LEMMA DeleteLedger ==
  ASSUME IInv, DeleteEntry
  PROVE  Ledger!Next
<1>1. /\ stream' = stream \ {cur} /\ UNCHANGED <<published, handled>>
      /\ Book' = Book
  BY DEF DeleteEntry, errors, database, Book, ErrorIsOpen
<1>2. pc[Consumer] = "xdel" /\ ConsumerBusy
  BY DEF DeleteEntry, ConsumerBusy
<1>3. cur \in stream /\ ReceiptOf[cur] \in Receipts /\ Settled(ReceiptOf[cur])
  BY <1>2, ConsumerFacts DEF IInv, RecordInv
<1>4. \/ Ledger!ReceiptDone(ReceiptOf[cur])
      \/ \E i \in 1 .. NumActions[ReceiptOf[cur]] : <<ReceiptOf[cur], i>> \in Book
  BY <1>3, SameDone, ActionPairs DEF Settled, Book
<1>5. Ledger!Delete(cur)
  BY <1>1, <1>3, <1>4 DEF Ledger!Delete, Book
<1>6. QED
  BY <1>3, <1>5 DEF Ledger!Next

LEMMA MarkLedger ==
  ASSUME IInv, NEW w \in Workers, SaveMarker(w)
  PROVE  Ledger!Next
<1>1. /\ pc[w] = "mark" /\ pc[w] \in HandlerPC
      /\ handled' = handled \cup {<<rec[w], idx[w]>>}
      /\ UNCHANGED <<published, stream>> /\ Book' = Book
  BY DEF SaveMarker, HandlerPC, ActionAt, redis, errors, Book, ErrorIsOpen
<1>2. /\ rec[w] \in Receipts \ FailedReceipts
      /\ idx[w] \in 1 .. NumActions[rec[w]]
      /\ \A j \in 1 .. idx[w] - 1 : Done(rec[w], j)
  BY <1>1, HandlerFacts, ActionPairs DEF ActionAt
<1>3. Ledger!Handle(rec[w], idx[w])
  BY <1>1, <1>2 DEF Ledger!Handle, Done, Book
<1>4. QED
  BY <1>2, <1>3 DEF Ledger!Next

LEMMA SaveDynamoLedger ==
  ASSUME IInv, SaveDynamoError
  PROVE  [Ledger!Next]_(Ledger!vars)
<1>1. PICK e \in ReceiptActions : e = ActionAt(Consumer)
  BY DEF SaveDynamoError, IInv, RecordInv
<1>2. /\ ConsumerBusy /\ e[1] = rec[Consumer]
      /\ dynErr' = [dynErr EXCEPT ![e] = "Open"] /\ sqlErr' = sqlErr
      /\ UNCHANGED <<published, stream, handled>>
  BY <1>1 DEF SaveDynamoError, ConsumerBusy, ActionAt, redis, database
<1>3. dynErr \in [ReceiptActions -> ErrorStatus]
  BY DEF IInv, TypeOK, StoresTypeOK
<1>4. CASE UseDynamo
  <2>1. Book' = Book \cup {e}
    BY <1>2, <1>3, <1>4 DEF Book, ErrorIsOpen
  <2>2. QED
    BY <1>2, <2>1, ConsumerFacts, LedgerBooks
<1>5. CASE ~UseDynamo
  BY <1>2, <1>5, LedgerStutters DEF Book, ErrorIsOpen
<1>6. QED
  BY <1>4, <1>5

LEMMA SaveSqlLedger ==
  ASSUME IInv, SaveSqlError
  PROVE  [Ledger!Next]_(Ledger!vars)
<1>1. PICK e \in ReceiptActions : e = ActionAt(Consumer)
  BY DEF SaveSqlError, IInv, RecordInv
<1>2. /\ ConsumerBusy /\ e[1] = rec[Consumer]
      /\ sqlErr' = [sqlErr EXCEPT ![e] =
                      IF sqlErr[e] = "none" THEN "Open" ELSE sqlErr[e]]
      /\ UNCHANGED <<published, stream, handled, dynErr>>
  BY <1>1 DEF SaveSqlError, StatusSaved, ConsumerBusy, ActionAt, redis, database
<1>3. sqlErr \in [ReceiptActions -> ErrorStatus]
  BY DEF IInv, TypeOK, StoresTypeOK
<1>4. CASE ~UseDynamo /\ sqlErr[e] = "none"
  <2>1. Book' = Book \cup {e}
    BY <1>2, <1>3, <1>4 DEF Book, ErrorIsOpen
  <2>2. QED
    BY <1>2, <2>1, ConsumerFacts, LedgerBooks
<1>5. CASE UseDynamo \/ sqlErr[e] # "none"
  <2>1. Book' = Book
    BY <1>2, <1>3, <1>5 DEF Book, ErrorIsOpen
  <2>2. QED
    BY <1>2, <2>1, LedgerStutters
<1>6. QED
  BY <1>4, <1>5

LEMMA ResolveLedger ==
  ASSUME IInv, NEW w \in Retriers, ResolveDynamo(w) \/ ResolveSql(w)
  PROVE  [Ledger!Next]_(Ledger!vars)
<1>1. pc[w] \in RetrierPC \ {"get"} /\ pc[w] # "off"
  BY DEF ResolveDynamo, ResolveSql, RetrierPC
<1>2. PICK e \in ReceiptActions : e = errOf[w]
  BY <1>1, RetrierFacts
<1>3. ReceiptDone(e[1]) /\ UNCHANGED <<published, stream, handled>>
  BY <1>1, <1>2, RetrierFacts DEF ResolveDynamo, ResolveSql, redis, database
<1>4. /\ dynErr \in [ReceiptActions -> ErrorStatus]
      /\ sqlErr \in [ReceiptActions -> ErrorStatus]
  BY DEF IInv, TypeOK, StoresTypeOK
<1>5. Book' = Book \/ Book' = Book \ {e}
  <2>1. CASE ResolveDynamo(w)
    BY <1>2, <1>4, <2>1 DEF ResolveDynamo, Book, ErrorIsOpen
  <2>2. CASE ResolveSql(w)
    BY <1>2, <1>4, <2>2 DEF ResolveSql, Book, ErrorIsOpen
  <2>3. QED
    BY <2>1, <2>2
<1>6. QED
  BY <1>3, <1>5, LedgerStutters, LedgerCloses

LEMMA HandleActionLedger ==
  ASSUME IInv, NEW w \in Workers, HandleAction(w)
  PROVE  [Ledger!Next]_(Ledger!vars)
<1>1. CASE SkipAction(w) \/ StartAction(w) \/ RunHandlers(w)
  BY <1>1, QuietLedger DEF SkipAction, StartAction, RunHandlers, database
<1>2. CASE SaveMarker(w)
  BY <1>2, MarkLedger
<1>3. QED
  BY <1>1, <1>2 DEF HandleAction

LEMMA ConsumerLedger ==
  ASSUME IInv, ConsumerStep
  PROVE  [Ledger!Next]_(Ledger!vars)
<1>1. CASE HandleAction(Consumer)
  BY <1>1, HandleActionLedger DEF Workers
<1>2. CASE DeleteEntry \/ SaveDynamoError \/ SaveSqlError
  BY <1>2, DeleteLedger, SaveDynamoLedger, SaveSqlLedger
<1>3. CASE Poll \/ BeginReceipt \/ FinishReceipt
  BY <1>3, QuietLedger DEF Poll, BeginReceipt, FinishReceipt, database
<1>4. CASE ReadToAddOpenId \/ SaveFailedState
  BY <1>4, QuietLedger DEF ReadToAddOpenId, SaveFailedState, database
<1>5. CASE WriteAddedOpenId
  BY <1>5, LedgerStutters
  DEF WriteAddedOpenId, Book, ErrorIsOpen, redis, database
<1>6. QED
  BY <1>1, <1>2, <1>3, <1>4, <1>5 DEF ConsumerStep

LEMMA RetrierLedger ==
  ASSUME IInv, NEW w \in Retriers, RetrierStep(w)
  PROVE  [Ledger!Next]_(Ledger!vars)
<1>1. CASE HandleAction(w)
  BY <1>1, HandleActionLedger DEF Workers
<1>2. CASE ResolveDynamo(w) \/ ResolveSql(w)
  BY <1>2, ResolveLedger
<1>3. CASE ResumeError(w) \/ GetError(w) \/ FinishRetry(w) \/ ReadToRemoveOpenId(w)
  BY <1>3, QuietLedger
  DEF ResumeError, GetError, FinishRetry, ReadToRemoveOpenId, database
<1>4. CASE WriteRemovedOpenId(w)
  BY <1>4, LedgerStutters
  DEF WriteRemovedOpenId, Book, ErrorIsOpen, redis, database
<1>5. QED
  BY <1>1, <1>2, <1>3, <1>4 DEF RetrierStep

LEMMA FailureLedger ==
  ASSUME Failure
  PROVE  [Ledger!Next]_(Ledger!vars)
<1>1. CASE ConsumerCatches \/ ConsumerDies \/ LoadOpenErrorsFails \/ Crash
  BY <1>1, QuietLedger
  DEF ConsumerCatches, ActionThrows, ConsumerDies, LoadOpenErrorsFails, Crash,
      database
<1>2. CASE \E w \in Workers : MissMarker(w)
  BY <1>2, QuietLedger DEF MissMarker, database
<1>3. CASE \E w \in Retriers : RetryThrows(w) \/ TrackerThrows(w)
  BY <1>3, QuietLedger DEF RetryThrows, TrackerThrows, ActionThrows, database
<1>4. CASE \E w \in Wallets : CallbackEnds(w)
  BY <1>4, QuietLedger DEF CallbackEnds, database
<1>5. QED
  BY <1>1, <1>2, <1>3, <1>4 DEF Failure

\* Ingestion implements the ledger: whatever interleaving, failure or restart,
\* what is seen of it is entries deleted when they are settled, actions
\* handled in order and errors booked and closed.
THEOREM Refinement == Spec => ImplementsLedger
<1>1. Init => Ledger!Init
  BY DEF Init, Ledger!Init, ErrorIsOpen
<1>2. IInv /\ [Next]_vars => [Ledger!Next]_(Ledger!vars)
  <2>1. SUFFICES ASSUME IInv, [Next]_vars PROVE [Ledger!Next]_(Ledger!vars)
    OBVIOUS
  <2>2. CASE Publish \/ ConsumerStep \/ Failure
    BY <2>1, <2>2, PublishLedger, ConsumerLedger, FailureLedger
  <2>3. CASE LoadOpenErrors \/ Quiescent \/ UNCHANGED vars
    BY <2>3, QuietLedger DEF LoadOpenErrors, Quiescent, vars, database
  <2>4. CASE \E w \in Retriers : RetrierStep(w)
    BY <2>1, <2>4, RetrierLedger
  <2>5. CASE \E w \in Wallets : StartCallback(w) \/ WalletStep(w)
    <3>1. PICK w \in Wallets : StartCallback(w) \/ WalletStep(w)
      BY <2>5
    <3>2. CASE HandleAction(w)
      BY <2>1, <3>2, HandleActionLedger DEF Workers
    <3>3. CASE StartCallback(w) \/ NextReceipt(w)
      BY <3>3, QuietLedger DEF StartCallback, NextReceipt, database
    <3>4. QED
      BY <3>1, <3>2, <3>3 DEF WalletStep
  <2>6. QED
    BY <2>1, <2>2, <2>3, <2>4, <2>5 DEF Next
<1>3. QED
  BY <1>1, <1>2, Invariant, PTL DEF Spec, ImplementsLedger, Ledger!Spec
=============================================================================
