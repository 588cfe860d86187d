---------------------------- MODULE ReceiptLedger ----------------------------
(***************************************************************************)
(* What receipt ingestion promises, without saying how: an entry leaves    *)
(* the stream only when its receipt is handled or booked as an open error, *)
(* an error is closed only when its receipt is handled, and the actions of *)
(* a receipt are handled in their order.  ReceiptIngestion implements it.  *)
(***************************************************************************)
EXTENDS Integers

CONSTANTS Receipts, NumActions, FailedReceipts, NumEntries, ReceiptOf

VARIABLES
  published,  \* entries appended so far
  stream,     \* entries not deleted
  handled,    \* receipt actions marked as handled
  open        \* ids of open errors: a receipt and the action that failed

vars == <<published, stream, handled, open>>

Done(r, i) == r \in FailedReceipts \/ <<r, i>> \in handled

ReceiptDone(r) == \A i \in 1 .. NumActions[r] : Done(r, i)

Init ==
  /\ published = 0
  /\ stream = {} /\ handled = {} /\ open = {}

\* The lake indexer appends an entry.
Publish ==
  /\ published < NumEntries
  /\ published' = published + 1
  /\ stream' = stream \cup {published + 1}
  /\ UNCHANGED <<handled, open>>

\* An action is handled, after those before it in its receipt.
Handle(r, i) ==
  /\ r \notin FailedReceipts
  /\ \A j \in 1 .. i - 1 : <<r, j>> \in handled
  /\ handled' = handled \cup {<<r, i>>}
  /\ UNCHANGED <<published, stream, open>>

\* A receipt of the stream is booked as failed.
Book(r, i) ==
  /\ \E k \in stream : ReceiptOf[k] = r
  /\ open' = open \cup {<<r, i>>}
  /\ UNCHANGED <<published, stream, handled>>

\* An entry is deleted when nothing about its receipt can be lost.
Delete(k) ==
  /\ k \in stream
  /\ \/ ReceiptDone(ReceiptOf[k])
     \/ \E i \in 1 .. NumActions[ReceiptOf[k]] : <<ReceiptOf[k], i>> \in open
  /\ stream' = stream \ {k}
  /\ UNCHANGED <<published, handled, open>>

\* An error is closed once its whole receipt is handled.
Close(r, i) ==
  /\ ReceiptDone(r)
  /\ open' = open \ {<<r, i>>}
  /\ UNCHANGED <<published, stream, handled>>

Next ==
  \/ Publish
  \/ \E k \in stream : Delete(k)
  \/ \E r \in Receipts : \E i \in 1 .. NumActions[r] :
       Handle(r, i) \/ Book(r, i) \/ Close(r, i)

Spec == Init /\ [][Next]_vars
=============================================================================
