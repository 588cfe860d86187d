------------------------- MODULE MCReceiptIngestion -------------------------
(***************************************************************************)
(* Instances of ReceiptIngestion for TLC.                                  *)
(***************************************************************************)
EXTENDS ReceiptIngestion, TLC

CONSTANTS r1, r2, r3

\* r1 carries two actions, the others one.
MCNumActions == [r \in Receipts |-> IF r = r1 THEN 2 ELSE 1]

\* r2 follows r1 in the same transaction; r3 is another transaction.
MCNextInTx == [r \in Receipts |-> IF r = r1 THEN r2 ELSE None]

\* Each entry carries a receipt of its own.
MCReceiptOf == (1 :> r1) @@ (2 :> r2)
MCThreeReceipts == MCReceiptOf @@ (3 :> r3)

MCShortReceipts == (1 :> r2) @@ (2 :> r3)

\* The lake indexer delivers r1 twice.
MCRedelivered == MCThreeReceipts @@ (4 :> r1)
=============================================================================
