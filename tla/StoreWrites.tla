----------------------------- MODULE StoreWrites -----------------------------
(***************************************************************************)
(* What a write leaves in a store: save of TypeORM and an update of        *)
(* DynamoDB write the given fields over those that are there.              *)
(***************************************************************************)

\* The function f with the fields of g written over it.
Over(f, g) ==
  [x \in DOMAIN f \cup DOMAIN g |-> IF x \in DOMAIN g THEN g[x] ELSE f[x]]

\* The function f with the value v for the key k.
Upsert(f, k, v) == [x \in DOMAIN f \cup {k} |-> IF x = k THEN v ELSE f[x]]
=============================================================================
