--------------------------- MODULE DataMigration ---------------------------
(***************************************************************************)
(* DynamoDataMigration copies the rows of PostgreSQL to DynamoDB, and      *)
(* DynamoCheckMigration reports the records that differ, both beside a     *)
(* running indexer and API.  One DAO and one table of its records are      *)
(* modelled.  Rows are read by chunks, with an offset and no order; a      *)
(* chunk is then written, or compared, record by record.                   *)
(* A record is reduced to a number, a text and the claims of a bounty: the *)
(* check compares only what isNaN takes for numbers, and takes the claims  *)
(* of a bounty from its row on both sides.                                 *)
(***************************************************************************)
EXTENDS Integers, Sequences, FiniteSets, StoreWrites

CONSTANTS
  Records,
  Dao,                \* the record of the DAO
  Nothing,
  MigrationChunk,     \* chunkSize of getEntities, 20
  CheckChunk,         \* chunkSize of getEntities of the check, 100
  FirstTable,         \* the records at first, in the order a query finds them
  Beginnings,         \* bounds: which rows are listed, and which items there are, at first
  DataScenarios       \* bounds: what happens at most in one behaviour

\* The kinds of records migrateX differ by.
Kinds == {"proposals", "notifications", "bounties", "errorIds"}

ASSUME DataAssumption ==
  /\ MigrationChunk \in Nat \ {0} /\ CheckChunk \in Nat \ {0}
  /\ Dao \notin Records /\ Nothing \notin Records \cup {Dao}
  /\ Nothing \notin [number : Nat, text : {"old", "new"}, claims : Nat, listed : BOOLEAN]
  /\ FirstTable \in Seq(Records)
  /\ \A i, j \in DOMAIN FirstTable : FirstTable[i] = FirstTable[j] => i = j
  /\ Beginnings \subseteq [unlisted : SUBSET Records, stored : SUBSET (Records \cup {Dao})]
  /\ DataScenarios \subseteq
       [kind : Kinds, migrations : Nat, checks : Nat, creations : Nat, changes : Nat,
        removals : Nat, breaks : Nat]

VARIABLES
  table,              \* the records of the DAO, in the order a query finds them
  rows, items,        \* what PostgreSQL and DynamoDB have of them, and of the DAO
  list,               \* the item beside them: mappings, ids of an inbox, ids of errors
  writer,             \* the change a live handler is making
  migration, check,   \* the two scripts
  left,               \* what the scenario still allows
  \* history
  touched,            \* records a handler wrote since the migration began
  moved,              \* since then, a row came forward, or fell behind the last chunk
  undisturbed         \* nothing was written since the check began

dataVars ==
  <<table, rows, items, list, writer, migration, check, left, touched, moved, undisturbed>>

NoWriter == [step |-> "idle", id |-> Nothing, new |-> Nothing]
NoMigration == [step |-> "idle", chunk |-> 0, chunks |-> 0, held |-> {}, list |-> {}]
NoCheck == [step |-> "idle", start |-> 0, held |-> <<>>, size |-> 0, reported |-> {}]

\* A row: "listed" says that the error is open, the notification recent, or
\* that the bounty has a context.
Row(n, t, c, l) == [number |-> n, text |-> t, claims |-> c, listed |-> l]

\* Before the feature flags are switched on: items are missing, or old.
DataInit ==
  /\ left \in DataScenarios
  /\ table = FirstTable
  /\ \E begin \in Beginnings, n \in 0 .. 1, t \in {"old", "new"},
        c \in IF left.kind = "bounties" THEN 0 .. 1 ELSE {0} :
       /\ rows = [r \in {table[i] : i \in DOMAIN table} \cup {Dao} |->
                   Row(1, "new", 0, r \notin begin.unlisted)]
       /\ items = [r \in begin.stored |-> Row(IF r = Dao THEN 1 ELSE n, t, c, TRUE)]
  /\ list = {}
  /\ writer = NoWriter /\ migration = NoMigration /\ check = NoCheck
  /\ touched = {} /\ moved = FALSE /\ undisturbed = FALSE

Take(f) == left[f] > 0 /\ left' = [left EXCEPT ![f] = @ - 1]

-----------------------------------------------------------------------------
(* Places                                                                  *)

\* The conditions of notifications are part of the query, so that the offset
\* counts the recent ones only.
Asked(i) == left.kind = "notifications" => rows[table[i]].listed

Place(i) == Cardinality({j \in 1 .. i : Asked(j)})

\* Sequence s without the element at place k, and with e at place k.
WithoutAt(s, k) == [i \in 1 .. Len(s) - 1 |-> IF i < k THEN s[i] ELSE s[i + 1]]

WithAt(s, k, e) ==
  [i \in 1 .. Len(s) + 1 |-> IF i < k THEN s[i] ELSE IF i = k THEN e ELSE s[i - 1]]

-----------------------------------------------------------------------------
(* Live handlers: the item first, then the row; an archived item counts as *)
(* none                                                                    *)

Touches(r) == touched' = touched \cup {r} /\ undisturbed' = FALSE

BeginWrite(step, r, new) ==
  /\ writer.step = "idle"
  /\ writer' = [step |-> step, id |-> r, new |-> new]
  /\ Touches(r)
  /\ UNCHANGED <<table, rows, items, list, migration, check, moved>>

BeginCreate(r) ==
  /\ Take("creations") /\ r \notin DOMAIN rows \cup DOMAIN items
  /\ BeginWrite("item", r, Row(1, "new", 0, TRUE))

BeginChange(r) ==
  /\ Take("changes") /\ r \in DOMAIN rows
  /\ \/ BeginWrite("item", r, [rows[r] EXCEPT !.number = @ + 1])
     \/ left.kind = "bounties" /\ BeginWrite("item", r, [rows[r] EXCEPT !.claims = @ + 1])

BeginRemove(r) ==
  /\ Take("removals") /\ r \in DOMAIN rows \ {Dao}
  /\ BeginWrite("archive", r, Nothing)

WriteItem ==
  /\ writer.step \in {"item", "archive"}
  /\ IF writer.step = "archive"
       THEN items' = [x \in DOMAIN items \ {writer.id} |-> items[x]]
       ELSE items' = Upsert(items, writer.id, writer.new)
  /\ list' = IF writer.id = Dao THEN list
             ELSE IF writer.step = "item" /\ writer.new.listed THEN list \cup {writer.id}
             ELSE list \ {writer.id}
  /\ writer' = [writer EXCEPT !.step = "row"]
  /\ Touches(writer.id)
  /\ UNCHANGED <<table, rows, migration, check, moved, left>>

\* Another row than r comes to an earlier place, or behind the chunks that were
\* counted.
Displaces(r) ==
  LET room == migration.chunks * MigrationChunk
  IN  \E i \in DOMAIN table, k \in DOMAIN table' :
        /\ table[i] # r /\ table'[k] = table[i]
        /\ Place(k)' < Place(i) \/ (Place(i) <= room /\ room < Place(k)')

\* A row that is written may come to any place: PostgreSQL finds room for the new
\* version anywhere, and a query that joins other tables is paged by the key, a
\* text.  The others keep their order.
WriteRow ==
  LET r == writer.id
      others == IF r \in DOMAIN rows
                THEN WithoutAt(table, CHOOSE i \in DOMAIN table : table[i] = r) ELSE table
  IN  /\ writer.step = "row"
      /\ rows' = IF writer.new = Nothing THEN [x \in DOMAIN rows \ {r} |-> rows[x]]
                 ELSE Upsert(rows, r, writer.new)
      /\ IF r = Dao THEN table' = table
         ELSE IF writer.new = Nothing THEN table' = others
         ELSE \E k \in 1 .. Len(others) + 1 : table' = WithAt(others, k, r)
      /\ writer' = NoWriter
      /\ Touches(r)
      /\ UNCHANGED <<items, list, migration, check, left>>
      /\ moved' = (moved \/ Displaces(r))

-----------------------------------------------------------------------------
(* DynamoDataMigration                                                     *)

FullChunkCount(n, size) == n \div size  \* Mutant: no chunk for the rest
ChunkCount(n, size) == (n - (n % size)) \div size + 1

MigrationIdle == migration.step \in {"idle", "done"}

\* Handlers that are writing now may go on during the migration.
NewHistory ==
  /\ touched' = IF writer.step = "idle" THEN {} ELSE {writer.id}
  /\ moved' = FALSE

\* count(), without the conditions of find.
StartMigration ==
  /\ Take("migrations") /\ MigrationIdle /\ left.kind # "errorIds"
  /\ migration' = [NoMigration EXCEPT
                     !.step = "chunk", !.chunks = ChunkCount(Len(table), MigrationChunk)]
  /\ NewHistory /\ undisturbed' = FALSE
  /\ UNCHANGED <<table, rows, items, list, writer, check>>

\* migrateErrorIds reads every open error, and saves the ids as one item.
StartListMigration ==
  /\ Take("migrations") /\ MigrationIdle /\ left.kind = "errorIds"
  /\ migration' = [NoMigration EXCEPT
                     !.step = "saveList",
                     !.list = {r \in DOMAIN rows \ {Dao} : rows[r].listed}]
  /\ NewHistory /\ undisturbed' = FALSE
  /\ UNCHANGED <<table, rows, items, list, writer, check>>

\* Notifications of two weeks are asked for, bounties without a context dropped.
Wanted(row) == left.kind \in {"notifications", "bounties"} => row.listed

\* find({take, skip}): what is asked for at these places, as it is now.
Found ==
  LET skip == migration.chunk * MigrationChunk
      places == {i \in DOMAIN table :
                   Asked(i) /\ skip < Place(i) /\ Place(i) <= skip + MigrationChunk}
  IN  {f \in {[id |-> table[i], row |-> rows[table[i]]] : i \in places} : Wanted(f.row)}

ReadChunk ==
  /\ migration.step = "chunk"
  /\ IF migration.chunk = migration.chunks
       THEN migration' = [migration EXCEPT !.step = "done"]
       ELSE migration' = [migration EXCEPT
              !.step = "put", !.chunk = @ + 1,
              !.held = Found, !.list = {f.id : f \in Found}]
  /\ UNCHANGED <<table, rows, items, list, writer, check, left, touched, moved, undisturbed>>

\* batchPut writes the items of a chunk in any order, over what is there.
PutOne ==
  /\ migration.step = "put"
  /\ \E f \in migration.held :
       /\ items' = Upsert(items, f.id, f.row)
       /\ migration' = [migration EXCEPT !.held = @ \ {f}]
  /\ undisturbed' = FALSE
  /\ UNCHANGED <<table, rows, list, writer, check, left, touched, moved>>

\* The mapping of a bounty is put beside its item.
PutMapping ==
  /\ left.kind = "bounties" /\ migration.step = "put"
  /\ \E r \in migration.list :
       /\ list' = list \cup {r}
       /\ migration' = [migration EXCEPT !.list = @ \ {r}]
  /\ UNCHANGED <<table, rows, items, writer, check, left, touched, moved, undisturbed>>

\* setAccountsNotificationIds reads the ids of an inbox and adds the chunk's.
ReadList ==
  /\ migration.step = "put" /\ migration.held = {} /\ left.kind = "notifications"
  /\ migration' = [migration EXCEPT !.step = "saveList", !.list = @ \cup list]
  /\ UNCHANGED <<table, rows, items, list, writer, check, left, touched, moved, undisturbed>>

SaveList ==
  /\ migration.step = "saveList"
  /\ list' = migration.list
  /\ migration' = [migration EXCEPT
                     !.step = IF left.kind = "errorIds" THEN "done" ELSE "chunk"]
  /\ UNCHANGED <<table, rows, items, writer, check, left, touched, moved, undisturbed>>

EndChunk ==
  /\ migration.step = "put" /\ migration.held = {}
  /\ left.kind = "proposals" \/ (left.kind = "bounties" /\ migration.list = {})
  /\ migration' = [migration EXCEPT !.step = "chunk"]
  /\ UNCHANGED <<table, rows, items, list, writer, check, left, touched, moved, undisturbed>>

\* A call fails, or the process ends: the migration is over, its flag cleared.
BreakMigration ==
  /\ Take("breaks") /\ ~MigrationIdle
  /\ migration' = NoMigration
  /\ UNCHANGED <<table, rows, items, list, writer, check, touched, moved, undisturbed>>

-----------------------------------------------------------------------------
(* DynamoCheckMigration                                                    *)

\* deepCompare throws for a missing item and for numbers that differ; it takes
\* two texts for equal (isNaN of both), and checkBounty gives it the claims of
\* the row for those of the item, or none, which it takes for equal too.
Differs(r, row) == r \notin DOMAIN items \/ items[r].number # row.number

StartCheck ==
  /\ Take("checks") /\ check.step \in {"idle", "done"} /\ left.kind \in {"proposals", "bounties"}
  /\ check' = [NoCheck EXCEPT
                 !.step = "dao", !.held = <<[id |-> Dao, row |-> rows[Dao]]>>]
  /\ undisturbed' = (writer.step = "idle")
  /\ UNCHANGED <<table, rows, items, list, writer, migration, touched, moved>>

\* A DAO that differs is reported, and its records are not looked at.
CheckDao ==
  /\ check.step = "dao"
  /\ IF Differs(Dao, check.held[1].row)
       THEN check' = [check EXCEPT !.step = "done", !.reported = {Dao}]
       ELSE check' = [check EXCEPT !.step = "chunk"]
  /\ UNCHANGED <<table, rows, items, list, writer, migration, left, touched, moved, undisturbed>>

\* The rows at these places of the table, as they are now.
RowsAt(skip, n) ==
  LET last == IF skip + n < Len(table) THEN skip + n ELSE Len(table)
  IN  [i \in 1 .. last - skip |-> [id |-> table[skip + i], row |-> rows[table[skip + i]]]]

ReadCheckChunk ==
  LET found == RowsAt(check.start, CheckChunk)
  IN  /\ check.step = "chunk"
      /\ check' = [check EXCEPT
                     !.step = "compare", !.start = @ + CheckChunk,
                     !.held = found, !.size = Len(found)]
      /\ UNCHANGED
           <<table, rows, items, list, writer, migration, left, touched, moved, undisturbed>>

\* Five at a time: each of the first five may be the next to be compared.
Compare ==
  /\ check.step = "compare"
  /\ \E i \in DOMAIN check.held :
       /\ i <= 5
       /\ check' = [check EXCEPT
            !.held = WithoutAt(@, i),
            !.reported = IF Differs(check.held[i].id, check.held[i].row)
                           THEN @ \cup {check.held[i].id} ELSE @]
  /\ UNCHANGED <<table, rows, items, list, writer, migration, left, touched, moved, undisturbed>>

EveryChunkLast(n) == TRUE  \* Mutant: the first chunk is taken for the last
LastChunk(n) == n # CheckChunk

NextCheckChunk ==
  /\ check.step = "compare" /\ check.held = <<>>
  /\ check' = [check EXCEPT !.step = IF LastChunk(check.size) THEN "done" ELSE "chunk"]
  /\ UNCHANGED <<table, rows, items, list, writer, migration, left, touched, moved, undisturbed>>

-----------------------------------------------------------------------------

DataNext ==
  \/ \E r \in Records \cup {Dao} : BeginCreate(r) \/ BeginChange(r) \/ BeginRemove(r)
  \/ WriteItem \/ WriteRow
  \/ StartMigration \/ StartListMigration \/ ReadChunk \/ PutOne \/ PutMapping
  \/ ReadList \/ SaveList \/ EndChunk \/ BreakMigration
  \/ StartCheck \/ CheckDao \/ ReadCheckChunk \/ Compare \/ NextCheckChunk

DataSpec == DataInit /\ [][DataNext]_dataVars

-----------------------------------------------------------------------------
(* Properties                                                              *)

\* A migration that ended without an error has left no row behind: each row no
\* handler wrote meanwhile has its item, and its entry in the list, as long as
\* what handlers wrote, in whatever order a query then finds it, brought no other
\* row forward across the offset of find, and pushed none behind the chunks that
\* were counted at the start.  Rows created meanwhile in front of others, a
\* migration broken off before, and the items it finds make no difference.
MigrationComplete ==
  migration.step = "done" /\ ~moved =>
    \A r \in DOMAIN rows \ (touched \cup {Dao}) :
      /\ left.kind # "errorIds" /\ Wanted(rows[r])
           => r \in DOMAIN items /\ items[r] = rows[r]
      /\ left.kind # "proposals" /\ rows[r].listed => r \in list

\* A check that nothing disturbed reports the DAO alone if it has no item or
\* another number, and otherwise exactly the records of which that is true,
\* wherever the chunks begin and in whatever order rows are compared.  A text, or
\* the claims of a bounty, that differ are not reported (DynamoCheckMigration).
CheckExact ==
  LET differing == {r \in DOMAIN rows : r \notin DOMAIN items \/ items[r].number # rows[r].number}
  IN  check.step = "done" /\ undisturbed =>
        check.reported = IF Dao \in differing THEN {Dao} ELSE differing
=============================================================================
