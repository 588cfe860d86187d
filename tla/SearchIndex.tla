---------------------------- MODULE SearchIndex ----------------------------
(***************************************************************************)
(* The search index of DAOs, proposals or bounties.  Handlers index a      *)
(* document when they have saved its record; a migration of the mapping    *)
(* copies the index to another one, deletes it, creates it anew and copies *)
(* the documents back.  A copy is a task of the server, which goes on when *)
(* the call of the client has timed out.  It reads what a search would     *)
(* find: what was written before the index was last refreshed.             *)
(***************************************************************************)
EXTENDS Integers

CONSTANTS
  Documents,
  NoIndex,
  IndexScenarios      \* bounds: what happens at most in one behaviour

ASSUME IndexAssumption ==
  IndexScenarios \subseteq [saves : Nat, mappings : Nat, interruptions : Nat]
ASSUME NoIndexAssumption == \A D \in SUBSET Documents : NoIndex \notin [D -> Nat]

VARIABLES
  source, dest,       \* version of each document, or NoIndex
  sourceShows, destShows,  \* what a search finds there
  latest,             \* history: the version a handler has indexed last
  indexing,           \* the call of index() under way
  mapping,            \* the migration: its step, and the documents still to copy
  strays,             \* copies whose call has timed out
  remaining,          \* what the scenario still allows
  raced               \* history: documents written during a migration or a stray copy,
                      \* or not shown yet when a migration began to copy

indexVersions == <<source, dest, sourceShows, destShows>>
searchVars == <<indexVersions, latest, indexing, mapping, strays, remaining, raced>>

NoCall == [step |-> "idle", doc |-> NoIndex, version |-> 0, found |-> FALSE]

SearchInit ==
  /\ remaining \in IndexScenarios
  /\ source = [d \in Documents |-> 1] /\ latest = source /\ sourceShows = source
  /\ dest = NoIndex /\ destShows = <<>>
  /\ indexing = NoCall
  /\ mapping = [step |-> "idle", copy |-> <<>>]
  /\ strays = {} /\ raced = {}

Uses(f) == remaining[f] > 0 /\ remaining' = [remaining EXCEPT ![f] = @ - 1]

DocumentsIn(index) == IF index = NoIndex THEN {} ELSE DOMAIN index

Migrating == mapping.step \notin {"idle", "done"}

-----------------------------------------------------------------------------
(* index(): get, then update or index                                      *)

FindDocument(d) ==
  /\ Uses("saves") /\ indexing.step = "idle"
  /\ indexing' = [step |-> "write", doc |-> d, version |-> latest[d] + 1,
                  found |-> d \in DocumentsIn(source)]
  /\ raced' = IF Migrating \/ strays # {} THEN raced \cup {d} ELSE raced
  /\ UNCHANGED <<indexVersions, latest, mapping, strays>>

Put(index, d, v) ==
  [x \in DocumentsIn(index) \cup {d} |-> IF x = d THEN v ELSE index[x]]

\* A document found before and gone now is not updated, and the call throws;
\* a new one makes the index, if it is missing.  A document written while
\* nothing else goes on is not at stake any more.
WriteDocument ==
  LET d == indexing.doc
      there == d \in DocumentsIn(source)
      overlapped == Migrating \/ strays # {}
  IN  /\ indexing.step = "write"
      /\ indexing' = NoCall
      /\ IF indexing.found => there
           THEN /\ source' = Put(source, d, indexing.version)
                /\ latest' = [latest EXCEPT ![d] = indexing.version]
                /\ raced' = IF overlapped THEN raced \cup {d} ELSE raced \ {d}
           ELSE UNCHANGED <<source, latest, raced>>
      /\ UNCHANGED <<dest, sourceShows, destShows, mapping, strays, remaining>>

Content(index) == IF index = NoIndex THEN <<>> ELSE index

\* The server refreshes an index every second.
Refresh ==
  /\ \/ sourceShows' = Content(source) /\ UNCHANGED destShows
     \/ destShows' = Content(dest) /\ UNCHANGED sourceShows
  /\ UNCHANGED <<source, dest, latest, indexing, mapping, strays, remaining, raced>>

-----------------------------------------------------------------------------
(* migrateIndexMapping                                                     *)

Enters(step) == mapping' = [step |-> step, copy |-> <<>>]

\* A call of a handler may be under way.
BeginMapping ==
  /\ Uses("mappings") /\ ~Migrating
  /\ Enters("createDest")
  /\ raced' = IF indexing.step = "idle" THEN raced ELSE raced \cup {indexing.doc}
  /\ UNCHANGED <<indexVersions, latest, indexing, strays>>

EmptyIndex(index) == <<>>  \* Mutant: what an earlier migration left is dropped
Created(index) == IF index = NoIndex THEN <<>> ELSE index

CreateDest ==
  /\ mapping.step = "createDest" /\ dest' = Created(dest) /\ Enters("reindexDest")
  /\ UNCHANGED <<source, sourceShows, destShows, latest, indexing, strays, remaining, raced>>

CreateSource ==
  /\ mapping.step = "createSource" /\ source' = Created(source) /\ Enters("reindexSource")
  /\ UNCHANGED <<dest, sourceShows, destShows, latest, indexing, strays, remaining, raced>>

\* The task copies what is found; a missing index is an error.
Reindex(step, from, shows, copying) ==
  /\ mapping.step = step
  /\ IF from = NoIndex THEN Enters("idle")
     ELSE mapping' = [step |-> copying, copy |-> shows]
  /\ UNCHANGED <<indexVersions, latest, indexing, strays, remaining>>

\* Documents with a version that is not found.
Hidden == {d \in DocumentsIn(source) : ~(d \in DOMAIN sourceShows /\ sourceShows[d] = source[d])}

ReindexDest ==
  /\ Reindex("reindexDest", source, sourceShows, "copyToDest")
  /\ raced' = raced \cup Hidden

ReindexSource ==
  /\ Reindex("reindexSource", dest, destShows, "copyToSource")
  /\ UNCHANGED raced

Less(copy, d) == [x \in DOMAIN copy \ {d} |-> copy[x]]

CopyToDest ==
  /\ mapping.step = "copyToDest"
  /\ \E d \in DOMAIN mapping.copy :
       /\ dest' = Put(dest, d, mapping.copy[d])
       /\ mapping' = [mapping EXCEPT !.copy = Less(@, d)]
  /\ UNCHANGED <<source, sourceShows, destShows, latest, indexing, strays, remaining, raced>>

CopyToSource ==
  /\ mapping.step = "copyToSource"
  /\ \E d \in DOMAIN mapping.copy :
       /\ source' = Put(source, d, mapping.copy[d])
       /\ mapping' = [mapping EXCEPT !.copy = Less(@, d)]
  /\ UNCHANGED <<dest, sourceShows, destShows, latest, indexing, strays, remaining, raced>>

\* The call returns when every document is copied and the index it was copied to
\* is refreshed.  waitOnReIndex compares a count with itself, and never waits.
Waited ==
  /\ mapping.step \in {"copyToDest", "copyToSource"} /\ mapping.copy = <<>>
  /\ IF mapping.step = "copyToDest"
       THEN Enters("deleteSource") /\ destShows' = Content(dest) /\ UNCHANGED sourceShows
       ELSE Enters("deleteDest") /\ sourceShows' = Content(source) /\ UNCHANGED destShows
  /\ UNCHANGED <<source, dest, latest, indexing, strays, remaining, raced>>

DeleteSource ==
  /\ mapping.step = "deleteSource" /\ source' = NoIndex /\ sourceShows' = <<>>
  /\ Enters("createSource")
  /\ UNCHANGED <<dest, destShows, latest, indexing, strays, remaining, raced>>

DeleteDest ==
  /\ mapping.step = "deleteDest" /\ dest' = NoIndex /\ destShows' = <<>>
  /\ Enters("done")
  /\ UNCHANGED <<source, sourceShows, latest, indexing, strays, remaining, raced>>

\* A call fails or times out, or the process ends; a copy goes on without it.
Interrupt ==
  /\ Uses("interruptions") /\ Migrating
  /\ strays' = IF mapping.copy = <<>> THEN strays
               ELSE strays \cup {[to |-> mapping.step, copy |-> mapping.copy]}
  /\ Enters("idle")
  /\ UNCHANGED <<indexVersions, latest, indexing, raced>>

StrayCopies ==
  /\ \E s \in strays : \E d \in DOMAIN s.copy :
       /\ strays' = (strays \ {s})
                      \cup (IF DOMAIN s.copy = {d} THEN {}
                            ELSE {[s EXCEPT !.copy = Less(@, d)]})
       /\ IF s.to = "copyToDest"
            THEN dest' = Put(dest, d, s.copy[d]) /\ UNCHANGED source
            ELSE source' = Put(source, d, s.copy[d]) /\ UNCHANGED dest
  /\ UNCHANGED <<sourceShows, destShows, latest, indexing, mapping, remaining, raced>>

SearchNext ==
  \/ \E d \in Documents : FindDocument(d)
  \/ WriteDocument \/ Refresh
  \/ BeginMapping \/ CreateDest \/ ReindexDest \/ CopyToDest \/ Waited
  \/ DeleteSource \/ CreateSource \/ ReindexSource \/ CopyToSource \/ DeleteDest
  \/ Interrupt \/ StrayCopies

SearchSpec == SearchInit /\ [][SearchNext]_searchVars

-----------------------------------------------------------------------------
(* Properties                                                              *)

Has(index, d) == d \in DocumentsIn(index) /\ index[d] = latest[d]

\* Migrations of the mapping lose no document, wherever they are interrupted
\* and however often they are started again over what was left behind: the
\* latest version of each document is in one of the two indices, and in its own
\* index after a migration has ended without an error, unless a handler wrote
\* the document while a migration or a copy was under way, or the index had not
\* been refreshed since it was written when a migration began to copy.
DocumentsKept ==
  \A d \in Documents \ raced :
    /\ Has(source, d) \/ Has(dest, d)
    /\ mapping.step = "done" => Has(source, d)
=============================================================================
