-------------------------- MODULE Migrations_proofs --------------------------
(***************************************************************************)
(* Proofs about the migrations: SearchIndex, for every set of documents    *)
(* and every number of saves, migrations and interruptions, and            *)
(* DataMigration, for every table, size of chunks and number of handlers'  *)
(* writes.                                                                 *)
(***************************************************************************)
EXTENDS SearchIndex, DataMigration, FiniteSetTheorems, TLAPS

(***************************************************************************)
(* The search index                                                        *)
(***************************************************************************)
Indices == UNION {[D -> Nat] : D \in SUBSET Documents}

MappingSteps == {"idle", "createDest", "reindexDest", "copyToDest", "deleteSource",
                 "createSource", "reindexSource", "copyToSource", "deleteDest", "done"}

SearchTypeOK ==
  /\ source \in Indices \cup {NoIndex}
  /\ dest \in Indices \cup {NoIndex}
  /\ latest \in [Documents -> Nat]
  /\ indexing.step = "write" => indexing.doc \in Documents /\ indexing.version \in Nat
  /\ mapping \in [step : MappingSteps, copy : Indices]
  /\ strays \subseteq [to : MappingSteps, copy : Indices]
  /\ ~Migrating => mapping.copy = <<>>

Fresh(copy, d) == d \in DOMAIN copy => copy[d] = latest[d]

\* What holds of a document that is not raced.  While a copy goes on, the
\* document is where it is copied to or still to be copied; the source holds no
\* old version of it, nor does a copy whose call has timed out.
KeptInv(d) ==
  /\ Has(source, d) \/ Has(dest, d)
  /\ d \in DocumentsIn(source) => source[d] = latest[d]
  /\ Fresh(mapping.copy, d)
  /\ \A s \in strays : Fresh(s.copy, d)
  /\ mapping.step = "copyToDest" => Has(dest, d) \/ d \in DOMAIN mapping.copy
  /\ mapping.step \in {"deleteSource", "createSource", "reindexSource", "copyToSource"}
       => Has(dest, d)
  /\ mapping.step = "copyToSource" => Has(source, d) \/ d \in DOMAIN mapping.copy
  /\ mapping.step \in {"deleteDest", "done"} => Has(source, d)

SearchInv == SearchTypeOK /\ \A d \in Documents \ raced : KeptInv(d)

\* What a search finds: nothing of a source that is not there any more, and, when
\* the source is about to be made anew, every document in the destination.
ShowsInv ==
  /\ sourceShows \in Indices /\ destShows \in Indices
  /\ DOMAIN sourceShows \subseteq DocumentsIn(source)
  /\ mapping.step \in {"deleteSource", "createSource", "reindexSource"} =>
       \A d \in Documents \ raced : d \in DOMAIN destShows /\ destShows[d] = latest[d]

-----------------------------------------------------------------------------
(* The operators of the index                                              *)

LEMMA EmptyIsIndex == <<>> \in Indices /\ DOMAIN <<>> = {}
<1>1. <<>> \in [{} -> Nat]
  OBVIOUS
<1> QED
  BY <1>1 DEF Indices

LEMMA NoIndexIsNone == NoIndex \notin Indices
BY NoIndexAssumption DEF Indices

\* An index that a document is put in has it, and all it had before.
LEMMA PutAdds ==
  ASSUME NEW index \in Indices \cup {NoIndex}, NEW d \in Documents, NEW v \in Nat
  PROVE  /\ Put(index, d, v) \in Indices
         /\ DocumentsIn(Put(index, d, v)) = DocumentsIn(index) \cup {d}
         /\ Put(index, d, v)[d] = v
         /\ \A e \in DocumentsIn(index) : e # d => Put(index, d, v)[e] = index[e]
<1>1. DocumentsIn(index) \in SUBSET Documents /\ \A e \in DocumentsIn(index) : index[e] \in Nat
  BY NoIndexIsNone DEF DocumentsIn, Indices
<1>2. Put(index, d, v) \in [DocumentsIn(index) \cup {d} -> Nat]
  BY <1>1 DEF Put
<1>3. DocumentsIn(index) \cup {d} \in SUBSET Documents
  BY <1>1
<1>4. Put(index, d, v) \in Indices
  BY <1>2, <1>3 DEF Indices
<1>5. DocumentsIn(Put(index, d, v)) = DOMAIN Put(index, d, v)
  BY <1>4, NoIndexIsNone DEF DocumentsIn
<1> QED
  BY <1>4, <1>5 DEF Put

LEMMA LessTakes ==
  ASSUME NEW copy \in Indices, NEW d
  PROVE  /\ Less(copy, d) \in Indices
         /\ DOMAIN Less(copy, d) = DOMAIN copy \ {d}
         /\ \A e \in DOMAIN copy \ {d} : Less(copy, d)[e] = copy[e]
<1>1. PICK D \in SUBSET Documents : copy \in [D -> Nat]
  BY DEF Indices
<1>2. Less(copy, d) \in [D \ {d} -> Nat] /\ D \ {d} \in SUBSET Documents
  BY <1>1 DEF Less
<1> QED
  BY <1>1, <1>2 DEF Less, Indices

LEMMA CreatedKeeps ==
  ASSUME NEW index \in Indices \cup {NoIndex}
  PROVE  /\ Created(index) \in Indices
         /\ DocumentsIn(Created(index)) = DocumentsIn(index)
         /\ \A e \in DocumentsIn(index) : Created(index)[e] = index[e]
BY EmptyIsIndex, NoIndexIsNone DEF Created, DocumentsIn

LEMMA IndicesHold ==
  ASSUME NEW index \in Indices
  PROVE  /\ DocumentsIn(index) = DOMAIN index
         /\ DOMAIN index \subseteq Documents
         /\ \A e \in DOMAIN index : index[e] \in Nat
BY NoIndexIsNone DEF Indices, DocumentsIn

-----------------------------------------------------------------------------
(* One lemma per action                                                    *)

LEMMA FindDocumentKeeps ==
  ASSUME SearchInv, NEW d \in Documents, FindDocument(d)
  PROVE  SearchInv'
<1>1. SearchTypeOK'
  <2>1. latest[d] + 1 \in Nat
    BY DEF SearchInv, SearchTypeOK
  <2> QED
    BY <2>1 DEF SearchInv, SearchTypeOK, FindDocument, Migrating, indexVersions
<1>2. ASSUME NEW e \in Documents \ raced' PROVE KeptInv(e)'
  <2>1. e \in Documents \ raced
    BY <1>2 DEF FindDocument
  <2> QED
    BY <2>1 DEF SearchInv, KeptInv, FindDocument, Has, Fresh, indexVersions
<1> QED
  BY <1>1, <1>2 DEF SearchInv

LEMMA WriteDocumentKeeps ==
  ASSUME SearchInv, WriteDocument
  PROVE  SearchInv'
<1> DEFINE d == indexing.doc
           v == indexing.version
           overlapped == Migrating \/ strays # {}
<1>1. d \in Documents /\ v \in Nat /\ source \in Indices \cup {NoIndex}
  BY DEF SearchInv, SearchTypeOK, WriteDocument
<1>2. CASE ~(indexing.found => d \in DocumentsIn(source))
  <2>1. UNCHANGED <<source, dest, latest, mapping, strays, raced>> /\ indexing' = NoCall
    BY <1>2 DEF WriteDocument
  <2> QED
    BY <2>1 DEF SearchInv, SearchTypeOK, KeptInv, Has, Fresh, Migrating, NoCall,
                DocumentsIn
<1>3. CASE indexing.found => d \in DocumentsIn(source)
  <2>1. /\ source' = Put(source, d, v) /\ latest' = [latest EXCEPT ![d] = v]
        /\ raced' = IF overlapped THEN raced \cup {d} ELSE raced \ {d}
        /\ UNCHANGED <<dest, mapping, strays>> /\ indexing' = NoCall
    BY <1>3 DEF WriteDocument
  <2>2. /\ source' \in Indices
        /\ DocumentsIn(source') = DocumentsIn(source) \cup {d}
        /\ source'[d] = v
        /\ \A e \in DocumentsIn(source) : e # d => source'[e] = source[e]
    BY <1>1, <2>1, PutAdds
  <2>3. latest' \in [Documents -> Nat] /\ latest'[d] = v
        /\ \A e \in Documents : e # d => latest'[e] = latest[e]
    BY <1>1, <2>1 DEF SearchInv, SearchTypeOK
  <2>4. SearchTypeOK'
    BY <2>1, <2>2, <2>3 DEF SearchInv, SearchTypeOK, NoCall, Migrating
  <2>5. ASSUME NEW e \in Documents \ raced' PROVE KeptInv(e)'
    <3>1. CASE e = d
      <4>1. ~Migrating /\ strays = {} /\ mapping.copy = <<>>
        BY <3>1, <2>1 DEF SearchInv, SearchTypeOK
      <4>2. Has(source, e)' /\ source'[e] = latest'[e]
        BY <3>1, <2>2, <2>3 DEF Has
      <4> QED
        BY <4>1, <4>2, <2>1, EmptyIsIndex DEF KeptInv, Fresh, Migrating
    <3>2. CASE e # d
      <4>1. KeptInv(e)
        BY <3>2, <2>1 DEF SearchInv
      <4>2. /\ DocumentsIn(dest)' = DocumentsIn(dest) /\ latest'[e] = latest[e]
            /\ e \in DocumentsIn(source') <=> e \in DocumentsIn(source)
            /\ e \in DocumentsIn(source) => source'[e] = source[e]
        BY <3>2, <2>1, <2>2, <2>3 DEF DocumentsIn
      <4> QED
        BY <4>1, <4>2, <2>1 DEF KeptInv, Has, Fresh
    <3> QED
      BY <3>1, <3>2
  <2> QED
    BY <2>4, <2>5 DEF SearchInv
<1> QED
  BY <1>2, <1>3

\* The steps of the migration that change only its own state.
LEMMA StepsKeep ==
  ASSUME SearchInv, ShowsInv, BeginMapping \/ ReindexDest \/ ReindexSource \/ Waited
  PROVE  SearchInv'
<1>1. CASE BeginMapping
  <2>1. /\ UNCHANGED <<source, dest, latest, indexing, strays>>
        /\ mapping' = [step |-> "createDest", copy |-> <<>>]
        /\ raced \subseteq raced'
    BY <1>1 DEF BeginMapping, Enters, indexVersions
  <2>2. SearchTypeOK'
    BY <2>1, EmptyIsIndex DEF SearchInv, SearchTypeOK, Migrating, MappingSteps
  <2>3. ASSUME NEW e \in Documents \ raced' PROVE KeptInv(e)'
    <3>1. KeptInv(e) /\ e \in Documents
      BY <2>1 DEF SearchInv
    <3> QED
      BY <3>1, <2>1, EmptyIsIndex DEF KeptInv, Has, Fresh, DocumentsIn
  <2> QED
    BY <2>2, <2>3 DEF SearchInv
<1>2. CASE ReindexDest
  <2>1. /\ UNCHANGED <<source, dest, latest, indexing, strays>>
        /\ raced' = raced \cup Hidden
        /\ \/ mapping' = [step |-> "idle", copy |-> <<>>]
           \/ source # NoIndex /\ mapping' = [step |-> "copyToDest", copy |-> sourceShows]
    BY <1>2 DEF ReindexDest, Reindex, Enters, indexVersions
  <2>2. SearchTypeOK'
    BY <2>1, EmptyIsIndex DEF SearchInv, SearchTypeOK, Migrating, MappingSteps, ShowsInv
  <2>3. ASSUME NEW e \in Documents \ raced' PROVE KeptInv(e)'
    <3>1. KeptInv(e) /\ e \in Documents /\ e \notin Hidden
      BY <2>1, <2>3 DEF SearchInv
    <3>2. /\ e \in DocumentsIn(source) => e \in DOMAIN sourceShows
          /\ e \in DOMAIN sourceShows => sourceShows[e] = latest[e]
      BY <3>1 DEF Hidden, KeptInv, ShowsInv
    <3> QED
      BY <3>1, <3>2, <2>1, EmptyIsIndex DEF KeptInv, Has, Fresh, DocumentsIn
  <2> QED
    BY <2>2, <2>3 DEF SearchInv
<1>3. CASE ReindexSource
  <2>1. /\ UNCHANGED <<source, dest, latest, indexing, strays, raced>>
        /\ mapping.step = "reindexSource"
        /\ \/ mapping' = [step |-> "idle", copy |-> <<>>]
           \/ dest # NoIndex /\ mapping' = [step |-> "copyToSource", copy |-> destShows]
    BY <1>3 DEF ReindexSource, Reindex, Enters, indexVersions
  <2>2. SearchTypeOK'
    BY <2>1, EmptyIsIndex DEF SearchInv, SearchTypeOK, Migrating, MappingSteps, ShowsInv
  <2>3. ASSUME NEW e \in Documents \ raced' PROVE KeptInv(e)'
    <3>1. KeptInv(e) /\ e \in Documents
      BY <2>1 DEF SearchInv
    <3>2. e \in DOMAIN destShows /\ destShows[e] = latest[e]
      BY <2>1, <2>3 DEF ShowsInv
    <3> QED
      BY <3>1, <3>2, <2>1, EmptyIsIndex DEF KeptInv, Has, Fresh, DocumentsIn
  <2> QED
    BY <2>2, <2>3 DEF SearchInv
<1>4. CASE Waited
  <2>1. /\ UNCHANGED <<source, dest, latest, indexing, strays, raced>>
        /\ mapping.copy = <<>>
        /\ \/ /\ mapping.step = "copyToDest"
              /\ mapping' = [step |-> "deleteSource", copy |-> <<>>]
           \/ /\ mapping.step = "copyToSource"
              /\ mapping' = [step |-> "deleteDest", copy |-> <<>>]
    BY <1>4 DEF Waited, Enters
  <2>2. SearchTypeOK'
    BY <2>1, EmptyIsIndex DEF SearchInv, SearchTypeOK, Migrating, MappingSteps
  <2>3. ASSUME NEW e \in Documents \ raced' PROVE KeptInv(e)'
    <3>1. KeptInv(e) /\ e \in Documents
      BY <2>1 DEF SearchInv
    <3> QED
      BY <3>1, <2>1, EmptyIsIndex DEF KeptInv, Has, Fresh, DocumentsIn
  <2> QED
    BY <2>2, <2>3 DEF SearchInv
<1> QED
  BY <1>1, <1>2, <1>3, <1>4

LEMMA IndicesKeep ==
  ASSUME SearchInv, CreateDest \/ CreateSource \/ DeleteSource \/ DeleteDest
  PROVE  SearchInv'
<1>1. CASE CreateDest
  <2>1. /\ UNCHANGED <<source, latest, indexing, strays, raced>>
        /\ dest' = Created(dest) /\ mapping' = [step |-> "reindexDest", copy |-> <<>>]
    BY <1>1 DEF CreateDest, Enters
  <2>2. /\ dest' \in Indices /\ DocumentsIn(dest') = DocumentsIn(dest)
        /\ \A e \in DocumentsIn(dest) : dest'[e] = dest[e]
    BY <2>1, CreatedKeeps DEF SearchInv, SearchTypeOK
  <2>3. SearchTypeOK'
    BY <2>1, <2>2, EmptyIsIndex DEF SearchInv, SearchTypeOK, Migrating, MappingSteps
  <2>4. ASSUME NEW e \in Documents \ raced' PROVE KeptInv(e)'
    <3>1. KeptInv(e) /\ e \in Documents
      BY <2>1 DEF SearchInv
    <3> QED
      BY <3>1, <2>1, <2>2, EmptyIsIndex DEF KeptInv, Has, Fresh, DocumentsIn
  <2> QED
    BY <2>3, <2>4 DEF SearchInv
<1>2. CASE CreateSource
  <2>1. /\ UNCHANGED <<dest, latest, indexing, strays, raced>>
        /\ mapping.step = "createSource"
        /\ source' = Created(source)
        /\ mapping' = [step |-> "reindexSource", copy |-> <<>>]
    BY <1>2 DEF CreateSource, Enters
  <2>2. /\ source' \in Indices /\ DocumentsIn(source') = DocumentsIn(source)
        /\ \A e \in DocumentsIn(source) : source'[e] = source[e]
    BY <2>1, CreatedKeeps DEF SearchInv, SearchTypeOK
  <2>3. SearchTypeOK'
    BY <2>1, <2>2, EmptyIsIndex DEF SearchInv, SearchTypeOK, Migrating, MappingSteps
  <2>4. ASSUME NEW e \in Documents \ raced' PROVE KeptInv(e)'
    <3>1. KeptInv(e) /\ e \in Documents
      BY <2>1 DEF SearchInv
    <3> QED
      BY <3>1, <2>1, <2>2, EmptyIsIndex DEF KeptInv, Has, Fresh, DocumentsIn
  <2> QED
    BY <2>3, <2>4 DEF SearchInv
<1>3. CASE DeleteSource
  <2>1. /\ UNCHANGED <<dest, latest, indexing, strays, raced>>
        /\ mapping.step = "deleteSource" /\ source' = NoIndex
        /\ mapping' = [step |-> "createSource", copy |-> <<>>]
    BY <1>3 DEF DeleteSource, Enters
  <2>2. SearchTypeOK'
    BY <2>1, EmptyIsIndex DEF SearchInv, SearchTypeOK, Migrating, MappingSteps
  <2>3. ASSUME NEW e \in Documents \ raced' PROVE KeptInv(e)'
    <3>1. KeptInv(e) /\ e \in Documents
      BY <2>1 DEF SearchInv
    <3> QED
      BY <3>1, <2>1, EmptyIsIndex DEF KeptInv, Has, Fresh, DocumentsIn
  <2> QED
    BY <2>2, <2>3 DEF SearchInv
<1>4. CASE DeleteDest
  <2>1. /\ UNCHANGED <<source, latest, indexing, strays, raced>>
        /\ mapping.step = "deleteDest" /\ dest' = NoIndex
        /\ mapping' = [step |-> "done", copy |-> <<>>]
    BY <1>4 DEF DeleteDest, Enters
  <2>2. SearchTypeOK'
    BY <2>1, EmptyIsIndex DEF SearchInv, SearchTypeOK, Migrating, MappingSteps
  <2>3. ASSUME NEW e \in Documents \ raced' PROVE KeptInv(e)'
    <3>1. KeptInv(e) /\ e \in Documents
      BY <2>1 DEF SearchInv
    <3> QED
      BY <3>1, <2>1, EmptyIsIndex DEF KeptInv, Has, Fresh, DocumentsIn
  <2> QED
    BY <2>2, <2>3 DEF SearchInv
<1> QED
  BY <1>1, <1>2, <1>3, <1>4

\* Copying a document that is fresh, or raced, loses nothing.
LEMMA CopyKeeps ==
  ASSUME NEW index \in Indices \cup {NoIndex}, NEW copy \in Indices,
         NEW d \in DOMAIN copy, NEW e \in Documents, Fresh(copy, e)
  PROVE  /\ Put(index, d, copy[d]) \in Indices
         /\ Has(index, e) => Has(Put(index, d, copy[d]), e)
         /\ d = e => Has(Put(index, d, copy[d]), e)
         /\ (e \in DocumentsIn(index) => index[e] = latest[e])
              => (e \in DocumentsIn(Put(index, d, copy[d]))
                    => Put(index, d, copy[d])[e] = latest[e])
<1>1. d \in Documents /\ copy[d] \in Nat
  BY IndicesHold
<1>2. DocumentsIn(Put(index, d, copy[d])) = DocumentsIn(index) \cup {d}
  BY <1>1, PutAdds
<1>3. e = d => Put(index, d, copy[d])[e] = latest[e]
  <2>1. Put(index, d, copy[d])[d] = copy[d]
    BY <1>1, PutAdds
  <2> QED
    BY <2>1 DEF Fresh
<1>4. e # d /\ e \in DocumentsIn(index) => Put(index, d, copy[d])[e] = index[e]
  BY <1>1, PutAdds
<1>5. Put(index, d, copy[d]) \in Indices
  BY <1>1, PutAdds
<1> QED
  BY <1>2, <1>3, <1>4, <1>5 DEF Has

LEMMA CopyToDestKeeps ==
  ASSUME SearchInv, CopyToDest
  PROVE  SearchInv'
<1>1. /\ UNCHANGED <<source, latest, indexing, strays, raced>>
      /\ mapping.step = "copyToDest"
      /\ mapping \in [step : MappingSteps, copy : Indices]
      /\ dest \in Indices \cup {NoIndex}
  BY DEF CopyToDest, SearchInv, SearchTypeOK
<1>2. PICK d \in DOMAIN mapping.copy :
        /\ dest' = Put(dest, d, mapping.copy[d])
        /\ mapping' = [mapping EXCEPT !.copy = Less(@, d)]
  BY DEF CopyToDest
<1>3. /\ mapping' = [step |-> "copyToDest", copy |-> Less(mapping.copy, d)]
      /\ mapping.copy \in Indices
  BY <1>1, <1>2
<1>4. /\ Less(mapping.copy, d) \in Indices
      /\ DOMAIN Less(mapping.copy, d) = DOMAIN mapping.copy \ {d}
      /\ \A e \in DOMAIN mapping.copy \ {d} : Less(mapping.copy, d)[e] = mapping.copy[e]
  BY <1>3, LessTakes
<1>5. dest' \in Indices
  BY <1>1, <1>2, <1>3, IndicesHold, PutAdds
<1>6. SearchTypeOK'
  BY <1>1, <1>3, <1>4, <1>5 DEF SearchInv, SearchTypeOK, Migrating, MappingSteps
<1>7. ASSUME NEW e \in Documents \ raced' PROVE KeptInv(e)'
  <2>1. KeptInv(e) /\ e \in Documents
    BY <1>1 DEF SearchInv
  <2>2. (Has(dest, e) => Has(dest', e)) /\ (d = e => Has(dest', e))
    BY <2>1, <1>1, <1>2, <1>3, CopyKeeps DEF KeptInv
  <2>3. Has(dest', e) <=> Has(dest, e)'
    BY <1>1 DEF Has
  <2> QED
    BY <2>1, <2>2, <2>3, <1>1, <1>3, <1>4 DEF KeptInv, Has, Fresh, DocumentsIn
<1> QED
  BY <1>6, <1>7 DEF SearchInv

LEMMA CopyToSourceKeeps ==
  ASSUME SearchInv, CopyToSource
  PROVE  SearchInv'
<1>1. /\ UNCHANGED <<dest, latest, indexing, strays, raced>>
      /\ mapping.step = "copyToSource"
      /\ mapping \in [step : MappingSteps, copy : Indices]
      /\ source \in Indices \cup {NoIndex}
  BY DEF CopyToSource, SearchInv, SearchTypeOK
<1>2. PICK d \in DOMAIN mapping.copy :
        /\ source' = Put(source, d, mapping.copy[d])
        /\ mapping' = [mapping EXCEPT !.copy = Less(@, d)]
  BY DEF CopyToSource
<1>3. /\ mapping' = [step |-> "copyToSource", copy |-> Less(mapping.copy, d)]
      /\ mapping.copy \in Indices
  BY <1>1, <1>2
<1>4. /\ Less(mapping.copy, d) \in Indices
      /\ DOMAIN Less(mapping.copy, d) = DOMAIN mapping.copy \ {d}
      /\ \A e \in DOMAIN mapping.copy \ {d} : Less(mapping.copy, d)[e] = mapping.copy[e]
  BY <1>3, LessTakes
<1>5. source' \in Indices
  BY <1>1, <1>2, <1>3, IndicesHold, PutAdds
<1>6. SearchTypeOK'
  BY <1>1, <1>3, <1>4, <1>5 DEF SearchInv, SearchTypeOK, Migrating, MappingSteps
<1>7. ASSUME NEW e \in Documents \ raced' PROVE KeptInv(e)'
  <2>1. KeptInv(e) /\ e \in Documents
    BY <1>1 DEF SearchInv
  <2>2. /\ Has(source, e) => Has(source', e)
        /\ d = e => Has(source', e)
        /\ e \in DocumentsIn(source') => source'[e] = latest[e]
    BY <2>1, <1>1, <1>2, <1>3, CopyKeeps DEF KeptInv
  <2>3. /\ Has(source', e) <=> Has(source, e)'
        /\ Has(dest, e) <=> Has(dest, e)'
        /\ DocumentsIn(source)' = DocumentsIn(source')
    BY <1>1 DEF Has, DocumentsIn
  <2>4. Fresh(mapping.copy, e)'
    BY <2>1, <1>1, <1>3, <1>4 DEF KeptInv, Fresh
  <2>5. \A s \in strays' : Fresh(s.copy, e)'
    BY <2>1, <1>1 DEF KeptInv, Fresh
  <2>6. mapping'.step = "copyToSource" /\ mapping'.copy = Less(mapping.copy, d)
    BY <1>3
  <2>7. Has(source', e) \/ e \in DOMAIN mapping'.copy
    BY <2>1, <2>2, <2>6, <1>1, <1>4 DEF KeptInv
  <2> QED
    BY <2>1, <2>2, <2>3, <2>4, <2>5, <2>6, <2>7, <1>1 DEF KeptInv
<1> QED
  BY <1>6, <1>7 DEF SearchInv

LEMMA InterruptKeeps ==
  ASSUME SearchInv, Interrupt
  PROVE  SearchInv'
<1> DEFINE stray == [to |-> mapping.step, copy |-> mapping.copy]
<1>1. /\ UNCHANGED <<source, dest, latest, indexing, raced>>
      /\ mapping' = [step |-> "idle", copy |-> <<>>]
      /\ strays' \subseteq strays \cup {stray}
      /\ mapping \in [step : MappingSteps, copy : Indices]
  BY DEF Interrupt, Enters, SearchInv, SearchTypeOK, indexVersions
<1>2. SearchTypeOK'
  <2>1. stray \in [to : MappingSteps, copy : Indices]
    BY <1>1
  <2> QED
    BY <1>1, <2>1, EmptyIsIndex DEF SearchInv, SearchTypeOK, Migrating, MappingSteps
<1>3. ASSUME NEW e \in Documents \ raced' PROVE KeptInv(e)'
  <2>1. KeptInv(e) /\ e \in Documents
    BY <1>1 DEF SearchInv
  <2>2. stray.copy = mapping.copy
    OBVIOUS
  <2> QED
    BY <2>1, <2>2, <1>1, EmptyIsIndex DEF KeptInv, Has, Fresh, DocumentsIn
<1> QED
  BY <1>2, <1>3 DEF SearchInv

LEMMA StrayCopiesKeep ==
  ASSUME SearchInv, StrayCopies
  PROVE  SearchInv'
<1>1. /\ UNCHANGED <<latest, indexing, mapping, raced>>
      /\ source \in Indices \cup {NoIndex} /\ dest \in Indices \cup {NoIndex}
      /\ strays \subseteq [to : MappingSteps, copy : Indices]
  BY DEF StrayCopies, SearchInv, SearchTypeOK
<1>2. PICK s \in strays : \E d \in DOMAIN s.copy :
        /\ strays' = (strays \ {s})
                       \cup (IF DOMAIN s.copy = {d} THEN {}
                             ELSE {[s EXCEPT !.copy = Less(@, d)]})
        /\ IF s.to = "copyToDest"
             THEN dest' = Put(dest, d, s.copy[d]) /\ UNCHANGED source
             ELSE source' = Put(source, d, s.copy[d]) /\ UNCHANGED dest
  BY DEF StrayCopies
<1>3. PICK d \in DOMAIN s.copy :
        /\ strays' = (strays \ {s})
                       \cup (IF DOMAIN s.copy = {d} THEN {}
                             ELSE {[s EXCEPT !.copy = Less(@, d)]})
        /\ IF s.to = "copyToDest"
             THEN dest' = Put(dest, d, s.copy[d]) /\ UNCHANGED source
             ELSE source' = Put(source, d, s.copy[d]) /\ UNCHANGED dest
  BY <1>2
<1> DEFINE rest == [to |-> s.to, copy |-> Less(s.copy, d)]
<1>4. s.copy \in Indices /\ s.to \in MappingSteps /\ strays' \subseteq strays \cup {rest}
  BY <1>1, <1>3
<1>5. /\ Less(s.copy, d) \in Indices
      /\ DOMAIN Less(s.copy, d) = DOMAIN s.copy \ {d}
      /\ \A e \in DOMAIN s.copy \ {d} : Less(s.copy, d)[e] = s.copy[e]
  BY <1>4, LessTakes
<1>6. source' \in Indices \cup {NoIndex} /\ dest' \in Indices \cup {NoIndex}
  BY <1>1, <1>3, <1>4, IndicesHold, PutAdds, SMTT(30)
<1>7. SearchTypeOK'
  <2>1. rest \in [to : MappingSteps, copy : Indices]
    BY <1>4, <1>5
  <2>2. strays' \subseteq [to : MappingSteps, copy : Indices]
    BY <2>1, <1>1, <1>4
  <2> QED
    BY <2>2, <1>1, <1>6 DEF SearchInv, SearchTypeOK, Migrating
<1>8. ASSUME NEW e \in Documents \ raced' PROVE KeptInv(e)'
  <2>1. KeptInv(e) /\ e \in Documents
    BY <1>1 DEF SearchInv
  <2>2. Fresh(s.copy, e)
    BY <2>1, <1>3 DEF KeptInv
  <2>3. /\ Has(source, e) => Has(source', e)
        /\ Has(dest, e) => Has(dest', e)
        /\ e \in DocumentsIn(source') => source'[e] = latest[e]
    <3>1. CASE s.to = "copyToDest"
      BY <3>1, <2>1, <2>2, <1>1, <1>3, <1>4, CopyKeeps DEF KeptInv
    <3>2. CASE s.to # "copyToDest"
      BY <3>2, <2>1, <2>2, <1>1, <1>3, <1>4, CopyKeeps DEF KeptInv
    <3> QED
      BY <3>1, <3>2
  <2>4. /\ Has(source', e) <=> Has(source, e)'
        /\ Has(dest', e) <=> Has(dest, e)'
        /\ DocumentsIn(source)' = DocumentsIn(source')
    BY <1>1 DEF Has, DocumentsIn
  <2>5. rest.copy = Less(s.copy, d) /\ Fresh(Less(s.copy, d), e)
    BY <2>2, <1>5 DEF Fresh
  <2>6. \A t \in strays' : Fresh(t.copy, e)'
    BY <2>1, <2>5, <1>1, <1>4 DEF KeptInv, Fresh
  <2> QED
    BY <2>1, <2>3, <2>4, <2>6, <1>1 DEF KeptInv, Fresh
<1> QED
  BY <1>7, <1>8 DEF SearchInv

LEMMA RefreshKeeps ==
  ASSUME SearchInv, Refresh
  PROVE  SearchInv'
  BY DEF Refresh, SearchInv, SearchTypeOK, KeptInv, Has, Fresh, DocumentsIn, Migrating

-----------------------------------------------------------------------------
(* What a search finds                                                     *)

LEMMA ContentIsIndex ==
  ASSUME NEW index \in Indices \cup {NoIndex}
  PROVE  /\ Content(index) \in Indices /\ DOMAIN Content(index) = DocumentsIn(index)
         /\ \A e \in DocumentsIn(index) : Content(index)[e] = index[e]
BY EmptyIsIndex, NoIndexIsNone DEF Content, DocumentsIn

\* A step that refreshes nothing, and takes no document from the source.
LEMMA ShowsStay ==
  ASSUME ShowsInv, UNCHANGED <<sourceShows, destShows, latest>>,
         DocumentsIn(source) \subseteq DocumentsIn(source)', raced \subseteq raced',
         mapping'.step \in {"deleteSource", "createSource", "reindexSource"} =>
           mapping.step \in {"deleteSource", "createSource", "reindexSource"}
  PROVE  ShowsInv'
  BY DEF ShowsInv

LEMMA ShowsInvNext ==
  ASSUME SearchInv, ShowsInv, [SearchNext]_searchVars
  PROVE  ShowsInv'
<1>1. /\ source \in Indices \cup {NoIndex} /\ dest \in Indices \cup {NoIndex}
      /\ mapping \in [step : MappingSteps, copy : Indices]
      /\ strays \subseteq [to : MappingSteps, copy : Indices]
  BY DEF SearchInv, SearchTypeOK
<1>2. CASE UNCHANGED searchVars
  BY <1>2 DEF searchVars, indexVersions, ShowsInv, DocumentsIn
<1>3. ASSUME NEW d \in Documents, FindDocument(d)
      PROVE  ShowsInv'
  BY <1>3, ShowsStay DEF FindDocument, indexVersions, DocumentsIn
<1>4. CASE WriteDocument
  <2>1. UNCHANGED <<sourceShows, destShows, mapping, strays>>
    BY <1>4 DEF WriteDocument
  <2>2. CASE UNCHANGED <<source, latest, raced>>
    BY <2>1, <2>2, ShowsStay DEF DocumentsIn
  <2>3. CASE /\ source' = Put(source, indexing.doc, indexing.version)
             /\ latest' = [latest EXCEPT ![indexing.doc] = indexing.version]
             /\ raced' = IF Migrating \/ strays # {} THEN raced \cup {indexing.doc}
                         ELSE raced \ {indexing.doc}
    <3>1. indexing.doc \in Documents /\ indexing.version \in Nat
      BY <1>4 DEF WriteDocument, SearchInv, SearchTypeOK
    <3>2. DocumentsIn(source) \subseteq DocumentsIn(source')
      BY <1>1, <2>3, <3>1, PutAdds
    <3>3. DocumentsIn(source)' = DocumentsIn(source')
      BY DEF DocumentsIn
    <3>4. ASSUME mapping'.step \in {"deleteSource", "createSource", "reindexSource"},
                 NEW e \in Documents \ raced'
          PROVE  e \in DOMAIN destShows' /\ destShows'[e] = latest'[e]
      <4>1. Migrating /\ mapping.step = mapping'.step
        BY <2>1, <3>4 DEF Migrating
      <4>2. e \notin raced /\ e # indexing.doc
        BY <2>3, <3>4, <4>1
      <4>3. latest'[e] = latest[e]
        BY <2>3, <4>2 DEF SearchInv, SearchTypeOK
      <4> QED
        BY <2>1, <3>4, <4>1, <4>2, <4>3 DEF ShowsInv
    <3> QED
      BY <2>1, <3>2, <3>3, <3>4 DEF ShowsInv
  <2> QED
    BY <1>4, <2>2, <2>3, Zenon DEF WriteDocument
<1>5. CASE Refresh
  <2>1. /\ Content(source) \in Indices /\ DOMAIN Content(source) = DocumentsIn(source)
        /\ Content(dest) \in Indices /\ DOMAIN Content(dest) = DocumentsIn(dest)
        /\ \A e \in DocumentsIn(dest) : Content(dest)[e] = dest[e]
    BY <1>1, ContentIsIndex
  <2>2. UNCHANGED <<source, dest, latest, mapping, raced>>
    BY <1>5 DEF Refresh
  <2>3. CASE sourceShows' = Content(source) /\ destShows' = destShows
    BY <2>1, <2>2, <2>3 DEF ShowsInv, DocumentsIn
  <2>4. CASE destShows' = Content(dest) /\ sourceShows' = sourceShows
    <3>1. mapping.step \in {"deleteSource", "createSource", "reindexSource"} =>
            \A d \in Documents \ raced : Has(dest, d)
      BY DEF SearchInv, KeptInv
    <3> QED
      BY <2>1, <2>2, <2>4, <3>1 DEF ShowsInv, DocumentsIn, Has
  <2> QED
    BY <1>5, <2>3, <2>4 DEF Refresh
<1>6. CASE BeginMapping
  BY <1>6, ShowsStay DEF BeginMapping, Enters, indexVersions, DocumentsIn
<1>7. CASE CreateDest
  BY <1>7, ShowsStay DEF CreateDest, Enters, DocumentsIn
<1>8. CASE CreateSource
  <2>1. DocumentsIn(source') = DocumentsIn(source)
    BY <1>1, <1>8, CreatedKeeps DEF CreateSource
  <2>2. DocumentsIn(source)' = DocumentsIn(source')
    BY DEF DocumentsIn
  <2> QED
    BY <1>8, <2>1, <2>2, ShowsStay DEF CreateSource, Enters
<1>9. CASE ReindexDest \/ ReindexSource
  BY <1>9, ShowsStay DEF ReindexDest, ReindexSource, Reindex, Enters, indexVersions, DocumentsIn
<1>10. CASE CopyToDest
  <2>1. UNCHANGED <<source, sourceShows, destShows, latest, raced>> /\ mapping'.step = mapping.step
    BY <1>1, <1>10 DEF CopyToDest
  <2> QED
    BY <2>1, ShowsStay DEF DocumentsIn
<1>11. CASE CopyToSource
  <2>1. PICK d \in DOMAIN mapping.copy :
          /\ source' = Put(source, d, mapping.copy[d])
          /\ mapping' = [mapping EXCEPT !.copy = Less(@, d)]
    BY <1>11 DEF CopyToSource
  <2>2. /\ UNCHANGED <<sourceShows, destShows, latest, raced>>
        /\ mapping'.step = mapping.step /\ mapping.copy \in Indices
    BY <1>1, <1>11, <2>1 DEF CopyToSource
  <2>3. DocumentsIn(source) \subseteq DocumentsIn(source')
    BY <1>1, <2>1, <2>2, IndicesHold, PutAdds
  <2>4. DocumentsIn(source)' = DocumentsIn(source')
    BY DEF DocumentsIn
  <2> QED
    BY <2>2, <2>3, <2>4, ShowsStay
<1>12. CASE Waited
  <2>1. UNCHANGED <<source, dest, latest, raced>>
    BY <1>12 DEF Waited
  <2>2. CASE mapping.step = "copyToDest"
    <3>1. /\ destShows' = Content(dest) /\ sourceShows' = sourceShows
          /\ mapping.copy = <<>>
      BY <1>12, <2>2 DEF Waited
    <3>2. \A d \in Documents \ raced : Has(dest, d)
      BY <2>2, <3>1, EmptyIsIndex DEF SearchInv, KeptInv
    <3>3. /\ Content(dest) \in Indices /\ DOMAIN Content(dest) = DocumentsIn(dest)
          /\ \A e \in DocumentsIn(dest) : Content(dest)[e] = dest[e]
      BY <1>1, ContentIsIndex
    <3> QED
      BY <2>1, <3>1, <3>2, <3>3 DEF ShowsInv, DocumentsIn, Has
  <2>3. CASE mapping.step # "copyToDest"
    <3>1. /\ sourceShows' = Content(source) /\ destShows' = destShows
          /\ mapping'.step = "deleteDest"
      BY <1>12, <2>3 DEF Waited, Enters
    <3>2. Content(source) \in Indices /\ DOMAIN Content(source) = DocumentsIn(source)
      BY <1>1, ContentIsIndex
    <3> QED
      BY <2>1, <3>1, <3>2 DEF ShowsInv, DocumentsIn
  <2> QED
    BY <2>2, <2>3
<1>13. CASE DeleteSource
  BY <1>13, EmptyIsIndex DEF DeleteSource, Enters, ShowsInv, DocumentsIn
<1>14. CASE DeleteDest
  BY <1>14, EmptyIsIndex DEF DeleteDest, Enters, ShowsInv, DocumentsIn
<1>15. CASE Interrupt
  BY <1>15, ShowsStay DEF Interrupt, Enters, indexVersions, DocumentsIn
<1>16. CASE StrayCopies
  <2>1. UNCHANGED <<sourceShows, destShows, latest, raced, mapping>>
    BY <1>16 DEF StrayCopies
  <2>2. PICK s \in strays : \E d \in DOMAIN s.copy :
          source' = Put(source, d, s.copy[d]) \/ source' = source
    BY <1>16 DEF StrayCopies
  <2>3. DocumentsIn(source) \subseteq DocumentsIn(source')
    BY <1>1, <2>2, IndicesHold, PutAdds
  <2>4. DocumentsIn(source)' = DocumentsIn(source')
    BY DEF DocumentsIn
  <2> QED
    BY <2>1, <2>3, <2>4, ShowsStay
<1> QED
  BY <1>2, <1>3, <1>4, <1>5, <1>6, <1>7, <1>8, <1>9, <1>10, <1>11, <1>12, <1>13, <1>14, <1>15,
     <1>16
  DEF SearchNext

-----------------------------------------------------------------------------
(* The theorem                                                             *)

LEMMA SearchInitInv == SearchInit => SearchInv
<1> SUFFICES ASSUME SearchInit PROVE SearchInv
  OBVIOUS
<1>1. source \in Indices /\ latest \in [Documents -> Nat] /\ dest = NoIndex
  <2>1. source \in [Documents -> Nat] /\ latest = source /\ dest = NoIndex
    BY DEF SearchInit
  <2> QED
    BY <2>1 DEF Indices
<1>2. SearchTypeOK
  BY <1>1, EmptyIsIndex DEF SearchInit, SearchTypeOK, NoCall, Migrating, MappingSteps
<1>3. ASSUME NEW d \in Documents PROVE KeptInv(d)
  <2>1. Has(source, d)
    BY <1>1, IndicesHold DEF SearchInit, Has
  <2> QED
    BY <2>1, EmptyIsIndex DEF SearchInit, KeptInv, Has, Fresh
<1> QED
  BY <1>2, <1>3 DEF SearchInv

LEMMA ShowsInvInit == SearchInit => ShowsInv
<1> SUFFICES ASSUME SearchInit PROVE ShowsInv
  OBVIOUS
<1>1. source \in Indices /\ sourceShows = source /\ destShows = <<>>
  <2>1. source \in [Documents -> Nat] /\ sourceShows = source /\ destShows = <<>>
    BY DEF SearchInit
  <2> QED
    BY <2>1 DEF Indices
<1> QED
  BY <1>1, EmptyIsIndex, IndicesHold DEF SearchInit, ShowsInv

LEMMA SearchNextInv == SearchInv /\ ShowsInv /\ [SearchNext]_searchVars => SearchInv'
<1> SUFFICES ASSUME SearchInv, ShowsInv, [SearchNext]_searchVars PROVE SearchInv'
  OBVIOUS
<1>1. CASE UNCHANGED searchVars
  BY <1>1 DEF searchVars, indexVersions, SearchInv, SearchTypeOK, KeptInv, Has, Fresh, DocumentsIn,
              Migrating
<1>2. CASE SearchNext
  BY <1>2, FindDocumentKeeps, WriteDocumentKeeps, RefreshKeeps, StepsKeep, IndicesKeep,
     CopyToDestKeeps, CopyToSourceKeeps, InterruptKeeps, StrayCopiesKeep DEF SearchNext
<1> QED
  BY <1>1, <1>2

\* Whatever is interrupted and repeated, a document that no handler wrote beside a
\* migration or a copy, and that the source shows when a migration begins to copy,
\* has its latest version in one of the two indices, and in its own after a
\* migration that ended without an error.
THEOREM DocumentsSafe == SearchSpec => []DocumentsKept
<1>1. SearchInv => DocumentsKept
  BY DEF SearchInv, KeptInv, DocumentsKept
<1>2. SearchInv /\ ShowsInv /\ [SearchNext]_searchVars => ShowsInv'
  BY ShowsInvNext
<1> QED
  BY <1>1, <1>2, SearchInitInv, ShowsInvInit, SearchNextInv, PTL DEF SearchSpec

-----------------------------------------------------------------------------
(***************************************************************************)
(* The copy of PostgreSQL to DynamoDB and its check                        *)
(***************************************************************************)
DataRows == [number : Nat, text : {"old", "new"}, claims : Nat, listed : BOOLEAN]

TableType ==
  /\ table \in Seq(Records)
  /\ \A i, j \in DOMAIN table : table[i] = table[j] => i = j
  /\ DOMAIN rows = {table[i] : i \in DOMAIN table} \cup {Dao}
  /\ \A r \in DOMAIN rows : rows[r] \in DataRows
  /\ list \subseteq Records

WriterType ==
  /\ writer \in [step : {"idle", "item", "archive", "row"}, id : Records \cup {Dao, Nothing},
                 new : DataRows \cup {Nothing}]
  /\ writer.step # "idle" => writer.id \in touched \ {Nothing}
  /\ writer.step = "archive" => writer.id # Dao
  /\ writer.step # "idle" /\ writer.id = Dao => writer.new # Nothing
  /\ touched \subseteq Records \cup {Dao}

MigrationSteps == {"idle", "chunk", "put", "saveList", "done"}

MigrationType ==
  /\ migration \in
       [step : MigrationSteps, chunk : Nat, chunks : Nat,
        held : SUBSET [id : Records, row : DataRows], list : SUBSET Records]
  /\ migration.step \in {"chunk", "put"} => left.kind # "errorIds"
  /\ migration.step = "saveList" => left.kind \in {"notifications", "errorIds"}

CheckType ==
  /\ check.step \in {"idle", "dao", "chunk", "compare", "done"}
  /\ check = [step |-> check.step, start |-> check.start, held |-> check.held,
              size |-> check.size, reported |-> check.reported]
  /\ check.start \in Nat
  /\ check.held \in Seq([id : Records \cup {Dao}, row : DataRows])

LeftType ==
  left \in [kind : Kinds, migrations : Nat, checks : Nat, creations : Nat, changes : Nat,
            removals : Nat, breaks : Nat]

DataType == TableType /\ WriterType /\ MigrationType /\ CheckType /\ LeftType

-----------------------------------------------------------------------------
\* Record r is one of the first n of the table, and its item differs.
BadAmong(r, n) == \E i \in DOMAIN table : i <= n /\ table[i] = r /\ Differs(r, rows[r])

\* How far a check that nothing has disturbed has come.
CheckInv ==
  undisturbed =>
    /\ check.step = "dao" =>
         /\ check.held = <<[id |-> Dao, row |-> rows[Dao]]>>
         /\ check.start = 0 /\ check.reported = {}
    /\ check.step \in {"chunk", "compare"} =>
         /\ ~Differs(Dao, rows[Dao])
         /\ check.reported \subseteq DOMAIN rows
    /\ check.step = "chunk" =>
         /\ check.start <= Len(table)
         /\ \A r \in DOMAIN rows : r \in check.reported <=> BadAmong(r, check.start)
    /\ check.step = "compare" =>
         /\ \A i \in DOMAIN check.held :
              check.held[i].id \in DOMAIN rows /\ check.held[i].row = rows[check.held[i].id]
         /\ \A r \in DOMAIN rows :
              (r \in check.reported
                 \/ \E i \in DOMAIN check.held : check.held[i].id = r /\ Differs(r, rows[r]))
              <=> BadAmong(r, check.start)
         /\ IF check.size = CheckChunk THEN check.start <= Len(table)
                                       ELSE check.start >= Len(table)
    /\ check.step = "done" =>
         check.reported = IF Differs(Dao, rows[Dao]) THEN {Dao}
                          ELSE {r \in DOMAIN rows : Differs(r, rows[r])}

-----------------------------------------------------------------------------
\* A row no handler has written since the migration began.
Calm(r) == r \in DOMAIN rows \ (touched \cup {Dao})

\* Its item, and its entry in the list, are as the row is.
ItemCopied(r) == r \in DOMAIN items /\ items[r] = rows[r]
Entered(r, ids) == left.kind # "proposals" /\ rows[r].listed => r \in ids

\* The places a chunk that is read again would be asked for next.
PlacesDone ==
  IF migration.step \in {"chunk", "done"} THEN migration.chunk * MigrationChunk
  ELSE (migration.chunk - 1) * MigrationChunk

\* The entries of the list that are there, until it is saved whole, or will be put.
EntriesDue == migration.list \cup (IF migration.step = "put" THEN list ELSE {})

\* The place of a row is behind the offset, or in the chunk that was read.
Reached(i) == Place(i) <= PlacesDone
InChunk(i) ==
  /\ migration.step \in {"put", "saveList"}
  /\ PlacesDone < Place(i) /\ Place(i) <= PlacesDone + MigrationChunk

\* A calm row is within the chunks that were counted; it is copied when the
\* offset has passed it, and held or copied while its chunk is written.
RowCopied(i) ==
  Calm(table[i]) =>
    /\ Place(i) <= migration.chunks * MigrationChunk
    /\ Asked(i) /\ Wanted(rows[table[i]]) =>
         /\ Reached(i) =>
              /\ ItemCopied(table[i]) /\ Entered(table[i], list)
              /\ migration.step = "saveList" => Entered(table[i], migration.list)
         /\ InChunk(i) =>
              /\ \/ ItemCopied(table[i])
                 \/ /\ migration.step = "put"
                    /\ [id |-> table[i], row |-> rows[table[i]]] \in migration.held
              /\ Entered(table[i], EntriesDue)

\* Rows that do not come forward are copied chunk by chunk.
CopyInv ==
  ~moved /\ left.kind # "errorIds" /\ migration.step # "idle" =>
    /\ migration.step = "done" => migration.chunk = migration.chunks
    /\ migration.step = "put" =>
         \A f \in migration.held : Calm(f.id) => f.row = rows[f.id]
    /\ \A i \in DOMAIN table : RowCopied(i)

\* The ids of the open errors are read and saved at once.
ListInv ==
  left.kind = "errorIds" =>
    \A r \in DOMAIN rows : Calm(r) /\ rows[r].listed =>
      /\ migration.step = "saveList" => r \in migration.list
      /\ migration.step = "done" => r \in list

DataInv == DataType /\ CheckInv /\ CopyInv /\ ListInv

-----------------------------------------------------------------------------
(* Sequences                                                               *)

\* What WithoutAt leaves: every element but the one at k, in its order.
LEMMA Without ==
  ASSUME NEW S, NEW s \in Seq(S), NEW k \in DOMAIN s
  PROVE  /\ WithoutAt(s, k) \in Seq(S)
         /\ DOMAIN WithoutAt(s, k) = 1 .. Len(s) - 1
         /\ \A i \in 1 .. Len(s) - 1 :
              WithoutAt(s, k)[i] = IF i < k THEN s[i] ELSE s[i + 1]
<1>1. Len(s) \in Nat /\ DOMAIN s = 1 .. Len(s) /\ \A i \in 1 .. Len(s) : s[i] \in S
  OBVIOUS
<1>2. k \in 1 .. Len(s) /\ Len(s) - 1 \in Nat
  BY <1>1
<1>3. \A i \in 1 .. Len(s) - 1 : (IF i < k THEN s[i] ELSE s[i + 1]) \in S
  BY <1>1, <1>2
<1>4. WithoutAt(s, k) \in [1 .. Len(s) - 1 -> S]
  BY <1>3 DEF WithoutAt
<1> QED
  BY <1>2, <1>4 DEF WithoutAt

\* What WithAt adds: e at k, and every element in its order.
LEMMA With ==
  ASSUME NEW S, NEW s \in Seq(S), NEW k \in 1 .. Len(s) + 1, NEW e \in S
  PROVE  /\ WithAt(s, k, e) \in Seq(S)
         /\ DOMAIN WithAt(s, k, e) = 1 .. Len(s) + 1
         /\ \A i \in 1 .. Len(s) + 1 :
              WithAt(s, k, e)[i] = IF i < k THEN s[i] ELSE IF i = k THEN e ELSE s[i - 1]
<1>1. Len(s) \in Nat /\ DOMAIN s = 1 .. Len(s) /\ \A i \in 1 .. Len(s) : s[i] \in S
  OBVIOUS
<1>2. k \in Nat \ {0} /\ k <= Len(s) + 1
  BY <1>1
<1>3. ASSUME NEW i \in 1 .. Len(s) + 1
      PROVE  (IF i < k THEN s[i] ELSE IF i = k THEN e ELSE s[i - 1]) \in S
  <2>1. i < k => i \in 1 .. Len(s)
    BY <1>1, <1>2
  <2>2. ~(i < k) /\ i # k => i - 1 \in 1 .. Len(s)
    BY <1>1, <1>2
  <2> QED
    BY <1>1, <2>1, <2>2
<1>4. WithAt(s, k, e) \in [1 .. Len(s) + 1 -> S]
  BY <1>3 DEF WithAt
<1>5. Len(s) + 1 \in Nat
  BY <1>1
<1> QED
  BY <1>4, <1>5 DEF WithAt

\* A function on the first numbers is a sequence, also when there are none.
LEMMA FirstNumbers ==
  ASSUME NEW S, NEW n \in Int, NEW f \in [1 .. n -> S]
  PROVE  f \in Seq(S) /\ Len(f) = IF n > 0 THEN n ELSE 0
<1>1. CASE n > 0
  BY <1>1
<1>2. CASE ~(n > 0)
  <2>1. 1 .. n = 1 .. 0
    BY <1>2
  <2> QED
    BY <1>2, <2>1
<1> QED
  BY <1>1, <1>2

-----------------------------------------------------------------------------
(* Types                                                                   *)

LEMMA DataInitial == DataInit => DataInv
<1> SUFFICES ASSUME DataInit
             PROVE  DataInv
  OBVIOUS
<1>1. PICK begin \in Beginnings :
        rows = [r \in {table[i] : i \in DOMAIN table} \cup {Dao} |->
                 Row(1, "new", 0, r \notin begin.unlisted)]
  BY DEF DataInit
<1>2. TableType
  <2>1. \A r \in DOMAIN rows : rows[r] \in DataRows
    BY <1>1 DEF Row, DataRows
  <2> QED
    BY <1>1, <2>1, DataAssumption DEF DataInit, TableType
<1>3. WriterType /\ MigrationType /\ LeftType
  BY DataAssumption DEF DataInit, WriterType, MigrationType, LeftType, NoWriter, NoMigration,
    MigrationSteps
<1>4. CheckType
  BY DEF DataInit, CheckType, NoCheck
<1> QED
  BY <1>2, <1>3, <1>4 DEF DataInit, DataInv, DataType, CheckInv, CopyInv, ListInv, NoMigration

\* Only the bounds of the scenario change.
LEMMA TakeKeeps ==
  ASSUME LeftType,
         NEW f \in {"migrations", "checks", "creations", "changes", "removals", "breaks"},
         Take(f)
  PROVE  LeftType' /\ left'.kind = left.kind
  BY DEF LeftType, Take

LEMMA LeftNext ==
  ASSUME LeftType, [DataNext]_dataVars
  PROVE  LeftType' /\ left'.kind = left.kind
<1>1. CASE \E f \in {"migrations", "checks", "creations", "changes", "removals", "breaks"} : Take(f)
  BY <1>1, TakeKeeps
<1>2. CASE left' = left
  BY <1>2 DEF LeftType
<1>3. ASSUME NEW r \in Records \cup {Dao}, BeginCreate(r) \/ BeginChange(r) \/ BeginRemove(r)
      PROVE  \E f \in {"migrations", "checks", "creations", "changes", "removals", "breaks"} : Take(f)
  BY <1>3 DEF BeginCreate, BeginChange, BeginRemove
<1>4. ASSUME StartMigration \/ StartListMigration \/ BreakMigration \/ StartCheck
      PROVE  \E f \in {"migrations", "checks", "creations", "changes", "removals", "breaks"} : Take(f)
  BY <1>4 DEF StartMigration, StartListMigration, BreakMigration, StartCheck
<1>5. ASSUME WriteItem \/ WriteRow \/ ReadChunk \/ PutOne \/ PutMapping \/ ReadList \/ SaveList
               \/ EndChunk
      PROVE  left' = left
  BY <1>5 DEF WriteItem, WriteRow, ReadChunk, PutOne, PutMapping, ReadList, SaveList, EndChunk
<1>6. ASSUME CheckDao \/ ReadCheckChunk \/ Compare \/ NextCheckChunk \/ UNCHANGED dataVars
      PROVE  left' = left
  BY <1>6 DEF CheckDao, ReadCheckChunk, Compare, NextCheckChunk, dataVars
<1> QED
  BY <1>1, <1>2, <1>3, <1>4, <1>5, <1>6 DEF DataNext

\* A row is written: it comes to some place, or a removed one is gone.
LEMMA RowWritten ==
  ASSUME TableType, WriterType, WriteRow
  PROVE  TableType'
<1> DEFINE r == writer.id
           new == writer.new
           others == IF r \in DOMAIN rows
                     THEN WithoutAt(table, CHOOSE i \in DOMAIN table : table[i] = r)
                     ELSE table
<1>1. r \in Records \cup {Dao}
  BY DEF WriterType, WriteRow
<1>2. new \in DataRows \cup {Nothing}
  BY DEF WriterType
<1>3. r = Dao => new # Nothing
  BY DEF WriterType, WriteRow
<1>5. /\ rows' = IF new = Nothing THEN [x \in DOMAIN rows \ {r} |-> rows[x]]
                 ELSE Upsert(rows, r, new)
      /\ IF r = Dao THEN table' = table
         ELSE IF new = Nothing THEN table' = others
         ELSE \E k \in 1 .. Len(others) + 1 : table' = WithAt(others, k, r)
      /\ list' = list
  BY Zenon DEF WriteRow
<1> HIDE DEF r, new, others
<1>6. CASE r = Dao
  <2>1. new \in DataRows /\ rows' = Upsert(rows, r, new) /\ table' = table
    BY <1>2, <1>3, <1>5, <1>6
  <2>2. /\ DOMAIN rows' = DOMAIN rows \cup {r}
        /\ rows'[r] = new
        /\ \A x \in DOMAIN rows : x # r => rows'[x] = rows[x]
    BY <2>1 DEF Upsert
  <2>3. DOMAIN rows' = {table'[i] : i \in DOMAIN table'} \cup {Dao}
    BY <1>6, <2>1, <2>2 DEF TableType
  <2>4. \A x \in DOMAIN rows' : rows'[x] \in DataRows
    BY <2>1, <2>2 DEF TableType
  <2> QED
    BY <1>5, <2>1, <2>3, <2>4 DEF TableType
<1>7. CASE r # Dao
  <2>1. /\ r \in Records
        /\ IF new = Nothing THEN table' = others
           ELSE \E k \in 1 .. Len(others) + 1 : table' = WithAt(others, k, r)
    BY <1>1, <1>5, <1>7
  <2>2. /\ others \in Seq(Records)
        /\ \A i, j \in DOMAIN others : others[i] = others[j] => i = j
        /\ {others[i] : i \in DOMAIN others} = {table[i] : i \in DOMAIN table} \ {r}
    <3>1. CASE r \notin DOMAIN rows
      <4>1. others = table
        BY <3>1 DEF others
      <4> QED
        BY <3>1, <4>1 DEF TableType
    <3>2. CASE r \in DOMAIN rows
      <4>1. PICK k \in DOMAIN table : k = CHOOSE i \in DOMAIN table : table[i] = r
        BY <1>7, <3>2 DEF TableType
      <4>2. table[k] = r
        <5>1. \E i \in DOMAIN table : table[i] = r
          BY <1>7, <3>2 DEF TableType
        <5> QED
          BY <4>1, <5>1
      <4>3. others = WithoutAt(table, k)
        BY <3>2, <4>1 DEF others
      <4>4. /\ others \in Seq(Records)
            /\ DOMAIN others = 1 .. Len(table) - 1
            /\ \A i \in 1 .. Len(table) - 1 :
                 others[i] = IF i < k THEN table[i] ELSE table[i + 1]
        BY <4>3, Without DEF TableType
      <4>5. /\ table \in Seq(Records) /\ DOMAIN table = 1 .. Len(table) /\ Len(table) \in Nat
            /\ \A i, j \in DOMAIN table : table[i] = table[j] => i = j
        BY DEF TableType
      <4>6. \A i \in DOMAIN others : \E j \in DOMAIN table : j # k /\ others[i] = table[j]
        <5> SUFFICES ASSUME NEW i \in DOMAIN others
                     PROVE  \E j \in DOMAIN table : j # k /\ others[i] = table[j]
          OBVIOUS
        <5>1. CASE i < k
          <6>1. i \in DOMAIN table /\ i # k /\ others[i] = table[i]
            BY <4>4, <4>5, <5>1
          <6> QED
            BY <6>1
        <5>2. CASE ~(i < k)
          <6>1. i + 1 \in DOMAIN table /\ i + 1 # k /\ others[i] = table[i + 1]
            BY <4>4, <4>5, <5>2
          <6> QED
            BY <6>1
        <5> QED
          BY <5>1, <5>2
      <4>7. \A j \in DOMAIN table : j # k => \E i \in DOMAIN others : others[i] = table[j]
        <5> SUFFICES ASSUME NEW j \in DOMAIN table, j # k
                     PROVE  \E i \in DOMAIN others : others[i] = table[j]
          OBVIOUS
        <5>1. CASE j < k
          <6>1. j \in DOMAIN others /\ others[j] = table[j]
            BY <4>4, <4>5, <5>1
          <6> QED
            BY <6>1
        <5>2. CASE ~(j < k)
          <6>1. j - 1 \in DOMAIN others /\ others[j - 1] = table[j]
            BY <4>4, <4>5, <5>2
          <6> QED
            BY <6>1
        <5> QED
          BY <5>1, <5>2
      <4>8. \A i, j \in DOMAIN others : others[i] = others[j] => i = j
        <5> SUFFICES ASSUME NEW i \in 1 .. Len(table) - 1, NEW j \in 1 .. Len(table) - 1,
                            others[i] = others[j]
                     PROVE  i = j
          BY <4>4
        <5>1. i \in DOMAIN table /\ i + 1 \in DOMAIN table /\ j \in DOMAIN table /\ j + 1 \in DOMAIN table
          BY <4>5
        <5>2. /\ others[i] = IF i < k THEN table[i] ELSE table[i + 1]
              /\ others[j] = IF j < k THEN table[j] ELSE table[j + 1]
          BY <4>4
        <5>3. k \in Nat
          BY <4>5
        <5>4. (IF i < k THEN i ELSE i + 1) = (IF j < k THEN j ELSE j + 1)
          BY <4>5, <5>1, <5>2, <5>3
        <5> QED
          BY <5>3, <5>4
      <4>9. {others[i] : i \in DOMAIN others} = {table[i] : i \in DOMAIN table} \ {r}
        BY <4>2, <4>5, <4>6, <4>7
      <4> QED
        BY <4>4, <4>8, <4>9
    <3> QED
      BY <3>1, <3>2
  <2>3. DOMAIN rows \ {r} = {others[i] : i \in DOMAIN others} \cup {Dao}
    BY <1>7, <2>2 DEF TableType
  <2>4. CASE new = Nothing
    <3>1. table' = others /\ rows' = [x \in DOMAIN rows \ {r} |-> rows[x]]
      BY <1>5, <2>1, <2>4
    <3>2. DOMAIN rows' = {table'[i] : i \in DOMAIN table'} \cup {Dao}
      BY <2>3, <3>1
    <3>3. \A x \in DOMAIN rows' : rows'[x] \in DataRows
      BY <3>1 DEF TableType
    <3> QED
      BY <1>5, <2>2, <3>1, <3>2, <3>3 DEF TableType
  <2>5. CASE new # Nothing
    <3>1. rows' = Upsert(rows, r, new) /\ new \in DataRows
      BY <1>2, <1>5, <2>5
    <3>10. PICK k \in 1 .. Len(others) + 1 : table' = WithAt(others, k, r)
      BY <2>1, <2>5
    <3>2. PICK n \in Nat : n = Len(others) /\ DOMAIN others = 1 .. n
      BY <2>2
    <3>3. /\ table' \in Seq(Records) /\ DOMAIN table' = 1 .. n + 1
          /\ \A i \in 1 .. n + 1 :
               table'[i] = IF i < k THEN others[i] ELSE IF i = k THEN r ELSE others[i - 1]
      <4>1. others \in Seq(Records) /\ r \in Records
        BY <2>1, <2>2
      <4>2. /\ WithAt(others, k, r) \in Seq(Records)
            /\ DOMAIN WithAt(others, k, r) = 1 .. Len(others) + 1
            /\ \A i \in 1 .. Len(others) + 1 :
                 WithAt(others, k, r)[i]
                   = IF i < k THEN others[i] ELSE IF i = k THEN r ELSE others[i - 1]
        BY <4>1, With
      <4> QED
        BY <3>2, <3>10, <4>2
    <3>4. \A i \in 1 .. n : others[i] # r
      BY <2>2, <3>2
    <3>11. k \in 1 .. n + 1
      BY <3>2, <3>10
    <3>12. \A i \in 1 .. n + 1 : i # k =>
             \E j \in 1 .. n : j = (IF i < k THEN i ELSE i - 1) /\ table'[i] = others[j]
      <4> SUFFICES ASSUME NEW i \in 1 .. n + 1, i # k
                   PROVE  \E j \in 1 .. n : j = (IF i < k THEN i ELSE i - 1) /\ table'[i] = others[j]
        OBVIOUS
      <4>1. CASE i < k
        <5>1. i \in 1 .. n
          BY <3>11, <4>1
        <5> QED
          BY <3>3, <4>1, <5>1
      <4>2. CASE ~(i < k)
        <5>1. i - 1 \in 1 .. n
          BY <3>11, <4>2
        <5> QED
          BY <3>3, <4>2, <5>1
      <4> QED
        BY <4>1, <4>2
    <3>13. table'[k] = r
      BY <3>3, <3>11
    <3>5. \A i, j \in DOMAIN table' : table'[i] = table'[j] => i = j
      <4> SUFFICES ASSUME NEW i \in 1 .. n + 1, NEW j \in 1 .. n + 1, table'[i] = table'[j]
                   PROVE  i = j
        BY <3>3
      <4>1. CASE i = k \/ j = k
        BY <3>4, <3>12, <3>13, <4>1
      <4>2. CASE i # k /\ j # k
        <5>1. (IF i < k THEN i ELSE i - 1) = (IF j < k THEN j ELSE j - 1)
          BY <2>2, <3>2, <3>12, <4>2
        <5> QED
          BY <3>11, <4>2, <5>1
      <4> QED
        BY <4>1, <4>2
    <3>6. {table'[i] : i \in DOMAIN table'} = {others[i] : i \in DOMAIN others} \cup {r}
      <4>1. \A i \in 1 .. n + 1 : table'[i] \in {others[j] : j \in 1 .. n} \cup {r}
        BY <3>12, <3>13
      <4>2. ASSUME NEW j \in 1 .. n
            PROVE  \E i \in 1 .. n + 1 : table'[i] = others[j]
        <5>1. CASE j < k
          <6>1. j \in 1 .. n + 1
            OBVIOUS
          <6> QED
            BY <3>3, <5>1, <6>1
        <5>2. CASE ~(j < k)
          <6>1. j + 1 \in 1 .. n + 1 /\ ~(j + 1 < k) /\ j + 1 # k /\ (j + 1) - 1 = j
            BY <3>11, <5>2
          <6>2. table'[j + 1] = others[j]
            BY <3>3, <6>1
          <6> QED
            BY <6>1, <6>2
        <5> QED
          BY <5>1, <5>2
      <4>3. DOMAIN others = 1 .. n /\ DOMAIN table' = 1 .. n + 1
        BY <3>2, <3>3
      <4>4. {table'[i] : i \in 1 .. n + 1} = {others[i] : i \in 1 .. n} \cup {r}
        BY <3>11, <3>13, <4>1, <4>2
      <4> QED
        BY <4>3, <4>4
    <3>9. /\ DOMAIN rows' = DOMAIN rows \cup {r}
          /\ rows'[r] = new
          /\ \A x \in DOMAIN rows : x # r => rows'[x] = rows[x]
      BY <3>1 DEF Upsert
    <3>7. DOMAIN rows' = {table'[i] : i \in DOMAIN table'} \cup {Dao}
      BY <2>3, <3>6, <3>9
    <3>8. \A x \in DOMAIN rows' : rows'[x] \in DataRows
      BY <3>1, <3>9 DEF TableType
    <3> QED
      BY <1>5, <3>3, <3>5, <3>7, <3>8 DEF TableType
  <2> QED
    BY <2>4, <2>5
<1> QED
  BY <1>6, <1>7

\* What the steps leave alone.
LEMMA RowsKept ==
  ASSUME [DataNext]_dataVars
  PROVE  WriteRow \/ (table' = table /\ rows' = rows /\ moved' \in {moved, FALSE})
  BY DEF DataNext, dataVars, BeginCreate, BeginChange, BeginRemove, BeginWrite, WriteItem,
    StartMigration, StartListMigration, NewHistory, ReadChunk, PutOne, PutMapping, ReadList,
    SaveList, EndChunk, BreakMigration, StartCheck, CheckDao, ReadCheckChunk, Compare,
    NextCheckChunk

LEMMA ListNext ==
  ASSUME DataType, [DataNext]_dataVars
  PROVE  list' \subseteq Records
<1>1. list \subseteq Records /\ migration.list \subseteq Records
  BY DEF DataType, TableType, MigrationType
<1>2. ASSUME WriteItem
      PROVE  list' \subseteq Records
  <2>1. writer.id \in Records \cup {Dao}
    BY <1>2 DEF DataType, WriterType, WriteItem
  <2> QED
    BY <1>1, <1>2, <2>1 DEF WriteItem
<1>3. ASSUME PutMapping
      PROVE  list' \subseteq Records
  BY <1>1, <1>3 DEF PutMapping
<1>4. ASSUME SaveList
      PROVE  list' \subseteq Records
  BY <1>1, <1>4 DEF SaveList
<1>5. WriteItem \/ PutMapping \/ SaveList \/ list' = list
  BY DEF DataNext, dataVars, BeginCreate, BeginChange, BeginRemove, BeginWrite, WriteRow,
    StartMigration, StartListMigration, NewHistory, ReadChunk, PutOne, ReadList, EndChunk,
    BreakMigration, StartCheck, CheckDao, ReadCheckChunk, Compare, NextCheckChunk
<1> QED
  BY <1>1, <1>2, <1>3, <1>4, <1>5

LEMMA TableNext ==
  ASSUME DataType, [DataNext]_dataVars
  PROVE  TableType'
<1>1. CASE WriteRow
  BY <1>1, RowWritten DEF DataType
<1>2. CASE table' = table /\ rows' = rows
  BY <1>2, ListNext DEF DataType, TableType
<1> QED
  BY <1>1, <1>2, RowsKept

\* A handler begins to write a record it touches.
LEMMA WriteBegins ==
  ASSUME DataType, NEW r \in Records \cup {Dao},
         BeginCreate(r) \/ BeginChange(r) \/ BeginRemove(r)
  PROVE  /\ WriterType'
         /\ touched' = touched \cup {r} /\ undisturbed' = FALSE
         /\ UNCHANGED <<table, rows, items, list, migration, check, moved>>
<1>1. touched \subseteq Records \cup {Dao} /\ r # Nothing
  BY DataAssumption DEF DataType, WriterType
<1>2. CASE BeginCreate(r)
  <2>1. /\ writer' = [step |-> "item", id |-> r, new |-> Row(1, "new", 0, TRUE)]
        /\ touched' = touched \cup {r} /\ undisturbed' = FALSE
        /\ UNCHANGED <<table, rows, items, list, migration, check, moved>>
    BY <1>2 DEF BeginCreate, BeginWrite, Touches
  <2>2. Row(1, "new", 0, TRUE) \in DataRows
    BY DEF Row, DataRows
  <2>3. Row(1, "new", 0, TRUE) # Nothing
    BY <2>2, DataAssumption DEF DataRows
  <2> QED
    BY <1>1, <2>1, <2>2, <2>3 DEF WriterType
<1>3. CASE BeginChange(r)
  <2>1. PICK new : /\ new \in {[rows[r] EXCEPT !.number = @ + 1], [rows[r] EXCEPT !.claims = @ + 1]}
                   /\ BeginWrite("item", r, new)
    BY <1>3 DEF BeginChange
  <2>2. /\ writer' = [step |-> "item", id |-> r, new |-> new]
        /\ touched' = touched \cup {r} /\ undisturbed' = FALSE
        /\ UNCHANGED <<table, rows, items, list, migration, check, moved>>
    BY <1>3, <2>1 DEF BeginWrite, Touches
  <2>3. rows[r] \in DataRows
    BY <1>3 DEF BeginChange, DataType, TableType
  <2>4. new \in DataRows
    BY <2>1, <2>3 DEF DataRows
  <2>5. new # Nothing
    BY <2>4, DataAssumption DEF DataRows
  <2> QED
    BY <1>1, <2>2, <2>4, <2>5 DEF WriterType
<1>4. CASE BeginRemove(r)
  <2>1. /\ writer' = [step |-> "archive", id |-> r, new |-> Nothing] /\ r # Dao
        /\ touched' = touched \cup {r} /\ undisturbed' = FALSE
        /\ UNCHANGED <<table, rows, items, list, migration, check, moved>>
    BY <1>4 DEF BeginRemove, BeginWrite, Touches
  <2> QED
    BY <1>1, <2>1 DEF WriterType
<1> QED
  BY <1>2, <1>3, <1>4

LEMMA WriterNext ==
  ASSUME DataType, [DataNext]_dataVars
  PROVE  WriterType'
<1>1. CASE \E r \in Records \cup {Dao} : BeginCreate(r) \/ BeginChange(r) \/ BeginRemove(r)
  BY <1>1, WriteBegins
<1>2. CASE WriteItem
  <2>1. writer.step # "idle" /\ writer' = [writer EXCEPT !.step = "row"]
    BY <1>2 DEF WriteItem
  <2>2. touched' = touched \cup {writer.id}
    BY <1>2 DEF WriteItem, Touches
  <2>3. writer' = [step |-> "row", id |-> writer.id, new |-> writer.new]
    BY <2>1 DEF DataType, WriterType
  <2> QED
    BY <2>1, <2>2, <2>3 DEF DataType, WriterType
<1>3. CASE WriteRow
  <2>1. writer.step # "idle" /\ writer' = NoWriter /\ touched' = touched \cup {writer.id}
    BY <1>3 DEF WriteRow, Touches
  <2> QED
    BY <2>1 DEF DataType, WriterType, NoWriter
<1>4. CASE writer' = writer /\ touched' = touched
  BY <1>4 DEF DataType, WriterType
<1>5. CASE writer' = writer /\ NewHistory
  BY <1>5 DEF DataType, WriterType, NewHistory
<1> QED
  BY <1>1, <1>2, <1>3, <1>4, <1>5
  DEF DataNext, dataVars, StartMigration, StartListMigration, ReadChunk, PutOne, PutMapping,
    ReadList, SaveList, EndChunk, BreakMigration, StartCheck, CheckDao, ReadCheckChunk, Compare,
    NextCheckChunk

-----------------------------------------------------------------------------
(* Chunks                                                                  *)

\* The chunks that are counted hold every row.
LEMMA ChunksHold ==
  ASSUME NEW n \in Nat, NEW size \in Nat \ {0}
  PROVE  ChunkCount(n, size) \in Nat /\ n <= ChunkCount(n, size) * size
<1>1. PICK q \in Nat, m \in Nat : q = n \div size /\ m = n % size
  OBVIOUS
<1>2. n = size * q + m
  BY <1>1, SMTT(60)
<1>3. m < size
  BY <1>1
<1>4. (n - m) \div size = q
  BY <1>2
<1>5. ChunkCount(n, size) = q + 1
  BY <1>1, <1>4 DEF ChunkCount
<1>6. (q + 1) * size = size * q + size
  OBVIOUS
<1> QED
  BY <1>2, <1>3, <1>5, <1>6

MigrationRecord(step, chunk, chunks, held, ids) ==
  [step |-> step, chunk |-> chunk, chunks |-> chunks, held |-> held, list |-> ids]

LEMMA MigrationIs ==
  ASSUME MigrationType
  PROVE  migration = MigrationRecord(migration.step, migration.chunk, migration.chunks,
                                     migration.held, migration.list)
  BY DEF MigrationType, MigrationRecord

\* What each step makes of the migration.
LEMMA MigrationMoves ==
  ASSUME DataType
  PROVE  /\ StartMigration =>
              migration' = MigrationRecord("chunk", 0, ChunkCount(Len(table), MigrationChunk), {}, {})
         /\ StartListMigration =>
              migration' = MigrationRecord("saveList", 0, 0, {},
                                           {r \in DOMAIN rows \ {Dao} : rows[r].listed})
         /\ ReadChunk /\ migration.chunk = migration.chunks =>
              migration' = MigrationRecord("done", migration.chunk, migration.chunks,
                                           migration.held, migration.list)
         /\ ReadChunk /\ migration.chunk # migration.chunks =>
              migration' = MigrationRecord("put", migration.chunk + 1, migration.chunks, Found,
                                           {f.id : f \in Found})
         /\ PutMapping => \E r \in migration.list :
              /\ list' = list \cup {r}
              /\ migration' = MigrationRecord("put", migration.chunk, migration.chunks,
                                              migration.held, migration.list \ {r})
         /\ ReadList =>
              migration' = MigrationRecord("saveList", migration.chunk, migration.chunks,
                                           migration.held, migration.list \cup list)
         /\ SaveList =>
              migration' = MigrationRecord(IF left.kind = "errorIds" THEN "done" ELSE "chunk",
                                           migration.chunk, migration.chunks,
                                           migration.held, migration.list)
         /\ EndChunk =>
              migration' = MigrationRecord("chunk", migration.chunk, migration.chunks,
                                           migration.held, migration.list)
<1> MigrationType
  BY DEF DataType
<1>1. StartMigration =>
        migration' = MigrationRecord("chunk", 0, ChunkCount(Len(table), MigrationChunk), {}, {})
  <2> SUFFICES ASSUME StartMigration
               PROVE  migration' = MigrationRecord("chunk", 0, ChunkCount(Len(table), MigrationChunk),
                                                   {}, {})
    OBVIOUS
  <2>1. migration' = [NoMigration EXCEPT
                        !.step = "chunk", !.chunks = ChunkCount(Len(table), MigrationChunk)]
    BY DEF StartMigration
  <2>2. PICK n : n = ChunkCount(Len(table), MigrationChunk)
    OBVIOUS
  <2>3. migration' = [step |-> "chunk", chunk |-> 0, chunks |-> n, held |-> {}, list |-> {}]
    BY <2>1, <2>2, Zenon DEF NoMigration
  <2> QED
    BY <2>2, <2>3, Zenon DEF MigrationRecord
<1>2. StartListMigration =>
        migration' = MigrationRecord("saveList", 0, 0, {},
                                     {r \in DOMAIN rows \ {Dao} : rows[r].listed})
  <2> SUFFICES ASSUME StartListMigration
               PROVE  migration' = MigrationRecord("saveList", 0, 0, {},
                                                   {r \in DOMAIN rows \ {Dao} : rows[r].listed})
    OBVIOUS
  <2>1. PICK ids : ids = {r \in DOMAIN rows \ {Dao} : rows[r].listed}
    OBVIOUS
  <2>2. migration' = [NoMigration EXCEPT !.step = "saveList", !.list = ids]
    BY <2>1 DEF StartListMigration
  <2>3. migration' = [step |-> "saveList", chunk |-> 0, chunks |-> 0, held |-> {}, list |-> ids]
    BY <2>2, Zenon DEF NoMigration
  <2> QED
    BY <2>1, <2>3, Zenon DEF MigrationRecord
<1>3. ReadChunk /\ migration.chunk = migration.chunks =>
        migration' = MigrationRecord("done", migration.chunk, migration.chunks, migration.held,
                                     migration.list)
  BY SMT DEF ReadChunk, MigrationType, MigrationRecord
<1>4. ReadChunk /\ migration.chunk # migration.chunks =>
        migration' = MigrationRecord("put", migration.chunk + 1, migration.chunks, Found,
                                     {f.id : f \in Found})
  BY Zenon DEF ReadChunk, MigrationType, MigrationRecord
<1>5. PutMapping => \E r \in migration.list :
        /\ list' = list \cup {r}
        /\ migration' = MigrationRecord("put", migration.chunk, migration.chunks,
                                        migration.held, migration.list \ {r})
  <2> SUFFICES ASSUME PutMapping
               PROVE  \E r \in migration.list :
                        /\ list' = list \cup {r}
                        /\ migration' = MigrationRecord("put", migration.chunk, migration.chunks,
                                                        migration.held, migration.list \ {r})
    OBVIOUS
  <2>1. PICK r \in migration.list :
          list' = list \cup {r} /\ migration' = [migration EXCEPT !.list = @ \ {r}]
    BY DEF PutMapping
  <2>2. migration.step = "put"
    BY DEF PutMapping
  <2>3. migration' = MigrationRecord("put", migration.chunk, migration.chunks, migration.held,
                                     migration.list \ {r})
    BY <2>1, <2>2, SMT DEF MigrationType, MigrationRecord
  <2> QED
    BY <2>1, <2>3
<1>6. ReadList =>
        migration' = MigrationRecord("saveList", migration.chunk, migration.chunks,
                                     migration.held, migration.list \cup list)
  BY Zenon DEF ReadList, MigrationType, MigrationRecord
<1>7. SaveList =>
        migration' = MigrationRecord(IF left.kind = "errorIds" THEN "done" ELSE "chunk",
                                     migration.chunk, migration.chunks,
                                     migration.held, migration.list)
  BY SMT DEF SaveList, MigrationType, MigrationRecord
<1>8. EndChunk =>
        migration' = MigrationRecord("chunk", migration.chunk, migration.chunks,
                                     migration.held, migration.list)
  BY SMT DEF EndChunk, MigrationType, MigrationRecord
<1> QED
  BY <1>1, <1>2, <1>3, <1>4, <1>5, <1>6, <1>7, <1>8

LEMMA PutMoves ==
  ASSUME DataType, PutOne
  PROVE  \E f \in migration.held :
           /\ items' = Upsert(items, f.id, f.row)
           /\ migration' = MigrationRecord("put", migration.chunk, migration.chunks,
                                           migration.held \ {f}, migration.list)
<1>1. PICK f \in migration.held :
        /\ items' = Upsert(items, f.id, f.row)
        /\ migration' = [migration EXCEPT !.held = @ \ {f}]
  BY DEF PutOne
<1>2. migration.step = "put"
  BY DEF PutOne
<1>3. migration' = MigrationRecord("put", migration.chunk, migration.chunks,
                                   migration.held \ {f}, migration.list)
  <2>1. MigrationType
    BY DEF DataType
  <2>2. migration' = [step |-> "put", chunk |-> migration.chunk, chunks |-> migration.chunks,
                      held |-> migration.held \ {f}, list |-> migration.list]
    BY <1>1, <1>2, <2>1, Zenon DEF MigrationType
  <2> QED
    BY <2>2, Zenon DEF MigrationRecord
<1> QED
  BY <1>1, <1>3

\* The step, and the kind, of a migration that goes on.
LEMMA FoundType ==
  ASSUME DataType
  PROVE  Found \subseteq [id : Records, row : DataRows]
<1>1. \A i \in DOMAIN table : table[i] \in Records /\ rows[table[i]] \in DataRows
  BY DEF DataType, TableType
<1>2. \A f \in Found : \E i \in DOMAIN table : f = [id |-> table[i], row |-> rows[table[i]]]
  BY DEF Found
<1> QED
  BY <1>1, <1>2

LEMMA MigrationNext ==
  ASSUME DataType, [DataNext]_dataVars
  PROVE  MigrationType'
<1> DEFINE Held == [id : Records, row : DataRows]
<1>1. /\ migration = MigrationRecord(migration.step, migration.chunk, migration.chunks,
                                     migration.held, migration.list)
      /\ migration.step \in MigrationSteps /\ migration.chunk \in Nat /\ migration.chunks \in Nat
      /\ migration.held \subseteq Held /\ migration.list \subseteq Records
      /\ left.kind \in Kinds
  BY MigrationIs DEF DataType, MigrationType, LeftType
<1>2. \A step \in MigrationSteps, chunk, chunks \in Nat, held \in SUBSET Held,
         ids \in SUBSET Records :
        /\ step \in {"chunk", "put"} => left'.kind # "errorIds"
        /\ step = "saveList" => left'.kind \in {"notifications", "errorIds"}
        /\ migration' = MigrationRecord(step, chunk, chunks, held, ids)
        => MigrationType'
  BY DEF MigrationType, MigrationRecord
<1>3. left'.kind = left.kind
  BY LeftNext DEF DataType
<1>4. list \subseteq Records /\ Len(table) \in Nat /\ MigrationChunk \in Nat \ {0}
      /\ DOMAIN rows \ {Dao} \subseteq Records
  BY DataAssumption DEF DataType, TableType
<1>5. CASE migration' = migration
  BY <1>3, <1>5 DEF DataType, MigrationType
<1>6. CASE StartMigration
  <2>1. left.kind # "errorIds" /\ ChunkCount(Len(table), MigrationChunk) \in Nat
    BY <1>4, <1>6, ChunksHold DEF StartMigration
  <2> QED
    BY <1>2, <1>3, <1>6, <2>1, MigrationMoves DEF MigrationSteps
<1>7. CASE StartListMigration
  <2>1. left.kind = "errorIds" /\ {r \in DOMAIN rows \ {Dao} : rows[r].listed} \subseteq Records
    BY <1>4, <1>7 DEF StartListMigration
  <2> QED
    BY <1>2, <1>3, <1>7, <2>1, MigrationMoves DEF MigrationSteps
<1>8. CASE ReadChunk
  <2>1. left.kind # "errorIds"
    BY <1>8 DEF ReadChunk, DataType, MigrationType
  <2>2. CASE migration.chunk = migration.chunks
    BY <1>1, <1>2, <1>8, <2>2, MigrationMoves DEF MigrationSteps
  <2>3. CASE migration.chunk # migration.chunks
    <3>1. PICK held, ids : held = Found /\ ids = {f.id : f \in Found}
      OBVIOUS
    <3>2. held \subseteq Held /\ ids \subseteq Records
      BY <3>1, FoundType
    <3>3. migration' = MigrationRecord("put", migration.chunk + 1, migration.chunks, held, ids)
      BY <1>8, <2>3, <3>1, MigrationMoves
    <3>4. migration.chunk + 1 \in Nat /\ "put" \in MigrationSteps /\ "put" # "saveList"
      BY <1>1 DEF MigrationSteps
    <3> QED
      BY <1>1, <1>2, <1>3, <2>1, <3>2, <3>3, <3>4
  <2> QED
    BY <2>2, <2>3
<1>9. CASE PutOne \/ PutMapping
  <2>1. migration.step = "put" /\ left.kind # "errorIds"
    BY <1>9 DEF PutOne, PutMapping, DataType, MigrationType
  <2>2. CASE PutOne
    <3>1. PICK f \in migration.held :
            migration' = MigrationRecord("put", migration.chunk, migration.chunks,
                                         migration.held \ {f}, migration.list)
      BY <2>2, PutMoves
    <3>2. migration.held \ {f} \subseteq Held
      BY <1>1
    <3> QED
      BY <1>1, <1>2, <1>3, <2>1, <3>1, <3>2 DEF MigrationSteps
  <2>3. CASE PutMapping
    <3>1. PICK r \in migration.list :
            migration' = MigrationRecord("put", migration.chunk, migration.chunks,
                                         migration.held, migration.list \ {r})
      BY <2>3, MigrationMoves
    <3>2. migration.list \ {r} \subseteq Records
      BY <1>1
    <3> QED
      BY <1>1, <1>2, <1>3, <2>1, <3>1, <3>2 DEF MigrationSteps
  <2> QED
    BY <1>9, <2>2, <2>3
<1>10. CASE ReadList
  <2>1. left.kind = "notifications" /\ migration.list \cup list \subseteq Records
    BY <1>1, <1>4, <1>10 DEF ReadList
  <2> QED
    BY <1>1, <1>2, <1>3, <1>10, <2>1, MigrationMoves DEF MigrationSteps
<1>11. CASE SaveList
  <2>1. left.kind \in {"notifications", "errorIds"}
    BY <1>11 DEF SaveList, DataType, MigrationType
  <2>2. PICK step \in MigrationSteps : step = IF left.kind = "errorIds" THEN "done" ELSE "chunk"
    BY DEF MigrationSteps
  <2>3. migration' = MigrationRecord(step, migration.chunk, migration.chunks, migration.held,
                                     migration.list)
    BY <1>11, <2>2, MigrationMoves
  <2> QED
    BY <1>1, <1>2, <1>3, <2>1, <2>2, <2>3
<1>12. CASE EndChunk
  <2>1. left.kind # "errorIds"
    BY <1>12 DEF EndChunk
  <2> QED
    BY <1>1, <1>2, <1>3, <1>12, <2>1, MigrationMoves DEF MigrationSteps
<1>13. CASE BreakMigration
  <2>1. migration' = MigrationRecord("idle", 0, 0, {}, {})
    BY <1>13 DEF BreakMigration, NoMigration, MigrationRecord
  <2> QED
    BY <1>2, <2>1 DEF MigrationSteps
<1> QED
  BY <1>5, <1>6, <1>7, <1>8, <1>9, <1>10, <1>11, <1>12, <1>13
  DEF DataNext, dataVars, BeginCreate, BeginChange, BeginRemove, BeginWrite, WriteItem, WriteRow,
    StartCheck, CheckDao, ReadCheckChunk, Compare, NextCheckChunk

-----------------------------------------------------------------------------
(* The check                                                               *)

CheckRecord(step, start, held, size, reported) ==
  [step |-> step, start |-> start, held |-> held, size |-> size, reported |-> reported]

Checked == [id : Records \cup {Dao}, row : DataRows]

LEMMA CheckMoves ==
  ASSUME CheckType
  PROVE  /\ StartCheck =>
              check' = CheckRecord("dao", 0, <<[id |-> Dao, row |-> rows[Dao]]>>, 0, {})
         /\ CheckDao =>
              check' = IF Differs(Dao, check.held[1].row)
                         THEN CheckRecord("done", check.start, check.held, check.size, {Dao})
                         ELSE CheckRecord("chunk", check.start, check.held, check.size,
                                          check.reported)
         /\ ReadCheckChunk =>
              check' = CheckRecord("compare", check.start + CheckChunk,
                                   RowsAt(check.start, CheckChunk),
                                   Len(RowsAt(check.start, CheckChunk)), check.reported)
         /\ Compare => \E i \in DOMAIN check.held :
              check' = CheckRecord("compare", check.start, WithoutAt(check.held, i), check.size,
                         IF Differs(check.held[i].id, check.held[i].row)
                           THEN check.reported \cup {check.held[i].id} ELSE check.reported)
         /\ NextCheckChunk =>
              check' = CheckRecord(IF LastChunk(check.size) THEN "done" ELSE "chunk",
                                   check.start, check.held, check.size, check.reported)
<1>1. check = CheckRecord(check.step, check.start, check.held, check.size, check.reported)
  BY DEF CheckType, CheckRecord
<1>2. ASSUME StartCheck
      PROVE  check' = CheckRecord("dao", 0, <<[id |-> Dao, row |-> rows[Dao]]>>, 0, {})
  <2>1. PICK held : held = <<[id |-> Dao, row |-> rows[Dao]]>>
    OBVIOUS
  <2>2. check' = [NoCheck EXCEPT !.step = "dao", !.held = held]
    BY <1>2, <2>1 DEF StartCheck
  <2>3. check' = [step |-> "dao", start |-> 0, held |-> held, size |-> 0, reported |-> {}]
    BY <2>2, Zenon DEF NoCheck
  <2> QED
    BY <2>1, <2>3, Zenon DEF CheckRecord
<1>3. ASSUME CheckDao
      PROVE  check' = IF Differs(Dao, check.held[1].row)
                        THEN CheckRecord("done", check.start, check.held, check.size, {Dao})
                        ELSE CheckRecord("chunk", check.start, check.held, check.size,
                                         check.reported)
  <2>1. CASE Differs(Dao, check.held[1].row)
    <3>1. check' = [check EXCEPT !.step = "done", !.reported = {Dao}]
      BY <1>3, <2>1 DEF CheckDao
    <3>2. check' = CheckRecord("done", check.start, check.held, check.size, {Dao})
      BY <1>1, <3>1, Zenon DEF CheckRecord
    <3> QED
      BY <2>1, <3>2
  <2>2. CASE ~Differs(Dao, check.held[1].row)
    <3>1. check' = [check EXCEPT !.step = "chunk"]
      BY <1>3, <2>2 DEF CheckDao
    <3>2. check' = CheckRecord("chunk", check.start, check.held, check.size, check.reported)
      BY <1>1, <3>1, Zenon DEF CheckRecord
    <3> QED
      BY <2>2, <3>2
  <2> QED
    BY <2>1, <2>2
<1>4. ASSUME ReadCheckChunk
      PROVE  check' = CheckRecord("compare", check.start + CheckChunk,
                                  RowsAt(check.start, CheckChunk),
                                  Len(RowsAt(check.start, CheckChunk)), check.reported)
  <2>1. PICK found, n : found = RowsAt(check.start, CheckChunk) /\ n = Len(found)
    OBVIOUS
  <2>2. check' = [check EXCEPT !.step = "compare", !.start = @ + CheckChunk, !.held = found,
                               !.size = n]
    BY <1>4, <2>1, Zenon DEF ReadCheckChunk
  <2>3. check' = CheckRecord("compare", check.start + CheckChunk, found, n, check.reported)
    BY <1>1, <2>2, Zenon DEF CheckRecord
  <2> QED
    BY <2>1, <2>3
<1>5. ASSUME Compare
      PROVE  \E i \in DOMAIN check.held :
               check' = CheckRecord("compare", check.start, WithoutAt(check.held, i), check.size,
                          IF Differs(check.held[i].id, check.held[i].row)
                            THEN check.reported \cup {check.held[i].id} ELSE check.reported)
  <2>1. PICK i \in DOMAIN check.held :
          check' = [check EXCEPT
                      !.held = WithoutAt(@, i),
                      !.reported = IF Differs(check.held[i].id, check.held[i].row)
                                     THEN @ \cup {check.held[i].id} ELSE @]
    BY <1>5 DEF Compare
  <2>2. check.step = "compare"
    BY <1>5 DEF Compare
  <2>3. check' = CheckRecord("compare", check.start, WithoutAt(check.held, i), check.size,
                   IF Differs(check.held[i].id, check.held[i].row)
                     THEN check.reported \cup {check.held[i].id} ELSE check.reported)
    BY <1>1, <2>1, <2>2, Zenon DEF CheckRecord
  <2> QED
    BY <2>3
<1>6. ASSUME NextCheckChunk
      PROVE  check' = CheckRecord(IF LastChunk(check.size) THEN "done" ELSE "chunk",
                                  check.start, check.held, check.size, check.reported)
  <2>1. check' = [check EXCEPT !.step = IF LastChunk(check.size) THEN "done" ELSE "chunk"]
    BY <1>6 DEF NextCheckChunk
  <2> QED
    BY <1>1, <2>1, Zenon DEF CheckRecord
<1> QED
  BY <1>2, <1>3, <1>4, <1>5, <1>6

\* What is read from a place of the table is the records there, as they are.
ReadFrom(found, skip) ==
  \A i \in DOMAIN found :
    skip + i \in DOMAIN table /\ found[i].id = table[skip + i] /\ found[i].row = rows[table[skip + i]]

LEMMA RowsAtIs ==
  ASSUME TableType, NEW skip \in Nat, NEW n \in Nat, NEW found, found = RowsAt(skip, n)
  PROVE  /\ found \in Seq(Checked)
         /\ DOMAIN found = 1 .. (IF skip + n < Len(table) THEN skip + n ELSE Len(table)) - skip
         /\ Len(found) = IF skip + n < Len(table) THEN n
                         ELSE IF skip < Len(table) THEN Len(table) - skip ELSE 0
         /\ ReadFrom(found, skip)
<1>1. PICK last \in Nat : last = IF skip + n < Len(table) THEN skip + n ELSE Len(table)
  BY DEF TableType
<1>2. found = [i \in 1 .. last - skip |-> [id |-> table[skip + i], row |-> rows[table[skip + i]]]]
  BY <1>1, Zenon DEF RowsAt
<1>3. \A i \in 1 .. last - skip : skip + i \in DOMAIN table
  BY <1>1 DEF TableType
<1>4. \A i \in DOMAIN table : [id |-> table[i], row |-> rows[table[i]]] \in Checked
  BY DEF TableType, Checked
<1>5. found \in [1 .. last - skip -> Checked]
  BY <1>2, <1>3, <1>4
<1>6. last - skip \in Int /\ Len(table) \in Nat
  BY <1>1 DEF TableType
<1>7. found \in Seq(Checked) /\ Len(found) = IF last - skip > 0 THEN last - skip ELSE 0
  BY <1>5, <1>6, FirstNumbers
<1>8. last - skip = (IF skip + n < Len(table) THEN skip + n ELSE Len(table)) - skip
  BY <1>1
<1>9. (IF last - skip > 0 THEN last - skip ELSE 0)
        = IF skip + n < Len(table) THEN n
          ELSE IF skip < Len(table) THEN Len(table) - skip ELSE 0
  BY <1>1, <1>6
<1>10. DOMAIN found = 1 .. last - skip
  BY <1>5
<1>11. \A i \in 1 .. last - skip :
         found[i].id = table[skip + i] /\ found[i].row = rows[table[skip + i]]
  BY <1>2
<1> QED
  BY <1>3, <1>7, <1>8, <1>9, <1>10, <1>11 DEF ReadFrom


LEMMA CheckTypeNext ==
  ASSUME DataType, [DataNext]_dataVars
  PROVE  CheckType'
<1>1. /\ check.start \in Nat /\ check.held \in Seq(Checked) /\ CheckChunk \in Nat
      /\ CheckType /\ TableType
  BY DataAssumption DEF DataType, CheckType, Checked
<1>2. \A size, reported :
        \A step \in {"idle", "dao", "chunk", "compare", "done"}, start \in Nat,
           held \in Seq(Checked) :
          check' = CheckRecord(step, start, held, size, reported) => CheckType'
  BY DEF CheckType, CheckRecord, Checked
<1>3. CASE check' = check
  BY <1>1, <1>3 DEF CheckType
<1>4. CASE StartCheck
  <2>1. [id |-> Dao, row |-> rows[Dao]] \in Checked
    BY <1>1 DEF TableType, Checked
  <2>2. PICK held : held = <<[id |-> Dao, row |-> rows[Dao]]>>
    OBVIOUS
  <2>3. held \in Seq(Checked)
    BY <2>1, <2>2
  <2>4. check' = CheckRecord("dao", 0, held, 0, {})
    BY <1>1, <1>4, <2>2, CheckMoves
  <2> QED
    BY <1>2, <2>3, <2>4
<1>5. CASE CheckDao
  BY <1>1, <1>2, <1>5, CheckMoves
<1>6. CASE ReadCheckChunk
  <2>1. PICK held, size : held = RowsAt(check.start, CheckChunk) /\ size = Len(held)
    OBVIOUS
  <2>2. held \in Seq(Checked)
    BY <1>1, <2>1, RowsAtIs
  <2>4. check.start + CheckChunk \in Nat
    BY <1>1
  <2>3. check' = CheckRecord("compare", check.start + CheckChunk, held, size, check.reported)
    BY <1>1, <1>6, <2>1, CheckMoves
  <2> QED
    BY <1>2, <2>2, <2>3, <2>4
<1>7. CASE Compare
  <2>1. PICK i \in DOMAIN check.held :
          check' = CheckRecord("compare", check.start, WithoutAt(check.held, i), check.size,
                     IF Differs(check.held[i].id, check.held[i].row)
                       THEN check.reported \cup {check.held[i].id} ELSE check.reported)
    BY <1>1, <1>7, CheckMoves
  <2>2. WithoutAt(check.held, i) \in Seq(Checked)
    BY <1>1, <2>1, Without
  <2> QED
    BY <1>1, <1>2, <2>1, <2>2
<1>8. CASE NextCheckChunk
  <2>1. PICK step \in {"done", "chunk"} : step = IF LastChunk(check.size) THEN "done" ELSE "chunk"
    OBVIOUS
  <2>2. check' = CheckRecord(step, check.start, check.held, check.size, check.reported)
    BY <1>1, <1>8, <2>1, CheckMoves
  <2> QED
    BY <1>1, <1>2, <2>1, <2>2
<1> QED
  BY <1>3, <1>4, <1>5, <1>6, <1>7, <1>8
  DEF DataNext, dataVars, BeginCreate, BeginChange, BeginRemove, BeginWrite, WriteItem, WriteRow,
    StartMigration, StartListMigration, ReadChunk, PutOne, PutMapping, ReadList, SaveList, EndChunk,
    BreakMigration

LEMMA DataTypeNext ==
  ASSUME DataType, [DataNext]_dataVars
  PROVE  DataType'
  BY TableNext, WriterNext, MigrationNext, CheckTypeNext, LeftNext DEF DataType

LEMMA CheckRests ==
  ASSUME CheckInv, UNCHANGED <<table, rows, items, check, undisturbed>>
  PROVE  CheckInv'
  BY DEF CheckInv, BadAmong, Differs

\* The DAO is compared first.
LEMMA DaoChecked ==
  ASSUME DataType, CheckInv, CheckDao
  PROVE  CheckInv'
<1> SUFFICES ASSUME undisturbed'
             PROVE  CheckInv'
  BY DEF CheckInv
<1>1. undisturbed /\ UNCHANGED <<table, rows, items>> /\ check.step = "dao"
  BY DEF CheckDao
<1>2. check.held = <<[id |-> Dao, row |-> rows[Dao]]>> /\ check.start = 0 /\ check.reported = {}
  BY <1>1 DEF CheckInv
<1>3. check.held[1].row = rows[Dao]
  BY <1>2
<1>4. CheckType
  BY DEF DataType
<1>5. CASE Differs(Dao, rows[Dao])
  <2>1. check' = CheckRecord("done", check.start, check.held, check.size, {Dao})
    BY <1>3, <1>4, <1>5, CheckMoves
  <2>2. check'.step = "done" /\ check'.reported = {Dao}
    BY <2>1 DEF CheckRecord
  <2>3. Differs(Dao, rows[Dao])'
    BY <1>1, <1>5 DEF Differs
  <2> QED
    BY <2>2, <2>3 DEF CheckInv
<1>6. CASE ~Differs(Dao, rows[Dao])
  <2>1. check' = CheckRecord("chunk", check.start, check.held, check.size, check.reported)
    BY <1>3, <1>4, <1>6, CheckMoves
  <2>2. check'.step = "chunk" /\ check'.reported = {} /\ check'.start = 0
    BY <1>2, <2>1 DEF CheckRecord
  <2>3. ~Differs(Dao, rows[Dao])'
    BY <1>1, <1>6 DEF Differs
  <2>4. 0 <= Len(table') /\ \A i \in DOMAIN table' : ~(i <= 0)
    BY <1>1 DEF DataType, TableType
  <2>5. \A r : ~(\E i \in DOMAIN table' : i <= 0 /\ table'[i] = r /\ Differs(r, rows[r])')
    BY <2>4
  <2> QED
    BY <2>2, <2>3, <2>4 DEF CheckInv, BadAmong
<1> QED
  BY <1>5, <1>6

\* The next rows are read to be compared.
LEMMA ChunkRead ==
  ASSUME DataType, CheckInv, ReadCheckChunk
  PROVE  CheckInv'
<1> SUFFICES ASSUME undisturbed'
             PROVE  CheckInv'
  BY DEF CheckInv
<1>1. undisturbed /\ UNCHANGED <<table, rows, items>> /\ check.step = "chunk"
  BY DEF ReadCheckChunk
<1>2. /\ ~Differs(Dao, rows[Dao]) /\ check.reported \subseteq DOMAIN rows
      /\ check.start <= Len(table)
      /\ \A r \in DOMAIN rows : r \in check.reported <=> BadAmong(r, check.start)
  BY <1>1 DEF CheckInv
<1>3. CheckType /\ TableType /\ CheckChunk \in Nat \ {0}
  BY DataAssumption DEF DataType
<1>4. PICK found, n, m, s, k, c :
        /\ s = check.start /\ k = Len(table) /\ m = s + CheckChunk /\ c = CheckChunk
        /\ found = RowsAt(s, CheckChunk) /\ n = Len(found)
  OBVIOUS
<1>5. /\ s \in Nat /\ k \in Nat /\ m \in Nat /\ c \in Nat \ {0} /\ s <= k /\ m = s + c
      /\ DOMAIN table = 1 .. k
  BY <1>2, <1>3, <1>4 DEF CheckType, TableType
<1>6. /\ DOMAIN found = 1 .. (IF m < k THEN m ELSE k) - s
      /\ n = IF m < k THEN c ELSE IF s < k THEN k - s ELSE 0
      /\ \A i \in DOMAIN found :
           /\ s + i \in DOMAIN table
           /\ found[i].id = table[s + i] /\ found[i].row = rows[table[s + i]]
  <2>1. CheckChunk \in Nat /\ TableType
    BY <1>3
  <2>2. /\ DOMAIN found = 1 .. (IF s + CheckChunk < Len(table) THEN s + CheckChunk ELSE Len(table)) - s
        /\ Len(found) = IF s + CheckChunk < Len(table) THEN CheckChunk
                        ELSE IF s < Len(table) THEN Len(table) - s ELSE 0
        /\ ReadFrom(found, s)
    BY <1>4, <1>5, <2>1, RowsAtIs
  <2> QED
    BY <1>4, <2>2 DEF ReadFrom
<1>7. check' = CheckRecord("compare", m, found, n, check.reported)
  BY <1>3, <1>4, CheckMoves
<1>8. /\ check'.step = "compare" /\ check'.start = m /\ check'.held = found /\ check'.size = n
      /\ check'.reported = check.reported
  BY <1>7 DEF CheckRecord
<1>9. \A i \in DOMAIN found : found[i].id \in DOMAIN rows /\ found[i].row = rows[found[i].id]
  <2>1. \A i \in DOMAIN table : table[i] \in DOMAIN rows
    BY <1>3 DEF TableType
  <2> QED
    BY <1>6, <2>1
<1>10. IF n = c THEN m <= k ELSE m >= k
  BY <1>5, <1>6
<1>11. ASSUME NEW r \in DOMAIN rows
       PROVE  (r \in check.reported \/ \E i \in DOMAIN found : found[i].id = r /\ Differs(r, rows[r]))
              <=> BadAmong(r, m)
  <2>1. r \in check.reported <=> BadAmong(r, s)
    BY <1>2, <1>4
  <2>2. BadAmong(r, s) => BadAmong(r, m)
    BY <1>5 DEF BadAmong
  <2>3. ASSUME NEW i \in DOMAIN found, found[i].id = r, Differs(r, rows[r])
        PROVE  BadAmong(r, m)
    <3>1. s + i \in DOMAIN table /\ table[s + i] = r
      BY <1>6, <2>3
    <3>2. s + i <= m
      BY <1>5, <1>6
    <3> QED
      BY <2>3, <3>1, <3>2 DEF BadAmong
  <2>4. ASSUME NEW j \in DOMAIN table, j <= m, table[j] = r, Differs(r, rows[r])
        PROVE  BadAmong(r, s) \/ \E i \in DOMAIN found : found[i].id = r
    <3>1. CASE j <= s
      BY <2>4, <3>1 DEF BadAmong
    <3>2. CASE ~(j <= s)
      <4>1. j - s \in DOMAIN found /\ s + (j - s) = j
        BY <1>5, <1>6, <2>4, <3>2
      <4>2. found[j - s].id = r
        BY <1>6, <2>4, <4>1
      <4> QED
        BY <4>1, <4>2
    <3> QED
      BY <3>1, <3>2
  <2> QED
    BY <2>1, <2>2, <2>3, <2>4 DEF BadAmong
<1> QED
  <2>1. (~Differs(Dao, rows[Dao]))' /\ check'.reported \subseteq DOMAIN rows'
    BY <1>1, <1>2, <1>8 DEF Differs
  <2>2. \A i \in DOMAIN check'.held :
          check'.held[i].id \in DOMAIN rows' /\ check'.held[i].row = rows'[check'.held[i].id]
    BY <1>1, <1>8, <1>9
  <2>3. IF check'.size = CheckChunk THEN check'.start <= Len(table') ELSE check'.start >= Len(table')
    BY <1>1, <1>4, <1>8, <1>10
  <2>4. \A r \in DOMAIN rows' :
          (r \in check'.reported
             \/ \E i \in DOMAIN check'.held : check'.held[i].id = r /\ Differs(r, rows[r])')
          <=> \E i \in DOMAIN table' : i <= check'.start /\ table'[i] = r /\ Differs(r, rows[r])'
    BY <1>1, <1>8, <1>11 DEF BadAmong, Differs
  <2> QED
    BY <1>8, <2>1, <2>2, <2>3, <2>4, Zenon DEF CheckInv, BadAmong

\* A row is compared.
LEMMA RowCompared ==
  ASSUME DataType, CheckInv, Compare
  PROVE  CheckInv'
<1> SUFFICES ASSUME undisturbed'
             PROVE  CheckInv'
  BY DEF CheckInv
<1>1. undisturbed /\ UNCHANGED <<table, rows, items>> /\ check.step = "compare"
  BY DEF Compare
<1>2. CheckType
  BY DEF DataType
<1>3. PICK held : held = check.held /\ held \in Seq(Checked)
  BY <1>2 DEF CheckType, Checked
<1>4. PICK k \in DOMAIN held :
        check' = CheckRecord("compare", check.start, WithoutAt(held, k), check.size,
                   IF Differs(held[k].id, held[k].row)
                     THEN check.reported \cup {held[k].id} ELSE check.reported)
  BY <1>2, <1>3, CheckMoves
<1>5. PICK rest, reported :
        /\ rest = WithoutAt(held, k)
        /\ reported = IF Differs(held[k].id, held[k].row)
                        THEN check.reported \cup {held[k].id} ELSE check.reported
  OBVIOUS
<1>6. /\ check'.step = "compare" /\ check'.start = check.start /\ check'.held = rest
      /\ check'.size = check.size /\ check'.reported = reported
  BY <1>4, <1>5 DEF CheckRecord
<1>7. /\ ~Differs(Dao, rows[Dao]) /\ check.reported \subseteq DOMAIN rows
      /\ \A i \in DOMAIN held : held[i].id \in DOMAIN rows /\ held[i].row = rows[held[i].id]
      /\ \A r \in DOMAIN rows :
           (r \in check.reported \/ \E i \in DOMAIN held : held[i].id = r /\ Differs(r, rows[r]))
           <=> BadAmong(r, check.start)
      /\ IF check.size = CheckChunk THEN check.start <= Len(table) ELSE check.start >= Len(table)
  BY <1>1, <1>3 DEF CheckInv
<1>8. /\ \A i \in DOMAIN rest : \E j \in DOMAIN held : rest[i] = held[j]
      /\ \A j \in DOMAIN held : j # k => \E i \in DOMAIN rest : rest[i] = held[j]
  <2>1. /\ DOMAIN rest = 1 .. Len(held) - 1
        /\ \A i \in 1 .. Len(held) - 1 : rest[i] = IF i < k THEN held[i] ELSE held[i + 1]
    BY <1>3, <1>5, Without
  <2>2. DOMAIN held = 1 .. Len(held) /\ Len(held) \in Nat
    BY <1>3
  <2>3. ASSUME NEW i \in DOMAIN rest
        PROVE  \E j \in DOMAIN held : rest[i] = held[j]
    <3>1. i \in DOMAIN held /\ i + 1 \in DOMAIN held
      BY <2>1, <2>2
    <3> QED
      BY <2>1, <3>1
  <2>4. ASSUME NEW j \in DOMAIN held, j # k
        PROVE  \E i \in DOMAIN rest : rest[i] = held[j]
    <3>1. CASE j < k
      <4>1. j \in DOMAIN rest /\ rest[j] = held[j]
        BY <2>1, <2>2, <3>1
      <4> QED
        BY <4>1
    <3>2. CASE ~(j < k)
      <4>1. j - 1 \in DOMAIN rest /\ ~(j - 1 < k) /\ (j - 1) + 1 = j
        BY <2>1, <2>2, <2>4, <3>2
      <4>2. rest[j - 1] = held[j]
        BY <2>1, <4>1
      <4> QED
        BY <4>1, <4>2
    <3> QED
      BY <3>1, <3>2
  <2> QED
    BY <2>3, <2>4
<1>9. reported \subseteq DOMAIN rows
  BY <1>5, <1>7
<1>10. \A i \in DOMAIN rest : rest[i].id \in DOMAIN rows /\ rest[i].row = rows[rest[i].id]
  BY <1>7, <1>8
<1>11. ASSUME NEW r \in DOMAIN rows
       PROVE  (r \in reported \/ \E i \in DOMAIN rest : rest[i].id = r /\ Differs(r, rows[r]))
              <=> BadAmong(r, check.start)
  <2>1. r \in reported <=> (r \in check.reported \/ (held[k].id = r /\ Differs(r, rows[r])))
    BY <1>5, <1>7
  <2> QED
    BY <1>7, <1>8, <2>1
<1> QED
  <2>1. (~Differs(Dao, rows[Dao]))' /\ check'.reported \subseteq DOMAIN rows'
    BY <1>1, <1>6, <1>7, <1>9 DEF Differs
  <2>2. \A i \in DOMAIN check'.held :
          check'.held[i].id \in DOMAIN rows' /\ check'.held[i].row = rows'[check'.held[i].id]
    BY <1>1, <1>6, <1>10
  <2>3. IF check'.size = CheckChunk THEN check'.start <= Len(table') ELSE check'.start >= Len(table')
    BY <1>1, <1>6, <1>7
  <2>4. \A r \in DOMAIN rows' :
          (r \in check'.reported
             \/ \E i \in DOMAIN check'.held : check'.held[i].id = r /\ Differs(r, rows[r])')
          <=> \E i \in DOMAIN table' : i <= check'.start /\ table'[i] = r /\ Differs(r, rows[r])'
    BY <1>1, <1>6, <1>11 DEF BadAmong, Differs
  <2> QED
    BY <1>6, <2>1, <2>2, <2>3, <2>4, Zenon DEF CheckInv, BadAmong

\* A chunk is done; one that is not full was the last.
LEMMA ChunkDone ==
  ASSUME DataType, CheckInv, NextCheckChunk
  PROVE  CheckInv'
<1> SUFFICES ASSUME undisturbed'
             PROVE  CheckInv'
  BY DEF CheckInv
<1>1. /\ undisturbed /\ UNCHANGED <<table, rows, items>> /\ check.step = "compare"
      /\ check.held = <<>>
  BY DEF NextCheckChunk
<1>2. CheckType /\ TableType
  BY DEF DataType
<1>3. /\ ~Differs(Dao, rows[Dao]) /\ check.reported \subseteq DOMAIN rows
      /\ \A r \in DOMAIN rows : r \in check.reported <=> BadAmong(r, check.start)
      /\ IF check.size = CheckChunk THEN check.start <= Len(table) ELSE check.start >= Len(table)
  BY <1>1 DEF CheckInv
<1>4. CASE LastChunk(check.size)
  <2>1. check' = CheckRecord("done", check.start, check.held, check.size, check.reported)
    BY <1>2, <1>4, NextCheckChunk, CheckMoves
  <2>2. check'.step = "done" /\ check'.reported = check.reported
    BY <2>1 DEF CheckRecord
  <2>3. check.start >= Len(table)
    BY <1>3, <1>4 DEF LastChunk
  <2>4. \A i \in DOMAIN table : i <= check.start
    BY <1>2, <2>3 DEF CheckType, TableType
  <2>5. \A r \in DOMAIN rows : BadAmong(r, check.start) <=> Differs(r, rows[r])
    BY <1>2, <1>3, <2>4 DEF BadAmong, TableType
  <2>6. check.reported = {r \in DOMAIN rows : Differs(r, rows[r])}
    BY <1>3, <2>5
  <2>7. check'.reported = IF Differs(Dao, rows[Dao])' THEN {Dao}
                          ELSE {r \in DOMAIN rows' : Differs(r, rows[r])'}
    BY <1>1, <1>3, <2>2, <2>6 DEF Differs
  <2> QED
    BY <2>2, <2>7 DEF CheckInv
<1>5. CASE ~LastChunk(check.size)
  <2>1. check' = CheckRecord("chunk", check.start, check.held, check.size, check.reported)
    BY <1>2, <1>5, NextCheckChunk, CheckMoves
  <2>2. check'.step = "chunk" /\ check'.reported = check.reported /\ check'.start = check.start
    BY <2>1 DEF CheckRecord
  <2>3. check.start <= Len(table)
    BY <1>3, <1>5 DEF LastChunk
  <2>4. (~Differs(Dao, rows[Dao]))' /\ check'.reported \subseteq DOMAIN rows'
    BY <1>1, <1>3, <2>2 DEF Differs
  <2>5. \A r \in DOMAIN rows' :
          r \in check'.reported
          <=> \E i \in DOMAIN table' : i <= check'.start /\ table'[i] = r /\ Differs(r, rows[r])'
    BY <1>1, <1>3, <2>2 DEF BadAmong, Differs
  <2> QED
    BY <1>1, <2>2, <2>3, <2>4, <2>5, Zenon DEF CheckInv, BadAmong
<1> QED
  BY <1>4, <1>5

LEMMA CheckInvNext ==
  ASSUME DataType, CheckInv, [DataNext]_dataVars
  PROVE  CheckInv'
<1>1. CASE undisturbed' = FALSE
  BY <1>1 DEF CheckInv
<1>2. CASE UNCHANGED <<table, rows, items, check, undisturbed>>
  BY <1>2, CheckRests
<1>3. CASE StartCheck
  <2>1. check' = CheckRecord("dao", 0, <<[id |-> Dao, row |-> rows[Dao]]>>, 0, {})
    BY <1>3, CheckMoves DEF DataType
  <2>2. rows' = rows
    BY <1>3 DEF StartCheck
  <2>3. /\ check'.step = "dao" /\ check'.start = 0 /\ check'.reported = {}
        /\ check'.held = <<[id |-> Dao, row |-> rows'[Dao]]>>
    BY <2>1, <2>2 DEF CheckRecord
  <2> QED
    BY <2>3 DEF CheckInv
<1>4. CASE \E r \in Records \cup {Dao} : BeginCreate(r) \/ BeginChange(r) \/ BeginRemove(r)
  BY <1>1, <1>4, WriteBegins
<1>5. CASE WriteItem \/ WriteRow \/ StartMigration \/ StartListMigration \/ PutOne
  BY <1>1, <1>5 DEF WriteItem, WriteRow, Touches, StartMigration, StartListMigration, PutOne
<1>6. CASE \/ ReadChunk \/ PutMapping \/ ReadList \/ SaveList \/ EndChunk \/ BreakMigration
           \/ UNCHANGED dataVars
  BY <1>2, <1>6
  DEF ReadChunk, PutMapping, ReadList, SaveList, EndChunk, BreakMigration, dataVars
<1> QED
  BY <1>3, <1>4, <1>5, <1>6, DaoChecked, ChunkRead, RowCompared, ChunkDone DEF DataNext

-----------------------------------------------------------------------------
(* The copy                                                                *)

\* A row is found at its place among those asked for.
LEMMA PlaceBounds ==
  ASSUME NEW i \in Nat \ {0}
  PROVE  Place(i) \in Nat /\ Place(i) <= i /\ (Asked(i) => Place(i) >= 1)
<1>1. PICK s : s = {j \in 1 .. i : Asked(j)}
  OBVIOUS
<1>2. IsFiniteSet(1 .. i) /\ Cardinality(1 .. i) = i
  BY FS_Interval
<1>3. s \in SUBSET (1 .. i)
  BY <1>1
<1>4. IsFiniteSet(s) /\ Cardinality(s) <= i /\ Cardinality(s) \in Nat
  BY <1>2, <1>3, FS_Subset, FS_CardinalityType
<1>5. Asked(i) => s # {}
  BY <1>1
<1>6. Asked(i) => Cardinality(s) # 0
  BY <1>4, <1>5, FS_EmptySet
<1>7. Place(i) = Cardinality(s)
  BY <1>1 DEF Place
<1> QED
  BY <1>4, <1>6, <1>7

LEMMA NextPlaceBounds ==
  ASSUME NEW i \in Nat \ {0}
  PROVE  Place(i)' \in Nat
<1>1. PICK s : s = {j \in 1 .. i : Asked(j)'}
  OBVIOUS
<1>2. IsFiniteSet(1 .. i) /\ s \in SUBSET (1 .. i)
  BY <1>1, FS_Interval
<1>3. Cardinality(s) \in Nat
  BY <1>2, FS_Subset, FS_CardinalityType
<1>4. Place(i)' = Cardinality(s)
  BY <1>1 DEF Place
<1> QED
  BY <1>3, <1>4

\* A row keeps its place while those before it are asked for as they were.
LEMMA SamePlace ==
  ASSUME NEW i, \A j \in 1 .. i : Asked(j)' <=> Asked(j)
  PROVE  Place(i)' = Place(i)
<1>1. PICK s, t : s = {j \in 1 .. i : Asked(j)} /\ t = {j \in 1 .. i : Asked(j)'}
  OBVIOUS
<1>2. s = t
  BY <1>1
<1>3. Place(i) = Cardinality(s)
  BY <1>1 DEF Place
<1>4. Place(i)' = Cardinality(t)
  BY <1>1 DEF Place
<1> QED
  BY <1>2, <1>3, <1>4

\* Rows that stay where they are are asked for at the same places.
LEMMA PlacesStay ==
  ASSUME DataType, [DataNext]_dataVars, table' = table, rows' = rows, NEW i \in DOMAIN table
  PROVE  /\ Asked(i)' <=> Asked(i)
         /\ Place(i)' = Place(i) /\ Place(i) \in Nat
         /\ Asked(i) => Place(i) >= 1
         /\ Place(i) <= i
<1>1. left'.kind = left.kind
  BY LeftNext DEF DataType
<1>2. \A j : Asked(j)' <=> Asked(j)
  BY <1>1 DEF Asked
<1>3. i \in Nat \ {0}
  BY DEF DataType, TableType
<1> QED
  BY <1>2, <1>3, SamePlace, PlaceBounds

\* What a step that is not of the migration does to a calm row: it may come to a
\* later place, within the chunks that were counted.
OthersKeepHyp(w) ==
  \A i \in DOMAIN table' : table'[i] # w =>
    \E k \in DOMAIN table :
      /\ table[k] = table'[i] /\ (Asked(k) <=> Asked(i)')
      /\ Place(k) \in Nat /\ Place(i)' \in Nat /\ Place(k) <= Place(i)'
      /\ Place(k) <= migration.chunks * MigrationChunk
           => Place(i)' <= migration.chunks * MigrationChunk

LEMMA OthersKeep ==
  ASSUME DataType, CopyInv,
         migration' = migration, left'.kind = left.kind, ~moved' => ~moved,
         NEW w \in Records \cup {Dao, Nothing},
         \A r : Calm(r)' => Calm(r) /\ rows'[r] = rows[r] /\ r # w,
         \A r : r # w => /\ r \in DOMAIN items' <=> r \in DOMAIN items
                         /\ r \in DOMAIN items => items'[r] = items[r],
         \A r : r # w => (r \in list' <=> r \in list),
         ~moved' => OthersKeepHyp(w)
  PROVE  CopyInv'
<1> SUFFICES ASSUME ~moved', left'.kind # "errorIds", migration'.step # "idle"
             PROVE  /\ migration'.step = "done" => migration'.chunk = migration'.chunks
                    /\ migration'.step = "put" =>
                         \A f \in migration'.held : Calm(f.id)' => f.row = rows'[f.id]
                    /\ \A i \in DOMAIN table' : RowCopied(i)'
  BY DEF CopyInv
<1>1. /\ migration.step = "done" => migration.chunk = migration.chunks
      /\ migration.step = "put" => \A f \in migration.held : Calm(f.id) => f.row = rows[f.id]
      /\ \A i \in DOMAIN table : RowCopied(i)
  BY DEF CopyInv
<1>2. \A f \in migration'.held : migration'.step = "put" /\ Calm(f.id)' => f.row = rows'[f.id]
  BY <1>1
<1>3. ASSUME NEW i \in DOMAIN table', Calm(table[i])'
      PROVE  RowCopied(i)'
  <2>1. PICK r : r = table'[i]
    OBVIOUS
  <2>2. Calm(r) /\ rows'[r] = rows[r] /\ r # w
    <3>1. Calm(r)'
      BY <1>3, <2>1 DEF Calm
    <3> QED
      BY <3>1
  <2>3. PICK k \in DOMAIN table :
          /\ table[k] = r /\ (Asked(k) <=> Asked(i)')
          /\ Place(k) \in Nat /\ Place(i)' \in Nat /\ Place(k) <= Place(i)'
          /\ Place(k) <= migration.chunks * MigrationChunk
               => Place(i)' <= migration.chunks * MigrationChunk
    BY <2>1, <2>2 DEF OthersKeepHyp
  <2>6. Wanted(rows[table[i]])' <=> Wanted(rows[r])
    BY <2>1, <2>2 DEF Wanted
  <2>7. (Reached(i)' => Reached(k)) /\ (InChunk(i)' => Reached(k) \/ InChunk(k))
    <3>1. PICK c \in Int, size \in Nat : c = PlacesDone /\ size = MigrationChunk
      BY DataAssumption DEF PlacesDone, DataType, MigrationType
    <3>2. PlacesDone' = c
      BY <3>1 DEF PlacesDone
    <3>3. PICK m \in Nat, n \in Nat : m = Place(k) /\ n = Place(i)' /\ m <= n
      BY <2>3
    <3>4. (n <= c => m <= c) /\ (n <= c + size => m <= c \/ (c < m /\ m <= c + size))
      BY <3>1, <3>3
    <3> QED
      BY <3>1, <3>2, <3>3, <3>4 DEF Reached, InChunk
  <2>8. /\ ItemCopied(r)' <=> ItemCopied(r)
        /\ Entered(r, list)' <=> Entered(r, list)
        /\ Entered(r, migration.list)' <=> Entered(r, migration.list)
        /\ Entered(r, EntriesDue)' <=> Entered(r, EntriesDue)
    BY <2>2 DEF ItemCopied, Entered, EntriesDue
  <2>9. /\ Place(k) <= migration.chunks * MigrationChunk
        /\ Asked(k) /\ Wanted(rows[r]) =>
             /\ Reached(k) =>
                  /\ ItemCopied(r) /\ Entered(r, list)
                  /\ migration.step = "saveList" => Entered(r, migration.list)
             /\ InChunk(k) =>
                  /\ \/ ItemCopied(r)
                     \/ /\ migration.step = "put"
                        /\ [id |-> r, row |-> rows[r]] \in migration.held
                  /\ Entered(r, EntriesDue)
    BY <1>1, <2>2, <2>3 DEF RowCopied
  <2>11. /\ Entered(r, list) /\ migration.step = "put" => Entered(r, EntriesDue)
         /\ Entered(r, migration.list) => Entered(r, EntriesDue)
    BY DEF Entered, EntriesDue
  <2>12. InChunk(i)' => migration.step \in {"put", "saveList"}
    BY DEF InChunk
  <2>10. /\ Place(i)' <= migration'.chunks * MigrationChunk
         /\ Asked(i)' /\ Wanted(rows[table[i]])' =>
              /\ Reached(i)' =>
                   /\ ItemCopied(r)' /\ Entered(r, list)'
                   /\ migration'.step = "saveList" => Entered(r, migration.list)'
              /\ InChunk(i)' =>
                   /\ \/ ItemCopied(r)'
                      \/ /\ migration'.step = "put"
                         /\ [id |-> r, row |-> rows'[r]] \in migration'.held
                   /\ Entered(r, EntriesDue)'
    BY <2>2, <2>3, <2>6, <2>7, <2>8, <2>9, <2>11, <2>12
  <2> QED
    BY <2>1, <2>10 DEF RowCopied, ItemCopied, Entered
<1> QED
  BY <1>1, <1>2, <1>3 DEF RowCopied

\* A handler begins, writes an item, or a check goes on.
LEMMA RowsRest ==
  ASSUME DataType, CopyInv, [DataNext]_dataVars,
         UNCHANGED <<table, rows, migration, moved>>,
         NEW w \in Records \cup {Dao, Nothing},
         touched \subseteq touched', w \in Records \cup {Dao} => w \in touched' \cup {Dao},
         \A r : r # w => /\ r \in DOMAIN items' <=> r \in DOMAIN items
                         /\ r \in DOMAIN items => items'[r] = items[r],
         \A r : r # w => (r \in list' <=> r \in list)
  PROVE  CopyInv'
<1>1. left'.kind = left.kind
  BY LeftNext DEF DataType
<1>2. \A r : Calm(r)' => Calm(r) /\ rows'[r] = rows[r] /\ r # w
  <2>1. DOMAIN rows \subseteq Records \cup {Dao}
    BY DEF DataType, TableType
  <2>2. w = Nothing => w \notin DOMAIN rows
    BY <2>1, DataAssumption
  <2> QED
    BY <2>2 DEF Calm
<1>3. OthersKeepHyp(w)
  <2> SUFFICES ASSUME NEW i \in DOMAIN table
               PROVE  /\ table[i] = table'[i] /\ (Asked(i) <=> Asked(i)')
                      /\ Place(i) \in Nat /\ Place(i)' \in Nat /\ Place(i) <= Place(i)'
                      /\ Place(i) <= migration.chunks * MigrationChunk
                           => Place(i)' <= migration.chunks * MigrationChunk
    BY DEF OthersKeepHyp
  <2>1. (Asked(i)' <=> Asked(i)) /\ Place(i)' = Place(i) /\ Place(i) \in Nat
    BY PlacesStay
  <2>2. \A p \in Nat : p <= p
    OBVIOUS
  <2> QED
    BY <2>1, <2>2
<1> QED
  BY <1>1, <1>2, <1>3, OthersKeep

\* A handler writes a row, which may displace others: the history says so.
LEMMA CopyWhileRowWritten ==
  ASSUME DataType, CopyInv, WriteRow
  PROVE  CopyInv'
<1> DEFINE w == writer.id
           new == writer.new
<1>1. /\ rows' = IF new = Nothing THEN [x \in DOMAIN rows \ {w} |-> rows[x]]
                 ELSE Upsert(rows, w, new)
      /\ moved' = (moved \/ Displaces(w))
      /\ touched' = touched \cup {w}
      /\ UNCHANGED <<items, list, migration, left>>
  BY Zenon DEF WriteRow, Touches
<1>2. w \in Records \cup {Dao}
  BY DEF WriteRow, DataType, WriterType
<1>3. TableType'
  BY RowWritten DEF DataType
<1> HIDE DEF w, new
<1>4. \A x : x # w => (x \in DOMAIN rows' <=> x \in DOMAIN rows)
  BY <1>1 DEF Upsert
<1>5. \A x \in DOMAIN rows : x # w => rows'[x] = rows[x]
  BY <1>1 DEF Upsert
<1>6. \A r : Calm(r)' => Calm(r) /\ rows'[r] = rows[r] /\ r # w
  BY <1>1, <1>4, <1>5 DEF Calm
<1>7. /\ DOMAIN table \subseteq Nat \ {0} /\ DOMAIN table' \subseteq Nat \ {0}
      /\ \A i \in DOMAIN table' : table'[i] \in Records /\ table'[i] \in DOMAIN rows'
      /\ DOMAIN rows = {table[i] : i \in DOMAIN table} \cup {Dao} /\ Dao \notin Records
  BY <1>3, DataAssumption DEF DataType, TableType
<1>8. ASSUME ~moved', NEW i \in DOMAIN table', table'[i] # w
      PROVE  \E k \in DOMAIN table :
               /\ table[k] = table'[i] /\ (Asked(k) <=> Asked(i)')
               /\ Place(k) \in Nat /\ Place(i)' \in Nat /\ Place(k) <= Place(i)'
               /\ Place(k) <= migration.chunks * MigrationChunk
                    => Place(i)' <= migration.chunks * MigrationChunk
  <2>1. PICK r : r = table'[i]
    OBVIOUS
  <2>2. r \in DOMAIN rows /\ rows'[r] = rows[r] /\ r # Dao
    BY <1>4, <1>5, <1>7, <1>8, <2>1
  <2>3. PICK k \in DOMAIN table : table[k] = r
    BY <1>7, <2>2
  <2>4. Asked(k) <=> Asked(i)'
    BY <1>1, <2>1, <2>2, <2>3 DEF Asked
  <2>5. Place(k) \in Nat /\ Place(i)' \in Nat
    <3>1. k \in Nat \ {0} /\ i \in Nat \ {0}
      BY <1>7
    <3> QED
      BY <3>1, PlaceBounds, NextPlaceBounds
  <2>6. ~Displaces(w)
    BY <1>1, <1>8
  <2>7. /\ ~(Place(i)' < Place(k))
        /\ ~(/\ Place(k) <= migration.chunks * MigrationChunk
             /\ migration.chunks * MigrationChunk < Place(i)')
    BY <1>8, <2>1, <2>3, <2>6 DEF Displaces
  <2>8. PICK room \in Nat : room = migration.chunks * MigrationChunk
    BY DataAssumption DEF DataType, MigrationType
  <2> QED
    BY <2>1, <2>3, <2>4, <2>5, <2>7, <2>8
<1> QED
  <2>1. ~moved' => ~moved
    BY <1>1
  <2>2. w \in Records \cup {Dao, Nothing}
    BY <1>2
  <2>3. ~moved' => OthersKeepHyp(w)
    BY <1>8 DEF OthersKeepHyp
  <2>4. /\ migration' = migration /\ left'.kind = left.kind
        /\ \A r : r # w => /\ r \in DOMAIN items' <=> r \in DOMAIN items
                           /\ r \in DOMAIN items => items'[r] = items[r]
        /\ \A r : r # w => (r \in list' <=> r \in list)
    BY <1>1
  <2> QED
    BY <1>6, <2>1, <2>2, <2>3, <2>4, OthersKeep

\* What is not a step of the migration.
LEMMA CopyWhileOthers ==
  ASSUME DataType, CopyInv, [DataNext]_dataVars,
         \/ \E r \in Records \cup {Dao} : BeginCreate(r) \/ BeginChange(r) \/ BeginRemove(r)
         \/ WriteItem \/ WriteRow
         \/ StartCheck \/ CheckDao \/ ReadCheckChunk \/ Compare \/ NextCheckChunk
         \/ UNCHANGED dataVars
  PROVE  CopyInv'
<1>1. CASE WriteRow
  BY <1>1, CopyWhileRowWritten
<1>2. CASE WriteItem
  <2>1. /\ items' = IF writer.step = "archive"
                      THEN [x \in DOMAIN items \ {writer.id} |-> items[x]]
                      ELSE Upsert(items, writer.id, writer.new)
        /\ list' = IF writer.id = Dao THEN list
                   ELSE IF writer.step = "item" /\ writer.new.listed THEN list \cup {writer.id}
                   ELSE list \ {writer.id}
        /\ touched' = touched \cup {writer.id}
        /\ UNCHANGED <<table, rows, migration, moved>>
    BY <1>2, Zenon DEF WriteItem, Touches
  <2>2. PICK w \in Records \cup {Dao, Nothing} : w = writer.id
    BY DEF DataType, WriterType
  <2>3. \A r : r # w => (r \in DOMAIN items' <=> r \in DOMAIN items)
    BY <2>1, <2>2 DEF Upsert
  <2>4. \A r \in DOMAIN items : r # w => items'[r] = items[r]
    BY <2>1, <2>2 DEF Upsert
  <2>5. \A r : r # w => (r \in list' <=> r \in list)
    BY <2>1, <2>2
  <2> QED
    BY <2>1, <2>2, <2>3, <2>4, <2>5, RowsRest
<1>3. CASE \E r \in Records \cup {Dao} : BeginCreate(r) \/ BeginChange(r) \/ BeginRemove(r)
  <2>1. PICK r \in Records \cup {Dao} : BeginCreate(r) \/ BeginChange(r) \/ BeginRemove(r)
    BY <1>3
  <2>2. touched' = touched \cup {r} /\ UNCHANGED <<table, rows, items, list, migration, moved>>
    BY <2>1, WriteBegins
  <2> QED
    BY <2>2, RowsRest
<1>4. CASE UNCHANGED <<table, rows, items, list, migration, moved, touched>>
  BY <1>4, RowsRest
<1> QED
  BY <1>1, <1>2, <1>3, <1>4
  DEF StartCheck, CheckDao, ReadCheckChunk, Compare, NextCheckChunk, dataVars

\* The parts of what a step makes of the migration.
LEMMA MigrationParts ==
  ASSUME NEW step, NEW chunk, NEW chunks, NEW held, NEW ids,
         migration' = MigrationRecord(step, chunk, chunks, held, ids)
  PROVE  /\ migration'.step = step /\ migration'.chunk = chunk /\ migration'.chunks = chunks
         /\ migration'.held = held /\ migration'.list = ids
  BY DEF MigrationRecord

\* At first no place is reached, and the chunks hold every row.
LEMMA CopyBegins ==
  ASSUME DataType, StartMigration
  PROVE  CopyInv'
<1>1. PICK n : n = ChunkCount(Len(table), MigrationChunk)
  OBVIOUS
<1>2. migration' = MigrationRecord("chunk", 0, n, {}, {})
  BY <1>1, MigrationMoves
<1>3. migration'.step = "chunk" /\ migration'.chunk = 0 /\ migration'.chunks = n
  BY <1>2, MigrationParts
<1>4. MigrationChunk \in Nat \ {0} /\ table \in Seq(Records)
  BY DataAssumption DEF DataType, TableType
<1>5. n \in Nat /\ Len(table) <= n * MigrationChunk
  BY <1>1, <1>4, ChunksHold
<1>6. table' = table /\ rows' = rows /\ [DataNext]_dataVars
  BY DEF StartMigration, DataNext
<1>7. PlacesDone' = 0
  BY <1>3, <1>4 DEF PlacesDone
<1>8. ASSUME NEW i \in DOMAIN table
      PROVE  RowCopied(i)'
  <2>1. Place(i)' <= n * MigrationChunk
    <3>1. i \in Nat /\ i <= Len(table) /\ Len(table) \in Nat
      BY <1>4
    <3>2. PICK m \in Nat : m = n * MigrationChunk
      BY <1>4, <1>5
    <3>3. Place(i)' = Place(i) /\ Place(i) \in Nat /\ Place(i) <= i
      BY <1>6, PlacesStay
    <3> QED
      BY <1>5, <3>1, <3>2, <3>3
  <2>2. Asked(i)' => ~Reached(i)'
    <3>1. /\ Asked(i)' <=> Asked(i)
          /\ Place(i)' = Place(i) /\ Place(i) \in Nat /\ (Asked(i) => Place(i) >= 1)
      BY <1>6, PlacesStay
    <3> QED
      BY <1>7, <3>1 DEF Reached
  <2>3. ~InChunk(i)'
    BY <1>3 DEF InChunk
  <2> QED
    BY <1>3, <2>1, <2>2, <2>3 DEF RowCopied
<1> QED
  BY <1>3, <1>6, <1>8 DEF CopyInv

\* The steps of a migration leave these alone.
Resting == UNCHANGED <<table, rows, touched, moved>> /\ left'.kind = left.kind

\* A row is reached, or in the chunk, after a step that leaves the offset.
LEMMA OffsetStays ==
  ASSUME DataType, [DataNext]_dataVars, Resting, PlacesDone' = PlacesDone, NEW i \in DOMAIN table
  PROVE  /\ Reached(i)' <=> Reached(i)
         /\ (migration'.step \in {"put", "saveList"} <=> migration.step \in {"put", "saveList"})
              => (InChunk(i)' <=> InChunk(i))
<1>1. Place(i)' = Place(i)
  BY PlacesStay DEF Resting
<1> QED
  BY <1>1 DEF Reached, InChunk

\* A row and what is asked of it are as they were.
LEMMA RowRests ==
  ASSUME DataType, [DataNext]_dataVars, Resting, NEW i \in DOMAIN table
  PROVE  /\ Calm(table[i])' <=> Calm(table[i])
         /\ Asked(i)' <=> Asked(i)
         /\ Wanted(rows[table[i]])' <=> Wanted(rows[table[i]])
         /\ Place(i)' = Place(i)
  BY PlacesStay DEF Resting, Calm, Wanted

LEMMA MigrationDone ==
  ASSUME DataType, CopyInv, ReadChunk, migration.chunk = migration.chunks
  PROVE  CopyInv'
<1>1. migration' = MigrationRecord("done", migration.chunk, migration.chunks, migration.held,
                                   migration.list)
  BY MigrationMoves
<1>2. migration'.step = "done" /\ migration'.chunk = migration.chunk
      /\ migration'.chunks = migration.chunks
  BY <1>1, MigrationParts
<1>3. /\ migration.step = "chunk" /\ Resting /\ [DataNext]_dataVars
      /\ UNCHANGED <<table, rows, items, list, moved>>
  BY DEF ReadChunk, Resting, DataNext
<1>4. PlacesDone' = PlacesDone
  BY <1>2, <1>3 DEF PlacesDone
<1>5. ASSUME NEW i \in DOMAIN table, RowCopied(i)
      PROVE  RowCopied(i)'
  <2>1. /\ Reached(i)' <=> Reached(i)
        /\ Calm(table[i])' <=> Calm(table[i])
        /\ Asked(i)' <=> Asked(i)
        /\ Wanted(rows[table[i]])' <=> Wanted(rows[table[i]])
        /\ Place(i)' = Place(i)
    BY <1>3, <1>4, OffsetStays, RowRests
  <2>2. ~InChunk(i)'
    BY <1>2 DEF InChunk
  <2>3. /\ ItemCopied(table[i])' <=> ItemCopied(table[i])
        /\ Entered(table[i], list)' <=> Entered(table[i], list)
    BY <1>3 DEF ItemCopied, Entered, Resting
  <2> QED
    BY <1>2, <1>5, <2>1, <2>2, <2>3 DEF RowCopied
<1> QED
  BY <1>2, <1>3, <1>5 DEF CopyInv, Resting

\* What is asked for in a chunk is held, and its entries are due.
LEMMA ChunkHeld ==
  ASSUME DataType, CopyInv, ReadChunk, migration.chunk # migration.chunks
  PROVE  CopyInv'
<1>1. PICK held, ids : held = Found /\ ids = {f.id : f \in Found}
  OBVIOUS
<1>2. migration' = MigrationRecord("put", migration.chunk + 1, migration.chunks, held, ids)
  BY <1>1, MigrationMoves
<1>3. /\ migration'.step = "put" /\ migration'.chunk = migration.chunk + 1
      /\ migration'.chunks = migration.chunks /\ migration'.held = held /\ migration'.list = ids
  BY <1>2, MigrationParts
<1>4. /\ migration.step = "chunk" /\ Resting /\ [DataNext]_dataVars
      /\ UNCHANGED <<table, rows, items, list, moved>>
  BY DEF ReadChunk, Resting, DataNext
<1>5. migration.chunk \in Nat /\ MigrationChunk \in Nat
  BY DataAssumption DEF DataType, MigrationType
<1>6. PlacesDone = migration.chunk * MigrationChunk
  BY <1>4 DEF PlacesDone
<1>7. PlacesDone' = migration.chunk * MigrationChunk
  <2>1. (migration.chunk + 1) - 1 = migration.chunk
    BY <1>5
  <2> QED
    BY <1>3, <2>1 DEF PlacesDone
<1>8. \A f \in held : \E i \in DOMAIN table : f = [id |-> table[i], row |-> rows[table[i]]]
  BY <1>1 DEF Found
<1>9. \A f \in held : f.row = rows[f.id]
  BY <1>8
<1>10. ASSUME NEW i \in DOMAIN table, RowCopied(i)
       PROVE  RowCopied(i)'
  <2>1. /\ Reached(i)' <=> Reached(i)
        /\ Calm(table[i])' <=> Calm(table[i])
        /\ Asked(i)' <=> Asked(i)
        /\ Wanted(rows[table[i]])' <=> Wanted(rows[table[i]])
        /\ Place(i)' = Place(i)
    BY <1>4, <1>6, <1>7, OffsetStays, RowRests, PlacesStay
  <2>2. /\ ItemCopied(table[i])' <=> ItemCopied(table[i])
        /\ Entered(table[i], list)' <=> Entered(table[i], list)
    BY <1>4 DEF ItemCopied, Entered, Resting
  <2>3. ASSUME Asked(i), Wanted(rows[table[i]]), InChunk(i)'
        PROVE  [id |-> table[i], row |-> rows[table[i]]] \in held /\ table[i] \in ids
    <3>1. PICK d : d = migration.chunk * MigrationChunk
      OBVIOUS
    <3>2. d < Place(i) /\ Place(i) <= d + MigrationChunk
      BY <1>7, <2>1, <2>3, <3>1 DEF InChunk
    <3>3. [id |-> table[i], row |-> rows[table[i]]] \in Found
      BY <2>3, <3>1, <3>2 DEF Found
    <3>4. PICK f \in held : f = [id |-> table[i], row |-> rows[table[i]]]
      BY <1>1, <3>3
    <3>5. f.id = table[i]
      BY <3>4
    <3>6. \A e \in held : e.id \in ids
      BY <1>1
    <3> QED
      BY <3>4, <3>5, <3>6
  <2>4. ASSUME Asked(i), Wanted(rows[table[i]]), InChunk(i)'
        PROVE  [id |-> table[i], row |-> rows[table[i]]]' \in held /\ Entered(table[i], EntriesDue)'
    BY <1>3, <1>4, <2>3, <2>4 DEF Entered, EntriesDue
  <2> QED
    BY <1>3, <1>4, <1>10, <2>1, <2>2, <2>4 DEF RowCopied
<1> QED
  BY <1>3, <1>4, <1>9, <1>10 DEF CopyInv, Resting

\* An item of the chunk is written.
LEMMA ItemPut ==
  ASSUME DataType, CopyInv, PutOne
  PROVE  CopyInv'
<1>1. PICK f \in migration.held :
        /\ items' = Upsert(items, f.id, f.row)
        /\ migration' = MigrationRecord("put", migration.chunk, migration.chunks,
                                        migration.held \ {f}, migration.list)
  BY PutMoves
<1>2. /\ migration'.step = "put" /\ migration'.chunk = migration.chunk
      /\ migration'.chunks = migration.chunks /\ migration'.held = migration.held \ {f}
      /\ migration'.list = migration.list
  BY <1>1, MigrationParts
<1>3. /\ migration.step = "put" /\ Resting /\ [DataNext]_dataVars
      /\ UNCHANGED <<table, rows, list, moved>>
  BY DEF PutOne, Resting, DataNext
<1>4. PlacesDone' = PlacesDone
  BY <1>2, <1>3 DEF PlacesDone
<1>5. /\ f.id \in DOMAIN items' /\ items'[f.id] = f.row
      /\ \A r \in DOMAIN items : r \in DOMAIN items' /\ (r # f.id => items'[r] = items[r])
  BY <1>1 DEF Upsert
<1>6. SUFFICES ASSUME ~moved, left.kind # "errorIds"
               PROVE  CopyInv'
  BY <1>3 DEF CopyInv, Resting
<1>7. /\ \A e \in migration.held : Calm(e.id) => e.row = rows[e.id]
      /\ \A i \in DOMAIN table : RowCopied(i)
  BY <1>3, <1>6 DEF CopyInv
<1>8. ASSUME NEW i \in DOMAIN table, Calm(table[i])
      PROVE  RowCopied(i)'
  <2>1. /\ Reached(i)' <=> Reached(i)
        /\ InChunk(i)' <=> InChunk(i)
        /\ Calm(table[i])' <=> Calm(table[i])
        /\ Asked(i)' <=> Asked(i)
        /\ Wanted(rows[table[i]])' <=> Wanted(rows[table[i]])
        /\ Place(i)' = Place(i)
    BY <1>2, <1>3, <1>4, OffsetStays, RowRests
  <2>2. PICK r : r = table[i]
    OBVIOUS
  <2>3. r = f.id => items'[r] = rows[r]
    BY <1>5, <1>7, <1>8, <2>2
  <2>4. ItemCopied(r) => r \in DOMAIN items' /\ items'[r] = rows[r]
    BY <1>5, <2>3 DEF ItemCopied
  <2>5. [id |-> r, row |-> rows[r]] = f => r \in DOMAIN items' /\ items'[r] = rows[r]
    <3>1. [id |-> r, row |-> rows[r]].id = r
      OBVIOUS
    <3> QED
      BY <1>5, <2>3, <3>1
  <2>6. /\ ItemCopied(table[i])' <=> (r \in DOMAIN items' /\ items'[r] = rows[r])
        /\ Entered(table[i], list)' <=> Entered(r, list)
        /\ Entered(table[i], EntriesDue)' <=> Entered(r, EntriesDue)
    BY <1>2, <1>3, <2>2 DEF ItemCopied, Entered, EntriesDue, Resting
  <2>7. /\ Place(i) <= migration.chunks * MigrationChunk
        /\ Asked(i) /\ Wanted(rows[table[i]]) =>
             /\ Reached(i) => ItemCopied(r) /\ Entered(r, list)
             /\ InChunk(i) =>
                  /\ ItemCopied(r) \/ [id |-> r, row |-> rows[r]] \in migration.held
                  /\ Entered(r, EntriesDue)
    BY <1>7, <1>8, <2>2 DEF RowCopied
  <2>8. [id |-> table[i], row |-> rows[table[i]]]' = [id |-> r, row |-> rows[r]]
    BY <1>3, <2>2
  <2> QED
    BY <1>2, <2>1, <2>4, <2>5, <2>6, <2>7, <2>8 DEF RowCopied
<1>9. \A i \in DOMAIN table : Calm(table[i])' => Calm(table[i])
  BY <1>3 DEF Calm, Resting
<1>10. \A e : Calm(e.id)' <=> Calm(e.id)
  BY <1>3 DEF Calm, Resting
<1> QED
  <2>1. \A i \in DOMAIN table' : RowCopied(i)'
    BY <1>3, <1>8, <1>9 DEF RowCopied
  <2>2. \A e \in migration'.held : Calm(e.id)' => e.row = rows'[e.id]
    BY <1>2, <1>3, <1>7, <1>10
  <2> QED
    BY <1>2, <2>1, <2>2 DEF CopyInv

\* What the other steps of a chunk leave alone.
ChunkRests(i) ==
  /\ Calm(table[i])' <=> Calm(table[i])
  /\ Asked(i)' <=> Asked(i)
  /\ Wanted(rows[table[i]])' <=> Wanted(rows[table[i]])
  /\ ItemCopied(table[i])' <=> ItemCopied(table[i])
  /\ Place(i)' = Place(i)

LEMMA ChunkStays ==
  ASSUME DataType, PutMapping \/ ReadList \/ SaveList \/ EndChunk
  PROVE  /\ Resting /\ [DataNext]_dataVars /\ UNCHANGED <<table, rows, items, moved>>
         /\ \A i \in DOMAIN table : ChunkRests(i)
<1>1. Resting /\ [DataNext]_dataVars /\ UNCHANGED <<table, rows, items, moved>>
  BY DEF PutMapping, ReadList, SaveList, EndChunk, Resting, DataNext
<1>2. ASSUME NEW i \in DOMAIN table
      PROVE  ChunkRests(i)
  BY <1>1, RowRests DEF ChunkRests, ItemCopied, Resting
<1> QED
  BY <1>1, <1>2

\* An entry that is put is no longer due, and in the list.
LEMMA MappingPut ==
  ASSUME DataType, CopyInv, PutMapping
  PROVE  CopyInv'
<1>1. PICK m \in migration.list :
        /\ list' = list \cup {m}
        /\ migration' = MigrationRecord("put", migration.chunk, migration.chunks,
                                        migration.held, migration.list \ {m})
  BY MigrationMoves
<1>2. /\ migration'.step = "put" /\ migration'.chunk = migration.chunk
      /\ migration'.chunks = migration.chunks /\ migration'.held = migration.held
      /\ migration'.list = migration.list \ {m}
  BY <1>1, MigrationParts
<1>3. migration.step = "put" /\ left.kind = "bounties"
  BY DEF PutMapping
<1>4. /\ Resting /\ [DataNext]_dataVars /\ UNCHANGED <<table, rows, items, moved>>
      /\ \A i \in DOMAIN table : ChunkRests(i)
  BY ChunkStays
<1>5. PlacesDone' = PlacesDone
  BY <1>2, <1>3 DEF PlacesDone
<1>6. ASSUME NEW i \in DOMAIN table, RowCopied(i)
      PROVE  RowCopied(i)'
  <2>1. (Reached(i)' <=> Reached(i)) /\ (InChunk(i)' <=> InChunk(i))
    BY <1>2, <1>3, <1>4, <1>5, OffsetStays
  <2>2. /\ Entered(table[i], list) => Entered(table[i], list)'
        /\ Entered(table[i], EntriesDue) => Entered(table[i], EntriesDue)'
    BY <1>1, <1>2, <1>3, <1>4 DEF Entered, EntriesDue, Resting
  <2>3. [id |-> table[i], row |-> rows[table[i]]]' = [id |-> table[i], row |-> rows[table[i]]]
    BY <1>4
  <2> QED
    BY <1>2, <1>3, <1>4, <1>6, <2>1, <2>2, <2>3 DEF RowCopied, ChunkRests
<1> QED
  BY <1>2, <1>3, <1>4, <1>6 DEF CopyInv, Resting, Calm

\* The ids of the chunk are added to those of the inbox.
LEMMA ListRead ==
  ASSUME DataType, CopyInv, ReadList
  PROVE  CopyInv'
<1>1. migration' = MigrationRecord("saveList", migration.chunk, migration.chunks,
                                   migration.held, migration.list \cup list)
  BY MigrationMoves
<1>2. /\ migration'.step = "saveList" /\ migration'.chunk = migration.chunk
      /\ migration'.chunks = migration.chunks
      /\ migration'.list = migration.list \cup list
  BY <1>1, MigrationParts
<1>3. /\ migration.step = "put" /\ left.kind = "notifications" /\ migration.held = {}
      /\ list' = list
  BY DEF ReadList
<1>4. /\ Resting /\ [DataNext]_dataVars /\ UNCHANGED <<table, rows, items, moved>>
      /\ \A i \in DOMAIN table : ChunkRests(i)
  BY ChunkStays
<1>5. PlacesDone' = PlacesDone
  BY <1>2, <1>3 DEF PlacesDone
<1>6. ASSUME NEW i \in DOMAIN table, RowCopied(i)
      PROVE  RowCopied(i)'
  <2>1. (Reached(i)' <=> Reached(i)) /\ (InChunk(i)' <=> InChunk(i))
    BY <1>2, <1>3, <1>4, <1>5, OffsetStays
  <2>2. /\ Entered(table[i], list) => Entered(table[i], list)'
        /\ Entered(table[i], list) => Entered(table[i], migration.list)'
        /\ Entered(table[i], EntriesDue) => Entered(table[i], EntriesDue)'
    BY <1>2, <1>3, <1>4 DEF Entered, EntriesDue, Resting
  <2> QED
    BY <1>2, <1>3, <1>4, <1>6, <2>1, <2>2 DEF RowCopied, ChunkRests
<1> QED
  BY <1>2, <1>3, <1>4, <1>6 DEF CopyInv, Resting

\* A chunk is done: its places are those the offset passes.
LEMMA OffsetMoves ==
  ASSUME DataType, [DataNext]_dataVars, Resting,
         migration.step \in {"put", "saveList"}, migration'.step = "chunk",
         migration'.chunk = migration.chunk, NEW i \in DOMAIN table
  PROVE  (Reached(i)' => Reached(i) \/ InChunk(i)) /\ ~InChunk(i)'
<1>1. Place(i)' = Place(i) /\ Place(i) \in Nat
  BY PlacesStay DEF Resting
<1>2. PICK c \in Nat, size \in Nat : c = migration.chunk /\ size = MigrationChunk
  BY DataAssumption DEF DataType, MigrationType
<1>3. PlacesDone = (c - 1) * size /\ PlacesDone' = c * size
  BY <1>2 DEF PlacesDone
<1>4. PICK d \in Int : d = (c - 1) * size
  BY <1>2
<1>5. c * size = d + size
  BY <1>2, <1>4
<1> QED
  BY <1>1, <1>2, <1>3, <1>4, <1>5 DEF Reached, InChunk

\* The ids are saved as a whole.
LEMMA ListSaved ==
  ASSUME DataType, CopyInv, SaveList
  PROVE  CopyInv'
<1> SUFFICES ASSUME left.kind # "errorIds"
             PROVE  CopyInv'
  BY DEF SaveList, CopyInv
<1>1. migration' = MigrationRecord("chunk", migration.chunk, migration.chunks,
                                   migration.held, migration.list)
  BY MigrationMoves
<1>2. /\ migration'.step = "chunk" /\ migration'.chunk = migration.chunk
      /\ migration'.chunks = migration.chunks
  BY <1>1, MigrationParts
<1>3. migration.step = "saveList" /\ left.kind = "notifications" /\ list' = migration.list
  BY DEF SaveList, DataType, MigrationType
<1>4. /\ Resting /\ [DataNext]_dataVars /\ UNCHANGED <<table, rows, items, moved>>
      /\ \A i \in DOMAIN table : ChunkRests(i)
  BY ChunkStays
<1>6. ASSUME NEW i \in DOMAIN table, RowCopied(i)
      PROVE  RowCopied(i)'
  <2>1. (Reached(i)' => Reached(i) \/ InChunk(i)) /\ ~InChunk(i)'
    BY <1>2, <1>3, <1>4, OffsetMoves
  <2>2. /\ Entered(table[i], migration.list) => Entered(table[i], list)'
        /\ Entered(table[i], EntriesDue) => Entered(table[i], list)'
    BY <1>3, <1>4 DEF Entered, EntriesDue, Resting
  <2> QED
    BY <1>2, <1>3, <1>4, <1>6, <2>1, <2>2 DEF RowCopied, ChunkRests
<1> QED
  BY <1>2, <1>3, <1>4, <1>6 DEF CopyInv, Resting

\* A chunk without a list ends when it is written.
LEMMA ChunkEnds ==
  ASSUME DataType, CopyInv, EndChunk
  PROVE  CopyInv'
<1>1. migration' = MigrationRecord("chunk", migration.chunk, migration.chunks,
                                   migration.held, migration.list)
  BY MigrationMoves
<1>2. /\ migration'.step = "chunk" /\ migration'.chunk = migration.chunk
      /\ migration'.chunks = migration.chunks
  BY <1>1, MigrationParts
<1>3. /\ migration.step = "put" /\ migration.held = {} /\ list' = list
      /\ left.kind = "proposals" \/ (left.kind = "bounties" /\ migration.list = {})
  BY DEF EndChunk
<1>4. /\ Resting /\ [DataNext]_dataVars /\ UNCHANGED <<table, rows, items, moved>>
      /\ \A i \in DOMAIN table : ChunkRests(i)
  BY ChunkStays
<1>6. ASSUME NEW i \in DOMAIN table, RowCopied(i)
      PROVE  RowCopied(i)'
  <2>1. (Reached(i)' => Reached(i) \/ InChunk(i)) /\ ~InChunk(i)'
    BY <1>2, <1>3, <1>4, OffsetMoves
  <2>2. /\ Entered(table[i], list) => Entered(table[i], list)'
        /\ Entered(table[i], EntriesDue) => Entered(table[i], list)'
    BY <1>3, <1>4 DEF Entered, EntriesDue, Resting
  <2> QED
    BY <1>2, <1>3, <1>4, <1>6, <2>1, <2>2 DEF RowCopied, ChunkRests
<1> QED
  BY <1>2, <1>3, <1>4, <1>6 DEF CopyInv, Resting

LEMMA CopyInvNext ==
  ASSUME DataType, CopyInv, [DataNext]_dataVars
  PROVE  CopyInv'
<1>1. CASE ReadChunk
  BY <1>1, MigrationDone, ChunkHeld
<1>2. CASE BreakMigration
  <2>1. migration'.step = "idle"
    BY <1>2 DEF BreakMigration, NoMigration
  <2> QED
    BY <2>1 DEF CopyInv
<1>3. CASE StartListMigration
  <2>1. left'.kind = "errorIds"
    BY <1>3, LeftNext DEF StartListMigration, DataType
  <2> QED
    BY <2>1 DEF CopyInv
<1>4. CASE StartMigration
  BY <1>4, CopyBegins
<1>5. CASE PutOne \/ PutMapping
  BY <1>5, ItemPut, MappingPut
<1>6. CASE ReadList \/ SaveList \/ EndChunk
  BY <1>6, ListRead, ListSaved, ChunkEnds
<1>7. CASE \/ \E r \in Records \cup {Dao} : BeginCreate(r) \/ BeginChange(r) \/ BeginRemove(r)
           \/ WriteItem \/ WriteRow
           \/ StartCheck \/ CheckDao \/ ReadCheckChunk \/ Compare \/ NextCheckChunk
           \/ UNCHANGED dataVars
  BY <1>7, CopyWhileOthers
<1> QED
  BY <1>1, <1>2, <1>3, <1>4, <1>5, <1>6, <1>7 DEF DataNext

\* The ids that were read are those of the calm open errors, also when saved.
LEMMA ListInvNext ==
  ASSUME DataType, ListInv, [DataNext]_dataVars
  PROVE  ListInv'
<1>1. left'.kind = left.kind
  BY LeftNext DEF DataType
<1> SUFFICES ASSUME left.kind = "errorIds",
                    NEW r, r \in DOMAIN rows', Calm(r)', rows'[r].listed
             PROVE  /\ migration'.step = "saveList" => r \in migration'.list
                    /\ migration'.step = "done" => r \in list'
  BY <1>1, Zenon DEF ListInv
<1>2. Calm(r) /\ rows[r].listed =>
        /\ migration.step = "saveList" => r \in migration.list
        /\ migration.step = "done" => r \in list
  BY DEF ListInv, Calm
<1>3. CASE UNCHANGED <<rows, list, migration>> /\ touched \subseteq touched'
  BY <1>2, <1>3 DEF Calm
<1>4. CASE WriteRow
  <2>1. PICK w, new : w = writer.id /\ new = writer.new
    OBVIOUS
  <2>2. /\ rows' = IF new = Nothing THEN [x \in DOMAIN rows \ {w} |-> rows[x]]
                   ELSE Upsert(rows, w, new)
        /\ touched' = touched \cup {w} /\ list' = list /\ migration' = migration
    BY <1>4, <2>1, Zenon DEF WriteRow, Touches
  <2>3. r # w /\ r \in DOMAIN rows /\ rows'[r] = rows[r]
    BY <2>2 DEF Calm, Upsert
  <2> QED
    BY <1>2, <2>2, <2>3 DEF Calm
<1>5. CASE WriteItem
  <2>1. PICK w : w = writer.id
    OBVIOUS
  <2>2. /\ list \subseteq list' \cup {w}
        /\ touched' = touched \cup {w} /\ UNCHANGED <<rows, migration>>
    BY <1>5, <2>1 DEF WriteItem, Touches
  <2>3. r # w /\ Calm(r)
    BY <2>2 DEF Calm
  <2> QED
    BY <1>2, <2>2, <2>3
<1>6. CASE StartListMigration
  <2>1. PICK ids : ids = {x \in DOMAIN rows \ {Dao} : rows[x].listed}
    OBVIOUS
  <2>2. migration' = MigrationRecord("saveList", 0, 0, {}, ids)
    BY <1>6, <2>1, MigrationMoves
  <2>3. migration'.step = "saveList" /\ migration'.list = ids
    BY <2>2, MigrationParts
  <2>4. rows' = rows
    BY <1>6 DEF StartListMigration
  <2>5. r \in ids
    BY <2>1, <2>4 DEF Calm
  <2> QED
    BY <2>3, <2>5
<1>7. CASE SaveList
  <2>1. migration' = MigrationRecord("done", migration.chunk, migration.chunks,
                                     migration.held, migration.list)
    BY <1>7, MigrationMoves
  <2>2. migration'.step = "done"
    BY <2>1, MigrationParts
  <2>3. UNCHANGED <<rows, touched>> /\ list' = migration.list /\ migration.step = "saveList"
    BY <1>7 DEF SaveList
  <2> QED
    BY <1>2, <2>2, <2>3 DEF Calm
<1>8. CASE BreakMigration
  BY <1>8 DEF BreakMigration, NoMigration
<1>9. CASE StartMigration \/ ReadChunk \/ PutOne \/ PutMapping \/ ReadList \/ EndChunk
  <2>1. left.kind # "errorIds"
    BY <1>9 DEF StartMigration, ReadChunk, PutOne, PutMapping, ReadList, EndChunk, DataType,
      MigrationType
  <2> QED
    BY <2>1
<1>10. CASE \E x \in Records \cup {Dao} : BeginCreate(x) \/ BeginChange(x) \/ BeginRemove(x)
  <2>1. UNCHANGED <<rows, list, migration>> /\ touched \subseteq touched'
    BY <1>10, WriteBegins
  <2> QED
    BY <1>3, <2>1
<1> QED
  BY <1>3, <1>4, <1>5, <1>6, <1>7, <1>8, <1>9, <1>10
  DEF DataNext, dataVars, StartCheck, CheckDao, ReadCheckChunk, Compare, NextCheckChunk

\* Whatever handlers write beside them, wherever the rows then come, a migration
\* copies chunk by chunk those that do not come forward, and a check reports those
\* it has compared.
THEOREM DataInvariant == DataSpec => []DataInv
<1>1. DataInv /\ [DataNext]_dataVars => DataInv'
  BY DataTypeNext, CheckInvNext, CopyInvNext, ListInvNext DEF DataInv
<1> QED
  BY <1>1, DataInitial, PTL DEF DataSpec

\* A migration that ended leaves no row without its item and its entry, unless a
\* handler's write brought a row forward or behind the last chunk
\* (dynamo-data.migration.ts).
THEOREM MigrationsComplete == DataSpec => []MigrationComplete
<1>1. DataInv => MigrationComplete
  <2> SUFFICES ASSUME DataInv, migration.step = "done", ~moved,
                      NEW r, r \in DOMAIN rows \ (touched \cup {Dao})
               PROVE  /\ left.kind # "errorIds" /\ Wanted(rows[r])
                           => r \in DOMAIN items /\ items[r] = rows[r]
                      /\ left.kind # "proposals" /\ rows[r].listed => r \in list
    BY DEF MigrationComplete
  <2>1. Calm(r)
    BY DEF Calm
  <2>2. CASE left.kind = "errorIds"
    BY <2>1, <2>2 DEF DataInv, ListInv
  <2>3. CASE left.kind # "errorIds"
    <3>1. PICK i \in DOMAIN table : table[i] = r
      BY DEF DataInv, DataType, TableType
    <3>2. RowCopied(i) /\ migration.chunk = migration.chunks
      BY <2>3 DEF DataInv, CopyInv
    <3>3. Place(i) <= migration.chunks * MigrationChunk
      BY <2>1, <3>1, <3>2 DEF RowCopied
    <3>4. PlacesDone = migration.chunks * MigrationChunk
      BY <3>2 DEF PlacesDone
    <3>7. Reached(i)
      BY <3>3, <3>4 DEF Reached
    <3>8. Asked(i) /\ Wanted(rows[r]) => ItemCopied(r) /\ Entered(r, list)
      BY <2>1, <3>1, <3>2, <3>7 DEF RowCopied
    <3>9. Wanted(rows[r]) => Asked(i)
      BY <3>1 DEF Wanted, Asked
    <3>10. rows[r].listed => Wanted(rows[r])
      BY DEF Wanted
    <3> QED
      BY <3>8, <3>9, <3>10 DEF ItemCopied, Entered
  <2> QED
    BY <2>2, <2>3
<1> QED
  BY <1>1, DataInvariant, PTL

\* A check that nothing disturbed reports the records without an item or with
\* another number, and no others (dynamo-check.migration.ts).
THEOREM ChecksExact == DataSpec => []CheckExact
<1>1. DataInv => CheckExact
  <2> SUFFICES ASSUME DataInv, check.step = "done", undisturbed
               PROVE  CheckExact
    BY DEF CheckExact
  <2>1. check.reported = IF Differs(Dao, rows[Dao]) THEN {Dao}
                         ELSE {r \in DOMAIN rows : Differs(r, rows[r])}
    BY DEF DataInv, CheckInv
  <2>2. \A r \in DOMAIN rows :
          Differs(r, rows[r]) <=> r \notin DOMAIN items \/ items[r].number # rows[r].number
    BY DEF Differs
  <2>3. Dao \in DOMAIN rows
    BY DEF DataInv, DataType, TableType
  <2> QED
    BY <2>1, <2>2, <2>3 DEF CheckExact
<1> QED
  BY <1>1, DataInvariant, PTL
==============================================================================
