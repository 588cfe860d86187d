----------------------- MODULE DraftProposals_proofs -----------------------
(***************************************************************************)
(* Proofs about DraftProposals, for every set of accounts, editors,        *)
(* proposals, requests and events, and every bound.                        *)
(***************************************************************************)
EXTENDS DraftProposals, SequenceTheorems, TLAPS

Creating == {"mongoInsert", "dynPut"}

Labels ==
  Creating \cup {"off", "dynRead", "dynWrite", "mongoRead", "mongoHistory",
                 "mongoPurge", "mongoDelete", "mongoWrite"}

RequestSet ==
  [op : Ops, account : Accounts \cup {None}, proposal : Proposals \cup {None},
   version : Versions]

TypeOK ==
  /\ mongo \in Drafts \cup {None}
  /\ mHistory \subseteq Versions
  /\ dyn \in Items \cup {None}
  /\ pc \in [Workers -> Labels]
  /\ req \in [Workers -> RequestSet]
  /\ item \in [Workers -> Items \cup {None}]
  /\ doc \in [Workers -> Drafts \cup {None}]
  /\ versions \in Versions
  /\ scenario \in Scenarios
  /\ faults \in Nat
  /\ basedOn \in [Versions -> Versions]
  /\ shown \subseteq Versions
  /\ purged \in BOOLEAN
  /\ alone \in Workers \cup {None}
  /\ settled \in RequestSet \cup {None}

\* What a worker asks and has read, by the await it is at.
WorkerInv(w) ==
  /\ pc[w] = "off" => req[w] = NoRequest /\ item[w] = None /\ doc[w] = None
  /\ w \in Events /\ pc[w] # "off" => Op(w) = "closeInternal"
  /\ Op(w) = "create" <=> pc[w] \in Creating
  /\ pc[w] # "off" /\ Op(w) # "closeInternal" => req[w].account \in scenario.by
  /\ Op(w) = "update" => req[w].version \in 1 .. versions
  /\ Op(w) \in {"close", "closeInternal"} => req[w].proposal \in Proposals
  /\ pc[w] = "dynWrite" => item[w] # None
  /\ pc[w] \in {"mongoHistory", "mongoPurge", "mongoDelete", "mongoWrite"} => doc[w] # None
  /\ pc[w] = "mongoHistory" => Op(w) = "update"
  /\ pc[w] \in {"mongoPurge", "mongoDelete"} => Op(w) = "delete"
  /\ pc[w] = "mongoWrite" => Op(w) # "delete"
  /\ Op(w) = "update" /\ pc[w] \in {"mongoHistory", "mongoWrite"} => req[w].account \in Editors

\* A draft is created once, by one request, before anything else may happen to it.
CreateInv ==
  /\ dyn = None => \A w \in Workers : item[w] = None
  /\ \A w \in Workers : pc[w] \in Creating =>
       dyn = None /\ \A v \in Workers \ {w} : pc[v] \notin Creating
  /\ \A w \in Workers : pc[w] = "mongoInsert" =>
       mongo = None /\ \A v \in Workers \ {w} : pc[v] = "off"

-----------------------------------------------------------------------------
(* HistorySerial: the versions of an item, oldest first, each made from    *)
(* the one before, whoever holds the item                                  *)

Line(it) == Append(it.history, it.draft.content)

Serial(it) ==
  /\ Line(it)[1] = 0
  /\ \A i \in 1 .. Len(it.history) : basedOn[Line(it)[i + 1]] = Line(it)[i]

\* No version of an item is later than v.
UpTo(it, v) ==
  it.draft.content <= v /\ \A i \in 1 .. Len(it.history) : it.history[i] <= v

\* Version v was never saved in the item.
Unused(it, v) ==
  it.draft.content # v /\ \A i \in 1 .. Len(it.history) : it.history[i] # v

Copies == ({dyn} \cup {item[w] : w \in Workers}) \ {None}

SerialInv ==
  /\ \A it \in Copies : Serial(it) /\ UpTo(it, versions)
  /\ \A w \in Workers : Op(w) = "update" /\ pc[w] = "dynRead" =>
       \A it \in Copies : Unused(it, req[w].version)
  /\ \A w \in Workers : Op(w) = "update" /\ pc[w] = "dynWrite" =>
       basedOn[req[w].version] = item[w].draft.content
  /\ \A w, v \in Workers : Op(w) = "update" /\ Op(v) = "update" /\ w # v =>
       req[w].version # req[v].version

-----------------------------------------------------------------------------
(* HistoryComplete: the one update under way has read the document there is *)

ShownInv ==
  /\ mongo = None /\ ~purged => shown = {}
  /\ \A w \in Workers : mongo = None /\ doc[w] # None => purged
  /\ \A w \in Workers : pc[w] = "mongoDelete" => purged
  /\ scenario.oneEach => \A w, v \in Requests :
       w # v /\ pc[w] # "off" /\ pc[v] # "off" => req[w].account # req[v].account
  /\ scenario.oneEach /\ OneEditor /\ mongo # None /\ ~purged =>
       \A w \in Workers :
         /\ pc[w] = "mongoHistory" => doc[w].content = mongo.content
         /\ pc[w] = "mongoWrite" /\ Op(w) = "update" =>
              doc[w].content = mongo.content /\ mongo.content \in mHistory

-----------------------------------------------------------------------------
(* StoresAgree: what a request that runs alone has done to each store      *)

DynDone(r) ==
  /\ dyn # None
  /\ r.op = "update" => dyn.draft.content = r.version
  /\ r.op = "delete" => dyn.archived
  /\ r.op = "close" => dyn.draft.state = "Closed"
  /\ r.op \in Marks => Changed(dyn.draft, r) = dyn.draft

MongoClosed(r) ==
  mongo = None \/ (mongo.state = "Closed" /\ mongo.proposal = r.proposal)

\* What worker w has done so far, if no other has overlapped it.
Follows(w) ==
  /\ pc[w] = "dynPut" => mongo = NewDraft
  /\ pc[w] = "dynWrite" => item[w] = dyn
  /\ pc[w] \in {"dynRead", "dynWrite"} /\ Op(w) = "closeInternal" => MongoClosed(req[w])
  /\ pc[w] \in {"mongoRead", "mongoHistory", "mongoPurge", "mongoDelete", "mongoWrite"}
       /\ Op(w) # "closeInternal" => DynDone(req[w])
  /\ pc[w] \in {"mongoHistory", "mongoWrite"} => doc[w] = mongo

SoloInv ==
  /\ alone # None => \A v \in Workers \ {alone} : pc[v] = "off"
  /\ settled # None => \A w \in Workers : pc[w] = "off"
  /\ \A w \in Workers : alone = w => Follows(w)

\* The inductive invariant.
IInv ==
  /\ TypeOK
  /\ \A w \in Workers : WorkerInv(w)
  /\ CreateInv
  /\ SerialInv
  /\ ShownInv /\ HistoryComplete
  /\ SoloInv /\ StoresAgree

-----------------------------------------------------------------------------
(* The operators                                                           *)

\* A change leaves a draft a draft.
LEMMA ChangedType ==
  ASSUME NEW d \in Drafts, NEW r \in RequestSet, r.op # "create",
         r.op # "closeInternal" => r.account \in Accounts
  PROVE  Changed(d, r) \in Drafts
<1>1. CASE r.op = "update"
  BY <1>1 DEF Changed, Drafts, RequestSet
<1>2. CASE r.op \in {"view", "save", "removeSave"}
  BY <1>2 DEF Changed, Drafts, RequestSet
<1>3. CASE r.op \in {"close", "closeInternal"}
  BY <1>3 DEF Changed, Drafts, RequestSet
<1>4. CASE r.op = "delete"
  BY <1>4 DEF Changed, Drafts, RequestSet
<1> QED
  BY <1>1, <1>2, <1>3, <1>4 DEF RequestSet, Ops, Marks

\* What a change does to each field of a draft.
LEMMA ChangedFields ==
  ASSUME NEW d \in Drafts, NEW r \in RequestSet, r.op # "create"
  PROVE  /\ Changed(d, r).content = IF r.op = "update" THEN r.version ELSE d.content
         /\ r.op \in {"close", "closeInternal"} =>
              Changed(d, r).state = "Closed" /\ Changed(d, r).proposal = r.proposal
         /\ r.op \notin {"close", "closeInternal"} => Changed(d, r).proposal = d.proposal
<1>1. CASE r.op = "update"
  BY <1>1 DEF Changed, Drafts, RequestSet
<1>2. CASE r.op \in {"view", "save", "removeSave"}
  BY <1>2 DEF Changed, Drafts, RequestSet
<1>3. CASE r.op \in {"close", "closeInternal"}
  BY <1>3 DEF Changed, Drafts, RequestSet
<1>4. CASE r.op = "delete"
  BY <1>4 DEF Changed, Drafts, RequestSet
<1> QED
  BY <1>1, <1>2, <1>3, <1>4 DEF RequestSet, Ops, Marks

\* A field that is not there is filled from the store.
LEMMA FilledType ==
  ASSUME NEW new \in Drafts, NEW old \in Drafts
  PROVE  /\ Filled(new, old) \in Drafts
         /\ Filled(new, old).content = new.content
         /\ Filled(new, old).state = new.state
         /\ new.proposal # None => Filled(new, old).proposal = new.proposal
         /\ new.proposal = None => Filled(new, old).proposal = old.proposal
         /\ new.proposal = old.proposal => Filled(new, old) = new
BY DEF Filled, Drafts

LEMMA NewDraftType ==
  /\ NewDraft \in Drafts /\ CreatedItem \in Items /\ NoRequest \in RequestSet
BY BoundsAssumption DEF NewDraft, Drafts, CreatedItem, Items, NoRequest, RequestSet, Versions,
                        Ops, Marks

-----------------------------------------------------------------------------
(* Type correctness                                                        *)

LEMMA InitType == Init => TypeOK
<1> SUFFICES ASSUME Init PROVE TypeOK
  OBVIOUS
<1>1. 0 \in Versions
  BY BoundsAssumption DEF Versions
<1>2. pc \in [Workers -> Labels] /\ req \in [Workers -> RequestSet]
  BY NewDraftType DEF Init, Labels
<1>3. item \in [Workers -> Items \cup {None}] /\ doc \in [Workers -> Drafts \cup {None}]
  BY DEF Init
<1>4. basedOn \in [Versions -> Versions]
  BY <1>1 DEF Init
<1> QED
  BY <1>1, <1>2, <1>3, <1>4 DEF Init, TypeOK

\* A request that begins.
LEMMA StartsType ==
  ASSUME TypeOK, NEW w \in Workers, NEW r \in RequestSet, NEW label \in Labels,
         Starts(w, r, label)
  PROVE  /\ pc' \in [Workers -> Labels] /\ req' \in [Workers -> RequestSet]
         /\ alone' \in Workers \cup {None} /\ settled' \in RequestSet \cup {None}
BY DEF Starts, GoTo, TypeOK

\* A request that is answered, with or without success.
LEMMA AnswersType ==
  ASSUME TypeOK, NEW w \in Workers, Answers(w) \/ Rejects(w)
  PROVE  /\ pc' \in [Workers -> Labels] /\ req' \in [Workers -> RequestSet]
         /\ item' \in [Workers -> Items \cup {None}]
         /\ doc' \in [Workers -> Drafts \cup {None}]
         /\ alone' \in Workers \cup {None} /\ settled' \in RequestSet \cup {None}
BY NewDraftType DEF Answers, Rejects, GoTo, Forgets, TypeOK, Labels

\* A request that goes on.
LEMMA GoesOnType ==
  ASSUME TypeOK, NEW w \in Workers, NEW label \in Labels, GoesOn(w, label)
  PROVE  /\ pc' \in [Workers -> Labels] /\ req' \in [Workers -> RequestSet]
         /\ item' \in [Workers -> Items \cup {None}]
         /\ doc' \in [Workers -> Drafts \cup {None}]
         /\ alone' \in Workers \cup {None} /\ settled' \in RequestSet \cup {None}
BY DEF GoesOn, GoTo, memory, TypeOK

\* The item a request saves is an item, and its line is that of the one it has
\* read, with its own version after it if it is an update.
LEMMA NewItemType ==
  ASSUME TypeOK, NEW w \in Workers, WorkerInv(w), pc[w] = "dynWrite"
  PROVE  /\ item[w] \in Items /\ item[w] # None
         /\ NewItem(w) \in Items
         /\ NewItem(w).draft = Changed(item[w].draft, req[w])
         /\ NewItem(w).history = IF Op(w) = "update"
                                 THEN Append(item[w].history, item[w].draft.content)
                                 ELSE item[w].history
<1>1. /\ item[w] \in Items /\ item[w] # None
      /\ req[w] \in RequestSet /\ req[w].op # "create"
      /\ req[w].op # "closeInternal" => req[w].account \in Accounts
  BY BoundsAssumption DEF TypeOK, WorkerInv, Creating, Op
<1>2. /\ item[w].draft \in Drafts /\ item[w].history \in Seq(Versions)
      /\ item[w].archived \in BOOLEAN /\ item[w].draft.content \in Versions
  BY <1>1 DEF Items, Drafts
<1>3. Changed(item[w].draft, req[w]) \in Drafts
  BY <1>1, <1>2, ChangedType
<1>4. Append(item[w].history, item[w].draft.content) \in Seq(Versions)
  BY <1>2
<1>5. (item[w].archived \/ Op(w) = "delete") \in BOOLEAN
  OBVIOUS
<1> QED
  BY <1>1, <1>2, <1>3, <1>4, <1>5 DEF NewItem, Items

LEMMA SavedType ==
  ASSUME NEW old \in Items, NEW new \in Items
  PROVE  /\ Saved(old, new) \in Items
         /\ Saved(old, new).draft = Filled(new.draft, old.draft)
         /\ Saved(old, new).history = new.history
         /\ new.archived => Saved(old, new).archived
<1>1. /\ old.draft \in Drafts /\ new.draft \in Drafts /\ new.history \in Seq(Versions)
      /\ new.archived \in BOOLEAN /\ old.archived \in BOOLEAN
  BY DEF Items
<1>2. Filled(new.draft, old.draft) \in Drafts
  BY <1>1, FilledType
<1>3. (new.archived \/ old.archived) \in BOOLEAN
  OBVIOUS
<1> QED
  BY <1>1, <1>2, <1>3 DEF Saved, Items

\* What a request writes to MongoDB, from the document it has read.
LEMMA MongoWriteType ==
  ASSUME TypeOK, NEW w \in Workers, WorkerInv(w), MongoWrite(w)
  PROVE  /\ doc[w] \in Drafts /\ Changed(doc[w], req[w]) \in Drafts
         /\ mongo' \in Drafts \cup {None}
         /\ Op(w) = "update" /\ mongo = None => mongo' = Changed(doc[w], req[w])
         /\ Op(w) = "update" /\ mongo # None => mongo' = Filled(Changed(doc[w], req[w]), mongo)
         /\ Op(w) # "update" => mongo' = Patched(mongo, req[w], Changed(doc[w], req[w]))
         /\ Op(w) # "update" /\ mongo = None => mongo' = None
         /\ Op(w) # "update" /\ mongo # None =>
              /\ mongo' # None /\ mongo'.content = mongo.content
              /\ Op(w) \in {"close", "closeInternal"} =>
                   mongo'.state = "Closed" /\ mongo'.proposal = req[w].proposal
              /\ Op(w) \in Marks => mongo'.proposal = mongo.proposal
<1>1. /\ doc[w] \in Drafts
      /\ req[w] \in RequestSet /\ req[w].op \notin {"create", "delete"}
      /\ req[w].op # "closeInternal" => req[w].account \in Accounts
      /\ mongo \in Drafts \cup {None}
  BY BoundsAssumption DEF TypeOK, WorkerInv, Creating, Op, MongoWrite
<1> DEFINE d == Changed(doc[w], req[w])
<1>2. d \in Drafts
  BY <1>1, ChangedType
<1>3. mongo' = IF Op(w) = "update" THEN Rewritten(mongo, d) ELSE Patched(mongo, req[w], d)
  BY DEF MongoWrite
<1>4. CASE Op(w) = "update"
  BY <1>1, <1>2, <1>3, <1>4, FilledType DEF Rewritten, Marks
<1>5. CASE Op(w) # "update" /\ mongo = None
  BY <1>1, <1>2, <1>3, <1>5 DEF Patched
<1>6. ASSUME Op(w) # "update", mongo # None
      PROVE  /\ mongo' \in Drafts /\ mongo'.content = mongo.content
             /\ Op(w) \in {"close", "closeInternal"} =>
                  mongo'.state = "Closed" /\ mongo'.proposal = req[w].proposal
             /\ Op(w) \in Marks => mongo'.proposal = mongo.proposal
  <2>1. mongo \in Drafts /\ mongo' = Patched(mongo, req[w], d)
    BY <1>1, <1>3, <1>6
  <2>2. CASE req[w].op = "view"
    BY <1>2, <1>6, <2>1, <2>2 DEF Patched, Drafts, Op
  <2>3. CASE req[w].op \in {"save", "removeSave"}
    BY <1>2, <1>6, <2>1, <2>3 DEF Patched, Drafts, Op
  <2>4. CASE req[w].op \in {"close", "closeInternal"}
    <3>1. d.state = "Closed" /\ d.proposal = req[w].proposal
      BY <1>1, <2>4, ChangedFields
    <3>2. mongo' = [mongo EXCEPT !.state = d.state, !.proposal = d.proposal]
      BY <1>6, <2>1, <2>4 DEF Patched
    <3> QED
      BY <1>2, <2>1, <2>4, <3>1, <3>2 DEF Drafts, Op, Marks
  <2> QED
    BY <1>1, <1>6, <2>2, <2>3, <2>4 DEF RequestSet, Ops, Marks, Op
<1>7. mongo' \in Drafts => mongo' # None
  BY NoneAssumption
<1> QED
  BY <1>1, <1>2, <1>3, <1>4, <1>5, <1>6, <1>7

\* Every step leaves the types as they are.
LEMMA NextType ==
  ASSUME TypeOK, \A w \in Workers : WorkerInv(w), CreateInv, [Next]_vars
  PROVE  TypeOK'
<1>0. 0 \in Versions /\ Requests \subseteq Workers /\ Events \subseteq Workers
  BY BoundsAssumption DEF Versions, Workers
<1>1. ASSUME NEW w \in Requests, CreateBegins(w)
      PROVE  TypeOK'
  <2>1. PICK a \in scenario.by :
          Starts(w, [op |-> "create", account |-> a, proposal |-> None, version |-> 0],
                 "mongoInsert")
    BY <1>1 DEF CreateBegins
  <2>2. a \in Accounts
    BY BoundsAssumption DEF TypeOK
  <2>3. [op |-> "create", account |-> a, proposal |-> None, version |-> 0] \in RequestSet
    BY <1>0, <2>2 DEF RequestSet, Ops
  <2>4. "mongoInsert" \in Labels
    BY DEF Labels, Creating
  <2>5. /\ pc' \in [Workers -> Labels] /\ req' \in [Workers -> RequestSet]
        /\ alone' \in Workers \cup {None} /\ settled' \in RequestSet \cup {None}
    BY <1>0, <2>1, <2>3, <2>4, StartsType
  <2> QED
    BY <1>1, <2>5 DEF CreateBegins, NothingWritten, stores, history, memory, TypeOK
<1>2. ASSUME NEW w \in Requests, MongoInsert(w)
      PROVE  TypeOK'
  BY <1>0, <1>2, GoesOnType, NewDraftType DEF MongoInsert, TypeOK, Labels, Creating
<1>3. ASSUME NEW w \in Requests, DynPut(w)
      PROVE  TypeOK'
  BY <1>0, <1>3, AnswersType, NewDraftType DEF DynPut, history, TypeOK
<1>4. ASSUME NEW w \in Requests, UpdateBegins(w)
      PROVE  TypeOK'
  <2>1. PICK a \in scenario.by :
          Starts(w, [op |-> "update", account |-> a, proposal |-> None,
                     version |-> versions + 1], "dynRead")
    BY <1>4 DEF UpdateBegins
  <2>2. a \in Accounts /\ versions + 1 \in Versions
    BY <1>4, BoundsAssumption DEF TypeOK, UpdateBegins, Versions
  <2>3. [op |-> "update", account |-> a, proposal |-> None, version |-> versions + 1]
          \in RequestSet
    BY <2>2 DEF RequestSet, Ops
  <2>4. "dynRead" \in Labels
    BY DEF Labels
  <2>5. /\ pc' \in [Workers -> Labels] /\ req' \in [Workers -> RequestSet]
        /\ alone' \in Workers \cup {None} /\ settled' \in RequestSet \cup {None}
    BY <1>0, <2>1, <2>3, <2>4, StartsType
  <2> QED
    BY <1>4, <2>2, <2>5 DEF UpdateBegins, stores, history, memory, TypeOK
<1>5. ASSUME NEW w \in Requests, RequestBegins(w)
      PROVE  TypeOK'
  <2>1. PICK op \in scenario.asked \ {"update"}, a \in scenario.by, p \in Proposals :
          Starts(w, [op |-> op, account |-> a,
                     proposal |-> IF op = "close" THEN p ELSE None, version |-> 0], "dynRead")
    BY <1>5 DEF RequestBegins
  <2>2. a \in Accounts /\ op \in Ops
    BY BoundsAssumption DEF TypeOK, Ops
  <2>3. [op |-> op, account |-> a, proposal |-> IF op = "close" THEN p ELSE None,
         version |-> 0] \in RequestSet
    BY <1>0, <2>2 DEF RequestSet
  <2>4. "dynRead" \in Labels
    BY DEF Labels
  <2>5. /\ pc' \in [Workers -> Labels] /\ req' \in [Workers -> RequestSet]
        /\ alone' \in Workers \cup {None} /\ settled' \in RequestSet \cup {None}
    BY <1>0, <2>1, <2>3, <2>4, StartsType
  <2> QED
    BY <1>5, <2>5 DEF RequestBegins, NothingWritten, stores, history, memory, TypeOK
<1>6. ASSUME NEW w \in Events, CloseEvent(w)
      PROVE  TypeOK'
  <2>1. PICK p \in Proposals :
          Starts(w, [op |-> "closeInternal", account |-> None, proposal |-> p, version |-> 0],
                 "mongoRead")
    BY <1>6 DEF CloseEvent
  <2>3. [op |-> "closeInternal", account |-> None, proposal |-> p, version |-> 0] \in RequestSet
    BY <1>0 DEF RequestSet, Ops
  <2>4. "mongoRead" \in Labels
    BY DEF Labels
  <2>5. /\ pc' \in [Workers -> Labels] /\ req' \in [Workers -> RequestSet]
        /\ alone' \in Workers \cup {None} /\ settled' \in RequestSet \cup {None}
    BY <1>0, <2>1, <2>3, <2>4, StartsType
  <2> QED
    BY <1>6, <2>5 DEF CloseEvent, NothingWritten, stores, history, memory, TypeOK
<1>7. ASSUME NEW w \in Workers, DynRead(w)
      PROVE  TypeOK'
  <2>1. dyn \in Items /\ dyn.draft \in Drafts /\ dyn.draft.content \in Versions
    BY <1>7 DEF DynRead, TypeOK, Items, Drafts
  <2>2. basedOn' \in [Versions -> Versions]
    BY <1>7, <2>1 DEF DynRead, TypeOK, RequestSet
  <2>3. pc' \in [Workers -> Labels] /\ item' \in [Workers -> Items \cup {None}]
    BY <1>7, <2>1 DEF DynRead, GoTo, TypeOK, Labels
  <2> QED
    BY <1>7, <2>2, <2>3 DEF DynRead, stores, history, TypeOK
<1>8. ASSUME NEW w \in Workers, DynRefuses(w)
      PROVE  TypeOK'
  BY <1>8, AnswersType DEF DynRefuses, NothingWritten, stores, history, TypeOK
<1>9. ASSUME NEW w \in Workers, DynWrite(w)
      PROVE  TypeOK'
  <2>1. dyn' = Saved(dyn, NewItem(w)) /\ NewItem(w) \in Items
    BY <1>9, NewItemType DEF DynWrite
  <2>0. dyn \in Items
    BY <1>9 DEF DynWrite, WorkerInv, CreateInv, TypeOK
  <2>2. dyn' \in Items \cup {None}
    BY <2>0, <2>1, SavedType
  <2>3. "mongoRead" \in Labels
    BY DEF Labels
  <2> QED
    BY <1>9, <2>2, <2>3, AnswersType, GoesOnType DEF DynWrite, history, TypeOK
<1>10. ASSUME NEW w \in Workers, MongoRead(w)
       PROVE  TypeOK'
  <2>1. CASE NothingToDo(mongo, req[w])
    BY <1>10, <2>1, AnswersType DEF MongoRead, NothingWritten, stores, history, TypeOK
  <2>2. CASE ~NothingToDo(mongo, req[w])
    <3>1. AfterMongoRead(w) \in Labels
      BY DEF AfterMongoRead, Labels
    <3>2. /\ pc' \in [Workers -> Labels] /\ item' \in [Workers -> Items \cup {None}]
          /\ doc' \in [Workers -> Drafts \cup {None}]
      BY <1>10, <2>2, <3>1 DEF MongoRead, GoTo, TypeOK
    <3> QED
      BY <1>10, <2>2, <3>2 DEF MongoRead, NothingWritten, stores, history, TypeOK
  <2> QED
    BY <2>1, <2>2
<1>11. ASSUME NEW w \in Workers, MongoRefuses(w)
       PROVE  TypeOK'
  <2>1. "dynRead" \in Labels
    BY DEF Labels
  <2> QED
    BY <1>11, <2>1, AnswersType, GoesOnType
       DEF MongoRefuses, NothingWritten, stores, history, TypeOK
<1>12. ASSUME NEW w \in Workers, MongoWrite(w)
       PROVE  TypeOK'
  <2>1. mongo' \in Drafts \cup {None}
    BY <1>12, MongoWriteType
  <2>2. shown' \subseteq Versions
    BY <1>12 DEF MongoWrite, TypeOK, RequestSet
  <2>3. "dynRead" \in Labels
    BY DEF Labels
  <2> QED
    BY <1>12, <2>1, <2>2, <2>3, AnswersType, GoesOnType DEF MongoWrite, TypeOK
<1>13. ASSUME NEW w \in Requests, SaveHistory(w)
       PROVE  TypeOK'
  <2>1. doc[w].content \in Versions
    BY <1>0, <1>13 DEF SaveHistory, TypeOK, WorkerInv, Drafts
  <2>2. "mongoWrite" \in Labels
    BY DEF Labels
  <2> QED
    BY <1>0, <1>13, <2>1, <2>2, GoesOnType DEF SaveHistory, history, TypeOK
<1>14. ASSUME NEW w \in Requests, PurgeHistory(w)
       PROVE  TypeOK'
  <2>2. "mongoDelete" \in Labels
    BY DEF Labels
  <2> QED
    BY <1>0, <1>14, <2>2, GoesOnType DEF PurgeHistory, TypeOK
<1>15. ASSUME NEW w \in Requests, MongoDelete(w)
       PROVE  TypeOK'
  BY <1>0, <1>15, AnswersType DEF MongoDelete, history, TypeOK
<1>16. ASSUME NEW w \in Workers, Fails(w)
       PROVE  TypeOK'
  BY <1>16, AnswersType DEF Fails, stores, history, TypeOK
<1>17. CASE UNCHANGED vars
  BY <1>17 DEF vars, stores, memory, history, TypeOK
<1> QED
  BY <1>1, <1>2, <1>3, <1>4, <1>5, <1>6, <1>7, <1>8, <1>9, <1>10, <1>11, <1>12, <1>13, <1>14,
     <1>15, <1>16, <1>17 DEF Next, Step

-----------------------------------------------------------------------------
(* A step of one worker                                                    *)

Moves(w) ==
  \/ Step(w) \/ Fails(w)
  \/ w \in Requests /\ (CreateBegins(w) \/ MongoInsert(w) \/ DynPut(w) \/ UpdateBegins(w)
                        \/ RequestBegins(w) \/ SaveHistory(w) \/ PurgeHistory(w)
                        \/ MongoDelete(w))
  \/ w \in Events /\ CloseEvent(w)

LEMMA OneMoves == Next => \E w \in Workers : Moves(w)
BY DEF Next, Moves, Workers

\* The other workers stay where they are, and remember what they have read.
LEMMA OthersStay ==
  ASSUME TypeOK, NEW w \in Workers, Moves(w)
  PROVE  /\ \A v \in Workers \ {w} : /\ pc'[v] = pc[v] /\ req'[v] = req[v]
                                     /\ item'[v] = item[v] /\ doc'[v] = doc[v]
         /\ scenario' = scenario
         /\ versions \in Nat /\ versions' \in Nat /\ versions <= versions'
<1>1. versions \in Nat
  BY BoundsAssumption DEF TypeOK, Versions
<1>2. CASE Step(w) \/ Fails(w)
  BY <1>1, <1>2 DEF Step, Fails, DynRead, DynRefuses, DynWrite, MongoRead, MongoRefuses,
     MongoWrite, Answers, Rejects, GoesOn, Forgets, GoTo, memory, NothingWritten, TypeOK
<1>3. CASE CreateBegins(w) \/ UpdateBegins(w) \/ RequestBegins(w) \/ CloseEvent(w)
  BY <1>1, <1>3 DEF CreateBegins, UpdateBegins, RequestBegins, CloseEvent, Starts, GoTo, memory,
     NothingWritten, TypeOK
<1>4. CASE MongoInsert(w) \/ DynPut(w) \/ SaveHistory(w) \/ PurgeHistory(w) \/ MongoDelete(w)
  BY <1>1, <1>4 DEF MongoInsert, DynPut, SaveHistory, PurgeHistory, MongoDelete, Answers, GoesOn,
     Forgets, GoTo, memory, NothingWritten, TypeOK
<1> QED
  BY <1>2, <1>3, <1>4 DEF Moves

\* Where a worker is that has started, is answered or goes on.
LEMMA Started ==
  ASSUME TypeOK, NEW w \in Workers, NEW r, NEW label, Starts(w, r, label),
         UNCHANGED memory
  PROVE  pc[w] = "off" /\ pc'[w] = label /\ req'[w] = r /\ item'[w] = item[w] /\ doc'[w] = doc[w]
BY DEF Starts, GoTo, memory, TypeOK

LEMMA Answered ==
  ASSUME TypeOK, NEW w \in Workers, Answers(w) \/ Rejects(w)
  PROVE  pc'[w] = "off" /\ req'[w] = NoRequest /\ item'[w] = None /\ doc'[w] = None
BY DEF Answers, Rejects, Forgets, GoTo, TypeOK

LEMMA WentOn ==
  ASSUME TypeOK, NEW w \in Workers, NEW label, GoesOn(w, label)
  PROVE  pc'[w] = label /\ req'[w] = req[w] /\ item'[w] = item[w] /\ doc'[w] = doc[w]
BY DEF GoesOn, GoTo, memory, TypeOK

\* A worker that is off.
LEMMA OffWorker ==
  ASSUME NEW w \in Workers, pc'[w] = "off", req'[w] = NoRequest, item'[w] = None, doc'[w] = None
  PROVE  WorkerInv(w)'
BY DEF WorkerInv, Op, NoRequest, Creating

LEMMA WorkerInit == Init => \A w \in Workers : WorkerInv(w)
BY DEF Init, WorkerInv, Op, NoRequest, Creating

-----------------------------------------------------------------------------
(* What each worker asks and has read                                      *)

LEMMA WorkerNext ==
  ASSUME TypeOK, TypeOK', \A w \in Workers : WorkerInv(w), [Next]_vars
  PROVE  \A w \in Workers : WorkerInv(w)'
<1>1. CASE UNCHANGED vars
  BY <1>1 DEF vars, memory, WorkerInv, Op
<1>2. ASSUME NEW w \in Workers, Moves(w)
      PROVE  \A v \in Workers : WorkerInv(v)'
  <2>1. ASSUME NEW v \in Workers \ {w}
        PROVE  WorkerInv(v)'
    <3>1. /\ pc'[v] = pc[v] /\ req'[v] = req[v] /\ item'[v] = item[v] /\ doc'[v] = doc[v]
          /\ scenario' = scenario
          /\ versions \in Nat /\ versions' \in Nat /\ versions <= versions'
      BY <1>2, <2>1, OthersStay
    <3> QED
      BY <3>1 DEF WorkerInv, Op
  <2>2. WorkerInv(w)'
    <3>0. WorkerInv(w) /\ scenario' = scenario
      BY <1>2, OthersStay
    <3>1. CASE \/ DynPut(w) \/ MongoDelete(w) \/ Fails(w)
               \/ Step(w) /\ (Answers(w) \/ Rejects(w))
      BY <3>1, Answered, OffWorker DEF DynPut, MongoDelete, Fails
    <3>2. CASE DynRead(w)
      <4>1. /\ pc[w] = "dynRead" /\ pc'[w] \in {"mongoRead", "dynWrite"} /\ req'[w] = req[w]
            /\ item'[w] = dyn /\ dyn # None /\ doc'[w] = doc[w] /\ versions' = versions
        BY <3>2 DEF DynRead, GoTo, TypeOK
      <4> QED
        BY <3>0, <4>1 DEF WorkerInv, Op, Creating
    <3>3. CASE DynWrite(w) /\ GoesOn(w, "mongoRead")
      BY <3>0, <3>3, WentOn DEF DynWrite, WorkerInv, Op, Creating
    <3>4. CASE MongoRead(w) /\ ~NothingToDo(mongo, req[w])
      <4>1. /\ pc[w] = "mongoRead" /\ pc'[w] = AfterMongoRead(w) /\ req'[w] = req[w]
            /\ item'[w] = None /\ doc'[w] = mongo /\ mongo # None /\ versions' = versions
            /\ Permitted(mongo, req[w])
        BY <3>4 DEF MongoRead, GoTo, TypeOK, NothingWritten
      <4>2. /\ pc'[w] \in {"mongoHistory", "mongoPurge", "mongoWrite"}
            /\ Op(w) = "update" <=> pc'[w] = "mongoHistory"
            /\ Op(w) = "delete" <=> pc'[w] = "mongoPurge"
        BY <4>1 DEF AfterMongoRead
      <4> QED
        BY <3>0, <4>1, <4>2 DEF WorkerInv, Op, Creating, Permitted
    <3>5. CASE MongoRefuses(w) /\ GoesOn(w, "dynRead")
      BY <3>0, <3>5, WentOn DEF MongoRefuses, NothingWritten, WorkerInv, Op, Creating
    <3>6. CASE MongoWrite(w) /\ GoesOn(w, "dynRead")
      BY <3>0, <3>6, WentOn DEF MongoWrite, WorkerInv, Op, Creating
    <3>7. CASE w \in Requests /\ CreateBegins(w)
      <4>1. PICK a \in scenario.by :
              Starts(w, [op |-> "create", account |-> a, proposal |-> None, version |-> 0],
                     "mongoInsert")
        BY <3>7 DEF CreateBegins
      <4>2. /\ pc'[w] = "mongoInsert"
            /\ req'[w] = [op |-> "create", account |-> a, proposal |-> None, version |-> 0]
            /\ item'[w] = item[w] /\ doc'[w] = doc[w]
        BY <3>7, <4>1, Started DEF CreateBegins
      <4> QED
        BY <3>0, <3>7, <4>2, WorkersAssumption DEF WorkerInv, Op, Creating
    <3>8. CASE MongoInsert(w)
      BY <3>0, <3>8, WentOn DEF MongoInsert, WorkerInv, Op, Creating
    <3>9. CASE w \in Requests /\ UpdateBegins(w)
      <4>1. PICK a \in scenario.by :
              Starts(w, [op |-> "update", account |-> a, proposal |-> None,
                         version |-> versions + 1], "dynRead")
        BY <3>9 DEF UpdateBegins
      <4>2. /\ pc'[w] = "dynRead"
            /\ req'[w] = [op |-> "update", account |-> a, proposal |-> None,
                          version |-> versions + 1]
            /\ item'[w] = item[w] /\ doc'[w] = doc[w]
            /\ versions' = versions + 1 /\ versions \in Nat
        BY <1>2, <3>9, <4>1, Started, OthersStay DEF UpdateBegins
      <4> QED
        BY <3>0, <3>9, <4>2, WorkersAssumption DEF WorkerInv, Op, Creating
    <3>10. CASE w \in Requests /\ RequestBegins(w)
      <4>1. PICK op \in scenario.asked \ {"update"}, a \in scenario.by, p \in Proposals :
              Starts(w, [op |-> op, account |-> a,
                         proposal |-> IF op = "close" THEN p ELSE None, version |-> 0],
                     "dynRead")
        BY <3>10 DEF RequestBegins
      <4>2. /\ pc'[w] = "dynRead"
            /\ req'[w] = [op |-> op, account |-> a,
                          proposal |-> IF op = "close" THEN p ELSE None, version |-> 0]
            /\ item'[w] = item[w] /\ doc'[w] = doc[w]
        BY <3>10, <4>1, Started DEF RequestBegins
      <4>3. op \in {"view", "save", "removeSave", "delete", "close"}
        BY BoundsAssumption DEF TypeOK, Marks
      <4> QED
        BY <3>0, <3>10, <4>2, <4>3, WorkersAssumption DEF WorkerInv, Op, Creating
    <3>11. CASE SaveHistory(w)
      BY <3>0, <3>11, WentOn DEF SaveHistory, WorkerInv, Op, Creating
    <3>12. CASE PurgeHistory(w)
      BY <3>0, <3>12, WentOn DEF PurgeHistory, WorkerInv, Op, Creating
    <3>13. CASE w \in Events /\ CloseEvent(w)
      <4>1. PICK p \in Proposals :
              Starts(w, [op |-> "closeInternal", account |-> None, proposal |-> p,
                         version |-> 0], "mongoRead")
        BY <3>13 DEF CloseEvent
      <4>2. /\ pc'[w] = "mongoRead"
            /\ req'[w] = [op |-> "closeInternal", account |-> None, proposal |-> p,
                          version |-> 0]
            /\ item'[w] = item[w] /\ doc'[w] = doc[w]
        BY <3>13, <4>1, Started DEF CloseEvent
      <4> QED
        BY <3>0, <4>2 DEF WorkerInv, Op, Creating
    <3> QED
      BY <1>2, <3>1, <3>2, <3>3, <3>4, <3>5, <3>6, <3>7, <3>8, <3>9, <3>10, <3>11, <3>12, <3>13
         DEF Moves, Step, DynRefuses, DynWrite, MongoRead, MongoRefuses, MongoWrite
  <2> QED
    BY <2>1, <2>2
<1> QED
  BY <1>1, <1>2, OneMoves

LEMMA CreateInit == Init => CreateInv
BY DEF Init, CreateInv, Creating

LEMMA CreateNext ==
  ASSUME TypeOK, TypeOK', \A w \in Workers : WorkerInv(w), \A w \in Workers : WorkerInv(w)',
         CreateInv, [Next]_vars
  PROVE  CreateInv'
<1>1. CASE UNCHANGED vars
  BY <1>1 DEF vars, stores, memory, CreateInv
<1>2. ASSUME NEW w \in Workers, Moves(w)
      PROVE  CreateInv'
  <2>0. \A v \in Workers \ {w} : pc'[v] = pc[v] /\ item'[v] = item[v]
    BY <1>2, OthersStay
  <2>1. CASE w \in Requests /\ CreateBegins(w)
    <3>1. PICK a \in scenario.by :
            Starts(w, [op |-> "create", account |-> a, proposal |-> None, version |-> 0],
                   "mongoInsert")
      BY <2>1 DEF CreateBegins
    <3>2. pc'[w] = "mongoInsert" /\ item'[w] = item[w] /\ dyn' = dyn /\ mongo' = mongo
      BY <2>1, <3>1, Started DEF CreateBegins, NothingWritten, stores
    <3> QED
      BY <2>0, <2>1, <3>2 DEF CreateBegins, CreateInv, Creating, WorkerInv
  <2>2. CASE MongoInsert(w)
    <3>1. pc'[w] = "dynPut" /\ item'[w] = item[w] /\ dyn' = dyn /\ pc[w] = "mongoInsert"
      BY <2>2, WentOn DEF MongoInsert
    <3> QED
      BY <2>0, <3>1 DEF CreateInv, Creating
  <2>3. CASE DynPut(w)
    <3>1. pc'[w] = "off" /\ pc[w] = "dynPut" /\ dyn' # None
      BY <2>3, Answered, NewDraftType, NoneAssumption DEF DynPut
    <3> QED
      BY <2>0, <3>1 DEF CreateInv, Creating
  <2>4. CASE pc[w] \notin Creating /\ pc'[w] \notin Creating
    <3>1. ASSUME NEW v \in Workers, pc'[v] = "mongoInsert"
          PROVE  FALSE
      <4>1. pc[v] = "mongoInsert" /\ v # w
        BY <2>0, <2>4, <3>1 DEF Creating
      <4>2. pc[w] = "off" /\ mongo = None /\ dyn = None
        BY <4>1 DEF CreateInv, Creating
      <4> QED
        BY <1>2, <4>1, <4>2 DEF Moves, Step, Fails, DynRead, DynRefuses, DynWrite, MongoRead,
           MongoRefuses, MongoWrite, CreateBegins, MongoInsert, DynPut, UpdateBegins,
           RequestBegins, SaveHistory, PurgeHistory, MongoDelete, CloseEvent, Known
    <3>2. \/ dyn' # None /\ dyn # None
          \/ dyn' = dyn /\ (item'[w] = item[w] \/ item'[w] = None)
      <4>1. CASE DynRead(w)
        BY <4>1 DEF DynRead, stores
      <4>2. CASE DynWrite(w)
        <5>1. dyn # None /\ dyn \in Items
          BY <4>2 DEF DynWrite, WorkerInv, CreateInv, TypeOK
        <5>2. dyn' \in Items
          BY <4>2, <5>1, NewItemType, SavedType DEF DynWrite
        <5> QED
          BY <5>1, <5>2, NoneAssumption
      <4>3. CASE \/ DynRefuses(w) \/ MongoRefuses(w) \/ MongoWrite(w) \/ Fails(w) \/ SaveHistory(w)
                 \/ PurgeHistory(w) \/ MongoDelete(w)
        BY <4>3, Answered DEF DynRefuses, MongoRefuses, MongoWrite, Fails, SaveHistory,
           PurgeHistory, MongoDelete, GoesOn, NothingWritten, stores, memory
      <4>4. CASE MongoRead(w)
        BY <4>4, Answered DEF MongoRead, NothingWritten, stores, TypeOK
      <4>5. CASE CreateBegins(w) \/ UpdateBegins(w) \/ RequestBegins(w) \/ CloseEvent(w)
        BY <4>5 DEF CreateBegins, UpdateBegins, RequestBegins, CloseEvent, NothingWritten, stores,
           memory
      <4> QED
        BY <1>2, <2>4, <4>1, <4>2, <4>3, <4>4, <4>5 DEF Moves, Step, MongoInsert, DynPut, Creating
    <3>3. \A v \in Workers : pc'[v] \in Creating => v # w /\ pc[v] \in Creating
      BY <2>0, <2>4
    <3>4. dyn' = None => \A v \in Workers : item'[v] = None
      BY <2>0, <3>2 DEF CreateInv
    <3>5. \A v \in Workers : pc'[v] \in Creating =>
            dyn' = None /\ \A u \in Workers \ {v} : pc'[u] \notin Creating
      BY <2>4, <3>2, <3>3 DEF CreateInv
    <3> QED
      BY <3>1, <3>4, <3>5 DEF CreateInv
  <2>5. pc[w] \in Creating \/ pc'[w] \in Creating
          => \/ w \in Requests /\ CreateBegins(w)
             \/ MongoInsert(w) \/ DynPut(w)
             \/ pc[w] \in Creating /\ Fails(w)
    <3>1. ASSUME pc[w] \in Creating
          PROVE  MongoInsert(w) \/ DynPut(w) \/ Fails(w)
      BY <1>2, <3>1 DEF Moves, Step, Fails, DynRead, DynRefuses, DynWrite, MongoRead,
         MongoRefuses, MongoWrite, CreateBegins, MongoInsert, DynPut, UpdateBegins,
         RequestBegins, SaveHistory, PurgeHistory, MongoDelete, CloseEvent, Starts, Creating
    <3>2. ASSUME pc'[w] \in Creating, pc[w] \notin Creating
          PROVE  w \in Requests /\ CreateBegins(w)
      <4>1. Op(w)' = "create" /\ req'[w] # req[w]
        BY <3>2 DEF WorkerInv, Op
      <4>2. ~ (\E label : GoesOn(w, label)) /\ ~ Answers(w) /\ ~ Rejects(w)
        BY <3>2, <4>1, Answered, WentOn DEF Creating
      <4>3. ~ DynRead(w) /\ ~ MongoRead(w)
        BY <3>2, <4>1, <4>2 DEF DynRead, MongoRead, TypeOK
      <4>4. ~ UpdateBegins(w) /\ ~ RequestBegins(w) /\ ~ CloseEvent(w)
        BY <3>2 DEF UpdateBegins, RequestBegins, CloseEvent, Starts, GoTo, Creating, TypeOK
      <4> QED
        BY <1>2, <4>2, <4>3, <4>4 DEF Moves, Step, Fails, DynRefuses, DynWrite, MongoRefuses,
           MongoWrite, MongoInsert, DynPut, SaveHistory, PurgeHistory, MongoDelete
    <3> QED
      BY <3>1, <3>2
  <2>6. CASE pc[w] \in Creating /\ Fails(w)
    <3>1. pc'[w] = "off" /\ item'[w] = None /\ dyn' = dyn /\ dyn = None /\ mongo' = mongo
      BY <2>6, Answered DEF Fails, CreateInv, stores
    <3> QED
      BY <2>0, <2>6, <3>1 DEF CreateInv, Creating
  <2> QED
    BY <2>1, <2>2, <2>3, <2>4, <2>5, <2>6
<1> QED
  BY <1>1, <1>2, OneMoves

-----------------------------------------------------------------------------
(* The item of DynamoDB is serial                                          *)

LEMMA VersionsNat == Versions \subseteq Nat /\ 0 \in Versions
BY BoundsAssumption DEF Versions

LEMMA LineFacts ==
  ASSUME NEW it \in Items
  PROVE  /\ it.history \in Seq(Versions) /\ Len(it.history) \in Nat
         /\ it.draft \in Drafts /\ it.draft.content \in Versions
         /\ \A i \in 1 .. Len(it.history) : it.history[i] \in Versions
         /\ Line(it) \in Seq(Versions) /\ Len(Line(it)) = Len(it.history) + 1
         /\ Line(it)[Len(it.history) + 1] = it.draft.content
         /\ \A i \in 1 .. Len(it.history) : Line(it)[i] = it.history[i]
<1>1. it.history \in Seq(Versions) /\ it.draft \in Drafts /\ it.draft.content \in Versions
  BY DEF Items, Drafts
<1> QED
  BY <1>1 DEF Line

\* What is on the line of an item is its content or in its history.
LEMMA OnLine ==
  ASSUME NEW it \in Items, NEW i \in 1 .. Len(it.history)
  PROVE  /\ Line(it)[i + 1] = it.draft.content
              \/ \E j \in 1 .. Len(it.history) : Line(it)[i + 1] = it.history[j]
         /\ Line(it)[i + 1] \in Versions
<1>1. CASE i = Len(it.history)
  BY <1>1, LineFacts
<1>2. CASE i # Len(it.history)
  <2>1. Len(it.history) \in Nat
    BY LineFacts
  <2>2. i + 1 \in 1 .. Len(it.history)
    BY <1>2, <2>1
  <2> QED
    BY <2>2, LineFacts
<1> QED
  BY <1>1, <1>2

\* An update that reads changes the line of no item that lacks its version.
LEMMA SerialKept ==
  ASSUME NEW it \in Items, Serial(it), basedOn \in [Versions -> Versions], NEW v \in Versions,
         Unused(it, v), NEW c, basedOn' = [basedOn EXCEPT ![v] = c]
  PROVE  Serial(it)'
<1>1. \A i \in 1 .. Len(it.history) : basedOn'[Line(it)[i + 1]] = basedOn[Line(it)[i + 1]]
  BY OnLine DEF Unused
<1> QED
  BY <1>1 DEF Serial, Line

\* The item a request saves is serial when the one it has read is, and names no
\* other versions but that of the request.
LEMMA SavedSerial ==
  ASSUME TypeOK, NEW w \in Workers, WorkerInv(w), pc[w] = "dynWrite", dyn # None,
         Serial(item[w]), UpTo(item[w], versions),
         Op(w) = "update" => basedOn[req[w].version] = item[w].draft.content
  PROVE  LET it == Saved(dyn, NewItem(w))
         IN  /\ it \in Items
             /\ Serial(it) /\ UpTo(it, versions)
             /\ \A v \in Versions :
                  Unused(item[w], v) /\ (Op(w) = "update" => req[w].version # v) => Unused(it, v)
<1> DEFINE old == item[w]
           it == Saved(dyn, NewItem(w))
<1>1. /\ old \in Items /\ NewItem(w) \in Items /\ dyn \in Items
      /\ req[w] \in RequestSet /\ Op(w) # "create"
      /\ NewItem(w).draft = Changed(old.draft, req[w])
      /\ NewItem(w).history = IF Op(w) = "update" THEN Append(old.history, old.draft.content)
                              ELSE old.history
  BY NewItemType DEF TypeOK, WorkerInv, Creating
<1>2. /\ it \in Items /\ it.draft = Filled(NewItem(w).draft, dyn.draft)
      /\ it.history = NewItem(w).history
  BY <1>1, SavedType
<1>3. /\ old.draft \in Drafts /\ NewItem(w).draft \in Drafts /\ dyn.draft \in Drafts
  BY <1>1 DEF Items
<1>4. it.draft.content = IF Op(w) = "update" THEN req[w].version ELSE old.draft.content
  BY <1>1, <1>2, <1>3, ChangedFields, FilledType DEF Op
<1>5. CASE Op(w) # "update"
  <2>1. it.history = old.history /\ it.draft.content = old.draft.content
    BY <1>1, <1>2, <1>4, <1>5
  <2>2. Line(it) = Line(old)
    BY <2>1 DEF Line
  <2> QED
    BY <1>2, <1>5, <2>1, <2>2 DEF Serial, UpTo, Unused
<1>6. CASE Op(w) = "update"
  <2>1. /\ it.history = Line(old) /\ it.draft.content = req[w].version
    BY <1>1, <1>2, <1>4, <1>6 DEF Line
  <2>2. /\ Line(old) \in Seq(Versions) /\ Len(Line(old)) = Len(old.history) + 1
        /\ Len(old.history) \in Nat
        /\ Line(old)[Len(old.history) + 1] = old.draft.content
        /\ \A i \in 1 .. Len(old.history) : Line(old)[i] = old.history[i]
    BY <1>1, LineFacts
  <2>3. /\ Len(it.history) = Len(old.history) + 1
        /\ \A i \in 1 .. Len(old.history) + 1 : Line(it)[i] = Line(old)[i]
        /\ Line(it)[Len(old.history) + 2] = req[w].version
    BY <2>1, <2>2 DEF Line
  <2>4. Serial(it)
    <3>1. Line(it)[1] = 0
      BY <2>2, <2>3 DEF Serial
    <3>2. ASSUME NEW i \in 1 .. Len(it.history)
          PROVE  basedOn[Line(it)[i + 1]] = Line(it)[i]
      <4>1. CASE i = Len(old.history) + 1
        <5>1. Line(it)[i + 1] = req[w].version /\ Line(it)[i] = old.draft.content
          BY <2>2, <2>3, <4>1
        <5> QED
          BY <1>6, <5>1
      <4>2. CASE i # Len(old.history) + 1
        <5>1. i \in 1 .. Len(old.history) /\ i + 1 \in 1 .. Len(old.history) + 1
          BY <2>2, <2>3, <4>2
        <5> QED
          BY <2>2, <2>3, <5>1 DEF Serial
      <4> QED
        BY <4>1, <4>2
    <3> QED
      BY <3>1, <3>2 DEF Serial
  <2>5. \A i \in 1 .. Len(it.history) :
          it.history[i] = old.draft.content
            \/ \E j \in 1 .. Len(old.history) : it.history[i] = old.history[j]
    BY <2>1, <2>2, <2>3
  <2>6. UpTo(it, versions)
    BY <1>6, <2>1, <2>5, VersionsNat DEF UpTo, WorkerInv, TypeOK
  <2>7. ASSUME NEW v \in Versions, Unused(old, v), req[w].version # v
        PROVE  Unused(it, v)
    BY <2>1, <2>5, <2>7 DEF Unused
  <2> QED
    BY <1>2, <1>6, <2>4, <2>6, <2>7
<1> QED
  BY <1>5, <1>6

LEMMA SerialInit == Init => SerialInv
BY DEF Init, SerialInv, Copies, Op, NoRequest

\* The items there are, once w has forgotten the one it has read.
LEMMA CopiesForgotten ==
  ASSUME NEW w \in Workers, item'[w] = item[w] \/ item'[w] = None,
         \A v \in Workers \ {w} : item'[v] = item[v]
  PROVE  \A it \in Copies' : it \in Copies \/ (it = dyn' /\ it # None)
BY DEF Copies

\* A step that leaves no new item and begins no update.
LEMMA SerialQuiet ==
  ASSUME TypeOK, NEW w \in Workers, Moves(w), SerialInv, \A it \in Copies' : it \in Copies,
         basedOn' = basedOn, Op(w)' # "update" \/ (req'[w] = req[w]
                                                   /\ pc'[w] \notin {"dynRead", "dynWrite"})
  PROVE  SerialInv'
<1>1. /\ \A v \in Workers \ {w} : pc'[v] = pc[v] /\ req'[v] = req[v] /\ item'[v] = item[v]
      /\ versions \in Nat /\ versions' \in Nat /\ versions <= versions'
  BY OthersStay
<1>2. \A it \in Copies : it \in Items /\ Serial(it) /\ UpTo(it, versions)
  BY DEF SerialInv, Copies, TypeOK
<1>3. ASSUME NEW it \in Copies'
      PROVE  Serial(it)' /\ UpTo(it, versions')
  <2>1. /\ it \in Items /\ Serial(it) /\ UpTo(it, versions)
    BY <1>2, <1>3
  <2>2. Serial(it)'
    BY <2>1 DEF Serial, Line
  <2>3. \A n \in Nat : n <= versions => n <= versions'
    BY <1>1
  <2> QED
    BY <2>1, <2>2, <2>3, LineFacts, VersionsNat DEF UpTo
<1>4. \A v \in Workers : Op(v)' = "update" => Op(v) = "update" /\ req'[v] = req[v]
  BY <1>1 DEF Op
<1>5. \A v \in Workers : Op(v)' = "update" /\ pc'[v] = "dynRead" =>
        \A it \in Copies' : Unused(it, req'[v].version)
  BY <1>1, <1>4 DEF SerialInv, Op
<1>6. \A v \in Workers : Op(v)' = "update" /\ pc'[v] = "dynWrite" =>
        basedOn'[req'[v].version] = item'[v].draft.content
  BY <1>1, <1>4 DEF SerialInv, Op
<1>7. \A u, v \in Workers : Op(u)' = "update" /\ Op(v)' = "update" /\ u # v =>
        req'[u].version # req'[v].version
  BY <1>4 DEF SerialInv
<1> QED
  BY <1>3, <1>5, <1>6, <1>7 DEF SerialInv, UpTo, Unused

LEMMA SerialNext ==
  ASSUME TypeOK, TypeOK', \A w \in Workers : WorkerInv(w), \A w \in Workers : WorkerInv(w)',
         CreateInv, SerialInv, [Next]_vars
  PROVE  SerialInv'
<1>1. CASE UNCHANGED vars
  BY <1>1 DEF vars, stores, memory, SerialInv, Copies, Serial, Op
<1>2. ASSUME NEW w \in Workers, Moves(w)
      PROVE  SerialInv'
  <2>0. /\ \A v \in Workers \ {w} : /\ pc'[v] = pc[v] /\ req'[v] = req[v]
                                    /\ item'[v] = item[v]
        /\ versions \in Nat
        /\ \A it \in Copies : it \in Items /\ it # None
    BY <1>2, OthersStay DEF Copies, TypeOK
  <2>1. CASE DynPut(w)
    <3>1. /\ dyn' = CreatedItem /\ basedOn' = basedOn /\ versions' = versions
          /\ pc'[w] = "off" /\ item'[w] = None /\ Op(w)' # "update"
      BY <2>1, Answered DEF DynPut, Op, NoRequest
    <3>2. Copies' = {CreatedItem}
      <4>1. \A v \in Workers : item'[v] = None
        BY <2>0, <2>1, <3>1 DEF DynPut, CreateInv, Creating
      <4> QED
        BY <3>1, <4>1, NewDraftType, NoneAssumption DEF Copies
    <3>3. CreatedItem.history = <<>> /\ CreatedItem.draft.content = 0
      BY DEF CreatedItem, NewDraft
    <3>4. Serial(CreatedItem)' /\ UpTo(CreatedItem, versions)
      BY <2>0, <3>3 DEF Serial, Line, UpTo
    <3>5. \A v \in Workers : Op(v)' = "update" => Unused(CreatedItem, req'[v].version)
      <4> SUFFICES ASSUME NEW v \in Workers, Op(v)' = "update"
                   PROVE  Unused(CreatedItem, req'[v].version)
        OBVIOUS
      <4>1. v # w /\ req'[v] = req[v] /\ Op(v) = "update"
        BY <2>0, <3>1 DEF Op
      <4>2. req[v].version # 0
        BY <2>0, <4>1 DEF WorkerInv
      <4> QED
        BY <3>3, <4>1, <4>2 DEF Unused
    <3>6. \A v \in Workers : Op(v)' = "update" => v # w /\ req'[v] = req[v] /\ pc'[v] = pc[v]
                                                  /\ item'[v] = item[v]
      BY <2>0, <3>1
    <3> QED
      BY <3>1, <3>2, <3>4, <3>5, <3>6 DEF SerialInv, Unused, UpTo, Op
  <2>2. CASE DynRead(w)
    <3>1. /\ pc[w] = "dynRead" /\ req' = req /\ item'[w] = dyn /\ versions' = versions /\ dyn' = dyn
          /\ dyn \in Copies
      BY <2>2 DEF DynRead, stores, TypeOK, Copies
    <3>2. \A it \in Copies' : it \in Copies
      BY <2>0, <3>1 DEF Copies
    <3>3. CASE Op(w) # "update"
      <4>1. basedOn' = basedOn /\ Op(w)' # "update"
        BY <2>2, <3>1, <3>3 DEF DynRead, Op
      <4> QED
        BY <1>2, <3>2, <4>1, SerialQuiet
    <3>4. CASE Op(w) = "update"
      <4> DEFINE u == req[w].version
      <4>1. /\ u \in Versions /\ basedOn' = [basedOn EXCEPT ![u] = dyn.draft.content]
            /\ basedOn'[u] = dyn.draft.content
            /\ \A v \in Versions : v # u => basedOn'[v] = basedOn[v]
        BY <2>2, <3>4 DEF DynRead, TypeOK, RequestSet
      <4>2. \A it \in Copies : Serial(it) /\ Unused(it, u)
        BY <3>1, <3>4 DEF SerialInv
      <4>3. \A it \in Copies' : Serial(it)' /\ UpTo(it, versions)
        BY <2>0, <3>2, <4>1, <4>2, SerialKept DEF SerialInv, TypeOK
      <4>4. ASSUME NEW v \in Workers, Op(v)' = "update"
            PROVE  /\ pc'[v] = "dynRead" => \A it \in Copies' : Unused(it, req'[v].version)
                   /\ pc'[v] = "dynWrite" => basedOn'[req'[v].version] = item'[v].draft.content
        <5>1. Op(v) = "update" /\ req'[v] = req[v] /\ req[v].version \in Versions
          BY <3>1, <4>4 DEF Op, TypeOK, RequestSet
        <5>2. CASE v = w
          <6>1. pc'[w] # "dynRead"
            BY <2>2 DEF DynRead, GoTo, TypeOK
          <6> QED
            BY <3>1, <4>1, <5>1, <5>2, <6>1
        <5>3. CASE v # w
          <6>1. req[v].version # u
            BY <3>4, <5>1, <5>3 DEF SerialInv
          <6> QED
            BY <2>0, <3>2, <4>1, <5>1, <5>3, <6>1 DEF SerialInv
        <5> QED
          BY <5>2, <5>3
      <4> QED
        BY <3>1, <4>3, <4>4 DEF SerialInv, UpTo, Unused, Op
    <3> QED
      BY <3>3, <3>4
  <2>3. CASE DynWrite(w)
    <3>1. /\ pc[w] = "dynWrite" /\ dyn' = Saved(dyn, NewItem(w)) /\ versions' = versions
          /\ basedOn' = basedOn /\ item[w] # None /\ dyn # None
          /\ item[w] \in Copies
      BY <2>3 DEF DynWrite, WorkerInv, CreateInv, Copies
    <3>2. \A it \in Copies' : it \in Copies \/ it = dyn'
      <4>1. item'[w] = item[w] \/ item'[w] = None
        BY <2>3, Answered, WentOn DEF DynWrite
      <4> QED
        BY <2>0, <4>1, CopiesForgotten
    <3>3. /\ dyn' \in Items /\ Serial(dyn') /\ UpTo(dyn', versions)
          /\ \A v \in Versions :
               Unused(item[w], v) /\ (Op(w) = "update" => req[w].version # v) => Unused(dyn', v)
      BY <3>1, SavedSerial DEF SerialInv
    <3>4. \A it \in Copies' : Serial(it)' /\ UpTo(it, versions)
      BY <3>1, <3>2, <3>3 DEF SerialInv, Serial, Line
    <3>5. pc'[w] \in {"off", "mongoRead"} /\ (req'[w] = req[w] \/ Op(w)' # "update")
      BY <2>3, Answered, WentOn DEF DynWrite, Op, NoRequest
    <3>6. ASSUME NEW v \in Workers, Op(v)' = "update"
          PROVE  /\ req'[v] = req[v]
                 /\ pc'[v] = "dynRead" => \A it \in Copies' : Unused(it, req'[v].version)
                 /\ pc'[v] = "dynWrite" => basedOn'[req'[v].version] = item'[v].draft.content
      <4>1. req'[v] = req[v] /\ Op(v) = "update" /\ req[v].version \in Versions
        BY <2>0, <3>5, <3>6 DEF Op, TypeOK, RequestSet
      <4>2. CASE v = w
        BY <3>5, <4>1, <4>2
      <4>3. CASE v # w
        <5>1. Op(w) = "update" => req[w].version # req[v].version
          BY <4>1, <4>3 DEF SerialInv
        <5> QED
          BY <2>0, <3>1, <3>2, <3>3, <4>1, <4>3, <5>1 DEF SerialInv
      <4> QED
        BY <4>2, <4>3
    <3> QED
      BY <3>1, <3>4, <3>6 DEF SerialInv, UpTo, Unused, Op
  <2>4. CASE w \in Requests /\ UpdateBegins(w)
    <3>1. PICK a \in scenario.by :
            Starts(w, [op |-> "update", account |-> a, proposal |-> None,
                       version |-> versions + 1], "dynRead")
      BY <2>4 DEF UpdateBegins
    <3>2. /\ pc'[w] = "dynRead" /\ req'[w].version = versions + 1 /\ item'[w] = item[w]
          /\ versions' = versions + 1 /\ basedOn' = basedOn /\ dyn' = dyn
      BY <2>4, <3>1, Started DEF UpdateBegins, stores
    <3>3. \A it \in Copies' : it \in Copies
      BY <2>0, <3>2 DEF Copies
    <3>4. ASSUME NEW it \in Copies'
          PROVE  Serial(it)' /\ UpTo(it, versions + 1) /\ Unused(it, versions + 1)
      <4>1. it \in Items /\ Serial(it) /\ UpTo(it, versions)
        BY <2>0, <3>3, <3>4 DEF SerialInv
      <4>2. Serial(it)'
        BY <3>2, <4>1 DEF Serial, Line
      <4>3. \A n \in Nat : n <= versions => n <= versions + 1 /\ n # versions + 1
        BY <2>0
      <4> QED
        BY <4>1, <4>2, <4>3, LineFacts, VersionsNat DEF UpTo, Unused
    <3>5. ASSUME NEW v \in Workers, Op(v)' = "update"
          PROVE  /\ pc'[v] = "dynRead" => \A it \in Copies' : Unused(it, req'[v].version)
                 /\ pc'[v] = "dynWrite" => basedOn'[req'[v].version] = item'[v].draft.content
                 /\ v # w => req'[v] = req[v] /\ Op(v) = "update" /\ req'[v].version <= versions
      <4>1. CASE v = w
        BY <3>2, <3>4, <4>1
      <4>2. CASE v # w
        <5>1. /\ Op(v) = "update" /\ req'[v] = req[v] /\ req[v].version \in 1 .. versions
              /\ pc'[v] = pc[v] /\ item'[v] = item[v]
          BY <2>0, <3>5, <4>2 DEF WorkerInv, Op
        <5> QED
          BY <2>0, <3>2, <3>3, <4>2, <5>1 DEF SerialInv
      <4> QED
        BY <4>1, <4>2
    <3>6. \A u, v \in Workers : Op(u)' = "update" /\ Op(v)' = "update" /\ u # v =>
            req'[u].version # req'[v].version
      BY <2>0, <3>2, <3>5 DEF SerialInv
    <3>7. SerialInv'
      BY <3>2, <3>4, <3>5, <3>6 DEF SerialInv, UpTo, Unused
    <3> QED
      BY <3>7
  <2>5. CASE /\ ~ DynPut(w) /\ ~ DynRead(w) /\ ~ DynWrite(w)
             /\ ~ (w \in Requests /\ UpdateBegins(w))
    <3>1. basedOn' = basedOn /\ dyn' = dyn /\ (item'[w] = item[w] \/ item'[w] = None)
      <4>1. CASE \/ DynRefuses(w) \/ MongoRefuses(w) \/ MongoWrite(w) \/ Fails(w) \/ SaveHistory(w)
                 \/ PurgeHistory(w) \/ MongoDelete(w) \/ MongoInsert(w)
        BY <4>1, Answered, WentOn DEF DynRefuses, MongoRefuses, MongoWrite, Fails, SaveHistory,
           PurgeHistory, MongoDelete, MongoInsert, NothingWritten, stores
      <4>2. CASE MongoRead(w)
        BY <4>2, Answered DEF MongoRead, NothingWritten, stores, TypeOK
      <4>3. CASE CreateBegins(w) \/ RequestBegins(w) \/ CloseEvent(w)
        BY <4>3 DEF CreateBegins, RequestBegins, CloseEvent, NothingWritten, stores, memory
      <4> QED
        BY <1>2, <2>5, <4>1, <4>2, <4>3 DEF Moves, Step
    <3>2. \A it \in Copies' : it \in Copies
      BY <2>0, <3>1 DEF Copies
    <3>3. \/ Op(w)' # "update"
          \/ req'[w] = req[w] /\ pc'[w] \notin {"dynRead", "dynWrite"}
      <4>1. CASE \/ DynRefuses(w) \/ MongoRefuses(w) \/ MongoWrite(w) \/ Fails(w) \/ SaveHistory(w)
                 \/ PurgeHistory(w) \/ MongoDelete(w) \/ MongoInsert(w)
        BY <4>1, Answered, WentOn DEF DynRefuses, MongoRefuses, MongoWrite, Fails, SaveHistory,
           PurgeHistory, MongoDelete, MongoInsert, Op, NoRequest
      <4>2. CASE MongoRead(w)
        BY <4>2, Answered DEF MongoRead, AfterMongoRead, GoTo, TypeOK, Op, NoRequest
      <4>3. CASE CreateBegins(w) \/ RequestBegins(w) \/ CloseEvent(w)
        BY <4>3 DEF CreateBegins, RequestBegins, CloseEvent, Starts, TypeOK, Op
      <4> QED
        BY <1>2, <2>5, <4>1, <4>2, <4>3 DEF Moves, Step
    <3> QED
      BY <1>2, <3>1, <3>2, <3>3, SerialQuiet
  <2> QED
    BY <2>1, <2>2, <2>3, <2>4, <2>5
<1> QED
  BY <1>1, <1>2, OneMoves

-----------------------------------------------------------------------------
(* The history in MongoDB is complete                                      *)

\* Of one account only one request at a time is served, where that is asked.
Apart ==
  scenario.oneEach => \A w, v \in Requests :
    w # v /\ pc[w] # "off" /\ pc[v] # "off" => req[w].account # req[v].account

\* The update under way has read the document that is there.
Reads(w) ==
  /\ pc[w] = "mongoHistory" => doc[w].content = mongo.content
  /\ pc[w] = "mongoWrite" /\ Op(w) = "update" =>
       doc[w].content = mongo.content /\ mongo.content \in mHistory

LEMMA ShownInit == Init => ShownInv /\ HistoryComplete
BY DEF Init, ShownInv, HistoryComplete, Workers

LEMMA StartsOnlyOff ==
  ASSUME TypeOK, NEW w \in Workers, Moves(w), pc'[w] # "off"
  PROVE  \/ pc[w] # "off" /\ req'[w] = req[w]
         \/ \E r, label : Starts(w, r, label) /\ req'[w] = r
<1>1. CASE Step(w) \/ Fails(w)
  BY <1>1 DEF Step, Fails, DynRead, DynRefuses, DynWrite, MongoRead, MongoRefuses,
     MongoWrite, Answers, Rejects, GoesOn, GoTo, TypeOK
<1>2. CASE CreateBegins(w) \/ UpdateBegins(w) \/ RequestBegins(w) \/ CloseEvent(w)
  <2>1. PICK r, label : Starts(w, r, label)
    BY <1>2 DEF CreateBegins, UpdateBegins, RequestBegins, CloseEvent
  <2>2. req'[w] = r
    BY <2>1 DEF Starts, TypeOK
  <2> QED
    BY <2>1, <2>2
<1>3. CASE MongoInsert(w) \/ DynPut(w) \/ SaveHistory(w) \/ PurgeHistory(w) \/ MongoDelete(w)
  BY <1>3 DEF MongoInsert, DynPut, SaveHistory, PurgeHistory, MongoDelete, Answers, GoesOn, GoTo,
     TypeOK
<1> QED
  BY <1>1, <1>2, <1>3 DEF Moves

LEMMA ApartNext ==
  ASSUME TypeOK, NEW w \in Workers, Moves(w), Apart
  PROVE  Apart'
<1>1. /\ \A v \in Workers \ {w} : pc'[v] = pc[v] /\ req'[v] = req[v]
      /\ scenario' = scenario /\ Requests \subseteq Workers
  BY OthersStay DEF Workers
<1> SUFFICES ASSUME scenario.oneEach, NEW u \in Requests, NEW v \in Requests, u # v,
                    pc'[u] # "off", pc'[v] # "off"
             PROVE  req'[u].account # req'[v].account
  BY <1>1 DEF Apart
<1>2. CASE u # w /\ v # w
  BY <1>1, <1>2 DEF Apart
<1>3. ASSUME NEW x \in Requests, x # w, pc'[x] # "off", pc'[w] # "off", w \in Requests
      PROVE  req'[w].account # req'[x].account
  <2>1. pc[x] # "off" /\ req'[x] = req[x]
    BY <1>1, <1>3
  <2>2. CASE pc[w] # "off" /\ req'[w] = req[w]
    BY <1>1, <1>3, <2>1, <2>2 DEF Apart
  <2>3. CASE \E r, label : Starts(w, r, label) /\ req'[w] = r
    BY <1>3, <2>1, <2>3 DEF Starts
  <2> QED
    BY <1>3, <2>2, <2>3, StartsOnlyOff
<1> QED
  BY <1>2, <1>3

\* The parts of ShownInv, by name.
LEMMA ShownParts ==
  ShownInv <=> /\ mongo = None /\ ~purged => shown = {}
               /\ \A w \in Workers : mongo = None /\ doc[w] # None => purged
               /\ \A w \in Workers : pc[w] = "mongoDelete" => purged
               /\ Apart
               /\ scenario.oneEach /\ OneEditor /\ mongo # None /\ ~purged =>
                    \A w \in Workers : Reads(w)
BY DEF ShownInv, Apart, Reads

\* A step that leaves what MongoDB shows as it is.
LEMMA ShownQuiet ==
  ASSUME TypeOK, NEW w \in Workers, Moves(w), ShownInv, HistoryComplete,
         UNCHANGED <<mongo, mHistory, shown, purged>>,
         doc'[w] = None \/ doc'[w] = doc[w] \/ (doc'[w] = mongo /\ mongo # None),
         pc'[w] # "mongoDelete",
         pc'[w] = "mongoHistory" => doc'[w] = mongo,
         pc'[w] = "mongoWrite" => Op(w)' # "update"
  PROVE  ShownInv' /\ HistoryComplete'
<1>1. /\ \A v \in Workers \ {w} : /\ pc'[v] = pc[v] /\ req'[v] = req[v] /\ doc'[v] = doc[v]
      /\ scenario' = scenario
  BY OthersStay
<1>2. OneEditor' = OneEditor /\ HistoryComplete'
  BY <1>1 DEF OneEditor, HistoryComplete
<1>3. Apart'
  BY ApartNext, ShownParts
<1>4. \A v \in Workers : pc'[v] = "mongoDelete" => purged'
  BY <1>1, ShownParts
<1>5. \A v \in Workers : mongo' = None /\ doc'[v] # None => purged'
  BY <1>1, ShownParts
<1>6. scenario'.oneEach /\ OneEditor' /\ mongo' # None /\ ~purged' =>
        \A v \in Workers : Reads(v)'
  <2> SUFFICES ASSUME scenario.oneEach, OneEditor, mongo # None, ~purged, NEW v \in Workers
               PROVE  Reads(v)'
    BY <1>1, <1>2
  <2>1. CASE v = w
    BY <2>1 DEF Reads
  <2>2. CASE v # w
    <3>1. Reads(v)
      BY ShownParts
    <3> QED
      BY <1>1, <2>2, <3>1 DEF Reads, Op
  <2> QED
    BY <2>1, <2>2
<1>7. mongo' = None /\ ~purged' => shown' = {}
  BY ShownParts
<1>8. ShownInv' <=> /\ mongo' = None /\ ~purged' => shown' = {}
                    /\ \A v \in Workers : mongo' = None /\ doc'[v] # None => purged'
                    /\ \A v \in Workers : pc'[v] = "mongoDelete" => purged'
                    /\ Apart'
                    /\ scenario'.oneEach /\ OneEditor' /\ mongo' # None /\ ~purged' =>
                         \A v \in Workers : Reads(v)'
  BY DEF ShownInv, Apart, Reads
<1> QED
  BY <1>2, <1>3, <1>4, <1>5, <1>6, <1>7, <1>8

\* Of an editor who waits for each answer, one update is under way at a time.
LEMMA OneUpdate ==
  ASSUME \A w \in Workers : WorkerInv(w), Apart, scenario.oneEach, OneEditor,
         NEW w \in Workers, NEW v \in Workers, w # v,
         Op(w) = "update", Op(v) = "update",
         pc[w] \in {"mongoHistory", "mongoWrite"}
  PROVE  pc[v] \notin {"mongoHistory", "mongoWrite"}
<1> SUFFICES ASSUME pc[v] \in {"mongoHistory", "mongoWrite"} PROVE FALSE
  OBVIOUS
<1>1. w \in Requests /\ v \in Requests
  BY DEF WorkerInv, Workers
<1>2. /\ req[w].account \in Editors \cap scenario.by
      /\ req[v].account \in Editors \cap scenario.by
  BY DEF WorkerInv
<1>3. req[w].account # req[v].account
  BY <1>1 DEF Apart
<1>4. req[w].account = req[v].account
  BY <1>2 DEF OneEditor
<1> QED
  BY <1>3, <1>4

LEMMA ShownNext ==
  ASSUME TypeOK, TypeOK', \A w \in Workers : WorkerInv(w), \A w \in Workers : WorkerInv(w)',
         CreateInv, ShownInv, HistoryComplete, [Next]_vars
  PROVE  ShownInv' /\ HistoryComplete'
<1>0. ShownInv' <=> /\ mongo' = None /\ ~purged' => shown' = {}
                    /\ \A v \in Workers : mongo' = None /\ doc'[v] # None => purged'
                    /\ \A v \in Workers : pc'[v] = "mongoDelete" => purged'
                    /\ Apart'
                    /\ scenario'.oneEach /\ OneEditor' /\ mongo' # None /\ ~purged' =>
                         \A v \in Workers : Reads(v)'
  BY DEF ShownInv, Apart, Reads
<1>1. CASE UNCHANGED vars
  BY <1>1 DEF vars, stores, memory, history, ShownInv, HistoryComplete, OneEditor, Op
<1>2. ASSUME NEW w \in Workers, Moves(w)
      PROVE  ShownInv' /\ HistoryComplete'
  <2>0. /\ \A v \in Workers \ {w} : /\ pc'[v] = pc[v] /\ req'[v] = req[v] /\ doc'[v] = doc[v]
        /\ scenario' = scenario /\ OneEditor' = OneEditor
        /\ Apart /\ Apart'
        /\ purged \in BOOLEAN
        /\ mongo \in Drafts \cup {None} /\ doc[w] \in Drafts \cup {None}
    BY <1>2, OthersStay, ApartNext, ShownParts DEF OneEditor, TypeOK
  <2>1. CASE MongoInsert(w)
    <3>1. /\ pc[w] = "mongoInsert" /\ mongo' = NewDraft /\ shown' = shown \cup {0}
          /\ pc'[w] = "dynPut" /\ doc'[w] = doc[w] /\ purged' = purged
          /\ mongo = None /\ \A v \in Workers \ {w} : pc[v] = "off"
      BY <2>1, WentOn DEF MongoInsert, CreateInv
    <3>2. mongo' # None /\ mongo'.content = 0
      BY <3>1, NewDraftType, NoneAssumption DEF NewDraft
    <3>3. HistoryComplete'
      BY <3>1, <3>2, ShownParts DEF HistoryComplete
    <3>4. \A v \in Workers : pc'[v] \notin {"mongoHistory", "mongoWrite", "mongoDelete"}
      BY <2>0, <3>1
    <3> QED
      BY <1>0, <2>0, <3>2, <3>3, <3>4 DEF Reads
  <2>2. CASE MongoRead(w)
    <3>1. CASE NothingToDo(mongo, req[w])
      <4>1. /\ UNCHANGED <<mongo, mHistory, shown, purged>> /\ pc'[w] = "off" /\ doc'[w] = None
        BY <2>2, <3>1, Answered DEF MongoRead, NothingWritten, stores, history
      <4> QED
        BY <1>2, <4>1, ShownQuiet
    <3>2. CASE ~NothingToDo(mongo, req[w])
      <4>1. /\ UNCHANGED <<mongo, mHistory, shown, purged>> /\ pc'[w] = AfterMongoRead(w)
            /\ doc'[w] = mongo /\ mongo # None /\ req'[w] = req[w]
        BY <2>2, <3>2 DEF MongoRead, GoTo, NothingWritten, stores, history, TypeOK
      <4>2. pc'[w] # "mongoDelete" /\ (pc'[w] = "mongoWrite" => Op(w)' # "update")
        BY <4>1 DEF AfterMongoRead, Op
      <4> QED
        BY <1>2, <4>1, <4>2, ShownQuiet
    <3> QED
      BY <3>1, <3>2
  <2>3. CASE SaveHistory(w)
    <3>1. /\ pc[w] = "mongoHistory" /\ mHistory' = mHistory \cup {doc[w].content}
          /\ pc'[w] = "mongoWrite" /\ req'[w] = req[w] /\ doc'[w] = doc[w]
          /\ mongo' = mongo /\ shown' = shown /\ purged' = purged
      BY <2>3, WentOn DEF SaveHistory, history
    <3>2. HistoryComplete'
      BY <2>0, <3>1 DEF HistoryComplete
    <3>3. ASSUME scenario.oneEach, OneEditor, mongo # None, ~purged, NEW v \in Workers
          PROVE  Reads(v)'
      <4>1. Reads(v) /\ Reads(w)
        BY <3>3, ShownParts
      <4>2. CASE v = w
        BY <3>1, <4>1, <4>2 DEF Reads
      <4>3. CASE v # w
        BY <2>0, <3>1, <4>1, <4>3 DEF Reads, Op
      <4> QED
        BY <4>2, <4>3
    <3>4. /\ \A v \in Workers : pc'[v] = "mongoDelete" => purged'
          /\ \A v \in Workers : mongo' = None /\ doc'[v] # None => purged'
          /\ mongo' = None /\ ~purged' => shown' = {}
      BY <2>0, <3>1, ShownParts
    <3> QED
      BY <1>0, <2>0, <3>1, <3>2, <3>3, <3>4
  <2>4. CASE PurgeHistory(w)
    <3>1. purged'
      BY <2>4 DEF PurgeHistory
    <3> QED
      BY <1>0, <2>0, <3>1 DEF HistoryComplete
  <2>5. CASE MongoDelete(w)
    <3>1. purged'
      BY <2>5, ShownParts DEF MongoDelete, history
    <3> QED
      BY <1>0, <2>0, <3>1 DEF HistoryComplete
  <2>6. CASE MongoWrite(w) /\ Op(w) # "update"
    <3>1. /\ shown' = shown /\ purged' = purged /\ mHistory' = mHistory
          /\ pc'[w] \notin {"mongoHistory", "mongoWrite", "mongoDelete"}
          /\ doc'[w] = doc[w] \/ doc'[w] = None
      BY <2>6, Answered, WentOn DEF MongoWrite
    <3>2. /\ mongo = None => mongo' = None
          /\ mongo # None => mongo' # None /\ mongo'.content = mongo.content
      BY <2>6, MongoWriteType
    <3>3. HistoryComplete'
      BY <2>0, <3>1, <3>2 DEF HistoryComplete
    <3>4. ASSUME scenario.oneEach, OneEditor, mongo' # None, ~purged, NEW v \in Workers
          PROVE  Reads(v)'
      <4>1. Reads(v) /\ mongo'.content = mongo.content
        BY <3>2, <3>4, ShownParts
      <4>2. CASE v = w
        BY <3>1, <4>2 DEF Reads
      <4>3. CASE v # w
        BY <2>0, <3>1, <4>1, <4>3 DEF Reads, Op
      <4> QED
        BY <4>2, <4>3
    <3>5. /\ \A v \in Workers : pc'[v] = "mongoDelete" => purged'
          /\ \A v \in Workers : mongo' = None /\ doc'[v] # None => purged'
          /\ mongo' = None /\ ~purged' => shown' = {}
      BY <2>0, <3>1, <3>2, ShownParts
    <3> QED
      BY <1>0, <2>0, <3>1, <3>3, <3>4, <3>5
  <2>7. CASE MongoWrite(w) /\ Op(w) = "update"
    <3>1. /\ pc[w] = "mongoWrite" /\ shown' = shown \cup {req[w].version} /\ purged' = purged
          /\ mHistory' = mHistory
          /\ pc'[w] \notin {"mongoHistory", "mongoWrite", "mongoDelete"}
          /\ doc'[w] = doc[w] \/ doc'[w] = None
          /\ doc[w] \in Drafts /\ doc[w] # None /\ req[w] \in RequestSet
          /\ Changed(doc[w], req[w]) \in Drafts
          /\ mongo = None => mongo' = Changed(doc[w], req[w])
          /\ mongo # None => mongo' = Filled(Changed(doc[w], req[w]), mongo)
      BY <2>7, MongoWriteType, Answered, WentOn DEF MongoWrite, WorkerInv, TypeOK
    <3>2. Changed(doc[w], req[w]).content = req[w].version
      BY <2>7, <3>1, ChangedFields DEF Op
    <3>3. mongo' # None /\ mongo'.content = req[w].version
      BY <2>0, <3>1, <3>2, FilledType, NoneAssumption
    <3>4. CASE purged
      <4>1. purged'
        BY <3>1, <3>4
      <4> QED
        BY <1>0, <2>0, <4>1 DEF HistoryComplete
    <3>5. CASE ~purged
      <4>1. mongo # None
        BY <3>1, <3>5, ShownParts
      <4>2. ASSUME scenario.oneEach, OneEditor
            PROVE  /\ shown' \subseteq mHistory' \cup {mongo'.content}
                   /\ \A v \in Workers : Reads(v)'
        <5>1. /\ mongo.content \in mHistory /\ shown \subseteq mHistory \cup {mongo.content}
          BY <2>7, <3>1, <3>5, <4>1, <4>2, ShownParts DEF HistoryComplete, Reads
        <5>2. ASSUME NEW v \in Workers
              PROVE  /\ pc'[v] # "mongoHistory"
                     /\ ~ (pc'[v] = "mongoWrite" /\ Op(v)' = "update")
          <6>1. CASE v = w
            BY <3>1, <6>1
          <6>2. CASE v # w
            <7>1. Op(v) = "update" => pc[v] \notin {"mongoHistory", "mongoWrite"}
              BY <2>0, <2>7, <3>1, <4>2, <6>2, OneUpdate
            <7> QED
              BY <2>0, <6>2, <7>1 DEF WorkerInv, Op
          <6> QED
            BY <6>1, <6>2
        <5> QED
          BY <3>1, <3>3, <5>1, <5>2 DEF Reads
      <4>3. \A v \in Workers : pc'[v] = "mongoDelete" => purged'
        BY <2>0, <3>1, ShownParts
      <4> QED
        BY <1>0, <2>0, <3>3, <4>2, <4>3 DEF HistoryComplete
    <3> QED
      BY <3>4, <3>5
  <2>8. CASE \/ DynRefuses(w) \/ MongoRefuses(w) \/ Fails(w) \/ DynPut(w) \/ DynRead(w) \/ DynWrite(w)
             \/ CreateBegins(w) \/ UpdateBegins(w) \/ RequestBegins(w) \/ CloseEvent(w)
    <3>1. UNCHANGED <<mongo, mHistory, shown, purged>>
      BY <2>8 DEF DynRefuses, MongoRefuses, Fails, DynPut, DynRead, DynWrite, CreateBegins,
         UpdateBegins, RequestBegins, CloseEvent, NothingWritten, stores, history
    <3>2. /\ doc'[w] = None \/ doc'[w] = doc[w]
          /\ pc'[w] \notin {"mongoDelete", "mongoHistory", "mongoWrite"}
      <4>1. CASE DynRefuses(w) \/ MongoRefuses(w) \/ Fails(w) \/ DynPut(w) \/ DynWrite(w)
        BY <4>1, Answered, WentOn DEF DynRefuses, MongoRefuses, Fails, DynPut, DynWrite
      <4>2. CASE DynRead(w)
        BY <4>2 DEF DynRead, GoTo, TypeOK
      <4>3. CASE CreateBegins(w) \/ UpdateBegins(w) \/ RequestBegins(w) \/ CloseEvent(w)
        BY <4>3 DEF CreateBegins, UpdateBegins, RequestBegins, CloseEvent, Starts, GoTo, memory,
           TypeOK
      <4> QED
        BY <2>8, <4>1, <4>2, <4>3
    <3> QED
      BY <1>2, <3>1, <3>2, ShownQuiet
  <2> QED
    BY <1>2, <2>1, <2>2, <2>3, <2>4, <2>5, <2>6, <2>7, <2>8 DEF Moves, Step
<1> QED
  BY <1>1, <1>2, OneMoves

-----------------------------------------------------------------------------
(* The stores agree after a request that ran alone                         *)

\* A mark that has been made is there.
LEMMA ChangedTwice ==
  ASSUME NEW d \in Drafts, NEW r \in RequestSet, r.op \in Marks
  PROVE  /\ Changed(Changed(d, r), r) = Changed(d, r)
         /\ r.op = "view" => Changed(d, r) = [d EXCEPT !.viewers = Changed(d, r).viewers]
         /\ r.op # "view" => Changed(d, r) = [d EXCEPT !.savers = Changed(d, r).savers]
<1>1. CASE r.op = "view"
  BY <1>1 DEF Changed, Drafts, Marks
<1>2. CASE r.op = "save"
  BY <1>2 DEF Changed, Drafts, Marks
<1>3. CASE r.op = "removeSave"
  <2>1. Changed(d, r) = [d EXCEPT !.savers = @ \ {r.account}]
    BY <1>3 DEF Changed, Marks
  <2>2. (d.savers \ {r.account}) \ {r.account} = d.savers \ {r.account}
    OBVIOUS
  <2> QED
    BY <1>3, <2>1, <2>2 DEF Changed, Drafts, Marks
<1> QED
  BY <1>1, <1>2, <1>3 DEF Marks

LEMMA SoloInit == Init => SoloInv /\ StoresAgree
BY WorkersAssumption DEF Init, SoloInv, StoresAgree

\* DynamoDB has what a request asks once the item it has just read is saved.
LEMMA SavedDone ==
  ASSUME TypeOK, NEW w \in Workers, WorkerInv(w), DynWrite(w), item[w] = dyn
  PROVE  /\ dyn' \in Items /\ dyn' # None
         /\ Op(w) # "closeInternal" => DynDone(req[w])'
         /\ Op(w) = "closeInternal" =>
              dyn'.draft.state = "Closed" /\ dyn'.draft.proposal = req[w].proposal
<1> DEFINE r == req[w]
           d == dyn.draft
<1>1. /\ dyn' = Saved(dyn, NewItem(w)) /\ r \in RequestSet /\ r.op # "create" /\ r.op = Op(w)
      /\ r.op # "closeInternal" => r.account \in Accounts
      /\ r.op \in {"close", "closeInternal"} => r.proposal # None
      /\ dyn \in Items /\ NewItem(w) \in Items /\ NewItem(w).draft = Changed(d, r)
  BY NewItemType, DraftAssumption, BoundsAssumption DEF DynWrite, TypeOK, WorkerInv, Creating, Op
<1>2. d \in Drafts /\ Changed(d, r) \in Drafts
  BY <1>1, ChangedType DEF Items
<1>3. /\ dyn' \in Items /\ dyn'.draft = Filled(Changed(d, r), d)
      /\ NewItem(w).archived => dyn'.archived
  BY <1>1, SavedType
<1>4. dyn' # None
  BY <1>3, NoneAssumption
<1>5. /\ r.op = "update" => dyn'.draft.content = r.version
      /\ r.op \in {"close", "closeInternal"} =>
           dyn'.draft.state = "Closed" /\ dyn'.draft.proposal = r.proposal
  BY <1>1, <1>2, <1>3, ChangedFields, FilledType
<1>6. r.op = "delete" => dyn'.archived
  <2>1. r.op = "delete" => NewItem(w).archived = TRUE
    BY <1>1 DEF NewItem
  <2> QED
    BY <1>3, <2>1
<1>7. ASSUME r.op \in Marks
      PROVE  Changed(dyn'.draft, r) = dyn'.draft
  <2>1. Changed(d, r).proposal = d.proposal
    BY <1>1, <1>2, <1>7, ChangedFields DEF Marks
  <2>2. dyn'.draft = Changed(d, r)
    BY <1>2, <1>3, <2>1, FilledType
  <2> QED
    BY <1>1, <1>2, <1>7, <2>2, ChangedTwice
<1>8. ASSUME Op(w) # "closeInternal"
      PROVE  DynDone(req[w])'
  <2>1. req'[w] = r
    BY <1>8, WentOn DEF DynWrite
  <2> QED
    BY <1>4, <1>5, <1>6, <1>7, <2>1 DEF DynDone
<1> QED
  BY <1>1, <1>3, <1>4, <1>5, <1>8

\* Both stores show what request r asked for.
Agree(r) ==
  /\ r.op = "create" => mongo = NewDraft /\ dyn.draft = NewDraft
  /\ r.op = "update" => mongo.content = r.version /\ dyn.draft.content = r.version
  /\ r.op = "delete" => mongo = None /\ dyn.archived
  /\ r.op = "close" => mongo.state = "Closed" /\ dyn.draft.state = "Closed"
  /\ r.op = "closeInternal" =>
       /\ mongo # None => mongo.state = "Closed" /\ mongo.proposal = r.proposal
       /\ dyn # None => dyn.draft.state = "Closed" /\ dyn.draft.proposal = r.proposal
  /\ r.op \in Marks => Changed(mongo, r) = mongo /\ Changed(dyn.draft, r) = dyn.draft

LEMMA AgreeSettled ==
  ASSUME settled' \in RequestSet, Agree(settled)'
  PROVE  StoresAgree'
<1>1. settled'.op \in Ops
  BY DEF RequestSet
<1>2. CASE settled'.op = "closeInternal"
  BY <1>2 DEF StoresAgree, Agree
<1>3. CASE settled'.op \in Marks
  BY <1>3 DEF StoresAgree, Agree, Marks
<1>4. CASE settled'.op \in {"create", "update", "delete", "close"}
  BY <1>4 DEF StoresAgree, Agree
<1> QED
  BY <1>1, <1>2, <1>3, <1>4 DEF Ops

LEMMA SoloStarts ==
  ASSUME TypeOK, NEW w \in Workers, Moves(w), NEW r \in RequestSet, NEW label,
         Starts(w, r, label), UNCHANGED memory, label \in {"mongoInsert", "dynRead", "mongoRead"},
         r.op = "closeInternal" <=> label = "mongoRead"
  PROVE  SoloInv' /\ StoresAgree'
<1>1. settled' = None /\ pc'[w] = label /\ req'[w] = r
  <2>1. settled' = None
    BY DEF Starts
  <2> QED
    BY <2>1, Started
<1>2. \A v \in Workers \ {w} : pc'[v] = pc[v]
  BY OthersStay
<1>3. /\ alone' = None \/ alone' = w
      /\ alone' = w => \A v \in Workers \ {w} : pc[v] = "off"
  <2>1. alone' = IF \A v \in Workers : pc[v] = "off" THEN w ELSE None
    BY DEF Starts
  <2> QED
    BY <2>1, WorkersAssumption
<1>4. Follows(w)'
  BY <1>1 DEF Follows, Op
<1>5. SoloInv'
  BY <1>1, <1>2, <1>3, <1>4, WorkersAssumption DEF SoloInv
<1> QED
  BY <1>1, <1>5 DEF StoresAgree

LEMMA SoloGoes ==
  ASSUME TypeOK, NEW w \in Workers, Moves(w), SoloInv, pc[w] # "off",
         alone' = alone, settled' = settled, alone = w => Follows(w)'
  PROVE  SoloInv' /\ StoresAgree'
<1>1. settled = None
  BY DEF SoloInv
<1>2. alone # None => alone = w
  BY DEF SoloInv, TypeOK
<1>3. \A v \in Workers \ {w} : pc'[v] = pc[v]
  BY OthersStay
<1>4. SoloInv'
  BY <1>1, <1>2, <1>3, WorkersAssumption DEF SoloInv
<1> QED
  BY <1>1, <1>4 DEF StoresAgree

LEMMA SoloEnds ==
  ASSUME TypeOK, TypeOK', NEW w \in Workers, Moves(w), SoloInv, NEW r, r = req[w],
         \/ Answers(w) /\ (alone = w => Agree(r)')
         \/ Rejects(w)
  PROVE  SoloInv' /\ StoresAgree'
<1>1. pc'[w] = "off" /\ alone' = None
  BY Answered DEF Answers, Rejects
<1>2. \A v \in Workers \ {w} : pc'[v] = pc[v]
  BY OthersStay
<1>3. settled' # None => Answers(w) /\ alone = w /\ settled' = req[w]
  BY DEF Answers, Rejects
<1>4. SoloInv'
  BY <1>1, <1>2, <1>3, WorkersAssumption DEF SoloInv
<1>5. ASSUME settled' # None
      PROVE  Agree(settled)'
  <2>1. settled' = r /\ Agree(r)'
    BY <1>3, <1>5 DEF Rejects
  <2> QED
    BY <2>1 DEF Agree
<1>6. CASE settled' # None
  <2>1. Agree(settled)' /\ settled' \in RequestSet
    BY <1>5, <1>6 DEF TypeOK
  <2>2. StoresAgree'
    BY <2>1, AgreeSettled
  <2> QED
    BY <1>4, <2>2
<1>7. CASE settled' = None
  <2>1. StoresAgree'
    BY <1>7 DEF StoresAgree
  <2> QED
    BY <1>4, <2>1
<1> QED
  BY <1>6, <1>7

LEMMA SoloNext ==
  ASSUME TypeOK, TypeOK', \A w \in Workers : WorkerInv(w), \A w \in Workers : WorkerInv(w)',
         CreateInv, SoloInv, StoresAgree, [Next]_vars
  PROVE  SoloInv' /\ StoresAgree'
<1>1. CASE UNCHANGED vars
  BY <1>1 DEF vars, stores, memory, SoloInv, StoresAgree, Follows, MongoClosed, DynDone, Op
<1>2. ASSUME NEW w \in Workers, Moves(w)
      PROVE  SoloInv' /\ StoresAgree'
  <2> DEFINE r == req[w]
  <2>0. /\ WorkerInv(w) /\ r \in RequestSet /\ r.op = Op(w)
        /\ alone = w => Follows(w)
    BY DEF TypeOK, Op, SoloInv
  <2>1. CASE w \in Requests /\ CreateBegins(w)
    <3>1. PICK a \in scenario.by :
            Starts(w, [op |-> "create", account |-> a, proposal |-> None, version |-> 0],
                   "mongoInsert")
      BY <2>1 DEF CreateBegins
    <3>2. [op |-> "create", account |-> a, proposal |-> None, version |-> 0] \in RequestSet
      BY <3>1, VersionsNat, BoundsAssumption DEF RequestSet, Ops, TypeOK
    <3> QED
      BY <1>2, <2>1, <3>1, <3>2, SoloStarts DEF CreateBegins
  <2>2. CASE w \in Requests /\ UpdateBegins(w)
    <3>1. PICK a \in scenario.by :
            Starts(w, [op |-> "update", account |-> a, proposal |-> None,
                       version |-> versions + 1], "dynRead")
      BY <2>2 DEF UpdateBegins
    <3>2. [op |-> "update", account |-> a, proposal |-> None, version |-> versions + 1]
            \in RequestSet
      BY <2>2, <3>1, BoundsAssumption DEF UpdateBegins, RequestSet, Ops, Versions, TypeOK
    <3>3. UNCHANGED memory
      BY <2>2 DEF UpdateBegins
    <3> QED
      BY <1>2, <3>1, <3>2, <3>3, SoloStarts
  <2>3. CASE w \in Requests /\ RequestBegins(w)
    <3>1. PICK op \in scenario.asked \ {"update"}, a \in scenario.by, p \in Proposals :
            Starts(w, [op |-> op, account |-> a,
                       proposal |-> IF op = "close" THEN p ELSE None, version |-> 0],
                   "dynRead")
      BY <2>3 DEF RequestBegins
    <3>2. a \in Accounts /\ op \in Ops /\ op # "closeInternal"
      BY BoundsAssumption DEF TypeOK, Ops, Marks
    <3>3. [op |-> op, account |-> a, proposal |-> IF op = "close" THEN p ELSE None,
           version |-> 0] \in RequestSet
      BY <3>2, VersionsNat DEF RequestSet
    <3> QED
      BY <1>2, <2>3, <3>1, <3>2, <3>3, SoloStarts DEF RequestBegins
  <2>4. CASE w \in Events /\ CloseEvent(w)
    <3>1. PICK p \in Proposals :
            Starts(w, [op |-> "closeInternal", account |-> None, proposal |-> p,
                       version |-> 0], "mongoRead")
      BY <2>4 DEF CloseEvent
    <3>2. [op |-> "closeInternal", account |-> None, proposal |-> p, version |-> 0]
            \in RequestSet
      BY <3>1, VersionsNat DEF RequestSet, Ops
    <3> QED
      BY <1>2, <2>4, <3>1, <3>2, SoloStarts DEF CloseEvent
  <2>5. CASE MongoInsert(w)
    <3>1. /\ pc[w] # "off" /\ alone' = alone /\ settled' = settled /\ pc'[w] = "dynPut"
          /\ mongo' = NewDraft
      BY <2>5, WentOn DEF MongoInsert, GoesOn
    <3>2. Follows(w)'
      BY <3>1 DEF Follows
    <3> QED
      BY <1>2, <3>1, <3>2, SoloGoes
  <2>6. CASE DynPut(w)
    <3>1. Answers(w) /\ dyn' = CreatedItem /\ mongo' = mongo
      BY <2>6 DEF DynPut
    <3>2. r.op = "create" /\ dyn'.draft = NewDraft /\ (alone = w => mongo' = NewDraft)
      BY <2>0, <2>6, <3>1 DEF DynPut, WorkerInv, Creating, CreatedItem, Follows
    <3>3. alone = w => \A q : q = r => Agree(q)'
      BY <3>2 DEF Agree, Marks
    <3> QED
      BY <1>2, <3>1, <3>3, SoloEnds
  <2>7. CASE DynRead(w)
    <3>1. /\ pc[w] = "dynRead" /\ alone' = alone /\ settled' = settled /\ req' = req
          /\ item'[w] = dyn /\ dyn' = dyn /\ mongo' = mongo /\ dyn # None
          /\ pc'[w] = IF NothingToDo(dyn.draft, r) THEN "mongoRead" ELSE "dynWrite"
      BY <2>7 DEF DynRead, GoTo, stores, TypeOK
    <3>2. NothingToDo(dyn.draft, r) => Op(w) # "closeInternal" /\ DynDone(r)
      BY <2>0, <3>1 DEF NothingToDo, DynDone, Marks
    <3>3. alone = w => Follows(w)'
      BY <2>0, <3>1, <3>2 DEF Follows, MongoClosed, DynDone, Op
    <3> QED
      BY <1>2, <3>1, <3>3, SoloGoes
  <2>8. CASE DynRefuses(w)
    <3>1. CASE Op(w) = "closeInternal"
      <4>1. Answers(w) /\ pc[w] = "dynRead" /\ UNCHANGED <<mongo, dyn>>
        BY <2>8, <3>1 DEF DynRefuses, NothingWritten, stores
      <4>2. dyn = None
        BY <2>0, <2>8, <3>1 DEF DynRefuses, Permitted
      <4>3. alone = w => \A q : q = r => Agree(q)'
        BY <2>0, <3>1, <4>1, <4>2 DEF Follows, MongoClosed, Agree, Marks
      <4> QED
        BY <1>2, <4>1, <4>3, SoloEnds
    <3>2. CASE Op(w) # "closeInternal"
      BY <1>2, <2>8, <3>2, SoloEnds DEF DynRefuses
    <3> QED
      BY <3>1, <3>2
  <2>9. CASE DynWrite(w)
    <3>1. CASE Op(w) = "closeInternal"
      <4>1. Answers(w) /\ pc[w] = "dynWrite" /\ UNCHANGED mongo
        BY <2>9, <3>1 DEF DynWrite
      <4>2. alone = w => /\ MongoClosed(r)
                         /\ dyn'.draft.state = "Closed" /\ dyn'.draft.proposal = r.proposal
        BY <2>0, <2>9, <3>1, <4>1, SavedDone DEF Follows
      <4>3. alone = w => \A q : q = r => Agree(q)'
        BY <2>0, <3>1, <4>1, <4>2 DEF MongoClosed, Agree, Marks
      <4> QED
        BY <1>2, <4>1, <4>3, SoloEnds
    <3>2. CASE Op(w) # "closeInternal"
      <4>1. /\ GoesOn(w, "mongoRead") /\ pc[w] # "off" /\ pc[w] = "dynWrite"
            /\ alone' = alone /\ settled' = settled
        BY <2>9, <3>2 DEF DynWrite, GoesOn
      <4>2. pc'[w] = "mongoRead" /\ req'[w] = req[w]
        BY <4>1, WentOn
      <4>3. alone = w => DynDone(req[w])'
        BY <2>0, <2>9, <3>2, <4>1, SavedDone DEF Follows
      <4>4. alone = w => Follows(w)'
        BY <4>2, <4>3 DEF Follows
      <4> QED
        BY <1>2, <4>1, <4>4, SoloGoes
    <3> QED
      BY <3>1, <3>2
  <2>10. CASE MongoRead(w)
    <3>1. /\ pc[w] = "mongoRead" /\ mongo # None /\ UNCHANGED <<mongo, dyn>>
          /\ Op(w) # "create"
          /\ alone = w /\ Op(w) # "closeInternal" => DynDone(r)
      BY <2>0, <2>10 DEF MongoRead, NothingWritten, stores, WorkerInv, Creating, Follows
    <3>2. CASE NothingToDo(mongo, r)
      <4>1. Answers(w)
        BY <2>10, <3>2 DEF MongoRead
      <4>2. alone = w => \A q : q = r => Agree(q)'
        BY <2>0, <3>1, <3>2 DEF NothingToDo, DynDone, Agree, Marks
      <4> QED
        BY <1>2, <4>1, <4>2, SoloEnds
    <3>3. CASE ~NothingToDo(mongo, r)
      <4>1. /\ alone' = alone /\ settled' = settled /\ doc'[w] = mongo /\ req'[w] = req[w]
            /\ pc'[w] = AfterMongoRead(w)
        BY <2>10, <3>3 DEF MongoRead, GoTo, TypeOK
      <4>2. pc'[w] \in {"mongoHistory", "mongoPurge", "mongoWrite"}
        BY <4>1 DEF AfterMongoRead
      <4>3. alone = w => Follows(w)'
        BY <3>1, <4>1, <4>2 DEF Follows, DynDone, Op
      <4> QED
        BY <1>2, <3>1, <4>1, <4>3, SoloGoes
    <3> QED
      BY <3>2, <3>3
  <2>11. CASE MongoRefuses(w)
    <3>1. CASE Op(w) = "closeInternal"
      <4>1. /\ GoesOn(w, "dynRead") /\ pc[w] # "off"
            /\ mongo' = mongo /\ alone' = alone /\ settled' = settled
        BY <2>11, <3>1 DEF MongoRefuses, NothingWritten, stores, GoesOn
      <4>2. pc'[w] = "dynRead" /\ req'[w] = req[w]
        BY <4>1, WentOn
      <4>3. mongo = None
        BY <2>0, <2>11, <3>1 DEF MongoRefuses, Permitted
      <4>4. Follows(w)'
        BY <4>1, <4>2, <4>3 DEF Follows, MongoClosed
      <4> QED
        BY <1>2, <4>1, <4>4, SoloGoes
    <3>2. CASE Op(w) # "closeInternal"
      BY <1>2, <2>11, <3>2, SoloEnds DEF MongoRefuses
    <3> QED
      BY <3>1, <3>2
  <2>12. CASE SaveHistory(w)
    <3>1. /\ GoesOn(w, "mongoWrite") /\ pc[w] = "mongoHistory"
          /\ mongo' = mongo /\ dyn' = dyn /\ alone' = alone /\ settled' = settled
      BY <2>12 DEF SaveHistory, GoesOn
    <3>2. pc'[w] = "mongoWrite" /\ req'[w] = req[w] /\ doc'[w] = doc[w]
      BY <3>1, WentOn
    <3>3. alone = w => Follows(w)'
      BY <2>0, <3>1, <3>2 DEF Follows, DynDone, Op
    <3> QED
      BY <1>2, <3>1, <3>3, SoloGoes
  <2>13. CASE PurgeHistory(w)
    <3>1. /\ GoesOn(w, "mongoDelete") /\ pc[w] = "mongoPurge"
          /\ mongo' = mongo /\ dyn' = dyn /\ alone' = alone /\ settled' = settled
      BY <2>13 DEF PurgeHistory, GoesOn
    <3>2. pc'[w] = "mongoDelete" /\ req'[w] = req[w]
      BY <3>1, WentOn
    <3>3. alone = w => Follows(w)'
      BY <2>0, <3>1, <3>2 DEF Follows, DynDone, Op
    <3> QED
      BY <1>2, <3>1, <3>3, SoloGoes
  <2>14. CASE MongoDelete(w)
    <3>1. /\ Answers(w) /\ pc[w] = "mongoDelete" /\ mongo' = None /\ dyn' = dyn
          /\ Op(w) = "delete"
      BY <2>0, <2>14 DEF MongoDelete, WorkerInv
    <3>2. alone = w => \A q : q = r => Agree(q)'
      BY <2>0, <3>1 DEF Follows, DynDone, Agree, Marks
    <3> QED
      BY <1>2, <3>1, <3>2, SoloEnds
  <2>15. CASE MongoWrite(w)
    <3>1. /\ pc[w] = "mongoWrite" /\ dyn' = dyn /\ doc[w] \in Drafts /\ doc[w] # None
          /\ Op(w) \notin {"create", "delete"}
          /\ alone = w => mongo = doc[w]
          /\ alone = w /\ Op(w) # "closeInternal" => DynDone(r)
      BY <2>0, <2>15 DEF MongoWrite, WorkerInv, Creating, Follows, TypeOK
    <3>2. CASE Op(w) = "closeInternal"
      <4>1. /\ GoesOn(w, "dynRead") /\ alone' = alone /\ settled' = settled
        BY <2>15, <3>2 DEF MongoWrite, GoesOn
      <4>2. pc'[w] = "dynRead" /\ req'[w] = req[w]
        BY <4>1, WentOn
      <4>3. mongo' = None \/ (mongo'.state = "Closed" /\ mongo'.proposal = r.proposal)
        BY <2>15, <3>2, MongoWriteType
      <4>4. Follows(w)'
        BY <4>2, <4>3 DEF Follows, MongoClosed
      <4> QED
        BY <1>2, <3>1, <4>1, <4>4, SoloGoes
    <3>3. CASE Op(w) # "closeInternal"
      <4>1. Answers(w)
        BY <2>15, <3>3 DEF MongoWrite
      <4>2. ASSUME alone = w, r.op = "update"
            PROVE  mongo'.content = r.version
        <5>1. mongo' = Filled(Changed(doc[w], r), mongo) /\ Changed(doc[w], r) \in Drafts
          BY <2>0, <2>15, <3>1, <4>2, MongoWriteType
        <5> QED
          BY <2>0, <3>1, <4>2, <5>1, FilledType, ChangedFields
      <4>3. ASSUME alone = w, r.op = "close"
            PROVE  mongo'.state = "Closed"
        BY <2>0, <2>15, <3>1, <4>3, MongoWriteType
      <4>4. ASSUME alone = w, r.op \in Marks
            PROVE  Changed(mongo', r) = mongo'
        <5>1. /\ mongo' = Patched(mongo, r, Changed(mongo, r)) /\ mongo \in Drafts
              /\ mongo # None
          BY <2>0, <2>15, <3>1, <4>4, MongoWriteType DEF Marks
        <5>2. mongo' = Changed(mongo, r)
          <6>1. CASE r.op = "view"
            BY <2>0, <4>4, <5>1, <6>1, ChangedTwice DEF Patched
          <6>2. CASE r.op \in {"save", "removeSave"}
            BY <2>0, <4>4, <5>1, <6>2, ChangedTwice DEF Patched
          <6> QED
            BY <4>4, <6>1, <6>2 DEF Marks
        <5> QED
          BY <2>0, <4>4, <5>1, <5>2, ChangedTwice
      <4>5. alone = w => \A q : q = r => Agree(q)'
        BY <2>0, <3>1, <3>3, <4>2, <4>3, <4>4 DEF DynDone, Agree, Marks
      <4> QED
        BY <1>2, <4>1, <4>5, SoloEnds
    <3> QED
      BY <3>2, <3>3
  <2>16. CASE Fails(w)
    BY <1>2, <2>16, SoloEnds DEF Fails
  <2> QED
    BY <1>2, <2>1, <2>2, <2>3, <2>4, <2>5, <2>6, <2>7, <2>8, <2>9, <2>10, <2>11, <2>12, <2>13,
       <2>14, <2>15, <2>16 DEF Moves, Step
<1> QED
  BY <1>1, <1>2, OneMoves

-----------------------------------------------------------------------------
(* Theorems                                                                *)

\* Every behaviour keeps the inductive invariant.
THEOREM Invariant == Spec => []IInv
<1>1. Init => IInv
  BY InitType, WorkerInit, CreateInit, SerialInit, ShownInit, SoloInit DEF IInv
<1>2. IInv /\ [Next]_vars => IInv'
  <2> SUFFICES ASSUME IInv, [Next]_vars PROVE IInv'
    OBVIOUS
  <2>1. TypeOK'
    BY NextType DEF IInv
  <2>2. \A w \in Workers : WorkerInv(w)'
    BY <2>1, WorkerNext DEF IInv
  <2>3. CreateInv'
    BY <2>1, <2>2, CreateNext DEF IInv
  <2>4. SerialInv'
    BY <2>1, <2>2, SerialNext DEF IInv
  <2>5. ShownInv' /\ HistoryComplete'
    BY <2>1, <2>2, ShownNext DEF IInv
  <2>6. SoloInv' /\ StoresAgree'
    BY <2>1, <2>2, SoloNext DEF IInv
  <2> QED
    BY <2>1, <2>2, <2>3, <2>4, <2>5, <2>6 DEF IInv
<1> QED
  BY <1>1, <1>2, PTL DEF Spec

\* The stores hold drafts and every request carries what its operation asks
\* with, whatever the interleaving of requests and events (apps/draft).
THEOREM TypeCorrect == Spec => []TypeOK
<1>1. IInv => TypeOK
  BY DEF IInv
<1> QED
  BY <1>1, Invariant, PTL

\* The history in the item of DynamoDB and the content after it are what some
\* of the updates would have left one after another, however many requests
\* write whole items back over one another.
THEOREM HistoryIsSerial == Spec => []HistorySerial
<1>1. IInv => HistorySerial
  <2> SUFFICES ASSUME IInv, dyn # None
               PROVE  /\ Line(dyn)[1] = 0
                      /\ \A i \in 1 .. Len(Line(dyn)) - 1 :
                           basedOn[Line(dyn)[i + 1]] = Line(dyn)[i]
    BY DEF HistorySerial, Line
  <2>1. Serial(dyn) /\ dyn \in Items
    BY DEF IInv, SerialInv, Copies, TypeOK
  <2>2. Len(Line(dyn)) - 1 = Len(dyn.history)
    BY <2>1, LineFacts
  <2> QED
    BY <2>1, <2>2 DEF Serial
<1> QED
  BY <1>1, Invariant, PTL

\* Every version MongoDB has shown is the current one or in the history
\* collection, until a deletion begins, where one editor waits for each answer.
THEOREM HistoryIsComplete == Spec => []HistoryComplete
<1>1. IInv => HistoryComplete
  BY DEF IInv
<1> QED
  BY <1>1, Invariant, PTL

\* After a request that succeeded while no other ran, both stores show what it
\* asked for, whatever overlapping and failed requests have left behind.
THEOREM StoresDoAgree == Spec => []StoresAgree
<1>1. IInv => StoresAgree
  BY DEF IInv
<1> QED
  BY <1>1, Invariant, PTL

\* No step of a request or an event takes away the proposal a draft is related
\* to, in either store, except by removing the document.
THEOREM RelationIsKept == Spec => RelationKept
<1>1. IInv /\ [Next]_vars
        => [/\ mongo # None /\ mongo.proposal # None /\ mongo' # None
                 => mongo'.proposal # None
            /\ dyn # None /\ dyn.draft.proposal # None => dyn'.draft.proposal # None]_stores
  <2> SUFFICES ASSUME IInv, Next, ~ UNCHANGED stores
               PROVE  /\ mongo # None /\ mongo.proposal # None /\ mongo' # None
                           => mongo'.proposal # None
                      /\ dyn # None /\ dyn.draft.proposal # None
                           => dyn'.draft.proposal # None
    BY DEF vars, stores
  <2>0. PICK w \in Workers : Moves(w)
    BY OneMoves
  <2>1. TypeOK /\ WorkerInv(w) /\ CreateInv
    BY DEF IInv
  <2>2. CASE DynWrite(w)
    <3>1. /\ mongo' = mongo /\ dyn' = Saved(dyn, NewItem(w)) /\ NewItem(w) \in Items
          /\ dyn \in Items
      BY <2>1, <2>2, NewItemType DEF DynWrite, TypeOK, WorkerInv, CreateInv
    <3>2. /\ dyn'.draft = Filled(NewItem(w).draft, dyn.draft)
          /\ NewItem(w).draft \in Drafts /\ dyn.draft \in Drafts
      BY <3>1, SavedType DEF Items
    <3> QED
      BY <3>1, <3>2, FilledType
  <2>3. CASE MongoWrite(w)
    <3>1. /\ dyn' = dyn /\ Op(w) \in Ops \ {"create", "delete"}
          /\ Op(w) \in {"close", "closeInternal"} => req[w].proposal # None
      BY <2>1, <2>3, DraftAssumption DEF MongoWrite, WorkerInv, Creating, TypeOK, RequestSet, Op
    <3>2. CASE Op(w) = "update"
      <4>1. mongo # None => /\ mongo' = Filled(Changed(doc[w], req[w]), mongo)
                            /\ Changed(doc[w], req[w]) \in Drafts /\ mongo \in Drafts
        BY <2>1, <2>3, <3>2, MongoWriteType DEF TypeOK
      <4> QED
        BY <3>1, <4>1, FilledType
    <3>3. CASE Op(w) # "update"
      BY <2>1, <2>3, <3>1, <3>3, MongoWriteType DEF Ops
    <3> QED
      BY <3>2, <3>3
  <2>4. CASE MongoInsert(w)
    BY <2>1, <2>4 DEF MongoInsert, CreateInv
  <2>5. CASE DynPut(w)
    BY <2>1, <2>5 DEF DynPut, CreateInv, Creating
  <2>6. CASE SaveHistory(w) \/ PurgeHistory(w) \/ MongoDelete(w)
    BY <2>6 DEF SaveHistory, PurgeHistory, MongoDelete
  <2>7. CASE \/ DynRead(w) \/ DynRefuses(w) \/ MongoRead(w) \/ MongoRefuses(w) \/ Fails(w)
             \/ CreateBegins(w) \/ UpdateBegins(w) \/ RequestBegins(w) \/ CloseEvent(w)
    BY <2>7 DEF DynRead, DynRefuses, MongoRead, MongoRefuses, Fails, CreateBegins, UpdateBegins,
       RequestBegins, CloseEvent, NothingWritten
  <2> QED
    BY <2>0, <2>2, <2>3, <2>4, <2>5, <2>6, <2>7 DEF Moves, Step
<1> QED
  BY <1>1, Invariant, PTL DEF Spec, RelationKept
=============================================================================
