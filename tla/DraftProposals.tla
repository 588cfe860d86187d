--------------------------- MODULE DraftProposals ---------------------------
(***************************************************************************)
(* One draft proposal, kept in MongoDB, which is what users read, and in   *)
(* DynamoDB.  Requests of apps/draft create, update, delete, view, save    *)
(* and close it: a request reads and writes DynamoDB and then MongoDB,     *)
(* only a creation goes the other way.  When the indexer sees the proposal *)
(* a draft was turned into, an event closes the draft, MongoDB first.      *)
(*                                                                         *)
(* A request to DynamoDB writes back the whole item it has read, one to    *)
(* MongoDB the fields it changes, but an update the whole document.  One   *)
(* action is the code between two awaits that read or write a store.       *)
(***************************************************************************)
EXTENDS Integers, Sequences

CONSTANTS
  Accounts,
  Editors,      \* the proposer and the council
  Adders,       \* accounts that may add proposals
  Proposals,    \* proposals the draft may be closed with
  Requests,     \* HTTP requests being served, one at a time each
  Events,       \* deliveries of the close event being handled
  None,
  MaxUpdates,   \* bound: update requests
  Scenarios     \* bounds: what happens at most in one behaviour

Workers == Requests \cup Events

ASSUME WorkersAssumption ==
  /\ Requests \cap Events = {}
  /\ None \notin Workers

ASSUME DraftAssumption ==
  /\ Editors \cup Adders \subseteq Accounts
  /\ None \notin Proposals

\* title, description, kind and type of a draft are one version of its content
Versions == 0 .. MaxUpdates

\* A draft, in either store, and an item of DynamoDB, which has the history in it.
Drafts ==
  [content : Versions, state : {"Open", "Closed"}, proposal : Proposals \cup {None},
   viewers : SUBSET Accounts, savers : SUBSET Accounts]

Items == [draft : Drafts, history : Seq(Versions), archived : BOOLEAN]

\* No document and no item is a value of its own.
ASSUME NoneAssumption == None \notin Drafts \cup Items

Marks == {"view", "save", "removeSave"}
Ops == Marks \cup {"create", "update", "delete", "close", "closeInternal"}

ASSUME BoundsAssumption ==
  /\ MaxUpdates \in Nat
  /\ Scenarios \subseteq
       [asked : SUBSET (Marks \cup {"update", "delete", "close"}),
        by : SUBSET Accounts,
        oneEach : BOOLEAN,   \* whether an account waits for the answer before
                             \* it asks again
        events : BOOLEAN,    \* whether the indexer closes the draft
        faults : Nat]        \* awaits that reject

VARIABLES
  mongo,      \* the document, or None
  mHistory,   \* the versions in the history collection
  dyn,        \* the item, or None
  pc,         \* where each request is
  req,        \* what it asks
  item,       \* the item it has read
  doc,        \* the document it has read
  versions,   \* versions submitted so far
  scenario, faults,   \* bounds
  \* history
  basedOn,    \* the content an update has read in DynamoDB
  shown,      \* the versions MongoDB has shown
  purged,     \* a deletion has removed the history collection
  alone,      \* the worker no other worker has overlapped so far, or None
  settled     \* the request that ran alone and succeeded last, or None

stores == <<mongo, mHistory, dyn>>
memory == <<item, doc>>
history == <<shown, purged>>

vars == <<stores, pc, req, memory, versions, scenario, faults, basedOn, history,
          alone, settled>>

-----------------------------------------------------------------------------
(* What the requests change                                                *)

NewDraft == [content |-> 0, state |-> "Open", proposal |-> None,
             viewers |-> {}, savers |-> {}]

\* A draft in DynamoDB has its history in it.
CreatedItem == [draft |-> NewDraft, history |-> <<>>, archived |-> FALSE]

Op(w) == req[w].op

NoRequest == [op |-> "view", account |-> None, proposal |-> None, version |-> 0]

\* A draft after the request, in either store.
Changed(d, r) ==
  CASE r.op = "update"     -> [d EXCEPT !.content = r.version]
    [] r.op = "view"       -> [d EXCEPT !.viewers = @ \cup {r.account}]
    [] r.op = "save"       -> [d EXCEPT !.savers = @ \cup {r.account}]
    [] r.op = "removeSave" -> [d EXCEPT !.savers = @ \ {r.account}]
    [] r.op \in {"close", "closeInternal"} ->
         [d EXCEPT !.state = "Closed", !.proposal = r.proposal]
    [] r.op = "delete"     -> d

\* Mutant: any close request finds a closed draft good enough.
ClosedIsEnough(d, r) ==
  \/ r.op \in Marks /\ Changed(d, r) = d
  \/ r.op \in {"close", "closeInternal"} /\ d.state = "Closed"

\* A mark that is there, or a draft that is closed, is not written again; an
\* event of the indexer closes it again.
NothingToDo(d, r) ==
  \/ r.op \in Marks /\ Changed(d, r) = d
  \/ r.op = "close" /\ d.state = "Closed"

Permitted(d, r) ==
  /\ r.op \in {"update", "delete"} => r.account \in Editors
  /\ r.op = "close" => r.account \in Adders
  /\ r.op = "delete" => d.state # "Closed"

\* Mutant: the history is that of the store when the item is saved.
AppendedNow(w) ==
  [draft |-> Changed(item[w].draft, req[w]),
   history |-> IF Op(w) = "update"
               THEN Append(dyn.history, item[w].draft.content)
               ELSE dyn.history,
   archived |-> item[w].archived \/ Op(w) = "delete"]

\* The item a request saves, from the one it has read.
NewItem(w) ==
  [draft |-> Changed(item[w].draft, req[w]),
   history |-> IF Op(w) = "update"
               THEN Append(item[w].history, item[w].draft.content)
               ELSE item[w].history,
   archived |-> item[w].archived \/ Op(w) = "delete"]

\* Mutant: the fields that are not there are cleared.
Overwritten(new, old) == new

\* A document or an item that lacks a field leaves that of the store.
Filled(new, old) == [new EXCEPT !.proposal = IF @ = None THEN old.proposal ELSE @]

\* saveItem of an item that exists sets the fields the new one has; one that
\* was not deleted has no isArchived.
Saved(old, new) ==
  [draft |-> Filled(new.draft, old.draft),
   history |-> new.history,
   archived |-> new.archived \/ old.archived]

\* repository.update sets the changed fields of a document that is there.
Patched(old, r, d) ==
  IF old = None THEN None
  ELSE CASE r.op = "view" -> [old EXCEPT !.viewers = d.viewers]
         [] r.op \in {"save", "removeSave"} -> [old EXCEPT !.savers = d.savers]
         [] r.op \in {"close", "closeInternal"} ->
              [old EXCEPT !.state = d.state, !.proposal = d.proposal]

\* repository.save writes the whole document, and inserts a missing one.
Rewritten(old, d) == IF old = None THEN d ELSE Filled(d, old)

-----------------------------------------------------------------------------
(* Bookkeeping                                                             *)

GoTo(w, label) == pc' = [pc EXCEPT ![w] = label]

\* A worker starts with request r.
Starts(w, r, label) ==
  /\ pc[w] = "off"
  /\ scenario.oneEach => \A v \in Requests : pc[v] # "off" => req[v].account # r.account
  /\ GoTo(w, label)
  /\ req' = [req EXCEPT ![w] = r]
  /\ alone' = IF \A v \in Workers : pc[v] = "off" THEN w ELSE None
  /\ settled' = None

Forgets(w) ==
  /\ req' = [req EXCEPT ![w] = NoRequest]
  /\ item' = [item EXCEPT ![w] = None]
  /\ doc' = [doc EXCEPT ![w] = None]

\* It answers, with success or with an error, and forgets what it has read.
Answers(w) ==
  /\ GoTo(w, "off")
  /\ Forgets(w)
  /\ settled' = IF alone = w THEN req[w] ELSE None
  /\ alone' = None

Rejects(w) ==
  /\ GoTo(w, "off")
  /\ Forgets(w)
  /\ settled' = None
  /\ alone' = None

GoesOn(w, label) == GoTo(w, label) /\ UNCHANGED <<req, memory, alone, settled>>

NothingWritten == UNCHANGED <<stores, versions, scenario, faults, basedOn, history>>

Init ==
  /\ mongo = None /\ mHistory = {} /\ dyn = None
  /\ pc = [w \in Workers |-> "off"]
  /\ req = [w \in Workers |-> NoRequest]
  /\ item = [w \in Workers |-> None]
  /\ doc = [w \in Workers |-> None]
  /\ versions = 0
  /\ scenario \in Scenarios /\ faults = 0
  /\ basedOn = [v \in Versions |-> 0]
  /\ shown = {} /\ purged = FALSE
  /\ alone = None /\ settled = None

-----------------------------------------------------------------------------
(* Creation: MongoDB first                                                 *)

CreateBegins(w) ==
  /\ mongo = None /\ dyn = None
  /\ \A v \in Workers : pc[v] = "off"
  /\ \E a \in scenario.by :
       Starts(w, [op |-> "create", account |-> a, proposal |-> None, version |-> 0],
              "mongoInsert")
  /\ NothingWritten
  /\ UNCHANGED memory

MongoInsert(w) ==
  /\ pc[w] = "mongoInsert"
  /\ mongo' = NewDraft
  /\ shown' = shown \cup {0}
  /\ GoesOn(w, "dynPut")
  /\ UNCHANGED <<mHistory, dyn, versions, scenario, faults, basedOn, purged>>

\* After the search index, DynamoDB.
DynPut(w) ==
  /\ pc[w] = "dynPut"
  /\ dyn' = CreatedItem
  /\ Answers(w)
  /\ UNCHANGED <<mongo, mHistory, versions, scenario, faults, basedOn, history>>

-----------------------------------------------------------------------------
(* The other requests: DynamoDB first                                      *)

Known == mongo # None \/ dyn # None

UpdateBegins(w) ==
  /\ Known /\ "update" \in scenario.asked /\ versions < MaxUpdates
  /\ \E a \in scenario.by :
       Starts(w, [op |-> "update", account |-> a, proposal |-> None,
                  version |-> versions + 1], "dynRead")
  /\ versions' = versions + 1
  /\ UNCHANGED <<stores, memory, scenario, faults, basedOn, history>>

RequestBegins(w) ==
  /\ Known
  /\ \E op \in scenario.asked \ {"update"}, a \in scenario.by, p \in Proposals :
       Starts(w, [op |-> op, account |-> a,
                  proposal |-> IF op = "close" THEN p ELSE None, version |-> 0],
              "dynRead")
  /\ NothingWritten
  /\ UNCHANGED memory

\* The item is read, with the DAO for its policy.
DynRead(w) ==
  /\ pc[w] = "dynRead"
  /\ dyn # None /\ Permitted(dyn.draft, req[w])
  /\ item' = [item EXCEPT ![w] = dyn]
  /\ basedOn' = IF Op(w) = "update"
                THEN [basedOn EXCEPT ![req[w].version] = dyn.draft.content]
                ELSE basedOn
  /\ GoTo(w, IF NothingToDo(dyn.draft, req[w]) THEN "mongoRead" ELSE "dynWrite")
  /\ UNCHANGED <<stores, req, doc, versions, scenario, faults, history, alone,
                 settled>>

\* NotFoundException, ForbiddenException or BadRequestException; the event has
\* nothing to do.
DynRefuses(w) ==
  /\ pc[w] = "dynRead"
  /\ dyn # None => ~Permitted(dyn.draft, req[w])
  /\ IF Op(w) = "closeInternal" THEN Answers(w) ELSE Rejects(w)
  /\ NothingWritten

DynWrite(w) ==
  /\ pc[w] = "dynWrite"
  /\ dyn' = Saved(dyn, NewItem(w))
  /\ IF Op(w) = "closeInternal" THEN Answers(w) ELSE GoesOn(w, "mongoRead")
  /\ UNCHANGED <<mongo, mHistory, versions, scenario, faults, basedOn, history>>

\* Mutant: the history of an update is forgotten.
SkipHistory(w) ==
  IF Op(w) = "delete" THEN "mongoPurge" ELSE "mongoWrite"

\* Where a request goes that has read the document.
AfterMongoRead(w) ==
  CASE Op(w) = "update" -> "mongoHistory"
    [] Op(w) = "delete" -> "mongoPurge"
    [] OTHER -> "mongoWrite"

MongoRead(w) ==
  /\ pc[w] = "mongoRead"
  /\ mongo # None /\ Permitted(mongo, req[w])
  /\ IF NothingToDo(mongo, req[w])
     THEN Answers(w)
     ELSE /\ GoTo(w, AfterMongoRead(w))
          /\ item' = [item EXCEPT ![w] = None]
          /\ doc' = [doc EXCEPT ![w] = mongo]
          /\ UNCHANGED <<req, alone, settled>>
  /\ NothingWritten

MongoRefuses(w) ==
  /\ pc[w] = "mongoRead"
  /\ mongo # None => ~Permitted(mongo, req[w])
  /\ IF Op(w) = "closeInternal" THEN GoesOn(w, "dynRead") ELSE Rejects(w)
  /\ NothingWritten

\* An update keeps the version it has read before it replaces it.
SaveHistory(w) ==
  /\ pc[w] = "mongoHistory"
  /\ mHistory' = mHistory \cup {doc[w].content}
  /\ GoesOn(w, "mongoWrite")
  /\ UNCHANGED <<mongo, dyn, versions, scenario, faults, basedOn, history>>

PurgeHistory(w) ==
  /\ pc[w] = "mongoPurge"
  /\ mHistory' = {}
  /\ purged' = TRUE
  /\ GoesOn(w, "mongoDelete")
  /\ UNCHANGED <<mongo, dyn, versions, scenario, faults, basedOn, shown>>

MongoDelete(w) ==
  /\ pc[w] = "mongoDelete"
  /\ mongo' = None
  /\ Answers(w)
  /\ UNCHANGED <<mHistory, dyn, versions, scenario, faults, basedOn, history>>

MongoWrite(w) ==
  /\ pc[w] = "mongoWrite"
  /\ LET d == Changed(doc[w], req[w])
     IN  mongo' = IF Op(w) = "update" THEN Rewritten(mongo, d)
                  ELSE Patched(mongo, req[w], d)
  /\ shown' = IF Op(w) = "update" THEN shown \cup {req[w].version} ELSE shown
  /\ IF Op(w) = "closeInternal" THEN GoesOn(w, "dynRead") ELSE Answers(w)
  /\ UNCHANGED <<mHistory, dyn, versions, scenario, faults, basedOn, purged>>

-----------------------------------------------------------------------------
(* The event of the indexer: MongoDB first                                 *)

CloseEvent(w) ==
  /\ Known /\ scenario.events
  /\ \E p \in Proposals :
       Starts(w, [op |-> "closeInternal", account |-> None, proposal |-> p,
                  version |-> 0], "mongoRead")
  /\ NothingWritten
  /\ UNCHANGED memory

\* Any await may reject, or the process restart: a request is answered with an
\* error, an event is gone.
Fails(w) ==
  /\ pc[w] # "off"
  /\ faults < scenario.faults
  /\ faults' = faults + 1
  /\ Rejects(w)
  /\ UNCHANGED <<stores, versions, scenario, basedOn, history>>

-----------------------------------------------------------------------------
Step(w) ==
  \/ DynRead(w) \/ DynRefuses(w) \/ DynWrite(w)
  \/ MongoRead(w) \/ MongoRefuses(w) \/ MongoWrite(w)

Next ==
  \/ \E w \in Workers : Step(w) \/ Fails(w)
  \/ \E w \in Requests :
       \/ CreateBegins(w) \/ MongoInsert(w) \/ DynPut(w)
       \/ UpdateBegins(w) \/ RequestBegins(w)
       \/ SaveHistory(w) \/ PurgeHistory(w) \/ MongoDelete(w)
  \/ \E w \in Events : CloseEvent(w)

Spec == Init /\ [][Next]_vars

-----------------------------------------------------------------------------
(* Properties                                                              *)

\* Whatever overlapping requests and failures between the two stores have left
\* behind: after a request that succeeded while no other ran, both stores show
\* what it asked for (so a request that failed half-way may be sent again).
StoresAgree ==
  settled # None =>
    LET r == settled
    IN  CASE r.op = "create" -> mongo = NewDraft /\ dyn.draft = NewDraft
          [] r.op = "update" ->
               mongo.content = r.version /\ dyn.draft.content = r.version
          [] r.op = "delete" -> mongo = None /\ dyn.archived
          [] r.op = "close" -> mongo.state = "Closed" /\ dyn.draft.state = "Closed"
          [] r.op = "closeInternal" ->
               \A d \in {mongo, IF dyn = None THEN None ELSE dyn.draft} \ {None} :
                 d.state = "Closed" /\ d.proposal = r.proposal
          [] OTHER -> Changed(mongo, r) = mongo /\ Changed(dyn.draft, r) = dyn.draft

\* The item of DynamoDB is at every moment what some of the updates would have
\* left one after another: each version of its history was made from the one
\* before it, although requests write whole items back over one another.
HistorySerial ==
  dyn # None =>
    LET line == Append(dyn.history, dyn.draft.content)
    IN  /\ line[1] = 0
        /\ \A i \in 1 .. Len(line) - 1 : basedOn[line[i + 1]] = line[i]

\* At most one of those who ask may edit the draft.
OneEditor == \A a, b \in Editors \cap scenario.by : a = b

\* Every version MongoDB has shown is the current one or in the history, until
\* a deletion begins, where there is one editor, who waits for the answer of a
\* request before the next is sent: of two updates that read the same document
\* the version of one is never kept ("Draft proposal has a history of updates
\* that allows users to view old versions of proposal", apps/draft/README.md).
HistoryComplete ==
  scenario.oneEach /\ OneEditor /\ mongo # None /\ ~purged
    => shown \subseteq mHistory \cup {mongo.content}

\* Once a draft is related to its proposal it stays so in both stores, even
\* when a request writes back what it has read before the draft was closed and
\* thereby opens it again ("Closed draft proposals is related to the relevant
\* proposal on chain", apps/draft/README.md).
RelationKept ==
  [][/\ mongo # None /\ mongo.proposal # None /\ mongo' # None
          => mongo'.proposal # None
     /\ dyn # None /\ dyn.draft.proposal # None => dyn'.draft.proposal # None]_stores

\* A closed draft is not updated or removed any more (apps/draft/README.md).
ClosedIsFinal ==
  [][mongo # None /\ mongo.state = "Closed" =>
       mongo' # None /\ mongo'.content = mongo.content]_mongo
=============================================================================
