-------------------------- MODULE ReceiptIngestion --------------------------
(***************************************************************************)
(* How the receipts of DAO contracts reach the database.                   *)
(*                                                                         *)
(* The lake indexer appends receipts to a Redis stream.  One consumer of   *)
(* apps/indexer-processor reads the stream, hands every action of a        *)
(* receipt to the transaction handler and deletes the entry.  A receipt    *)
(* whose handling fails is recorded in the error tracker (a DynamoDB       *)
(* record, a DynamoDB list of the open ids and an SQL row) and retried in  *)
(* the background with an attempt budget; on start the open errors are     *)
(* read back and resumed.  The wallet callback of apps/api runs the same   *)
(* handler, in another process, for the receipts of a transaction.  The    *)
(* only coordination is a "handled" marker per receipt action, read before *)
(* the effects of an action and written after them.                        *)
(*                                                                         *)
(* One action of this module is the code between two awaits.  The indexer  *)
(* process may crash between any two of them.                              *)
(***************************************************************************)
EXTENDS Integers, FiniteSets

CONSTANTS
  Receipts,        \* receipts of DAO contracts
  NumActions,      \* NumActions[r]: how many actions receipt r carries
  FailedReceipts,  \* receipts of transactions that failed on chain
  NextInTx,        \* the next receipt of the same transaction, or None
  NumEntries,      \* entries the lake indexer appends to the stream
  ReceiptOf,       \* the receipt an entry carries; two entries may carry one
  Consumer,        \* the promise that polls the stream
  Retriers,        \* backOff promises of the error handler
  Wallets,         \* wallet callback requests being served
  None,            \* no receipt, no error
  UseDynamo,       \* the feature flag ErrorDynamo
  BatchSizes,      \* COUNT of xread: 10 at first, then 3000, as the timer
                   \* passes its interval in the place of maxItems
  MaxAttempts,     \* numOfAttempts of the backOff
  MaxFaults,       \* bound: failures that the code catches
  MaxOutages,      \* bound: failures that nothing catches
  MaxCrashes,      \* bound: restarts of the indexer process
  MaxCallbacks     \* bound: wallet callbacks

Workers == {Consumer} \cup Retriers \cup Wallets

\* A receipt action, and the id of the error raised while handling it.
ReceiptActions ==
  UNION {{<<r, i>> : i \in 1 .. NumActions[r]} : r \in Receipts}

Entries == 1 .. NumEntries

ErrorStatus == {"none", "Open", "Resolved"}

ConsumerPC == {"poll", "begin", "xdel", "errSave", "errRead", "errWrite",
               "errSql", "failState", "dead"}
HandlerPC == {"check", "run", "mark"}
RetrierPC == {"get", "setRead", "setWrite", "setDyn", "setSql"}

ASSUME WorkersAssumption ==
  /\ Consumer \notin Retriers \cup Wallets
  /\ Retriers \cap Wallets = {}

ASSUME ReceiptsAssumption ==
  /\ NumActions \in [Receipts -> Nat]
  /\ FailedReceipts \subseteq Receipts
  /\ None \notin Receipts
  /\ NextInTx \in [Receipts -> Receipts \cup {None}]

ASSUME StreamAssumption ==
  /\ NumEntries \in Nat
  /\ ReceiptOf \in [1 .. NumEntries -> Receipts]
  /\ BatchSizes \subseteq Nat \ {0}

ASSUME BoundsAssumption ==
  /\ UseDynamo \in BOOLEAN
  /\ MaxAttempts \in Nat \ {0}
  /\ {MaxFaults, MaxOutages, MaxCrashes, MaxCallbacks} \subseteq Nat
  /\ None \notin ReceiptActions

VARIABLES
  \* Redis
  published,   \* number of entries appended so far
  stream,      \* entries not deleted yet
  \* DynamoDB
  handled,     \* receipt actions that have a handled marker
  dynErr,      \* status of the error record
  openIds,     \* the list of open error ids, one item
  \* PostgreSQL
  applied,     \* receipt actions whose effects are in the database
  sqlErr,      \* status of the error row
  hStatus,     \* status of the transaction handler state
  hReceipt,    \* the receipt that state names
  \* memory of the processes
  pc,          \* where each worker is
  rec,         \* the receipt it handles
  idx,         \* the action of that receipt it handles
  seen,        \* the list of open ids it has read
  batch,       \* entries the consumer has read and not handled
  cur,         \* the entry it handles
  errOf,       \* the error a retrier resolves
  attempts,    \* failed attempts of a retrier
  booted,      \* has resolveErrorsBackOff read the open errors
  resume,      \* open errors it has not resumed yet
  \* bounds
  faults, outages, crashes, callbacks

redis == <<published, stream>>
errors == <<dynErr, openIds, sqlErr>>
database == <<handled, applied, hStatus, hReceipt>>
consumerMem == <<batch, cur>>
retryMem == <<errOf, attempts>>
bootMem == <<booted, resume>>
bounds == <<faults, outages, crashes, callbacks>>

vars == <<redis, errors, database, pc, rec, idx, seen, consumerMem,
          retryMem, bootMem, bounds>>

-----------------------------------------------------------------------------
\* The first n entries of the stream, in the order of their ids.
FirstEntries(n) ==
  {k \in stream : Cardinality({j \in stream : j < k}) < n}

ActionAt(w) == <<rec[w], idx[w]>>

MoreActions(w) == idx[w] \in 1 .. NumActions[rec[w]]

\* Mutant: the status of the transaction is not looked at.
Marked(r, i) == <<r, i>> \in handled

\* An action needs no more handling: it is marked, or its transaction failed.
Done(r, i) == r \in FailedReceipts \/ <<r, i>> \in handled

ReceiptDone(r) == \A i \in 1 .. NumActions[r] : Done(r, i)

\* What the error tracker answers, from the store the feature flag selects.
ErrorIsOpen(e) == (IF UseDynamo THEN dynErr[e] ELSE sqlErr[e]) = "Open"

\* Mutant: the list of open ids is read whatever the feature flag says.
ListedErrorIds == openIds

OpenErrorIds ==
  IF UseDynamo THEN openIds
  ELSE {e \in ReceiptActions : sqlErr[e] = "Open"}

GoTo(w, label) == pc' = [pc EXCEPT ![w] = label]

\* The worker starts on the actions of receipt r, from the first one.
StartReceipt(w, r) ==
  /\ rec' = [rec EXCEPT ![w] = r]
  /\ idx' = [idx EXCEPT ![w] = 1]

\* The worker holds no receipt any more.
DropReceipt(w) ==
  /\ rec' = [rec EXCEPT ![w] = None]
  /\ idx' = [idx EXCEPT ![w] = 0]
  /\ seen' = [seen EXCEPT ![w] = {}]

-----------------------------------------------------------------------------
Init ==
  /\ published = 0 /\ stream = {}
  /\ handled = {} /\ applied = {}
  /\ dynErr = [e \in ReceiptActions |-> "none"]
  /\ sqlErr = [e \in ReceiptActions |-> "none"]
  /\ openIds = {}
  /\ hStatus = "none" /\ hReceipt = None
  /\ pc = [w \in Workers |-> IF w = Consumer THEN "poll" ELSE "off"]
  /\ rec = [w \in Workers |-> None]
  /\ idx = [w \in Workers |-> 0]
  /\ seen = [w \in Workers |-> {}]
  /\ batch = {} /\ cur = 0
  /\ errOf = [w \in Retriers |-> None]
  /\ attempts = [w \in Retriers |-> 0]
  /\ booted = FALSE /\ resume = {}
  /\ faults = 0 /\ outages = 0 /\ crashes = 0 /\ callbacks = 0

-----------------------------------------------------------------------------
(* The stream: redis.service.ts                                            *)

\* The lake indexer appends the next entry.
Publish ==
  /\ published < NumEntries
  /\ published' = published + 1
  /\ stream' = stream \cup {published + 1}
  /\ UNCHANGED <<errors, database, pc, rec, idx, seen, consumerMem, retryMem,
                 bootMem, bounds>>

\* xread from id 0 returns the oldest entries.
Poll ==
  /\ pc[Consumer] = "poll"
  /\ stream # {}
  /\ \E n \in BatchSizes : batch' = FirstEntries(n)
  /\ GoTo(Consumer, "begin")
  /\ UNCHANGED <<redis, errors, database, rec, idx, seen, cur, retryMem,
                 bootMem, bounds>>

\* xdel of the handled entry, whatever the handler returned; then the next
\* entry of the batch, or the timer that polls again.
DeleteEntry ==
  /\ pc[Consumer] = "xdel"
  /\ stream' = stream \ {cur}
  /\ batch' = batch \ {cur}
  /\ cur' = 0
  /\ GoTo(Consumer, IF batch' = {} THEN "poll" ELSE "begin")
  /\ DropReceipt(Consumer)
  /\ UNCHANGED <<published, errors, database, retryMem, bootMem, bounds>>

-----------------------------------------------------------------------------
(* handleReceipt                                                           *)

\* The handler is called with the next entry and saves its own progress.
BeginReceipt ==
  /\ pc[Consumer] = "begin"
  /\ \E k \in batch :
       /\ \A j \in batch : k <= j
       /\ cur' = k
       /\ StartReceipt(Consumer, ReceiptOf[k])
       /\ hReceipt' = ReceiptOf[k]
  /\ hStatus' = "InProgress"
  /\ GoTo(Consumer, "check")
  /\ UNCHANGED <<redis, errors, handled, applied, seen, batch, retryMem,
                 bootMem, bounds>>

\* Every action is handled.
FinishReceipt ==
  /\ pc[Consumer] = "check"
  /\ ~MoreActions(Consumer)
  /\ hStatus' = "Success"
  /\ GoTo(Consumer, "xdel")
  /\ UNCHANGED <<redis, errors, handled, applied, hReceipt, rec, idx, seen,
                 consumerMem, retryMem, bootMem, bounds>>

-----------------------------------------------------------------------------
(* handleTransactionAction, run by the consumer, a retrier or a callback.  *)
(* The RPC call before it (getTransactionAction) has no effect and is part *)
(* of the "check" step; when it fails, ActionThrows is taken there.        *)

\* Marked already, or the transaction failed: nothing is done or marked.
SkipAction(w) ==
  /\ pc[w] = "check" /\ MoreActions(w)
  /\ Done(rec[w], idx[w])
  /\ idx' = [idx EXCEPT ![w] = @ + 1]
  /\ UNCHANGED <<redis, errors, database, pc, rec, seen, consumerMem,
                 retryMem, bootMem, bounds>>

\* No marker: the contract handlers are called.
StartAction(w) ==
  /\ pc[w] = "check" /\ MoreActions(w)
  /\ ~Done(rec[w], idx[w])
  /\ GoTo(w, "run")
  /\ UNCHANGED <<redis, errors, database, rec, idx, seen, consumerMem,
                 retryMem, bootMem, bounds>>

\* The read of the marker fails: getItemById swallows the error and answers
\* undefined, so a marked action is handled again.
MissMarker(w) ==
  /\ pc[w] = "check" /\ MoreActions(w)
  /\ ActionAt(w) \in handled
  /\ rec[w] \notin FailedReceipts
  /\ faults < MaxFaults
  /\ faults' = faults + 1
  /\ GoTo(w, "run")
  /\ UNCHANGED <<redis, errors, database, rec, idx, seen, consumerMem,
                 retryMem, bootMem, outages, crashes, callbacks>>

\* Mutant: an error of a contract handler is not thrown again.
RunHandlersQuietly(w) ==
  /\ pc[w] = "run"
  /\ applied' \in {applied, applied \cup {ActionAt(w)}}
  /\ GoTo(w, "mark")
  /\ UNCHANGED <<redis, errors, handled, hStatus, hReceipt, rec, idx, seen,
                 consumerMem, retryMem, bootMem, bounds>>

\* The contract handlers and saveDaoFunds write the effects of the action.
RunHandlers(w) ==
  /\ pc[w] = "run"
  /\ applied' = applied \cup {ActionAt(w)}
  /\ GoTo(w, "mark")
  /\ UNCHANGED <<redis, errors, handled, hStatus, hReceipt, rec, idx, seen,
                 consumerMem, retryMem, bootMem, bounds>>

\* The marker is the last write of the action.
SaveMarker(w) ==
  /\ pc[w] = "mark"
  /\ handled' = handled \cup {ActionAt(w)}
  /\ idx' = [idx EXCEPT ![w] = @ + 1]
  /\ GoTo(w, "check")
  /\ UNCHANGED <<redis, errors, applied, hStatus, hReceipt, rec, seen,
                 consumerMem, retryMem, bootMem, bounds>>

\* Some await of handling the action rejects.
ActionThrows(w) ==
  /\ \/ pc[w] \in {"run", "mark"}
     \/ pc[w] = "check" /\ MoreActions(w)
  /\ faults < MaxFaults
  /\ faults' = faults + 1
  /\ UNCHANGED <<redis, errors, database, consumerMem, bootMem, outages,
                 crashes, callbacks>>

-----------------------------------------------------------------------------
(* handleNewError and ErrorTrackerService.create, run by the consumer      *)

\* Mutants: the failure is not recorded; it is logged and the loop goes on.
ConsumerForgets ==
  /\ ActionThrows(Consumer)
  /\ GoTo(Consumer, "failState")
  /\ UNCHANGED <<rec, idx, seen, retryMem>>

ConsumerGoesOn ==
  /\ ActionThrows(Consumer)
  /\ GoTo(Consumer, "check")
  /\ idx' = [idx EXCEPT ![Consumer] = @ + 1]
  /\ UNCHANGED <<rec, seen, retryMem>>

\* The consumer catches the failure and starts to record it.
ConsumerCatches ==
  /\ ActionThrows(Consumer)
  /\ GoTo(Consumer, "errSave")
  /\ UNCHANGED <<rec, idx, seen, retryMem>>

\* The DynamoDB record; of an id that exists already the status is reset.
SaveDynamoError ==
  /\ pc[Consumer] = "errSave"
  /\ dynErr' = [dynErr EXCEPT ![ActionAt(Consumer)] = "Open"]
  /\ GoTo(Consumer, "errRead")
  /\ UNCHANGED <<redis, openIds, sqlErr, database, rec, idx, seen,
                 consumerMem, retryMem, bootMem, bounds>>

\* addOpenErrorId reads the list of open ids ...
ReadToAddOpenId ==
  /\ pc[Consumer] = "errRead"
  /\ IF ActionAt(Consumer) \in openIds
     THEN /\ GoTo(Consumer, "errSql")
          /\ UNCHANGED seen
     ELSE /\ GoTo(Consumer, "errWrite")
          /\ seen' = [seen EXCEPT ![Consumer] = openIds]
  /\ UNCHANGED <<redis, errors, database, rec, idx, consumerMem, retryMem,
                 bootMem, bounds>>

\* ... and writes back what it read with the new id, unconditionally.
WriteAddedOpenId ==
  /\ pc[Consumer] = "errWrite"
  /\ openIds' = seen[Consumer] \cup {ActionAt(Consumer)}
  /\ GoTo(Consumer, "errSql")
  /\ UNCHANGED <<redis, dynErr, sqlErr, database, rec, idx, seen, consumerMem,
                 retryMem, bootMem, bounds>>

\* The DTO carries no status: a new row gets the column's default and an
\* existing row keeps its status.
StatusSaved(old) == IF old = "none" THEN "Open" ELSE old

\* The SQL row; then the background resolution is started, not awaited.
SaveSqlError ==
  /\ pc[Consumer] = "errSql"
  /\ LET e == ActionAt(Consumer) IN
     /\ sqlErr' = [sqlErr EXCEPT ![e] = StatusSaved(@)]
     /\ \E w \in Retriers :
          /\ pc[w] = "off"
          /\ pc' = [pc EXCEPT ![Consumer] = "failState", ![w] = "get"]
          /\ errOf' = [errOf EXCEPT ![w] = e]
  /\ UNCHANGED <<redis, dynErr, openIds, database, rec, idx, seen,
                 consumerMem, attempts, bootMem, bounds>>

\* saveState(Failed) keeps the block of the receipt; the receipt is skipped.
SaveFailedState ==
  /\ pc[Consumer] = "failState"
  /\ hStatus' = "Failed"
  /\ GoTo(Consumer, "xdel")
  /\ UNCHANGED <<redis, errors, handled, applied, hReceipt, rec, idx, seen,
                 consumerMem, retryMem, bootMem, bounds>>

\* xread, xdel, saveState or the error tracker rejects: nothing catches it,
\* handleStream rejects and its timer is never set again.
ConsumerDies ==
  /\ \/ pc[Consumer] \in ConsumerPC \ {"dead"}
     \/ pc[Consumer] = "check" /\ ~MoreActions(Consumer)
  /\ outages < MaxOutages
  /\ outages' = outages + 1
  /\ GoTo(Consumer, "dead")
  /\ batch' = {} /\ cur' = 0
  /\ DropReceipt(Consumer)
  /\ UNCHANGED <<redis, errors, database, retryMem, bootMem, faults, crashes,
                 callbacks>>

-----------------------------------------------------------------------------
(* The background resolution of errors: resolveErrorsBackOff, resolveError *)

\* On start, the ids of the open errors are read once.
LoadOpenErrors ==
  /\ ~booted
  /\ booted' = TRUE
  /\ resume' = OpenErrorIds
  /\ UNCHANGED <<redis, errors, database, pc, rec, idx, seen, consumerMem,
                 retryMem, bounds>>

\* That read fails: nothing is resumed until the next start.
LoadOpenErrorsFails ==
  /\ ~booted
  /\ outages < MaxOutages
  /\ outages' = outages + 1
  /\ booted' = TRUE
  /\ UNCHANGED <<redis, errors, database, pc, rec, idx, seen, consumerMem,
                 retryMem, resume, faults, crashes, callbacks>>

\* A backOff is started for each of them.
ResumeError(w) ==
  /\ pc[w] = "off"
  /\ \E e \in resume :
       /\ resume' = resume \ {e}
       /\ errOf' = [errOf EXCEPT ![w] = e]
  /\ GoTo(w, "get")
  /\ UNCHANGED <<redis, errors, database, rec, idx, seen, consumerMem,
                 attempts, booted, bounds>>

\* The backOff is over: resolved, skipped or out of attempts.
StopRetrier(w) ==
  /\ GoTo(w, "off")
  /\ DropReceipt(w)
  /\ errOf' = [errOf EXCEPT ![w] = None]
  /\ attempts' = [attempts EXCEPT ![w] = 0]

\* An attempt handles the whole receipt again, unless the error is not open.
GetError(w) ==
  /\ pc[w] = "get"
  /\ IF ErrorIsOpen(errOf[w])
     THEN /\ StartReceipt(w, errOf[w][1])
          /\ GoTo(w, "check")
          /\ UNCHANGED <<seen, retryMem>>
     ELSE StopRetrier(w)
  /\ UNCHANGED <<redis, errors, database, consumerMem, bootMem, bounds>>

\* Every action is handled: the error is to be marked as resolved.
FinishRetry(w) ==
  /\ pc[w] = "check"
  /\ ~MoreActions(w)
  /\ GoTo(w, "setRead")
  /\ UNCHANGED <<redis, errors, database, rec, idx, seen, consumerMem,
                 retryMem, bootMem, bounds>>

\* removeOpenErrorId reads the list of open ids ...
ReadToRemoveOpenId(w) ==
  /\ pc[w] = "setRead"
  /\ IF errOf[w] \in openIds
     THEN /\ GoTo(w, "setWrite")
          /\ seen' = [seen EXCEPT ![w] = openIds]
     ELSE /\ GoTo(w, "setDyn")
          /\ UNCHANGED seen
  /\ UNCHANGED <<redis, errors, database, rec, idx, consumerMem, retryMem,
                 bootMem, bounds>>

\* ... and writes back what it read without the id, unconditionally.
WriteRemovedOpenId(w) ==
  /\ pc[w] = "setWrite"
  /\ openIds' = seen[w] \ {errOf[w]}
  /\ GoTo(w, "setDyn")
  /\ UNCHANGED <<redis, dynErr, sqlErr, database, rec, idx, seen, consumerMem,
                 retryMem, bootMem, bounds>>

\* The DynamoDB record is resolved.
ResolveDynamo(w) ==
  /\ pc[w] = "setDyn"
  /\ dynErr' = [dynErr EXCEPT ![errOf[w]] = "Resolved"]
  /\ GoTo(w, "setSql")
  /\ UNCHANGED <<redis, openIds, sqlErr, database, rec, idx, seen,
                 consumerMem, retryMem, bootMem, bounds>>

\* The SQL row, if there is one, is resolved: the backOff is over.
ResolveSql(w) ==
  /\ pc[w] = "setSql"
  /\ sqlErr' =
       [sqlErr EXCEPT ![errOf[w]] = IF @ = "none" THEN @ ELSE "Resolved"]
  /\ StopRetrier(w)
  /\ UNCHANGED <<redis, dynErr, openIds, database, consumerMem, bootMem,
                 bounds>>

\* Mutant: one attempt only.
LastAttempt(w) == StopRetrier(w)

\* Mutant: a failed attempt is logged, and goes on to resolve the error.
AttemptSwallowed(w) ==
  /\ GoTo(w, "setRead")
  /\ UNCHANGED <<rec, idx, seen, errOf, attempts>>

\* The attempt has failed: another one while the budget lasts.
NextAttempt(w) ==
  IF attempts[w] + 1 < MaxAttempts
  THEN /\ GoTo(w, "get")
       /\ DropReceipt(w)
       /\ attempts' = [attempts EXCEPT ![w] = @ + 1]
       /\ UNCHANGED errOf
  ELSE StopRetrier(w)

\* The attempt fails while it handles an action.
RetryThrows(w) ==
  /\ ActionThrows(w)
  /\ NextAttempt(w)

\* The error tracker rejects during the attempt.
TrackerThrows(w) ==
  /\ pc[w] \in RetrierPC
  /\ faults < MaxFaults
  /\ faults' = faults + 1
  /\ NextAttempt(w)
  /\ UNCHANGED <<redis, errors, database, consumerMem, bootMem, outages,
                 crashes, callbacks>>

-----------------------------------------------------------------------------
(* The wallet callback of apps/api                                         *)

\* A user returns from the wallet with the hash of a transaction.
StartCallback(w) ==
  /\ pc[w] = "off"
  /\ callbacks < MaxCallbacks
  /\ callbacks' = callbacks + 1
  /\ \E r \in Receipts :
       /\ \A q \in Receipts : NextInTx[q] # r
       /\ StartReceipt(w, r)
  /\ GoTo(w, "check")
  /\ UNCHANGED <<redis, errors, database, seen, consumerMem, retryMem,
                 bootMem, faults, outages, crashes>>

\* The receipts of the transaction are handled one after the other.
NextReceipt(w) ==
  /\ pc[w] = "check"
  /\ ~MoreActions(w)
  /\ IF NextInTx[rec[w]] = None
     THEN GoTo(w, "off") /\ DropReceipt(w)
     ELSE StartReceipt(w, NextInTx[rec[w]]) /\ UNCHANGED <<pc, seen>>
  /\ UNCHANGED <<redis, errors, database, consumerMem, retryMem, bootMem,
                 bounds>>

\* The first failure ends the callback and nothing records it; so does a
\* crash of the API process.
CallbackEnds(w) ==
  /\ pc[w] # "off"
  /\ GoTo(w, "off")
  /\ DropReceipt(w)
  /\ UNCHANGED <<redis, errors, database, consumerMem, retryMem, bootMem,
                 bounds>>

-----------------------------------------------------------------------------
\* The indexer process stops and is started again.
Crash ==
  /\ crashes < MaxCrashes
  /\ crashes' = crashes + 1
  /\ LET wiped == {Consumer} \cup Retriers IN
     /\ pc' = [w \in Workers |-> IF w \notin wiped THEN pc[w]
                                 ELSE IF w = Consumer THEN "poll" ELSE "off"]
     /\ rec' = [w \in Workers |-> IF w \in wiped THEN None ELSE rec[w]]
     /\ idx' = [w \in Workers |-> IF w \in wiped THEN 0 ELSE idx[w]]
     /\ seen' = [w \in Workers |-> IF w \in wiped THEN {} ELSE seen[w]]
  /\ batch' = {} /\ cur' = 0
  /\ errOf' = [w \in Retriers |-> None]
  /\ attempts' = [w \in Retriers |-> 0]
  /\ booted' = FALSE /\ resume' = {}
  /\ UNCHANGED <<redis, errors, database, faults, outages, callbacks>>

HandleAction(w) ==
  SkipAction(w) \/ StartAction(w) \/ RunHandlers(w) \/ SaveMarker(w)

ConsumerStep ==
  \/ Poll \/ BeginReceipt \/ HandleAction(Consumer) \/ FinishReceipt
  \/ DeleteEntry
  \/ SaveDynamoError \/ ReadToAddOpenId \/ WriteAddedOpenId \/ SaveSqlError
  \/ SaveFailedState

RetrierStep(w) ==
  \/ ResumeError(w) \/ GetError(w) \/ HandleAction(w) \/ FinishRetry(w)
  \/ ReadToRemoveOpenId(w) \/ WriteRemovedOpenId(w) \/ ResolveDynamo(w)
  \/ ResolveSql(w)

WalletStep(w) == HandleAction(w) \/ NextReceipt(w)

\* Failures: nothing makes them happen.
Failure ==
  \/ ConsumerCatches \/ ConsumerDies \/ LoadOpenErrorsFails \/ Crash
  \/ \E w \in Workers : MissMarker(w)
  \/ \E w \in Retriers : RetryThrows(w) \/ TrackerThrows(w)
  \/ \E w \in Wallets : CallbackEnds(w)

\* Everything is consumed and every process is idle.
Quiescent ==
  /\ published = NumEntries
  /\ stream = {} \/ pc[Consumer] = "dead"
  /\ pc[Consumer] \in {"poll", "dead"}
  /\ \A w \in Retriers \cup Wallets : pc[w] = "off"
  /\ booted /\ resume = {}
  /\ UNCHANGED vars

Next ==
  \/ Publish
  \/ ConsumerStep
  \/ LoadOpenErrors
  \/ \E w \in Retriers : RetrierStep(w)
  \/ \E w \in Wallets : StartCallback(w) \/ WalletStep(w)
  \/ Failure
  \/ Quiescent

Spec == Init /\ [][Next]_vars

\* The event loop runs whatever promise is ready; users, failures and the
\* lake indexer owe nothing.
Fairness ==
  /\ WF_vars(ConsumerStep)
  /\ WF_vars(LoadOpenErrors)
  /\ \A w \in Retriers : WF_vars(RetrierStep(w))

FairSpec == Spec /\ Fairness

-----------------------------------------------------------------------------
(* Properties                                                              *)

StoresTypeOK ==
  /\ published \in 0 .. NumEntries
  /\ stream \subseteq 1 .. published
  /\ handled \subseteq ReceiptActions
  /\ applied \subseteq ReceiptActions
  /\ dynErr \in [ReceiptActions -> ErrorStatus]
  /\ sqlErr \in [ReceiptActions -> ErrorStatus]
  /\ openIds \subseteq ReceiptActions
  /\ hStatus \in {"none", "InProgress", "Success", "Failed"}
  /\ hReceipt \in Receipts \cup {None}
  /\ hStatus # "none" => hReceipt \in Receipts

LabelsOf(w) ==
  IF w = Consumer THEN ConsumerPC \cup HandlerPC
  ELSE IF w \in Retriers THEN RetrierPC \cup HandlerPC \cup {"off"}
  ELSE HandlerPC \cup {"off"}

WorkersTypeOK ==
  /\ pc \in [Workers -> ConsumerPC \cup HandlerPC \cup RetrierPC \cup {"off"}]
  /\ \A w \in Workers : pc[w] \in LabelsOf(w)
  /\ rec \in [Workers -> Receipts \cup {None}]
  /\ idx \in [Workers -> Nat]
  /\ seen \in [Workers -> SUBSET ReceiptActions]

MemoryTypeOK ==
  /\ batch \subseteq 1 .. published
  /\ cur \in 0 .. published
  /\ errOf \in [Retriers -> ReceiptActions \cup {None}]
  /\ attempts \in [Retriers -> Nat]
  /\ booted \in BOOLEAN
  /\ resume \subseteq ReceiptActions

BoundsTypeOK ==
  /\ faults \in 0 .. MaxFaults /\ outages \in 0 .. MaxOutages
  /\ crashes \in 0 .. MaxCrashes /\ callbacks \in 0 .. MaxCallbacks

\* Every variable has its type, and each worker is at a point of the code it
\* runs.
TypeOK == StoresTypeOK /\ WorkersTypeOK /\ MemoryTypeOK /\ BoundsTypeOK

\* The receipt is handled, or the error tracker has an open error for it.
Settled(r) ==
  ReceiptDone(r) \/ \E i \in 1 .. NumActions[r] : ErrorIsOpen(<<r, i>>)

\* No receipt is lost: once its entry has left the stream, a receipt is
\* handled or booked as an open error, across retries, lost updates of the
\* list, failures at any await and restarts (handleStream deletes an entry
\* whatever the handler returned, so handleReceipt must have settled it).
NoReceiptLost == \A k \in 1 .. published : k \in stream \/ Settled(ReceiptOf[k])

\* A marker is never ahead of the effects it stands for, however often and
\* by however many workers the action is handled (handleTransactionAction
\* saves the marker last).
MarkedAfterEffects == handled \subseteq applied

\* The effects of an action follow the completed handling of every earlier
\* action of its receipt, and no action of a failed transaction has effects
\* (handleReceipt, resolveError and handleTransactionActions all stop at the
\* first failure and start again at action 0).
AppliedInOrder ==
  \A a \in applied :
    /\ a[1] \notin FailedReceipts
    /\ \A j \in 1 .. a[2] - 1 : <<a[1], j>> \in handled

\* An error that either store shows as resolved belongs to a receipt all of
\* whose actions are handled (resolveError sets the status after its loop).
ResolvedMeansDone ==
  \A e \in ReceiptActions :
    "Resolved" \in {dynErr[e], sqlErr[e]} => ReceiptDone(e[1])

\* The handler state the API reports is truthful: Success is shown only when
\* the receipt of its block is handled, Failed only when that receipt is
\* booked or has been handled since.
HandlerStateTruthful ==
  /\ hStatus = "Success" => ReceiptDone(hReceipt)
  /\ hStatus = "Failed" => Settled(hReceipt)

\* A resolved SQL row stays resolved even when the entry is delivered again
\* and fails again (ErrorDto has no status, so save() leaves the column).
SqlResolvedIsFinal ==
  [][\A e \in ReceiptActions :
       sqlErr[e] = "Resolved" => sqlErr'[e] = "Resolved"]_vars

\* A receipt whose handling failed is stored and left behind for the next one
\* (step 3 of the README's sync algorithm: handleNewError, then xdel).
FailedReceiptsPassed ==
  \A k \in Entries :
    (pc[Consumer] = "errSave" /\ cur = k) ~> k \notin stream

\* Every receipt of the stream is handled in the end, at once or by a retry
\* or after a restart, if failures are fewer than the attempts of a backOff.
ReceiptsHandled ==
  \A k \in Entries : k \in stream ~> ReceiptDone(ReceiptOf[k])

\* Every open error is marked as resolved in the end, on the same condition
\* (the retry survives restarts: the open ids are read on start).
ErrorsResolved ==
  \A e \in ReceiptActions : sqlErr[e] = "Open" ~> sqlErr[e] = "Resolved"

\* Where the consumer holds an entry.
ConsumerBusy == pc[Consumer] \notin {"poll", "begin", "dead"}

\* The consumer's entry is still in the stream, and the handler state names
\* its receipt.
EntryInv ==
  /\ batch \subseteq stream
  /\ ConsumerBusy =>
       /\ cur \in stream
       /\ rec[Consumer] = ReceiptOf[cur]
       /\ hReceipt = rec[Consumer]

\* A worker that handles action i of a receipt has the actions before i
\* behind it, and has written the effects when it is about to mark them.
Progress(w) ==
  /\ pc[w] \in HandlerPC =>
       /\ rec[w] \in Receipts
       /\ idx[w] >= 1
       /\ \A j \in 1 .. idx[w] - 1 : Done(rec[w], j)
  /\ pc[w] \in {"run", "mark"} =>
       /\ idx[w] \in 1 .. NumActions[rec[w]]
       /\ rec[w] \notin FailedReceipts
  /\ pc[w] = "mark" => ActionAt(w) \in applied

ProgressInv == \A w \in Workers : Progress(w)

\* The consumer settles the receipt before it lets the entry go.
RecordInv ==
  /\ pc[Consumer] \in {"errSave", "errRead", "errWrite", "errSql"} =>
       ActionAt(Consumer) \in ReceiptActions
  /\ pc[Consumer] \in {"errRead", "errWrite", "errSql"} =>
       dynErr[ActionAt(Consumer)] # "none"
  /\ pc[Consumer] \in {"failState", "xdel"} => Settled(rec[Consumer])

\* A retrier marks an error as resolved when its receipt is done.
Retry(w) ==
  /\ pc[w] # "off" => errOf[w] \in ReceiptActions
  /\ pc[w] \in HandlerPC => rec[w] = errOf[w][1]
  /\ pc[w] \in RetrierPC \ {"get"} => ReceiptDone(errOf[w][1])

RetryInv == \A w \in Retriers : Retry(w)

\* The inductive invariant behind the safety properties above.
IInv ==
  /\ TypeOK
  /\ EntryInv /\ ProgressInv /\ RecordInv /\ RetryInv
  /\ NoReceiptLost /\ MarkedAfterEffects /\ AppliedInOrder
  /\ ResolvedMeansDone /\ HandlerStateTruthful

\* The ledger this module implements: its book of open errors is the store
\* the feature flag selects.
Ledger == INSTANCE ReceiptLedger WITH
  open <- {e \in ReceiptActions : ErrorIsOpen(e)}

\* Ingestion implements the ledger: every step of every worker, a failure or
\* a restart included, is a step of the ledger or leaves it unchanged.
ImplementsLedger == Ledger!Spec
=============================================================================
