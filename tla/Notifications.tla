--------------------------- MODULE Notifications ---------------------------
(***************************************************************************)
(* What an account is notified of: apps/notifier makes a note of each      *)
(* event of a DAO for its subscribers, and the account reads, archives and *)
(* mutes notes and changes its settings through apps/api                   *)
(* (libs/notification).  A note is a DynamoDB item, an entry of two lists  *)
(* of ids kept in one item of the account, and a PostgreSQL row, written   *)
(* in that order; the lists and the settings are read, changed and written *)
(* back.  DynamoDB removes an item at its ttl, and nothing removes its id  *)
(* from the lists.  New notes are pushed to the sockets of the account.    *)
(* One account and one DAO are modelled.                                   *)
(***************************************************************************)
EXTENDS Integers, FiniteSets, StoreWrites

CONSTANTS
  Notes,            \* ids of notes: of the account, the transaction and the type
  NoteThreads,      \* events and requests being served, one at a time each
  Sockets,          \* connections of the account to apps/api
  Absent,
  NoteScenarios     \* bounds: what happens at most in one behaviour

ASSUME NoteAssumption ==
  /\ \A ids \in SUBSET Notes : ids # Absent
  /\ NoteScenarios \subseteq
       [events : Nat, asked : SUBSET {"readAll", "archiveAll", "update", "settings"},
        requests : Nat, expiries : Nat, connections : Nat, notifierRestarts : Nat,
        overlap : BOOLEAN, dynamo : BOOLEAN]

VARIABLES
  noteItem,         \* DynamoDB: the notes that have an item
  unreadIds,        \* DynamoDB: notReadIds, or Absent before the first note
  unarchivedIds,    \* DynamoDB: notArchivedIds
  noteRow,          \* PostgreSQL: the notes that have a row
  settingsItem,     \* DynamoDB: the settings for the DAO and for every DAO
  settingsRow,      \* PostgreSQL: the same
  connected,        \* sockets of the account
  pushed,           \* the notes each socket was sent
  noteStep, noteAsk, noteHolds,     \* as in a program: counter, arguments, locals
  noteBudget,       \* what the scenario still allows
  calm              \* history: nothing has overlapped, failed or been cut short

noteStores == <<noteItem, unreadIds, unarchivedIds, noteRow, settingsItem, settingsRow>>
noteServing == <<noteStep, noteAsk, noteHolds>>
noteVars == <<noteStores, connected, pushed, noteServing, noteBudget, calm>>

Scopes == {"dao", "all"}    \* a setting for one DAO, or for every DAO

SettingsChoices == [typed : BOOLEAN, actionOnly : BOOLEAN, muted : BOOLEAN]

NotificationInit ==
  /\ noteItem = <<>> /\ noteRow = <<>>
  /\ unreadIds = Absent /\ unarchivedIds = Absent
  /\ settingsItem = <<>> /\ settingsRow = <<>>
  /\ connected = {} /\ pushed = [s \in Sockets |-> {}]
  /\ noteStep = [t \in NoteThreads |-> "idle"]
  /\ noteAsk = [t \in NoteThreads |-> Absent]
  /\ noteHolds = [t \in NoteThreads |-> Absent]
  /\ noteBudget \in NoteScenarios
  /\ calm = TRUE

-----------------------------------------------------------------------------

Served == {t \in NoteThreads : noteStep[t] # "idle"}

Arrive(t, first, ask) ==
  /\ noteStep[t] = "idle"
  /\ Served # {} => noteBudget.overlap
  /\ noteStep' = [noteStep EXCEPT ![t] = first]
  /\ noteAsk' = [noteAsk EXCEPT ![t] = ask]
  /\ calm' = (calm /\ Served = {})
  /\ UNCHANGED <<noteStores, connected, pushed, noteHolds>>

\* onDaoUpdate, onProposalUpdate: an event of a new transaction, or one sent again
\* because its receipt was handled again; it may call for an action of the account.
ReceiveEvent(t) ==
  /\ noteBudget.events > 0
  /\ \E n \in Notes, required \in BOOLEAN :
       Arrive(t, "decide", [kind |-> "event", note |-> n, required |-> required])
  /\ noteBudget' = [noteBudget EXCEPT !.events = @ - 1]

\* The requests of the account.
AskInbox(t) ==
  /\ noteBudget.requests > 0
  /\ \/ /\ "readAll" \in noteBudget.asked
        /\ Arrive(t, "getIds", [kind |-> "readAll"])
     \/ /\ "archiveAll" \in noteBudget.asked
        /\ Arrive(t, "getIds", [kind |-> "archiveAll"])
     \/ /\ "update" \in noteBudget.asked
        /\ \E n \in Notes, f \in [muted : BOOLEAN, read : BOOLEAN, archived : BOOLEAN] :
             Arrive(t, "findNote", [kind |-> "update", note |-> n, flags |-> f])
     \/ /\ "settings" \in noteBudget.asked
        /\ \E s \in Scopes, c \in SettingsChoices :
             Arrive(t, "getSettings", [kind |-> "settings", scope |-> s, choice |-> c])
  /\ noteBudget' = [noteBudget EXCEPT !.requests = @ - 1]

\* The next step, with what has been read.
Then(t, next, held) ==
  /\ noteStep' = [noteStep EXCEPT ![t] = next]
  /\ noteHolds' = [noteHolds EXCEPT ![t] = held]
  /\ UNCHANGED <<noteAsk, noteBudget>>

Drop(t) ==
  /\ noteStep' = [noteStep EXCEPT ![t] = "idle"]
  /\ noteAsk' = [noteAsk EXCEPT ![t] = Absent]
  /\ noteHolds' = [noteHolds EXCEPT ![t] = Absent]
  /\ UNCHANGED noteBudget

-----------------------------------------------------------------------------
(* A note is made                                                          *)

\* getNotifyAccountStatus: without settings only what calls for an action; with
\* settings, any of them may mute, restrict or name the type.
Status(settings, required) ==
  LET each == {settings[s] : s \in DOMAIN settings}
      Some(P(_)) == \E s \in each : P(s)
  IN  IF each = {} THEN [notify |-> required, muted |-> FALSE]
      ELSE [notify |-> /\ Some(LAMBDA s : s.actionOnly) => required
                       /\ Some(LAMBDA s : s.typed),
            muted  |-> Some(LAMBDA s : s.muted)]

\* createAccountNotifications: the settings are read as the flag says, and a note
\* is made if they ask for one.
Decide(t) ==
  LET settings == IF noteBudget.dynamo THEN settingsItem ELSE settingsRow
      status == Status(settings, noteAsk[t].required)
  IN
  /\ noteStep[t] = "decide"
  /\ IF status.notify THEN Then(t, "putItem", [muted |-> status.muted]) ELSE Drop(t)
  /\ UNCHANGED <<noteStores, connected, pushed, calm>>

\* A muted note is made as one that was read.
NewNote(muted) == [muted |-> muted, read |-> muted, archived |-> FALSE]

\* batchPut: an item that exists is replaced.
PutNote(t) ==
  /\ noteStep[t] = "putItem"
  /\ noteItem' = Upsert(noteItem, noteAsk[t].note, NewNote(noteHolds[t].muted))
  /\ Then(t, "readIds", noteItem'[noteAsk[t].note])
  /\ UNCHANGED <<unreadIds, unarchivedIds, noteRow, settingsItem, settingsRow, connected,
                 pushed, calm>>

\* setAccountNotificationIds: both lists are read ...
ReadIds(t) ==
  /\ noteStep[t] = "readIds"
  /\ Then(t, "saveIds",
          [flags |-> noteHolds[t],
           unread |-> IF unreadIds = Absent THEN {} ELSE unreadIds,
           unarchived |-> IF unarchivedIds = Absent THEN {} ELSE unarchivedIds])
  /\ UNCHANGED <<noteStores, connected, pushed, calm>>

\* Mutant: a note that is read stays in the list.
Grown(ids, n, out) == ids \cup {n}

\* setAccountNotificationId
Listed(ids, n, out) == IF out THEN ids \ {n} ELSE ids \cup {n}

\* ... and written back.
SaveIds(t) ==
  LET flags == noteHolds[t].flags IN
  /\ noteStep[t] = "saveIds"
  /\ unreadIds' = Listed(noteHolds[t].unread, noteAsk[t].note, flags.read)
  /\ unarchivedIds' = Listed(noteHolds[t].unarchived, noteAsk[t].note, flags.archived)
  /\ Then(t, "saveNote", flags)
  /\ UNCHANGED <<noteItem, noteRow, settingsItem, settingsRow, connected, pushed, calm>>

\* save: the row of a note made again keeps its isArchived, which an event does
\* not give; an update gives all three.
RowAfter(t) ==
  LET n == noteAsk[t].note
      kept == IF n \in DOMAIN noteRow THEN noteRow[n].archived ELSE FALSE
  IN  IF noteAsk[t].kind = "event" THEN [noteHolds[t] EXCEPT !.archived = kept]
      ELSE noteAsk[t].flags

SaveNote(t) ==
  /\ noteStep[t] = "saveNote"
  /\ noteRow' = Upsert(noteRow, noteAsk[t].note, RowAfter(t))
  /\ IF noteAsk[t].kind = "event" THEN Then(t, "push", noteHolds[t]) ELSE Drop(t)
  /\ UNCHANGED <<noteItem, unreadIds, unarchivedIds, settingsItem, settingsRow, connected,
                 pushed, calm>>

\* sendNewNotificationEvent: what is not muted goes to the sockets connected now.
Push(t) ==
  /\ noteStep[t] = "push"
  /\ pushed' = IF noteHolds[t].muted THEN pushed
               ELSE [s \in Sockets |->
                       IF s \in connected THEN pushed[s] \cup {noteAsk[t].note} ELSE pushed[s]]
  /\ Drop(t)
  /\ UNCHANGED <<noteStores, connected, calm>>

-----------------------------------------------------------------------------
(* Read all, archive all                                                   *)

\* Both requests go through the ids of the notes not read.
GetIds(t) ==
  /\ noteStep[t] = "getIds"
  /\ Then(t, IF unreadIds \in {Absent, {}} THEN "updateRows" ELSE "updateItem",
          IF unreadIds = Absent THEN {} ELSE unreadIds)
  /\ UNCHANGED <<noteStores, connected, pushed, calm>>

Flagged(flags, kind) ==
  IF kind = "readAll" THEN [flags EXCEPT !.read = TRUE] ELSE [flags EXCEPT !.archived = TRUE]

\* updateItemByType: an item removed at its ttl makes the request throw.
UpdateItem(t) ==
  /\ noteStep[t] = "updateItem"
  /\ \E n \in noteHolds[t] :
       IF n \in DOMAIN noteItem
         THEN /\ noteItem' = [noteItem EXCEPT ![n] = Flagged(@, noteAsk[t].kind)]
              /\ Then(t, "clearIds", noteHolds[t] \ {n})
              /\ UNCHANGED calm
         ELSE Drop(t) /\ calm' = FALSE /\ UNCHANGED noteItem
  /\ UNCHANGED <<unreadIds, unarchivedIds, noteRow, settingsItem, settingsRow, connected,
                 pushed>>

\* The list is cleared after every item, the first one included.
ClearIds(t) ==
  /\ noteStep[t] = "clearIds"
  /\ IF noteAsk[t].kind = "readAll"
       THEN unreadIds' = {} /\ UNCHANGED unarchivedIds
       ELSE unarchivedIds' = {} /\ UNCHANGED unreadIds
  /\ Then(t, IF noteHolds[t] = {} THEN "updateRows" ELSE "updateItem", noteHolds[t])
  /\ UNCHANGED <<noteItem, noteRow, settingsItem, settingsRow, connected, pushed, calm>>

\* Every row of the account, also the notes no list names.
UpdateRows(t) ==
  /\ noteStep[t] = "updateRows"
  /\ noteRow' = [n \in DOMAIN noteRow |-> Flagged(noteRow[n], noteAsk[t].kind)]
  /\ Drop(t)
  /\ UNCHANGED <<noteItem, unreadIds, unarchivedIds, settingsItem, settingsRow, connected,
                 pushed, calm>>

-----------------------------------------------------------------------------
(* One note, the settings, and the environment                             *)

\* updateAccountNotification: the note is found as the flag says ...
FindNote(t) ==
  /\ noteStep[t] = "findNote"
  /\ IF noteAsk[t].note \in DOMAIN (IF noteBudget.dynamo THEN noteItem ELSE noteRow)
       THEN Then(t, "saveFlags", Absent)
       ELSE Drop(t)
  /\ UNCHANGED <<noteStores, connected, pushed, calm>>

\* ... and its item saved.  An item that its ttl has removed is made without the
\* account: then there is no list to save, and the request throws.
SaveFlags(t) ==
  LET n == noteAsk[t].note
      whole == n \in DOMAIN noteItem
  IN
  /\ noteStep[t] = "saveFlags"
  /\ noteItem' = Upsert(noteItem, n, noteAsk[t].flags)
  /\ IF whole THEN Then(t, "readIds", noteAsk[t].flags) ELSE Drop(t)
  /\ calm' = (calm /\ whole)
  /\ UNCHANGED <<unreadIds, unarchivedIds, noteRow, settingsItem, settingsRow, connected,
                 pushed>>

\* saveAccountNotificationSettings: the list of settings is read ...
GetSettings(t) ==
  /\ noteStep[t] = "getSettings"
  /\ Then(t, "saveSettings", settingsItem)
  /\ UNCHANGED <<noteStores, connected, pushed, calm>>

\* ... its entry for the DAO is replaced or added, and it is written back.
SaveSettings(t) ==
  /\ noteStep[t] = "saveSettings"
  /\ settingsItem' = Upsert(noteHolds[t], noteAsk[t].scope, noteAsk[t].choice)
  /\ Then(t, "saveSettingsRow", Absent)
  /\ UNCHANGED <<noteItem, unreadIds, unarchivedIds, noteRow, settingsRow, connected, pushed,
                 calm>>

SaveSettingsRow(t) ==
  /\ noteStep[t] = "saveSettingsRow"
  /\ settingsRow' = Upsert(settingsRow, noteAsk[t].scope, noteAsk[t].choice)
  /\ Drop(t)
  /\ UNCHANGED <<noteItem, unreadIds, unarchivedIds, noteRow, settingsItem, connected, pushed,
                 calm>>

\* SocketStateService: add and remove.
Connection(s) ==
  /\ noteBudget.connections > 0
  /\ connected' = IF s \in connected THEN connected \ {s} ELSE connected \cup {s}
  /\ noteBudget' = [noteBudget EXCEPT !.connections = @ - 1]
  /\ UNCHANGED <<noteStores, pushed, noteServing, calm>>

\* NOTIFICATION_TTL: DynamoDB removes the item of a note.
Expire(n) ==
  /\ noteBudget.expiries > 0 /\ n \in DOMAIN noteItem
  /\ noteItem' = [m \in DOMAIN noteItem \ {n} |-> noteItem[m]]
  /\ noteBudget' = [noteBudget EXCEPT !.expiries = @ - 1]
  /\ calm' = (calm /\ Served = {})
  /\ UNCHANGED <<unreadIds, unarchivedIds, noteRow, settingsItem, settingsRow, connected,
                 pushed, noteServing>>

\* The process serving an event or a request ends, or a store refuses.
LoseThread(t) ==
  /\ noteBudget.notifierRestarts > 0 /\ noteStep[t] # "idle"
  /\ noteStep' = [noteStep EXCEPT ![t] = "idle"]
  /\ noteAsk' = [noteAsk EXCEPT ![t] = Absent]
  /\ noteHolds' = [noteHolds EXCEPT ![t] = Absent]
  /\ noteBudget' = [noteBudget EXCEPT !.notifierRestarts = @ - 1]
  /\ calm' = FALSE
  /\ UNCHANGED <<noteStores, connected, pushed>>

NotificationNext ==
  \/ \E t \in NoteThreads :
       \/ ReceiveEvent(t) \/ Decide(t) \/ PutNote(t) \/ ReadIds(t) \/ SaveIds(t)
       \/ SaveNote(t) \/ Push(t)
       \/ AskInbox(t) \/ GetIds(t) \/ UpdateItem(t) \/ ClearIds(t) \/ UpdateRows(t)
       \/ FindNote(t) \/ SaveFlags(t) \/ GetSettings(t) \/ SaveSettings(t) \/ SaveSettingsRow(t)
       \/ LoseThread(t)
  \/ \E s \in Sockets : Connection(s)
  \/ \E n \in Notes : Expire(n)

NotificationSpec == NotificationInit /\ [][NotificationNext]_noteVars

-----------------------------------------------------------------------------
(* Properties                                                              *)

UnreadRows == {n \in DOMAIN noteRow : ~noteRow[n].read}

\* Between events and requests that were served one at a time and to their end,
\* the three copies of what is unread and muted agree: the list of unread ids has
\* the notes whose rows are unread, an item that its ttl has not removed has the
\* flags of its row.  Archiving is left out: a note made again, and archiving
\* notes that are read, part the item from the row.  The settings agree too, so
\* that the flag NotificationDynamo may be switched (createMultiple,
\* readAccountNotifications, AccountNotificationSettingsService.create).
InboxAgrees ==
  calm /\ Served = {} =>
    /\ unreadIds = IF DOMAIN noteRow = {} THEN Absent ELSE UnreadRows
    /\ \A n \in DOMAIN noteItem :
         n \in DOMAIN noteRow /\ noteItem[n].read = noteRow[n].read
                              /\ noteItem[n].muted = noteRow[n].muted
    /\ settingsItem = settingsRow
=============================================================================
