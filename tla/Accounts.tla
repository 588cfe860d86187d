------------------------------ MODULE Accounts ------------------------------
(***************************************************************************)
(* The addresses an account is notified at, and the codes that verify      *)
(* them: requests of apps/api (libs/account, libs/otp) beside the timer    *)
(* that removes old codes.  An account and a code are each stored as a     *)
(* DynamoDB item and then as a PostgreSQL row; Notifi, an external         *)
(* service, holds the alert of the account and delivers to the addresses   *)
(* of the alert, not to the address the code was made for.                 *)
(* One account is modelled: accounts share only the codes, kept by address.*)
(***************************************************************************)
EXTENDS Integers, FiniteSets, StoreWrites

CONSTANTS
  Emails, Phones,   \* addresses
  AccountThreads,   \* requests being served, one at a time each
  Null,
  ResendAfter,      \* 60 seconds: no second code before
  CodeLife,         \* OTP_TTL, 900 seconds: older codes are not accepted
  AccountScenarios  \* bounds: what happens at most in one behaviour

ASSUME AccountAssumption ==
  /\ Emails \cap Phones = {}
  /\ Null \notin AccountThreads /\ Null \notin Nat
  /\ Null \notin [to : Emails \cup Phones, verified : BOOLEAN]
  /\ ResendAfter \in Nat /\ CodeLife \in Nat /\ ResendAfter < CodeLife
  /\ AccountScenarios \subseteq
       [settings : Nat, sends : Nat, entries : Nat, ticks : Nat, purges : Nat,
        failures : Nat, together : BOOLEAN, dynamo : BOOLEAN]

VARIABLES
  accountItem,  \* DynamoDB: the attributes the item has; no attribute yet at first
  accountRow,   \* PostgreSQL: a value or Null for every column
  codeItem,     \* DynamoDB: the code kept for each address, or Null
  codeRow,      \* PostgreSQL: the same
  alerts,       \* Notifi: the addresses of each alert it holds
  lastAlert,    \* Notifi: the number of the last alert
  hasUser,      \* Notifi: whether the user was created
  clock,
  step,         \* what each request does next
  request,      \* what it was asked
  found,        \* what it has read
  saving,       \* the fields it saves, and the step after it
  purgeStep,    \* the timer: "idle", "items" or "rows"
  purging,      \* the items it found
  budget,       \* what the scenario still allows
  \* history
  codes,        \* every code made: its address and the addresses it was delivered to
  entered,      \* the codes the account entered
  alone,        \* the request no other has overlapped so far, or Null
  agreed,       \* nothing was left half done since an address was last set by a request alone
  disturbed     \* requests have overlapped, or one was cut short

stores == <<accountItem, accountRow, codeItem, codeRow>>
notifi == <<alerts, lastAlert, hasUser>>
serving == <<step, request, found, saving>>
timer == <<purgeStep, purging>>
ghosts == <<codes, entered, alone, agreed, disturbed>>
accountVars == <<stores, notifi, clock, serving, timer, budget, ghosts>>

Channels == {"email", "phone"}
AddressesOf(c) == IF c = "email" THEN Emails ELSE Phones
Fields == Channels \cup {"user", "alert"}

\* An account without a row reads like a row of nulls.
AccountInit ==
  /\ accountItem = <<>>
  /\ accountRow = [f \in Fields |-> Null]
  /\ codeItem = [a \in Emails \cup Phones |-> Null]
  /\ codeRow = codeItem
  /\ alerts = <<>> /\ lastAlert = 0 /\ hasUser = FALSE
  /\ clock = 0
  /\ step = [t \in AccountThreads |-> "idle"]
  /\ request = [t \in AccountThreads |-> Null]
  /\ found = [t \in AccountThreads |-> Null]
  /\ saving = [t \in AccountThreads |-> Null]
  /\ purgeStep = "idle" /\ purging = {}
  /\ budget \in AccountScenarios
  /\ codes = <<>> /\ entered = {}
  /\ alone = Null /\ agreed = TRUE /\ disturbed = FALSE

-----------------------------------------------------------------------------
(* Requests                                                                *)

Busy == {t \in AccountThreads : step[t] # "idle"}

Accept(t, first, r) ==
  /\ step[t] = "idle"
  /\ Busy # {} => budget.together
  /\ step' = [step EXCEPT ![t] = first]
  /\ request' = [request EXCEPT ![t] = r]
  /\ disturbed' = (disturbed \/ Busy # {})
  /\ agreed' = (agreed /\ Busy = {})
  /\ alone' = IF Busy = {} THEN t ELSE Null
  /\ UNCHANGED <<stores, notifi, clock, found, timer, codes>>

\* A request saves fields of the account, by the item first, and goes on at next.
Saving(t, fields, next) ==
  saving' = [saving EXCEPT ![t] = [fields |-> fields, next |-> next]]

\* Mutant: the flag of the address before is kept.
KeptFlag(a) == [to |-> a, verified |-> TRUE]

\* A new address is not verified.
NewAddress(a) == [to |-> a, verified |-> FALSE]

\* createAccountEmail, createAccountPhone
AskSetting(t) ==
  /\ budget.settings > 0
  /\ \E c \in Channels : \E a \in AddressesOf(c) :
       /\ Accept(t, "saveItem", [kind |-> "set", channel |-> c, address |-> a])
       /\ Saving(t, [f \in {c} |-> NewAddress(a)], "readRow")
  /\ budget' = [budget EXCEPT !.settings = @ - 1]
  /\ UNCHANGED entered

\* sendEmailVerification, sendPhoneVerification
AskCode(t) ==
  /\ budget.sends > 0
  /\ \E c \in Channels : Accept(t, "find", [kind |-> "send", channel |-> c])
  /\ budget' = [budget EXCEPT !.sends = @ - 1]
  /\ UNCHANGED <<saving, entered>>

\* verifyEmail, verifyPhone: with a code that was delivered somewhere.
EnterCode(t) ==
  /\ budget.entries > 0
  /\ \E c \in Channels, k \in {k \in DOMAIN codes : codes[k].delivered # {}} :
       /\ Accept(t, "find", [kind |-> "verify", channel |-> c, code |-> k])
       /\ entered' = entered \cup {k}
  /\ budget' = [budget EXCEPT !.entries = @ - 1]
  /\ UNCHANGED saving

GoOn(t, next) ==
  /\ step' = [step EXCEPT ![t] = next]
  /\ UNCHANGED <<request, alone, agreed>>

\* A request is answered, or throws: nothing is left of it.
Finish(t) ==
  /\ step' = [step EXCEPT ![t] = "idle"]
  /\ request' = [request EXCEPT ![t] = Null]
  /\ found' = [found EXCEPT ![t] = Null]
  /\ saving' = [saving EXCEPT ![t] = Null]

\* Mutant: an item that exists keeps its attributes.
FirstItem(t) == Over(saving[t].fields, accountItem)

\* saveItem: the attributes given are put, or set on the item that exists.
ItemAfter(t) == Over(accountItem, saving[t].fields)

\* create: the fields given are written, one store after the other.
SaveItem(t) ==
  /\ step[t] = "saveItem"
  /\ accountItem' = ItemAfter(t)
  /\ GoOn(t, "saveRow")
  /\ UNCHANGED <<accountRow, codeItem, codeRow, notifi, clock, found, saving, timer,
                 budget, codes, entered, disturbed>>

SaveRow(t) ==
  /\ step[t] = "saveRow"
  /\ accountRow' = Over(accountRow, saving[t].fields)
  /\ IF saving[t].next = "end"
       THEN /\ Finish(t)
            /\ agreed' = (agreed \/ (request[t].kind = "set" /\ alone = t))
            /\ UNCHANGED alone
       ELSE GoOn(t, saving[t].next) /\ UNCHANGED <<found, saving>>
  /\ UNCHANGED <<accountItem, codeItem, codeRow, notifi, clock, timer, budget, codes,
                 entered, disturbed>>

-----------------------------------------------------------------------------
(* createNotifiAlert: the alert of the account is made again               *)

\* findOne: the row decides what Notifi is told, whatever the flag.
ReadRow(t) ==
  /\ step[t] = "readRow"
  /\ found' = [found EXCEPT ![t] = accountRow]
  /\ GoOn(t, IF accountRow["user"] = Null THEN "createUser"
             ELSE IF accountRow["alert"] \in {Null, 0} THEN "createAlert" ELSE "deleteAlert")
  /\ UNCHANGED <<stores, notifi, clock, saving, timer, budget, codes, entered, disturbed>>

\* The account read is saved whole, with what Notifi answered.
SaveWhole(t, account, next) ==
  /\ found' = [found EXCEPT ![t] = account]
  /\ Saving(t, account, next)
  /\ GoOn(t, "saveItem")

CreateUser(t) ==
  /\ step[t] = "createUser"
  /\ hasUser' = TRUE
  /\ SaveWhole(t, Upsert(found[t], "user", TRUE),
               IF found[t]["alert"] \in {Null, 0} THEN "createAlert" ELSE "deleteAlert")
  /\ UNCHANGED <<stores, alerts, lastAlert, clock, timer, budget, codes, entered, disturbed>>

\* The empty id is written 0.  An alert that is gone makes Notifi refuse.
DeleteAlert(t) ==
  /\ step[t] = "deleteAlert"
  /\ found[t]["alert"] \in DOMAIN alerts
  /\ alerts' = [n \in DOMAIN alerts \ {found[t]["alert"]} |-> alerts[n]]
  /\ SaveWhole(t, Upsert(found[t], "alert", 0), "createAlert")
  /\ UNCHANGED <<stores, lastAlert, hasUser, clock, timer, budget, codes, entered, disturbed>>

\* The alert has the addresses of the account as it was read, verified or not.
CreateAlert(t) ==
  LET targets == {found[t][c].to : c \in {c \in Channels : found[t][c] # Null}} IN
  /\ step[t] = "createAlert"
  /\ lastAlert' = lastAlert + 1
  /\ alerts' = Upsert(alerts, lastAlert', targets)
  /\ SaveWhole(t, Upsert(found[t], "alert", lastAlert'), "end")
  /\ UNCHANGED <<stores, hasUser, clock, timer, budget, codes, entered, disturbed>>

-----------------------------------------------------------------------------
(* Codes                                                                   *)

\* findById: the flag NotificationDynamo chooses the store.
Account == IF budget.dynamo THEN accountItem ELSE accountRow

AddressIn(account, c) ==
  IF c \in DOMAIN account /\ account[c] # Null THEN account[c] ELSE Null

\* getOtp: the code kept for an address, unless it is too old.
CodeFor(a) ==
  LET kept == IF budget.dynamo THEN codeItem[a] ELSE codeRow[a]
  IN  IF kept # Null /\ kept.at > clock - CodeLife THEN kept ELSE Null

\* The account is found and the code kept for its address; a request that
\* cannot be served throws.
FindAccount(t) ==
  LET c == request[t].channel
      address == AddressIn(Account, c)
      code == CodeFor(address.to)
      accepted ==
        /\ address # Null
        /\ request[t].kind = "send" =>
             ~address.verified /\ (code # Null => clock - code.at >= ResendAfter)
        /\ request[t].kind = "verify" => code # Null /\ code.code = request[t].code
  IN
  /\ step[t] = "find"
  /\ \/ ~accepted /\ Finish(t) /\ UNCHANGED <<alone, agreed>>
     \/ accepted /\ request[t].kind = "send"
        /\ found' = [found EXCEPT ![t] = [account |-> Account, old |-> code]]
        /\ GoOn(t, "keepItem") /\ UNCHANGED saving
     \/ accepted /\ request[t].kind = "verify"
        /\ SaveWhole(t, Upsert(Account, c, [address EXCEPT !.verified = TRUE]), "end")
  /\ UNCHANGED <<stores, notifi, clock, timer, budget, codes, entered, disturbed>>

\* createOtp: a new code takes the place of the one before, in both stores.
KeepItem(t) ==
  LET a == found[t].account[request[t].channel].to
      k == Cardinality(DOMAIN codes) + 1
  IN
  /\ step[t] = "keepItem"
  /\ codes' = Upsert(codes, k, [address |-> a, delivered |-> {}])
  /\ codeItem' = [codeItem EXCEPT ![a] = [code |-> k, at |-> clock]]
  /\ found' = [found EXCEPT ![t] = [address |-> a, code |-> codeItem'[a], old |-> @.old]]
  /\ GoOn(t, "keepRow")
  /\ UNCHANGED <<accountItem, accountRow, codeRow, notifi, clock, saving, timer, budget,
                 entered, disturbed>>

KeepRow(t) ==
  /\ step[t] = "keepRow"
  /\ codeRow' = [codeRow EXCEPT ![found[t].address] = found[t].code]
  /\ GoOn(t, "deliver")
  /\ UNCHANGED <<accountItem, accountRow, codeItem, notifi, clock, found, saving, timer,
                 budget, codes, entered, disturbed>>

\* Notifi delivers to the addresses of the alerts of the user.
Targets(c) == AddressesOf(c) \cap UNION {alerts[n] : n \in DOMAIN alerts}

\* The message to a phone is keyed by the hash of the old code: without an old
\* code the request throws here, its new code kept and not delivered.
Deliver(t) ==
  LET c == request[t].channel IN
  /\ step[t] = "deliver"
  /\ codes' = IF c = "phone" /\ found[t].old = Null THEN codes
              ELSE [codes EXCEPT ![found[t].code.code].delivered = Targets(c)]
  /\ Finish(t)
  /\ UNCHANGED <<stores, notifi, clock, timer, budget, entered, alone, agreed, disturbed>>

-----------------------------------------------------------------------------
(* The timer of libs/otp, and the environment                              *)

Expired(kept) == kept # Null /\ kept.at < clock - CodeLife

\* deleteExpired: the expired items are found, deleted by their keys, and then
\* the expired rows are deleted.
FindExpired ==
  /\ purgeStep = "idle" /\ budget.purges > 0
  /\ purging' = {a \in Emails \cup Phones : Expired(codeItem[a])}
  /\ purgeStep' = "items"
  /\ budget' = [budget EXCEPT !.purges = @ - 1]
  /\ UNCHANGED <<stores, notifi, clock, serving, ghosts>>

DeleteItems ==
  /\ purgeStep = "items"
  /\ codeItem' = [a \in Emails \cup Phones |-> IF a \in purging THEN Null ELSE codeItem[a]]
  /\ purgeStep' = "rows" /\ purging' = {}
  /\ UNCHANGED <<accountItem, accountRow, codeRow, notifi, clock, serving, budget, ghosts>>

DeleteRows ==
  /\ purgeStep = "rows"
  /\ codeRow' = [a \in Emails \cup Phones |-> IF Expired(codeRow[a]) THEN Null ELSE codeRow[a]]
  /\ purgeStep' = "idle"
  /\ UNCHANGED <<accountItem, accountRow, codeItem, notifi, clock, serving, purging, budget,
                 ghosts>>

AccountTick ==
  /\ budget.ticks > 0
  /\ clock' = clock + 1
  /\ budget' = [budget EXCEPT !.ticks = @ - 1]
  /\ UNCHANGED <<stores, notifi, serving, timer, ghosts>>

\* Notifi fails, or the process of the request ends: after what was done so far.
CutShort(t) ==
  /\ budget.failures > 0 /\ step[t] # "idle"
  /\ Finish(t)
  /\ budget' = [budget EXCEPT !.failures = @ - 1]
  /\ disturbed' = TRUE
  /\ agreed' = (agreed /\ step[t] # "saveRow")
  /\ UNCHANGED <<stores, notifi, clock, timer, codes, entered, alone>>

\* An alert that Notifi no longer holds ends the request.
AlertGone(t) ==
  /\ step[t] = "deleteAlert" /\ found[t]["alert"] \notin DOMAIN alerts
  /\ Finish(t)
  /\ UNCHANGED <<stores, notifi, clock, timer, budget, ghosts>>

AccountNext ==
  \/ \E t \in AccountThreads :
       \/ AskSetting(t) \/ AskCode(t) \/ EnterCode(t)
       \/ SaveItem(t) \/ SaveRow(t)
       \/ ReadRow(t) \/ CreateUser(t) \/ DeleteAlert(t) \/ AlertGone(t) \/ CreateAlert(t)
       \/ FindAccount(t) \/ KeepItem(t) \/ KeepRow(t) \/ Deliver(t)
       \/ CutShort(t)
  \/ FindExpired \/ DeleteItems \/ DeleteRows
  \/ AccountTick

AccountSpec == AccountInit /\ [][AccountNext]_accountVars

-----------------------------------------------------------------------------
(* Properties                                                              *)

VerifiedIn(account) ==
  {a \in Emails \cup Phones :
     \E c \in Channels \cap DOMAIN account :
       account[c] # Null /\ account[c].verified /\ account[c].to = a}

\* An address is shown as verified, in either store, only after the account
\* entered a code that was delivered to that address and to no other, as long
\* as no request on the account overlapped another or was cut short.  The flag
\* travels with the address through six partial and whole writes, and the alert
\* that decides where a code goes is replaced in steps of its own
\* (verifyEmail, createNotifiAlert).
AddressConfirmed ==
  ~disturbed =>
    \A a \in VerifiedIn(accountItem) \cup VerifiedIn(accountRow) :
      \E k \in entered : codes[k].address = a /\ codes[k].delivered = {a}

\* Between requests, the item and the row hold the same addresses, flags, user
\* and alert, unless requests overlapped or one ended between the two writes,
\* and again after an address is set by a request of its own: a field the item
\* lacks is null in the row (AccountService.create, createNotifiAlert).
AccountsAgree ==
  agreed /\ Busy = {} =>
    \A f \in Fields :
      accountRow[f] = IF f \in DOMAIN accountItem THEN accountItem[f] ELSE Null
=============================================================================
