-------------------------- MODULE ProposalTemplates --------------------------
(***************************************************************************)
(* Templates of proposals, of one DAO each, and the shared template any    *)
(* DAO may clone, which is named by a hash of the contract and method it   *)
(* calls and keeps the number of DAOs that have it.  Each request of the   *)
(* council writes DynamoDB and then PostgreSQL.  The id of a template is   *)
(* the DAO and the time, taken by each store when it creates it.           *)
(***************************************************************************)
EXTENDS Integers, FiniteSets

CONSTANTS
  Houses,       \* DAOs
  Methods,      \* hashes of contract and method
  Configs,      \* contents of a template
  TemplateThreads,      \* requests being served, one at a time each
  Blank,        \* no row, item or value
  TemplateScenarios     \* bounds: what happens at most in one behaviour

ASSUME TemplateAssumption ==
  /\ Blank \notin Houses \cup Methods \cup Configs \cup TemplateThreads \cup Nat
  /\ Blank \notin [config : Configs \cup {Blank}, archived : BOOLEAN]
  /\ TemplateScenarios \subseteq
       [creations : Nat, clones : Nat, edits : Nat, removals : Nat,
        milliseconds : Nat, apiRestarts : Nat]

VARIABLES
  now,          \* milliseconds
  sharedItems,  \* DynamoDB: the number of DAOs of each shared template
  sharedRows,   \* PostgreSQL
  links,        \* PostgreSQL: which DAOs have which shared template
  templateItems,    \* DynamoDB: the templates by DAO and time
  templateRows,     \* PostgreSQL
  runs,         \* what each request does next
  form,         \* what it asks
  value,        \* what it has read
  rest,         \* what the scenario still allows
  \* history
  soloTemplate, \* the request no other has overlapped so far, or Blank
  countedOnce,  \* shared templates whose links were last changed by one alone
  edited        \* templates last changed or removed by one alone

templateStores == <<sharedItems, sharedRows, links, templateItems, templateRows>>
templateVars == <<now, templateStores, runs, form, value, rest,
                  soloTemplate, countedOnce, edited>>

Times == 0 .. CHOOSE n \in {s.milliseconds : s \in TemplateScenarios} :
                \A s \in TemplateScenarios : s.milliseconds <= n
TemplateIds == Houses \X Times

TemplateInit ==
  /\ now = 0
  /\ sharedItems = [m \in Methods |-> Blank]
  /\ sharedRows = [m \in Methods |-> Blank]
  /\ links = {}
  /\ templateItems = [i \in TemplateIds |-> Blank]
  /\ templateRows = [i \in TemplateIds |-> Blank]
  /\ runs = [t \in TemplateThreads |-> "idle"]
  /\ form = [t \in TemplateThreads |-> Blank]
  /\ value = [t \in TemplateThreads |-> Blank]
  /\ rest \in TemplateScenarios
  /\ soloTemplate = Blank /\ countedOnce = {} /\ edited = {}

\* Two templates of one DAO in one millisecond have one id (buildTemplateId).
TemplateId(h) == <<h, now>>

Tick ==
  /\ now < rest.milliseconds
  /\ now' = now + 1
  /\ UNCHANGED <<templateStores, runs, form, value, rest, soloTemplate, countedOnce, edited>>

-----------------------------------------------------------------------------
(* Requests                                                                *)

Underway == {t \in TemplateThreads : runs[t] # "idle"}

Open(t, step, f) ==
  /\ runs[t] = "idle"
  /\ runs' = [runs EXCEPT ![t] = step]
  /\ form' = [form EXCEPT ![t] = f]
  /\ soloTemplate' = IF Underway = {} THEN t ELSE Blank
  /\ UNCHANGED <<now, templateStores, value, countedOnce>>

OpenCreate(t) ==
  /\ rest.creations > 0
  /\ \E h \in Houses, m \in Methods, c \in Configs :
       Open(t, "sharedItem", [house |-> h, method |-> m, config |-> c, id |-> Blank])
  /\ rest' = [rest EXCEPT !.creations = @ - 1]
  /\ UNCHANGED edited

\* A shared template is cloned by its id, which the API lists.
OpenClone(t) ==
  /\ rest.clones > 0
  /\ \E h \in Houses, m \in {m \in Methods : sharedRows[m] # Blank} :
       Open(t, "clonedItem", [house |-> h, method |-> m, config |-> Blank, id |-> Blank])
  /\ rest' = [rest EXCEPT !.clones = @ - 1]
  /\ UNCHANGED edited

OpenEdit(t) ==
  /\ rest.edits > 0
  /\ \E i \in TemplateIds, c \in Configs :
       /\ templateRows[i] # Blank
       /\ Open(t, "editItem", [house |-> i[1], method |-> Blank, config |-> c, id |-> i])
       /\ edited' = edited \ {i}
  /\ rest' = [rest EXCEPT !.edits = @ - 1]

OpenRemoval(t) ==
  /\ rest.removals > 0
  /\ \E i \in TemplateIds :
       /\ templateRows[i] # Blank
       /\ Open(t, "archiveItem", [house |-> i[1], method |-> Blank, config |-> Blank, id |-> i])
       /\ edited' = edited \ {i}
  /\ rest' = [rest EXCEPT !.removals = @ - 1]

Close(t) ==
  /\ runs' = [runs EXCEPT ![t] = "idle"]
  /\ form' = [form EXCEPT ![t] = Blank]
  /\ value' = [value EXCEPT ![t] = Blank]
  /\ soloTemplate' = Blank

Step(t, from, to, v) ==
  /\ runs[t] = from
  /\ runs' = [runs EXCEPT ![t] = to]
  /\ value' = [value EXCEPT ![t] = v]
  /\ UNCHANGED <<now, form, rest, soloTemplate>>

Last(t, from) == runs[t] = from /\ Close(t) /\ UNCHANGED <<now, rest>>

-----------------------------------------------------------------------------
(* Creating a template: the shared one if there is none, then that of the  *)
(* DAO, in DynamoDB first                                                  *)

FindSharedItem(t) ==
  /\ Step(t, "sharedItem",
          IF sharedItems[form[t].method] = Blank THEN "saveSharedItem" ELSE "createItem", Blank)
  /\ UNCHANGED <<templateStores, countedOnce, edited>>

SaveSharedItem(t) ==
  /\ Step(t, "saveSharedItem", "createItem", Blank)
  /\ sharedItems' = [sharedItems EXCEPT ![form[t].method] = 1]
  /\ UNCHANGED <<sharedRows, links, templateItems, templateRows, countedOnce, edited>>

Template(c) == [config |-> c, archived |-> FALSE]

\* A template of the same id is overwritten, and its item no longer that of an edit.
CreateItem(t) ==
  /\ Step(t, "createItem", "sharedRow", Blank)
  /\ templateItems' = [templateItems EXCEPT ![TemplateId(form[t].house)] = Template(form[t].config)]
  /\ edited' = edited \ {TemplateId(form[t].house)}
  /\ UNCHANGED <<sharedItems, sharedRows, links, templateRows, countedOnce>>

\* A DAO that creates a template that is shared already is not linked to it.
FindSharedRow(t) ==
  /\ Step(t, "sharedRow",
          IF sharedRows[form[t].method] = Blank THEN "saveSharedRow" ELSE "createRow", Blank)
  /\ UNCHANGED <<templateStores, countedOnce, edited>>

SaveSharedRow(t) ==
  /\ Step(t, "saveSharedRow", "link", Blank)
  /\ sharedRows' = [sharedRows EXCEPT ![form[t].method] = 1]
  /\ countedOnce' = countedOnce \ {form[t].method}
  /\ UNCHANGED <<sharedItems, links, templateItems, templateRows, edited>>

Link(t) ==
  /\ Step(t, "link", IF form[t].config = Blank THEN "count" ELSE "createRow", Blank)
  /\ links' = links \cup {<<form[t].method, form[t].house>>}
  /\ countedOnce' = IF form[t].config # Blank /\ soloTemplate = t
                    THEN countedOnce \cup {form[t].method}
                    ELSE countedOnce \ {form[t].method}
  /\ UNCHANGED <<sharedItems, sharedRows, templateItems, templateRows, edited>>

CreateRow(t) ==
  /\ Last(t, "createRow")
  /\ templateRows' = [templateRows EXCEPT ![TemplateId(form[t].house)] = Template(form[t].config)]
  /\ edited' = edited \ {TemplateId(form[t].house)}
  /\ UNCHANGED <<sharedItems, sharedRows, links, templateItems, countedOnce>>

-----------------------------------------------------------------------------
(* Cloning the shared template to a DAO                                    *)

\* The number in DynamoDB goes to the clone, not to the shared item.
ReadSharedItem(t) ==
  /\ Step(t, "clonedItem",
          IF sharedItems[form[t].method] = Blank THEN "link" ELSE "cloneItem", Blank)
  /\ UNCHANGED <<templateStores, countedOnce, edited>>

CloneItem(t) ==
  /\ Step(t, "cloneItem", "link", Blank)
  /\ templateItems' = [templateItems EXCEPT ![TemplateId(form[t].house)] = Template(Blank)]
  /\ edited' = edited \ {TemplateId(form[t].house)}
  /\ UNCHANGED <<sharedItems, sharedRows, links, templateRows, countedOnce>>

LinksOf(m) == {l \in links : l[1] = m}

CountLinks(t) ==
  /\ Step(t, "count", "writeCount", Cardinality(LinksOf(form[t].method)))
  /\ UNCHANGED <<templateStores, countedOnce, edited>>

\* Mutant: the number of DAOs is the number before, and one more.
OneMore(t) == sharedRows[form[t].method] + 1

DaoCount(t) == value[t]

WriteCount(t) ==
  /\ Step(t, "writeCount", "createRow", Blank)
  /\ sharedRows' = [sharedRows EXCEPT ![form[t].method] = DaoCount(t)]
  /\ countedOnce' = IF soloTemplate = t THEN countedOnce \cup {form[t].method}
                                        ELSE countedOnce \ {form[t].method}
  /\ UNCHANGED <<sharedItems, links, templateItems, templateRows, edited>>

-----------------------------------------------------------------------------
(* Changing and removing a template, by the id of its row                  *)

EditItem(t) ==
  /\ Step(t, "editItem", "editRow", Blank)
  /\ templateItems' = [templateItems EXCEPT ![form[t].id] =
        IF @ = Blank THEN Template(form[t].config) ELSE [@ EXCEPT !.config = form[t].config]]
  /\ UNCHANGED <<sharedItems, sharedRows, links, templateRows, countedOnce, edited>>

\* A row that was removed meanwhile is made again.
EditRow(t) ==
  /\ Last(t, "editRow")
  /\ templateRows' = [templateRows EXCEPT ![form[t].id] = Template(form[t].config)]
  /\ edited' = IF soloTemplate = t THEN edited \cup {form[t].id} ELSE edited \ {form[t].id}
  /\ UNCHANGED <<sharedItems, sharedRows, links, templateItems, countedOnce>>

\* The item of that id need not exist: then it holds nothing but the mark.
ArchiveTemplate(t) ==
  /\ Step(t, "archiveItem", "removeRow", Blank)
  /\ templateItems' = [templateItems EXCEPT ![form[t].id] =
        [(IF @ = Blank THEN Template(Blank) ELSE @) EXCEPT !.archived = TRUE]]
  /\ UNCHANGED <<sharedItems, sharedRows, links, templateRows, countedOnce, edited>>

RemoveRow(t) ==
  /\ Last(t, "removeRow")
  /\ templateRows' = [templateRows EXCEPT ![form[t].id] = Blank]
  /\ edited' = IF soloTemplate = t THEN edited \cup {form[t].id} ELSE edited \ {form[t].id}
  /\ UNCHANGED <<sharedItems, sharedRows, links, templateItems, countedOnce>>

TemplatesRestart ==
  /\ rest.apiRestarts > 0 /\ Underway # {}
  /\ rest' = [rest EXCEPT !.apiRestarts = @ - 1]
  /\ runs' = [t \in TemplateThreads |-> "idle"]
  /\ form' = [t \in TemplateThreads |-> Blank]
  /\ value' = [t \in TemplateThreads |-> Blank]
  /\ soloTemplate' = Blank
  /\ edited' = edited \ {form[t].id : t \in Underway}
  /\ UNCHANGED <<now, templateStores, countedOnce>>

TemplateNext ==
  \/ Tick \/ TemplatesRestart
  \/ \E t \in TemplateThreads :
       \/ OpenCreate(t) \/ OpenClone(t) \/ OpenEdit(t) \/ OpenRemoval(t)
       \/ FindSharedItem(t) \/ SaveSharedItem(t) \/ CreateItem(t)
       \/ FindSharedRow(t) \/ SaveSharedRow(t) \/ Link(t) \/ CreateRow(t)
       \/ ReadSharedItem(t) \/ CloneItem(t) \/ CountLinks(t) \/ WriteCount(t)
       \/ EditItem(t) \/ EditRow(t) \/ ArchiveTemplate(t) \/ RemoveRow(t)

TemplateSpec == TemplateInit /\ [][TemplateNext]_templateVars

-----------------------------------------------------------------------------
(* Properties                                                              *)

\* A shared template whose links were last changed by a request no other
\* overlapped shows the exact number of DAOs linked to it, also when two DAOs
\* had created it at once, or a restart had left it without a link; and a
\* template last changed by such a request has one content in both stores, one
\* last removed by it is archived in DynamoDB, although DynamoDB first knew it by
\* another id (the item of a removal cut short stays archived all the same)
\* (SharedProposalTemplateService.cloneToDao, ProposalTemplateController).
TemplatesShown ==
  /\ \A m \in countedOnce : sharedRows[m] = Cardinality(LinksOf(m))
  /\ \A i \in edited :
       LET item == templateItems[i]
       IN  IF templateRows[i] = Blank THEN item.archived
           ELSE item.config = templateRows[i].config
=============================================================================
