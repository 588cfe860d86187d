---------------------------- MODULE DraftComments ----------------------------
(***************************************************************************)
(* Comments on one draft proposal, kept in MongoDB, which is what users    *)
(* read, and in DynamoDB.  A request of apps/draft creates a comment in    *)
(* MongoDB and then in DynamoDB; every other one changes DynamoDB and then *)
(* MongoDB, each store on its own reading and with its own checks, which   *)
(* are not the same.  MongoDB counts the comments and writes the number    *)
(* to the draft; DynamoDB reads the item of the draft, adds or takes one,  *)
(* and writes it back.                                                     *)
(***************************************************************************)
EXTENDS Integers, Sequences, FiniteSets

CONSTANTS
  Drafters,     \* accounts
  Chairs,       \* those of them in the council
  Texts,        \* messages
  DraftThreads, \* requests being served, one at a time each
  Gone,         \* no document, item, comment or value
  DraftCommentScenarios     \* bounds: what happens at most in one behaviour

ListOps == {"like", "removeLike", "dislike", "removeDislike"}
RemarkOps == ListOps \cup {"update", "delete"}

ASSUME DraftCommentAssumption ==
  /\ Chairs \subseteq Drafters /\ Texts # {}
  /\ Gone \notin Drafters \cup Texts \cup DraftThreads \cup Nat
  /\ Gone \notin [author : Drafters, text : Texts, replyTo : Nat \cup {Gone},
                  likes : SUBSET Drafters, dislikes : SUBSET Drafters]
  /\ Gone \notin [author : Drafters, text : Texts, replyTo : Nat \cup {Gone},
                  likes : SUBSET Drafters, dislikes : SUBSET Drafters, archived : BOOLEAN]
  /\ DraftCommentScenarios \subseteq
       [remarks : Nat,              \* comments and replies
        asked : SUBSET RemarkOps, changes : Nat, by : SUBSET Drafters,
        together : BOOLEAN,         \* whether requests overlap
        draftRestarts : Nat]

VARIABLES
  documents,    \* MongoDB: the comments by id
  remarkItems,  \* DynamoDB
  replies,      \* MongoDB: the number kept with the draft
  repliesItem,  \* DynamoDB
  doing,        \* what each request does next
  wants,        \* what it asks
  read,         \* what it has read
  quota,        \* what the scenario still allows
  \* history
  soloDraft,    \* the request no other has overlapped so far, or Gone
  repaired,     \* the last count in MongoDB was made by a request alone
  exactItem,    \* nothing has disturbed the number in DynamoDB
  tangled       \* comments two requests have changed at once, or one halfway

remarkStores == <<documents, remarkItems, replies, repliesItem>>
draftCommentVars == <<remarkStores, doing, wants, read, quota,
                      soloDraft, repaired, exactItem, tangled>>

RemarkIds == DOMAIN documents
Shown == {c \in RemarkIds : documents[c] # Gone}
Live == {c \in RemarkIds : remarkItems[c] # Gone /\ ~remarkItems[c].archived}

DraftCommentInit ==
  /\ documents = <<>> /\ remarkItems = <<>>
  /\ replies = 0 /\ repliesItem = 0
  /\ doing = [t \in DraftThreads |-> "idle"]
  /\ wants = [t \in DraftThreads |-> Gone]
  /\ read = [t \in DraftThreads |-> Gone]
  /\ quota \in DraftCommentScenarios
  /\ soloDraft = Gone /\ repaired = TRUE /\ exactItem = TRUE /\ tangled = {}

-----------------------------------------------------------------------------
(* What a store does with a request, given the comment it has read         *)

Author(c, who) == c.author = who

\* The checks that answer 403 or 400.  MongoDB refuses a dislike of an account
\* that likes the comment, DynamoDB one of an account that dislikes it.
RefusedByMongo(q, c) ==
  CASE q.op = "update"  -> ~Author(c, q.who)
    [] q.op = "delete"  -> ~Author(c, q.who) /\ q.who \notin Chairs
    [] q.op = "like"    -> q.who \in c.dislikes
    [] q.op = "dislike" -> q.who \in c.likes
    [] OTHER            -> FALSE

RefusedByDynamo(q, c) ==
  IF q.op = "dislike" THEN q.who \in c.dislikes ELSE RefusedByMongo(q, c)

\* An account that is, or is not, in the list already changes nothing.
Idempotent(q, c) ==
  \/ q.op = "like" /\ q.who \in c.likes
  \/ q.op = "removeLike" /\ q.who \notin c.likes
  \/ q.op = "dislike" /\ q.who \in c.dislikes
  \/ q.op = "removeDislike" /\ q.who \notin c.dislikes

\* The lists are written as a whole, from the comment that was read.
Rewritten(q, now, c) ==
  CASE q.op = "like"          -> [now EXCEPT !.likes = c.likes \cup {q.who}]
    [] q.op = "removeLike"    -> [now EXCEPT !.likes = c.likes \ {q.who}]
    [] q.op = "dislike"       -> [now EXCEPT !.dislikes = c.dislikes \cup {q.who}]
    [] q.op = "removeDislike" -> [now EXCEPT !.dislikes = c.dislikes \ {q.who}]
    [] q.op = "update"        -> [now EXCEPT !.text = q.text]
    [] q.op = "delete"        -> [now EXCEPT !.archived = TRUE]

-----------------------------------------------------------------------------
(* Requests                                                                *)

FirstText == CHOOSE x \in Texts : TRUE

DraftServed == {t \in DraftThreads : doing[t] # "idle"}

\* The comments a request changes: a deletion removes replies with it.
Concerns(q) ==
  {q.comment} \cup
    (IF q.op = "delete"
     THEN {c \in Shown : documents[c].replyTo = q.comment} ELSE {})

Ask(t, step, q) ==
  /\ doing[t] = "idle"
  /\ DraftServed # {} => quota.together
  /\ doing' = [doing EXCEPT ![t] = step]
  /\ wants' = [wants EXCEPT ![t] = q]
  /\ soloDraft' = IF DraftServed = {} THEN t ELSE Gone
  /\ exactItem' = (exactItem /\ DraftServed = {})
  /\ tangled' = tangled \cup {c \in RemarkIds :
                   c \in Concerns(q) /\ \E o \in DraftServed : c \in Concerns(wants[o])}
  /\ UNCHANGED <<remarkStores, read, repaired>>

AskCreate(t) ==
  /\ quota.remarks > 0
  /\ \E who \in quota.by, parent \in Shown \cup {Gone} :
       Ask(t, "insert", [op |-> "create", who |-> who, comment |-> Gone,
                         replyTo |-> parent, text |-> FirstText])
  /\ quota' = [quota EXCEPT !.remarks = @ - 1]

AskChange(t) ==
  /\ quota.changes > 0
  /\ \E op \in quota.asked, who \in quota.by, c \in RemarkIds, x \in Texts :
       /\ op # "update" => x = FirstText
       /\ Ask(t, "item", [op |-> op, who |-> who, comment |-> c,
                          replyTo |-> Gone, text |-> x])
  /\ quota' = [quota EXCEPT !.changes = @ - 1]

Answer(t) ==
  /\ doing' = [doing EXCEPT ![t] = "idle"]
  /\ wants' = [wants EXCEPT ![t] = Gone]
  /\ read' = [read EXCEPT ![t] = Gone]
  /\ soloDraft' = Gone

Then(t, step, value) ==
  /\ doing' = [doing EXCEPT ![t] = step]
  /\ read' = [read EXCEPT ![t] = value]
  /\ UNCHANGED <<wants, soloDraft>>

\* DynamoDB changed, MongoDB refused: the comment differs from now on.
Halfway(t) == tangled' = tangled \cup {wants[t].comment}

\* createDraftProposalComment and createDraftCommentReply of MongoDB: the comment
\* that is replied to must still be there.
InsertDocument(t) ==
  /\ doing[t] = "insert"
  /\ LET q == wants[t]
         c == Len(documents) + 1
     IN  IF q.replyTo # Gone /\ q.replyTo \notin Shown
         THEN Answer(t) /\ UNCHANGED <<remarkStores, repaired>>
         ELSE /\ documents' = Append(documents, [author |-> q.who, text |-> q.text,
                                 replyTo |-> q.replyTo, likes |-> {}, dislikes |-> {}])
              /\ remarkItems' = Append(remarkItems, Gone)
              /\ wants' = [wants EXCEPT ![t].comment = c]
              /\ doing' = [doing EXCEPT ![t] = "count"]
              /\ repaired' = FALSE
              /\ UNCHANGED <<replies, repliesItem, read, soloDraft>>
  /\ UNCHANGED <<quota, exactItem, tangled>>

CountDocuments(t) ==
  /\ doing[t] = "count"
  /\ Then(t, "writeReplies", Cardinality(Shown))
  /\ UNCHANGED <<remarkStores, quota, repaired, exactItem, tangled>>

\* updateReplies; a creation goes on to DynamoDB, a deletion is done.
WriteReplies(t) ==
  /\ doing[t] = "writeReplies"
  /\ replies' = read[t]
  /\ repaired' = (soloDraft = t)
  /\ IF wants[t].op = "create" THEN Then(t, "insertItem", Gone) ELSE Answer(t)
  /\ UNCHANGED <<documents, remarkItems, repliesItem, quota, exactItem, tangled>>

InsertItem(t) ==
  /\ doing[t] = "insertItem"
  /\ remarkItems' = [remarkItems EXCEPT ![wants[t].comment] =
        [author |-> wants[t].who, text |-> wants[t].text, replyTo |-> wants[t].replyTo,
         likes |-> {}, dislikes |-> {}, archived |-> FALSE]]
  /\ Then(t, "readReplies", Gone)
  /\ UNCHANGED <<documents, replies, repliesItem, quota, repaired, exactItem, tangled>>

\* incrementDraftProposalReplies
ReadReplies(t) ==
  /\ doing[t] = "readReplies"
  /\ Then(t, "saveReplies", repliesItem)
  /\ UNCHANGED <<remarkStores, quota, repaired, exactItem, tangled>>

SaveReplies(t) ==
  /\ doing[t] = "saveReplies"
  /\ repliesItem' = read[t] + (IF wants[t].op = "delete" THEN -1 ELSE 1)
  /\ IF wants[t].op = "create" THEN Answer(t) ELSE Then(t, "document", Gone)
  /\ UNCHANGED <<documents, remarkItems, replies, quota, repaired, exactItem, tangled>>

\* getComment of DynamoDB, and its checks; an archived item is found as well.
ReadRemark(t) ==
  /\ doing[t] = "item"
  /\ LET c == remarkItems[wants[t].comment]
     IN  IF c = Gone THEN Answer(t)
         ELSE IF RefusedByDynamo(wants[t], c) THEN Answer(t)
         ELSE IF Idempotent(wants[t], c) THEN Then(t, "document", Gone)
         ELSE Then(t, "saveItem", c)
  /\ UNCHANGED <<remarkStores, quota, repaired, exactItem, tangled>>

\* Mutant: a deleted comment is not archived.
KeptItem(q, now, c) == IF q.op = "delete" THEN now ELSE Rewritten(q, now, c)

\* updateDraftProposalCommentInDynamo: the fields that change.
ItemWith(q, now, c) == Rewritten(q, now, c)

SaveRemark(t) ==
  /\ doing[t] = "saveItem"
  /\ LET c == wants[t].comment
     IN  /\ remarkItems' = [remarkItems EXCEPT ![c] = ItemWith(wants[t], @, read[t])]
         /\ exactItem' = (exactItem /\ (wants[t].op = "delete" => ~remarkItems[c].archived))
  /\ Then(t, IF wants[t].op = "delete" THEN "readReplies" ELSE "document", Gone)
  /\ UNCHANGED <<documents, replies, repliesItem, quota, repaired, tangled>>

\* The same request to MongoDB.
ReadDocument(t) ==
  /\ doing[t] = "document"
  /\ LET c == documents[wants[t].comment]
         next == IF wants[t].op = "delete" THEN "findReplies" ELSE "saveDocument"
     IN  IF c = Gone THEN Answer(t) /\ UNCHANGED tangled
         ELSE IF RefusedByMongo(wants[t], c) THEN Answer(t) /\ Halfway(t)
         ELSE IF Idempotent(wants[t], c) THEN Answer(t) /\ UNCHANGED tangled
         ELSE Then(t, next, c) /\ UNCHANGED tangled
  /\ UNCHANGED <<remarkStores, quota, repaired, exactItem>>

\* An update saves the whole document, and so brings a removed one back; the
\* other requests change one list of the document that is there.
SaveDocument(t) ==
  /\ doing[t] = "saveDocument"
  /\ LET q == wants[t]
         now == documents[q.comment]
     IN  documents' = [documents EXCEPT ![q.comment] =
           IF q.op = "update" THEN Rewritten(q, read[t], read[t])
           ELSE IF now = Gone THEN Gone ELSE Rewritten(q, now, read[t])]
  /\ repaired' = (repaired /\ (documents[wants[t].comment] = Gone => documents' = documents))
  /\ Answer(t)
  /\ UNCHANGED <<remarkItems, replies, repliesItem, quota, exactItem, tangled>>

FindReplies(t) ==
  /\ doing[t] = "findReplies"
  /\ Then(t, "remove", Concerns(wants[t]))
  /\ UNCHANGED <<remarkStores, quota, repaired, exactItem, tangled>>

\* Remove comment and all the replies
RemoveDocuments(t) ==
  /\ doing[t] = "remove"
  /\ documents' = [c \in RemarkIds |-> IF c \in read[t] THEN Gone ELSE documents[c]]
  /\ repaired' = FALSE
  /\ Then(t, "count", Gone)
  /\ UNCHANGED <<remarkItems, replies, repliesItem, quota, exactItem, tangled>>

\* apps/draft restarts: what it was doing is not resumed.
DraftRestart ==
  /\ quota.draftRestarts > 0 /\ DraftServed # {}
  /\ quota' = [quota EXCEPT !.draftRestarts = @ - 1]
  /\ doing' = [t \in DraftThreads |-> "idle"]
  /\ wants' = [t \in DraftThreads |-> Gone]
  /\ read' = [t \in DraftThreads |-> Gone]
  /\ soloDraft' = Gone /\ exactItem' = FALSE
  /\ tangled' = tangled \cup {c \in RemarkIds : \E t \in DraftServed : c \in Concerns(wants[t])}
  /\ UNCHANGED <<remarkStores, repaired>>

DraftCommentNext ==
  \/ \E t \in DraftThreads :
       \/ AskCreate(t) \/ AskChange(t)
       \/ InsertDocument(t) \/ CountDocuments(t) \/ WriteReplies(t)
       \/ InsertItem(t) \/ ReadReplies(t) \/ SaveReplies(t)
       \/ ReadRemark(t) \/ SaveRemark(t)
       \/ ReadDocument(t) \/ SaveDocument(t) \/ FindReplies(t) \/ RemoveDocuments(t)
  \/ DraftRestart

DraftCommentSpec == DraftCommentInit /\ [][DraftCommentNext]_draftCommentVars

-----------------------------------------------------------------------------
(* Properties                                                              *)

\* A comment the two stores disagree on has been changed by two requests at
\* once, or by one that DynamoDB served and MongoDB refused, or that was cut
\* short: any other comment no request is changing has the same content and the
\* same lists in both, and one MongoDB has lost is archived in DynamoDB, or was
\* removed with the comment it replied to, which DynamoDB does not do (an update
\* under way may have brought that one back)
\* (DraftCommentServiceFacade, delete of both services).
RemarksAgree ==
  \A c \in RemarkIds \ tangled :
    (\A t \in DraftServed : c \notin Concerns(wants[t])) =>
      LET doc == documents[c]
          item == remarkItems[c]
      IN  IF doc = Gone
          THEN item # Gone => \/ item.archived
                              \/ /\ item.replyTo # Gone
                                 /\ documents[item.replyTo] = Gone \/ item.replyTo \in tangled
          ELSE /\ item # Gone /\ ~item.archived
               /\ \A f \in {"author", "text", "replyTo", "likes", "dislikes"} : item[f] = doc[f]

\* The number of replies MongoDB shows is exact whenever the last change was made
\* by a request alone, and the number in DynamoDB, which is never counted again,
\* as long as no two requests have overlapped, none was cut short and no comment
\* was deleted twice (updateReplies, incrementDraftProposalReplies).
RepliesExact ==
  /\ repaired => replies = Cardinality(Shown)
  /\ (exactItem /\ DraftServed = {}) => repliesItem = Cardinality(Live)

\* "Draft comment <id> is liked by <accountId>" is the answer to a dislike of an
\* account that likes the comment (draft-comment.controller.ts, likes and dislikes
\* of one account exclude each other): requests that follow each other leave no
\* account on both lists of an item.
LikesExclude ==
  quota.together \/ \A c \in Live : remarkItems[c].likes \cap remarkItems[c].dislikes = {}
=============================================================================
