------------------------------ MODULE Comments ------------------------------
(***************************************************************************)
(* Comments on proposals and on contexts of bounties, and the reports      *)
(* against them: requests of apps/api, each of which saves a row and then  *)
(* acts on what it finds by a query of its own.  A comment is archived by  *)
(* its author, by the council of the DAO, or by the report that makes the  *)
(* number of reports equal to the threshold.  The number of comments shown *)
(* with a context is counted and written after each change.  Only          *)
(* PostgreSQL holds comments.                                              *)
(***************************************************************************)
EXTENDS Integers, Sequences, FiniteSets

CONSTANTS
  Readers,      \* accounts
  Council,      \* those of them in the council of the DAO
  Contexts,     \* proposals and contexts of bounties
  CommentThreads,       \* requests being served, one at a time each
  Void,
  Threshold,    \* COMMENT_DELETE_VOTES_REQUIRED
  CommentScenarios      \* bounds: what happens at most in one behaviour

ASSUME CommentAssumption ==
  /\ Council \subseteq Readers /\ Threshold \in Nat \ {0}
  /\ Void \notin Readers \cup Contexts \cup CommentThreads \cup Nat
  /\ CommentScenarios \subseteq
       [posts : Nat, deletions : Nat, reports : Nat, apiCrashes : Nat]

VARIABLES
  comments,     \* the rows: author, context and whether it is archived
  reports,      \* the accounts that have reported each comment
  shownCount,   \* the number of comments stored with each context
  at,           \* what each request does next
  asks,         \* the comment, the context and the account it is about
  holds,        \* what it has read
  allowance,    \* what the scenario still allows
  \* history
  soloThread,   \* the request no other has overlapped so far, or Void
  counted,      \* contexts whose last change was made by a request alone
  unjudged      \* comments whose reports overlapped, or were cut short

commentRows == <<comments, reports, shownCount>>
commentVars == <<commentRows, at, asks, holds, allowance, soloThread, counted, unjudged>>

CommentIds == DOMAIN comments

Listing(x) == {c \in CommentIds : comments[c].context = x /\ ~comments[c].archived}

CommentInit ==
  /\ comments = <<>>
  /\ reports = <<>>
  /\ shownCount = [x \in Contexts |-> 0]
  /\ at = [t \in CommentThreads |-> "idle"]
  /\ asks = [t \in CommentThreads |-> Void]
  /\ holds = [t \in CommentThreads |-> Void]
  /\ allowance \in CommentScenarios
  /\ soloThread = Void
  /\ counted = Contexts
  /\ unjudged = {}

-----------------------------------------------------------------------------
(* Requests                                                                *)

ServedNow == {t \in CommentThreads : at[t] # "idle"}

\* A request arrives: it is alone as long as no other is being served.
Begin(t, step, ask) ==
  /\ at[t] = "idle"
  /\ at' = [at EXCEPT ![t] = step]
  /\ asks' = [asks EXCEPT ![t] = ask]
  /\ soloThread' = IF ServedNow = {} THEN t ELSE Void
  /\ UNCHANGED <<commentRows, holds, counted>>

BeginPost(t) ==
  /\ allowance.posts > 0
  /\ \E a \in Readers, x \in Contexts :
       Begin(t, "insert", [account |-> a, context |-> x, comment |-> Void, own |-> FALSE])
  /\ allowance' = [allowance EXCEPT !.posts = @ - 1]
  /\ UNCHANGED unjudged

\* Two requests about one comment are being served at once.
Overlap(c) ==
  unjudged' = IF \E o \in ServedNow : asks[o].comment = c THEN unjudged \cup {c} ELSE unjudged

\* A deletion ends with a report of its own.
BeginDelete(t) ==
  /\ allowance.deletions > 0
  /\ \E a \in Readers, c \in CommentIds :
       /\ Begin(t, "find", [account |-> a, context |-> comments[c].context,
                            comment |-> c, own |-> TRUE])
       /\ Overlap(c)
  /\ allowance' = [allowance EXCEPT !.deletions = @ - 1]

BeginReport(t) ==
  /\ allowance.reports > 0
  /\ \E a \in Readers, c \in CommentIds :
       /\ Begin(t, "report", [account |-> a, context |-> comments[c].context,
                              comment |-> c, own |-> FALSE])
       /\ Overlap(c)
  /\ allowance' = [allowance EXCEPT !.reports = @ - 1]

\* A request is answered, or throws.
End(t) ==
  /\ at' = [at EXCEPT ![t] = "idle"]
  /\ asks' = [asks EXCEPT ![t] = Void]
  /\ holds' = [holds EXCEPT ![t] = Void]
  /\ soloThread' = Void

Go(t, step, value) ==
  /\ at' = [at EXCEPT ![t] = step]
  /\ holds' = [holds EXCEPT ![t] = value]
  /\ UNCHANGED <<asks, soloThread>>

\* createDaoComment: the row is saved.
Insert(t) ==
  /\ at[t] = "insert"
  /\ comments' = Append(comments, [author |-> asks[t].account, context |-> asks[t].context,
                                   archived |-> FALSE])
  /\ reports' = Append(reports, {})
  /\ counted' = counted \ {asks[t].context}
  /\ Go(t, "count", Void)
  /\ UNCHANGED <<shownCount, allowance, unjudged>>

\* updateCommentsCount, in two queries.
Count(t) ==
  /\ at[t] = "count"
  /\ Go(t, "show", Cardinality(Listing(asks[t].context)))
  /\ UNCHANGED <<commentRows, allowance, counted, unjudged>>

\* After a deletion by its owner comes the report.
AfterDelete(t) == IF asks[t].own THEN Go(t, "report", Void) ELSE End(t)

Show(t) ==
  /\ at[t] = "show"
  /\ shownCount' = [shownCount EXCEPT ![asks[t].context] = holds[t]]
  /\ counted' = IF soloThread = t THEN counted \cup {asks[t].context}
                                  ELSE counted \ {asks[t].context}
  /\ AfterDelete(t)
  /\ UNCHANGED <<comments, reports, allowance, unjudged>>

\* deleteAsOwner and deleteById: a comment archived by now is left alone.
Find(t) ==
  /\ at[t] = "find"
  /\ LET c == comments[asks[t].comment]
         permitted == asks[t].account \in {c.author} \cup Council
     IN  IF asks[t].own /\ ~permitted THEN End(t)
         ELSE IF c.archived THEN AfterDelete(t) ELSE Go(t, "archive", c)
  /\ UNCHANGED <<commentRows, allowance, counted, unjudged>>

Archive(t) ==
  /\ at[t] = "archive"
  /\ comments' = [comments EXCEPT ![asks[t].comment] = [holds[t] EXCEPT !.archived = TRUE]]
  /\ counted' = counted \ {asks[t].context}
  /\ Go(t, "count", Void)
  /\ UNCHANGED <<reports, shownCount, allowance, unjudged>>

\* The id of a report is that of the comment and of the account: one each.
Report(t) ==
  /\ at[t] = "report"
  /\ reports' = [reports EXCEPT ![asks[t].comment] = @ \cup {asks[t].account}]
  /\ asks' = [asks EXCEPT ![t].own = FALSE]
  /\ at' = [at EXCEPT ![t] = "judge"]
  /\ holds' = [holds EXCEPT ![t] = Void]
  /\ UNCHANGED <<comments, shownCount, allowance, soloThread, counted, unjudged>>

\* Mutant: more reports than the threshold are waited for.
LateReached(rs) == Cardinality(rs) = Threshold + 1

Reached(rs) == Cardinality(rs) = Threshold

Judge(t) ==
  /\ at[t] = "judge"
  /\ IF Reached(reports[asks[t].comment]) THEN Go(t, "find", Void) ELSE End(t)
  /\ UNCHANGED <<commentRows, allowance, counted, unjudged>>

\* The API restarts: what it was doing is not resumed.
ApiRestart ==
  /\ allowance.apiCrashes > 0 /\ ServedNow # {}
  /\ at' = [t \in CommentThreads |-> "idle"]
  /\ asks' = [t \in CommentThreads |-> Void]
  /\ holds' = [t \in CommentThreads |-> Void]
  /\ soloThread' = Void
  /\ unjudged' = (unjudged \cup {asks[t].comment : t \in ServedNow}) \ {Void}
  /\ allowance' = [allowance EXCEPT !.apiCrashes = @ - 1]
  /\ UNCHANGED <<commentRows, counted>>

CommentNext ==
  \/ \E t \in CommentThreads :
       \/ BeginPost(t) \/ BeginDelete(t) \/ BeginReport(t)
       \/ Insert(t) \/ Count(t) \/ Show(t)
       \/ Find(t) \/ Archive(t) \/ Report(t) \/ Judge(t)
  \/ ApiRestart

CommentSpec == CommentInit /\ [][CommentNext]_commentVars

-----------------------------------------------------------------------------
(* Properties                                                              *)

\* A context whose comments were last changed by a request no other overlapped
\* shows their exact number, whatever count two requests that raced, or a
\* restart between a change and its count, had left before; and a comment with
\* as many reports as are required is archived, unless two requests about it
\* overlapped, when each may find more reports than the threshold and none of
\* them, nor any later one, deletes it (CommentService.updateCommentsCount,
\* CommentReportService.create).
CommentsJudged ==
  /\ \A x \in counted : shownCount[x] = Cardinality(Listing(x))
  /\ \A c \in CommentIds \ unjudged :
       (\A t \in ServedNow : asks[t].comment # c)
         => (Cardinality(reports[c]) >= Threshold => comments[c].archived)
=============================================================================
