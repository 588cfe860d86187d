-------------------------- MODULE Discussion_proofs --------------------------
(***************************************************************************)
(* Proofs about Comments, DraftComments and ProposalTemplates, for every   *)
(* set of accounts, contexts, DAOs and requests, and every bound.          *)
(***************************************************************************)
EXTENDS Comments, DraftComments, ProposalTemplates, SequenceTheorems, FiniteSetTheorems, TLAPS

(***************************************************************************)
(* Comments                                                                *)
(***************************************************************************)
CommentRows == [author : Readers, context : Contexts, archived : BOOLEAN]

Asks == [account : Readers, context : Contexts, comment : Nat \cup {Void}, own : BOOLEAN]

CommentSteps ==
  {"idle", "insert", "count", "show", "find", "archive", "report", "judge"}

CommentRowsType ==
  /\ comments \in Seq(CommentRows)
  /\ reports \in Seq(SUBSET Readers) /\ Len(reports) = Len(comments)
  /\ \A c \in CommentIds : IsFiniteSet(reports[c])
  /\ shownCount \in [Contexts -> Nat]

CommentThreadsType ==
  /\ at \in [CommentThreads -> CommentSteps]
  /\ asks \in [CommentThreads -> Asks \cup {Void}]
  /\ holds = [t \in CommentThreads |-> holds[t]]
  /\ soloThread \in CommentThreads \cup {Void}
  /\ counted \subseteq Contexts
  /\ unjudged \subseteq Nat
  /\ allowance \in [posts : Nat, deletions : Nat, reports : Nat, apiCrashes : Nat]

CommentsType == CommentRowsType /\ CommentThreadsType

\* What request t asks and has read.  The author and the context of a comment
\* never change, so that what is written back is the comment of now.
RequestInv(t) ==
  /\ at[t] # "idle" => asks[t] \in Asks
  /\ at[t] = "insert" => asks[t].comment = Void
  /\ at[t] \in {"insert", "judge"} => ~asks[t].own
  /\ at[t] \in {"find", "archive", "report", "judge"} => asks[t].comment # Void
  /\ at[t] \in {"count", "show"} =>
       IF asks[t].comment = Void THEN ~asks[t].own
       ELSE asks[t].comment \in CommentIds /\ comments[asks[t].comment].archived
  /\ at[t] # "idle" /\ asks[t].comment # Void =>
       /\ asks[t].comment \in CommentIds
       /\ asks[t].context = comments[asks[t].comment].context
  /\ at[t] = "show" => holds[t] \in Nat
  /\ at[t] = "archive" =>
       /\ holds[t] \in CommentRows
       /\ holds[t].context = comments[asks[t].comment].context

\* The counts: a request no other has overlapped has counted what there is.
CountInv ==
  /\ soloThread # Void => ServedNow = {soloThread}
  /\ \A t \in CommentThreads :
       soloThread = t /\ at[t] = "show" => holds[t] = Cardinality(Listing(asks[t].context))
  /\ \A x \in counted : shownCount[x] = Cardinality(Listing(x))

About(t, c) == at[t] # "idle" /\ asks[t].comment = c

Judged(c) == Cardinality(reports[c]) >= Threshold => comments[c].archived

\* A comment no two requests have been about at once: either no request is about
\* it and it is archived if it has to be, or one is, and goes on to archive it.
JudgeInv(c) ==
  /\ \A t, o \in CommentThreads : About(t, c) /\ About(o, c) => t = o
  /\ (\A t \in CommentThreads : ~About(t, c)) => Judged(c)
  /\ \A t \in CommentThreads : About(t, c) =>
       /\ at[t] = "find" /\ asks[t].own => Judged(c)
       /\ at[t] = "report" => Judged(c)
       /\ at[t] = "judge" /\ Cardinality(reports[c]) > Threshold => comments[c].archived

CommentInv ==
  /\ CommentsType
  /\ \A t \in CommentThreads : RequestInv(t)
  /\ CountInv
  /\ \A c \in CommentIds \ unjudged : JudgeInv(c)

-----------------------------------------------------------------------------
LEMMA CommentFacts ==
  ASSUME CommentRowsType
  PROVE  /\ Len(comments) \in Nat /\ CommentIds = 1 .. Len(comments)
         /\ \A c \in CommentIds : /\ comments[c] \in CommentRows
                                  /\ reports[c] \in SUBSET Readers /\ IsFiniteSet(reports[c])
                                  /\ Cardinality(reports[c]) \in Nat
<1>1. Len(comments) \in Nat /\ CommentIds = 1 .. Len(comments)
  BY LenProperties DEF CommentRowsType, CommentIds
<1>2. \A c \in CommentIds : comments[c] \in CommentRows /\ reports[c] \in SUBSET Readers
  BY <1>1, ElementOfSeq DEF CommentRowsType
<1>3. \A c \in CommentIds : IsFiniteSet(reports[c]) /\ Cardinality(reports[c]) \in Nat
  BY FS_CardinalityType DEF CommentRowsType
<1> QED
  BY <1>1, <1>2, <1>3

LEMMA ListingCounted ==
  ASSUME CommentRowsType, NEW x
  PROVE  Cardinality(Listing(x)) \in Nat
<1>1. IsFiniteSet(CommentIds)
  BY CommentFacts, FS_Interval
<1>2. Listing(x) \in SUBSET CommentIds
  BY DEF Listing
<1> QED
  BY <1>1, <1>2, FS_Subset, FS_CardinalityType

\* The requests.
Requested(t) ==
  \/ BeginPost(t) \/ BeginDelete(t) \/ BeginReport(t)
  \/ Insert(t) \/ Count(t) \/ Show(t)
  \/ Find(t) \/ Archive(t) \/ Report(t) \/ Judge(t)

\* What a request is about and has read stays while another one steps.
Waits(o) == at'[o] = at[o] /\ asks'[o] = asks[o] /\ holds'[o] = holds[o]

LEMMA BeginEffect ==
  ASSUME CommentThreadsType, NEW t \in CommentThreads, NEW step, NEW ask, Begin(t, step, ask)
  PROVE  /\ at[t] = "idle" /\ at'[t] = step /\ asks'[t] = ask
         /\ \A o \in CommentThreads \ {t} : Waits(o)
BY DEF CommentThreadsType, Begin, Waits

LEMMA EndEffect ==
  ASSUME CommentThreadsType, NEW t \in CommentThreads, End(t)
  PROVE  /\ at'[t] = "idle" /\ soloThread' = Void
         /\ \A o \in CommentThreads \ {t} : Waits(o)
BY DEF CommentThreadsType, End, Waits

LEMMA GoEffect ==
  ASSUME CommentThreadsType, NEW t \in CommentThreads, NEW step, NEW val, Go(t, step, val)
  PROVE  /\ at'[t] = step /\ asks'[t] = asks[t] /\ holds'[t] = val /\ soloThread' = soloThread
         /\ \A o \in CommentThreads \ {t} : Waits(o)
BY DEF CommentThreadsType, Go, Waits

LEMMA OthersWait ==
  ASSUME CommentThreadsType, NEW t \in CommentThreads, Requested(t)
  PROVE  \A o \in CommentThreads \ {t} : Waits(o)
<1>1. CASE BeginPost(t) \/ BeginDelete(t) \/ BeginReport(t)
  <2>1. PICK step, ask : Begin(t, step, ask)
    BY <1>1 DEF BeginPost, BeginDelete, BeginReport
  <2> QED
    BY <2>1, BeginEffect
<1>2. CASE End(t)
  BY <1>2, EndEffect
<1>3. CASE Report(t)
  BY <1>3 DEF CommentThreadsType, Report, Waits
<1>4. CASE \E step, val : Go(t, step, val)
  BY <1>4, GoEffect
<1> QED
  BY <1>1, <1>2, <1>3, <1>4 DEF Requested, Insert, Count, Show, AfterDelete, Find, Archive, Judge

-----------------------------------------------------------------------------
(* The rows                                                                *)

\* A comment stays, with its context, and stays archived.
Kept ==
  \A c \in CommentIds : /\ c \in CommentIds'
                        /\ comments'[c].context = comments[c].context
                        /\ comments[c].archived => comments'[c].archived

LEMMA KeptRows ==
  ASSUME CommentRowsType, UNCHANGED <<comments, reports>>, shownCount' \in [Contexts -> Nat]
  PROVE  CommentRowsType' /\ Kept
BY DEF CommentRowsType, CommentIds, Kept

LEMMA InsertEffect ==
  ASSUME CommentRowsType, NEW t \in CommentThreads, RequestInv(t), Insert(t)
  PROVE  /\ CommentRowsType' /\ Kept
         /\ CommentIds' = CommentIds \cup {Len(comments) + 1} /\ Len(comments) + 1 \notin CommentIds
         /\ comments'[Len(comments) + 1] =
              [author |-> asks[t].account, context |-> asks[t].context, archived |-> FALSE]
         /\ reports'[Len(comments) + 1] = {}
         /\ \A c \in CommentIds : comments'[c] = comments[c] /\ reports'[c] = reports[c]
<1> DEFINE new == [author |-> asks[t].account, context |-> asks[t].context, archived |-> FALSE]
           n == Len(comments) + 1
<1>1. new \in CommentRows /\ comments' = Append(comments, new) /\ reports' = Append(reports, {})
  BY DEF RequestInv, Insert, Asks, CommentRows
<1> HIDE DEF new
<1>2. /\ comments \in Seq(CommentRows) /\ reports \in Seq(SUBSET Readers)
      /\ Len(reports) = Len(comments) /\ Len(comments) \in Nat
  BY CommentFacts DEF CommentRowsType
<1>3. /\ comments' \in Seq(CommentRows) /\ Len(comments') = n
      /\ \A c \in 1 .. Len(comments) : comments'[c] = comments[c]
      /\ comments'[n] = new
  BY <1>1, <1>2
<1>4. /\ reports' \in Seq(SUBSET Readers) /\ Len(reports') = n
      /\ \A c \in 1 .. Len(comments) : reports'[c] = reports[c]
      /\ reports'[n] = {}
  BY <1>1, <1>2
<1>5. CommentIds = 1 .. Len(comments) /\ CommentIds' = 1 .. n
  BY <1>2, <1>3, LenProperties DEF CommentIds
<1>6. CommentIds' = CommentIds \cup {n} /\ n \notin CommentIds
  BY <1>2, <1>5
<1>7. \A c \in CommentIds' : IsFiniteSet(reports'[c])
  BY <1>4, <1>5, <1>6, FS_EmptySet DEF CommentRowsType
<1>8. CommentRowsType'
  BY <1>3, <1>4, <1>7 DEF CommentRowsType, Insert
<1> QED
  BY <1>3, <1>4, <1>5, <1>6, <1>8 DEF Kept, new

LEMMA ArchiveEffect ==
  ASSUME CommentRowsType, NEW t \in CommentThreads, RequestInv(t), Archive(t)
  PROVE  /\ CommentRowsType' /\ Kept
         /\ CommentIds' = CommentIds
         /\ comments'[asks[t].comment].archived
         /\ \A c \in CommentIds \ {asks[t].comment} : comments'[c] = comments[c]
<1> DEFINE c == asks[t].comment
           new == [holds[t] EXCEPT !.archived = TRUE]
<1>1. c \in CommentIds /\ holds[t] \in CommentRows /\ holds[t].context = comments[c].context
  BY DEF RequestInv, Archive
<1>2. new \in CommentRows /\ new.archived /\ new.context = comments[c].context
  BY <1>1 DEF CommentRows
<1>3. comments' = [comments EXCEPT ![c] = new] /\ reports' = reports /\ shownCount' = shownCount
  BY DEF Archive
<1> HIDE DEF new, c
<1>4. /\ comments' \in Seq(CommentRows) /\ Len(comments') = Len(comments)
      /\ \A d \in CommentIds : comments'[d] = IF d = c THEN new ELSE comments[d]
  BY <1>1, <1>2, <1>3, CommentFacts, ExceptSeq DEF CommentRowsType
<1>5. CommentIds' = CommentIds
  BY <1>3 DEF CommentIds
<1>6. CommentRowsType'
  BY <1>3, <1>4, <1>5 DEF CommentRowsType
<1> QED
  BY <1>1, <1>2, <1>4, <1>5, <1>6 DEF Kept, c

LEMMA ReportEffect ==
  ASSUME CommentsType, NEW t \in CommentThreads, RequestInv(t), Report(t)
  PROVE  /\ CommentRowsType' /\ Kept
         /\ CommentIds' = CommentIds /\ comments' = comments
         /\ Cardinality(reports'[asks[t].comment]) <= Cardinality(reports[asks[t].comment]) + 1
         /\ \A c \in CommentIds \ {asks[t].comment} : reports'[c] = reports[c]
         /\ at'[t] = "judge" /\ asks'[t] = [asks[t] EXCEPT !.own = FALSE] /\ asks[t] \in Asks
<1> DEFINE c == asks[t].comment
           new == reports[c] \cup {asks[t].account}
<1>1. c \in CommentIds /\ asks[t] \in Asks /\ CommentRowsType
  BY DEF RequestInv, Report, CommentsType
<1>2. new \in SUBSET Readers
  BY <1>1, CommentFacts DEF Asks
<1>3. IsFiniteSet(new) /\ Cardinality(new) <= Cardinality(reports[c]) + 1
  <2>1. IsFiniteSet(reports[c]) /\ Cardinality(reports[c]) \in Nat
    BY <1>1, CommentFacts
  <2>2. /\ IsFiniteSet(new)
        /\ Cardinality(new) = IF asks[t].account \in reports[c] THEN Cardinality(reports[c])
                              ELSE Cardinality(reports[c]) + 1
    BY <2>1, FS_AddElement
  <2> QED
    BY <2>1, <2>2
<1>4. reports' = [reports EXCEPT ![c] = new] /\ comments' = comments /\ shownCount' = shownCount
  BY DEF Report
<1> HIDE DEF new, c
<1>5. /\ reports' \in Seq(SUBSET Readers) /\ Len(reports') = Len(reports)
      /\ \A d \in CommentIds : reports'[d] = IF d = c THEN new ELSE reports[d]
  <2>1. c \in 1 .. Len(reports) /\ CommentIds = 1 .. Len(reports) /\ reports \in Seq(SUBSET Readers)
    BY <1>1, CommentFacts DEF CommentRowsType
  <2> QED
    BY <1>2, <1>4, <2>1, ExceptSeq
<1>6. CommentIds' = CommentIds
  BY <1>4 DEF CommentIds
<1>7. CommentRowsType'
  BY <1>1, <1>3, <1>4, <1>5, <1>6 DEF CommentRowsType
<1>8. at'[t] = "judge" /\ asks'[t] = [asks[t] EXCEPT !.own = FALSE]
  BY DEF Report, CommentsType, CommentThreadsType
<1> QED
  BY <1>1, <1>3, <1>4, <1>5, <1>6, <1>7, <1>8 DEF Kept, c

LEMMA RowsNext ==
  ASSUME CommentsType, \A t \in CommentThreads : RequestInv(t), [CommentNext]_commentVars
  PROVE  CommentRowsType' /\ Kept
<1>0. CommentRowsType
  BY DEF CommentsType
<1>1. CASE UNCHANGED commentRows
  BY <1>0, <1>1, KeptRows DEF commentRows, CommentRowsType
<1>2. ASSUME NEW t \in CommentThreads, Insert(t)
      PROVE  CommentRowsType' /\ Kept
  BY <1>0, <1>2, InsertEffect
<1>3. ASSUME NEW t \in CommentThreads, Archive(t)
      PROVE  CommentRowsType' /\ Kept
  BY <1>0, <1>3, ArchiveEffect
<1>4. ASSUME NEW t \in CommentThreads, Report(t)
      PROVE  CommentRowsType' /\ Kept
  BY <1>0, <1>4, ReportEffect
<1>5. ASSUME NEW t \in CommentThreads, Show(t)
      PROVE  CommentRowsType' /\ Kept
  <2>1. holds[t] \in Nat /\ UNCHANGED <<comments, reports>>
    BY <1>5 DEF Show, RequestInv
  <2>2. shownCount' \in [Contexts -> Nat]
    BY <1>0, <1>5, <2>1 DEF Show, CommentRowsType
  <2> QED
    BY <1>0, <2>1, <2>2, KeptRows
<1>6. CASE UNCHANGED commentVars
  BY <1>1, <1>6 DEF commentVars
<1>7. CASE ApiRestart
  BY <1>1, <1>7 DEF ApiRestart
<1>8. ASSUME NEW t \in CommentThreads, Requested(t)
      PROVE  CommentRowsType' /\ Kept
  BY <1>1, <1>2, <1>3, <1>4, <1>5, <1>8
  DEF Requested, BeginPost, BeginDelete, BeginReport, Begin, Count, Find, Judge
<1> QED
  BY <1>6, <1>7, <1>8 DEF CommentNext, Requested

-----------------------------------------------------------------------------
(* What the requests ask and have read                                     *)

LEMMA WaitingRequest ==
  ASSUME CommentRowsType, CommentRowsType', Kept, NEW o, RequestInv(o), Waits(o)
  PROVE  RequestInv(o)'
<1>1. at'[o] = at[o] /\ asks'[o] = asks[o] /\ holds'[o] = holds[o]
  BY DEF Waits
<1>2. at[o] # "idle" /\ asks[o].comment # Void =>
        /\ asks[o].comment \in CommentIds /\ asks[o].comment \in CommentIds'
        /\ comments'[asks[o].comment].context = comments[asks[o].comment].context
        /\ comments[asks[o].comment].archived => comments'[asks[o].comment].archived
  BY DEF RequestInv, Kept
<1> QED
  BY <1>1, <1>2 DEF RequestInv

LEMMA RequestNext ==
  ASSUME CommentsType, \A t \in CommentThreads : RequestInv(t), [CommentNext]_commentVars
  PROVE  \A t \in CommentThreads : RequestInv(t)'
<1>0. CommentRowsType /\ CommentThreadsType /\ CommentRowsType' /\ Kept
  BY RowsNext DEF CommentsType
<1>1. CASE UNCHANGED commentVars
  <2>1. \A t \in CommentThreads : Waits(t)
    BY <1>1 DEF commentVars, Waits
  <2> QED
    BY <1>0, <2>1, WaitingRequest
<1>2. CASE ApiRestart
  BY <1>2 DEF ApiRestart, RequestInv
<1>3. ASSUME NEW t \in CommentThreads, Requested(t)
      PROVE  \A o \in CommentThreads : RequestInv(o)'
  <2>1. \A o \in CommentThreads \ {t} : RequestInv(o)'
    BY <1>0, <1>3, OthersWait, WaitingRequest
  <2>2. RequestInv(t)
    OBVIOUS
  <2>3. RequestInv(t)'
    <3>1. CASE BeginPost(t)
      <4>1. PICK a \in Readers, x \in Contexts :
              Begin(t, "insert", [account |-> a, context |-> x, comment |-> Void, own |-> FALSE])
        BY <3>1 DEF BeginPost
      <4>2. /\ at'[t] = "insert"
            /\ asks'[t] = [account |-> a, context |-> x, comment |-> Void, own |-> FALSE]
        BY <1>0, <4>1, BeginEffect
      <4> QED
        BY <4>2 DEF RequestInv, Asks
    <3>2. CASE BeginDelete(t) \/ BeginReport(t)
      <4>1. PICK a \in Readers, c \in CommentIds, own \in BOOLEAN, step \in {"find", "report"} :
              Begin(t, step, [account |-> a, context |-> comments[c].context,
                              comment |-> c, own |-> own])
        BY <3>2 DEF BeginDelete, BeginReport
      <4>2. /\ at'[t] = step
            /\ asks'[t] = [account |-> a, context |-> comments[c].context,
                           comment |-> c, own |-> own]
        BY <1>0, <4>1, BeginEffect
      <4>3. /\ c \in Nat /\ comments[c] \in CommentRows
            /\ c \in CommentIds' /\ comments'[c].context = comments[c].context
        BY <1>0, CommentFacts DEF Kept
      <4>4. asks'[t] \in Asks /\ c # Void
        BY <4>2, <4>3, CommentAssumption DEF Asks, CommentRows
      <4> QED
        BY <4>2, <4>3, <4>4 DEF RequestInv
    <3>3. CASE Insert(t)
      <4>1. at[t] = "insert" /\ at'[t] = "count" /\ asks'[t] = asks[t]
        BY <1>0, <3>3, GoEffect DEF Insert
      <4> QED
        BY <2>2, <4>1 DEF RequestInv
    <3>4. CASE Count(t)
      <4>1. /\ at[t] = "count" /\ at'[t] = "show" /\ asks'[t] = asks[t]
            /\ holds'[t] = Cardinality(Listing(asks[t].context))
            /\ comments' = comments
        BY <1>0, <3>4, GoEffect DEF Count, commentRows
      <4>2. CommentIds' = CommentIds
        BY <4>1 DEF CommentIds
      <4> QED
        BY <1>0, <2>2, <4>1, <4>2, ListingCounted DEF RequestInv
    <3>5. ASSUME AfterDelete(t), at[t] \in {"show", "find"}, comments' = comments
          PROVE  RequestInv(t)'
      <4>1. CASE ~asks[t].own
        <5>1. at'[t] = "idle"
          BY <1>0, <3>5, <4>1, EndEffect DEF AfterDelete
        <5> QED
          BY <5>1 DEF RequestInv
      <4>2. CASE asks[t].own
        <5>1. at'[t] = "report" /\ asks'[t] = asks[t] /\ CommentIds' = CommentIds
          BY <1>0, <3>5, <4>2, GoEffect DEF AfterDelete, CommentIds
        <5>2. asks[t].comment # Void
          BY <2>2, <3>5, <4>2 DEF RequestInv
        <5> QED
          BY <2>2, <3>5, <5>1, <5>2 DEF RequestInv
      <4> QED
        BY <4>1, <4>2
    <3>6. CASE Show(t)
      BY <3>5, <3>6 DEF Show
    <3>7. CASE Find(t)
      <4> DEFINE c == comments[asks[t].comment]
      <4>0. at[t] = "find" /\ comments' = comments
        BY <3>7 DEF Find, commentRows
      <4>1. CASE End(t)
        BY <1>0, <4>1, EndEffect DEF RequestInv
      <4>2. CASE AfterDelete(t)
        BY <3>5, <4>0, <4>2
      <4>3. CASE Go(t, "archive", c)
        <5>1. at'[t] = "archive" /\ asks'[t] = asks[t] /\ holds'[t] = c /\ CommentIds' = CommentIds
          BY <1>0, <4>0, <4>3, GoEffect DEF CommentIds
        <5>2. asks[t].comment \in CommentIds /\ c \in CommentRows
          BY <1>0, <2>2, <4>0, CommentFacts DEF RequestInv
        <5> QED
          BY <2>2, <4>0, <5>1, <5>2 DEF RequestInv
      <4> QED
        BY <3>7, <4>1, <4>2, <4>3 DEF Find
    <3>8. CASE Archive(t)
      <4>1. at[t] = "archive" /\ at'[t] = "count" /\ asks'[t] = asks[t]
        BY <1>0, <3>8, GoEffect DEF Archive
      <4>2. comments'[asks[t].comment].archived
        BY <1>0, <2>2, <3>8, ArchiveEffect
      <4> QED
        BY <1>0, <2>2, <4>1, <4>2 DEF RequestInv, Kept
    <3>9. CASE Report(t)
      <4>1. /\ CommentIds' = CommentIds /\ comments' = comments
            /\ at'[t] = "judge" /\ asks'[t] = [asks[t] EXCEPT !.own = FALSE] /\ asks[t] \in Asks
        BY <2>2, <3>9, ReportEffect
      <4>2. /\ asks'[t] \in Asks /\ ~asks'[t].own
            /\ asks'[t].comment = asks[t].comment /\ asks'[t].context = asks[t].context
        BY <4>1 DEF Asks
      <4> QED
        BY <2>2, <3>9, <4>1, <4>2 DEF RequestInv, Report
    <3>10. CASE Judge(t)
      <4>0. at[t] = "judge" /\ comments' = comments
        BY <3>10 DEF Judge, commentRows
      <4>1. CASE End(t)
        BY <1>0, <4>1, EndEffect DEF RequestInv
      <4>2. CASE Go(t, "find", Void)
        <5>1. at'[t] = "find" /\ asks'[t] = asks[t] /\ CommentIds' = CommentIds
          BY <1>0, <4>0, <4>2, GoEffect DEF CommentIds
        <5> QED
          BY <2>2, <4>0, <5>1 DEF RequestInv
      <4> QED
        BY <3>10, <4>1, <4>2 DEF Judge
    <3> QED
      BY <1>3, <3>1, <3>2, <3>3, <3>4, <3>6, <3>7, <3>8, <3>9, <3>10 DEF Requested
  <2> QED
    BY <2>1, <2>3
<1> QED
  BY <1>1, <1>2, <1>3 DEF CommentNext, Requested

LEMMA ThreadsNext ==
  ASSUME CommentsType, \A t \in CommentThreads : RequestInv(t), [CommentNext]_commentVars
  PROVE  CommentThreadsType'
<1>0. CommentRowsType /\ CommentThreadsType
  BY DEF CommentsType
<1>1. CASE UNCHANGED commentVars
  BY <1>0, <1>1 DEF CommentThreadsType, commentVars
<1>2. CASE ApiRestart
  <2>1. unjudged' \subseteq Nat
    <3>1. unjudged' = (unjudged \cup {asks[t].comment : t \in ServedNow}) \ {Void}
      BY <1>2 DEF ApiRestart
    <3>2. \A t \in ServedNow : asks[t].comment \in Nat \cup {Void}
      BY DEF ServedNow, RequestInv, Asks
    <3> QED
      BY <1>0, <3>1, <3>2 DEF CommentThreadsType
  <2>2. allowance' \in [posts : Nat, deletions : Nat, reports : Nat, apiCrashes : Nat]
    BY <1>0, <1>2 DEF ApiRestart, CommentThreadsType
  <2>3. counted' = counted
    BY <1>2 DEF ApiRestart
  <2> QED
    BY <1>0, <1>2, <2>1, <2>2, <2>3 DEF CommentThreadsType, ApiRestart, CommentSteps
<1>3. ASSUME NEW t \in CommentThreads, Requested(t)
      PROVE  CommentThreadsType'
  <2>0. RequestInv(t)
    OBVIOUS
  <2>1. allowance' \in [posts : Nat, deletions : Nat, reports : Nat, apiCrashes : Nat]
    BY <1>0, <1>3 DEF CommentThreadsType, Requested, BeginPost, BeginDelete, BeginReport, Insert,
       Count, Show, Find, Archive, Report, Judge
  <2>2. counted' \subseteq Contexts
    <3>1. asks[t].context \in Contexts \/ at[t] = "idle"
      BY <2>0 DEF RequestInv, Asks
    <3> QED
      BY <1>0, <1>3, <3>1 DEF CommentThreadsType, Requested, BeginPost, BeginDelete, BeginReport,
         Begin, Insert, Count, Show, Find, Archive, Report, Judge
  <2>3. unjudged' \subseteq Nat
    <3>1. CASE BeginDelete(t) \/ BeginReport(t)
      <4>1. PICK c \in CommentIds : Overlap(c)
        BY <3>1 DEF BeginDelete, BeginReport
      <4>2. c \in Nat
        BY <1>0, CommentFacts
      <4> QED
        BY <1>0, <4>1, <4>2 DEF Overlap, CommentThreadsType
    <3> QED
      BY <1>0, <1>3, <3>1 DEF CommentThreadsType, Requested, BeginPost, Insert, Count, Show, Find,
         Archive, Report, Judge
  <2> DEFINE Fine == /\ at' \in [CommentThreads -> CommentSteps]
                     /\ asks' \in [CommentThreads -> Asks \cup {Void}]
                     /\ holds' = [o \in CommentThreads |-> holds'[o]]
                     /\ soloThread' \in CommentThreads \cup {Void}
  <2>4. ASSUME NEW step \in CommentSteps, NEW ask \in Asks, Begin(t, step, ask)
        PROVE  Fine
    BY <1>0, <2>4 DEF CommentThreadsType, Begin
  <2>5. ASSUME End(t)
        PROVE  Fine
    BY <1>0, <2>5 DEF CommentThreadsType, End, CommentSteps
  <2>6. ASSUME NEW step \in CommentSteps, NEW val, Go(t, step, val)
        PROVE  Fine
    BY <1>0, <2>6 DEF CommentThreadsType, Go
  <2>7. CASE BeginPost(t)
    <3>1. PICK a \in Readers, x \in Contexts :
            Begin(t, "insert", [account |-> a, context |-> x, comment |-> Void, own |-> FALSE])
      BY <2>7 DEF BeginPost
    <3>2. "insert" \in CommentSteps
      BY DEF CommentSteps
    <3>3. [account |-> a, context |-> x, comment |-> Void, own |-> FALSE] \in Asks
      BY DEF Asks
    <3> QED
      BY <2>1, <2>2, <2>3, <2>4, <3>1, <3>2, <3>3 DEF CommentThreadsType
  <2>8. CASE BeginDelete(t) \/ BeginReport(t)
    <3>1. PICK a \in Readers, c \in CommentIds, own \in BOOLEAN, step \in {"find", "report"} :
            Begin(t, step, [account |-> a, context |-> comments[c].context,
                            comment |-> c, own |-> own])
      BY <2>8 DEF BeginDelete, BeginReport
    <3>2. [account |-> a, context |-> comments[c].context, comment |-> c, own |-> own] \in Asks
      BY <1>0, CommentFacts DEF Asks, CommentRows
    <3>3. step \in CommentSteps
      BY DEF CommentSteps
    <3> QED
      BY <2>1, <2>2, <2>3, <2>4, <3>1, <3>2, <3>3 DEF CommentThreadsType
  <2>9. CASE Report(t)
    <3>1. asks'[t] \in Asks
      <4>1. asks'[t] = [asks[t] EXCEPT !.own = FALSE] /\ asks[t] \in Asks
        BY <2>0, <2>9, ReportEffect
      <4> QED
        BY <4>1 DEF Asks
    <3>2. /\ \A o \in CommentThreads \ {t} : asks'[o] = asks[o]
          /\ asks' = [o \in CommentThreads |-> asks'[o]]
      BY <1>0, <2>9 DEF Report, CommentThreadsType
    <3>3. asks' \in [CommentThreads -> Asks \cup {Void}]
      BY <1>0, <3>1, <3>2 DEF CommentThreadsType
    <3>4. Fine
      BY <1>0, <2>9, <3>3 DEF Report, CommentThreadsType, CommentSteps
    <3> QED
      BY <2>1, <2>2, <2>3, <3>4 DEF CommentThreadsType
  <2>10. CASE End(t) \/ \E step \in CommentSteps : \E val : Go(t, step, val)
    BY <2>1, <2>2, <2>3, <2>5, <2>6, <2>10 DEF CommentThreadsType
  <2>11. Insert(t) \/ Count(t) \/ Show(t) \/ Find(t) \/ Archive(t) \/ Judge(t)
         => End(t) \/ \E step \in CommentSteps : \E val : Go(t, step, val)
    <3>1. /\ "count" \in CommentSteps /\ "show" \in CommentSteps /\ "archive" \in CommentSteps
          /\ "find" \in CommentSteps /\ "report" \in CommentSteps
      BY DEF CommentSteps
    <3> QED
      BY <3>1 DEF Insert, Count, Show, AfterDelete, Find, Archive, Judge
  <2> QED
    BY <1>3, <2>7, <2>8, <2>9, <2>10, <2>11 DEF Requested
<1> QED
  BY <1>1, <1>2, <1>3 DEF CommentNext, Requested

-----------------------------------------------------------------------------
(* The counts                                                              *)

\* A new or an archived comment is counted with its own context only.
LEMMA ListingsElsewhere ==
  ASSUME CommentsType, NEW t \in CommentThreads, RequestInv(t), Insert(t) \/ Archive(t),
         NEW x \in Contexts, x # asks[t].context
  PROVE  Listing(x)' = Listing(x)
<1>0. CommentRowsType
  BY DEF CommentsType
<1>1. CASE Insert(t)
  <2> DEFINE n == Len(comments) + 1
  <2>0. /\ CommentIds' = CommentIds \cup {n}
        /\ comments'[n] = [author |-> asks[t].account, context |-> asks[t].context,
                           archived |-> FALSE]
        /\ \A c \in CommentIds : comments'[c] = comments[c]
    BY <1>0, <1>1, InsertEffect
  <2>1. /\ CommentIds' = CommentIds \cup {n} /\ comments'[n].context = asks[t].context
        /\ \A c \in CommentIds : comments'[c] = comments[c]
    BY <2>0
  <2> QED
    BY <2>1 DEF Listing
<1>2. CASE Archive(t)
  <2>1. /\ CommentIds' = CommentIds /\ Kept
        /\ \A c \in CommentIds \ {asks[t].comment} : comments'[c] = comments[c]
    BY <1>0, <1>2, ArchiveEffect
  <2>2. asks[t].comment \in CommentIds /\ comments[asks[t].comment].context = asks[t].context
    BY <1>2 DEF RequestInv, Archive
  <2>3. comments'[asks[t].comment].context = asks[t].context
    BY <2>1, <2>2 DEF Kept
  <2> QED
    BY <2>1, <2>2, <2>3 DEF Listing
<1> QED
  BY <1>1, <1>2

\* Which request is alone after one has stepped.
LEMMA SoloNext ==
  ASSUME CommentThreadsType, CountInv, NEW t \in CommentThreads, Requested(t)
  PROVE  /\ soloThread' # Void => soloThread' = t /\ ServedNow' = {t}
         /\ at[t] # "idle" /\ soloThread' # Void => soloThread = t
<1>1. CASE BeginPost(t) \/ BeginDelete(t) \/ BeginReport(t)
  <2>0. PICK step \in {"insert", "find", "report"} : \E ask : Begin(t, step, ask)
    BY <1>1 DEF BeginPost, BeginDelete, BeginReport
  <2>1. PICK ask : Begin(t, step, ask)
    BY <2>0
  <2>2. /\ at[t] = "idle" /\ at'[t] # "idle"
        /\ \A o \in CommentThreads \ {t} : at'[o] = at[o]
        /\ soloThread' = IF ServedNow = {} THEN t ELSE Void
    BY <2>1, BeginEffect DEF Begin, Waits
  <2>3. ServedNow = {} => ServedNow' = {t}
    BY <2>2 DEF ServedNow
  <2> QED
    BY <2>2, <2>3
<1>2. CASE End(t)
  BY <1>2, EndEffect
<1>3. ASSUME at[t] # "idle", at'[t] # "idle", soloThread' = soloThread
      PROVE  soloThread' # Void => soloThread = t /\ soloThread' = t /\ ServedNow' = {t}
  <2>1. \A o \in CommentThreads \ {t} : at'[o] = at[o]
    BY OthersWait DEF Waits
  <2>2. ServedNow' = ServedNow /\ t \in ServedNow
    BY <1>3, <2>1 DEF ServedNow
  <2> QED
    BY <1>3, <2>2 DEF CountInv
<1>4. CASE Report(t)
  <2>1. at[t] # "idle" /\ at'[t] # "idle" /\ soloThread' = soloThread
    BY <1>4 DEF Report, CommentThreadsType
  <2> QED
    BY <1>3, <2>1
<1>5. ASSUME NEW step \in CommentSteps \ {"idle"}, NEW val, Go(t, step, val), at[t] # "idle"
      PROVE  soloThread' # Void => soloThread = t /\ soloThread' = t /\ ServedNow' = {t}
  <2>1. at'[t] # "idle" /\ soloThread' = soloThread
    BY <1>5, GoEffect
  <2> QED
    BY <1>3, <1>5, <2>1
<1>6. ASSUME Insert(t) \/ Count(t) \/ Show(t) \/ Find(t) \/ Archive(t) \/ Judge(t)
      PROVE  /\ at[t] # "idle"
             /\ End(t) \/ \E step \in CommentSteps \ {"idle"} : \E val : Go(t, step, val)
  <2>1. {"count", "show", "archive", "find", "report"} \subseteq CommentSteps \ {"idle"}
    BY DEF CommentSteps
  <2> QED
    BY <1>6, <2>1 DEF Insert, Count, Show, AfterDelete, Find, Archive, Judge
<1> QED
  BY <1>1, <1>2, <1>4, <1>5, <1>6 DEF Requested

LEMMA CountNext ==
  ASSUME CommentsType, \A t \in CommentThreads : RequestInv(t), CountInv,
         [CommentNext]_commentVars
  PROVE  CountInv'
<1>0. CommentRowsType /\ CommentThreadsType
  BY DEF CommentsType
<1>1. CASE UNCHANGED commentVars
  BY <1>1 DEF commentVars, commentRows, CountInv, ServedNow, Listing, CommentIds
<1>2. CASE ApiRestart
  <2>1. soloThread' = Void /\ counted' = counted /\ UNCHANGED <<comments, shownCount>>
    BY <1>2 DEF ApiRestart, commentRows
  <2>2. \A t \in CommentThreads : t # Void
    BY CommentAssumption
  <2> QED
    BY <2>1, <2>2 DEF CountInv, Listing, CommentIds
<1>3. ASSUME NEW t \in CommentThreads, Requested(t)
      PROVE  CountInv'
  <2> DEFINE x == asks[t].context
  <2>0. RequestInv(t) /\ t # Void
    BY CommentAssumption
  <2>1. /\ soloThread' # Void => soloThread' = t /\ ServedNow' = {t}
        /\ at[t] # "idle" /\ soloThread' # Void => soloThread = t
    BY <1>0, <1>3, SoloNext
  <2>2. ASSUME soloThread' = t, at'[t] = "show"
        PROVE  Count(t)
    <3>1. CASE BeginPost(t) \/ BeginDelete(t) \/ BeginReport(t)
      <4>0. PICK step \in {"insert", "find", "report"} : \E ask : Begin(t, step, ask)
        BY <3>1 DEF BeginPost, BeginDelete, BeginReport
      <4>1. PICK ask : Begin(t, step, ask)
        BY <4>0
      <4> QED
        BY <1>0, <2>2, <4>1, BeginEffect
    <3>2. CASE End(t)
      BY <1>0, <2>0, <2>2, <3>2, EndEffect
    <3>3. CASE Report(t)
      BY <1>0, <2>2, <3>3 DEF Report, CommentThreadsType
    <3>4. ASSUME NEW step \in CommentSteps \ {"idle", "show"}, NEW val, Go(t, step, val)
          PROVE  FALSE
      BY <1>0, <2>2, <3>4, GoEffect
    <3>5. Insert(t) \/ Show(t) \/ Find(t) \/ Archive(t) \/ Judge(t)
          => End(t) \/ \E step \in CommentSteps \ {"idle", "show"} : \E val : Go(t, step, val)
      <4>1. {"count", "archive", "find", "report"} \subseteq CommentSteps \ {"idle", "show"}
        BY DEF CommentSteps
      <4> QED
        BY <4>1 DEF Insert, Show, AfterDelete, Find, Archive, Judge
    <3> QED
      BY <1>3, <3>1, <3>2, <3>3, <3>4, <3>5 DEF Requested
  <2>4. ASSUME soloThread' = t, at'[t] = "show"
        PROVE  holds'[t] = Cardinality(Listing(asks[t].context)') /\ asks'[t] = asks[t]
    <3>1. Count(t)
      BY <2>2, <2>4
    <3>2. holds'[t] = Cardinality(Listing(asks[t].context)) /\ asks'[t] = asks[t]
          /\ comments' = comments
      BY <1>0, <3>1, GoEffect DEF Count, commentRows
    <3>3. \A y : Listing(y)' = Listing(y)
      BY <3>2 DEF Listing, CommentIds
    <3> QED
      BY <3>2, <3>3
  <2>3. \A y \in counted' : shownCount'[y] = Cardinality(Listing(y)')
    <3>1. CASE Insert(t) \/ Archive(t)
      <4>1. counted' = counted \ {x} /\ shownCount' = shownCount
        BY <3>1 DEF Insert, Archive
      <4>2. \A y \in counted' : y \in counted /\ y \in Contexts /\ y # x
        BY <1>0, <4>1 DEF CommentThreadsType
      <4> QED
        BY <2>0, <3>1, <4>1, <4>2, ListingsElsewhere DEF CountInv
    <3>2. CASE Show(t)
      <4>1. /\ at[t] = "show" /\ comments' = comments
            /\ shownCount' = [shownCount EXCEPT ![x] = holds[t]]
            /\ counted' = IF soloThread = t THEN counted \cup {x} ELSE counted \ {x}
        BY <3>2 DEF Show
      <4>2. soloThread = t => holds[t] = Cardinality(Listing(x))
        BY <4>1 DEF CountInv
      <4>3. x \in Contexts
        BY <2>0, <4>1 DEF RequestInv, Asks
      <4>4. \A y \in Contexts : shownCount'[y] = IF y = x THEN holds[t] ELSE shownCount[y]
        BY <1>0, <4>1, <4>3 DEF CommentRowsType
      <4>5. \A y : Listing(y)' = Listing(y)
        BY <4>1 DEF Listing, CommentIds
      <4>6. \A y \in counted' : (y = x /\ soloThread = t) \/ (y # x /\ y \in counted /\ y \in Contexts)
        <5>1. counted \subseteq Contexts
          BY <1>0 DEF CommentThreadsType
        <5> HIDE DEF x
        <5>2. CASE soloThread = t
          BY <4>1, <5>1, <5>2
        <5>3. CASE soloThread # t
          BY <4>1, <5>1, <5>3
        <5> QED
          BY <5>2, <5>3
      <4>7. \A y \in counted' : shownCount'[y] = Cardinality(Listing(y))
        BY <4>2, <4>3, <4>4, <4>6 DEF CountInv
      <4> QED
        BY <4>5, <4>7
    <3>3. CASE ~Insert(t) /\ ~Archive(t) /\ ~Show(t)
      <4>1. UNCHANGED <<comments, shownCount, counted>>
        BY <1>3, <3>3 DEF Requested, BeginPost, BeginDelete, BeginReport, Begin, Count, Find,
           Report, Judge, commentRows
      <4> QED
        BY <4>1 DEF CountInv, Listing, CommentIds
    <3> QED
      BY <3>1, <3>2, <3>3
  <2>5. \A o \in CommentThreads : soloThread' = o /\ at'[o] = "show" =>
          holds'[o] = Cardinality(Listing(asks[o].context))'
    BY <2>0, <2>1, <2>4, CommentAssumption
  <2> QED
    BY <2>1, <2>3, <2>5 DEF CountInv
<1> QED
  BY <1>1, <1>2, <1>3 DEF CommentNext, Requested

-----------------------------------------------------------------------------
(* The reports                                                             *)

\* A request changes no comment but the one it is about.
LEMMA OnlyItsComment ==
  ASSUME CommentsType, NEW t \in CommentThreads, RequestInv(t), Requested(t),
         NEW c \in CommentIds, ~About(t, c)
  PROVE  /\ c \in CommentIds' /\ comments'[c] = comments[c] /\ reports'[c] = reports[c]
         /\ Judged(c)' <=> Judged(c)
<1>0. CommentRowsType
  BY DEF CommentsType
<1>1. CASE Insert(t)
  BY <1>0, <1>1, InsertEffect DEF Judged
<1>2. CASE Archive(t)
  <2>1. c # asks[t].comment /\ CommentIds' = CommentIds
        /\ \A d \in CommentIds \ {asks[t].comment} : comments'[d] = comments[d]
    BY <1>0, <1>2, ArchiveEffect DEF About, Archive
  <2> QED
    BY <1>2, <2>1 DEF Judged, Archive
<1>3. CASE Report(t)
  <2>1. c # asks[t].comment /\ CommentIds' = CommentIds /\ comments' = comments
        /\ \A d \in CommentIds \ {asks[t].comment} : reports'[d] = reports[d]
    BY <1>3, ReportEffect DEF About, Report
  <2> QED
    BY <2>1 DEF Judged
<1>4. CASE ~Insert(t) /\ ~Archive(t) /\ ~Report(t)
  <2>1. UNCHANGED <<comments, reports>>
    BY <1>4 DEF Requested, BeginPost, BeginDelete, BeginReport, Begin, Count, Show, Find,
       Judge, commentRows
  <2> QED
    BY <2>1 DEF Judged, CommentIds
<1> QED
  BY <1>1, <1>2, <1>3, <1>4

\* What a request about comment c does next, if no other is about it.
LEMMA JudgeStep ==
  ASSUME CommentsType, NEW t \in CommentThreads, RequestInv(t), Requested(t),
         NEW c \in CommentIds, About(t, c), JudgeInv(c)
  PROVE  /\ ~About(t, c)' => Judged(c)'
         /\ About(t, c)' =>
              /\ at'[t] = "find" /\ asks'[t].own => Judged(c)'
              /\ at'[t] = "report" => Judged(c)'
              /\ at'[t] = "judge" /\ Cardinality(reports'[c]) > Threshold
                   => comments'[c].archived
<1> DEFINE Goal == /\ ~About(t, c)' => Judged(c)'
                   /\ About(t, c)' =>
                        /\ at'[t] = "find" /\ asks'[t].own => Judged(c)'
                        /\ at'[t] = "report" => Judged(c)'
                        /\ at'[t] = "judge" /\ Cardinality(reports'[c]) > Threshold
                             => comments'[c].archived
<1>0. /\ CommentRowsType /\ CommentThreadsType /\ at[t] # "idle" /\ asks[t].comment = c /\ c # Void
      /\ Cardinality(reports[c]) \in Nat /\ Threshold \in Nat
  BY CommentFacts, CommentAssumption DEF CommentsType, About
<1>1. ASSUME AfterDelete(t), comments[c].archived, UNCHANGED <<comments, reports>>
      PROVE  Goal
  BY <1>1 DEF Judged
<1>2. CASE Count(t)
  <2>1. at'[t] = "show" /\ asks'[t] = asks[t]
    BY <1>0, <1>2, GoEffect DEF Count
  <2> QED
    BY <1>0, <2>1 DEF About
<1>3. CASE Show(t)
  <2>1. comments[c].archived
    BY <1>0, <1>3 DEF RequestInv, Show
  <2> QED
    BY <1>1, <1>3, <2>1 DEF Show
<1>4. CASE Find(t)
  <2>0. UNCHANGED <<comments, reports>> /\ at[t] = "find"
    BY <1>4 DEF Find, commentRows
  <2>1. CASE asks[t].own /\ End(t)
    <3>1. Judged(c)
      BY <1>0, <2>0, <2>1 DEF JudgeInv
    <3>2. ~About(t, c)'
      BY <1>0, <2>1, EndEffect DEF About
    <3> QED
      BY <2>0, <3>1, <3>2 DEF Judged
  <2>2. CASE comments[c].archived /\ AfterDelete(t)
    BY <1>1, <2>0, <2>2
  <2>3. CASE Go(t, "archive", comments[c])
    <3>1. at'[t] = "archive" /\ asks'[t] = asks[t]
      BY <1>0, <2>3, GoEffect
    <3> QED
      BY <1>0, <3>1 DEF About
  <2> QED
    BY <1>0, <1>4, <2>1, <2>2, <2>3 DEF Find
<1>5. CASE Archive(t)
  <2>1. at'[t] = "count" /\ asks'[t] = asks[t]
    BY <1>0, <1>5, GoEffect DEF Archive
  <2> QED
    BY <1>0, <2>1 DEF About
<1>6. CASE Report(t)
  <2>1. /\ comments' = comments /\ at'[t] = "judge"
        /\ Cardinality(reports'[c]) <= Cardinality(reports[c]) + 1
        /\ CommentRowsType' /\ CommentIds' = CommentIds
        /\ asks'[t] = [asks[t] EXCEPT !.own = FALSE] /\ asks[t] \in Asks
    BY <1>0, <1>6, ReportEffect
  <2>2. Judged(c) /\ Cardinality(reports'[c]) \in Nat
    <3>1. Judged(c)
      BY <1>0, <1>6 DEF JudgeInv, Report
    <3>2. IsFiniteSet(reports'[c])
      BY <2>1 DEF CommentRowsType
    <3> QED
      BY <3>1, <3>2, FS_CardinalityType
  <2>3. Cardinality(reports'[c]) > Threshold => comments'[c].archived
    BY <1>0, <2>1, <2>2 DEF Judged
  <2>4. asks'[t].comment = c
    BY <1>0, <2>1 DEF Asks
  <2> QED
    BY <2>1, <2>3, <2>4 DEF About
<1>7. CASE Judge(t)
  <2>0. UNCHANGED <<comments, reports>> /\ at[t] = "judge"
    BY <1>7 DEF Judge, commentRows
  <2>1. CASE Go(t, "find", Void)
    <3>1. at'[t] = "find" /\ asks'[t] = asks[t] /\ ~asks[t].own
      BY <1>0, <2>0, <2>1, GoEffect DEF RequestInv
    <3> QED
      BY <1>0, <3>1 DEF About
  <2>2. CASE ~Reached(reports[c])
    <3>0. Cardinality(reports[c]) > Threshold => comments[c].archived
      BY <1>0, <2>0 DEF JudgeInv
    <3>1. Judged(c)
      BY <1>0, <2>2, <3>0 DEF Reached, Judged
    <3>2. ~About(t, c)'
      BY <1>0, <1>7, <2>2, EndEffect DEF Judge, About
    <3> QED
      BY <2>0, <3>1, <3>2 DEF Judged
  <2> QED
    BY <1>0, <1>7, <2>1, <2>2 DEF Judge
<1>8. ~BeginPost(t) /\ ~BeginDelete(t) /\ ~BeginReport(t) /\ ~Insert(t)
  <2>1. ~Insert(t)
    BY <1>0 DEF Insert, RequestInv
  <2> QED
    BY <1>0, <2>1 DEF BeginPost, BeginDelete, BeginReport, Begin
<1> QED
  BY <1>2, <1>3, <1>4, <1>5, <1>6, <1>7, <1>8 DEF Requested

LEMMA JudgeNext ==
  ASSUME CommentsType, \A t \in CommentThreads : RequestInv(t),
         \A c \in CommentIds \ unjudged : JudgeInv(c), [CommentNext]_commentVars
  PROVE  \A c \in CommentIds' \ unjudged' : JudgeInv(c)'
<1>0. CommentRowsType /\ CommentThreadsType /\ \A c \in CommentIds : c # Void
  BY CommentFacts, CommentAssumption DEF CommentsType
<1>1. CASE UNCHANGED commentVars
  BY <1>1 DEF commentVars, commentRows, CommentIds, JudgeInv, About, Judged
<1>2. CASE ApiRestart
  <2>1. /\ UNCHANGED <<comments, reports>> /\ \A t \in CommentThreads : at'[t] = "idle"
        /\ unjudged' = (unjudged \cup {asks[t].comment : t \in ServedNow}) \ {Void}
    BY <1>2 DEF ApiRestart, commentRows
  <2>2. ASSUME NEW c \in CommentIds \ unjudged'
        PROVE  JudgeInv(c)'
    <3>1. c \notin unjudged /\ \A t \in CommentThreads : ~About(t, c)
      BY <1>0, <2>1, <2>2 DEF About, ServedNow
    <3>2. Judged(c)
      BY <3>1 DEF JudgeInv
    <3> QED
      BY <2>1, <3>2 DEF JudgeInv, About, Judged
  <2> QED
    BY <2>1, <2>2 DEF CommentIds
<1>3. ASSUME NEW t \in CommentThreads, Requested(t), NEW c \in CommentIds' \ unjudged'
      PROVE  JudgeInv(c)'
  <2>0. /\ RequestInv(t) /\ c \notin unjudged
        /\ \A o \in CommentThreads \ {t} : About(o, c)' <=> About(o, c)
    <3>1. c \notin unjudged
      BY <1>3 DEF Requested, BeginPost, BeginDelete, BeginReport, Overlap, Insert, Count, Show,
         Find, Archive, Report, Judge
    <3> QED
      BY <1>0, <1>3, <3>1, OthersWait DEF About, Waits
  <2>1. CASE c \notin CommentIds
    <3>1. Insert(t)
      <4>1. comments' # comments
        BY <2>1 DEF CommentIds
      <4>2. ~Archive(t)
        BY <1>0, <2>0, <2>1, ArchiveEffect
      <4> QED
        BY <1>3, <4>1, <4>2 DEF Requested, BeginPost, BeginDelete, BeginReport, Begin, Count, Show,
           Find, Report, Judge, commentRows
    <3>2. reports'[c] = {}
      BY <1>0, <2>0, <2>1, <3>1, InsertEffect
    <3>3. \A o \in CommentThreads : ~About(o, c)'
      <4>0. c \in Nat
        <5>1. CommentIds' = CommentIds \cup {Len(comments) + 1} /\ Len(comments) \in Nat
          BY <1>0, <2>0, <3>1, InsertEffect, CommentFacts
        <5> QED
          BY <2>1, <5>1
      <4>1. \A o \in CommentThreads \ {t} : ~About(o, c)
        <5>1. c # Void
          BY <4>0, CommentAssumption
        <5>2. \A o \in CommentThreads : RequestInv(o)
          OBVIOUS
        <5> QED
          BY <2>1, <5>1, <5>2 DEF About, RequestInv
      <4>2. asks'[t].comment = Void
        BY <1>0, <2>0, <3>1, GoEffect DEF Insert, RequestInv
      <4>3. c # Void
        BY <4>0, CommentAssumption
      <4> QED
        BY <2>0, <4>1, <4>2, <4>3 DEF About
    <3>4. Judged(c)'
      BY <3>2, FS_EmptySet, CommentAssumption DEF Judged
    <3> QED
      BY <3>3, <3>4 DEF JudgeInv
  <2>2. ASSUME c \in CommentIds, About(t, c)
        PROVE  JudgeInv(c)'
    <3>1. JudgeInv(c) /\ \A o \in CommentThreads \ {t} : ~About(o, c)'
      BY <2>0, <2>2 DEF JudgeInv
    <3>2. /\ ~About(t, c)' => Judged(c)'
          /\ About(t, c)' =>
               /\ at'[t] = "find" /\ asks'[t].own => Judged(c)'
               /\ at'[t] = "report" => Judged(c)'
               /\ at'[t] = "judge" /\ Cardinality(reports'[c]) > Threshold
                    => comments'[c].archived
      BY <1>3, <2>0, <2>2, <3>1, JudgeStep
    <3> QED
      BY <3>1, <3>2 DEF JudgeInv
  <2>3. ASSUME c \in CommentIds, ~About(t, c)
        PROVE  JudgeInv(c)'
    <3>0. JudgeInv(c)
      BY <2>0, <2>3
    <3>1. comments'[c] = comments[c] /\ reports'[c] = reports[c] /\ (Judged(c)' <=> Judged(c))
      BY <1>3, <2>0, <2>3, OnlyItsComment
    <3>2. CASE ~About(t, c)'
      <4>1. \A o \in CommentThreads : About(o, c)' => o # t /\ About(o, c) /\ Waits(o)
        BY <1>0, <1>3, <2>0, <3>2, OthersWait
      <4>2. \A o \in CommentThreads : ~About(o, c)' => ~About(o, c)
        BY <2>0, <2>3
      <4> QED
        BY <3>0, <3>1, <4>1, <4>2 DEF JudgeInv, Waits
    <3>3. CASE About(t, c)'
      <4>1. /\ at[t] = "idle" /\ Overlap(c)
            /\ at'[t] \in {"find", "report"}
        <5>1. BeginDelete(t) \/ BeginReport(t)
          <6>1. ~BeginPost(t)
            <7>1. ASSUME BeginPost(t)
                  PROVE  FALSE
              <8>1. PICK a \in Readers, x \in Contexts :
                      Begin(t, "insert", [account |-> a, context |-> x, comment |-> Void,
                                          own |-> FALSE])
                BY <7>1 DEF BeginPost
              <8>2. asks'[t] = [account |-> a, context |-> x, comment |-> Void, own |-> FALSE]
                BY <1>0, <8>1, BeginEffect
              <8> QED
                BY <1>0, <2>3, <3>3, <8>2 DEF About
            <7> QED
              BY <7>1
          <6>2. ~End(t)
            BY <1>0, <3>3, EndEffect DEF About
          <6>3. \A step, val : ~(at[t] # "idle" /\ Go(t, step, val))
            BY <1>0, <2>3, <3>3, GoEffect DEF About
          <6>4. ~Report(t)
            <7>1. Report(t) => asks'[t] = [asks[t] EXCEPT !.own = FALSE] /\ asks[t] \in Asks
              BY <2>0, ReportEffect
            <7>2. Report(t) => asks'[t].comment = asks[t].comment /\ at[t] # "idle"
              BY <7>1 DEF Asks, Report
            <7> QED
              BY <2>3, <3>3, <7>2 DEF About
          <6> QED
            BY <1>3, <6>1, <6>2, <6>3, <6>4 DEF Requested, Insert, Count, Show, AfterDelete, Find,
               Archive, Judge
        <5>2. PICK d \in CommentIds, step \in {"find", "report"} :
                /\ \E a \in Readers, own \in BOOLEAN :
                     Begin(t, step, [account |-> a, context |-> comments[d].context,
                                     comment |-> d, own |-> own])
                /\ Overlap(d)
          BY <5>1 DEF BeginDelete, BeginReport
        <5>3. PICK a \in Readers, own \in BOOLEAN :
                Begin(t, step, [account |-> a, context |-> comments[d].context,
                                comment |-> d, own |-> own])
          BY <5>2
        <5>4. /\ asks'[t] = [account |-> a, context |-> comments[d].context,
                             comment |-> d, own |-> own]
              /\ at[t] = "idle" /\ at'[t] = step
          BY <1>0, <5>3, BeginEffect
        <5>5. d = c
          BY <3>3, <5>4 DEF About
        <5> QED
          BY <5>2, <5>4, <5>5
      <4>2. \A o \in CommentThreads \ {t} : ~About(o, c)
        BY <1>3, <2>0, <4>1 DEF Overlap, About, ServedNow
      <4>3. Judged(c)'
        BY <2>3, <3>0, <3>1, <4>2 DEF JudgeInv
      <4> QED
        BY <2>0, <4>1, <4>2, <4>3 DEF JudgeInv
    <3> QED
      BY <3>2, <3>3
  <2> QED
    BY <2>1, <2>2, <2>3
<1> QED
  BY <1>1, <1>2, <1>3 DEF CommentNext, Requested

LEMMA CommentInitial == CommentInit => CommentInv
<1> SUFFICES ASSUME CommentInit
             PROVE  CommentInv
  OBVIOUS
<1>1. CommentIds = {} /\ \A x : Listing(x) = {}
  BY DEF CommentInit, CommentIds, Listing
<1>2. CommentRowsType
  BY <1>1, EmptySeq DEF CommentInit, CommentRowsType
<1>3. CommentThreadsType
  BY CommentAssumption DEF CommentInit, CommentThreadsType, CommentSteps
<1>4. \A t \in CommentThreads : RequestInv(t)
  BY DEF CommentInit, RequestInv
<1>5. CountInv
  BY <1>1, FS_EmptySet DEF CommentInit, CountInv
<1> QED
  BY <1>1, <1>2, <1>3, <1>4, <1>5 DEF CommentInv, CommentsType

\* The inductive invariant of comments and reports: types, what each request is
\* about and has read, the counts, and the reports of each comment.
THEOREM CommentInvariant == CommentSpec => []CommentInv
<1>1. CommentInit => CommentInv
  BY CommentInitial
<1>2. CommentInv /\ [CommentNext]_commentVars => CommentInv'
  <2> SUFFICES ASSUME CommentInv, [CommentNext]_commentVars
               PROVE  CommentInv'
    OBVIOUS
  <2>1. /\ CommentsType /\ (\A t \in CommentThreads : RequestInv(t)) /\ CountInv
        /\ \A c \in CommentIds \ unjudged : JudgeInv(c)
    BY DEF CommentInv
  <2>2. CommentsType'
    BY <2>1, RowsNext, ThreadsNext DEF CommentsType
  <2>3. \A t \in CommentThreads : RequestInv(t)'
    BY <2>1, RequestNext
  <2>4. CountInv'
    BY <2>1, CountNext
  <2>5. \A c \in CommentIds' \ unjudged' : JudgeInv(c)'
    BY <2>1, JudgeNext
  <2> QED
    BY <2>2, <2>3, <2>4, <2>5 DEF CommentInv
<1> QED
  BY <1>1, <1>2, PTL DEF CommentSpec

\* A context whose comments were last changed by a request alone shows their
\* exact number, and a comment with as many reports as the threshold is archived
\* unless two requests about it overlapped (CommentService.updateCommentsCount,
\* CommentReportService.create): for every number of requests and accounts.
THEOREM CommentsAreJudged == CommentSpec => []CommentsJudged
<1>1. CommentInv => CommentsJudged
  BY DEF CommentInv, CountInv, JudgeInv, About, Judged, CommentsJudged, ServedNow
<1> QED
  BY <1>1, CommentInvariant, PTL

(***************************************************************************)
(* Templates                                                               *)
(***************************************************************************)
Sheets == [config : Configs \cup {Blank}, archived : BOOLEAN]

Forms == [house : Houses, method : Methods \cup {Blank}, config : Configs \cup {Blank},
          id : TemplateIds \cup {Blank}]

CreateSteps == {"sharedItem", "saveSharedItem", "createItem", "sharedRow", "saveSharedRow"}
CloneSteps == {"clonedItem", "cloneItem", "count", "writeCount"}
EditSteps == {"editItem", "editRow", "archiveItem", "removeRow"}
TemplateSteps == CreateSteps \cup CloneSteps \cup EditSteps \cup {"idle", "link", "createRow"}

TemplateStoresType ==
  /\ now \in Nat
  /\ sharedItems \in [Methods -> {Blank, 1}]
  /\ sharedRows \in [Methods -> Nat \cup {Blank}]
  /\ links \subseteq Methods \X Houses /\ IsFiniteSet(links)
  /\ templateItems \in [TemplateIds -> Sheets \cup {Blank}]
  /\ templateRows \in [TemplateIds -> Sheets \cup {Blank}]

TemplateThreadsType ==
  /\ runs \in [TemplateThreads -> TemplateSteps]
  /\ form \in [TemplateThreads -> Forms \cup {Blank}]
  /\ value \in [TemplateThreads -> Nat \cup {Blank}]
  /\ soloTemplate \in TemplateThreads \cup {Blank}
  /\ countedOnce \subseteq Methods /\ edited \subseteq TemplateIds
  /\ rest \in [creations : Nat, clones : Nat, edits : Nat, removals : Nat,
               milliseconds : Nat, apiRestarts : Nat]

TemplatesType == TemplateStoresType /\ TemplateThreadsType

\* What request t asks for; a shared template that is cloned has a row.
FormInv(t) ==
  /\ runs[t] # "idle" => form[t] \in Forms
  /\ runs[t] \in CreateSteps => form[t].method \in Methods /\ form[t].config \in Configs
  /\ runs[t] \in CloneSteps => form[t].method \in Methods /\ form[t].config = Blank
  /\ runs[t] = "link" => form[t].method \in Methods
  /\ runs[t] \in EditSteps => form[t].id \in TemplateIds
  /\ runs[t] \in {"editItem", "editRow"} => form[t].config \in Configs
  /\ runs[t] \in CloneSteps \cup {"link"} => sharedRows[form[t].method] # Blank
  /\ runs[t] = "writeCount" => value[t] \in Nat

\* What a request no other has overlapped has done so far.
AloneInv(t) ==
  LET f == form[t] IN
  /\ runs[t] = "saveSharedRow" => LinksOf(f.method) = {}
  /\ runs[t] = "link" /\ f.config # Blank => LinksOf(f.method) = {} /\ sharedRows[f.method] = 1
  /\ runs[t] = "writeCount" => value[t] = Cardinality(LinksOf(f.method))
  /\ runs[t] = "editRow" => templateItems[f.id] \in Sheets /\ templateItems[f.id].config = f.config
  /\ runs[t] = "removeRow" => templateItems[f.id] \in Sheets /\ templateItems[f.id].archived

SharedInv ==
  /\ \A m \in Methods : sharedRows[m] = Blank => LinksOf(m) = {}
  /\ \A m \in countedOnce : sharedRows[m] = Cardinality(LinksOf(m))

TemplateShown(i) ==
  IF templateRows[i] = Blank THEN templateItems[i].archived
  ELSE templateItems[i].config = templateRows[i].config

EditedInv ==
  \A i \in edited : /\ TemplateShown(i)
                    /\ \A t \in TemplateThreads : runs[t] \in EditSteps => form[t].id # i

TemplateInv ==
  /\ TemplatesType
  /\ \A t \in TemplateThreads : FormInv(t)
  /\ soloTemplate # Blank => Underway = {soloTemplate} /\ AloneInv(soloTemplate)
  /\ SharedInv
  /\ EditedInv

-----------------------------------------------------------------------------
Serves(t) ==
  \/ OpenCreate(t) \/ OpenClone(t) \/ OpenEdit(t) \/ OpenRemoval(t)
  \/ FindSharedItem(t) \/ SaveSharedItem(t) \/ CreateItem(t)
  \/ FindSharedRow(t) \/ SaveSharedRow(t) \/ Link(t) \/ CreateRow(t)
  \/ ReadSharedItem(t) \/ CloneItem(t) \/ CountLinks(t) \/ WriteCount(t)
  \/ EditItem(t) \/ EditRow(t) \/ ArchiveTemplate(t) \/ RemoveRow(t)

\* What a request asks for and has read stays while another one steps.
Rests(o) == runs'[o] = runs[o] /\ form'[o] = form[o] /\ value'[o] = value[o]

LEMMA OpenEffect ==
  ASSUME TemplateThreadsType, NEW t \in TemplateThreads, NEW step, NEW f, Open(t, step, f)
  PROVE  /\ runs[t] = "idle" /\ runs'[t] = step /\ form'[t] = f
         /\ \A o \in TemplateThreads \ {t} : Rests(o)
BY DEF TemplateThreadsType, Open, Rests

LEMMA StepEffect ==
  ASSUME TemplateThreadsType, NEW t \in TemplateThreads, NEW from, NEW to, NEW v,
         Step(t, from, to, v)
  PROVE  /\ runs[t] = from /\ runs'[t] = to /\ form'[t] = form[t] /\ value'[t] = v
         /\ soloTemplate' = soloTemplate /\ now' = now /\ rest' = rest
         /\ \A o \in TemplateThreads \ {t} : Rests(o)
BY DEF TemplateThreadsType, Step, Rests

LEMMA LastEffect ==
  ASSUME TemplateThreadsType, NEW t \in TemplateThreads, NEW from, Last(t, from)
  PROVE  /\ runs[t] = from /\ runs'[t] = "idle" /\ soloTemplate' = Blank
         /\ now' = now /\ rest' = rest
         /\ \A o \in TemplateThreads \ {t} : Rests(o)
BY DEF TemplateThreadsType, Last, Close, Rests

LEMMA OthersRest ==
  ASSUME TemplateThreadsType, NEW t \in TemplateThreads, Serves(t)
  PROVE  \A o \in TemplateThreads \ {t} : Rests(o)
<1>1. CASE OpenCreate(t) \/ OpenClone(t) \/ OpenEdit(t) \/ OpenRemoval(t)
  <2>1. PICK step, f : Open(t, step, f)
    BY <1>1 DEF OpenCreate, OpenClone, OpenEdit, OpenRemoval
  <2> QED
    BY <2>1, OpenEffect
<1>2. CASE \E from, to, v : Step(t, from, to, v)
  BY <1>2, StepEffect
<1>3. CASE \E from : Last(t, from)
  BY <1>3, LastEffect
<1> QED
  BY <1>1, <1>2, <1>3 DEF Serves, FindSharedItem, SaveSharedItem, CreateItem, FindSharedRow,
     SaveSharedRow, Link, CreateRow, ReadSharedItem, CloneItem, CountLinks, WriteCount, EditItem,
     EditRow, ArchiveTemplate, RemoveRow

LEMMA LinksCounted ==
  ASSUME TemplateStoresType, NEW m
  PROVE  Cardinality(LinksOf(m)) \in Nat
<1>1. LinksOf(m) \in SUBSET links /\ IsFiniteSet(links)
  BY DEF LinksOf, TemplateStoresType
<1> QED
  BY <1>1, FS_Subset, FS_CardinalityType

LEMMA SheetTypes ==
  /\ \A c \in Configs \cup {Blank} : Template(c) \in Sheets
  /\ \A s \in Sheets, c \in Configs \cup {Blank} : [s EXCEPT !.config = c] \in Sheets
  /\ \A s \in Sheets : [s EXCEPT !.archived = TRUE] \in Sheets
  /\ Blank \notin Sheets
BY TemplateAssumption DEF Template, Sheets

LEMMA TemplateStoresNext ==
  ASSUME TemplatesType, \A t \in TemplateThreads : FormInv(t), [TemplateNext]_templateVars
  PROVE  TemplateStoresType'
<1>0. TemplateStoresType /\ TemplateThreadsType
  BY DEF TemplatesType
<1>1. CASE UNCHANGED <<now, templateStores>>
  BY <1>0, <1>1 DEF TemplateStoresType, templateStores
<1>2. CASE Tick
  BY <1>0, <1>2 DEF TemplateStoresType, templateStores, Tick
<1>3. ASSUME NEW t \in TemplateThreads, Serves(t)
      PROVE  TemplateStoresType'
  <2> DEFINE f == form[t]
  <2>0. FormInv(t) /\ (runs[t] # "idle" => f \in Forms /\ f.config \in Configs \cup {Blank})
    BY DEF FormInv, Forms
  <2>1. CASE SaveSharedItem(t)
    BY <1>0, <2>1 DEF SaveSharedItem, Step, TemplateStoresType
  <2>2. CASE CreateItem(t)
    <3>1. Template(f.config) \in Sheets
      BY <2>0, <2>2, SheetTypes DEF CreateItem, Step
    <3> QED
      BY <1>0, <2>2, <3>1 DEF CreateItem, Step, TemplateStoresType
  <2>3. CASE SaveSharedRow(t)
    BY <1>0, <2>3 DEF SaveSharedRow, Step, TemplateStoresType
  <2>4. CASE Link(t)
    <3>1. links' = links \cup {<<f.method, f.house>>} /\ f.method \in Methods /\ f.house \in Houses
      BY <2>0, <2>4 DEF Link, Step, FormInv, Forms
    <3>2. IsFiniteSet(links') /\ links' \subseteq Methods \X Houses
      <4>1. IsFiniteSet(links) /\ links \subseteq Methods \X Houses
        BY <1>0 DEF TemplateStoresType
      <4>2. IsFiniteSet(links \cup {<<f.method, f.house>>})
        BY <4>1, FS_AddElement
      <4> QED
        BY <3>1, <4>1, <4>2
    <3> QED
      BY <1>0, <2>4, <3>2 DEF Link, Step, TemplateStoresType
  <2>5. CASE CreateRow(t)
    <3>1. Template(f.config) \in Sheets
      BY <2>0, <2>5, SheetTypes DEF CreateRow, Last
    <3> QED
      BY <1>0, <2>5, <3>1 DEF CreateRow, Last, TemplateStoresType
  <2>6. CASE CloneItem(t)
    <3>1. Template(Blank) \in Sheets
      BY SheetTypes
    <3> QED
      BY <1>0, <2>6, <3>1 DEF CloneItem, Step, TemplateStoresType
  <2>7. CASE WriteCount(t)
    <3>1. value[t] \in Nat
      BY <2>0, <2>7 DEF WriteCount, Step, FormInv
    <3> QED
      BY <1>0, <2>7, <3>1 DEF WriteCount, Step, TemplateStoresType, DaoCount
  <2>8. CASE EditItem(t)
    <3> DEFINE old == templateItems[f.id]
               new == IF old = Blank THEN Template(f.config) ELSE [old EXCEPT !.config = f.config]
    <3>1. f.id \in TemplateIds /\ f.config \in Configs
      BY <2>0, <2>8 DEF EditItem, Step, FormInv, EditSteps
    <3>2. old \in Sheets \cup {Blank}
      BY <1>0, <3>1 DEF TemplateStoresType
    <3>3. new \in Sheets
      BY <3>1, <3>2, SheetTypes
    <3>4. templateItems' = [templateItems EXCEPT ![f.id] = new]
      BY <2>8 DEF EditItem
    <3> HIDE DEF new
    <3> QED
      BY <1>0, <2>8, <3>3, <3>4 DEF EditItem, Step, TemplateStoresType
  <2>9. CASE EditRow(t)
    <3>1. Template(f.config) \in Sheets
      BY <2>0, <2>9, SheetTypes DEF EditRow, Last
    <3> QED
      BY <1>0, <2>9, <3>1 DEF EditRow, Last, TemplateStoresType
  <2>10. CASE ArchiveTemplate(t)
    <3> DEFINE old == templateItems[f.id]
               new == [(IF old = Blank THEN Template(Blank) ELSE old) EXCEPT !.archived = TRUE]
    <3>1. f.id \in TemplateIds
      BY <2>0, <2>10 DEF ArchiveTemplate, Step, FormInv, EditSteps
    <3>2. old \in Sheets \cup {Blank}
      BY <1>0, <3>1 DEF TemplateStoresType
    <3>3. new \in Sheets
      BY <3>2, SheetTypes
    <3>4. templateItems' = [templateItems EXCEPT ![f.id] = new]
      BY <2>10 DEF ArchiveTemplate
    <3> HIDE DEF new
    <3> QED
      BY <1>0, <2>10, <3>3, <3>4 DEF ArchiveTemplate, Step, TemplateStoresType
  <2>11. CASE RemoveRow(t)
    BY <1>0, <2>11 DEF RemoveRow, Last, TemplateStoresType
  <2>12. CASE OpenCreate(t) \/ OpenClone(t) \/ OpenEdit(t) \/ OpenRemoval(t)
    BY <1>1, <2>12 DEF OpenCreate, OpenClone, OpenEdit, OpenRemoval, Open
  <2>13. CASE FindSharedItem(t) \/ FindSharedRow(t) \/ ReadSharedItem(t) \/ CountLinks(t)
    BY <1>1, <2>13 DEF FindSharedItem, FindSharedRow, ReadSharedItem, CountLinks, Step
  <2> QED
    BY <1>3, <2>1, <2>2, <2>3, <2>4, <2>5, <2>6, <2>7, <2>8, <2>9, <2>10, <2>11, <2>12, <2>13
    DEF Serves
<1>4. CASE UNCHANGED templateVars \/ TemplatesRestart
  BY <1>1, <1>4 DEF templateVars, TemplatesRestart
<1> QED
  BY <1>2, <1>3, <1>4 DEF TemplateNext, Serves

\* The form of a request that has just arrived.
LEMMA OpenForms ==
  ASSUME TemplatesType, NEW t \in TemplateThreads,
         OpenCreate(t) \/ OpenClone(t) \/ OpenEdit(t) \/ OpenRemoval(t)
  PROVE  \E step \in {"sharedItem", "clonedItem", "editItem", "archiveItem"}, f \in Forms :
           /\ Open(t, step, f)
           /\ step = "sharedItem" => f.method \in Methods /\ f.config \in Configs
           /\ step = "clonedItem" => /\ f.method \in Methods /\ f.config = Blank
                                     /\ sharedRows[f.method] # Blank
           /\ step \in {"editItem", "archiveItem"} => f.id \in TemplateIds
                                                      /\ edited' = edited \ {f.id}
           /\ step \in {"sharedItem", "clonedItem"} => edited' = edited
           /\ step = "editItem" => f.config \in Configs
<1>1. CASE OpenCreate(t)
  <2>1. PICK h \in Houses, m \in Methods, c \in Configs :
          Open(t, "sharedItem", [house |-> h, method |-> m, config |-> c, id |-> Blank])
    BY <1>1 DEF OpenCreate
  <2>2. [house |-> h, method |-> m, config |-> c, id |-> Blank] \in Forms
    BY DEF Forms
  <2>3. edited' = edited
    BY <1>1 DEF OpenCreate
  <2> QED
    BY <2>1, <2>2, <2>3
<1>2. CASE OpenClone(t)
  <2>1. PICK h \in Houses, m \in {m \in Methods : sharedRows[m] # Blank} :
          Open(t, "clonedItem", [house |-> h, method |-> m, config |-> Blank, id |-> Blank])
    BY <1>2 DEF OpenClone
  <2>2. [house |-> h, method |-> m, config |-> Blank, id |-> Blank] \in Forms
    BY DEF Forms
  <2>3. edited' = edited
    BY <1>2 DEF OpenClone
  <2> QED
    BY <2>1, <2>2, <2>3
<1>3. CASE OpenEdit(t)
  <2>1. PICK i \in TemplateIds, c \in Configs :
          /\ Open(t, "editItem", [house |-> i[1], method |-> Blank, config |-> c, id |-> i])
          /\ edited' = edited \ {i}
    BY <1>3 DEF OpenEdit
  <2>2. [house |-> i[1], method |-> Blank, config |-> c, id |-> i] \in Forms
    BY DEF Forms, TemplateIds
  <2> QED
    BY <2>1, <2>2
<1>4. CASE OpenRemoval(t)
  <2>1. PICK i \in TemplateIds :
          /\ Open(t, "archiveItem", [house |-> i[1], method |-> Blank, config |-> Blank, id |-> i])
          /\ edited' = edited \ {i}
    BY <1>4 DEF OpenRemoval
  <2>2. [house |-> i[1], method |-> Blank, config |-> Blank, id |-> i] \in Forms
    BY DEF Forms, TemplateIds
  <2> QED
    BY <2>1, <2>2
<1> QED
  BY <1>1, <1>2, <1>3, <1>4

\* Request t goes on from one label to the next, with what it has read.
Goes(t, from, to, v) ==
  /\ Step(t, from, to, v)
  /\ from # "idle" /\ to \in TemplateSteps \ {"idle"} /\ v \in Nat \cup {Blank}
  /\ to = "writeCount" => /\ from = "count" /\ CountLinks(t)
                          /\ v = Cardinality(LinksOf(form[t].method))

\* Every other step goes from one label to the next, or is the last.
LEMMA StepForms ==
  ASSUME TemplatesType, NEW t \in TemplateThreads, Serves(t),
         ~OpenCreate(t), ~OpenClone(t), ~OpenEdit(t), ~OpenRemoval(t)
  PROVE  \/ \E from \in TemplateSteps : Last(t, from)
         \/ \E from, to, v : Goes(t, from, to, v)
<1> DEFINE Named == TemplateSteps \ {"idle"}
<1>0. /\ "saveSharedItem" \in Named /\ "createItem" \in Named /\ "sharedRow" \in Named
      /\ "saveSharedRow" \in Named /\ "link" \in Named /\ "createRow" \in Named
      /\ "cloneItem" \in Named /\ "count" \in Named /\ "writeCount" \in Named
      /\ "editRow" \in Named /\ "removeRow" \in Named
  BY DEF TemplateSteps, CreateSteps, CloneSteps, EditSteps
<1>1. Blank \in Nat \cup {Blank} /\ Cardinality(LinksOf(form[t].method)) \in Nat \cup {Blank}
  BY LinksCounted DEF TemplatesType
<1> HIDE DEF Named
<1>2. ASSUME NEW from, NEW to \in Named, Step(t, from, to, Blank), from # "idle",
             to # "writeCount"
      PROVE  \E a, b, v : Goes(t, a, b, v)
  <2>1. Goes(t, from, to, Blank)
    BY <1>1, <1>2 DEF Goes, Named
  <2> QED
    BY <2>1
<1>3. CASE CreateRow(t) \/ EditRow(t) \/ RemoveRow(t)
  <2>1. "createRow" \in TemplateSteps /\ "editRow" \in TemplateSteps /\ "removeRow" \in TemplateSteps
    BY <1>0 DEF Named
  <2> QED
    BY <1>3, <2>1 DEF CreateRow, EditRow, RemoveRow
<1>4. CASE FindSharedItem(t)
  <2>1. \/ Step(t, "sharedItem", "saveSharedItem", Blank)
        \/ Step(t, "sharedItem", "createItem", Blank)
    BY <1>4 DEF FindSharedItem
  <2> QED
    BY <2>1, <1>0, <1>2
<1>5. CASE SaveSharedItem(t)
  <2>1. Step(t, "saveSharedItem", "createItem", Blank)
    BY <1>5 DEF SaveSharedItem
  <2> QED
    BY <2>1, <1>0, <1>2
<1>6. CASE CreateItem(t)
  <2>1. Step(t, "createItem", "sharedRow", Blank)
    BY <1>6 DEF CreateItem
  <2> QED
    BY <2>1, <1>0, <1>2
<1>7. CASE FindSharedRow(t)
  <2>1. \/ Step(t, "sharedRow", "saveSharedRow", Blank)
        \/ Step(t, "sharedRow", "createRow", Blank)
    BY <1>7 DEF FindSharedRow
  <2> QED
    BY <2>1, <1>0, <1>2
<1>8. CASE SaveSharedRow(t)
  <2>1. Step(t, "saveSharedRow", "link", Blank)
    BY <1>8 DEF SaveSharedRow
  <2> QED
    BY <2>1, <1>0, <1>2
<1>9. CASE Link(t)
  <2>1. Step(t, "link", "count", Blank) \/ Step(t, "link", "createRow", Blank)
    BY <1>9 DEF Link
  <2> QED
    BY <2>1, <1>0, <1>2
<1>10. CASE ReadSharedItem(t)
  <2>1. Step(t, "clonedItem", "link", Blank) \/ Step(t, "clonedItem", "cloneItem", Blank)
    BY <1>10 DEF ReadSharedItem
  <2> QED
    BY <2>1, <1>0, <1>2
<1>11. CASE CloneItem(t)
  <2>1. Step(t, "cloneItem", "link", Blank)
    BY <1>11 DEF CloneItem
  <2> QED
    BY <2>1, <1>0, <1>2
<1>12. CASE WriteCount(t)
  <2>1. Step(t, "writeCount", "createRow", Blank)
    BY <1>12 DEF WriteCount
  <2> QED
    BY <2>1, <1>0, <1>2
<1>13. CASE CountLinks(t)
  <2>1. Goes(t, "count", "writeCount", Cardinality(LinksOf(form[t].method)))
    BY <1>0, <1>1, <1>13 DEF Goes, CountLinks, Named
  <2> QED
    BY <2>1
<1>14. CASE EditItem(t)
  <2>1. Step(t, "editItem", "editRow", Blank)
    BY <1>14 DEF EditItem
  <2> QED
    BY <2>1, <1>0, <1>2
<1>15. CASE ArchiveTemplate(t)
  <2>1. Step(t, "archiveItem", "removeRow", Blank)
    BY <1>15 DEF ArchiveTemplate
  <2> QED
    BY <2>1, <1>0, <1>2
<1> QED
  BY <1>3, <1>4, <1>5, <1>6, <1>7, <1>8, <1>9, <1>10, <1>11, <1>12, <1>13, <1>14, <1>15
  DEF Serves

LEMMA TemplateThreadsNext ==
  ASSUME TemplatesType, \A t \in TemplateThreads : FormInv(t), [TemplateNext]_templateVars
  PROVE  TemplateThreadsType'
<1>0. TemplateStoresType /\ TemplateThreadsType
  BY DEF TemplatesType
<1>1. CASE UNCHANGED templateVars
  BY <1>0, <1>1 DEF templateVars, TemplateThreadsType
<1>2. CASE Tick
  BY <1>0, <1>2 DEF Tick, TemplateThreadsType
<1>3. CASE TemplatesRestart
  <2>1. "idle" \in TemplateSteps
    BY DEF TemplateSteps
  <2> QED
    BY <1>0, <1>3, <2>1 DEF TemplatesRestart, TemplateThreadsType
<1>4. ASSUME NEW t \in TemplateThreads, Serves(t)
      PROVE  TemplateThreadsType'
  <2>0. FormInv(t)
    OBVIOUS
  <2>1. rest' \in [creations : Nat, clones : Nat, edits : Nat, removals : Nat,
                   milliseconds : Nat, apiRestarts : Nat]
    BY <1>0, <1>4 DEF TemplateThreadsType, Serves, OpenCreate, OpenClone, OpenEdit, OpenRemoval,
       FindSharedItem, SaveSharedItem, CreateItem, FindSharedRow, SaveSharedRow, Link, CreateRow,
       ReadSharedItem, CloneItem, CountLinks, WriteCount, EditItem, EditRow, ArchiveTemplate,
       RemoveRow, Step, Last
  <2>2. countedOnce' \subseteq Methods
    <3>1. CASE Link(t) \/ WriteCount(t)
      <4>1. form[t].method \in Methods
        BY <2>0, <3>1 DEF Link, WriteCount, Step, FormInv, CloneSteps
      <4> QED
        BY <1>0, <3>1, <4>1 DEF Link, WriteCount, TemplateThreadsType
    <3>2. CASE ~Link(t) /\ ~WriteCount(t)
      BY <1>0, <1>4, <3>2 DEF TemplateThreadsType, Serves, OpenCreate, OpenClone, OpenEdit,
         OpenRemoval, Open, FindSharedItem, SaveSharedItem, CreateItem, FindSharedRow,
         SaveSharedRow, CreateRow, ReadSharedItem, CloneItem, CountLinks, EditItem, EditRow,
         ArchiveTemplate, RemoveRow
    <3> QED
      BY <3>1, <3>2
  <2>3. edited' \subseteq TemplateIds
    <3>1. CASE EditRow(t) \/ RemoveRow(t)
      <4>1. form[t].id \in TemplateIds
        BY <2>0, <3>1 DEF EditRow, RemoveRow, Last, FormInv, EditSteps
      <4> QED
        BY <1>0, <3>1, <4>1 DEF EditRow, RemoveRow, TemplateThreadsType
    <3>2. CASE ~EditRow(t) /\ ~RemoveRow(t)
      BY <1>0, <1>4, <3>2 DEF TemplateThreadsType, Serves, OpenCreate, OpenClone, OpenEdit,
         OpenRemoval, FindSharedItem, SaveSharedItem, CreateItem, FindSharedRow,
         SaveSharedRow, Link, CreateRow, ReadSharedItem, CloneItem, CountLinks, WriteCount,
         EditItem, ArchiveTemplate
    <3> QED
      BY <3>1, <3>2
  <2> DEFINE Fine == /\ runs' \in [TemplateThreads -> TemplateSteps]
                     /\ form' \in [TemplateThreads -> Forms \cup {Blank}]
                     /\ value' \in [TemplateThreads -> Nat \cup {Blank}]
                     /\ soloTemplate' \in TemplateThreads \cup {Blank}
  <2>4. CASE OpenCreate(t) \/ OpenClone(t) \/ OpenEdit(t) \/ OpenRemoval(t)
    <3>1. PICK step \in {"sharedItem", "clonedItem", "editItem", "archiveItem"}, f \in Forms :
            Open(t, step, f)
      BY <2>4, OpenForms
    <3>2. step \in TemplateSteps
      BY DEF TemplateSteps, CreateSteps, CloneSteps, EditSteps
    <3>3. Fine
      BY <1>0, <3>1, <3>2 DEF Open, TemplateThreadsType
    <3> QED
      BY <2>1, <2>2, <2>3, <3>3 DEF TemplateThreadsType
  <2>5. CASE \E from : Last(t, from)
    <3>1. "idle" \in TemplateSteps
      BY DEF TemplateSteps
    <3>2. Fine
      BY <1>0, <2>5, <3>1 DEF Last, Close, TemplateThreadsType
    <3> QED
      BY <2>1, <2>2, <2>3, <3>2 DEF TemplateThreadsType
  <2>6. CASE \E from, to, v : Goes(t, from, to, v)
    <3>1. Fine
      BY <1>0, <2>6 DEF Goes, Step, TemplateThreadsType
    <3> QED
      BY <2>1, <2>2, <2>3, <3>1 DEF TemplateThreadsType
  <2> QED
    BY <1>4, <2>0, <2>4, <2>5, <2>6, StepForms
<1> QED
  BY <1>1, <1>2, <1>3, <1>4 DEF TemplateNext, Serves

-----------------------------------------------------------------------------
LEMMA SharedRowsStay ==
  ASSUME TemplatesType, NEW t \in TemplateThreads, FormInv(t), Serves(t),
         NEW m \in Methods, sharedRows[m] # Blank
  PROVE  sharedRows'[m] # Blank
<1>0. sharedRows \in [Methods -> Nat \cup {Blank}] /\ Blank \notin Nat
  BY TemplateAssumption DEF TemplatesType, TemplateStoresType
<1>1. CASE SaveSharedRow(t)
  BY <1>0, <1>1 DEF SaveSharedRow
<1>2. CASE WriteCount(t)
  <2>1. value[t] \in Nat
    BY <1>2 DEF WriteCount, Step, FormInv
  <2> QED
    BY <1>0, <1>2, <2>1 DEF WriteCount, DaoCount
<1>3. CASE ~SaveSharedRow(t) /\ ~WriteCount(t)
  BY <1>3 DEF Serves, OpenCreate, OpenClone, OpenEdit, OpenRemoval, Open, FindSharedItem,
     SaveSharedItem, CreateItem, FindSharedRow, Link, CreateRow, ReadSharedItem, CloneItem,
     CountLinks, EditItem, EditRow, ArchiveTemplate, RemoveRow, templateStores
<1> QED
  BY <1>1, <1>2, <1>3

\* What the request that steps asks for fits its next label.
LEMMA FormSteps ==
  ASSUME TemplatesType, NEW t \in TemplateThreads, FormInv(t), Serves(t)
  PROVE  FormInv(t)'
<1>0. TemplateStoresType /\ TemplateThreadsType /\ Blank \notin Configs
  BY TemplateAssumption DEF TemplatesType
<1>1. CASE OpenCreate(t) \/ OpenClone(t) \/ OpenEdit(t) \/ OpenRemoval(t)
  <2>1. PICK step \in {"sharedItem", "clonedItem", "editItem", "archiveItem"}, f \in Forms :
          /\ Open(t, step, f)
          /\ step = "sharedItem" => f.method \in Methods /\ f.config \in Configs
          /\ step = "clonedItem" => /\ f.method \in Methods /\ f.config = Blank
                                    /\ sharedRows[f.method] # Blank
          /\ step \in {"editItem", "archiveItem"} => f.id \in TemplateIds
          /\ step = "editItem" => f.config \in Configs
    BY <1>1, OpenForms
  <2>2. runs'[t] = step /\ form'[t] = f /\ sharedRows' = sharedRows
    BY <1>0, <2>1, OpenEffect DEF Open, templateStores
  <2> QED
    BY <2>1, <2>2 DEF FormInv, CreateSteps, CloneSteps, EditSteps
<1>2. CASE \E from : Last(t, from)
  <2>1. runs'[t] = "idle"
    BY <1>0, <1>2, LastEffect
  <2> QED
    BY <2>1 DEF FormInv, CreateSteps, CloneSteps, EditSteps
<1>3. ASSUME NEW from, NEW to, NEW v, Step(t, from, to, v)
      PROVE  runs[t] = from /\ runs'[t] = to /\ form'[t] = form[t] /\ value'[t] = v
  BY <1>0, <1>3, StepEffect
<1>4. CASE \/ FindSharedItem(t) \/ SaveSharedItem(t) \/ CreateItem(t) \/ FindSharedRow(t)
  <2>1. /\ runs[t] \in CreateSteps /\ form'[t] = form[t]
        /\ runs'[t] \in CreateSteps \cup {"createRow"}
    BY <1>3, <1>4 DEF FindSharedItem, SaveSharedItem, CreateItem, FindSharedRow, CreateSteps
  <2>2. form[t] \in Forms
    BY <2>1 DEF FormInv, CreateSteps
  <2> QED
    BY <2>1, <2>2 DEF FormInv, CreateSteps, CloneSteps, EditSteps
<1>5. CASE SaveSharedRow(t)
  <2>1. runs[t] = "saveSharedRow" /\ form'[t] = form[t] /\ runs'[t] = "link"
    BY <1>3, <1>5 DEF SaveSharedRow
  <2>2. form[t] \in Forms /\ form[t].method \in Methods
    BY <2>1 DEF FormInv, CreateSteps
  <2>3. sharedRows'[form[t].method] = 1 /\ Blank # 1
    BY <1>0, <1>5, <2>2, TemplateAssumption DEF SaveSharedRow, TemplateStoresType
  <2> QED
    BY <2>1, <2>2, <2>3 DEF FormInv, CreateSteps, CloneSteps, EditSteps
<1>6. CASE Link(t) \/ ReadSharedItem(t) \/ CloneItem(t) \/ CountLinks(t)
  <2>1. /\ runs[t] \in CloneSteps \cup {"link"} /\ form'[t] = form[t]
        /\ runs'[t] \in CloneSteps \cup {"link", "createRow"}
        /\ runs'[t] \in CloneSteps => form[t].config = Blank
        /\ runs'[t] = "writeCount" => value'[t] = Cardinality(LinksOf(form[t].method))
    BY <1>3, <1>6 DEF Link, ReadSharedItem, CloneItem, CountLinks, CloneSteps, FormInv
  <2>2. form[t] \in Forms /\ form[t].method \in Methods /\ sharedRows[form[t].method] # Blank
    BY <2>1 DEF FormInv, CloneSteps
  <2>3. sharedRows'[form[t].method] # Blank
    BY <2>2, SharedRowsStay
  <2>4. Cardinality(LinksOf(form[t].method)) \in Nat
    BY <1>0, LinksCounted
  <2> QED
    BY <2>1, <2>2, <2>3, <2>4 DEF FormInv, CreateSteps, CloneSteps, EditSteps
<1>7. CASE WriteCount(t)
  <2>1. runs[t] = "writeCount" /\ form'[t] = form[t] /\ runs'[t] = "createRow"
    BY <1>3, <1>7 DEF WriteCount
  <2> QED
    BY <2>1 DEF FormInv, CreateSteps, CloneSteps, EditSteps
<1>8. CASE EditItem(t) \/ ArchiveTemplate(t)
  <2>1. /\ runs[t] \in EditSteps /\ form'[t] = form[t]
        /\ \/ runs[t] = "editItem" /\ runs'[t] = "editRow"
           \/ runs[t] = "archiveItem" /\ runs'[t] = "removeRow"
    BY <1>3, <1>8 DEF EditItem, ArchiveTemplate, EditSteps
  <2>2. form[t] \in Forms /\ form[t].id \in TemplateIds
    BY <2>1 DEF FormInv, EditSteps
  <2> QED
    BY <2>1, <2>2 DEF FormInv, CreateSteps, CloneSteps, EditSteps
<1> QED
  BY <1>1, <1>2, <1>4, <1>5, <1>6, <1>7, <1>8
  DEF Serves, CreateRow, EditRow, RemoveRow

LEMMA FormNext ==
  ASSUME TemplatesType, \A t \in TemplateThreads : FormInv(t), [TemplateNext]_templateVars
  PROVE  \A t \in TemplateThreads : FormInv(t)'
<1>1. CASE UNCHANGED templateVars \/ Tick
  <2>1. UNCHANGED <<runs, form, value, sharedRows>>
    BY <1>1 DEF templateVars, Tick, templateStores
  <2> QED
    BY <2>1 DEF FormInv
<1>2. CASE TemplatesRestart
  <2>1. \A t \in TemplateThreads : runs'[t] = "idle"
    BY <1>2 DEF TemplatesRestart
  <2> QED
    BY <2>1 DEF FormInv, CreateSteps, CloneSteps, EditSteps
<1>3. ASSUME NEW t \in TemplateThreads, Serves(t), NEW o \in TemplateThreads \ {t}
      PROVE  FormInv(o)'
  <2>1. Rests(o)
    BY <1>3, OthersRest DEF TemplatesType
  <2>2. FormInv(o) /\ FormInv(t)
    OBVIOUS
  <2>3. ASSUME runs[o] \in CloneSteps \cup {"link"}
        PROVE  sharedRows'[form[o].method] # Blank
    <3>1. form[o].method \in Methods /\ sharedRows[form[o].method] # Blank
      BY <2>2, <2>3 DEF FormInv
    <3> QED
      BY <1>3, <2>2, <3>1, SharedRowsStay
  <2> QED
    BY <2>1, <2>2, <2>3 DEF Rests, FormInv
<1>4. ASSUME NEW t \in TemplateThreads, Serves(t)
      PROVE  \A o \in TemplateThreads : FormInv(o)'
  BY <1>3, <1>4, FormSteps
<1> QED
  BY <1>1, <1>2, <1>4 DEF TemplateNext, Serves

-----------------------------------------------------------------------------
\* A request that no other has overlapped is the one that steps.
LEMMA AloneServed ==
  ASSUME TemplateInv, NEW t \in TemplateThreads, Serves(t), soloTemplate' # Blank
  PROVE  /\ soloTemplate' = t /\ Underway' = {t}
         /\ runs[t] # "idle" => soloTemplate = t
<1>0. TemplatesType /\ TemplateStoresType /\ TemplateThreadsType
  BY DEF TemplateInv, TemplatesType
<1>1. \A o \in TemplateThreads \ {t} : Rests(o)
  BY <1>0, OthersRest
<1>2. CASE OpenCreate(t) \/ OpenClone(t) \/ OpenEdit(t) \/ OpenRemoval(t)
  <2>1. PICK step \in {"sharedItem", "clonedItem", "editItem", "archiveItem"}, f \in Forms :
          Open(t, step, f)
    BY <1>0, <1>2, OpenForms
  <2>2. Underway = {} /\ soloTemplate' = t /\ runs'[t] # "idle" /\ runs[t] = "idle"
    BY <1>0, <2>1, OpenEffect DEF Open
  <2>3. Underway' = {t}
    BY <1>1, <2>2 DEF Underway, Rests
  <2> QED
    BY <2>2, <2>3
<1>3. CASE \E from : Last(t, from)
  <2>1. soloTemplate' = Blank
    BY <1>3 DEF Last, Close
  <2> QED
    BY <2>1
<1>4. CASE \E from, to, v : Goes(t, from, to, v)
  <2>1. PICK from, to, v : Goes(t, from, to, v)
    BY <1>4
  <2>2. runs[t] = from /\ runs'[t] = to /\ soloTemplate' = soloTemplate
    BY <1>0, <2>1, StepEffect DEF Goes
  <2>3. from # "idle" /\ to # "idle"
    BY <2>1 DEF Goes
  <2>4. Underway = {soloTemplate}
    BY <2>2 DEF TemplateInv
  <2>5. soloTemplate = t
    BY <2>2, <2>3, <2>4 DEF Underway
  <2>6. Underway' = {t}
    BY <1>1, <2>2, <2>3, <2>4, <2>5 DEF Underway, Rests
  <2> QED
    BY <2>2, <2>5, <2>6
<1> QED
  BY <1>0, <1>2, <1>3, <1>4, StepForms

LEMMA AloneSteps ==
  ASSUME TemplateInv, NEW t \in TemplateThreads, Serves(t), soloTemplate' # Blank
  PROVE  AloneInv(t)'
<1> DEFINE f == form[t]
<1>0. /\ TemplatesType /\ TemplateStoresType /\ TemplateThreadsType /\ SharedInv /\ FormInv(t)
      /\ Blank \notin Configs
  BY TemplateAssumption DEF TemplateInv, TemplatesType
<1>1. runs[t] # "idle" => AloneInv(t)
  BY AloneServed DEF TemplateInv
<1>2. links' = links => LinksOf(f.method)' = LinksOf(f'.method)
  BY DEF LinksOf
<1>3. ASSUME NEW from, NEW to, NEW v, Step(t, from, to, v)
      PROVE  runs[t] = from /\ runs'[t] = to /\ f' = f /\ value'[t] = v
  BY <1>0, <1>3, StepEffect
<1>4. CASE OpenCreate(t) \/ OpenClone(t) \/ OpenEdit(t) \/ OpenRemoval(t)
  <2>1. PICK step \in {"sharedItem", "clonedItem", "editItem", "archiveItem"}, g \in Forms :
          Open(t, step, g)
    BY <1>0, <1>4, OpenForms
  <2>2. runs'[t] \in {"sharedItem", "clonedItem", "editItem", "archiveItem"}
    BY <1>0, <2>1, OpenEffect
  <2> QED
    BY <2>2 DEF AloneInv
<1>5. CASE \/ FindSharedItem(t) \/ SaveSharedItem(t) \/ CreateItem(t) \/ Link(t)
           \/ WriteCount(t)
  <2>1. runs'[t] \in {"saveSharedItem", "createItem", "sharedRow", "count", "createRow"}
    BY <1>3, <1>5 DEF FindSharedItem, SaveSharedItem, CreateItem, Link, WriteCount
  <2> QED
    BY <2>1 DEF AloneInv
<1>6. CASE \E from : Last(t, from)
  <2>1. runs'[t] = "idle"
    BY <1>0, <1>6, LastEffect
  <2> QED
    BY <2>1 DEF AloneInv
<1>7. CASE FindSharedRow(t)
  <2>1. runs[t] = "sharedRow" /\ f' = f /\ links' = links
        /\ runs'[t] = IF sharedRows[f.method] = Blank THEN "saveSharedRow" ELSE "createRow"
    BY <1>3, <1>7 DEF FindSharedRow, templateStores
  <2>2. f.method \in Methods
    BY <1>0, <2>1 DEF FormInv, CreateSteps
  <2>3. sharedRows[f.method] = Blank => LinksOf(f.method) = {}
    BY <1>0, <2>2 DEF SharedInv
  <2>4. LinksOf(f.method)' = LinksOf(f.method)
    BY <1>2, <2>1
  <2>5. CASE sharedRows[f.method] = Blank
    <3>1. runs'[t] = "saveSharedRow"
      BY <2>1, <2>5
    <3> QED
      BY <2>3, <2>4, <2>5, <3>1 DEF AloneInv
  <2>6. CASE sharedRows[f.method] # Blank
    <3>1. runs'[t] = "createRow"
      BY <2>1, <2>6
    <3> QED
      BY <3>1 DEF AloneInv
  <2> QED
    BY <2>5, <2>6
<1>8. CASE SaveSharedRow(t)
  <2>1. runs[t] = "saveSharedRow" /\ runs'[t] = "link" /\ f' = f /\ links' = links
    BY <1>3, <1>8 DEF SaveSharedRow
  <2>2. f.method \in Methods
    BY <1>0, <2>1 DEF FormInv, CreateSteps
  <2>3. LinksOf(f.method) = {}
    BY <1>1, <2>1 DEF AloneInv
  <2>4. LinksOf(f.method)' = {}
    BY <1>2, <2>1, <2>3
  <2>5. sharedRows'[f.method] = 1
    BY <1>0, <1>8, <2>2 DEF SaveSharedRow, TemplateStoresType
  <2> QED
    BY <2>1, <2>4, <2>5 DEF AloneInv
<1>9. CASE ReadSharedItem(t) \/ CloneItem(t)
  <2>1. runs[t] \in CloneSteps /\ runs'[t] \in {"link", "cloneItem"} /\ f' = f
    BY <1>3, <1>9 DEF ReadSharedItem, CloneItem, CloneSteps
  <2>2. f.config = Blank
    BY <1>0, <2>1 DEF FormInv
  <2> QED
    BY <2>1, <2>2 DEF AloneInv
<1>10. CASE CountLinks(t)
  <2>1. /\ runs'[t] = "writeCount" /\ f' = f /\ links' = links
        /\ value'[t] = Cardinality(LinksOf(f.method))
    BY <1>3, <1>10 DEF CountLinks, templateStores
  <2>2. LinksOf(f.method)' = LinksOf(f.method)
    BY <1>2, <2>1
  <2> QED
    BY <2>1, <2>2 DEF AloneInv
<1>11. CASE EditItem(t)
  <2> DEFINE old == templateItems[f.id]
             new == IF old = Blank THEN Template(f.config) ELSE [old EXCEPT !.config = f.config]
  <2>1. runs[t] = "editItem" /\ runs'[t] = "editRow" /\ f' = f
    BY <1>3, <1>11 DEF EditItem
  <2>2. f.id \in TemplateIds /\ f.config \in Configs
    BY <1>0, <2>1 DEF FormInv, EditSteps
  <2>3. old \in Sheets \cup {Blank}
    BY <1>0, <2>2 DEF TemplateStoresType
  <2>4. new \in Sheets
    BY <2>2, <2>3, SheetTypes
  <2>5. new.config = f.config
    BY <2>2, <2>3 DEF Template, Sheets
  <2>6. templateItems'[f.id] = new
    BY <1>0, <1>11, <2>2 DEF EditItem, TemplateStoresType
  <2> HIDE DEF new
  <2> QED
    BY <2>1, <2>4, <2>5, <2>6 DEF AloneInv, Sheets
<1>12. CASE ArchiveTemplate(t)
  <2> DEFINE old == templateItems[f.id]
             new == [(IF old = Blank THEN Template(Blank) ELSE old) EXCEPT !.archived = TRUE]
  <2>1. runs[t] = "archiveItem" /\ runs'[t] = "removeRow" /\ f' = f
    BY <1>3, <1>12 DEF ArchiveTemplate
  <2>2. f.id \in TemplateIds
    BY <1>0, <2>1 DEF FormInv, EditSteps
  <2>3. old \in Sheets \cup {Blank}
    BY <1>0, <2>2 DEF TemplateStoresType
  <2>4. new \in Sheets
    BY <2>3, SheetTypes
  <2>5. new.archived = TRUE
    BY <2>3 DEF Template, Sheets
  <2>6. templateItems'[f.id] = new
    BY <1>0, <1>12, <2>2 DEF ArchiveTemplate, TemplateStoresType
  <2> HIDE DEF new
  <2> QED
    BY <2>1, <2>4, <2>5, <2>6 DEF AloneInv, Sheets
<1> QED
  BY <1>4, <1>5, <1>6, <1>7, <1>8, <1>9, <1>10, <1>11, <1>12
  DEF Serves, CreateRow, EditRow, RemoveRow

LEMMA AloneNext ==
  ASSUME TemplateInv, [TemplateNext]_templateVars, soloTemplate' # Blank
  PROVE  Underway' = {soloTemplate'} /\ AloneInv(soloTemplate)'
<1>1. CASE UNCHANGED templateVars \/ Tick
  <2>1. UNCHANGED <<runs, form, value, soloTemplate, links, sharedRows, templateItems>>
    BY <1>1 DEF templateVars, Tick, templateStores
  <2>2. \A m : LinksOf(m)' = LinksOf(m)
    BY <2>1 DEF LinksOf
  <2>3. Underway = {soloTemplate} /\ AloneInv(soloTemplate)
    BY <2>1 DEF TemplateInv
  <2>4. LinksOf(form[soloTemplate].method)' = LinksOf(form[soloTemplate].method)
    BY <2>1 DEF LinksOf
  <2> QED
    BY <2>1, <2>3, <2>4 DEF Underway, AloneInv
<1>2. CASE TemplatesRestart
  BY <1>2 DEF TemplatesRestart
<1>3. ASSUME NEW t \in TemplateThreads, Serves(t)
      PROVE  Underway' = {soloTemplate'} /\ AloneInv(soloTemplate)'
  <2>1. soloTemplate' = t /\ Underway' = {t}
    BY <1>3, AloneServed
  <2>2. AloneInv(t)'
    BY <1>3, AloneSteps
  <2> QED
    BY <2>1, <2>2 DEF AloneInv
<1> QED
  BY <1>1, <1>2, <1>3 DEF TemplateNext, Serves

-----------------------------------------------------------------------------
LEMMA SharedSteps ==
  ASSUME TemplateInv, NEW t \in TemplateThreads, Serves(t)
  PROVE  SharedInv'
<1> DEFINE f == form[t]
<1>a. PICK m : m = f.method
  OBVIOUS
<1>0. /\ TemplatesType /\ TemplateStoresType /\ TemplateThreadsType /\ SharedInv /\ FormInv(t)
      /\ Blank \notin TemplateThreads
  BY TemplateAssumption DEF TemplateInv, TemplatesType
<1>1. soloTemplate = t => AloneInv(t)
  BY <1>0 DEF TemplateInv
<1>2. countedOnce \subseteq Methods /\ sharedRows \in [Methods -> Nat \cup {Blank}]
  BY <1>0 DEF TemplateThreadsType, TemplateStoresType
<1>3. CASE SaveSharedRow(t)
  <2>1. /\ sharedRows' = [sharedRows EXCEPT ![m] = 1] /\ links' = links
        /\ countedOnce' = countedOnce \ {m} /\ runs[t] = "saveSharedRow"
    BY <1>3, <1>a DEF SaveSharedRow, Step
  <2>2. m \in Methods
    BY <1>0, <1>a, <2>1 DEF FormInv, CreateSteps
  <2>3. \A n : LinksOf(n)' = LinksOf(n)
    BY <2>1 DEF LinksOf
  <2>4. ASSUME NEW n \in Methods, sharedRows'[n] = Blank
        PROVE  LinksOf(n)' = {}
    <3>1. sharedRows[n] = Blank
      BY <1>0, <1>3, <2>4, SharedRowsStay DEF Serves
    <3> QED
      BY <1>0, <2>3, <3>1 DEF SharedInv
  <2>5. ASSUME NEW n \in countedOnce'
        PROVE  sharedRows'[n] = Cardinality(LinksOf(n))'
    <3>1. n \in countedOnce /\ n # m /\ n \in Methods
      BY <1>2, <2>1, <2>5
    <3>2. sharedRows'[n] = sharedRows[n]
      BY <1>2, <2>1, <3>1
    <3>3. sharedRows[n] = Cardinality(LinksOf(n)) /\ LinksOf(n)' = LinksOf(n)
      BY <1>0, <2>3, <3>1 DEF SharedInv
    <3> QED
      BY <3>2, <3>3
  <2> QED
    BY <2>4, <2>5 DEF SharedInv
<1>4. CASE Link(t)
  <2>1. /\ links' = links \cup {<<m, f.house>>} /\ sharedRows' = sharedRows
        /\ runs[t] = "link"
        /\ countedOnce' = IF f.config # Blank /\ soloTemplate = t THEN countedOnce \cup {m}
                          ELSE countedOnce \ {m}
    BY <1>4, <1>a DEF Link, Step
  <2>2. m \in Methods /\ sharedRows[m] # Blank
    BY <1>0, <1>a, <2>1 DEF FormInv
  <2>a. PICK h : h = f.house
    OBVIOUS
  <2>3. \A n : n # m => LinksOf(n)' = LinksOf(n)
    BY <2>1 DEF LinksOf
  <2>4. LinksOf(m)' = LinksOf(m) \cup {<<m, h>>}
    BY <2>1, <2>a DEF LinksOf
  <2>5. \A n \in Methods : sharedRows'[n] = Blank => LinksOf(n)' = {}
    BY <1>0, <2>1, <2>2, <2>3 DEF SharedInv
  <2>6. ASSUME NEW n \in countedOnce', n # m
        PROVE  sharedRows'[n] = Cardinality(LinksOf(n))'
    <3>1. n \in countedOnce
      BY <2>1, <2>6
    <3>2. LinksOf(n)' = LinksOf(n) /\ sharedRows[n] = Cardinality(LinksOf(n))
      BY <1>0, <2>3, <2>6, <3>1 DEF SharedInv
    <3> QED
      BY <2>1, <3>2
  <2>7. ASSUME m \in countedOnce'
        PROVE  sharedRows'[m] = Cardinality(LinksOf(m)')
    <3>1. f.config # Blank /\ soloTemplate = t
      BY <2>1, <2>7
    <3>2. LinksOf(m) = {} /\ sharedRows[m] = 1
      BY <1>1, <1>a, <2>1, <3>1 DEF AloneInv
    <3>3. LinksOf(m)' = {<<m, h>>}
      BY <2>4, <3>2
    <3>4. Cardinality({<<m, h>>}) = 1
      BY FS_Singleton
    <3> QED
      BY <2>1, <3>2, <3>3, <3>4
  <2>8. \A n \in countedOnce' : sharedRows'[n] = Cardinality({l \in links' : l[1] = n})
    BY <2>6, <2>7 DEF LinksOf
  <2> QED
    BY <2>5, <2>8 DEF SharedInv, LinksOf
<1>5. CASE WriteCount(t)
  <2>1. /\ sharedRows' = [sharedRows EXCEPT ![m] = value[t]] /\ links' = links
        /\ runs[t] = "writeCount"
        /\ countedOnce' = IF soloTemplate = t THEN countedOnce \cup {m} ELSE countedOnce \ {m}
    BY <1>5, <1>a DEF WriteCount, Step, DaoCount
  <2>2. m \in Methods
    BY <1>0, <1>a, <2>1 DEF FormInv, CloneSteps
  <2>3. \A n : LinksOf(n)' = LinksOf(n)
    BY <2>1 DEF LinksOf
  <2>4. ASSUME NEW n \in Methods, sharedRows'[n] = Blank
        PROVE  LinksOf(n)' = {}
    <3>1. sharedRows[n] = Blank
      BY <1>0, <1>5, <2>4, SharedRowsStay DEF Serves
    <3> QED
      BY <1>0, <2>3, <3>1 DEF SharedInv
  <2>5. ASSUME NEW n \in countedOnce'
        PROVE  sharedRows'[n] = Cardinality(LinksOf(n))
    <3>1. CASE n # m
      BY <1>0, <1>2, <2>1, <3>1 DEF SharedInv
    <3>2. CASE n = m
      <4>1. soloTemplate = t
        BY <2>1, <2>5, <3>2
      <4>2. value[t] = Cardinality(LinksOf(m))
        BY <1>1, <1>a, <2>1, <4>1 DEF AloneInv
      <4> QED
        BY <1>2, <2>1, <2>2, <3>2, <4>2
    <3> QED
      BY <3>1, <3>2
  <2>6. \A n \in countedOnce' : sharedRows'[n] = Cardinality(LinksOf(n)')
    BY <2>3, <2>5
  <2> QED
    BY <2>4, <2>6 DEF SharedInv
<1>6. CASE ~SaveSharedRow(t) /\ ~Link(t) /\ ~WriteCount(t)
  <2>1. UNCHANGED <<sharedRows, links, countedOnce>>
    BY <1>6 DEF Serves, OpenCreate, OpenClone, OpenEdit, OpenRemoval, Open, FindSharedItem,
       SaveSharedItem, CreateItem, FindSharedRow, CreateRow, ReadSharedItem, CloneItem,
       CountLinks, EditItem, EditRow, ArchiveTemplate, RemoveRow, templateStores
  <2> QED
    BY <1>0, <2>1 DEF SharedInv, LinksOf
<1> QED
  BY <1>3, <1>4, <1>5, <1>6

\* What the request that steps adds to the templates last changed by one alone.
LEMMA EditedSteps ==
  ASSUME TemplateInv, NEW t \in TemplateThreads, Serves(t)
  PROVE  EditedInv'
<1> DEFINE f == form[t]
           Elsewhere(i) == \A o \in TemplateThreads \ {t} : runs'[o] \in EditSteps =>
                                                             form'[o].id # i
<1>0. /\ TemplatesType /\ TemplateStoresType /\ TemplateThreadsType /\ EditedInv /\ FormInv(t)
      /\ Blank \notin TemplateThreads \cup Sheets
  BY TemplateAssumption, SheetTypes DEF TemplateInv, TemplatesType
<1>1. \A o \in TemplateThreads \ {t} : Rests(o)
  BY <1>0, OthersRest
<1>2. \A i \in edited : TemplateShown(i) /\ Elsewhere(i)
  BY <1>0, <1>1 DEF EditedInv, Rests
<1>3. ASSUME NEW i \in edited', i \in edited, TemplateShown(i)',
             runs'[t] \in EditSteps => form'[t].id # i
      PROVE  /\ TemplateShown(i)'
             /\ \A o \in TemplateThreads : runs'[o] \in EditSteps => form'[o].id # i
  BY <1>2, <1>3
<1>4. CASE OpenCreate(t) \/ OpenClone(t) \/ OpenEdit(t) \/ OpenRemoval(t)
  <2>1. PICK step \in {"sharedItem", "clonedItem", "editItem", "archiveItem"}, g \in Forms :
          /\ Open(t, step, g)
          /\ step \in {"editItem", "archiveItem"} => edited' = edited \ {g.id}
          /\ step \in {"sharedItem", "clonedItem"} => edited' = edited
    BY <1>0, <1>4, OpenForms
  <2>2. /\ runs'[t] = step /\ form'[t] = g
        /\ templateItems' = templateItems /\ templateRows' = templateRows
    BY <1>0, <2>1, OpenEffect DEF Open, templateStores
  <2>3. ASSUME NEW i \in edited'
        PROVE  i \in edited /\ TemplateShown(i)' /\ (runs'[t] \in EditSteps => form'[t].id # i)
    BY <1>2, <2>1, <2>2, <2>3 DEF TemplateShown, EditSteps
  <2> QED
    BY <1>3, <2>3 DEF EditedInv
<1>5. CASE CreateItem(t) \/ CloneItem(t) \/ CreateRow(t)
  <2> DEFINE j == TemplateId(f.house)
  <2>1. /\ edited' = edited \ {j} /\ runs'[t] \notin EditSteps
        /\ \A i \in TemplateIds \ {j} : templateItems'[i] = templateItems[i]
                                        /\ templateRows'[i] = templateRows[i]
    <3>1. CASE CreateItem(t)
      BY <1>0, <1>5, <3>1, StepEffect
      DEF CreateItem, EditSteps, TemplateStoresType
    <3>2. CASE CloneItem(t)
      BY <1>0, <1>5, <3>2, StepEffect
      DEF CloneItem, EditSteps, TemplateStoresType
    <3>3. CASE CreateRow(t)
      BY <1>0, <1>5, <3>3, LastEffect
      DEF CreateRow, EditSteps, TemplateStoresType
    <3> QED
      BY <1>5, <3>1, <3>2, <3>3
  <2>2. ASSUME NEW i \in edited'
        PROVE  i \in edited /\ TemplateShown(i)'
    <3>1. i \in edited /\ i \in TemplateIds \ {j}
      BY <1>0, <2>1, <2>2 DEF TemplateThreadsType
    <3>2. templateItems'[i] = templateItems[i] /\ templateRows'[i] = templateRows[i]
      BY <2>1, <3>1
    <3> QED
      BY <1>2, <3>1, <3>2 DEF TemplateShown
  <2> QED
    BY <1>3, <2>1, <2>2 DEF EditedInv
<1>6. CASE EditItem(t) \/ ArchiveTemplate(t)
  <2>1. /\ runs[t] \in EditSteps /\ form'[t] = f /\ edited' = edited
        /\ templateRows' = templateRows
    BY <1>0, <1>6, StepEffect DEF EditItem, ArchiveTemplate, EditSteps
  <2>2. \A i \in TemplateIds \ {f.id} : templateItems'[i] = templateItems[i]
    BY <1>0, <1>6 DEF EditItem, ArchiveTemplate, TemplateStoresType
  <2>3. ASSUME NEW i \in edited'
        PROVE  i \in edited /\ TemplateShown(i)' /\ form'[t].id # i
    <3>1. i \in edited /\ i \in TemplateIds /\ f.id # i
      BY <1>0, <2>1 DEF EditedInv, TemplateThreadsType
    <3>2. templateItems'[i] = templateItems[i]
      BY <2>2, <3>1
    <3> QED
      BY <1>2, <2>1, <3>1, <3>2 DEF TemplateShown
  <2> QED
    BY <1>3, <2>3 DEF EditedInv
<1>7. CASE EditRow(t) \/ RemoveRow(t)
  <2>a. PICK j : j = f.id
    OBVIOUS
  <2>1. /\ runs'[t] = "idle" /\ templateItems' = templateItems
        /\ edited' = IF soloTemplate = t THEN edited \cup {j} ELSE edited \ {j}
        /\ runs[t] \in {"editRow", "removeRow"}
    BY <1>0, <1>7, <2>a, LastEffect DEF EditRow, RemoveRow
  <2>2. j \in TemplateIds
    BY <1>0, <2>a, <2>1 DEF FormInv, EditSteps
  <2>3. \A i \in TemplateIds \ {j} : templateRows'[i] = templateRows[i]
    BY <1>0, <1>7, <2>a DEF EditRow, RemoveRow, TemplateStoresType
  <2>4. runs'[t] \notin EditSteps
    BY <2>1 DEF EditSteps
  <2>5. ASSUME NEW i \in edited', i # j
        PROVE  i \in edited /\ TemplateShown(i)'
    <3>1. i \in edited /\ i \in TemplateIds
      BY <1>0, <2>1, <2>5 DEF TemplateThreadsType
    <3>2. templateRows'[i] = templateRows[i]
      BY <2>3, <2>5, <3>1
    <3> QED
      BY <1>2, <2>1, <3>1, <3>2 DEF TemplateShown
  <2>6. ASSUME j \in edited'
        PROVE  TemplateShown(j)' /\ \A o \in TemplateThreads : runs'[o] \notin EditSteps
    <3>1. soloTemplate = t
      BY <2>1, <2>6
    <3>2. Underway = {t} /\ AloneInv(t)
      BY <1>0, <3>1 DEF TemplateInv
    <3>3. \A o \in TemplateThreads \ {t} : runs'[o] = "idle"
      BY <1>1, <3>2 DEF Underway, Rests
    <3>4. \A o \in TemplateThreads : runs'[o] \notin EditSteps
      BY <2>4, <3>3 DEF EditSteps
    <3>5. CASE EditRow(t)
      <4>1. runs[t] = "editRow" /\ templateRows'[j] = Template(f.config)
        BY <1>0, <2>a, <2>2, <3>5 DEF EditRow, Last, TemplateStoresType
      <4>2. Template(f.config).config = f.config /\ Template(f.config) # Blank
        BY <1>0, <4>1, SheetTypes DEF FormInv, Template
      <4>3. templateItems[j].config = f.config
        BY <2>a, <3>2, <4>1 DEF AloneInv
      <4>4. TemplateShown(j)'
        BY <2>1, <4>1, <4>2, <4>3 DEF TemplateShown
      <4> QED
        BY <3>4, <4>4
    <3>6. CASE RemoveRow(t)
      <4>1. runs[t] = "removeRow" /\ templateRows'[j] = Blank
        BY <1>0, <2>a, <2>2, <3>6 DEF RemoveRow, Last, TemplateStoresType
      <4>2. templateItems[j].archived
        BY <2>a, <3>2, <4>1 DEF AloneInv
      <4>3. TemplateShown(j)'
        BY <2>1, <4>1, <4>2 DEF TemplateShown
      <4> QED
        BY <3>4, <4>3
    <3> QED
      BY <1>7, <3>5, <3>6
  <2> QED
    BY <1>3, <2>4, <2>5, <2>6 DEF EditedInv
<1>8. CASE \/ FindSharedItem(t) \/ SaveSharedItem(t) \/ FindSharedRow(t) \/ SaveSharedRow(t)
           \/ Link(t) \/ ReadSharedItem(t) \/ CountLinks(t) \/ WriteCount(t)
  <2>1. UNCHANGED <<templateItems, templateRows, edited>>
    BY <1>8 DEF FindSharedItem, SaveSharedItem, FindSharedRow, SaveSharedRow, Link,
       ReadSharedItem, CountLinks, WriteCount, templateStores
  <2>2. runs'[t] \in CreateSteps \cup CloneSteps \cup {"link", "createRow"}
    BY <1>0, <1>8, StepEffect DEF FindSharedItem, SaveSharedItem, FindSharedRow, SaveSharedRow,
       Link, ReadSharedItem, CountLinks, WriteCount, CreateSteps, CloneSteps
  <2>3. runs'[t] \notin EditSteps
    BY <2>2 DEF CreateSteps, CloneSteps, EditSteps
  <2> QED
    BY <1>2, <1>3, <2>1, <2>3 DEF EditedInv, TemplateShown
<1> QED
  BY <1>4, <1>5, <1>6, <1>7, <1>8 DEF Serves

LEMMA SharedAndEditedNext ==
  ASSUME TemplateInv, [TemplateNext]_templateVars
  PROVE  SharedInv' /\ EditedInv'
<1>0. SharedInv /\ EditedInv
  BY DEF TemplateInv
<1>1. CASE UNCHANGED templateVars \/ Tick
  <2>1. UNCHANGED <<runs, form, links, sharedRows, templateItems, templateRows, countedOnce, edited>>
    BY <1>1 DEF templateVars, Tick, templateStores
  <2> QED
    BY <1>0, <2>1 DEF SharedInv, LinksOf, EditedInv, TemplateShown
<1>2. CASE TemplatesRestart
  <2>1. /\ UNCHANGED <<links, sharedRows, templateItems, templateRows, countedOnce>>
        /\ edited' \subseteq edited
        /\ \A t \in TemplateThreads : runs'[t] = "idle"
    BY <1>2 DEF TemplatesRestart, templateStores
  <2>2. "idle" \notin EditSteps
    BY DEF EditSteps
  <2>3. SharedInv'
    BY <1>0, <2>1 DEF SharedInv, LinksOf
  <2>4. EditedInv'
    BY <1>0, <2>1, <2>2 DEF EditedInv, TemplateShown
  <2> QED
    BY <2>3, <2>4
<1>3. ASSUME NEW t \in TemplateThreads, Serves(t)
      PROVE  SharedInv' /\ EditedInv'
  BY <1>3, SharedSteps, EditedSteps
<1> QED
  BY <1>1, <1>2, <1>3 DEF TemplateNext, Serves

LEMMA TemplateInitial == TemplateInit => TemplateInv
<1> SUFFICES ASSUME TemplateInit
             PROVE  TemplateInv
  OBVIOUS
<1>1. TemplateStoresType
  <2>1. IsFiniteSet({})
    BY FS_EmptySet
  <2> QED
    BY <2>1 DEF TemplateInit, TemplateStoresType
<1>2. TemplateThreadsType
  <2>1. "idle" \in TemplateSteps
    BY DEF TemplateSteps
  <2> QED
    BY <2>1, TemplateAssumption DEF TemplateInit, TemplateThreadsType
<1>3. \A t \in TemplateThreads : FormInv(t)
  BY DEF TemplateInit, FormInv, CreateSteps, CloneSteps, EditSteps
<1>4. SharedInv /\ EditedInv
  BY DEF TemplateInit, SharedInv, EditedInv, LinksOf
<1> QED
  BY <1>1, <1>2, <1>3, <1>4 DEF TemplateInit, TemplateInv, TemplatesType

\* What is true of the templates whatever the requests of the councils, their
\* interleaving and the restarts: the requests fit the code that serves them, a
\* shared template that is cloned has a row, and one served alone finds what it
\* has read unchanged (SharedProposalTemplateService, ProposalTemplateController).
THEOREM TemplateInvariant == TemplateSpec => []TemplateInv
<1>1. ASSUME TemplateInv, [TemplateNext]_templateVars
      PROVE  TemplateInv'
  <2>0. TemplatesType /\ \A t \in TemplateThreads : FormInv(t)
    BY <1>1 DEF TemplateInv
  <2>1. TemplatesType'
    BY <1>1, <2>0, TemplateStoresNext, TemplateThreadsNext DEF TemplatesType
  <2>2. \A t \in TemplateThreads : FormInv(t)'
    BY <1>1, <2>0, FormNext
  <2>3. soloTemplate' # Blank => Underway' = {soloTemplate'} /\ AloneInv(soloTemplate)'
    BY <1>1, AloneNext
  <2>4. SharedInv' /\ EditedInv'
    BY <1>1, SharedAndEditedNext
  <2> QED
    BY <2>1, <2>2, <2>3, <2>4 DEF TemplateInv
<1> QED
  BY <1>1, TemplateInitial, PTL DEF TemplateSpec

\* However many councils create, clone, change and remove templates at once, and
\* however often the API restarts: a shared template whose links one request alone
\* changed last shows how many DAOs have it, and a template one request alone
\* changed or removed last is the same, or archived, in DynamoDB
\* (SharedProposalTemplateService.cloneToDao, ProposalTemplateController).
THEOREM TemplatesAreShown == TemplateSpec => []TemplatesShown
<1>1. TemplateInv => TemplatesShown
  BY DEF TemplateInv, SharedInv, EditedInv, TemplateShown, TemplatesShown
<1> QED
  BY <1>1, TemplateInvariant, PTL

(***************************************************************************)
(* Draft comments                                                          *)
(***************************************************************************)
\* What the two stores hold, and what a request asks, when n comments have been made.
DraftDocs(n) == [author : Drafters, text : Texts, replyTo : (1 .. n) \cup {Gone},
                 likes : SUBSET Drafters, dislikes : SUBSET Drafters]

DraftItems(n) == [author : Drafters, text : Texts, replyTo : (1 .. n) \cup {Gone},
                  likes : SUBSET Drafters, dislikes : SUBSET Drafters, archived : BOOLEAN]

DraftAsks(n) == [op : RemarkOps \cup {"create"}, who : Drafters, comment : (1 .. n) \cup {Gone},
                 replyTo : (1 .. n) \cup {Gone}, text : Texts]

CreatingSteps == {"insert", "count", "writeReplies", "insertItem", "readReplies", "saveReplies"}
DeletingSteps == {"item", "saveItem", "readReplies", "saveReplies", "document", "findReplies",
                  "remove", "count", "writeReplies"}
ChangingSteps == {"item", "saveItem", "document", "saveDocument"}

RemarksType ==
  /\ documents \in Seq(DraftDocs(Len(documents)) \cup {Gone})
  /\ remarkItems \in Seq(DraftItems(Len(documents)) \cup {Gone})
  /\ Len(remarkItems) = Len(documents)
  /\ replies \in Nat /\ repliesItem \in Int

DraftThreadsType ==
  /\ doing \in [DraftThreads -> CreatingSteps \cup DeletingSteps \cup ChangingSteps \cup {"idle"}]
  /\ wants \in [DraftThreads -> DraftAsks(Len(documents)) \cup {Gone}]
  /\ read = [t \in DraftThreads |-> read[t]]
  /\ quota \in [remarks : Nat, asked : SUBSET RemarkOps, changes : Nat, by : SUBSET Drafters,
                together : BOOLEAN, draftRestarts : Nat]
  /\ soloDraft \in DraftThreads \cup {Gone}
  /\ repaired \in BOOLEAN /\ exactItem \in BOOLEAN
  /\ tangled \subseteq RemarkIds

\* What request t asks and has read, by what it does next.
WantInv(t) ==
  LET q == wants[t] IN
  doing[t] # "idle" =>
    /\ q \in DraftAsks(Len(documents))
    /\ doing[t] # "insert" => q.comment \in RemarkIds
    /\ q.op = "create" => doing[t] \in CreatingSteps
    /\ q.op = "delete" => doing[t] \in DeletingSteps
    /\ q.op \in ListOps \cup {"update"} => doing[t] \in ChangingSteps
    /\ doing[t] = "insert" => q.comment = Gone
    /\ doing[t] = "writeReplies" => read[t] \in Nat
    /\ doing[t] = "saveReplies" => read[t] \in Int
    /\ doing[t] = "saveItem" => /\ remarkItems[q.comment] # Gone
                                /\ read[t] \in DraftItems(Len(documents))
    /\ doing[t] = "saveDocument" => read[t] \in DraftDocs(Len(documents))
    /\ doing[t] = "remove" =>
         /\ q.comment \in read[t] /\ read[t] \subseteq RemarkIds
         /\ \A c \in read[t] : c \in Concerns(q) \/ documents[c] = Gone \/ c \in tangled

\* Two requests about one comment, or a change of a comment that another deletes.
TangleInv ==
  \A t, o \in DraftThreads :
    (t # o /\ doing[t] # "idle" /\ doing[o] # "idle" /\ doing[t] # "insert") =>
      /\ wants[t].comment = wants[o].comment => wants[t].comment \in tangled
      /\ (wants[t].op # "create" /\ wants[t].comment \in Concerns(wants[o])) =>
           wants[t].comment \in tangled

Matches(item, doc) ==
  /\ item # Gone /\ ~item.archived
  /\ item.author = doc.author /\ item.text = doc.text /\ item.replyTo = doc.replyTo
  /\ item.likes = doc.likes /\ item.dislikes = doc.dislikes

\* The comment replied to, p, is gone, or two requests have changed it.
Orphan(p) == p # Gone /\ (documents[p] = Gone \/ p \in tangled)

Agrees(c) ==
  LET doc == documents[c]
      item == remarkItems[c]
  IN  IF doc = Gone THEN item # Gone => item.archived \/ Orphan(item.replyTo)
      ELSE Matches(item, doc)

\* A comment that has no item yet, and a document as created unless it is gone
\* with the one it replies to.
Created(q, c) ==
  /\ remarkItems[c] = Gone
  /\ IF documents[c] = Gone THEN Orphan(q.replyTo)
     ELSE documents[c] = [author |-> q.who, text |-> q.text, replyTo |-> q.replyTo,
                          likes |-> {}, dislikes |-> {}]

\* How far request t, the only one about comment c, has brought the two stores.
HalfServed(t, c) ==
  LET q == wants[t]
      doc == documents[c]
      item == remarkItems[c]
  IN
  /\ q.op = "create" =>
       IF doing[t] \in {"readReplies", "saveReplies"} THEN Agrees(c) ELSE Created(q, c)
  /\ doing[t] \in {"item", "saveItem"} => Agrees(c)
  /\ doing[t] = "saveItem" => read[t] = item
  /\ (q.op = "delete" /\ doing[t] \notin {"item", "saveItem"}) =>
       /\ item # Gone /\ item.archived
       /\ doing[t] \in {"count", "writeReplies"} => doc = Gone
  /\ (q.op \in ListOps \cup {"update"} /\ doing[t] \in {"document", "saveDocument"}) =>
       IF doc = Gone THEN Agrees(c) ELSE Matches(item, Rewritten(q, doc, doc))
  /\ doing[t] = "saveDocument" => doc # Gone /\ read[t] = doc

AgreeInv ==
  \A c \in RemarkIds \ tangled :
    /\ (\A t \in DraftServed : wants[t].comment # c) => Agrees(c)
    /\ \A t \in DraftServed : wants[t].comment = c => HalfServed(t, c)

\* What a request alone has counted, and what it has yet to add to the number in
\* DynamoDB.
Owed ==
  LET t == soloDraft IN
  IF DraftServed # {} /\ doing[t] \in {"readReplies", "saveReplies"}
  THEN IF wants[t].op = "delete" THEN -1 ELSE 1
  ELSE 0

\* The number in DynamoDB is exact but for what the only request has yet to add.
ExactInv ==
  exactItem => /\ DraftServed # {} => soloDraft # Gone
               /\ repliesItem + Owed = Cardinality(Live)
               /\ (DraftServed # {} /\ doing[soloDraft] = "saveReplies") =>
                     read[soloDraft] = repliesItem
               /\ (DraftServed # {} /\ doing[soloDraft] \in {"count", "writeReplies", "insertItem"}
                     /\ wants[soloDraft].op = "create") =>
                     remarkItems[wants[soloDraft].comment] = Gone

RepliesInv ==
  /\ soloDraft # Gone => DraftServed = {soloDraft}
  /\ (soloDraft # Gone /\ doing[soloDraft] = "writeReplies") =>
        read[soloDraft] = Cardinality(Shown)
  /\ repaired => replies = Cardinality(Shown)
  /\ ExactInv

DraftCommentInv ==
  /\ RemarksType /\ DraftThreadsType
  /\ \A t \in DraftThreads : WantInv(t)
  /\ TangleInv
  /\ AgreeInv
  /\ RepliesInv

-----------------------------------------------------------------------------
LEMMA RemarkFacts ==
  ASSUME RemarksType
  PROVE  /\ Len(documents) \in Nat /\ RemarkIds = 1 .. Len(documents)
         /\ documents \in [RemarkIds -> DraftDocs(Len(documents)) \cup {Gone}]
         /\ remarkItems \in [RemarkIds -> DraftItems(Len(documents)) \cup {Gone}]
<1>1. Len(documents) \in Nat /\ RemarkIds = 1 .. Len(documents)
  BY LenProperties DEF RemarksType, RemarkIds
<1>2. documents \in [RemarkIds -> DraftDocs(Len(documents)) \cup {Gone}]
  BY <1>1, LenProperties DEF RemarksType
<1>3. remarkItems \in [RemarkIds -> DraftItems(Len(documents)) \cup {Gone}]
  BY <1>1, LenProperties DEF RemarksType
<1> QED
  BY <1>1, <1>2, <1>3

LEMMA ShownCounted ==
  ASSUME RemarksType
  PROVE  /\ IsFiniteSet(Shown) /\ Cardinality(Shown) \in Nat
         /\ IsFiniteSet(Live) /\ Cardinality(Live) \in Nat
<1>1. Len(documents) \in Nat /\ RemarkIds = 1 .. Len(documents)
  BY RemarkFacts
<1>2. IsFiniteSet(1 .. Len(documents))
  BY <1>1, FS_Interval
<1>3. Shown \subseteq RemarkIds /\ Live \subseteq RemarkIds
  BY DEF Shown, Live
<1>4. IsFiniteSet(Shown)
  BY <1>1, <1>2, <1>3, FS_Subset
<1>5. IsFiniteSet(Live)
  BY <1>1, <1>2, <1>3, FS_Subset
<1> QED
  BY <1>4, <1>5, FS_CardinalityType

LEMMA SequenceOf ==
  ASSUME NEW S, NEW n \in Nat, NEW f \in [1 .. n -> S]
  PROVE  f \in Seq(S) /\ Len(f) = n
<1>1. f \in Seq(S)
  BY SeqDef
<1>2. DOMAIN f = 1 .. Len(f) /\ Len(f) \in Nat
  BY <1>1, LenProperties
<1>3. 1 .. n = 1 .. Len(f)
  BY <1>2
<1>4. n = Len(f)
  BY <1>2, <1>3
<1> QED
  BY <1>1, <1>4

LEMMA GoneFacts ==
  /\ \A n \in Nat : Gone \notin DraftDocs(n) /\ Gone \notin DraftItems(n)
  /\ Gone \notin DraftThreads /\ Gone \notin Drafters /\ \A n \in Nat : n # Gone
<1>1. ASSUME NEW n \in Nat
      PROVE  Gone \notin DraftDocs(n) /\ Gone \notin DraftItems(n)
  <2>1. (1 .. n) \cup {Gone} \subseteq Nat \cup {Gone}
    OBVIOUS
  <2>2. DraftDocs(n) \subseteq [author : Drafters, text : Texts, replyTo : Nat \cup {Gone},
                                likes : SUBSET Drafters, dislikes : SUBSET Drafters]
    BY <2>1 DEF DraftDocs
  <2>3. DraftItems(n) \subseteq [author : Drafters, text : Texts, replyTo : Nat \cup {Gone},
          likes : SUBSET Drafters, dislikes : SUBSET Drafters, archived : BOOLEAN]
    BY <2>1 DEF DraftItems
  <2> QED
    BY <2>2, <2>3, DraftCommentAssumption
<1> QED
  BY <1>1, DraftCommentAssumption

\* Once made, a comment, an item or a request stays one when comments are added.
LEMMA DraftTypesGrow ==
  ASSUME NEW n \in Nat
  PROVE  /\ DraftDocs(n) \subseteq DraftDocs(n + 1) /\ DraftItems(n) \subseteq DraftItems(n + 1)
         /\ DraftAsks(n) \subseteq DraftAsks(n + 1)
<1>1. 1 .. n \subseteq 1 .. (n + 1)
  OBVIOUS
<1> QED
  BY <1>1 DEF DraftDocs, DraftItems, DraftAsks

Listed == ListOps \cup {"update"}

LEMMA RewrittenTypes ==
  ASSUME NEW n \in Nat, NEW q \in DraftAsks(n)
  PROVE  /\ q.op \in Listed => \A x, y \in DraftDocs(n) : Rewritten(q, x, y) \in DraftDocs(n)
         /\ q.op \in RemarkOps =>
              \A x, y \in DraftItems(n) : Rewritten(q, x, y) \in DraftItems(n)
<1>1. q.who \in Drafters /\ q.text \in Texts
  BY DEF DraftAsks
<1>2. CASE q.op = "like"
  BY <1>1, <1>2 DEF Rewritten, DraftDocs, DraftItems
<1>3. CASE q.op = "removeLike"
  BY <1>1, <1>3 DEF Rewritten, DraftDocs, DraftItems
<1>4. CASE q.op = "dislike"
  BY <1>1, <1>4 DEF Rewritten, DraftDocs, DraftItems
<1>5. CASE q.op = "removeDislike"
  BY <1>1, <1>5 DEF Rewritten, DraftDocs, DraftItems
<1>6. CASE q.op = "update"
  BY <1>1, <1>6 DEF Rewritten, DraftDocs, DraftItems
<1>7. CASE q.op = "delete"
  BY <1>1, <1>7 DEF Rewritten, DraftDocs, DraftItems, Listed, ListOps
<1> QED
  BY <1>2, <1>3, <1>4, <1>5, <1>6, <1>7 DEF Listed, ListOps, RemarkOps

\* A deletion archives the item; the other requests change its text or a list.
LEMMA RewrittenItem ==
  ASSUME NEW n \in Nat, NEW q \in DraftAsks(n), q.op \in RemarkOps,
         NEW x \in DraftItems(n), NEW y \in DraftItems(n)
  PROVE  /\ Rewritten(q, x, y).replyTo = x.replyTo
         /\ Rewritten(q, x, y).archived = (x.archived \/ q.op = "delete")
<1>1. CASE q.op = "like"
  BY <1>1 DEF Rewritten, DraftItems
<1>2. CASE q.op = "removeLike"
  BY <1>2 DEF Rewritten, DraftItems
<1>3. CASE q.op = "dislike"
  BY <1>3 DEF Rewritten, DraftItems
<1>4. CASE q.op = "removeDislike"
  BY <1>4 DEF Rewritten, DraftItems
<1>5. CASE q.op = "update"
  BY <1>5 DEF Rewritten, DraftItems
<1>6. CASE q.op = "delete"
  BY <1>6 DEF Rewritten, DraftItems
<1> QED
  BY <1>1, <1>2, <1>3, <1>4, <1>5, <1>6 DEF ListOps, RemarkOps

\* A change makes two comments that match match again, and one that changes
\* nothing leaves the item as the change would make the document.
LEMMA RewrittenMatches ==
  ASSUME NEW n \in Nat, NEW q \in DraftAsks(n), q.op \in Listed,
         NEW item \in DraftItems(n), NEW doc \in DraftDocs(n), Matches(item, doc)
  PROVE  /\ Matches(Rewritten(q, item, item), Rewritten(q, doc, doc))
         /\ Idempotent(q, item) => Matches(item, Rewritten(q, doc, doc))
<1>0. Rewritten(q, item, item) \in DraftItems(n) /\ Gone \notin DraftItems(n)
  BY RewrittenTypes, GoneFacts DEF Listed, RemarkOps, ListOps
<1>1. CASE q.op = "like"
  BY <1>0, <1>1 DEF Rewritten, DraftItems, DraftDocs, Matches, Idempotent
<1>2. CASE q.op = "removeLike"
  BY <1>0, <1>2 DEF Rewritten, DraftItems, DraftDocs, Matches, Idempotent
<1>3. CASE q.op = "dislike"
  BY <1>0, <1>3 DEF Rewritten, DraftItems, DraftDocs, Matches, Idempotent
<1>4. CASE q.op = "removeDislike"
  BY <1>0, <1>4 DEF Rewritten, DraftItems, DraftDocs, Matches, Idempotent
<1>5. CASE q.op = "update"
  BY <1>0, <1>5 DEF Rewritten, DraftItems, DraftDocs, Matches, Idempotent
<1> QED
  BY <1>1, <1>2, <1>3, <1>4, <1>5 DEF Listed, ListOps

LEMMA IdempotentMatches ==
  ASSUME NEW n \in Nat, NEW q \in DraftAsks(n), q.op \in Listed, NEW item,
         NEW doc \in DraftDocs(n), Idempotent(q, doc), Matches(item, Rewritten(q, doc, doc))
  PROVE  Matches(item, doc)
<1>1. CASE q.op = "like"
  BY <1>1 DEF Rewritten, DraftDocs, Matches, Idempotent
<1>2. CASE q.op = "removeLike"
  BY <1>2 DEF Rewritten, DraftDocs, Matches, Idempotent
<1>3. CASE q.op = "dislike"
  BY <1>3 DEF Rewritten, DraftDocs, Matches, Idempotent
<1>4. CASE q.op = "removeDislike"
  BY <1>4 DEF Rewritten, DraftDocs, Matches, Idempotent
<1>5. CASE q.op = "update"
  BY <1>5 DEF Idempotent
<1> QED
  BY <1>1, <1>2, <1>3, <1>4, <1>5 DEF Listed, ListOps

-----------------------------------------------------------------------------
Handles(t) ==
  \/ AskCreate(t) \/ AskChange(t)
  \/ InsertDocument(t) \/ CountDocuments(t) \/ WriteReplies(t)
  \/ InsertItem(t) \/ ReadReplies(t) \/ SaveReplies(t)
  \/ ReadRemark(t) \/ SaveRemark(t)
  \/ ReadDocument(t) \/ SaveDocument(t) \/ FindReplies(t) \/ RemoveDocuments(t)

\* What a request asks and has read stays while another one is handled.
Stays(o) == doing'[o] = doing[o] /\ wants'[o] = wants[o] /\ read'[o] = read[o]

Untouched(t) == \A o \in DraftThreads \ {t} : Stays(o)

LEMMA AskEffect ==
  ASSUME DraftThreadsType, NEW t \in DraftThreads, NEW step, NEW q, Ask(t, step, q)
  PROVE  doing[t] = "idle" /\ doing'[t] = step /\ wants'[t] = q /\ Untouched(t)
BY DEF DraftThreadsType, Ask, Stays, Untouched

LEMMA AnswerEffect ==
  ASSUME DraftThreadsType, NEW t \in DraftThreads, Answer(t)
  PROVE  doing'[t] = "idle" /\ soloDraft' = Gone /\ Untouched(t)
BY DEF DraftThreadsType, Answer, Stays, Untouched

LEMMA ThenEffect ==
  ASSUME DraftThreadsType, NEW t \in DraftThreads, NEW step, NEW v, Then(t, step, v)
  PROVE  /\ doing'[t] = step /\ read'[t] = v /\ wants'[t] = wants[t]
         /\ soloDraft' = soloDraft /\ wants' = wants /\ Untouched(t)
BY DEF DraftThreadsType, Then, Stays, Untouched

\* What a request that has just arrived asks.
LEMMA AskForms ==
  ASSUME RemarksType, DraftThreadsType, NEW t \in DraftThreads, AskCreate(t) \/ AskChange(t)
  PROVE  \E step, q : /\ Ask(t, step, q) /\ q \in DraftAsks(Len(documents))
                      /\ \/ step = "insert" /\ q.op = "create" /\ q.comment = Gone
                         \/ step = "item" /\ q.op \in RemarkOps /\ q.comment \in RemarkIds
<1>0. RemarkIds = 1 .. Len(documents) /\ FirstText \in Texts /\ Shown \subseteq RemarkIds
  BY RemarkFacts, DraftCommentAssumption DEF FirstText, Shown
<1>1. quota.by \subseteq Drafters /\ quota.asked \subseteq RemarkOps
  BY DEF DraftThreadsType
<1>2. CASE AskCreate(t)
  <2>1. PICK who \in quota.by, parent \in Shown \cup {Gone} :
          Ask(t, "insert", [op |-> "create", who |-> who, comment |-> Gone,
                            replyTo |-> parent, text |-> FirstText])
    BY <1>2 DEF AskCreate
  <2>2. [op |-> "create", who |-> who, comment |-> Gone, replyTo |-> parent,
         text |-> FirstText] \in DraftAsks(Len(documents))
    BY <1>0, <1>1 DEF DraftAsks
  <2> QED
    BY <2>1, <2>2
<1>3. CASE AskChange(t)
  <2>1. PICK op \in quota.asked, who \in quota.by, c \in RemarkIds, x \in Texts :
          Ask(t, "item", [op |-> op, who |-> who, comment |-> c, replyTo |-> Gone, text |-> x])
    BY <1>3 DEF AskChange
  <2>2. [op |-> op, who |-> who, comment |-> c, replyTo |-> Gone, text |-> x]
          \in DraftAsks(Len(documents)) /\ op \in RemarkOps
    BY <1>0, <1>1 DEF DraftAsks
  <2> QED
    BY <2>1, <2>2
<1> QED
  BY <1>2, <1>3

LEMMA InsertForms ==
  ASSUME RemarksType, DraftThreadsType, NEW t \in DraftThreads, WantInv(t), InsertDocument(t)
  PROVE  LET q == wants[t]
             n == Len(documents)
             fresh == [author |-> q.who, text |-> q.text, replyTo |-> q.replyTo,
                       likes |-> {}, dislikes |-> {}] IN
         /\ q \in DraftAsks(n) /\ q.op = "create" /\ fresh \in DraftDocs(n)
         /\ \/ Answer(t) /\ UNCHANGED <<remarkStores, repaired>>
            \/ /\ q.replyTo # Gone => documents[q.replyTo] # Gone
               /\ documents' = Append(documents, fresh) /\ remarkItems' = Append(remarkItems, Gone)
               /\ doing'[t] = "count" /\ wants'[t] = [q EXCEPT !.comment = n + 1]
               /\ wants' = [wants EXCEPT ![t] = [q EXCEPT !.comment = n + 1]]
               /\ doing' = [doing EXCEPT ![t] = "count"]
               /\ repaired' = FALSE /\ Untouched(t)
               /\ UNCHANGED <<replies, repliesItem, read, soloDraft>>
<1> DEFINE q == wants[t]
           n == Len(documents)
           fresh == [author |-> q.who, text |-> q.text, replyTo |-> q.replyTo,
                     likes |-> {}, dislikes |-> {}]
<1>0. n \in Nat /\ RemarkIds = 1 .. n
  BY RemarkFacts
<1>1. doing[t] = "insert"
  BY DEF InsertDocument
<1>2. q \in DraftAsks(n) /\ q.op = "create"
  BY <1>1 DEF WantInv, DraftAsks, RemarkOps, ListOps, DeletingSteps, ChangingSteps
<1>3. fresh \in DraftDocs(n)
  BY <1>2 DEF DraftAsks, DraftDocs
<1>4. CASE q.replyTo # Gone /\ q.replyTo \notin Shown
  BY <1>2, <1>3, <1>4 DEF InsertDocument
<1>5. CASE ~(q.replyTo # Gone /\ q.replyTo \notin Shown)
  <2>1. /\ documents' = Append(documents, fresh) /\ remarkItems' = Append(remarkItems, Gone)
        /\ wants' = [wants EXCEPT ![t].comment = n + 1]
        /\ doing' = [doing EXCEPT ![t] = "count"]
        /\ repaired' = FALSE /\ UNCHANGED <<replies, repliesItem, read, soloDraft>>
    BY <1>5 DEF InsertDocument
  <2>2. /\ doing'[t] = "count" /\ wants'[t] = [q EXCEPT !.comment = n + 1]
        /\ wants' = [wants EXCEPT ![t] = [q EXCEPT !.comment = n + 1]] /\ Untouched(t)
    BY <2>1 DEF DraftThreadsType, Untouched, Stays
  <2>3. q.replyTo # Gone => documents[q.replyTo] # Gone
    BY <1>5 DEF Shown
  <2> QED
    BY <1>2, <1>3, <2>1, <2>2, <2>3
<1> QED
  BY <1>4, <1>5

LEMMA OthersStay ==
  ASSUME RemarksType, DraftThreadsType, NEW t \in DraftThreads, WantInv(t), Handles(t)
  PROVE  Untouched(t)
<1>1. CASE AskCreate(t) \/ AskChange(t)
  <2>1. PICK step, q : Ask(t, step, q)
    BY <1>1, AskForms
  <2> QED
    BY <2>1, AskEffect
<1>2. CASE Answer(t)
  BY <1>2, AnswerEffect
<1>3. CASE \E step, v : Then(t, step, v)
  BY <1>3, ThenEffect
<1>4. CASE InsertDocument(t)
  BY <1>2, <1>4, InsertForms
<1> QED
  BY <1>1, <1>2, <1>3, <1>4 DEF Handles, CountDocuments, WriteReplies, InsertItem, ReadReplies,
     SaveReplies, ReadRemark, SaveRemark, ReadDocument, SaveDocument, FindReplies, RemoveDocuments

LEMMA RemarksNext ==
  ASSUME RemarksType, DraftThreadsType, NEW t \in DraftThreads, WantInv(t), Handles(t)
  PROVE  /\ RemarksType'
         /\ Len(documents') = Len(documents) \/ InsertDocument(t)
         /\ Len(documents') \in {Len(documents), Len(documents) + 1}
<1> DEFINE q == wants[t]
           n == Len(documents)
           Same == Len(documents') = n
<1>0. /\ n \in Nat /\ RemarkIds = 1 .. n
      /\ documents \in [1 .. n -> DraftDocs(n) \cup {Gone}]
      /\ remarkItems \in [1 .. n -> DraftItems(n) \cup {Gone}]
      /\ replies \in Nat /\ repliesItem \in Int
  BY RemarkFacts DEF RemarksType
<1>1. ASSUME documents' \in [1 .. n -> DraftDocs(n) \cup {Gone}],
             remarkItems' \in [1 .. n -> DraftItems(n) \cup {Gone}],
             replies' \in Nat, repliesItem' \in Int
      PROVE  RemarksType' /\ Same
  <2>1. documents' \in Seq(DraftDocs(n) \cup {Gone}) /\ Len(documents') = n
    BY <1>0, <1>1, SequenceOf
  <2>2. remarkItems' \in Seq(DraftItems(n) \cup {Gone}) /\ Len(remarkItems') = n
    BY <1>0, <1>1, SequenceOf
  <2> QED
    BY <1>1, <2>1, <2>2 DEF RemarksType
<1>2. CASE UNCHANGED remarkStores
  BY <1>0, <1>1, <1>2 DEF remarkStores
<1>3. CASE InsertDocument(t)
  <2> DEFINE fresh == [author |-> q.who, text |-> q.text, replyTo |-> q.replyTo,
                       likes |-> {}, dislikes |-> {}]
  <2>1. CASE UNCHANGED remarkStores
    BY <1>2, <2>1
  <2>2. CASE /\ documents' = Append(documents, fresh) /\ remarkItems' = Append(remarkItems, Gone)
             /\ UNCHANGED <<replies, repliesItem>>
    <3>1. fresh \in DraftDocs(n) \cup {Gone}
      BY <1>3, InsertForms
    <3> HIDE DEF fresh
    <3>2. documents \in Seq(DraftDocs(n) \cup {Gone}) /\ remarkItems \in Seq(DraftItems(n) \cup {Gone})
          /\ Len(remarkItems) = n
      BY DEF RemarksType
    <3>3. documents' \in Seq(DraftDocs(n) \cup {Gone}) /\ Len(documents') = n + 1
      BY <2>2, <3>1, <3>2, AppendProperties
    <3>4. remarkItems' \in Seq(DraftItems(n) \cup {Gone}) /\ Len(remarkItems') = n + 1
      BY <2>2, <3>2, AppendProperties
    <3>5. documents' \in Seq(DraftDocs(n + 1) \cup {Gone})
      <4>1. DraftDocs(n) \cup {Gone} \subseteq DraftDocs(n + 1) \cup {Gone}
        BY <1>0, DraftTypesGrow
      <4> QED
        BY <3>3, <4>1, SeqMonotonic
    <3>6. remarkItems' \in Seq(DraftItems(n + 1) \cup {Gone})
      <4>1. DraftItems(n) \cup {Gone} \subseteq DraftItems(n + 1) \cup {Gone}
        BY <1>0, DraftTypesGrow
      <4> QED
        BY <3>4, <4>1, SeqMonotonic
    <3> QED
      BY <1>0, <1>3, <2>2, <3>3, <3>4, <3>5, <3>6 DEF RemarksType
  <2> QED
    BY <1>3, <2>1, <2>2, InsertForms
<1>4. CASE WriteReplies(t)
  <2>1. read[t] \in Nat
    BY <1>4 DEF WriteReplies, WantInv
  <2> QED
    BY <1>0, <1>1, <1>4, <2>1 DEF WriteReplies
<1>5. CASE InsertItem(t)
  <2> DEFINE item == [author |-> q.who, text |-> q.text, replyTo |-> q.replyTo,
                      likes |-> {}, dislikes |-> {}, archived |-> FALSE]
  <2>1. q \in DraftAsks(n) /\ q.comment \in 1 .. n
    BY <1>0, <1>5 DEF InsertItem, WantInv
  <2>2. item \in DraftItems(n)
    BY <2>1 DEF DraftItems, DraftAsks
  <2>3. remarkItems' = [remarkItems EXCEPT ![q.comment] = item]
    BY <1>5 DEF InsertItem
  <2> HIDE DEF item
  <2>4. remarkItems' \in [1 .. n -> DraftItems(n) \cup {Gone}]
    BY <1>0, <2>2, <2>3
  <2> QED
    BY <1>0, <1>1, <1>5, <2>4 DEF InsertItem
<1>6. CASE SaveReplies(t)
  <2>1. read[t] \in Int
    BY <1>6 DEF SaveReplies, WantInv
  <2> QED
    BY <1>0, <1>1, <1>6, <2>1 DEF SaveReplies
<1>7. CASE SaveRemark(t)
  <2> DEFINE item == Rewritten(q, remarkItems[q.comment], read[t])
  <2>1. /\ q \in DraftAsks(n) /\ q.comment \in 1 .. n /\ q.op \in RemarkOps
        /\ remarkItems[q.comment] # Gone /\ read[t] \in DraftItems(n)
    BY <1>0, <1>7 DEF SaveRemark, WantInv, DraftAsks, CreatingSteps
  <2>2. remarkItems[q.comment] \in DraftItems(n)
    BY <1>0, <2>1
  <2>3. item \in DraftItems(n)
    BY <1>0, <2>1, <2>2, RewrittenTypes
  <2>4. remarkItems' = [remarkItems EXCEPT ![q.comment] = item]
    BY <1>7 DEF SaveRemark, ItemWith
  <2> HIDE DEF item
  <2>5. remarkItems' \in [1 .. n -> DraftItems(n) \cup {Gone}]
    BY <1>0, <2>3, <2>4
  <2> QED
    BY <1>0, <1>1, <1>7, <2>5 DEF SaveRemark
<1>8. CASE SaveDocument(t)
  <2> DEFINE now_ == documents[q.comment]
             doc == IF q.op = "update" THEN Rewritten(q, read[t], read[t])
                    ELSE IF now_ = Gone THEN Gone ELSE Rewritten(q, now_, read[t])
  <2>1. /\ q \in DraftAsks(n) /\ q.comment \in 1 .. n /\ q.op \in Listed
        /\ read[t] \in DraftDocs(n)
    BY <1>0, <1>8 DEF SaveDocument, WantInv, DraftAsks, CreatingSteps, DeletingSteps, Listed, RemarkOps
  <2>2. now_ \in DraftDocs(n) \cup {Gone}
    BY <1>0, <2>1
  <2>3. Rewritten(q, read[t], read[t]) \in DraftDocs(n)
    BY <1>0, <2>1, RewrittenTypes
  <2>4. now_ # Gone => Rewritten(q, now_, read[t]) \in DraftDocs(n)
    BY <1>0, <2>1, <2>2, RewrittenTypes
  <2>5. doc \in DraftDocs(n) \cup {Gone}
    BY <2>3, <2>4
  <2>6. documents' = [documents EXCEPT ![q.comment] = doc]
    BY <1>8 DEF SaveDocument
  <2> HIDE DEF doc
  <2>7. documents' \in [1 .. n -> DraftDocs(n) \cup {Gone}]
    BY <1>0, <2>5, <2>6
  <2> QED
    BY <1>0, <1>1, <1>8, <2>7 DEF SaveDocument
<1>9. CASE RemoveDocuments(t)
  <2>1. documents' = [c \in 1 .. n |-> IF c \in read[t] THEN Gone ELSE documents[c]]
    BY <1>0, <1>9 DEF RemoveDocuments
  <2>2. documents' \in [1 .. n -> DraftDocs(n) \cup {Gone}]
    BY <1>0, <2>1
  <2> QED
    BY <1>0, <1>1, <1>9, <2>2 DEF RemoveDocuments
<1>10. CASE AskCreate(t) \/ AskChange(t) \/ CountDocuments(t) \/ ReadReplies(t) \/ ReadRemark(t)
            \/ ReadDocument(t) \/ FindReplies(t)
  BY <1>2, <1>10 DEF AskCreate, AskChange, Ask, CountDocuments, ReadReplies, ReadRemark,
     ReadDocument, FindReplies
<1> QED
  BY <1>0, <1>3, <1>4, <1>5, <1>6, <1>7, <1>8, <1>9, <1>10 DEF Handles

LEMMA RemarksGrow ==
  ASSUME RemarksType, DraftThreadsType, NEW t \in DraftThreads, WantInv(t), Handles(t)
  PROVE  /\ RemarkIds \subseteq RemarkIds' /\ RemarkIds' = 1 .. Len(documents')
         /\ DraftDocs(Len(documents)) \subseteq DraftDocs(Len(documents'))
         /\ DraftItems(Len(documents)) \subseteq DraftItems(Len(documents'))
         /\ DraftAsks(Len(documents)) \subseteq DraftAsks(Len(documents'))
<1>1. /\ Len(documents) \in Nat /\ RemarkIds = 1 .. Len(documents)
      /\ Len(documents') \in {Len(documents), Len(documents) + 1}
  BY RemarkFacts, RemarksNext
<1>2. RemarkIds' = 1 .. Len(documents')
  <2>1. RemarksType'
    BY RemarksNext
  <2> QED
    BY <2>1, LenProperties DEF RemarksType, RemarkIds
<1> QED
  BY <1>1, <1>2, DraftTypesGrow

LEMMA DraftThreadsNext ==
  ASSUME RemarksType, DraftThreadsType, NEW t \in DraftThreads, WantInv(t), Handles(t)
  PROVE  DraftThreadsType'
<1> DEFINE q == wants[t]
           n == Len(documents)
           Steps == CreatingSteps \cup DeletingSteps \cup ChangingSteps \cup {"idle"}
<1>0. /\ n \in Nat /\ RemarkIds = 1 .. n /\ RemarkIds \subseteq RemarkIds'
      /\ DraftAsks(n) \subseteq DraftAsks(Len(documents')) /\ RemarkIds' = 1 .. Len(documents')
  BY RemarkFacts, RemarksGrow
<1>1. quota' \in [remarks : Nat, asked : SUBSET RemarkOps, changes : Nat, by : SUBSET Drafters,
                  together : BOOLEAN, draftRestarts : Nat]
  BY DEF DraftThreadsType, Handles, AskCreate, AskChange, InsertDocument, CountDocuments,
     WriteReplies, InsertItem, ReadReplies, SaveReplies, ReadRemark, SaveRemark, ReadDocument,
     SaveDocument, FindReplies, RemoveDocuments
<1>2. tangled' \subseteq RemarkIds'
  <2>1. doing[t] = "document" => q.comment \in RemarkIds
    BY DEF WantInv
  <2> QED
    BY <1>0, <2>1, ZenonT(40) DEF DraftThreadsType, Handles, AskCreate, AskChange, Ask, InsertDocument,
       CountDocuments, WriteReplies, InsertItem, ReadReplies, SaveReplies, ReadRemark, SaveRemark,
       ReadDocument, SaveDocument, FindReplies, RemoveDocuments, Halfway
<1>3. repaired' \in BOOLEAN /\ exactItem' \in BOOLEAN
  BY DEF DraftThreadsType, Handles, AskCreate, AskChange, Ask, InsertDocument,
     CountDocuments, WriteReplies, InsertItem, ReadReplies, SaveReplies, ReadRemark, SaveRemark,
     ReadDocument, SaveDocument, FindReplies, RemoveDocuments
<1>4. /\ \A s \in {"insert", "item", "count", "writeReplies", "insertItem", "readReplies",
                   "saveReplies", "saveItem", "document", "saveDocument", "findReplies", "remove",
                   "idle"} : s \in Steps
  BY DEF CreatingSteps, DeletingSteps, ChangingSteps
<1> HIDE DEF Steps
<1> DEFINE Fine == /\ doing' \in [DraftThreads -> Steps]
                   /\ wants' \in [DraftThreads -> DraftAsks(Len(documents')) \cup {Gone}]
                   /\ read' = [o \in DraftThreads |-> read'[o]]
                   /\ soloDraft' \in DraftThreads \cup {Gone}
<1>5. Fine => DraftThreadsType'
  BY <1>1, <1>2, <1>3 DEF DraftThreadsType, Steps
<1>6. /\ doing \in [DraftThreads -> Steps]
      /\ wants \in [DraftThreads -> DraftAsks(Len(documents')) \cup {Gone}]
      /\ read = [o \in DraftThreads |-> read[o]] /\ soloDraft \in DraftThreads \cup {Gone}
  BY <1>0 DEF DraftThreadsType, Steps
<1>7. CASE Answer(t)
  <2>1. Fine
    BY <1>4, <1>6, <1>7 DEF Answer
  <2> QED
    BY <1>5, <2>1
<1>8. ASSUME NEW s \in {"insert", "item", "count", "writeReplies", "insertItem", "readReplies",
                   "saveReplies", "saveItem", "document", "saveDocument", "findReplies", "remove",
                   "idle"}, NEW v, Then(t, s, v)
      PROVE  DraftThreadsType'
  <2>1. Fine
    BY <1>4, <1>6, <1>8 DEF Then
  <2> QED
    BY <1>5, <2>1
<1>9. CASE AskCreate(t) \/ AskChange(t)
  <2>1. PICK step, a : /\ Ask(t, step, a) /\ a \in DraftAsks(n)
                       /\ step \in {"insert", "item"}
    BY <1>9, AskForms
  <2>2. Fine
    BY <1>0, <1>4, <1>6, <2>1 DEF Ask
  <2> QED
    BY <1>5, <2>2
<1>10. CASE InsertDocument(t)
  <2>1. CASE /\ wants' = [wants EXCEPT ![t] = [q EXCEPT !.comment = n + 1]]
             /\ doing' = [doing EXCEPT ![t] = "count"]
             /\ documents' = Append(documents, [author |-> q.who, text |-> q.text,
                  replyTo |-> q.replyTo, likes |-> {}, dislikes |-> {}])
             /\ UNCHANGED <<read, soloDraft>>
    <3>1. q \in DraftAsks(n)
      BY <1>10, InsertForms
    <3>2. Len(documents') = n + 1
      BY <1>0, <2>1, AppendProperties DEF RemarksType
    <3>3. [q EXCEPT !.comment = n + 1] \in DraftAsks(n + 1)
      BY <1>0, <3>1 DEF DraftAsks
    <3>4. Fine
      BY <1>4, <1>6, <2>1, <3>2, <3>3
    <3> QED
      BY <1>5, <3>4
  <2> QED
    BY <1>7, <1>10, <2>1, InsertForms
<1>11. CASE CountDocuments(t) \/ InsertItem(t) \/ ReadReplies(t) \/ FindReplies(t) \/ RemoveDocuments(t)
  BY <1>8, <1>11 DEF CountDocuments, InsertItem, ReadReplies, FindReplies, RemoveDocuments
<1>12. CASE WriteReplies(t) \/ SaveReplies(t) \/ ReadRemark(t) \/ SaveDocument(t)
  BY <1>7, <1>8, <1>12 DEF WriteReplies, SaveReplies, ReadRemark, SaveDocument
<1>13. CASE SaveRemark(t)
  <2>1. Then(t, "readReplies", Gone) \/ Then(t, "document", Gone)
    BY <1>13 DEF SaveRemark
  <2> QED
    BY <1>8, <2>1
<1>14. CASE ReadDocument(t)
  <2>1. \/ Answer(t) \/ \E v : Then(t, "findReplies", v) \/ Then(t, "saveDocument", v)
    BY <1>14 DEF ReadDocument
  <2> QED
    BY <1>7, <1>8, <2>1
<1> QED
  BY <1>9, <1>10, <1>11, <1>12, <1>13, <1>14 DEF Handles

-----------------------------------------------------------------------------
LEMMA RewrittenDocument ==
  ASSUME NEW n \in Nat, NEW q \in DraftAsks(n), q.op \in Listed,
         NEW x \in DraftDocs(n), NEW y \in DraftDocs(n)
  PROVE  Rewritten(q, x, y).replyTo = x.replyTo
<1>1. CASE q.op = "like"
  BY <1>1 DEF Rewritten, DraftDocs
<1>2. CASE q.op = "removeLike"
  BY <1>2 DEF Rewritten, DraftDocs
<1>3. CASE q.op = "dislike"
  BY <1>3 DEF Rewritten, DraftDocs
<1>4. CASE q.op = "removeDislike"
  BY <1>4 DEF Rewritten, DraftDocs
<1>5. CASE q.op = "update"
  BY <1>5 DEF Rewritten, DraftDocs
<1> QED
  BY <1>1, <1>2, <1>3, <1>4, <1>5 DEF Listed, ListOps

LEMMA TangledGrows ==
  ASSUME NEW t \in DraftThreads, Handles(t)
  PROVE  tangled \subseteq tangled'
BY DEF Handles, AskCreate, AskChange, Ask, InsertDocument, CountDocuments, WriteReplies,
   InsertItem, ReadReplies, SaveReplies, ReadRemark, SaveRemark, ReadDocument, SaveDocument,
   FindReplies, RemoveDocuments, Halfway

LEMMA ItemsStay ==
  ASSUME RemarksType, DraftThreadsType, NEW t \in DraftThreads, WantInv(t), Handles(t),
         NEW c \in RemarkIds
  PROVE  /\ remarkItems[c] # Gone => remarkItems'[c] # Gone
         /\ (remarkItems'[c] = remarkItems[c])
              \/ (wants[t].comment = c /\ doing[t] \in {"insertItem", "saveItem"})
<1> DEFINE q == wants[t]
           n == Len(documents)
<1>0. /\ n \in Nat /\ RemarkIds = 1 .. n /\ Gone \notin DraftItems(n)
      /\ remarkItems \in [1 .. n -> DraftItems(n) \cup {Gone}]
  BY RemarkFacts, GoneFacts
<1>1. CASE InsertDocument(t)
  <2>1. CASE remarkItems' = Append(remarkItems, Gone)
    <3>1. Append(remarkItems, Gone)[c] = remarkItems[c]
      BY <1>0, AppendProperties DEF RemarksType
    <3> QED
      BY <2>1, <3>1
  <2>2. CASE remarkItems' = remarkItems
    BY <2>2
  <2> QED
    BY <1>1, <2>1, <2>2, InsertForms DEF remarkStores
<1>2. CASE InsertItem(t)
  <2> DEFINE item == [author |-> q.who, text |-> q.text, replyTo |-> q.replyTo,
                      likes |-> {}, dislikes |-> {}, archived |-> FALSE]
  <2>1. q \in DraftAsks(n) /\ doing[t] = "insertItem"
    BY <1>2 DEF InsertItem, WantInv
  <2>2. item \in DraftItems(n)
    BY <2>1 DEF DraftItems, DraftAsks
  <2>3. remarkItems' = [remarkItems EXCEPT ![q.comment] = item]
    BY <1>2 DEF InsertItem
  <2> HIDE DEF item
  <2> QED
    BY <1>0, <2>1, <2>2, <2>3
<1>3. CASE SaveRemark(t)
  <2> DEFINE item == Rewritten(q, remarkItems[q.comment], read[t])
  <2>1. /\ q \in DraftAsks(n) /\ q.comment \in 1 .. n /\ q.op \in RemarkOps
        /\ remarkItems[q.comment] # Gone /\ read[t] \in DraftItems(n) /\ doing[t] = "saveItem"
    BY <1>0, <1>3 DEF SaveRemark, WantInv, DraftAsks, CreatingSteps
  <2>2. item \in DraftItems(n)
    BY <1>0, <2>1, RewrittenTypes
  <2>3. remarkItems' = [remarkItems EXCEPT ![q.comment] = item]
    BY <1>3 DEF SaveRemark, ItemWith
  <2> HIDE DEF item
  <2> QED
    BY <1>0, <2>1, <2>2, <2>3
<1>4. CASE ~InsertDocument(t) /\ ~InsertItem(t) /\ ~SaveRemark(t)
  <2>1. remarkItems' = remarkItems
    BY <1>4 DEF Handles, AskCreate, AskChange, Ask, CountDocuments, WriteReplies, ReadReplies,
       SaveReplies, ReadRemark, ReadDocument, SaveDocument, FindReplies, RemoveDocuments,
       remarkStores
  <2> QED
    BY <2>1
<1> QED
  BY <1>1, <1>2, <1>3, <1>4

\* What a step does to the document of a comment that is not tangled.
LEMMA DocumentsStep ==
  ASSUME DraftCommentInv, NEW t \in DraftThreads, Handles(t), NEW c \in RemarkIds \ tangled
  PROVE  \/ documents'[c] = documents[c]
         \/ documents'[c] = Gone /\ RemoveDocuments(t) /\ c \in read[t]
         \/ /\ SaveDocument(t) /\ wants[t].comment = c /\ documents[c] # Gone
            /\ documents'[c] = Rewritten(wants[t], documents[c], documents[c])
            /\ documents'[c] # Gone /\ documents'[c].replyTo = documents[c].replyTo
<1> DEFINE q == wants[t]
           n == Len(documents)
<1>0. /\ RemarksType /\ DraftThreadsType /\ WantInv(t) /\ AgreeInv
      /\ n \in Nat /\ RemarkIds = 1 .. n /\ Gone \notin DraftDocs(n)
      /\ documents \in [1 .. n -> DraftDocs(n) \cup {Gone}]
  BY RemarkFacts, GoneFacts DEF DraftCommentInv
<1>1. CASE InsertDocument(t)
  <2>1. CASE UNCHANGED remarkStores
    BY <2>1 DEF remarkStores
  <2>2. ASSUME NEW x, documents' = Append(documents, x)
        PROVE  documents'[c] = documents[c]
    BY <1>0, <2>2, AppendProperties DEF RemarksType
  <2> QED
    BY <1>0, <1>1, <2>1, <2>2, InsertForms
<1>2. CASE SaveDocument(t)
  <2>1. /\ q \in DraftAsks(n) /\ q.comment \in 1 .. n /\ q.op \in Listed
        /\ doing[t] = "saveDocument" /\ t \in DraftServed
    BY <1>0, <1>2 DEF SaveDocument, WantInv, DraftAsks, CreatingSteps, DeletingSteps, Listed,
       RemarkOps, DraftServed
  <2>2. CASE q.comment # c
    BY <1>0, <1>2, <2>1, <2>2 DEF SaveDocument
  <2>3. CASE q.comment = c
    <3>1. documents[c] # Gone /\ read[t] = documents[c]
      BY <1>0, <2>1, <2>3 DEF AgreeInv, HalfServed
    <3>2. documents'[c] = Rewritten(q, documents[c], documents[c])
      BY <1>0, <1>2, <2>1, <2>3, <3>1 DEF SaveDocument
    <3>3. documents[c] \in DraftDocs(n)
      BY <1>0, <3>1
    <3>4. documents'[c] \in DraftDocs(n) /\ documents'[c].replyTo = documents[c].replyTo
      <4>1. Rewritten(q, documents[c], documents[c]) \in DraftDocs(n)
        BY <1>0, <2>1, <3>3, RewrittenTypes
      <4>2. Rewritten(q, documents[c], documents[c]).replyTo = documents[c].replyTo
        BY <1>0, <2>1, <3>3, RewrittenDocument
      <4> QED
        BY <3>2, <4>1, <4>2
    <3> QED
      BY <1>0, <1>2, <2>3, <3>1, <3>2, <3>4
  <2> QED
    BY <2>2, <2>3
<1>3. CASE RemoveDocuments(t)
  BY <1>3 DEF RemoveDocuments
<1>4. CASE ~InsertDocument(t) /\ ~SaveDocument(t) /\ ~RemoveDocuments(t)
  <2>1. documents' = documents
    BY <1>4 DEF Handles, AskCreate, AskChange, Ask, CountDocuments, WriteReplies, InsertItem,
       ReadReplies, SaveReplies, ReadRemark, SaveRemark, ReadDocument, FindReplies, remarkStores
  <2> QED
    BY <2>1
<1> QED
  BY <1>1, <1>2, <1>3, <1>4

\* Which of these comments a request changes, before and after a step.
LEMMA ConcernsStep ==
  ASSUME DraftCommentInv, NEW t \in DraftThreads, Handles(t), NEW c \in RemarkIds \ tangled, NEW a
  PROVE  /\ c \in Concerns(a) => c \in Concerns(a)' \/ documents'[c] = Gone
         /\ c \in Concerns(a)' => c \in Concerns(a)
<1>1. /\ documents'[c] = Gone \/ documents'[c] = documents[c]
         \/ (documents[c] # Gone /\ documents'[c] # Gone /\ documents'[c].replyTo = documents[c].replyTo)
  BY DocumentsStep
<1>2. c \in RemarkIds /\ c \in RemarkIds'
  BY RemarksGrow DEF DraftCommentInv
<1> QED
  BY <1>1, <1>2 DEF Concerns, Shown

LEMMA WantWaits ==
  ASSUME DraftCommentInv, NEW t \in DraftThreads, Handles(t), NEW o \in DraftThreads \ {t}
  PROVE  WantInv(o)'
<1> DEFINE q == wants[o]
           n == Len(documents)
           m == Len(documents')
<1>0. RemarksType /\ DraftThreadsType /\ WantInv(t) /\ WantInv(o)
  BY DEF DraftCommentInv
<1>1. Stays(o)
  BY <1>0, OthersStay DEF Untouched
<1>2. /\ RemarkIds \subseteq RemarkIds' /\ DraftDocs(n) \subseteq DraftDocs(m)
      /\ DraftItems(n) \subseteq DraftItems(m) /\ DraftAsks(n) \subseteq DraftAsks(m)
  BY <1>0, RemarksGrow
<1>3. ASSUME doing[o] = "saveItem"
      PROVE  remarkItems'[q.comment] # Gone
  <2>1. q.comment \in RemarkIds /\ remarkItems[q.comment] # Gone
    BY <1>0, <1>3 DEF WantInv
  <2> QED
    BY <1>0, <2>1, ItemsStay
<1>4. ASSUME doing[o] = "remove", NEW c \in read[o]
      PROVE  c \in RemarkIds' /\ (c \in Concerns(q)' \/ documents'[c] = Gone \/ c \in tangled')
  <2>1. c \in RemarkIds /\ (c \in Concerns(q) \/ documents[c] = Gone \/ c \in tangled)
    BY <1>0, <1>4 DEF WantInv
  <2>2. PICK a : a = q
    OBVIOUS
  <2>3. CASE c \in tangled
    BY <1>2, <2>1, <2>3, TangledGrows
  <2>4. CASE c \notin tangled
    <3>1. documents[c] = Gone => documents'[c] = Gone
      BY <2>1, <2>4, DocumentsStep
    <3>2. c \in Concerns(a) => c \in Concerns(a)' \/ documents'[c] = Gone
      BY <2>1, <2>4, ConcernsStep
    <3>3. q' = a
      BY <1>1, <2>2 DEF Stays
    <3> QED
      BY <1>2, <2>1, <2>2, <2>4, <3>1, <3>2, <3>3
  <2> QED
    BY <2>3, <2>4
<1>5. doing'[o] = doing[o] /\ wants'[o] = q /\ read'[o] = read[o]
  BY <1>1 DEF Stays
<1>6. doing[o] = "remove" => \A c \in read[o] : c \in RemarkIds'
  BY <1>4
<1>7. doing[o] = "remove" =>
        \A c \in read'[o] : c \in Concerns(wants[o])' \/ documents'[c] = Gone \/ c \in tangled'
  BY <1>4, <1>5
<1> QED
  BY <1>0, <1>2, <1>3, <1>5, <1>6, <1>7 DEF WantInv

LEMMA WantSteps ==
  ASSUME DraftCommentInv, NEW t \in DraftThreads, Handles(t)
  PROVE  WantInv(t)'
<1> DEFINE q == wants[t]
           n == Len(documents)
           OpFits(op, s) == /\ op = "create" => s \in CreatingSteps
                            /\ op = "delete" => s \in DeletingSteps
                            /\ op \in ListOps \cup {"update"} => s \in ChangingSteps
<1>0. /\ RemarksType /\ DraftThreadsType /\ WantInv(t) /\ n \in Nat /\ RemarkIds = 1 .. n
      /\ documents \in [RemarkIds -> DraftDocs(n) \cup {Gone}]
      /\ remarkItems \in [RemarkIds -> DraftItems(n) \cup {Gone}]
      /\ repliesItem \in Int /\ Shown \subseteq RemarkIds
  BY RemarkFacts DEF DraftCommentInv, RemarksType, Shown
<1>1. RemarkIds \subseteq RemarkIds' /\ (Len(documents') = n \/ InsertDocument(t))
  BY <1>0, RemarksGrow, RemarksNext
<1>2. CASE Answer(t)
  <2>1. doing'[t] = "idle"
    BY <1>0, <1>2, AnswerEffect
  <2> QED
    BY <2>1 DEF WantInv
<1>3. ASSUME NEW s, NEW v, Then(t, s, v), Len(documents') = n, doing[t] \notin {"idle", "insert"},
             s # "insert", OpFits(q.op, s),
             s \notin {"writeReplies", "saveReplies", "saveItem", "saveDocument", "remove"}
      PROVE  WantInv(t)'
  <2>1. doing'[t] = s /\ read'[t] = v /\ wants'[t] = q
    BY <1>0, <1>3, ThenEffect
  <2>2. q \in DraftAsks(n) /\ q.comment \in RemarkIds
    BY <1>0, <1>3 DEF WantInv
  <2> QED
    BY <1>1, <1>3, <2>1, <2>2 DEF WantInv
<1>4. CASE AskCreate(t) \/ AskChange(t)
  <2>1. PICK step, a : /\ Ask(t, step, a) /\ a \in DraftAsks(n)
                       /\ \/ step = "insert" /\ a.op = "create" /\ a.comment = Gone
                          \/ step = "item" /\ a.op \in RemarkOps /\ a.comment \in RemarkIds
    BY <1>0, <1>4, AskForms
  <2>2. doing'[t] = step /\ wants'[t] = a /\ documents' = documents
    BY <1>0, <2>1, AskEffect DEF Ask, remarkStores
  <2>3. "insert" \in CreatingSteps /\ "item" \in DeletingSteps /\ "item" \in ChangingSteps
        /\ "create" \notin RemarkOps
    BY DEF CreatingSteps, DeletingSteps, ChangingSteps, RemarkOps, ListOps
  <2>4. a.op = "delete" => step = "item"
    BY <2>1
  <2>5. a.op \in ListOps \cup {"update"} => step = "item"
    BY <2>1 DEF ListOps
  <2>6. a.op = "create" => step = "insert"
    BY <2>1, <2>3
  <2> QED
    BY <1>1, <2>1, <2>2, <2>3, <2>4, <2>5, <2>6 DEF WantInv
<1>5. CASE InsertDocument(t)
  <2>1. CASE /\ wants'[t] = [q EXCEPT !.comment = n + 1] /\ doing'[t] = "count"
             /\ documents' = Append(documents, [author |-> q.who, text |-> q.text,
                  replyTo |-> q.replyTo, likes |-> {}, dislikes |-> {}])
    <3>1. q \in DraftAsks(n) /\ q.op = "create"
      BY <1>0, <1>5, InsertForms
    <3>2. Len(documents') = n + 1
      BY <1>0, <2>1, AppendProperties DEF RemarksType
    <3>3. wants'[t] \in DraftAsks(n + 1) /\ wants'[t].op = "create" /\ wants'[t].comment = n + 1
      <4> DEFINE r == [q EXCEPT !.comment = n + 1]
      <4>1. r \in DraftAsks(n + 1)
        BY <1>0, <3>1, SMTT(30) DEF DraftAsks
      <4>2. r.op = q.op /\ r.comment = n + 1
        BY <3>1 DEF DraftAsks
      <4>3. wants'[t] = r
        BY <2>1
      <4> HIDE DEF r
      <4> QED
        BY <3>1, <4>1, <4>2, <4>3
    <3>4. RemarkIds' = 1 .. (n + 1)
      BY <1>0, <3>2, RemarksGrow
    <3>5. wants'[t].comment \in RemarkIds'
      BY <1>0, <3>3, <3>4
    <3> QED
      BY <2>1, <3>2, <3>3, <3>5 DEF WantInv, CreatingSteps, ListOps
  <2> QED
    BY <1>0, <1>2, <1>5, <2>1, InsertForms
<1>6. CASE CountDocuments(t)
  <2>1. /\ doing[t] = "count" /\ Then(t, "writeReplies", Cardinality(Shown))
        /\ documents' = documents
    BY <1>6 DEF CountDocuments, remarkStores
  <2>2. doing'[t] = "writeReplies" /\ read'[t] = Cardinality(Shown) /\ wants'[t] = q
    BY <1>0, <2>1, ThenEffect
  <2>3. Cardinality(Shown) \in Nat
    BY <1>0, ShownCounted
  <2> QED
    BY <1>0, <1>1, <2>1, <2>2, <2>3 DEF WantInv, CreatingSteps, DeletingSteps, ChangingSteps
<1>7. CASE WriteReplies(t)
  <2>1. CASE q.op = "create"
    BY <1>1, <1>3, <1>7, <2>1 DEF WriteReplies, CreatingSteps, ListOps
  <2> QED
    BY <1>2, <1>7, <2>1 DEF WriteReplies
<1>8. CASE InsertItem(t)
  <2>1. q.op \notin {"delete"} \cup ListOps \cup {"update"}
    BY <1>0, <1>8 DEF InsertItem, WantInv, DeletingSteps, ChangingSteps
  <2> QED
    BY <1>1, <1>3, <1>8, <2>1 DEF InsertItem, CreatingSteps
<1>9. CASE ReadReplies(t)
  <2>1. /\ doing[t] = "readReplies" /\ Then(t, "saveReplies", repliesItem)
        /\ documents' = documents
    BY <1>9 DEF ReadReplies, remarkStores
  <2>2. doing'[t] = "saveReplies" /\ read'[t] = repliesItem /\ wants'[t] = q
    BY <1>0, <2>1, ThenEffect
  <2> QED
    BY <1>0, <1>1, <2>1, <2>2 DEF WantInv, CreatingSteps, DeletingSteps, ChangingSteps
<1>10. CASE SaveReplies(t)
  <2>1. q.op \notin ListOps \cup {"update"}
    BY <1>0, <1>10 DEF SaveReplies, WantInv, ChangingSteps
  <2>2. CASE q.op # "create"
    BY <1>1, <1>3, <1>10, <2>1, <2>2 DEF SaveReplies, DeletingSteps
  <2> QED
    BY <1>2, <1>10, <2>2 DEF SaveReplies
<1>11. CASE ReadRemark(t)
  <2> DEFINE c == remarkItems[q.comment]
  <2>1. doing[t] = "item" /\ q.op # "create" /\ Len(documents') = n
    BY <1>0, <1>1, <1>11 DEF ReadRemark, WantInv, CreatingSteps, InsertDocument
  <2>2. CASE Then(t, "document", Gone)
    BY <1>3, <2>1, <2>2 DEF DeletingSteps, ChangingSteps
  <2>3. CASE c # Gone /\ Then(t, "saveItem", c)
    <3>1. doing'[t] = "saveItem" /\ read'[t] = c /\ wants'[t] = q
      BY <1>0, <2>3, ThenEffect
    <3>2. q \in DraftAsks(n) /\ q.comment \in RemarkIds
      BY <1>0, <2>1 DEF WantInv
    <3>3. c \in DraftItems(n) /\ remarkItems' = remarkItems /\ documents' = documents
      BY <1>0, <1>11, <2>3, <3>2 DEF ReadRemark, remarkStores
    <3> QED
      BY <1>1, <2>1, <2>3, <3>1, <3>2, <3>3 DEF WantInv, DeletingSteps, ChangingSteps
  <2> QED
    BY <1>2, <1>11, <2>2, <2>3 DEF ReadRemark
<1>12. CASE SaveRemark(t)
  <2>1. doing[t] = "saveItem" /\ q.op # "create" /\ Len(documents') = n
    BY <1>0, <1>1, <1>12 DEF SaveRemark, WantInv, CreatingSteps, InsertDocument
  <2>2. CASE q.op = "delete"
    <3>1. Then(t, "readReplies", Gone)
      BY <1>12, <2>2 DEF SaveRemark
    <3> QED
      BY <1>3, <2>1, <2>2, <3>1 DEF DeletingSteps, ListOps
  <2>3. CASE q.op # "delete"
    <3>1. Then(t, "document", Gone)
      BY <1>12, <2>3 DEF SaveRemark
    <3> QED
      BY <1>3, <2>1, <2>3, <3>1 DEF ChangingSteps
  <2> QED
    BY <2>2, <2>3
<1>13. CASE ReadDocument(t)
  <2> DEFINE c == documents[q.comment]
  <2>1. doing[t] = "document" /\ q.op # "create" /\ documents' = documents
    BY <1>0, <1>13 DEF ReadDocument, WantInv, CreatingSteps, remarkStores
  <2>2. CASE q.op = "delete" /\ Then(t, "findReplies", c)
    BY <1>3, <2>1, <2>2 DEF DeletingSteps, ListOps
  <2>3. CASE q.op # "delete" /\ c # Gone /\ Then(t, "saveDocument", c)
    <3>1. doing'[t] = "saveDocument" /\ read'[t] = c /\ wants'[t] = q
      BY <1>0, <2>3, ThenEffect
    <3>2. q \in DraftAsks(n) /\ q.comment \in RemarkIds
      BY <1>0, <2>1 DEF WantInv
    <3>3. c \in DraftDocs(n)
      BY <1>0, <2>3, <3>2
    <3> QED
      BY <1>1, <2>1, <2>3, <3>1, <3>2, <3>3 DEF WantInv, ChangingSteps
  <2> QED
    BY <1>2, <1>13, <2>2, <2>3 DEF ReadDocument
<1>14. CASE FindReplies(t)
  <2>1. doing[t] = "findReplies" /\ Then(t, "remove", Concerns(q)) /\ documents' = documents
    BY <1>14 DEF FindReplies, remarkStores
  <2>2. doing'[t] = "remove" /\ read'[t] = Concerns(q) /\ wants'[t] = q
    BY <1>0, <2>1, ThenEffect
  <2>3. q \in DraftAsks(n) /\ q.comment \in RemarkIds
    BY <1>0, <2>1 DEF WantInv
  <2>4. q.comment \in Concerns(q) /\ Concerns(q) \subseteq RemarkIds
    BY <1>0, <2>3 DEF Concerns
  <2>5. Concerns(wants[t])' = Concerns(q)
    BY <2>1, <2>2 DEF Concerns, Shown, RemarkIds
  <2>6. q.op \notin {"create"} \cup ListOps \cup {"update"}
    BY <1>0, <2>1 DEF WantInv, CreatingSteps, ChangingSteps
  <2> QED
    BY <1>1, <2>1, <2>2, <2>3, <2>4, <2>5, <2>6 DEF WantInv, DeletingSteps
<1>15. CASE RemoveDocuments(t)
  <2>1. doing[t] = "remove" /\ Then(t, "count", Gone) /\ Len(documents') = n
    BY <1>0, <1>1, <1>15 DEF RemoveDocuments, InsertDocument
  <2>2. q.op \notin ListOps \cup {"update"}
    BY <1>0, <2>1 DEF WantInv, ChangingSteps
  <2> QED
    BY <1>3, <2>1, <2>2 DEF CreatingSteps, DeletingSteps
<1>16. CASE SaveDocument(t)
  BY <1>2, <1>16 DEF SaveDocument
<1> QED
  BY <1>4, <1>5, <1>6, <1>7, <1>8, <1>9, <1>10, <1>11, <1>12, <1>13, <1>14, <1>15, <1>16
  DEF Handles

-----------------------------------------------------------------------------
\* Every step but the first two goes on with the same request, or answers it.
LEMMA GoesOn ==
  ASSUME DraftCommentInv, NEW t \in DraftThreads, Handles(t),
         ~AskCreate(t), ~AskChange(t), ~InsertDocument(t)
  PROVE  /\ doing[t] \notin {"idle", "insert"}
         /\ Answer(t) \/ \E s, v : Then(t, s, v) /\ s \notin {"idle", "insert"}
<1>1. CASE SaveRemark(t)
  <2>1. doing[t] = "saveItem" /\ (Then(t, "readReplies", Gone) \/ Then(t, "document", Gone))
    BY <1>1 DEF SaveRemark
  <2> QED
    BY <2>1
<1>2. CASE ReadDocument(t)
  <2>1. /\ doing[t] = "document"
        /\ Answer(t) \/ \E v : Then(t, "findReplies", v) \/ Then(t, "saveDocument", v)
    BY <1>2 DEF ReadDocument
  <2> QED
    BY <2>1
<1>3. CASE ReadRemark(t)
  <2>1. /\ doing[t] = "item"
        /\ Answer(t) \/ \E v : Then(t, "document", v) \/ Then(t, "saveItem", v)
    BY <1>3 DEF ReadRemark
  <2> QED
    BY <2>1
<1>4. CASE CountDocuments(t) \/ WriteReplies(t)
  <2>1. /\ doing[t] \in {"count", "writeReplies"}
        /\ Answer(t) \/ \E v : Then(t, "writeReplies", v) \/ Then(t, "insertItem", v)
    BY <1>4 DEF CountDocuments, WriteReplies
  <2> QED
    BY <2>1
<1>5. CASE InsertItem(t) \/ ReadReplies(t) \/ SaveReplies(t)
  <2>1. /\ doing[t] \in {"insertItem", "readReplies", "saveReplies"}
        /\ Answer(t) \/ \E v : Then(t, "readReplies", v) \/ Then(t, "saveReplies", v)
                               \/ Then(t, "document", v)
    BY <1>5 DEF InsertItem, ReadReplies, SaveReplies
  <2> QED
    BY <2>1
<1>6. CASE SaveDocument(t) \/ FindReplies(t) \/ RemoveDocuments(t)
  <2>1. /\ doing[t] \in {"saveDocument", "findReplies", "remove"}
        /\ Answer(t) \/ \E v : Then(t, "remove", v) \/ Then(t, "count", v)
    BY <1>6 DEF SaveDocument, FindReplies, RemoveDocuments
  <2> QED
    BY <2>1
<1> QED
  BY <1>1, <1>2, <1>3, <1>4, <1>5, <1>6 DEF Handles

LEMMA TangleNext ==
  ASSUME DraftCommentInv, NEW t \in DraftThreads, Handles(t)
  PROVE  TangleInv'
<1> DEFINE n == Len(documents)
           Pair(a, b) == a # b /\ doing'[a] # "idle" /\ doing'[b] # "idle" /\ doing'[a] # "insert"
<1>0. /\ RemarksType /\ DraftThreadsType /\ TangleInv /\ (\A o \in DraftThreads : WantInv(o))
      /\ n \in Nat /\ RemarkIds = 1 .. n /\ tangled \subseteq tangled' /\ Untouched(t)
      /\ Gone \notin RemarkIds
  BY RemarkFacts, TangledGrows, OthersStay, GoneFacts DEF DraftCommentInv
<1>1. ASSUME NEW a \in DraftThreads, NEW b \in DraftThreads, Pair(a, b),
             wants'[a] = wants[a], wants'[b] = wants[b],
             doing[a] \notin {"idle", "insert"}, doing[b] # "idle"
      PROVE  /\ wants'[a].comment = wants'[b].comment => wants'[a].comment \in tangled'
             /\ (wants'[a].op # "create" /\ wants'[a].comment \in Concerns(wants[b])') =>
                  wants'[a].comment \in tangled'
  <2>1. PICK c : c = wants[a].comment
    OBVIOUS
  <2>2. c \in RemarkIds
    BY <1>0, <1>1, <2>1 DEF WantInv
  <2>3. PICK w : w = wants[b]
    OBVIOUS
  <2>4. CASE c \in tangled
    BY <1>0, <1>1, <2>1, <2>4
  <2>5. CASE c \notin tangled
    <3>1. c # w.comment /\ (wants[a].op = "create" \/ c \notin Concerns(w))
      BY <1>0, <1>1, <2>1, <2>3, <2>5 DEF TangleInv
    <3>2. c \in Concerns(w)' => c \in Concerns(w)
      BY <2>2, <2>5, ConcernsStep
    <3>3. Concerns(wants[b])' = Concerns(w)'
      BY <1>1, <2>3 DEF Concerns
    <3> QED
      BY <1>1, <2>1, <2>3, <3>1, <3>2, <3>3
  <2> QED
    BY <2>4, <2>5
<1>2. ASSUME NEW o \in DraftThreads, o # t, doing'[o] # "idle"
      PROVE  /\ wants'[o] = wants[o] /\ doing[o] = doing'[o]
             /\ wants[o].comment \in RemarkIds \cup {Gone}
             /\ doing[o] # "insert" => wants[o].comment \in RemarkIds
  <2>1. wants'[o] = wants[o] /\ doing[o] = doing'[o]
    BY <1>0, <1>2 DEF Untouched, Stays
  <2>2. wants[o] \in DraftAsks(n) /\ (doing[o] # "insert" => wants[o].comment \in RemarkIds)
    BY <1>0, <1>2, <2>1 DEF WantInv
  <2> QED
    BY <1>0, <2>1, <2>2 DEF DraftAsks
<1>3. CASE ~AskCreate(t) /\ ~AskChange(t) /\ ~InsertDocument(t)
  <2>1. doing[t] \notin {"idle", "insert"} /\ (doing'[t] = "idle" \/ wants'[t] = wants[t])
    BY <1>0, <1>3, GoesOn, AnswerEffect, ThenEffect
  <2>2. ASSUME NEW a \in DraftThreads, NEW b \in DraftThreads, Pair(a, b)
        PROVE  /\ wants'[a] = wants[a] /\ wants'[b] = wants[b]
               /\ doing[a] \notin {"idle", "insert"} /\ doing[b] # "idle"
    BY <1>2, <2>1, <2>2
  <2> QED
    BY <1>1, <2>2 DEF TangleInv
<1>4. CASE InsertDocument(t)
  <2>1. CASE Answer(t)
    <3>1. doing'[t] = "idle"
      BY <1>0, <2>1, AnswerEffect
    <3>2. ASSUME NEW a \in DraftThreads, NEW b \in DraftThreads, Pair(a, b)
          PROVE  /\ wants'[a] = wants[a] /\ wants'[b] = wants[b]
                 /\ doing[a] \notin {"idle", "insert"} /\ doing[b] # "idle"
      BY <1>2, <3>1, <3>2
    <3> QED
      BY <1>1, <3>2 DEF TangleInv
  <2>2. CASE wants'[t] = [wants[t] EXCEPT !.comment = n + 1] /\ doing'[t] = "count"
    <3>1. wants[t] \in DraftAsks(n) /\ wants[t].op = "create"
      BY <1>0, <1>4, InsertForms
    <3>2. wants'[t].op = "create" /\ wants'[t].comment = n + 1
      BY <2>2, <3>1 DEF DraftAsks
    <3>3. n + 1 \notin RemarkIds \cup {Gone}
      BY <1>0, GoneFacts
    <3>4. Concerns(wants[t])' = {n + 1}
      BY <3>2 DEF Concerns
    <3>5. ASSUME NEW a \in DraftThreads, NEW b \in DraftThreads, Pair(a, b), a # t, b # t
          PROVE  /\ wants'[a] = wants[a] /\ wants'[b] = wants[b]
                 /\ doing[a] \notin {"idle", "insert"} /\ doing[b] # "idle"
      BY <1>2, <3>5
    <3>6. ASSUME NEW b \in DraftThreads, Pair(t, b)
          PROVE  wants'[t].comment # wants'[b].comment
      BY <1>2, <3>2, <3>3, <3>6
    <3>7. ASSUME NEW a \in DraftThreads, Pair(a, t)
          PROVE  wants'[a].comment # wants'[t].comment /\ wants'[a].comment \notin Concerns(wants[t])'
      <4>1. wants'[a].comment \in RemarkIds
        BY <1>2, <3>7
      <4> QED
        BY <3>2, <3>3, <3>4, <4>1
    <3> QED
      BY <1>1, <3>2, <3>5, <3>6, <3>7 DEF TangleInv
  <2> QED
    BY <1>0, <1>4, <2>1, <2>2, InsertForms
<1>5. CASE AskCreate(t) \/ AskChange(t)
  <2>1. PICK step, q : /\ Ask(t, step, q) /\ q \in DraftAsks(n)
                       /\ \/ step = "insert" /\ q.op = "create" /\ q.comment = Gone
                          \/ step = "item" /\ q.op \in RemarkOps /\ q.comment \in RemarkIds
    BY <1>0, <1>5, AskForms
  <2>2. /\ doing'[t] = step /\ wants'[t] = q /\ UNCHANGED documents
        /\ tangled' = tangled \cup {c \in RemarkIds :
                        c \in Concerns(q) /\ \E o \in DraftServed : c \in Concerns(wants[o])}
    BY <1>0, <2>1, AskEffect DEF Ask, remarkStores
  <2>3. \A w : Concerns(w)' = Concerns(w)
    BY <2>2 DEF Concerns, Shown, RemarkIds
  <2>4. \A w : w.comment \in Concerns(w)
    BY DEF Concerns
  <2>5. ASSUME NEW a \in DraftThreads, NEW b \in DraftThreads, Pair(a, b), a # t, b # t
        PROVE  /\ wants'[a] = wants[a] /\ wants'[b] = wants[b]
               /\ doing[a] \notin {"idle", "insert"} /\ doing[b] # "idle"
    BY <1>2, <2>5
  <2>6. ASSUME NEW b \in DraftThreads, Pair(t, b)
        PROVE  /\ q.comment \in RemarkIds
               /\ q.comment \in Concerns(wants[b]) => q.comment \in tangled'
               /\ wants'[b] = wants[b] /\ Concerns(wants[b])' = Concerns(wants[b])
    <3>1. q.comment \in RemarkIds
      BY <2>1, <2>2, <2>6
    <3>2. wants'[b] = wants[b] /\ b \in DraftServed
      BY <1>2, <2>6 DEF DraftServed
    <3>3. PICK w : w = wants[b]
      OBVIOUS
    <3>4. Concerns(wants[b])' = Concerns(w)
      BY <2>2, <3>2, <3>3 DEF Concerns, Shown, RemarkIds
    <3> QED
      BY <2>2, <2>4, <3>1, <3>2, <3>3, <3>4
  <2>7. ASSUME NEW a \in DraftThreads, Pair(a, t)
        PROVE  wants'[a].comment \in Concerns(q) => wants'[a].comment \in tangled'
    <3>1. wants'[a] = wants[a] /\ a \in DraftServed /\ wants[a].comment \in RemarkIds
      BY <1>2, <2>7 DEF DraftServed
    <3> QED
      BY <2>2, <2>4, <3>1
  <2>8. Concerns(wants[t])' = Concerns(q)
    BY <2>2 DEF Concerns, Shown, RemarkIds
  <2> QED
    BY <1>1, <2>2, <2>4, <2>5, <2>6, <2>7, <2>8 DEF TangleInv
<1> QED
  BY <1>3, <1>4, <1>5

-----------------------------------------------------------------------------
\* What a step does to a comment that the request is not about.
LEMMA FarStep ==
  ASSUME DraftCommentInv, NEW t \in DraftThreads, Handles(t), NEW c \in RemarkIds \ tangled',
         doing[t] \in {"idle", "insert"} \/ wants[t].comment # c
  PROVE  /\ remarkItems'[c] = remarkItems[c]
         /\ \/ documents'[c] = documents[c]
            \/ /\ documents'[c] = Gone /\ documents[c] # Gone /\ RemoveDocuments(t)
               /\ c \in Concerns(wants[t]) /\ documents[c].replyTo = wants[t].comment
               /\ documents'[wants[t].comment] = Gone /\ wants[t].comment # Gone
<1> DEFINE q == wants[t]
<1>0. /\ RemarksType /\ DraftThreadsType /\ WantInv(t) /\ c \notin tangled
      /\ RemarkIds = 1 .. Len(documents) /\ Gone \notin RemarkIds
  BY RemarkFacts, TangledGrows, GoneFacts DEF DraftCommentInv
<1>1. remarkItems'[c] = remarkItems[c]
  BY <1>0, ItemsStay
<1>2. SaveDocument(t) => q.comment # c
  BY DEF SaveDocument
<1>3. CASE documents'[c] = Gone /\ documents[c] # Gone /\ RemoveDocuments(t) /\ c \in read[t]
  <2>1. /\ doing[t] = "remove" /\ q.comment # c
        /\ documents' = [d \in RemarkIds |-> IF d \in read[t] THEN Gone ELSE documents[d]]
    BY <1>3 DEF RemoveDocuments
  <2>2. c \in Concerns(q) /\ q.comment \in read[t] /\ q.comment \in RemarkIds
    BY <1>0, <1>3, <2>1 DEF WantInv
  <2>3. documents[c].replyTo = q.comment
    BY <2>1, <2>2 DEF Concerns
  <2> QED
    BY <1>0, <1>1, <1>3, <2>1, <2>2, <2>3
<1> QED
  BY <1>0, <1>1, <1>2, <1>3, DocumentsStep

LEMMA OrphanStays ==
  ASSUME DraftCommentInv, NEW t \in DraftThreads, Handles(t), NEW p \in RemarkIds, Orphan(p)
  PROVE  Orphan(p)'
<1>1. p # Gone /\ tangled \subseteq tangled'
  BY TangledGrows DEF Orphan
<1>2. CASE p \in tangled
  BY <1>1, <1>2 DEF Orphan
<1>3. CASE p \notin tangled
  <2>1. documents[p] = Gone
    BY <1>3 DEF Orphan
  <2>2. documents'[p] = Gone
    BY <1>3, <2>1, DocumentsStep
  <2> QED
    BY <1>1, <2>2 DEF Orphan
<1> QED
  BY <1>2, <1>3

LEMMA FarAgrees ==
  ASSUME DraftCommentInv, NEW t \in DraftThreads, Handles(t), NEW c \in RemarkIds \ tangled',
         doing[t] \in {"idle", "insert"} \/ wants[t].comment # c,
         Agrees(c)
  PROVE  Agrees(c)'
<1> DEFINE item == remarkItems[c]
<1>0. /\ RemarksType /\ RemarkIds = 1 .. Len(documents)
      /\ item \in DraftItems(Len(documents)) \cup {Gone}
  BY RemarkFacts DEF DraftCommentInv
<1>1. item # Gone => item.replyTo \in RemarkIds \cup {Gone}
  BY <1>0 DEF DraftItems
<1>2. PICK p : p = item.replyTo
  OBVIOUS
<1>3. (item # Gone /\ Orphan(p)) => Orphan(p)'
  BY <1>1, <1>2, OrphanStays DEF Orphan
<1>4. remarkItems'[c] = item
  BY FarStep
<1>5. CASE documents'[c] = documents[c]
  BY <1>2, <1>3, <1>4, <1>5 DEF Agrees, Matches, Orphan
<1>6. CASE /\ documents'[c] = Gone /\ documents[c] # Gone
           /\ documents[c].replyTo = wants[t].comment
           /\ documents'[wants[t].comment] = Gone /\ wants[t].comment # Gone
  <2>1. item # Gone /\ p = wants[t].comment
    BY <1>2, <1>6 DEF Agrees, Matches
  <2>2. Orphan(p)'
    BY <1>6, <2>1 DEF Orphan
  <2> QED
    BY <1>2, <1>4, <1>6, <2>2 DEF Agrees, Orphan
<1> QED
  BY <1>5, <1>6, FarStep

\* A request about a comment stays where it is while one about another is handled.
LEMMA FarHalf ==
  ASSUME DraftCommentInv, NEW t \in DraftThreads, Handles(t), NEW c \in RemarkIds \ tangled',
         doing[t] \in {"idle", "insert"} \/ wants[t].comment # c,
         NEW o \in DraftThreads \ {t}, doing[o] \notin {"idle", "insert"}, wants[o].comment = c,
         HalfServed(o, c)
  PROVE  HalfServed(o, c)'
<1> DEFINE q == wants[o]
<1>0. /\ RemarksType /\ DraftThreadsType /\ WantInv(t) /\ WantInv(o) /\ TangleInv /\ c \notin tangled
      /\ RemarkIds = 1 .. Len(documents)
  BY RemarkFacts, TangledGrows DEF DraftCommentInv
<1>1. doing'[o] = doing[o] /\ wants'[o] = q /\ read'[o] = read[o]
  BY <1>0, OthersStay DEF Untouched, Stays
<1>2. Agrees(c) => Agrees(c)'
  BY FarAgrees
<1>3. remarkItems'[c] = remarkItems[c]
  BY FarStep
<1>4. CASE documents'[c] = documents[c]
  <2>1. PICK a : a = q
    OBVIOUS
  <2>2. a \in DraftAsks(Len(documents))
    BY <1>0, <2>1 DEF WantInv
  <2>3. Created(a, c) => Created(a, c)'
    <3>1. a.replyTo \in RemarkIds \cup {Gone}
      BY <1>0, <2>2 DEF DraftAsks
    <3>2. PICK p : p = a.replyTo
      OBVIOUS
    <3>3. Orphan(p) => Orphan(p)'
      BY <3>1, <3>2, OrphanStays DEF Orphan
    <3> QED
      BY <1>3, <1>4, <3>2, <3>3 DEF Created, Orphan
  <2>4. wants'[o] = a /\ (Created(wants[o], c)' <=> Created(a, c)')
    BY <1>1, <2>1 DEF Created, Orphan
  <2> QED
    BY <1>1, <1>2, <1>3, <1>4, <2>1, <2>3, <2>4 DEF HalfServed, Matches
<1>5. CASE /\ documents'[c] = Gone /\ documents[c] # Gone /\ RemoveDocuments(t)
           /\ c \in Concerns(wants[t]) /\ documents[c].replyTo = wants[t].comment
           /\ documents'[wants[t].comment] = Gone /\ wants[t].comment # Gone
  <2>1. doing[t] = "remove"
    BY <1>5 DEF RemoveDocuments
  <2>2. q.op = "create"
    BY <1>0, <1>5, <2>1 DEF TangleInv
  <2>3. doing[o] \in CreatingSteps
    BY <1>0, <2>2 DEF WantInv
  <2>4. Created(q, c) => q.replyTo = wants[t].comment
    BY <1>5 DEF Created
  <2>5. Created(q, c) => Created(wants[o], c)'
    BY <1>1, <1>3, <1>5, <2>4 DEF Created, Orphan
  <2> QED
    BY <1>1, <1>2, <2>2, <2>3, <2>5 DEF HalfServed, CreatingSteps, ListOps
<1> QED
  BY <1>4, <1>5, FarStep

\* A request brings the two stores of its comment one step further, or is answered
\* when they agree.
LEMMA OwnStep ==
  ASSUME DraftCommentInv, NEW t \in DraftThreads, Handles(t), NEW c \in RemarkIds \ tangled',
         doing[t] \notin {"idle", "insert"}, wants[t].comment = c
  PROVE  /\ doing'[t] = "idle" => Agrees(c)'
         /\ doing'[t] # "idle" => HalfServed(t, c)'
<1> DEFINE n == Len(documents)
<1>a. PICK q, item, doc : q = wants[t] /\ item = remarkItems[c] /\ doc = documents[c]
  OBVIOUS
<1>0. /\ RemarksType /\ DraftThreadsType /\ WantInv(t) /\ HalfServed(t, c)
      /\ n \in Nat /\ RemarkIds = 1 .. n /\ c \notin tangled /\ tangled \subseteq tangled'
      /\ documents \in [RemarkIds -> DraftDocs(n) \cup {Gone}]
      /\ remarkItems \in [RemarkIds -> DraftItems(n) \cup {Gone}]
      /\ Gone \notin DraftItems(n)
  BY RemarkFacts, TangledGrows, GoneFacts DEF DraftCommentInv, AgreeInv, DraftServed
<1>1. /\ q \in DraftAsks(n) /\ q.comment = c
      /\ item \in DraftItems(n) \cup {Gone} /\ doc \in DraftDocs(n) \cup {Gone}
      /\ q.op = "create" \/ q.op = "delete" \/ q.op \in Listed
      /\ Listed = ListOps \cup {"update"}
      /\ q.op \in Listed => q.op # "delete" /\ q.op # "create" /\ q.op \in RemarkOps
  <2>1. q \in DraftAsks(n)
    BY <1>0, <1>a DEF WantInv
  <2> QED
    BY <1>0, <1>a, <2>1 DEF DraftAsks, RemarkOps, Listed, ListOps
<1>2. \A p : (documents' = documents /\ Orphan(p)) => Orphan(p)'
  BY <1>0 DEF Orphan
<1>3. (documents' = documents /\ remarkItems' = remarkItems /\ Agrees(c)) => Agrees(c)'
  <2>1. PICK p : p = item.replyTo
    OBVIOUS
  <2> QED
    BY <1>2, <1>a, <2>1 DEF Agrees, Matches, Orphan
<1>4. (documents' = documents /\ remarkItems' = remarkItems /\ Created(q, c)) => Created(q, c)'
  <2>1. PICK p : p = q.replyTo
    OBVIOUS
  <2> QED
    BY <1>2, <2>1 DEF Created, Orphan
<1>5. ASSUME NEW s, NEW v, Then(t, s, v)
      PROVE  doing'[t] = s /\ read'[t] = v /\ wants'[t] = q
  BY <1>0, <1>5, <1>a, ThenEffect
<1>6. Answer(t) => doing'[t] = "idle"
  BY <1>0, AnswerEffect
<1>7. wants'[t] = q => (Created(wants[t], c)' <=> Created(q, c)')
  BY DEF Created, Orphan
<1>8. CASE CountDocuments(t)
  <2>1. /\ doing[t] = "count" /\ doing'[t] = "writeReplies" /\ wants'[t] = q
        /\ documents' = documents /\ remarkItems' = remarkItems
    BY <1>5, <1>8 DEF CountDocuments, remarkStores
  <2>2. q.op \notin Listed
    BY <1>0, <1>1, <1>a, <2>1 DEF WantInv, ChangingSteps
  <2> QED
    BY <1>0, <1>1, <1>4, <1>7, <1>a, <2>1, <2>2 DEF HalfServed
<1>9. CASE WriteReplies(t)
  <2>1. /\ doing[t] = "writeReplies" /\ documents' = documents /\ remarkItems' = remarkItems
    BY <1>9 DEF WriteReplies
  <2>2. q.op \notin Listed
    BY <1>0, <1>1, <1>a, <2>1 DEF WantInv, ChangingSteps
  <2>3. CASE q.op = "create"
    <3>1. doing'[t] = "insertItem" /\ wants'[t] = q
      BY <1>5, <1>9, <1>a, <2>3 DEF WriteReplies
    <3> QED
      BY <1>0, <1>1, <1>4, <1>7, <1>a, <2>1, <2>3, <3>1 DEF HalfServed
  <2>4. CASE q.op = "delete"
    <3>1. doing'[t] = "idle"
      BY <1>6, <1>9, <1>a, <2>4 DEF WriteReplies
    <3>2. Agrees(c)
      BY <1>0, <1>a, <2>1, <2>4 DEF HalfServed, Agrees
    <3> QED
      BY <1>3, <2>1, <3>1, <3>2
  <2> QED
    BY <1>1, <2>2, <2>3, <2>4
<1>10. CASE InsertItem(t)
  <2> DEFINE fresh == [author |-> q.who, text |-> q.text, replyTo |-> q.replyTo,
                       likes |-> {}, dislikes |-> {}, archived |-> FALSE]
  <2>1. /\ doing[t] = "insertItem" /\ doing'[t] = "readReplies" /\ wants'[t] = q
        /\ documents' = documents /\ remarkItems' = [remarkItems EXCEPT ![c] = fresh]
    BY <1>1, <1>5, <1>10, <1>a DEF InsertItem
  <2>2. q.op = "create"
    BY <1>0, <1>1, <1>a, <2>1 DEF WantInv, DeletingSteps, ChangingSteps
  <2>3. Created(q, c)
    BY <1>0, <1>a, <2>1, <2>2 DEF HalfServed
  <2>4. fresh \in DraftItems(n)
    BY <1>1 DEF DraftItems, DraftAsks
  <2>5. remarkItems'[c] = fresh
    BY <1>0, <2>1
  <2>6. fresh.replyTo = q.replyTo /\ ~fresh.archived /\ fresh.author = q.who /\ fresh.text = q.text
        /\ fresh.likes = {} /\ fresh.dislikes = {} /\ fresh # Gone
    BY <1>0, <2>4
  <2> HIDE DEF fresh
  <2>7. CASE doc = Gone
    <3>1. PICK p : p = q.replyTo
      OBVIOUS
    <3>2. Orphan(p)'
      BY <1>2, <1>a, <2>1, <2>3, <2>7, <3>1 DEF Created
    <3>3. Agrees(c)'
      BY <1>a, <2>1, <2>5, <2>6, <2>7, <3>1, <3>2 DEF Agrees, Orphan
    <3> QED
      BY <2>1, <2>2, <3>3 DEF HalfServed, ListOps
  <2>8. CASE doc # Gone
    <3>1. doc = [author |-> q.who, text |-> q.text, replyTo |-> q.replyTo,
                 likes |-> {}, dislikes |-> {}]
      BY <1>a, <2>3, <2>8 DEF Created
    <3>2. Agrees(c)'
      BY <1>a, <2>1, <2>5, <2>6, <2>8, <3>1 DEF Agrees, Matches
    <3> QED
      BY <2>1, <2>2, <3>2 DEF HalfServed, ListOps
  <2> QED
    BY <2>7, <2>8
<1>11. CASE ReadReplies(t)
  <2>1. /\ doing[t] = "readReplies" /\ doing'[t] = "saveReplies" /\ wants'[t] = q
        /\ documents' = documents /\ remarkItems' = remarkItems
    BY <1>5, <1>11 DEF ReadReplies, remarkStores
  <2>2. q.op \notin Listed
    BY <1>0, <1>1, <1>a, <2>1 DEF WantInv, ChangingSteps
  <2> QED
    BY <1>0, <1>1, <1>3, <1>a, <2>1, <2>2 DEF HalfServed
<1>12. CASE SaveReplies(t)
  <2>1. doing[t] = "saveReplies" /\ documents' = documents /\ remarkItems' = remarkItems
    BY <1>12 DEF SaveReplies
  <2>2. q.op \notin Listed
    BY <1>0, <1>1, <1>a, <2>1 DEF WantInv, ChangingSteps
  <2>3. CASE q.op = "create"
    <3>1. doing'[t] = "idle"
      BY <1>6, <1>12, <1>a, <2>3 DEF SaveReplies
    <3> QED
      BY <1>0, <1>3, <1>a, <2>1, <2>3, <3>1 DEF HalfServed
  <2>4. CASE q.op = "delete"
    <3>1. doing'[t] = "document" /\ wants'[t] = q
      BY <1>5, <1>12, <1>a, <2>4 DEF SaveReplies
    <3> QED
      BY <1>0, <1>1, <1>a, <2>1, <2>4, <3>1 DEF HalfServed
  <2> QED
    BY <1>1, <2>2, <2>3, <2>4
<1>13. CASE ReadRemark(t)
  <2>1. doing[t] = "item" /\ documents' = documents /\ remarkItems' = remarkItems
    BY <1>13 DEF ReadRemark, remarkStores
  <2>2. q.op # "create" /\ Agrees(c) /\ Agrees(c)'
    BY <1>0, <1>3, <1>a, <2>1 DEF WantInv, CreatingSteps, HalfServed
  <2>3. CASE Idempotent(q, item) /\ item # Gone /\ Then(t, "document", Gone)
    <3>1. q.op # "delete" /\ doing'[t] = "document" /\ wants'[t] = q
      BY <1>5, <2>3 DEF Idempotent
    <3>2. doc # Gone => Matches(item, Rewritten(q, doc, doc))
      <4>1. ASSUME doc # Gone
            PROVE  Matches(item, Rewritten(q, doc, doc))
        <5>1. Matches(item, doc)
          BY <1>a, <2>2, <4>1 DEF Agrees
        <5> QED
          BY <1>0, <1>1, <2>2, <2>3, <3>1, <4>1, <5>1, RewrittenMatches
      <4> QED
        BY <4>1
    <3> QED
      BY <1>1, <1>a, <2>1, <2>2, <3>1, <3>2 DEF HalfServed, Matches
  <2>4. CASE Then(t, "saveItem", item)
    <3>1. doing'[t] = "saveItem" /\ wants'[t] = q /\ read'[t] = item
      BY <1>5, <2>4
    <3> QED
      BY <1>a, <2>1, <2>2, <3>1 DEF HalfServed
  <2>5. CASE Answer(t)
    BY <1>6, <2>2, <2>5
  <2> QED
    BY <1>1, <1>13, <1>a, <2>3, <2>4, <2>5 DEF ReadRemark
<1>14. CASE FindReplies(t)
  <2>1. /\ doing[t] = "findReplies" /\ doing'[t] = "remove" /\ wants'[t] = q
        /\ documents' = documents /\ remarkItems' = remarkItems
    BY <1>5, <1>14 DEF FindReplies, remarkStores
  <2>2. q.op = "delete"
    BY <1>0, <1>1, <1>a, <2>1 DEF WantInv, CreatingSteps, ChangingSteps
  <2> QED
    BY <1>0, <1>1, <1>a, <2>1, <2>2 DEF HalfServed
<1>15. CASE RemoveDocuments(t)
  <2>1. /\ doing[t] = "remove" /\ doing'[t] = "count" /\ wants'[t] = q /\ remarkItems' = remarkItems
        /\ documents' = [d \in RemarkIds |-> IF d \in read[t] THEN Gone ELSE documents[d]]
    BY <1>5, <1>15 DEF RemoveDocuments
  <2>2. q.op = "delete" /\ c \in read[t]
    BY <1>0, <1>1, <1>a, <2>1 DEF WantInv, CreatingSteps, ChangingSteps
  <2>3. documents'[c] = Gone
    BY <2>1, <2>2
  <2> QED
    BY <1>0, <1>1, <1>a, <2>1, <2>2, <2>3 DEF HalfServed
<1>16. CASE SaveRemark(t)
  <2> DEFINE new == Rewritten(q, item, item)
  <2>1. doing[t] = "saveItem" /\ documents' = documents
    BY <1>16 DEF SaveRemark
  <2>2. item # Gone /\ read[t] = item /\ Agrees(c) /\ q.op # "create"
    BY <1>0, <1>1, <1>a, <2>1 DEF WantInv, HalfServed, CreatingSteps
  <2>3. item \in DraftItems(n) /\ q.op \in RemarkOps
    BY <1>1, <2>2 DEF DraftAsks
  <2>4. new \in DraftItems(n) /\ new # Gone /\ new.replyTo = item.replyTo
        /\ new.archived = (item.archived \/ q.op = "delete")
    BY <1>0, <1>1, <2>3, RewrittenTypes, RewrittenItem
  <2>5. remarkItems'[c] = new
    BY <1>0, <1>1, <1>16, <1>a, <2>2 DEF SaveRemark, ItemWith
  <2> HIDE DEF new
  <2>6. CASE q.op = "delete"
    <3>1. doing'[t] = "readReplies" /\ wants'[t] = q
      BY <1>5, <1>16, <1>a, <2>6 DEF SaveRemark
    <3> QED
      BY <1>1, <2>4, <2>5, <2>6, <3>1 DEF HalfServed
  <2>7. CASE q.op \in Listed
    <3>1. doing'[t] = "document" /\ wants'[t] = q
      BY <1>1, <1>5, <1>16, <1>a, <2>7 DEF SaveRemark
    <3>2. CASE doc = Gone
      <4>1. PICK p : p = item.replyTo
        OBVIOUS
      <4>2. item.archived \/ Orphan(p)
        BY <1>a, <2>2, <3>2, <4>1 DEF Agrees
      <4>3. Agrees(c)'
        BY <1>2, <1>a, <2>1, <2>4, <2>5, <3>2, <4>1, <4>2 DEF Agrees, Orphan
      <4> QED
        BY <1>1, <1>a, <2>1, <2>7, <3>1, <3>2, <4>3 DEF HalfServed
    <3>3. CASE doc # Gone
      <4>1. Matches(item, doc)
        BY <1>a, <2>2, <3>3 DEF Agrees
      <4>2. Matches(new, Rewritten(q, doc, doc))
        BY <1>0, <1>1, <2>3, <2>7, <3>3, <4>1, RewrittenMatches DEF new
      <4> QED
        BY <1>1, <1>a, <2>1, <2>5, <2>7, <3>1, <3>3, <4>2 DEF HalfServed, Matches
    <3> QED
      BY <3>2, <3>3
  <2> QED
    BY <1>1, <2>2, <2>6, <2>7
<1>17. CASE ReadDocument(t)
  <2>1. /\ doing[t] = "document" /\ documents' = documents /\ remarkItems' = remarkItems
    BY <1>17 DEF ReadDocument, remarkStores
  <2>2. q.op # "create"
    BY <1>0, <1>a, <2>1 DEF WantInv, CreatingSteps
  <2>3. q.op = "delete" => item # Gone /\ item.archived
    BY <1>0, <1>a, <2>1 DEF HalfServed
  <2>4. q.op \in Listed => IF doc = Gone THEN Agrees(c) ELSE Matches(item, Rewritten(q, doc, doc))
    BY <1>0, <1>1, <1>a, <2>1 DEF HalfServed
  <2>5. CASE doc = Gone /\ Answer(t)
    <3>1. Agrees(c)
      BY <1>1, <1>a, <2>2, <2>3, <2>4, <2>5 DEF Agrees
    <3> QED
      BY <1>3, <1>6, <2>1, <2>5, <3>1
  <2>6. CASE Halfway(t)
    BY <1>1, <1>a, <2>6 DEF Halfway
  <2>7. CASE doc # Gone /\ Idempotent(q, doc) /\ Answer(t)
    <3>1. q.op \in Listed
      BY <1>1, <2>2, <2>7 DEF Idempotent
    <3>2. Matches(item, doc)
      BY <1>0, <1>1, <2>4, <2>7, <3>1, IdempotentMatches
    <3>3. Agrees(c)
      BY <1>a, <2>7, <3>2 DEF Agrees
    <3> QED
      BY <1>3, <1>6, <2>1, <2>7, <3>3
  <2>8. CASE q.op = "delete" /\ Then(t, "findReplies", doc)
    <3>1. doing'[t] = "findReplies" /\ wants'[t] = q
      BY <1>5, <2>8
    <3> QED
      BY <1>1, <1>a, <2>1, <2>3, <2>8, <3>1 DEF HalfServed
  <2>9. CASE q.op # "delete" /\ doc # Gone /\ Then(t, "saveDocument", doc)
    <3>1. doing'[t] = "saveDocument" /\ wants'[t] = q /\ read'[t] = doc
      BY <1>5, <2>9
    <3> QED
      BY <1>1, <1>a, <2>1, <2>2, <2>4, <2>9, <3>1 DEF HalfServed, Matches
  <2> QED
    BY <1>1, <1>17, <1>a, <2>5, <2>6, <2>7, <2>8, <2>9 DEF ReadDocument
<1>18. CASE SaveDocument(t)
  <2>1. doing[t] = "saveDocument" /\ remarkItems' = remarkItems /\ doing'[t] = "idle"
    BY <1>6, <1>18 DEF SaveDocument
  <2>2. q.op \in Listed
    BY <1>0, <1>1, <1>a, <2>1 DEF WantInv, CreatingSteps, DeletingSteps
  <2>3. doc # Gone /\ read[t] = doc /\ Matches(item, Rewritten(q, doc, doc))
    BY <1>0, <1>1, <1>a, <2>1, <2>2 DEF HalfServed
  <2>4. documents'[c] = Rewritten(q, doc, doc)
    BY <1>0, <1>1, <1>18, <1>a, <2>3 DEF SaveDocument
  <2>5. documents'[c] # Gone
    BY <1>0, <1>1, <2>2, <2>3, <2>4, RewrittenTypes, GoneFacts
  <2> QED
    BY <1>a, <2>1, <2>3, <2>4, <2>5 DEF Agrees, Matches
<1> QED
  BY <1>8, <1>9, <1>10, <1>11, <1>12, <1>13, <1>14, <1>15, <1>16, <1>17, <1>18
  DEF Handles, AskCreate, AskChange, Ask, InsertDocument

LEMMA AgreeNext ==
  ASSUME DraftCommentInv, NEW t \in DraftThreads, Handles(t)
  PROVE  AgreeInv'
<1> DEFINE n == Len(documents)
           Safe(c) == /\ (\A o \in DraftServed' : wants'[o].comment # c) => Agrees(c)'
                      /\ \A o \in DraftServed' : wants'[o].comment = c => HalfServed(o, c)'
<1>0. /\ RemarksType /\ DraftThreadsType /\ TangleInv /\ AgreeInv /\ Untouched(t)
      /\ n \in Nat /\ RemarkIds = 1 .. n /\ tangled \subseteq tangled'
      /\ \A o \in DraftThreads : WantInv(o)
      /\ Gone \notin RemarkIds
  BY RemarkFacts, TangledGrows, OthersStay, GoneFacts DEF DraftCommentInv
<1>1. \A o \in DraftThreads \ {t} : doing'[o] = doing[o] /\ wants'[o] = wants[o]
  BY <1>0 DEF Untouched, Stays
<1>2. ASSUME NEW o \in DraftThreads, NEW c \in RemarkIds, wants[o].comment = c, doing[o] # "idle"
      PROVE  doing[o] # "insert" /\ o \in DraftServed
  BY <1>0, <1>2 DEF WantInv, DraftServed
<1>3. ASSUME NEW o \in DraftThreads \ {t}, NEW c \in RemarkIds \ tangled', doing[o] # "idle",
             wants[o].comment = c
      PROVE  (doing[t] \in {"idle", "insert"} \/ wants[t].comment # c) /\ HalfServed(o, c)'
  <2>1. doing[o] # "insert" /\ o \in DraftServed /\ c \notin tangled
    BY <1>0, <1>2, <1>3
  <2>2. doing[t] \in {"idle", "insert"} \/ wants[t].comment # c
    BY <1>0, <1>3, <2>1 DEF TangleInv
  <2>3. HalfServed(o, c)
    BY <1>0, <1>3, <2>1 DEF AgreeInv
  <2> QED
    BY <1>3, <2>1, <2>2, <2>3, FarHalf
<1>4. ASSUME NEW c \in RemarkIds \ tangled', doing[t] \in {"idle", "insert"} \/ wants[t].comment # c,
             \A o \in DraftThreads \ {t} : doing[o] # "idle" => wants[o].comment # c
      PROVE  Agrees(c)'
  <2>1. \A o \in DraftServed : wants[o].comment # c
    BY <1>2, <1>4 DEF DraftServed
  <2>2. Agrees(c)
    BY <1>0, <2>1 DEF AgreeInv
  <2> QED
    BY <1>4, <2>2, FarAgrees
<1>5. CASE ~AskCreate(t) /\ ~AskChange(t) /\ ~InsertDocument(t)
  <2>1. doing[t] \notin {"idle", "insert"} /\ (doing'[t] = "idle" \/ wants'[t] = wants[t])
    BY <1>0, <1>5, GoesOn, AnswerEffect, ThenEffect
  <2>2. RemarkIds' = RemarkIds
    BY <1>0, <1>5, RemarksNext, RemarksGrow
  <2>3. ASSUME NEW c \in RemarkIds \ tangled', wants[t].comment = c
        PROVE  Safe(c)
    <3>1. /\ doing'[t] = "idle" => Agrees(c)'
          /\ doing'[t] # "idle" => HalfServed(t, c)'
      BY <2>1, <2>3, OwnStep
    <3>2. \A o \in DraftThreads \ {t} : doing[o] # "idle" => wants[o].comment # c
      BY <1>3, <2>1, <2>3
    <3> QED
      BY <1>1, <2>1, <2>3, <3>1, <3>2 DEF DraftServed
  <2>4. ASSUME NEW c \in RemarkIds \ tangled', wants[t].comment # c
        PROVE  Safe(c)
    <3>1. \A o \in DraftServed' : wants'[o].comment = c => HalfServed(o, c)'
      BY <1>1, <1>3, <2>1, <2>4 DEF DraftServed
    <3>2. ASSUME \A o \in DraftServed' : wants'[o].comment # c
          PROVE  Agrees(c)'
      <4>1. \A o \in DraftThreads \ {t} : doing[o] # "idle" => wants[o].comment # c
        BY <1>1, <3>2 DEF DraftServed
      <4> QED
        BY <1>4, <2>4, <4>1
    <3> QED
      BY <3>1, <3>2
  <2> QED
    BY <2>2, <2>3, <2>4 DEF AgreeInv
<1>6. CASE AskCreate(t) \/ AskChange(t)
  <2>1. PICK step, q : /\ Ask(t, step, q) /\ q \in DraftAsks(n)
                       /\ \/ step = "insert" /\ q.op = "create" /\ q.comment = Gone
                          \/ step = "item" /\ q.op \in RemarkOps /\ q.comment \in RemarkIds
    BY <1>0, <1>6, AskForms
  <2>2. /\ doing[t] = "idle" /\ doing'[t] = step /\ wants'[t] = q /\ RemarkIds' = RemarkIds
        /\ tangled' = tangled \cup {c \in RemarkIds :
                        c \in Concerns(q) /\ \E o \in DraftServed : c \in Concerns(wants[o])}
    BY <1>0, <2>1, AskEffect DEF Ask, remarkStores, RemarkIds
  <2>3. ASSUME NEW c \in RemarkIds \ tangled', q.comment = c
        PROVE  Safe(c)
    <3>1. \A w : w.comment \in Concerns(w)
      BY DEF Concerns
    <3>2. \A o \in DraftServed : wants[o].comment # c
      BY <2>2, <2>3, <3>1
    <3>3. \A o \in DraftThreads \ {t} : doing[o] # "idle" => wants[o].comment # c
      BY <3>2 DEF DraftServed
    <3>4. Agrees(c)'
      BY <1>4, <2>2, <3>3
    <3>5. step = "item" /\ q.op # "create"
      BY <1>0, <2>1, <2>3 DEF RemarkOps, ListOps
    <3>6. HalfServed(t, c)'
      BY <2>2, <3>4, <3>5 DEF HalfServed
    <3> QED
      BY <1>1, <3>2, <3>4, <3>6 DEF DraftServed
  <2>4. ASSUME NEW c \in RemarkIds \ tangled', q.comment # c
        PROVE  Safe(c)
    <3>1. \A o \in DraftServed' : wants'[o].comment = c => HalfServed(o, c)'
      BY <1>1, <1>3, <2>2, <2>4 DEF DraftServed
    <3>2. ASSUME \A o \in DraftServed' : wants'[o].comment # c
          PROVE  Agrees(c)'
      <4>1. \A o \in DraftThreads \ {t} : doing[o] # "idle" => wants[o].comment # c
        BY <1>1, <3>2 DEF DraftServed
      <4> QED
        BY <1>4, <2>2, <4>1
    <3> QED
      BY <3>1, <3>2
  <2> QED
    BY <2>2, <2>3, <2>4 DEF AgreeInv
<1>7. CASE InsertDocument(t)
  <2>0. doing[t] = "insert" /\ wants[t].comment = Gone
    BY <1>0, <1>7 DEF InsertDocument, WantInv
  <2>1. ASSUME NEW c \in RemarkIds \ tangled',
               doing'[t] = "idle" \/ wants'[t].comment \notin RemarkIds
        PROVE  Safe(c)
    <3>1. \A o \in DraftServed' : wants'[o].comment = c => HalfServed(o, c)'
      BY <1>1, <1>3, <2>0, <2>1 DEF DraftServed
    <3>2. ASSUME \A o \in DraftServed' : wants'[o].comment # c
          PROVE  Agrees(c)'
      <4>1. \A o \in DraftThreads \ {t} : doing[o] # "idle" => wants[o].comment # c
        BY <1>1, <3>2 DEF DraftServed
      <4> QED
        BY <1>4, <2>0, <4>1
    <3> QED
      BY <3>1, <3>2
  <2>2. CASE Answer(t) /\ UNCHANGED remarkStores
    <3>1. doing'[t] = "idle" /\ RemarkIds' = RemarkIds
      BY <1>0, <2>2, AnswerEffect DEF remarkStores, RemarkIds
    <3> QED
      BY <2>1, <3>1 DEF AgreeInv
  <2>3. CASE /\ documents' = Append(documents, [author |-> wants[t].who, text |-> wants[t].text,
                  replyTo |-> wants[t].replyTo, likes |-> {}, dislikes |-> {}])
             /\ remarkItems' = Append(remarkItems, Gone)
             /\ doing'[t] = "count" /\ wants'[t] = [wants[t] EXCEPT !.comment = n + 1]
    <3> DEFINE q == wants[t]
               fresh == [author |-> q.who, text |-> q.text, replyTo |-> q.replyTo,
                         likes |-> {}, dislikes |-> {}]
    <3>a. PICK k : k = n + 1
      OBVIOUS
    <3>1. q \in DraftAsks(n) /\ q.op = "create" /\ fresh \in DraftDocs(n)
      BY <1>0, <1>7, InsertForms
    <3>2. /\ wants'[t].op = "create" /\ wants'[t].comment = k /\ wants'[t].who = q.who
          /\ wants'[t].text = q.text /\ wants'[t].replyTo = q.replyTo
      BY <2>3, <3>a, <3>1 DEF DraftAsks
    <3>3. /\ documents'[k] = fresh /\ remarkItems'[k] = Gone
          /\ Len(documents') = n + 1
      BY <1>0, <2>3, <3>a, AppendProperties DEF RemarksType
    <3>4. fresh # Gone
      BY <1>0, <3>1, GoneFacts
    <3>5. RemarkIds' = RemarkIds \cup {k} /\ k \notin RemarkIds
      <4>1. RemarkIds' = 1 .. (n + 1)
        BY <1>0, <3>3, RemarksGrow
      <4> QED
        BY <1>0, <3>a, <4>1
    <3>6. Created(wants[t], k)'
      BY <1>0, <3>2, <3>3, <3>4 DEF Created
    <3>7. HalfServed(t, k)'
      BY <1>0, <2>3, <3>2, <3>6 DEF HalfServed, ListOps
    <3>8. ASSUME NEW o \in DraftThreads \ {t}, doing'[o] # "idle"
          PROVE  wants'[o].comment # k
      <4>1. wants[o] \in DraftAsks(n)
        BY <1>0, <1>1, <3>8 DEF WantInv
      <4>2. wants[o].comment \in RemarkIds \cup {Gone}
        BY <1>0, <4>1 DEF DraftAsks
      <4>3. k \in Nat /\ k # Gone
        BY <1>0, <3>a, GoneFacts
      <4> QED
        BY <1>1, <3>5, <4>2, <4>3
    <3>9. Safe(k)
      BY <2>3, <3>2, <3>7, <3>8 DEF DraftServed
    <3>10. \A c \in RemarkIds \ tangled' : Safe(c)
      BY <2>1, <3>2, <3>5
    <3> HIDE DEF fresh
    <3> QED
      BY <3>5, <3>9, <3>10 DEF AgreeInv
  <2> QED
    BY <1>0, <1>7, <2>2, <2>3, InsertForms
<1> QED
  BY <1>5, <1>6, <1>7

-----------------------------------------------------------------------------
\* A request that no other has overlapped is the one that is handled.
LEMMA SoloHandled ==
  ASSUME DraftCommentInv, NEW t \in DraftThreads, Handles(t)
  PROVE  /\ soloDraft' # Gone => /\ soloDraft' = t /\ DraftServed' = {t} /\ doing'[t] # "idle"
                                 /\ doing[t] # "idle" => soloDraft = t
         /\ (doing[t] # "idle" /\ soloDraft # Gone) => soloDraft = t
         /\ (DraftServed = {t} /\ doing'[t] = "idle") => DraftServed' = {}
<1>0. /\ RemarksType /\ DraftThreadsType /\ Untouched(t) /\ WantInv(t)
      /\ soloDraft # Gone => DraftServed = {soloDraft}
  BY OthersStay DEF DraftCommentInv, RepliesInv
<1>1. \A o \in DraftThreads \ {t} : doing'[o] = doing[o]
  BY <1>0 DEF Untouched, Stays
<1>2. (doing[t] # "idle" /\ soloDraft # Gone) => soloDraft = t
  BY <1>0 DEF DraftServed
<1>3. (DraftServed = {t} /\ doing'[t] = "idle") => DraftServed' = {}
  BY <1>1 DEF DraftServed
<1>4. ASSUME soloDraft' = soloDraft, soloDraft' # Gone, doing[t] # "idle", doing'[t] # "idle"
      PROVE  soloDraft' = t /\ DraftServed' = {t}
  <2>1. DraftServed = {t} /\ soloDraft = t
    BY <1>0, <1>2, <1>4
  <2>2. DraftServed' = {t}
    BY <1>1, <1>4, <2>1 DEF DraftServed
  <2> QED
    BY <1>4, <2>1, <2>2
<1>5. CASE AskCreate(t) \/ AskChange(t)
  <2>1. PICK step, q : Ask(t, step, q) /\ step \in {"insert", "item"}
    BY <1>0, <1>5, AskForms
  <2>2. doing[t] = "idle" /\ doing'[t] = step /\ soloDraft' = IF DraftServed = {} THEN t ELSE Gone
    BY <1>0, <2>1, AskEffect DEF Ask
  <2>3. DraftServed = {} => DraftServed' = {t}
    BY <1>1, <2>1, <2>2 DEF DraftServed
  <2> QED
    BY <1>2, <1>3, <2>1, <2>2, <2>3
<1>6. CASE InsertDocument(t)
  <2>1. doing[t] = "insert"
    BY <1>6 DEF InsertDocument
  <2>2. soloDraft' = Gone \/ (soloDraft' = soloDraft /\ doing'[t] # "idle")
    BY <1>0, <1>6, InsertForms, AnswerEffect
  <2> QED
    BY <1>2, <1>3, <1>4, <2>1, <2>2
<1>7. CASE ~AskCreate(t) /\ ~AskChange(t) /\ ~InsertDocument(t)
  <2>1. doing[t] # "idle" /\ (soloDraft' = Gone \/ (soloDraft' = soloDraft /\ doing'[t] # "idle"))
    BY <1>0, <1>7, GoesOn, AnswerEffect, ThenEffect
  <2> QED
    BY <1>2, <1>3, <1>4, <2>1
<1> QED
  BY <1>5, <1>6, <1>7

LEMMA CountedNext ==
  ASSUME DraftCommentInv, NEW t \in DraftThreads, Handles(t)
  PROVE  /\ (soloDraft' # Gone /\ doing'[soloDraft'] = "writeReplies") =>
              read'[soloDraft'] = Cardinality(Shown)'
         /\ repaired' => replies' = Cardinality(Shown)'
<1> DEFINE n == Len(documents)
           q == wants[t]
<1>0. /\ RemarksType /\ DraftThreadsType /\ WantInv(t) /\ RepliesInv
      /\ n \in Nat /\ RemarkIds = 1 .. n
      /\ documents \in [RemarkIds -> DraftDocs(n) \cup {Gone}] /\ Gone \notin DraftDocs(n)
  BY RemarkFacts, GoneFacts DEF DraftCommentInv
<1>1. documents' = documents => Shown' = Shown
  BY DEF Shown, RemarkIds
<1>2. ASSUME soloDraft' # Gone, doing'[soloDraft'] = "writeReplies"
      PROVE  read'[soloDraft'] = Cardinality(Shown)'
  <2>1. soloDraft' = t /\ doing'[t] = "writeReplies"
    BY <1>2, SoloHandled
  <2>2. CountDocuments(t)
    <3>1. CASE AskCreate(t) \/ AskChange(t)
      <4>1. PICK step, a : Ask(t, step, a) /\ step \in {"insert", "item"}
        BY <1>0, <3>1, AskForms
      <4> QED
        BY <1>0, <2>1, <4>1, AskEffect
    <3>2. CASE InsertDocument(t)
      BY <1>0, <2>1, <3>2, InsertForms, AnswerEffect
    <3>3. CASE ReadDocument(t)
      <4>1. Answer(t) \/ \E v : Then(t, "findReplies", v) \/ Then(t, "saveDocument", v)
        BY <3>3 DEF ReadDocument
      <4> QED
        BY <1>0, <2>1, <4>1, AnswerEffect, ThenEffect
    <3>4. CASE SaveRemark(t)
      <4>1. \E v : Then(t, "readReplies", v) \/ Then(t, "document", v)
        BY <3>4 DEF SaveRemark
      <4> QED
        BY <1>0, <2>1, <4>1, ThenEffect
    <3> QED
      BY <1>0, <2>1, <3>1, <3>2, <3>3, <3>4, AnswerEffect, ThenEffect
      DEF Handles, WriteReplies, InsertItem, ReadReplies, SaveReplies, ReadRemark, SaveDocument,
          FindReplies, RemoveDocuments
  <2>3. read'[t] = Cardinality(Shown) /\ documents' = documents
    BY <1>0, <2>2, ThenEffect DEF CountDocuments, remarkStores
  <2> QED
    BY <1>1, <2>1, <2>3
<1>3. ASSUME repaired'
      PROVE  replies' = Cardinality(Shown)'
  <2>1. CASE WriteReplies(t)
    <3>1. /\ soloDraft = t /\ doing[t] = "writeReplies" /\ replies' = read[t]
          /\ documents' = documents
      BY <1>3, <2>1 DEF WriteReplies
    <3>2. read[t] = Cardinality(Shown)
      BY <1>0, <3>1, GoneFacts DEF RepliesInv
    <3> QED
      BY <1>1, <3>1, <3>2
  <2>2. CASE SaveDocument(t)
    <3>1. /\ doing[t] = "saveDocument" /\ repaired /\ replies' = replies
          /\ documents[q.comment] = Gone => documents' = documents
      BY <1>3, <2>2 DEF SaveDocument
    <3>2. /\ q \in DraftAsks(n) /\ q.comment \in RemarkIds /\ q.op \in Listed
          /\ read[t] \in DraftDocs(n)
      BY <1>0, <3>1 DEF WantInv, DraftAsks, CreatingSteps, DeletingSteps, Listed, RemarkOps
    <3>3. CASE documents[q.comment] = Gone
      BY <1>0, <1>1, <3>1, <3>3 DEF RepliesInv
    <3>4. CASE documents[q.comment] # Gone
      <4> DEFINE doc == IF q.op = "update" THEN Rewritten(q, read[t], read[t])
                        ELSE Rewritten(q, documents[q.comment], read[t])
      <4>1. doc \in DraftDocs(n)
        BY <1>0, <3>2, <3>4, RewrittenTypes
      <4>2. documents' = [documents EXCEPT ![q.comment] = doc]
        BY <2>2, <3>4 DEF SaveDocument
      <4> HIDE DEF doc
      <4>3. doc # Gone
        BY <1>0, <4>1
      <4>4. RemarkIds' = RemarkIds
        BY <4>2 DEF RemarkIds
      <4>5. \A c \in RemarkIds : documents'[c] = Gone <=> documents[c] = Gone
        BY <1>0, <3>4, <4>2, <4>3
      <4>6. Shown' = Shown
        BY <4>4, <4>5 DEF Shown
      <4> QED
        BY <1>0, <3>1, <4>6 DEF RepliesInv
    <3> QED
      BY <3>3, <3>4
  <2>3. CASE InsertDocument(t)
    <3>1. UNCHANGED <<remarkStores, repaired>> \/ repaired' = FALSE
      BY <1>0, <2>3, InsertForms
    <3> QED
      BY <1>0, <1>1, <1>3, <3>1 DEF RepliesInv, remarkStores
  <2>4. CASE ~WriteReplies(t) /\ ~SaveDocument(t) /\ ~InsertDocument(t)
    <3>1. documents' = documents /\ replies' = replies /\ repaired' = repaired
      BY <1>3, <2>4 DEF Handles, AskCreate, AskChange, Ask, CountDocuments, InsertItem,
         ReadReplies, SaveReplies, ReadRemark, SaveRemark, ReadDocument, FindReplies,
         RemoveDocuments, remarkStores
    <3> QED
      BY <1>0, <1>1, <1>3, <3>1 DEF RepliesInv
  <2> QED
    BY <2>1, <2>2, <2>3, <2>4
<1> QED
  BY <1>2, <1>3

\* What a request alone, t, has yet to add to the number in DynamoDB.
Due(step, op) ==
  IF step \in {"readReplies", "saveReplies"} THEN IF op = "delete" THEN -1 ELSE 1 ELSE 0

LEMMA ExactNext ==
  ASSUME DraftCommentInv, NEW t \in DraftThreads, Handles(t), exactItem'
  PROVE  ExactInv'
<1> DEFINE n == Len(documents)
           q == wants[t]
           c == q.comment
<1>0. /\ RemarksType /\ DraftThreadsType /\ WantInv(t) /\ RepliesInv
      /\ n \in Nat /\ RemarkIds = 1 .. n /\ repliesItem \in Int
      /\ remarkItems \in [RemarkIds -> DraftItems(n) \cup {Gone}] /\ Gone \notin DraftItems(n)
      /\ IsFiniteSet(Live) /\ Cardinality(Live) \in Nat /\ t # Gone
  BY RemarkFacts, ShownCounted, GoneFacts DEF DraftCommentInv, RemarksType
<1>1. CASE AskCreate(t) \/ AskChange(t)
  <2>1. PICK step, a : Ask(t, step, a) /\ step \in {"insert", "item"}
    BY <1>0, <1>1, AskForms
  <2>2. /\ doing'[t] = step /\ exactItem /\ DraftServed = {} /\ soloDraft' = t
        /\ UNCHANGED <<documents, remarkItems, repliesItem>>
    BY <1>0, <2>1, AskEffect DEF Ask, remarkStores, DraftThreadsType
  <2>3. DraftServed' = {t}
    BY <1>0, <2>2, SoloHandled
  <2>4. Owed = 0 /\ Owed' = 0
    BY <2>1, <2>2, <2>3 DEF Owed
  <2>5. Live' = Live
    BY <2>2 DEF Live, RemarkIds
  <2>6. repliesItem = Cardinality(Live)
    BY <1>0, <2>2, <2>4 DEF RepliesInv, ExactInv
  <2> QED
    BY <1>0, <2>1, <2>2, <2>3, <2>4, <2>5, <2>6 DEF ExactInv
<1>2. CASE ~AskCreate(t) /\ ~AskChange(t)
  <2>1. doing[t] # "idle" /\ exactItem
    <3>1. CASE InsertDocument(t)
      BY <1>0, <3>1 DEF InsertDocument
    <3>2. CASE ~InsertDocument(t)
      <4>1. doing[t] # "idle"
        BY <1>2, <3>2, GoesOn
      <4>2. exactItem
        BY <1>0, <1>2, <3>2 DEF Handles, CountDocuments, WriteReplies, InsertItem, ReadReplies,
           SaveReplies, ReadRemark, SaveRemark, ReadDocument, SaveDocument, FindReplies,
           RemoveDocuments, DraftThreadsType
      <4> QED
        BY <4>1, <4>2
    <3> QED
      BY <3>1, <3>2
  <2>2. DraftServed = {t} /\ soloDraft = t
    BY <1>0, <2>1 DEF RepliesInv, ExactInv, DraftServed
  <2>3. /\ Owed = Due(doing[t], q.op) /\ repliesItem + Owed = Cardinality(Live)
        /\ doing[t] = "saveReplies" => read[t] = repliesItem
        /\ (doing[t] \in {"count", "writeReplies", "insertItem"} /\ q.op = "create") =>
              remarkItems[c] = Gone
    BY <2>1, <2>2, <1>0 DEF RepliesInv, ExactInv, Owed, Due
  <2>4. /\ q \in DraftAsks(n)
        /\ doing[t] # "insert" => c \in RemarkIds
    BY <1>0, <2>1 DEF WantInv
  \* How the proof of a step ends: the request is answered, or goes on.
  <2>5. ASSUME doing'[t] = "idle", repliesItem' = Cardinality(Live')
        PROVE  ExactInv'
    <3>1. DraftServed' = {}
      BY <2>2, <2>5, SoloHandled
    <3>2. Owed' = 0 /\ repliesItem' \in Int
      BY <3>1, <2>5, RemarksNext, <1>0 DEF Owed, RemarksType
    <3> QED
      BY <2>5, <3>1, <3>2 DEF ExactInv
  <2>6. ASSUME NEW s, doing'[t] = s, s # "idle", soloDraft' = soloDraft, wants'[t].op = q.op,
               repliesItem' + Due(s, q.op) = Cardinality(Live'),
               s = "saveReplies" => read'[t] = repliesItem',
               (s \in {"count", "writeReplies", "insertItem"} /\ q.op = "create") =>
                  remarkItems'[wants'[t].comment] = Gone
        PROVE  ExactInv'
    <3>1. DraftServed' = {t} /\ soloDraft' = t
      BY <1>0, <2>2, <2>6, SoloHandled
    <3>2. Owed' = Due(s, q.op)
      BY <2>6, <3>1 DEF Owed, Due
    <3> QED
      BY <1>0, <2>6, <3>1, <3>2 DEF ExactInv
  <2>7. (documents' = documents /\ remarkItems' = remarkItems) => Live' = Live
    BY DEF Live, RemarkIds
  <2>8. RemarkIds' = RemarkIds \/ InsertDocument(t)
    BY <1>0, RemarksNext, RemarksGrow
  <2>9. CASE InsertDocument(t)
    <3>1. doing[t] = "insert" /\ q.op = "create" /\ Owed = 0
      BY <1>0, <2>3, <2>9, InsertForms DEF InsertDocument, Due
    <3>2. CASE Answer(t) /\ UNCHANGED remarkStores
      BY <1>0, <2>3, <2>5, <2>7, <3>1, <3>2, AnswerEffect DEF remarkStores
    <3>3. CASE /\ \E x : documents' = Append(documents, x)
               /\ remarkItems' = Append(remarkItems, Gone)
               /\ doing'[t] = "count" /\ wants'[t] = [q EXCEPT !.comment = n + 1]
               /\ UNCHANGED <<repliesItem, soloDraft>>
      <4>1. wants'[t].op = "create" /\ wants'[t].comment = n + 1
        BY <2>4, <3>1, <3>3 DEF DraftAsks
      <4>2. /\ remarkItems'[n + 1] = Gone /\ \A d \in RemarkIds : remarkItems'[d] = remarkItems[d]
        BY <1>0, <3>3, AppendProperties DEF RemarksType
      <4>3. Len(documents') = n + 1
        BY <1>0, <3>3, AppendProperties DEF RemarksType
      <4>4. RemarkIds' = RemarkIds \cup {n + 1}
        <5>1. RemarkIds' = 1 .. (n + 1)
          BY <1>0, <4>3, RemarksGrow
        <5> QED
          BY <1>0, <5>1
      <4>5. Live' = Live
        BY <4>2, <4>4 DEF Live
      <4>6. repliesItem' + Due("count", "create") = Cardinality(Live')
        BY <1>0, <2>3, <3>1, <3>3, <4>5 DEF Due
      <4> QED
        BY <2>6, <3>1, <3>3, <4>1, <4>2, <4>6
    <3> QED
      BY <1>0, <2>9, <3>2, <3>3, InsertForms
  <2>10. CASE CountDocuments(t)
    <3>1. /\ doing[t] = "count" /\ doing'[t] = "writeReplies" /\ wants'[t] = q
          /\ soloDraft' = soloDraft /\ UNCHANGED <<documents, remarkItems, repliesItem>>
      BY <1>0, <2>10, ThenEffect DEF CountDocuments, remarkStores
    <3>2. repliesItem' + Due("writeReplies", q.op) = Cardinality(Live')
      BY <2>3, <2>7, <3>1 DEF Due
    <3> QED
      BY <2>3, <2>6, <3>1, <3>2
  <2>11. CASE WriteReplies(t)
    <3>1. /\ doing[t] = "writeReplies" /\ UNCHANGED <<documents, remarkItems, repliesItem>>
      BY <2>11 DEF WriteReplies
    <3>2. repliesItem' = Cardinality(Live')
      BY <1>0, <2>3, <2>7, <3>1 DEF Due
    <3>3. CASE q.op = "create"
      <4>1. doing'[t] = "insertItem" /\ wants'[t] = q /\ soloDraft' = soloDraft
        BY <1>0, <2>11, <3>3, ThenEffect DEF WriteReplies
      <4>2. repliesItem' + Due("insertItem", q.op) = Cardinality(Live')
        BY <1>0, <3>1, <3>2 DEF Due
      <4> QED
        BY <2>3, <2>6, <3>1, <3>3, <4>1, <4>2
    <3>4. CASE q.op # "create"
      BY <1>0, <2>5, <2>11, <3>2, <3>4, AnswerEffect DEF WriteReplies
    <3> QED
      BY <3>3, <3>4
  <2>12. CASE InsertItem(t)
    <3> DEFINE fresh == [author |-> q.who, text |-> q.text, replyTo |-> q.replyTo,
                         likes |-> {}, dislikes |-> {}, archived |-> FALSE]
    <3>1. /\ doing[t] = "insertItem" /\ doing'[t] = "readReplies" /\ wants'[t] = q
          /\ soloDraft' = soloDraft /\ documents' = documents /\ repliesItem' = repliesItem
          /\ remarkItems' = [remarkItems EXCEPT ![c] = fresh]
      BY <1>0, <2>12, ThenEffect DEF InsertItem
    <3>2. q.op = "create"
      <4>1. q.op \notin {"delete"} \cup ListOps \cup {"update"}
        BY <1>0, <3>1 DEF WantInv, DeletingSteps, ChangingSteps
      <4> QED
        BY <2>4, <4>1 DEF DraftAsks, RemarkOps
    <3>3. remarkItems[c] = Gone /\ c \in RemarkIds
      BY <2>3, <2>4, <3>1, <3>2
    <3>4. fresh \in DraftItems(n)
      BY <2>4 DEF DraftItems, DraftAsks
    <3>5. fresh # Gone /\ ~fresh.archived
      BY <1>0, <3>4
    <3> HIDE DEF fresh
    <3>6. Live' = Live \cup {c} /\ c \notin Live
      BY <1>0, <3>1, <3>3, <3>5 DEF Live, RemarkIds
    <3>7. Cardinality(Live') = Cardinality(Live) + 1
      BY <1>0, <3>6, FS_AddElement
    <3>8. repliesItem' + Due("readReplies", q.op) = Cardinality(Live')
      BY <1>0, <2>3, <3>1, <3>2, <3>7 DEF Due
    <3> QED
      BY <2>6, <3>1, <3>8
  <2>13. CASE ReadReplies(t)
    <3>1. /\ doing[t] = "readReplies" /\ doing'[t] = "saveReplies" /\ wants'[t] = q
          /\ read'[t] = repliesItem
          /\ soloDraft' = soloDraft /\ UNCHANGED <<documents, remarkItems, repliesItem>>
      BY <1>0, <2>13, ThenEffect DEF ReadReplies, remarkStores
    <3>2. repliesItem' + Due("saveReplies", q.op) = Cardinality(Live')
      BY <2>3, <2>7, <3>1 DEF Due
    <3> QED
      BY <2>6, <3>1, <3>2
  <2>14. CASE SaveReplies(t)
    <3>1. /\ doing[t] = "saveReplies" /\ UNCHANGED <<documents, remarkItems>>
          /\ repliesItem' = read[t] + (IF q.op = "delete" THEN -1 ELSE 1)
      BY <2>14 DEF SaveReplies
    <3>2. repliesItem' = Cardinality(Live')
      BY <2>3, <2>7, <3>1 DEF Due
    <3>3. CASE q.op = "create"
      BY <1>0, <2>5, <2>14, <3>2, <3>3, AnswerEffect DEF SaveReplies
    <3>4. CASE q.op # "create"
      <4>1. doing'[t] = "document" /\ wants'[t] = q /\ soloDraft' = soloDraft
        BY <1>0, <2>14, <3>4, ThenEffect DEF SaveReplies
      <4>2. repliesItem' + Due("document", q.op) = Cardinality(Live')
        BY <1>0, <2>3, <2>7, <3>1, <3>2 DEF Due
      <4> QED
        BY <2>6, <4>1, <4>2
    <3> QED
      BY <3>3, <3>4
  <2>15. CASE SaveRemark(t)
    <3> DEFINE new == Rewritten(q, remarkItems[c], read[t])
    <3>1. /\ doing[t] = "saveItem" /\ documents' = documents /\ repliesItem' = repliesItem
          /\ q.op = "delete" => ~remarkItems[c].archived
      BY <2>15, <1>0 DEF SaveRemark, DraftThreadsType
    <3>2. /\ remarkItems[c] # Gone /\ read[t] \in DraftItems(n) /\ q.op # "create" /\ c \in RemarkIds
      BY <1>0, <2>4, <3>1 DEF WantInv, CreatingSteps
    <3>3. remarkItems[c] \in DraftItems(n) /\ q.op \in RemarkOps
      BY <1>0, <2>4, <3>2 DEF DraftAsks
    <3>4. new \in DraftItems(n) /\ new.archived = (remarkItems[c].archived \/ q.op = "delete")
      BY <1>0, <2>4, <3>2, <3>3, RewrittenTypes, RewrittenItem
    <3>5. remarkItems' = [remarkItems EXCEPT ![c] = new]
      BY <2>15 DEF SaveRemark, ItemWith
    <3> HIDE DEF new
    <3>6. CASE q.op = "delete"
      <4>1. doing'[t] = "readReplies" /\ wants'[t] = q /\ soloDraft' = soloDraft
        BY <1>0, <2>15, <3>6, ThenEffect DEF SaveRemark
      <4>2. Live' = Live \ {c} /\ c \in Live
        BY <1>0, <3>1, <3>2, <3>4, <3>5, <3>6 DEF Live, RemarkIds
      <4>3. Cardinality(Live') = Cardinality(Live) - 1
        BY <1>0, <4>2, FS_RemoveElement
      <4>4. repliesItem' + Due("readReplies", q.op) = Cardinality(Live')
        BY <1>0, <2>3, <3>1, <3>6, <4>3 DEF Due
      <4> QED
        BY <2>6, <4>1, <4>4
    <3>7. CASE q.op # "delete"
      <4>1. doing'[t] = "document" /\ wants'[t] = q /\ soloDraft' = soloDraft
        BY <1>0, <2>15, <3>7, ThenEffect DEF SaveRemark
      <4>2. Live' = Live
        BY <1>0, <3>1, <3>2, <3>3, <3>4, <3>5, <3>7 DEF Live, RemarkIds
      <4>3. repliesItem' + Due("document", q.op) = Cardinality(Live')
        BY <1>0, <2>3, <3>1, <4>2 DEF Due
      <4> QED
        BY <2>6, <4>1, <4>3
    <3> QED
      BY <3>6, <3>7
  <2>16. CASE ReadRemark(t) \/ ReadDocument(t) \/ SaveDocument(t) \/ FindReplies(t) \/ RemoveDocuments(t)
    <3>1. /\ doing[t] \in {"item", "document", "saveDocument", "findReplies", "remove"}
          /\ remarkItems' = remarkItems /\ repliesItem' = repliesItem
      BY <2>16 DEF ReadRemark, ReadDocument, SaveDocument, FindReplies, RemoveDocuments,
         remarkStores
    <3>2. ~InsertDocument(t)
      BY <3>1 DEF InsertDocument
    <3>3. Live' = Live
      BY <2>8, <3>1, <3>2 DEF Live
    <3>4. repliesItem' = Cardinality(Live')
      BY <1>0, <2>3, <3>1, <3>3 DEF Due
    <3>5. CASE Answer(t)
      BY <1>0, <2>5, <3>4, <3>5, AnswerEffect
    <3>6. ASSUME NEW s \in {"document", "saveItem", "saveDocument", "findReplies", "remove", "count"},
                 NEW v, Then(t, s, v), s = "count" => RemoveDocuments(t)
          PROVE  ExactInv'
      <4>1. doing'[t] = s /\ wants'[t] = q /\ soloDraft' = soloDraft
        BY <1>0, <3>6, ThenEffect
      <4>2. repliesItem' + Due(s, q.op) = Cardinality(Live')
        BY <1>0, <3>1, <3>4 DEF Due
      <4>3. s = "count" => q.op # "create"
        BY <1>0, <3>6 DEF RemoveDocuments, WantInv, CreatingSteps
      <4> QED
        BY <2>6, <3>6, <4>1, <4>2, <4>3
    <3>7. CASE ReadRemark(t)
      <4>1. Answer(t) \/ \E v : Then(t, "document", v) \/ Then(t, "saveItem", v)
        BY <3>7 DEF ReadRemark
      <4> QED
        BY <3>5, <3>6, <4>1
    <3>8. CASE ReadDocument(t)
      <4>1. Answer(t) \/ \E v : Then(t, "findReplies", v) \/ Then(t, "saveDocument", v)
        BY <3>8 DEF ReadDocument
      <4> QED
        BY <3>5, <3>6, <4>1
    <3> QED
      BY <2>16, <3>5, <3>6, <3>7, <3>8 DEF SaveDocument, FindReplies, RemoveDocuments
  <2> QED
    BY <1>2, <2>9, <2>10, <2>11, <2>12, <2>13, <2>14, <2>15, <2>16 DEF Handles
<1> QED
  BY <1>1, <1>2

LEMMA RepliesNext ==
  ASSUME DraftCommentInv, NEW t \in DraftThreads, Handles(t)
  PROVE  RepliesInv'
<1>1. soloDraft' # Gone => DraftServed' = {soloDraft'}
  BY SoloHandled
<1>2. /\ (soloDraft' # Gone /\ doing'[soloDraft'] = "writeReplies") =>
            read'[soloDraft'] = Cardinality(Shown)'
      /\ repaired' => replies' = Cardinality(Shown)'
  BY CountedNext
<1>3. ExactInv'
  <2>1. CASE exactItem'
    BY <2>1, ExactNext
  <2>2. CASE ~exactItem'
    BY <2>2 DEF ExactInv
  <2> QED
    BY <2>1, <2>2
<1> QED
  BY <1>1, <1>2, <1>3 DEF RepliesInv

\* A restart leaves every comment that was being changed among the tangled ones.
LEMMA DraftRestartNext ==
  ASSUME DraftCommentInv, DraftRestart
  PROVE  DraftCommentInv'
<1> DEFINE n == Len(documents)
<1>0. /\ RemarksType /\ DraftThreadsType /\ AgreeInv /\ RepliesInv
      /\ documents' = documents /\ remarkItems' = remarkItems
      /\ replies' = replies /\ repliesItem' = repliesItem /\ repaired' = repaired
      /\ RemarkIds' = RemarkIds /\ tangled \subseteq tangled'
      /\ soloDraft' = Gone /\ exactItem' = FALSE
  BY DEF DraftCommentInv, DraftRestart, remarkStores, RemarkIds
<1>1. RemarksType'
  BY <1>0 DEF RemarksType, DraftDocs, DraftItems
<1>2. \A t \in DraftThreads : doing'[t] = "idle"
  BY DEF DraftRestart
<1>3. DraftServed' = {}
  BY <1>2 DEF DraftServed
<1>4. DraftThreadsType'
  <2>1. /\ doing' \in [DraftThreads -> CreatingSteps \cup DeletingSteps \cup ChangingSteps \cup {"idle"}]
        /\ wants' \in [DraftThreads -> DraftAsks(n) \cup {Gone}]
        /\ read' = [t \in DraftThreads |-> read'[t]]
    BY DEF DraftRestart
  <2>2. quota' \in [remarks : Nat, asked : SUBSET RemarkOps, changes : Nat, by : SUBSET Drafters,
                    together : BOOLEAN, draftRestarts : Nat]
    BY <1>0 DEF DraftThreadsType, DraftRestart
  <2>3. tangled' \subseteq RemarkIds'
    BY <1>0 DEF DraftThreadsType, DraftRestart
  <2> QED
    BY <1>0, <2>1, <2>2, <2>3 DEF DraftThreadsType, DraftAsks
<1>5. (\A t \in DraftThreads : WantInv(t)') /\ TangleInv'
  BY <1>2 DEF WantInv, TangleInv
<1>6. AgreeInv'
  <2> SUFFICES ASSUME NEW c \in RemarkIds \ tangled'
               PROVE  Agrees(c)'
    BY <1>0, <1>3 DEF AgreeInv
  <2>1. c \notin tangled /\ \A t \in DraftServed : wants[t].comment # c
    BY <1>0 DEF DraftRestart, Concerns
  <2>2. Agrees(c)
    BY <1>0, <2>1 DEF AgreeInv
  <2>3. \A p : Orphan(p) => Orphan(p)'
    BY <1>0 DEF Orphan
  <2> QED
    BY <1>0, <2>2, <2>3 DEF Agrees, Matches
<1>7. RepliesInv'
  <2>1. Shown' = Shown
    BY <1>0 DEF Shown
  <2> QED
    BY <1>0, <2>1 DEF RepliesInv, ExactInv
<1> QED
  BY <1>1, <1>4, <1>5, <1>6, <1>7 DEF DraftCommentInv

LEMMA DraftCommentStutters ==
  ASSUME DraftCommentInv, UNCHANGED draftCommentVars
  PROVE  DraftCommentInv'
<1>1. /\ documents' = documents /\ remarkItems' = remarkItems
      /\ replies' = replies /\ repliesItem' = repliesItem
      /\ doing' = doing /\ wants' = wants /\ read' = read /\ quota' = quota
      /\ soloDraft' = soloDraft /\ repaired' = repaired /\ exactItem' = exactItem
      /\ tangled' = tangled
  BY DEF draftCommentVars, remarkStores
<1>2. RemarkIds' = RemarkIds /\ Shown' = Shown /\ Live' = Live /\ DraftServed' = DraftServed
  BY <1>1 DEF RemarkIds, Shown, Live, DraftServed
<1>3. RemarksType' /\ DraftThreadsType'
  BY <1>1, <1>2 DEF DraftCommentInv, RemarksType, DraftThreadsType, DraftDocs, DraftItems, DraftAsks
<1>4. \A q : Concerns(q)' = Concerns(q)
  BY <1>1, <1>2 DEF Concerns
<1>5. \A t \in DraftThreads : WantInv(t)'
  BY <1>1, <1>2, <1>4 DEF DraftCommentInv, WantInv, DraftDocs, DraftItems, DraftAsks
<1>6. TangleInv'
  BY <1>1, <1>4 DEF DraftCommentInv, TangleInv
<1>7. \A p : Orphan(p)' <=> Orphan(p)
  BY <1>1 DEF Orphan
<1>8. \A c : Agrees(c)' <=> Agrees(c)
  BY <1>1, <1>7 DEF Agrees
<1>9. \A t, c : HalfServed(t, c)' <=> HalfServed(t, c)
  BY <1>1, <1>7, <1>8 DEF HalfServed, Created
<1>10. AgreeInv'
  BY <1>1, <1>2, <1>8, <1>9 DEF DraftCommentInv, AgreeInv
<1>11. Owed' = Owed
  BY <1>1, <1>2 DEF Owed
<1>12. RepliesInv'
  BY <1>1, <1>2, <1>11 DEF DraftCommentInv, RepliesInv, ExactInv
<1> QED
  BY <1>3, <1>5, <1>6, <1>10, <1>12 DEF DraftCommentInv

LEMMA DraftCommentInitial == DraftCommentInit => DraftCommentInv
<1> SUFFICES ASSUME DraftCommentInit PROVE DraftCommentInv
  OBVIOUS
<1>1. /\ documents = <<>> /\ remarkItems = <<>> /\ Len(documents) = 0 /\ RemarkIds = {}
      /\ replies = 0 /\ repliesItem = 0 /\ \A t \in DraftThreads : doing[t] = "idle"
      /\ soloDraft = Gone /\ tangled = {}
  BY DEF DraftCommentInit, RemarkIds
<1>2. DraftServed = {} /\ Shown = {} /\ Live = {}
  BY <1>1 DEF DraftServed, Shown, Live
<1>3. RemarksType
  BY <1>1 DEF RemarksType
<1>4. DraftThreadsType
  <2>1. quota \in [remarks : Nat, asked : SUBSET RemarkOps, changes : Nat, by : SUBSET Drafters,
                   together : BOOLEAN, draftRestarts : Nat]
    BY DraftCommentAssumption DEF DraftCommentInit
  <2> QED
    BY <1>1, <2>1 DEF DraftThreadsType, DraftCommentInit
<1>5. (\A t \in DraftThreads : WantInv(t)) /\ TangleInv
  BY <1>1 DEF WantInv, TangleInv
<1>6. AgreeInv
  BY <1>1 DEF AgreeInv
<1>7. RepliesInv
  <2>1. Cardinality(Shown) = 0 /\ Cardinality(Live) = 0
    BY <1>2, FS_EmptySet
  <2>2. Owed = 0
    BY <1>2 DEF Owed
  <2> QED
    BY <1>1, <1>2, <2>1, <2>2 DEF RepliesInv, ExactInv
<1> QED
  BY <1>3, <1>4, <1>5, <1>6, <1>7 DEF DraftCommentInv

\* The inductive invariant of the comments on a draft: types, what each request
\* asks and has read by the step it is at, which requests can be about one
\* comment, how far each has brought the two stores, and the two numbers of
\* replies with what the only request has yet to add (libs/draft-comment).
THEOREM DraftCommentInvariant == DraftCommentSpec => []DraftCommentInv
<1>1. DraftCommentInit => DraftCommentInv
  BY DraftCommentInitial
<1>2. DraftCommentInv /\ [DraftCommentNext]_draftCommentVars => DraftCommentInv'
  <2> SUFFICES ASSUME DraftCommentInv, [DraftCommentNext]_draftCommentVars
               PROVE  DraftCommentInv'
    OBVIOUS
  <2>1. ASSUME NEW t \in DraftThreads, Handles(t)
        PROVE  DraftCommentInv'
    <3>0. RemarksType /\ DraftThreadsType /\ WantInv(t)
      BY DEF DraftCommentInv
    <3>1. RemarksType' /\ DraftThreadsType'
      BY <2>1, <3>0, RemarksNext, DraftThreadsNext
    <3>2. \A o \in DraftThreads : WantInv(o)'
      <4> SUFFICES ASSUME NEW o \in DraftThreads PROVE WantInv(o)'
        OBVIOUS
      <4>1. CASE o = t
        BY <2>1, <4>1, WantSteps
      <4>2. CASE o # t
        BY <2>1, <4>2, WantWaits
      <4> QED
        BY <4>1, <4>2
    <3>3. TangleInv' /\ AgreeInv' /\ RepliesInv'
      BY <2>1, TangleNext, AgreeNext, RepliesNext
    <3> QED
      BY <3>1, <3>2, <3>3 DEF DraftCommentInv
  <2>2. CASE DraftRestart
    BY <2>2, DraftRestartNext
  <2>3. CASE UNCHANGED draftCommentVars
    BY <2>3, DraftCommentStutters
  <2> QED
    BY <2>1, <2>2, <2>3 DEF DraftCommentNext, Handles
<1> QED
  BY <1>1, <1>2, PTL DEF DraftCommentSpec

\* A comment no request is changing differs between MongoDB and DynamoDB only if
\* two requests have changed it at once, or one was cut short or refused by MongoDB
\* after DynamoDB had served it (DraftCommentServiceFacade, and delete of both
\* services): for every number of requests, accounts and comments.
THEOREM RemarksAlwaysAgree == DraftCommentSpec => []RemarksAgree
<1>1. DraftCommentInv => RemarksAgree
  <2> SUFFICES ASSUME DraftCommentInv, NEW c \in RemarkIds \ tangled,
                      \A t \in DraftServed : c \notin Concerns(wants[t])
               PROVE  IF documents[c] = Gone
                      THEN remarkItems[c] # Gone =>
                             \/ remarkItems[c].archived
                             \/ /\ remarkItems[c].replyTo # Gone
                                /\ \/ documents[remarkItems[c].replyTo] = Gone
                                   \/ remarkItems[c].replyTo \in tangled
                      ELSE /\ remarkItems[c] # Gone /\ ~remarkItems[c].archived
                           /\ \A f \in {"author", "text", "replyTo", "likes", "dislikes"} :
                                remarkItems[c][f] = documents[c][f]
    BY DEF RemarksAgree
  <2>1. \A t \in DraftServed : wants[t].comment # c
    BY DEF Concerns
  <2>2. Agrees(c)
    BY <2>1 DEF DraftCommentInv, AgreeInv
  <2>3. CASE documents[c] = Gone
    BY <2>2, <2>3 DEF Agrees, Orphan
  <2>4. CASE documents[c] # Gone
    BY <2>2, <2>4 DEF Agrees, Matches
  <2> QED
    BY <2>3, <2>4
<1> QED
  BY <1>1, DraftCommentInvariant, PTL

\* The number of replies MongoDB shows is exact whenever a request alone counted
\* last, and the one in DynamoDB, which is only ever added to, as long as no two
\* requests have overlapped, none was cut short and no comment was deleted twice
\* (updateReplies, incrementDraftProposalReplies).
THEOREM RepliesAlwaysExact == DraftCommentSpec => []RepliesExact
<1>1. DraftCommentInv => RepliesExact
  <2> SUFFICES ASSUME DraftCommentInv
               PROVE  /\ repaired => replies = Cardinality(Shown)
                      /\ (exactItem /\ DraftServed = {}) => repliesItem = Cardinality(Live)
    BY DEF RepliesExact
  <2>1. repliesItem \in Int /\ Cardinality(Live) \in Nat
    BY ShownCounted DEF DraftCommentInv, RemarksType
  <2>2. DraftServed = {} => Owed = 0
    BY DEF Owed
  <2> QED
    BY <2>1, <2>2 DEF DraftCommentInv, RepliesInv, ExactInv
<1> QED
  BY <1>1, DraftCommentInvariant, PTL

=============================================================================
