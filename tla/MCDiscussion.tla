---------------------------- MODULE MCDiscussion ----------------------------
(***************************************************************************)
(* Instances of Comments, DraftComments and ProposalTemplates for TLC: a   *)
(* behaviour is one of one of the modules, while the others rest.          *)
(***************************************************************************)
EXTENDS Comments, DraftComments, ProposalTemplates

VARIABLE part

QuietComments == [posts |-> 1, deletions |-> 0, reports |-> 0, apiCrashes |-> 0]

MCCommentScenarios ==
  {\* counts race, and are repaired
   [QuietComments EXCEPT !.posts = 3],
   [QuietComments EXCEPT !.posts = 2, !.deletions = 2],
   [QuietComments EXCEPT !.posts = 2, !.deletions = 1, !.apiCrashes = 1],
   \* reports, also with the deletion of the author
   [QuietComments EXCEPT !.reports = 4],
   [QuietComments EXCEPT !.deletions = 1, !.reports = 3],
   [QuietComments EXCEPT !.reports = 3, !.apiCrashes = 1]}

QuietDraft ==
  [remarks |-> 1, asked |-> {}, changes |-> 2, by |-> Drafters, together |-> FALSE,
   draftRestarts |-> 0]

MCDraftCommentScenarios ==
  {\* the lists, by requests that follow each other and by requests that overlap
   [QuietDraft EXCEPT !.asked = ListOps, !.changes = 4],
   [QuietDraft EXCEPT !.asked = ListOps, !.changes = 3, !.together = TRUE],
   \* updates and deletions, of comments and of replies
   [QuietDraft EXCEPT !.asked = {"update", "delete"}, !.together = TRUE],
   [QuietDraft EXCEPT !.asked = {"update", "delete"}, !.remarks = 2, !.changes = 1,
                      !.together = TRUE],
   [QuietDraft EXCEPT !.asked = {"delete"}, !.remarks = 3],
   [QuietDraft EXCEPT !.asked = {"update", "delete", "like"}, !.remarks = 2,
                      !.draftRestarts = 1]}

QuietTemplates ==
  [creations |-> 1, clones |-> 0, edits |-> 0, removals |-> 0, milliseconds |-> 2,
   apiRestarts |-> 0]

MCTemplateScenarios ==
  {\* two DAOs create the same template, and one clones it
   [QuietTemplates EXCEPT !.creations = 2, !.clones = 1, !.milliseconds = 0, !.apiRestarts = 1],
   [QuietTemplates EXCEPT !.clones = 3, !.milliseconds = 0],
   \* a template is changed, cloned and removed
   [QuietTemplates EXCEPT !.clones = 1, !.edits = 1],
   [QuietTemplates EXCEPT !.edits = 2, !.removals = 1],
   [QuietTemplates EXCEPT !.edits = 1, !.removals = 1, !.apiRestarts = 1]}

Init ==
  /\ part \in {"comments", "draft", "templates"}
  /\ CommentInit /\ DraftCommentInit /\ TemplateInit
  /\ part # "comments" => allowance = CHOOSE s \in CommentScenarios : TRUE
  /\ part # "draft" => quota = CHOOSE s \in DraftCommentScenarios : TRUE
  /\ part # "templates" => rest = CHOOSE s \in TemplateScenarios : TRUE

Next ==
  /\ part' = part
  /\ \/ part = "comments" /\ CommentNext /\ UNCHANGED <<draftCommentVars, templateVars>>
     \/ part = "draft" /\ DraftCommentNext /\ UNCHANGED <<commentVars, templateVars>>
     \/ part = "templates" /\ TemplateNext /\ UNCHANGED <<commentVars, draftCommentVars>>

Spec == Init /\ [][Next]_<<part, commentVars, draftCommentVars, templateVars>>
=============================================================================
