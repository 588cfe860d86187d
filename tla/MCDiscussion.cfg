SPECIFICATION Spec
CONSTANTS
  Readers = {a1, a2, a3}
  Council = {a3}
  Contexts = {x1, x2}
  CommentThreads = {t1, t2}
  Void = Void
  Threshold = 3
  CommentScenarios <- MCCommentScenarios
  Drafters = {d1, d2}
  Chairs = {d2}
  Texts = {m1, m2}
  DraftThreads = {t1, t2}
  Gone = Gone
  DraftCommentScenarios <- MCDraftCommentScenarios
  Houses = {h1, h2}
  Methods = {s1}
  Configs = {c1, c2}
  TemplateThreads = {t1, t2}
  Blank = Blank
  TemplateScenarios <- MCTemplateScenarios
CHECK_DEADLOCK FALSE
INVARIANTS
  CommentsJudged
  RemarksAgree
  RepliesExact
  TemplatesShown
