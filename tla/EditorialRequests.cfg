CONSTANTS
  Posts = {t1, t2}
  Texts = {x1, x2}
  Requests = {r1, r2}
  Starts = {"draft", "ai_generated"}
SPECIFICATION Spec
SYMMETRY Symmetry
INVARIANTS
  TypeOK
  NothingIsLostUnlessCrossed
  ApprovedIsStamped
PROPERTIES
  EditWithdrawsApproval
  OnlyAllowedTransitions
