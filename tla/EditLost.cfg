CONSTANTS
  Posts = {t1}
  Texts = {x1, x2, x3}
  Requests = {r1, r2}
  Starts = {"draft"}
SPECIFICATION Spec
SYMMETRY Symmetry
INVARIANT NothingIsLost
