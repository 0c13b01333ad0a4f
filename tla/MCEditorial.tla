----------------------------- MODULE MCEditorial -----------------------------
EXTENDS Editorial, TLC

(* Posts, texts and requests are interchangeable.                          *)
Symmetry == Permutations(Posts) \cup Permutations(Texts) \cup Permutations(Requests)
=============================================================================
