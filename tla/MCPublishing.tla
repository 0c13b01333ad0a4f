---------------------------- MODULE MCPublishing ----------------------------
EXTENDS Publishing, TLC

(* Slots and requests are interchangeable: none is treated specially, and  *)
(* no property names one.                                                  *)
Symmetry == Permutations(Workers) \cup Permutations(Requests)
=============================================================================
