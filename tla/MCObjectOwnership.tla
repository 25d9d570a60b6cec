-------------------------- MODULE MCObjectOwnership --------------------------
(* Model checking of ObjectOwnership: addresses and JavaScript objects are *)
(* interchangeable.                                                        *)
EXTENDS ObjectOwnership, TLC

Symmetry == Permutations(Addresses) \cup Permutations(Objects)
===============================================================================
