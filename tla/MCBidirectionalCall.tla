------------------------ MODULE MCBidirectionalCall ------------------------
(* A chain of two factories to model check BidirectionalCall on.           *)
EXTENDS BidirectionalCall, TLC

\* The first factory overrides m; the second overrides n, which JavaScript cannot
\* reach in the base class.
TwoPrototypes == <<{"m"}, {"n"}>>
Symmetry == Permutations(Objects)
===============================================================================
