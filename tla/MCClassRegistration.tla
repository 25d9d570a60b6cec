--------------------------- MODULE MCClassRegistration ---------------------------
(* Two types, one derived from the other, for ClassRegistration.           *)
EXTENDS ClassRegistration

TwoTypes == {"B", "D"}
DerivedFromB == [t \in TwoTypes |-> IF t = "D" THEN "B" ELSE "none"]
===============================================================================
