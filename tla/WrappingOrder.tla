------------------------------ MODULE WrappingOrder ------------------------------
(***************************************************************************)
(* What inheritance between wrapped classes rests on.  A class gets the    *)
(* methods of its parents from their constructor templates, and those are  *)
(* made when the parents are wrapped: so the parents come first.           *)
(*                                                                         *)
(* ClassParser writes registrations in such an order; ClassRegistration    *)
(* is the library that runs them and insists on it.                        *)
(***************************************************************************)
CONSTANT Classes

VARIABLES wrapped,  \* the classes wrapped so far
          parents   \* the classes each of them inherits from

vars == <<wrapped, parents>>

Init ==
  /\ wrapped = {}
  /\ parents = [c \in Classes |-> {}]

Wrap(c, from) ==
  /\ c \notin wrapped
  /\ from \subseteq wrapped
  /\ wrapped' = wrapped \cup {c}
  /\ parents' = [parents EXCEPT ![c] = from]

\* Everything goes with the isolate.
Forget ==
  /\ wrapped' = {}
  /\ parents' = [c \in Classes |-> {}]

Next ==
  \/ \E c \in Classes, from \in SUBSET Classes : Wrap(c, from)
  \/ Forget

Spec == Init /\ [][Next]_vars

\* No class inherits from one that is not wrapped: what a class inherits is there
\* when its own templates are made.
ParentsWrapped == \A c \in wrapped : parents[c] \subseteq wrapped
===============================================================================
