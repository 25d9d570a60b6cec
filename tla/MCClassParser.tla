------------------------------ MODULE MCClassParser ------------------------------
(* All programs of a few classes for ClassParser, up to some that differ   *)
(* in nothing that matters.                                                *)
EXTENDS ClassParser

Numbered == 1..3

\* Classes are numbered so that a base class has a smaller number.
Hierarchies == {b \in [Numbered -> Numbered \cup {0}] : \A c \in Numbered : b[c] < c}

AtMostOne(S) == {{}} \cup {{c} : c \in S}

\* What derives from a tracked class is tracked, and what a foreign class derives
\* from is foreign.
Closed(b, tracked, foreign) ==
  /\ \A c \in Numbered \ tracked : b[c] \notin tracked
  /\ \A c \in foreign : c \notin tracked /\ b[c] \in foreign \cup {0}

Pimpls ==
  {p \in [Numbered -> Numbered \cup {0}] :
     Cardinality({c \in Numbered : p[c] # 0}) <= 1 \/ p = [c \in Numbered |-> IF c = 2 THEN 0 ELSE 2]}

Kinds == {k \in [base : Hierarchies, tracked : SUBSET Numbered, foreign : {{}, {1}}] :
            Closed(k.base, k.tracked, k.foreign)}

\* One class that is skipped, one that is bidirectional and one instance of a
\* template: any of those there are.
SmallPrograms ==
  {[base |-> k.base, tracked |-> k.tracked, foreign |-> k.foreign, skipped |-> s,
    bidirectional |-> j, instantiated |-> i, pimpl |-> p,
    cost |-> [c \in Numbered |-> IF c = 3 THEN 5 ELSE 3]] :
     k \in Kinds, s \in AtMostOne(Numbered), j \in {{}, {2}},
     i \in AtMostOne(Numbered), p \in Pimpls}
===============================================================================
