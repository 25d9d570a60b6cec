----------------------------- MODULE ClassParserProofs -----------------------------
(***************************************************************************)
(* What ClassParser promises for any program, visited in any order: every  *)
(* variable has its type, the bases of what is wrapped are wrapped, and    *)
(* what is written is complete and in an order in which it can be wrapped. *)
(*                                                                         *)
(* The invariant follows the list of classes through the phases: what is   *)
(* entered when it is matched, what the list of classes to be written      *)
(* holds after parsing, and what a pass over that list has passed over.    *)
(* What a recursive function of ClassParser is, and that the passes leave  *)
(* nothing out, rests on bases that are in no circle: of the classes for   *)
(* which something fails, take one whose base is not among them.           *)
(***************************************************************************)
EXTENDS ClassParser, FiniteSetTheorems, SequenceTheorems, TLAPS

-------------------------------------------------------------------------------
(* Induction and recursion along links b, which lead from the members of a *)
(* set I to members of it or to None, and in no circle.                    *)

WellFounded(I, b) == \A S \in SUBSET I : S # {} => \E x \in S : b[x] \notin S

LEMMA Induction ==
  ASSUME NEW I, NEW b, WellFounded(I, b), NEW G \in SUBSET I,
         \A x \in I : (b[x] \in I => b[x] \in G) => x \in G
  PROVE  G = I
<1> SUFFICES ASSUME I \ G # {} PROVE FALSE
  OBVIOUS
<1>1. PICK x \in I \ G : b[x] \notin I \ G
  BY DEF WellFounded
<1> QED BY <1>1

\* f is what root and step define on D.
Solves(I, None, b, root, step, D, f) ==
  \A x \in D : /\ b[x] # None => b[x] \in D
               /\ f[x] = IF b[x] = None THEN root[x] ELSE step[x][f[b[x]]]

Recursive(I, None, b, V, root, step) ==
  /\ None \notin I /\ b \in [I -> I \cup {None}] /\ WellFounded(I, b)
  /\ root \in [I -> V] /\ step \in [I -> [V -> V]]

LEMMA Recursion ==
  ASSUME NEW I, NEW None, NEW b, NEW V, NEW root, NEW step,
         Recursive(I, None, b, V, root, step)
  PROVE  \E f \in [I -> V] :
           \A x \in I : f[x] = IF b[x] = None THEN root[x] ELSE step[x][f[b[x]]]
<1> USE DEF Recursive
<1> DEFINE Partial(D, f) == Solves(I, None, b, root, step, D, f)
           G == {x \in I : \E D \in SUBSET I, f \in [I -> V] : x \in D /\ Partial(D, f)}
<1>1. ASSUME NEW x \in I, b[x] \in I => b[x] \in G PROVE x \in G
  <2>1. CASE b[x] = None
    <3>1. Partial({x}, root)
      BY <2>1 DEF Solves
    <3> QED BY <3>1
  <2>2. CASE b[x] # None
    <3>1. b[x] \in I
      BY <2>2
    <3>2. PICK D \in SUBSET I, f \in [I -> V] : b[x] \in D /\ Partial(D, f)
      BY <1>1, <3>1
    <3>3. CASE x \in D
      BY <3>2, <3>3
    <3>4. CASE x \notin D
      <4> DEFINE g == [f EXCEPT ![x] = step[x][f[b[x]]]]
      <4>1. g \in [I -> V] /\ g[x] = step[x][f[b[x]]] /\ \A y \in D : g[y] = f[y]
        BY <3>1, <3>4
      <4> HIDE DEF g
      <4>2. Partial(D \cup {x}, g)
        BY <2>2, <3>2, <3>4, <4>1 DEF Solves
      <4> QED BY <4>1, <4>2
    <3> QED BY <3>3, <3>4
  <2> QED BY <2>1, <2>2
<1>2. \A x \in I : \E D \in SUBSET I, f \in [I -> V] : x \in D /\ Partial(D, f)
  <2> HIDE DEF G
  <2>1. G \in SUBSET I
    BY DEF G
  <2>2. \A x \in I : (b[x] \in I => b[x] \in G) => x \in G
    BY <1>1
  <2>3. WellFounded(I, b)
    OBVIOUS
  <2>4. G = I
    BY <2>1, <2>2, <2>3, Induction
  <2> QED BY <2>4 DEF G
<1> HIDE DEF G
<1>0. ASSUME NEW D \in SUBSET I, NEW f \in [I -> V], Partial(D, f),
             NEW E \in SUBSET I, NEW g \in [I -> V], Partial(E, g)
      PROVE  \A y \in D \cap E : f[y] = g[y]
  <2> DEFINE H == {x \in I : x \in D \cap E => f[x] = g[x]}
  <2>1. ASSUME NEW x \in I, b[x] \in I => b[x] \in H PROVE x \in H
    <3> SUFFICES ASSUME x \in D, x \in E PROVE f[x] = g[x]
      OBVIOUS
    <3>1. CASE b[x] = None
      BY <1>0, <3>1 DEF Solves
    <3>2. CASE b[x] # None
      <4>1. b[x] \in D \cap E /\ b[x] \in I
        BY <1>0, <3>2 DEF Solves
      <4>2. f[b[x]] = g[b[x]]
        BY <2>1, <4>1
      <4> QED BY <1>0, <3>2, <4>2 DEF Solves
    <3> QED BY <3>1, <3>2
  <2> HIDE DEF H
  <2>2. H \in SUBSET I
    BY DEF H
  <2>3. \A x \in I : (b[x] \in I => b[x] \in H) => x \in H
    BY <2>1
  <2>4. H = I
    BY <2>2, <2>3, Induction
  <2> QED BY <2>4 DEF H
<1> HIDE DEF Partial
<1> DEFINE F == [x \in I |-> CHOOSE f \in [I -> V] : \E D \in SUBSET I : x \in D /\ Partial(D, f)]
           h == [x \in I |-> F[x][x]]
<1>3. ASSUME NEW x \in I
      PROVE  F[x] \in [I -> V] /\ \E D \in SUBSET I : x \in D /\ Partial(D, F[x])
  BY <1>2
<1> HIDE DEF F
<1>4. ASSUME NEW x \in I PROVE h[x] = IF b[x] = None THEN root[x] ELSE step[x][h[b[x]]]
  <2>1. PICK D \in SUBSET I : x \in D /\ Partial(D, F[x])
    BY <1>3
  <2>2. CASE b[x] = None
    BY <2>1, <2>2 DEF Partial, Solves
  <2>3. CASE b[x] # None
    <3>1. b[x] \in I /\ b[x] \in D
      BY <2>1, <2>3 DEF Partial, Solves
    <3>2. PICK E \in SUBSET I : b[x] \in E /\ Partial(E, F[b[x]])
      BY <1>3, <3>1
    <3>3. F[x] \in [I -> V] /\ F[b[x]] \in [I -> V]
      BY <1>3, <3>1
    <3>4. Partial(D, F[x]) /\ Partial(E, F[b[x]])
      BY <2>1, <3>2
    <3>5. \A y \in D \cap E : F[x][y] = F[b[x]][y]
      BY <3>3, <3>4, <1>0
    <3>6. F[x][b[x]] = F[b[x]][b[x]]
      BY <3>1, <3>2, <3>5
    <3>7. F[x][x] = step[x][F[x][b[x]]]
      BY <2>1, <2>3 DEF Partial, Solves
    <3>8. h[x] = F[x][x] /\ h[b[x]] = F[b[x]][b[x]]
      BY <3>1
    <3> QED BY <2>3, <3>6, <3>7, <3>8
  <2> QED BY <2>2, <2>3
<1>5. h \in [I -> V]
  BY <1>3
<1> HIDE DEF h
<1> QED BY <1>4, <1>5

-------------------------------------------------------------------------------
(* A class and its ancestors.                                              *)

LEMMA Bases ==
  ASSUME code \in Programs
  PROVE  /\ code \in Program /\ NoClass \notin Classes
         /\ code.base \in [Classes -> Classes \cup {NoClass}]
         /\ WellFounded(Classes, code.base)
BY ParserAssumption DEF Program, Founded, WellFounded

LEMMA BaseIs ==
  ASSUME code \in Programs, NEW c \in Classes
  PROVE  /\ code.base[c] # NoClass => code.base[c] \in Classes /\ BaseTypes(c) = {code.base[c]}
         /\ code.base[c] = NoClass => BaseTypes(c) = {}
         /\ BaseTypes(c) \subseteq Classes
BY Bases DEF BaseTypes

LEMMA RangeOfMore ==
  ASSUME NEW s, NEW t, NEW n, NEW e, DOMAIN t = DOMAIN s \cup {n}, t[n] = e,
         \A i \in DOMAIN s : t[i] = s[i]
  PROVE  Range(t) = Range(s) \cup {e}
BY DEF Range

LEMMA RangeOfAppend ==
  ASSUME NEW T, NEW s \in Seq(T), NEW e \in T
  PROVE  Append(s, e) \in Seq(T) /\ Range(Append(s, e)) = Range(s) \cup {e}
<1>1. PICK t, n : t = Append(s, e) /\ n = Len(s) + 1
  OBVIOUS
<1>2. /\ t \in Seq(T) /\ DOMAIN t = DOMAIN s \cup {n} /\ t[n] = e
      /\ \A i \in DOMAIN s : t[i] = s[i]
  BY <1>1, AppendProperties, LenProperties
<1>3. Range(t) = Range(s) \cup {e}
  BY <1>2, RangeOfMore
<1> QED BY <1>1, <1>2, <1>3

LEMMA LineIs ==
  ASSUME code \in Programs
  PROVE  Line = [c \in Classes |-> IF code.base[c] = NoClass THEN <<c>>
                                   ELSE Append(Line[code.base[c]], c)]
<1> DEFINE root == [c \in Classes |-> <<c>>]
           step == [c \in Classes |-> [s \in Seq(Classes) |-> Append(s, c)]]
<1>1. Recursive(Classes, NoClass, code.base, Seq(Classes), root, step)
  BY Bases, AppendProperties DEF Recursive
<1> HIDE DEF root, step
<1>2. PICK f \in [Classes -> Seq(Classes)] :
        \A c \in Classes : f[c] = IF code.base[c] = NoClass THEN root[c]
                                  ELSE step[c][f[code.base[c]]]
  BY <1>1, Recursion
<1>3. \A c \in Classes : f[c] = IF code.base[c] = NoClass THEN <<c>>
                               ELSE Append(f[code.base[c]], c)
  <2> SUFFICES ASSUME NEW c \in Classes
               PROVE  f[c] = IF code.base[c] = NoClass THEN <<c>> ELSE Append(f[code.base[c]], c)
    OBVIOUS
  <2>1. CASE code.base[c] = NoClass
    BY <1>2, <2>1 DEF root
  <2>2. CASE code.base[c] # NoClass
    <3>1. f[code.base[c]] \in Seq(Classes)
      BY <2>2, Bases
    <3>2. step[c][f[code.base[c]]] = Append(f[code.base[c]], c)
      BY <3>1 DEF step
    <3> QED BY <1>2, <2>2, <3>2
  <2> QED BY <2>1, <2>2
<1>4. f = [c \in Classes |-> IF code.base[c] = NoClass THEN <<c>> ELSE Append(f[code.base[c]], c)]
  BY <1>3
<1> QED BY <1>4 DEF Line

LEMMA LineType ==
  ASSUME code \in Programs, NEW c \in Classes
  PROVE  Line[c] \in Seq(Classes)
<1> DEFINE G == {d \in Classes : Line[d] \in Seq(Classes)}
<1>1. \A d \in Classes : (code.base[d] \in Classes => code.base[d] \in G) => d \in G
  <2> SUFFICES ASSUME NEW d \in Classes, code.base[d] \in Classes => code.base[d] \in G
               PROVE  Line[d] \in Seq(Classes)
    OBVIOUS
  <2>1. Line[d] = IF code.base[d] = NoClass THEN <<d>> ELSE Append(Line[code.base[d]], d)
    BY LineIs
  <2>2. CASE code.base[d] = NoClass
    BY <2>1, <2>2
  <2>3. CASE code.base[d] # NoClass
    <3>1. Line[code.base[d]] \in Seq(Classes)
      BY <2>3, Bases
    <3> QED BY <2>1, <2>3, <3>1, AppendProperties
  <2> QED BY <2>2, <2>3
<1> HIDE DEF G
<1>2. G \in SUBSET Classes
  BY DEF G
<1>3. G = Classes
  BY <1>1, <1>2, Bases, Induction
<1> QED BY <1>3 DEF G

LEMMA LineRange ==
  ASSUME code \in Programs, NEW c \in Classes
  PROVE  /\ code.base[c] = NoClass => Range(Line[c]) = {c}
         /\ code.base[c] # NoClass => Range(Line[c]) = Range(Line[code.base[c]]) \cup {c}
<1>1. CASE code.base[c] = NoClass
  <2>1. Line[c] = <<c>>
    BY <1>1, LineIs
  <2> QED BY <1>1, <2>1 DEF Range
<1>2. CASE code.base[c] # NoClass
  <2>1. Line[c] = Append(Line[code.base[c]], c)
    BY <1>2, LineIs
  <2>2. Line[code.base[c]] \in Seq(Classes)
    BY <1>2, Bases, LineType
  <2> QED BY <1>2, <2>1, <2>2, RangeOfAppend
<1> QED BY <1>1, <1>2

\* What holds a class and, with a class, its base class, holds its ancestors.
LEMMA LineInClosed ==
  ASSUME code \in Programs, NEW A, \A d \in A \cap Classes : BaseTypes(d) \subseteq A,
         NEW c \in A \cap Classes
  PROVE  Range(Line[c]) \subseteq A
<1> DEFINE G == {d \in Classes : d \in A => Range(Line[d]) \subseteq A}
<1>1. \A d \in Classes : (code.base[d] \in Classes => code.base[d] \in G) => d \in G
  <2> SUFFICES ASSUME NEW d \in Classes, code.base[d] \in Classes => code.base[d] \in G, d \in A
               PROVE  Range(Line[d]) \subseteq A
    OBVIOUS
  <2>1. CASE code.base[d] = NoClass
    BY <2>1, LineRange
  <2>2. CASE code.base[d] # NoClass
    <3>1. code.base[d] \in Classes /\ code.base[d] \in A
      BY <2>2, BaseIs
    <3>2. Range(Line[code.base[d]]) \subseteq A
      BY <3>1
    <3> QED BY <2>2, <3>2, LineRange
  <2> QED BY <2>1, <2>2
<1> HIDE DEF G
<1>2. G \in SUBSET Classes
  BY DEF G
<1>3. G = Classes
  BY <1>1, <1>2, Bases, Induction
<1> QED BY <1>3 DEF G

LEMMA LineFacts ==
  ASSUME code \in Programs, NEW c \in Classes
  PROVE  /\ c \in Range(Line[c]) /\ Range(Line[c]) \subseteq Classes
         /\ \A d \in Range(Line[c]) : BaseTypes(d) \subseteq Range(Line[c])
<1>1. c \in Range(Line[c])
  BY LineRange
<1>2. Range(Line[c]) \subseteq Classes
  BY LineType, LenProperties, ElementOfSeq DEF Range
<1> DEFINE G == {d \in Classes : \A e \in Range(Line[d]) : BaseTypes(e) \subseteq Range(Line[d])}
<1>3. \A d \in Classes : (code.base[d] \in Classes => code.base[d] \in G) => d \in G
  <2> SUFFICES ASSUME NEW d \in Classes, code.base[d] \in Classes => code.base[d] \in G,
                      NEW e \in Range(Line[d])
               PROVE  BaseTypes(e) \subseteq Range(Line[d])
    OBVIOUS
  <2>1. CASE code.base[d] = NoClass
    <3>1. e = d
      BY <2>1, LineRange
    <3> QED BY <2>1, <3>1, BaseIs
  <2>2. CASE code.base[d] # NoClass
    <3> DEFINE b == code.base[d]
    <3>1. b \in Classes /\ BaseTypes(d) = {b}
      BY <2>2, BaseIs
    <3>2. b \in Range(Line[b])
      BY <3>1, LineRange
    <3>3. \A x \in Range(Line[b]) : BaseTypes(x) \subseteq Range(Line[b])
      BY <3>1
    <3>4. Range(Line[d]) = Range(Line[b]) \cup {d}
      BY <2>2, LineRange
    <3> QED BY <3>1, <3>2, <3>3, <3>4
  <2> QED BY <2>1, <2>2
<1> HIDE DEF G
<1>4. G \in SUBSET Classes
  BY DEF G
<1>5. G = Classes
  BY <1>3, <1>4, Bases, Induction
<1> QED BY <1>1, <1>2, <1>5 DEF G

\* No class is an ancestor of its base class.
LEMMA NoLoop ==
  ASSUME code \in Programs, NEW c \in Classes, code.base[c] # NoClass
  PROVE  c \notin Range(Line[code.base[c]])
<1> SUFFICES ASSUME c \in Range(Line[code.base[c]]) PROVE FALSE
  OBVIOUS
<1> DEFINE S == {d \in Classes : d \in Range(Line[c]) /\ c \in Range(Line[d])}
<1>1. c \in S
  BY LineFacts
<1>2. ASSUME NEW d \in S PROVE code.base[d] \in S
  <2>1. CASE d = c
    <3>1. code.base[c] \in Range(Line[c]) /\ code.base[c] \in Classes
      BY LineFacts, BaseIs
    <3> QED BY <2>1, <3>1
  <2>2. CASE d # c
    <3>1. code.base[d] # NoClass /\ c \in Range(Line[code.base[d]])
      BY <2>2, LineRange
    <3>2. code.base[d] \in Range(Line[c]) /\ code.base[d] \in Classes
      BY <3>1, LineFacts, BaseIs
    <3> QED BY <3>1, <3>2
  <2> QED BY <2>1, <2>2
<1> HIDE DEF S
<1>3. S \in SUBSET Classes
  BY DEF S
<1> QED BY <1>1, <1>2, <1>3, Bases DEF WellFounded

LEMMA AncestorFacts ==
  ASSUME code \in Programs, NEW c \in Classes
  PROVE  /\ Ancestors(c) \subseteq Classes /\ c \notin Ancestors(c)
         /\ BaseTypes(c) \subseteq Ancestors(c)
         /\ \A d \in Ancestors(c) : BaseTypes(d) \subseteq Ancestors(c)
         /\ Range(Line[c]) = Ancestors(c) \cup {c}
<1>1. Ancestors(c) \subseteq Classes /\ c \notin Ancestors(c)
      /\ Range(Line[c]) = Ancestors(c) \cup {c}
  BY LineFacts DEF Ancestors
<1>2. CASE code.base[c] = NoClass
  <2>1. Ancestors(c) = {} /\ BaseTypes(c) = {}
    BY <1>2, LineRange, BaseIs DEF Ancestors
  <2> QED BY <1>1, <2>1
<1>3. CASE code.base[c] # NoClass
  <2>1. code.base[c] \in Classes /\ BaseTypes(c) = {code.base[c]}
    BY <1>3, BaseIs
  <2>2. Ancestors(c) = Range(Line[code.base[c]])
    BY <1>3, LineRange, NoLoop DEF Ancestors
  <2> QED BY <1>1, <2>1, <2>2, LineFacts
<1> QED BY <1>2, <1>3

-------------------------------------------------------------------------------
(* What a class enters.                                                    *)

EntryType == [class : Classes, generated : BOOLEAN]

LEMMA RangeOfConcat ==
  ASSUME NEW T, NEW s \in Seq(T), NEW t \in Seq(T)
  PROVE  s \o t \in Seq(T) /\ Range(s \o t) = Range(s) \cup Range(t)
<1> DEFINE u == s \o t
<1>1. /\ u \in Seq(T) /\ Len(u) = Len(s) + Len(t)
      /\ \A i \in 1..Len(s) + Len(t) : u[i] = IF i <= Len(s) THEN s[i] ELSE t[i - Len(s)]
  BY ConcatProperties
<1>2. /\ DOMAIN u = 1..Len(s) + Len(t) /\ DOMAIN s = 1..Len(s) /\ DOMAIN t = 1..Len(t)
      /\ Len(s) \in Nat /\ Len(t) \in Nat
  BY <1>1, LenProperties
<1> HIDE DEF u
<1>3. ASSUME NEW i \in DOMAIN s PROVE s[i] \in Range(u)
  <2>1. i \in DOMAIN u /\ u[i] = s[i]
    BY <1>1, <1>2
  <2> QED BY <2>1 DEF Range
<1>4. ASSUME NEW i \in DOMAIN t PROVE t[i] \in Range(u)
  <2>1. i + Len(s) \in DOMAIN u /\ ~(i + Len(s) <= Len(s)) /\ (i + Len(s)) - Len(s) = i
    BY <1>2
  <2>2. u[i + Len(s)] = t[i]
    BY <1>1, <1>2, <2>1
  <2> QED BY <2>1, <2>2 DEF Range
<1>5. ASSUME NEW i \in DOMAIN u PROVE u[i] \in Range(s) \cup Range(t)
  <2>1. CASE i <= Len(s)
    <3>1. i \in DOMAIN s /\ u[i] = s[i]
      BY <1>1, <1>2, <2>1
    <3> QED BY <3>1 DEF Range
  <2>2. CASE ~(i <= Len(s))
    <3>1. i - Len(s) \in DOMAIN t /\ u[i] = t[i - Len(s)]
      BY <1>1, <1>2, <2>2
    <3> QED BY <3>1 DEF Range
  <2> QED BY <2>1, <2>2
<1>6. Range(u) = Range(s) \cup Range(t)
  BY <1>3, <1>4, <1>5 DEF Range
<1> QED BY <1>1, <1>6 DEF u

LEMMA OneElement ==
  ASSUME NEW T, NEW e \in T
  PROVE  <<e>> \in Seq(T) /\ Range(<<e>>) = {e}
BY DEF Range

LEMMA EntriesType ==
  ASSUME NEW c \in Classes
  PROVE  /\ EntriesFor(c) \in Seq(EntryType)
         /\ Entry(c, FALSE) \in Range(EntriesFor(c))
         /\ \A e \in Range(EntriesFor(c)) : e.class = c
<1> DEFINE s == <<Entry(c, FALSE)>>
           t == IF c \in code.bidirectional THEN <<Entry(c, TRUE)>> ELSE <<>>
<1>1. Entry(c, FALSE) \in EntryType /\ Entry(c, TRUE) \in EntryType
      /\ Entry(c, FALSE).class = c /\ Entry(c, TRUE).class = c
  BY DEF Entry, EntryType
<1>2. s \in Seq(EntryType) /\ Range(s) = {Entry(c, FALSE)}
  BY <1>1, OneElement
<1>3. t \in Seq(EntryType) /\ Range(t) \subseteq {Entry(c, TRUE)}
  <2>1. CASE c \in code.bidirectional
    <3>1. t = <<Entry(c, TRUE)>>
      BY <2>1
    <3> HIDE DEF t
    <3> QED BY <1>1, <3>1, OneElement
  <2>2. CASE c \notin code.bidirectional
    <3>1. t = <<>>
      BY <2>2
    <3> HIDE DEF t
    <3> QED BY <3>1 DEF Range
  <2> QED BY <2>1, <2>2
<1> HIDE DEF s, t
<1>4. s \o t \in Seq(EntryType) /\ Range(s \o t) = Range(s) \cup Range(t)
  <2>1. s \in Seq(EntryType) /\ t \in Seq(EntryType)
    BY <1>2, <1>3
  <2> QED BY <2>1, RangeOfConcat
<1>5. EntriesFor(c) = s \o t
  BY DEF EntriesFor, s, t
<1> QED BY <1>1, <1>2, <1>3, <1>4, <1>5

LEMMA MissingIs ==
  ASSUME code \in Programs
  PROVE  Missing = [c \in Classes |->
                      IF Seen(c) THEN <<>>
                      ELSE IF code.base[c] = NoClass THEN EntriesFor(c)
                      ELSE Missing[code.base[c]] \o EntriesFor(c)]
<1> DEFINE V == Seq(EntryType)
           root == [c \in Classes |-> IF Seen(c) THEN <<>> ELSE EntriesFor(c)]
           step == [c \in Classes |->
                      [s \in V |-> IF Seen(c) THEN <<>> ELSE s \o EntriesFor(c)]]
<1>1. root \in [Classes -> V]
  <2>1. \A c \in Classes : EntriesFor(c) \in V
    BY EntriesType
  <2>2. <<>> \in V
    OBVIOUS
  <2> HIDE DEF V
  <2> QED BY <2>1, <2>2
<1>2. step \in [Classes -> [V -> V]]
  <2>1. \A c \in Classes, s \in V : s \o EntriesFor(c) \in V
    BY EntriesType, ConcatProperties
  <2>2. <<>> \in V
    OBVIOUS
  <2> HIDE DEF V
  <2> QED BY <2>1, <2>2
<1> HIDE DEF root, step, V
<1>3. Recursive(Classes, NoClass, code.base, V, root, step)
  BY <1>1, <1>2, Bases DEF Recursive
<1>4. PICK f \in [Classes -> V] :
        \A c \in Classes : f[c] = IF code.base[c] = NoClass THEN root[c]
                                  ELSE step[c][f[code.base[c]]]
  BY <1>3, Recursion
<1>5. \A c \in Classes : f[c] = IF Seen(c) THEN <<>>
                                ELSE IF code.base[c] = NoClass THEN EntriesFor(c)
                                ELSE f[code.base[c]] \o EntriesFor(c)
  <2>1. ASSUME NEW c \in Classes, code.base[c] = NoClass
        PROVE  f[c] = IF Seen(c) THEN <<>> ELSE EntriesFor(c)
    BY <1>4, <2>1 DEF root
  <2>2. ASSUME NEW c \in Classes, code.base[c] # NoClass
        PROVE  f[c] = IF Seen(c) THEN <<>> ELSE f[code.base[c]] \o EntriesFor(c)
    <3>1. f[code.base[c]] \in V
      BY <1>4, <2>2, Bases
    <3>2. step[c][f[code.base[c]]] = IF Seen(c) THEN <<>> ELSE f[code.base[c]] \o EntriesFor(c)
      BY <3>1 DEF step
    <3> QED BY <1>4, <2>2, <3>2
  <2> QED BY <2>1, <2>2
<1>6. f = [c \in Classes |-> IF Seen(c) THEN <<>>
                             ELSE IF code.base[c] = NoClass THEN EntriesFor(c)
                             ELSE f[code.base[c]] \o EntriesFor(c)]
  BY <1>5
<1> QED BY <1>6 DEF Missing

LEMMA MissingType ==
  ASSUME code \in Programs, NEW c \in Classes
  PROVE  Missing[c] \in Seq(EntryType) /\ \A e \in Range(Missing[c]) : e.class \in Range(Line[c])
<1> DEFINE Good(d) == /\ Missing[d] \in Seq(EntryType)
                      /\ \A e \in Range(Missing[d]) : e.class \in Range(Line[d])
           G == {d \in Classes : Good(d)}
<1>1. \A d \in Classes : (code.base[d] \in Classes => code.base[d] \in G) => d \in G
  <2> SUFFICES ASSUME NEW d \in Classes, code.base[d] \in Classes => code.base[d] \in G
               PROVE  Good(d)
    OBVIOUS
  <2>1. CASE Seen(d)
    <3>1. Missing[d] = <<>>
      BY <2>1, MissingIs
    <3>2. <<>> \in Seq(EntryType) /\ Range(<<>>) = {}
      BY DEF Range
    <3> QED BY <3>1, <3>2
  <2>2. CASE ~Seen(d) /\ code.base[d] = NoClass
    <3>1. Missing[d] = EntriesFor(d)
      BY <2>2, MissingIs
    <3>2. EntriesFor(d) \in Seq(EntryType) /\ \A e \in Range(EntriesFor(d)) : e.class = d
      BY EntriesType
    <3>3. d \in Range(Line[d])
      BY LineFacts
    <3> QED BY <3>1, <3>2, <3>3
  <2>3. CASE ~Seen(d) /\ code.base[d] # NoClass
    <3>1. Missing[d] = Missing[code.base[d]] \o EntriesFor(d)
      BY <2>3, MissingIs
    <3>2. Good(code.base[d])
      BY <2>3, BaseIs
    <3>3. Range(Missing[d]) = Range(Missing[code.base[d]]) \cup Range(EntriesFor(d))
          /\ Missing[d] \in Seq(EntryType)
      <4>1. Missing[code.base[d]] \in Seq(EntryType) /\ EntriesFor(d) \in Seq(EntryType)
        BY <3>2, EntriesType
      <4> QED BY <3>1, <4>1, RangeOfConcat
    <3>4. Range(Line[code.base[d]]) \subseteq Range(Line[d]) /\ d \in Range(Line[d])
      BY <2>3, LineRange
    <3> QED BY <3>2, <3>3, <3>4, EntriesType
  <2> QED BY <2>1, <2>2, <2>3
<1> HIDE DEF G
<1>2. G \in SUBSET Classes
  BY DEF G
<1>3. G = Classes
  BY <1>1, <1>2, Bases, Induction
<1> QED BY <1>3 DEF G

\* The base classes of what has been entered have been entered.
BasesSeen == \A c \in DOMAIN found_method : BaseTypes(c) \subseteq DOMAIN found_method

\* Then nothing is left out between a class and an ancestor that is missing.
LEMMA MissingIsAll ==
  ASSUME code \in Programs, DOMAIN found_method \subseteq Classes, BasesSeen, NEW c \in Classes
  PROVE  \A d \in Range(Line[c]) : ~Seen(d) => Entry(d, FALSE) \in Range(Missing[c])
<1> DEFINE Good(x) ==
             \A d \in Range(Line[x]) : ~Seen(d) => Entry(d, FALSE) \in Range(Missing[x])
           G == {x \in Classes : Good(x)}
<1>1. \A x \in Classes : (code.base[x] \in Classes => code.base[x] \in G) => x \in G
  <2> SUFFICES ASSUME NEW x \in Classes, code.base[x] \in Classes => code.base[x] \in G,
                      NEW d \in Range(Line[x]), ~Seen(d)
               PROVE  Entry(d, FALSE) \in Range(Missing[x])
    OBVIOUS
  <2>1. ~Seen(x)
    <3> SUFFICES ASSUME Seen(x) PROVE FALSE
      OBVIOUS
    <3>1. Range(Line[x]) \subseteq DOMAIN found_method
      BY LineInClosed DEF Seen, BasesSeen
    <3> QED BY <3>1 DEF Seen
  <2>2. CASE code.base[x] = NoClass
    <3>1. d = x /\ Missing[x] = EntriesFor(x)
      BY <2>1, <2>2, LineRange, MissingIs
    <3> QED BY <3>1, EntriesType
  <2>3. CASE code.base[x] # NoClass
    <3>1. code.base[x] \in Classes /\ Missing[x] = Missing[code.base[x]] \o EntriesFor(x)
      BY <2>1, <2>3, BaseIs, MissingIs
    <3>2. Range(Missing[x]) = Range(Missing[code.base[x]]) \cup Range(EntriesFor(x))
      <4>1. Missing[code.base[x]] \in Seq(EntryType) /\ EntriesFor(x) \in Seq(EntryType)
        BY <3>1, MissingType, EntriesType
      <4> QED BY <3>1, <4>1, RangeOfConcat
    <3>3. d = x \/ d \in Range(Line[code.base[x]])
      BY <2>3, LineRange
    <3>4. d \in Range(Line[code.base[x]]) => Entry(d, FALSE) \in Range(Missing[code.base[x]])
      BY <3>1
    <3> QED BY <3>2, <3>3, <3>4, EntriesType
  <2> QED BY <2>2, <2>3
<1> HIDE DEF G
<1>2. G \in SUBSET Classes
  BY DEF G
<1>3. G = Classes
  BY <1>1, <1>2, Bases, Induction
<1> QED BY <1>3 DEF G

-------------------------------------------------------------------------------
(* The classes that are parsed together.                                   *)

LEMMA Least ==
  ASSUME NEW T \in SUBSET Nat, T # {}
  PROVE  \E x \in T : \A y \in T : x <= y
<1> DEFINE R == OpToRel(<, Nat)
<1>1. IsWellFoundedOn(R, Nat)
  BY NatLessThanWellFounded
<1>2. \A x, y \in Nat : y < x => <<y, x>> \in R
  BY DEF OpToRel
<1> HIDE DEF R
<1>3. PICK x \in T : \A y \in T : ~ (<<y, x>> \in R)
  BY <1>1, WFMin
<1>4. \A y \in T : ~ (y < x)
  BY <1>2, <1>3
<1>5. \A y \in T : x <= y
  BY <1>4
<1> QED BY <1>5

\* From each number below n to the one before it.
Before(n) == [k \in 0..n |-> IF k = 0 THEN n + 1 ELSE k - 1]

LEMMA Counting ==
  ASSUME NEW n \in Nat
  PROVE  /\ n + 1 \notin 0..n /\ Before(n) \in [0..n -> 0..n \cup {n + 1}]
         /\ WellFounded(0..n, Before(n))
<1>1. ASSUME NEW S \in SUBSET (0..n), S # {} PROVE \E k \in S : Before(n)[k] \notin S
  <2>1. PICK k \in S : \A j \in S : k <= j
    BY <1>1, Least
  <2>2. k \in 0..n /\ \A j \in S : j \in 0..n
    OBVIOUS
  <2>3. Before(n)[k] = IF k = 0 THEN n + 1 ELSE k - 1
    BY <2>2 DEF Before
  <2> QED BY <2>1, <2>2, <2>3
<1>2. \A k \in 0..n : (IF k = 0 THEN n + 1 ELSE k - 1) \in 0..n \cup {n + 1}
  OBVIOUS
<1>3. Before(n) \in [0..n -> 0..n \cup {n + 1}]
  BY <1>2 DEF Before
<1>4. WellFounded(0..n, Before(n))
  BY <1>1 DEF WellFounded
<1> QED BY <1>3, <1>4

LEMMA ParsedType ==
  ASSUME DOMAIN found_method \subseteq Classes, NEW c \in Classes
  PROVE  ParsedWith(c) \in SUBSET Classes
<1> DEFINE n == Cardinality(Classes)
           V == SUBSET Classes
           More(R) == {d \in DOMAIN found_method \ members_parsed : \E u \in R : code.pimpl[u] = d}
           root == [k \in 0..n |-> {c} \ members_parsed]
           step == [k \in 0..n |-> [R \in V |-> R \cup More(R)]]
<1>1. n \in Nat
  BY ParserAssumption, FS_CardinalityType
<1>2. root \in [0..n -> V] /\ step \in [0..n -> [V -> V]]
  OBVIOUS
<1>3. \A k \in 0..n : root[k] = {c} \ members_parsed /\ \A R \in V : step[k][R] = R \cup More(R)
  OBVIOUS
<1> HIDE DEF n, root, step
<1> DEFINE I == 0..n  None == n + 1  before == Before(n)
<1>4. Recursive(I, None, before, V, root, step)
  BY <1>1, <1>2, Counting DEF Recursive
<1> HIDE DEF I, None, before, V
<1>5. PICK f \in [I -> V] :
        \A k \in I : f[k] = IF before[k] = None THEN root[k] ELSE step[k][f[before[k]]]
  BY <1>4, Recursion
<1> USE DEF I, None, before, V
<1>6. ASSUME NEW k \in 0..n
      PROVE  f[k] = IF k = 0 THEN {c} \ members_parsed ELSE f[k - 1] \cup More(f[k - 1])
  <2>1. CASE k = 0
    <3>1. Before(n)[k] = n + 1
      BY <2>1 DEF Before
    <3> QED BY <1>3, <1>5, <2>1, <3>1
  <2>2. CASE k # 0
    <3>1. k - 1 \in 0..n /\ k - 1 # n + 1 /\ Before(n)[k] = k - 1
      BY <1>1, <2>2 DEF Before
    <3>2. f[k - 1] \in V /\ f[k] = step[k][f[k - 1]]
      BY <1>5, <3>1
    <3> QED BY <1>3, <2>2, <3>2
  <2> QED BY <2>1, <2>2
<1> DEFINE Reach(g) == g = [k \in 0..n |->
                             IF k = 0 THEN {c} \ members_parsed ELSE g[k - 1] \cup More(g[k - 1])]
           reach == CHOOSE g : Reach(g)
<1>7. Reach(reach)
  <2>1. Reach(f)
    BY <1>5, <1>6
  <2> HIDE DEF Reach
  <2> QED BY <2>1
<1>8. \A k \in 0..n : reach[k] = IF k = 0 THEN {c} \ members_parsed
                                 ELSE reach[k - 1] \cup More(reach[k - 1])
  BY <1>7
<1>9. ParsedWith(c) = reach[n]
  BY DEF ParsedWith, ParsedWithin, n
<1> HIDE DEF reach
<1> DEFINE G == {k \in 0..n : reach[k] \in V}
<1>10. \A k \in 0..n : (Before(n)[k] \in 0..n => Before(n)[k] \in G) => k \in G
  <2> SUFFICES ASSUME NEW k \in 0..n, Before(n)[k] \in 0..n => Before(n)[k] \in G
               PROVE  reach[k] \in V
    OBVIOUS
  <2>1. CASE k = 0
    <3>1. reach[k] = {c} \ members_parsed
      BY <1>8, <2>1
    <3> QED BY <3>1
  <2>2. CASE k # 0
    <3>1. Before(n)[k] = k - 1 /\ k - 1 \in 0..n
      BY <1>1, <2>2 DEF Before
    <3>2. reach[k - 1] \in V
      BY <3>1
    <3> QED BY <1>8, <2>2, <3>2
  <2> QED BY <2>1, <2>2
<1> HIDE DEF G
<1>11. G \in SUBSET (0..n)
  BY DEF G
<1>12. G = I
  <2>1. WellFounded(I, before)
    BY <1>1, Counting
  <2>2. G \in SUBSET I /\ \A k \in I : (before[k] \in I => before[k] \in G) => k \in G
    BY <1>10, <1>11
  <2> HIDE DEF I, before
  <2> QED BY <2>1, <2>2, Induction
<1>13. n \in 0..n
  BY <1>1
<1> QED BY <1>9, <1>12, <1>13 DEF G

-------------------------------------------------------------------------------
(* The files.                                                              *)

FileType == [classes : Seq(Classes), declaration_count : Nat]

Contents(files) == UNION {Range(files[k].classes) : k \in DOMAIN files}

LEMMA ContentsOfAppend ==
  ASSUME NEW files \in Seq(FileType), NEW file \in FileType
  PROVE  /\ Append(files, file) \in Seq(FileType) /\ Append(files, file) # <<>>
         /\ Contents(Append(files, file)) = Contents(files) \cup Range(file.classes)
<1> DEFINE t == Append(files, file)
<1>1. /\ t \in Seq(FileType) /\ Len(t) = Len(files) + 1
      /\ DOMAIN t = DOMAIN files \cup {Len(files) + 1}
      /\ \A k \in DOMAIN files : t[k] = files[k]
      /\ t[Len(files) + 1] = file
      /\ Len(files) + 1 \notin DOMAIN files
  BY AppendProperties, LenProperties
<1>2. t # <<>>
  BY <1>1, LenProperties, EmptySeq
<1> HIDE DEF t
<1>3. Contents(t) = Contents(files) \cup Range(file.classes)
  BY <1>1 DEF Contents
<1> QED BY <1>1, <1>2, <1>3 DEF t

LEMMA FrontAndLast ==
  ASSUME NEW T, NEW s \in Seq(T), s # <<>>
  PROVE  Front(s) \in Seq(T) /\ Last(s) \in T /\ s = Append(Front(s), Last(s))
<1> DEFINE n == Len(s) - 1
<1>1. Len(s) \in Nat \ {0} /\ n \in Nat /\ Len(s) = n + 1
  BY EmptySeq
<1>2. \A i \in 1..Len(s) : s[i] \in T
  BY ElementOfSeq
<1>3. Last(s) = s[n + 1] /\ Last(s) \in T
  BY <1>1, <1>2 DEF Last
<1>4. Front(s) = SubSeq(s, 1, n)
  BY DEF Front
<1> HIDE DEF n
<1>5. n >= 1 => n - 1 + 1 = n
  BY <1>1
<1>6. /\ Front(s) \in Seq(T) /\ Len(Front(s)) = n
      /\ \A i \in 1..n : Front(s)[i] = s[i]
  BY <1>1, <1>2, <1>4, SubSeqProperties
<1> DEFINE t == Append(Front(s), Last(s))
<1>7. /\ t \in Seq(T) /\ Len(t) = n + 1
      /\ \A i \in 1..n : t[i] = Front(s)[i]
      /\ t[n + 1] = Last(s)
  BY <1>3, <1>6, AppendProperties
<1> HIDE DEF t
<1>8. \A i \in 1..Len(s) : s[i] = t[i]
  BY <1>1, <1>3, <1>6, <1>7
<1>9. s = t
  BY <1>1, <1>7, <1>8, SeqEqual
<1> QED BY <1>3, <1>6, <1>9 DEF t

LEMMA AddClassType ==
  ASSUME code \in Programs, NEW file \in FileType, NEW c \in Classes
  PROVE  /\ AddClass(file, c) \in FileType
         /\ Range(AddClass(file, c).classes) = Range(file.classes) \cup {c}
<1>1. /\ file.classes \in Seq(Classes) /\ file.declaration_count \in Nat
      /\ file.declaration_count + code.cost[c] \in Nat
  BY Bases DEF FileType, Program
<1>2. /\ Append(file.classes, c) \in Seq(Classes)
      /\ Range(Append(file.classes, c)) = Range(file.classes) \cup {c}
  BY <1>1, RangeOfAppend
<1>3. AddClass(file, c) = [classes |-> Append(file.classes, c),
                           declaration_count |-> file.declaration_count + code.cost[c]]
  BY DEF AddClass, BindingFile
<1> QED BY <1>1, <1>2, <1>3 DEF FileType

\* A class that is written is in the files, and nothing else is that was not.
LEMMA WriteFacts ==
  ASSUME code \in Programs, binding_files \in Seq(FileType), binding_files # <<>>,
         NEW c \in Classes, Write(c)
  PROVE  /\ binding_files' \in Seq(FileType) /\ binding_files' # <<>>
         /\ AlreadyWrapped' = AlreadyWrapped \cup {c}
<1>1. AlreadyWrapped = Contents(binding_files) /\ AlreadyWrapped' = Contents(binding_files')
  BY DEF AlreadyWrapped, Contents
<1>2. PICK front, last :
        /\ front = Front(binding_files) /\ last = CurrentFile
        /\ front \in Seq(FileType) /\ last \in FileType
        /\ binding_files = Append(front, last)
  BY FrontAndLast DEF CurrentFile
<1>3. Contents(binding_files) = Contents(front) \cup Range(last.classes)
  BY <1>2, ContentsOfAppend
<1>4. CASE CanHold(c)
  <2>1. binding_files' = Append(front, AddClass(last, c))
    BY <1>2, <1>4 DEF Write
  <2>2. /\ AddClass(last, c) \in FileType
        /\ Range(AddClass(last, c).classes) = Range(last.classes) \cup {c}
    BY <1>2, AddClassType
  <2>3. /\ binding_files' \in Seq(FileType) /\ binding_files' # <<>>
        /\ Contents(binding_files') = Contents(front) \cup Range(AddClass(last, c).classes)
    BY <1>2, <2>1, <2>2, ContentsOfAppend
  <2> QED BY <1>1, <1>3, <2>2, <2>3
<1>5. CASE ~CanHold(c)
  <2> DEFINE empty == BindingFile(<<>>, 0)
  <2>1. binding_files' = Append(binding_files, AddClass(empty, c))
    BY <1>5 DEF Write
  <2>2. empty \in FileType /\ empty.classes = <<>>
    BY DEF BindingFile, FileType
  <2>3. Range(<<>>) = {}
    BY DEF Range
  <2> HIDE DEF empty
  <2>4. AddClass(empty, c) \in FileType /\ Range(AddClass(empty, c).classes) = {c}
    BY <2>2, <2>3, AddClassType
  <2>5. /\ binding_files' \in Seq(FileType) /\ binding_files' # <<>>
        /\ Contents(binding_files') = Contents(binding_files) \cup Range(AddClass(empty, c).classes)
    BY <2>1, <2>4, ContentsOfAppend
  <2> QED BY <1>1, <2>4, <2>5
<1> QED BY <1>4, <1>5

-------------------------------------------------------------------------------
(* Typing.                                                                 *)

Typed == TypeOK /\ code \in Programs

LEMMA TypeInit == Init => Typed
<1> SUFFICES ASSUME Init PROVE Typed
  OBVIOUS
<1>1. code \in Program
  BY Bases DEF Init
<1>2. BindingFile(<<>>, 0) \in FileType
  BY DEF BindingFile, FileType
<1>3. binding_files = <<BindingFile(<<>>, 0)>>
  BY DEF Init, BindingFile
<1>4. binding_files \in Seq(FileType) /\ binding_files # <<>>
  BY <1>2, <1>3
<1>5. DOMAIN found_method = {}
  BY DEF Init
<1>6. /\ wrapped_classes \in Seq([class : Classes, generated : BOOLEAN])
      /\ to_write \in Seq([class : Classes, generated : BOOLEAN])
  <2>1. wrapped_classes = <<>> /\ to_write = <<>>
    BY DEF Init
  <2> QED BY <2>1, EmptySeq
<1>7. accessed \in [Classes -> Classes \cup {NoClass}]
  BY DEF Init
<1>8. /\ phase = "matching" /\ matched = {} /\ no_constructors = {} /\ position = 1
      /\ members_parsed = {} /\ errors = FALSE /\ found_match = FALSE /\ code \in Programs
  BY DEF Init
<1>9. binding_files \in Seq([classes : Seq(Classes), declaration_count : Nat])
  BY <1>4 DEF FileType
<1>10. /\ DOMAIN found_method \subseteq Classes
       /\ \A c \in DOMAIN found_method : found_method[c] \in FoundMethods
  BY <1>5
<1>11. /\ phase \in {"matching", "parsing", "failed", "writing", "done"}
       /\ matched \subseteq Classes /\ no_constructors \subseteq Classes
       /\ position \in Nat \ {0} /\ members_parsed \subseteq Classes
  BY <1>8
<1>12. errors \in BOOLEAN /\ found_match \in BOOLEAN
  BY <1>8
<1> QED BY <1>1, <1>4, <1>6, <1>7, <1>8, <1>9, <1>10, <1>11, <1>12 DEF Typed, TypeOK

\* Entering a class changes three variables.
LEMMA InsertType ==
  ASSUME Typed, NEW c \in Classes, NEW method \in FoundMethods, Insert(c, method)
  PROVE  /\ wrapped_classes' \in Seq(EntryType)
         /\ Range(wrapped_classes') = Range(wrapped_classes) \cup Range(Missing[c])
         /\ DOMAIN found_method' = DOMAIN found_method \cup Range(Line[c])
         /\ DOMAIN found_method' \subseteq Classes
         /\ found_method' = [d \in DOMAIN found_method \cup Range(Line[c]) |->
                                IF d = c THEN method
                                ELSE IF d \in Promoted(c, method) THEN "base_class"
                                ELSE IF Seen(d) THEN found_method[d] ELSE "unspecified"]
         /\ \A d \in DOMAIN found_method' : found_method'[d] \in FoundMethods
         /\ no_constructors' \subseteq Classes
<1>1. wrapped_classes \in Seq(EntryType) /\ Missing[c] \in Seq(EntryType)
  BY MissingType DEF Typed, TypeOK, EntryType
<1>2. wrapped_classes' = wrapped_classes \o Missing[c]
  BY DEF Insert
<1>3. found_method' = [d \in DOMAIN found_method \cup Range(Line[c]) |->
                                IF d = c THEN method
                                ELSE IF d \in Promoted(c, method) THEN "base_class"
                                ELSE IF Seen(d) THEN found_method[d] ELSE "unspecified"]
  BY DEF Insert
<1>4. DOMAIN found_method' \subseteq Classes
  BY <1>3, LineFacts DEF Typed, TypeOK
<1>5. \A d \in DOMAIN found_method' : found_method'[d] \in FoundMethods
  BY <1>3 DEF Typed, TypeOK, FoundMethods, Seen
<1>6. Promoted(c, method) \subseteq Classes
  BY AncestorFacts DEF Promoted, Typed
<1>7. no_constructors' \subseteq Classes
  BY <1>6 DEF Insert, Typed, TypeOK
<1>8. /\ wrapped_classes' \in Seq(EntryType)
      /\ Range(wrapped_classes') = Range(wrapped_classes) \cup Range(Missing[c])
  BY <1>1, <1>2, RangeOfConcat
<1> QED BY <1>3, <1>4, <1>5, <1>7, <1>8

\* A turn of the loop over the classes that were entered.
LEMMA ParseFacts ==
  ASSUME Typed, Parse
  PROVE  /\ wrapped_classes[position] \in EntryType
         /\ to_write' = IF ShouldBeParsed(wrapped_classes[position])
                        THEN Append(to_write, wrapped_classes[position]) ELSE to_write
         /\ to_write' \in Seq(EntryType) /\ Range(to_write) \subseteq Range(to_write')
         /\ DOMAIN found_method' = DOMAIN found_method
         /\ \A d \in DOMAIN found_method :
              found_method'[d] = found_method[d] \/ found_method'[d] = "pimpl"
         /\ members_parsed' \subseteq Classes
         /\ accessed' \in [Classes -> Classes \cup {NoClass}]
         /\ errors' \in BOOLEAN
<1> DEFINE entry == wrapped_classes[position]
<1>1. entry \in EntryType
  <2>1. wrapped_classes \in Seq(EntryType) /\ position \in 1..Len(wrapped_classes)
    BY DEF Typed, TypeOK, EntryType, Parse
  <2> QED BY <2>1, ElementOfSeq
<1>2. to_write' = IF ShouldBeParsed(entry) THEN Append(to_write, entry) ELSE to_write
  BY DEF Parse, parseVars
<1>3. to_write \in Seq(EntryType)
  BY DEF Typed, TypeOK, EntryType
<1>4. to_write' \in Seq(EntryType) /\ Range(to_write) \subseteq Range(to_write')
  BY <1>1, <1>2, <1>3, RangeOfAppend
<1>5. CASE ShouldBeParsed(entry) /\ ~entry.generated
  <2> DEFINE c == entry.class
             now == ParsedWith(c)
             pimpls == {code.pimpl[u] : u \in now}
  <2>1. ParseMembers(c)
    BY <1>5 DEF Parse
  <2>2. c \in Classes
    BY <1>1 DEF EntryType
  <2>3. now \in SUBSET Classes
    BY <2>2, ParsedType DEF Typed, TypeOK
  <2> HIDE DEF c
  <2>4. members_parsed' = members_parsed \cup now
    BY <2>1 DEF ParseMembers
  <2>5. found_method' = [d \in DOMAIN found_method |->
                           IF d \in pimpls THEN "pimpl" ELSE found_method[d]]
    BY <2>1 DEF ParseMembers
  <2>6. accessed' = [d \in Classes |-> IF d \in pimpls THEN CHOOSE u \in now : code.pimpl[u] = d
                                       ELSE accessed[d]]
    BY <2>1 DEF ParseMembers
  <2>7. errors' = (errors \/ PimplErrors(c))
    BY <2>1 DEF ParseMembers
  <2>8. errors' \in BOOLEAN
    <3>1. errors \in BOOLEAN
      BY DEF Typed, TypeOK
    <3> HIDE DEF now
    <3> QED BY <2>7, <3>1
  <2> HIDE DEF now
  <2>9. ASSUME NEW d \in Classes, d \in pimpls
        PROVE  (CHOOSE u \in now : code.pimpl[u] = d) \in Classes
    <3>1. \E u \in now : code.pimpl[u] = d
      BY <2>9
    <3> QED BY <2>3, <3>1
  <2> HIDE DEF pimpls
  <2>10. accessed \in [Classes -> Classes \cup {NoClass}]
    BY DEF Typed, TypeOK
  <2>11. accessed' \in [Classes -> Classes \cup {NoClass}]
    BY <2>6, <2>9, <2>10
  <2>12. members_parsed' \subseteq Classes
    BY <2>3, <2>4 DEF Typed, TypeOK
  <2>13. /\ DOMAIN found_method' = DOMAIN found_method
         /\ \A d \in DOMAIN found_method :
              found_method'[d] = found_method[d] \/ found_method'[d] = "pimpl"
    BY <2>5
  <2> HIDE DEF entry
  <2> QED BY <1>1, <1>2, <1>4, <2>8, <2>11, <2>12, <2>13 DEF entry
<1>6. CASE ~(ShouldBeParsed(entry) /\ ~entry.generated)
  <2>1. UNCHANGED <<found_method, members_parsed, accessed, errors>>
    BY <1>6 DEF Parse, parseVars
  <2> HIDE DEF entry
  <2> QED BY <1>1, <1>2, <1>4, <2>1 DEF Typed, TypeOK, entry
<1> QED BY <1>5, <1>6

\* How a class is entered by the matchers.
Method(c) == IF c \in code.tracked THEN "inheritance" ELSE "unspecified"

\* Write, or leave the class to a later pass.
LEMMA VisitFacts ==
  ASSUME Typed, Visit
  PROVE  /\ to_write[position] \in EntryType /\ position \in DOMAIN to_write
         /\ binding_files' \in Seq(FileType) /\ binding_files' # <<>>
         /\ found_match' \in BOOLEAN
         /\ \/ /\ ~to_write[position].generated /\ ReadyForWrapping(to_write[position].class)
               /\ AlreadyWrapped' = AlreadyWrapped \cup {to_write[position].class}
               /\ found_match' = TRUE
            \/ /\ ~(~to_write[position].generated /\ ReadyForWrapping(to_write[position].class))
               /\ UNCHANGED <<found_match, binding_files>> /\ AlreadyWrapped' = AlreadyWrapped
<1> DEFINE entry == to_write[position]
<1>1. position \in DOMAIN to_write /\ entry \in EntryType
  <2>1. to_write \in Seq(EntryType) /\ position \in 1..Len(to_write)
    BY DEF Typed, TypeOK, EntryType, Visit
  <2> QED BY <2>1, ElementOfSeq, LenProperties
<1>2. binding_files \in Seq(FileType) /\ binding_files # <<>> /\ found_match \in BOOLEAN
  BY DEF Typed, TypeOK, FileType
<1>3. CASE ~entry.generated /\ ReadyForWrapping(entry.class)
  <2>1. Write(entry.class) /\ found_match' = TRUE
    BY <1>3 DEF Visit
  <2>2. entry.class \in Classes
    BY <1>1 DEF EntryType
  <2> DEFINE c == entry.class
  <2>3. /\ binding_files' \in Seq(FileType) /\ binding_files' # <<>>
        /\ AlreadyWrapped' = AlreadyWrapped \cup {entry.class}
    BY <1>2, <2>1, <2>2, WriteFacts DEF Typed
  <2> HIDE DEF entry
  <2> QED BY <1>1, <1>3, <2>1, <2>3 DEF entry
<1>4. CASE ~(~entry.generated /\ ReadyForWrapping(entry.class))
  <2>1. UNCHANGED <<found_match, binding_files>>
    BY <1>4 DEF Visit, writeVars
  <2>2. AlreadyWrapped' = AlreadyWrapped
    BY <2>1 DEF AlreadyWrapped
  <2> HIDE DEF entry
  <2> QED BY <1>1, <1>2, <1>4, <2>1, <2>2 DEF entry
<1> QED BY <1>3, <1>4

LEMMA TypeStep == Typed /\ [Next]_vars => Typed'
<1> SUFFICES ASSUME Typed, [Next]_vars PROVE Typed'
  OBVIOUS
<1> USE DEF Typed, TypeOK
<1>1. ASSUME NEW c \in Classes, Match(c) PROVE Typed'
  <2>1. CASE Insert(c, Method(c))
    <3>1. Method(c) \in FoundMethods
      BY DEF Method, FoundMethods
    <3>2. /\ wrapped_classes' \in Seq(EntryType) /\ DOMAIN found_method' \subseteq Classes
          /\ \A d \in DOMAIN found_method' : found_method'[d] \in FoundMethods
          /\ no_constructors' \subseteq Classes
      BY <2>1, <3>1, InsertType
    <3> QED BY <1>1, <3>2 DEF Match, parseVars, writeVars, EntryType
  <2>2. CASE UNCHANGED <<wrapped_classes, found_method, no_constructors>>
    BY <1>1, <2>2 DEF Match, parseVars, writeVars
  <2> QED BY <1>1, <2>1, <2>2 DEF Match, Method
<1>2. ASSUME EndMatching PROVE Typed'
  BY <1>2 DEF EndMatching, matchVars, parseVars, writeVars
<1>3. ASSUME Parse PROVE Typed'
  <2>1. /\ to_write' \in Seq([class : Classes, generated : BOOLEAN])
        /\ DOMAIN found_method' = DOMAIN found_method
        /\ \A d \in DOMAIN found_method : found_method'[d] \in FoundMethods
        /\ members_parsed' \subseteq Classes
        /\ accessed' \in [Classes -> Classes \cup {NoClass}]
        /\ errors' \in BOOLEAN
    BY <1>3, ParseFacts DEF FoundMethods, EntryType
  <2>2. position' = position + 1 /\ UNCHANGED <<code, phase, matchVars, writeVars>>
    BY <1>3 DEF Parse
  <2> QED BY <2>1, <2>2 DEF matchVars, writeVars
<1>4. ASSUME EndParsing PROVE Typed'
  BY <1>4 DEF EndParsing, matchVars, parseVars, writeVars
<1>5. ASSUME Visit PROVE Typed'
  <2>1. /\ binding_files' \in Seq([classes : Seq(Classes), declaration_count : Nat])
        /\ binding_files' # <<>> /\ found_match' \in BOOLEAN
    BY <1>5, VisitFacts DEF FileType
  <2>2. position' = position + 1 /\ UNCHANGED <<code, phase, found_method, matchVars, parseVars>>
    BY <1>5 DEF Visit
  <2> QED BY <2>1, <2>2 DEF matchVars, parseVars
<1>6. ASSUME NextPass PROVE Typed'
  <2>1. phase' \in {"writing", "done"} /\ position' = 1 /\ found_match' = FALSE
    BY <1>6 DEF NextPass
  <2>2. UNCHANGED <<code, found_method, matchVars, parseVars, binding_files>>
    BY <1>6 DEF NextPass
  <2>3. found_match' \in BOOLEAN
    BY <2>1
  <2> QED BY <2>1, <2>2, <2>3 DEF matchVars, parseVars
<1>7. CASE UNCHANGED vars
  BY <1>7 DEF vars, matchVars, parseVars, writeVars
<1> QED BY <1>1, <1>2, <1>3, <1>4, <1>5, <1>6, <1>7 DEF Next

\* Every variable has its type, for any classes, programs and limit.
THEOREM Typing == Spec => []TypeOK
<1>1. Typed => TypeOK
  BY DEF Typed
<1> QED BY <1>1, TypeInit, TypeStep, PTL DEF Spec

-------------------------------------------------------------------------------
(* What has been entered.                                                  *)

\* The list has what has a found_method, and nothing else; a base class is there
\* before what derives from it.
Entered ==
  /\ BasesSeen
  /\ \A c \in DOMAIN found_method : Entry(c, FALSE) \in Range(wrapped_classes)
  /\ \A e \in Range(wrapped_classes) : e.class \in DOMAIN found_method

EnteredInv == Typed /\ Entered /\ BasesAreWrapped

LEMMA InsertEntered ==
  ASSUME EnteredInv, NEW c \in Classes, ~Seen(c), code' = code, Insert(c, Method(c))
  PROVE  Entered' /\ BasesAreWrapped'
<1> DEFINE m == Method(c)
<1>1. m \in FoundMethods /\ m \in {"inheritance", "unspecified"}
  BY DEF Method, FoundMethods
<1> HIDE DEF m
<1>2. /\ Range(wrapped_classes') = Range(wrapped_classes) \cup Range(Missing[c])
      /\ DOMAIN found_method' = DOMAIN found_method \cup Range(Line[c])
      /\ found_method' = [d \in DOMAIN found_method \cup Range(Line[c]) |->
                             IF d = c THEN m
                             ELSE IF d \in Promoted(c, m) THEN "base_class"
                             ELSE IF Seen(d) THEN found_method[d] ELSE "unspecified"]
  BY <1>1, InsertType DEF EnteredInv, m
<1>3. code \in Programs /\ DOMAIN found_method \subseteq Classes /\ BasesSeen
  BY DEF EnteredInv, Typed, TypeOK, Entered
<1>4. \A d : BaseTypes(d)' = BaseTypes(d)
  BY DEF BaseTypes
<1>5. BasesSeen'
  BY <1>2, <1>3, <1>4, LineFacts DEF BasesSeen
<1>6. ASSUME NEW d \in DOMAIN found_method' PROVE Entry(d, FALSE) \in Range(wrapped_classes')
  <2>1. CASE Seen(d)
    BY <1>2, <2>1 DEF EnteredInv, Entered, Seen
  <2>2. CASE ~Seen(d)
    <3>1. d \in Range(Line[c])
      BY <1>2, <2>2 DEF Seen
    <3> QED BY <1>2, <1>3, <2>2, <3>1, MissingIsAll
  <2> QED BY <2>1, <2>2
<1>7. ASSUME NEW e \in Range(wrapped_classes') PROVE e.class \in DOMAIN found_method'
  <2>1. e \in Range(wrapped_classes) \/ e \in Range(Missing[c])
    BY <1>2
  <2>2. e \in Range(Missing[c]) => e.class \in Range(Line[c])
    BY <1>3, MissingType
  <2>3. e \in Range(wrapped_classes) => e.class \in DOMAIN found_method
    BY DEF EnteredInv, Entered
  <2> QED BY <1>2, <2>1, <2>2, <2>3
<1>8. \A d \in DOMAIN found_method' : Entry(d, FALSE)' = Entry(d, FALSE)
  BY DEF Entry
<1>9. Entered'
  BY <1>5, <1>6, <1>7, <1>8 DEF Entered
<1>10. ASSUME NEW d \in DOMAIN found_method', ShouldBeWrapped(d)', NEW b \in BaseTypes(d)
       PROVE  b \in DOMAIN found_method' /\ (ShouldBeWrapped(b)' \/ found_method'[b] = "pimpl")
  <2>1. b \in DOMAIN found_method'
    BY <1>4, <1>5 DEF BasesSeen
  <2>2. ASSUME d \in {c} \cup Promoted(c, m), m # "unspecified" PROVE ShouldBeWrapped(b)'
    <3>1. Promoted(c, m) = Ancestors(c)
      BY <2>2 DEF Promoted
    <3>2. b \in Ancestors(c) /\ b # c
      BY <1>3, <2>2, <3>1, AncestorFacts
    <3>3. found_method'[b] = "base_class"
      BY <1>2, <2>1, <3>1, <3>2
    <3> QED BY <3>3 DEF ShouldBeWrapped
  <2>3. CASE m # "unspecified" /\ d \in {c} \cup Promoted(c, m)
    BY <2>1, <2>2, <2>3
  <2>4. CASE ~(m # "unspecified" /\ d \in {c} \cup Promoted(c, m))
    <3>1. d # c /\ d \notin Promoted(c, m)
      <4>1. CASE m = "unspecified"
        <5>1. Promoted(c, m) = {}
          BY <4>1 DEF Promoted
        <5>2. d = c => ~ShouldBeWrapped(d)'
          BY <1>2, <4>1 DEF ShouldBeWrapped
        <5> QED BY <1>10, <5>1, <5>2
      <4> QED BY <2>4, <4>1
    <3>2. Seen(d) /\ found_method'[d] = found_method[d]
      BY <1>2, <1>10, <3>1 DEF ShouldBeWrapped
    <3>3. ShouldBeWrapped(d)
      BY <1>10, <3>2 DEF ShouldBeWrapped
    <3>4. Seen(b) /\ (ShouldBeWrapped(b) \/ found_method[b] = "pimpl")
      BY <3>2, <3>3 DEF EnteredInv, BasesAreWrapped, Seen
    <3>5. b # c
      BY <3>4
    <3>6. found_method'[b] = "base_class" \/ found_method'[b] = found_method[b]
      BY <1>2, <2>1, <3>4, <3>5
    <3> QED BY <2>1, <3>4, <3>6 DEF ShouldBeWrapped
  <2> QED BY <2>3, <2>4
<1>11. BasesAreWrapped'
  BY <1>4, <1>10 DEF BasesAreWrapped, Seen
<1> QED BY <1>9, <1>11

\* Parsing makes classes FOUND_PIMPL and changes nothing else.
LEMMA PimplKeeps ==
  ASSUME EnteredInv, code' = code, wrapped_classes' = wrapped_classes,
         DOMAIN found_method' = DOMAIN found_method,
         \A d \in DOMAIN found_method :
           found_method'[d] = found_method[d] \/ found_method'[d] = "pimpl"
  PROVE  /\ Entered' /\ BasesAreWrapped'
         /\ \A d \in DOMAIN found_method : ShouldBeWrapped(d)' => ShouldBeWrapped(d)
<1>1. \A d : BaseTypes(d)' = BaseTypes(d) /\ Entry(d, FALSE)' = Entry(d, FALSE)
  BY DEF BaseTypes, Entry
<1>2. Entered'
  BY <1>1 DEF EnteredInv, Entered, BasesSeen
<1>3. ASSUME NEW d \in DOMAIN found_method, ShouldBeWrapped(d)'
      PROVE  ShouldBeWrapped(d) /\ found_method'[d] = found_method[d]
  BY <1>3 DEF ShouldBeWrapped
<1>4. ASSUME NEW d \in DOMAIN found_method, ShouldBeWrapped(d)', NEW b \in BaseTypes(d)
      PROVE  b \in DOMAIN found_method /\ (ShouldBeWrapped(b)' \/ found_method'[b] = "pimpl")
  <2>1. Seen(b) /\ (ShouldBeWrapped(b) \/ found_method[b] = "pimpl")
    BY <1>3, <1>4 DEF EnteredInv, BasesAreWrapped
  <2>2. found_method'[b] = found_method[b] \/ found_method'[b] = "pimpl"
    BY <2>1 DEF Seen
  <2> QED BY <2>1, <2>2 DEF ShouldBeWrapped, Seen
<1>5. BasesAreWrapped'
  BY <1>1, <1>4 DEF BasesAreWrapped, Seen
<1> QED BY <1>2, <1>3, <1>5

LEMMA EnteredInit == Init => EnteredInv
<1> SUFFICES ASSUME Init PROVE EnteredInv
  OBVIOUS
<1>1. DOMAIN found_method = {} /\ Range(wrapped_classes) = {}
  BY DEF Init, Range
<1>2. BasesSeen
  BY <1>1 DEF BasesSeen
<1>3. BasesAreWrapped
  BY <1>1 DEF BasesAreWrapped
<1>4. Entered
  BY <1>1, <1>2 DEF Entered
<1> QED BY <1>3, <1>4, TypeInit DEF EnteredInv

LEMMA EnteredSame ==
  ASSUME EnteredInv, code' = code, UNCHANGED <<wrapped_classes, found_method>>
  PROVE  Entered' /\ BasesAreWrapped'
BY PimplKeeps

LEMMA EnteredStep == EnteredInv /\ [Next]_vars => EnteredInv'
<1> SUFFICES ASSUME EnteredInv, [Next]_vars PROVE Entered' /\ BasesAreWrapped'
  BY TypeStep DEF EnteredInv
<1>1. ASSUME NEW c \in Classes, Match(c) PROVE Entered' /\ BasesAreWrapped'
  <2>1. code' = code
    BY <1>1 DEF Match
  <2>2. CASE ~Seen(c) /\ Insert(c, Method(c))
    BY <2>1, <2>2, InsertEntered
  <2>3. CASE UNCHANGED <<wrapped_classes, found_method, no_constructors>>
    BY <2>1, <2>3, EnteredSame
  <2> QED BY <1>1, <2>2, <2>3 DEF Match, Method
<1>2. ASSUME Parse PROVE Entered' /\ BasesAreWrapped'
  <2>1. code' = code /\ wrapped_classes' = wrapped_classes
    BY <1>2 DEF Parse, matchVars
  <2>2. /\ DOMAIN found_method' = DOMAIN found_method
        /\ \A d \in DOMAIN found_method :
             found_method'[d] = found_method[d] \/ found_method'[d] = "pimpl"
    BY <1>2, ParseFacts DEF EnteredInv
  <2> QED BY <2>1, <2>2, PimplKeeps
<1>3. CASE EndMatching \/ EndParsing \/ Visit \/ NextPass \/ UNCHANGED vars
  <2>1. code' = code /\ UNCHANGED <<wrapped_classes, found_method>>
    BY <1>3 DEF EndMatching, EndParsing, Visit, NextPass, vars, matchVars
  <2> QED BY <2>1, EnteredSame
<1> QED BY <1>1, <1>2, <1>3 DEF Next

\* The base of a class to be wrapped is to be wrapped as well, for any program and any
\* order in which its classes are visited.
THEOREM BasesWrapped == Spec => []BasesAreWrapped
<1>1. EnteredInv => BasesAreWrapped
  BY DEF EnteredInv
<1> QED BY <1>1, EnteredInit, EnteredStep, PTL DEF Spec

-------------------------------------------------------------------------------
(* What is written.                                                        *)

Started == phase \in {"writing", "done"}

Wanted(entry) == ~entry.generated /\ ShouldBeWrapped(entry.class)

\* The loop over what was entered has put what is to be wrapped on the list ...
Parsed ==
  /\ phase = "matching" => position = 1 /\ to_write = <<>>
  /\ phase = "parsing" =>
       \A p \in DOMAIN wrapped_classes :
         p < position /\ Wanted(wrapped_classes[p]) => wrapped_classes[p] \in Range(to_write)

\* ... so that it is all there in the end.
Listed ==
  /\ \A e \in Range(to_write) : e.class \in DOMAIN found_method
  /\ Started => \A c \in DOMAIN found_method :
                  ShouldBeWrapped(c) => Entry(c, FALSE) \in Range(to_write)

\* What has been written was to be, and its base class was written before.
Written ==
  \A c \in AlreadyWrapped :
    Started /\ Seen(c) /\ ShouldBeWrapped(c) /\ BaseTypes(c) \subseteq AlreadyWrapped

Blocked(entry) == ~(~entry.generated /\ ReadyForWrapping(entry.class))

\* As long as a pass has written nothing, what it has seen is as it was seen; and the
\* last pass has seen everything.
PassedOver ==
  /\ phase = "writing" /\ ~found_match =>
       \A q \in DOMAIN to_write : q < position => Blocked(to_write[q])
  /\ phase = "done" => \A q \in DOMAIN to_write : Blocked(to_write[q])

OutputInv == EnteredInv /\ Parsed /\ Listed /\ Written /\ PassedOver

\* Everything down to the root of what is written is written.
LEMMA WrittenDown ==
  ASSUME OutputInv, NEW c \in AlreadyWrapped
  PROVE  c \in Classes /\ Range(Line[c]) \subseteq AlreadyWrapped
<1>1. c \in Classes /\ code \in Programs
  BY DEF OutputInv, Written, Seen, EnteredInv, Typed, TypeOK
<1>2. \A d \in AlreadyWrapped : BaseTypes(d) \subseteq AlreadyWrapped
  BY DEF OutputInv, Written
<1> QED BY <1>1, <1>2, LineInClosed

\* When nothing on the list is ready, what is to be written down to the root has been.
LEMMA NothingLeft ==
  ASSUME OutputInv, phase = "done", NEW c \in DOMAIN found_method,
         \A d \in Range(Line[c]) : Seen(d) /\ ShouldBeWrapped(d)
  PROVE  c \in AlreadyWrapped
<1> SUFFICES ASSUME c \notin AlreadyWrapped PROVE FALSE
  OBVIOUS
<1> DEFINE S == Range(Line[c]) \ AlreadyWrapped
<1>1. c \in Classes /\ code \in Programs
  BY DEF OutputInv, EnteredInv, Typed, TypeOK
<1>2. S \in SUBSET Classes /\ c \in S
  BY <1>1, LineFacts
<1>3. PICK d \in S : code.base[d] \notin S
  BY <1>1, <1>2, Bases DEF WellFounded
<1>4. d \in Classes /\ d \in Range(Line[c]) /\ d \notin AlreadyWrapped
  BY <1>2
<1>5. BaseTypes(d) \subseteq AlreadyWrapped
  BY <1>1, <1>3, <1>4, LineFacts, BaseIs
<1>6. ReadyForWrapping(d)
  BY <1>4, <1>5 DEF ReadyForWrapping
<1>7. Entry(d, FALSE) \in Range(to_write)
  BY <1>4 DEF OutputInv, Listed, Started, Seen
<1>8. PICK q \in DOMAIN to_write : to_write[q] = Entry(d, FALSE)
  BY <1>7 DEF Range
<1>9. Blocked(Entry(d, FALSE))
  BY <1>8 DEF OutputInv, PassedOver
<1> QED BY <1>6, <1>9 DEF Blocked, Entry

LEMMA OutputIs == OutputInv => OutputComplete
<1> SUFFICES ASSUME OutputInv, phase = "done"
             PROVE  AlreadyWrapped =
                      {c \in DOMAIN found_method :
                         \A d \in Range(Line[c]) : Seen(d) /\ ShouldBeWrapped(d)}
  BY DEF OutputComplete
<1>1. ASSUME NEW c \in AlreadyWrapped
      PROVE  c \in DOMAIN found_method /\ \A d \in Range(Line[c]) : Seen(d) /\ ShouldBeWrapped(d)
  <2>1. Range(Line[c]) \subseteq AlreadyWrapped
    BY <1>1, WrittenDown
  <2>2. \A d \in AlreadyWrapped : Seen(d) /\ ShouldBeWrapped(d)
    BY DEF OutputInv, Written
  <2> QED BY <1>1, <2>1, <2>2 DEF Seen
<1> QED BY <1>1, NothingLeft

LEMMA OutputInit == Init => OutputInv
<1> SUFFICES ASSUME Init PROVE OutputInv
  OBVIOUS
<1>1. phase = "matching" /\ position = 1 /\ to_write = <<>> /\ Range(to_write) = {}
  BY DEF Init, Range
<1>2. AlreadyWrapped = {}
  <2>1. binding_files = << [classes |-> <<>>, declaration_count |-> 0] >>
    BY DEF Init
  <2>2. DOMAIN binding_files = {1} /\ binding_files[1].classes = <<>>
    BY <2>1
  <2>3. Range(<<>>) = {}
    BY DEF Range
  <2> QED BY <2>2, <2>3 DEF AlreadyWrapped
<1>3. Parsed /\ Listed /\ PassedOver
  BY <1>1 DEF Parsed, Listed, Started, PassedOver
<1>4. Written
  BY <1>2 DEF Written
<1> QED BY <1>3, <1>4, EnteredInit DEF OutputInv

\* What stays as it is when the classes and the files do.
LEMMA SameClasses ==
  ASSUME UNCHANGED <<code, found_method>>
  PROVE  /\ \A e : Wanted(e)' = Wanted(e)
         /\ \A c : BaseTypes(c)' = BaseTypes(c) /\ ShouldBeWrapped(c)' = ShouldBeWrapped(c)
                  /\ Seen(c)' = Seen(c) /\ Entry(c, FALSE)' = Entry(c, FALSE)
BY DEF Wanted, BaseTypes, ShouldBeWrapped, Seen, Entry

LEMMA SameFiles ==
  ASSUME UNCHANGED <<code, found_method, binding_files>>
  PROVE  AlreadyWrapped' = AlreadyWrapped /\ \A e : Blocked(e)' = Blocked(e)
<1>1. AlreadyWrapped' = AlreadyWrapped
  BY DEF AlreadyWrapped
<1>2. \A c : ReadyForWrapping(c)' = ReadyForWrapping(c)
  BY <1>1, SameClasses DEF ReadyForWrapping
<1> QED BY <1>1, <1>2 DEF Blocked

LEMMA OutputStep == OutputInv /\ [Next]_vars => OutputInv'
<1> SUFFICES ASSUME OutputInv, [Next]_vars PROVE Parsed' /\ Listed' /\ Written' /\ PassedOver'
  BY EnteredStep DEF OutputInv
<1>0. EnteredInv /\ Typed /\ Parsed /\ Listed /\ Written /\ PassedOver
  BY DEF OutputInv, EnteredInv
<1>00. ~Started => AlreadyWrapped = {}
  BY <1>0 DEF Written
<1>1. ASSUME NEW c \in Classes, Match(c)
      PROVE  Parsed' /\ Listed' /\ Written' /\ PassedOver'
  <2>1. phase = "matching" /\ phase' = phase /\ UNCHANGED <<position, to_write, binding_files>>
    BY <1>1 DEF Match, parseVars, writeVars
  <2>2. to_write' = <<>> /\ position' = 1
    BY <1>0, <2>1 DEF Parsed
  <2>3. Range(to_write)' = {}
    BY <2>2 DEF Range
  <2>4. AlreadyWrapped' = {}
    BY <1>00, <2>1 DEF AlreadyWrapped, Started
  <2> QED BY <2>1, <2>2, <2>3, <2>4 DEF Parsed, Listed, Written, PassedOver, Started
<1>2. ASSUME EndMatching PROVE Parsed' /\ Listed' /\ Written' /\ PassedOver'
  <2>1. /\ phase = "matching" /\ phase' = "parsing"
        /\ UNCHANGED <<position, to_write, binding_files, wrapped_classes>>
    BY <1>2 DEF EndMatching, matchVars, parseVars, writeVars
  <2>2. to_write' = <<>> /\ position' = 1
    BY <1>0, <2>1 DEF Parsed
  <2>3. Range(to_write)' = {}
    BY <2>2 DEF Range
  <2>4. AlreadyWrapped' = {}
    BY <1>00, <2>1 DEF AlreadyWrapped, Started
  <2>5. \A p \in DOMAIN wrapped_classes : ~(p < 1)
    BY <1>0, LenProperties DEF Typed, TypeOK
  <2>6. Parsed'
    BY <2>1, <2>2, <2>5 DEF Parsed
  <2> QED BY <2>1, <2>3, <2>4, <2>6 DEF Listed, Written, PassedOver, Started
<1>3. ASSUME Parse PROVE Parsed' /\ Listed' /\ Written' /\ PassedOver'
  <2> DEFINE entry == wrapped_classes[position]
  <2>1. /\ phase = "parsing" /\ phase' = phase /\ position' = position + 1
        /\ code' = code /\ UNCHANGED <<binding_files, wrapped_classes>>
        /\ position \in DOMAIN wrapped_classes
    BY <1>0, <1>3, LenProperties DEF Parse, matchVars, writeVars, Typed, TypeOK
  <2>2. /\ entry \in EntryType
        /\ to_write' = IF ShouldBeParsed(entry) THEN Append(to_write, entry) ELSE to_write
        /\ Range(to_write) \subseteq Range(to_write')
        /\ DOMAIN found_method' = DOMAIN found_method
        /\ \A d \in DOMAIN found_method :
             found_method'[d] = found_method[d] \/ found_method'[d] = "pimpl"
    BY <1>0, <1>3, ParseFacts
  <2>3. to_write \in Seq(EntryType) /\ wrapped_classes \in Seq(EntryType)
    BY <1>0 DEF Typed, TypeOK, EntryType
  <2>4. \A d \in DOMAIN found_method : ShouldBeWrapped(d)' => ShouldBeWrapped(d)
    BY <1>0, <2>1, <2>2, PimplKeeps
  <2>5. ShouldBeParsed(entry) => Range(to_write') = Range(to_write) \cup {entry}
    BY <2>2, <2>3, RangeOfAppend
  <2>6. entry \in Range(wrapped_classes)
    BY <2>1 DEF Range
  <2>7. entry.class \in DOMAIN found_method
    BY <1>0, <2>6 DEF EnteredInv, Entered
  <2> HIDE DEF entry
  <2>8. \A e \in Range(to_write') : e.class \in DOMAIN found_method
    BY <1>0, <2>2, <2>5, <2>7 DEF Listed
  <2>9. ASSUME NEW p \in DOMAIN wrapped_classes, p < position + 1, Wanted(wrapped_classes[p])'
        PROVE  wrapped_classes[p] \in Range(to_write')
    <3>1. wrapped_classes[p] \in Range(wrapped_classes)
      BY DEF Range
    <3>2. wrapped_classes[p].class \in DOMAIN found_method
      BY <1>0, <3>1 DEF EnteredInv, Entered
    <3>3. Wanted(wrapped_classes[p])
      BY <2>1, <2>4, <2>9, <3>2 DEF Wanted
    <3>4. CASE p < position
      BY <1>0, <2>1, <2>2, <3>3, <3>4 DEF Parsed
    <3>5. CASE ~(p < position)
      <4>1. p = position
        BY <2>1, <2>3, <2>9, <3>5, LenProperties
      <4>2. wrapped_classes[p] = entry
        BY <4>1 DEF entry
      <4>3. ShouldBeParsed(entry)
        BY <3>3, <4>2 DEF Wanted, ShouldBeParsed
      <4> QED BY <2>5, <4>2, <4>3
    <3> QED BY <3>4, <3>5
  <2>10. Parsed'
    BY <2>1, <2>9 DEF Parsed
  <2>11. AlreadyWrapped' = {}
    BY <1>00, <2>1 DEF AlreadyWrapped, Started
  <2> QED BY <2>1, <2>2, <2>8, <2>10, <2>11 DEF Listed, Written, PassedOver, Started
<1>4. ASSUME EndParsing PROVE Parsed' /\ Listed' /\ Written' /\ PassedOver'
  <2>1. /\ phase = "parsing" /\ phase' \in {"failed", "writing"} /\ position' = 1
        /\ position > Len(wrapped_classes)
        /\ UNCHANGED <<code, found_method, to_write, binding_files>>
    BY <1>4 DEF EndParsing, parseVars, writeVars
  <2>2. wrapped_classes \in Seq(EntryType) /\ to_write \in Seq(EntryType)
        /\ position \in Nat
    BY <1>0 DEF Typed, TypeOK, EntryType
  <2>3. \A p \in DOMAIN wrapped_classes : p < position
    BY <2>1, <2>2, LenProperties
  <2>4. ASSUME NEW c \in DOMAIN found_method, ShouldBeWrapped(c)
        PROVE  Entry(c, FALSE) \in Range(to_write)
    <3>1. Entry(c, FALSE) \in Range(wrapped_classes)
      BY <1>0 DEF EnteredInv, Entered
    <3>2. PICK p \in DOMAIN wrapped_classes : wrapped_classes[p] = Entry(c, FALSE)
      BY <3>1 DEF Range
    <3>3. Wanted(wrapped_classes[p])
      BY <2>4, <3>2 DEF Wanted, Entry
    <3> QED BY <1>0, <2>1, <2>3, <3>2, <3>3 DEF Parsed
  <2>5. Listed'
    BY <1>0, <2>1, <2>4, SameClasses DEF Listed
  <2>6. AlreadyWrapped' = {}
    BY <1>00, <2>1 DEF AlreadyWrapped, Started
  <2>7. \A q \in DOMAIN to_write : ~(q < 1)
    BY <2>2, LenProperties
  <2>8. PassedOver'
    BY <2>1, <2>7 DEF PassedOver
  <2> QED BY <2>1, <2>5, <2>6, <2>8 DEF Parsed, Written
<1>5. ASSUME Visit PROVE Parsed' /\ Listed' /\ Written' /\ PassedOver'
  <2> DEFINE entry == to_write[position]
  <2>1. /\ phase = "writing" /\ phase' = phase /\ position' = position + 1
        /\ UNCHANGED <<code, found_method, to_write, wrapped_classes>>
    BY <1>5 DEF Visit, matchVars, parseVars
  <2>2. /\ entry \in EntryType /\ position \in DOMAIN to_write
        /\ \/ /\ ~entry.generated /\ ReadyForWrapping(entry.class)
              /\ AlreadyWrapped' = AlreadyWrapped \cup {entry.class}
              /\ found_match' = TRUE
           \/ /\ Blocked(entry)
              /\ UNCHANGED <<found_match, binding_files>> /\ AlreadyWrapped' = AlreadyWrapped
    BY <1>0, <1>5, VisitFacts DEF Blocked
  <2>3. entry \in Range(to_write)
    BY <2>2 DEF Range
  <2>4. entry.class \in DOMAIN found_method
    BY <1>0, <2>3 DEF Listed
  <2>5. \A q \in DOMAIN to_write : q < position + 1 => q < position \/ to_write[q] = entry
    <3>1. to_write \in Seq(EntryType)
      BY <1>0 DEF Typed, TypeOK, EntryType
    <3>2. \A q \in DOMAIN to_write : q < position + 1 => q < position \/ q = position
      BY <2>2, <3>1, LenProperties
    <3> QED BY <3>2
  <2> HIDE DEF entry
  <2>6. Listed'
    BY <1>0, <2>1, SameClasses DEF Listed, Started
  <2>7. Written'
    <3>1. \A c \in AlreadyWrapped' :
            Seen(c) /\ ShouldBeWrapped(c) /\ BaseTypes(c) \subseteq AlreadyWrapped'
      BY <1>0, <2>2, <2>4 DEF Written, ReadyForWrapping, Seen
    <3> QED BY <2>1, <3>1, SameClasses DEF Written, Started
  <2>8. PassedOver'
    <3>1. CASE found_match' = TRUE
      BY <2>1, <3>1 DEF PassedOver
    <3>2. CASE found_match' # TRUE
      <4>1. Blocked(entry) /\ UNCHANGED <<found_match, binding_files>>
        BY <2>2, <3>2
      <4>2. \A e : Blocked(e)' = Blocked(e)
        BY <2>1, <4>1, SameFiles
      <4>3. ~found_match' => \A q \in DOMAIN to_write : q < position + 1 => Blocked(to_write[q])
        BY <1>0, <2>1, <2>5, <4>1 DEF PassedOver
      <4> QED BY <2>1, <4>2, <4>3 DEF PassedOver
    <3> QED BY <3>1, <3>2
  <2> QED BY <2>1, <2>6, <2>7, <2>8 DEF Parsed
<1>6. ASSUME NextPass PROVE Parsed' /\ Listed' /\ Written' /\ PassedOver'
  <2>1. /\ phase = "writing" /\ phase' = (IF found_match THEN "writing" ELSE "done")
        /\ position' = 1 /\ position > Len(to_write)
        /\ UNCHANGED <<code, found_method, to_write, binding_files>>
    BY <1>6 DEF NextPass, parseVars
  <2>2. to_write \in Seq(EntryType) /\ position \in Nat
    BY <1>0 DEF Typed, TypeOK, EntryType
  <2>3. \A q \in DOMAIN to_write : q < position /\ ~(q < 1)
    BY <2>1, <2>2, LenProperties
  <2>4. AlreadyWrapped' = AlreadyWrapped /\ \A e : Blocked(e)' = Blocked(e)
    BY <2>1, SameFiles
  <2>5. Listed'
    BY <1>0, <2>1, SameClasses DEF Listed, Started
  <2>6. Written'
    BY <1>0, <2>1, <2>4, SameClasses DEF Written, Started
  <2>7. PassedOver'
    BY <1>0, <2>1, <2>3, <2>4 DEF PassedOver
  <2> QED BY <2>1, <2>5, <2>6, <2>7 DEF Parsed
<1>7. CASE UNCHANGED vars
  <2>1. UNCHANGED <<code, phase, found_method, position, wrapped_classes, to_write, found_match,
                    binding_files>>
    BY <1>7 DEF vars, matchVars, parseVars, writeVars
  <2>2. AlreadyWrapped' = AlreadyWrapped /\ \A e : Blocked(e)' = Blocked(e)
    BY <2>1, SameFiles
  <2>3. Written' /\ Listed'
    BY <1>0, <2>1, <2>2, SameClasses DEF Written, Listed, Started
  <2>4. Parsed' /\ PassedOver'
    BY <1>0, <2>1, <2>2, SameClasses DEF Parsed, PassedOver
  <2> QED BY <2>3, <2>4
<1> QED BY <1>1, <1>2, <1>3, <1>4, <1>5, <1>6, <1>7 DEF Next

\* Everything that is to be wrapped down to its root is written, and nothing else, for
\* any order of the list.
THEOREM Output == Spec => []OutputComplete
BY OutputInit, OutputStep, OutputIs, PTL DEF Spec

-------------------------------------------------------------------------------
(* Refinement of WrappingOrder.                                            *)

Parents == [c \in Classes |-> IF c \in AlreadyWrapped THEN BaseTypes(c) ELSE {}]

LEMMA OrderKept ==
  ASSUME UNCHANGED code, AlreadyWrapped' = AlreadyWrapped
  PROVE  UNCHANGED <<AlreadyWrapped, Parents>>
<1>1. \A c \in Classes : BaseTypes(c)' = BaseTypes(c)
  BY DEF BaseTypes
<1> QED BY <1>1 DEF Parents

LEMMA OrderStep ==
  OutputInv /\ [Next]_vars => [Order!Next]_<<AlreadyWrapped, Parents>>
<1> SUFFICES ASSUME OutputInv, [Next]_vars
             PROVE  [Order!Next]_<<AlreadyWrapped, Parents>>
  OBVIOUS
<1>1. CASE Visit
  <2> DEFINE entry == to_write[position]
             c == entry.class
             from == BaseTypes(c)
  <2>1. code' = code /\ Typed
    BY <1>1 DEF Visit, OutputInv, EnteredInv
  <2>2. /\ entry \in EntryType
        /\ \/ /\ ReadyForWrapping(c)
              /\ AlreadyWrapped' = AlreadyWrapped \cup {c}
           \/ AlreadyWrapped' = AlreadyWrapped
    BY <1>1, <2>1, VisitFacts
  <2>3. CASE AlreadyWrapped' = AlreadyWrapped
    BY <2>1, <2>3, OrderKept
  <2>4. CASE ReadyForWrapping(c) /\ AlreadyWrapped' = AlreadyWrapped \cup {c}
    <3>1. c \in Classes
      BY <2>2 DEF EntryType
    <3> HIDE DEF entry
    <3>2. c \notin AlreadyWrapped /\ from \subseteq AlreadyWrapped
      BY <2>4 DEF ReadyForWrapping
    <3>3. from \in SUBSET Classes
      <4>1. \A d \in AlreadyWrapped : d \in Classes
        BY <2>1 DEF OutputInv, Written, Seen, Typed, TypeOK
      <4> QED BY <3>2, <4>1
    <3>4. Parents' = [Parents EXCEPT ![c] = from]
      <4>1. \A d \in Classes : BaseTypes(d)' = BaseTypes(d)
        BY <2>1 DEF BaseTypes
      <4>2. \A d \in Classes : Parents'[d] = IF d = c THEN from ELSE Parents[d]
        BY <2>4, <4>1 DEF Parents
      <4> HIDE DEF from, c
      <4> QED BY <4>2 DEF Parents
    <3> HIDE DEF from, c
    <3>5. \E d \in Classes, bases \in SUBSET Classes :
            /\ d \notin AlreadyWrapped
            /\ bases \subseteq AlreadyWrapped
            /\ AlreadyWrapped' = AlreadyWrapped \cup {d}
            /\ Parents' = [Parents EXCEPT ![d] = bases]
      BY <2>4, <3>1, <3>2, <3>3, <3>4
    <3> QED BY <3>5 DEF Order!Next, Order!Wrap, Parents
  <2> QED BY <2>2, <2>3, <2>4
<1>2. CASE (\E c \in Classes : Match(c)) \/ EndMatching \/ Parse \/ EndParsing \/ NextPass
           \/ UNCHANGED vars
  <2>1. UNCHANGED <<code, binding_files>>
    BY <1>2 DEF Match, EndMatching, Parse, EndParsing, NextPass, vars, writeVars
  <2>2. AlreadyWrapped' = AlreadyWrapped
    BY <2>1 DEF AlreadyWrapped
  <2> QED BY <2>1, <2>2, OrderKept
<1> QED BY <1>1, <1>2 DEF Next

\* Classes are written in an order in which each finds its base class: the base class
\* of each is in the same file before it or in an earlier one.
THEOREM Refinement == Spec => OrderSpec
<1>1. Init => Order!Init
  <2> SUFFICES ASSUME Init PROVE Order!Init
    OBVIOUS
  <2>1. ~Started /\ Written
    BY OutputInit DEF OutputInv, Init, Started
  <2>2. AlreadyWrapped = {}
    BY <2>1 DEF Written
  <2> QED BY <2>2 DEF Order!Init
<1>2. OutputInv /\ [Next]_vars => [Order!Next]_(Order!vars)
  BY OrderStep DEF Order!vars, Parents
<1> QED BY <1>1, <1>2, OutputInit, OutputStep, PTL DEF Spec, OrderSpec, Order!Spec

-------------------------------------------------------------------------------
(* The end.                                                                *)

\* What a step of the plugin does, from the last phase back to the first: it ends;
\* writes another class; starts a pass, having written something in the last one; or
\* goes on to the next class of a pass, of the list to be parsed, or of those that are
\* to be visited.  None of these can go on for ever.
MovesOn ==
  \/ phase \in {"parsing", "writing"} /\ phase' \in {"failed", "done"}
  \/ /\ phase = "writing" /\ phase' = "writing" /\ to_write' = to_write
     /\ \/ AlreadyWrapped \subseteq AlreadyWrapped' /\ AlreadyWrapped' # AlreadyWrapped
        \/ AlreadyWrapped' = AlreadyWrapped /\ found_match /\ ~found_match'
        \/ /\ AlreadyWrapped' = AlreadyWrapped /\ found_match' = found_match
           /\ position <= Len(to_write) /\ position' = position + 1
  \/ phase = "parsing" /\ phase' = "writing"
  \/ /\ phase = "parsing" /\ phase' = "parsing" /\ wrapped_classes' = wrapped_classes
     /\ position <= Len(wrapped_classes) /\ position' = position + 1
  \/ phase = "matching" /\ phase' = "parsing"
  \/ phase = "matching" /\ phase' = "matching" /\ matched \subseteq matched' /\ matched' # matched

LEMMA MovesOnStep == Typed /\ [Next]_vars => [MovesOn]_vars
<1> SUFFICES ASSUME Typed, Next PROVE MovesOn
  OBVIOUS
<1>1. ASSUME NEW c \in Classes, Match(c) PROVE MovesOn
  BY <1>1 DEF Match, MayVisit, MovesOn
<1>2. CASE EndMatching \/ EndParsing
  BY <1>2 DEF EndMatching, EndParsing, MovesOn
<1>3. CASE Parse
  BY <1>3 DEF Parse, matchVars, MovesOn
<1>4. CASE Visit
  <2>1. /\ phase = "writing" /\ phase' = "writing" /\ to_write' = to_write
        /\ position <= Len(to_write) /\ position' = position + 1
    BY <1>4 DEF Visit, parseVars
  <2>2. \/ AlreadyWrapped \subseteq AlreadyWrapped' /\ AlreadyWrapped' # AlreadyWrapped
        \/ AlreadyWrapped' = AlreadyWrapped /\ found_match' = found_match
    BY <1>4, VisitFacts DEF ReadyForWrapping
  <2> QED BY <2>1, <2>2 DEF MovesOn
<1>5. CASE NextPass
  <2>1. CASE found_match
    <3>1. UNCHANGED <<binding_files, to_write>> /\ phase = "writing" /\ phase' = "writing"
          /\ ~found_match'
      BY <1>5, <2>1 DEF NextPass, parseVars
    <3>2. AlreadyWrapped' = AlreadyWrapped
      BY <3>1 DEF AlreadyWrapped
    <3> QED BY <2>1, <3>1, <3>2 DEF MovesOn
  <2>2. CASE ~found_match
    BY <1>5, <2>2 DEF NextPass, MovesOn
  <2> QED BY <2>1, <2>2
<1> QED BY <1>1, <1>2, <1>3, <1>4, <1>5 DEF Next

\* Every step brings the plugin closer to its end: no pass begins unless the one before
\* has written a class, and no class is written twice.
THEOREM Closer == Spec => [][MovesOn]_vars
BY TypeInit, TypeStep, MovesOnStep, PTL DEF Spec

===============================================================================
