-------------------------- MODULE IsolateLifetimeProofs --------------------------
(***************************************************************************)
(* What IsolateLifetime promises for any number of isolates, contexts,     *)
(* scripts and threads.  The invariant says of each shared_ptr count that  *)
(* it is the number of those who hold one: the application, the contexts   *)
(* and scripts made from it, jobs, and the destructors under way that are  *)
(* still to give one up.  And it says of each destructor in what order the *)
(* rest of it goes: a v8::Global before the shared_ptr that keeps its      *)
(* isolate, and what the isolate's address finds before the isolate.       *)
(***************************************************************************)
EXTENDS IsolateLifetime, FiniteSetTheorems, SequenceTheorems, TLAPS

USE LifetimeAssumption

-------------------------------------------------------------------------------
(* What is left to do.  An operation keeps its distance from the end of    *)
(* `pending', whatever is done before it.                                  *)

Resets == {Reset(g) : g \in Globals}
Unrefs == {Unref(e) : e \in Entities}
Cleanups == {Cleanup(i) : i \in Isolates}
Disposals == {Dispose(i) : i \in Isolates}
Ops == Resets \cup Unrefs \cup Cleanups \cup Disposals

ToDo(t, n, o) == n \in Nat /\ n < Len(pending[t]) /\ pending[t][Len(pending[t]) - n] = o

PendingType == pending \in [Threads -> Seq(Ops)]

LEMMA OpsType == Ops \subseteq [op : Operations, of : Globals]
BY DEF Ops, Resets, Unrefs, Cleanups, Disposals, Reset, Unref, Cleanup, Dispose,
       Operations, Globals, Entities

LEMMA OpsDiffer ==
  \A x, y : /\ Reset(x) = Reset(y) => x = y
            /\ Unref(x) = Unref(y) => x = y
            /\ Cleanup(x) = Cleanup(y) => x = y
            /\ Dispose(x) = Dispose(y) => x = y
            /\ Reset(x) # Unref(y) /\ Reset(x) # Cleanup(y) /\ Reset(x) # Dispose(y)
            /\ Unref(x) # Cleanup(y) /\ Unref(x) # Dispose(y)
            /\ Cleanup(x) # Dispose(y)
<1> TAKE x, y
<1>1. /\ Reset(x).op = "reset" /\ Unref(x).op = "unref"
      /\ Cleanup(x).op = "cleanup" /\ Dispose(x).op = "dispose"
      /\ Reset(y).op = "reset" /\ Unref(y).op = "unref"
      /\ Cleanup(y).op = "cleanup" /\ Dispose(y).op = "dispose"
  BY DEF Reset, Unref, Cleanup, Dispose
<1>2. /\ Reset(x).of = x /\ Unref(x).of = x /\ Cleanup(x).of = x /\ Dispose(x).of = x
      /\ Reset(y).of = y /\ Unref(y).of = y /\ Cleanup(y).of = y /\ Dispose(y).of = y
  BY DEF Reset, Unref, Cleanup, Dispose
<1> HIDE DEF Reset, Unref, Cleanup, Dispose
<1> QED BY <1>1, <1>2

LEMMA ToDoFacts ==
  ASSUME PendingType, NEW t \in Threads
  PROVE  /\ \A n, o : ToDo(t, n, o) => n \in Nat /\ o \in Ops
         /\ \A n, o1, o2 : ToDo(t, n, o1) /\ ToDo(t, n, o2) => o1 = o2
         /\ pending[t] = <<>> => \A n, o : ~ToDo(t, n, o)
<1>1. pending[t] \in Seq(Ops) /\ Len(pending[t]) \in Nat
  BY LenProperties DEF PendingType
<1>2. \A n \in Nat : n < Len(pending[t]) => Len(pending[t]) - n \in 1..Len(pending[t])
  BY <1>1
<1>3. pending[t] = <<>> => Len(pending[t]) = 0
  OBVIOUS
<1> QED BY <1>1, <1>2, <1>3, ElementOfSeq DEF ToDo

\* A thread goes from some of what it had to do, what is beyond `kept' done, to that
\* and something more.
ToDoStep(t, kept, more) ==
  /\ PendingType'
  /\ \A u \in Threads \ {t}, n \in Nat, o \in Ops : ToDo(u, n, o)' <=> ToDo(u, n, o)
  /\ \A n \in Nat, o \in Ops :
       ToDo(t, n, o)' <=> (n < kept /\ ToDo(t, n, o)) \/ <<n, o>> \in more

\* What a sequence of operations adds to what is to be done.
Adds(d, kept) == {<<kept + (Len(d) - k), d[k]>> : k \in 1..Len(d)}

LEMMA Replace ==
  ASSUME PendingType, NEW t \in Threads, NEW d \in Seq(Ops), NEW rest \in Seq(Ops),
         NEW done \in Seq(Ops), pending[t] = done \o rest,
         pending' = [pending EXCEPT ![t] = d \o rest]
  PROVE  ToDoStep(t, Len(rest), Adds(d, Len(rest)))
<1> DEFINE l == Len(rest)
           m == Len(d)
           p == pending[t]
<1>1. l \in Nat /\ m \in Nat /\ Len(done) \in Nat
  BY LenProperties
<1>2. /\ Len(p) = Len(done) + l
      /\ \A k \in 1..(Len(done) + l) : p[k] = IF k <= Len(done) THEN done[k] ELSE rest[k - Len(done)]
  BY ConcatProperties
<1>3. /\ d \o rest \in Seq(Ops) /\ Len(d \o rest) = m + l
      /\ \A k \in 1..(m + l) : (d \o rest)[k] = IF k <= m THEN d[k] ELSE rest[k - m]
  BY ConcatProperties
<1>4. /\ pending' \in [Threads -> Seq(Ops)] /\ pending'[t] = d \o rest
      /\ \A u \in Threads \ {t} : pending'[u] = pending[u]
  BY <1>3 DEF PendingType
<1> HIDE DEF p
<1>5. ASSUME NEW n \in Nat, NEW o \in Ops
      PROVE  ToDo(t, n, o)' <=> (n < l /\ ToDo(t, n, o)) \/ <<n, o>> \in Adds(d, l)
  <2>1. ToDo(t, n, o)' <=> n < m + l /\ (d \o rest)[m + l - n] = o
    BY <1>3, <1>4 DEF ToDo
  <2>2. CASE n < l
    <3>1. (d \o rest)[m + l - n] = rest[l - n]
      <4>1. m + l - n \in 1..(m + l) /\ ~(m + l - n <= m) /\ (m + l - n) - m = l - n
        BY <1>1, <2>2
      <4> QED BY <1>3, <4>1
    <3>2. ToDo(t, n, o) <=> rest[l - n] = o
      <4>1. Len(done) + l - n \in 1..(Len(done) + l) /\ ~(Len(done) + l - n <= Len(done))
            /\ (Len(done) + l - n) - Len(done) = l - n /\ n < Len(done) + l
        BY <1>1, <2>2
      <4> QED BY <1>2, <4>1 DEF ToDo, p
    <3>3. <<n, o>> \notin Adds(d, l)
      BY <1>1, <2>2 DEF Adds
    <3>4. n < m + l
      BY <1>1, <2>2
    <3> QED BY <2>1, <2>2, <3>1, <3>2, <3>3, <3>4
  <2>3. CASE ~(n < l)
    <3>1. <<n, o>> \in Adds(d, l) <=> \E k \in 1..m : n = l + (m - k) /\ d[k] = o
      BY DEF Adds
    <3>2. \A k \in 1..m : n = l + (m - k) <=> k = m + l - n
      BY <1>1
    <3>3. n < m + l <=> m + l - n \in 1..m
      BY <1>1, <2>3
    <3>4. n < m + l => (d \o rest)[m + l - n] = d[m + l - n]
      BY <1>1, <1>3, <2>3
    <3> QED BY <2>1, <2>3, <3>1, <3>2, <3>3, <3>4
  <2> QED BY <2>2, <2>3
<1>6. \A u \in Threads \ {t}, n \in Nat, o \in Ops : ToDo(u, n, o)' <=> ToDo(u, n, o)
  BY <1>4 DEF ToDo
<1> QED BY <1>4, <1>5, <1>6 DEF ToDoStep, PendingType

\* How much is left when the first operation of a thread is done.
RestIs(t, kept) == kept = Len(pending[t]) - 1

LEMMA RestExists == ASSUME NEW t PROVE \E kept : RestIs(t, kept)
BY DEF RestIs

\* The first operation of a thread.
LEMMA Doing1 ==
  ASSUME PendingType, NEW t \in Threads, pending[t] # <<>>,
         NEW kept, RestIs(t, kept)
  PROVE  /\ kept \in Nat /\ Head(pending[t]) \in Ops /\ ToDo(t, kept, Head(pending[t]))
         /\ \A n, o : ToDo(t, n, o) => n < kept \/ (n = kept /\ o = Head(pending[t]))
         /\ Tail(pending[t]) \in Seq(Ops) /\ Len(Tail(pending[t])) = kept
         /\ <<Head(pending[t])>> \in Seq(Ops)
         /\ pending[t] = <<Head(pending[t])>> \o Tail(pending[t])
<1>1. pending[t] \in Seq(Ops) /\ Len(pending[t]) \in Nat \ {0}
  BY EmptySeq DEF PendingType
<1>2. /\ Head(pending[t]) \in Ops /\ Tail(pending[t]) \in Seq(Ops) /\ Len(Tail(pending[t])) = kept
      /\ \A i \in 1..kept : Tail(pending[t])[i] = pending[t][i + 1]
  BY <1>1, HeadTailProperties DEF RestIs
<1>3. Head(pending[t]) = pending[t][1]
  BY <1>1
<1>4. /\ <<Head(pending[t])>> \in Seq(Ops) /\ Len(<<Head(pending[t])>>) = 1
      /\ <<Head(pending[t])>>[1] = pending[t][1]
  BY <1>2, <1>3
<1>5. /\ <<Head(pending[t])>> \o Tail(pending[t]) \in Seq(Ops)
      /\ Len(<<Head(pending[t])>> \o Tail(pending[t])) = 1 + kept
      /\ \A i \in 1..(1 + kept) : (<<Head(pending[t])>> \o Tail(pending[t]))[i] =
           IF i <= 1 THEN <<Head(pending[t])>>[i] ELSE Tail(pending[t])[i - 1]
  BY <1>2, <1>4, ConcatProperties
<1>6. \A i \in 1..(1 + kept) : (<<Head(pending[t])>> \o Tail(pending[t]))[i] = pending[t][i]
  BY <1>1, <1>2, <1>4, <1>5 DEF RestIs
<1>7. <<Head(pending[t])>> \o Tail(pending[t]) = pending[t]
  BY <1>1, <1>5, <1>6, SeqEqual DEF RestIs
<1>8. /\ \A n \in Nat : n < Len(pending[t]) => n < kept \/ n = kept
      /\ Len(pending[t]) - kept = 1 /\ kept < Len(pending[t]) /\ kept \in Nat
      /\ Len(pending[t]) = 1 + kept
  BY <1>1 DEF RestIs
<1>9. ToDo(t, kept, Head(pending[t]))
  BY <1>3, <1>8 DEF ToDo
<1>10. ASSUME NEW n, NEW o, ToDo(t, n, o)
       PROVE  n < kept \/ (n = kept /\ o = Head(pending[t]))
  <2>1. n \in Nat /\ n < Len(pending[t]) /\ pending[t][Len(pending[t]) - n] = o
    BY <1>10 DEF ToDo
  <2>2. n < kept \/ n = kept
    BY <1>8, <2>1
  <2>3. n = kept => o = pending[t][1]
    BY <1>8, <2>1
  <2> QED BY <1>3, <2>2, <2>3
<1> QED BY <1>2, <1>4, <1>7, <1>8, <1>9, <1>10

LEMMA NoneAdded == ASSUME NEW n PROVE <<>> \in Seq(Ops) /\ Adds(<<>>, n) = {}
<1>1. <<>> \in Seq(Ops) /\ Len(<<>>) = 0
  BY EmptySeq
<1> QED BY <1>1 DEF Adds

LEMMA OneAdded ==
  ASSUME NEW n \in Nat, NEW a \in Ops
  PROVE  <<a>> \in Seq(Ops) /\ Adds(<<a>>, n) = {<<n, a>>}
<1>1. Len(<<a>>) = 1 /\ <<a>>[1] = a /\ 1..1 = {1} /\ n + (1 - 1) = n
  OBVIOUS
<1> QED BY <1>1 DEF Adds

LEMMA TwoAdded ==
  ASSUME NEW n \in Nat, NEW a \in Ops, NEW b \in Ops
  PROVE  <<a, b>> \in Seq(Ops) /\ Adds(<<a, b>>, n) = {<<n + 1, a>>, <<n, b>>}
<1>1. Len(<<a, b>>) = 2 /\ <<a, b>>[1] = a /\ <<a, b>>[2] = b
  OBVIOUS
<1>2. 1..2 = {1, 2} /\ n + (2 - 1) = n + 1 /\ n + (2 - 2) = n
  OBVIOUS
<1> QED BY <1>1, <1>2 DEF Adds

LEMMA ThreeAdded ==
  ASSUME NEW n \in Nat, NEW a \in Ops, NEW b \in Ops, NEW c \in Ops
  PROVE  /\ <<a, b, c>> \in Seq(Ops)
         /\ Adds(<<a, b, c>>, n) = {<<n + 2, a>>, <<n + 1, b>>, <<n, c>>}
<1>1. Len(<<a, b, c>>) = 3 /\ <<a, b, c>>[1] = a /\ <<a, b, c>>[2] = b /\ <<a, b, c>>[3] = c
  OBVIOUS
<1>2. 1..3 = {1, 2, 3} /\ n + (3 - 1) = n + 2 /\ n + (3 - 2) = n + 1 /\ n + (3 - 3) = n
  OBVIOUS
<1> QED BY <1>1, <1>2 DEF Adds

LEMMA Push ==
  ASSUME PendingType, NEW t \in Threads, pending[t] # <<>>, NEW d \in Seq(Ops),
         NEW kept, RestIs(t, kept),
         pending' = [pending EXCEPT ![t] = d \o Tail(@)]
  PROVE  ToDoStep(t, kept, Adds(d, kept))
<1>1. pending' = [pending EXCEPT ![t] = d \o Tail(pending[t])]
  BY DEF PendingType
<1>2. /\ Tail(pending[t]) \in Seq(Ops) /\ Len(Tail(pending[t])) = kept
      /\ <<Head(pending[t])>> \in Seq(Ops)
      /\ pending[t] = <<Head(pending[t])>> \o Tail(pending[t])
  BY Doing1
<1>3. ToDoStep(t, Len(Tail(pending[t])), Adds(d, Len(Tail(pending[t]))))
  BY <1>1, <1>2, Replace
<1> QED BY <1>2, <1>3

LEMMA Pop ==
  ASSUME PendingType, NEW t \in Threads, pending[t] # <<>>, Done(t),
         NEW kept, RestIs(t, kept)
  PROVE  ToDoStep(t, kept, {})
<1>1. pending' = [pending EXCEPT ![t] = <<>> \o Tail(@)]
  <2>1. Tail(pending[t]) \in Seq(Ops)
    BY Doing1
  <2>2. <<>> \o Tail(pending[t]) = Tail(pending[t])
    BY <2>1, ConcatEmptySeq
  <2> QED BY <2>2 DEF Done, PendingType
<1> QED BY <1>1, NoneAdded, Push

LEMMA Begin ==
  ASSUME PendingType, NEW t \in Threads, pending[t] = <<>>, NEW d \in Seq(Ops),
         pending' = [pending EXCEPT ![t] = d]
  PROVE  ToDoStep(t, 0, Adds(d, 0))
<1>1. <<>> \in Seq(Ops) /\ Len(<<>>) = 0 /\ <<>> \o <<>> = <<>> /\ d \o <<>> = d
  BY ConcatEmptySeq, EmptySeq
<1>2. pending' = [pending EXCEPT ![t] = d \o <<>>]
  BY <1>1
<1> HIDE DEF ToDoStep
<1>3. pending[t] = <<>> \o <<>>
  BY <1>1
<1> QED BY <1>1, <1>2, <1>3, Replace

-------------------------------------------------------------------------------
(* Who holds a shared_ptr.                                                 *)

Hold(kind, by, at) == [kind |-> kind, by |-> by, at |-> at]

HeldByApp(h, e) == h = Hold("app", App, 0) /\ e \in app
HeldByChild(h, e) == \E d \in Entities : h = Hold("child", d, 0) /\ parent[d] = e
HeldByJob(h, e) == \E j \in Jobs : h = Hold("job", j, 0) /\ job[j].script = e
HeldByTask(h, e) ==
  \E t \in Threads, n \in Nat : h = Hold("task", t, n) /\ ToDo(t, n, Unref(e))

Holds == [kind : {"app", "child", "job", "task"}, by : Threads \cup Entities, at : Nat]

Holders(e) ==
  {h \in Holds : \/ HeldByApp(h, e) \/ HeldByChild(h, e) \/ HeldByJob(h, e)
                 \/ HeldByTask(h, e)}

Counted(e) == IsFiniteSet(Holders(e)) /\ refs[e] = Cardinality(Holders(e))

LEMMA CountSame ==
  ASSUME NEW e, Counted(e), Holders(e)' = Holders(e), (refs[e])' = refs[e]
  PROVE  Counted(e)'
BY DEF Counted

LEMMA CountGain ==
  ASSUME NEW e, Counted(e), NEW h, h \notin Holders(e), Holders(e)' = Holders(e) \cup {h},
         (refs[e])' = refs[e] + 1
  PROVE  Counted(e)'
BY FS_AddElement DEF Counted

LEMMA CountLose ==
  ASSUME NEW e, Counted(e), NEW h \in Holders(e), Holders(e)' = Holders(e) \ {h},
         (refs[e])' = refs[e] - 1
  PROVE  Counted(e)'
BY FS_RemoveElement DEF Counted

LEMMA MoveOne ==
  ASSUME NEW S, IsFiniteSet(S), NEW a \in S, NEW b, b \notin S
  PROVE  /\ IsFiniteSet((S \ {a}) \cup {b})
         /\ Cardinality((S \ {a}) \cup {b}) = Cardinality(S)
<1>1. /\ IsFiniteSet(S \ {a}) /\ Cardinality(S \ {a}) = Cardinality(S) - 1
      /\ Cardinality(S) \in Nat
  BY FS_RemoveElement, FS_CardinalityType
<1>2. b \notin S \ {a}
  OBVIOUS
<1> QED BY <1>1, <1>2, FS_AddElement

LEMMA CountMove ==
  ASSUME NEW e, Counted(e), NEW a \in Holders(e), NEW b, b \notin Holders(e),
         Holders(e)' = (Holders(e) \ {a}) \cup {b}, (refs[e])' = refs[e]
  PROVE  Counted(e)'
BY MoveOne DEF Counted

LEMMA CountZero ==
  ASSUME NEW e, Counted(e), refs[e] = 0
  PROVE  Holders(e) = {}
BY FS_EmptySet DEF Counted

LEMMA CountPositive ==
  ASSUME NEW e, Counted(e), NEW h \in Holders(e)
  PROVE  refs[e] \in Nat \ {0}
BY FS_EmptySet, FS_CardinalityType DEF Counted

LEMMA HoldersExist ==
  /\ \A e \in app : Hold("app", App, 0) \in Holders(e)
  /\ \A d \in Entities : Hold("child", d, 0) \in Holders(parent[d])
  /\ \A j \in Jobs : Hold("job", j, 0) \in Holders(job[j].script)
  /\ \A t \in Threads, n \in Nat : \A e : ToDo(t, n, Unref(e)) => Hold("task", t, n) \in Holders(e)
<1>1. /\ Hold("app", App, 0) \in Holds /\ \A d \in Entities : Hold("child", d, 0) \in Holds
      /\ \A j \in Jobs : Hold("job", j, 0) \in Holds
      /\ \A t \in Threads, n \in Nat : Hold("task", t, n) \in Holds
  BY DEF Hold, Holds, Threads
<1>2. \A e \in app : Hold("app", App, 0) \in Holders(e)
  BY <1>1 DEF Holders, HeldByApp
<1>3. \A d \in Entities : Hold("child", d, 0) \in Holders(parent[d])
  BY <1>1 DEF Holders, HeldByChild
<1>4. \A j \in Jobs : Hold("job", j, 0) \in Holders(job[j].script)
  BY <1>1 DEF Holders, HeldByJob
<1>5. \A t \in Threads, n \in Nat : \A e : ToDo(t, n, Unref(e)) => Hold("task", t, n) \in Holders(e)
  BY <1>1 DEF Holders, HeldByTask
<1> QED BY <1>2, <1>3, <1>4, <1>5

-------------------------------------------------------------------------------
(* The invariant.                                                          *)

ParentType ==
  \A e \in Entities :
    /\ e \in Isolates => parent[e] = Nothing
    /\ e \in Contexts => parent[e] \in Isolates \cup {Nothing}
    /\ e \in Scripts => parent[e] \in Contexts \cup {Nothing}

\* A job has a Script until it goes to the destructors of a thread, and a thread that
\* has a script to run is in none.
Empty(j) == job[j].state \in {"idle", "failed"}
Ended(j) == Empty(j) \/ job[j].state = "ready"

JobsOK ==
  \A j \in Jobs :
    /\ Empty(j) <=> job[j].script = Nothing
    /\ ~Ended(j) => pending[j] = <<>>

Typed == TypeOK /\ PendingType /\ ParentType /\ JobsOK

Counts == \A e \in Entities : Counted(e)

\* What somebody holds has a v8::Global in the isolate of what it was made from.
AliveOK(e) ==
  /\ refs[e] = 0 => parent[e] = Nothing
  /\ refs[e] > 0 /\ e \in Isolates => home[e] # 0 /\ home[e] = gen[e]
  /\ refs[e] > 0 /\ e \notin Isolates =>
       home[e] # 0 /\ parent[e] # Nothing /\ home[e] = home[parent[e]]

Over(g) == IF g \in Jobs THEN job[g].state = "idle" ELSE refs[g] = 0

\* A v8::Global is reset right before the isolate goes or what keeps it is given up.
ResetOK(t, n, g) ==
  /\ n > 0 /\ home[g] # 0 /\ Over(g)
  /\ g \in Jobs => t = App
  /\ g \in Isolates => ToDo(t, n - 1, Dispose(g)) /\ home[g] = gen[g]
  /\ g \notin Isolates => \E p \in Entities : ToDo(t, n - 1, Unref(p)) /\ home[p] = home[g]

ResetsOK == \A t \in Threads, n \in Nat, g \in Globals : ToDo(t, n, Reset(g)) => ResetOK(t, n, g)

ResetOnce ==
  \A t, u \in Threads, n, m \in Nat, g \in Globals :
    ToDo(t, n, Reset(g)) /\ ToDo(u, m, Reset(g)) => t = u /\ n = m

DisposalsOK ==
  \A t \in Threads, n \in Nat, i \in Isolates :
    ToDo(t, n, Dispose(i)) => refs[i] = 0 /\ gen[i] # 0

DisposeOnce ==
  \A t, u \in Threads, n, m \in Nat, i \in Isolates :
    ToDo(t, n, Dispose(i)) /\ ToDo(u, m, Dispose(i)) => t = u /\ n = m

CleanupsOK ==
  \A t \in Threads, n \in Nat, i \in Isolates :
    ToDo(t, n, Cleanup(i)) => n > 0 /\ refs[i] = 0 /\ ToDo(t, n - 1, Reset(i))

InUse(g) == IF g \in Jobs THEN job[g].state \in {"ready", "failed"} ELSE refs[g] > 0

\* A v8::Global that is not empty is in use or about to be reset.
HomesOK ==
  /\ \A g \in Globals : home[g] # 0 =>
       InUse(g) \/ \E t \in Threads, n \in Nat : ToDo(t, n, Reset(g))
  /\ \A j \in Jobs : job[j].state = "ready" => home[j] = home[job[j].script]

RegisteredOK ==
  \A i \in Isolates : registered[i] # 0 =>
    /\ registered[i] = gen[i]
    /\ refs[i] > 0 \/ \E t \in Threads, n \in Nat : ToDo(t, n, Cleanup(i))

Tasks == ResetsOK /\ ResetOnce /\ DisposalsOK /\ DisposeOnce /\ CleanupsOK

LifeInv ==
  /\ Typed
  /\ Counts
  /\ \A e \in Entities : AliveOK(e)
  /\ Tasks
  /\ HomesOK
  /\ RegisteredOK

LEMMA Kinds ==
  /\ \A e \in Entities : e \in Globals /\ e \notin Jobs
  /\ \A i \in Isolates : i \in Entities /\ i \in Globals /\ i \notin Contexts /\ i \notin Scripts
  /\ \A c \in Contexts : c \in Entities /\ c \notin Isolates /\ c \notin Scripts
  /\ \A s \in Scripts : s \in Entities /\ s \notin Isolates /\ s \notin Contexts
  /\ \A j \in Jobs : j \in Threads /\ j \in Globals /\ j \notin Entities /\ j # App
  /\ App \in Threads /\ Nothing \notin Entities
  /\ \A g \in Globals : g \in Entities \/ g \in Jobs
BY DEF Entities, Globals, Threads

LEMMA OpKinds ==
  /\ \A g \in Globals : Reset(g) \in Ops
  /\ \A e \in Entities : Unref(e) \in Ops
  /\ \A i \in Isolates : Cleanup(i) \in Ops /\ Dispose(i) \in Ops
BY DEF Ops, Resets, Unrefs, Cleanups, Disposals

LEMMA OpCases ==
  \A o \in Ops : \/ \E g \in Globals : o = Reset(g)
                 \/ \E e \in Entities : o = Unref(e)
                 \/ \E i \in Isolates : o = Cleanup(i)
                 \/ \E i \in Isolates : o = Dispose(i)
BY DEF Ops, Resets, Unrefs, Cleanups, Disposals

\* What is held is there.
LEMMA HeldExists ==
  ASSUME Typed, Counts
  PROVE  /\ \A e \in app : e \in Entities /\ refs[e] > 0
         /\ \A j \in Jobs : ~Empty(j) =>
              job[j].script \in Scripts /\ refs[job[j].script] > 0
         /\ \A d \in Entities : parent[d] # Nothing => parent[d] \in Entities /\ refs[parent[d]] > 0
         /\ \A t \in Threads : \A n, e : ToDo(t, n, Unref(e)) => n \in Nat /\ e \in Entities /\ refs[e] > 0
<1>1. \A e \in Entities : Holders(e) # {} => refs[e] > 0
  BY CountPositive DEF Counts
<1>2. \A e \in app : e \in Entities /\ refs[e] > 0
  BY <1>1, HoldersExist DEF Typed, TypeOK
<1>3. ASSUME NEW j \in Jobs, ~Empty(j)
      PROVE  job[j].script \in Scripts /\ refs[job[j].script] > 0
  <2>1. job[j].script \in Scripts
    BY <1>3 DEF Typed, TypeOK, JobsOK, Empty, Ended
  <2> QED BY <1>1, <2>1, HoldersExist, Kinds
<1>4. ASSUME NEW d \in Entities, parent[d] # Nothing
      PROVE  parent[d] \in Entities /\ refs[parent[d]] > 0
  <2>1. parent[d] \in Entities
    BY <1>4, Kinds DEF Typed, TypeOK
  <2> QED BY <1>1, <2>1, HoldersExist
<1>5. ASSUME NEW t \in Threads, NEW n, NEW e, ToDo(t, n, Unref(e))
      PROVE  n \in Nat /\ e \in Entities /\ refs[e] > 0
  <2>1. n \in Nat /\ Unref(e) \in Ops
    BY <1>5, ToDoFacts DEF Typed
  <2>2. e \in Entities
    BY <2>1, OpCases, OpsDiffer
  <2> QED BY <1>1, <1>5, <2>1, <2>2, HoldersExist
<1> QED BY <1>2, <1>3, <1>4, <1>5

LEMMA TheIsolate ==
  ASSUME LifeInv, NEW e \in Entities, refs[e] > 0
  PROVE  /\ IsolateOf(e) \in Isolates /\ refs[IsolateOf(e)] > 0
         /\ home[e] # 0 /\ gen[IsolateOf(e)] = home[e] /\ gen[IsolateOf(e)] # 0
         /\ e \notin Isolates => parent[e] \in Entities /\ refs[parent[e]] > 0
<1>1. Typed /\ Counts /\ \A d \in Entities : AliveOK(d)
  BY DEF LifeInv
<1>2. CASE e \in Isolates
  BY <1>1, <1>2 DEF IsolateOf, AliveOK
<1>3. CASE e \in Contexts
  <2>1. parent[e] \in Isolates /\ refs[parent[e]] > 0
    BY <1>1, <1>3, Kinds, HeldExists DEF AliveOK, Typed, ParentType
  <2> QED BY <1>1, <1>3, <2>1, Kinds DEF IsolateOf, AliveOK
<1>4. CASE e \in Scripts
  <2>1. parent[e] \in Contexts /\ refs[parent[e]] > 0
    BY <1>1, <1>4, Kinds, HeldExists DEF AliveOK, Typed, ParentType
  <2>2. parent[parent[e]] \in Isolates /\ refs[parent[parent[e]]] > 0
    BY <1>1, <2>1, Kinds, HeldExists DEF AliveOK, Typed, ParentType
  <2> QED BY <1>1, <1>4, <2>1, <2>2, Kinds DEF IsolateOf, AliveOK
<1> QED BY <1>2, <1>3, <1>4 DEF Entities

\* No isolate, context or script that is held changes its v8::Global.
HomesStay ==
  \A e \in Entities : refs[e] > 0 =>
    home'[e] = home[e] /\ (e \in Isolates => gen'[e] = gen[e])

LEMMA AliveStays ==
  ASSUME LifeInv, HomesStay, NEW e \in Entities, refs[e] > 0, refs'[e] # 0,
         parent'[e] = parent[e]
  PROVE  AliveOK(e)'
<1>1. AliveOK(e) /\ (e \notin Isolates => parent[e] \in Entities /\ refs[parent[e]] > 0)
  BY TheIsolate DEF LifeInv
<1> QED BY <1>1 DEF AliveOK, HomesStay

LEMMA AliveSame ==
  ASSUME LifeInv, HomesStay, UNCHANGED parent,
         \A e \in Entities : refs[e] = 0 <=> refs'[e] = 0
  PROVE  \A e \in Entities : AliveOK(e)'
<1>1. TAKE e \in Entities
<1>2. AliveOK(e) /\ refs[e] \in Nat
  BY DEF LifeInv, Typed, TypeOK
<1>3. CASE refs[e] = 0
  BY <1>2, <1>3 DEF AliveOK
<1>4. CASE refs[e] # 0
  <2>1. refs[e] > 0 /\ refs'[e] # 0
    BY <1>2, <1>4
  <2> QED BY <2>1, AliveStays
<1> QED BY <1>3, <1>4

LEMMA ResetStays ==
  ASSUME LifeInv, HomesStay, NEW t \in Threads, NEW n \in Nat, NEW g \in Globals,
         ToDo(t, n, Reset(g)), \A o \in Ops : n > 0 /\ ToDo(t, n - 1, o) => ToDo(t, n - 1, o)',
         home'[g] = home[g], Over(g)', g \in Isolates => gen'[g] = gen[g]
  PROVE  ResetOK(t, n, g)'
<1>1. ResetOK(t, n, g)
  BY DEF LifeInv, Tasks, ResetsOK
<1>2. g \in Isolates => ToDo(t, n - 1, Dispose(g))'
  BY <1>1, OpKinds DEF ResetOK
<1>3. ASSUME g \notin Isolates
      PROVE  \E p \in Entities : ToDo(t, n - 1, Unref(p))' /\ home'[p] = home'[g]
  <2>1. PICK p \in Entities : ToDo(t, n - 1, Unref(p)) /\ home[p] = home[g]
    BY <1>1, <1>3 DEF ResetOK
  <2>2. refs[p] > 0
    BY <2>1, HeldExists DEF LifeInv
  <2> QED BY <1>1, <2>1, <2>2, OpKinds DEF HomesStay, ResetOK
<1> QED BY <1>1, <1>2, <1>3 DEF ResetOK

-------------------------------------------------------------------------------
(* What steps leave alone.                                                 *)

LEMMA HoldersSame ==
  /\ UNCHANGED app => \A h, e : HeldByApp(h, e)' <=> HeldByApp(h, e)
  /\ UNCHANGED parent => \A h, e : HeldByChild(h, e)' <=> HeldByChild(h, e)
  /\ UNCHANGED job => \A h, e : HeldByJob(h, e)' <=> HeldByJob(h, e)
  /\ UNCHANGED pending => /\ \A h, e : HeldByTask(h, e)' <=> HeldByTask(h, e)
                          /\ \A t, n, o : ToDo(t, n, o)' <=> ToDo(t, n, o)
<1>1. UNCHANGED app => \A h, e : HeldByApp(h, e)' <=> HeldByApp(h, e)
  BY DEF HeldByApp
<1>2. UNCHANGED parent => \A h, e : HeldByChild(h, e)' <=> HeldByChild(h, e)
  BY DEF HeldByChild
<1>3. UNCHANGED job => \A h, e : HeldByJob(h, e)' <=> HeldByJob(h, e)
  BY DEF HeldByJob
<1>4. UNCHANGED pending => \A t, n, o : ToDo(t, n, o)' <=> ToDo(t, n, o)
  BY DEF ToDo
<1>5. UNCHANGED pending => \A h, e : HeldByTask(h, e)' <=> HeldByTask(h, e)
  BY <1>4 DEF HeldByTask
<1> QED BY <1>1, <1>2, <1>3, <1>4, <1>5

\* Steps that begin or end no destructor.
LEMMA TasksQuiet ==
  ASSUME LifeInv, HomesStay, UNCHANGED pending,
         \A e \in Entities : refs[e] = 0 /\ refs'[e] # 0 =>
           home[e] = 0 /\ (e \in Isolates => gen[e] = 0),
         \A g \in Globals : home'[g] # home[g] => home[g] = 0 \/ ~Over(g),
         \A i \in Isolates : gen'[i] # gen[i] => gen[i] = 0,
         \A j \in Jobs : job[j].state = "idle" /\ job'[j].state # "idle" => pending[App] = <<>>
  PROVE  Tasks'
<1>1. \A t, n, o : ToDo(t, n, o)' <=> ToDo(t, n, o)
  BY HoldersSame
<1>2. Tasks /\ PendingType
  BY DEF LifeInv, Typed
<1>3. ASSUME NEW t \in Threads, NEW n \in Nat, NEW g \in Globals, ToDo(t, n, Reset(g))
      PROVE  home'[g] = home[g] /\ Over(g)' /\ ResetOK(t, n, g)'
  <2>1. ResetOK(t, n, g)
    BY <1>2, <1>3 DEF Tasks, ResetsOK
  <2>2. home'[g] = home[g] /\ (g \in Isolates => gen'[g] = gen[g])
    BY <2>1 DEF ResetOK
  <2>3. CASE g \in Jobs
    <3>1. t = App /\ pending[App] # <<>>
      BY <1>2, <1>3, <2>1, <2>3, ToDoFacts, Kinds DEF ResetOK
    <3>2. Over(g)'
      BY <2>1, <2>3, <3>1 DEF ResetOK, Over
    <3> QED BY <1>1, <1>3, <2>2, <3>2, ResetStays
  <2>4. CASE g \notin Jobs
    <3>1. g \in Entities /\ refs[g] = 0
      BY <2>1, <2>4, Kinds DEF ResetOK, Over
    <3>2. Over(g)'
      BY <2>1, <2>4, <3>1 DEF ResetOK, Over
    <3> QED BY <1>1, <1>3, <2>2, <3>2, ResetStays
  <2> QED BY <2>3, <2>4
<1>4. ResetsOK'
  BY <1>1, <1>3 DEF ResetsOK
<1>5. ResetOnce' /\ DisposeOnce'
  BY <1>1, <1>2 DEF Tasks, ResetOnce, DisposeOnce
<1>6. DisposalsOK'
  BY <1>1, <1>2, Kinds DEF Tasks, DisposalsOK
<1>7. CleanupsOK'
  <2>1. SUFFICES ASSUME NEW t \in Threads, NEW n \in Nat, NEW i \in Isolates,
                        ToDo(t, n, Cleanup(i))
                 PROVE  n > 0 /\ refs'[i] = 0 /\ ToDo(t, n - 1, Reset(i))
    BY <1>1 DEF CleanupsOK
  <2>2. n > 0 /\ refs[i] = 0 /\ ToDo(t, n - 1, Reset(i)) /\ n - 1 \in Nat
    BY <1>2, <2>1 DEF Tasks, CleanupsOK
  <2>3. home[i] # 0
    BY <1>2, <2>2, Kinds DEF Tasks, ResetsOK, ResetOK
  <2> QED BY <2>2, <2>3, Kinds
<1> QED BY <1>4, <1>5, <1>6, <1>7 DEF Tasks

LEMMA HomesGoOn ==
  ASSUME LifeInv, HomesStay,
         \A g \in Globals : home'[g] # 0 =>
           \/ InUse(g)'
           \/ \E t \in Threads, n \in Nat : ToDo(t, n, Reset(g))'
           \/ /\ home[g] # 0 /\ ~InUse(g)
              /\ \A t \in Threads, n \in Nat : ToDo(t, n, Reset(g)) => ToDo(t, n, Reset(g))',
         \A j \in Jobs : job'[j].state = "ready" =>
           \/ home'[j] = home'[job'[j].script]
           \/ job'[j] = job[j] /\ home'[j] = home[j]
  PROVE  HomesOK'
<1>1. HomesOK
  BY DEF LifeInv
<1>2. ASSUME NEW g \in Globals, home'[g] # 0
      PROVE  InUse(g)' \/ \E t \in Threads, n \in Nat : ToDo(t, n, Reset(g))'
  BY <1>1, <1>2 DEF HomesOK
<1>3. ASSUME NEW j \in Jobs, job'[j].state = "ready"
      PROVE  home'[j] = home'[job'[j].script]
  <2>1. CASE job'[j] = job[j] /\ home'[j] = home[j]
    <3>1. home[j] = home[job[j].script]
      BY <1>1, <1>3, <2>1 DEF HomesOK
    <3>2. job[j].script \in Scripts /\ refs[job[j].script] > 0
      BY <1>3, <2>1, HeldExists DEF LifeInv, Empty
    <3> QED BY <2>1, <3>1, <3>2, Kinds DEF HomesStay
  <2> QED BY <1>3, <2>1
<1> QED BY <1>2, <1>3 DEF HomesOK

LEMMA RegisteredGoesOn ==
  ASSUME LifeInv,
         \A i \in Isolates : registered'[i] # 0 =>
           \/ registered'[i] = gen'[i] /\ refs'[i] > 0
           \/ /\ registered'[i] = registered[i] /\ gen'[i] = gen[i]
              /\ \/ refs[i] > 0 /\ refs'[i] > 0
                 \/ \E t \in Threads, n \in Nat : ToDo(t, n, Cleanup(i))'
                 \/ /\ ~(refs[i] > 0)
                    /\ \A t \in Threads, n \in Nat : ToDo(t, n, Cleanup(i)) => ToDo(t, n, Cleanup(i))'
  PROVE  RegisteredOK'
BY DEF LifeInv, RegisteredOK

-------------------------------------------------------------------------------
(* Steps of the application that begin no destructor.                      *)

LEMMA CreateIsolateStep ==
  ASSUME LifeInv, NEW i \in Isolates, CreateIsolate(i)
  PROVE  LifeInv'
<1>1. /\ Typed /\ Counts /\ Tasks /\ HomesOK /\ RegisteredOK /\ \A e \in Entities : AliveOK(e)
      /\ TypeOK /\ PendingType /\ ParentType /\ JobsOK
  BY DEF LifeInv, Typed
<1>2. /\ created < MaxCreated /\ created \in 0..MaxCreated /\ gen[i] = 0
      /\ created' = created + 1 /\ gen' = [gen EXCEPT ![i] = created + 1]
      /\ refs' = [refs EXCEPT ![i] = 1] /\ home' = [home EXCEPT ![i] = created + 1]
      /\ app' = app \cup {i} /\ UNCHANGED <<parent, registered, job, holder, pending>>
  BY <1>1 DEF CreateIsolate, TypeOK
<1>3. refs[i] = 0 /\ i \in Entities /\ i \in Globals
  <2>1. i \in Entities /\ i \in Globals
    BY Kinds
  <2>2. refs[i] \in Nat /\ AliveOK(i)
    BY <1>1, <2>1 DEF TypeOK
  <2> QED BY <1>2, <2>1, <2>2 DEF AliveOK
<1>4. home[i] = 0
  <2>1. ASSUME NEW t \in Threads, NEW n \in Nat, ToDo(t, n, Reset(i))
        PROVE  FALSE
    BY <1>1, <1>2, <1>3, <2>1 DEF Tasks, ResetsOK, ResetOK
  <2> QED BY <1>1, <1>3, <2>1, Kinds DEF HomesOK, InUse
<1>5. /\ created + 1 \in 1..MaxCreated
      /\ gen' \in [Isolates -> 0..MaxCreated] /\ gen'[i] = created + 1
      /\ refs' \in [Entities -> Nat] /\ refs'[i] = 1
      /\ home' \in [Globals -> 0..MaxCreated] /\ home'[i] = created + 1
      /\ \A k \in Isolates \ {i} : gen'[k] = gen[k]
      /\ \A e \in Entities \ {i} : refs'[e] = refs[e]
      /\ \A g \in Globals \ {i} : home'[g] = home[g]
  BY <1>1, <1>2, <1>3 DEF TypeOK
<1>6. Typed'
  <2>1. TypeOK'
    BY <1>1, <1>2, <1>3, <1>5 DEF TypeOK
  <2> QED BY <1>1, <1>2, <2>1 DEF Typed, PendingType, ParentType, JobsOK, Empty, Ended
<1>7. HomesStay
  BY <1>3, <1>5, Kinds DEF HomesStay
<1>8. Counts'
  <2>1. \A h, e : /\ HeldByChild(h, e)' <=> HeldByChild(h, e)
                  /\ HeldByJob(h, e)' <=> HeldByJob(h, e)
                  /\ HeldByTask(h, e)' <=> HeldByTask(h, e)
    BY <1>2, HoldersSame
  <2>2. ASSUME NEW e \in Entities, e # i
        PROVE  Counted(e)'
    <3>1. \A h : HeldByApp(h, e)' <=> HeldByApp(h, e)
      BY <1>2, <2>2 DEF HeldByApp
    <3>2. Holders(e)' = Holders(e)
      BY <2>1, <3>1 DEF Holders
    <3> QED BY <1>1, <1>5, <2>2, <3>2, CountSame DEF Counts
  <2>3. Counted(i)'
    <3>1. Holders(i) = {} /\ Counted(i)
      BY <1>1, <1>3, CountZero DEF Counts
    <3>2. \A h : HeldByApp(h, i)' <=> h = Hold("app", App, 0)
      BY <1>2 DEF HeldByApp
    <3>3. Hold("app", App, 0) \in Holds
      BY DEF Hold, Holds, Threads
    <3>4. \A h \in Holds : ~(\/ HeldByChild(h, i) \/ HeldByJob(h, i)
                             \/ HeldByTask(h, i))
      BY <3>1 DEF Holders
    <3>5. Holders(i)' = Holders(i) \cup {Hold("app", App, 0)}
      BY <2>1, <3>1, <3>2, <3>3, <3>4 DEF Holders
    <3>6. (refs[i])' = refs[i] + 1 /\ Hold("app", App, 0) \notin Holders(i)
      BY <1>3, <1>5, <3>1
    <3> HIDE DEF Holders
    <3> QED BY <3>1, <3>5, <3>6, CountGain
  <2> QED BY <2>2, <2>3 DEF Counts
<1>9. \A e \in Entities : AliveOK(e)'
  <2>1. AliveOK(i)'
    BY <1>3, <1>5, Kinds DEF AliveOK
  <2>2. ASSUME NEW e \in Entities, e # i, refs[e] = 0
        PROVE  AliveOK(e)'
    BY <1>1, <1>2, <1>5, <2>2 DEF AliveOK
  <2>3. ASSUME NEW e \in Entities, e # i, refs[e] # 0
        PROVE  AliveOK(e)'
    <3>1. refs[e] > 0 /\ refs'[e] # 0
      BY <1>1, <1>5, <2>3 DEF TypeOK
    <3> QED BY <1>2, <1>7, <3>1, AliveStays
  <2> QED BY <2>1, <2>2, <2>3
<1>10. Tasks'
  <2>1. \A e \in Entities : refs[e] = 0 /\ refs'[e] # 0 =>
          home[e] = 0 /\ (e \in Isolates => gen[e] = 0)
    BY <1>2, <1>4, <1>5
  <2>2. /\ \A g \in Globals : home'[g] # home[g] => home[g] = 0
        /\ \A k \in Isolates : gen'[k] # gen[k] => gen[k] = 0
    BY <1>2, <1>4, <1>5
  <2> QED BY <1>2, <1>7, <2>1, <2>2, TasksQuiet
<1>11. HomesOK'
  <2>1. \A g \in Globals : InUse(g) => InUse(g)'
    BY <1>2, <1>5, Kinds DEF InUse
  <2>2. InUse(i)'
    BY <1>3, <1>5, Kinds DEF InUse
  <2> QED BY <1>2, <1>5, <1>7, <2>1, <2>2, HoldersSame, HomesGoOn, Kinds
<1>12. RegisteredOK'
  <2>1. registered[i] = 0
    BY <1>1, <1>2 DEF RegisteredOK
  <2> QED BY <1>2, <1>5, <2>1, HoldersSame, RegisteredGoesOn, Kinds
<1> QED BY <1>6, <1>8, <1>9, <1>10, <1>11, <1>12 DEF LifeInv

LEMMA RegisterStep ==
  ASSUME LifeInv, NEW i \in Isolates, Register(i)
  PROVE  LifeInv'
<1>1. /\ Typed /\ Counts /\ Tasks /\ HomesOK /\ RegisteredOK /\ \A e \in Entities : AliveOK(e)
      /\ TypeOK /\ PendingType /\ ParentType /\ JobsOK
  BY DEF LifeInv, Typed
<1>2. /\ registered' = [registered EXCEPT ![i] = gen[i]] /\ i \in app
      /\ UNCHANGED <<gen, created, refs, parent, home, app, job, holder, pending>>
  BY DEF Register
<1>3. \A h, e : /\ HeldByApp(h, e)' <=> HeldByApp(h, e)
                /\ HeldByChild(h, e)' <=> HeldByChild(h, e)
                /\ HeldByJob(h, e)' <=> HeldByJob(h, e)
                /\ HeldByTask(h, e)' <=> HeldByTask(h, e)
  BY <1>2, HoldersSame
<1>4. HomesStay
  BY <1>2 DEF HomesStay
<1>5. Typed'
  BY <1>1, <1>2 DEF Typed, TypeOK, PendingType, ParentType, JobsOK, Empty, Ended
<1>6. Counts'
  BY <1>1, <1>2, <1>3 DEF Counts, Counted, Holders
<1>7. \A e \in Entities : AliveOK(e)'
  BY <1>1, <1>2 DEF AliveOK
<1>8. Tasks'
  BY <1>2, <1>4, TasksQuiet
<1>9. HomesOK'
  BY <1>2, <1>4, HomesGoOn, HoldersSame DEF InUse
<1>10. RegisteredOK'
  <2>1. refs[i] > 0
    BY <1>1, <1>2, HeldExists
  <2>2. /\ \A k \in Isolates : k # i => registered'[k] = registered[k]
        /\ registered'[i] = gen[i]
    BY <1>1, <1>2 DEF TypeOK
  <2> QED BY <1>2, <2>1, <2>2, HoldersSame, RegisteredGoesOn
<1> QED BY <1>5, <1>6, <1>7, <1>8, <1>9, <1>10 DEF LifeInv

LEMMA MakeFromStep ==
  ASSUME LifeInv, NEW e, NEW p, MakeFrom(e, p),
         (e \in Contexts /\ p \in Isolates) \/ (e \in Scripts /\ p \in Contexts)
  PROVE  LifeInv'
<1>1. /\ Typed /\ Counts /\ Tasks /\ HomesOK /\ RegisteredOK /\ \A d \in Entities : AliveOK(d)
      /\ TypeOK /\ PendingType /\ ParentType /\ JobsOK
  BY DEF LifeInv, Typed
<1>0. /\ refs \in [Entities -> Nat] /\ home \in [Globals -> 0..MaxCreated]
      /\ parent \in [Entities -> Isolates \cup Contexts \cup {Nothing}]
  BY <1>1 DEF TypeOK
<1>2. /\ p \in app /\ refs[e] = 0 /\ home[e] = 0
      /\ refs' = [refs EXCEPT ![e] = 1, ![p] = @ + 1]
      /\ parent' = [parent EXCEPT ![e] = p]
      /\ home' = [home EXCEPT ![e] = gen[IsolateOf(p)]]
      /\ app' = app \cup {e}
      /\ UNCHANGED <<gen, created, registered, job, holder, pending>>
  BY DEF MakeFrom, Unused, isolateVars
<1>3. /\ e \in Entities /\ p \in Entities /\ e # p /\ e \notin Isolates /\ e \notin Jobs
      /\ e \in Globals /\ p # Nothing
  BY Kinds
<1>4. refs[p] > 0 /\ refs[p] \in Nat
  BY <1>1, <1>2, <1>3, HeldExists DEF TypeOK
<1>5. /\ gen[IsolateOf(p)] = home[p] /\ home[p] # 0 /\ IsolateOf(p) \in Isolates
  BY <1>3, <1>4, TheIsolate
<1>6. parent[e] = Nothing
  BY <1>1, <1>2, <1>3 DEF AliveOK
<1>7. /\ refs' \in [Entities -> Nat] /\ refs'[e] = 1 /\ refs'[p] = refs[p] + 1
      /\ \A d \in Entities \ {e, p} : refs'[d] = refs[d]
      /\ home' \in [Globals -> 0..MaxCreated] /\ home'[e] = home[p]
      /\ \A g \in Globals \ {e} : home'[g] = home[g]
      /\ parent' \in [Entities -> Isolates \cup Contexts \cup {Nothing}] /\ parent'[e] = p
      /\ \A d \in Entities \ {e} : parent'[d] = parent[d]
  <2>1. home[p] \in 0..MaxCreated /\ p \in Isolates \cup Contexts \cup {Nothing}
    BY <1>0, <1>3, Kinds
  <2>2. /\ refs' \in [Entities -> Nat] /\ refs'[e] = 1 /\ refs'[p] = refs[p] + 1
        /\ \A d \in Entities \ {e, p} : refs'[d] = refs[d]
    BY <1>0, <1>2, <1>3, <1>4
  <2>3. /\ home' \in [Globals -> 0..MaxCreated] /\ home'[e] = home[p]
        /\ \A g \in Globals \ {e} : home'[g] = home[g]
    BY <1>0, <1>2, <1>3, <1>5, <2>1
  <2>4. /\ parent' \in [Entities -> Isolates \cup Contexts \cup {Nothing}] /\ parent'[e] = p
        /\ \A d \in Entities \ {e} : parent'[d] = parent[d]
    BY <1>0, <1>2, <1>3, <2>1
  <2> QED BY <2>2, <2>3, <2>4
<1>8. Typed'
  <2>1. TypeOK'
    BY <1>1, <1>2, <1>3, <1>7 DEF TypeOK
  <2>2. ParentType'
    BY <1>1, <1>7, Kinds DEF ParentType
  <2> QED BY <1>1, <1>2, <2>1, <2>2 DEF Typed, PendingType, JobsOK, Empty, Ended
<1>9. HomesStay
  BY <1>2, <1>7, Kinds DEF HomesStay
<1>10. Counts'
  <2>1. \A h, d : /\ HeldByJob(h, d)' <=> HeldByJob(h, d)
                  /\ HeldByTask(h, d)' <=> HeldByTask(h, d)
    BY <1>2, HoldersSame
  <2>2. /\ Hold("app", App, 0) \in Holds /\ Hold("child", e, 0) \in Holds
        /\ \A d \in Entities : Hold("child", d, 0) = Hold("child", e, 0) => d = e
    BY <1>3 DEF Hold, Holds, Threads
  <2>3. ASSUME NEW d \in Entities, d # e, d # p
        PROVE  Counted(d)'
    <3>1. \A h : HeldByApp(h, d)' <=> HeldByApp(h, d)
      BY <1>2, <2>3 DEF HeldByApp
    <3>2. \A h : HeldByChild(h, d)' <=> HeldByChild(h, d)
      BY <1>3, <1>6, <1>7, <2>3, Kinds DEF HeldByChild
    <3>3. Holders(d)' = Holders(d)
      BY <2>1, <3>1, <3>2 DEF Holders
    <3> QED BY <1>1, <1>7, <2>3, <3>3, CountSame DEF Counts
  <2>4. Counted(e)'
    <3>1. Holders(e) = {} /\ Counted(e)
      BY <1>1, <1>2, <1>3, CountZero DEF Counts
    <3>2. \A h : HeldByApp(h, e)' <=> h = Hold("app", App, 0)
      BY <1>2 DEF HeldByApp
    <3>3. \A h : HeldByChild(h, e)' <=> HeldByChild(h, e)
      BY <1>3, <1>6, <1>7, Kinds DEF HeldByChild
    <3>4. \A h \in Holds : ~(\/ HeldByChild(h, e) \/ HeldByJob(h, e)
                             \/ HeldByTask(h, e))
      BY <3>1 DEF Holders
    <3>5. Holders(e)' = Holders(e) \cup {Hold("app", App, 0)}
      BY <2>1, <2>2, <3>1, <3>2, <3>3, <3>4 DEF Holders
    <3>6. (refs[e])' = refs[e] + 1 /\ Hold("app", App, 0) \notin Holders(e)
      BY <1>2, <1>7, <3>1
    <3> QED BY <3>1, <3>5, <3>6, CountGain
  <2>5. Counted(p)'
    <3>1. \A h : HeldByApp(h, p)' <=> HeldByApp(h, p)
      BY <1>2, <1>3 DEF HeldByApp
    <3>2. \A h : HeldByChild(h, p)' <=> HeldByChild(h, p) \/ h = Hold("child", e, 0)
      BY <1>3, <1>6, <1>7 DEF HeldByChild
    <3>3. ~HeldByChild(Hold("child", e, 0), p)
      BY <1>3, <1>6, <2>2, Kinds DEF HeldByChild
    <3>4. Hold("child", e, 0) \notin Holders(p)
      BY <3>3 DEF Holders, HeldByApp, HeldByJob, HeldByTask, Hold
    <3>5. Holders(p)' = Holders(p) \cup {Hold("child", e, 0)}
      BY <2>1, <2>2, <3>1, <3>2 DEF Holders
    <3>6. (refs[p])' = refs[p] + 1 /\ Counted(p)
      BY <1>1, <1>3, <1>7 DEF Counts
    <3> QED BY <3>4, <3>5, <3>6, CountGain
  <2> QED BY <2>3, <2>4, <2>5 DEF Counts
<1>11. \A d \in Entities : AliveOK(d)'
  <2>1. AliveOK(e)'
    BY <1>3, <1>5, <1>7, Kinds DEF AliveOK
  <2>2. ASSUME NEW d \in Entities, d # e, refs[d] = 0
        PROVE  AliveOK(d)'
    BY <1>1, <1>4, <1>7, <2>2 DEF AliveOK
  <2>3. ASSUME NEW d \in Entities, d # e, refs[d] # 0
        PROVE  AliveOK(d)'
    <3>1. refs[d] > 0 /\ refs'[d] # 0
      BY <1>1, <1>7, <2>3 DEF TypeOK
    <3> QED BY <1>7, <1>9, <2>3, <3>1, AliveStays
  <2> QED BY <2>1, <2>2, <2>3
<1>12. Tasks'
  <2>1. \A d \in Entities : refs[d] = 0 /\ refs'[d] # 0 => d = e
    BY <1>4, <1>7
  <2> QED BY <1>2, <1>3, <1>7, <1>9, <2>1, TasksQuiet
<1>13. HomesOK'
  <2>1. \A g \in Globals : InUse(g) => InUse(g)'
    BY <1>2, <1>4, <1>7, Kinds DEF InUse
  <2>2. InUse(e)'
    BY <1>3, <1>7 DEF InUse
  <2>3. \A j \in Jobs : home'[j] = home[j]
    BY <1>3, <1>7, Kinds
  <2> QED BY <1>2, <1>7, <1>9, <2>1, <2>2, <2>3, HoldersSame, HomesGoOn
<1>14. RegisteredOK'
  <2>1. \A i \in Isolates : refs[i] > 0 => refs'[i] > 0
    BY <1>4, <1>7, Kinds
  <2> QED BY <1>2, <2>1, HoldersSame, RegisteredGoesOn
<1> QED BY <1>8, <1>10, <1>11, <1>12, <1>13, <1>14 DEF LifeInv

\* Somebody else holds what is held.
LEMMA OneMore ==
  ASSUME refs \in [Entities -> Nat], NEW s \in Entities, refs[s] > 0,
         refs' = [refs EXCEPT ![s] = @ + 1]
  PROVE  /\ refs' \in [Entities -> Nat] /\ refs'[s] = refs[s] + 1
         /\ \A d \in Entities : d # s => refs'[d] = refs[d]
         /\ \A d \in Entities :
              /\ refs[d] = 0 => d # s /\ refs'[d] = 0
              /\ refs[d] # 0 => refs[d] > 0 /\ refs'[d] > 0 /\ refs'[d] # 0
              /\ refs'[d] > 0 => refs[d] > 0
<1>1. refs' \in [Entities -> Nat] /\ refs'[s] = refs[s] + 1
  OBVIOUS
<1>2. \A d \in Entities : d # s => refs'[d] = refs[d]
  OBVIOUS
<1>3. \A d \in Entities : refs[d] \in Nat /\ refs'[d] \in Nat
  BY <1>1
<1> QED BY <1>1, <1>2, <1>3

LEMMA StartJobStep ==
  ASSUME LifeInv, NEW s \in Scripts, NEW j \in Jobs,
         NEW now \in {"queued thread", "queued async"}, StartJob(s, j, now)
  PROVE  LifeInv'
<1>1. /\ Typed /\ Counts /\ Tasks /\ HomesOK /\ RegisteredOK /\ \A d \in Entities : AliveOK(d)
      /\ TypeOK /\ PendingType /\ ParentType /\ JobsOK
  BY DEF LifeInv, Typed
<1>2. /\ s \in app /\ pending[App] = <<>> /\ pending[j] = <<>> /\ job[j].state = "idle"
      /\ job' = [job EXCEPT ![j] = [state |-> now, script |-> s]]
      /\ refs' = [refs EXCEPT ![s] = @ + 1]
      /\ UNCHANGED <<gen, created, registered, parent, home, app, holder, pending>>
  BY DEF StartJob, AppIdle, isolateVars
<1>3. /\ s \in Entities /\ s \notin Isolates /\ s # Nothing /\ job[j].script = Nothing
      /\ now \in JobStates /\ now \notin {"idle", "failed", "ready"}
  BY <1>1, <1>2, Kinds DEF JobsOK, Empty, Ended, JobStates
<1>4. refs[s] > 0 /\ refs[s] \in Nat
  BY <1>1, <1>2, <1>3, HeldExists DEF TypeOK
<1>0. /\ refs \in [Entities -> Nat]
      /\ job \in [Jobs -> [state : JobStates, script : Scripts \cup {Nothing}]]
  BY <1>1 DEF TypeOK
<1>13. /\ refs' \in [Entities -> Nat] /\ refs'[s] = refs[s] + 1
       /\ \A d \in Entities : d # s => refs'[d] = refs[d]
       /\ \A d \in Entities :
            /\ refs[d] = 0 => d # s /\ refs'[d] = 0
            /\ refs[d] # 0 => refs[d] > 0 /\ refs'[d] > 0 /\ refs'[d] # 0
            /\ refs'[d] > 0 => refs[d] > 0
  BY <1>0, <1>2, <1>3, <1>4, OneMore
<1>5. /\ job' \in [Jobs -> [state : JobStates, script : Scripts \cup {Nothing}]]
      /\ job'[j].state = now /\ job'[j].script = s
      /\ \A k \in Jobs \ {j} : job'[k] = job[k]
  BY <1>0, <1>2, <1>3
<1>6. Typed'
  <2>1. TypeOK'
    BY <1>1, <1>2, <1>5, <1>13 DEF TypeOK
  <2>2. JobsOK'
    BY <1>1, <1>2, <1>3, <1>5 DEF JobsOK, Empty, Ended
  <2> QED BY <1>1, <1>2, <2>1, <2>2 DEF Typed, PendingType, ParentType
<1>7. HomesStay
  BY <1>2 DEF HomesStay
<1>8. Counts'
  <2>1. \A h, d : /\ HeldByApp(h, d)' <=> HeldByApp(h, d)
                  /\ HeldByChild(h, d)' <=> HeldByChild(h, d)
                  /\ HeldByTask(h, d)' <=> HeldByTask(h, d)
    BY <1>2, HoldersSame
  <2>3. /\ Hold("job", j, 0) \in Holds
        /\ \A k \in Jobs : Hold("job", k, 0) = Hold("job", j, 0) => k = j
    BY DEF Hold, Holds, Threads
  <2>4. ASSUME NEW d \in Entities, d # s
        PROVE  Counted(d)'
    <3>1. \A h : HeldByJob(h, d)' <=> HeldByJob(h, d)
      BY <1>3, <1>5, <2>4, Kinds DEF HeldByJob
    <3>2. Holders(d)' = Holders(d)
      BY <2>1, <3>1 DEF Holders
    <3> QED BY <1>1, <1>13, <2>4, <3>2, CountSame DEF Counts
  <2>5. Counted(s)'
    <3>1. \A h : HeldByJob(h, s)' <=> HeldByJob(h, s) \/ h = Hold("job", j, 0)
      BY <1>3, <1>5 DEF HeldByJob
    <3>2. ~HeldByJob(Hold("job", j, 0), s)
      BY <1>3, <2>3 DEF HeldByJob
    <3>3. Hold("job", j, 0) \notin Holders(s)
      BY <3>2 DEF Holders, HeldByApp, HeldByChild, HeldByTask, Hold
    <3>4. Holders(s)' = Holders(s) \cup {Hold("job", j, 0)}
      BY <2>1, <2>3, <3>1 DEF Holders
    <3>5. (refs[s])' = refs[s] + 1 /\ Counted(s)
      BY <1>1, <1>3, <1>13 DEF Counts
    <3> QED BY <3>3, <3>4, <3>5, CountGain
  <2> QED BY <2>4, <2>5 DEF Counts
<1>9. \A d \in Entities : AliveOK(d)'
  <2>1. TAKE d \in Entities
  <2>2. AliveOK(d) /\ refs[d] \in Nat
    BY <1>0, <1>1
  <2>3. CASE refs[d] = 0
    BY <1>2, <1>13, <2>2, <2>3 DEF AliveOK
  <2>4. CASE refs[d] # 0
    <3>1. refs[d] > 0 /\ refs'[d] # 0
      BY <1>13, <2>4
    <3> QED BY <1>2, <1>7, <3>1, AliveStays
  <2> QED BY <2>3, <2>4
<1>10. Tasks'
  <2> QED BY <1>2, <1>7, <1>13, TasksQuiet
<1>11. HomesOK'
  <2>1. \A g \in Globals : InUse(g) => InUse(g)'
    <3>1. \A k \in Jobs : job[k].state \in {"ready", "failed"} => job'[k] = job[k]
      BY <1>2, <1>5
    <3> QED BY <1>13, <3>1, Kinds DEF InUse
  <2> QED BY <1>2, <1>3, <1>5, <1>7, <2>1, HoldersSame, HomesGoOn
<1>12. RegisteredOK'
  <2>1. \A i \in Isolates : refs[i] > 0 => refs'[i] > 0
    BY <1>13, Kinds
  <2> QED BY <1>2, <2>1, HoldersSame, RegisteredGoesOn
<1> QED BY <1>6, <1>8, <1>9, <1>10, <1>11, <1>12 DEF LifeInv

\* Isolate::operator() takes the Locker and gives it up.
LEMMA HolderStep ==
  ASSUME LifeInv, holder' \in [Isolates -> Threads \cup {NoThread}],
         UNCHANGED <<gen, created, refs, parent, home, registered, app, job, pending>>
  PROVE  LifeInv'
<1>1. /\ Typed /\ Counts /\ Tasks /\ HomesOK /\ RegisteredOK /\ \A d \in Entities : AliveOK(d)
      /\ TypeOK /\ PendingType /\ ParentType /\ JobsOK
  BY DEF LifeInv, Typed
<1>2. \A h, e : /\ HeldByApp(h, e)' <=> HeldByApp(h, e)
                /\ HeldByChild(h, e)' <=> HeldByChild(h, e)
                /\ HeldByJob(h, e)' <=> HeldByJob(h, e)
                /\ HeldByTask(h, e)' <=> HeldByTask(h, e)
  BY HoldersSame
<1>3. HomesStay
  BY DEF HomesStay
<1>4. Typed'
  BY <1>1 DEF Typed, TypeOK, PendingType, ParentType, JobsOK, Empty, Ended
<1>5. Counts'
  BY <1>1, <1>2 DEF Counts, Counted, Holders
<1>6. \A e \in Entities : AliveOK(e)'
  BY <1>1 DEF AliveOK
<1>7. Tasks'
  BY <1>3, TasksQuiet
<1>8. HomesOK'
  BY <1>3, HomesGoOn, HoldersSame DEF InUse
<1>9. RegisteredOK'
  BY HoldersSame, RegisteredGoesOn
<1> QED BY <1>4, <1>5, <1>6, <1>7, <1>8, <1>9 DEF LifeInv

-------------------------------------------------------------------------------
(* Steps of jobs that begin no destructor.                                 *)

\* A job goes on, with the script it has.
LEMMA JobGoesOn ==
  ASSUME LifeInv, NEW j \in Jobs, ~Ended(j), ~Ended(j)',
         job' \in [Jobs -> [state : JobStates, script : Scripts \cup {Nothing}]],
         job'[j].script = job[j].script,
         \A k \in Jobs \ {j} : job'[k] = job[k],
         holder' \in [Isolates -> Threads \cup {NoThread}],
         UNCHANGED <<gen, created, refs, parent, home, registered, app, pending>>
  PROVE  LifeInv'
<1>1. /\ Typed /\ Counts /\ Tasks /\ HomesOK /\ RegisteredOK /\ \A d \in Entities : AliveOK(d)
      /\ TypeOK /\ PendingType /\ ParentType /\ JobsOK
  BY DEF LifeInv, Typed
<1>2. \A h, e : /\ HeldByApp(h, e)' <=> HeldByApp(h, e)
                /\ HeldByChild(h, e)' <=> HeldByChild(h, e)
                /\ HeldByTask(h, e)' <=> HeldByTask(h, e)
  BY HoldersSame
<1>3. \A h, e : HeldByJob(h, e)' <=> HeldByJob(h, e)
  <2>1. \A k \in Jobs : job'[k].script = job[k].script
    OBVIOUS
  <2> QED BY <2>1 DEF HeldByJob
<1>4. HomesStay
  BY DEF HomesStay
<1>5. Typed'
  <2>1. TypeOK' /\ PendingType' /\ ParentType'
    BY <1>1 DEF TypeOK, PendingType, ParentType
  <2>2. JobsOK'
    BY <1>1 DEF JobsOK, Empty, Ended
  <2> QED BY <2>1, <2>2 DEF Typed
<1>6. Counts'
  BY <1>1, <1>2, <1>3 DEF Counts, Counted, Holders
<1>7. \A e \in Entities : AliveOK(e)'
  BY <1>1 DEF AliveOK
<1>8. Tasks'
  <2>1. \A k \in Jobs : job[k].state = "idle" => job'[k].state = "idle"
    BY DEF Ended, Empty
  <2> QED BY <1>4, <2>1, TasksQuiet
<1>9. HomesOK'
  <2>1. \A k \in Jobs : job'[k].state = "ready" => job'[k] = job[k]
    BY DEF Ended
  <2>2. \A g \in Globals : InUse(g) => InUse(g)'
    BY DEF InUse, Ended, Empty
  <2> QED BY <1>4, <2>1, <2>2, HoldersSame, HomesGoOn
<1>10. RegisteredOK'
  BY HoldersSame, RegisteredGoesOn
<1> QED BY <1>5, <1>6, <1>7, <1>8, <1>9, <1>10 DEF LifeInv

LEMMA UnlockType ==
  ASSUME Typed, NEW j \in Jobs, Unlock(j)
  PROVE  holder' \in [Isolates -> Threads \cup {NoThread}]
BY DEF Typed, TypeOK, Unlock

LEMMA LockStep ==
  ASSUME LifeInv, NEW j \in Jobs, Lock(j)
  PROVE  LifeInv'
<1>1. Typed /\ job \in [Jobs -> [state : JobStates, script : Scripts \cup {Nothing}]]
      /\ holder \in [Isolates -> Threads \cup {NoThread}] /\ j \in Threads
  BY Kinds DEF LifeInv, Typed, TypeOK
<1>2. /\ job[j].state \in {"queued thread", "queued async"}
      /\ job' = [job EXCEPT ![j].state =
                   IF @ = "queued thread" THEN "running thread" ELSE "running async"]
      /\ \E i : holder' = [holder EXCEPT ![i] = j]
      /\ UNCHANGED <<gen, created, refs, parent, home, registered, app, pending>>
  BY DEF Lock, Queued, isolateVars
<1>3. holder' \in [Isolates -> Threads \cup {NoThread}]
  BY <1>1, <1>2
<1>4. /\ job' \in [Jobs -> [state : JobStates, script : Scripts \cup {Nothing}]]
      /\ job'[j].script = job[j].script
      /\ job'[j].state \in {"running thread", "running async"}
      /\ \A k \in Jobs \ {j} : job'[k] = job[k]
  BY <1>1, <1>2 DEF JobStates
<1>5. ~Ended(j) /\ ~Ended(j)'
  BY <1>2, <1>4 DEF Ended, Empty
<1> QED BY <1>2, <1>3, <1>4, <1>5, JobGoesOn

LEMMA FailThreadStep ==
  ASSUME LifeInv, NEW j \in Jobs, FailThread(j)
  PROVE  LifeInv'
<1>1. Typed /\ job \in [Jobs -> [state : JobStates, script : Scripts \cup {Nothing}]]
      /\ holder \in [Isolates -> Threads \cup {NoThread}]
  BY DEF LifeInv, Typed, TypeOK
<1>2. /\ job[j].state = "running thread"
      /\ job' = [job EXCEPT ![j].state = "terminated"]
      /\ UNCHANGED <<gen, created, refs, parent, home, registered, app, holder, pending>>
  BY DEF FailThread, isolateVars
<1>3. /\ job' \in [Jobs -> [state : JobStates, script : Scripts \cup {Nothing}]]
      /\ job'[j].script = job[j].script /\ job'[j].state = "terminated"
      /\ \A k \in Jobs \ {j} : job'[k] = job[k]
  BY <1>1, <1>2 DEF JobStates
<1>4. ~Ended(j) /\ ~Ended(j)'
  BY <1>2, <1>3 DEF Ended, Empty
<1> QED BY <1>1, <1>2, <1>3, <1>4, JobGoesOn

LEMMA DropExceptionStep ==
  ASSUME LifeInv, NEW j \in Jobs, DropException(j)
  PROVE  LifeInv'
<1>1. /\ Typed /\ Counts /\ Tasks /\ HomesOK /\ RegisteredOK /\ \A d \in Entities : AliveOK(d)
      /\ TypeOK /\ PendingType /\ ParentType /\ JobsOK
  BY DEF LifeInv, Typed
<1>2. /\ pending[App] = <<>> /\ job[j].state = "failed"
      /\ home' = [home EXCEPT ![j] = 0]
      /\ job' = [job EXCEPT ![j] = [state |-> "idle", script |-> Nothing]]
      /\ UNCHANGED <<gen, created, registered, refs, parent, app, holder, pending>>
  BY DEF DropException, AppIdle, isolateVars
<1>3. /\ job \in [Jobs -> [state : JobStates, script : Scripts \cup {Nothing}]]
      /\ home \in [Globals -> 0..MaxCreated] /\ "idle" \in JobStates /\ 0 \in 0..MaxCreated
      /\ j \in Globals
  <2>1. 0 \in 0..MaxCreated /\ j \in Globals
    BY Kinds
  <2> QED BY <1>1, <2>1 DEF TypeOK, JobStates
<1>4. /\ job' \in [Jobs -> [state : JobStates, script : Scripts \cup {Nothing}]]
      /\ job'[j].state = "idle" /\ job'[j].script = Nothing
      /\ \A k \in Jobs \ {j} : job'[k] = job[k]
      /\ home' \in [Globals -> 0..MaxCreated] /\ home'[j] = 0
      /\ \A g \in Globals \ {j} : home'[g] = home[g]
  BY <1>2, <1>3
<1>5. Typed'
  <2>1. TypeOK'
    BY <1>1, <1>2, <1>4 DEF TypeOK
  <2>2. JobsOK'
    BY <1>1, <1>2, <1>4 DEF JobsOK, Empty, Ended
  <2> QED BY <1>1, <1>2, <2>1, <2>2 DEF Typed, PendingType, ParentType
<1>6. HomesStay
  BY <1>2, <1>4, Kinds DEF HomesStay
<1>7. Counts'
  <2>1. \A h, d : /\ HeldByApp(h, d)' <=> HeldByApp(h, d)
                  /\ HeldByChild(h, d)' <=> HeldByChild(h, d)
                  /\ HeldByTask(h, d)' <=> HeldByTask(h, d)
    BY <1>2, HoldersSame
  <2>2. job[j].script = Nothing
    BY <1>1, <1>2 DEF JobsOK, Empty
  <2>3. \A k \in Jobs : job'[k].script = job[k].script
    BY <1>4, <2>2
  <2>4. \A h, d : HeldByJob(h, d)' <=> HeldByJob(h, d)
    BY <2>3 DEF HeldByJob
  <2> QED BY <1>1, <1>2, <2>1, <2>4 DEF Counts, Counted, Holders
<1>8. \A d \in Entities : AliveOK(d)'
  BY <1>1, <1>2, <1>4, <1>6, AliveSame
<1>9. Tasks'
  <2>1. ~Over(j)
    BY <1>2 DEF Over
  <2> QED BY <1>2, <1>4, <1>6, <2>1, TasksQuiet
<1>10. HomesOK'
  <2>1. \A g \in Globals \ {j} : InUse(g) => InUse(g)'
    BY <1>2, <1>4 DEF InUse
  <2>2. \A k \in Jobs : job'[k].state = "ready" => job'[k] = job[k] /\ home'[k] = home[k]
    BY <1>4, Kinds
  <2> QED BY <1>2, <1>4, <1>6, <2>1, <2>2, HoldersSame, HomesGoOn
<1>11. RegisteredOK'
  BY <1>2, HoldersSame, RegisteredGoesOn
<1> QED BY <1>5, <1>7, <1>8, <1>9, <1>10, <1>11 DEF LifeInv

-------------------------------------------------------------------------------
(* Steps that begin destructors or go on with them.                        *)

\* What a thread other than t has to do, and what is beyond the part that t has done.
Still(t, kept, u, n) == u # t \/ n < kept

LEMMA Remains ==
  ASSUME NEW t \in Threads, NEW kept, NEW more, ToDoStep(t, kept, more),
         NEW u \in Threads, NEW n \in Nat, NEW o \in Ops
  PROVE  /\ ToDo(u, n, o) /\ Still(t, kept, u, n) => ToDo(u, n, o)'
         /\ ToDo(u, n, o)' =>
              \/ ToDo(u, n, o) /\ Still(t, kept, u, n)
              \/ u = t /\ <<n, o>> \in more
<1>1. CASE u # t
  <2>1. ToDo(u, n, o)' <=> ToDo(u, n, o)
    BY <1>1 DEF ToDoStep
  <2> QED BY <1>1, <2>1 DEF Still
<1>2. CASE u = t
  <2>1. ToDo(t, n, o)' <=> (n < kept /\ ToDo(t, n, o)) \/ <<n, o>> \in more
    BY DEF ToDoStep
  <2>2. Still(t, kept, u, n) <=> n < kept
    BY <1>2 DEF Still
  <2> QED BY <1>2, <2>1, <2>2
<1> QED BY <1>1, <1>2

LEMMA StillBefore ==
  ASSUME NEW t, NEW kept \in Nat, NEW u, NEW n \in Nat, n > 0, Still(t, kept, u, n)
  PROVE  n - 1 \in Nat /\ Still(t, kept, u, n - 1)
BY DEF Still

\* Of what was to be done and still is, what a v8::Global needs remains.
LEMMA ResetRemains ==
  ASSUME LifeInv, HomesStay, NEW t \in Threads, NEW kept \in Nat, NEW more,
         ToDoStep(t, kept, more),
         \A e \in Entities : refs[e] = 0 => refs'[e] = 0,
         \A j \in Jobs : job[j].state = "idle" => job'[j].state = "idle",
         NEW u \in Threads, NEW n \in Nat, NEW g \in Globals,
         ToDo(u, n, Reset(g)), Still(t, kept, u, n), home'[g] = home[g],
         \A i \in Isolates, m \in Nat :
           ToDo(u, m, Dispose(i)) /\ Still(t, kept, u, m) => gen'[i] = gen[i]
  PROVE  ResetOK(u, n, g)'
<1>1. ResetOK(u, n, g)
  BY DEF LifeInv, Tasks, ResetsOK
<1>2. Over(g)'
  <2>1. Over(g) /\ (g \in Jobs \/ g \in Entities)
    BY <1>1, Kinds DEF ResetOK
  <2> QED BY <2>1 DEF Over
<1>3. n - 1 \in Nat /\ Still(t, kept, u, n - 1)
  <2>1. n > 0
    BY <1>1 DEF ResetOK
  <2> QED BY <2>1, StillBefore
<1>4. g \in Isolates => gen'[g] = gen[g]
  BY <1>1, <1>3 DEF ResetOK
<1>5. ASSUME NEW o \in Ops, ToDo(u, n - 1, o)
      PROVE  ToDo(u, n - 1, o)'
  <2> DEFINE m == n - 1
  <2>1. m \in Nat /\ Still(t, kept, u, m) /\ ToDo(u, m, o)
    BY <1>3, <1>5
  <2> HIDE DEF m
  <2>2. ToDo(u, m, o)'
    BY <2>1, Remains
  <2> QED BY <2>2 DEF m
<1> QED BY <1>2, <1>4, <1>5, ResetStays

LEMMA ResetsGoOn ==
  ASSUME LifeInv, HomesStay, NEW t \in Threads, NEW kept \in Nat, NEW more,
         ToDoStep(t, kept, more),
         \A e \in Entities : refs[e] = 0 => refs'[e] = 0,
         \A j \in Jobs : job[j].state = "idle" => job'[j].state = "idle",
         \A g \in Globals, u \in Threads, n \in Nat :
           ToDo(u, n, Reset(g)) /\ Still(t, kept, u, n) => home'[g] = home[g],
         \A i \in Isolates, u \in Threads, n \in Nat :
           ToDo(u, n, Dispose(i)) /\ Still(t, kept, u, n) => gen'[i] = gen[i],
         \A g \in Globals, n \in Nat : <<n, Reset(g)>> \in more =>
           /\ ResetOK(t, n, g)'
           /\ \A u \in Threads, m \in Nat : ~ToDo(u, m, Reset(g))
           /\ \A m \in Nat : <<m, Reset(g)>> \in more => m = n
  PROVE  ResetsOK' /\ ResetOnce'
<1>1. ResetOnce
  BY DEF LifeInv, Tasks
<1>2. ASSUME NEW u \in Threads, NEW n \in Nat, NEW g \in Globals
      PROVE  ToDo(u, n, Reset(g))' =>
               \/ ToDo(u, n, Reset(g)) /\ Still(t, kept, u, n)
               \/ u = t /\ <<n, Reset(g)>> \in more
  BY OpKinds, Remains
<1>3. ASSUME NEW u \in Threads, NEW n \in Nat, NEW g \in Globals, ToDo(u, n, Reset(g))'
      PROVE  ResetOK(u, n, g)'
  <2>1. CASE ToDo(u, n, Reset(g)) /\ Still(t, kept, u, n)
    BY <2>1, ResetRemains
  <2>2. CASE u = t /\ <<n, Reset(g)>> \in more
    BY <2>2
  <2> QED BY <1>2, <1>3, <2>1, <2>2
<1>4. ASSUME NEW u \in Threads, NEW v \in Threads, NEW n \in Nat, NEW m \in Nat,
             NEW g \in Globals, ToDo(u, n, Reset(g))', ToDo(v, m, Reset(g))'
      PROVE  u = v /\ n = m
  <2>1. \/ ToDo(u, n, Reset(g)) /\ ToDo(v, m, Reset(g))
        \/ u = t /\ v = t /\ <<n, Reset(g)>> \in more /\ <<m, Reset(g)>> \in more
    BY <1>2, <1>4
  <2> QED BY <1>1, <2>1 DEF ResetOnce
<1> QED BY <1>3, <1>4 DEF ResetsOK, ResetOnce

LEMMA DisposalsGoOn ==
  ASSUME LifeInv, NEW t \in Threads, NEW kept \in Nat, NEW more, ToDoStep(t, kept, more),
         \A e \in Entities : refs[e] = 0 => refs'[e] = 0,
         \A i \in Isolates, u \in Threads, n \in Nat :
           ToDo(u, n, Dispose(i)) /\ Still(t, kept, u, n) => gen'[i] = gen[i],
         \A i \in Isolates, n \in Nat : <<n, Dispose(i)>> \in more =>
           /\ refs'[i] = 0 /\ gen'[i] # 0
           /\ \A u \in Threads, m \in Nat : ~ToDo(u, m, Dispose(i))
           /\ \A m \in Nat : <<m, Dispose(i)>> \in more => m = n
  PROVE  DisposalsOK' /\ DisposeOnce'
<1>1. DisposalsOK /\ DisposeOnce
  BY DEF LifeInv, Tasks
<1>2. ASSUME NEW u \in Threads, NEW n \in Nat, NEW i \in Isolates
      PROVE  ToDo(u, n, Dispose(i))' =>
               \/ ToDo(u, n, Dispose(i)) /\ Still(t, kept, u, n)
               \/ u = t /\ <<n, Dispose(i)>> \in more
  BY OpKinds, Remains
<1>3. ASSUME NEW u \in Threads, NEW n \in Nat, NEW i \in Isolates, ToDo(u, n, Dispose(i))'
      PROVE  refs'[i] = 0 /\ gen'[i] # 0
  <2>1. CASE ToDo(u, n, Dispose(i)) /\ Still(t, kept, u, n)
    BY <1>1, <2>1, Kinds DEF DisposalsOK
  <2>2. CASE u = t /\ <<n, Dispose(i)>> \in more
    BY <2>2
  <2> QED BY <1>2, <1>3, <2>1, <2>2
<1>4. ASSUME NEW u \in Threads, NEW v \in Threads, NEW n \in Nat, NEW m \in Nat,
             NEW i \in Isolates, ToDo(u, n, Dispose(i))', ToDo(v, m, Dispose(i))'
      PROVE  u = v /\ n = m
  <2>1. \/ ToDo(u, n, Dispose(i)) /\ ToDo(v, m, Dispose(i))
        \/ u = t /\ v = t /\ <<n, Dispose(i)>> \in more /\ <<m, Dispose(i)>> \in more
    BY <1>2, <1>4
  <2> QED BY <1>1, <2>1 DEF DisposeOnce
<1> QED BY <1>3, <1>4 DEF DisposalsOK, DisposeOnce

LEMMA CleanupsGoOn ==
  ASSUME LifeInv, NEW t \in Threads, NEW kept \in Nat, NEW more, ToDoStep(t, kept, more),
         \A e \in Entities : refs[e] = 0 => refs'[e] = 0,
         \A i \in Isolates, n \in Nat : <<n, Cleanup(i)>> \in more =>
           n > 0 /\ refs'[i] = 0 /\ ToDo(t, n - 1, Reset(i))'
  PROVE  CleanupsOK'
<1>1. CleanupsOK
  BY DEF LifeInv, Tasks
<1>2. ASSUME NEW u \in Threads, NEW n \in Nat, NEW i \in Isolates, ToDo(u, n, Cleanup(i)),
             Still(t, kept, u, n)
      PROVE  n > 0 /\ refs'[i] = 0 /\ ToDo(u, n - 1, Reset(i))'
  <2>1. n > 0 /\ refs[i] = 0 /\ ToDo(u, n - 1, Reset(i))
    BY <1>1, <1>2 DEF CleanupsOK
  <2>2. n - 1 \in Nat /\ Still(t, kept, u, n - 1)
    BY <1>2, <2>1, StillBefore
  <2>3. ToDo(u, n - 1, Reset(i))'
    <3> DEFINE m == n - 1
    <3>1. m \in Nat /\ Still(t, kept, u, m) /\ ToDo(u, m, Reset(i)) /\ Reset(i) \in Ops
      BY <2>1, <2>2, OpKinds, Kinds
    <3> HIDE DEF m
    <3>2. ToDo(u, m, Reset(i))'
      BY <3>1, Remains
    <3> QED BY <3>2 DEF m
  <2> QED BY <2>1, <2>3, Kinds
<1>3. ASSUME NEW u \in Threads, NEW n \in Nat, NEW i \in Isolates, ToDo(u, n, Cleanup(i))'
      PROVE  \/ ToDo(u, n, Cleanup(i)) /\ Still(t, kept, u, n)
             \/ u = t /\ <<n, Cleanup(i)>> \in more
  BY <1>3, OpKinds, Remains
<1>4. ASSUME NEW u \in Threads, NEW n \in Nat, NEW i \in Isolates, ToDo(u, n, Cleanup(i))'
      PROVE  n > 0 /\ refs'[i] = 0 /\ ToDo(u, n - 1, Reset(i))'
  <2>1. CASE ToDo(u, n, Cleanup(i)) /\ Still(t, kept, u, n)
    BY <1>2, <2>1
  <2>2. CASE u = t /\ <<n, Cleanup(i)>> \in more
    BY <2>2
  <2> QED BY <1>3, <1>4, <2>1, <2>2
<1>5. \A u \in Threads, n \in Nat, i \in Isolates :
        ToDo(u, n, Cleanup(i))' => n > 0 /\ refs'[i] = 0 /\ ToDo(u, n - 1, Reset(i))'
  BY <1>4
<1> QED BY <1>5 DEF CleanupsOK

\* A thread does the first thing it has to do.
LEMMA HeadDone ==
  ASSUME LifeInv, NEW t \in Threads, pending[t] # <<>>, NEW more,
         NEW kept, RestIs(t, kept), ToDoStep(t, kept, more)
  PROVE  /\ kept \in Nat /\ Head(pending[t]) \in Ops /\ ToDo(t, kept, Head(pending[t]))
         /\ \A u \in Threads, n \in Nat, o \in Ops :
              ToDo(u, n, o) => Still(t, kept, u, n) \/ (u = t /\ n = kept /\ o = Head(pending[t]))
         /\ \A u \in Threads, n \in Nat, o \in Ops :
              ToDo(u, n, o) /\ o # Head(pending[t]) => ToDo(u, n, o)'
         /\ t \notin Jobs \/ Ended(t)
<1>1. PendingType /\ JobsOK
  BY DEF LifeInv, Typed
<1>2. /\ kept \in Nat /\ Head(pending[t]) \in Ops /\ ToDo(t, kept, Head(pending[t]))
      /\ \A n, o : ToDo(t, n, o) => n < kept \/ (n = kept /\ o = Head(pending[t]))
  BY <1>1, Doing1
<1>3. t \notin Jobs \/ Ended(t)
  BY <1>1 DEF JobsOK, Empty, Ended
<1>4. ASSUME NEW u \in Threads, NEW n \in Nat, NEW o \in Ops, ToDo(u, n, o)
      PROVE  /\ Still(t, kept, u, n) \/ (u = t /\ n = kept /\ o = Head(pending[t]))
             /\ o # Head(pending[t]) => ToDo(u, n, o)'
  <2>1. Still(t, kept, u, n) \/ (u = t /\ n = kept /\ o = Head(pending[t]))
    BY <1>2, <1>4 DEF Still
  <2>2. ToDo(u, n, o) /\ Still(t, kept, u, n) => ToDo(u, n, o)'
    BY <1>2, Remains
  <2> QED BY <1>4, <2>1, <2>2
<1> QED BY <1>2, <1>3, <1>4

\* An operation that gives up no shared_ptr.
LEMMA PopStep ==
  ASSUME LifeInv, NEW t \in Threads, pending[t] # <<>>, Done(t),
         \A e \in Entities : Head(pending[t]) # Unref(e),
         UNCHANGED <<refs, parent, app, job>>
  PROVE  Counts' /\ PendingType' /\ JobsOK' /\ ParentType'
<1>0. PICK kept : RestIs(t, kept)
  BY RestExists
<1>1. /\ Typed /\ PendingType /\ JobsOK /\ ParentType /\ Counts
  BY DEF LifeInv, Typed
<1>2. ToDoStep(t, kept, {})
  BY <1>0, <1>1, Pop
<1>3. /\ \A u \in Threads, n \in Nat, o \in Ops :
           ToDo(u, n, o) /\ o # Head(pending[t]) => ToDo(u, n, o)'
      /\ t \notin Jobs \/ Ended(t)
  BY <1>0, <1>2, HeadDone
<1>4. \A u \in Threads, n \in Nat, o \in Ops : ToDo(u, n, o)' => ToDo(u, n, o)
  BY <1>2 DEF ToDoStep
<1>5. \A e \in Entities, u \in Threads, n \in Nat : ToDo(u, n, Unref(e))' <=> ToDo(u, n, Unref(e))
  BY <1>3, <1>4, OpKinds
<1>6. \A h, e : /\ HeldByApp(h, e)' <=> HeldByApp(h, e)
                /\ HeldByChild(h, e)' <=> HeldByChild(h, e)
                /\ HeldByJob(h, e)' <=> HeldByJob(h, e)
  BY HoldersSame
<1>7. \A e \in Entities : Holders(e)' = Holders(e)
  <2>1. TAKE e \in Entities
  <2>2. \A h : HeldByTask(h, e)' <=> HeldByTask(h, e)
    BY <1>5 DEF HeldByTask
  <2> QED BY <1>6, <2>2 DEF Holders
<1>8. Counts'
  BY <1>1, <1>7 DEF Counts, Counted
<1>9. JobsOK'
  <2>1. \A u \in Threads \ {t} : pending'[u] = pending[u]
    BY <1>1 DEF Done, PendingType
  <2> QED BY <1>1, <1>3, <2>1, Kinds DEF JobsOK, Empty, Ended
<1> QED BY <1>1, <1>2, <1>8, <1>9 DEF ToDoStep, ParentType

LEMMA PendingIsTyped ==
  ASSUME NEW p \in [Threads -> Seq(Ops)]
  PROVE  p \in [Threads -> Seq([op : Operations, of : Globals])]
<1>1. ASSUME NEW t \in Threads
      PROVE  p[t] \in Seq([op : Operations, of : Globals])
  <2>1. Seq(Ops) \subseteq Seq([op : Operations, of : Globals])
    BY OpsType, SeqMonotonic
  <2> QED BY <2>1
<1> QED BY <1>1

LEMMA DoResetStep ==
  ASSUME LifeInv, NEW t \in Threads, DoReset(t)
  PROVE  LifeInv'
<1>0. PICK kept : RestIs(t, kept)
  BY RestExists
<1>1. /\ Typed /\ Counts /\ Tasks /\ HomesOK /\ RegisteredOK /\ \A d \in Entities : AliveOK(d)
      /\ TypeOK /\ PendingType /\ ParentType /\ JobsOK
  BY DEF LifeInv, Typed
<1>2. /\ pending[t] # <<>> /\ Head(pending[t]).op = "reset" /\ Done(t)
      /\ home' = [home EXCEPT ![Head(pending[t]).of] = 0]
      /\ UNCHANGED <<gen, created, registered, refs, parent, app, job, holder>>
  BY DEF DoReset, Doing, Operand, isolateVars
<1>3. ToDoStep(t, kept, {})
  BY <1>0, <1>1, <1>2, Pop
<1>4. /\ kept \in Nat /\ Head(pending[t]) \in Ops /\ ToDo(t, kept, Head(pending[t]))
      /\ \A u \in Threads, n \in Nat, o \in Ops :
           ToDo(u, n, o) => Still(t, kept, u, n) \/ (u = t /\ n = kept /\ o = Head(pending[t]))
      /\ \A u \in Threads, n \in Nat, o \in Ops :
           ToDo(u, n, o) /\ o # Head(pending[t]) => ToDo(u, n, o)'
  BY <1>0, <1>2, <1>3, HeadDone
<1>5. PICK g \in Globals : Head(pending[t]) = Reset(g)
  BY <1>2, <1>4, OpCases DEF Unref, Cleanup, Dispose
<1>6. ResetOK(t, kept, g)
  BY <1>1, <1>4, <1>5 DEF Tasks, ResetsOK
<1>7. /\ home' \in [Globals -> 0..MaxCreated] /\ home'[g] = 0
      /\ \A x \in Globals \ {g} : home'[x] = home[x]
  <2>1. home \in [Globals -> 0..MaxCreated] /\ 0 \in 0..MaxCreated
    BY <1>1 DEF TypeOK
  <2>2. Head(pending[t]).of = g
    BY <1>5 DEF Reset
  <2> QED BY <1>2, <2>1, <2>2
<1>8. PendingType' /\ JobsOK' /\ ParentType' /\ Counts'
  BY <1>2, <1>5, OpsDiffer, PopStep
<1>9. Typed'
  <2>1. pending' \in [Threads -> Seq([op : Operations, of : Globals])]
    BY <1>8, PendingIsTyped DEF PendingType
  <2>2. TypeOK'
    BY <1>1, <1>2, <1>7, <2>1 DEF TypeOK
  <2> QED BY <1>8, <2>2 DEF Typed
<1>10. HomesStay
  <2>1. g \in Entities => refs[g] = 0
    BY <1>6, Kinds DEF ResetOK, Over
  <2> QED BY <1>2, <1>7, <2>1, Kinds DEF HomesStay
<1>11. \A e \in Entities : AliveOK(e)'
  <2>1. TAKE e \in Entities
  <2>2. AliveOK(e) /\ refs[e] \in Nat
    BY <1>1 DEF TypeOK
  <2>3. CASE refs[e] = 0
    BY <1>2, <2>2, <2>3 DEF AliveOK
  <2>4. CASE refs[e] # 0
    <3>1. refs[e] > 0 /\ refs'[e] # 0 /\ parent'[e] = parent[e]
      BY <1>2, <2>2, <2>4
    <3> QED BY <1>10, <3>1, AliveStays
  <2> QED BY <2>3, <2>4
<1>12. Tasks'
  <2>1. \A x \in Globals, u \in Threads, n \in Nat :
          ToDo(u, n, Reset(x)) /\ Still(t, kept, u, n) => home'[x] = home[x]
    <3>1. SUFFICES ASSUME NEW u \in Threads, NEW n \in Nat, ToDo(u, n, Reset(g)),
                          Still(t, kept, u, n)
                   PROVE  FALSE
      BY <1>7
    <3>2. u = t /\ n = kept
      BY <1>1, <1>4, <1>5, <3>1 DEF Tasks, ResetOnce
    <3> QED BY <1>4, <3>1, <3>2 DEF Still
  <2>2. ResetsOK' /\ ResetOnce'
    BY <1>2, <1>3, <1>4, <1>10, <2>1, ResetsGoOn
  <2>3. DisposalsOK' /\ DisposeOnce'
    BY <1>2, <1>3, <1>4, DisposalsGoOn
  <2>4. CleanupsOK'
    BY <1>2, <1>3, <1>4, CleanupsGoOn
  <2> QED BY <2>2, <2>3, <2>4 DEF Tasks
<1>13. HomesOK'
  <2>1. \A x \in Globals \ {g}, u \in Threads, n \in Nat : ToDo(u, n, Reset(x)) => ToDo(u, n, Reset(x))'
    BY <1>4, <1>5, OpKinds, OpsDiffer
  <2>2. \A x \in Globals : InUse(x)' <=> InUse(x)
    BY <1>2 DEF InUse
  <2>3. \A j \in Jobs : job[j].state = "ready" => j # g
    BY <1>6 DEF ResetOK, Over
  <2>4. \A j \in Jobs : job'[j].state = "ready" => job'[j] = job[j] /\ home'[j] = home[j]
    BY <1>2, <1>7, <2>3, Kinds
  <2> QED BY <1>7, <1>10, <2>1, <2>2, <2>4, HomesGoOn
<1>14. RegisteredOK'
  <2>1. \A i \in Isolates, u \in Threads, n \in Nat : ToDo(u, n, Cleanup(i)) => ToDo(u, n, Cleanup(i))'
    BY <1>4, <1>5, OpKinds, OpsDiffer
  <2> QED BY <1>2, <2>1, RegisteredGoesOn
<1> QED BY <1>8, <1>9, <1>11, <1>12, <1>13, <1>14 DEF LifeInv

LEMMA DoCleanupStep ==
  ASSUME LifeInv, NEW t \in Threads, DoCleanup(t)
  PROVE  LifeInv'
<1>0. PICK kept : RestIs(t, kept)
  BY RestExists
<1>1. /\ Typed /\ Counts /\ Tasks /\ HomesOK /\ RegisteredOK /\ \A d \in Entities : AliveOK(d)
      /\ TypeOK /\ PendingType /\ ParentType /\ JobsOK
  BY DEF LifeInv, Typed
<1>2. /\ pending[t] # <<>> /\ Head(pending[t]).op = "cleanup" /\ Done(t)
      /\ registered' = [registered EXCEPT ![Head(pending[t]).of] = 0]
      /\ UNCHANGED <<gen, created, home, refs, parent, app, job, holder>>
  BY DEF DoCleanup, Doing, Operand
<1>3. ToDoStep(t, kept, {})
  BY <1>0, <1>1, <1>2, Pop
<1>4. /\ kept \in Nat /\ Head(pending[t]) \in Ops
      /\ \A u \in Threads, n \in Nat, o \in Ops :
           ToDo(u, n, o) /\ o # Head(pending[t]) => ToDo(u, n, o)'
  BY <1>0, <1>2, <1>3, HeadDone
<1>5. PICK i \in Isolates : Head(pending[t]) = Cleanup(i)
  BY <1>2, <1>4, OpCases DEF Reset, Unref, Dispose
<1>6. /\ registered' \in [Isolates -> 0..MaxCreated] /\ registered'[i] = 0
      /\ \A k \in Isolates \ {i} : registered'[k] = registered[k]
  <2>1. registered \in [Isolates -> 0..MaxCreated] /\ 0 \in 0..MaxCreated
    BY <1>1 DEF TypeOK
  <2>2. Head(pending[t]).of = i
    BY <1>5 DEF Cleanup
  <2> QED BY <1>2, <2>1, <2>2
<1>7. PendingType' /\ JobsOK' /\ ParentType' /\ Counts'
  BY <1>2, <1>5, OpsDiffer, PopStep
<1>8. Typed'
  <2>1. pending' \in [Threads -> Seq([op : Operations, of : Globals])]
    BY <1>7, PendingIsTyped DEF PendingType
  <2>2. TypeOK'
    BY <1>1, <1>2, <1>6, <2>1 DEF TypeOK
  <2> QED BY <1>7, <2>2 DEF Typed
<1>9. HomesStay
  BY <1>2 DEF HomesStay
<1>10. \A e \in Entities : AliveOK(e)'
  BY <1>1, <1>2 DEF AliveOK
<1>11. Tasks'
  <2>1. ResetsOK' /\ ResetOnce'
    BY <1>2, <1>3, <1>4, <1>9, ResetsGoOn
  <2>2. DisposalsOK' /\ DisposeOnce'
    BY <1>2, <1>3, <1>4, DisposalsGoOn
  <2>3. CleanupsOK'
    BY <1>2, <1>3, <1>4, CleanupsGoOn
  <2> QED BY <2>1, <2>2, <2>3 DEF Tasks
<1>12. HomesOK'
  <2>1. \A x \in Globals, u \in Threads, n \in Nat : ToDo(u, n, Reset(x)) => ToDo(u, n, Reset(x))'
    BY <1>4, <1>5, OpKinds, OpsDiffer
  <2>2. \A x \in Globals : InUse(x)' <=> InUse(x)
    BY <1>2 DEF InUse
  <2> QED BY <1>2, <1>9, <2>1, <2>2, HomesGoOn
<1>13. RegisteredOK'
  <2>1. \A k \in Isolates \ {i}, u \in Threads, n \in Nat :
          ToDo(u, n, Cleanup(k)) => ToDo(u, n, Cleanup(k))'
    BY <1>4, <1>5, OpKinds, OpsDiffer
  <2>2. \A k \in Isolates \ {i} :
          registered'[k] = registered[k] /\ gen'[k] = gen[k] /\ refs'[k] = refs[k]
    BY <1>2, <1>6
  <2> QED BY <1>6, <2>1, <2>2, RegisteredGoesOn
<1> QED BY <1>7, <1>8, <1>10, <1>11, <1>12, <1>13 DEF LifeInv

\* What an isolate's destructor has to do before it disposes of the isolate.
LEMMA BeforeDisposal ==
  ASSUME LifeInv, NEW i \in Isolates, NEW t \in Threads, NEW kept \in Nat,
         ToDo(t, kept, Dispose(i))
  PROVE  /\ \A u \in Threads, n \in Nat : ToDo(u, n, Reset(i)) => u = t /\ n = kept + 1
         /\ \A u \in Threads, n \in Nat : ToDo(u, n, Cleanup(i)) => u = t /\ n = kept + 2
<1>1. ResetsOK /\ DisposeOnce /\ CleanupsOK
  BY DEF LifeInv, Tasks
<1>2. ASSUME NEW u \in Threads, NEW n \in Nat, ToDo(u, n, Reset(i))
      PROVE  u = t /\ n = kept + 1
  <2>1. n > 0 /\ ToDo(u, n - 1, Dispose(i))
    BY <1>1, <1>2, Kinds DEF ResetsOK, ResetOK
  <2>2. n - 1 \in Nat
    BY <2>1
  <2>3. u = t /\ n - 1 = kept
    BY <1>1, <2>1, <2>2 DEF DisposeOnce
  <2> QED BY <2>3
<1>3. ASSUME NEW u \in Threads, NEW n \in Nat, ToDo(u, n, Cleanup(i))
      PROVE  u = t /\ n = kept + 2
  <2>1. n > 0 /\ ToDo(u, n - 1, Reset(i))
    BY <1>1, <1>3 DEF CleanupsOK
  <2>2. n - 1 \in Nat
    BY <2>1
  <2>3. u = t /\ n - 1 = kept + 1
    BY <1>2, <2>1, <2>2
  <2> QED BY <2>3
<1> QED BY <1>2, <1>3

LEMMA DoDisposeStep ==
  ASSUME LifeInv, NEW t \in Threads, DoDispose(t)
  PROVE  LifeInv'
<1>0. PICK kept : RestIs(t, kept)
  BY RestExists
<1>1. /\ Typed /\ Counts /\ Tasks /\ HomesOK /\ RegisteredOK /\ \A d \in Entities : AliveOK(d)
      /\ TypeOK /\ PendingType /\ ParentType /\ JobsOK
  BY DEF LifeInv, Typed
<1>2. /\ pending[t] # <<>> /\ Head(pending[t]).op = "dispose" /\ Done(t)
      /\ gen' = [gen EXCEPT ![Head(pending[t]).of] = 0]
      /\ UNCHANGED <<created, registered, home, refs, parent, app, job, holder>>
  BY DEF DoDispose, Doing, Operand
<1>3. ToDoStep(t, kept, {})
  BY <1>0, <1>1, <1>2, Pop
<1>4. /\ kept \in Nat /\ Head(pending[t]) \in Ops /\ ToDo(t, kept, Head(pending[t]))
      /\ \A u \in Threads, n \in Nat, o \in Ops :
           ToDo(u, n, o) => Still(t, kept, u, n) \/ (u = t /\ n = kept /\ o = Head(pending[t]))
      /\ \A u \in Threads, n \in Nat, o \in Ops :
           ToDo(u, n, o) /\ o # Head(pending[t]) => ToDo(u, n, o)'
  BY <1>0, <1>2, <1>3, HeadDone
<1>5. PICK i \in Isolates : Head(pending[t]) = Dispose(i)
  BY <1>2, <1>4, OpCases DEF Reset, Unref, Cleanup
<1>6. /\ gen' \in [Isolates -> 0..MaxCreated]
      /\ \A k \in Isolates \ {i} : gen'[k] = gen[k]
  <2>1. gen \in [Isolates -> 0..MaxCreated] /\ 0 \in 0..MaxCreated
    BY <1>1 DEF TypeOK
  <2>2. Head(pending[t]).of = i
    BY <1>5 DEF Dispose
  <2> QED BY <1>2, <2>1, <2>2
<1>7. refs[i] = 0
  BY <1>1, <1>4, <1>5 DEF Tasks, DisposalsOK
<1>8. /\ \A u \in Threads, n \in Nat : ~ToDo(u, n, Cleanup(i))
      /\ \A u \in Threads, n \in Nat : ToDo(u, n, Dispose(i)) => ~Still(t, kept, u, n)
  <2>1. ASSUME NEW u \in Threads, NEW n \in Nat, ToDo(u, n, Cleanup(i))
        PROVE  FALSE
    <3>1. u = t /\ n = kept + 2
      BY <1>4, <1>5, <2>1, BeforeDisposal
    <3>2. n < kept \/ n = kept
      BY <1>4, <2>1, <3>1, OpKinds DEF Still
    <3> QED BY <1>4, <3>1, <3>2
  <2>2. ASSUME NEW u \in Threads, NEW n \in Nat, ToDo(u, n, Dispose(i))
        PROVE  ~Still(t, kept, u, n)
    <3>1. u = t /\ n = kept
      BY <1>1, <1>4, <1>5, <2>2 DEF Tasks, DisposeOnce
    <3> QED BY <1>4, <3>1 DEF Still
  <2> QED BY <2>1, <2>2
<1>9. PendingType' /\ JobsOK' /\ ParentType' /\ Counts'
  BY <1>2, <1>5, OpsDiffer, PopStep
<1>10. Typed'
  <2>1. pending' \in [Threads -> Seq([op : Operations, of : Globals])]
    BY <1>9, PendingIsTyped DEF PendingType
  <2>2. TypeOK'
    BY <1>1, <1>2, <1>6, <2>1 DEF TypeOK
  <2> QED BY <1>9, <2>2 DEF Typed
<1>11. HomesStay
  BY <1>2, <1>6, <1>7 DEF HomesStay
<1>12. \A e \in Entities : AliveOK(e)'
  <2>1. TAKE e \in Entities
  <2>2. AliveOK(e) /\ refs[e] \in Nat
    BY <1>1 DEF TypeOK
  <2>3. CASE refs[e] = 0
    BY <1>2, <2>2, <2>3 DEF AliveOK
  <2>4. CASE refs[e] # 0
    <3>1. refs[e] > 0 /\ refs'[e] # 0 /\ parent'[e] = parent[e]
      BY <1>2, <2>2, <2>4
    <3> QED BY <1>11, <3>1, AliveStays
  <2> QED BY <2>3, <2>4
<1>13. Tasks'
  <2>1. \A k \in Isolates, u \in Threads, n \in Nat :
          ToDo(u, n, Dispose(k)) /\ Still(t, kept, u, n) => gen'[k] = gen[k]
    BY <1>6, <1>8
  <2>2. ResetsOK' /\ ResetOnce'
    BY <1>2, <1>3, <1>4, <1>11, <2>1, ResetsGoOn
  <2>3. DisposalsOK' /\ DisposeOnce'
    BY <1>2, <1>3, <1>4, <2>1, DisposalsGoOn
  <2>4. CleanupsOK'
    BY <1>2, <1>3, <1>4, CleanupsGoOn
  <2> QED BY <2>2, <2>3, <2>4 DEF Tasks
<1>14. HomesOK'
  <2>1. \A x \in Globals, u \in Threads, n \in Nat : ToDo(u, n, Reset(x)) => ToDo(u, n, Reset(x))'
    BY <1>4, <1>5, OpKinds, OpsDiffer
  <2>2. \A x \in Globals : InUse(x)' <=> InUse(x)
    BY <1>2 DEF InUse
  <2> QED BY <1>2, <1>11, <2>1, <2>2, HomesGoOn
<1>15. RegisteredOK'
  <2>1. registered[i] = 0
    BY <1>1, <1>7, <1>8 DEF RegisteredOK
  <2>2. \A k \in Isolates, u \in Threads, n \in Nat :
          ToDo(u, n, Cleanup(k)) => ToDo(u, n, Cleanup(k))'
    BY <1>4, <1>5, OpKinds, OpsDiffer
  <2>3. \A k \in Isolates : refs'[k] = refs[k] /\ registered'[k] = registered[k]
    BY <1>2
  <2> QED BY <1>6, <2>1, <2>2, <2>3, RegisteredGoesOn
<1> QED BY <1>9, <1>10, <1>12, <1>13, <1>14, <1>15 DEF LifeInv

-------------------------------------------------------------------------------
(* A shared_ptr is given up.                                               *)

\* Who is still to give up a shared_ptr of d, after thread t has given up one of e.
LEMMA TaskHolders ==
  ASSUME PendingType, NEW t \in Threads, pending[t] # <<>>, NEW kept, RestIs(t, kept),
         NEW more, ToDoStep(t, kept, more), NEW e \in Entities, Head(pending[t]) = Unref(e),
         NEW d \in Entities
  PROVE  /\ \A h : HeldByTask(h, d)' <=>
                     \/ HeldByTask(h, d) /\ h # Hold("task", t, kept)
                     \/ \E n \in Nat : h = Hold("task", t, n) /\ <<n, Unref(d)>> \in more
         /\ HeldByTask(Hold("task", t, kept), d) <=> d = e
<1>1. /\ kept \in Nat /\ ToDo(t, kept, Unref(e))
      /\ \A n, o : ToDo(t, n, o) => n < kept \/ (n = kept /\ o = Unref(e))
  BY Doing1
<1>2. \A u, v, n, m : Hold("task", u, n) = Hold("task", v, m) <=> u = v /\ n = m
  BY DEF Hold
<1>3. \A n \in Nat : n < kept => n # kept
  BY <1>1
<1>4. /\ \A u \in Threads \ {t}, n \in Nat : ToDo(u, n, Unref(d))' <=> ToDo(u, n, Unref(d))
      /\ \A n \in Nat : ToDo(t, n, Unref(d))' <=>
           (ToDo(t, n, Unref(d)) /\ n # kept) \/ <<n, Unref(d)>> \in more
  <2>1. Unref(d) \in Ops
    BY OpKinds
  <2>2. \A n \in Nat : n < kept /\ ToDo(t, n, Unref(d)) <=> ToDo(t, n, Unref(d)) /\ n # kept
    BY <1>1, <1>3
  <2> QED BY <2>1, <2>2 DEF ToDoStep
<1>5. ASSUME NEW h
      PROVE  HeldByTask(h, d)' <=>
               \/ HeldByTask(h, d) /\ h # Hold("task", t, kept)
               \/ \E n \in Nat : h = Hold("task", t, n) /\ <<n, Unref(d)>> \in more
  <2>1. ASSUME NEW u \in Threads, NEW n \in Nat, h = Hold("task", u, n), ToDo(u, n, Unref(d))'
        PROVE  \/ HeldByTask(h, d) /\ h # Hold("task", t, kept)
               \/ \E m \in Nat : h = Hold("task", t, m) /\ <<m, Unref(d)>> \in more
    <3>1. CASE ToDo(u, n, Unref(d)) /\ (u # t \/ n # kept)
      <4>1. h # Hold("task", t, kept)
        BY <1>2, <2>1, <3>1
      <4> QED BY <2>1, <3>1, <4>1 DEF HeldByTask
    <3>2. CASE u = t /\ <<n, Unref(d)>> \in more
      BY <2>1, <3>2
    <3> QED BY <1>4, <2>1, <3>1, <3>2
  <2>2. ASSUME NEW u \in Threads, NEW n \in Nat, h = Hold("task", u, n), ToDo(u, n, Unref(d)),
               h # Hold("task", t, kept)
        PROVE  HeldByTask(h, d)'
    <3>1. u # t \/ n # kept
      BY <2>2
    <3>2. ToDo(u, n, Unref(d))'
      BY <1>4, <2>2, <3>1
    <3> QED BY <2>2, <3>2 DEF HeldByTask
  <2>3. ASSUME NEW n \in Nat, h = Hold("task", t, n), <<n, Unref(d)>> \in more
        PROVE  HeldByTask(h, d)'
    BY <1>4, <2>3 DEF HeldByTask
  <2>4. HeldByTask(h, d)' =>
          \E u \in Threads, n \in Nat : h = Hold("task", u, n) /\ ToDo(u, n, Unref(d))'
    BY DEF HeldByTask
  <2>5. HeldByTask(h, d) =>
          \E u \in Threads, n \in Nat : h = Hold("task", u, n) /\ ToDo(u, n, Unref(d))
    BY DEF HeldByTask
  <2> QED BY <2>1, <2>2, <2>3, <2>4, <2>5
<1>6. HeldByTask(Hold("task", t, kept), d) <=> ToDo(t, kept, Unref(d))
  BY <1>1, <1>2 DEF HeldByTask
<1>7. ToDo(t, kept, Unref(d)) <=> d = e
  BY <1>1, ToDoFacts, OpsDiffer
<1> QED BY <1>5, <1>6, <1>7

LEMMA OneLess ==
  ASSUME NEW r \in [Entities -> Nat], NEW e \in Entities, r[e] > 0,
         NEW q, q = [r EXCEPT ![e] = @ - 1]
  PROVE  /\ q \in [Entities -> Nat] /\ q[e] = r[e] - 1
         /\ \A d \in Entities : d # e => q[d] = r[d]
         /\ \A d \in Entities : r[d] = 0 => q[d] = 0
         /\ \A d \in Entities : q[d] # 0 => r[d] > 0
<1>1. q \in [Entities -> Nat] /\ q[e] = r[e] - 1
  OBVIOUS
<1>2. \A d \in Entities : d # e => q[d] = r[d]
  OBVIOUS
<1>3. \A d \in Entities : r[d] \in Nat
  OBVIOUS
<1> QED BY <1>1, <1>2, <1>3

\* Thread t gives up a shared_ptr of e.
UnrefOf(t, kept, e) ==
  /\ Head(pending[t]) = Unref(e) /\ Operand(t) = e /\ pending[t] # <<>>
  /\ kept \in Nat /\ ToDo(t, kept, Unref(e))
  /\ refs[e] > 0 /\ refs[e] \in Nat /\ home[e] # 0
  /\ refs' = [refs EXCEPT ![e] = @ - 1]
  /\ UNCHANGED <<gen, created, registered, home, app, job, holder>>
  /\ t \notin Jobs \/ Ended(t)
  /\ \A u \in Threads \ {t} : pending'[u] = pending[u]

LEMMA UnrefFacts ==
  ASSUME LifeInv, NEW t \in Threads, DoUnref(t), NEW kept, RestIs(t, kept)
  PROVE  \E e \in Entities : UnrefOf(t, kept, e)
<1>1. Typed /\ Counts /\ PendingType /\ JobsOK /\ TypeOK
  BY DEF LifeInv, Typed
<1>2. /\ pending[t] # <<>> /\ Head(pending[t]).op = "unref"
      /\ refs' = [refs EXCEPT ![Operand(t)] = @ - 1]
      /\ UNCHANGED <<gen, created, registered, home, app, job, holder>>
      /\ \E d : pending' = [pending EXCEPT ![t] = d]
  <2>1. \E d : pending' = [pending EXCEPT ![t] = d]
    BY <1>1 DEF DoUnref, PendingType
  <2> QED BY <2>1 DEF DoUnref, Doing, isolateVars
<1>3. kept \in Nat /\ Head(pending[t]) \in Ops /\ ToDo(t, kept, Head(pending[t]))
  BY <1>1, <1>2, Doing1
<1>4. PICK e \in Entities : Head(pending[t]) = Unref(e)
  BY <1>2, <1>3, OpCases DEF Reset, Cleanup, Dispose
<1>5. Operand(t) = e
  BY <1>4 DEF Operand, Unref
<1>6. refs[e] > 0 /\ refs[e] \in Nat
  BY <1>1, <1>3, <1>4, HeldExists DEF TypeOK
<1>7. home[e] # 0
  BY <1>6, TheIsolate
<1>8. t \notin Jobs \/ Ended(t)
  BY <1>1, <1>2 DEF JobsOK, Empty, Ended
<1>9. \A u \in Threads \ {t} : pending'[u] = pending[u]
  BY <1>1, <1>2 DEF PendingType
<1> QED BY <1>2, <1>3, <1>4, <1>5, <1>6, <1>7, <1>8, <1>9 DEF UnrefOf

\* What is left to show of such a step: who holds shared_ptrs after it, and that the
\* destructors it begins are in order.
LEMMA UnrefGoesOn ==
  ASSUME LifeInv, NEW t \in Threads, NEW kept, RestIs(t, kept), NEW e \in Entities,
         UnrefOf(t, kept, e), NEW more, ToDoStep(t, kept, more), Counts',
         parent' \in [Entities -> Isolates \cup Contexts \cup {Nothing}],
         \A d \in Entities : d # e => parent'[d] = parent[d],
         parent'[e] = IF refs[e] = 1 THEN Nothing ELSE parent[e],
         \A g \in Globals, n \in Nat : <<n, Reset(g)>> \in more =>
           g = e /\ n = kept + 1 /\ refs[e] = 1,
         \A i \in Isolates, n \in Nat : <<n, Dispose(i)>> \in more =>
           i = e /\ n = kept /\ refs[e] = 1,
         \A i \in Isolates, n \in Nat : <<n, Cleanup(i)>> \in more =>
           i = e /\ n = kept + 2 /\ refs[e] = 1,
         refs[e] = 1 => ToDo(t, kept + 1, Reset(e))' /\ ResetOK(t, kept + 1, e)',
         refs[e] = 1 /\ e \in Isolates => ToDo(t, kept + 2, Cleanup(e))'
  PROVE  LifeInv'
<1>1. /\ Typed /\ Counts /\ Tasks /\ HomesOK /\ RegisteredOK /\ \A d \in Entities : AliveOK(d)
      /\ TypeOK /\ PendingType /\ ParentType /\ JobsOK
  BY DEF LifeInv, Typed
<1>2. /\ Head(pending[t]) = Unref(e) /\ pending[t] # <<>> /\ kept \in Nat
      /\ refs[e] > 0 /\ refs[e] \in Nat /\ refs' = [refs EXCEPT ![e] = @ - 1]
      /\ UNCHANGED <<gen, created, registered, home, app, job, holder>>
      /\ t \notin Jobs \/ Ended(t)
      /\ \A u \in Threads \ {t} : pending'[u] = pending[u]
  BY DEF UnrefOf
<1>3. refs \in [Entities -> Nat]
  BY <1>1 DEF TypeOK
<1>4. /\ refs' \in [Entities -> Nat] /\ refs'[e] = refs[e] - 1
      /\ \A d \in Entities : d # e => refs'[d] = refs[d]
      /\ \A d \in Entities : refs[d] = 0 => refs'[d] = 0
      /\ \A d \in Entities : refs'[d] # 0 => refs[d] > 0
  BY <1>2, <1>3, OneLess
<1>5. (refs[e] = 1 <=> refs'[e] = 0) /\ (refs'[e] # 0 <=> refs'[e] > 0)
  <2>1. refs'[e] = refs[e] - 1 /\ refs[e] \in Nat /\ refs[e] > 0
    BY <1>2, <1>4
  <2> QED BY <2>1
<1>6. \A u \in Threads, n \in Nat, o \in Ops : ToDo(u, n, o) /\ o # Unref(e) => ToDo(u, n, o)'
  BY <1>2, HeadDone
<1>7. HomesStay
  BY <1>2 DEF HomesStay
<1>8. Typed'
  <2>1. PendingType'
    BY DEF ToDoStep
  <2>2. pending' \in [Threads -> Seq([op : Operations, of : Globals])]
    BY <2>1, PendingIsTyped DEF PendingType
  <2>3. TypeOK'
    BY <1>1, <1>2, <1>4, <2>2 DEF TypeOK
  <2>4. ParentType'
    BY <1>1 DEF ParentType
  <2>5. JobsOK'
    BY <1>1, <1>2, Kinds DEF JobsOK, Empty, Ended
  <2> QED BY <2>1, <2>3, <2>4, <2>5 DEF Typed
<1>9. \A d \in Entities : AliveOK(d)'
  <2>1. TAKE d \in Entities
  <2>2. AliveOK(d)
    BY <1>1
  <2>3. CASE refs'[d] = 0
    <3>1. parent'[d] = Nothing
      <4>1. CASE d = e
        BY <1>5, <2>3, <4>1
      <4>2. CASE d # e
        BY <1>4, <2>2, <2>3, <4>2 DEF AliveOK
      <4> QED BY <4>1, <4>2
    <3> QED BY <2>3, <3>1 DEF AliveOK
  <2>4. CASE refs'[d] # 0
    <3>1. refs[d] > 0 /\ parent'[d] = parent[d]
      BY <1>4, <1>5, <2>4
    <3> QED BY <1>7, <2>4, <3>1, AliveStays
  <2> QED BY <2>3, <2>4
<1>10. ~(refs[e] = 0)
  BY <1>2
<1>11. ResetsOK' /\ ResetOnce'
  <2>1. \A u \in Threads, m \in Nat : ~ToDo(u, m, Reset(e))
    BY <1>1, <1>10, Kinds DEF Tasks, ResetsOK, ResetOK, Over
  <2> QED BY <1>2, <1>4, <1>7, <2>1, ResetsGoOn
<1>12. DisposalsOK' /\ DisposeOnce'
  <2>1. e \in Isolates => \A u \in Threads, m \in Nat : ~ToDo(u, m, Dispose(e))
    BY <1>1, <1>10 DEF Tasks, DisposalsOK
  <2>2. e \in Isolates => gen'[e] # 0
    BY <1>1, <1>2 DEF AliveOK
  <2> QED BY <1>2, <1>4, <1>5, <2>1, <2>2, DisposalsGoOn
<1>13. CleanupsOK'
  <2>1. ASSUME NEW i \in Isolates, NEW n \in Nat, <<n, Cleanup(i)>> \in more
        PROVE  n > 0 /\ refs'[i] = 0 /\ ToDo(t, n - 1, Reset(i))'
    <3>1. i = e /\ n = kept + 2 /\ refs[e] = 1
      BY <2>1
    <3>2. n > 0 /\ n - 1 = kept + 1
      BY <1>2, <3>1
    <3> QED BY <1>5, <3>1, <3>2
  <2> QED BY <1>2, <1>4, <2>1, CleanupsGoOn
<1>14. HomesOK'
  <2>1. \A g \in Globals : InUse(g) => g = e \/ InUse(g)'
    BY <1>2, <1>4, Kinds DEF InUse
  <2>2. InUse(e)' \/ ToDo(t, kept + 1, Reset(e))'
    BY <1>5, Kinds DEF InUse
  <2>3. \A g \in Globals, u \in Threads, n \in Nat : ToDo(u, n, Reset(g)) => ToDo(u, n, Reset(g))'
    BY <1>6, OpKinds, OpsDiffer
  <2>4. kept + 1 \in Nat
    BY <1>2
  <2> QED BY <1>2, <1>7, <2>1, <2>2, <2>3, <2>4, HomesGoOn
<1>15. RegisteredOK'
  <2>1. \A i \in Isolates, u \in Threads, n \in Nat :
          ToDo(u, n, Cleanup(i)) => ToDo(u, n, Cleanup(i))'
    BY <1>6, OpKinds, OpsDiffer
  <2>2. \A i \in Isolates : i = e => refs'[e] > 0 \/ ToDo(t, kept + 2, Cleanup(e))'
    BY <1>5
  <2>3. kept + 2 \in Nat
    BY <1>2
  <2>4. \A i \in Isolates : i # e => refs'[i] = refs[i]
    BY <1>4, Kinds
  <2> QED BY <1>2, <2>1, <2>2, <2>3, <2>4, RegisteredGoesOn
<1>16. Tasks'
  BY <1>11, <1>12, <1>13 DEF Tasks
<1> QED BY <1>8, <1>9, <1>14, <1>15, <1>16 DEF LifeInv

\* A shared_ptr is held in one of four ways.
LEMMA HoldKinds ==
  \A h, e : /\ HeldByApp(h, e) => h.kind = "app"
            /\ HeldByChild(h, e) => h.kind = "child"
            /\ HeldByJob(h, e) => h.kind = "job"
            /\ HeldByTask(h, e) => h.kind = "task"
            /\ \A k, b, n : Hold(k, b, n).kind = k
BY DEF HeldByApp, HeldByChild, HeldByJob, HeldByTask, Hold

\* The shared_ptr is one less, and no other one comes or goes.
LEMMA OnlyLost ==
  ASSUME LifeInv, NEW t \in Threads, NEW kept, RestIs(t, kept), NEW e \in Entities,
         UnrefOf(t, kept, e), NEW more, ToDoStep(t, kept, more),
         \A n \in Nat, d \in Entities : <<n, Unref(d)>> \notin more,
         \A d \in Entities : parent'[d] = parent[d]
  PROVE  Counts'
<1> DEFINE h0 == Hold("task", t, kept)
<1>1. Counts /\ PendingType /\ refs \in [Entities -> Nat]
  BY DEF LifeInv, Typed, TypeOK
<1>2. /\ Head(pending[t]) = Unref(e) /\ pending[t] # <<>> /\ kept \in Nat
      /\ refs[e] > 0 /\ refs' = [refs EXCEPT ![e] = @ - 1] /\ UNCHANGED <<app, job>>
  BY DEF UnrefOf
<1>3. /\ refs'[e] = refs[e] - 1
      /\ \A d \in Entities : d # e => refs'[d] = refs[d]
  BY <1>1, <1>2, OneLess
<1>4. \A h, d : /\ HeldByApp(h, d)' <=> HeldByApp(h, d)
                /\ HeldByChild(h, d)' <=> HeldByChild(h, d)
                /\ HeldByJob(h, d)' <=> HeldByJob(h, d)
  <2>1. \A h, d : HeldByChild(h, d)' <=> HeldByChild(h, d)
    BY DEF HeldByChild
  <2> QED BY <1>2, <2>1, HoldersSame
<1>5. ASSUME NEW d \in Entities
      PROVE  /\ \A h : HeldByTask(h, d)' <=> HeldByTask(h, d) /\ h # h0
             /\ HeldByTask(h0, d) <=> d = e
  <2>1. /\ \A h : HeldByTask(h, d)' <=>
                    \/ HeldByTask(h, d) /\ h # Hold("task", t, kept)
                    \/ \E n \in Nat : h = Hold("task", t, n) /\ <<n, Unref(d)>> \in more
        /\ HeldByTask(Hold("task", t, kept), d) <=> d = e
    BY <1>1, <1>2, TaskHolders
  <2> QED BY <2>1
<1>6. h0 \in Holds /\ h0.kind = "task"
  BY <1>2, Kinds DEF Hold, Holds
<1> HIDE DEF h0
<1>7. ASSUME NEW d \in Entities, d # e
      PROVE  Counted(d)'
  <2>1. \A h : HeldByTask(h, d)' <=> HeldByTask(h, d)
    BY <1>5, <1>7
  <2>2. Holders(d)' = Holders(d)
    BY <1>4, <2>1 DEF Holders
  <2>3. Counted(d) /\ (refs[d])' = refs[d]
    BY <1>1, <1>3, <1>7 DEF Counts
  <2> QED BY <2>2, <2>3, CountSame
<1>8. Counted(e)'
  <2>1. h0 \in Holders(e)
    BY <1>5, <1>6 DEF Holders
  <2>2. Holders(e)' = Holders(e) \ {h0}
    BY <1>4, <1>5, <1>6, HoldKinds DEF Holders
  <2>3. Counted(e) /\ (refs[e])' = refs[e] - 1
    BY <1>1, <1>3 DEF Counts
  <2> QED BY <2>1, <2>2, <2>3, CountLose
<1> QED BY <1>7, <1>8 DEF Counts

LEMMA UnrefOneOfMany ==
  ASSUME LifeInv, NEW t \in Threads, DoUnref(t), NEW kept, RestIs(t, kept), NEW e \in Entities,
         UnrefOf(t, kept, e), refs[e] # 1
  PROVE  LifeInv'
<1>1. PendingType /\ pending[t] # <<>> /\ Operand(t) = e /\ TypeOK
  BY DEF LifeInv, Typed, UnrefOf
<1>2. pending' = [pending EXCEPT ![t] = <<>> \o Tail(@)] /\ parent' = parent
  BY <1>1 DEF DoUnref
<1>3. ToDoStep(t, kept, {})
  BY <1>1, <1>2, NoneAdded, Push
<1>4. parent' \in [Entities -> Isolates \cup Contexts \cup {Nothing}]
  BY <1>1, <1>2 DEF TypeOK
<1>5. Counts'
  BY <1>2, <1>3, OnlyLost
<1> QED BY <1>2, <1>3, <1>4, <1>5, UnrefGoesOn

LEMMA UnrefLastOfIsolate ==
  ASSUME LifeInv, NEW t \in Threads, DoUnref(t), NEW kept, RestIs(t, kept), NEW e \in Isolates,
         UnrefOf(t, kept, e), refs[e] = 1
  PROVE  LifeInv'
<1> DEFINE more == {<<kept + 2, Cleanup(e)>>, <<kept + 1, Reset(e)>>, <<kept, Dispose(e)>>}
<1>1. /\ PendingType /\ pending[t] # <<>> /\ Operand(t) = e /\ TypeOK /\ ParentType /\ AliveOK(e)
      /\ kept \in Nat /\ e \in Entities /\ e \in Globals
      /\ parent \in [Entities -> Isolates \cup Contexts \cup {Nothing}]
      /\ UNCHANGED <<home, gen>> /\ refs' = [refs EXCEPT ![e] = @ - 1]
      /\ refs \in [Entities -> Nat]
  BY Kinds DEF LifeInv, Typed, UnrefOf, TypeOK
<1>2. pending' = [pending EXCEPT ![t] = <<Cleanup(e), Reset(e), Dispose(e)>> \o Tail(@)]
  BY <1>1 DEF DoUnref, Destructor, DestroyIsolate
<1>3. ToDoStep(t, kept, more)
  <2>1. /\ <<Cleanup(e), Reset(e), Dispose(e)>> \in Seq(Ops)
        /\ Adds(<<Cleanup(e), Reset(e), Dispose(e)>>, kept) = more
    BY <1>1, ThreeAdded, OpKinds
  <2> HIDE DEF more
  <2>2. ToDoStep(t, kept, Adds(<<Cleanup(e), Reset(e), Dispose(e)>>, kept))
    BY <1>1, <1>2, <2>1, Push
  <2> QED BY <2>1, <2>2
<1>4. /\ parent' = [parent EXCEPT ![e] = Nothing] /\ parent[e] = Nothing
  BY <1>1 DEF DoUnref, ParentType
<1>5. /\ parent' \in [Entities -> Isolates \cup Contexts \cup {Nothing}]
      /\ \A d \in Entities : parent'[d] = parent[d]
  BY <1>1, <1>4
<1>6. /\ \A g \in Globals, n \in Nat : <<n, Reset(g)>> \in more => g = e /\ n = kept + 1
      /\ \A i \in Isolates, n \in Nat : <<n, Dispose(i)>> \in more => i = e /\ n = kept
      /\ \A i \in Isolates, n \in Nat : <<n, Cleanup(i)>> \in more => i = e /\ n = kept + 2
      /\ \A d \in Entities, n \in Nat : <<n, Unref(d)>> \notin more
  BY OpsDiffer
<1>7. Counts'
  BY <1>1, <1>3, <1>5, <1>6, OnlyLost
<1>8. /\ ToDo(t, kept, Dispose(e))' /\ ToDo(t, kept + 1, Reset(e))'
      /\ ToDo(t, kept + 2, Cleanup(e))'
  <2>1. kept \in Nat /\ kept + 1 \in Nat /\ kept + 2 \in Nat
    BY <1>1
  <2>2. /\ <<kept, Dispose(e)>> \in more /\ <<kept + 1, Reset(e)>> \in more
        /\ <<kept + 2, Cleanup(e)>> \in more
    OBVIOUS
  <2>3. Dispose(e) \in Ops /\ Reset(e) \in Ops /\ Cleanup(e) \in Ops
    BY <1>1, OpKinds
  <2> HIDE DEF more
  <2> QED BY <1>3, <2>1, <2>2, <2>3 DEF ToDoStep
<1>9. ResetOK(t, kept + 1, e)'
  <2>1. kept + 1 > 0 /\ (kept + 1) - 1 = kept
    BY <1>1
  <2>2. refs'[e] = 0
    BY <1>1
  <2>3. home'[e] # 0 /\ home'[e] = gen'[e]
    BY <1>1 DEF AliveOK
  <2> QED BY <1>1, <1>8, <2>1, <2>2, <2>3, Kinds DEF ResetOK, Over
<1> HIDE DEF more
<1> QED BY <1>1, <1>3, <1>4, <1>5, <1>6, <1>7, <1>8, <1>9, UnrefGoesOn

\* The destructor of a context or script takes over the shared_ptr to what it was made
\* from.
LEMMA HandedOver ==
  ASSUME LifeInv, NEW t \in Threads, NEW kept, RestIs(t, kept), NEW e \in Entities,
         NEW p \in Entities, UnrefOf(t, kept, e), NEW more, ToDoStep(t, kept, more),
         p # e, parent[e] = p, parent'[e] = Nothing,
         \A d \in Entities : d # e => parent'[d] = parent[d],
         \A n \in Nat, d \in Entities : <<n, Unref(d)>> \in more <=> n = kept /\ d = p
  PROVE  Counts'
<1> DEFINE h0 == Hold("task", t, kept)
           c0 == Hold("child", e, 0)
<1>1. Counts /\ PendingType /\ refs \in [Entities -> Nat]
  BY DEF LifeInv, Typed, TypeOK
<1>2. /\ Head(pending[t]) = Unref(e) /\ pending[t] # <<>> /\ kept \in Nat
      /\ refs[e] > 0 /\ refs' = [refs EXCEPT ![e] = @ - 1] /\ UNCHANGED <<app, job>>
  BY DEF UnrefOf
<1>3. /\ refs'[e] = refs[e] - 1
      /\ \A d \in Entities : d # e => refs'[d] = refs[d]
  BY <1>1, <1>2, OneLess
<1>4. \A h, d : /\ HeldByApp(h, d)' <=> HeldByApp(h, d)
                /\ HeldByJob(h, d)' <=> HeldByJob(h, d)
  BY <1>2, HoldersSame
<1>5. ASSUME NEW d \in Entities
      PROVE  /\ \A h : HeldByTask(h, d)' <=> (HeldByTask(h, d) /\ h # h0) \/ (h = h0 /\ d = p)
             /\ HeldByTask(h0, d) <=> d = e
  <2>1. /\ \A h : HeldByTask(h, d)' <=>
                    \/ HeldByTask(h, d) /\ h # Hold("task", t, kept)
                    \/ \E n \in Nat : h = Hold("task", t, n) /\ <<n, Unref(d)>> \in more
        /\ HeldByTask(Hold("task", t, kept), d) <=> d = e
    BY <1>1, <1>2, TaskHolders
  <2>2. \A h : (\E n \in Nat : h = Hold("task", t, n) /\ <<n, Unref(d)>> \in more)
                 <=> h = Hold("task", t, kept) /\ d = p
    BY <1>2
  <2> QED BY <2>1, <2>2
<1>6. /\ h0 \in Holds /\ h0.kind = "task" /\ c0 \in Holds /\ c0.kind = "child"
      /\ \A d \in Entities : Hold("child", d, 0) = c0 <=> d = e
  BY <1>2, Kinds DEF Hold, Holds
<1>7. ASSUME NEW d \in Entities
      PROVE  /\ \A h : HeldByChild(h, d)' <=> HeldByChild(h, d) /\ (h # c0 \/ d # p)
             /\ HeldByChild(c0, d) <=> d = p
  <2>1. ASSUME NEW x \in Entities
        PROVE  parent'[x] = d <=> parent[x] = d /\ x # e
    BY <2>1, Kinds
  <2>2. \A h : HeldByChild(h, d)' <=> \E x \in Entities : h = Hold("child", x, 0) /\ parent'[x] = d
    BY DEF HeldByChild
  <2>3. \A h : HeldByChild(h, d) <=> \E x \in Entities : h = Hold("child", x, 0) /\ parent[x] = d
    BY DEF HeldByChild
  <2>4. HeldByChild(c0, d) <=> d = p
    BY <1>6, <2>3
  <2>5. \A h : HeldByChild(h, d)' <=> HeldByChild(h, d) /\ h # c0
    BY <1>6, <2>1, <2>2, <2>3
  <2> QED BY <2>4, <2>5
<1> HIDE DEF h0, c0
<1>8. ASSUME NEW d \in Entities, d # e, d # p
      PROVE  Counted(d)'
  <2>1. \A h : (HeldByTask(h, d)' <=> HeldByTask(h, d)) /\ (HeldByChild(h, d)' <=> HeldByChild(h, d))
    BY <1>5, <1>7, <1>8
  <2>2. Holders(d)' = Holders(d)
    BY <1>4, <2>1 DEF Holders
  <2>3. Counted(d) /\ (refs[d])' = refs[d]
    BY <1>1, <1>3, <1>8 DEF Counts
  <2> QED BY <2>2, <2>3, CountSame
<1>9. Counted(e)'
  <2>1. h0 \in Holders(e)
    BY <1>5, <1>6 DEF Holders
  <2>2. \A h : /\ HeldByTask(h, e)' <=> HeldByTask(h, e) /\ h # h0
               /\ HeldByChild(h, e)' <=> HeldByChild(h, e)
    BY <1>5, <1>7
  <2>3. Holders(e)' = Holders(e) \ {h0}
    BY <1>4, <1>6, <2>2, HoldKinds DEF Holders
  <2>4. Counted(e) /\ (refs[e])' = refs[e] - 1
    BY <1>1, <1>3 DEF Counts
  <2> QED BY <2>1, <2>3, <2>4, CountLose
<1>10. Counted(p)'
  <2>1. c0 \in Holders(p)
    BY <1>6, <1>7 DEF Holders
  <2>2. /\ \A h : HeldByTask(h, p)' <=> HeldByTask(h, p) \/ h = h0
        /\ \A h : HeldByChild(h, p)' <=> HeldByChild(h, p) /\ h # c0
        /\ ~HeldByTask(h0, p)
    BY <1>5, <1>7
  <2>3. h0 \notin Holders(p)
    BY <1>6, <2>2, HoldKinds DEF Holders
  <2>4. Holders(p)' = (Holders(p) \ {c0}) \cup {h0}
    BY <1>4, <1>6, <2>2, HoldKinds DEF Holders
  <2>5. Counted(p) /\ (refs[p])' = refs[p]
    BY <1>1, <1>3 DEF Counts
  <2> QED BY <2>1, <2>3, <2>4, <2>5, CountMove
<1> QED BY <1>8, <1>9, <1>10 DEF Counts

LEMMA UnrefLastOfOther ==
  ASSUME LifeInv, NEW t \in Threads, DoUnref(t), NEW kept, RestIs(t, kept), NEW e \in Entities,
         UnrefOf(t, kept, e), refs[e] = 1, e \notin Isolates,
         NEW p \in Entities, parent[e] = p
  PROVE  LifeInv'
<1> DEFINE more == {<<kept + 1, Reset(e)>>, <<kept, Unref(p)>>}
<1>1. /\ PendingType /\ pending[t] # <<>> /\ Operand(t) = e /\ TypeOK /\ ParentType /\ AliveOK(e)
      /\ kept \in Nat /\ e \in Globals
      /\ parent \in [Entities -> Isolates \cup Contexts \cup {Nothing}]
      /\ UNCHANGED <<home, gen>> /\ refs' = [refs EXCEPT ![e] = @ - 1]
      /\ refs \in [Entities -> Nat] /\ refs[e] > 0
  BY Kinds DEF LifeInv, Typed, UnrefOf, TypeOK
<1>2. /\ p \in Entities /\ home[p] = home[e] /\ home[e] # 0
  BY <1>1, TheIsolate DEF AliveOK
<1>3. p # e
  BY <1>1, <1>2, Kinds DEF ParentType, Entities
<1>4. pending' = [pending EXCEPT ![t] = <<Reset(e), Unref(p)>> \o Tail(@)]
  BY <1>1 DEF DoUnref, Destructor, DestroyMembers
<1>5. ToDoStep(t, kept, more)
  <2>1. <<Reset(e), Unref(p)>> \in Seq(Ops) /\ Adds(<<Reset(e), Unref(p)>>, kept) = more
    BY <1>1, <1>2, TwoAdded, OpKinds
  <2> HIDE DEF more
  <2>2. ToDoStep(t, kept, Adds(<<Reset(e), Unref(p)>>, kept))
    BY <1>1, <1>4, <2>1, Push
  <2> QED BY <2>1, <2>2
<1>6. parent' = [parent EXCEPT ![e] = Nothing]
  BY <1>1 DEF DoUnref
<1>7. /\ parent' \in [Entities -> Isolates \cup Contexts \cup {Nothing}] /\ parent'[e] = Nothing
      /\ \A d \in Entities : d # e => parent'[d] = parent[d]
  BY <1>1, <1>6
<1>8. /\ \A g \in Globals, n \in Nat : <<n, Reset(g)>> \in more => g = e /\ n = kept + 1
      /\ \A i \in Isolates, n \in Nat : <<n, Dispose(i)>> \notin more
      /\ \A i \in Isolates, n \in Nat : <<n, Cleanup(i)>> \notin more
      /\ \A n \in Nat, d \in Entities : <<n, Unref(d)>> \in more <=> n = kept /\ d = p
  BY OpsDiffer
<1>9. ToDo(t, kept, Unref(p))' /\ ToDo(t, kept + 1, Reset(e))'
  <2>1. kept \in Nat /\ kept + 1 \in Nat
    BY <1>1
  <2>2. <<kept, Unref(p)>> \in more /\ <<kept + 1, Reset(e)>> \in more
    OBVIOUS
  <2>3. Unref(p) \in Ops /\ Reset(e) \in Ops
    BY <1>1, <1>2, OpKinds
  <2> HIDE DEF more
  <2> QED BY <1>5, <2>1, <2>2, <2>3 DEF ToDoStep
<1> HIDE DEF more
<1>10. Counts'
  BY <1>3, <1>5, <1>7, <1>8, HandedOver
<1>11. ResetOK(t, kept + 1, e)'
  <2>1. kept + 1 > 0 /\ (kept + 1) - 1 = kept
    BY <1>1
  <2>2. refs'[e] = 0
    BY <1>1
  <2>3. home'[e] # 0 /\ home'[p] = home'[e]
    BY <1>1, <1>2
  <2> QED BY <1>1, <1>2, <1>9, <2>1, <2>2, <2>3, Kinds DEF ResetOK, Over
<1>12. /\ \A g \in Globals, n \in Nat : <<n, Reset(g)>> \in more =>
            g = e /\ n = kept + 1 /\ refs[e] = 1
       /\ \A i \in Isolates, n \in Nat : <<n, Dispose(i)>> \in more =>
            i = e /\ n = kept /\ refs[e] = 1
       /\ \A i \in Isolates, n \in Nat : <<n, Cleanup(i)>> \in more =>
            i = e /\ n = kept + 2 /\ refs[e] = 1
       /\ parent'[e] = IF refs[e] = 1 THEN Nothing ELSE parent[e]
       /\ refs[e] = 1 => ToDo(t, kept + 1, Reset(e))' /\ ResetOK(t, kept + 1, e)'
       /\ refs[e] = 1 /\ e \in Isolates => ToDo(t, kept + 2, Cleanup(e))'
  BY <1>7, <1>8, <1>9, <1>11
<1> QED BY <1>5, <1>7, <1>10, <1>12, UnrefGoesOn

LEMMA DoUnrefStep ==
  ASSUME LifeInv, NEW t \in Threads, DoUnref(t)
  PROVE  LifeInv'
<1>1. PICK kept : RestIs(t, kept)
  BY RestExists
<1>2. PICK e \in Entities : UnrefOf(t, kept, e)
  BY <1>1, UnrefFacts
<1>3. CASE refs[e] # 1
  BY <1>1, <1>2, <1>3, UnrefOneOfMany
<1>4. CASE refs[e] = 1 /\ e \in Isolates
  BY <1>1, <1>2, <1>4, UnrefLastOfIsolate
<1>5. CASE refs[e] = 1 /\ e \notin Isolates
  <2>1. parent[e] \in Entities
    BY <1>2, <1>5, TheIsolate DEF UnrefOf
  <2> QED BY <1>1, <1>2, <1>5, <2>1, UnrefLastOfOther
<1> QED BY <1>3, <1>4, <1>5

-------------------------------------------------------------------------------
(* Steps that begin a destructor: a thread that is in none gives a         *)
(* shared_ptr up.                                                          *)

\* What was to be done still is.
LEMMA BeginKeeps ==
  ASSUME PendingType, NEW t \in Threads, pending[t] = <<>>, NEW more, ToDoStep(t, 0, more)
  PROVE  /\ \A u \in Threads, n \in Nat, o \in Ops : ToDo(u, n, o) => ToDo(u, n, o)'
         /\ \A u \in Threads, n \in Nat, o \in Ops :
              ToDo(u, n, o)' => ToDo(u, n, o) \/ (u = t /\ <<n, o>> \in more)
         /\ \A n \in Nat, o \in Ops : <<n, o>> \in more => ToDo(t, n, o)'
<1>1. \A n, o : ~ToDo(t, n, o)
  BY ToDoFacts
<1>2. \A n \in Nat, o \in Ops : ToDo(t, n, o)' <=> <<n, o>> \in more
  BY <1>1 DEF ToDoStep
<1>3. \A u \in Threads \ {t}, n \in Nat, o \in Ops : ToDo(u, n, o)' <=> ToDo(u, n, o)
  BY DEF ToDoStep
<1>4. ASSUME NEW u \in Threads, NEW n \in Nat, NEW o \in Ops
      PROVE  /\ ToDo(u, n, o) => ToDo(u, n, o)'
             /\ ToDo(u, n, o)' => ToDo(u, n, o) \/ (u = t /\ <<n, o>> \in more)
  <2>1. CASE u = t
    BY <1>1, <1>2, <2>1
  <2>2. CASE u # t
    BY <1>3, <2>2
  <2> QED BY <2>1, <2>2
<1> QED BY <1>2, <1>4

LEMMA BeginHolders ==
  ASSUME PendingType, NEW t \in Threads, pending[t] = <<>>, NEW more, ToDoStep(t, 0, more),
         NEW e \in Entities
  PROVE  /\ \A h : HeldByTask(h, e)' <=>
                     \/ HeldByTask(h, e)
                     \/ \E n \in Nat : h = Hold("task", t, n) /\ <<n, Unref(e)>> \in more
         /\ \A n \in Nat : ~HeldByTask(Hold("task", t, n), e)
<1>1. /\ \A u \in Threads, n \in Nat, o \in Ops : ToDo(u, n, o) => ToDo(u, n, o)'
      /\ \A u \in Threads, n \in Nat, o \in Ops :
           ToDo(u, n, o)' => ToDo(u, n, o) \/ (u = t /\ <<n, o>> \in more)
      /\ \A n \in Nat, o \in Ops : <<n, o>> \in more => ToDo(t, n, o)'
  BY BeginKeeps
<1>2. Unref(e) \in Ops
  BY OpKinds
<1>3. \A u \in Threads, n \in Nat :
        ToDo(u, n, Unref(e))' <=> ToDo(u, n, Unref(e)) \/ (u = t /\ <<n, Unref(e)>> \in more)
  BY <1>1, <1>2
<1>4. ASSUME NEW h
      PROVE  HeldByTask(h, e)' <=>
               \/ HeldByTask(h, e)
               \/ \E n \in Nat : h = Hold("task", t, n) /\ <<n, Unref(e)>> \in more
  <2>1. HeldByTask(h, e)' <=>
          \E u \in Threads, n \in Nat : h = Hold("task", u, n) /\ ToDo(u, n, Unref(e))'
    BY DEF HeldByTask
  <2>2. HeldByTask(h, e) <=>
          \E u \in Threads, n \in Nat : h = Hold("task", u, n) /\ ToDo(u, n, Unref(e))
    BY DEF HeldByTask
  <2> QED BY <1>3, <2>1, <2>2
<1>5. ASSUME NEW n \in Nat
      PROVE  ~HeldByTask(Hold("task", t, n), e)
  <2>1. \A m, o : ~ToDo(t, m, o)
    BY ToDoFacts
  <2> QED BY <2>1 DEF HeldByTask, Hold
<1> QED BY <1>4, <1>5

\* What is left to show of such a step: who holds shared_ptrs after it, that a future
\* whose result goes is reset by the destructor that begins, and that one that gets a
\* result was empty.
BeginFrame(t, more) ==
  /\ UNCHANGED <<gen, created, parent, registered>>
  /\ refs' \in [Entities -> Nat] /\ \A e \in Entities : refs[e] = 0 <=> refs'[e] = 0
  /\ home' \in [Globals -> 0..MaxCreated]
  /\ \A g \in Globals : home'[g] # home[g] => g \in Jobs /\ home[g] = 0 /\ InUse(g)'
  /\ app' \subseteq Entities /\ holder' \in [Isolates -> Threads \cup {NoThread}]
  /\ job' \in [Jobs -> [state : JobStates, script : Scripts \cup {Nothing}]]
  /\ \A j \in Jobs : job[j].state = "idle" => job'[j].state = "idle"
  /\ \A j \in Jobs : job'[j].state = "ready" =>
       \/ home'[j] = home'[job'[j].script]
       \/ job'[j] = job[j] /\ home'[j] = home[j]
  /\ \A j \in Jobs : InUse(j) => InUse(j)' \/ \E n \in Nat : <<n, Reset(j)>> \in more
  /\ \A g \in Globals, n \in Nat : <<n, Reset(g)>> \in more =>
       n = 1 /\ g \in Jobs /\ job[g].state = "ready" /\ ResetOK(t, n, g)'
  /\ \A i \in Isolates, n \in Nat : <<n, Dispose(i)>> \notin more /\ <<n, Cleanup(i)>> \notin more

LEMMA BeginStep ==
  ASSUME LifeInv, NEW t \in Threads, pending[t] = <<>>, NEW more, ToDoStep(t, 0, more),
         Counts', JobsOK', BeginFrame(t, more)
  PROVE  LifeInv'
<1>1. /\ Typed /\ Counts /\ Tasks /\ HomesOK /\ RegisteredOK /\ \A d \in Entities : AliveOK(d)
      /\ TypeOK /\ PendingType /\ ParentType /\ JobsOK
  BY DEF LifeInv, Typed
<1>2. /\ \A u \in Threads, n \in Nat, o \in Ops : ToDo(u, n, o) => ToDo(u, n, o)'
      /\ \A n \in Nat, o \in Ops : <<n, o>> \in more => ToDo(t, n, o)'
  BY <1>1, BeginKeeps
<1>3. Typed'
  <2>1. PendingType' /\ pending' \in [Threads -> Seq([op : Operations, of : Globals])]
    BY PendingIsTyped DEF ToDoStep, PendingType
  <2>2. TypeOK'
    BY <1>1, <2>1 DEF TypeOK, BeginFrame
  <2>3. ParentType'
    BY <1>1 DEF ParentType, BeginFrame
  <2> QED BY <2>1, <2>2, <2>3 DEF Typed
<1>4. HomesStay
  BY Kinds DEF HomesStay, BeginFrame
<1>5. \A d \in Entities : AliveOK(d)'
  BY <1>4, AliveSame DEF BeginFrame
<1>6. Tasks'
  <2>1. \A g \in Globals, n \in Nat : <<n, Reset(g)>> \in more =>
          \A u \in Threads, m \in Nat : ~ToDo(u, m, Reset(g))
    BY <1>1 DEF Tasks, ResetsOK, ResetOK, Over, BeginFrame
  <2>2. \A g \in Globals, n \in Nat : <<n, Reset(g)>> \in more =>
          /\ ResetOK(t, n, g)'
          /\ \A m \in Nat : <<m, Reset(g)>> \in more => m = n
    BY DEF BeginFrame
  <2>3. \A e \in Entities : refs[e] = 0 => refs'[e] = 0
    BY DEF BeginFrame
  <2>4. \A g \in Globals, u \in Threads, n \in Nat : ToDo(u, n, Reset(g)) => home'[g] = home[g]
    BY <1>1 DEF Tasks, ResetsOK, ResetOK, BeginFrame
  <2>5. \A j \in Jobs : job[j].state = "idle" => job'[j].state = "idle"
    BY DEF BeginFrame
  <2>6. UNCHANGED gen
    BY DEF BeginFrame
  <2>7. ResetsOK' /\ ResetOnce'
    BY <1>4, <2>1, <2>2, <2>3, <2>4, <2>5, <2>6, ResetsGoOn
  <2>8. \A i \in Isolates, n \in Nat : <<n, Dispose(i)>> \notin more /\ <<n, Cleanup(i)>> \notin more
    BY DEF BeginFrame
  <2>9. DisposalsOK' /\ DisposeOnce'
    BY <2>3, <2>6, <2>8, DisposalsGoOn
  <2>10. CleanupsOK'
    BY <2>3, <2>8, CleanupsGoOn
  <2> QED BY <2>7, <2>9, <2>10 DEF Tasks
<1>7. HomesOK'
  <2>1. ASSUME NEW g \in Globals, home'[g] # 0
        PROVE  InUse(g)' \/ \E u \in Threads, n \in Nat : ToDo(u, n, Reset(g))'
    <3>1. CASE home'[g] # home[g]
      BY <3>1 DEF BeginFrame
    <3>2. CASE home'[g] = home[g] /\ InUse(g) /\ g \in Jobs
      <4>1. CASE \E n \in Nat : <<n, Reset(g)>> \in more
        BY <1>2, <4>1, OpKinds
      <4> QED BY <3>2, <4>1 DEF BeginFrame
    <3>3. CASE home'[g] = home[g] /\ InUse(g) /\ g \notin Jobs
      <4>1. g \in Entities /\ refs[g] > 0 /\ refs[g] # 0
        BY <3>3, Kinds DEF InUse
      <4>2. refs'[g] \in Nat /\ refs'[g] # 0
        BY <4>1 DEF BeginFrame
      <4>3. refs'[g] > 0
        BY <4>2
      <4> QED BY <3>3, <4>3 DEF InUse
    <3>4. CASE home'[g] = home[g] /\ \E u \in Threads, n \in Nat : ToDo(u, n, Reset(g))
      BY <1>2, <3>4, OpKinds
    <3>5. home'[g] = home[g] =>
            InUse(g) \/ \E u \in Threads, n \in Nat : ToDo(u, n, Reset(g))
      BY <1>1, <2>1 DEF HomesOK
    <3> QED BY <3>1, <3>2, <3>3, <3>4, <3>5
  <2>2. \A j \in Jobs : job'[j].state = "ready" =>
          \/ home'[j] = home'[job'[j].script]
          \/ job'[j] = job[j] /\ home'[j] = home[j]
    BY DEF BeginFrame
  <2> QED BY <1>4, <2>1, <2>2, HomesGoOn
<1>8. RegisteredOK'
  <2>1. \A i \in Isolates : refs[i] > 0 => refs'[i] > 0
    <3>1. TAKE i \in Isolates
    <3>2. HAVE refs[i] > 0
    <3>3. refs'[i] \in Nat /\ refs'[i] # 0
      BY <3>2, Kinds DEF BeginFrame
    <3> QED BY <3>3
  <2>2. \A i \in Isolates : registered'[i] = registered[i] /\ gen'[i] = gen[i]
    BY DEF BeginFrame
  <2>3. \A i \in Isolates, u \in Threads, n \in Nat : ToDo(u, n, Cleanup(i)) => ToDo(u, n, Cleanup(i))'
    BY <1>2, OpKinds
  <2> QED BY <2>1, <2>2, <2>3, RegisteredGoesOn
<1> QED BY <1>3, <1>5, <1>6, <1>7, <1>8 DEF LifeInv

LEMMA DropStep ==
  ASSUME LifeInv, NEW e \in Entities, Drop(e)
  PROVE  LifeInv'
<1> DEFINE a0 == Hold("app", App, 0)
           h0 == Hold("task", App, 0)
           more == {<<0, Unref(e)>>}
<1>1. /\ Counts /\ TypeOK /\ PendingType /\ JobsOK
  BY DEF LifeInv, Typed
<1>2. /\ pending[App] = <<>> /\ e \in app /\ app' = app \ {e}
      /\ pending' = [pending EXCEPT ![App] = <<Unref(e)>>]
      /\ UNCHANGED <<gen, created, registered, refs, parent, home, job, holder>>
  BY DEF Drop, AppIdle, isolateVars
<1>3. App \in Threads /\ App \notin Jobs
  BY Kinds
<1>4. ToDoStep(App, 0, more)
  <2>1. <<Unref(e)>> \in Seq(Ops) /\ Adds(<<Unref(e)>>, 0) = more
    BY OneAdded, OpKinds
  <2> HIDE DEF more
  <2>2. ToDoStep(App, 0, Adds(<<Unref(e)>>, 0))
    BY <1>1, <1>2, <1>3, <2>1, Begin
  <2> QED BY <2>1, <2>2
<1>5. /\ \A n \in Nat, d \in Entities : <<n, Unref(d)>> \in more <=> n = 0 /\ d = e
      /\ \A n \in Nat, g \in Globals : <<n, Reset(g)>> \notin more
      /\ \A i \in Isolates, n \in Nat : <<n, Dispose(i)>> \notin more /\ <<n, Cleanup(i)>> \notin more
  BY OpsDiffer
<1> HIDE DEF more
<1>6. ASSUME NEW d \in Entities
      PROVE  /\ \A h : HeldByTask(h, d)' <=> HeldByTask(h, d) \/ (h = h0 /\ d = e)
             /\ ~HeldByTask(h0, d)
  <2>1. /\ \A h : HeldByTask(h, d)' <=>
                    \/ HeldByTask(h, d)
                    \/ \E n \in Nat : h = Hold("task", App, n) /\ <<n, Unref(d)>> \in more
        /\ \A n \in Nat : ~HeldByTask(Hold("task", App, n), d)
    BY <1>1, <1>2, <1>3, <1>4, BeginHolders
  <2>2. \A h : (\E n \in Nat : h = Hold("task", App, n) /\ <<n, Unref(d)>> \in more)
                 <=> h = Hold("task", App, 0) /\ d = e
    BY <1>5
  <2> QED BY <2>1, <2>2
<1>7. \A h, d : /\ HeldByChild(h, d)' <=> HeldByChild(h, d)
                /\ HeldByJob(h, d)' <=> HeldByJob(h, d)
  BY <1>2, HoldersSame
<1>8. /\ h0 \in Holds /\ h0.kind = "task" /\ a0 \in Holds /\ a0.kind = "app"
      /\ \A h, d : HeldByApp(h, d)' <=> HeldByApp(h, d) /\ (h # a0 \/ d # e)
      /\ HeldByApp(a0, e)
  BY <1>2, <1>3 DEF Hold, Holds, HeldByApp
<1> HIDE DEF a0, h0
<1>9. Counts'
  <2>1. ASSUME NEW d \in Entities, d # e
        PROVE  Counted(d)'
    <3>1. Holders(d)' = Holders(d)
      BY <1>6, <1>7, <1>8, <2>1 DEF Holders
    <3>2. Counted(d) /\ (refs[d])' = refs[d]
      BY <1>1, <1>2 DEF Counts
    <3> QED BY <3>1, <3>2, CountSame
  <2>2. Counted(e)'
    <3>1. a0 \in Holders(e)
      BY <1>8 DEF Holders
    <3>2. h0 \notin Holders(e)
      BY <1>6, <1>8, HoldKinds DEF Holders
    <3>3. /\ \A h : HeldByTask(h, e)' <=> HeldByTask(h, e) \/ h = h0
          /\ \A h : HeldByApp(h, e)' <=> HeldByApp(h, e) /\ h # a0
      BY <1>6, <1>8
    <3>4. Holders(e)' = (Holders(e) \ {a0}) \cup {h0}
      BY <1>7, <1>8, <3>3, HoldKinds DEF Holders
    <3>5. Counted(e) /\ (refs[e])' = refs[e]
      BY <1>1, <1>2 DEF Counts
    <3> QED BY <3>1, <3>2, <3>4, <3>5, CountMove
  <2> QED BY <2>1, <2>2 DEF Counts
<1>10. JobsOK'
  BY <1>1, <1>2, <1>3 DEF JobsOK, Empty, Ended, PendingType
<1>11. BeginFrame(App, more)
  <2>1. /\ app' \subseteq Entities /\ holder \in [Isolates -> Threads \cup {NoThread}]
        /\ job \in [Jobs -> [state : JobStates, script : Scripts \cup {Nothing}]]
        /\ refs \in [Entities -> Nat] /\ home \in [Globals -> 0..MaxCreated]
    BY <1>1, <1>2 DEF TypeOK
  <2> QED BY <1>2, <1>5, <2>1 DEF BeginFrame, InUse
<1> QED BY <1>2, <1>3, <1>4, <1>9, <1>10, <1>11, BeginStep

\* There is nothing in a future before the script has ended.
LEMMA EmptyFuture ==
  ASSUME LifeInv, NEW j \in Jobs, ~Ended(j)
  PROVE  home[j] = 0
<1>1. Tasks /\ HomesOK /\ j \in Globals
  BY Kinds DEF LifeInv
<1>2. ASSUME NEW t \in Threads, NEW n \in Nat, ToDo(t, n, Reset(j))
      PROVE  FALSE
  BY <1>1, <1>2 DEF Tasks, ResetsOK, ResetOK, Over, Ended, Empty
<1>3. ~InUse(j)
  BY DEF InUse, Ended, Empty
<1> QED BY <1>1, <1>2, <1>3 DEF HomesOK

\* A job has no Script any more: nothing of the others changes.
JobEmpty(j, now) == job' = [job EXCEPT ![j] = [state |-> now, script |-> Nothing]]

LEMMA JobEmptyFacts ==
  ASSUME Typed, NEW j \in Jobs, NEW now \in {"idle", "failed"}, JobEmpty(j, now)
  PROVE  /\ job' \in [Jobs -> [state : JobStates, script : Scripts \cup {Nothing}]]
         /\ job'[j].state = now /\ job'[j].script = Nothing
         /\ \A k \in Jobs \ {j} : job'[k] = job[k]
         /\ \A k \in Jobs : job'[k].state = "ready" => k # j /\ job'[k] = job[k]
         /\ \A e \in Entities : \A h :
              HeldByJob(h, e)' <=> HeldByJob(h, e) /\ h # Hold("job", j, 0)
<1>1. /\ job \in [Jobs -> [state : JobStates, script : Scripts \cup {Nothing}]]
      /\ now \in JobStates
  BY DEF Typed, TypeOK, JobStates
<1>2. /\ job' \in [Jobs -> [state : JobStates, script : Scripts \cup {Nothing}]]
      /\ job'[j].state = now /\ job'[j].script = Nothing
      /\ \A k \in Jobs \ {j} : job'[k] = job[k]
  BY <1>1 DEF JobEmpty
<1>3. \A k \in Jobs : Hold("job", k, 0) = Hold("job", j, 0) => k = j
  BY DEF Hold
<1>4. ASSUME NEW e \in Entities, NEW h
      PROVE  HeldByJob(h, e)' <=> HeldByJob(h, e) /\ h # Hold("job", j, 0)
  <2>1. e # Nothing
    BY Kinds
  <2> QED BY <1>2, <1>3, <2>1 DEF HeldByJob
<1>5. \A k \in Jobs : job'[k].state = "ready" => k # j /\ job'[k] = job[k]
  BY <1>2
<1> QED BY <1>2, <1>4, <1>5

\* The shared_ptr of a job goes to the destructors of a thread that was in none.
LEMMA JobHoldMoves ==
  ASSUME LifeInv, NEW j \in Jobs, NEW t \in Threads, NEW s \in Entities, job[j].script = s,
         pending[t] = <<>>, NEW more, ToDoStep(t, 0, more),
         \A n \in Nat, d \in Entities : <<n, Unref(d)>> \in more <=> n = 0 /\ d = s,
         NEW now \in {"idle", "failed"}, JobEmpty(j, now), UNCHANGED <<refs, parent, app>>
  PROVE  Counts'
<1> DEFINE j0 == Hold("job", j, 0)
           h0 == Hold("task", t, 0)
<1>1. Typed /\ Counts /\ PendingType
  BY DEF LifeInv, Typed
<1>2. ASSUME NEW d \in Entities
      PROVE  /\ \A h : HeldByTask(h, d)' <=> HeldByTask(h, d) \/ (h = h0 /\ d = s)
             /\ ~HeldByTask(h0, d)
  <2>1. /\ \A h : HeldByTask(h, d)' <=>
                    \/ HeldByTask(h, d)
                    \/ \E n \in Nat : h = Hold("task", t, n) /\ <<n, Unref(d)>> \in more
        /\ \A n \in Nat : ~HeldByTask(Hold("task", t, n), d)
    BY <1>1, BeginHolders
  <2>2. \A h : (\E n \in Nat : h = Hold("task", t, n) /\ <<n, Unref(d)>> \in more)
                 <=> h = Hold("task", t, 0) /\ d = s
    OBVIOUS
  <2> QED BY <2>1, <2>2
<1>3. \A h, d : /\ HeldByChild(h, d)' <=> HeldByChild(h, d)
                /\ HeldByApp(h, d)' <=> HeldByApp(h, d)
  BY HoldersSame
<1>4. /\ h0 \in Holds /\ h0.kind = "task" /\ j0 \in Holds /\ j0.kind = "job"
      /\ HeldByJob(j0, s) /\ \A d : HeldByJob(j0, d) => d = s
  <2>1. \A k \in Jobs : Hold("job", k, 0) = Hold("job", j, 0) => k = j
    BY DEF Hold
  <2>2. /\ h0 \in Holds /\ h0.kind = "task" /\ j0 \in Holds /\ j0.kind = "job"
    BY DEF Hold, Holds, Threads
  <2> QED BY <2>1, <2>2 DEF HeldByJob
<1>5. \A d \in Entities : \A h : HeldByJob(h, d)' <=> HeldByJob(h, d) /\ h # j0
  BY <1>1, JobEmptyFacts
<1> HIDE DEF j0, h0
<1>6. ASSUME NEW d \in Entities, d # s
      PROVE  Counted(d)'
  <2>1. \A h : /\ HeldByJob(h, d)' <=> HeldByJob(h, d)
               /\ HeldByTask(h, d)' <=> HeldByTask(h, d)
    BY <1>2, <1>4, <1>5, <1>6
  <2>2. Holders(d)' = Holders(d)
    BY <1>3, <2>1 DEF Holders
  <2>3. Counted(d) /\ (refs[d])' = refs[d]
    BY <1>1 DEF Counts
  <2> QED BY <2>2, <2>3, CountSame
<1>7. Counted(s)'
  <2>1. j0 \in Holders(s)
    BY <1>4 DEF Holders
  <2>2. h0 \notin Holders(s)
    BY <1>2, <1>4, HoldKinds DEF Holders
  <2>3. /\ \A h : HeldByTask(h, s)' <=> HeldByTask(h, s) \/ h = h0
        /\ \A h : HeldByJob(h, s)' <=> HeldByJob(h, s) /\ h # j0
    BY <1>2, <1>5
  <2>4. Holders(s)' = (Holders(s) \ {j0}) \cup {h0}
    BY <1>3, <1>4, <2>3, HoldKinds DEF Holders
  <2>5. Counted(s) /\ (refs[s])' = refs[s]
    BY <1>1 DEF Counts
  <2> QED BY <2>1, <2>2, <2>4, <2>5, CountMove
<1> QED BY <1>6, <1>7 DEF Counts

\* What a thread that gives up a Script has to do.
LEMMA UnrefBegins ==
  ASSUME PendingType, NEW t \in Threads, pending[t] = <<>>, NEW s \in Entities,
         pending' = [pending EXCEPT ![t] = <<Unref(s)>>]
  PROVE  /\ ToDoStep(t, 0, {<<0, Unref(s)>>})
         /\ \A n \in Nat, d \in Entities : <<n, Unref(d)>> \in {<<0, Unref(s)>>} <=> n = 0 /\ d = s
         /\ \A n, g : <<n, Reset(g)>> \notin {<<0, Unref(s)>>}
         /\ \A i, n : /\ <<n, Dispose(i)>> \notin {<<0, Unref(s)>>}
                      /\ <<n, Cleanup(i)>> \notin {<<0, Unref(s)>>}
<1>1. <<Unref(s)>> \in Seq(Ops) /\ Adds(<<Unref(s)>>, 0) = {<<0, Unref(s)>>}
  BY OneAdded, OpKinds
<1>2. ToDoStep(t, 0, Adds(<<Unref(s)>>, 0))
  BY <1>1, Begin
<1> QED BY <1>1, <1>2, OpsDiffer

\* The script of a job ends and its thread gives the Script up, whatever is left in the
\* future.
LEMMA JobOverStep ==
  ASSUME LifeInv, NEW j \in Jobs, ~Ended(j), NEW s, s = job[j].script,
         NEW now \in {"idle", "failed"}, JobEmpty(j, now), Unlock(j),
         pending' = [pending EXCEPT ![j] = <<Unref(s)>>],
         home' \in [Globals -> 0..MaxCreated], \A g \in Globals \ {j} : home'[g] = home[g],
         home'[j] = home[j] \/ now = "failed",
         UNCHANGED <<gen, created, registered, refs, parent, app>>
  PROVE  LifeInv'
<1> DEFINE more == {<<0, Unref(s)>>}
<1>1. Typed /\ Counts /\ TypeOK /\ PendingType /\ JobsOK
  BY DEF LifeInv, Typed
<1>2. /\ job' \in [Jobs -> [state : JobStates, script : Scripts \cup {Nothing}]]
      /\ job'[j].state = now /\ job'[j].script = Nothing
      /\ \A k \in Jobs \ {j} : job'[k] = job[k]
      /\ \A k \in Jobs : job'[k].state = "ready" => k # j /\ job'[k] = job[k]
  BY <1>1, JobEmptyFacts
<1>3. s \in Scripts /\ s \in Entities
  BY <1>1, HeldExists, Kinds DEF Ended
<1>4. pending[j] = <<>> /\ j \in Threads /\ j \in Globals
  BY <1>1, Kinds DEF JobsOK
<1>5. /\ ToDoStep(j, 0, more)
      /\ \A n \in Nat, d \in Entities : <<n, Unref(d)>> \in more <=> n = 0 /\ d = s
      /\ \A n, g : <<n, Reset(g)>> \notin more
      /\ \A i, n : <<n, Dispose(i)>> \notin more /\ <<n, Cleanup(i)>> \notin more
  BY <1>1, <1>3, <1>4, UnrefBegins
<1> HIDE DEF more
<1>6. Counts'
  BY <1>3, <1>4, <1>5, JobHoldMoves
<1>7. JobsOK'
  <2>1. \A k \in Jobs \ {j} : pending'[k] = pending[k]
    BY <1>1, Kinds DEF PendingType
  <2> QED BY <1>1, <1>2, <2>1 DEF JobsOK, Empty, Ended
<1>8. home[j] = 0
  BY <1>4, EmptyFuture
<1>9. BeginFrame(j, more)
  <2>1. /\ app' \subseteq Entities /\ holder' \in [Isolates -> Threads \cup {NoThread}]
        /\ refs' \in [Entities -> Nat] /\ \A e \in Entities : refs[e] = 0 <=> refs'[e] = 0
    BY <1>1, UnlockType DEF TypeOK
  <2>2. \A g \in Globals : home'[g] # home[g] => g = j /\ g \in Jobs /\ home[g] = 0 /\ InUse(g)'
    BY <1>2, <1>8 DEF InUse
  <2>3. \A k \in Jobs : job[k].state = "idle" => job'[k].state = "idle"
    BY <1>2 DEF Ended, Empty
  <2>4. \A k \in Jobs : job'[k].state = "ready" => job'[k] = job[k] /\ home'[k] = home[k]
    BY <1>2, Kinds
  <2>5. \A k \in Jobs : InUse(k) => InUse(k)'
    BY <1>2 DEF InUse, Ended, Empty
  <2> QED BY <1>2, <1>5, <2>1, <2>2, <2>3, <2>4, <2>5 DEF BeginFrame
<1> QED BY <1>4, <1>5, <1>6, <1>7, <1>9, BeginStep

LEMMA FinishThreadStep ==
  ASSUME LifeInv, NEW j \in Jobs, FinishThread(j)
  PROVE  LifeInv'
<1> DEFINE s == job[j].script
<1>1. /\ ~Ended(j) /\ Unlock(j) /\ JobEmpty(j, "idle")
      /\ pending' = [pending EXCEPT ![j] = <<Unref(s)>>]
      /\ UNCHANGED <<gen, created, registered, refs, parent, home, app>>
  BY DEF FinishThread, JobEmpty, isolateVars, Ended, Empty
<1>2. home' \in [Globals -> 0..MaxCreated]
  BY <1>1 DEF LifeInv, Typed, TypeOK
<1>3. PICK r : r = s
  OBVIOUS
<1> QED BY <1>1, <1>2, <1>3, JobOverStep

LEMMA FailAsyncStep ==
  ASSUME LifeInv, NEW j \in Jobs, FailAsync(j)
  PROVE  LifeInv'
<1> DEFINE s == job[j].script
<1>1. /\ ~Ended(j) /\ Unlock(j) /\ JobEmpty(j, "failed")
      /\ home' = [home EXCEPT ![j] = gen[IsolateOf(s)]]
      /\ pending' = [pending EXCEPT ![j] = <<Unref(s)>>]
      /\ UNCHANGED <<gen, created, registered, refs, parent, app>>
  BY DEF FailAsync, JobEmpty, isolateVars, Ended, Empty
<1>2. s \in Scripts /\ s \in Entities /\ refs[s] > 0
  BY <1>1, HeldExists, Kinds DEF LifeInv, Ended
<1>3. /\ home \in [Globals -> 0..MaxCreated] /\ gen \in [Isolates -> 0..MaxCreated]
      /\ IsolateOf(s) \in Isolates
  BY <1>2, TheIsolate DEF LifeInv, Typed, TypeOK
<1> HIDE DEF s
<1>4. home' \in [Globals -> 0..MaxCreated] /\ \A g \in Globals \ {j} : home'[g] = home[g]
  BY <1>1, <1>3
<1>5. PICK r : r = job[j].script
  OBVIOUS
<1> QED BY <1>1, <1>4, <1>5, JobOverStep DEF s

\* A result keeps the Script in place of the argument, which goes to the thread.
LEMMA FinishAsyncOf ==
  ASSUME LifeInv, NEW j \in Jobs, FinishAsync(j), NEW s, s = job[j].script
  PROVE  LifeInv'
<1> DEFINE more == {<<0, Unref(s)>>}
           h0 == Hold("task", j, 0)
<1>1. /\ Typed /\ Counts /\ TypeOK /\ PendingType /\ JobsOK
      /\ refs \in [Entities -> Nat] /\ home \in [Globals -> 0..MaxCreated]
      /\ job \in [Jobs -> [state : JobStates, script : Scripts \cup {Nothing}]]
  BY DEF LifeInv, Typed, TypeOK
<1>2. /\ job[j].state = "running async" /\ Unlock(j)
      /\ refs' = [refs EXCEPT ![s] = @ + 1]
      /\ home' = [home EXCEPT ![j] = gen[IsolateOf(s)]]
      /\ job' = [job EXCEPT ![j].state = "ready"]
      /\ pending' = [pending EXCEPT ![j] = <<Unref(s)>>]
      /\ UNCHANGED <<gen, created, registered, parent, app>>
  BY DEF FinishAsync, isolateVars
<1>3. ~Ended(j) /\ ~Empty(j)
  BY <1>2 DEF Ended, Empty
<1>4. /\ s \in Scripts /\ s \in Entities /\ refs[s] > 0 /\ s # Nothing
      /\ j \in Globals /\ j \in Threads /\ j \notin Entities
  BY <1>1, <1>3, HeldExists, Kinds
<1>5. gen[IsolateOf(s)] = home[s]
  BY <1>4, TheIsolate
<1>7. /\ refs' \in [Entities -> Nat] /\ refs'[s] = refs[s] + 1
      /\ \A d \in Entities : d # s => refs'[d] = refs[d]
      /\ \A d \in Entities : refs[d] = 0 <=> refs'[d] = 0
  BY <1>1, <1>2, <1>4, OneMore
<1>8. /\ home' \in [Globals -> 0..MaxCreated] /\ home'[j] = home[s] /\ home'[s] = home[s]
      /\ \A g \in Globals \ {j} : home'[g] = home[g]
  <2>1. home[s] \in 0..MaxCreated /\ s # j
    BY <1>1, <1>4, Kinds
  <2> QED BY <1>1, <1>2, <1>4, <1>5, <2>1, Kinds
<1>9. /\ job' \in [Jobs -> [state : JobStates, script : Scripts \cup {Nothing}]]
      /\ job'[j].script = s /\ job'[j].state = "ready"
      /\ \A k \in Jobs \ {j} : job'[k] = job[k]
  BY <1>1, <1>2 DEF JobStates
<1>10. pending[j] = <<>>
  BY <1>1, <1>3 DEF JobsOK
<1>11. /\ ToDoStep(j, 0, more)
       /\ \A n \in Nat, d \in Entities : <<n, Unref(d)>> \in more <=> n = 0 /\ d = s
       /\ \A n, g : <<n, Reset(g)>> \notin more
       /\ \A i, n : <<n, Dispose(i)>> \notin more /\ <<n, Cleanup(i)>> \notin more
  BY <1>1, <1>2, <1>4, <1>10, UnrefBegins
<1> HIDE DEF more
<1>12. Counts'
  <2>1. \A h, d : /\ HeldByApp(h, d)' <=> HeldByApp(h, d)
                  /\ HeldByChild(h, d)' <=> HeldByChild(h, d)
    BY <1>2, HoldersSame
  <2>2. \A h, d : HeldByJob(h, d)' <=> HeldByJob(h, d)
    BY <1>9 DEF HeldByJob
  <2>3. ASSUME NEW d \in Entities
        PROVE  /\ \A h : HeldByTask(h, d)' <=> HeldByTask(h, d) \/ (h = h0 /\ d = s)
               /\ ~HeldByTask(h0, d)
    <3>1. /\ \A h : HeldByTask(h, d)' <=>
                      \/ HeldByTask(h, d)
                      \/ \E n \in Nat : h = Hold("task", j, n) /\ <<n, Unref(d)>> \in more
          /\ \A n \in Nat : ~HeldByTask(Hold("task", j, n), d)
      BY <1>1, <1>4, <1>10, <1>11, BeginHolders
    <3>2. \A h : (\E n \in Nat : h = Hold("task", j, n) /\ <<n, Unref(d)>> \in more)
                   <=> h = Hold("task", j, 0) /\ d = s
      BY <1>11
    <3> QED BY <3>1, <3>2
  <2>4. h0 \in Holds /\ h0.kind = "task"
    BY DEF Hold, Holds, Threads
  <2> HIDE DEF h0
  <2>5. ASSUME NEW d \in Entities, d # s
        PROVE  Counted(d)'
    <3>1. \A h : HeldByTask(h, d)' <=> HeldByTask(h, d)
      BY <2>3, <2>5
    <3>2. Holders(d)' = Holders(d)
      BY <2>1, <2>2, <3>1 DEF Holders
    <3>3. Counted(d) /\ (refs[d])' = refs[d]
      BY <1>1, <1>7, <2>5 DEF Counts
    <3> QED BY <3>2, <3>3, CountSame
  <2>6. Counted(s)'
    <3>1. h0 \notin Holders(s)
      BY <1>4, <2>3, <2>4, HoldKinds DEF Holders
    <3>2. Holders(s)' = Holders(s) \cup {h0}
      BY <1>4, <2>1, <2>2, <2>3, <2>4 DEF Holders
    <3>3. (refs[s])' = refs[s] + 1 /\ Counted(s)
      BY <1>1, <1>4, <1>7 DEF Counts
    <3> QED BY <3>1, <3>2, <3>3, CountGain
  <2> QED BY <2>5, <2>6 DEF Counts
<1>13. JobsOK'
  <2>1. \A k \in Jobs \ {j} : pending'[k] = pending[k]
    BY <1>1, <1>2, Kinds DEF PendingType
  <2> QED BY <1>1, <1>4, <1>9, <2>1 DEF JobsOK, Empty, Ended
<1>14. home[j] = 0
  BY <1>3, <1>4, EmptyFuture
<1>15. BeginFrame(j, more)
  <2>1. app' \subseteq Entities /\ holder' \in [Isolates -> Threads \cup {NoThread}]
    BY <1>1, <1>2, UnlockType DEF TypeOK
  <2>2. InUse(j)'
    BY <1>9 DEF InUse
  <2>3. \A g \in Globals : home'[g] # home[g] => g \in Jobs /\ home[g] = 0 /\ InUse(g)'
    BY <1>8, <1>14, <2>2
  <2>4. \A k \in Jobs : job[k].state = "idle" => job'[k].state = "idle"
    BY <1>2, <1>9
  <2>5. \A k \in Jobs : \/ home'[k] = home'[job'[k].script]
                        \/ job'[k] = job[k] /\ home'[k] = home[k]
    BY <1>8, <1>9, Kinds
  <2>6. \A k \in Jobs : InUse(k) => InUse(k)'
    BY <1>9, <2>2 DEF InUse
  <2> QED BY <1>2, <1>7, <1>8, <1>9, <1>11, <2>1, <2>3, <2>4, <2>5, <2>6 DEF BeginFrame
<1> QED BY <1>4, <1>10, <1>11, <1>12, <1>13, <1>15, BeginStep

LEMMA FinishAsyncStep ==
  ASSUME LifeInv, NEW j \in Jobs, FinishAsync(j)
  PROVE  LifeInv'
<1>1. PICK s : s = job[j].script
  OBVIOUS
<1> QED BY <1>1, FinishAsyncOf


\* The future of a script that ended goes: the v8::Global, then the shared_ptr.
LEMMA DropFutureOf ==
  ASSUME LifeInv, NEW j \in Jobs, DropFuture(j), NEW s, s = job[j].script
  PROVE  LifeInv'
<1> DEFINE more == {<<1, Reset(j)>>, <<0, Unref(s)>>}
<1>1. /\ Typed /\ Counts /\ TypeOK /\ PendingType /\ JobsOK /\ HomesOK
      /\ \A d \in Entities : AliveOK(d)
  BY DEF LifeInv, Typed
<1>2. /\ pending[App] = <<>> /\ job[j].state = "ready" /\ JobEmpty(j, "idle")
      /\ pending' = [pending EXCEPT ![App] = <<Reset(j), Unref(s)>>]
      /\ UNCHANGED <<gen, created, registered, refs, parent, home, app, holder>>
  BY DEF DropFuture, AppIdle, DestroyPair, JobEmpty, isolateVars
<1>3. /\ job' \in [Jobs -> [state : JobStates, script : Scripts \cup {Nothing}]]
      /\ job'[j].state = "idle" /\ job'[j].script = Nothing
      /\ \A k \in Jobs \ {j} : job'[k] = job[k]
      /\ \A k \in Jobs : job'[k].state = "ready" => k # j /\ job'[k] = job[k]
  BY <1>1, <1>2, JobEmptyFacts
<1>4. /\ s \in Scripts /\ s \in Entities /\ j \in Globals /\ j \notin Isolates
      /\ App \in Threads /\ App \notin Jobs /\ j \notin Entities
  BY <1>1, <1>2, HeldExists, Kinds DEF Empty
<1>5. home[j] = home[s] /\ home[s] # 0
  <2>1. refs[s] > 0
    BY <1>1, <1>2, HeldExists DEF Empty
  <2> QED BY <1>1, <1>2, <1>4, <2>1, TheIsolate DEF HomesOK
<1>7. ToDoStep(App, 0, more)
  <2>1. /\ <<Reset(j), Unref(s)>> \in Seq(Ops)
        /\ Adds(<<Reset(j), Unref(s)>>, 0) = {<<0 + 1, Reset(j)>>, <<0, Unref(s)>>}
    BY <1>4, TwoAdded, OpKinds
  <2>2. Adds(<<Reset(j), Unref(s)>>, 0) = more
    BY <2>1
  <2> HIDE DEF more
  <2>3. ToDoStep(App, 0, Adds(<<Reset(j), Unref(s)>>, 0))
    BY <1>1, <1>2, <1>4, <2>1, Begin
  <2> QED BY <2>2, <2>3
<1>8. /\ \A n \in Nat, d \in Entities : <<n, Unref(d)>> \in more <=> n = 0 /\ d = s
      /\ \A n \in Nat, g \in Globals : <<n, Reset(g)>> \in more => n = 1 /\ g = j
      /\ \A i \in Isolates, n \in Nat : <<n, Dispose(i)>> \notin more /\ <<n, Cleanup(i)>> \notin more
      /\ <<1, Reset(j)>> \in more /\ <<0, Unref(s)>> \in more
  BY OpsDiffer
<1> HIDE DEF more
<1>9. Counts'
  BY <1>2, <1>4, <1>7, <1>8, JobHoldMoves
<1>10. JobsOK'
  <2>1. \A k \in Jobs : pending'[k] = pending[k]
    BY <1>1, <1>2, <1>4 DEF PendingType
  <2> QED BY <1>1, <1>2, <1>3, <2>1 DEF JobsOK, Empty, Ended
<1>11. ResetOK(App, 1, j)'
  <2>1. ToDo(App, 0, Unref(s))'
    BY <1>1, <1>2, <1>4, <1>7, <1>8, BeginKeeps, OpKinds
  <2>2. Over(j)'
    BY <1>3 DEF Over
  <2>3. 1 > 0 /\ 1 - 1 = 0
    OBVIOUS
  <2> QED BY <1>2, <1>4, <1>5, <2>1, <2>2, <2>3 DEF ResetOK
<1>12. BeginFrame(App, more)
  <2>1. /\ app' \subseteq Entities /\ holder' \in [Isolates -> Threads \cup {NoThread}]
        /\ refs' \in [Entities -> Nat] /\ \A e \in Entities : refs[e] = 0 <=> refs'[e] = 0
        /\ home' \in [Globals -> 0..MaxCreated]
    BY <1>1, <1>2 DEF TypeOK
  <2>2. \A k \in Jobs : job[k].state = "idle" => job'[k].state = "idle"
    BY <1>3
  <2>3. \A k \in Jobs : InUse(k) => InUse(k)' \/ \E n \in Nat : <<n, Reset(k)>> \in more
    BY <1>3, <1>8 DEF InUse
  <2>4. \A g \in Globals, n \in Nat : <<n, Reset(g)>> \in more =>
          n = 1 /\ g \in Jobs /\ job[g].state = "ready" /\ ResetOK(App, n, g)'
    BY <1>2, <1>8, <1>11
  <2> QED BY <1>2, <1>3, <1>8, <2>1, <2>2, <2>3, <2>4 DEF BeginFrame
<1> QED BY <1>2, <1>4, <1>7, <1>9, <1>10, <1>12, BeginStep

LEMMA DropFutureStep ==
  ASSUME LifeInv, NEW j \in Jobs, DropFuture(j)
  PROVE  LifeInv'
<1>1. PICK s : s = job[j].script
  OBVIOUS
<1> QED BY <1>1, DropFutureOf

-------------------------------------------------------------------------------
(* The theorems.                                                           *)

LEMMA InvInit ==
  ASSUME Init
  PROVE  LifeInv
<1>1. /\ pending = [t \in Threads |-> <<>>] /\ <<>> \in Seq(Ops)
      /\ <<>> \in Seq([op : Operations, of : Globals])
  BY DEF Init
<1>2. \A t \in Threads : \A n, o : ~ToDo(t, n, o)
  BY <1>1 DEF ToDo
<1>3. PendingType /\ ParentType /\ JobsOK
  BY <1>1, Kinds DEF Init, PendingType, ParentType, JobsOK, Empty, Ended
<1>4. TypeOK
  BY <1>1, Kinds DEF Init, TypeOK, JobStates
<1>5. Counts
  <2>1. ASSUME NEW e \in Entities
        PROVE  Counted(e)
    <3>1. e # Nothing
      BY Kinds
    <3>2. \A h : ~HeldByTask(h, e)
      BY <1>2 DEF HeldByTask
    <3>3. \A h : ~HeldByApp(h, e) /\ ~HeldByChild(h, e) /\ ~HeldByJob(h, e)
      BY <3>1 DEF Init, HeldByApp, HeldByChild, HeldByJob
    <3>4. Holders(e) = {}
      BY <3>2, <3>3 DEF Holders
    <3>5. refs[e] = 0
      BY DEF Init
    <3> HIDE DEF Holders
    <3> QED BY <3>4, <3>5, FS_EmptySet DEF Counted
  <2> QED BY <2>1 DEF Counts
<1>6. \A e \in Entities : AliveOK(e)
  BY DEF Init, AliveOK
<1>7. Tasks
  BY <1>2 DEF Tasks, ResetsOK, ResetOnce, DisposalsOK, DisposeOnce, CleanupsOK
<1>8. HomesOK
  BY DEF Init, HomesOK
<1>9. RegisteredOK
  BY DEF Init, RegisteredOK
<1> QED BY <1>3, <1>4, <1>5, <1>6, <1>7, <1>8, <1>9 DEF LifeInv, Typed

LEMMA InvStutter ==
  ASSUME LifeInv, UNCHANGED vars
  PROVE  LifeInv'
<1>1. holder' \in [Isolates -> Threads \cup {NoThread}]
  BY DEF LifeInv, Typed, TypeOK, vars
<1> QED BY <1>1, HolderStep DEF vars

\* Each step keeps the invariant.
LEMMA InvStep ==
  ASSUME LifeInv, [Next]_vars
  PROVE  LifeInv'
<1>1. ASSUME NEW i \in Isolates,
             EnterIsolate(i) \/ LeaveIsolate(i)
      PROVE  LifeInv'
  <2>1. App \in Threads /\ holder \in [Isolates -> Threads \cup {NoThread}]
    BY Kinds DEF LifeInv, Typed, TypeOK
  <2>2. /\ holder' \in [Isolates -> Threads \cup {NoThread}]
        /\ UNCHANGED <<gen, created, refs, parent, home, registered, app, job, pending>>
    BY <1>1, <2>1 DEF EnterIsolate, LeaveIsolate, isolateVars
  <2> QED BY <2>2, HolderStep
<1>2. ASSUME NEW i \in Isolates,
             \/ CreateIsolate(i) \/ Register(i) \/ EnterIsolate(i) \/ LeaveIsolate(i)
             \/ \E c \in Contexts : CreateContext(c, i)
      PROVE  LifeInv'
  BY <1>1, <1>2, CreateIsolateStep, RegisterStep, MakeFromStep DEF CreateContext
<1>3. ASSUME NEW s \in Scripts,
             \/ \E c \in Contexts : Compile(s, c)
             \/ \E j \in Jobs : RunThread(s, j) \/ RunAsync(s, j)
      PROVE  LifeInv'
  <2>1. CASE \E c \in Contexts : Compile(s, c)
    BY <2>1, MakeFromStep DEF Compile
  <2>2. CASE \E j \in Jobs : RunThread(s, j) \/ RunAsync(s, j)
    BY <2>2, StartJobStep DEF RunThread, RunAsync
  <2> QED BY <1>3, <2>1, <2>2
<1>4. CASE Application
  BY <1>2, <1>3, <1>4, DropStep, DropFutureStep, DropExceptionStep DEF Application
<1>5. ASSUME NEW j \in Jobs, JobStep(j)
      PROVE  LifeInv'
  BY <1>5, LockStep, FinishThreadStep, FailThreadStep, FinishAsyncStep, FailAsyncStep DEF JobStep
<1>6. ASSUME NEW t \in Threads, Destroy(t)
      PROVE  LifeInv'
  BY <1>6, DoResetStep, DoUnrefStep, DoCleanupStep, DoDisposeStep DEF Destroy
<1>7. CASE UNCHANGED vars
  BY <1>7, InvStutter
<1> QED BY <1>4, <1>5, <1>6, <1>7 DEF Next

\* The invariant: counts are right and every destructor is in order, always.
THEOREM Invariant == Spec => []LifeInv
<1>1. Init => LifeInv
  BY InvInit
<1>2. LifeInv /\ [Next]_vars => LifeInv'
  BY InvStep
<1> QED BY <1>1, <1>2, PTL DEF Spec

\* The state has its type, however many threads destroy what they hold.
THEOREM Typing == Spec => []TypeOK
<1>1. LifeInv => TypeOK
  BY DEF LifeInv, Typed
<1> QED BY <1>1, Invariant, PTL

\* No v8::Global of an isolate, context, script or future is left when its isolate is
\* disposed of: the members of Isolate, Context, Script and of the pair in a future are
\* destroyed in an order that sees to it.
THEOREM NothingOutlives == Spec => []NoGlobalOutlivesIsolate
<1>1. ASSUME LifeInv
      PROVE  NoGlobalOutlivesIsolate
  <2>1. SUFFICES ASSUME NEW g \in Globals, home[g] # 0, ~Thrown(g)
                 PROVE  \E i \in Isolates : gen[i] = home[g]
    BY DEF NoGlobalOutlivesIsolate, InItsIsolate
  <2>2. /\ Typed /\ Counts /\ Tasks /\ HomesOK
    BY <1>1 DEF LifeInv
  <2>3. ASSUME NEW e \in Entities, refs[e] > 0, home[e] = home[g]
        PROVE  \E i \in Isolates : gen[i] = home[g]
    BY <1>1, <2>3, TheIsolate
  <2>4. CASE \E t \in Threads, n \in Nat : ToDo(t, n, Reset(g))
    <3>1. PICK t \in Threads, n \in Nat : ToDo(t, n, Reset(g))
      BY <2>4
    <3>2. ResetOK(t, n, g)
      BY <2>2, <3>1 DEF Tasks, ResetsOK
    <3>3. CASE g \in Isolates
      BY <3>2, <3>3 DEF ResetOK
    <3>4. CASE g \notin Isolates
      <4>1. PICK p \in Entities : ToDo(t, n - 1, Unref(p)) /\ home[p] = home[g]
        BY <3>2, <3>4 DEF ResetOK
      <4>2. refs[p] > 0
        BY <2>2, <4>1, HeldExists
      <4> QED BY <2>3, <4>1, <4>2
    <3> QED BY <3>3, <3>4
  <2>5. CASE InUse(g) /\ g \notin Jobs
    BY <2>3, <2>5, Kinds DEF InUse
  <2>6. CASE InUse(g) /\ g \in Jobs
    <3>1. /\ job[g].state = "ready" /\ home[g] = home[job[g].script]
          /\ job[g].script \in Scripts /\ refs[job[g].script] > 0
      BY <2>1, <2>2, <2>6, HeldExists DEF InUse, HomesOK, Thrown, Empty
    <3> QED BY <2>3, <3>1, Kinds
  <2> QED BY <2>1, <2>2, <2>4, <2>5, <2>6 DEF HomesOK
<1> QED BY <1>1, Invariant, PTL

\* What the application has a shared_ptr to, and what a job is to run, keeps what it
\* was made from and its isolate.
THEOREM Handles == Spec => []HandlesKeepIsolates
<1>1. ASSUME LifeInv
      PROVE  HandlesKeepIsolates
  <2>1. Typed /\ Counts /\ \A e \in Entities : AliveOK(e)
    BY <1>1 DEF LifeInv
  <2>2. ASSUME NEW e \in Entities, refs[e] > 0
        PROVE  KeepsIsolate(e)
    <3>1. /\ IsolateOf(e) \in Isolates /\ home[e] # 0
          /\ gen[IsolateOf(e)] = home[e] /\ gen[IsolateOf(e)] # 0
          /\ e \notin Isolates => parent[e] \in Entities /\ refs[parent[e]] > 0
      BY <1>1, <2>2, TheIsolate
    <3> QED BY <2>2, <3>1, Kinds DEF KeepsIsolate
  <2>3. \A e \in app : KeepsIsolate(e)
    BY <2>1, <2>2, HeldExists
  <2>4. \A j \in Jobs :
          Queued(j) \/ Running(j) \/ job[j].state = "ready" => KeepsIsolate(job[j].script)
    <3>1. TAKE j \in Jobs
    <3>2. HAVE Queued(j) \/ Running(j) \/ job[j].state = "ready"
    <3>3. ~Empty(j)
      BY <3>2 DEF Queued, Running, Empty
    <3> QED BY <2>1, <2>2, <3>3, HeldExists, Kinds
  <2> QED BY <2>3, <2>4 DEF HandlesKeepIsolates
<1> QED BY <1>1, Invariant, PTL

\* What the maps hold for an address was put there for the isolate that is there.
THEOREM Registration == Spec => []RegistrationIsOwn
<1>1. LifeInv => RegistrationIsOwn
  BY DEF LifeInv, RegisteredOK, RegistrationIsOwn
<1> QED BY <1>1, Invariant, PTL

\* The destructor of an isolate takes nothing of one that is still held.
LEMMA KeptStep ==
  ASSUME LifeInv, [Next]_vars, NEW i \in Isolates, registered[i] # 0, refs[i] > 0
  PROVE  registered'[i] = registered[i]
<1>1. /\ Typed /\ Tasks /\ RegisteredOK /\ PendingType
      /\ registered \in [Isolates -> 0..MaxCreated]
  BY DEF LifeInv, Typed, TypeOK
<1>2. ASSUME NEW k \in Isolates, Register(k)
      PROVE  registered'[i] = registered[i]
  <2>1. registered' = [registered EXCEPT ![k] = gen[k]]
    BY <1>2 DEF Register
  <2>2. registered[i] = gen[i]
    BY <1>1 DEF RegisteredOK
  <2> QED BY <1>1, <2>1, <2>2
<1>3. ASSUME NEW t \in Threads, DoCleanup(t)
      PROVE  registered'[i] = registered[i]
  <2>1. PICK kept : RestIs(t, kept)
    BY RestExists
  <2>2. /\ pending[t] # <<>> /\ Head(pending[t]).op = "cleanup"
        /\ registered' = [registered EXCEPT ![Head(pending[t]).of] = 0]
    BY <1>3 DEF DoCleanup, Doing, Operand
  <2>3. kept \in Nat /\ Head(pending[t]) \in Ops /\ ToDo(t, kept, Head(pending[t]))
    BY <1>1, <2>1, <2>2, Doing1
  <2>4. PICK k \in Isolates : Head(pending[t]) = Cleanup(k)
    BY <2>2, <2>3, OpCases DEF Reset, Unref, Dispose
  <2>5. refs[k] = 0
    BY <1>1, <2>3, <2>4 DEF Tasks, CleanupsOK
  <2>6. Head(pending[t]).of = k
    BY <2>4 DEF Cleanup
  <2> QED BY <1>1, <2>2, <2>5, <2>6
<1>4. CASE Application
  <2>1. \/ \E k \in Isolates : Register(k)
        \/ UNCHANGED registered
    BY <1>4 DEF Application, CreateIsolate, EnterIsolate, LeaveIsolate, CreateContext, Compile,
                MakeFrom, RunThread, RunAsync, StartJob, Drop, DropFuture,
                DropException, isolateVars
  <2> QED BY <1>2, <2>1
<1>5. ASSUME NEW j \in Jobs, JobStep(j)
      PROVE  registered'[i] = registered[i]
  BY <1>5 DEF JobStep, Lock, FinishThread, FailThread, FinishAsync, FailAsync, isolateVars
<1>6. ASSUME NEW t \in Threads, Destroy(t)
      PROVE  registered'[i] = registered[i]
  BY <1>3, <1>6 DEF Destroy, DoReset, DoUnref, DoDispose, isolateVars
<1>7. CASE UNCHANGED vars
  BY <1>7 DEF vars
<1> QED BY <1>4, <1>5, <1>6, <1>7 DEF Next

\* An isolate in use keeps what it registered, though its address was another's before
\* and the destructor of that one empties the maps by address.
THEOREM Kept == Spec => RegistrationKept
<1>1. LifeInv /\ [Next]_vars =>
        [\A i \in Isolates :
           registered[i] # 0 /\ refs[i] > 0 => registered'[i] = registered[i]]_vars
  BY KeptStep
<1> QED BY <1>1, Invariant, PTL DEF Spec, RegistrationKept
===============================================================================
