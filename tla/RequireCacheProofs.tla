---------------------------- MODULE RequireCacheProofs ----------------------------
(***************************************************************************)
(* What RequireCache promises for any threads, isolates, paths, requests   *)
(* and depth.  The invariant says of each call of require how far its      *)
(* search has come, and that the module it runs was started in the isolate *)
(* that its thread has locked.                                             *)
(***************************************************************************)
EXTENDS RequireCache, SequenceTheorems, TLAPS

USE RequireAssumption

-------------------------------------------------------------------------------
(* Candidates: a number of a candidate is a suffix and a path.             *)

Last == Len(Suffixes) * Len(Paths)

LEMMA Sizes ==
  /\ Len(Paths) \in Nat /\ DOMAIN Paths = 1..Len(Paths)
  /\ DOMAIN Suffixes = 1..3 /\ Last = 3 * Len(Paths)
BY DEF Suffixes, Last

LEMMA Division ==
  ASSUME NEW n \in Nat \ {0}, NEW r \in 0..(n - 1)
  PROVE  /\ r \div n = 0 /\ r % n = r
         /\ (n + r) \div n = 1 /\ (n + r) % n = r
         /\ (2 * n + r) \div n = 2 /\ (2 * n + r) % n = r
OBVIOUS

LEMMA CandidateAt ==
  ASSUME NEW r, NEW s \in DOMAIN Suffixes, NEW p \in DOMAIN Paths
  PROVE  /\ (s - 1) * Len(Paths) + p \in 1..Last
         /\ Candidates(r)[(s - 1) * Len(Paths) + p] = File(Paths[p], r, Suffixes[s])
<1> DEFINE n == Len(Paths)
           k == (s - 1) * n + p
<1>1. n \in Nat \ {0} /\ p \in 1..n /\ s \in 1..3 /\ p - 1 \in 0..(n - 1)
  BY Sizes
<1>2. k \in 1..Last
  BY <1>1, Sizes
<1>3. /\ s = 1 => k - 1 = p - 1
      /\ s = 2 => k - 1 = n + (p - 1)
      /\ s = 3 => k - 1 = 2 * n + (p - 1)
  BY <1>1
<1> HIDE DEF k, n
<1>4. /\ (p - 1) \div n = 0 /\ (p - 1) % n = p - 1
      /\ (n + (p - 1)) \div n = 1 /\ (n + (p - 1)) % n = p - 1
      /\ (2 * n + (p - 1)) \div n = 2 /\ (2 * n + (p - 1)) % n = p - 1
  <2> DEFINE q == p - 1
  <2>1. q \in 0..(n - 1)
    BY <1>1
  <2> HIDE DEF q
  <2>2. /\ q \div n = 0 /\ q % n = q
        /\ (n + q) \div n = 1 /\ (n + q) % n = q
        /\ (2 * n + q) \div n = 2 /\ (2 * n + q) % n = q
    BY <1>1, <2>1, Division
  <2> QED BY <2>2 DEF q
<1>5. ((k - 1) % n) + 1 = p /\ ((k - 1) \div n) + 1 = s
  <2>1. CASE s = 1
    <3>1. (k - 1) \div n = 0 /\ (k - 1) % n = p - 1
      BY <1>3, <1>4, <2>1
    <3> QED BY <1>1, <2>1, <3>1
  <2>2. CASE s = 2
    <3>1. (k - 1) \div n = 1 /\ (k - 1) % n = p - 1
      BY <1>3, <1>4, <2>2
    <3> QED BY <1>1, <2>2, <3>1
  <2>3. CASE s = 3
    <3>1. (k - 1) \div n = 2 /\ (k - 1) % n = p - 1
      BY <1>3, <1>4, <2>3
    <3> QED BY <1>1, <2>3, <3>1
  <2> QED BY <1>1, <2>1, <2>2, <2>3
<1>6. Candidates(r)[k] = File(Paths[((k - 1) % n) + 1], r, Suffixes[((k - 1) \div n) + 1])
  BY <1>2 DEF Candidates, Last, n
<1> QED BY <1>2, <1>5, <1>6 DEF k, n

LEMMA CandidateIs ==
  ASSUME NEW r, NEW k \in 1..Last
  PROVE  \E s \in DOMAIN Suffixes, p \in DOMAIN Paths : k = (s - 1) * Len(Paths) + p
<1> DEFINE n == Len(Paths)
<1>1. n \in Nat \ {0}
  BY Sizes
<1>2. CASE k <= n
  <2>1. 1 \in DOMAIN Suffixes /\ k \in DOMAIN Paths /\ k = (1 - 1) * n + k
    BY <1>1, <1>2, Sizes
  <2> QED BY <2>1
<1>3. CASE n < k /\ k <= 2 * n
  <2>1. 2 \in DOMAIN Suffixes /\ k - n \in DOMAIN Paths /\ k = (2 - 1) * n + (k - n)
    BY <1>1, <1>3, Sizes
  <2> QED BY <2>1
<1>4. CASE 2 * n < k
  <2>1. 3 \in DOMAIN Suffixes /\ k - 2 * n \in DOMAIN Paths
        /\ k = (3 - 1) * n + (k - 2 * n)
    BY <1>1, <1>4, Sizes
  <2> QED BY <2>1
<1> QED BY <1>1, <1>2, <1>3, <1>4, Sizes

LEMMA CandidateIsFile ==
  ASSUME NEW r \in Requests, NEW k \in 1..Last
  PROVE  Candidates(r)[k] \in Files /\ DOMAIN Candidates(r) = 1..Last
<1>1. PICK s \in DOMAIN Suffixes, p \in DOMAIN Paths : k = (s - 1) * Len(Paths) + p
  BY CandidateIs
<1>2. Candidates(r)[k] = File(Paths[p], r, Suffixes[s])
  BY <1>1, CandidateAt
<1> QED BY <1>2 DEF Files, Candidates, Last

\* What candidates in order find is what the documented order finds.
LEMMA FirstCandidate ==
  ASSUME NEW r \in Requests, NEW k \in 1..Last, NEW there,
         \A j \in 1..(k - 1) : Candidates(r)[j] \notin there
  PROVE  FoundFirst(r, Candidates(r)[k], there)
<1> DEFINE n == Len(Paths)
<1>1. PICK s \in DOMAIN Suffixes, p \in DOMAIN Paths : k = (s - 1) * n + p
  BY CandidateIs
<1>2. Candidates(r)[k] = File(Paths[p], r, Suffixes[s])
  BY <1>1, CandidateAt
<1>3. n \in Nat /\ s \in 1..3 /\ p \in 1..n
  BY Sizes
<1>4. ASSUME NEW s2 \in 1..(s - 1), NEW p2 \in DOMAIN Paths
      PROVE  File(Paths[p2], r, Suffixes[s2]) \notin there
  <2>1. s2 \in DOMAIN Suffixes /\ p2 \in 1..n
    BY <1>3, Sizes
  <2>2. (s2 - 1) * n + p2 \in 1..(k - 1)
    <3>1. CASE s2 = 1 /\ s = 2
      BY <1>1, <1>3, <2>1, <3>1
    <3>2. CASE s2 = 1 /\ s = 3
      BY <1>1, <1>3, <2>1, <3>2
    <3>3. CASE s2 = 2 /\ s = 3
      BY <1>1, <1>3, <2>1, <3>3
    <3> QED BY <1>3, <3>1, <3>2, <3>3
  <2> QED BY <2>1, <2>2, CandidateAt
<1>5. ASSUME NEW p2 \in 1..(p - 1)
      PROVE  File(Paths[p2], r, Suffixes[s]) \notin there
  <2>1. p2 \in DOMAIN Paths
    BY <1>3, Sizes
  <2>2. (s - 1) * n + p2 \in 1..(k - 1)
    <3>1. CASE s = 1
      BY <1>1, <1>3, <3>1
    <3>2. CASE s = 2
      BY <1>1, <1>3, <3>2
    <3>3. CASE s = 3
      BY <1>1, <1>3, <3>3
    <3> QED BY <1>3, <3>1, <3>2, <3>3
  <2> QED BY <2>1, <2>2, CandidateAt
<1> QED BY <1>2, <1>4, <1>5 DEF FoundFirst

LEMMA NoCandidate ==
  ASSUME NEW r \in Requests, NEW there, \A j \in 1..Last : Candidates(r)[j] \notin there
  PROVE  NoneFound(r, there)
BY CandidateAt DEF NoneFound

LEMMA ThereFiles ==
  ASSUME NEW r \in Requests
  PROVE  There(r) \subseteq Files /\ \A f \in There(r) : files[f] # 0
BY CandidateIsFile DEF There, Candidates, Last

-------------------------------------------------------------------------------
(* The invariant.                                                          *)

FrameType ==
  [request : Requests, mode : AllModes, at : Nat \ {0},
   phase : {"search", "read", "lookup", "run", "callback"},
   time : Nat, value : Nat, todo : Seq(Requests)]

\* How far the search has come.
Searched(f) == IF f.phase = "search" THEN f.at \in 1..(Last + 1) ELSE f.at \in 1..Last

\* The file is not newer than the clock; the module is one of the isolate's.
Timely(f, now, first, last) ==
  /\ f.phase # "search" => f.time \in 1..now
  /\ f.phase \in {"run", "callback"} => f.value \in (first + 1)..last

\* No candidate before the one a call is at is one of these files.
PassedOver(f, there) == \A k \in 1..(f.at - 1) : Candidates(f.request)[k] \notin there

Typed ==
  /\ files \in [Files -> 0..MaxClock]
  /\ clock \in 1..MaxClock
  /\ \A f \in Files : files[f] <= clock
  /\ runs \in Nat
  /\ born \in [Isolates -> Nat]
  /\ \A i \in Isolates : born[i] <= runs
  /\ inside \in [Threads -> Isolates \cup {NoIsolate}]
  /\ stack \in [Threads -> Seq(FrameType)]
  /\ \A t \in Threads : Len(stack[t]) <= MaxDepth

CacheOK ==
  /\ DOMAIN cache = Isolates
  /\ \A i \in Isolates :
       /\ DOMAIN cache[i] \subseteq Files
       /\ \A f \in DOMAIN cache[i] :
            cache[i][f].value \in (born[i] + 1)..runs /\ cache[i][f].time \in 1..clock

\* The Locker: a thread in require is alone in its isolate.
Locked ==
  /\ \A t \in Threads : Busy(t) <=> inside[t] # NoIsolate
  /\ \A t, u \in Threads : inside[t] = inside[u] /\ inside[t] # NoIsolate => t = u

FramesOK ==
  \A t \in Threads : \A k \in DOMAIN stack[t] :
    /\ Searched(stack[t][k])
    /\ Timely(stack[t][k], clock, born[inside[t]], runs)

\* What called another require runs.
Below ==
  \A t \in Threads : \A k \in DOMAIN stack[t] :
    k # 1 => stack[t][k].phase \in {"run", "callback"}

Searching ==
  /\ kept \in [Threads -> SUBSET Files]
  /\ \A t \in Threads : \A f \in kept[t] : files[f] # 0
  /\ \A t \in Threads :
       Phase(t, "search") \/ Phase(t, "read") => PassedOver(Top(t), kept[t])
  /\ short \subseteq Threads
  /\ \A t \in short : Phase(t, "read")

RequireInv == Typed /\ CacheOK /\ Locked /\ FramesOK /\ Below /\ Searching

LEMMA InvImplies ==
  ASSUME RequireInv
  PROVE  TypeOK /\ ResultsOfThisIsolate /\ DocumentedSearchOrder
<1>1. TypeOK
  <2>1. \A i \in Isolates : \A f \in DOMAIN cache[i] : cache[i][f].value \in 1..runs
    BY DEF RequireInv, CacheOK, Typed
  <2> QED BY <2>1 DEF RequireInv, Typed, CacheOK, Searching, TypeOK
<1>2. ResultsOfThisIsolate
  BY DEF RequireInv, CacheOK, Typed, ResultsOfThisIsolate
<1>3. ASSUME NEW t \in Threads, Phase(t, "search") \/ Phase(t, "read")
      PROVE  /\ Top(t).request \in Requests /\ Searched(Top(t))
             /\ PassedOver(Top(t), kept[t])
  <2>1. stack[t] \in Seq(FrameType) /\ stack[t] # <<>>
    BY <1>3 DEF RequireInv, Typed, Phase, Busy
  <2>2. Top(t) = stack[t][1] /\ 1 \in DOMAIN stack[t] /\ Top(t) \in FrameType
    BY <2>1, EmptySeq DEF Top
  <2> QED BY <1>3, <2>2 DEF RequireInv, FramesOK, Searching, FrameType
<1>4. ASSUME NEW t \in Threads, Phase(t, "read")
      PROVE  FoundFirst(Top(t).request, FileOf(Top(t)), kept[t])
  <2>1. Top(t).at \in 1..Last
    BY <1>3, <1>4 DEF Searched, Phase
  <2> QED BY <1>3, <1>4, <2>1, FirstCandidate DEF PassedOver, FileOf
<1>5. ASSUME NEW t \in Threads, Phase(t, "search"),
             Top(t).at \notin DOMAIN Candidates(Top(t).request)
      PROVE  NoneFound(Top(t).request, kept[t])
  <2>1. Top(t).at = Last + 1
    BY <1>3, <1>5, Sizes DEF Searched, Phase, Candidates, Last
  <2>2. \A j \in 1..Last : Candidates(Top(t).request)[j] \notin kept[t]
    BY <1>3, <1>5, <2>1, Sizes DEF PassedOver
  <2> QED BY <1>3, <1>5, <2>2, NoCandidate
<1> QED BY <1>1, <1>2, <1>4, <1>5 DEF DocumentedSearchOrder

LEMMA InvInit == Init => RequireInv
<1> SUFFICES ASSUME Init PROVE RequireInv
  OBVIOUS
<1>1. Typed
  <2>1. \A f \in Files : files[f] \in 0..1
    BY DEF Init
  <2>2. files \in [Files -> 0..MaxClock] /\ \A f \in Files : files[f] <= 1
    BY <2>1 DEF Init
  <2>3. <<>> \in Seq(FrameType) /\ Len(<<>>) = 0
    OBVIOUS
  <2> QED BY <2>2, <2>3 DEF Init, Typed
<1>2. CacheOK /\ Locked /\ FramesOK /\ Below /\ Searching
  BY DEF Init, CacheOK, Locked, FramesOK, Below, Searching, Phase, Busy
<1> QED BY <1>1, <1>2 DEF RequireInv

-------------------------------------------------------------------------------
(* Steps, by what they do to the stack of a thread.                        *)

LEMMA TopFacts ==
  ASSUME RequireInv, NEW t \in Threads, Busy(t)
  PROVE  /\ stack[t] \in Seq(FrameType) /\ Len(stack[t]) \in Nat \ {0}
         /\ 1 \in DOMAIN stack[t] /\ Top(t) = stack[t][1]
         /\ Top(t) \in FrameType
         /\ Searched(Top(t)) /\ Timely(Top(t), clock, born[inside[t]], runs)
         /\ inside[t] \in Isolates
         /\ ~Phase(t, "read") => t \notin short
<1>1. stack[t] \in Seq(FrameType) /\ stack[t] # <<>>
  BY DEF RequireInv, Typed, Busy
<1>2. Len(stack[t]) \in Nat \ {0} /\ Top(t) = stack[t][1] /\ 1 \in DOMAIN stack[t]
  BY <1>1, EmptySeq DEF Top
<1>3. inside[t] \in Isolates
  BY DEF RequireInv, Typed, Locked
<1> QED BY <1>1, <1>2, <1>3 DEF RequireInv, FramesOK, Searching

\* What a step of thread t may do to frames: the others stay, and each of its own is
\* one it had, or right for the isolate it is in.
LEMMA FramesKept ==
  ASSUME RequireInv, NEW t \in Threads,
         clock' \in Nat, clock <= clock', runs' \in Nat, runs <= runs',
         \A u \in Threads \ {t} : stack'[u] = stack[u] /\ inside'[u] = inside[u],
         born' = born,
         \A k \in DOMAIN stack'[t] :
           \/ inside'[t] = inside[t] /\ \E j \in DOMAIN stack[t] : stack'[t][k] = stack[t][j]
           \/ /\ Searched(stack'[t][k])
              /\ Timely(stack'[t][k], clock', born[inside'[t]], runs')
  PROVE  FramesOK'
<1>1. clock \in Nat /\ runs \in Nat
  BY DEF RequireInv, Typed
<1>2. \A f : \A first \in Nat : Timely(f, clock, first, runs) => Timely(f, clock', first, runs')
  BY <1>1 DEF Timely
<1>3. \A u \in Threads : DOMAIN stack[u] # {} => born[inside[u]] \in Nat
  BY DEF RequireInv, Typed, Locked, Busy
<1>4. \A u \in Threads : \A j \in DOMAIN stack[u] :
        /\ Searched(stack[u][j])
        /\ Timely(stack[u][j], clock', born[inside[u]], runs')
  BY <1>2, <1>3 DEF RequireInv, FramesOK
<1>5. ASSUME NEW u \in Threads \ {t}, NEW k \in DOMAIN stack'[u]
      PROVE  /\ Searched(stack'[u][k])
             /\ Timely(stack'[u][k], clock', born[inside'[u]], runs')
  BY <1>4, <1>5
<1>6. ASSUME NEW k \in DOMAIN stack'[t]
      PROVE  /\ Searched(stack'[t][k])
             /\ Timely(stack'[t][k], clock', born[inside'[t]], runs')
  <2>1. CASE inside'[t] = inside[t] /\ \E j \in DOMAIN stack[t] : stack'[t][k] = stack[t][j]
    <3>1. PICK j \in DOMAIN stack[t] : stack'[t][k] = stack[t][j]
      BY <2>1
    <3> QED BY <1>4, <2>1, <3>1
  <2>2. CASE /\ Searched(stack'[t][k])
             /\ Timely(stack'[t][k], clock', born[inside'[t]], runs')
    BY <2>2
  <2> QED BY <2>1, <2>2
<1> QED BY <1>5, <1>6 DEF FramesOK

\* The innermost call goes on.
LEMMA Advance ==
  ASSUME RequireInv, NEW t \in Threads, Busy(t), NEW f \in FrameType, Update(t, f)
  PROVE  /\ stack' \in [Threads -> Seq(FrameType)]
         /\ \A u \in Threads \ {t} : stack'[u] = stack[u]
         /\ Len(stack'[t]) = Len(stack[t]) /\ DOMAIN stack'[t] = DOMAIN stack[t]
         /\ stack'[t][1] = f
         /\ \A k \in DOMAIN stack[t] : k # 1 => stack'[t][k] = stack[t][k]
         /\ stack'[t] # <<>>
<1> DEFINE s == stack[t]
           r == <<f>> \o Tail(s)
<1>1. s \in Seq(FrameType) /\ Len(s) \in Nat \ {0} /\ s # <<>>
  BY TopFacts DEF Busy
<1>2. /\ Tail(s) \in Seq(FrameType) /\ Len(Tail(s)) = Len(s) - 1
      /\ \A k \in 1..Len(Tail(s)) : Tail(s)[k] = s[k + 1]
  BY <1>1, HeadTailProperties
<1>3. /\ r \in Seq(FrameType) /\ Len(r) = 1 + (Len(s) - 1)
      /\ \A k \in 1..(1 + (Len(s) - 1)) : r[k] = IF k <= 1 THEN <<f>>[k] ELSE Tail(s)[k - 1]
  <2>1. <<f>> \in Seq(FrameType) /\ Len(<<f>>) = 1
    OBVIOUS
  <2> QED BY <1>2, <2>1, ConcatProperties
<1>4. stack' = [stack EXCEPT ![t] = r]
  BY DEF Update
<1> HIDE DEF r
<1>5. DOMAIN r = DOMAIN s /\ r[1] = f /\ \A k \in DOMAIN s : k # 1 => r[k] = s[k]
  <2>1. Len(r) = Len(s) /\ DOMAIN r = 1..Len(s) /\ DOMAIN s = 1..Len(s)
    BY <1>1, <1>3
  <2>2. r[1] = f
    BY <1>1, <1>3
  <2>3. ASSUME NEW k \in 1..Len(s), k # 1 PROVE r[k] = s[k]
    <3>1. k \in 1..(1 + (Len(s) - 1)) /\ ~(k <= 1) /\ k - 1 \in 1..Len(Tail(s))
      BY <1>1, <1>2, <2>3
    <3>2. r[k] = Tail(s)[k - 1] /\ Tail(s)[k - 1] = s[(k - 1) + 1]
      BY <1>2, <1>3, <3>1
    <3>3. (k - 1) + 1 = k
      BY <3>1
    <3> QED BY <3>2, <3>3
  <2> QED BY <2>1, <2>2, <2>3
<1>6. stack \in [Threads -> Seq(FrameType)]
  BY DEF RequireInv, Typed
<1>7. r # <<>>
  BY <1>1, <1>3
<1> QED BY <1>1, <1>3, <1>4, <1>5, <1>6, <1>7

\* The innermost call ends.
LEMMA LeaveFacts ==
  ASSUME RequireInv, NEW t \in Threads, Busy(t), Leave(t)
  PROVE  /\ stack' \in [Threads -> Seq(FrameType)]
         /\ \A u \in Threads \ {t} : stack'[u] = stack[u] /\ inside'[u] = inside[u]
         /\ Len(stack'[t]) = Len(stack[t]) - 1
         /\ DOMAIN stack'[t] = 1..(Len(stack[t]) - 1)
         /\ \A k \in DOMAIN stack'[t] : stack'[t][k] = stack[t][k + 1] /\ k + 1 \in DOMAIN stack[t]
         /\ inside' \in [Threads -> Isolates \cup {NoIsolate}]
         /\ IF stack'[t] = <<>> THEN inside'[t] = NoIsolate ELSE inside'[t] = inside[t]
<1> DEFINE s == stack[t]
<1>1. s \in Seq(FrameType) /\ Len(s) \in Nat \ {0} /\ s # <<>>
  BY TopFacts DEF Busy
<1>2. /\ Tail(s) \in Seq(FrameType) /\ Len(Tail(s)) = Len(s) - 1
      /\ \A k \in 1..Len(Tail(s)) : Tail(s)[k] = s[k + 1]
  BY <1>1, HeadTailProperties
<1>3. stack \in [Threads -> Seq(FrameType)] /\ inside \in [Threads -> Isolates \cup {NoIsolate}]
  BY DEF RequireInv, Typed
<1>4. /\ stack' \in [Threads -> Seq(FrameType)] /\ stack'[t] = Tail(s)
      /\ \A u \in Threads \ {t} : stack'[u] = stack[u]
  BY <1>2, <1>3 DEF Leave
<1>5. DOMAIN Tail(s) = 1..(Len(s) - 1)
  BY <1>2
<1>6. Tail(s) = <<>> <=> Len(s) = 1
  <2> DEFINE r == Tail(s)
  <2>1. r \in Seq(FrameType) /\ Len(r) = Len(s) - 1
    BY <1>2
  <2> HIDE DEF r
  <2>2. r = <<>> <=> Len(r) = 0
    BY <2>1, EmptySeq
  <2> QED BY <1>1, <2>1, <2>2 DEF r
<1>7. /\ inside' \in [Threads -> Isolates \cup {NoIsolate}]
      /\ \A u \in Threads \ {t} : inside'[u] = inside[u]
      /\ IF Len(s) = 1 THEN inside'[t] = NoIsolate ELSE inside'[t] = inside[t]
  BY <1>3 DEF Leave
<1> QED BY <1>1, <1>2, <1>4, <1>5, <1>6, <1>7

\* A module that runs calls require: f is the new call, caller the one it returns to.
Pushed(t, f, caller) ==
  /\ f.at = 1 /\ f.phase = "search" /\ f.todo = <<>> /\ f.request = Head(Top(t).todo)
  /\ caller.at = Top(t).at /\ caller.phase = Top(t).phase /\ caller.request = Top(t).request
  /\ caller.time = Top(t).time /\ caller.value = Top(t).value /\ caller.mode = Top(t).mode
  /\ caller.todo = Tail(Top(t).todo)
  /\ stack' \in [Threads -> Seq(FrameType)]
  /\ \A u \in Threads \ {t} : stack'[u] = stack[u]
  /\ stack'[t] # <<>> /\ Len(stack'[t]) = Len(stack[t]) + 1
  /\ \A k \in DOMAIN stack'[t] :
       \/ k = 1 /\ stack'[t][k] = f
       \/ k = 2 /\ stack'[t][k] = caller
       \/ k > 2 /\ k - 1 \in DOMAIN stack[t] /\ stack'[t][k] = stack[t][k - 1]

LEMMA PushFacts ==
  ASSUME RequireInv, NEW t \in Threads, NEW m \in Modes \cup {"cached"}, Import(t, m)
  PROVE  \E f \in FrameType, caller \in FrameType : Pushed(t, f, caller)
<1> DEFINE top == Top(t)
           s == stack[t]
           f == Frame(Head(top.todo), m)
           caller == [top EXCEPT !.todo = Tail(@)]
           r == <<f, caller>> \o Tail(s)
<1>1. Busy(t) /\ top.todo # <<>> /\ stack' = [stack EXCEPT ![t] = r]
  BY DEF Import, Phase
<1>2. top \in FrameType
  BY <1>1, TopFacts
<1> HIDE DEF top
<1>3. Head(top.todo) \in Requests /\ Tail(top.todo) \in Seq(Requests)
  BY <1>1, <1>2, HeadTailProperties DEF FrameType
<1>4. /\ f \in FrameType /\ f.at = 1 /\ f.phase = "search" /\ f.todo = <<>>
      /\ f.request = Head(top.todo)
  BY <1>3 DEF Frame, FrameType, AllModes
<1>5. /\ caller \in FrameType /\ caller.at = top.at /\ caller.phase = top.phase
      /\ caller.request = top.request /\ caller.time = top.time
      /\ caller.value = top.value /\ caller.mode = top.mode
      /\ caller.todo = Tail(top.todo)
  BY <1>1, <1>2, <1>3 DEF FrameType
<1> HIDE DEF f, caller
<1>6. s \in Seq(FrameType) /\ Len(s) \in Nat \ {0} /\ s # <<>>
  BY <1>1, TopFacts DEF Busy
<1>7. /\ Tail(s) \in Seq(FrameType) /\ Len(Tail(s)) = Len(s) - 1
      /\ \A k \in 1..Len(Tail(s)) : Tail(s)[k] = s[k + 1]
  BY <1>6, HeadTailProperties
<1>8. /\ r \in Seq(FrameType) /\ Len(r) = 2 + (Len(s) - 1)
      /\ \A k \in 1..(2 + (Len(s) - 1)) :
           r[k] = IF k <= 2 THEN <<f, caller>>[k] ELSE Tail(s)[k - 2]
  <2>1. <<f, caller>> \in Seq(FrameType) /\ Len(<<f, caller>>) = 2
    BY <1>4, <1>5
  <2> QED BY <1>7, <2>1, ConcatProperties
<1> HIDE DEF r
<1>9. ASSUME NEW k \in DOMAIN r
      PROVE  \/ k = 1 /\ r[k] = f
             \/ k = 2 /\ r[k] = caller
             \/ k > 2 /\ k - 1 \in DOMAIN s /\ r[k] = s[k - 1]
  <2>1. k \in 1..(2 + (Len(s) - 1))
    BY <1>8
  <2>2. CASE k = 1
    BY <1>6, <1>8, <2>1, <2>2
  <2>3. CASE k = 2
    BY <1>6, <1>8, <2>1, <2>3
  <2>4. CASE k > 2
    <3>1. k - 2 \in 1..Len(Tail(s)) /\ ~(k <= 2)
      BY <1>6, <1>7, <2>1, <2>4
    <3>2. r[k] = Tail(s)[k - 2] /\ Tail(s)[k - 2] = s[(k - 2) + 1]
      BY <1>7, <1>8, <2>1, <3>1
    <3>3. (k - 2) + 1 = k - 1 /\ k - 1 \in DOMAIN s
      <4>1. k \in Nat /\ k - 1 \in 1..Len(s)
        BY <1>6, <2>1, <2>4
      <4> QED BY <1>6, <4>1
    <3> QED BY <2>4, <3>2, <3>3
  <2> QED BY <2>1, <2>2, <2>3, <2>4
<1>10. stack \in [Threads -> Seq(FrameType)]
  BY DEF RequireInv, Typed
<1>11. /\ stack' \in [Threads -> Seq(FrameType)] /\ stack'[t] = r
       /\ \A u \in Threads \ {t} : stack'[u] = stack[u]
  BY <1>1, <1>8, <1>10
<1>12. Len(r) = Len(s) + 1 /\ r # <<>>
  BY <1>6, <1>8
<1>13. Pushed(t, f, caller)
  BY <1>4, <1>5, <1>9, <1>11, <1>12 DEF Pushed, top
<1> QED BY <1>4, <1>5, <1>13

\* The cache keeps what it has to, when modules run and time goes on.
LEMMA CacheKept ==
  ASSUME RequireInv, cache' = cache, born' = born, clock' \in Nat, clock <= clock',
         runs' \in Nat, runs <= runs'
  PROVE  CacheOK'
<1>1. clock \in Nat /\ runs \in Nat /\ \A i \in Isolates : born[i] \in Nat
  BY DEF RequireInv, Typed
<1>2. \A i \in Isolates : \A f \in DOMAIN cache[i] :
        cache[i][f].value \in (born[i] + 1)..runs' /\ cache[i][f].time \in 1..clock'
  BY <1>1 DEF RequireInv, CacheOK
<1> QED BY <1>2 DEF RequireInv, CacheOK

\* What others search for is not disturbed.
LEMMA SearchingKept ==
  ASSUME RequireInv, NEW t \in Threads,
         UNCHANGED <<files, short>>, t \notin short, kept' \in [Threads -> SUBSET Files],
         \A u \in Threads \ {t} : stack'[u] = stack[u] /\ kept'[u] = kept[u],
         \A f \in kept'[t] : files[f] # 0,
         Phase(t, "search")' \/ Phase(t, "read")' => PassedOver(Top(t)', kept'[t])
  PROVE  Searching'
<1>1. ASSUME NEW u \in Threads \ {t}
      PROVE  /\ \A f \in kept'[u] : files[f] # 0
             /\ Phase(u, "search")' \/ Phase(u, "read")' => PassedOver(Top(u)', kept'[u])
  BY <1>1 DEF RequireInv, Searching, Phase, Busy, Top, PassedOver
<1>2. \A u \in short : u # t /\ Phase(u, "read")'
  BY DEF RequireInv, Searching, Phase, Busy, Top
<1>3. short' \subseteq Threads
  BY DEF RequireInv, Searching
<1>4. \A u \in Threads :
        /\ \A f \in kept'[u] : files'[f] # 0
        /\ Phase(u, "search")' \/ Phase(u, "read")' => PassedOver(Top(u)', kept'[u])
  BY <1>1
<1> QED BY <1>2, <1>3, <1>4 DEF Searching

LEMMA AdvanceInv ==
  ASSUME RequireInv, NEW t \in Threads, Busy(t), NEW f \in FrameType, Update(t, f),
         UNCHANGED <<files, clock, born, inside, short>>, runs' \in Nat, runs <= runs',
         CacheOK', t \notin short, kept' \in [Threads -> SUBSET Files],
         \A u \in Threads \ {t} : kept'[u] = kept[u], kept'[t] \subseteq kept[t],
         Searched(f), Timely(f, clock, born[inside[t]], runs'),
         f.phase \in {"search", "read"} => PassedOver(f, kept'[t])
  PROVE  RequireInv'
<1>1. /\ stack' \in [Threads -> Seq(FrameType)]
      /\ \A u \in Threads \ {t} : stack'[u] = stack[u]
      /\ Len(stack'[t]) = Len(stack[t]) /\ DOMAIN stack'[t] = DOMAIN stack[t]
      /\ stack'[t][1] = f
      /\ \A k \in DOMAIN stack[t] : k # 1 => stack'[t][k] = stack[t][k]
      /\ stack'[t] # <<>>
  BY Advance
<1>2. /\ clock \in Nat /\ runs \in Nat /\ \A i \in Isolates : born[i] \in Nat /\ born[i] <= runs
  BY DEF RequireInv, Typed
<1>3. Typed'
  <2>1. \A u \in Threads : Len(stack'[u]) <= MaxDepth
    BY <1>1 DEF RequireInv, Typed
  <2>2. \A i \in Isolates : born[i] <= runs'
    BY <1>2
  <2> QED BY <1>1, <2>1, <2>2 DEF RequireInv, Typed
<1>4. Locked'
  <2>1. \A u \in Threads : stack'[u] # <<>> <=> stack[u] # <<>>
    BY <1>1 DEF Busy
  <2> QED BY <2>1 DEF RequireInv, Locked, Busy
<1>5. FramesOK'
  <2>1. clock' \in Nat /\ clock <= clock' /\ born' = born
    BY <1>2
  <2>2. ASSUME NEW k \in DOMAIN stack'[t]
        PROVE  \/ inside'[t] = inside[t] /\ \E j \in DOMAIN stack[t] : stack'[t][k] = stack[t][j]
               \/ /\ Searched(stack'[t][k])
                  /\ Timely(stack'[t][k], clock', born[inside'[t]], runs')
    <3>1. CASE k = 1
      BY <1>1, <3>1
    <3>2. CASE k # 1
      BY <1>1, <3>2
    <3> QED BY <3>1, <3>2
  <2> QED BY <1>1, <2>1, <2>2, FramesKept
<1>6. Below'
  <2>1. \A k \in DOMAIN stack'[t] : k # 1 => stack'[t][k].phase \in {"run", "callback"}
    BY <1>1 DEF RequireInv, Below
  <2> QED BY <1>1, <2>1 DEF RequireInv, Below
<1>7. Searching'
  <2>1. Top(t)' = f
    BY <1>1 DEF Top
  <2>2. \A g \in kept'[t] : files[g] # 0
    BY DEF RequireInv, Searching
  <2> QED BY <1>1, <2>1, <2>2, SearchingKept DEF Phase
<1> QED BY <1>3, <1>4, <1>5, <1>6, <1>7 DEF RequireInv

LEMMA LeaveInv ==
  ASSUME RequireInv, NEW t \in Threads, Busy(t), Leave(t),
         UNCHANGED <<files, clock, born, runs, short>>, CacheOK',
         t \notin short, kept' \in [Threads -> SUBSET Files],
         \A u \in Threads \ {t} : kept'[u] = kept[u], kept'[t] \subseteq kept[t]
  PROVE  RequireInv'
<1>1. /\ stack' \in [Threads -> Seq(FrameType)]
      /\ \A u \in Threads \ {t} : stack'[u] = stack[u] /\ inside'[u] = inside[u]
      /\ Len(stack'[t]) = Len(stack[t]) - 1
      /\ DOMAIN stack'[t] = 1..(Len(stack[t]) - 1)
      /\ \A k \in DOMAIN stack'[t] : stack'[t][k] = stack[t][k + 1] /\ k + 1 \in DOMAIN stack[t]
      /\ inside' \in [Threads -> Isolates \cup {NoIsolate}]
      /\ IF stack'[t] = <<>> THEN inside'[t] = NoIsolate ELSE inside'[t] = inside[t]
  BY LeaveFacts
<1>2. /\ Len(stack[t]) \in Nat /\ inside[t] # NoIsolate
      /\ clock \in Nat /\ runs \in Nat
  BY TopFacts DEF RequireInv, Typed
<1>3. Typed'
  <2>1. Len(stack'[t]) <= MaxDepth
    BY <1>1, <1>2 DEF RequireInv, Typed
  <2>2. \A u \in Threads : Len(stack'[u]) <= MaxDepth
    BY <1>1, <2>1 DEF RequireInv, Typed
  <2> QED BY <1>1, <2>2 DEF RequireInv, Typed
<1>4. Locked'
  <2>1. stack'[t] # <<>> <=> inside'[t] # NoIsolate
    BY <1>1, <1>2
  <2>2. \A u \in Threads : stack'[u] # <<>> <=> inside'[u] # NoIsolate
    BY <1>1, <2>1 DEF RequireInv, Locked, Busy
  <2>3. \A u \in Threads : inside'[u] # NoIsolate => inside'[u] = inside[u]
    BY <1>1
  <2> QED BY <2>2, <2>3 DEF RequireInv, Locked, Busy
<1>5. FramesOK'
  <2>1. \A k \in DOMAIN stack'[t] :
          inside'[t] = inside[t] /\ \E j \in DOMAIN stack[t] : stack'[t][k] = stack[t][j]
    <3>1. ASSUME NEW k \in DOMAIN stack'[t] PROVE inside'[t] = inside[t]
      <4>1. stack'[t] # <<>>
        BY <3>1
      <4> QED BY <1>1, <4>1
    <3> QED BY <1>1, <3>1
  <2>2. /\ clock' \in Nat /\ clock <= clock' /\ runs' \in Nat /\ runs <= runs'
        /\ born' = born
    BY <1>2
  <2> QED BY <1>1, <2>1, <2>2, FramesKept
<1>6. \A k \in DOMAIN stack'[t] : stack'[t][k].phase \in {"run", "callback"}
  <2>1. \A k \in DOMAIN stack'[t] : k + 1 # 1
    BY <1>1, <1>2
  <2> QED BY <1>1, <2>1 DEF RequireInv, Below
<1>7. Below'
  BY <1>1, <1>6 DEF RequireInv, Below
<1>8. Searching'
  <2>1. ~(Phase(t, "search")' \/ Phase(t, "read")')
    <3>1. CASE stack'[t] = <<>>
      BY <3>1 DEF Phase, Busy
    <3>2. CASE stack'[t] # <<>>
      <4>1. Top(t)' = stack'[t][1] /\ 1 \in DOMAIN stack'[t]
        BY <1>1, <3>2, EmptySeq DEF Top
      <4> QED BY <1>6, <4>1 DEF Phase
    <3> QED BY <3>1, <3>2
  <2>2. \A g \in kept'[t] : files[g] # 0
    BY DEF RequireInv, Searching
  <2> QED BY <1>1, <2>1, <2>2, SearchingKept
<1> QED BY <1>3, <1>4, <1>5, <1>7, <1>8 DEF RequireInv

\* A module that ran is cached, or the result that is there stays.
LEMMA CacheResultKept ==
  ASSUME RequireInv, NEW i \in Isolates, NEW f \in Files, NEW e,
         e.value \in (born[i] + 1)..runs, e.time \in 1..clock,
         CacheResult(i, f, e), UNCHANGED <<born, clock, runs>>
  PROVE  CacheOK'
<1> DEFINE c == [g \in DOMAIN cache[i] \cup {f} |->
                   IF g \in DOMAIN cache[i] THEN cache[i][g] ELSE e]
<1>1. cache' = [cache EXCEPT ![i] = c] /\ DOMAIN cache = Isolates
  BY DEF CacheResult, RequireInv, CacheOK
<1>2. DOMAIN c \subseteq Files /\ \A g \in DOMAIN c :
        c[g].value \in (born[i] + 1)..runs /\ c[g].time \in 1..clock
  BY DEF RequireInv, CacheOK
<1> HIDE DEF c
<1>3. DOMAIN cache' = Isolates
      /\ \A j \in Isolates : cache'[j] = IF j = i THEN c ELSE cache[j]
  BY <1>1
<1> QED BY <1>2, <1>3 DEF RequireInv, CacheOK

\* The innermost call goes on without a change of its own search.
LEMMA GoesOn ==
  ASSUME RequireInv, NEW t \in Threads, Busy(t), ~Phase(t, "read"), NEW f \in FrameType,
         Update(t, f), UNCHANGED <<files, clock, born, inside, kept, short>>,
         runs' \in Nat, runs <= runs', CacheOK',
         Searched(f), Timely(f, clock, born[inside[t]], runs'),
         f.phase \in {"search", "read"} => PassedOver(f, kept[t])
  PROVE  RequireInv'
<1>1. t \notin short /\ kept \in [Threads -> SUBSET Files]
  BY TopFacts DEF RequireInv, Searching
<1> QED BY <1>1, AdvanceInv

LEMMA ProbeStep ==
  ASSUME RequireInv, NEW t \in Threads, Probe(t)
  PROVE  RequireInv'
<1> DEFINE top == Top(t)
<1>1. /\ Busy(t) /\ ~Phase(t, "read") /\ top.phase = "search"
      /\ UNCHANGED <<files, clock, cache, born, inside, runs, kept, short>>
  BY DEF Probe, Phase, diskVars, isolateVars, searchVars
<1>2. /\ top \in FrameType /\ inside[t] \in Isolates /\ Searched(top)
      /\ PassedOver(top, kept[t])
  BY <1>1, TopFacts DEF RequireInv, Searching, Phase
<1>3. /\ clock \in Nat /\ runs \in Nat /\ files \in [Files -> 0..MaxClock]
      /\ \A f \in Files : files[f] <= clock
      /\ \A f \in kept[t] : files[f] # 0
  BY DEF RequireInv, Typed, Searching
<1>4. CacheOK'
  BY <1>1, <1>3, CacheKept
<1>5. top.at \in 1..Last
  BY <1>2 DEF Probe, Candidates, Last, FrameType
<1> HIDE DEF top
<1>6. FileOf(top) \in Files
  BY <1>2, <1>5, CandidateIsFile DEF FileOf, FrameType
<1>7. CASE files[FileOf(top)] = 0
  <2> DEFINE next == top.at + 1
             f == [top EXCEPT !.at = next]
  <2>1. Update(t, f)
    BY <1>7 DEF Probe, top
  <2>2. next \in Nat \ {0} /\ next \in 1..(Last + 1) /\ 1..(next - 1) = 1..top.at
    BY <1>5, Sizes
  <2>3. /\ f \in FrameType /\ f.at = next /\ f.phase = "search" /\ f.request = top.request
    <3> HIDE DEF next
    <3> QED BY <1>1, <1>2, <2>2 DEF FrameType, top
  <2> HIDE DEF f
  <2>4. Candidates(top.request)[top.at] \notin kept[t]
    BY <1>3, <1>7 DEF FileOf
  <2>5. \A k \in 1..top.at : Candidates(top.request)[k] \notin kept[t]
    <3>1. \A k \in 1..top.at : k = top.at \/ k \in 1..(top.at - 1)
      BY <1>5, Sizes
    <3> QED BY <1>2, <2>4, <3>1 DEF PassedOver
  <2>6. PassedOver(f, kept[t])
    BY <2>2, <2>3, <2>5 DEF PassedOver
  <2>7. Searched(f) /\ Timely(f, clock, born[inside[t]], runs)
    BY <2>2, <2>3 DEF Searched, Timely
  <2> QED BY <1>1, <1>3, <1>4, <2>1, <2>3, <2>6, <2>7, GoesOn
<1>8. CASE files[FileOf(top)] # 0
  <2> DEFINE time == files[FileOf(top)]
             f == [top EXCEPT !.phase = "read", !.time = time]
  <2>1. Update(t, f)
    BY <1>8 DEF Probe, top
  <2>2. time \in 1..clock /\ time \in Nat
    BY <1>3, <1>6, <1>8
  <2>3. /\ f \in FrameType /\ f.at = top.at /\ f.phase = "read"
        /\ f.request = top.request /\ f.time = time
    <3> HIDE DEF time
    <3> QED BY <1>2, <2>2 DEF FrameType
  <2> HIDE DEF f, time
  <2>4. PassedOver(f, kept[t]) /\ Searched(f) /\ Timely(f, clock, born[inside[t]], runs)
    BY <1>2, <1>5, <2>2, <2>3 DEF PassedOver, Searched, Timely
  <2> QED BY <1>1, <1>3, <1>4, <2>1, <2>3, <2>4, GoesOn
<1> QED BY <1>7, <1>8

\* What a step leaves of the frame that it changes.
LEMMA FrameChanges ==
  ASSUME NEW f \in FrameType
  PROVE  /\ [f EXCEPT !.phase = "lookup"] \in FrameType
         /\ \A v \in Nat, todo \in Seq(Requests), phase \in {"run", "callback"} :
              /\ [f EXCEPT !.phase = phase, !.value = v, !.todo = todo] \in FrameType
              /\ [f EXCEPT !.phase = phase, !.todo = todo] \in FrameType
              /\ [f EXCEPT !.todo = todo] \in FrameType
BY DEF FrameType

LEMMA ReadStep ==
  ASSUME RequireInv, NEW t \in Threads, Read(t)
  PROVE  RequireInv'
<1> DEFINE top == Top(t)
           f == [top EXCEPT !.phase = "lookup"]
<1>1. /\ Busy(t) /\ top.phase = "read" /\ t \notin short /\ Update(t, f)
      /\ UNCHANGED <<files, clock, cache, born, inside, runs, short>>
      /\ kept' = [kept EXCEPT ![t] = {}]
  BY DEF Read, Phase, diskVars, isolateVars
<1>2. /\ top \in FrameType /\ Searched(top) /\ Timely(top, clock, born[inside[t]], runs)
  BY <1>1, TopFacts
<1>3. clock \in Nat /\ runs \in Nat
  BY DEF RequireInv, Typed
<1>4. CacheOK'
  BY <1>1, <1>3, CacheKept
<1>5. /\ kept' \in [Threads -> SUBSET Files] /\ kept'[t] \subseteq kept[t]
      /\ \A u \in Threads \ {t} : kept'[u] = kept[u]
  BY <1>1 DEF RequireInv, Searching
<1> HIDE DEF top
<1>6. /\ f \in FrameType /\ f.at = top.at /\ f.phase = "lookup" /\ f.time = top.time
  BY <1>2, FrameChanges DEF FrameType
<1> HIDE DEF f
<1>7. Searched(f) /\ Timely(f, clock, born[inside[t]], runs)
  BY <1>1, <1>2, <1>6 DEF Searched, Timely, top
<1> QED BY <1>1, <1>3, <1>4, <1>5, <1>6, <1>7, AdvanceInv

LEMMA RunStep ==
  ASSUME RequireInv, NEW t \in Threads, Run(t)
  PROVE  RequireInv'
<1> DEFINE top == Top(t)
           todo == IF IsJson(top) THEN <<>> ELSE Imports[top.request.base]
           value == runs + 1
           f == [top EXCEPT !.phase = "run", !.value = value, !.todo = todo]
<1>1. /\ Busy(t) /\ top.phase = "lookup" /\ Update(t, f) /\ runs' = value
      /\ UNCHANGED <<files, clock, cache, born, inside, kept, short>>
  BY DEF Run, Phase, diskVars, isolateVars, searchVars
<1>2. /\ top \in FrameType /\ Searched(top) /\ Timely(top, clock, born[inside[t]], runs)
      /\ ~Phase(t, "read") /\ inside[t] \in Isolates
  BY <1>1, TopFacts DEF Phase
<1>3. clock \in Nat /\ runs \in Nat /\ born[inside[t]] \in Nat /\ born[inside[t]] <= runs
  BY <1>2 DEF RequireInv, Typed
<1>4. value \in Nat /\ runs <= value /\ value \in (born[inside[t]] + 1)..value
  BY <1>3
<1> HIDE DEF value
<1>5. CacheOK'
  BY <1>1, <1>3, <1>4, CacheKept
<1>6. todo \in Seq(Requests)
  BY <1>2 DEF FrameType
<1> HIDE DEF todo, top
<1>7. /\ f \in FrameType /\ f.at = top.at /\ f.phase = "run" /\ f.time = top.time
      /\ f.value = value
  BY <1>2, <1>4, <1>6, FrameChanges DEF FrameType
<1> HIDE DEF f
<1>8. Searched(f) /\ Timely(f, clock, born[inside[t]], runs')
  BY <1>1, <1>2, <1>4, <1>7 DEF Searched, Timely, top
<1> QED BY <1>1, <1>2, <1>4, <1>5, <1>7, <1>8, GoesOn

LEMMA ImportStep ==
  ASSUME RequireInv, NEW t \in Threads, NEW m \in Modes \cup {"cached"}, Import(t, m)
  PROVE  RequireInv'
<1> DEFINE top == Top(t)
           r == Head(top.todo)
<1>1. PICK f \in FrameType, caller \in FrameType : Pushed(t, f, caller)
  BY PushFacts
<1>2. /\ Busy(t) /\ top.phase \in {"run", "callback"} /\ Len(stack[t]) < MaxDepth
      /\ top.todo # <<>>
      /\ UNCHANGED <<files, clock, cache, born, inside, runs, short>>
      /\ kept' = [kept EXCEPT ![t] = There(r)]
  BY DEF Import, Phase, diskVars, isolateVars
<1>3. /\ top \in FrameType /\ inside[t] \in Isolates /\ t \notin short
      /\ Searched(top) /\ Timely(top, clock, born[inside[t]], runs)
  BY <1>2, TopFacts DEF Phase
<1>4. clock \in Nat /\ runs \in Nat
  BY DEF RequireInv, Typed
<1>5. /\ f.at = 1 /\ f.phase = "search" /\ f.request = r
      /\ caller.at = top.at /\ caller.phase = top.phase /\ caller.request = top.request
      /\ caller.time = top.time /\ caller.value = top.value
  BY <1>1 DEF Pushed
<1> HIDE DEF top
<1>6. r \in Requests
  BY <1>2, <1>3, HeadTailProperties DEF FrameType
<1> HIDE DEF r
<1>7. Searched(f) /\ Timely(f, clock, born[inside[t]], runs)
  BY <1>5, Sizes DEF Searched, Timely
<1>8. Searched(caller) /\ Timely(caller, clock, born[inside[t]], runs)
  BY <1>2, <1>3, <1>5 DEF Searched, Timely
<1>9. /\ stack' \in [Threads -> Seq(FrameType)] /\ Len(stack'[t]) = Len(stack[t]) + 1
      /\ \A u \in Threads \ {t} : stack'[u] = stack[u]
      /\ stack'[t] # <<>> /\ stack[t] # <<>> /\ Len(stack[t]) \in Nat
      /\ \A k \in DOMAIN stack'[t] :
           \/ k = 1 /\ stack'[t][k] = f
           \/ k = 2 /\ stack'[t][k] = caller
           \/ k > 2 /\ k - 1 \in DOMAIN stack[t] /\ stack'[t][k] = stack[t][k - 1]
  BY <1>1, <1>2, TopFacts DEF Pushed, Busy
<1>10. Typed'
  <2>1. Len(stack'[t]) <= MaxDepth
    BY <1>2, <1>9
  <2>2. \A u \in Threads : Len(stack'[u]) <= MaxDepth
    BY <1>9, <2>1 DEF RequireInv, Typed
  <2> QED BY <1>2, <1>9, <2>2 DEF RequireInv, Typed
<1>11. CacheOK'
  BY <1>2, <1>4, CacheKept
<1>12. Locked'
  <2>1. \A u \in Threads : stack'[u] # <<>> <=> stack[u] # <<>>
    BY <1>9
  <2> QED BY <1>2, <2>1 DEF RequireInv, Locked, Busy
<1>13. FramesOK'
  <2>1. /\ clock' \in Nat /\ clock <= clock' /\ runs' \in Nat /\ runs <= runs'
        /\ born' = born /\ inside' = inside
    BY <1>2, <1>4
  <2>2. \A k \in DOMAIN stack'[t] :
          \/ inside'[t] = inside[t] /\ \E j \in DOMAIN stack[t] : stack'[t][k] = stack[t][j]
          \/ /\ Searched(stack'[t][k])
             /\ Timely(stack'[t][k], clock', born[inside'[t]], runs')
    BY <1>2, <1>7, <1>8, <1>9
  <2> QED BY <1>9, <2>1, <2>2, FramesKept
<1>14. Below'
  <2>1. ASSUME NEW k \in DOMAIN stack'[t], k # 1
        PROVE  stack'[t][k].phase \in {"run", "callback"}
    <3>1. CASE k = 2 /\ stack'[t][k] = caller
      BY <1>2, <1>5, <3>1 DEF top
    <3>2. CASE k > 2 /\ k - 1 \in DOMAIN stack[t] /\ stack'[t][k] = stack[t][k - 1]
      <4>1. k - 1 # 1
        <5>1. k \in Nat
          BY <1>9
        <5> QED BY <3>2, <5>1
      <4> QED BY <3>2, <4>1 DEF RequireInv, Below
    <3> QED BY <1>9, <2>1, <3>1, <3>2
  <2> QED BY <1>9, <2>1 DEF RequireInv, Below
<1>15. Searching'
  <2>1. There(r) \subseteq Files /\ \A g \in There(r) : files[g] # 0
    BY <1>6, ThereFiles
  <2>2. /\ kept' \in [Threads -> SUBSET Files] /\ kept'[t] = There(r)
        /\ \A u \in Threads \ {t} : kept'[u] = kept[u]
    BY <1>2, <2>1 DEF RequireInv, Searching
  <2>3. Top(t)' = f
    <3>1. Len(stack'[t]) \in Nat \ {0} /\ stack'[t] \in Seq(FrameType)
      BY <1>9
    <3>2. 1 \in DOMAIN stack'[t] /\ Top(t)' = stack'[t][1]
      BY <1>9, <3>1 DEF Top
    <3> QED BY <1>9, <3>2
  <2>4. PassedOver(Top(t)', kept'[t])
    BY <1>5, <2>3 DEF PassedOver
  <2> QED BY <1>2, <1>3, <1>9, <2>1, <2>2, <2>4, SearchingKept
<1> QED BY <1>10, <1>11, <1>12, <1>13, <1>14, <1>15 DEF RequireInv

LEMMA SkipStep ==
  ASSUME RequireInv, NEW t \in Threads, SkipImport(t)
  PROVE  RequireInv'
<1> DEFINE top == Top(t)
           todo == Tail(top.todo)
           f == [top EXCEPT !.todo = todo]
<1>1. /\ Busy(t) /\ top.phase \in {"run", "callback"} /\ top.todo # <<>> /\ Update(t, f)
      /\ UNCHANGED <<files, clock, cache, born, inside, runs, kept, short>>
  BY DEF SkipImport, Phase, diskVars, isolateVars, searchVars
<1>2. /\ top \in FrameType /\ Searched(top) /\ Timely(top, clock, born[inside[t]], runs)
      /\ ~Phase(t, "read")
  BY <1>1, TopFacts DEF Phase
<1>3. clock \in Nat /\ runs \in Nat
  BY DEF RequireInv, Typed
<1>4. CacheOK'
  BY <1>1, <1>3, CacheKept
<1>5. todo \in Seq(Requests)
  BY <1>1, <1>2, HeadTailProperties DEF FrameType
<1> HIDE DEF todo, top
<1>6. /\ f \in FrameType /\ f.at = top.at /\ f.phase = top.phase /\ f.time = top.time
      /\ f.value = top.value
  BY <1>2, <1>5, FrameChanges DEF FrameType
<1> HIDE DEF f
<1>7. Searched(f) /\ Timely(f, clock, born[inside[t]], runs) /\ f.phase \in {"run", "callback"}
  BY <1>1, <1>2, <1>6 DEF Searched, Timely, top
<1> QED BY <1>1, <1>2, <1>3, <1>4, <1>6, <1>7, GoesOn

\* What a module gave is stored, for the isolate that it ran in.
LEMMA StoreFacts ==
  ASSUME RequireInv, NEW t \in Threads, Phase(t, "run"), NEW time \in 1..clock,
         CacheResult(inside[t], FileOf(Top(t)), Entry(Top(t).value, time)),
         UNCHANGED <<born, clock, runs>>
  PROVE  CacheOK'
<1> DEFINE top == Top(t)
<1>1. Busy(t) /\ top.phase = "run"
  BY DEF Phase
<1>2. /\ top \in FrameType /\ inside[t] \in Isolates
      /\ Searched(top) /\ Timely(top, clock, born[inside[t]], runs)
  BY <1>1, TopFacts
<1>3. FileOf(top) \in Files /\ top.value \in (born[inside[t]] + 1)..runs
  BY <1>1, <1>2, CandidateIsFile DEF Searched, Timely, FileOf, FrameType
<1>4. Entry(top.value, time).value = top.value /\ Entry(top.value, time).time = time
  BY DEF Entry
<1> QED BY <1>2, <1>3, <1>4, CacheResultKept

LEMMA StoreModuleFacts ==
  ASSUME RequireInv, NEW t \in Threads, StoreModule(t)
  PROVE  CacheOK'
<1>1. Phase(t, "run") /\ Busy(t) /\ Top(t).phase = "run"
  BY DEF StoreModule, Phase
<1>2. Top(t).time \in 1..clock
  BY <1>1, TopFacts DEF Timely
<1> QED BY <1>1, <1>2, StoreFacts DEF StoreModule, diskVars

LEMMA StartCallbackStep ==
  ASSUME RequireInv, NEW t \in Threads, NEW r \in Requests, StartCallback(t, r)
  PROVE  RequireInv'
<1> DEFINE top == Top(t)
           todo == <<r>>
           f == [top EXCEPT !.phase = "callback", !.todo = todo]
<1>1. /\ Busy(t) /\ top.phase = "run" /\ Update(t, f) /\ StoreModule(t)
      /\ UNCHANGED <<files, clock, born, inside, runs, kept, short>>
  BY DEF StartCallback, StoreModule, Phase, diskVars, searchVars
<1>2. /\ top \in FrameType /\ Searched(top) /\ Timely(top, clock, born[inside[t]], runs)
      /\ ~Phase(t, "read")
  BY <1>1, TopFacts DEF Phase
<1>3. clock \in Nat /\ runs \in Nat
  BY DEF RequireInv, Typed
<1>4. CacheOK'
  BY <1>1, StoreModuleFacts
<1>5. todo \in Seq(Requests)
  OBVIOUS
<1> HIDE DEF todo, top
<1>6. /\ f \in FrameType /\ f.at = top.at /\ f.phase = "callback" /\ f.time = top.time
      /\ f.value = top.value
  BY <1>2, <1>5, FrameChanges DEF FrameType
<1> HIDE DEF f
<1>7. Searched(f) /\ Timely(f, clock, born[inside[t]], runs)
  BY <1>1, <1>2, <1>6 DEF Searched, Timely, top
<1> QED BY <1>1, <1>2, <1>3, <1>4, <1>6, <1>7, GoesOn

\* The calls that end.
Ends(t) ==
  \/ NotFound(t)
  \/ Throw(t)
  \/ ReturnCached(t)
  \/ FinishModule(t)
  \/ FinishCallback(t)
  \/ FinishJson(t)

LEMMA EndsFacts ==
  ASSUME NEW t \in Threads, Ends(t)
  PROVE  /\ Busy(t) /\ ~Phase(t, "read") /\ Leave(t)
         /\ UNCHANGED <<files, clock, born, runs, short>>
         /\ UNCHANGED kept \/ kept' = [kept EXCEPT ![t] = {}]
         /\ \/ UNCHANGED cache
            \/ StoreModule(t)
            \/ /\ Phase(t, "run")
               /\ CacheResult(inside[t], FileOf(Top(t)), Entry(Top(t).value, clock))
BY DEF Ends, NotFound, Throw, ReturnCached, FinishModule, FinishCallback, FinishJson,
       StoreModule, Return, Phase, diskVars, isolateVars, searchVars

LEMMA EndsStep ==
  ASSUME RequireInv, NEW t \in Threads, Ends(t)
  PROVE  RequireInv'
<1>1. /\ Busy(t) /\ ~Phase(t, "read") /\ Leave(t)
      /\ UNCHANGED <<files, clock, born, runs, short>>
      /\ UNCHANGED kept \/ kept' = [kept EXCEPT ![t] = {}]
  BY EndsFacts
<1>2. t \notin short
  BY <1>1, TopFacts
<1>3. /\ kept' \in [Threads -> SUBSET Files] /\ kept'[t] \subseteq kept[t]
      /\ \A u \in Threads \ {t} : kept'[u] = kept[u]
  BY <1>1 DEF RequireInv, Searching
<1>4. clock \in Nat /\ runs \in Nat /\ clock \in 1..clock
  BY DEF RequireInv, Typed
<1>5. CacheOK'
  <2>1. CASE UNCHANGED cache
    BY <1>1, <1>4, <2>1, CacheKept
  <2>2. CASE StoreModule(t)
    BY <2>2, StoreModuleFacts
  <2>3. CASE /\ Phase(t, "run")
             /\ CacheResult(inside[t], FileOf(Top(t)), Entry(Top(t).value, clock))
    BY <1>1, <1>4, <2>3, StoreFacts
  <2> QED BY <2>1, <2>2, <2>3, EndsFacts
<1> QED BY <1>1, <1>2, <1>3, <1>5, LeaveInv

LEMMA ThreadStep ==
  ASSUME RequireInv, NEW t \in Threads, GoOn(t) \/ Throw(t)
  PROVE  RequireInv'
<1>1. CASE Ends(t)
  BY <1>1, EndsStep
<1>2. CASE Probe(t) \/ Read(t) \/ Run(t) \/ SkipImport(t)
  BY <1>2, ProbeStep, ReadStep, RunStep, SkipStep
<1>3. CASE \E m \in Modes \cup {"cached"} : Import(t, m)
  BY <1>3, ImportStep
<1>4. CASE \E r \in Requests : StartCallback(t, r)
  BY <1>4, StartCallbackStep
<1> QED BY <1>1, <1>2, <1>3, <1>4 DEF GoOn, Ends

\* What changes on the disk leaves of files, and of what the searches know.
DiskMoves ==
  /\ clock' \in 1..MaxClock /\ clock <= clock' /\ files' \in [Files -> 0..MaxClock]
  /\ \A f \in Files : files'[f] <= clock'
  /\ kept' \in [Threads -> SUBSET Files]
  /\ \A t \in Threads : kept'[t] \subseteq kept[t] /\ \A f \in kept'[t] : files'[f] # 0
  /\ short' \subseteq Threads /\ \A t \in short' : t \in short \/ Phase(t, "read")

LEMMA DiskStep ==
  ASSUME RequireInv,
         Tick \/ \E g \in Files : Create(g) \/ Remove(g) \/ \E cut \in SUBSET Threads : Edit(g, cut)
  PROVE  RequireInv'
<1>0. /\ clock \in 1..MaxClock /\ runs \in Nat /\ files \in [Files -> 0..MaxClock]
      /\ \A f \in Files : files[f] <= clock
      /\ kept \in [Threads -> SUBSET Files] /\ \A t \in Threads : \A f \in kept[t] : files[f] # 0
      /\ short \subseteq Threads
  BY DEF RequireInv, Typed, Searching
<1>1. UNCHANGED <<cache, born, inside, stack, runs>>
  BY DEF Tick, Create, Remove, Edit, isolateVars
<1>2. DiskMoves
  <2>1. CASE Tick
    <3>1. clock' = clock + 1 /\ clock' \in 1..MaxClock /\ UNCHANGED <<files, kept, short>>
      BY <1>0, <2>1 DEF Tick, searchVars
    <3>2. \A f \in Files : files[f] <= clock'
      BY <1>0, <3>1
    <3> QED BY <1>0, <3>1, <3>2 DEF DiskMoves
  <2>2. ASSUME NEW g \in Files, NEW cut \in SUBSET Threads, Create(g) \/ Edit(g, cut)
        PROVE  DiskMoves
    <3>1. /\ files' = [files EXCEPT ![g] = clock] /\ UNCHANGED <<clock, kept>>
          /\ short' = short \/ (short' = short \cup cut /\ cut \subseteq Readers(g))
      <4>1. CASE Create(g)
        BY <4>1 DEF Create, searchVars
      <4>2. CASE Edit(g, cut)
        BY <4>2 DEF Edit
      <4> QED BY <2>2, <4>1, <4>2
    <3>2. /\ files' \in [Files -> 0..MaxClock] /\ \A f \in Files : files'[f] <= clock
          /\ clock # 0 /\ \A f \in Files : files[f] # 0 => files'[f] # 0
      BY <1>0, <3>1
    <3>3. \A t \in Threads : \A f \in kept'[t] : files'[f] # 0
      BY <1>0, <3>1, <3>2
    <3>4. short' \subseteq Threads /\ \A t \in short' : t \in short \/ Phase(t, "read")
      BY <1>0, <3>1 DEF Readers
    <3> QED BY <1>0, <3>1, <3>2, <3>3, <3>4 DEF DiskMoves
  <2>3. ASSUME NEW g \in Files, Remove(g)
        PROVE  DiskMoves
    <3>1. /\ files' = [files EXCEPT ![g] = 0] /\ UNCHANGED <<clock, short>>
          /\ kept' = [t \in Threads |-> kept[t] \ {g}]
      BY <2>3 DEF Remove
    <3>2. /\ files' \in [Files -> 0..MaxClock] /\ \A f \in Files : files'[f] <= clock
          /\ \A f \in Files \ {g} : files'[f] = files[f]
      BY <1>0, <3>1
    <3>3. \A t \in Threads : kept'[t] = kept[t] \ {g} /\ kept[t] \subseteq Files
      BY <1>0, <3>1
    <3>4. \A t \in Threads : \A f \in kept'[t] : files'[f] # 0
      BY <1>0, <3>2, <3>3
    <3>5. kept' \in [Threads -> SUBSET Files]
      BY <1>0, <3>1
    <3> QED BY <1>0, <3>1, <3>2, <3>3, <3>4, <3>5 DEF DiskMoves
  <2> QED BY <2>1, <2>2, <2>3
<1>3. Typed'
  BY <1>1, <1>2 DEF RequireInv, Typed, DiskMoves
<1>4. CacheOK'
  <2>1. clock' \in Nat /\ runs' \in Nat /\ runs <= runs'
    BY <1>0, <1>1, <1>2 DEF DiskMoves
  <2> QED BY <1>1, <1>2, <2>1, CacheKept DEF DiskMoves
<1>5. Locked' /\ Below'
  BY <1>1 DEF RequireInv, Locked, Busy, Below
<1>6. FramesOK'
  <2>1. ASSUME NEW t \in Threads, NEW k \in DOMAIN stack[t]
        PROVE  Searched(stack[t][k]) /\ Timely(stack[t][k], clock', born[inside[t]], runs)
    <3>1. Searched(stack[t][k]) /\ Timely(stack[t][k], clock, born[inside[t]], runs)
      BY DEF RequireInv, FramesOK
    <3> QED BY <1>0, <1>2, <3>1 DEF Timely, DiskMoves
  <2> QED BY <1>1, <2>1 DEF FramesOK
<1>7. Searching'
  <2>1. \A t \in Threads : /\ Phase(t, "search")' <=> Phase(t, "search")
                           /\ Phase(t, "read")' <=> Phase(t, "read")
                           /\ Top(t)' = Top(t)
    BY <1>1 DEF Phase, Busy, Top
  <2>2. \A t \in Threads :
          Phase(t, "search") \/ Phase(t, "read") => PassedOver(Top(t), kept'[t])
    BY <1>2 DEF RequireInv, Searching, PassedOver, DiskMoves
  <2>3. \A t \in short' : Phase(t, "read")
    BY <1>2 DEF RequireInv, Searching, DiskMoves
  <2> QED BY <1>2, <2>1, <2>2, <2>3 DEF Searching, DiskMoves
<1> QED BY <1>3, <1>4, <1>5, <1>6, <1>7 DEF RequireInv

LEMMA EnterStep ==
  ASSUME RequireInv, NEW t \in Threads, NEW i \in Isolates, NEW r \in Requests, NEW m \in Modes,
         Enter(t, i, r, m)
  PROVE  RequireInv'
<1> DEFINE f == Frame(r, m)
<1>0. /\ clock \in 1..MaxClock /\ runs \in Nat /\ stack \in [Threads -> Seq(FrameType)]
      /\ inside \in [Threads -> Isolates \cup {NoIsolate}]
  BY DEF RequireInv, Typed
<1>1. /\ ~Busy(t) /\ \A u \in Threads : inside[u] # i
      /\ inside' = [inside EXCEPT ![t] = i] /\ stack' = [stack EXCEPT ![t] = <<f>>]
      /\ kept' = [kept EXCEPT ![t] = There(r)]
      /\ UNCHANGED <<files, clock, cache, born, runs, short>>
  BY DEF Enter, MayEnter, diskVars, isolateVars
<1>2. f \in FrameType /\ f.phase = "search" /\ f.at = 1
  <2>1. <<>> \in Seq(Requests) /\ m \in AllModes
    OBVIOUS
  <2> QED BY <2>1 DEF Frame, FrameType
<1> HIDE DEF f
<1>3. /\ stack' \in [Threads -> Seq(FrameType)] /\ inside' \in [Threads -> Isolates \cup {NoIsolate}]
      /\ stack'[t] = <<f>> /\ inside'[t] = i
      /\ \A u \in Threads \ {t} : stack'[u] = stack[u] /\ inside'[u] = inside[u]
  BY <1>0, <1>1, <1>2
<1>4. Typed'
  <2>1. Len(stack'[t]) <= MaxDepth
    BY <1>3
  <2>2. \A u \in Threads : Len(stack'[u]) <= MaxDepth
    BY <1>3, <2>1 DEF RequireInv, Typed
  <2> QED BY <1>1, <1>3, <2>2 DEF RequireInv, Typed
<1>5. CacheOK'
  BY <1>1 DEF RequireInv, CacheOK
<1>6. Locked'
  <2>1. stack'[t] # <<>> /\ inside'[t] # NoIsolate
    BY <1>3
  <2> QED BY <1>1, <1>3, <2>1 DEF RequireInv, Locked, Busy
<1>7. FramesOK'
  <2>1. Searched(f) /\ Timely(f, clock, born[i], runs)
    BY <1>2, Sizes DEF Searched, Timely
  <2>2. \A k \in DOMAIN stack'[t] : stack'[t][k] = f
    BY <1>3
  <2>3. /\ clock' \in Nat /\ clock <= clock' /\ runs' \in Nat /\ runs <= runs' /\ born' = born
    BY <1>0, <1>1
  <2>4. \A k \in DOMAIN stack'[t] :
          /\ Searched(stack'[t][k])
          /\ Timely(stack'[t][k], clock', born[inside'[t]], runs')
    BY <1>1, <1>3, <2>1, <2>2
  <2> QED BY <1>3, <2>3, <2>4, FramesKept
<1>8. Below'
  BY <1>3 DEF RequireInv, Below
<1>9. Searching'
  <2>1. There(r) \subseteq Files /\ \A g \in There(r) : files[g] # 0
    BY ThereFiles
  <2>2. /\ kept' \in [Threads -> SUBSET Files] /\ kept'[t] = There(r)
        /\ \A u \in Threads \ {t} : kept'[u] = kept[u]
    BY <1>1, <2>1 DEF RequireInv, Searching
  <2>3. PassedOver(Top(t)', kept'[t])
    BY <1>2, <1>3 DEF PassedOver, Top
  <2>4. t \notin short
    BY <1>1 DEF RequireInv, Searching, Phase
  <2> QED BY <1>1, <1>3, <2>1, <2>2, <2>3, <2>4, SearchingKept
<1> QED BY <1>4, <1>5, <1>6, <1>7, <1>8, <1>9 DEF RequireInv

LEMMA ReplaceStep ==
  ASSUME RequireInv, NEW i \in Isolates, ReplaceIsolate(i)
  PROVE  RequireInv'
<1>0. /\ runs \in Nat /\ born \in [Isolates -> Nat] /\ \A j \in Isolates : born[j] <= runs
      /\ inside \in [Threads -> Isolates \cup {NoIsolate}]
  BY DEF RequireInv, Typed
<1>1. /\ \A t \in Threads : inside[t] # i
      /\ cache' = [cache EXCEPT ![i] = <<>>] /\ born' = [born EXCEPT ![i] = runs]
      /\ UNCHANGED <<files, clock, inside, stack, runs, kept, short>>
  BY DEF ReplaceIsolate, DeleteRequireCacheForIsolate, diskVars, searchVars
<1>2. Typed'
  <2>1. born' \in [Isolates -> Nat] /\ \A j \in Isolates : born'[j] <= runs
    BY <1>0, <1>1
  <2> QED BY <1>1, <2>1 DEF RequireInv, Typed
<1>3. CacheOK'
  <2>1. DOMAIN cache' = Isolates
        /\ \A j \in Isolates : cache'[j] = IF j = i THEN <<>> ELSE cache[j]
    BY <1>1 DEF RequireInv, CacheOK
  <2>2. DOMAIN <<>> = {}
    OBVIOUS
  <2>3. \A j \in Isolates : j # i => born'[j] = born[j]
    BY <1>0, <1>1
  <2> QED BY <1>1, <2>1, <2>2, <2>3 DEF RequireInv, CacheOK
<1>4. Locked' /\ Below'
  BY <1>1 DEF RequireInv, Locked, Busy, Below
<1>5. FramesOK'
  <2>1. ASSUME NEW t \in Threads, NEW k \in DOMAIN stack[t]
        PROVE  born'[inside[t]] = born[inside[t]]
    <3>1. stack[t] # <<>>
      BY <2>1
    <3>2. inside[t] \in Isolates
      BY <1>0, <3>1 DEF RequireInv, Locked, Busy
    <3> QED BY <1>0, <1>1, <3>2
  <2> QED BY <1>1, <2>1 DEF RequireInv, FramesOK
<1>6. Searching'
  BY <1>1 DEF RequireInv, Searching, Phase, Busy, Top
<1> QED BY <1>2, <1>3, <1>4, <1>5, <1>6 DEF RequireInv

LEMMA InvStep == RequireInv /\ [Next]_vars => RequireInv'
<1> SUFFICES ASSUME RequireInv, [Next]_vars PROVE RequireInv'
  OBVIOUS
<1>1. CASE UNCHANGED vars
  BY <1>1
     DEF vars, RequireInv, Typed, CacheOK, Locked, Busy, FramesOK, Below, Searching, Phase, Top
<1> QED BY <1>1, DiskStep, EnterStep, ReplaceStep, ThreadStep DEF Next

LEMMA Invariant == Spec => []RequireInv
BY InvInit, InvStep, PTL DEF Spec

\* Every variable always has its type.
THEOREM Typing == Spec => []TypeOK
BY Invariant, InvImplies, PTL

\* No isolate has a result in its cache that was computed in another one, be it one
\* that had its address.
THEOREM OwnResults == Spec => []ResultsOfThisIsolate
BY Invariant, InvImplies, PTL

\* The search finds what the documented order finds, for any search paths.
THEOREM SearchOrder == Spec => []DocumentedSearchOrder
BY Invariant, InvImplies, PTL

-------------------------------------------------------------------------------
(* The same value every time, where no modules require each other in a     *)
(* circle: a module that runs is not cached by what it requires.           *)

Bases == {r.base : r \in Requests}

\* What a module requires comes before it in some order.
InOrder(rank) ==
  \A r \in Requests : \A k \in DOMAIN Imports[r.base] :
    rank[Imports[r.base][k].base] < rank[r.base]

NoCircle == \E rank \in [Bases -> Nat] : InOrder(rank)

RankOf(f, rank) == rank[f.request.base]

TodoInOrder(f, rank) == \A k \in DOMAIN f.todo : rank[f.todo[k].base] < RankOf(f, rank)

\* Each call is of something that comes before what called it.
StackInOrder(s, rank) ==
  \A j, k \in DOMAIN s : j < k => RankOf(s[j], rank) < RankOf(s[k], rank)

\* Nothing is cached for a module that runs, if the cache was looked at.
NotYetCached(f, cached) ==
  f.phase = "run" /\ f.mode = "cached" => FileOf(f) \notin cached

\* The result of a call whose callback runs is in the cache.
IsCached(f, c) ==
  f.phase = "callback" /\ f.mode = "cached" =>
    FileOf(f) \in DOMAIN c /\ c[FileOf(f)].value = f.value

ReturnedIsCached ==
  /\ DOMAIN returned = Isolates
  /\ \A i \in Isolates : \A x \in returned[i] :
       x.file \in DOMAIN cache[i] /\ cache[i][x.file].value = x.value

\* A callback may require whatever it likes, but nothing is stored while it runs.
Ordered(rank) ==
  \A t \in Threads : ~InCallback(t) =>
    /\ StackInOrder(stack[t], rank)
    /\ \A k \in DOMAIN stack[t] : TodoInOrder(stack[t][k], rank)

FrameAndCache(f, c) == NotYetCached(f, DOMAIN c) /\ IsCached(f, c)

FramesAndCache ==
  \A t \in Threads : \A k \in DOMAIN stack[t] : FrameAndCache(stack[t][k], cache[inside[t]])

\* Whether a callback runs, after a step of a thread.
LEMMA OthersInCallback ==
  ASSUME NEW t, NEW u, stack'[u] = stack[u]
  PROVE  InCallback(u)' = InCallback(u)
BY DEF InCallback, Busy

LEMMA AdvanceCallback ==
  ASSUME RequireInv, NEW t \in Threads, Busy(t), NEW f \in FrameType, Update(t, f),
         f.phase = "callback" <=> Top(t).phase = "callback"
  PROVE  InCallback(t)' <=> InCallback(t)
<1>1. /\ Len(stack'[t]) = Len(stack[t]) /\ stack'[t][1] = f /\ stack'[t] # <<>>
      /\ \A k \in DOMAIN stack[t] : k # 1 => stack'[t][k] = stack[t][k]
  BY Advance
<1>2. /\ Len(stack[t]) \in DOMAIN stack[t] /\ Top(t) = stack[t][1]
  BY TopFacts
<1> QED BY <1>1, <1>2 DEF InCallback, Busy

LEMMA LeaveCallback ==
  ASSUME RequireInv, NEW t \in Threads, Busy(t), Leave(t), ~InCallback(t)', stack'[t] # <<>>
  PROVE  ~InCallback(t)
<1>1. /\ Len(stack'[t]) = Len(stack[t]) - 1
      /\ DOMAIN stack'[t] = 1..(Len(stack[t]) - 1)
      /\ \A k \in DOMAIN stack'[t] : stack'[t][k] = stack[t][k + 1]
      /\ stack' \in [Threads -> Seq(FrameType)]
  BY LeaveFacts
<1>2. Len(stack[t]) \in Nat \ {0} /\ Len(stack'[t]) # 0
  BY <1>1, TopFacts, EmptySeq
<1>3. stack'[t][Len(stack'[t])] = stack[t][Len(stack[t])]
  <2> DEFINE n == Len(stack[t])
  <2>1. n \in Nat /\ n - 1 # 0 /\ Len(stack'[t]) = n - 1
    BY <1>1, <1>2
  <2> HIDE DEF n
  <2>2. n - 1 \in 1..(n - 1) /\ (n - 1) + 1 = n
    BY <2>1
  <2>3. stack'[t][n - 1] = stack[t][n]
    BY <1>1, <2>2 DEF n
  <2> QED BY <2>1, <2>3 DEF n
<1> QED BY <1>3 DEF InCallback, Busy

LEMMA PushCallback ==
  ASSUME RequireInv, NEW t \in Threads, Busy(t), NEW f \in FrameType, NEW caller \in FrameType,
         Pushed(t, f, caller)
  PROVE  InCallback(t)' <=> InCallback(t)
<1>1. Len(stack[t]) \in Nat \ {0} /\ Top(t) = stack[t][1]
  BY TopFacts
<1>2. /\ Len(stack'[t]) = Len(stack[t]) + 1 /\ stack'[t] # <<>>
      /\ Len(stack'[t]) \in DOMAIN stack'[t]
      /\ stack'[t] \in Seq(FrameType)
  <2>1. Len(stack'[t]) = Len(stack[t]) + 1 /\ stack'[t] # <<>> /\ stack'[t] \in Seq(FrameType)
    BY DEF Pushed
  <2> QED BY <1>1, <2>1
<1> DEFINE last == stack'[t][Len(stack'[t])]
<1>3. CASE Len(stack[t]) = 1
  <2>1. last = caller
    BY <1>2, <1>3 DEF Pushed
  <2> QED BY <1>1, <1>2, <1>3, <2>1 DEF Pushed, InCallback, Busy
<1>4. CASE Len(stack[t]) # 1
  <2>1. Len(stack'[t]) # 1 /\ Len(stack'[t]) # 2 /\ Len(stack'[t]) - 1 = Len(stack[t])
    <3> DEFINE n == Len(stack[t])
               m == Len(stack'[t])
    <3>1. n \in Nat /\ n # 0 /\ n # 1 /\ m = n + 1
      BY <1>1, <1>2, <1>4
    <3> HIDE DEF n, m
    <3>2. m # 1 /\ m # 2 /\ m - 1 = n
      BY <3>1
    <3> QED BY <3>2 DEF n, m
  <2>2. last = stack[t][Len(stack'[t]) - 1]
    BY <1>2, <2>1 DEF Pushed
  <2> QED BY <1>2, <2>1, <2>2 DEF InCallback, Busy
<1> QED BY <1>3, <1>4

LEMMA RankType ==
  ASSUME NEW rank \in [Bases -> Nat], NEW f \in FrameType
  PROVE  RankOf(f, rank) \in Nat /\ \A k \in DOMAIN f.todo : rank[f.todo[k].base] \in Nat
<1>1. f.request.base \in Bases
  BY DEF FrameType, Bases
<1>2. \A k \in DOMAIN f.todo : f.todo[k] \in Requests
  BY DEF FrameType
<1>3. \A k \in DOMAIN f.todo : f.todo[k].base \in Bases
  BY <1>2 DEF Bases
<1> QED BY <1>1, <1>3 DEF RankOf

\* Order, which only calls of require change.
LEMMA OrderStep ==
  ASSUME RequireInv, NEW rank \in [Bases -> Nat], InOrder(rank), Ordered(rank), [Next]_vars
  PROVE  Ordered(rank)'
<1>0. /\ stack \in [Threads -> Seq(FrameType)]
      /\ inside \in [Threads -> Isolates \cup {NoIsolate}]
  BY DEF RequireInv, Typed
<1>1. ASSUME NEW t \in Threads, Busy(t), NEW f \in FrameType, Update(t, f),
             f.phase = "callback" <=> Top(t).phase = "callback",
             f.request = Top(t).request, TodoInOrder(Top(t), rank) => TodoInOrder(f, rank)
      PROVE  Ordered(rank)'
  <2>1. /\ \A u \in Threads \ {t} : stack'[u] = stack[u]
        /\ DOMAIN stack'[t] = DOMAIN stack[t] /\ stack'[t][1] = f
        /\ \A k \in DOMAIN stack[t] : k # 1 => stack'[t][k] = stack[t][k]
    BY <1>1, Advance
  <2>2. Top(t) = stack[t][1] /\ 1 \in DOMAIN stack[t]
    BY <1>1, TopFacts
  <2>3. ASSUME ~InCallback(t)
        PROVE  /\ StackInOrder(stack'[t], rank)
               /\ \A k \in DOMAIN stack'[t] : TodoInOrder(stack'[t][k], rank)
    <3>1. \A k \in DOMAIN stack[t] :
            /\ RankOf(stack'[t][k], rank) = RankOf(stack[t][k], rank)
            /\ TodoInOrder(stack'[t][k], rank)
      BY <1>1, <2>1, <2>2, <2>3 DEF Ordered, RankOf
    <3> QED BY <2>1, <2>3, <3>1 DEF Ordered, StackInOrder
  <2>4. InCallback(t)' <=> InCallback(t)
    BY <1>1, AdvanceCallback
  <2> QED BY <2>1, <2>3, <2>4, OthersInCallback DEF Ordered
<1>2. ASSUME NEW t \in Threads, Busy(t), Leave(t) PROVE Ordered(rank)'
  <2>1. /\ \A u \in Threads \ {t} : stack'[u] = stack[u]
        /\ DOMAIN stack'[t] = 1..(Len(stack[t]) - 1) /\ Len(stack[t]) \in Nat
        /\ \A k \in DOMAIN stack'[t] :
             stack'[t][k] = stack[t][k + 1] /\ k + 1 \in DOMAIN stack[t]
    BY <1>2, LeaveFacts, TopFacts
  <2>2. ASSUME ~InCallback(t)'
        PROVE  /\ StackInOrder(stack'[t], rank)
               /\ \A k \in DOMAIN stack'[t] : TodoInOrder(stack'[t][k], rank)
    <3>1. CASE stack'[t] = <<>>
      BY <3>1 DEF StackInOrder
    <3>2. CASE stack'[t] # <<>>
      <4>1. ~InCallback(t)
        BY <1>2, <2>2, <3>2, LeaveCallback
      <4>2. ASSUME NEW j \in DOMAIN stack'[t], NEW k \in DOMAIN stack'[t], j < k
            PROVE  RankOf(stack'[t][j], rank) < RankOf(stack'[t][k], rank)
        <5>1. j + 1 < k + 1
          BY <2>1, <4>2
        <5> QED BY <2>1, <4>1, <5>1 DEF Ordered, StackInOrder
      <4>3. \A k \in DOMAIN stack'[t] : TodoInOrder(stack'[t][k], rank)
        BY <2>1, <4>1 DEF Ordered
      <4> QED BY <4>2, <4>3 DEF StackInOrder
    <3> QED BY <3>1, <3>2
  <2> QED BY <2>1, <2>2, OthersInCallback DEF Ordered
<1>3. ASSUME NEW t \in Threads, GoOn(t) \/ Throw(t) PROVE Ordered(rank)'
  <2> DEFINE top == Top(t)
  <2>1. Busy(t)
    BY <1>3, EndsFacts DEF GoOn, Ends, Probe, Read, Run, Import, SkipImport, StartCallback,
           StoreModule, Phase
  <2>2. top \in FrameType /\ top = stack[t][1] /\ 1 \in DOMAIN stack[t]
    BY <2>1, TopFacts
  <2>3. CASE Probe(t) \/ Read(t)
    <3>1. /\ top.phase \in {"search", "read"}
          /\ \/ Update(t, [top EXCEPT !.at = @ + 1])
             \/ Update(t, [top EXCEPT !.phase = "read", !.time = files[FileOf(top)]])
             \/ Update(t, [top EXCEPT !.phase = "lookup"])
      BY <2>3 DEF Probe, Read, Phase
    <3>2. CASE Update(t, [top EXCEPT !.phase = "lookup"])
      <4> DEFINE f == [top EXCEPT !.phase = "lookup"]
      <4>1. /\ f \in FrameType /\ f.request = top.request /\ f.todo = top.todo
            /\ f.phase # "callback" /\ top.phase # "callback"
        BY <2>2, <3>1 DEF FrameType
      <4>2. TodoInOrder(top, rank) => TodoInOrder(f, rank)
        BY <4>1 DEF TodoInOrder, RankOf
      <4> QED BY <1>1, <2>1, <3>2, <4>1, <4>2
    <3>3. CASE Probe(t)
      <4>1. files[FileOf(top)] \in Nat
        <5>1. top.at \in 1..Last
          BY <2>2, <3>3 DEF Probe, Candidates, Last, FrameType
        <5>2. FileOf(top) \in Files
          BY <2>2, <5>1, CandidateIsFile DEF FileOf, FrameType
        <5> QED BY <5>2 DEF RequireInv, Typed
      <4>2. \A f \in {[top EXCEPT !.at = @ + 1],
                      [top EXCEPT !.phase = "read", !.time = files[FileOf(top)]]} :
              /\ f \in FrameType /\ f.request = top.request /\ f.todo = top.todo
              /\ f.phase # "callback"
        <5> DEFINE next == top.at + 1
                   time == files[FileOf(top)]
        <5>1. next \in Nat \ {0} /\ time \in Nat
          BY <2>2, <4>1 DEF FrameType
        <5> HIDE DEF next, time
        <5>2. /\ [top EXCEPT !.at = next] \in FrameType
              /\ [top EXCEPT !.at = next].request = top.request
              /\ [top EXCEPT !.at = next].todo = top.todo
              /\ [top EXCEPT !.at = next].phase = top.phase
          BY <2>2, <5>1 DEF FrameType
        <5>3. /\ [top EXCEPT !.phase = "read", !.time = time] \in FrameType
              /\ [top EXCEPT !.phase = "read", !.time = time].request = top.request
              /\ [top EXCEPT !.phase = "read", !.time = time].todo = top.todo
              /\ [top EXCEPT !.phase = "read", !.time = time].phase = "read"
          BY <2>2, <5>1 DEF FrameType
        <5> QED BY <3>1, <5>2, <5>3 DEF next, time
      <4>3. \A f \in FrameType : f.request = top.request /\ f.todo = top.todo =>
              (TodoInOrder(top, rank) => TodoInOrder(f, rank))
        BY DEF TodoInOrder, RankOf
      <4>4. \/ Update(t, [top EXCEPT !.at = @ + 1])
            \/ Update(t, [top EXCEPT !.phase = "read", !.time = files[FileOf(top)]])
        BY <3>3 DEF Probe
      <4>5. top.phase # "callback"
        BY <3>1
      <4> HIDE DEF top
      <4>6. \A f \in FrameType :
              /\ Update(t, f) /\ f.phase # "callback" /\ f.request = top.request
              /\ (TodoInOrder(top, rank) => TodoInOrder(f, rank))
              => Ordered(rank)'
        BY <1>1, <2>1, <4>5 DEF top
      <4> QED BY <4>2, <4>3, <4>4, <4>6
    <3> QED BY <2>3, <3>2, <3>3 DEF Read
  <2>4. CASE Ends(t)
    BY <1>2, <2>4, EndsFacts
  <2>5. CASE Run(t)
    <3> DEFINE todo == IF IsJson(top) THEN <<>> ELSE Imports[top.request.base]
               value == runs + 1
               f == [top EXCEPT !.phase = "run", !.value = value, !.todo = todo]
    <3>1. Update(t, f) /\ top.phase = "lookup"
      BY <2>5 DEF Run, Phase
    <3>2. value \in Nat /\ top.request \in Requests /\ todo \in Seq(Requests)
      BY <2>2 DEF RequireInv, Typed, FrameType
    <3>3. \A k \in DOMAIN todo : rank[todo[k].base] < rank[top.request.base]
      <4> HIDE DEF top
      <4>1. CASE IsJson(top)
        BY <4>1
      <4>2. CASE ~IsJson(top)
        BY <3>2, <4>2 DEF InOrder
      <4> QED BY <4>1, <4>2
    <3> HIDE DEF top, value, todo
    <3>4. f \in FrameType /\ f.request = top.request /\ f.todo = todo /\ f.phase = "run"
      BY <2>2, <3>2 DEF FrameType
    <3>5. TodoInOrder(f, rank)
      BY <3>3, <3>4 DEF TodoInOrder, RankOf
    <3> QED BY <1>1, <2>1, <3>1, <3>4, <3>5 DEF top
  <2>6. CASE SkipImport(t)
    <3> DEFINE todo == Tail(top.todo)
               f == [top EXCEPT !.todo = todo]
    <3>1. Update(t, f) /\ top.todo # <<>>
      BY <2>6 DEF SkipImport
    <3>2. /\ todo \in Seq(Requests)
          /\ \A k \in DOMAIN todo : todo[k] = top.todo[k + 1] /\ k + 1 \in DOMAIN top.todo
      BY <2>2, <3>1, HeadTailProperties DEF FrameType
    <3> HIDE DEF top, todo
    <3>3. f \in FrameType /\ f.request = top.request /\ f.todo = todo /\ f.phase = top.phase
      BY <2>2, <3>2 DEF FrameType
    <3>4. TodoInOrder(top, rank) => TodoInOrder(f, rank)
      BY <3>2, <3>3 DEF TodoInOrder, RankOf
    <3> QED BY <1>1, <2>1, <3>1, <3>3, <3>4 DEF top
  <2>7. ASSUME NEW m \in Modes \cup {"cached"}, Import(t, m) PROVE Ordered(rank)'
    <3>1. PICK f \in FrameType, caller \in FrameType : Pushed(t, f, caller)
      BY <2>7, PushFacts
    <3>14. \A u \in Threads \ {t} : stack'[u] = stack[u]
      BY <3>1 DEF Pushed
    <3>15. InCallback(t)' <=> InCallback(t)
      BY <2>1, <3>1, PushCallback
    <3> SUFFICES ASSUME ~InCallback(t)
                 PROVE  /\ StackInOrder(stack'[t], rank)
                        /\ \A k \in DOMAIN stack'[t] : TodoInOrder(stack'[t][k], rank)
      BY <3>14, <3>15, OthersInCallback DEF Ordered
    <3> DEFINE s == stack[t]
               r == stack'[t]
    <3>2. top.todo # <<>> /\ top.todo \in Seq(Requests) /\ s \in Seq(FrameType)
      BY <1>0, <2>2, <2>7 DEF Import, FrameType
    <3>16. TodoInOrder(top, rank)
      BY <2>2 DEF Ordered
    <3>3. /\ Head(top.todo) = top.todo[1] /\ 1 \in DOMAIN top.todo
          /\ \A k \in DOMAIN Tail(top.todo) :
               Tail(top.todo)[k] = top.todo[k + 1] /\ k + 1 \in DOMAIN top.todo
      BY <3>2, HeadTailProperties, EmptySeq
    <3>4. /\ RankOf(caller, rank) = RankOf(top, rank) /\ TodoInOrder(caller, rank)
      BY <3>16, <3>1, <3>3 DEF Pushed, RankOf, TodoInOrder
    <3>5. RankOf(f, rank) < RankOf(top, rank) /\ TodoInOrder(f, rank)
      BY <3>16, <3>1, <3>3 DEF Pushed, RankOf, TodoInOrder
    <3>6. \A k \in DOMAIN s : k # 1 => RankOf(top, rank) < RankOf(s[k], rank)
      BY <2>2, <3>2 DEF Ordered, StackInOrder
    <3>7. \A k \in DOMAIN r : \/ k = 1 /\ r[k] = f
                              \/ k = 2 /\ r[k] = caller
                              \/ k > 2 /\ k - 1 \in DOMAIN s /\ r[k] = s[k - 1]
      BY <3>1 DEF Pushed
    <3>8. /\ RankOf(f, rank) \in Nat /\ RankOf(top, rank) \in Nat
          /\ \A k \in DOMAIN s : RankOf(s[k], rank) \in Nat
          /\ DOMAIN r \subseteq Nat
      <4>1. \A g \in FrameType : RankOf(g, rank) \in Nat
        BY RankType
      <4>2. r \in Seq(FrameType)
        BY <3>1 DEF Pushed
      <4>3. DOMAIN r \subseteq Nat
        BY <4>2
      <4>4. \A k \in DOMAIN s : s[k] \in FrameType
        BY <3>2
      <4> QED BY <2>2, <4>1, <4>3, <4>4
    <3>10. \A k \in DOMAIN s : TodoInOrder(s[k], rank)
      BY DEF Ordered
    <3> HIDE DEF r, top
    <3>11. ASSUME NEW j \in DOMAIN r, NEW k \in DOMAIN r, j < k
           PROVE  RankOf(r[j], rank) < RankOf(r[k], rank)
      <4>1. CASE j = 1 /\ k = 2
        BY <3>4, <3>5, <3>7, <4>1
      <4>2. CASE j = 1 /\ k > 2
        <5>1. r[j] = f /\ k - 1 \in DOMAIN s /\ r[k] = s[k - 1] /\ k - 1 # 1
          BY <3>7, <3>8, <4>2
        <5>2. RankOf(top, rank) < RankOf(s[k - 1], rank) /\ RankOf(s[k - 1], rank) \in Nat
          BY <3>6, <3>8, <5>1
        <5> QED BY <3>5, <3>8, <5>1, <5>2
      <4>3. CASE j = 2 /\ k > 2
        <5>1. r[j] = caller /\ k - 1 \in DOMAIN s /\ r[k] = s[k - 1] /\ k - 1 # 1
          BY <3>7, <3>8, <4>3
        <5> QED BY <3>4, <3>6, <5>1
      <4>4. CASE j > 2 /\ k > 2
        <5>1. j \in Nat /\ k \in Nat
          BY <3>8
        <5>2. j # 1 /\ j # 2 /\ k # 1 /\ k # 2 /\ j - 1 < k - 1
          BY <3>11, <4>4, <5>1
        <5>3. j - 1 \in DOMAIN s /\ r[j] = s[j - 1]
          BY <3>7, <5>2
        <5>4. k - 1 \in DOMAIN s /\ r[k] = s[k - 1]
          BY <3>7, <5>2
        <5> QED BY <5>2, <5>3, <5>4 DEF Ordered, StackInOrder
      <4> QED BY <3>7, <3>8, <3>11, <4>1, <4>2, <4>3, <4>4
    <3>12. \A k \in DOMAIN r : TodoInOrder(r[k], rank)
      BY <3>4, <3>5, <3>7, <3>10
    <3>13. StackInOrder(r, rank)
      BY <3>11 DEF StackInOrder
    <3> QED BY <3>12, <3>13 DEF r
  <2>8. ASSUME NEW r \in Requests, StartCallback(t, r) PROVE Ordered(rank)'
    <3> DEFINE f == [top EXCEPT !.phase = "callback", !.todo = <<r>>]
    <3>1. Update(t, f) /\ Len(stack[t]) = 1
      BY <2>8 DEF StartCallback
    <3>2. f \in FrameType /\ f.phase = "callback"
      <4>1. <<r>> \in Seq(Requests)
        OBVIOUS
      <4> QED BY <2>2, <4>1 DEF FrameType
    <3> HIDE DEF f
    <3>3. /\ stack'[t] # <<>> /\ stack'[t][Len(stack'[t])] = f
          /\ \A u \in Threads \ {t} : stack'[u] = stack[u]
      BY <2>1, <3>1, <3>2, Advance
    <3>4. InCallback(t)'
      BY <3>2, <3>3 DEF InCallback, Busy
    <3> QED BY <3>3, <3>4, OthersInCallback DEF Ordered
  <2> QED BY <1>3, <2>3, <2>4, <2>5, <2>6, <2>7, <2>8 DEF GoOn, Ends
<1>4. ASSUME NEW t \in Threads, NEW i \in Isolates, NEW r \in Requests, NEW m \in Modes,
             Enter(t, i, r, m)
      PROVE  Ordered(rank)'
  <2>1. /\ stack'[t] = <<Frame(r, m)>>
        /\ \A u \in Threads \ {t} : stack'[u] = stack[u]
    BY <1>0, <1>4 DEF Enter
  <2>2. TodoInOrder(Frame(r, m), rank)
    BY DEF TodoInOrder, Frame
  <2>3. StackInOrder(stack'[t], rank) /\ \A k \in DOMAIN stack'[t] : TodoInOrder(stack'[t][k], rank)
    BY <2>1, <2>2 DEF StackInOrder
  <2> QED BY <2>1, <2>3, OthersInCallback DEF Ordered
<1>5. ASSUME \/ Tick \/ UNCHANGED vars \/ \E i \in Isolates : ReplaceIsolate(i)
             \/ \E f \in Files : Create(f) \/ Remove(f) \/ \E cut \in SUBSET Threads : Edit(f, cut)
      PROVE  stack' = stack
  BY <1>5 DEF Tick, Create, Remove, Edit, ReplaceIsolate, vars
<1>6. stack' = stack => Ordered(rank)'
  BY OthersInCallback DEF Ordered
<1> QED BY <1>3, <1>4, <1>5, <1>6 DEF Next

\* The file that a call has found has the base name asked for.
LEMMA FoundBase ==
  ASSUME NEW f \in FrameType, Searched(f), f.phase # "search"
  PROVE  FileOf(f).base = f.request.base
<1>1. f.at \in 1..Last
  BY DEF Searched
<1>2. PICK s \in DOMAIN Suffixes, p \in DOMAIN Paths : f.at = (s - 1) * Len(Paths) + p
  BY <1>1, CandidateIs
<1>3. FileOf(f) = File(Paths[p], f.request, Suffixes[s])
  BY <1>2, CandidateAt DEF FileOf
<1> QED BY <1>3 DEF File

SameInv == ReturnedIsCached /\ FramesAndCache

\* The cache of the isolate that thread t is in has at most grown, and not by what the
\* calls below the innermost one run.
Grown(t) ==
  /\ DOMAIN cache' = Isolates
  /\ \A i \in Isolates \ {inside[t]} : cache'[i] = cache[i]
  /\ \A g \in DOMAIN cache[inside[t]] :
       g \in DOMAIN cache'[inside[t]] /\ cache'[inside[t]][g] = cache[inside[t]][g]
  /\ \A k \in DOMAIN stack[t] : k # 1 => FrameAndCache(stack[t][k], cache'[inside[t]])

LEMMA NotGrown ==
  ASSUME RequireInv, SameInv, NEW t \in Threads, UNCHANGED cache
  PROVE  Grown(t)
BY DEF Grown, SameInv, FramesAndCache, RequireInv, CacheOK

LEMMA OthersAndCache ==
  ASSUME RequireInv, SameInv, NEW t \in Threads, Busy(t), Grown(t),
         NEW u \in Threads \ {t}, NEW k \in DOMAIN stack[u]
  PROVE  FrameAndCache(stack[u][k], cache'[inside[u]])
<1>1. stack[u] # <<>>
  OBVIOUS
<1>2. inside[u] \in Isolates \ {inside[t]}
  BY <1>1 DEF RequireInv, Typed, Locked, Busy
<1> QED BY <1>2 DEF SameInv, FramesAndCache, Grown

LEMMA StillReturned ==
  ASSUME RequireInv, SameInv, NEW t \in Threads, Grown(t), UNCHANGED returned
  PROVE  ReturnedIsCached'
<1>1. ASSUME NEW i \in Isolates, NEW x \in returned[i]
      PROVE  x.file \in DOMAIN cache'[i] /\ cache'[i][x.file].value = x.value
  <2>1. x.file \in DOMAIN cache[i] /\ cache[i][x.file].value = x.value
    BY DEF SameInv, ReturnedIsCached
  <2>2. CASE i = inside[t]
    BY <2>1, <2>2 DEF Grown
  <2>3. CASE i # inside[t]
    BY <2>1, <2>3 DEF Grown
  <2> QED BY <2>2, <2>3
<1> QED BY <1>1 DEF SameInv, ReturnedIsCached

\* The innermost call goes on, and is as it should be.
LEMMA SameAdvance ==
  ASSUME RequireInv, SameInv, NEW t \in Threads, Busy(t), NEW f \in FrameType, Update(t, f),
         UNCHANGED <<returned, inside>>, Grown(t), FrameAndCache(f, cache'[inside[t]])
  PROVE  SameInv'
<1>1. /\ \A u \in Threads \ {t} : stack'[u] = stack[u]
      /\ DOMAIN stack'[t] = DOMAIN stack[t] /\ stack'[t][1] = f
      /\ \A k \in DOMAIN stack[t] : k # 1 => stack'[t][k] = stack[t][k]
  BY Advance
<1>2. \A k \in DOMAIN stack'[t] : FrameAndCache(stack'[t][k], cache'[inside[t]])
  BY <1>1 DEF Grown
<1>3. FramesAndCache'
  BY <1>1, <1>2, OthersAndCache DEF FramesAndCache
<1> QED BY <1>3, StillReturned DEF SameInv

LEMMA LeaveAndCache ==
  ASSUME RequireInv, SameInv, NEW t \in Threads, Busy(t), Leave(t), Grown(t)
  PROVE  FramesAndCache'
<1>1. /\ \A u \in Threads \ {t} : stack'[u] = stack[u] /\ inside'[u] = inside[u]
      /\ DOMAIN stack'[t] = 1..(Len(stack[t]) - 1)
      /\ \A k \in DOMAIN stack'[t] : stack'[t][k] = stack[t][k + 1] /\ k + 1 \in DOMAIN stack[t]
      /\ IF stack'[t] = <<>> THEN inside'[t] = NoIsolate ELSE inside'[t] = inside[t]
  BY LeaveFacts
<1>2. Len(stack[t]) \in Nat
  BY TopFacts
<1>3. ASSUME NEW k \in DOMAIN stack'[t]
      PROVE  FrameAndCache(stack'[t][k], cache'[inside'[t]])
  <2>1. inside'[t] = inside[t] /\ k + 1 # 1
    BY <1>1, <1>2, <1>3
  <2> QED BY <1>1, <2>1 DEF Grown
<1>4. \A u \in Threads \ {t} : \A k \in DOMAIN stack'[u] :
        FrameAndCache(stack'[u][k], cache'[inside'[u]])
  BY <1>1, OthersAndCache
<1> QED BY <1>3, <1>4 DEF FramesAndCache

LEMMA SameReturn ==
  ASSUME RequireInv, SameInv, NEW t \in Threads, Busy(t), NEW value, Return(t, value), Grown(t),
         Top(t).mode = "cached" =>
           /\ FileOf(Top(t)) \in DOMAIN cache'[inside[t]]
           /\ cache'[inside[t]][FileOf(Top(t))].value = value
  PROVE  SameInv'
<1> DEFINE i == inside[t]
           x == [file |-> FileOf(Top(t)), value |-> value]
<1>1. i \in Isolates
  BY TopFacts
<1>2. /\ Leave(t)
      /\ \/ Top(t).mode = "cached" /\ returned' = [returned EXCEPT ![i] = @ \cup {x}]
         \/ UNCHANGED returned
  BY DEF Return
<1>3. FramesAndCache'
  BY <1>2, LeaveAndCache
<1>4. CASE UNCHANGED returned
  BY <1>3, <1>4, StillReturned DEF SameInv
<1>5. CASE Top(t).mode = "cached" /\ returned' = [returned EXCEPT ![i] = @ \cup {x}]
  <2>1. DOMAIN returned = Isolates
    BY DEF SameInv, ReturnedIsCached
  <2>2. x.file = FileOf(Top(t)) /\ x.value = value
    OBVIOUS
  <2> HIDE DEF x, i
  <2>3. ASSUME NEW j \in Isolates, NEW y \in returned[j]
        PROVE  y.file \in DOMAIN cache'[j] /\ cache'[j][y.file].value = y.value
    <3>1. y.file \in DOMAIN cache[j] /\ cache[j][y.file].value = y.value
      BY DEF SameInv, ReturnedIsCached
    <3>2. CASE j = i
      BY <3>1, <3>2 DEF Grown, i
    <3>3. CASE j # i
      BY <3>1, <3>3 DEF Grown, i
    <3> QED BY <3>2, <3>3
  <2>4. /\ DOMAIN returned' = Isolates
        /\ \A j \in Isolates : \A y \in returned'[j] : y \in returned[j] \/ (j = i /\ y = x)
    BY <1>1, <1>5, <2>1
  <2>5. x.file \in DOMAIN cache'[i] /\ cache'[i][x.file].value = x.value
    BY <1>5, <2>2 DEF i
  <2> QED BY <1>3, <2>3, <2>4, <2>5 DEF SameInv, ReturnedIsCached
<1> QED BY <1>2, <1>4, <1>5

\* A module that ended, or JSON that was parsed, is stored: no callback runs then, so
\* that those below are of other modules.
LEMMA StoreGrows ==
  ASSUME RequireInv, SameInv, NEW rank \in [Bases -> Nat], Ordered(rank),
         NEW t \in Threads, Phase(t, "run"), ~InCallback(t), NEW e, e.value = Top(t).value,
         CacheResult(inside[t], FileOf(Top(t)), e)
  PROVE  /\ Grown(t)
         /\ Top(t).mode = "cached" =>
              /\ FileOf(Top(t)) \in DOMAIN cache'[inside[t]]
              /\ cache'[inside[t]][FileOf(Top(t))].value = Top(t).value
<1> DEFINE i == inside[t]
           f == FileOf(Top(t))
           c == [g \in DOMAIN cache[i] \cup {f} |->
                   IF g \in DOMAIN cache[i] THEN cache[i][g] ELSE e]
<1>1. /\ Busy(t) /\ i \in Isolates /\ Top(t) = stack[t][1] /\ 1 \in DOMAIN stack[t]
      /\ Top(t) \in FrameType /\ Searched(Top(t)) /\ Top(t).phase = "run"
      /\ stack[t] \in Seq(FrameType)
  BY TopFacts DEF Phase
<1>2. DOMAIN cache = Isolates /\ cache' = [cache EXCEPT ![i] = c]
  BY DEF CacheResult, RequireInv, CacheOK
<1>3. /\ f \in DOMAIN c /\ DOMAIN c = DOMAIN cache[i] \cup {f}
      /\ \A g \in DOMAIN cache[i] : c[g] = cache[i][g]
      /\ f \notin DOMAIN cache[i] => c[f] = e
  OBVIOUS
<1>4. Top(t).mode = "cached" => f \notin DOMAIN cache[i]
  BY <1>1 DEF SameInv, FramesAndCache, FrameAndCache, NotYetCached
<1> HIDE DEF c
<1>5. /\ DOMAIN cache' = Isolates /\ cache'[i] = c
      /\ \A j \in Isolates \ {i} : cache'[j] = cache[j]
  BY <1>1, <1>2
<1>6. ASSUME NEW k \in DOMAIN stack[t], k # 1
      PROVE  FrameAndCache(stack[t][k], c)
  <2> DEFINE g == stack[t][k]
  <2>1. g \in FrameType /\ Searched(g) /\ FrameAndCache(g, cache[i])
    BY <1>1 DEF SameInv, FramesAndCache, RequireInv, FramesOK
  <2>2. RankOf(Top(t), rank) < RankOf(g, rank)
    BY <1>1, <1>6 DEF Ordered, StackInOrder
  <2>3. RankOf(g, rank) \in Nat /\ RankOf(Top(t), rank) \in Nat
    BY <1>1, <2>1, RankType
  <2>4. g.request.base # Top(t).request.base
    BY <2>2, <2>3 DEF RankOf
  <2>5. g.phase = "run" => FileOf(g) # f
    BY <1>1, <2>1, <2>4, FoundBase
  <2> HIDE DEF g
  <2>6. NotYetCached(g, DOMAIN c)
    BY <1>3, <2>1, <2>5 DEF FrameAndCache, NotYetCached
  <2>7. IsCached(g, c)
    BY <1>3, <2>1 DEF FrameAndCache, IsCached
  <2> QED BY <2>6, <2>7 DEF FrameAndCache, g
<1>7. Top(t).mode = "cached" => f \in DOMAIN c /\ c[f].value = Top(t).value
  BY <1>3, <1>4
<1> QED BY <1>3, <1>5, <1>6, <1>7 DEF Grown

LEMMA SameStart ==
  ASSUME RequireInv, SameInv, NEW rank \in [Bases -> Nat], Ordered(rank),
         NEW t \in Threads, NEW r \in Requests, StartCallback(t, r)
  PROVE  SameInv'
<1> DEFINE top == Top(t)
           todo == <<r>>
           f == [top EXCEPT !.phase = "callback", !.todo = todo]
<1>1. /\ Busy(t) /\ Phase(t, "run") /\ Update(t, f) /\ ~InCallback(t)
      /\ CacheResult(inside[t], FileOf(top), Entry(top.value, top.time))
      /\ UNCHANGED <<returned, inside>>
  BY DEF StartCallback, StoreModule, Phase, MutexFree
<1>2. top \in FrameType
  BY <1>1, TopFacts
<1>3. Entry(top.value, top.time).value = top.value
  BY DEF Entry
<1>4. /\ Grown(t)
      /\ top.mode = "cached" =>
           /\ FileOf(top) \in DOMAIN cache'[inside[t]]
           /\ cache'[inside[t]][FileOf(top)].value = top.value
  BY <1>1, <1>3, StoreGrows
<1>5. todo \in Seq(Requests)
  OBVIOUS
<1> HIDE DEF top, todo
<1>6. /\ f \in FrameType /\ f.request = top.request /\ f.at = top.at
      /\ f.phase = "callback" /\ f.mode = top.mode /\ f.value = top.value
  BY <1>2, <1>5, FrameChanges DEF FrameType
<1> HIDE DEF f
<1>7. FrameAndCache(f, cache'[inside[t]])
  BY <1>4, <1>6 DEF FrameAndCache, NotYetCached, IsCached, FileOf
<1> QED BY <1>1, <1>4, <1>6, <1>7, SameAdvance

\* The innermost call, as a step leaves it when it stores nothing and does not end.
LEMMA SameGoesOn ==
  ASSUME RequireInv, SameInv, NEW t \in Threads,
         Probe(t) \/ Read(t) \/ SkipImport(t) \/ Run(t)
  PROVE  SameInv'
<1> DEFINE top == Top(t)
           c == cache[inside[t]]
<1>1. /\ Busy(t) /\ top \in FrameType /\ Grown(t)
      /\ UNCHANGED <<cache, returned, inside>>
  BY TopFacts, NotGrown DEF Probe, Read, SkipImport, Run, Phase, diskVars, isolateVars
<1>2. FrameAndCache(top, c)
  BY <1>1, TopFacts DEF SameInv, FramesAndCache
<1>3. /\ files \in [Files -> 0..MaxClock] /\ runs \in Nat
  BY DEF RequireInv, Typed
<1>4. \A f \in FrameType : Update(t, f) /\ FrameAndCache(f, c) => SameInv'
  BY <1>1, SameAdvance
<1>5. \A f \in FrameType : Update(t, f) /\ f.phase \notin {"run", "callback"} => SameInv'
  BY <1>4 DEF FrameAndCache, NotYetCached, IsCached
<1> HIDE DEF c
<1>6. CASE Probe(t)
  <2>1. /\ top.phase = "search"
        /\ \/ Update(t, [top EXCEPT !.at = @ + 1])
           \/ Update(t, [top EXCEPT !.phase = "read", !.time = files[FileOf(top)]])
    BY <1>6 DEF Probe, Phase
  <2>2. top.at \in 1..Last
    BY <1>1, <1>6, TopFacts DEF Probe, Candidates, Last, FrameType
  <2>3. FileOf(top) \in Files
    BY <1>1, <2>2, CandidateIsFile DEF FileOf, FrameType
  <2>4. top.at + 1 \in Nat \ {0} /\ files[FileOf(top)] \in Nat
    BY <1>1, <1>3, <2>3 DEF FrameType
  <2> HIDE DEF top
  <2>5. \A at \in Nat \ {0} :
          [top EXCEPT !.at = at] \in FrameType /\ [top EXCEPT !.at = at].phase = top.phase
    BY <1>1 DEF FrameType
  <2>6. \A time \in Nat :
          /\ [top EXCEPT !.phase = "read", !.time = time] \in FrameType
          /\ [top EXCEPT !.phase = "read", !.time = time].phase = "read"
    BY <1>1 DEF FrameType
  <2> QED BY <1>5, <2>1, <2>4, <2>5, <2>6
<1>7. CASE Read(t)
  <2> DEFINE f == [top EXCEPT !.phase = "lookup"]
  <2>1. Update(t, f)
    BY <1>7 DEF Read
  <2>2. f \in FrameType /\ f.phase = "lookup"
    BY <1>1 DEF FrameType
  <2> QED BY <1>5, <2>1, <2>2
<1>8. CASE SkipImport(t)
  <2> DEFINE todo == Tail(top.todo)
             f == [top EXCEPT !.todo = todo]
  <2>1. Update(t, f) /\ top.todo # <<>>
    BY <1>8 DEF SkipImport
  <2>2. todo \in Seq(Requests)
    BY <1>1, <2>1, HeadTailProperties DEF FrameType
  <2> HIDE DEF top, todo
  <2>3. /\ f \in FrameType /\ f.request = top.request /\ f.at = top.at
        /\ f.phase = top.phase /\ f.mode = top.mode /\ f.value = top.value
    BY <1>1, <2>2 DEF FrameType
  <2> HIDE DEF f
  <2>4. FrameAndCache(f, c)
    BY <1>2, <2>3 DEF FrameAndCache, NotYetCached, IsCached, FileOf
  <2> QED BY <1>4, <2>1, <2>3, <2>4 DEF f
<1>9. CASE Run(t)
  <2> DEFINE todo == IF IsJson(top) THEN <<>> ELSE Imports[top.request.base]
             value == runs + 1
             f == [top EXCEPT !.phase = "run", !.value = value, !.todo = todo]
  <2>1. Update(t, f) /\ ~Cached(t)
    BY <1>9 DEF Run
  <2>2. value \in Nat /\ todo \in Seq(Requests)
    BY <1>1, <1>3 DEF FrameType
  <2>3. top.mode = "cached" => FileOf(top) \notin DOMAIN c
    BY <2>1 DEF Cached, c
  <2> HIDE DEF top, todo, value
  <2>4. /\ f \in FrameType /\ f.request = top.request /\ f.at = top.at /\ f.mode = top.mode
        /\ f.phase = "run"
    BY <1>1, <2>2 DEF FrameType
  <2> HIDE DEF f
  <2>5. FrameAndCache(f, c)
    BY <2>3, <2>4 DEF FrameAndCache, NotYetCached, IsCached, FileOf
  <2> QED BY <1>4, <2>1, <2>4, <2>5 DEF f
<1> QED BY <1>6, <1>7, <1>8, <1>9

LEMMA SameEnds ==
  ASSUME RequireInv, SameInv, NEW rank \in [Bases -> Nat], Ordered(rank),
         NEW t \in Threads, Ends(t)
  PROVE  SameInv'
<1>0. Busy(t) /\ Leave(t)
  BY EndsFacts
<1>1. CASE NotFound(t) \/ Throw(t)
  <2>1. UNCHANGED <<cache, returned>>
    BY <1>1 DEF NotFound, Throw, isolateVars
  <2>2. Grown(t)
    BY <2>1, NotGrown
  <2> QED BY <1>0, <2>1, <2>2, LeaveAndCache, StillReturned DEF SameInv
<1>2. CASE ReturnCached(t)
  <2>1. /\ UNCHANGED cache /\ FileOf(Top(t)) \in DOMAIN cache[inside[t]]
        /\ Return(t, cache[inside[t]][FileOf(Top(t))].value)
    BY <1>2 DEF ReturnCached, Cached
  <2> QED BY <1>0, <2>1, NotGrown, SameReturn
<1>3. CASE FinishModule(t)
  <2>1. /\ Phase(t, "run") /\ ~InCallback(t) /\ Return(t, Top(t).value)
        /\ CacheResult(inside[t], FileOf(Top(t)), Entry(Top(t).value, Top(t).time))
        /\ Entry(Top(t).value, Top(t).time).value = Top(t).value
    BY <1>3 DEF FinishModule, StoreModule, MutexFree, Entry
  <2> QED BY <1>0, <2>1, StoreGrows, SameReturn
<1>4. CASE FinishCallback(t)
  <2>1. UNCHANGED cache /\ Return(t, Top(t).value) /\ Top(t).phase = "callback"
    BY <1>4 DEF FinishCallback, Phase
  <2>2. IsCached(Top(t), cache[inside[t]])
    BY <1>0, TopFacts DEF SameInv, FramesAndCache, FrameAndCache
  <2> QED BY <1>0, <2>1, <2>2, NotGrown, SameReturn DEF IsCached
<1>5. CASE FinishJson(t)
  <2>1. /\ Phase(t, "run") /\ Return(t, Top(t).value)
        /\ Entry(Top(t).value, clock).value = Top(t).value
    BY <1>5 DEF FinishJson, Entry
  <2>2. CASE ~InCallback(t) /\ CacheResult(inside[t], FileOf(Top(t)), Entry(Top(t).value, clock))
    BY <1>0, <2>1, <2>2, StoreGrows, SameReturn
  <2>3. CASE Top(t).mode = "uncached" /\ UNCHANGED cache
    BY <1>0, <2>1, <2>3, NotGrown, SameReturn
  <2> QED BY <1>5, <2>2, <2>3 DEF FinishJson, MutexFree
<1> QED BY <1>1, <1>2, <1>3, <1>4, <1>5 DEF Ends

LEMMA SameStep ==
  ASSUME RequireInv, SameInv, NEW rank \in [Bases -> Nat], Ordered(rank), [Next]_vars
  PROVE  SameInv'
<1>0. /\ stack \in [Threads -> Seq(FrameType)]
      /\ inside \in [Threads -> Isolates \cup {NoIsolate}] /\ DOMAIN cache = Isolates
      /\ DOMAIN returned = Isolates
  BY DEF RequireInv, Typed, CacheOK, SameInv, ReturnedIsCached
<1>1. ASSUME NEW t \in Threads, NEW m \in Modes \cup {"cached"}, Import(t, m) PROVE SameInv'
  <2>1. PICK f \in FrameType, caller \in FrameType : Pushed(t, f, caller)
    BY <1>1, PushFacts
  <2>2. /\ Busy(t) /\ Top(t) = stack[t][1] /\ 1 \in DOMAIN stack[t]
        /\ UNCHANGED <<cache, returned, inside>>
    BY <1>1, TopFacts DEF Import, Phase, isolateVars
  <2>3. \A k \in DOMAIN stack[t] : FrameAndCache(stack[t][k], cache[inside[t]])
    BY DEF SameInv, FramesAndCache
  <2>4. FrameAndCache(f, cache[inside[t]]) /\ FrameAndCache(caller, cache[inside[t]])
    <3>1. FrameAndCache(f, cache[inside[t]])
      BY <2>1 DEF Pushed, FrameAndCache, NotYetCached, IsCached
    <3>2. FrameAndCache(Top(t), cache[inside[t]])
      BY <2>2, <2>3
    <3>3. FrameAndCache(caller, cache[inside[t]])
      BY <2>1, <3>2 DEF Pushed, FrameAndCache, NotYetCached, IsCached, FileOf
    <3> QED BY <3>1, <3>3
  <2>5. \A k \in DOMAIN stack'[t] : FrameAndCache(stack'[t][k], cache[inside[t]])
    BY <2>1, <2>3, <2>4 DEF Pushed
  <2>6. \A u \in Threads \ {t} : stack'[u] = stack[u]
    BY <2>1 DEF Pushed
  <2>7. FramesAndCache'
    BY <2>2, <2>5, <2>6 DEF SameInv, FramesAndCache
  <2> QED BY <2>2, <2>7 DEF SameInv, ReturnedIsCached
<1>2. ASSUME NEW t \in Threads, NEW i \in Isolates, NEW r \in Requests, NEW m \in Modes,
             Enter(t, i, r, m)
      PROVE  SameInv'
  <2>1. /\ stack'[t] = <<Frame(r, m)>> /\ UNCHANGED <<cache, returned>>
        /\ \A u \in Threads \ {t} : stack'[u] = stack[u] /\ inside'[u] = inside[u]
    BY <1>0, <1>2 DEF Enter, isolateVars
  <2>2. \A c : FrameAndCache(Frame(r, m), c)
    BY DEF FrameAndCache, NotYetCached, IsCached, Frame
  <2>3. FramesAndCache'
    BY <2>1, <2>2 DEF SameInv, FramesAndCache
  <2> QED BY <2>1, <2>3 DEF SameInv, ReturnedIsCached
<1>3. ASSUME NEW i \in Isolates, ReplaceIsolate(i) PROVE SameInv'
  <2>1. /\ \A t \in Threads : inside[t] # i
        /\ cache' = [cache EXCEPT ![i] = <<>>] /\ returned' = [returned EXCEPT ![i] = {}]
        /\ UNCHANGED <<inside, stack>>
    BY <1>3 DEF ReplaceIsolate, DeleteRequireCacheForIsolate
  <2>2. /\ DOMAIN returned' = Isolates /\ returned'[i] = {}
        /\ \A j \in Isolates \ {i} : cache'[j] = cache[j] /\ returned'[j] = returned[j]
    BY <1>0, <2>1
  <2>3. ReturnedIsCached'
    BY <2>2 DEF SameInv, ReturnedIsCached
  <2>4. ASSUME NEW t \in Threads, NEW k \in DOMAIN stack[t]
        PROVE  FrameAndCache(stack[t][k], cache'[inside[t]])
    <3>1. stack[t] # <<>>
      BY <2>4
    <3>2. inside[t] \in Isolates \ {i}
      BY <1>0, <2>1, <3>1 DEF RequireInv, Locked, Busy
    <3> QED BY <2>2, <3>2 DEF SameInv, FramesAndCache
  <2> QED BY <2>1, <2>3, <2>4 DEF SameInv, FramesAndCache
<1>4. ASSUME \/ Tick \/ UNCHANGED vars
             \/ \E f \in Files : Create(f) \/ Remove(f) \/ \E cut \in SUBSET Threads : Edit(f, cut)
      PROVE  UNCHANGED <<cache, returned, inside, stack>>
  BY <1>4 DEF Tick, Create, Remove, Edit, vars, isolateVars
<1>5. UNCHANGED <<cache, returned, inside, stack>> => SameInv'
  BY DEF SameInv, ReturnedIsCached, FramesAndCache
<1> QED
  BY <1>1, <1>2, <1>3, <1>4, <1>5, SameGoesOn, SameEnds, SameStart DEF Next, GoOn, Ends

\* The requires of an isolate that do not look at modification times agree on what a
\* file gives, however they nest, where no modules require each other in a circle.
THEOREM SameValue == NoCircle => (Spec => []SameValueEveryTime)
<1> SUFFICES ASSUME NEW rank \in [Bases -> Nat], InOrder(rank)
             PROVE  Spec => []SameValueEveryTime
  BY DEF NoCircle
<1>1. Init => Ordered(rank) /\ SameInv
  BY DEF Init, Ordered, StackInOrder, SameInv, ReturnedIsCached, FramesAndCache
<1>2. RequireInv /\ Ordered(rank) /\ SameInv /\ [Next]_vars => Ordered(rank)' /\ SameInv'
  BY OrderStep, SameStep
<1>3. SameInv => SameValueEveryTime
  BY DEF SameInv, ReturnedIsCached, SameValueEveryTime
<1> QED BY <1>1, <1>2, <1>3, InvInit, InvStep, PTL DEF Spec

===============================================================================
