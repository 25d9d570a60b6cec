------------------------------ MODULE RequireCache ------------------------------
(***************************************************************************)
(* require() of v8toolkit (src/src/v8toolkit.cpp): the search for a file,  *)
(* the results cached for each isolate, and the modules that require       *)
(* others while they run.                                                  *)
(*                                                                         *)
(* Threads call require on isolates; the v8::Locker keeps a second thread  *)
(* out of an isolate until the outermost call of the first has returned.   *)
(* Files appear, change and go at any time.  The cache is read and written *)
(* under require_results_mutex; between the two the module runs, and its   *)
(* own calls of require are frames on top of it.  The callback that C++    *)
(* may give to require is called with the mutex held.                      *)
(***************************************************************************)
EXTENDS Naturals, Sequences, FiniteSets

CONSTANTS Threads,
          Isolates,  \* addresses of isolates; reused once disposed
          NoIsolate, \* the isolate of a thread that is in none
          Paths,     \* the search paths, a sequence
          Requests,  \* what is asked for: a base name and an extension
          Disk,      \* the complete names that may be on the disk
          Modes,     \* how C++ calls require, a subset of AllModes
          Imports,   \* what the module of each base name may require, in order
          MaxDepth,  \* nested requires that exhaust the stack
          MaxRuns,   \* bound: modules run before new calls stop
          MaxClock   \* bound: seconds

\* "cached" is the default and what JavaScript's require uses; "tracked" looks at
\* modification times; "uncached" is use_cache = false.
AllModes == {"cached", "tracked", "uncached"}

ASSUME RequireAssumption ==
  /\ NoIsolate \notin Isolates
  /\ Paths \in Seq({Paths[p] : p \in DOMAIN Paths})
  /\ \A r \in Requests : Imports[r.base] \in Seq(Requests)
  /\ Modes \subseteq AllModes
  /\ MaxDepth \in Nat \ {0}
  /\ MaxRuns \in Nat
  /\ MaxClock \in Nat \ {0}

VARIABLES
  files,    \* modification time of each complete file name, 0 if there is no file
  clock,    \* time(nullptr)
  cache,    \* require_results: for each isolate, the results by file name
  born,     \* number of modules that had run when the isolate was created
  inside,   \* the isolate each thread has locked
  stack,    \* nested calls of require of each thread, innermost first
  short,    \* threads that read a file which has become shorter than fstat said
  runs,     \* number of modules run; a result is known by its number
  returned, \* history: what "cached" requires returned in each isolate
  kept      \* history: candidates that have been there since a thread's search began

diskVars == <<files, clock>>
isolateVars == <<cache, born, returned>>
searchVars == <<short, kept>>
vars == <<files, clock, cache, born, inside, stack, short, runs, returned, kept>>

-------------------------------------------------------------------------------
(* Names.  The extensions of a name are kept as a sequence.                *)

Suffixes == << <<>>, <<"js">>, <<"json">> >>

File(path, r, suffix) == [path |-> path, base |-> r.base, ext |-> r.ext \o suffix]

Files == {File(Paths[p], r, Suffixes[s]) :
            p \in DOMAIN Paths, r \in Requests, s \in DOMAIN Suffixes}

\* Mutant: the loops over paths and suffixes nested the other way round.
CandidatesByPath(r) ==
  [k \in 1..(Len(Suffixes) * Len(Paths)) |->
     File(Paths[((k - 1) \div Len(Suffixes)) + 1], r,
          Suffixes[((k - 1) % Len(Suffixes)) + 1])]

\* The files require looks for, in order: each suffix, in each path.
Candidates(r) ==
  [k \in 1..(Len(Suffixes) * Len(Paths)) |->
     File(Paths[((k - 1) % Len(Paths)) + 1], r,
          Suffixes[((k - 1) \div Len(Paths)) + 1])]

EndsInJson(ext) == ext # <<>> /\ ext[Len(ext)] = "json"

\* The regular expression is applied to the name asked for.
IsJson(frame) == EndsInJson(frame.request.ext)

-------------------------------------------------------------------------------
(* Frames.                                                                 *)

Frame(r, m) ==
  [request |-> r, mode |-> m, at |-> 1, phase |-> "search",
   time |-> 0, value |-> 0, todo |-> <<>>]

Busy(t) == stack[t] # <<>>
Top(t) == Head(stack[t])
Phase(t, p) == Busy(t) /\ Top(t).phase = p
FileOf(frame) == Candidates(frame.request)[frame.at]

\* require_results_mutex is held while a callback runs.  Only C++ gives require a
\* callback, so that it is the outermost call that has one.
InCallback(t) == Busy(t) /\ stack[t][Len(stack[t])].phase = "callback"
MutexFree == \A t \in Threads : ~InCallback(t)

\* get_file_contents of these threads reads f.
Readers(f) == {t \in Threads : Phase(t, "read") /\ FileOf(Top(t)) = f}

\* The files that a search for r looks for and that are on the disk.
There(r) == {f \in {Candidates(r)[k] : k \in DOMAIN Candidates(r)} : files[f] # 0}

Update(t, frame) == stack' = [stack EXCEPT ![t] = <<frame>> \o Tail(@)]

\* The innermost call ends; with the outermost one the Locker goes.
Leave(t) ==
  /\ stack' = [stack EXCEPT ![t] = Tail(@)]
  /\ inside' = IF Len(stack[t]) = 1 THEN [inside EXCEPT ![t] = NoIsolate] ELSE inside

\* require returns true with this result.
Return(t, value) ==
  /\ Leave(t)
  /\ returned' = IF Top(t).mode = "cached"
                 THEN [returned EXCEPT ![inside[t]] =
                         @ \cup {[file |-> FileOf(Top(t)), value |-> value]}]
                 ELSE returned

Init ==
  /\ \E present \in SUBSET Disk :
       files = [f \in Files |-> IF f \in present THEN 1 ELSE 0]
  /\ clock = 1
  /\ cache = [i \in Isolates |-> <<>>]
  /\ born = [i \in Isolates |-> 0]
  /\ inside = [t \in Threads |-> NoIsolate]
  /\ stack = [t \in Threads |-> <<>>]
  /\ short = {}
  /\ kept = [t \in Threads |-> {}]
  /\ runs = 0
  /\ returned = [i \in Isolates |-> {}]

-------------------------------------------------------------------------------
(* The disk.                                                               *)

Tick ==
  /\ clock < MaxClock
  /\ clock' = clock + 1
  /\ UNCHANGED <<files, isolateVars, searchVars, inside, stack, runs>>

\* A file is written in place, and may be too short from then on for some of those
\* that read it.  (One that grows again only makes its readers late.)
Edit(f, cut) ==
  /\ files[f] # 0
  /\ cut \subseteq Readers(f)
  /\ files' = [files EXCEPT ![f] = clock]
  /\ short' = short \cup cut
  /\ UNCHANGED <<clock, isolateVars, kept, inside, stack, runs>>

Create(f) ==
  /\ files[f] = 0
  /\ files' = [files EXCEPT ![f] = clock]
  /\ UNCHANGED <<clock, isolateVars, searchVars, inside, stack, runs>>

\* Whoever has the file open can still read it.  (An Edit of a new file by that name
\* may cut these readers too, which only adds behaviours.)
Remove(f) ==
  /\ files[f] # 0
  /\ files' = [files EXCEPT ![f] = 0]
  /\ kept' = [t \in Threads |-> kept[t] \ {f}]
  /\ UNCHANGED <<clock, isolateVars, short, inside, stack, runs>>

-------------------------------------------------------------------------------
(* require                                                                 *)

\* v8::Locker: no other thread is in the isolate.
MayEnter(t, i) ==
  /\ ~Busy(t)
  /\ \A u \in Threads : inside[u] # i

\* C++ calls require.
Enter(t, i, r, m) ==
  /\ MayEnter(t, i)
  /\ runs < MaxRuns
  /\ inside' = [inside EXCEPT ![t] = i]
  /\ stack' = [stack EXCEPT ![t] = <<Frame(r, m)>>]
  /\ kept' = [kept EXCEPT ![t] = There(r)]
  /\ UNCHANGED <<diskVars, isolateVars, short, runs>>

\* Mutant: the modification time is not passed on.
ProbeForgettingTime(t) ==
  /\ Phase(t, "search")
  /\ Top(t).at \in DOMAIN Candidates(Top(t).request)
  /\ Update(t, IF files[FileOf(Top(t))] = 0
               THEN [Top(t) EXCEPT !.at = @ + 1]
               ELSE [Top(t) EXCEPT !.phase = "read"])
  /\ UNCHANGED <<diskVars, isolateVars, searchVars, inside, runs>>


\* get_file_contents of the next candidate: open and fstat.
Probe(t) ==
  /\ Phase(t, "search")
  /\ Top(t).at \in DOMAIN Candidates(Top(t).request)
  /\ LET time == files[FileOf(Top(t))] IN
       Update(t, IF time = 0
                 THEN [Top(t) EXCEPT !.at = @ + 1]
                 ELSE [Top(t) EXCEPT !.phase = "read", !.time = time])
  /\ UNCHANGED <<diskVars, isolateVars, searchVars, inside, runs>>

\* get_file_contents reads as many bytes as fstat said.  While the file has fewer,
\* read returns 0 and the loop goes round.
Read(t) ==
  /\ Phase(t, "read")
  /\ t \notin short
  /\ Update(t, [Top(t) EXCEPT !.phase = "lookup"])
  /\ kept' = [kept EXCEPT ![t] = {}]
  /\ UNCHANGED <<diskVars, isolateVars, short, inside, runs>>

\* "No such module found in any search path"
NotFound(t) ==
  /\ Phase(t, "search")
  /\ Top(t).at \notin DOMAIN Candidates(Top(t).request)
  /\ Leave(t)
  /\ kept' = [kept EXCEPT ![t] = {}]
  /\ UNCHANGED <<diskVars, isolateVars, short, runs>>

\* Mutant: whoever asks, a file that has changed is run again.
CachedUnchanged(t) ==
  /\ Top(t).mode # "uncached"
  /\ FileOf(Top(t)) \in DOMAIN cache[inside[t]]
  /\ Top(t).time = cache[inside[t]][FileOf(Top(t))].time

\* The cached result is good for this call.
Cached(t) ==
  /\ Top(t).mode # "uncached"
  /\ FileOf(Top(t)) \in DOMAIN cache[inside[t]]
  /\ \/ Top(t).mode = "cached"
     \/ Top(t).time = cache[inside[t]][FileOf(Top(t))].time

ReturnCached(t) ==
  /\ Phase(t, "lookup")
  /\ MutexFree
  /\ Cached(t)
  /\ Return(t, cache[inside[t]][FileOf(Top(t))].value)
  /\ UNCHANGED <<diskVars, searchVars, cache, born, runs>>

\* The module is compiled and starts to run, or the JSON is parsed.
Run(t) ==
  /\ Phase(t, "lookup")
  /\ MutexFree \/ Top(t).mode = "uncached"
  /\ ~Cached(t)
  /\ runs' = runs + 1
  /\ Update(t, [Top(t) EXCEPT
                  !.phase = "run",
                  !.value = runs + 1,
                  !.todo = IF IsJson(Top(t)) THEN <<>> ELSE Imports[Top(t).request.base]])
  /\ UNCHANGED <<diskVars, isolateVars, searchVars, inside>>

\* What runs comes to its next require and calls it: JavaScript's require, or that of
\* C++ in a callback.  A call nested too deep exhausts the stack: it throws instead
\* (Throw).
Import(t, m) ==
  /\ \/ Phase(t, "run") /\ m = "cached"
     \/ Phase(t, "callback")
  /\ Top(t).todo # <<>>
  /\ LET caller == [Top(t) EXCEPT !.todo = Tail(@)] IN
       stack' = [stack EXCEPT ![t] =
                   <<Frame(Head(Top(t).todo), m), caller>> \o Tail(@)]
  /\ Len(stack[t]) < MaxDepth
  /\ kept' = [kept EXCEPT ![t] = There(Head(Top(t).todo))]
  /\ UNCHANGED <<diskVars, isolateVars, short, inside, runs>>

\* It goes another way.
SkipImport(t) ==
  /\ Phase(t, "run") \/ Phase(t, "callback")
  /\ Top(t).todo # <<>>
  /\ Update(t, [Top(t) EXCEPT !.todo = Tail(@)])
  /\ UNCHANGED <<diskVars, isolateVars, searchVars, inside, runs>>

\* The file does not compile or parse, or the module or the callback throws, be it
\* what a require of its own threw.  What ran is not cached, what was cached stays.
Throw(t) ==
  /\ Phase(t, "run") \/ Phase(t, "callback")
  /\ Leave(t)
  /\ UNCHANGED <<diskVars, isolateVars, searchVars, runs>>

Entry(value, time) == [value |-> value, time |-> time]

\* emplace: an entry that is there stays.
CacheResult(i, f, entry) ==
  cache' = [cache EXCEPT ![i] =
              [g \in DOMAIN @ \cup {f} |-> IF g \in DOMAIN @ THEN @[g] ELSE entry]]

\* A module has run to its end: its result is stored under the mutex.
StoreModule(t) ==
  /\ Phase(t, "run")
  /\ ~IsJson(Top(t))
  /\ Top(t).todo = <<>>
  /\ MutexFree
  /\ CacheResult(inside[t], FileOf(Top(t)), Entry(Top(t).value, Top(t).time))
  /\ UNCHANGED <<diskVars, searchVars, born, runs>>

\* There is no callback.
FinishModule(t) ==
  /\ StoreModule(t)
  /\ Return(t, Top(t).value)

\* There is one, which may require r, and the mutex stays locked.
StartCallback(t, r) ==
  /\ StoreModule(t)
  /\ Len(stack[t]) = 1
  /\ Update(t, [Top(t) EXCEPT !.phase = "callback", !.todo = <<r>>])
  /\ UNCHANGED <<returned, inside>>

FinishCallback(t) ==
  /\ Phase(t, "callback")
  /\ Top(t).todo = <<>>
  /\ Return(t, Top(t).value)
  /\ UNCHANGED <<diskVars, searchVars, cache, born, runs>>

\* A JSON file has been parsed: it is cached with the time of now.
FinishJson(t) ==
  /\ Phase(t, "run")
  /\ IsJson(Top(t))
  /\ \/ Top(t).mode = "uncached" /\ UNCHANGED cache
     \/ /\ Top(t).mode # "uncached" /\ MutexFree
        /\ CacheResult(inside[t], FileOf(Top(t)), Entry(Top(t).value, clock))
  /\ Return(t, Top(t).value)
  /\ UNCHANGED <<diskVars, searchVars, born, runs>>

-------------------------------------------------------------------------------
\* Mutant: the cache of a disposed isolate stays.
KeepRequireCache(i) == UNCHANGED cache

DeleteRequireCacheForIsolate(i) == cache' = [cache EXCEPT ![i] = <<>>]

\* ~Isolate, and the next isolate gets the same address.
ReplaceIsolate(i) ==
  /\ \A t \in Threads : inside[t] # i
  /\ MutexFree
  /\ born[i] # runs
  /\ DeleteRequireCacheForIsolate(i)
  /\ born' = [born EXCEPT ![i] = runs]
  /\ returned' = [returned EXCEPT ![i] = {}]
  /\ UNCHANGED <<diskVars, searchVars, inside, stack, runs>>

-------------------------------------------------------------------------------
\* What a thread inside require does next, unless it throws.
GoOn(t) ==
  \/ Probe(t)
  \/ Read(t)
  \/ NotFound(t)
  \/ ReturnCached(t)
  \/ Run(t)
  \/ \E m \in Modes \cup {"cached"} : Import(t, m)
  \/ SkipImport(t)
  \/ FinishModule(t)
  \/ \E r \in Requests : StartCallback(t, r)
  \/ FinishCallback(t)
  \/ FinishJson(t)

Next ==
  \/ Tick
  \/ \E f \in Files \cap Disk :
       \/ \E cut \in SUBSET Threads : Edit(f, cut)
       \/ Create(f)
       \/ Remove(f)
  \/ \E t \in Threads :
       \/ \E i \in Isolates, r \in Requests, m \in Modes : Enter(t, i, r, m)
       \/ GoOn(t)
       \/ Throw(t)
  \/ \E i \in Isolates : ReplaceIsolate(i)

Spec == Init /\ [][Next]_vars

\* A thread that is inside require goes on if it can.
FairSpec == Spec /\ \A t \in Threads : WF_vars(GoOn(t))

-------------------------------------------------------------------------------
TypeOK ==
  /\ files \in [Files -> 0..MaxClock]
  /\ clock \in 1..MaxClock
  /\ \A i \in Isolates :
       /\ DOMAIN cache[i] \subseteq Files
       /\ \A f \in DOMAIN cache[i] :
            cache[i][f].value \in 1..runs /\ cache[i][f].time \in 1..clock
  /\ inside \in [Threads -> Isolates \cup {NoIsolate}]
  /\ \A t \in Threads : Len(stack[t]) <= MaxDepth
  /\ short \subseteq {t \in Threads : Phase(t, "read")}
  /\ runs \in Nat

\* "if the same module is required again, the cached value will be returned": the
\* requires that do not look at modification times agree on the result of a file.
SameValueEveryTime ==
  \A i \in Isolates : \A x, y \in returned[i] :
    x.file = y.file => x.value = y.value

\* "exact match filename in each path, then <filename>.js in each path, then
\* <filename>.json in each path", on a disk that changes meanwhile: what the search
\* settles on comes, in that order, before every file that was there all the time, and
\* it gives up only if no file was.
FoundFirst(r, f, there) ==
  \E s \in DOMAIN Suffixes, p \in DOMAIN Paths :
    /\ f = File(Paths[p], r, Suffixes[s])
    /\ \A s2 \in 1..(s - 1), p2 \in DOMAIN Paths :
         File(Paths[p2], r, Suffixes[s2]) \notin there
    /\ \A p2 \in 1..(p - 1) : File(Paths[p2], r, Suffixes[s]) \notin there
NoneFound(r, there) ==
  \A s \in DOMAIN Suffixes, p \in DOMAIN Paths : File(Paths[p], r, Suffixes[s]) \notin there
DocumentedSearchOrder ==
  \A t \in Threads :
    /\ Phase(t, "read") => FoundFirst(Top(t).request, FileOf(Top(t)), kept[t])
    /\ Phase(t, "search") /\ Top(t).at \notin DOMAIN Candidates(Top(t).request)
         => NoneFound(Top(t).request, kept[t])

\* An isolate never sees a result of the isolate that had its address before.
ResultsOfThisIsolate ==
  \A i \in Isolates : \A f \in DOMAIN cache[i] : cache[i][f].value > born[i]

\* The thread wants the mutex that it has locked itself.
NeedsMutex(t) ==
  \/ Phase(t, "lookup") /\ Top(t).mode # "uncached"
  \/ Phase(t, "run") /\ Top(t).todo = <<>> /\ ~(IsJson(Top(t)) /\ Top(t).mode = "uncached")
HoldsOn(t) == InCallback(t) /\ (NeedsMutex(t) \/ t \in short)


===============================================================================
