---------------------------- MODULE IsolateLifetime ----------------------------
(***************************************************************************)
(* Isolates, contexts and scripts of v8toolkit (src/src/javascript.cpp and *)
(* src/include/v8toolkit/javascript.h), the threads that run scripts, and  *)
(* the order in which all of it is destroyed.                              *)
(*                                                                         *)
(* A Script holds a shared_ptr to its Context and a Context one to its     *)
(* Isolate; a thread that runs a script holds the Script.  Whoever gives   *)
(* up the last shared_ptr runs the destructors, one member after the       *)
(* other, while other threads go on: `pending' holds what the destructors  *)
(* a thread is in have still to do.                                        *)
(*                                                                         *)
(* One application thread uses the interface; jobs are the threads that    *)
(* run_thread, run_detached and run_async start.  A script that throws in  *)
(* a thread of run_thread takes the process down.  Every isolate has a     *)
(* number of its own, while its address is reused.                         *)
(***************************************************************************)
EXTENDS Naturals, Sequences, FiniteSets

CONSTANTS Isolates,  \* addresses of isolates
          Contexts,
          Scripts,
          Jobs,
          App,       \* the application thread
          NoThread,
          Nothing,   \* what an isolate is created from, the script of an idle job
          MaxCreated \* bound: isolates created

ASSUME LifetimeAssumption ==
  /\ App \notin Jobs
  /\ NoThread \notin Jobs \cup {App}
  /\ Nothing \notin Isolates \cup Contexts \cup Scripts
  /\ Isolates \cap Contexts = {} /\ Isolates \cap Scripts = {} /\ Contexts \cap Scripts = {}
  /\ Jobs \cap (Isolates \cup Contexts \cup Scripts) = {}
  /\ MaxCreated \in Nat

VARIABLES
  gen,        \* number of the isolate at each address, 0 if there is none
  created,    \* number of isolates created
  refs,       \* the count of the shared_ptrs to each isolate, context and script
  parent,     \* Context::isolate_helper and Script::context_helper
  home,       \* number of the isolate of each v8::Global, 0 if it is empty
  registered, \* what the maps keyed by isolate address hold: the isolate's number
  app,        \* what the application has a shared_ptr to
  job,        \* what each job does and which script it runs
  holder,     \* the thread that holds the v8::Locker of each isolate
  pending     \* what is left to do of the destructors each thread is in

vars == <<gen, created, refs, parent, home, registered, app, job, holder, pending>>
isolateVars == <<gen, created, registered>>

-------------------------------------------------------------------------------
Threads == Jobs \cup {App}
Entities == Isolates \cup Contexts \cup Scripts

\* The v8::Globals: of an isolate its global_object_template, of a context and a
\* script what they wrap, of a job the value in the future of run_async, or the one
\* in the V8Exception there.
Globals == Entities \cup Jobs

JobStates == {"idle", "queued thread", "queued async",
              "running thread", "running async", "ready", "failed", "terminated"}
Queued(j) == job[j].state \in {"queued thread", "queued async"}
Running(j) == job[j].state \in {"running thread", "running async"}

IsolateOf(e) ==
  IF e \in Isolates THEN e
  ELSE IF e \in Contexts THEN parent[e]
  ELSE parent[parent[e]]

Unused(e) == refs[e] = 0 /\ home[e] = 0

\* std::terminate has not been called.
Alive == \A j \in Jobs : job[j].state # "terminated"

\* The application may call: it is not inside a destructor.
AppIdle == Alive /\ pending[App] = <<>>

\* A v8::Locker on isolate i lets thread t in.
LockerFree(t, i) == holder[i] \in {NoThread, t}

Reset(g) == [op |-> "reset", of |-> g]
Unref(e) == [op |-> "unref", of |-> e]
Cleanup(i) == [op |-> "cleanup", of |-> i]
Dispose(i) == [op |-> "dispose", of |-> i]

Init ==
  /\ gen = [i \in Isolates |-> 0]
  /\ created = 0
  /\ refs = [e \in Entities |-> 0]
  /\ parent = [e \in Entities |-> Nothing]
  /\ home = [g \in Globals |-> 0]
  /\ registered = [i \in Isolates |-> 0]
  /\ app = {}
  /\ job = [j \in Jobs |-> [state |-> "idle", script |-> Nothing]]
  /\ holder = [i \in Isolates |-> NoThread]
  /\ pending = [t \in Threads |-> <<>>]

-------------------------------------------------------------------------------
(* The application.                                                        *)

\* Platform::create_isolate: V8 picks a free address.
CreateIsolate(i) ==
  /\ AppIdle
  /\ created < MaxCreated
  /\ gen[i] = 0
  /\ created' = created + 1
  /\ gen' = [gen EXCEPT ![i] = created + 1]
  /\ refs' = [refs EXCEPT ![i] = 1]
  /\ home' = [home EXCEPT ![i] = created + 1]
  /\ app' = app \cup {i}
  /\ UNCHANGED <<parent, registered, job, holder, pending>>

\* V8ClassWrapper<T>::get_instance, add_constructor, add_require: state is kept
\* for the isolate in maps from its address.
Register(i) ==
  /\ AppIdle
  /\ i \in app
  /\ registered' = [registered EXCEPT ![i] = gen[i]]
  /\ UNCHANGED <<gen, created, refs, parent, home, app, job, holder, pending>>

\* A Context or Script is made from its parent, holding the Locker.
MakeFrom(e, p) ==
  /\ AppIdle
  /\ p \in app
  /\ Unused(e)
  /\ LockerFree(App, IsolateOf(p))
  /\ refs' = [refs EXCEPT ![e] = 1, ![p] = @ + 1]
  /\ parent' = [parent EXCEPT ![e] = p]
  /\ home' = [home EXCEPT ![e] = gen[IsolateOf(p)]]
  /\ app' = app \cup {e}
  /\ UNCHANGED <<isolateVars, job, holder, pending>>

CreateContext(c, i) == MakeFrom(c, i)
Compile(s, c) == MakeFrom(s, c)

\* Mutant: the thread holds a plain pointer.
StartJobUncounted(s, j, state) ==
  /\ AppIdle
  /\ s \in app
  /\ job[j].state = "idle" /\ pending[j] = <<>>
  /\ job' = [job EXCEPT ![j] = [state |-> state, script |-> s]]
  /\ UNCHANGED <<isolateVars, refs, parent, home, app, holder, pending>>

\* Script::run_thread and Script::run_async: the new thread holds the Script.
StartJob(s, j, state) ==
  /\ AppIdle
  /\ s \in app
  /\ job[j].state = "idle" /\ pending[j] = <<>>
  /\ job' = [job EXCEPT ![j] = [state |-> state, script |-> s]]
  /\ refs' = [refs EXCEPT ![s] = @ + 1]
  /\ UNCHANGED <<isolateVars, parent, home, app, holder, pending>>

RunThread(s, j) == StartJob(s, j, "queued thread")
RunAsync(s, j) == StartJob(s, j, "queued async")

\* The application gives up a shared_ptr; not the one it is inside of.
Drop(e) ==
  /\ AppIdle
  /\ e \in app
  /\ e \in Isolates => holder[e] # App
  /\ app' = app \ {e}
  /\ pending' = [pending EXCEPT ![App] = <<Unref(e)>>]
  /\ UNCHANGED <<isolateVars, refs, parent, home, job, holder>>

\* Isolate::operator() and what runs inside it.
EnterIsolate(i) ==
  /\ AppIdle
  /\ i \in app
  /\ holder[i] = NoThread
  /\ holder' = [holder EXCEPT ![i] = App]
  /\ UNCHANGED <<isolateVars, refs, parent, home, app, job, pending>>

LeaveIsolate(i) ==
  /\ AppIdle
  /\ holder[i] = App
  /\ holder' = [holder EXCEPT ![i] = NoThread]
  /\ UNCHANGED <<isolateVars, refs, parent, home, app, job, pending>>

\* The members of the pair of run_async are destroyed last to first.
DestroyPair(j, s) == <<Reset(j), Unref(s)>>

\* The job has ended and its thread is gone, as ~future waits for it to be.
Joined(j) == pending[j] = <<>>

\* The future of run_async goes, and the pair with it.
DropFuture(j) ==
  /\ AppIdle
  /\ job[j].state = "ready" /\ Joined(j)
  /\ pending' = [pending EXCEPT ![App] = DestroyPair(j, job[j].script)]
  /\ job' = [job EXCEPT ![j] = [state |-> "idle", script |-> Nothing]]
  /\ UNCHANGED <<isolateVars, refs, parent, home, app, holder>>

\* The future of a run_async that failed goes, and the V8Exception with it.  Its
\* v8::Global is reset; what that does when the isolate is gone is undefined, and
\* nothing here.
DropException(j) ==
  /\ AppIdle
  /\ job[j].state = "failed" /\ Joined(j)
  /\ home' = [home EXCEPT ![j] = 0]
  /\ job' = [job EXCEPT ![j] = [state |-> "idle", script |-> Nothing]]
  /\ UNCHANGED <<isolateVars, refs, parent, app, holder, pending>>

-------------------------------------------------------------------------------
(* The threads of jobs.                                                    *)

\* The job gets the Locker and runs its script.
Lock(j) ==
  /\ Queued(j)
  /\ LET i == IsolateOf(job[j].script) IN
       /\ holder[i] = NoThread
       /\ holder' = [holder EXCEPT ![i] = j]
  /\ job' = [job EXCEPT ![j].state =
               IF @ = "queued thread" THEN "running thread" ELSE "running async"]
  /\ UNCHANGED <<isolateVars, refs, parent, home, app, pending>>

\* Mutant: the Locker is not given up.
UnlockNever(j) == UNCHANGED holder

Unlock(j) == holder' = [holder EXCEPT ![IsolateOf(job[j].script)] = NoThread]

\* The script of a thread ends; the thread gives its Script up.
FinishThread(j) ==
  /\ job[j].state = "running thread"
  /\ Unlock(j)
  /\ pending' = [pending EXCEPT ![j] = <<Unref(job[j].script)>>]
  /\ job' = [job EXCEPT ![j] = [state |-> "idle", script |-> Nothing]]
  /\ UNCHANGED <<isolateVars, refs, parent, home, app>>

\* It throws: nothing catches the V8Exception before std::terminate does.
FailThread(j) ==
  /\ job[j].state = "running thread"
  /\ job' = [job EXCEPT ![j].state = "terminated"]
  /\ UNCHANGED <<isolateVars, refs, parent, home, app, holder, pending>>

\* The script of run_async ends: the result is a Global and another shared_ptr to
\* the Script; the argument of the call goes on the job's thread.
FinishAsync(j) ==
  /\ job[j].state = "running async"
  /\ Unlock(j)
  /\ refs' = [refs EXCEPT ![job[j].script] = @ + 1]
  /\ home' = [home EXCEPT ![j] = gen[IsolateOf(job[j].script)]]
  /\ job' = [job EXCEPT ![j].state = "ready"]
  /\ pending' = [pending EXCEPT ![j] = <<Unref(job[j].script)>>]
  /\ UNCHANGED <<isolateVars, parent, app>>

\* It throws: the result is a V8Exception, which holds a Global of what was thrown
\* and no shared_ptr; the argument of the call goes.
FailAsync(j) ==
  /\ job[j].state = "running async"
  /\ Unlock(j)
  /\ home' = [home EXCEPT ![j] = gen[IsolateOf(job[j].script)]]
  /\ pending' = [pending EXCEPT ![j] = <<Unref(job[j].script)>>]
  /\ job' = [job EXCEPT ![j] = [state |-> "failed", script |-> Nothing]]
  /\ UNCHANGED <<isolateVars, refs, parent, app>>

-------------------------------------------------------------------------------
(* The destructors.                                                        *)

\* Mutant: context_helper and isolate_helper are the last members.
DestroyMembersParentFirst(e) == <<Unref(parent[e]), Reset(e)>>

\* Mutant: the shared_ptr is also released by hand.
DestroyMembersParentTwice(e) == <<Reset(e), Unref(parent[e]), Unref(parent[e])>>

\* ~Script and ~Context: isolate_helper and context_helper are the first members,
\* so they are the last to be destroyed.
DestroyMembers(e) == <<Reset(e), Unref(parent[e])>>

\* Mutant: the isolate is disposed of first.
DestroyIsolateDisposeFirst(i) == <<Reset(i), Dispose(i), Cleanup(i)>>
\* Mutant: the maps are left alone.
DestroyIsolateNoCleanup(i) == <<Reset(i), Dispose(i)>>

\* Mutant: the isolate is left to the end of the process.
DestroyIsolateNoDispose(i) == <<Cleanup(i), Reset(i)>>

\* ~Isolate
DestroyIsolate(i) == <<Cleanup(i), Reset(i), Dispose(i)>>

Destructor(e) == IF e \in Isolates THEN DestroyIsolate(e) ELSE DestroyMembers(e)

Doing(t, op) == pending[t] # <<>> /\ Head(pending[t]).op = op
Operand(t) == Head(pending[t]).of
Done(t) == pending' = [pending EXCEPT ![t] = Tail(@)]

DoReset(t) ==
  /\ Doing(t, "reset")
  /\ home' = [home EXCEPT ![Operand(t)] = 0]
  /\ Done(t)
  /\ UNCHANGED <<isolateVars, refs, parent, app, job, holder>>

\* A shared_ptr goes; the last one takes the object with it.
DoUnref(t) ==
  /\ Doing(t, "unref")
  /\ refs' = [refs EXCEPT ![Operand(t)] = @ - 1]
  /\ pending' = [pending EXCEPT ![t] =
                   (IF refs[Operand(t)] = 1 THEN Destructor(Operand(t)) ELSE <<>>)
                     \o Tail(@)]
  /\ parent' = IF refs[Operand(t)] = 1
               THEN [parent EXCEPT ![Operand(t)] = Nothing] ELSE parent
  /\ UNCHANGED <<isolateVars, home, app, job, holder>>

\* cleanup_isolate and delete_require_cache_for_isolate
DoCleanup(t) ==
  /\ Doing(t, "cleanup")
  /\ registered' = [registered EXCEPT ![Operand(t)] = 0]
  /\ Done(t)
  /\ UNCHANGED <<gen, created, refs, parent, home, app, job, holder>>

DoDispose(t) ==
  /\ Doing(t, "dispose")
  /\ gen' = [gen EXCEPT ![Operand(t)] = 0]
  /\ Done(t)
  /\ UNCHANGED <<created, refs, parent, home, registered, app, job, holder>>

Destroy(t) ==
  /\ Alive
  /\ DoReset(t) \/ DoUnref(t) \/ DoCleanup(t) \/ DoDispose(t)

-------------------------------------------------------------------------------
JobStep(j) ==
  /\ Alive
  /\ \/ Lock(j)
     \/ FinishThread(j)
     \/ FailThread(j)
     \/ FinishAsync(j)
     \/ FailAsync(j)

Application ==
  \/ \E i \in Isolates :
       \/ CreateIsolate(i)
       \/ Register(i)
       \/ EnterIsolate(i)
       \/ LeaveIsolate(i)
       \/ \E c \in Contexts : CreateContext(c, i)
  \/ \E s \in Scripts :
       \/ \E c \in Contexts : Compile(s, c)
       \/ \E j \in Jobs : RunThread(s, j) \/ RunAsync(s, j)
  \/ \E e \in Entities : Drop(e)
  \/ \E j \in Jobs : DropFuture(j) \/ DropException(j)

Next ==
  \/ Application
  \/ \E j \in Jobs : JobStep(j)
  \/ \E t \in Threads : Destroy(t)

Spec == Init /\ [][Next]_vars

\* Destructors go on and scripts end; what the application runs inside an isolate
\* returns; a thread waits for a Locker that stays free no longer than it must, but
\* may wait for ever for one that others get first each time.
Fairness ==
  /\ \A t \in Threads : WF_vars(Destroy(t))
  /\ \A i \in Isolates : SF_vars(LeaveIsolate(i))
  /\ \A j \in Jobs : WF_vars(JobStep(j))

FairSpec == Spec /\ Fairness

-------------------------------------------------------------------------------
Operations == {"reset", "unref", "cleanup", "dispose"}

TypeOK ==
  /\ gen \in [Isolates -> 0..MaxCreated]
  /\ created \in 0..MaxCreated
  /\ refs \in [Entities -> Nat]
  /\ parent \in [Entities -> Isolates \cup Contexts \cup {Nothing}]
  /\ home \in [Globals -> 0..MaxCreated]
  /\ registered \in [Isolates -> 0..MaxCreated]
  /\ app \subseteq Entities
  /\ job \in [Jobs -> [state : JobStates, script : Scripts \cup {Nothing}]]
  /\ holder \in [Isolates -> Threads \cup {NoThread}]
  /\ pending \in [Threads -> Seq([op : Operations, of : Globals])]

\* "isolate_helper MUST be first", "The order of the pair elements matters": no
\* v8::Global is left, nor reset later, once its isolate is disposed of.  Excepted is
\* the one in the exception of a run_async that failed.
Thrown(g) == g \in Jobs /\ job[g].state = "failed"
InItsIsolate(g) == \E i \in Isolates : gen[i] = home[g]
NoGlobalOutlivesIsolate ==
  \A g \in Globals : home[g] # 0 /\ ~Thrown(g) => InItsIsolate(g)

\* "cannot be destroyed until after the async has finished and the caller has had a
\* chance to use the results contained in the future": the isolate of a result is
\* there as long as the future has it, be the result a value or an exception.
ResultsKeepIsolate ==
  \A j \in Jobs : job[j].state \in {"ready", "failed"} => InItsIsolate(j)

\* "As long as a Script shared_ptr is around, the associated Context will be
\* maintained (which keeps the Isolate around, too)": whatever the application
\* holds, whatever a job will run or runs, and the Script of a result, is there, and
\* so is what it was made from and the isolate of its v8::Global.
KeepsIsolate(e) ==
  /\ refs[e] > 0
  /\ e \notin Isolates => parent[e] # Nothing /\ refs[parent[e]] > 0
  /\ \E i \in Isolates : gen[i] # 0 /\ home[e] = gen[i]
HandlesKeepIsolates ==
  /\ \A e \in app : KeepsIsolate(e)
  /\ \A j \in Jobs :
       Queued(j) \/ Running(j) \/ job[j].state = "ready" => KeepsIsolate(job[j].script)

\* "An isolate created after a previous isolate is destroyed may have the same
\* address": what the maps hold for an address was put there for the isolate
\* that is there now.
RegistrationIsOwn ==
  \A i \in Isolates : registered[i] # 0 => registered[i] = gen[i]

\* An isolate in use never loses what it registered to the destructor of another
\* one that had its address.
RegistrationKept ==
  [][\A i \in Isolates :
       registered[i] # 0 /\ refs[i] > 0 => registered'[i] = registered[i]]_vars

\* "Additional calls will be queued but will block until they can acquire the
\* v8::Locker": once the application takes no Locker and starts no script any more,
\* every script that is queued runs, unless one that throws ends the process.
TakesLocker ==
  \E e \in Entities :
    \/ e \in Isolates /\ EnterIsolate(e)
    \/ \E p \in Entities : MakeFrom(e, p)
    \/ \E j \in Jobs : RunThread(e, j) \/ RunAsync(e, j)
QueuedScriptsRun ==
  <>[][~TakesLocker]_vars => \A j \in Jobs : Queued(j) ~> ~Queued(j) \/ ~Alive

\* When the application has given up every handle and every future and no script
\* is to run any more, every isolate is disposed of.
AllReleased == app = {} /\ \A j \in Jobs : job[j].state = "idle"
LastHandleDisposes ==
  AllReleased ~> (~AllReleased \/ \A i \in Isolates : gen[i] = 0)
===============================================================================
