-------------------------- MODULE BidirectionalCall --------------------------
(***************************************************************************)
(* Objects of a C++ class that JavaScript extends (bidirectional.h): the   *)
(* JSFactory that makes them, and the JS_ACCESS functions that send a      *)
(* virtual call to JavaScript and, when JavaScript comes back to them, to  *)
(* the C++ base class.                                                     *)
(*                                                                         *)
(* One thread runs: it holds the Locker of the isolate.  What runs is a    *)
(* stack of calls.  The bodies of the C++ base class and of the functions  *)
(* in JavaScript are the application's: they call what they like, throw,   *)
(* and catch what they like.  A step is what happens between two calls.    *)
(*                                                                         *)
(* The factories form a chain of JSFactory objects of one C++ type over a  *)
(* CppFactory; factory f runs the constructors 1..f.  The optional C++     *)
(* constructor_function of a factory is left out (nullptr, its default).   *)
(***************************************************************************)
EXTENDS Naturals, Sequences, SequencesExt

CONSTANTS
    Objects,      \* the C++ objects that may be made
    Methods,      \* the methods with a JS_ACCESS function
    Mapped,       \* the ones added to the wrapped base type with add_method
    Prototypes,   \* for each JSFactory, base first, the methods its prototype defines
    MaxDepth      \* bound on the calls that application code begins

ASSUME MappedAssumption == Mapped \subseteq Methods
ASSUME PrototypesAssumption == Prototypes \in Seq(SUBSET Methods)
ASSUME MaxDepthAssumption == MaxDepth \in Nat

VARIABLES
    flag,      \* flag[o]: called_from_javascript
    stack,     \* the calls that have not returned, the oldest first
    raised,    \* an exception is on its way down the stack
    level,     \* level[o]: the factory whose prototype o has, 0 before the first
    built,     \* history: how many constructors of o have returned
    escaped    \* history: objects whose flag an exception has left set

vars == <<flag, stack, raised, level, built, escaped>>

Factories == 1 .. Len(Prototypes)

(***************************************************************************)
(* The calls.                                                              *)
(***************************************************************************)
\* The body of the base class, BASE_TYPE::name.
Native(o, m) == [kind |-> "native", o |-> o, m |-> m]
\* JS_ACCESS_CORE: it has found a function to call, or has called it.
Access(o, m, at) == [kind |-> "access", o |-> o, m |-> m, at |-> at]
\* A method written in JavaScript, and how many calls it has begun (2: more than one).
Override(o, m, c) == [kind |-> "override", o |-> o, m |-> m, calls |-> c]
\* JSFactory::operator() of factory f and of those below it.
Creating(o, f) == [kind |-> "create", o |-> o, f |-> f]
\* The constructor written in JavaScript of factory f.
Constructor(o, f) == [kind |-> "constructor", o |-> o, f |-> f]

Frames ==
    {Native(o, m) : o \in Objects, m \in Methods}
        \cup {Access(o, m, at) : o \in Objects, m \in Methods, at \in {"found", "called"}}
        \cup {Override(o, m, c) : o \in Objects, m \in Methods, c \in 0 .. 2}
        \cup {Creating(o, f) : o \in Objects, f \in Factories}
        \cup {Constructor(o, f) : o \in Objects, f \in Factories}

Top == Last(stack)
TopIs(kinds) == stack # <<>> /\ Top.kind \in kinds
TopBecomes(x) == [stack EXCEPT ![Len(stack)] = x]

\* The application is below every call: it is C++ and runs scripts.
InCpp == ~raised /\ (stack = <<>> \/ TopIs({"native"}))
InScript == ~raised /\ (stack = <<>> \/ TopIs({"override", "constructor"}))

\* The stack of the caller, which has begun one more call.
Caller ==
    IF TopIs({"override"})
    THEN TopBecomes(Override(Top.o, Top.m, IF Top.calls = 0 THEN 1 ELSE 2))
    ELSE stack

Init ==
    /\ flag = [o \in Objects |-> FALSE]
    /\ stack = <<>>
    /\ raised = FALSE
    /\ level = [o \in Objects |-> 0]
    /\ built = [o \in Objects |-> 0]
    /\ escaped = {}

\* The constructor of an object may hand it to anybody.
Known(o) == level[o] > 0

\* What property m of o is: a function of a prototype that a factory brought, or
\* else the function of the wrapped base type.
HasOverride(o, m) == \E f \in 1 .. level[o] : m \in Prototypes[f]
Found(o, m) == HasOverride(o, m) \/ m \in Mapped

(***************************************************************************)
(* JS_ACCESS_CORE up to the call of JavaScript.  Without the flag it looks *)
(* for a function by the name of the method; finding none is the catch.    *)
(***************************************************************************)
\* Mutants: the flag is left set, or is never set.
EnterNativeKeep(o, m, s) ==
    stack' = Append(s, Native(o, m)) /\ UNCHANGED flag

EnterScriptUnmarked(o, m, s) ==
    stack' = Append(s, Access(o, m, "found")) /\ UNCHANGED flag

EnterNative(o, m, s) ==
    /\ flag' = [flag EXCEPT ![o] = FALSE]
    /\ stack' = Append(s, Native(o, m))

EnterScript(o, m, s) ==
    /\ flag' = [flag EXCEPT ![o] = TRUE]
    /\ stack' = Append(s, Access(o, m, "found"))

Enter(o, m, s) ==
    /\ IF flag[o] \/ ~Found(o, m) THEN EnterNative(o, m, s) ELSE EnterScript(o, m, s)
    /\ escaped' = escaped \ {o}

(***************************************************************************)
(* Calls that C++ and JavaScript code make.                                *)
(***************************************************************************)
\* C++ code calls a virtual function.
CallVirtual(o, m) ==
    /\ InCpp /\ Known(o)
    /\ Len(stack) < MaxDepth
    /\ Enter(o, m, stack)
    /\ UNCHANGED <<raised, level, built>>

\* JavaScript calls o.m(), which a prototype defines: no C++ code is involved.
CallOverride(o, m) ==
    /\ InScript /\ Known(o) /\ HasOverride(o, m)
    /\ Len(stack) < MaxDepth
    /\ stack' = Append(Caller, Override(o, m, 0))
    /\ UNCHANGED <<flag, raised, level, built, escaped>>

\* JavaScript calls o.m(), which the wrapped base type has: its callback calls the
\* virtual function.
CallMapped(o, m) ==
    /\ InScript /\ Known(o) /\ m \in Mapped /\ ~HasOverride(o, m)
    /\ Len(stack) < MaxDepth
    /\ Enter(o, m, Caller)
    /\ UNCHANGED <<raised, level, built>>

\* A method written in JavaScript calls the method of the base type that it hides. (A
\* super that finds the prototype of another factory first is a CallOverride.)
CallSuper ==
    /\ InScript /\ TopIs({"override"}) /\ Top.m \in Mapped
    /\ Len(stack) < MaxDepth
    /\ Enter(Top.o, Top.m, Caller)
    /\ UNCHANGED <<raised, level, built>>

\* Mutant: the flag is cleared before the function is called.
CallFoundCleared ==
    LET called == TopBecomes(Access(Top.o, Top.m, "called"))
    IN  /\ ~raised /\ TopIs({"access"}) /\ Top.at = "found"
        /\ IF HasOverride(Top.o, Top.m)
           THEN /\ stack' = Append(called, Override(Top.o, Top.m, 0))
                /\ flag' = [flag EXCEPT ![Top.o] = FALSE]
                /\ UNCHANGED escaped
           ELSE Enter(Top.o, Top.m, called)
        /\ UNCHANGED <<raised, level, built>>

\* call_javascript_function_with_vars, on the function that was found.
CallFound ==
    LET called == TopBecomes(Access(Top.o, Top.m, "called"))
    IN  /\ ~raised /\ TopIs({"access"}) /\ Top.at = "found"
        /\ IF HasOverride(Top.o, Top.m)
           THEN /\ stack' = Append(called, Override(Top.o, Top.m, 0))
                /\ UNCHANGED <<flag, escaped>>
           ELSE Enter(Top.o, Top.m, called)
        /\ UNCHANGED <<raised, level, built>>

(***************************************************************************)
(* Returns and exceptions.                                                 *)
(***************************************************************************)
Return ==
    /\ ~raised /\ TopIs({"native", "override"})
    /\ stack' = Front(stack)
    /\ UNCHANGED <<flag, raised, level, built, escaped>>

\* JavaScript has returned to JS_ACCESS_CORE; bad: the value is not one of the
\* return type of the method.
ReturnFromScript ==
    /\ ~raised /\ TopIs({"access"}) /\ Top.at = "called"
    /\ flag' = [flag EXCEPT ![Top.o] = FALSE]
    /\ escaped' = escaped \ {Top.o}
    /\ stack' = Front(stack)
    /\ raised' \in BOOLEAN
    /\ UNCHANGED <<level, built>>

Throw ==
    /\ ~raised /\ TopIs({"native", "override", "constructor"})
    /\ raised' = TRUE
    /\ stack' = Front(stack)
    /\ UNCHANGED <<flag, level, built, escaped>>

\* An exception reaches a call that has not returned.  JS_ACCESS_CORE does not catch
\* what the call of JavaScript throws.
Unwind ==
    /\ raised /\ stack # <<>>
    /\ stack' = Front(stack)
    /\ escaped' = IF Top.kind = "access" /\ flag[Top.o] THEN escaped \cup {Top.o} ELSE escaped
    /\ UNCHANGED <<flag, raised, level, built>>

Catch ==
    /\ raised /\ (stack = <<>> \/ TopIs({"native", "override", "constructor"}))
    /\ raised' = FALSE
    /\ UNCHANGED <<flag, stack, level, built, escaped>>

(***************************************************************************)
(* The factories.                                                          *)
(***************************************************************************)
\* ConcreteFactory::create, from C++ or from JavaScript.  The base factories come
\* first, and the last of them makes the C++ object and its JavaScript object.
Create(o, f) ==
    /\ InCpp \/ InScript
    /\ level[o] = 0 /\ \A i \in 1 .. Len(stack) : stack[i].o # o
    /\ Len(stack) < MaxDepth
    /\ stack' = Append(Caller, Creating(o, f))
    /\ UNCHANGED <<flag, raised, level, built, escaped>>

\* Mutants: one constructor too many; the prototype of the last factory first.
ConstructOneMore ==
    LET next == built[Top.o] + 1
    IN  /\ ~raised /\ TopIs({"create"}) /\ next <= Top.f + 1
        /\ level' = [level EXCEPT ![Top.o] = next]
        /\ stack' = Append(stack, Constructor(Top.o, next))
        /\ UNCHANGED <<flag, raised, built, escaped>>

ConstructDerivedFirst ==
    LET next == built[Top.o] + 1
    IN  /\ ~raised /\ TopIs({"create"}) /\ next <= Top.f
        /\ level' = [level EXCEPT ![Top.o] = Top.f]
        /\ stack' = Append(stack, Constructor(Top.o, next))
        /\ UNCHANGED <<flag, raised, built, escaped>>

\* One JSFactory: the prototype is replaced, and the constructor is called.
Construct ==
    LET next == built[Top.o] + 1
    IN  /\ ~raised /\ TopIs({"create"}) /\ next <= Top.f
        /\ level' = [level EXCEPT ![Top.o] = next]
        /\ stack' = Append(stack, Constructor(Top.o, next))
        /\ UNCHANGED <<flag, raised, built, escaped>>

ReturnFromConstructor ==
    /\ ~raised /\ TopIs({"constructor"})
    /\ built' = [built EXCEPT ![Top.o] = Top.f]
    /\ stack' = Front(stack)
    /\ UNCHANGED <<flag, raised, level, escaped>>

Created ==
    /\ ~raised /\ TopIs({"create"}) /\ built[Top.o] = Top.f
    /\ stack' = Front(stack)
    /\ UNCHANGED <<flag, raised, level, built, escaped>>

Next ==
    \/ \E o \in Objects, m \in Methods :
        CallVirtual(o, m) \/ CallOverride(o, m) \/ CallMapped(o, m)
    \/ \E o \in Objects, f \in Factories : Create(o, f)
    \/ CallSuper \/ CallFound
    \/ Return \/ ReturnFromScript \/ Throw \/ Unwind \/ Catch
    \/ Construct \/ ReturnFromConstructor \/ Created

Spec == Init /\ [][Next]_vars

(***************************************************************************)
(* Properties.                                                             *)
(***************************************************************************)
\* The variables have the types of the program's.
TypeOK ==
    /\ flag \in [Objects -> BOOLEAN]
    /\ stack \in Seq(Frames)
    /\ raised \in BOOLEAN
    /\ level \in [Objects -> 0 .. Len(Prototypes)]
    /\ built \in [Objects -> 0 .. Len(Prototypes)]
    /\ escaped \subseteq Objects

\* A JS_ACCESS function that finds itself, through the wrapped base type, does not
\* look again: the second time it runs the C++ base class (the comments at
\* called_from_javascript and JS_ACCESS_CORE).
FoundItselfOnce ==
    \A i \in 1 .. Len(stack) - 1 :
        stack[i].kind = "access" /\ stack[i + 1].kind = "access"
            => <<stack[i].o, stack[i].m>> # <<stack[i + 1].o, stack[i + 1].m>>

\* A method in JavaScript that a JS_ACCESS function called, and whose first call is
\* of the method it hides, reaches the C++ base class and not itself.
SuperReachesBase ==
    \A i \in 1 .. Len(stack) - 2 :
        ( /\ stack[i].kind = "access"
          /\ stack[i + 1] = Override(stack[i].o, stack[i].m, 1)
          /\ stack[i + 2].kind = "access" )
            => <<stack[i + 2].o, stack[i + 2].m>> # <<stack[i].o, stack[i].m>>

\* The flag of an object is set only during a call from one of its JS_ACCESS
\* functions to JavaScript, or after such a call has ended in an exception.
FlagAccounted ==
    \A o \in Objects :
        flag[o] => \/ o \in escaped
                   \/ \E i \in 1 .. Len(stack) : stack[i].kind = "access" /\ stack[i].o = o

\* A virtual call by the application of a method that JavaScript overrides goes to
\* JavaScript (JSWrapper: "will intercept calls to its methods and attempt to use
\* the javascript object"), except the first one after an exception escaped.
CallsReachOverride ==
    [][ stack = <<>> /\ stack' # <<>> =>
            LET call == stack'[1]
            IN  call.kind = "native" /\ HasOverride(call.o, call.m) => call.o \in escaped ]_vars

\* The constructor of a factory runs on an object that has the prototype of that
\* factory, and after all the constructors of its base factories have returned,
\* whatever these did and threw.
ConstructorsInOrder ==
    \A i \in 1 .. Len(stack) :
        stack[i].kind = "constructor" =>
            level[stack[i].o] = stack[i].f /\ built[stack[i].o] = stack[i].f - 1
===============================================================================
