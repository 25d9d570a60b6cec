-------------------------------- MODULE NativeCall --------------------------------
(***************************************************************************)
(* A call of a C++ function from JavaScript (call_callable.h,              *)
(* parameter_builder.h, unspecified_parameter_value.h and the callbacks of *)
(* v8_class_wrapper.h).  One parameter after another is built from the     *)
(* next argument, or from a default if there are no more; a parameter that *)
(* is a unique_ptr takes the object from JavaScript; then the function     *)
(* runs.  When a parameter cannot be built, or the function throws, what   *)
(* was built is destroyed and JavaScript gets an exception.                *)
(*                                                                         *)
(* Conversions and functions may run JavaScript that calls again.          *)
(* Parameters are built from left to right, as clang evaluates arguments.  *)
(* What a call does with an object whose C++ object is gone is undefined;  *)
(* no call goes on with one here.                                          *)
(***************************************************************************)
EXTENDS Integers, Sequences, FiniteSets

CONSTANTS Objects,      \* addresses of wrapped C++ objects
          Plain,        \* an argument that is no wrapped object
          Foreign,      \* a wrapped object of another type
          Callables,    \* what is registered
          Arguments,    \* the lists of arguments of calls
          MaxDepth      \* bound: calls within calls

\* The types of parameters: one that is converted, T const, T& and T&& and T* of
\* those; a copy or a reference of a wrapped type, a pointer to one, either of one that
\* can be made from the callback info, a unique_ptr to one; v8::Local; and what is no
\* argument, such as v8::Isolate*.
ParameterKinds ==
  {"value", "const", "reference", "rvalue", "pointer", "wrapped", "wrapped pointer",
   "from info", "unique_ptr", "local", "isolate"}

\* from_info: constructed_from_callback_info_v of the class.
Callable ==
  [kind : {"method", "static", "fake", "constructor"}, returns : BOOLEAN,
   parameters : Seq(ParameterKinds), defaults : Nat, from_info : BOOLEAN]

-------------------------------------------------------------------------------
(* Defaults.                                                               *)

\* Mutant: the number of parameters that need an argument is one too high.
PositionOffByOne(c, k) == (k - 1) - (Len(c.parameters) - c.defaults) - 1

\* The index into default_args_tuple, as CallCallable computes it for a function ...
Position(c, k) == (k - 1) - (Len(c.parameters) - c.defaults)

\* ... and for a fake method.
FakePosition(c, k) == (k - 1) - c.defaults - (IF c.returns THEN 0 ELSE 1)

PositionOf(c, k) == IF c.kind = "fake" THEN FakePosition(c, k) ELSE Position(c, k)

\* Mutant: a negative index counts.
HasDefaultAnyway(c, k) ==
  /\ c.parameters[k] \notin {"const", "reference", "unique_ptr", "local"}
  /\ PositionOf(c, k) < c.defaults

\* The builders of T const and T& do not pass the index on.
HasDefault(c, k) ==
  /\ c.parameters[k] \notin {"const", "reference"}
  /\ PositionOf(c, k) \in 0..(c.defaults - 1)

\* Methods and constructors copy the defaults for each call.
SharesDefaults(c) == c.kind \in {"static", "fake"}

\* Some combinations do not compile.
ASSUME CallAssumption ==
  /\ {Plain, Foreign} \cap Objects = {}
  /\ Callables \subseteq Callable
  /\ \A c \in Callables :
       /\ c.defaults <= Len(c.parameters)
       /\ \A k \in DOMAIN c.parameters :
            c.parameters[k] \in {"unique_ptr", "local"} => ~HasDefault(c, k)
  /\ Arguments \subseteq Seq(Objects \cup {Plain, Foreign})
  /\ MaxDepth \in Nat

VARIABLES
  calls,    \* the calls under way, innermost last
  owner,    \* who deletes the C++ object at each address
  changed   \* <<callable, n>>: the n-th default is not what was registered

vars == <<calls, owner, changed>>

\* What a parameter was built from.
Argument(n) == [from |-> "argument", index |-> n, changed |-> FALSE]
Info(n) == [from |-> "info", index |-> n, changed |-> FALSE]
Default(n, was_changed) == [from |-> "default", index |-> n, changed |-> was_changed]
Nothing == [from |-> "nothing", index |-> 0, changed |-> FALSE]

\* i counts arguments used; taken, the parameters that hold an object.
NewCall(c, arguments) ==
  [callable |-> c, arguments |-> arguments, i |-> 0, built |-> <<>>, taken |-> {},
   phase |-> "building"]

Init ==
  /\ calls = <<>>
  /\ owner = [o \in Objects \cup {Foreign} |-> IF o = Foreign THEN "js" ELSE "free"]
  /\ changed = {}

-------------------------------------------------------------------------------
Busy == calls # <<>>
Top == calls[Len(calls)]
Phase(p) == Busy /\ Top.phase = p
SetTop(call) == calls' = [calls EXCEPT ![Len(calls)] = call]
Pop == calls' = SubSeq(calls, 1, Len(calls) - 1)

\* The parameter to be built.
Next_k == Len(Top.built) + 1
Building(kinds) ==
  /\ Phase("building")
  /\ Next_k \in DOMAIN Top.callable.parameters
  /\ Top.callable.parameters[Next_k] \in kinds

Given == Top.i < Len(Top.arguments)
NextArgument == Top.arguments[Top.i + 1]
ObjectOf(call, k) == call.arguments[call.built[k].index]

Built(call, source, used) ==
  [call EXCEPT !.built = Append(@, source), !.i = @ + used]

\* JavaScript calls, from outside or below a conversion or a function.
Call(c, arguments) ==
  /\ Busy => Top.phase \in {"building", "running"}
  /\ Len(calls) < MaxDepth
  /\ \A n \in DOMAIN arguments : arguments[n] \in Objects => owner[arguments[n]] # "free"
  /\ calls' = Append(calls, NewCall(c, arguments))
  /\ UNCHANGED <<owner, changed>>

-------------------------------------------------------------------------------
(* Building.                                                               *)

Converted ==
  {"value", "const", "reference", "rvalue", "pointer", "wrapped", "wrapped pointer", "from info"}

\* An object whose C++ object is there.
Usable(argument) == argument \in Objects => owner[argument] # "free"

\* A pointer is to an object of the type; anything may convert to a new object for a
\* reference.
Fits(kind, argument) ==
  /\ kind \in {"wrapped pointer", "from info"} => argument \in Objects
  /\ kind \in {"wrapped", "wrapped pointer", "from info"} => Usable(argument)

BuildFromArgument ==
  /\ Building(Converted)
  /\ Given
  /\ Fits(Top.callable.parameters[Next_k], NextArgument)
  /\ SetTop(Built(Top, Argument(Top.i + 1), 1))
  /\ UNCHANGED <<owner, changed>>

\* A pointer to a wrapped type, given an object that is not of the type, plain or
\* wrapped: a new one is made, from info[i++] after info[i++] was looked at.
BuildFromNextArgument ==
  /\ Building({"wrapped pointer"})
  /\ Given
  /\ NextArgument \notin Objects
  /\ Top.i + 2 \in DOMAIN Top.arguments => Usable(Top.arguments[Top.i + 2])
  /\ SetTop(Built(Top, Argument(Top.i + 2), 2))
  /\ UNCHANGED <<owner, changed>>

\* A new one is made from the callback info; also where an rvalue reference is given
\* an object of the type that does not own its memory.
BuildFromInfo ==
  /\ Building({"from info"})
  /\ Given
  /\ NextArgument \in Objects => owner[NextArgument] = "cpp"
  /\ SetTop(Built(Top, Info(Top.i + 1), 1))
  /\ UNCHANGED <<owner, changed>>

\* Mutant: the JavaScript object still owns its memory.
TakeAndKeep ==
  /\ Building({"unique_ptr"})
  /\ Given /\ NextArgument \in Objects
  /\ owner[NextArgument] = "js"
  /\ SetTop([Built(Top, Argument(Top.i + 1), 1) EXCEPT !.taken = @ \cup {Next_k}])
  /\ UNCHANGED <<owner, changed>>

\* CastToNative<std::unique_ptr<T>> of an object that owns its memory.
Take ==
  /\ Building({"unique_ptr"})
  /\ Given /\ NextArgument \in Objects
  /\ owner[NextArgument] = "js"
  /\ SetTop([Built(Top, Argument(Top.i + 1), 1) EXCEPT !.taken = @ \cup {Next_k}])
  /\ owner' = [owner EXCEPT ![NextArgument] = "cpp"]
  /\ UNCHANGED changed

\* Of one of another type that owns its memory: it gives that up, and the unique_ptr
\* is null.
TakeForeign ==
  /\ Building({"unique_ptr"})
  /\ Given /\ NextArgument = Foreign
  /\ owner[Foreign] = "js"
  /\ SetTop(Built(Top, Argument(Top.i + 1), 1))
  /\ owner' = [owner EXCEPT ![Foreign] = "lost"]
  /\ UNCHANGED changed

\* Of one of the type that does not: a copy, if T can be copied.
TakeCopy ==
  /\ Building({"unique_ptr"})
  /\ Given /\ NextArgument \in Objects
  /\ owner[NextArgument] = "cpp"
  /\ SetTop(Built(Top, Argument(Top.i + 1), 1))
  /\ UNCHANGED <<owner, changed>>

BuildFromDefault ==
  /\ Building(Converted)
  /\ ~Given
  /\ HasDefault(Top.callable, Next_k)
  /\ LET n == PositionOf(Top.callable, Next_k) + 1 IN
       SetTop(Built(Top, Default(n, <<Top.callable, n>> \in changed), 0))
  /\ UNCHANGED <<owner, changed>>

\* v8::Local takes the next argument, undefined if there is none.
BuildLocal ==
  /\ Building({"local"})
  /\ SetTop(Built(Top, Argument(Top.i + 1), 1))
  /\ UNCHANGED <<owner, changed>>

BuildWithoutArgument ==
  /\ Building({"isolate"})
  /\ SetTop(Built(Top, Nothing, 0))
  /\ UNCHANGED <<owner, changed>>

\* An argument that does not convert.
ConversionThrows ==
  /\ Building(ParameterKinds \ {"isolate"})
  /\ Given
  /\ SetTop([Top EXCEPT !.phase = "failed"])
  /\ UNCHANGED <<owner, changed>>

\* "Not enough parameters", "No default value available"
MissingParameter ==
  /\ Building(Converted \cup {"unique_ptr"})
  /\ ~Given
  /\ ~HasDefault(Top.callable, Next_k)
  /\ SetTop([Top EXCEPT !.phase = "missing"])
  /\ UNCHANGED <<owner, changed>>

-------------------------------------------------------------------------------
(* The function.                                                           *)

Enter ==
  /\ Phase("building")
  /\ Next_k > Len(Top.callable.parameters)
  /\ SetTop([Top EXCEPT !.phase = "running"])
  /\ UNCHANGED <<owner, changed>>

\* It writes to a default it has a pointer to, or moves from it.
ChangeDefault(k) ==
  /\ Phase("running")
  /\ k \in DOMAIN Top.built
  /\ Top.built[k].from = "default"
  /\ Top.callable.parameters[k] \in {"pointer", "rvalue", "wrapped", "from info"}
  /\ SharesDefaults(Top.callable)
  /\ changed' = changed \cup {<<Top.callable, Top.built[k].index>>}
  /\ UNCHANGED <<calls, owner>>

\* It keeps an object it was given.
Keep(k) ==
  /\ Phase("running")
  /\ k \in Top.taken
  /\ SetTop([Top EXCEPT !.taken = @ \ {k}])
  /\ UNCHANGED <<owner, changed>>

\* A parameter that still has its object is destroyed.
Destroy(k) ==
  /\ Phase("running") \/ Phase("failed") \/ Phase("missing")
  /\ k \in Top.taken
  /\ SetTop([Top EXCEPT !.taken = @ \ {k}])
  /\ owner' = [owner EXCEPT ![ObjectOf(Top, k)] = "free"]
  /\ UNCHANGED changed

BodyThrows ==
  /\ Phase("running")
  /\ SetTop([Top EXCEPT !.phase = "failed"])
  /\ UNCHANGED <<owner, changed>>

InUse(o) == \E m \in DOMAIN calls : \E n \in DOMAIN calls[m].arguments : calls[m].arguments[n] = o

\* No call has an object that was at the address before.
Vacant(o) == owner[o] = "free" /\ ~InUse(o)

\* v8_constructor: the object belongs to JavaScript.
Construct == \E o \in Objects : Vacant(o) /\ owner' = [owner EXCEPT ![o] = "js"]

Return ==
  /\ Phase("running")
  /\ Top.taken = {}
  /\ IF Top.callable.kind = "constructor" THEN Construct ELSE UNCHANGED owner
  /\ Pop
  /\ UNCHANGED changed

\* The exception goes to JavaScript, but for a class that can be constructed from
\* the callback info instead.
Rethrow ==
  /\ Phase("failed") \/ Phase("missing")
  /\ Top.taken = {}
  /\ IF Top.callable.kind = "constructor" /\ Top.callable.from_info
     THEN Construct ELSE UNCHANGED owner
  /\ Pop
  /\ UNCHANGED changed

-------------------------------------------------------------------------------
(* JavaScript and C++ let go of what they own.                             *)

Held(o) == \E m \in DOMAIN calls : \E k \in calls[m].taken : ObjectOf(calls[m], k) = o

Collect(o) ==
  /\ owner[o] = "js"
  /\ ~InUse(o)
  /\ owner' = [owner EXCEPT ![o] = "free"]
  /\ UNCHANGED <<calls, changed>>

CppDelete(o) ==
  /\ owner[o] = "cpp"
  /\ ~Held(o)
  /\ owner' = [owner EXCEPT ![o] = "free"]
  /\ UNCHANGED <<calls, changed>>

Next ==
  \/ \E c \in Callables, arguments \in Arguments : Call(c, arguments)
  \/ BuildFromArgument
  \/ BuildFromNextArgument
  \/ BuildFromInfo
  \/ Take
  \/ TakeForeign
  \/ TakeCopy
  \/ BuildFromDefault
  \/ BuildLocal
  \/ BuildWithoutArgument
  \/ ConversionThrows
  \/ MissingParameter
  \/ Enter
  \/ BodyThrows
  \/ Busy /\ \E k \in DOMAIN Top.built : ChangeDefault(k) \/ Keep(k) \/ Destroy(k)
  \/ Return
  \/ Rethrow
  \/ \E o \in Objects : Collect(o) \/ CppDelete(o)

Spec == Init /\ [][Next]_vars

-------------------------------------------------------------------------------
CallType ==
  [callable : Callables, arguments : Arguments, i : Nat,
   built : Seq([from : {"argument", "info", "default", "nothing"}, index : Nat, changed : BOOLEAN]),
   taken : SUBSET Nat, phase : {"building", "running", "failed", "missing"}]

TypeOK ==
  /\ calls \in Seq(CallType)
  /\ \A m \in DOMAIN calls : \A k \in DOMAIN calls[m].built :
       calls[m].built[k].from = "default"
         => calls[m].built[k].index \in 1..calls[m].callable.defaults
  /\ owner \in [Objects \cup {Foreign} -> {"free", "js", "cpp", "lost"}]
  /\ \A d \in changed : d[1] \in Callables /\ d[2] \in 1..d[1].defaults

Consumes(c, k) == c.parameters[k] # "isolate"
Rank(c, k) == Cardinality({j \in 1..k : Consumes(c, j)})
FirstDefault(c) == Len(c.parameters) - c.defaults + 1
Required(c) == Cardinality({k \in 1..(FirstDefault(c) - 1) : Consumes(c, k)})

\* The defaults of a function reach its last parameters: none of these is one that the
\* index into the defaults is not passed on for, and a fake method has as many
\* parameters as its index is right for.  Defaults registered otherwise are not found,
\* or found for another parameter.
DefaultsReach(c) ==
  /\ \A k \in DOMAIN c.parameters :
       k >= FirstDefault(c) => c.parameters[k] \notin {"const", "reference"}
  /\ c.kind = "fake" =>
       c.defaults = 0 \/ Len(c.parameters) = 2 * c.defaults + (IF c.returns THEN 0 ELSE 1)

\* What the k-th parameter is to be built from: its own argument, the callback info in
\* place of that, or else its own default.
Theirs(call, k, built) ==
  LET c == call.callable IN
    IF ~Consumes(c, k) THEN Nothing
    ELSE IF Rank(c, k) <= Len(call.arguments) \/ c.parameters[k] = "local"
    THEN IF c.parameters[k] = "from info" /\ built.from = "info"
         THEN Info(Rank(c, k)) ELSE Argument(Rank(c, k))
    ELSE Default(k - FirstDefault(c) + 1, SharesDefaults(c) /\ built.changed)

\* One of the first k parameters is a pointer to a wrapped type and its argument no
\* object of the type: from there on the arguments are shifted.
Shifted(call, k) ==
  \E j \in 1..k :
    /\ call.callable.parameters[j] = "wrapped pointer"
    /\ Rank(call.callable, j) \in DOMAIN call.arguments
    /\ call.arguments[Rank(call.callable, j)] \notin Objects

GetTheirs(call) ==
  \A k \in DOMAIN call.built :
    Shifted(call, k) \/ call.built[k] = Theirs(call, k, call.built[k])
RejectedForReason(call) ==
  call.phase = "missing" =>
    Shifted(call, Len(call.built)) \/ Len(call.arguments) < Required(call.callable)

\* Whatever mix of parameters use an argument, a default or neither, and whatever
\* calls run in between, each gets what was meant for it, and no call is rejected
\* that has all the arguments it needs.  Methods and constructors find their
\* defaults as they were registered.  Excepted are a pointer to a wrapped type that is
\* given no object of the type, and the parameters after it.
ParametersGetTheirs ==
  \A m \in DOMAIN calls : GetTheirs(calls[m]) /\ RejectedForReason(calls[m])

\* The object of a unique_ptr parameter is owned by that parameter alone: whatever
\* calls are given the same object, at once or within each other, fail or not, it is
\* destroyed once.
TakenIsOwned ==
  \A m1, m2 \in DOMAIN calls :
    \A k1 \in calls[m1].taken, k2 \in calls[m2].taken :
      /\ owner[ObjectOf(calls[m1], k1)] = "cpp"
      /\ ObjectOf(calls[m1], k1) = ObjectOf(calls[m2], k2) => m1 = m2 /\ k1 = k2
===============================================================================
