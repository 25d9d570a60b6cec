----------------------------- MODULE NativeCallProofs -----------------------------
(***************************************************************************)
(* What NativeCall promises for any callables, arguments and depth: every  *)
(* variable has its type, the object of a unique_ptr parameter has one     *)
(* owner, and each parameter is built from what is meant for it.           *)
(*                                                                         *)
(* One invariant says of each parameter that holds an object which object  *)
(* it is: the argument it was built from, owned by C++, and held by no     *)
(* other parameter of any call.  Another one relates the counter of used   *)
(* arguments to the parameters that are built: it is their number, until   *)
(* the arguments have run out and defaults are used.                       *)
(***************************************************************************)
EXTENDS NativeCall, FiniteSetTheorems, SequenceTheorems, TLAPS

USE CallAssumption

-------------------------------------------------------------------------------
(* The stack of calls.                                                     *)

Source == [from : {"argument", "info", "default", "nothing"}, index : Nat, changed : BOOLEAN]

\* A default that a parameter was built from is one of its function.
DefaultInRange(call) ==
  \A k \in DOMAIN call.built :
    call.built[k].from = "default" => call.built[k].index \in 1..call.callable.defaults

Stack(s) ==
  /\ s \in Seq(CallType)
  /\ \A m \in DOMAIN s : DefaultInRange(s[m])

LEMMA TopFacts ==
  ASSUME Stack(calls), Busy
  PROVE  /\ Len(calls) \in DOMAIN calls /\ Len(calls) \in Nat \ {0}
         /\ Top \in CallType /\ DefaultInRange(Top)
         /\ Top.callable \in Callable /\ Top.callable \in Callables
         /\ Top.callable.defaults \in Nat /\ Top.callable.parameters \in Seq(ParameterKinds)
         /\ Top.arguments \in Seq(Objects \cup {Plain, Foreign})
         /\ Top.i \in Nat /\ Top.built \in Seq(Source) /\ Top.taken \subseteq Nat
         /\ Next_k = Len(Top.built) + 1 /\ Next_k \in Nat
<1>1. Len(calls) \in DOMAIN calls /\ Len(calls) \in Nat \ {0}
  BY EmptySeq DEF Stack, Busy
<1>2. Top \in CallType
  BY <1>1 DEF Top, Stack
<1>3. DefaultInRange(Top)
  BY <1>1 DEF Top, Stack
<1>4. Top.built \in Seq(Source)
  BY <1>2 DEF CallType, Source
<1>5. Len(Top.built) \in Nat
  BY <1>4
<1> QED BY <1>1, <1>2, <1>3, <1>4, <1>5 DEF CallType, Callable, Next_k

LEMMA SetTopStack ==
  ASSUME Stack(calls), Busy, NEW call, SetTop(call), call \in CallType, DefaultInRange(call)
  PROVE  /\ Stack(calls')
         /\ Len(calls') = Len(calls) /\ DOMAIN calls' = DOMAIN calls
         /\ \A m \in DOMAIN calls : calls'[m] = IF m = Len(calls) THEN call ELSE calls[m]
<1>1. calls' = [calls EXCEPT ![Len(calls)] = call]
  BY DEF SetTop
<1>2. calls' \in Seq(CallType) /\ Len(calls') = Len(calls) /\ DOMAIN calls' = DOMAIN calls
  BY <1>1, ExceptSeq, TopFacts DEF Stack
<1>3. \A m \in DOMAIN calls : calls'[m] = IF m = Len(calls) THEN call ELSE calls[m]
  BY <1>1
<1> QED BY <1>2, <1>3 DEF Stack

LEMMA PopStack ==
  ASSUME Stack(calls), Busy, Pop
  PROVE  /\ Stack(calls')
         /\ \A m \in DOMAIN calls' : m \in DOMAIN calls /\ calls'[m] = calls[m]
<1>1. Len(calls) \in Nat \ {0}
  BY TopFacts
<1>2. /\ calls' \in Seq(CallType)
      /\ Len(calls') = Len(calls) - 1
      /\ \A m \in 1..(Len(calls) - 1) : calls'[m] = calls[m]
  <2> DEFINE n == Len(calls) - 1
  <2>1. n \in Nat /\ \A m \in 1..n : calls[m] \in CallType
    BY <1>1 DEF Stack
  <2>2. calls' = SubSeq(calls, 1, n)
    BY DEF Pop
  <2> HIDE DEF n
  <2>3. /\ SubSeq(calls, 1, n) \in Seq(CallType)
        /\ Len(SubSeq(calls, 1, n)) = n
        /\ \A m \in 1..n : SubSeq(calls, 1, n)[m] = calls[m]
    BY <2>1, SubSeqProperties
  <2> QED BY <2>2, <2>3 DEF n
<1>3. \A m \in DOMAIN calls' : m \in DOMAIN calls /\ calls'[m] = calls[m]
  BY <1>1, <1>2 DEF Stack
<1> QED BY <1>2, <1>3 DEF Stack

LEMMA PushStack ==
  ASSUME Stack(calls), NEW c \in Callables, NEW arguments \in Arguments, Call(c, arguments)
  PROVE  /\ Stack(calls')
         /\ DOMAIN calls' = DOMAIN calls \cup {Len(calls) + 1}
         /\ \A m \in DOMAIN calls : calls'[m] = calls[m]
         /\ calls'[Len(calls) + 1] = NewCall(c, arguments)
<1>1. NewCall(c, arguments) \in CallType
  BY DEF NewCall, CallType
<1>2. DefaultInRange(NewCall(c, arguments))
  BY DEF NewCall, DefaultInRange
<1>3. calls' = Append(calls, NewCall(c, arguments))
  BY DEF Call
<1>4. /\ calls' \in Seq(CallType)
      /\ DOMAIN calls' = DOMAIN calls \cup {Len(calls) + 1}
      /\ \A m \in DOMAIN calls : calls'[m] = calls[m]
      /\ calls'[Len(calls) + 1] = NewCall(c, arguments)
  BY <1>1, <1>3, AppendProperties DEF Stack
<1> QED BY <1>2, <1>4 DEF Stack

\* One more parameter is built.
LEMMA BuiltType ==
  ASSUME Stack(calls), Busy, NEW source \in Source, NEW used \in Nat,
         source.from = "default" => source.index \in 1..Top.callable.defaults
  PROVE  /\ Built(Top, source, used) \in CallType
         /\ DefaultInRange(Built(Top, source, used))
         /\ Built(Top, source, used).taken = Top.taken
         /\ Built(Top, source, used).arguments = Top.arguments
         /\ DOMAIN Built(Top, source, used).built = DOMAIN Top.built \cup {Next_k}
         /\ \A k \in DOMAIN Top.built : Built(Top, source, used).built[k] = Top.built[k]
         /\ Built(Top, source, used).built[Next_k] = source
         /\ Next_k \notin DOMAIN Top.built
<1> DEFINE b == Append(Top.built, source)
           call == Built(Top, source, used)
<1>1. /\ b \in Seq(Source)
      /\ DOMAIN b = DOMAIN Top.built \cup {Next_k}
      /\ \A k \in DOMAIN Top.built : b[k] = Top.built[k]
      /\ b[Next_k] = source
      /\ Next_k \notin DOMAIN Top.built
  BY TopFacts, AppendProperties
<1>2. Top \in CallType /\ Top.i + used \in Nat
  BY TopFacts
<1> HIDE DEF b
<1>3. call = [Top EXCEPT !.built = b, !.i = Top.i + used]
  BY DEF Built, b
<1>4. call \in CallType
  BY <1>1, <1>2, <1>3 DEF CallType, Source
<1>5. /\ call.taken = Top.taken /\ call.arguments = Top.arguments
      /\ call.built = b /\ call.callable = Top.callable
  BY <1>2, <1>3 DEF CallType
<1> HIDE DEF call
<1>6. DefaultInRange(call)
  BY <1>1, <1>5, TopFacts DEF DefaultInRange
<1> QED BY <1>1, <1>4, <1>5, <1>6 DEF call

-------------------------------------------------------------------------------
(* Typing.                                                                 *)

Owners == [Objects \cup {Foreign} -> {"free", "js", "cpp", "lost"}]

Typed ==
  /\ Stack(calls)
  /\ owner \in Owners
  /\ \A d \in changed : d[1] \in Callables /\ d[2] \in 1..d[1].defaults

LEMMA TypedIsTypeOK == Typed <=> TypeOK
BY DEF Typed, TypeOK, Stack, DefaultInRange, Owners

\* The parameter that a step builds, and from what; an object of another type may be
\* lost.
BuildsFrom(source, used) ==
  /\ Busy
  /\ source \in Source /\ used \in Nat
  /\ source.from = "default" => source.index \in 1..Top.callable.defaults
  /\ SetTop(Built(Top, source, used))
  /\ UNCHANGED changed
  /\ owner' = owner \/ owner' = [owner EXCEPT ![Foreign] = "lost"]

Builds == \E source \in Source, used \in Nat : BuildsFrom(source, used)

LEMMA Sources ==
  ASSUME Typed
  PROVE  /\ \A n \in Nat : Argument(n) \in Source /\ Argument(n).from = "argument"
         /\ \A n \in Nat, b \in BOOLEAN : Default(n, b) \in Source
         /\ \A n \in Nat : Info(n) \in Source /\ Info(n).from = "info"
         /\ Nothing \in Source /\ Nothing.from = "nothing"
BY DEF Argument, Info, Default, Nothing, Source

LEMMA BuildingSteps ==
  ASSUME Typed,
         \/ BuildFromArgument \/ BuildFromNextArgument \/ BuildFromInfo \/ TakeForeign
         \/ TakeCopy \/ BuildFromDefault \/ BuildLocal \/ BuildWithoutArgument
  PROVE  Builds
<1>0. Busy
  BY DEF BuildFromArgument, BuildFromNextArgument, BuildFromInfo, TakeForeign, TakeCopy,
         BuildFromDefault, BuildLocal, BuildWithoutArgument, Building, Phase
<1>1. Top.i \in Nat /\ Top.callable \in Callable /\ Next_k \in Nat
      /\ Top.callable.defaults \in Nat
  BY <1>0, TopFacts DEF Typed
<1>2. Top.i + 1 \in Nat /\ Top.i + 2 \in Nat
  BY <1>1
<1>3. CASE BuildFromDefault
  <2> DEFINE n == PositionOf(Top.callable, Next_k) + 1
             source == Default(n, <<Top.callable, n>> \in changed)
  <2>1. n \in 1..Top.callable.defaults
    BY <1>1, <1>3 DEF BuildFromDefault, HasDefault
  <2>2. source \in Source /\ source.index = n
    BY <1>1, <2>1 DEF Default, Source
  <2>3. SetTop(Built(Top, source, 0)) /\ UNCHANGED <<owner, changed>>
    BY <1>3 DEF BuildFromDefault
  <2> HIDE DEF n, source
  <2>4. BuildsFrom(source, 0)
    BY <1>0, <2>1, <2>2, <2>3 DEF BuildsFrom
  <2> QED BY <2>2, <2>4 DEF Builds
<1>4. CASE BuildFromArgument \/ TakeForeign \/ TakeCopy \/ BuildLocal
  <2>1. BuildsFrom(Argument(Top.i + 1), 1)
    BY <1>0, <1>2, <1>4, Sources
    DEF BuildsFrom, BuildFromArgument, TakeForeign, TakeCopy, BuildLocal
  <2> QED BY <1>2, <2>1, Sources DEF Builds
<1>5. CASE BuildFromNextArgument
  <2>1. BuildsFrom(Argument(Top.i + 2), 2)
    BY <1>0, <1>2, <1>5, Sources DEF BuildsFrom, BuildFromNextArgument
  <2> QED BY <1>2, <2>1, Sources DEF Builds
<1>6. CASE BuildWithoutArgument
  <2>1. BuildsFrom(Nothing, 0)
    BY <1>0, <1>6, Sources DEF BuildsFrom, BuildWithoutArgument
  <2> QED BY <2>1, Sources DEF Builds
<1>7. CASE BuildFromInfo
  <2>1. BuildsFrom(Info(Top.i + 1), 1)
    BY <1>0, <1>2, <1>7, Sources DEF BuildsFrom, BuildFromInfo
  <2> QED BY <1>2, <2>1, Sources DEF Builds
<1> QED BY <1>3, <1>4, <1>5, <1>6, <1>7

\* The top call goes on, and gives up the parameters in gone.
GoesOn(gone) ==
  /\ Busy
  /\ \E phase \in {"building", "running", "failed", "missing"} :
       SetTop([Top EXCEPT !.phase = phase, !.taken = @ \ gone])

LEMMA GoesOnType ==
  ASSUME Stack(calls), NEW gone, GoesOn(gone)
  PROVE  /\ Stack(calls')
         /\ DOMAIN calls' = DOMAIN calls /\ Len(calls) \in DOMAIN calls
         /\ \A m \in DOMAIN calls :
              /\ calls'[m].taken = IF m = Len(calls) THEN Top.taken \ gone ELSE calls[m].taken
              /\ calls'[m].built = calls[m].built
              /\ calls'[m].arguments = calls[m].arguments
<1> PICK phase \in {"building", "running", "failed", "missing"} :
      SetTop([Top EXCEPT !.phase = phase, !.taken = @ \ gone])
  BY DEF GoesOn
<1> DEFINE call == [Top EXCEPT !.phase = phase, !.taken = @ \ gone]
<1>1. Busy
  BY DEF GoesOn
<1>2. Top \in CallType /\ DefaultInRange(Top)
  BY <1>1, TopFacts
<1>3. /\ call \in CallType /\ call.built = Top.built /\ call.callable = Top.callable
      /\ call.arguments = Top.arguments /\ call.taken = Top.taken \ gone
  BY <1>2 DEF CallType
<1>4. DefaultInRange(call)
  BY <1>2, <1>3 DEF DefaultInRange
<1>5. SetTop(call)
  OBVIOUS
<1>6. Top = calls[Len(calls)] /\ Len(calls) \in DOMAIN calls
  BY <1>1, TopFacts DEF Top
<1> HIDE DEF call
<1> QED BY <1>1, <1>3, <1>4, <1>5, <1>6, SetTopStack

LEMMA GoingOnSteps ==
  ASSUME Typed
  PROVE  /\ ConversionThrows \/ MissingParameter \/ Enter \/ BodyThrows
              => GoesOn({}) /\ UNCHANGED <<owner, changed>>
         /\ \A k : Keep(k) => GoesOn({k}) /\ k \in Top.taken /\ UNCHANGED <<owner, changed>>
         /\ \A k : Destroy(k) =>
              /\ GoesOn({k}) /\ k \in Top.taken /\ UNCHANGED changed
              /\ owner' = [owner EXCEPT ![ObjectOf(Top, k)] = "free"]
<1>1. ASSUME Busy, NEW phase PROVE [Top EXCEPT !.phase = phase] =
                                     [Top EXCEPT !.phase = phase, !.taken = @ \ {}]
  BY <1>1, TopFacts DEF Typed, CallType
<1>2. ASSUME ConversionThrows \/ MissingParameter \/ Enter \/ BodyThrows PROVE GoesOn({})
  <2>1. Busy
    BY <1>2 DEF ConversionThrows, MissingParameter, Enter, BodyThrows, Building, Phase
  <2>2. \E phase \in {"building", "running", "failed", "missing"} :
          SetTop([Top EXCEPT !.phase = phase])
    BY <1>2 DEF ConversionThrows, MissingParameter, Enter, BodyThrows
  <2> QED BY <1>1, <2>1, <2>2 DEF GoesOn
<1>3. ASSUME NEW k, Keep(k) \/ Destroy(k) PROVE GoesOn({k})
  <2>1. Busy
    BY <1>3 DEF Keep, Destroy, Phase
  <2>2. SetTop([Top EXCEPT !.taken = @ \ {k}])
    BY <1>3 DEF Keep, Destroy
  <2>3. /\ Top.phase \in {"building", "running", "failed", "missing"}
        /\ [Top EXCEPT !.taken = @ \ {k}] = [Top EXCEPT !.phase = Top.phase, !.taken = @ \ {k}]
    BY <2>1, TopFacts DEF Typed, CallType
  <2> QED BY <2>1, <2>2, <2>3 DEF GoesOn
<1>4. ConversionThrows \/ MissingParameter \/ Enter \/ BodyThrows => UNCHANGED <<owner, changed>>
  BY DEF ConversionThrows, MissingParameter, Enter, BodyThrows
<1>5. \A k : Keep(k) => k \in Top.taken /\ UNCHANGED <<owner, changed>>
  BY DEF Keep
<1>6. \A k : Destroy(k) => /\ k \in Top.taken /\ UNCHANGED changed
                           /\ owner' = [owner EXCEPT ![ObjectOf(Top, k)] = "free"]
  BY DEF Destroy
<1> QED BY <1>2, <1>3, <1>4, <1>5, <1>6

\* Take, with what it builds apart from what it takes.
LEMMA TakeType ==
  ASSUME Typed, Take
  PROVE  LET o == NextArgument
             call == [Built(Top, Argument(Top.i + 1), 1) EXCEPT !.taken = @ \cup {Next_k}]
         IN  /\ Stack(calls') /\ Busy
             /\ DOMAIN calls' = DOMAIN calls /\ Len(calls) \in DOMAIN calls
             /\ \A m \in DOMAIN calls :
                  calls'[m] = IF m = Len(calls) THEN call ELSE calls[m]
             /\ call.taken = Top.taken \cup {Next_k}
             /\ call.arguments = Top.arguments
             /\ DOMAIN call.built = DOMAIN Top.built \cup {Next_k}
             /\ Next_k \notin DOMAIN Top.built
             /\ \A k \in DOMAIN Top.built : call.built[k] = Top.built[k]
             /\ call.built[Next_k].index = Top.i + 1
             /\ Top.i + 1 \in DOMAIN Top.arguments /\ o = Top.arguments[Top.i + 1]
             /\ o \in Objects /\ owner[o] = "js"
             /\ owner' = [owner EXCEPT ![o] = "cpp"] /\ UNCHANGED changed
<1> DEFINE o == NextArgument
           built == Built(Top, Argument(Top.i + 1), 1)
           call == [built EXCEPT !.taken = @ \cup {Next_k}]
<1>1. Busy /\ Stack(calls)
  BY DEF Take, Building, Phase, Typed
<1>2. Top.i \in Nat /\ Top.i + 1 \in Nat /\ Next_k \in Nat
  BY <1>1, TopFacts
<1>3. /\ Argument(Top.i + 1) \in Source /\ Argument(Top.i + 1).from = "argument"
      /\ Argument(Top.i + 1).index = Top.i + 1
  BY <1>2, Sources DEF Argument
<1>4. /\ built \in CallType /\ DefaultInRange(built)
      /\ built.taken = Top.taken /\ built.arguments = Top.arguments
      /\ DOMAIN built.built = DOMAIN Top.built \cup {Next_k}
      /\ \A k \in DOMAIN Top.built : built.built[k] = Top.built[k]
      /\ built.built[Next_k] = Argument(Top.i + 1)
      /\ Next_k \notin DOMAIN Top.built
  BY <1>1, <1>3, BuiltType
<1>5. SetTop(call)
  BY DEF Take
<1> HIDE DEF built
<1>6. /\ call \in CallType /\ call.built = built.built /\ call.callable = built.callable
      /\ call.arguments = built.arguments /\ call.taken = built.taken \cup {Next_k}
  BY <1>2, <1>4 DEF CallType
<1>7. DefaultInRange(call)
  BY <1>4, <1>6 DEF DefaultInRange
<1> HIDE DEF call
<1>8. /\ Stack(calls')
      /\ DOMAIN calls' = DOMAIN calls /\ Len(calls) \in DOMAIN calls
      /\ \A m \in DOMAIN calls : calls'[m] = IF m = Len(calls) THEN call ELSE calls[m]
  BY <1>1, <1>5, <1>6, <1>7, SetTopStack, TopFacts
<1>9. Top.i + 1 \in DOMAIN Top.arguments
  <2>1. Top.i < Len(Top.arguments)
    BY DEF Take, Given
  <2>2. Top.arguments \in Seq(Objects \cup {Plain, Foreign})
    BY <1>1, TopFacts
  <2> QED BY <1>2, <2>1, <2>2
<1>10. /\ o = Top.arguments[Top.i + 1] /\ o \in Objects /\ owner[o] = "js"
       /\ owner' = [owner EXCEPT ![o] = "cpp"] /\ UNCHANGED changed
  BY DEF Take, NextArgument
<1> HIDE DEF o
<1> QED BY <1>1, <1>3, <1>4, <1>6, <1>8, <1>9, <1>10 DEF call, built, o


\* A call ends; if it is one of a constructor, JavaScript may have a new object.
LEMMA EndingSteps ==
  ASSUME Typed, Return \/ Rethrow
  PROVE  /\ Stack(calls')
         /\ \A m \in DOMAIN calls' : m \in DOMAIN calls /\ calls'[m] = calls[m]
         /\ Construct \/ UNCHANGED owner
         /\ UNCHANGED changed
<1>1. Busy /\ Pop /\ Stack(calls)
  BY DEF Return, Rethrow, Phase, Typed
<1>2. (Construct \/ UNCHANGED owner) /\ UNCHANGED changed
  BY DEF Return, Rethrow
<1> QED BY <1>1, <1>2, PopStack

LEMMA ChangingSteps ==
  ASSUME Typed, NEW k, ChangeDefault(k)
  PROVE  /\ \A d \in changed' : d[1] \in Callables /\ d[2] \in 1..d[1].defaults
         /\ UNCHANGED <<calls, owner>>
<1> DEFINE d == <<Top.callable, Top.built[k].index>>
<1>1. Busy /\ Stack(calls)
  BY DEF ChangeDefault, Phase, Typed
<1>2. Top.callable \in Callables /\ DefaultInRange(Top)
  BY <1>1, TopFacts
<1>3. Top.built[k].index \in 1..Top.callable.defaults
  BY <1>2 DEF ChangeDefault, DefaultInRange
<1>4. changed' = changed \cup {d} /\ UNCHANGED <<calls, owner>>
  BY DEF ChangeDefault
<1>5. d[1] \in Callables /\ d[2] \in 1..d[1].defaults
  BY <1>2, <1>3
<1> HIDE DEF d
<1> QED BY <1>4, <1>5 DEF Typed

\* What a step does, by what it does to the calls.
LEMMA Steps ==
  ASSUME Typed, [Next]_vars
  PROVE  \/ \E c \in Callables, arguments \in Arguments : Call(c, arguments)
         \/ Builds
         \/ Take
         \/ \E gone : GoesOn(gone) /\ UNCHANGED <<owner, changed>>
         \/ \E k : Destroy(k)
         \/ \E k : ChangeDefault(k)
         \/ Return \/ Rethrow
         \/ \E o \in Objects : Collect(o) \/ CppDelete(o)
         \/ UNCHANGED vars
<1>1. ASSUME \/ BuildFromArgument \/ BuildFromNextArgument \/ BuildFromInfo \/ TakeForeign
             \/ TakeCopy \/ BuildFromDefault \/ BuildLocal \/ BuildWithoutArgument
      PROVE  Builds
  BY <1>1, BuildingSteps
<1>2. ASSUME ConversionThrows \/ MissingParameter \/ Enter \/ BodyThrows
      PROVE  \E gone : GoesOn(gone) /\ UNCHANGED <<owner, changed>>
  BY <1>2, GoingOnSteps
<1>3. ASSUME NEW k, Keep(k)
      PROVE  \E gone : GoesOn(gone) /\ UNCHANGED <<owner, changed>>
  BY <1>3, GoingOnSteps
<1> QED BY <1>1, <1>2, <1>3 DEF Next

LEMMA BuildsType ==
  ASSUME Typed, Builds
  PROVE  /\ Stack(calls') /\ UNCHANGED changed /\ owner' \in Owners
         /\ \A o \in Objects : owner'[o] = owner[o]
         /\ DOMAIN calls' = DOMAIN calls
         /\ \A m \in DOMAIN calls :
              /\ calls'[m].taken = calls[m].taken
              /\ calls'[m].arguments = calls[m].arguments
              /\ DOMAIN calls[m].built \subseteq DOMAIN calls'[m].built
              /\ \A k \in DOMAIN calls[m].built : calls'[m].built[k] = calls[m].built[k]
<1> PICK source \in Source, used \in Nat : BuildsFrom(source, used)
  BY DEF Builds
<1> DEFINE call == Built(Top, source, used)
<1>1. Busy /\ Stack(calls) /\ SetTop(call) /\ UNCHANGED changed
  BY DEF BuildsFrom, Typed
<1>5. owner' \in Owners /\ \A o \in Objects : owner'[o] = owner[o]
  <2>1. owner \in Owners /\ (owner' = owner \/ owner' = [owner EXCEPT ![Foreign] = "lost"])
    BY DEF BuildsFrom, Typed
  <2>2. \A o \in Objects : o # Foreign
    OBVIOUS
  <2> QED BY <2>1, <2>2 DEF Owners
<1>2. source.from = "default" => source.index \in 1..Top.callable.defaults
  BY DEF BuildsFrom
<1>3. /\ call \in CallType /\ DefaultInRange(call)
      /\ call.taken = Top.taken /\ call.arguments = Top.arguments
      /\ DOMAIN Top.built \subseteq DOMAIN call.built
      /\ \A k \in DOMAIN Top.built : call.built[k] = Top.built[k]
  BY <1>1, <1>2, BuiltType
<1> HIDE DEF call
<1>4. Top = calls[Len(calls)]
  BY DEF Top
<1> QED BY <1>1, <1>3, <1>4, <1>5, SetTopStack

LEMMA TypeInit == Init => Typed
<1>1. <<>> \in Seq(CallType) /\ DOMAIN <<>> = {}
  OBVIOUS
<1> QED BY <1>1 DEF Init, Typed, Stack, Owners

LEMMA TypeStep == Typed /\ [Next]_vars => Typed'
<1> SUFFICES ASSUME Typed, [Next]_vars PROVE Typed'
  OBVIOUS
<1> USE DEF Typed, Owners
<1>1. ASSUME NEW c \in Callables, NEW arguments \in Arguments, Call(c, arguments) PROVE Typed'
  BY <1>1, PushStack DEF Call
<1>2. CASE Builds
  BY <1>2, BuildsType
<1>3. CASE Take
  BY <1>3, TakeType
<1>4. ASSUME NEW gone, GoesOn(gone), UNCHANGED <<owner, changed>> PROVE Typed'
  BY <1>4, GoesOnType
<1>5. ASSUME NEW k, Destroy(k) PROVE Typed'
  <2>1. GoesOn({k}) /\ UNCHANGED changed /\ owner' = [owner EXCEPT ![ObjectOf(Top, k)] = "free"]
    BY <1>5, GoingOnSteps
  <2> QED BY <2>1, GoesOnType
<1>6. ASSUME NEW k, ChangeDefault(k) PROVE Typed'
  BY <1>6, ChangingSteps
<1>7. CASE Return \/ Rethrow
  BY <1>7, EndingSteps DEF Construct
<1>8. ASSUME NEW o \in Objects, Collect(o) \/ CppDelete(o) PROVE Typed'
  BY <1>8 DEF Collect, CppDelete
<1>9. CASE UNCHANGED vars
  BY <1>9 DEF vars
<1> QED BY <1>1, <1>2, <1>3, <1>4, <1>5, <1>6, <1>7, <1>8, <1>9, Steps

\* Every variable always has its type, and no parameter was built from a default
\* that its function does not have.
THEOREM Typing == Spec => []TypeOK
BY TypeInit, TypeStep, TypedIsTypeOK, PTL DEF Spec

-------------------------------------------------------------------------------
(* Objects that parameters hold.                                           *)

\* The parameter is built, from an argument that is an object.
Holds(call, k) ==
  /\ k \in DOMAIN call.built
  /\ call.built[k].index \in DOMAIN call.arguments
  /\ ObjectOf(call, k) \in Objects

TakenInv ==
  /\ Typed
  /\ \A m \in DOMAIN calls : \A k \in calls[m].taken : Holds(calls[m], k)
  /\ TakenIsOwned

\* A step after which no parameter holds what it did not hold, and that frees nothing
\* held.
LEMMA NothingTaken ==
  ASSUME TakenInv, Typed',
         \A m \in DOMAIN calls' : \A k \in calls'[m].taken :
           /\ m \in DOMAIN calls /\ k \in calls[m].taken
           /\ k \in DOMAIN calls'[m].built
           /\ calls'[m].built[k] = calls[m].built[k]
           /\ calls'[m].arguments = calls[m].arguments
           /\ owner'[ObjectOf(calls[m], k)] = owner[ObjectOf(calls[m], k)]
  PROVE  TakenInv'
<1>1. \A m \in DOMAIN calls' : \A k \in calls'[m].taken :
        /\ ObjectOf(calls'[m], k) = ObjectOf(calls[m], k)
        /\ Holds(calls'[m], k)
  BY DEF TakenInv, ObjectOf, Holds
<1>2. TakenIsOwned'
  BY <1>1 DEF TakenInv, TakenIsOwned
<1> QED BY <1>1, <1>2 DEF TakenInv

\* Where the calls stay as they are, or only lose the last one.
LEMMA CallsStay ==
  ASSUME TakenInv, Typed', \A m \in DOMAIN calls' : m \in DOMAIN calls /\ calls'[m] = calls[m],
         \A m \in DOMAIN calls : \A k \in calls[m].taken :
           owner'[ObjectOf(calls[m], k)] = owner[ObjectOf(calls[m], k)]
  PROVE  TakenInv'
BY NothingTaken DEF TakenInv, Holds

LEMMA TakenInit == Init => TakenInv
BY TypeInit DEF Init, TakenInv, TakenIsOwned

LEMMA TakenStep == TakenInv /\ [Next]_vars => TakenInv'
<1> SUFFICES ASSUME TakenInv, [Next]_vars PROVE TakenInv'
  OBVIOUS
<1>0. /\ Typed /\ Typed' /\ Stack(calls) /\ TakenIsOwned
      /\ owner \in Owners
      /\ \A m \in DOMAIN calls : \A k \in calls[m].taken :
           /\ Holds(calls[m], k) /\ ObjectOf(calls[m], k) \in Objects
           /\ owner[ObjectOf(calls[m], k)] = "cpp"
  BY TypeStep DEF TakenInv, Typed, TakenIsOwned, Holds
<1>1. ASSUME NEW c \in Callables, NEW arguments \in Arguments, Call(c, arguments)
      PROVE  TakenInv'
  <2>1. /\ DOMAIN calls' = DOMAIN calls \cup {Len(calls) + 1}
        /\ \A m \in DOMAIN calls : calls'[m] = calls[m]
        /\ calls'[Len(calls) + 1] = NewCall(c, arguments)
    BY <1>0, <1>1, PushStack
  <2>2. NewCall(c, arguments).taken = {}
    BY DEF NewCall
  <2>3. \A m \in DOMAIN calls' : \A k : k \in calls'[m].taken => m \in DOMAIN calls
    BY <2>1, <2>2
  <2>4. UNCHANGED owner
    BY <1>1 DEF Call
  <2> QED BY <1>0, <2>1, <2>3, <2>4, NothingTaken DEF Holds
<1>2. CASE Builds
  BY <1>0, <1>2, BuildsType, NothingTaken DEF Holds
<1>3. CASE Take
  <2> DEFINE o == NextArgument
             call == [Built(Top, Argument(Top.i + 1), 1) EXCEPT !.taken = @ \cup {Next_k}]
             last == Len(calls)
  <2>1. /\ DOMAIN calls' = DOMAIN calls /\ last \in DOMAIN calls
        /\ \A m \in DOMAIN calls : calls'[m] = IF m = last THEN call ELSE calls[m]
        /\ call.taken = Top.taken \cup {Next_k}
        /\ call.arguments = Top.arguments
        /\ DOMAIN call.built = DOMAIN Top.built \cup {Next_k}
        /\ Next_k \notin DOMAIN Top.built
        /\ \A k \in DOMAIN Top.built : call.built[k] = Top.built[k]
        /\ call.built[Next_k].index = Top.i + 1
        /\ Top.i + 1 \in DOMAIN Top.arguments /\ o = Top.arguments[Top.i + 1]
        /\ o \in Objects /\ owner[o] = "js"
        /\ owner' = [owner EXCEPT ![o] = "cpp"]
    BY <1>0, <1>3, TakeType
  <2>2. Top = calls[last]
    BY DEF Top
  <2> HIDE DEF o, call, last
  <2>3. ObjectOf(call, Next_k) = o /\ Holds(call, Next_k)
    BY <2>1 DEF ObjectOf, Holds
  <2>4. \A k \in Top.taken : /\ k # Next_k
                             /\ Holds(call, k) /\ ObjectOf(call, k) = ObjectOf(Top, k)
    BY <1>0, <2>1, <2>2 DEF ObjectOf, Holds
  <2>5. \A m \in DOMAIN calls : \A k \in calls[m].taken :
          /\ Holds(calls'[m], k) /\ ObjectOf(calls'[m], k) = ObjectOf(calls[m], k)
          /\ ObjectOf(calls'[m], k) # o
          /\ owner'[ObjectOf(calls'[m], k)] = "cpp"
    BY <1>0, <2>1, <2>2, <2>4
  <2>6. \A m \in DOMAIN calls' : \A k :
          k \in calls'[m].taken => \/ m \in DOMAIN calls /\ k \in calls[m].taken
                                   \/ m = last /\ k = Next_k
    BY <2>1, <2>2
  <2>7. /\ Holds(calls'[last], Next_k) /\ ObjectOf(calls'[last], Next_k) = o
        /\ owner'[o] = "cpp"
    <3>1. o \in DOMAIN owner
      BY <1>0, <2>1 DEF TakenInv, Typed, Owners
    <3>2. owner'[o] = "cpp"
      BY <2>1, <3>1
    <3>3. calls'[last] = call
      BY <2>1
    <3> QED BY <2>3, <3>2, <3>3
  <2>8. \A m \in DOMAIN calls' : \A k \in calls'[m].taken :
          /\ Holds(calls'[m], k)
          /\ owner'[ObjectOf(calls'[m], k)] = "cpp"
    BY <2>5, <2>6, <2>7
  <2>9. \A m1, m2 \in DOMAIN calls' : \A k1 \in calls'[m1].taken, k2 \in calls'[m2].taken :
          ObjectOf(calls'[m1], k1) = ObjectOf(calls'[m2], k2) => m1 = m2 /\ k1 = k2
    BY <1>0, <2>5, <2>6, <2>7 DEF TakenIsOwned
  <2>10. TakenIsOwned'
    BY <2>8, <2>9 DEF TakenIsOwned
  <2> QED BY <1>0, <2>8, <2>10 DEF TakenInv
<1>4. ASSUME NEW gone, GoesOn(gone), UNCHANGED <<owner, changed>> PROVE TakenInv'
  BY <1>0, <1>4, GoesOnType, NothingTaken DEF Holds, Top
<1>5. ASSUME NEW d, Destroy(d) PROVE TakenInv'
  <2>1. /\ GoesOn({d}) /\ d \in Top.taken
        /\ owner' = [owner EXCEPT ![ObjectOf(Top, d)] = "free"]
    BY <1>0, <1>5, GoingOnSteps
  <2>2. /\ DOMAIN calls' = DOMAIN calls /\ Len(calls) \in DOMAIN calls
        /\ \A m \in DOMAIN calls :
             /\ calls'[m].taken = IF m = Len(calls) THEN Top.taken \ {d} ELSE calls[m].taken
             /\ calls'[m].built = calls[m].built
             /\ calls'[m].arguments = calls[m].arguments
    BY <1>0, <2>1, GoesOnType
  <2>3. Top = calls[Len(calls)]
    BY DEF Top
  <2>4. \A m \in DOMAIN calls : \A k \in calls'[m].taken :
          /\ k \in calls[m].taken
          /\ ObjectOf(calls[m], k) # ObjectOf(Top, d)
    BY <1>0, <2>1, <2>2, <2>3 DEF TakenIsOwned
  <2>5. \A m \in DOMAIN calls : \A k \in calls'[m].taken :
          owner'[ObjectOf(calls[m], k)] = owner[ObjectOf(calls[m], k)]
    BY <1>0, <2>1, <2>4
  <2> QED BY <1>0, <2>2, <2>4, <2>5, NothingTaken DEF Holds
<1>6. ASSUME NEW k, ChangeDefault(k) PROVE TakenInv'
  BY <1>0, <1>6, ChangingSteps, CallsStay
<1>7. CASE Return \/ Rethrow
  <2>1. /\ \A m \in DOMAIN calls' : m \in DOMAIN calls /\ calls'[m] = calls[m]
        /\ Construct \/ UNCHANGED owner
    BY <1>0, <1>7, EndingSteps
  <2>2. ASSUME Construct, NEW m \in DOMAIN calls, NEW k \in calls[m].taken
        PROVE  owner'[ObjectOf(calls[m], k)] = owner[ObjectOf(calls[m], k)]
    BY <1>0, <2>2 DEF Construct, Vacant
  <2> QED BY <1>0, <2>1, <2>2, CallsStay
<1>8. ASSUME NEW o \in Objects, Collect(o) \/ CppDelete(o) PROVE TakenInv'
  <2>1. UNCHANGED calls /\ owner' = [owner EXCEPT ![o] = "free"]
    BY <1>8 DEF Collect, CppDelete
  <2>2. \A m \in DOMAIN calls : \A k \in calls[m].taken : ObjectOf(calls[m], k) # o
    BY <1>0, <1>8 DEF Collect, CppDelete, Held
  <2> QED BY <1>0, <2>1, <2>2, CallsStay
<1>9. CASE UNCHANGED vars
  BY <1>0, <1>9, CallsStay DEF vars
<1> QED BY <1>0, <1>1, <1>2, <1>3, <1>4, <1>5, <1>6, <1>7, <1>8, <1>9, Steps

\* An object that a unique_ptr parameter took from JavaScript is held by that
\* parameter alone, and by C++, until it is kept or destroyed.
THEOREM Taken == Spec => []TakenIsOwned
<1>1. TakenInv => TakenIsOwned
  BY DEF TakenInv
<1> QED BY <1>1, TakenInit, TakenStep, PTL DEF Spec

-------------------------------------------------------------------------------
(* What parameters are built from.                                         *)

LEMMA CallableFacts ==
  ASSUME NEW c \in Callables
  PROVE  /\ c.parameters \in Seq(ParameterKinds) /\ Len(c.parameters) \in Nat
         /\ DOMAIN c.parameters = 1..Len(c.parameters)
         /\ c.defaults \in Nat /\ c.defaults <= Len(c.parameters)
         /\ FirstDefault(c) \in Nat \ {0} /\ c.returns \in BOOLEAN
<1>1. c \in Callable /\ c.defaults <= Len(c.parameters)
  OBVIOUS
<1>2. c.parameters \in Seq(ParameterKinds) /\ c.defaults \in Nat /\ c.returns \in BOOLEAN
  BY <1>1 DEF Callable
<1>3. Len(c.parameters) \in Nat /\ DOMAIN c.parameters = 1..Len(c.parameters)
  BY <1>2, LenProperties
<1> QED BY <1>1, <1>2, <1>3 DEF FirstDefault

\* The defaults that are found are those of the last parameters, in order.
LEMMA DefaultsFound ==
  ASSUME NEW c \in Callables, DefaultsReach(c), NEW k \in DOMAIN c.parameters
  PROVE  /\ HasDefault(c, k) <=> k >= FirstDefault(c)
         /\ HasDefault(c, k) => PositionOf(c, k) + 1 = k - FirstDefault(c) + 1
<1> DEFINE d == c.defaults
           n == Len(c.parameters)
           r == IF c.returns THEN 0 ELSE 1
<1>1. /\ k \in 1..n /\ n \in Nat /\ d \in Nat /\ d <= n /\ r \in {0, 1}
  BY CallableFacts
<1>2. k >= FirstDefault(c) => c.parameters[k] \notin {"const", "reference"}
  BY DEF DefaultsReach
<1>3. FirstDefault(c) = n - d + 1
  BY DEF FirstDefault
<1>4. c.kind = "fake" => /\ PositionOf(c, k) = (k - 1) - d - r
                         /\ d = 0 \/ n = 2 * d + r
  BY DEF PositionOf, FakePosition, DefaultsReach
<1>5. c.kind # "fake" => PositionOf(c, k) = (k - 1) - (n - d)
  BY DEF PositionOf, Position
<1>6. HasDefault(c, k) <=> /\ c.parameters[k] \notin {"const", "reference"}
                           /\ PositionOf(c, k) \in 0..(d - 1)
  BY DEF HasDefault
<1> HIDE DEF d, n, r
<1>7. d = 0 \/ PositionOf(c, k) = (k - 1) - (n - d)
  BY <1>1, <1>4, <1>5
<1>8. CASE d = 0
  <2>1. ~(PositionOf(c, k) \in 0..(d - 1))
    BY <1>8
  <2>2. ~(k >= FirstDefault(c))
    BY <1>1, <1>3, <1>8
  <2> QED BY <1>6, <2>1, <2>2
<1>9. CASE PositionOf(c, k) = (k - 1) - (n - d)
  <2>1. PositionOf(c, k) \in 0..(d - 1) <=> k >= FirstDefault(c)
    BY <1>1, <1>3, <1>9
  <2>2. PositionOf(c, k) + 1 = k - FirstDefault(c) + 1
    BY <1>1, <1>3, <1>9
  <2> QED BY <1>2, <1>6, <2>1, <2>2
<1> QED BY <1>7, <1>8, <1>9

\* A v8::Local has no default, and so is before the first parameter that has.
LEMMA LocalFirst ==
  ASSUME NEW c \in Callables, DefaultsReach(c), NEW k \in DOMAIN c.parameters,
         c.parameters[k] \in {"unique_ptr", "local"}
  PROVE  k < FirstDefault(c)
<1>1. ~HasDefault(c, k)
  OBVIOUS
<1>2. k \in Nat /\ FirstDefault(c) \in Nat
  BY CallableFacts
<1> QED BY <1>1, <1>2, DefaultsFound

\* Arguments used by the first k parameters.
LEMMA RankFacts ==
  ASSUME NEW c
  PROVE  /\ \A k \in Nat : Rank(c, k) \in Nat
         /\ Rank(c, 0) = 0
         /\ \A k \in Nat : Rank(c, k + 1) = IF Consumes(c, k + 1) THEN Rank(c, k) + 1 ELSE Rank(c, k)
         /\ \A j, k \in Nat : j <= k => Rank(c, j) <= Rank(c, k)
         /\ FirstDefault(c) \in Nat \ {0} => Required(c) = Rank(c, FirstDefault(c) - 1)
<1> DEFINE S(k) == {j \in 1..k : Consumes(c, j)}
<1>1. ASSUME NEW k \in Nat PROVE IsFiniteSet(S(k)) /\ Cardinality(S(k)) \in Nat
  <2> HIDE CallAssumption
  <2>1. IsFiniteSet(1..k)
    <3>1. 1 \in Int /\ k \in Int
      OBVIOUS
    <3> QED BY <3>1, FS_Interval
  <2> DEFINE I == 1..k
  <2>2. S(k) \subseteq I
    OBVIOUS
  <2> HIDE DEF I, S
  <2>3. IsFiniteSet(S(k))
    BY <2>1, <2>2, FS_Subset DEF I
  <2> QED BY <2>3, FS_CardinalityType
<1>2. \A k : Rank(c, k) = Cardinality(S(k))
  BY DEF Rank
<1>3. Rank(c, 0) = 0
  <2>1. S(0) = {}
    OBVIOUS
  <2> HIDE DEF S
  <2> QED BY <1>2, <2>1, FS_EmptySet
<1>4. ASSUME NEW k \in Nat
      PROVE  Rank(c, k + 1) = IF Consumes(c, k + 1) THEN Rank(c, k) + 1 ELSE Rank(c, k)
  <2> DEFINE n == k + 1
  <2>1. n \notin S(k) /\ S(n) = IF Consumes(c, n) THEN S(k) \cup {n} ELSE S(k)
    OBVIOUS
  <2>2. IsFiniteSet(S(k))
    BY <1>1
  <2> HIDE DEF S, n
  <2>3. Cardinality(S(k) \cup {n}) = Cardinality(S(k)) + 1
    BY <2>1, <2>2, FS_AddElement
  <2>4. Rank(c, n) = IF Consumes(c, n) THEN Rank(c, k) + 1 ELSE Rank(c, k)
    BY <1>2, <2>1, <2>3
  <2> QED BY <2>4 DEF n
<1>5. ASSUME NEW j \in Nat, NEW k \in Nat, j <= k PROVE Rank(c, j) <= Rank(c, k)
  <2>1. S(j) \subseteq S(k)
    BY <1>5
  <2>2. IsFiniteSet(S(k))
    BY <1>1
  <2> HIDE DEF S
  <2> QED BY <1>2, <2>1, <2>2, FS_Subset
<1>6. Required(c) = Rank(c, FirstDefault(c) - 1)
  BY DEF Required, Rank
<1> QED BY <1>1, <1>2, <1>3, <1>4, <1>5, <1>6

\* The arguments used so far are those of the parameters that are built, or there are
\* no more and defaults are used.
Counted(call) ==
  LET c == call.callable
      k == Len(call.built)
      n == Len(call.arguments)
  IN \/ call.i = Rank(c, k)
     \/ k >= FirstDefault(c) /\ n <= call.i /\ call.i < Rank(c, k)

\* The call is of a function whose defaults reach its parameters.
Regular(call) == DefaultsReach(call.callable)

WellBuilt(call) ==
  Regular(call) =>
    /\ GetTheirs(call)
    /\ call.phase = "building" => Shifted(call, Len(call.built)) \/ Counted(call)
    /\ RejectedForReason(call)

ParametersInv ==
  /\ Typed
  /\ \A m \in DOMAIN calls : WellBuilt(calls[m])
  /\ \A d \in changed : SharesDefaults(d[1])

\* What is meant for a parameter is a matter of the function and the arguments.
LEMMA SameMeant ==
  ASSUME NEW call, NEW other,
         other.callable = call.callable, other.arguments = call.arguments
  PROVE  /\ Regular(other) <=> Regular(call)
         /\ \A k : Shifted(other, k) <=> Shifted(call, k)
         /\ \A k, built : Theirs(other, k, built) = Theirs(call, k, built)
BY DEF Regular, Shifted, Theirs

LEMMA StaysShifted ==
  ASSUME NEW call, NEW k \in Nat, Shifted(call, k) PROVE Shifted(call, k + 1)
<1>1. \A j \in 1..k : j \in 1..(k + 1)
  OBVIOUS
<1> QED BY <1>1 DEF Shifted

\* It is not about what a call holds.
LEMMA SameBuilt ==
  ASSUME NEW call, NEW other, WellBuilt(call),
         other.callable = call.callable, other.arguments = call.arguments,
         other.built = call.built, other.i = call.i, other.phase = call.phase
  PROVE  WellBuilt(other)
<1>1. Regular(call) => GetTheirs(other) /\ RejectedForReason(other)
  BY SameMeant DEF WellBuilt, GetTheirs, RejectedForReason
<1>2. Counted(call) => Counted(other)
  BY DEF Counted
<1> QED BY <1>1, <1>2, SameMeant DEF WellBuilt

LEMMA NewCallBuilt ==
  ASSUME NEW c \in Callables, NEW arguments PROVE WellBuilt(NewCall(c, arguments))
<1> DEFINE call == NewCall(c, arguments)
<1>1. /\ call.callable = c /\ call.built = <<>> /\ call.i = 0 /\ call.phase = "building"
  BY DEF NewCall
<1>2. Len(call.built) = 0 /\ DOMAIN call.built = {}
  BY <1>1
<1> HIDE DEF call
<1>3. Counted(call)
  BY <1>1, <1>2, RankFacts DEF Counted
<1> QED BY <1>1, <1>2, <1>3 DEF WellBuilt, GetTheirs, RejectedForReason, call

\* One more parameter gets what is meant for it, or the arguments are shifted.
LEMMA BuiltGetsTheirs ==
  ASSUME Typed, Busy, Phase("building"), WellBuilt(Top),
         NEW source \in Source, NEW used \in Nat,
         Regular(Top) =>
           \/ Shifted(Top, Next_k)
           \/ source = Theirs(Top, Next_k, source) /\ Counted(Built(Top, source, used))
  PROVE  WellBuilt(Built(Top, source, used))
<1> DEFINE call == Built(Top, source, used)
           b == Append(Top.built, source)
<1>0. Stack(calls)
  BY DEF Typed
<1>1. /\ DOMAIN b = DOMAIN Top.built \cup {Next_k}
      /\ \A k \in DOMAIN Top.built : b[k] = Top.built[k]
      /\ b[Next_k] = source /\ Len(b) = Next_k
  BY <1>0, TopFacts, AppendProperties
<1>2. Top \in CallType /\ Top.phase = "building"
  BY <1>0, TopFacts DEF Phase
<1> HIDE DEF b
<1>3. call = [Top EXCEPT !.built = b, !.i = Top.i + used]
  BY DEF Built, b
<1>4. /\ call.callable = Top.callable /\ call.arguments = Top.arguments /\ call.built = b
      /\ call.phase = "building"
  BY <1>2, <1>3 DEF CallType
<1> HIDE DEF call
<1>5. /\ Regular(call) <=> Regular(Top)
      /\ \A k : Shifted(call, k) <=> Shifted(Top, k)
      /\ \A k, built : Theirs(call, k, built) = Theirs(Top, k, built)
  BY <1>4, SameMeant
<1>6. ASSUME Regular(Top) PROVE GetTheirs(call)
  <2>1. GetTheirs(Top)
    BY <1>6 DEF WellBuilt
  <2>2. \A k \in DOMAIN Top.built : Shifted(call, k) \/ b[k] = Theirs(call, k, b[k])
    BY <1>1, <1>5, <2>1 DEF GetTheirs
  <2>3. Shifted(call, Next_k) \/ b[Next_k] = Theirs(call, Next_k, b[Next_k])
    BY <1>1, <1>5, <1>6
  <2> QED BY <1>1, <1>4, <2>2, <2>3 DEF GetTheirs
<1>7. Regular(Top) => Shifted(call, Len(call.built)) \/ Counted(call)
  BY <1>1, <1>4, <1>5 DEF call
<1> QED BY <1>4, <1>5, <1>6, <1>7 DEF WellBuilt, RejectedForReason, call

LEMMA BuildingFacts ==
  ASSUME Typed, NEW kinds, Building(kinds)
  PROVE  /\ Busy /\ Phase("building") /\ Top.phase = "building"
         /\ Top.callable \in Callables
         /\ Next_k \in DOMAIN Top.callable.parameters /\ Next_k \in Nat
         /\ Top.callable.parameters[Next_k] \in kinds
         /\ Next_k = Len(Top.built) + 1 /\ Len(Top.built) \in Nat
         /\ Top.i \in Nat /\ Len(Top.arguments) \in Nat
         /\ FirstDefault(Top.callable) \in Nat \ {0}
<1>1. Busy /\ Stack(calls) /\ Top.phase = "building"
  BY DEF Building, Phase, Typed
<1>2. /\ Top.callable \in Callables /\ Next_k = Len(Top.built) + 1 /\ Top.i \in Nat
      /\ Next_k \in Nat
      /\ Top.built \in Seq(Source) /\ Top.arguments \in Seq(Objects \cup {Plain, Foreign})
  BY <1>1, TopFacts
<1>3. Len(Top.built) \in Nat /\ Len(Top.arguments) \in Nat
  BY <1>2, LenProperties
<1> QED BY <1>1, <1>2, <1>3, CallableFacts DEF Building

\* Counted, of the call with one more parameter.
LEMMA CountedBuilt ==
  ASSUME Typed, NEW kinds, Building(kinds), NEW source \in Source, NEW used \in Nat
  PROVE  LET c == Top.callable IN
           Counted(Built(Top, source, used)) <=>
             \/ Top.i + used = Rank(c, Next_k)
             \/ /\ Next_k >= FirstDefault(c) /\ Len(Top.arguments) <= Top.i + used
                /\ Top.i + used < Rank(c, Next_k)
<1> DEFINE call == Built(Top, source, used)
           b == Append(Top.built, source)
<1>0. Stack(calls) /\ Busy
  BY BuildingFacts DEF Typed
<1>1. Top.built \in Seq(Source) /\ Top \in CallType /\ Next_k = Len(Top.built) + 1
  BY <1>0, TopFacts
<1>2. Len(b) = Next_k
  BY <1>1, AppendProperties
<1> HIDE DEF b
<1>3. call = [Top EXCEPT !.built = b, !.i = Top.i + used]
  BY DEF Built, b
<1>4. /\ call.callable = Top.callable /\ call.arguments = Top.arguments /\ call.built = b
      /\ call.i = Top.i + used
  BY <1>1, <1>3 DEF CallType
<1> HIDE DEF call
<1> QED BY <1>2, <1>4 DEF Counted, call

\* Arguments that are not shifted are counted.
LEMMA TopCounted ==
  ASSUME Typed, WellBuilt(Top), NEW kinds, Building(kinds), Regular(Top)
  PROVE  /\ Shifted(Top, Len(Top.built)) => Shifted(Top, Next_k)
         /\ Shifted(Top, Len(Top.built)) \/ Counted(Top)
<1>1. /\ Top.phase = "building" /\ Len(Top.built) \in Nat
      /\ Next_k = Len(Top.built) + 1
  BY BuildingFacts
<1>2. Shifted(Top, Len(Top.built)) => Shifted(Top, Next_k)
  BY <1>1, StaysShifted
<1> QED BY <1>1, <1>2 DEF WellBuilt

\* The next argument is the parameter's own.
LEMMA NextArgumentCounted ==
  ASSUME Typed, WellBuilt(Top), NEW kinds, Building(kinds), "isolate" \notin kinds,
         Given \/ Top.callable.parameters[Next_k] = "local",
         Regular(Top), ~Shifted(Top, Next_k)
  PROVE  /\ Top.i + 1 = Rank(Top.callable, Next_k)
         /\ Consumes(Top.callable, Next_k)
         /\ Rank(Top.callable, Next_k) <= Len(Top.arguments)
            \/ Top.callable.parameters[Next_k] = "local"
         /\ Argument(Top.i + 1) \in Source /\ Info(Top.i + 1) \in Source
         /\ \A source \in Source : Counted(Built(Top, source, 1))
<1> DEFINE c == Top.callable
           k == Len(Top.built)
           n == Len(Top.arguments)
<1>1. /\ c \in Callables /\ Next_k \in DOMAIN c.parameters /\ Next_k = k + 1 /\ Top.phase = "building"
      /\ k \in Nat /\ n \in Nat /\ Top.i \in Nat /\ FirstDefault(c) \in Nat
      /\ Consumes(c, k + 1)
  BY BuildingFacts DEF Consumes
<1>2. Counted(Top) /\ DefaultsReach(c)
  BY TopCounted DEF Regular
<1>3. Top.i < n \/ c.parameters[Next_k] = "local"
  BY DEF Given
<1>4. Counted(Top) <=> \/ Top.i = Rank(c, k)
                       \/ k >= FirstDefault(c) /\ n <= Top.i /\ Top.i < Rank(c, k)
  BY DEF Counted
<1>5. \A source \in Source :
        Counted(Built(Top, source, 1)) <=>
          \/ Top.i + 1 = Rank(c, k + 1)
          \/ k + 1 >= FirstDefault(c) /\ n <= Top.i + 1 /\ Top.i + 1 < Rank(c, k + 1)
  BY <1>1, CountedBuilt
<1>6. c.parameters[Next_k] = "local" => k + 1 < FirstDefault(c)
  BY <1>1, <1>2, LocalFirst
<1> HIDE DEF c, k, n
<1>7. Rank(c, k) \in Nat /\ Rank(c, k + 1) = Rank(c, k) + 1
  BY <1>1, RankFacts
<1>8. Top.i = Rank(c, k)
  BY <1>1, <1>2, <1>3, <1>4, <1>6
<1>9. Top.i < n => Rank(c, Next_k) <= n
  BY <1>1, <1>7, <1>8
<1>10. Argument(Top.i + 1) \in Source /\ Info(Top.i + 1) \in Source
  BY <1>1, Sources
<1>11. Top.i + 1 = Rank(c, Next_k)
  BY <1>1, <1>7, <1>8
<1>12. \A source \in Source : Counted(Built(Top, source, 1))
  BY <1>1, <1>5, <1>11
<1> QED BY <1>1, <1>3, <1>9, <1>10, <1>11, <1>12 DEF c, n

\* A parameter that is built from the next argument is built from its own.
LEMMA NextArgumentIsTheirs ==
  ASSUME Typed, WellBuilt(Top), NEW kinds, Building(kinds), "isolate" \notin kinds,
         Given \/ Top.callable.parameters[Next_k] = "local",
         Regular(Top), ~Shifted(Top, Next_k), NEW source,
         \/ source = Argument(Top.i + 1)
         \/ source = Info(Top.i + 1) /\ Top.callable.parameters[Next_k] = "from info"
  PROVE  source = Theirs(Top, Next_k, source) /\ Counted(Built(Top, source, 1))
<1>1. /\ Top.i + 1 = Rank(Top.callable, Next_k) /\ Consumes(Top.callable, Next_k)
      /\ Rank(Top.callable, Next_k) <= Len(Top.arguments)
         \/ Top.callable.parameters[Next_k] = "local"
      /\ Argument(Top.i + 1) \in Source /\ Info(Top.i + 1) \in Source
      /\ \A s \in Source : Counted(Built(Top, s, 1))
  BY NextArgumentCounted
<1>6. CASE source = Argument(Top.i + 1)
  <2>1. source \in Source
    BY <1>1, <1>6
  <2>2. source.from # "info"
    BY <1>6 DEF Argument
  <2>3. source = Theirs(Top, Next_k, source)
    BY <1>1, <1>6, <2>2 DEF Theirs
  <2> QED BY <1>1, <2>1, <2>3
<1>7. CASE source = Info(Top.i + 1) /\ Top.callable.parameters[Next_k] = "from info"
  <2>1. source \in Source
    BY <1>1, <1>7
  <2>2. source.from = "info"
    BY <1>7 DEF Info
  <2>3. source = Theirs(Top, Next_k, source)
    BY <1>1, <1>7, <2>2 DEF Theirs
  <2> QED BY <1>1, <2>1, <2>3
<1> QED BY <1>6, <1>7

\* A pointer that is built from the argument after its own shifts the arguments.
LEMMA NextArgumentShifts ==
  ASSUME Typed, WellBuilt(Top), BuildFromNextArgument, Regular(Top)
  PROVE  Shifted(Top, Next_k)
<1> SUFFICES ASSUME ~Shifted(Top, Next_k) PROVE FALSE
  OBVIOUS
<1>1. Building({"wrapped pointer"}) /\ Given /\ NextArgument \notin Objects
  BY DEF BuildFromNextArgument
<1> DEFINE i == Top.i
           k == Len(Top.built)
           n == Len(Top.arguments)
           r == Rank(Top.callable, Next_k)
<1>2. Top.callable.parameters[Next_k] = "wrapped pointer"
  BY <1>1 DEF Building
<1>3. Next_k = k + 1 /\ k \in Nat /\ i \in Nat /\ n \in Nat
  BY <1>1, BuildingFacts
<1>4. i + 1 = r
  BY <1>1, NextArgumentCounted
<1>5. Top.arguments \in Seq(Objects \cup {Plain, Foreign})
  BY <1>1, TopFacts, BuildingFacts DEF Typed
<1>6. i < n /\ DOMAIN Top.arguments = 1..n
  BY <1>1, <1>5, LenProperties DEF Given
<1>7. Top.arguments[r] \notin Objects
  BY <1>1, <1>4 DEF NextArgument
<1> HIDE DEF i, k, n, r
<1>8. r \in DOMAIN Top.arguments
  BY <1>3, <1>4, <1>6
<1>9. Next_k \in 1..Next_k
  BY <1>3
<1> QED BY <1>2, <1>7, <1>8, <1>9 DEF Shifted, r

LEMMA DefaultIsTheirs ==
  ASSUME ParametersInv, WellBuilt(Top), BuildFromDefault, Regular(Top), ~Shifted(Top, Next_k)
  PROVE  LET n == PositionOf(Top.callable, Next_k) + 1
             source == Default(n, <<Top.callable, n>> \in changed)
         IN  /\ source = Theirs(Top, Next_k, source)
             /\ source \in Source => Counted(Built(Top, source, 0))
<1> DEFINE c == Top.callable
           k == Len(Top.built)
           n == Len(Top.arguments)
           p == PositionOf(c, Next_k) + 1
           w == <<c, p>> \in changed
           source == Default(p, w)
<1>0. Typed /\ Building(Converted)
  BY DEF ParametersInv, BuildFromDefault
<1>1. /\ c \in Callables /\ Next_k \in DOMAIN c.parameters /\ Next_k = k + 1 /\ Top.phase = "building"
      /\ c.parameters[Next_k] \in Converted
      /\ k \in Nat /\ n \in Nat /\ Top.i \in Nat /\ FirstDefault(c) \in Nat
  BY <1>0, BuildingFacts
<1>2. Consumes(c, k + 1) /\ c.parameters[Next_k] # "local"
  BY <1>1 DEF Consumes, Converted
<1>3. Counted(Top) /\ DefaultsReach(c)
  BY <1>0, TopCounted DEF Regular
<1>4. ~(Top.i < n) /\ HasDefault(c, Next_k)
  BY DEF Given, BuildFromDefault
<1>5. Counted(Top) <=> \/ Top.i = Rank(c, k)
                       \/ k >= FirstDefault(c) /\ n <= Top.i /\ Top.i < Rank(c, k)
  BY DEF Counted
<1>6. source \in Source => (Counted(Built(Top, source, 0)) <=>
        \/ Top.i + 0 = Rank(c, k + 1)
        \/ k + 1 >= FirstDefault(c) /\ n <= Top.i + 0 /\ Top.i + 0 < Rank(c, k + 1))
  BY <1>0, <1>1, CountedBuilt
<1>7. Next_k >= FirstDefault(c) /\ p = Next_k - FirstDefault(c) + 1
  BY <1>1, <1>3, <1>4, DefaultsFound
<1>8. w => SharesDefaults(c)
  <2>1. w => SharesDefaults(<<c, p>>[1])
    BY DEF ParametersInv
  <2> QED BY <2>1
<1>9. source.changed = w /\ w \in BOOLEAN
  BY DEF Default
<1>10. Rank(c, k) \in Nat /\ Rank(c, k + 1) = Rank(c, k) + 1
  BY <1>1, <1>2, RankFacts
<1> HIDE DEF c, k, n, p, w
<1>11. n < Rank(c, k + 1) /\ n <= Top.i /\ Top.i < Rank(c, k + 1)
  BY <1>1, <1>3, <1>4, <1>5, <1>10
<1>12. source \in Source => Counted(Built(Top, source, 0))
  BY <1>1, <1>6, <1>7, <1>11
<1>13. ~(Rank(c, Next_k) <= n)
  BY <1>1, <1>10, <1>11
<1>14. \A v : Theirs(Top, Next_k, v) = Default(p, SharesDefaults(c) /\ v.changed)
  BY <1>1, <1>2, <1>7, <1>13 DEF Theirs, c, n
<1>15. (SharesDefaults(c) /\ source.changed) = w
  BY <1>8, <1>9
<1>16. source = Theirs(Top, Next_k, source)
  BY <1>14, <1>15
<1> QED BY <1>12, <1>16 DEF c, p, w

LEMMA NothingIsTheirs ==
  ASSUME Typed, WellBuilt(Top), BuildWithoutArgument, Regular(Top), ~Shifted(Top, Next_k)
  PROVE  Nothing = Theirs(Top, Next_k, Nothing) /\ Counted(Built(Top, Nothing, 0))
<1> DEFINE c == Top.callable
           k == Len(Top.built)
           n == Len(Top.arguments)
<1>0. Building({"isolate"})
  BY DEF BuildWithoutArgument
<1>1. /\ c \in Callables /\ Next_k = k + 1 /\ Top.phase = "building"
      /\ k \in Nat /\ n \in Nat /\ Top.i \in Nat /\ FirstDefault(c) \in Nat
      /\ ~Consumes(c, k + 1)
  BY <1>0, BuildingFacts DEF Consumes
<1>2. Counted(Top)
  BY <1>0, TopCounted
<1>3. Counted(Top) <=> \/ Top.i = Rank(c, k)
                       \/ k >= FirstDefault(c) /\ n <= Top.i /\ Top.i < Rank(c, k)
  BY DEF Counted
<1>4. Counted(Built(Top, Nothing, 0)) <=>
        \/ Top.i + 0 = Rank(c, k + 1)
        \/ k + 1 >= FirstDefault(c) /\ n <= Top.i + 0 /\ Top.i + 0 < Rank(c, k + 1)
  BY <1>0, <1>1, CountedBuilt, Sources
<1>5. Nothing = Theirs(Top, Next_k, Nothing)
  BY <1>1 DEF Theirs
<1> HIDE DEF c, k, n
<1>6. Rank(c, k) \in Nat /\ Rank(c, k + 1) = Rank(c, k)
  BY <1>1, RankFacts
<1> QED BY <1>1, <1>2, <1>3, <1>4, <1>5, <1>6

\* A parameter that has neither argument nor default is one that needs an argument.
LEMMA MissingForReason ==
  ASSUME Typed, WellBuilt(Top), MissingParameter, Regular(Top),
         ~Shifted(Top, Len(Top.built))
  PROVE  Len(Top.arguments) < Required(Top.callable)
<1> DEFINE c == Top.callable
           k == Len(Top.built)
           n == Len(Top.arguments)
           f == FirstDefault(c) - 1
<1>0. Building(Converted \cup {"unique_ptr"})
  BY DEF MissingParameter
<1>1. /\ c \in Callables /\ Next_k \in DOMAIN c.parameters /\ Next_k = k + 1 /\ Top.phase = "building"
      /\ k \in Nat /\ n \in Nat /\ Top.i \in Nat /\ FirstDefault(c) \in Nat \ {0}
      /\ c.parameters[Next_k] \in Converted \cup {"unique_ptr"}
  BY <1>0, BuildingFacts
<1>2. Consumes(c, k + 1)
  BY <1>1 DEF Consumes, Converted
<1>3. Counted(Top) /\ DefaultsReach(c)
  BY <1>0, TopCounted DEF Regular
<1>4. ~(Top.i < n) /\ ~HasDefault(c, Next_k)
  BY DEF Given, MissingParameter
<1>5. Counted(Top) <=> \/ Top.i = Rank(c, k)
                       \/ k >= FirstDefault(c) /\ n <= Top.i /\ Top.i < Rank(c, k)
  BY DEF Counted
<1>6. ~(Next_k >= FirstDefault(c))
  BY <1>1, <1>3, <1>4, DefaultsFound
<1>7. Required(c) = Rank(c, f)
  BY <1>1, RankFacts
<1>8. f \in Nat /\ k + 1 \in Nat /\ k + 1 <= f
  BY <1>1, <1>6
<1> HIDE DEF c, k, n, f
<1>9. Rank(c, k) \in Nat /\ Rank(c, k + 1) = Rank(c, k) + 1 /\ Rank(c, f) \in Nat
  BY <1>1, <1>2, <1>8, RankFacts
<1>10. Rank(c, k + 1) <= Rank(c, f)
  BY <1>8, RankFacts
<1>11. Top.i = Rank(c, k)
  BY <1>1, <1>3, <1>5, <1>6
<1>12. n < Rank(c, f)
  BY <1>1, <1>4, <1>9, <1>10, <1>11
<1> QED BY <1>7, <1>12 DEF c, n

AllWellBuilt(s) == \A m \in DOMAIN s : WellBuilt(s[m])

\* A step after which the top call is as given.
LEMMA TopWellBuilt ==
  ASSUME ParametersInv, Busy, NEW call \in CallType, DefaultInRange(call), SetTop(call),
         WellBuilt(call)
  PROVE  AllWellBuilt(calls')
<1>1. /\ DOMAIN calls' = DOMAIN calls
      /\ \A m \in DOMAIN calls : calls'[m] = IF m = Len(calls) THEN call ELSE calls[m]
  BY SetTopStack DEF ParametersInv, Typed
<1> QED BY <1>1 DEF ParametersInv, AllWellBuilt

LEMMA OneMoreWellBuilt ==
  ASSUME ParametersInv, Phase("building"), NEW source \in Source, NEW used \in Nat,
         source.from = "default" => source.index \in 1..Top.callable.defaults,
         SetTop(Built(Top, source, used)),
         Regular(Top) =>
           \/ Shifted(Top, Next_k)
           \/ source = Theirs(Top, Next_k, source) /\ Counted(Built(Top, source, used))
  PROVE  AllWellBuilt(calls')
<1>1. Typed /\ Stack(calls) /\ Busy
  BY DEF ParametersInv, Typed, Phase
<1>2. WellBuilt(Top)
  BY <1>1, TopFacts DEF ParametersInv, Top
<1>3. WellBuilt(Built(Top, source, used))
  BY <1>1, <1>2, BuiltGetsTheirs
<1>4. Built(Top, source, used) \in CallType /\ DefaultInRange(Built(Top, source, used))
  BY <1>1, BuiltType
<1> QED BY <1>1, <1>3, <1>4, TopWellBuilt

LEMMA BuildingWell ==
  ASSUME ParametersInv,
         \/ BuildFromArgument \/ BuildFromNextArgument \/ BuildFromInfo \/ TakeForeign
         \/ TakeCopy \/ BuildFromDefault \/ BuildLocal \/ BuildWithoutArgument
  PROVE  AllWellBuilt(calls')
<1>0. Typed /\ Phase("building") /\ Busy
  BY DEF ParametersInv, BuildFromArgument, BuildFromNextArgument, BuildFromInfo, TakeForeign,
         TakeCopy, BuildFromDefault, BuildLocal, BuildWithoutArgument, Building, Phase
<1>1. Top \in CallType /\ Top.i \in Nat /\ Top.callable.defaults \in Nat /\ WellBuilt(Top)
  BY <1>0, TopFacts DEF Typed, ParametersInv, Top
<1>2. /\ Top.i + 1 \in Nat /\ Top.i + 2 \in Nat
      /\ \A n \in Nat : /\ Argument(n) \in Source /\ Argument(n).from # "default"
                        /\ Info(n) \in Source /\ Info(n).from # "default"
  BY <1>0, <1>1, Sources
<1>3. CASE BuildFromArgument \/ BuildFromInfo \/ TakeForeign \/ TakeCopy \/ BuildLocal
  <2>1. PICK kinds, source :
          /\ Building(kinds) /\ "isolate" \notin kinds
          /\ Given \/ Top.callable.parameters[Next_k] = "local"
          /\ \/ source = Argument(Top.i + 1)
             \/ source = Info(Top.i + 1) /\ Top.callable.parameters[Next_k] = "from info"
          /\ SetTop(Built(Top, source, 1))
    <3>1. BuildFromArgument => /\ Building(Converted) /\ "isolate" \notin Converted /\ Given
                               /\ SetTop(Built(Top, Argument(Top.i + 1), 1))
      BY DEF BuildFromArgument, Converted
    <3>2. TakeCopy \/ TakeForeign => /\ Building({"unique_ptr"}) /\ Given
                                     /\ SetTop(Built(Top, Argument(Top.i + 1), 1))
      BY DEF TakeCopy, TakeForeign
    <3>3. BuildLocal => /\ Building({"local"}) /\ Top.callable.parameters[Next_k] = "local"
                        /\ SetTop(Built(Top, Argument(Top.i + 1), 1))
      BY DEF BuildLocal, Building
    <3>4. BuildFromInfo => /\ Building({"from info"}) /\ Given
                           /\ Top.callable.parameters[Next_k] = "from info"
                           /\ SetTop(Built(Top, Info(Top.i + 1), 1))
      BY DEF BuildFromInfo, Building
    <3>5. "isolate" \notin {"unique_ptr"} /\ "isolate" \notin {"local"} /\ "isolate" \notin {"from info"}
      OBVIOUS
    <3>6. CASE BuildFromArgument
      BY <3>1, <3>6
    <3>7. CASE TakeCopy \/ TakeForeign
      BY <3>2, <3>5, <3>7
    <3>8. CASE BuildLocal
      BY <3>3, <3>5, <3>8
    <3>9. CASE BuildFromInfo
      BY <3>4, <3>5, <3>9
    <3> QED BY <1>3, <3>6, <3>7, <3>8, <3>9
  <2>2. ASSUME Regular(Top), ~Shifted(Top, Next_k)
        PROVE  source = Theirs(Top, Next_k, source) /\ Counted(Built(Top, source, 1))
    BY <1>0, <1>1, <2>1, <2>2, NextArgumentIsTheirs
  <2>3. source \in Source /\ source.from # "default"
    BY <1>2, <2>1
  <2> QED BY <1>0, <2>1, <2>2, <2>3, OneMoreWellBuilt
<1>4. CASE BuildFromNextArgument
  <2>1. SetTop(Built(Top, Argument(Top.i + 2), 2))
    BY <1>4 DEF BuildFromNextArgument
  <2>2. Regular(Top) => Shifted(Top, Next_k)
    BY <1>0, <1>1, <1>4, NextArgumentShifts
  <2> QED BY <1>0, <1>2, <2>1, <2>2, OneMoreWellBuilt
<1>5. CASE BuildFromDefault
  <2> DEFINE n == PositionOf(Top.callable, Next_k) + 1
             source == Default(n, <<Top.callable, n>> \in changed)
  <2>1. n \in 1..Top.callable.defaults
    BY <1>1, <1>5 DEF BuildFromDefault, HasDefault
  <2>2. source \in Source /\ source.index = n
    BY <1>1, <2>1 DEF Default, Source
  <2>3. SetTop(Built(Top, source, 0))
    BY <1>5 DEF BuildFromDefault
  <2>4. Regular(Top) /\ ~Shifted(Top, Next_k) =>
          /\ source = Theirs(Top, Next_k, source)
          /\ source \in Source => Counted(Built(Top, source, 0))
    BY <1>1, <1>5, DefaultIsTheirs
  <2> HIDE DEF n, source
  <2> QED BY <1>0, <2>1, <2>2, <2>3, <2>4, OneMoreWellBuilt
<1>6. CASE BuildWithoutArgument
  <2>1. SetTop(Built(Top, Nothing, 0))
    BY <1>6 DEF BuildWithoutArgument
  <2>2. Nothing \in Source /\ Nothing.from # "default"
    BY <1>0, Sources
  <2>3. ASSUME Regular(Top), ~Shifted(Top, Next_k)
        PROVE  Nothing = Theirs(Top, Next_k, Nothing) /\ Counted(Built(Top, Nothing, 0))
    BY <1>0, <1>1, <1>6, <2>3, NothingIsTheirs
  <2> QED BY <1>0, <2>1, <2>2, <2>3, OneMoreWellBuilt
<1> QED BY <1>3, <1>4, <1>5, <1>6

LEMMA TakingWell ==
  ASSUME ParametersInv, Take PROVE AllWellBuilt(calls')
<1> DEFINE built == Built(Top, Argument(Top.i + 1), 1)
           call == [built EXCEPT !.taken = @ \cup {Next_k}]
<1>1. Typed /\ Stack(calls) /\ Building({"unique_ptr"}) /\ Given
  BY DEF ParametersInv, Typed, Take
<1>2. Busy /\ Phase("building") /\ Next_k \in Nat /\ Top.i \in Nat
  BY <1>1, BuildingFacts
<1>3. WellBuilt(Top)
  BY <1>1, <1>2, TopFacts DEF ParametersInv, Top
<1>4. /\ Top.i + 1 \in Nat /\ Argument(Top.i + 1) \in Source
      /\ Argument(Top.i + 1).from # "default"
  BY <1>1, <1>2, Sources
<1>5. ASSUME Regular(Top), ~Shifted(Top, Next_k)
      PROVE  Argument(Top.i + 1) = Theirs(Top, Next_k, Argument(Top.i + 1)) /\ Counted(built)
  BY <1>1, <1>3, <1>5, NextArgumentIsTheirs
<1>6. WellBuilt(built)
  BY <1>1, <1>2, <1>3, <1>4, <1>5, BuiltGetsTheirs
<1>7. built \in CallType
  BY <1>1, <1>2, <1>4, BuiltType
<1>8. /\ DOMAIN calls' = DOMAIN calls
      /\ \A m \in DOMAIN calls : calls'[m] = IF m = Len(calls) THEN call ELSE calls[m]
  BY <1>1, TakeType
<1> HIDE DEF built
<1>9. /\ call.callable = built.callable /\ call.arguments = built.arguments
      /\ call.built = built.built /\ call.i = built.i /\ call.phase = built.phase
  BY <1>7 DEF CallType
<1> HIDE DEF call
<1>10. WellBuilt(call)
  BY <1>6, <1>9, SameBuilt
<1> QED BY <1>8, <1>10 DEF ParametersInv, AllWellBuilt

\* The top call goes to another phase; no call is rejected but for a reason.
LEMMA PhaseWell ==
  ASSUME ParametersInv, Busy, NEW phase \in {"running", "failed", "missing"},
         SetTop([Top EXCEPT !.phase = phase]),
         phase = "missing" /\ Regular(Top) =>
           Shifted(Top, Len(Top.built)) \/ Len(Top.arguments) < Required(Top.callable)
  PROVE  AllWellBuilt(calls')
<1> DEFINE call == [Top EXCEPT !.phase = phase]
<1>1. Top \in CallType /\ DefaultInRange(Top) /\ WellBuilt(Top)
  BY TopFacts DEF ParametersInv, Typed, Top
<1>2. /\ call \in CallType
      /\ call.callable = Top.callable /\ call.arguments = Top.arguments
      /\ call.built = Top.built /\ call.phase = phase
  BY <1>1 DEF CallType
<1>3. SetTop(call)
  OBVIOUS
<1> HIDE DEF call
<1>4. DefaultInRange(call)
  BY <1>1, <1>2 DEF DefaultInRange
<1>5. WellBuilt(call)
  <2>1. /\ Regular(call) <=> Regular(Top)
        /\ \A k : Shifted(call, k) <=> Shifted(Top, k)
        /\ \A k, built : Theirs(call, k, built) = Theirs(Top, k, built)
    BY <1>2, SameMeant
  <2>2. GetTheirs(Top) => GetTheirs(call)
    BY <1>2, <2>1 DEF GetTheirs
  <2>3. Regular(Top) => RejectedForReason(call)
    BY <1>2, <2>1 DEF RejectedForReason
  <2> QED BY <1>1, <1>2, <2>1, <2>2, <2>3 DEF WellBuilt
<1> QED BY <1>2, <1>3, <1>4, <1>5, TopWellBuilt

LEMMA ParametersInit == Init => ParametersInv
BY TypeInit DEF Init, ParametersInv

LEMMA ParametersStep == ParametersInv /\ [Next]_vars => ParametersInv'
<1> SUFFICES ASSUME ParametersInv, [Next]_vars
             PROVE  AllWellBuilt(calls') /\ \A d \in changed' : SharesDefaults(d[1])
  BY TypeStep DEF ParametersInv, AllWellBuilt
<1>0. /\ Typed /\ Stack(calls) /\ AllWellBuilt(calls)
      /\ \A d \in changed : SharesDefaults(d[1])
  BY DEF ParametersInv, AllWellBuilt, Typed
<1>1. ASSUME NEW c \in Callables, NEW arguments \in Arguments, Call(c, arguments)
      PROVE  AllWellBuilt(calls') /\ UNCHANGED changed
  <2>1. /\ DOMAIN calls' = DOMAIN calls \cup {Len(calls) + 1}
        /\ \A m \in DOMAIN calls : calls'[m] = calls[m]
        /\ calls'[Len(calls) + 1] = NewCall(c, arguments)
    BY <1>0, <1>1, PushStack
  <2>2. UNCHANGED changed
    BY <1>1 DEF Call
  <2> QED BY <1>0, <2>1, <2>2, NewCallBuilt DEF AllWellBuilt
<1>2. CASE \/ BuildFromArgument \/ BuildFromNextArgument \/ BuildFromInfo \/ TakeForeign
           \/ TakeCopy \/ BuildFromDefault \/ BuildLocal \/ BuildWithoutArgument
  <2>1. UNCHANGED changed
    BY <1>2 DEF BuildFromArgument, BuildFromNextArgument, BuildFromInfo, TakeForeign, TakeCopy,
                BuildFromDefault, BuildLocal, BuildWithoutArgument
  <2> QED BY <1>0, <1>2, <2>1, BuildingWell
<1>3. CASE Take
  BY <1>0, <1>3, TakingWell DEF Take
<1>4. CASE ConversionThrows \/ Enter \/ BodyThrows
  <2>1. /\ Busy /\ UNCHANGED changed
        /\ \E phase \in {"running", "failed"} : SetTop([Top EXCEPT !.phase = phase])
    BY <1>4 DEF ConversionThrows, Enter, BodyThrows, Building, Phase
  <2> QED BY <1>0, <2>1, PhaseWell
<1>5. CASE MissingParameter
  <2>1. Busy /\ UNCHANGED changed /\ SetTop([Top EXCEPT !.phase = "missing"])
    BY <1>5 DEF MissingParameter, Building, Phase
  <2>2. WellBuilt(Top)
    BY <1>0, <2>1, TopFacts DEF AllWellBuilt, Top
  <2>3. Regular(Top) =>
          Shifted(Top, Len(Top.built)) \/ Len(Top.arguments) < Required(Top.callable)
    BY <1>0, <1>5, <2>2, MissingForReason
  <2> QED BY <1>0, <2>1, <2>3, PhaseWell
<1>6. ASSUME NEW k, Keep(k) \/ Destroy(k) PROVE AllWellBuilt(calls') /\ UNCHANGED changed
  <2> DEFINE call == [Top EXCEPT !.taken = @ \ {k}]
  <2>1. Busy /\ SetTop(call) /\ UNCHANGED changed
    BY <1>6 DEF Keep, Destroy, Phase
  <2>2. Top \in CallType /\ DefaultInRange(Top) /\ WellBuilt(Top)
    BY <1>0, <2>1, TopFacts DEF AllWellBuilt, Top
  <2>3. /\ call \in CallType
        /\ call.callable = Top.callable /\ call.arguments = Top.arguments
        /\ call.built = Top.built /\ call.i = Top.i /\ call.phase = Top.phase
    BY <2>2 DEF CallType
  <2> HIDE DEF call
  <2>4. WellBuilt(call) /\ DefaultInRange(call)
    BY <2>2, <2>3, SameBuilt DEF DefaultInRange
  <2> QED BY <2>1, <2>3, <2>4, TopWellBuilt
<1>7. ASSUME NEW k, ChangeDefault(k)
      PROVE  AllWellBuilt(calls') /\ \A d \in changed' : SharesDefaults(d[1])
  <2>1. /\ UNCHANGED calls /\ SharesDefaults(Top.callable)
        /\ changed' = changed \cup {<<Top.callable, Top.built[k].index>>}
    BY <1>7 DEF ChangeDefault
  <2> QED BY <1>0, <2>1
<1>8. CASE Return \/ Rethrow
  BY <1>0, <1>8, EndingSteps DEF AllWellBuilt
<1>9. CASE (\E o \in Objects : Collect(o) \/ CppDelete(o)) \/ UNCHANGED vars
  BY <1>0, <1>9 DEF Collect, CppDelete, vars
<1> QED BY <1>0, <1>1, <1>2, <1>3, <1>4, <1>5, <1>6, <1>7, <1>8, <1>9 DEF Next

\* Each parameter is built from the argument that is meant for it, or else from its own
\* default, and no call that has the arguments it needs is rejected, for any functions
\* whose defaults reach their parameters; but for a pointer to a wrapped type that is
\* given no object of the type, and the parameters after it.
THEOREM Parameters ==
  ASSUME \A c \in Callables : DefaultsReach(c)
  PROVE  Spec => []ParametersGetTheirs
<1>1. ParametersInv => ParametersGetTheirs
  <2> SUFFICES ASSUME ParametersInv, NEW m \in DOMAIN calls
               PROVE  GetTheirs(calls[m]) /\ RejectedForReason(calls[m])
    BY DEF ParametersGetTheirs
  <2>1. calls[m] \in CallType
    BY DEF ParametersInv, Typed, Stack
  <2>2. calls[m].callable \in Callables
    BY <2>1 DEF CallType
  <2> QED BY <2>2 DEF ParametersInv, WellBuilt, Regular
<1> QED BY <1>1, ParametersInit, ParametersStep, PTL DEF Spec

\* Where some functions have other defaults, it holds of the calls of those that do not.
THEOREM ParametersOfRegular ==
  Spec => [](\A m \in DOMAIN calls : Regular(calls[m]) =>
               GetTheirs(calls[m]) /\ RejectedForReason(calls[m]))
<1>1. ParametersInv => \A m \in DOMAIN calls : Regular(calls[m]) =>
                         GetTheirs(calls[m]) /\ RejectedForReason(calls[m])
  BY DEF ParametersInv, WellBuilt
<1> QED BY <1>1, ParametersInit, ParametersStep, PTL DEF Spec
===============================================================================
