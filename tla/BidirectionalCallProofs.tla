----------------------- MODULE BidirectionalCallProofs -----------------------
(***************************************************************************)
(* Proofs about BidirectionalCall, for any objects, methods, chain of      *)
(* factories and depth of the stack: its types, what is known of the flag  *)
(* called_from_javascript, and that constructors run in order.             *)
(*                                                                         *)
(* None of the safety properties is inductive.  That a JS_ACCESS function  *)
(* does not find itself twice takes that the flag is set between finding   *)
(* and calling (FoundFlag); that a method reaches the base class it hides  *)
(* takes that the flag stays set until its first call (FreshFlag).         *)
(***************************************************************************)
EXTENDS BidirectionalCall, SequenceTheorems, TLAPS

-------------------------------------------------------------------------------
(* The stack.                                                              *)

\* A call adds a frame on top.
LEMMA PushLemma ==
  ASSUME NEW S, NEW s \in Seq(S), NEW e \in S
  PROVE  /\ Append(s, e) \in Seq(S)
         /\ Len(Append(s, e)) = Len(s) + 1
         /\ \A i \in 1 .. Len(s) : Append(s, e)[i] = s[i]
         /\ Append(s, e)[Len(s) + 1] = e
  OBVIOUS

\* A return takes the top frame away.
LEMMA PopLemma ==
  ASSUME NEW S, NEW s \in Seq(S), s # <<>>
  PROVE  /\ Front(s) \in Seq(S)
         /\ Len(s) \in Nat \ {0}
         /\ Len(Front(s)) = Len(s) - 1
         /\ \A i \in 1 .. Len(s) - 1 : Front(s)[i] = s[i]
<1>1. Len(s) \in Nat \ {0} /\ \A i \in 1 .. Len(s) - 1 : s[i] \in S
  OBVIOUS
<1> DEFINE n == Len(s) - 1
<1>2. n \in Nat /\ 1 \in Int /\ n \in Int /\ \A i \in 1 .. n : s[i] \in S
  BY <1>1
<1> HIDE DEF n
<1>3. /\ SubSeq(s, 1, n) \in Seq(S)
      /\ Len(SubSeq(s, 1, n)) = IF 1 <= n THEN n - 1 + 1 ELSE 0
      /\ \A i \in 1 .. n - 1 + 1 : SubSeq(s, 1, n)[i] = s[1 + i - 1]
  BY <1>2, SubSeqProperties
<1>4. Front(s) = SubSeq(s, 1, n)
  BY DEF n, Front
<1>5. Len(Front(s)) = n /\ \A i \in 1 .. n : Front(s)[i] = s[i]
  BY <1>2, <1>3, <1>4
<1> QED BY <1>1, <1>3, <1>4, <1>5 DEF n

\* A step of the top frame changes that frame.
LEMMA ReplaceLemma ==
  ASSUME NEW S, NEW s \in Seq(S), s # <<>>, NEW e \in S,
         NEW t, t = [s EXCEPT ![Len(s)] = e]
  PROVE  /\ t \in Seq(S)
         /\ Len(t) = Len(s)
         /\ \A i \in 1 .. Len(s) - 1 : t[i] = s[i]
         /\ t[Len(s)] = e
         /\ t # <<>>
  OBVIOUS

\* The top is the last frame, and each kind of frame has its fields.
LEMMA TopLemma ==
  ASSUME TypeOK, stack # <<>>
  PROVE  /\ Len(stack) \in Nat \ {0}
         /\ Top = stack[Len(stack)]
         /\ Top \in Frames
  BY DEF TypeOK, Top, Last

LEMMA FrameLemma ==
  ASSUME NEW x \in Frames
  PROVE  /\ x.o \in Objects
         /\ x.kind \in {"native", "access", "override", "create", "constructor"}
         /\ x.kind = "native" => x.m \in Methods /\ x = Native(x.o, x.m)
         /\ x.kind = "access" =>
                x.m \in Methods /\ x.at \in {"found", "called"} /\ x = Access(x.o, x.m, x.at)
         /\ x.kind = "override" =>
                x.m \in Methods /\ x.calls \in 0 .. 2 /\ x = Override(x.o, x.m, x.calls)
         /\ x.kind = "create" => x.f \in Factories /\ x = Creating(x.o, x.f)
         /\ x.kind = "constructor" => x.f \in Factories /\ x = Constructor(x.o, x.f)
  BY DEF Frames, Native, Access, Override, Creating, Constructor

\* What a caller's frame becomes when it begins a call.
LEMMA CallerLemma ==
  ASSUME TypeOK
  PROVE  /\ Caller \in Seq(Frames)
         /\ Len(Caller) = Len(stack)
         /\ \A i \in 1 .. Len(stack) - 1 : Caller[i] = stack[i]
         /\ TopIs({"override"}) =>
                Caller[Len(stack)] = Override(Top.o, Top.m, IF Top.calls = 0 THEN 1 ELSE 2)
         /\ ~TopIs({"override"}) => Caller = stack
<1>1. CASE TopIs({"override"})
  <2> DEFINE e == Override(Top.o, Top.m, IF Top.calls = 0 THEN 1 ELSE 2)
  <2>1. stack # <<>> /\ Top.kind = "override" /\ stack \in Seq(Frames)
    BY <1>1 DEF TopIs, TypeOK
  <2>2. e \in Frames
    <3>1. Top \in Frames
      BY <2>1, TopLemma
    <3>2. Top.o \in Objects /\ Top.m \in Methods
      BY <2>1, <3>1, FrameLemma
    <3> QED BY <3>2 DEF Frames
  <2>3. Caller = [stack EXCEPT ![Len(stack)] = e]
    BY <1>1 DEF Caller, TopBecomes
  <2> HIDE DEF e
  <2>4. /\ Caller \in Seq(Frames)
        /\ Len(Caller) = Len(stack)
        /\ \A i \in 1 .. Len(stack) - 1 : Caller[i] = stack[i]
        /\ Caller[Len(stack)] = e
    BY <2>1, <2>2, <2>3, ReplaceLemma
  <2> QED BY <1>1, <2>4 DEF e
<1>2. CASE ~TopIs({"override"})
  BY <1>2 DEF Caller, TypeOK
<1> QED BY <1>1, <1>2

-------------------------------------------------------------------------------
(* Types.                                                                  *)

\* Entering a JS_ACCESS function pushes one frame, of the base class or of the
\* function itself, and sets the flag as it decides.
LEMMA EnterLemma ==
  ASSUME NEW o \in Objects, NEW m \in Methods, NEW s \in Seq(Frames), Enter(o, m, s),
         flag \in [Objects -> BOOLEAN]
  PROVE  /\ stack' \in Seq(Frames)
         /\ Len(stack') = Len(s) + 1
         /\ \A i \in 1 .. Len(s) : stack'[i] = s[i]
         /\ flag' \in [Objects -> BOOLEAN]
         /\ \A p \in Objects \ {o} : flag'[p] = flag[p]
         /\ escaped' = escaped \ {o}
         /\ \/ stack'[Len(s) + 1] = Native(o, m) /\ ~flag'[o]
            \/ stack'[Len(s) + 1] = Access(o, m, "found") /\ ~flag[o] /\ flag'[o]
<1>1. escaped' = escaped \ {o}
  BY DEF Enter
<1>2. CASE EnterNative(o, m, s)
  <2>1. Native(o, m) \in Frames
    BY DEF Frames
  <2>2. stack' = Append(s, Native(o, m)) /\ flag' = [flag EXCEPT ![o] = FALSE]
    BY <1>2 DEF EnterNative
  <2> HIDE DEF Native, Frames
  <2> QED BY <1>1, <2>1, <2>2, PushLemma
<1>3. CASE EnterScript(o, m, s) /\ ~flag[o]
  <2>1. Access(o, m, "found") \in Frames
    BY DEF Frames
  <2>2. stack' = Append(s, Access(o, m, "found")) /\ flag' = [flag EXCEPT ![o] = TRUE]
    BY <1>3 DEF EnterScript
  <2> QED BY <1>1, <1>3, <2>1, <2>2, PushLemma
<1> QED BY <1>2, <1>3 DEF Enter

\* A function of JavaScript that is found and called gets a frame of its own, or is
\* the callback of the wrapped base type and enters the JS_ACCESS function again.
LEMMA CallFoundLemma ==
  ASSUME TypeOK, CallFound
  PROVE  LET t == TopBecomes(Access(Top.o, Top.m, "called"))
         IN  /\ Top.o \in Objects /\ Top.m \in Methods
             /\ t \in Seq(Frames)
             /\ Len(t) = Len(stack)
             /\ \A i \in 1 .. Len(stack) - 1 : t[i] = stack[i]
             /\ t[Len(stack)] = Access(Top.o, Top.m, "called")
             /\ Override(Top.o, Top.m, 0) \in Frames
<1> DEFINE e == Access(Top.o, Top.m, "called")
<1>1. stack # <<>> /\ Top.kind = "access" /\ stack \in Seq(Frames)
  BY DEF CallFound, TopIs, TypeOK
<1>2. Top.o \in Objects /\ Top.m \in Methods
  BY <1>1, TopLemma, FrameLemma
<1>3. e \in Frames /\ Override(Top.o, Top.m, 0) \in Frames
  BY <1>2 DEF Frames
<1>4. TopBecomes(e) = [stack EXCEPT ![Len(stack)] = e]
  BY DEF TopBecomes
<1> HIDE DEF e
<1>5. /\ TopBecomes(e) \in Seq(Frames)
      /\ Len(TopBecomes(e)) = Len(stack)
      /\ \A i \in 1 .. Len(stack) - 1 : TopBecomes(e)[i] = stack[i]
      /\ TopBecomes(e)[Len(stack)] = e
  BY <1>1, <1>3, <1>4, ReplaceLemma
<1> QED BY <1>2, <1>3, <1>5 DEF e

\* Every step keeps the types.
LEMMA TypeStep == TypeOK /\ [Next]_vars => TypeOK'
<1> SUFFICES ASSUME TypeOK, [Next]_vars PROVE TypeOK'
  OBVIOUS
<1>0. /\ flag \in [Objects -> BOOLEAN] /\ stack \in Seq(Frames) /\ raised \in BOOLEAN
      /\ level \in [Objects -> 0 .. Len(Prototypes)]
      /\ built \in [Objects -> 0 .. Len(Prototypes)] /\ escaped \subseteq Objects
      /\ Len(Prototypes) \in Nat
  BY PrototypesAssumption DEF TypeOK
<1>1. ASSUME NEW o \in Objects, NEW m \in Methods, CallVirtual(o, m) PROVE TypeOK'
  BY <1>0, <1>1, EnterLemma DEF CallVirtual, TypeOK
<1>2. ASSUME NEW o \in Objects, NEW m \in Methods, CallOverride(o, m) PROVE TypeOK'
  <2>1. Override(o, m, 0) \in Frames
    BY DEF Frames
  <2>2. stack' \in Seq(Frames)
    BY <1>2, <2>1, CallerLemma, PushLemma DEF CallOverride
  <2> QED BY <1>0, <1>2, <2>2 DEF CallOverride, TypeOK
<1>3. ASSUME NEW o \in Objects, NEW m \in Methods, CallMapped(o, m) PROVE TypeOK'
  BY <1>0, <1>3, CallerLemma, EnterLemma DEF CallMapped, TypeOK
<1>4. ASSUME NEW o \in Objects, NEW f \in Factories, Create(o, f) PROVE TypeOK'
  <2>1. Creating(o, f) \in Frames
    BY DEF Frames
  <2>2. stack' \in Seq(Frames)
    BY <1>4, <2>1, CallerLemma, PushLemma DEF Create
  <2> QED BY <1>0, <1>4, <2>2 DEF Create, TypeOK
<1>5. CASE CallSuper
  <2>1. Top.o \in Objects /\ Top.m \in Methods
    BY <1>5, TopLemma, FrameLemma DEF CallSuper, TopIs
  <2>2. Enter(Top.o, Top.m, Caller)
    BY <1>5 DEF CallSuper
  <2>3. stack' \in Seq(Frames) /\ flag' \in [Objects -> BOOLEAN] /\ escaped' = escaped \ {Top.o}
    BY <1>0, <2>1, <2>2, CallerLemma, EnterLemma
  <2> QED BY <1>0, <1>5, <2>3 DEF CallSuper, TypeOK
<1>6. CASE CallFound
  <2> DEFINE t == TopBecomes(Access(Top.o, Top.m, "called"))
  <2>1. Top.o \in Objects /\ Top.m \in Methods /\ t \in Seq(Frames)
        /\ Override(Top.o, Top.m, 0) \in Frames
    BY <1>6, CallFoundLemma
  <2>2. CASE HasOverride(Top.o, Top.m)
    <3>1. stack' = Append(t, Override(Top.o, Top.m, 0)) /\ UNCHANGED <<flag, escaped>>
      BY <1>6, <2>2 DEF CallFound
    <3> HIDE DEF t
    <3>2. stack' \in Seq(Frames)
      BY <2>1, <3>1, PushLemma
    <3> QED BY <1>0, <1>6, <3>1, <3>2 DEF CallFound, TypeOK
  <2>3. CASE ~HasOverride(Top.o, Top.m)
    <3>1. Enter(Top.o, Top.m, t)
      BY <1>6, <2>3 DEF CallFound
    <3> HIDE DEF t
    <3>2. stack' \in Seq(Frames) /\ flag' \in [Objects -> BOOLEAN] /\ escaped' = escaped \ {Top.o}
      BY <1>0, <2>1, <3>1, EnterLemma
    <3> QED BY <1>0, <1>6, <3>2 DEF CallFound, TypeOK
  <2> QED BY <2>2, <2>3
<1>7. CASE Return
  BY <1>0, <1>7, PopLemma DEF Return, TopIs, TypeOK
<1>8. CASE ReturnFromScript
  <2>1. Top.o \in Objects /\ Front(stack) \in Seq(Frames)
    BY <1>0, <1>8, TopLemma, FrameLemma, PopLemma DEF ReturnFromScript, TopIs
  <2> QED BY <1>0, <1>8, <2>1 DEF ReturnFromScript, TypeOK
<1>9. CASE Throw
  BY <1>0, <1>9, PopLemma DEF Throw, TopIs, TypeOK
<1>10. CASE Unwind
  <2>1. Top.o \in Objects /\ Front(stack) \in Seq(Frames)
    BY <1>0, <1>10, TopLemma, FrameLemma, PopLemma DEF Unwind
  <2> QED BY <1>0, <1>10, <2>1 DEF Unwind, TypeOK
<1>11. CASE Catch
  BY <1>0, <1>11 DEF Catch, TypeOK
<1>12. CASE Construct
  <2> DEFINE next == built[Top.o] + 1
  <2>1. Top.o \in Objects /\ Top.f \in Factories
    BY <1>12, TopLemma, FrameLemma DEF Construct, TopIs
  <2>2. next \in Factories
    BY <1>0, <1>12, <2>1 DEF Construct, Factories
  <2>3. Constructor(Top.o, next) \in Frames
    BY <2>1, <2>2 DEF Frames
  <2>4. stack' = Append(stack, Constructor(Top.o, next)) /\ level' = [level EXCEPT ![Top.o] = next]
    BY <1>12 DEF Construct
  <2>5. stack' \in Seq(Frames)
    BY <1>0, <2>3, <2>4, PushLemma
  <2>6. next \in 0 .. Len(Prototypes)
    BY <1>0, <2>2 DEF Factories
  <2> HIDE DEF next
  <2>7. level' \in [Objects -> 0 .. Len(Prototypes)]
    BY <1>0, <2>4, <2>6
  <2> QED BY <1>0, <1>12, <2>5, <2>7 DEF Construct, TypeOK
<1>13. CASE ReturnFromConstructor
  <2>1. Top.o \in Objects /\ Top.f \in Factories /\ Front(stack) \in Seq(Frames)
    BY <1>0, <1>13, TopLemma, FrameLemma, PopLemma DEF ReturnFromConstructor, TopIs
  <2> QED BY <1>0, <1>13, <2>1 DEF ReturnFromConstructor, TypeOK, Factories
<1>14. CASE Created
  BY <1>0, <1>14, PopLemma DEF Created, TopIs, TypeOK
<1>15. CASE UNCHANGED vars
  BY <1>15 DEF vars, TypeOK
<1> QED BY <1>1, <1>2, <1>3, <1>4, <1>5, <1>6, <1>7, <1>8, <1>9, <1>10, <1>11, <1>12, <1>13,
         <1>14, <1>15 DEF Next

\* The variables always have their types.
THEOREM Typing == Spec => []TypeOK
<1>1. Init => TypeOK
  <2>1. Len(Prototypes) \in Nat
    BY PrototypesAssumption
  <2>2. 0 \in 0 .. Len(Prototypes)
    BY <2>1
  <2> SUFFICES ASSUME Init PROVE TypeOK
    OBVIOUS
  <2>3. level \in [Objects -> 0 .. Len(Prototypes)] /\ built \in [Objects -> 0 .. Len(Prototypes)]
    BY <2>2 DEF Init
  <2>4. stack \in Seq(Frames)
    BY DEF Init
  <2>5. flag \in [Objects -> BOOLEAN] /\ raised \in BOOLEAN /\ escaped \subseteq Objects
    BY DEF Init
  <2> QED BY <2>3, <2>4, <2>5 DEF TypeOK
<1> QED BY <1>1, TypeStep, PTL DEF Spec

-------------------------------------------------------------------------------
(* The flag and the calls.                                                 *)

\* A frame with another one above it has made a call.
InnerHasCalled ==
    \A i \in 1 .. Len(stack) - 1 :
        /\ stack[i].kind = "access" => stack[i].at = "called"
        /\ stack[i].kind = "override" => stack[i].calls # 0

\* The flag is set between finding a function and calling it.
FoundFlag == TopIs({"access"}) /\ Top.at = "found" => flag[Top.o]

\* The flag stays set until the method that was called makes a call.
FreshFlag ==
    \A i \in 1 .. Len(stack) - 1 :
        ( /\ i + 1 = Len(stack)
          /\ stack[i].kind = "access"
          /\ stack[i + 1] = Override(stack[i].o, stack[i].m, 0) ) => flag[stack[i].o]

CallInv ==
    InnerHasCalled /\ FoundFlag /\ FreshFlag /\ FoundItselfOnce /\ SuperReachesBase

\* A frame that goes leaves one that has made a call, which asks nothing of the flag.
LEMMA PopKeepsCallInv ==
  ASSUME TypeOK, CallInv, stack # <<>>, stack' = Front(stack)
  PROVE  CallInv'
<1>1. /\ stack \in Seq(Frames) /\ stack' \in Seq(Frames)
      /\ Len(stack) \in Nat \ {0}
      /\ Len(stack') = Len(stack) - 1
      /\ \A i \in 1 .. Len(stack) - 1 : stack'[i] = stack[i]
  BY PopLemma DEF TypeOK
<1>2. InnerHasCalled'
  BY <1>1 DEF CallInv, InnerHasCalled
<1>3. FoundFlag'
  BY <1>1 DEF CallInv, InnerHasCalled, FoundFlag, TopIs, Top, Last
<1>4. FreshFlag'
  <2> SUFFICES ASSUME NEW i \in 1 .. Len(stack') - 1, i + 1 = Len(stack'),
                      stack'[i + 1] = Override(stack'[i].o, stack'[i].m, 0)
               PROVE  FALSE
    BY DEF FreshFlag
  <2>1. i + 1 \in 1 .. Len(stack) - 1
    BY <1>1
  <2>2. stack[i + 1].kind = "override" /\ stack[i + 1].calls = 0
    BY <1>1, <2>1 DEF Override
  <2> QED BY <2>1, <2>2 DEF CallInv, InnerHasCalled
<1>5. FoundItselfOnce'
  <2> SUFFICES ASSUME NEW i \in 1 .. Len(stack') - 1
               PROVE  stack'[i].kind = "access" /\ stack'[i + 1].kind = "access"
                        => <<stack'[i].o, stack'[i].m>> # <<stack'[i + 1].o, stack'[i + 1].m>>
    BY DEF FoundItselfOnce
  <2>1. i \in 1 .. Len(stack) - 1 /\ stack'[i] = stack[i] /\ stack'[i + 1] = stack[i + 1]
    BY <1>1
  <2> QED BY <2>1 DEF CallInv, FoundItselfOnce
<1>6. SuperReachesBase'
  <2> SUFFICES ASSUME NEW i \in 1 .. Len(stack') - 2,
                      stack'[i].kind = "access",
                      stack'[i + 1] = Override(stack'[i].o, stack'[i].m, 1),
                      stack'[i + 2].kind = "access"
               PROVE  <<stack'[i + 2].o, stack'[i + 2].m>> # <<stack'[i].o, stack'[i].m>>
    BY DEF SuperReachesBase
  <2>1. /\ i \in 1 .. Len(stack) - 2 /\ stack'[i] = stack[i]
        /\ stack'[i + 1] = stack[i + 1] /\ stack'[i + 2] = stack[i + 2]
    BY <1>1
  <2> QED BY <2>1 DEF CallInv, SuperReachesBase
<1> QED BY <1>2, <1>3, <1>4, <1>5, <1>6 DEF CallInv

\* A call by code of the application, whose frame is not a JS_ACCESS function: what is
\* pushed is a JS_ACCESS function only if the flag was not set, and it sets the flag.
LEMMA CallKeepsCallInv ==
  ASSUME TypeOK, CallInv, ~TopIs({"access"}),
         stack' \in Seq(Frames), Len(stack') = Len(stack) + 1,
         \A i \in 1 .. Len(stack) : stack'[i] = Caller[i],
         LET e == stack'[Len(stack) + 1]
         IN  /\ e.kind = "access" => e.at = "found" /\ ~flag[e.o] /\ flag'[e.o]
  PROVE  CallInv'
<1> DEFINE n == Len(stack)
           e == stack'[n + 1]
<1>1. n \in Nat /\ stack \in Seq(Frames)
  BY DEF TypeOK
<1>2. \A i \in 1 .. n - 1 : stack'[i] = stack[i]
  BY <1>1, CallerLemma
<1>3. n # 0 => /\ stack[n].kind # "access" /\ stack'[n].kind = stack[n].kind
               /\ stack'[n].kind = "override" =>
                    /\ stack'[n].calls # 0
                    /\ stack'[n].calls = 1 => stack[n] = Override(stack'[n].o, stack'[n].m, 0)
  <2> SUFFICES ASSUME n # 0
               PROVE  /\ stack[n].kind # "access" /\ stack'[n].kind = stack[n].kind
                      /\ stack'[n].kind = "override" =>
                           /\ stack'[n].calls # 0
                           /\ stack'[n].calls = 1 =>
                                  stack[n] = Override(stack'[n].o, stack'[n].m, 0)
    OBVIOUS
  <2>1. stack # <<>> /\ Top = stack[n] /\ Top \in Frames /\ stack'[n] = Caller[n]
    BY <1>1, TopLemma
  <2>2. Top.kind # "access"
    BY <2>1 DEF TopIs
  <2>3. CASE Top.kind = "override"
    <3>1. stack'[n] = Override(Top.o, Top.m, IF Top.calls = 0 THEN 1 ELSE 2)
      BY <2>1, <2>3, CallerLemma DEF TopIs
    <3>2. Top = Override(Top.o, Top.m, Top.calls)
      BY <2>1, <2>3, FrameLemma
    <3> QED BY <2>1, <2>3, <3>1, <3>2 DEF Override
  <2>4. CASE Top.kind # "override"
    BY <2>1, <2>2, <2>4, CallerLemma DEF TopIs
  <2> QED BY <2>3, <2>4
<1> HIDE DEF n, e
<1>4. Len(stack') = n + 1 /\ (e.kind = "access" => e.at = "found" /\ ~flag[e.o] /\ flag'[e.o])
  BY DEF n, e
<1>5. stack'[n + 1] = e
  BY DEF e
<1>6. InnerHasCalled'
  <2> SUFFICES ASSUME NEW i \in 1 .. n
               PROVE  /\ stack'[i].kind = "access" => stack'[i].at = "called"
                      /\ stack'[i].kind = "override" => stack'[i].calls # 0
    BY <1>1, <1>4 DEF InnerHasCalled
  <2>1. CASE i = n
    BY <1>1, <1>3, <2>1
  <2>2. CASE i # n
    BY <1>1, <1>2, <2>2 DEF CallInv, InnerHasCalled, n
  <2> QED BY <2>1, <2>2
<1>7. FoundFlag'
  BY <1>1, <1>4, <1>5 DEF FoundFlag, TopIs, Top, Last
<1>8. FreshFlag'
  <2> SUFFICES ASSUME NEW i \in 1 .. n, i + 1 = n + 1, stack'[i].kind = "access" PROVE FALSE
    BY <1>1, <1>4 DEF FreshFlag
  <2> QED BY <1>1, <1>3
<1>9. FoundItselfOnce'
  <2> SUFFICES ASSUME NEW i \in 1 .. n, stack'[i].kind = "access", stack'[i + 1].kind = "access"
               PROVE  <<stack'[i].o, stack'[i].m>> # <<stack'[i + 1].o, stack'[i + 1].m>>
    BY <1>1, <1>4 DEF FoundItselfOnce
  <2>1. i # n /\ i + 1 # n
    BY <1>1, <1>3
  <2>2. i \in 1 .. n - 1 /\ stack'[i] = stack[i] /\ stack'[i + 1] = stack[i + 1]
    BY <1>1, <1>2, <2>1
  <2> QED BY <2>2 DEF CallInv, FoundItselfOnce, n
<1>10. SuperReachesBase'
  <2> SUFFICES ASSUME NEW i \in 1 .. n - 1,
                      stack'[i].kind = "access",
                      stack'[i + 1] = Override(stack'[i].o, stack'[i].m, 1),
                      stack'[i + 2].kind = "access"
               PROVE  <<stack'[i + 2].o, stack'[i + 2].m>> # <<stack'[i].o, stack'[i].m>>
    BY <1>1, <1>4 DEF SuperReachesBase
  <2>1. stack'[i] = stack[i]
    BY <1>2
  <2>2. CASE i + 1 = n
    <3>1. stack[i + 1] = Override(stack[i].o, stack[i].m, 0)
      BY <1>1, <1>3, <2>1, <2>2 DEF Override
    <3>2. flag[stack[i].o]
      BY <2>1, <2>2, <3>1 DEF CallInv, FreshFlag, n
    <3>3. ~flag[stack'[i + 2].o]
      <4>1. i + 2 = n + 1
        BY <1>1, <2>2
      <4> QED BY <1>4, <1>5, <4>1
    <3> QED BY <2>1, <3>2, <3>3
  <2>3. CASE i + 1 # n
    <3>1. CASE i + 2 = n
      BY <1>1, <1>3, <3>1
    <3>2. CASE i + 2 # n
      <4>1. /\ i \in 1 .. n - 2
            /\ stack'[i + 1] = stack[i + 1] /\ stack'[i + 2] = stack[i + 2]
        BY <1>1, <1>2, <2>3, <3>2
      <4> QED BY <2>1, <4>1 DEF CallInv, SuperReachesBase, n
    <3> QED BY <3>1, <3>2
  <2> QED BY <2>2, <2>3
<1> QED BY <1>6, <1>7, <1>8, <1>9, <1>10 DEF CallInv

\* The call of what a JS_ACCESS function found: the flag is set, so its own callback
\* leads to the base class, and a method of JavaScript starts with the flag set.
LEMMA CallFoundKeepsCallInv == TypeOK /\ CallInv /\ CallFound => CallInv'
<1> SUFFICES ASSUME TypeOK, CallInv, CallFound PROVE CallInv'
  OBVIOUS
<1> DEFINE n == Len(stack)
           o == Top.o
           m == Top.m
           t == TopBecomes(Access(o, m, "called"))
<1>1. /\ n \in Nat \ {0} /\ Top = stack[n] /\ Top.kind = "access" /\ Top.at = "found"
      /\ flag[o]
  BY TopLemma DEF CallFound, TopIs, CallInv, FoundFlag
<1>2. /\ o \in Objects /\ m \in Methods /\ t \in Seq(Frames) /\ Len(t) = n
      /\ \A i \in 1 .. n - 1 : t[i] = stack[i]
      /\ t[n] = Access(o, m, "called")
      /\ Override(o, m, 0) \in Frames
  BY CallFoundLemma
<1>3. /\ Len(stack') = n + 1
      /\ \A i \in 1 .. n - 1 : stack'[i] = stack[i]
      /\ stack'[n] = Access(o, m, "called")
      /\ \/ stack'[n + 1] = Override(o, m, 0) /\ flag'[o]
         \/ stack'[n + 1] = Native(o, m)
  <2>1. CASE HasOverride(o, m)
    <3>1. stack' = Append(t, Override(o, m, 0)) /\ flag' = flag
      BY <2>1 DEF CallFound
    <3> HIDE DEF t, n, o, m
    <3> QED BY <1>1, <1>2, <3>1, PushLemma
  <2>2. CASE ~HasOverride(o, m)
    <3>1. Enter(o, m, t) /\ flag \in [Objects -> BOOLEAN]
      BY <2>2 DEF CallFound, TypeOK
    <3> HIDE DEF t, n, o, m
    <3> QED BY <1>1, <1>2, <3>1, EnterLemma
  <2> QED BY <2>1, <2>2
<1>4. Top = Access(o, m, "found")
  BY <1>1, TopLemma, FrameLemma
<1> HIDE DEF t, n, o, m
<1>5. /\ stack'[n].kind = "access" /\ stack'[n].o = o /\ stack'[n].m = m
      /\ stack'[n].at = "called"
      /\ stack[n].kind = "access" /\ stack[n].o = o /\ stack[n].m = m
      /\ stack'[n + 1].kind # "access"
      /\ stack'[n + 1].o = o
  BY <1>1, <1>3, <1>4 DEF Access, Override, Native
<1>6. InnerHasCalled'
  <2> SUFFICES ASSUME NEW i \in 1 .. n
               PROVE  /\ stack'[i].kind = "access" => stack'[i].at = "called"
                      /\ stack'[i].kind = "override" => stack'[i].calls # 0
    BY <1>1, <1>3 DEF InnerHasCalled
  <2>1. CASE i = n
    BY <1>5, <2>1
  <2>2. CASE i # n
    BY <1>1, <1>3, <2>2 DEF CallInv, InnerHasCalled, n
  <2> QED BY <2>1, <2>2
<1>7. FoundFlag'
  BY <1>1, <1>3, <1>5 DEF FoundFlag, TopIs, Top, Last
<1>8. FreshFlag'
  <2> SUFFICES ASSUME NEW i \in 1 .. n, i + 1 = n + 1,
                      stack'[i + 1] = Override(stack'[i].o, stack'[i].m, 0)
               PROVE  flag'[stack'[i].o]
    BY <1>1, <1>3 DEF FreshFlag
  <2>1. i = n /\ stack'[n + 1] # Native(o, m)
    BY <1>1 DEF Override, Native
  <2> QED BY <1>3, <1>5, <2>1
<1>9. FoundItselfOnce'
  <2> SUFFICES ASSUME NEW i \in 1 .. n, stack'[i].kind = "access", stack'[i + 1].kind = "access"
               PROVE  <<stack'[i].o, stack'[i].m>> # <<stack'[i + 1].o, stack'[i + 1].m>>
    BY <1>1, <1>3 DEF FoundItselfOnce
  <2>1. i \in 1 .. n - 1
    BY <1>1, <1>5
  <2>2. /\ stack'[i] = stack[i]
        /\ stack'[i + 1].kind = stack[i + 1].kind
        /\ stack'[i + 1].o = stack[i + 1].o /\ stack'[i + 1].m = stack[i + 1].m
    <3>1. CASE i + 1 = n
      BY <1>3, <1>5, <2>1, <3>1
    <3>2. CASE i + 1 # n
      BY <1>1, <1>3, <2>1, <3>2
    <3> QED BY <3>1, <3>2
  <2> QED BY <2>1, <2>2 DEF CallInv, FoundItselfOnce, n
<1>10. SuperReachesBase'
  <2> SUFFICES ASSUME NEW i \in 1 .. n - 1,
                      stack'[i].kind = "access",
                      stack'[i + 1] = Override(stack'[i].o, stack'[i].m, 1),
                      stack'[i + 2].kind = "access"
               PROVE  <<stack'[i + 2].o, stack'[i + 2].m>> # <<stack'[i].o, stack'[i].m>>
    BY <1>1, <1>3 DEF SuperReachesBase
  <2>1. i + 1 # n
    BY <1>5 DEF Override
  <2>2. i \in 1 .. n - 2 /\ stack'[i] = stack[i] /\ stack'[i + 1] = stack[i + 1]
    BY <1>1, <1>3, <2>1
  <2>3. /\ stack'[i + 2].kind = stack[i + 2].kind
        /\ stack'[i + 2].o = stack[i + 2].o /\ stack'[i + 2].m = stack[i + 2].m
    <3>1. CASE i + 2 = n
      BY <1>3, <1>5, <2>2, <3>1
    <3>2. CASE i + 2 # n
      BY <1>1, <1>3, <2>2, <3>2
    <3> QED BY <3>1, <3>2
  <2>4. \/ stack[i + 2].kind # "access"
        \/ <<stack[i + 2].o, stack[i + 2].m>> # <<stack[i].o, stack[i].m>>
    BY <2>2 DEF CallInv, SuperReachesBase, n
  <2> QED BY <2>2, <2>3, <2>4
<1> QED BY <1>6, <1>7, <1>8, <1>9, <1>10 DEF CallInv

\* The caller of a virtual function or of its callback is no JS_ACCESS function.
LEMMA EnterKeepsCallInv ==
  ASSUME TypeOK, CallInv, ~TopIs({"access"}), NEW o \in Objects, NEW m \in Methods,
         Enter(o, m, Caller)
  PROVE  CallInv'
<1>1. /\ Caller \in Seq(Frames) /\ Len(Caller) = Len(stack)
      /\ flag \in [Objects -> BOOLEAN]
  BY CallerLemma DEF TypeOK
<1>2. /\ stack' \in Seq(Frames) /\ Len(stack') = Len(stack) + 1
      /\ \A i \in 1 .. Len(stack) : stack'[i] = Caller[i]
      /\ \/ stack'[Len(stack) + 1] = Native(o, m)
         \/ stack'[Len(stack) + 1] = Access(o, m, "found") /\ ~flag[o] /\ flag'[o]
  BY <1>1, EnterLemma
<1>3. LET e == stack'[Len(stack) + 1]
      IN  e.kind = "access" => e.at = "found" /\ ~flag[e.o] /\ flag'[e.o]
  BY <1>2 DEF Native, Access
<1> QED BY <1>2, <1>3, CallKeepsCallInv

\* A frame of another kind is pushed.
LEMMA PushKeepsCallInv ==
  ASSUME TypeOK, CallInv, ~TopIs({"access"}), NEW e \in Frames, e.kind # "access",
         stack' = Append(Caller, e)
  PROVE  CallInv'
<1>1. Caller \in Seq(Frames) /\ Len(Caller) = Len(stack)
  BY CallerLemma
<1>2. /\ stack' \in Seq(Frames) /\ Len(stack') = Len(stack) + 1
      /\ \A i \in 1 .. Len(stack) : stack'[i] = Caller[i]
      /\ stack'[Len(stack) + 1] = e
  BY <1>1, PushLemma
<1> QED BY <1>2, CallKeepsCallInv

\* Every step keeps CallInv.
LEMMA CallStep == TypeOK /\ CallInv /\ [Next]_vars => CallInv'
<1> SUFFICES ASSUME TypeOK, CallInv, [Next]_vars PROVE CallInv'
  OBVIOUS
<1>1. ASSUME NEW o \in Objects, NEW m \in Methods, CallVirtual(o, m) PROVE CallInv'
  <2>1. ~TopIs({"access"}) /\ Caller = stack
    BY <1>1 DEF CallVirtual, InCpp, TopIs, Caller
  <2> QED BY <1>1, <2>1, EnterKeepsCallInv DEF CallVirtual
<1>2. ASSUME NEW o \in Objects, NEW m \in Methods, CallOverride(o, m) PROVE CallInv'
  <2>1. ~TopIs({"access"})
    BY <1>2 DEF CallOverride, InScript, TopIs
  <2>2. Override(o, m, 0) \in Frames /\ Override(o, m, 0).kind # "access"
    BY DEF Frames, Override
  <2> QED BY <1>2, <2>1, <2>2, PushKeepsCallInv DEF CallOverride
<1>3. ASSUME NEW o \in Objects, NEW m \in Methods, CallMapped(o, m) PROVE CallInv'
  <2>1. ~TopIs({"access"})
    BY <1>3 DEF CallMapped, InScript, TopIs
  <2> QED BY <1>3, <2>1, EnterKeepsCallInv DEF CallMapped
<1>4. ASSUME NEW o \in Objects, NEW f \in Factories, Create(o, f) PROVE CallInv'
  <2>1. ~TopIs({"access"})
    BY <1>4 DEF Create, InCpp, InScript, TopIs
  <2>2. Creating(o, f) \in Frames /\ Creating(o, f).kind # "access"
    BY DEF Frames, Creating
  <2> QED BY <1>4, <2>1, <2>2, PushKeepsCallInv DEF Create
<1>5. CASE CallSuper
  <2>1. ~TopIs({"access"}) /\ Top.o \in Objects /\ Top.m \in Methods
    BY <1>5, TopLemma, FrameLemma DEF CallSuper, InScript, TopIs
  <2> QED BY <1>5, <2>1, EnterKeepsCallInv DEF CallSuper
<1>6. CASE CallFound
  BY <1>6, CallFoundKeepsCallInv
<1>7. CASE Return \/ ReturnFromScript \/ Throw \/ Unwind \/ ReturnFromConstructor \/ Created
  BY <1>7, PopKeepsCallInv
     DEF Return, ReturnFromScript, Throw, Unwind, ReturnFromConstructor, Created, TopIs
<1>8. CASE Construct
  <2>1. ~TopIs({"access"}) /\ Caller = stack
    BY <1>8 DEF Construct, TopIs, Caller
  <2> DEFINE e == Constructor(Top.o, built[Top.o] + 1)
  <2>2. Len(stack') = Len(stack) + 1 /\ e.kind # "access"
        /\ stack' = Append(stack, e) /\ stack \in Seq(Frames) /\ stack' \in Seq(Frames)
    BY <1>8, TypeStep DEF Construct, Constructor, TypeOK
  <2> HIDE DEF e
  <2>3. /\ \A i \in 1 .. Len(stack) : stack'[i] = Caller[i]
        /\ stack'[Len(stack) + 1] = e
    BY <2>1, <2>2
  <2> QED BY <2>1, <2>2, <2>3, CallKeepsCallInv
<1>9. CASE Catch \/ UNCHANGED vars
  <2>1. UNCHANGED <<stack, flag>>
    BY <1>9 DEF Catch, vars
  <2> QED BY <2>1 DEF CallInv, InnerHasCalled, FoundFlag, FreshFlag, FoundItselfOnce,
                      SuperReachesBase, TopIs, Top
<1> QED BY <1>1, <1>2, <1>3, <1>4, <1>5, <1>6, <1>7, <1>8, <1>9 DEF Next

LEMMA Dispatch == Spec => []CallInv
<1>1. Init => CallInv
  BY DEF Init, CallInv, InnerHasCalled, FoundFlag, FreshFlag, FoundItselfOnce,
         SuperReachesBase, TopIs
<1> QED BY <1>1, CallStep, Typing, PTL DEF Spec

\* A JS_ACCESS function that finds itself runs the C++ base class the second time.
THEOREM FindingItself == Spec => []FoundItselfOnce
<1>1. CallInv => FoundItselfOnce
  BY DEF CallInv
<1> QED BY <1>1, Dispatch, PTL

\* A method of JavaScript whose first call is of the method it hides reaches the C++
\* base class.
THEOREM CallingSuper == Spec => []SuperReachesBase
<1>1. CallInv => SuperReachesBase
  BY DEF CallInv
<1> QED BY <1>1, Dispatch, PTL

-------------------------------------------------------------------------------
(* The flag is accounted for.                                              *)

\* The frames that were there remain, but for what they have done.
LEMMA FramesRemain ==
  ASSUME TypeOK
  PROVE  /\ Len(Caller) = Len(stack)
         /\ \A i \in 1 .. Len(stack) : Caller[i].kind = stack[i].kind /\ Caller[i].o = stack[i].o
<1>1. CASE TopIs({"override"})
  <2>1. /\ Len(stack) \in Nat \ {0} /\ Top = stack[Len(stack)] /\ Top.kind = "override"
    BY <1>1, TopLemma DEF TopIs
  <2>2. /\ Caller[Len(stack)].kind = "override" /\ Caller[Len(stack)].o = Top.o
    BY <1>1, CallerLemma DEF Override
  <2>3. Len(Caller) = Len(stack) /\ \A i \in 1 .. Len(stack) - 1 : Caller[i] = stack[i]
    BY CallerLemma
  <2> QED BY <2>1, <2>2, <2>3
<1>2. CASE ~TopIs({"override"})
  BY <1>2, CallerLemma
<1> QED BY <1>1, <1>2

\* Entering a JS_ACCESS function from a stack whose frames are those there were.
LEMMA EnterAccounts ==
  ASSUME TypeOK, FlagAccounted, NEW o \in Objects, NEW m \in Methods, NEW s \in Seq(Frames),
         Enter(o, m, s), Len(s) = Len(stack),
         \A i \in 1 .. Len(stack) : s[i].kind = stack[i].kind /\ s[i].o = stack[i].o
  PROVE  FlagAccounted'
<1>1. /\ Len(stack') = Len(stack) + 1 /\ Len(stack) \in Nat
      /\ \A i \in 1 .. Len(stack) : stack'[i].kind = stack[i].kind /\ stack'[i].o = stack[i].o
      /\ \A p \in Objects \ {o} : flag'[p] = flag[p]
      /\ escaped' = escaped \ {o}
      /\ \/ stack'[Len(stack) + 1] = Native(o, m) /\ ~flag'[o]
         \/ stack'[Len(stack) + 1] = Access(o, m, "found") /\ ~flag[o] /\ flag'[o]
  <2>1. flag \in [Objects -> BOOLEAN] /\ Len(stack) \in Nat
    BY DEF TypeOK
  <2>2. /\ Len(stack') = Len(s) + 1
        /\ \A i \in 1 .. Len(s) : stack'[i] = s[i]
        /\ \A p \in Objects \ {o} : flag'[p] = flag[p]
        /\ escaped' = escaped \ {o}
        /\ \/ stack'[Len(s) + 1] = Native(o, m) /\ ~flag'[o]
           \/ stack'[Len(s) + 1] = Access(o, m, "found") /\ ~flag[o] /\ flag'[o]
    BY <2>1, EnterLemma
  <2> QED BY <2>1, <2>2
<1> SUFFICES ASSUME NEW p \in Objects, flag'[p]
             PROVE  \/ p \in escaped'
                    \/ \E i \in 1 .. Len(stack') : stack'[i].kind = "access" /\ stack'[i].o = p
  BY DEF FlagAccounted
<1>2. CASE p = o
  <2>1. stack'[Len(stack) + 1].kind = "access" /\ stack'[Len(stack) + 1].o = p
    BY <1>1, <1>2 DEF Access
  <2>2. Len(stack) + 1 \in 1 .. Len(stack')
    BY <1>1
  <2> QED BY <2>1, <2>2
<1>3. CASE p # o
  <2>1. flag[p] /\ (p \in escaped => p \in escaped')
    BY <1>1, <1>3
  <2>2. CASE \E i \in 1 .. Len(stack) : stack[i].kind = "access" /\ stack[i].o = p
    <3>1. PICK i \in 1 .. Len(stack) : stack[i].kind = "access" /\ stack[i].o = p
      BY <2>2
    <3>2. i \in 1 .. Len(stack') /\ stack'[i].kind = "access" /\ stack'[i].o = p
      BY <1>1, <3>1
    <3> QED BY <3>2
  <2> QED BY <2>1, <2>2 DEF FlagAccounted
<1> QED BY <1>2, <1>3

\* A frame that is pushed while flags and escaped stay.
LEMMA PushAccounts ==
  ASSUME TypeOK, FlagAccounted, NEW s \in Seq(Frames), NEW e \in Frames,
         stack' = Append(s, e), Len(s) = Len(stack),
         \A i \in 1 .. Len(stack) : s[i].kind = stack[i].kind /\ s[i].o = stack[i].o,
         UNCHANGED <<flag, escaped>>
  PROVE  FlagAccounted'
<1>1. /\ Len(stack') = Len(stack) + 1 /\ Len(stack) \in Nat
      /\ \A i \in 1 .. Len(stack) : stack'[i].kind = stack[i].kind /\ stack'[i].o = stack[i].o
  BY PushLemma DEF TypeOK
<1>2. \A i \in 1 .. Len(stack) : i \in 1 .. Len(stack')
  BY <1>1
<1> QED BY <1>1, <1>2 DEF FlagAccounted

\* A frame that goes: a JS_ACCESS function has cleared its flag, or is left by an
\* exception.
LEMMA PopAccounts ==
  ASSUME TypeOK, FlagAccounted, stack # <<>>, stack' = Front(stack),
         \A p \in Objects : flag'[p] =>
            /\ flag[p]
            /\ p \in escaped => p \in escaped'
            /\ Top.kind = "access" /\ Top.o = p => p \in escaped'
  PROVE  FlagAccounted'
<1>1. /\ Len(stack) \in Nat \ {0} /\ Top = stack[Len(stack)]
      /\ Len(stack') = Len(stack) - 1
      /\ \A i \in 1 .. Len(stack) - 1 : stack'[i] = stack[i]
  BY TopLemma, PopLemma DEF TypeOK
<1> SUFFICES ASSUME NEW p \in Objects, flag'[p], p \notin escaped'
             PROVE  \E i \in 1 .. Len(stack') : stack'[i].kind = "access" /\ stack'[i].o = p
  BY DEF FlagAccounted
<1>2. PICK i \in 1 .. Len(stack) : stack[i].kind = "access" /\ stack[i].o = p
  BY DEF FlagAccounted
<1>3. i # Len(stack)
  BY <1>1, <1>2
<1> QED BY <1>1, <1>2, <1>3

\* Every step accounts for the flags.
LEMMA FlagStep == TypeOK /\ FlagAccounted /\ [Next]_vars => FlagAccounted'
<1> SUFFICES ASSUME TypeOK, FlagAccounted, [Next]_vars PROVE FlagAccounted'
  OBVIOUS
<1>0. /\ flag \in [Objects -> BOOLEAN] /\ stack \in Seq(Frames) /\ Caller \in Seq(Frames)
  BY CallerLemma DEF TypeOK
<1>1. ASSUME NEW o \in Objects, NEW m \in Methods, CallVirtual(o, m) PROVE FlagAccounted'
  BY <1>0, <1>1, EnterAccounts DEF CallVirtual
<1>2. ASSUME NEW o \in Objects, NEW m \in Methods, CallOverride(o, m) PROVE FlagAccounted'
  <2>1. Override(o, m, 0) \in Frames
    BY DEF Frames
  <2> QED BY <1>0, <1>2, <2>1, FramesRemain, PushAccounts DEF CallOverride
<1>3. ASSUME NEW o \in Objects, NEW m \in Methods, CallMapped(o, m) PROVE FlagAccounted'
  BY <1>0, <1>3, FramesRemain, EnterAccounts DEF CallMapped
<1>4. ASSUME NEW o \in Objects, NEW f \in Factories, Create(o, f) PROVE FlagAccounted'
  <2>1. Creating(o, f) \in Frames
    BY DEF Frames
  <2> QED BY <1>0, <1>4, <2>1, FramesRemain, PushAccounts DEF Create
<1>5. CASE CallSuper
  <2>1. Top.o \in Objects /\ Top.m \in Methods
    BY <1>5, TopLemma, FrameLemma DEF CallSuper, TopIs
  <2> QED BY <1>0, <1>5, <2>1, FramesRemain, EnterAccounts DEF CallSuper
<1>6. CASE CallFound
  <2> DEFINE t == TopBecomes(Access(Top.o, Top.m, "called"))
  <2>1. /\ Top.o \in Objects /\ Top.m \in Methods /\ t \in Seq(Frames)
        /\ Override(Top.o, Top.m, 0) \in Frames
        /\ Len(t) = Len(stack)
        /\ \A i \in 1 .. Len(stack) - 1 : t[i] = stack[i]
        /\ t[Len(stack)] = Access(Top.o, Top.m, "called")
    BY <1>6, CallFoundLemma
  <2>2. Len(stack) \in Nat \ {0} /\ Top = stack[Len(stack)] /\ Top.kind = "access"
    BY <1>6, TopLemma DEF CallFound, TopIs
  <2>3. \A i \in 1 .. Len(stack) : t[i].kind = stack[i].kind /\ t[i].o = stack[i].o
    BY <2>1, <2>2 DEF Access
  <2>4. CASE HasOverride(Top.o, Top.m)
    <3>1. stack' = Append(t, Override(Top.o, Top.m, 0)) /\ UNCHANGED <<flag, escaped>>
      BY <1>6, <2>4 DEF CallFound
    <3> HIDE DEF t
    <3> QED BY <2>1, <2>3, <3>1, PushAccounts
  <2>5. CASE ~HasOverride(Top.o, Top.m)
    <3>1. Enter(Top.o, Top.m, t)
      BY <1>6, <2>5 DEF CallFound
    <3> HIDE DEF t
    <3> QED BY <2>1, <2>3, <3>1, EnterAccounts
  <2> QED BY <2>4, <2>5
<1>7. CASE Return \/ Throw \/ ReturnFromConstructor \/ Created
  <2>1. stack # <<>> /\ stack' = Front(stack) /\ Top.kind # "access" /\ UNCHANGED <<flag, escaped>>
    BY <1>7 DEF Return, Throw, ReturnFromConstructor, Created, TopIs
  <2> QED BY <2>1, PopAccounts
<1>8. CASE ReturnFromScript
  <2>1. /\ stack # <<>> /\ stack' = Front(stack)
        /\ flag' = [flag EXCEPT ![Top.o] = FALSE] /\ escaped' = escaped \ {Top.o}
    BY <1>8 DEF ReturnFromScript, TopIs
  <2>2. \A p \in Objects : flag'[p] => flag[p] /\ p # Top.o
    BY <1>0, <2>1
  <2> QED BY <2>1, <2>2, PopAccounts
<1>9. CASE Unwind
  <2>1. /\ stack # <<>> /\ stack' = Front(stack) /\ flag' = flag
        /\ escaped' = IF Top.kind = "access" /\ flag[Top.o] THEN escaped \cup {Top.o} ELSE escaped
    BY <1>9 DEF Unwind
  <2> QED BY <2>1, PopAccounts
<1>10. CASE Construct
  <2> DEFINE e == Constructor(Top.o, built[Top.o] + 1)
  <2>1. stack' = Append(stack, e) /\ UNCHANGED <<flag, escaped>>
    BY <1>10 DEF Construct
  <2>2. Len(stack') = Len(stack) + 1 /\ Len(stack) \in Nat
        /\ \A i \in 1 .. Len(stack) : stack'[i] = stack[i]
    BY <1>0, <2>1
  <2>3. \A i \in 1 .. Len(stack) : i \in 1 .. Len(stack')
    BY <2>2
  <2> HIDE DEF e
  <2> QED BY <2>1, <2>2, <2>3 DEF FlagAccounted
<1>11. CASE Catch \/ UNCHANGED vars
  BY <1>11 DEF Catch, vars, FlagAccounted
<1> QED BY <1>1, <1>2, <1>3, <1>4, <1>5, <1>6, <1>7, <1>8, <1>9, <1>10, <1>11 DEF Next

\* The flag of an object is set only during a call from one of its JS_ACCESS functions
\* to JavaScript, or after one that ended in an exception.
THEOREM FlagAccounting == Spec => []FlagAccounted
<1>1. Init => FlagAccounted
  BY DEF Init, FlagAccounted
<1> QED BY <1>1, FlagStep, Typing, PTL DEF Spec

\* A step that begins a call of the application.
LEMMA ReachStep ==
  ASSUME TypeOK, FlagAccounted, [Next]_vars, stack = <<>>, stack' # <<>>,
         stack'[1].kind = "native", HasOverride(stack'[1].o, stack'[1].m)
  PROVE  stack'[1].o \in escaped
<1>1. ASSUME NEW o \in Objects, NEW m \in Methods, Enter(o, m, stack)
      PROVE  stack'[1].o \in escaped
  <2>1. CASE EnterNative(o, m, stack)
    <3>1. stack'[1] = Native(o, m)
      BY <2>1 DEF EnterNative
    <3>2. HasOverride(o, m)
      BY <3>1 DEF Native
    <3>3. flag[o]
      <4>1. EnterScript(o, m, stack) => stack'[1] = Access(o, m, "found")
        BY DEF EnterScript
      <4>2. ~EnterScript(o, m, stack)
        BY <4>1 DEF Access
      <4> QED BY <1>1, <3>2, <4>2 DEF Enter, Found
    <3>4. o \in escaped
      BY <3>3 DEF FlagAccounted
    <3> QED BY <3>1, <3>4 DEF Native
  <2>2. CASE EnterScript(o, m, stack)
    BY <2>2 DEF EnterScript, Access
  <2> QED BY <1>1, <2>1, <2>2 DEF Enter
<1>2. ~TopIs({"override"}) /\ Caller = stack
  BY DEF TopIs, Caller
<1>3. ASSUME NEW o \in Objects, NEW m \in Methods, CallVirtual(o, m) \/ CallMapped(o, m)
      PROVE  stack'[1].o \in escaped
  BY <1>1, <1>2, <1>3 DEF CallVirtual, CallMapped
<1>4. ASSUME NEW o \in Objects, NEW m \in Methods, CallOverride(o, m) PROVE FALSE
  BY <1>2, <1>4 DEF CallOverride, Override
<1>5. ASSUME NEW o \in Objects, NEW f \in Factories, Create(o, f) PROVE FALSE
  BY <1>2, <1>5 DEF Create, Creating
<1> QED BY <1>3, <1>4, <1>5
     DEF Next, CallSuper, CallFound, Return, ReturnFromScript, Throw, Unwind, Catch, Construct,
         ReturnFromConstructor, Created, TopIs, vars

\* A virtual call by the application of a method that JavaScript overrides goes to
\* JavaScript, except the first one after an exception.
THEOREM Reaching == Spec => CallsReachOverride
<1>1. TypeOK /\ FlagAccounted /\ [Next]_vars =>
        [ stack = <<>> /\ stack' # <<>> =>
            LET call == stack'[1]
            IN  call.kind = "native" /\ HasOverride(call.o, call.m) => call.o \in escaped ]_vars
  BY ReachStep
<1> QED BY <1>1, Typing, FlagAccounting, PTL DEF Spec, CallsReachOverride

-------------------------------------------------------------------------------
(* Constructors.                                                           *)

\* An object is created once, and its constructors are called by that creation.
CreatedOnce ==
    \A i, j \in 1 .. Len(stack) :
        stack[i].kind = "create" /\ stack[j].kind = "create" /\ stack[i].o = stack[j].o => i = j

CalledByCreate ==
    \A i \in 1 .. Len(stack) :
        stack[i].kind = "constructor" =>
            /\ i - 1 \in 1 .. Len(stack)
            /\ stack[i - 1].kind = "create"
            /\ stack[i - 1].o = stack[i].o

OrderInv == CreatedOnce /\ CalledByCreate /\ ConstructorsInOrder

\* What keeps the frames that remain keeps the order.
LEMMA RemainKeepsOrder ==
  ASSUME TypeOK, OrderInv, NEW n \in 0 .. Len(stack), Len(stack') = n,
         \A i \in 1 .. n : /\ stack'[i].kind = stack[i].kind /\ stack'[i].o = stack[i].o
                           /\ stack[i].kind = "constructor" => stack'[i].f = stack[i].f,
         UNCHANGED <<level, built>>
  PROVE  OrderInv'
<1>1. n \in Nat /\ Len(stack) \in Nat /\ \A i \in 1 .. n : i \in 1 .. Len(stack)
  BY DEF TypeOK
<1>2. CreatedOnce'
  BY <1>1 DEF OrderInv, CreatedOnce
<1>3. CalledByCreate'
  <2> SUFFICES ASSUME NEW i \in 1 .. n, stack'[i].kind = "constructor"
               PROVE  /\ i - 1 \in 1 .. n
                      /\ stack'[i - 1].kind = "create" /\ stack'[i - 1].o = stack'[i].o
    BY DEF CalledByCreate
  <2>1. /\ i - 1 \in 1 .. Len(stack) /\ stack[i - 1].kind = "create"
        /\ stack[i - 1].o = stack[i].o
    BY <1>1 DEF OrderInv, CalledByCreate
  <2>2. i - 1 \in 1 .. n
    BY <1>1, <2>1
  <2> QED BY <2>1, <2>2
<1>4. ConstructorsInOrder'
  BY <1>1 DEF OrderInv, ConstructorsInOrder
<1> QED BY <1>2, <1>3, <1>4 DEF OrderInv

\* A frame is pushed that is no constructor, and is no second creation.
LEMMA PushKeepsOrder ==
  ASSUME TypeOK, OrderInv, Len(stack') = Len(stack) + 1,
         \A i \in 1 .. Len(stack) :
            /\ stack'[i].kind = stack[i].kind /\ stack'[i].o = stack[i].o
            /\ stack[i].kind = "constructor" => stack'[i].f = stack[i].f,
         stack'[Len(stack) + 1].kind # "constructor",
         stack'[Len(stack) + 1].kind = "create" =>
            \A i \in 1 .. Len(stack) : stack[i].o # stack'[Len(stack) + 1].o,
         UNCHANGED <<level, built>>
  PROVE  OrderInv'
<1> DEFINE n == Len(stack)
<1>1. n \in Nat
  BY DEF TypeOK
<1>2. CreatedOnce'
  <2> SUFFICES ASSUME NEW i \in 1 .. n + 1, NEW j \in 1 .. n + 1, stack'[i].kind = "create",
                      stack'[j].kind = "create", stack'[i].o = stack'[j].o
               PROVE  i = j
    BY DEF CreatedOnce
  <2>1. (i \in 1 .. n \/ i = n + 1) /\ (j \in 1 .. n \/ j = n + 1)
    BY <1>1
  <2> QED BY <2>1 DEF OrderInv, CreatedOnce
<1>3. CalledByCreate'
  <2> SUFFICES ASSUME NEW i \in 1 .. n + 1, stack'[i].kind = "constructor"
               PROVE  /\ i - 1 \in 1 .. n + 1
                      /\ stack'[i - 1].kind = "create" /\ stack'[i - 1].o = stack'[i].o
    BY DEF CalledByCreate
  <2>1. i \in 1 .. n
    BY <1>1
  <2>2. /\ i - 1 \in 1 .. n /\ stack[i - 1].kind = "create" /\ stack[i - 1].o = stack[i].o
    BY <2>1 DEF OrderInv, CalledByCreate
  <2> QED BY <1>1, <2>1, <2>2
<1>4. ConstructorsInOrder'
  <2> SUFFICES ASSUME NEW i \in 1 .. n + 1, stack'[i].kind = "constructor"
               PROVE  level[stack'[i].o] = stack'[i].f /\ built[stack'[i].o] = stack'[i].f - 1
    BY DEF ConstructorsInOrder
  <2>1. i \in 1 .. n
    BY <1>1
  <2> QED BY <2>1 DEF OrderInv, ConstructorsInOrder
<1> QED BY <1>2, <1>3, <1>4 DEF OrderInv

\* A constructor of the object that is being created is not already running.
LEMMA OneConstructor ==
  ASSUME TypeOK, OrderInv, NEW i \in 1 .. Len(stack), stack[i].kind = "constructor",
         NEW j \in 1 .. Len(stack), stack[j].kind = "create", stack[j].o = stack[i].o
  PROVE  i = j + 1
<1>1. i - 1 = j
  BY DEF OrderInv, CalledByCreate, CreatedOnce
<1>2. Len(stack) \in Nat
  BY DEF TypeOK
<1> QED BY <1>1, <1>2

\* The next constructor.
LEMMA ConstructKeepsOrder == TypeOK /\ OrderInv /\ Construct => OrderInv'
<1> SUFFICES ASSUME TypeOK, OrderInv, Construct PROVE OrderInv'
  OBVIOUS
<1> DEFINE n == Len(stack)
           o == Top.o
           next == built[o] + 1
<1>1. /\ n \in Nat \ {0} /\ Top = stack[n] /\ stack[n].kind = "create" /\ o \in Objects
  BY TopLemma, FrameLemma DEF Construct, TopIs
<1>2. /\ level' = [level EXCEPT ![o] = next] /\ built' = built
      /\ level \in [Objects -> 0 .. Len(Prototypes)] /\ built[o] \in Nat
  BY <1>1 DEF Construct, TypeOK
<1>3. Len(stack') = n + 1 /\ (\A i \in 1 .. n : stack'[i] = stack[i])
      /\ stack'[n + 1] = Constructor(o, next)
  BY DEF Construct, TypeOK
<1>4. \A i \in 1 .. n : stack[i].kind = "constructor" => stack[i].o # o
  <2> SUFFICES ASSUME NEW i \in 1 .. n, stack[i].kind = "constructor", stack[i].o = o PROVE FALSE
    OBVIOUS
  <2>1. n \in 1 .. Len(stack) /\ stack[n].o = stack[i].o
    BY <1>1
  <2>2. i = n + 1
    BY <1>1, <2>1, OneConstructor
  <2> QED BY <1>1, <2>2
<1>5. stack[n].o = o
  BY <1>1
<1>6. \A i \in 1 .. n : stack[i].kind = "constructor" => stack[i].o \in Objects
  BY FrameLemma DEF TypeOK
<1> HIDE DEF n, o, next
<1>7. /\ stack'[n + 1].kind = "constructor" /\ stack'[n + 1].o = o
      /\ stack'[n + 1].f = next
  BY <1>3 DEF Constructor
<1>8. CreatedOnce'
  <2> SUFFICES ASSUME NEW i \in 1 .. n + 1, NEW j \in 1 .. n + 1, stack'[i].kind = "create",
                      stack'[j].kind = "create", stack'[i].o = stack'[j].o
               PROVE  i = j
    BY <1>3 DEF CreatedOnce
  <2>1. i \in 1 .. n /\ j \in 1 .. n
    BY <1>1, <1>7
  <2> QED BY <1>3, <2>1 DEF OrderInv, CreatedOnce, n
<1>9. CalledByCreate'
  <2> SUFFICES ASSUME NEW i \in 1 .. n + 1, stack'[i].kind = "constructor"
               PROVE  /\ i - 1 \in 1 .. n + 1
                      /\ stack'[i - 1].kind = "create" /\ stack'[i - 1].o = stack'[i].o
    BY <1>3 DEF CalledByCreate
  <2>1. CASE i = n + 1
    BY <1>1, <1>3, <1>5, <1>7, <2>1
  <2>2. CASE i # n + 1
    <3>1. i \in 1 .. n /\ stack'[i] = stack[i]
      BY <1>1, <1>3, <2>2
    <3>2. /\ i - 1 \in 1 .. n /\ stack[i - 1].kind = "create" /\ stack[i - 1].o = stack[i].o
      BY <3>1 DEF OrderInv, CalledByCreate, n
    <3> QED BY <1>1, <1>3, <3>1, <3>2
  <2> QED BY <2>1, <2>2
<1>10. ConstructorsInOrder'
  <2> SUFFICES ASSUME NEW i \in 1 .. n + 1, stack'[i].kind = "constructor"
               PROVE  level'[stack'[i].o] = stack'[i].f /\ built'[stack'[i].o] = stack'[i].f - 1
    BY <1>3 DEF ConstructorsInOrder
  <2>1. CASE i = n + 1
    <3>1. level'[o] = next /\ built'[o] = next - 1
      BY <1>1, <1>2 DEF next
    <3> QED BY <1>7, <2>1, <3>1
  <2>2. CASE i # n + 1
    <3>1. i \in 1 .. n /\ stack'[i] = stack[i]
      BY <1>1, <1>3, <2>2
    <3>2. level[stack[i].o] = stack[i].f /\ built[stack[i].o] = stack[i].f - 1
      BY <3>1 DEF OrderInv, ConstructorsInOrder, n
    <3>3. stack[i].o # o /\ stack[i].o \in Objects
      BY <1>4, <1>6, <3>1
    <3> QED BY <1>2, <3>1, <3>2, <3>3
  <2> QED BY <2>1, <2>2
<1> QED BY <1>8, <1>9, <1>10 DEF OrderInv

\* The return of a constructor.
LEMMA ConstructorReturns == TypeOK /\ OrderInv /\ ReturnFromConstructor => OrderInv'
<1> SUFFICES ASSUME TypeOK, OrderInv, ReturnFromConstructor PROVE OrderInv'
  OBVIOUS
<1> DEFINE n == Len(stack)
           o == Top.o
<1>1. /\ n \in Nat \ {0} /\ Top = stack[n] /\ stack[n].kind = "constructor" /\ o \in Objects
      /\ stack' = Front(stack) /\ stack # <<>> /\ stack \in Seq(Frames)
  BY TopLemma, FrameLemma DEF ReturnFromConstructor, TopIs, TypeOK
<1>2. /\ level' = level /\ built' = [built EXCEPT ![o] = Top.f]
      /\ built \in [Objects -> 0 .. Len(Prototypes)]
  BY DEF ReturnFromConstructor, TypeOK
<1>3. Len(stack') = n - 1 /\ \A i \in 1 .. n - 1 : stack'[i] = stack[i]
  BY <1>1, PopLemma
<1>4. /\ n - 1 \in 1 .. n /\ stack[n - 1].kind = "create" /\ stack[n - 1].o = o
  BY <1>1 DEF OrderInv, CalledByCreate
<1>5. \A i \in 1 .. n - 1 : stack[i].kind = "constructor" =>
          stack[i].o # o /\ stack[i].o \in Objects
  <2> SUFFICES ASSUME NEW i \in 1 .. n - 1, stack[i].kind = "constructor"
               PROVE  stack[i].o # o /\ stack[i].o \in Objects
    OBVIOUS
  <2>1. i \in 1 .. Len(stack) /\ stack[i] \in Frames
    BY <1>1
  <2>2. stack[i].o = o => i = n - 1 + 1
    BY <1>4, <2>1, OneConstructor
  <2> QED BY <1>1, <2>1, <2>2, FrameLemma
<1> HIDE DEF n, o
<1>6. CreatedOnce'
  <2> SUFFICES ASSUME NEW i \in 1 .. n - 1, NEW j \in 1 .. n - 1, stack'[i].kind = "create",
                      stack'[j].kind = "create", stack'[i].o = stack'[j].o
               PROVE  i = j
    BY <1>3 DEF CreatedOnce
  <2>1. i \in 1 .. n /\ j \in 1 .. n
    BY <1>1
  <2> QED BY <1>3, <2>1 DEF OrderInv, CreatedOnce, n
<1>7. CalledByCreate'
  <2> SUFFICES ASSUME NEW i \in 1 .. n - 1, stack'[i].kind = "constructor"
               PROVE  /\ i - 1 \in 1 .. n - 1
                      /\ stack'[i - 1].kind = "create" /\ stack'[i - 1].o = stack'[i].o
    BY <1>3 DEF CalledByCreate
  <2>1. i \in 1 .. n
    BY <1>1
  <2>2. /\ i - 1 \in 1 .. n /\ stack[i - 1].kind = "create" /\ stack[i - 1].o = stack[i].o
    BY <1>3, <2>1 DEF OrderInv, CalledByCreate, n
  <2>3. i - 1 \in 1 .. n - 1
    BY <1>1, <2>2
  <2> QED BY <1>3, <2>2, <2>3
<1>8. ConstructorsInOrder'
  <2> SUFFICES ASSUME NEW i \in 1 .. n - 1, stack'[i].kind = "constructor"
               PROVE  level'[stack'[i].o] = stack'[i].f /\ built'[stack'[i].o] = stack'[i].f - 1
    BY <1>3 DEF ConstructorsInOrder
  <2>1. i \in 1 .. n
    BY <1>1
  <2>2. level[stack[i].o] = stack[i].f /\ built[stack[i].o] = stack[i].f - 1
    BY <1>3, <2>1 DEF OrderInv, ConstructorsInOrder, n
  <2> QED BY <1>2, <1>3, <1>5, <2>2
<1> QED BY <1>6, <1>7, <1>8 DEF OrderInv

\* Every step keeps the order.
LEMMA OrderStep == TypeOK /\ OrderInv /\ [Next]_vars => OrderInv'
<1> SUFFICES ASSUME TypeOK, OrderInv, [Next]_vars PROVE OrderInv'
  OBVIOUS
<1>0. /\ flag \in [Objects -> BOOLEAN] /\ stack \in Seq(Frames) /\ Len(stack) \in Nat
      /\ Caller \in Seq(Frames) /\ Len(Caller) = Len(stack)
      /\ \A i \in 1 .. Len(stack) :
            /\ Caller[i].kind = stack[i].kind /\ Caller[i].o = stack[i].o
            /\ stack[i].kind = "constructor" => Caller[i].f = stack[i].f
  <2>1. \A i \in 1 .. Len(stack) : stack[i].kind = "constructor" => Caller[i] = stack[i]
    <3>1. CASE TopIs({"override"})
      BY <3>1, CallerLemma, TopLemma DEF TopIs
    <3>2. CASE ~TopIs({"override"})
      BY <3>2, CallerLemma
    <3> QED BY <3>1, <3>2
  <2>2. flag \in [Objects -> BOOLEAN] /\ stack \in Seq(Frames)
    BY DEF TypeOK
  <2>3. Len(stack) \in Nat
    BY <2>2
  <2>4. Caller \in Seq(Frames) /\ Len(Caller) = Len(stack)
    BY CallerLemma
  <2>5. \A i \in 1 .. Len(stack) : Caller[i].kind = stack[i].kind /\ Caller[i].o = stack[i].o
    BY FramesRemain
  <2> QED BY <2>1, <2>2, <2>3, <2>4, <2>5
<1>1. ASSUME NEW s \in Seq(Frames), Len(s) = Len(stack), NEW o \in Objects, NEW m \in Methods,
             \A i \in 1 .. Len(stack) :
                /\ s[i].kind = stack[i].kind /\ s[i].o = stack[i].o
                /\ stack[i].kind = "constructor" => s[i].f = stack[i].f,
             Enter(o, m, s) \/ stack' = Append(s, Override(o, m, 0)),
             UNCHANGED <<level, built>>
      PROVE  OrderInv'
  <2>1. Override(o, m, 0) \in Frames
    BY DEF Frames
  <2>2. /\ Len(stack') = Len(s) + 1
        /\ \A i \in 1 .. Len(s) : stack'[i] = s[i]
        /\ stack'[Len(s) + 1] \in {Native(o, m), Access(o, m, "found"), Override(o, m, 0)}
    <3>1. CASE Enter(o, m, s)
      <4>1. flag \in [Objects -> BOOLEAN]
        BY <1>0
      <4>2. /\ Len(stack') = Len(s) + 1
            /\ \A i \in 1 .. Len(s) : stack'[i] = s[i]
            /\ \/ stack'[Len(s) + 1] = Native(o, m)
               \/ stack'[Len(s) + 1] = Access(o, m, "found")
        BY <1>1, <3>1, <4>1, EnterLemma
      <4> QED BY <4>2
    <3>2. CASE stack' = Append(s, Override(o, m, 0))
      BY <1>1, <2>1, <3>2, PushLemma
    <3> QED BY <1>1, <3>1, <3>2
  <2>3. stack'[Len(s) + 1].kind \notin {"constructor", "create"}
    BY <2>2 DEF Native, Access, Override
  <2> QED BY <1>1, <2>2, <2>3, PushKeepsOrder
<1>2. ASSUME NEW o \in Objects, NEW m \in Methods,
             CallVirtual(o, m) \/ CallOverride(o, m) \/ CallMapped(o, m)
      PROVE  OrderInv'
  <2>1. CASE CallVirtual(o, m)
    BY <1>0, <1>1, <2>1 DEF CallVirtual
  <2>2. CASE CallOverride(o, m)
    BY <1>0, <1>1, <2>2 DEF CallOverride
  <2>3. CASE CallMapped(o, m)
    BY <1>0, <1>1, <2>3 DEF CallMapped
  <2> QED BY <1>2, <2>1, <2>2, <2>3
<1>3. ASSUME NEW o \in Objects, NEW f \in Factories, Create(o, f) PROVE OrderInv'
  <2>1. Creating(o, f) \in Frames
    BY DEF Frames
  <2>2. /\ Len(stack') = Len(stack) + 1
        /\ \A i \in 1 .. Len(stack) : stack'[i] = Caller[i]
        /\ stack'[Len(stack) + 1] = Creating(o, f)
    BY <1>0, <1>3, <2>1, PushLemma DEF Create
  <2>3. stack'[Len(stack) + 1].kind = "create" /\ stack'[Len(stack) + 1].o = o
    BY <2>2 DEF Creating
  <2>4. \A i \in 1 .. Len(stack) : stack[i].o # o
    BY <1>3 DEF Create
  <2>5. UNCHANGED <<level, built>>
    BY <1>3 DEF Create
  <2> QED BY <1>0, <2>2, <2>3, <2>4, <2>5, PushKeepsOrder
<1>4. CASE CallSuper
  <2>1. Top.o \in Objects /\ Top.m \in Methods
    BY <1>4, TopLemma, FrameLemma DEF CallSuper, TopIs
  <2> QED BY <1>0, <1>1, <1>4, <2>1 DEF CallSuper
<1>5. CASE CallFound
  <2> DEFINE t == TopBecomes(Access(Top.o, Top.m, "called"))
  <2>1. /\ Top.o \in Objects /\ Top.m \in Methods /\ t \in Seq(Frames)
        /\ Len(t) = Len(stack)
        /\ \A i \in 1 .. Len(stack) - 1 : t[i] = stack[i]
        /\ t[Len(stack)] = Access(Top.o, Top.m, "called")
    BY <1>5, CallFoundLemma
  <2>2. Len(stack) \in Nat \ {0} /\ Top = stack[Len(stack)] /\ Top.kind = "access"
    BY <1>5, TopLemma DEF CallFound, TopIs
  <2>3. \A i \in 1 .. Len(stack) :
            /\ t[i].kind = stack[i].kind /\ t[i].o = stack[i].o
            /\ stack[i].kind = "constructor" => t[i].f = stack[i].f
    BY <2>1, <2>2 DEF Access
  <2>4. Enter(Top.o, Top.m, t) \/ stack' = Append(t, Override(Top.o, Top.m, 0))
    BY <1>5 DEF CallFound
  <2>5. UNCHANGED <<level, built>>
    BY <1>5 DEF CallFound
  <2> HIDE DEF t
  <2> QED BY <1>1, <2>1, <2>3, <2>4, <2>5
<1>6. CASE Return \/ ReturnFromScript \/ Throw \/ Unwind \/ Created
  <2>1. stack # <<>> /\ stack' = Front(stack) /\ UNCHANGED <<level, built>>
    BY <1>6 DEF Return, ReturnFromScript, Throw, Unwind, Created, TopIs
  <2>2. /\ Len(stack) - 1 \in 0 .. Len(stack) /\ Len(stack') = Len(stack) - 1
        /\ \A i \in 1 .. Len(stack) - 1 : stack'[i] = stack[i]
    BY <1>0, <2>1, PopLemma
  <2> QED BY <2>1, <2>2, RemainKeepsOrder
<1>7. CASE Catch \/ UNCHANGED vars
  BY <1>7 DEF Catch, vars, OrderInv, CreatedOnce, CalledByCreate, ConstructorsInOrder
<1> QED BY <1>2, <1>3, <1>4, <1>5, <1>6, <1>7, ConstructKeepsOrder, ConstructorReturns DEF Next

\* A constructor runs on an object with the prototype of its factory, after all the
\* constructors of its base factories have returned.
THEOREM ConstructorOrder == Spec => []ConstructorsInOrder
<1>1. Init => OrderInv
  BY DEF Init, OrderInv, CreatedOnce, CalledByCreate, ConstructorsInOrder
<1>2. OrderInv => ConstructorsInOrder
  BY DEF OrderInv
<1> QED BY <1>1, <1>2, OrderStep, Typing, PTL DEF Spec
===============================================================================
