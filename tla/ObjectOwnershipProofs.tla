------------------------ MODULE ObjectOwnershipProofs ------------------------
(***************************************************************************)
(* Proofs about ObjectOwnership, for any number of addresses and           *)
(* JavaScript objects: its types, that an object has one owner, that the   *)
(* existing objects of a wrapper are what they are remembered as, and that *)
(* ownership moves as CppOwnership allows.                                 *)
(*                                                                         *)
(* SingleOwner is inductive with the types: a new JavaScript object owns   *)
(* an address nobody owned, or one a unique_ptr gives up in the same step. *)
(***************************************************************************)
EXTENDS ObjectOwnership, TLAPS

-------------------------------------------------------------------------------
(* Types.                                                                  *)

\* Making a JavaScript object keeps the types.
LEMMA InitializeType ==
  ASSUME TypeOK, NEW o \in Objects, NEW a \in Addresses, NEW v \in Views,
         NEW cb \in {"leave", "delete"}, InitializeNewJsObject(o, a, v, cb)
  PROVE  /\ native' \in [Objects -> Addresses \cup {NoAddress}]
         /\ view' \in [Objects -> Views]
         /\ callback' \in [Objects -> {"none", "leave", "delete"}]
         /\ existing' \in [Views -> [Addresses -> Objects \cup {NoObject}]]
         /\ roots' \subseteq Objects
BY DEF TypeOK, InitializeNewJsObject, Remember

\* So does finding one, or making one when there is none.
LEMMA WrapType ==
  ASSUME TypeOK, NEW a \in Addresses, NEW v \in Views,
         NEW cb \in {"leave", "delete"}, WrapExistingCppObject(a, v, cb)
  PROVE  /\ native' \in [Objects -> Addresses \cup {NoAddress}]
         /\ view' \in [Objects -> Views]
         /\ callback' \in [Objects -> {"none", "leave", "delete"}]
         /\ existing' \in [Views -> [Addresses -> Objects \cup {NoObject}]]
         /\ roots' \subseteq Objects
<1>1. CASE existing[v][a] # NoObject /\ roots' = roots \cup {existing[v][a]}
           /\ UNCHANGED <<native, view, callback, existing>>
  BY <1>1 DEF TypeOK
<1>2. CASE \E o \in Objects : InitializeNewJsObject(o, a, v, cb)
  BY <1>2, InitializeType
<1> QED
  BY <1>1, <1>2 DEF WrapExistingCppObject

\* SingleOwner is needed for the types: an object that is released has an address.
OwnerInv == TypeOK /\ SingleOwner

\* Every step keeps the types.
LEMMA TypeStep == OwnerInv /\ [Next]_vars => TypeOK'
<1> SUFFICES ASSUME OwnerInv, [Next]_vars PROVE TypeOK'
  OBVIOUS
<1> USE DEF OwnerInv
<1>1. ASSUME NEW a \in Addresses, CppNew(a) \/ CppDelete(a) PROVE TypeOK'
  BY <1>1 DEF CppNew, CppDelete, jsVars, TypeOK
<1>2. ASSUME NEW a \in Addresses, JsNew(a) PROVE TypeOK'
  <2>1. PICK o \in Objects : InitializeNewJsObject(o, a, "plain", "delete")
    BY <1>2 DEF JsNew
  <2>2. live' \subseteq Addresses /\ cppOwned' \subseteq Addresses
    BY <1>2 DEF JsNew, TypeOK
  <2> QED BY <2>1, <2>2, InitializeType DEF TypeOK, Views
<1>3. ASSUME NEW a \in Addresses, NEW v \in Views,
             ReturnLvalue(a, v) \/ ReturnRvalue(a, v) \/ ReturnUniquePtr(a, v)
      PROVE  TypeOK'
  <2>1. live' \subseteq Addresses /\ cppOwned' \subseteq Addresses
    BY <1>3 DEF ReturnLvalue, ReturnRvalue, ReturnUniquePtr, TypeOK
  <2>2. PICK cb \in {"leave", "delete"} : WrapExistingCppObject(a, v, cb)
    BY <1>3 DEF ReturnLvalue, ReturnRvalue, ReturnUniquePtr
  <2> QED BY <2>1, <2>2, WrapType DEF TypeOK
<1>4. ASSUME NEW o \in Objects, NEW parameter \in Views, TakeUniquePtr(o, parameter)
      PROVE  TypeOK'
  <2>1. native[o] \in Addresses
    BY <1>4 DEF TakeUniquePtr, SingleOwner, TypeOK
  <2> QED BY <1>4, <2>1 DEF TakeUniquePtr, Release, TypeOK
<1>5. ASSUME NEW o \in Objects, NEW parameter \in Views, NEW b \in Addresses,
             TakeCopy(o, parameter, b)
      PROVE  TypeOK'
  BY <1>5 DEF TakeCopy, jsVars, TypeOK
<1>6. ASSUME NEW o \in Objects, Drop(o) PROVE TypeOK'
  BY <1>6 DEF Drop, TypeOK
<1>7. ASSUME NEW o \in Objects, Collect(o) PROVE TypeOK'
  BY <1>7 DEF Collect, TypeOK
<1>8. CASE UNCHANGED vars
  BY <1>8 DEF vars, TypeOK
<1> QED
  BY <1>1, <1>2, <1>3, <1>4, <1>5, <1>6, <1>7, <1>8 DEF Next

-------------------------------------------------------------------------------
(* One owner.                                                              *)

\* An object that owns its memory owns an address, so an unused one owns nothing.
LEMMA UnusedOwnsNothing ==
  ASSUME OwnerInv, NEW o \in Unused PROVE ~Owns(o)
BY OwnershipAssumption DEF OwnerInv, SingleOwner, TypeOK, Unused

\* Making a JavaScript object gives an owner to its address alone, and only if it
\* is to delete the C++ object.
LEMMA InitializeOwners ==
  ASSUME OwnerInv, NEW o \in Objects, NEW a \in Addresses, NEW v \in Views,
         NEW cb \in {"leave", "delete"}, InitializeNewJsObject(o, a, v, cb)
  PROVE  /\ Owns(o)' <=> cb = "delete"
         /\ native'[o] = a
         /\ ~Owns(o)
         /\ \A p \in Objects \ {o} : (Owns(p)' <=> Owns(p)) /\ native'[p] = native[p]
<1>1. ~Owns(o)
  BY UnusedOwnsNothing DEF InitializeNewJsObject
<1> QED
  BY <1>1 DEF InitializeNewJsObject, Owns, OwnerInv, TypeOK

\* Owners may be added for an address that nobody owns once the step is taken.
LEMMA WrapSingleOwner ==
  ASSUME OwnerInv, NEW a \in Addresses, NEW v \in Views,
         NEW cb \in {"leave", "delete"}, WrapExistingCppObject(a, v, cb),
         cppOwned' \subseteq live', live \subseteq live', cppOwned' \subseteq cppOwned,
         cb = "delete" =>
           a \in live' \ cppOwned' /\ \A p \in Objects : Owns(p) => native[p] # a
  PROVE  SingleOwner'
<1>1. CASE UNCHANGED <<native, view, callback, existing>>
  BY <1>1 DEF OwnerInv, SingleOwner, Owns
<1>2. CASE \E o \in Objects : InitializeNewJsObject(o, a, v, cb)
  <2>1. PICK o \in Objects : InitializeNewJsObject(o, a, v, cb)
    BY <1>2
  <2> QED BY <2>1, InitializeOwners DEF OwnerInv, SingleOwner
<1> QED
  BY <1>1, <1>2 DEF WrapExistingCppObject

\* Every step keeps one owner.
LEMMA OwnerStep == OwnerInv /\ [Next]_vars => OwnerInv'
<1> SUFFICES ASSUME OwnerInv, [Next]_vars PROVE SingleOwner'
  BY TypeStep DEF OwnerInv
<1>1. ASSUME NEW a \in Addresses, CppNew(a) \/ CppDelete(a) PROVE SingleOwner'
  BY <1>1 DEF CppNew, CppDelete, jsVars, OwnerInv, SingleOwner, Owns
<1>2. ASSUME NEW a \in Addresses, JsNew(a) PROVE SingleOwner'
  <2>1. PICK o \in Objects : InitializeNewJsObject(o, a, "plain", "delete")
    BY <1>2 DEF JsNew
  <2>2. live' = live \cup {a} /\ cppOwned' = cppOwned /\ a \notin live
    BY <1>2 DEF JsNew
  <2>3. Owns(o)' /\ native'[o] = a
        /\ \A p \in Objects \ {o} : (Owns(p)' <=> Owns(p)) /\ native'[p] = native[p]
    BY <2>1, InitializeOwners DEF Views
  <2> QED BY <2>2, <2>3 DEF OwnerInv, SingleOwner
<1>3. ASSUME NEW a \in Addresses, NEW v \in Views, ReturnLvalue(a, v)
      PROVE  SingleOwner'
  BY <1>3, WrapSingleOwner DEF ReturnLvalue, OwnerInv, SingleOwner
<1>4. ASSUME NEW a \in Addresses, NEW v \in Views, ReturnRvalue(a, v)
      PROVE  SingleOwner'
  BY <1>4, WrapSingleOwner DEF ReturnRvalue, OwnerInv, SingleOwner
<1>5. ASSUME NEW a \in Addresses, NEW v \in Views, ReturnUniquePtr(a, v)
      PROVE  SingleOwner'
  BY <1>5, WrapSingleOwner DEF ReturnUniquePtr, OwnerInv, SingleOwner
<1>6. ASSUME NEW o \in Objects, NEW parameter \in Views, TakeUniquePtr(o, parameter)
      PROVE  SingleOwner'
  <2>1. ~Owns(o)' /\ \A p \in Objects \ {o} : Owns(p)' <=> Owns(p)
    BY <1>6 DEF TakeUniquePtr, Release, Owns, OwnerInv, TypeOK
  <2>2. native' = native /\ live' = live /\ cppOwned' \subseteq cppOwned \cup {native[o]}
    BY <1>6 DEF TakeUniquePtr, Release
  <2> QED BY <1>6, <2>1, <2>2 DEF TakeUniquePtr, OwnerInv, SingleOwner
<1>7. ASSUME NEW o \in Objects, NEW parameter \in Views, NEW b \in Addresses,
             TakeCopy(o, parameter, b)
      PROVE  SingleOwner'
  BY <1>7 DEF TakeCopy, jsVars, OwnerInv, SingleOwner, Owns
<1>8. ASSUME NEW o \in Objects, Drop(o) PROVE SingleOwner'
  BY <1>8 DEF Drop, OwnerInv, SingleOwner, Owns
<1>9. ASSUME NEW o \in Objects, Collect(o) PROVE SingleOwner'
  <2>1. ~Owns(o)' /\ \A p \in Objects \ {o} :
                       (Owns(p)' <=> Owns(p)) /\ native'[p] = native[p]
    BY <1>9 DEF Collect, Owns, OwnerInv, TypeOK
  <2>2. cppOwned' = cppOwned /\ live' = IF Owns(o) THEN live \ {native[o]} ELSE live
    BY <1>9 DEF Collect
  <2> QED BY <2>1, <2>2 DEF OwnerInv, SingleOwner
<1>10. CASE UNCHANGED vars
  BY <1>10 DEF vars, OwnerInv, SingleOwner, Owns
<1> QED
  BY <1>1, <1>2, <1>3, <1>4, <1>5, <1>6, <1>7, <1>8, <1>9, <1>10 DEF Next

\* The program starts without objects, and so without owners.
LEMMA OwnerInit == Init => OwnerInv
BY DEF Init, OwnerInv, TypeOK, SingleOwner, Owns, Views

\* Every variable keeps its type.
THEOREM Typing == Spec => []TypeOK
<1>1. OwnerInv => TypeOK
  BY DEF OwnerInv
<1> QED
  BY <1>1, OwnerInit, OwnerStep, PTL DEF Spec

\* No object is deleted twice or by two owners, whatever C++ returns and takes
\* through which wrapper and whenever the garbage collector runs.
THEOREM OneOwner == Spec => []SingleOwner
<1>1. OwnerInv => SingleOwner
  BY DEF OwnerInv
<1> QED
  BY <1>1, OwnerInit, OwnerStep, PTL DEF Spec

-------------------------------------------------------------------------------
(* What existing_wrapped_objects remembers.                                *)

EntriesInv == OwnerInv /\ EntriesWrapTheirAddress

\* A new JavaScript object was remembered for nothing, because it was unused; it
\* may be remembered for its own address.
LEMMA InitializeEntries ==
  ASSUME EntriesInv, NEW o \in Objects, NEW a \in Addresses, NEW v \in Views,
         NEW cb \in {"leave", "delete"}, InitializeNewJsObject(o, a, v, cb)
  PROVE  EntriesWrapTheirAddress'
<1> USE DEF EntriesInv, OwnerInv, TypeOK
<1>1. ~Remembered(o)
  BY OwnershipAssumption
     DEF InitializeNewJsObject, Unused, Remembered, EntriesWrapTheirAddress
<1> SUFFICES ASSUME NEW w \in Views, NEW b \in Addresses, existing'[w][b] # NoObject
             PROVE  native'[existing'[w][b]] = b /\ view'[existing'[w][b]] = w
  BY DEF EntriesWrapTheirAddress
<1>2. CASE existing'[w][b] = existing[w][b]
  <2>1. existing[w][b] \in Objects \ {o}
    BY <1>1, <1>2 DEF Remembered
  <2> QED BY <1>2, <2>1 DEF InitializeNewJsObject, EntriesWrapTheirAddress
<1>3. CASE existing'[w][b] # existing[w][b]
  <2>1. w = v /\ b = a /\ existing'[w][b] = o
    BY <1>3 DEF InitializeNewJsObject, Remember
  <2> QED BY <2>1 DEF InitializeNewJsObject
<1> QED
  BY <1>2, <1>3

\* A remembered object is never collected, so what is remembered stays right.
LEMMA EntriesStep == EntriesInv /\ [Next]_vars => EntriesInv'
<1> SUFFICES ASSUME EntriesInv, [Next]_vars PROVE EntriesWrapTheirAddress'
  BY OwnerStep DEF EntriesInv
<1>1. CASE UNCHANGED <<native, view, existing>>
  BY <1>1 DEF EntriesInv, EntriesWrapTheirAddress
<1>2. ASSUME NEW a \in Addresses, NEW v \in Views, NEW cb \in {"leave", "delete"},
             WrapExistingCppObject(a, v, cb)
      PROVE  EntriesWrapTheirAddress'
  BY <1>1, <1>2, InitializeEntries DEF WrapExistingCppObject
<1>3. ASSUME NEW a \in Addresses, JsNew(a) PROVE EntriesWrapTheirAddress'
  BY <1>3, InitializeEntries DEF JsNew, Views
<1>4. ASSUME NEW o \in Objects, Collect(o) PROVE EntriesWrapTheirAddress'
  <2>1. \A w \in Views, b \in Addresses : existing[w][b] # o
    BY <1>4 DEF Collect, Collectable, Remembered
  <2> QED BY <1>4, <2>1 DEF Collect, EntriesInv, OwnerInv, TypeOK, EntriesWrapTheirAddress
<1>5. ASSUME NEW a \in Addresses, CppNew(a) \/ CppDelete(a)
      PROVE  UNCHANGED <<native, view, existing>>
  BY <1>5 DEF CppNew, CppDelete, jsVars
<1>6. ASSUME NEW a \in Addresses, NEW v \in Views,
             ReturnLvalue(a, v) \/ ReturnRvalue(a, v) \/ ReturnUniquePtr(a, v)
      PROVE  EntriesWrapTheirAddress'
  BY <1>2, <1>6 DEF ReturnLvalue, ReturnRvalue, ReturnUniquePtr
<1>7. ASSUME NEW o \in Objects, NEW parameter \in Views,
             TakeUniquePtr(o, parameter) \/ \E b \in Addresses : TakeCopy(o, parameter, b)
      PROVE  UNCHANGED <<native, view, existing>>
  BY <1>7 DEF TakeUniquePtr, TakeCopy, jsVars
<1>8. ASSUME NEW o \in Objects, Drop(o) PROVE UNCHANGED <<native, view, existing>>
  BY <1>8 DEF Drop
<1>9. CASE UNCHANGED vars
  BY <1>1, <1>9 DEF vars
<1> QED
  BY <1>1, <1>3, <1>4, <1>5, <1>6, <1>7, <1>8, <1>9 DEF Next

\* wrap_existing_cpp_object never gives the script an object that wraps another
\* address or was made by another wrapper.
THEOREM EntriesAreRight == Spec => []EntriesWrapTheirAddress
<1>1. Init => EntriesInv
  BY OwnerInit DEF EntriesInv, EntriesWrapTheirAddress, Init, Views
<1>2. EntriesInv => EntriesWrapTheirAddress
  BY DEF EntriesInv
<1> QED
  BY <1>1, <1>2, EntriesStep, PTL DEF Spec

-------------------------------------------------------------------------------
(* Refinement of CppOwnership.                                             *)

\* A step that changes the owner of one address at most, and that one as
\* CppOwnership lets it, is a step of CppOwnership or changes nothing it sees.
LEMMA OneMove ==
  ASSUME NEW a \in Addresses,
         \A b \in Addresses \ {a} : OwnerOf(b)' = OwnerOf(b),
         \/ OwnerOf(a)' = OwnerOf(a)
         \/ OwnerOf(a) = "free" /\ OwnerOf(a)' \in {"cpp", "js", "nobody"}
         \/ OwnerOf(a) \in {"cpp", "js"} /\ OwnerOf(a)' = "free"
         \/ OwnerOf(a) \in {"cpp", "js"} /\ OwnerOf(a)' \in {"cpp", "js", "nobody"}
  PROVE  [Ownership!Next]_([b \in Addresses |-> OwnerOf(b)])
<1> DEFINE before == [b \in Addresses |-> OwnerOf(b)]
           after == [b \in Addresses |-> OwnerOf(b)']
<1>1. after = [before EXCEPT ![a] = OwnerOf(a)']
  OBVIOUS
<1>2. Ownership!Become(a, OwnerOf(a)')
  BY <1>1 DEF Ownership!Become
<1>3. CASE OwnerOf(a)' = OwnerOf(a)
  BY <1>3
<1>4. CASE OwnerOf(a) = "free" /\ OwnerOf(a)' \in {"cpp", "js", "nobody"}
  BY <1>2, <1>4 DEF Ownership!Create, Ownership!Next, Ownership!Owners
<1>5. CASE OwnerOf(a) \in {"cpp", "js"} /\ OwnerOf(a)' = "free"
  BY <1>2, <1>5 DEF Ownership!Delete, Ownership!Next, Ownership!Owners
<1>6. CASE OwnerOf(a) \in {"cpp", "js"} /\ OwnerOf(a)' \in {"cpp", "js", "nobody"}
           /\ OwnerOf(a)' # OwnerOf(a)
  BY <1>2, <1>6 DEF Ownership!HandOver, Ownership!Next, Ownership!Owners
<1> QED
  BY <1>3, <1>4, <1>5, <1>6

\* A step that touches at most what is known of the address a leaves the owners of
\* the others as they are.
LEMMA OthersKeepOwners ==
  ASSUME NEW a \in Addresses, NEW b \in Addresses \ {a},
         b \in live' <=> b \in live,
         b \in cppOwned' <=> b \in cppOwned,
         \A o \in Objects : (Owns(o) /\ native[o] = b)' <=> (Owns(o) /\ native[o] = b)
  PROVE  OwnerOf(b)' = OwnerOf(b)
BY DEF OwnerOf

\* Returning an object changes the owner of its address alone.
LEMMA WrapOthers ==
  ASSUME OwnerInv, NEW a \in Addresses, NEW v \in Views,
         NEW cb \in {"leave", "delete"}, WrapExistingCppObject(a, v, cb),
         \A b \in Addresses \ {a} : (b \in live' <=> b \in live) /\
                                    (b \in cppOwned' <=> b \in cppOwned)
  PROVE  \A b \in Addresses \ {a} : OwnerOf(b)' = OwnerOf(b)
<1> SUFFICES ASSUME NEW b \in Addresses \ {a} PROVE OwnerOf(b)' = OwnerOf(b)
  OBVIOUS
<1>1. \A o \in Objects : (Owns(o) /\ native[o] = b)' <=> (Owns(o) /\ native[o] = b)
  <2>1. CASE UNCHANGED <<native, view, callback, existing>>
    BY <2>1 DEF Owns
  <2>2. CASE \E o \in Objects : InitializeNewJsObject(o, a, v, cb)
    <3>1. PICK o \in Objects : InitializeNewJsObject(o, a, v, cb)
      BY <2>2
    <3> QED BY <3>1, InitializeOwners
  <2> QED BY <2>1, <2>2 DEF WrapExistingCppObject
<1> QED
  BY <1>1, OthersKeepOwners

\* Every step is a step of CppOwnership at one address, or none.
LEMMA OwnershipStep ==
  OwnerInv /\ [Next]_vars => [Ownership!Next]_([a \in Addresses |-> OwnerOf(a)])
<1> SUFFICES ASSUME OwnerInv, [Next]_vars
             PROVE  [Ownership!Next]_([a \in Addresses |-> OwnerOf(a)])
  OBVIOUS
<1>1. ASSUME UNCHANGED <<live, cppOwned, native, callback>>
      PROVE  UNCHANGED [a \in Addresses |-> OwnerOf(a)]
  BY <1>1 DEF OwnerOf, Owns
<1>2. ASSUME NEW a \in Addresses, CppNew(a) \/ CppDelete(a)
      PROVE  [Ownership!Next]_([b \in Addresses |-> OwnerOf(b)])
  <2>1. \A b \in Addresses \ {a} : OwnerOf(b)' = OwnerOf(b)
    BY <1>2 DEF CppNew, CppDelete, jsVars, OwnerOf, Owns
  <2>2. \/ OwnerOf(a) = "free" /\ OwnerOf(a)' = "cpp"
        \/ OwnerOf(a) = "cpp" /\ OwnerOf(a)' = "free"
    BY <1>2 DEF CppNew, CppDelete, OwnerOf, OwnerInv, SingleOwner
  <2> QED BY <2>1, <2>2, OneMove
<1>3. ASSUME NEW a \in Addresses, JsNew(a)
      PROVE  [Ownership!Next]_([b \in Addresses |-> OwnerOf(b)])
  <2>1. PICK o \in Objects : InitializeNewJsObject(o, a, "plain", "delete")
    BY <1>3 DEF JsNew
  <2>2. /\ Owns(o)' /\ native'[o] = a
        /\ ~Owns(o)
        /\ \A p \in Objects \ {o} : (Owns(p)' <=> Owns(p)) /\ native'[p] = native[p]
    BY <2>1, InitializeOwners DEF Views
  <2>3. \A b \in Addresses \ {a} : OwnerOf(b)' = OwnerOf(b)
    BY <1>3, <2>2, OthersKeepOwners DEF JsNew
  <2>4. OwnerOf(a) = "free" /\ OwnerOf(a)' # "free"
    BY <1>3 DEF JsNew, OwnerOf
  <2>5. OwnerOf(a)' \in {"cpp", "js", "nobody"}
    BY <2>4 DEF OwnerOf
  <2> QED BY <2>3, <2>4, <2>5, OneMove
<1>4. ASSUME NEW a \in Addresses, NEW v \in Views, ReturnLvalue(a, v)
      PROVE  [Ownership!Next]_([b \in Addresses |-> OwnerOf(b)])
  <2>1. \A b \in Addresses \ {a} : OwnerOf(b)' = OwnerOf(b)
    BY <1>4, WrapOthers DEF ReturnLvalue
  <2>2. \A o \in Objects : (Owns(o) /\ native[o] = a)' <=> (Owns(o) /\ native[o] = a)
    <3>1. WrapExistingCppObject(a, v, "leave")
      BY <1>4 DEF ReturnLvalue
    <3>2. CASE UNCHANGED <<native, view, callback, existing>>
      BY <3>2 DEF Owns
    <3>3. CASE \E o \in Objects : InitializeNewJsObject(o, a, v, "leave")
      <4>1. PICK o \in Objects : InitializeNewJsObject(o, a, v, "leave")
        BY <3>3
      <4>2. ~Owns(o)' /\ ~Owns(o)
            /\ \A p \in Objects \ {o} : (Owns(p)' <=> Owns(p)) /\ native'[p] = native[p]
        BY <4>1, InitializeOwners
      <4> QED BY <4>2
    <3> QED BY <3>1, <3>2, <3>3 DEF WrapExistingCppObject
  <2>3. OwnerOf(a)' = OwnerOf(a)
    BY <1>4, <2>2 DEF ReturnLvalue, OwnerOf
  <2> QED BY <2>1, <2>3, OneMove
<1>5. ASSUME NEW a \in Addresses, NEW v \in Views, ReturnRvalue(a, v)
      PROVE  [Ownership!Next]_([b \in Addresses |-> OwnerOf(b)])
  <2>1. \A b \in Addresses \ {a} : OwnerOf(b)' = OwnerOf(b)
    BY <1>5, WrapOthers DEF ReturnRvalue
  <2>2. OwnerOf(a) = "free" /\ OwnerOf(a)' \in {"cpp", "js", "nobody"}
    BY <1>5 DEF ReturnRvalue, OwnerOf
  <2> QED BY <2>1, <2>2, OneMove
<1>6. ASSUME NEW a \in Addresses, NEW v \in Views, ReturnUniquePtr(a, v)
      PROVE  [Ownership!Next]_([b \in Addresses |-> OwnerOf(b)])
  <2>1. \A b \in Addresses \ {a} : OwnerOf(b)' = OwnerOf(b)
    BY <1>6, WrapOthers DEF ReturnUniquePtr
  <2>2. OwnerOf(a) = "cpp" /\ OwnerOf(a)' \in {"cpp", "js", "nobody"}
    BY <1>6 DEF ReturnUniquePtr, OwnerOf, OwnerInv, SingleOwner
  <2> QED BY <2>1, <2>2, OneMove
<1>7. ASSUME NEW o \in Objects, NEW parameter \in Views, TakeUniquePtr(o, parameter)
      PROVE  [Ownership!Next]_([b \in Addresses |-> OwnerOf(b)])
  <2>0. Owns(o) /\ native[o] \in Addresses /\ native[o] \in live \ cppOwned
    BY <1>7 DEF TakeUniquePtr, OwnerInv, SingleOwner, TypeOK
  <2>1. PICK a \in Addresses : a = native[o]
    BY <2>0
  <2>2. ~Owns(o)' /\ \A p \in Objects \ {o} : Owns(p)' <=> Owns(p)
    BY <1>7 DEF TakeUniquePtr, Release, Owns, OwnerInv, TypeOK
  <2>3. /\ native' = native /\ live' = live
        /\ \A b \in Addresses \ {a} : b \in cppOwned' <=> b \in cppOwned
    BY <1>7, <2>1 DEF TakeUniquePtr, Release
  <2>4. \A b \in Addresses \ {a} : OwnerOf(b)' = OwnerOf(b)
    BY <2>1, <2>2, <2>3, OthersKeepOwners
  <2>5. OwnerOf(a) = "js" /\ OwnerOf(a)' \in {"cpp", "js", "nobody"}
    BY <2>0, <2>1, <2>3 DEF OwnerOf
  <2> QED BY <2>4, <2>5, OneMove
<1>8. ASSUME NEW o \in Objects, NEW parameter \in Views, NEW b \in Addresses,
             TakeCopy(o, parameter, b)
      PROVE  [Ownership!Next]_([c \in Addresses |-> OwnerOf(c)])
  <2>1. \A c \in Addresses \ {b} : OwnerOf(c)' = OwnerOf(c)
    BY <1>8 DEF TakeCopy, jsVars, OwnerOf, Owns
  <2>2. OwnerOf(b) = "free" /\ OwnerOf(b)' = "cpp"
    BY <1>8 DEF TakeCopy, OwnerOf
  <2> QED BY <2>1, <2>2, OneMove
<1>9. ASSUME NEW o \in Objects, Collect(o)
      PROVE  [Ownership!Next]_([b \in Addresses |-> OwnerOf(b)])
  <2>0. PICK a \in Addresses : a = native[o]
    BY <1>9 DEF Collect, Collectable, OwnerInv, TypeOK
  <2>1. ~Owns(o)' /\ \A p \in Objects \ {o} :
                       (Owns(p)' <=> Owns(p)) /\ native'[p] = native[p]
    BY <1>9 DEF Collect, Owns, OwnerInv, TypeOK
  <2>2. cppOwned' = cppOwned /\ live' = IF Owns(o) THEN live \ {a} ELSE live
    BY <1>9, <2>0 DEF Collect
  <2>3. \A b \in Addresses \ {a} : OwnerOf(b)' = OwnerOf(b)
    BY <2>0, <2>1, <2>2, OthersKeepOwners
  <2>4. CASE Owns(o)
    <3>1. OwnerOf(a) = "js" /\ OwnerOf(a)' = "free"
      BY <2>0, <2>2, <2>4 DEF OwnerOf, OwnerInv, SingleOwner
    <3> QED BY <2>0, <2>3, <3>1, OneMove
  <2>5. CASE ~Owns(o)
    <3>1. OwnerOf(a)' = OwnerOf(a)
      BY <2>0, <2>1, <2>2, <2>5 DEF OwnerOf
    <3> QED BY <2>0, <2>3, <3>1, OneMove
  <2> QED BY <2>4, <2>5
<1>10. ASSUME NEW o \in Objects, Drop(o)
       PROVE  UNCHANGED [a \in Addresses |-> OwnerOf(a)]
  BY <1>1, <1>10 DEF Drop
<1>11. CASE UNCHANGED vars
  BY <1>1, <1>11 DEF vars
<1> QED
  BY <1>2, <1>3, <1>4, <1>5, <1>6, <1>7, <1>8, <1>9, <1>10, <1>11 DEF Next

\* Only the owner of an object hands it over or deletes it.
THEOREM Refinement == Spec => OwnershipSpec
<1>1. Init => Ownership!Init
  BY DEF Init, Ownership!Init, OwnerOf
<1> QED
  BY <1>1, OwnershipStep, OwnerInit, OwnerStep, PTL
     DEF Spec, OwnershipSpec, Ownership!Spec
===============================================================================
