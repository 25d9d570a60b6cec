---------------------------- MODULE ObjectOwnership ----------------------------
(***************************************************************************)
(* The C++ objects of one wrapped class and the JavaScript objects that    *)
(* wrap them (src/include/v8toolkit/v8_class_wrapper.h): who deletes a C++ *)
(* object, and which JavaScript object a C++ object is returned as.        *)
(*                                                                         *)
(* The class T has two wrappers per isolate, V8ClassWrapper<T> and         *)
(* V8ClassWrapper<T const>, here the views "plain" and "const", each with  *)
(* its own existing_wrapped_objects.  C++ that returns or takes a value    *)
(* does it through one of them.  Addresses are reused once freed.          *)
(*                                                                         *)
(* C++ code is assumed correct on its own side: it deletes, returns as a   *)
(* unique_ptr and copies only what is there and, where ownership matters,  *)
(* what it owns.                                                           *)
(***************************************************************************)
EXTENDS Naturals, FiniteSets

CONSTANTS Addresses, \* where objects of class T may be
          Objects,   \* JavaScript objects of class T; reused once collected
          NoAddress, \* the native object of a JavaScript object not in use
          NoObject   \* no entry in existing_wrapped_objects

ASSUME OwnershipAssumption ==
  /\ NoAddress \notin Addresses
  /\ NoObject \notin Objects

VARIABLES
  live,     \* addresses of the C++ objects that exist
  cppOwned, \* addresses some unique_ptr, or C++ code, will delete
  native,   \* WrappedData::native_object of each JavaScript object
  view,     \* the wrapper class each JavaScript object was made by
  callback, \* what its weak callback does, or "none" once released
  existing, \* existing_wrapped_objects of each wrapper: strong references
  roots     \* JavaScript objects the script can reach

jsVars == <<native, view, callback, existing, roots>>
vars == <<live, cppOwned, native, view, callback, existing, roots>>

-------------------------------------------------------------------------------
Views == {"plain", "const"}

\* TypeChecker: the type of a parameter accepts an object of this view.
Compatible(parameter, v) == parameter = "const" \/ v = "plain"

Unused == {o \in Objects : native[o] = NoAddress}
Remembered(o) == \E v \in Views, a \in Addresses : existing[v][a] = o

\* does_object_own_memory
Owns(o) == callback[o] = "delete"

Init ==
  /\ live = {}
  /\ cppOwned = {}
  /\ native = [o \in Objects |-> NoAddress]
  /\ view = [o \in Objects |-> "plain"]
  /\ callback = [o \in Objects |-> "none"]
  /\ existing = [v \in Views |-> [a \in Addresses |-> NoObject]]
  /\ roots = {}

-------------------------------------------------------------------------------
\* existing_wrapped_objects.emplace: an entry that is there stays, even when the
\* object it was made for is long gone.
Remember(o, a, v) ==
  existing' = IF existing[v][a] = NoObject
              THEN [existing EXCEPT ![v][a] = o]
              ELSE existing

\* A new JavaScript object for the C++ object at a, and its weak callback.
InitializeNewJsObject(o, a, v, cb) ==
  /\ o \in Unused
  /\ native' = [native EXCEPT ![o] = a]
  /\ view' = [view EXCEPT ![o] = v]
  /\ callback' = [callback EXCEPT ![o] = cb]
  /\ Remember(o, a, v)
  /\ roots' = roots \cup {o}

\* The script is given the JavaScript object remembered for the address, with
\* whatever destructor behavior it has; a new one is made only if there is none.
WrapExistingCppObject(a, v, cb) ==
  \/ /\ existing[v][a] # NoObject
     /\ roots' = roots \cup {existing[v][a]}
     /\ UNCHANGED <<native, view, callback, existing>>
  \/ /\ existing[v][a] = NoObject
     /\ \E o \in Objects : InitializeNewJsObject(o, a, v, cb)

-------------------------------------------------------------------------------
(* C++                                                                     *)

CppNew(a) ==
  /\ a \notin live
  /\ live' = live \cup {a}
  /\ cppOwned' = cppOwned \cup {a}
  /\ UNCHANGED jsVars

CppDelete(a) ==
  /\ a \in cppOwned
  /\ live' = live \ {a}
  /\ cppOwned' = cppOwned \ {a}
  /\ UNCHANGED jsVars

\* A function returns a T & or T *.
ReturnLvalue(a, v) ==
  /\ a \in live
  /\ WrapExistingCppObject(a, v, "leave")
  /\ UNCHANGED <<live, cppOwned>>

\* A function returns a T or T &&: the value is moved to a new object.
ReturnRvalue(a, v) ==
  /\ a \notin live
  /\ live' = live \cup {a}
  /\ WrapExistingCppObject(a, v, "delete")
  /\ UNCHANGED cppOwned

\* Mutant: the unique_ptr keeps the object the script now owns.
ReturnUniquePtrKeepingIt(a, v) ==
  /\ a \in cppOwned
  /\ WrapExistingCppObject(a, v, "delete")
  /\ UNCHANGED <<live, cppOwned>>

\* A function returns a unique_ptr<T>, which gives the object up whichever
\* JavaScript object the wrapper found for it.
ReturnUniquePtr(a, v) ==
  /\ a \in cppOwned
  /\ WrapExistingCppObject(a, v, "delete")
  /\ cppOwned' = cppOwned \ {a}
  /\ UNCHANGED live

-------------------------------------------------------------------------------
(* JavaScript                                                              *)

\* new T(): a constructor whose parameters convert and which does not throw.
JsNew(a) ==
  /\ a \notin live
  /\ live' = live \cup {a}
  /\ \E o \in Objects : InitializeNewJsObject(o, a, "plain", "delete")
  /\ UNCHANGED cppOwned

\* Mutant: the pointer is read after it has been cleared.
ReleaseNull(o, parameter) ==
  /\ callback' = [callback EXCEPT ![o] = "none"]
  /\ cppOwned' = cppOwned \cup {NoAddress}

\* release_internal_field_memory: the weak callback is removed first; the
\* unique_ptr is empty when the types turn out not to match.
Release(o, parameter) ==
  /\ callback' = [callback EXCEPT ![o] = "none"]
  /\ cppOwned' = IF Compatible(parameter, view[o])
                 THEN cppOwned \cup {native[o]} ELSE cppOwned

\* The script passes o to a unique_ptr parameter.  One that owns its memory
\* gives it up.
TakeUniquePtr(o, parameter) ==
  /\ o \in roots
  /\ Owns(o)
  /\ Release(o, parameter)
  /\ UNCHANGED <<live, native, view, existing, roots>>

\* Mutant: does_object_own_memory is not asked.
TakeSharing(o, parameter, b) ==
  /\ o \in roots
  /\ ~Owns(o)
  /\ native[o] \in live
  /\ Compatible(parameter, view[o])
  /\ cppOwned' = cppOwned \cup {native[o]}
  /\ UNCHANGED <<live, jsVars>>

\* One that does not own it is copied, to b.
TakeCopy(o, parameter, b) ==
  /\ o \in roots
  /\ ~Owns(o)
  /\ native[o] \in live
  /\ Compatible(parameter, view[o])
  /\ b \notin live
  /\ live' = live \cup {b}
  /\ cppOwned' = cppOwned \cup {b}
  /\ UNCHANGED jsVars

Drop(o) ==
  /\ o \in roots
  /\ roots' = roots \ {o}
  /\ UNCHANGED <<live, cppOwned, native, view, callback, existing>>

\* Mutant: the entries of existing_wrapped_objects are weak.
CollectableDespiteEntry(o) == native[o] # NoAddress /\ o \notin roots

\* The entries of existing_wrapped_objects are strong handles.
Collectable(o) ==
  /\ native[o] # NoAddress
  /\ o \notin roots
  /\ ~Remembered(o)

\* The garbage collector collects o and runs its weak callback.
Collect(o) ==
  /\ Collectable(o)
  /\ live' = IF Owns(o) THEN live \ {native[o]} ELSE live
  /\ native' = [native EXCEPT ![o] = NoAddress]
  /\ callback' = [callback EXCEPT ![o] = "none"]
  /\ UNCHANGED <<cppOwned, view, existing, roots>>

-------------------------------------------------------------------------------
Next ==
  \/ \E a \in Addresses :
       \/ CppNew(a)
       \/ CppDelete(a)
       \/ JsNew(a)
       \/ \E v \in Views :
            ReturnLvalue(a, v) \/ ReturnRvalue(a, v) \/ ReturnUniquePtr(a, v)
  \/ \E o \in Objects :
       \/ \E parameter \in Views :
            \/ TakeUniquePtr(o, parameter)
            \/ \E b \in Addresses : TakeCopy(o, parameter, b)
       \/ Drop(o)
       \/ Collect(o)

Spec == Init /\ [][Next]_vars

-------------------------------------------------------------------------------
TypeOK ==
  /\ live \subseteq Addresses
  /\ cppOwned \subseteq Addresses
  /\ native \in [Objects -> Addresses \cup {NoAddress}]
  /\ view \in [Objects -> Views]
  /\ callback \in [Objects -> {"none", "leave", "delete"}]
  /\ existing \in [Views -> [Addresses -> Objects \cup {NoObject}]]
  /\ roots \subseteq Objects

\* Nothing is deleted twice and nothing is deleted that is not there: what C++
\* owns exists, what a JavaScript object will delete when it is collected exists
\* and is not owned by C++, and no two JavaScript objects will delete the same.
SingleOwner ==
  /\ cppOwned \subseteq live
  /\ \A o \in Objects : Owns(o) => native[o] \in live \ cppOwned
  /\ \A o, p \in Objects : Owns(o) /\ Owns(p) /\ native[o] = native[p] => o = p

\* wrap_existing_cpp_object finds what it remembers: the JavaScript object
\* remembered for an address is in use and wraps that very address, whatever
\* was collected, released or created there since.
EntriesWrapTheirAddress ==
  \A v \in Views, a \in Addresses :
    existing[v][a] # NoObject =>
      native[existing[v][a]] = a /\ view[existing[v][a]] = v

\* Ownership moves as CppOwnership allows: an object changes hands only by being
\* given away by its owner, and only its owner deletes it.
OwnerOf(a) ==
  IF a \notin live THEN "free"
  ELSE IF a \in cppOwned THEN "cpp"
  ELSE IF \E o \in Objects : Owns(o) /\ native[o] = a THEN "js"
  ELSE "nobody"

Ownership == INSTANCE CppOwnership
               WITH owner <- [a \in Addresses |-> OwnerOf(a)]
OwnershipSpec == Ownership!Spec

\* "create new owning JavaScript object with the contents of the unique_ptr",
\* "when turning a std::unique_ptr or rvalue reference into a JavaScript object":
\* somebody will delete every C++ object.
EveryObjectHasAnOwner == \A a \in Addresses : OwnerOf(a) # "nobody"

===============================================================================
