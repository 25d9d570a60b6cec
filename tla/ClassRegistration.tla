---------------------------- MODULE ClassRegistration ----------------------------
(***************************************************************************)
(* V8ClassWrapper (src/include/v8toolkit/v8_class_wrapper.h and _impl.h):  *)
(* how a program registers the members and methods of its classes, in one  *)
(* isolate.                                                                *)
(*                                                                         *)
(* A type has two wrappers, for objects and for const objects.  What is    *)
(* registered is kept until finalize(), which makes the first constructor  *)
(* template; each constructor added later makes another one.  A template   *)
(* is a snapshot of what was registered when it was made, and inherits     *)
(* from the first template of the parent type.                             *)
(*                                                                         *)
(* An assertion is a guard here: a program that fails one ends.  An        *)
(* exception leaves what was changed before it was thrown.                 *)
(***************************************************************************)
EXTENDS Naturals, Sequences, FiniteSets

CONSTANTS Types,
          NoType,
          Base,            \* the parent type of each type, or NoType
          Names,           \* of members, methods, static methods and enumerations
          ReservedStatic,  \* reserved_names among them
          GlobalNames,     \* of constructors
          ReservedGlobal,  \* reserved_global_names among them
          MaxEntries       \* bound: registered in one wrapper

ASSUME RegistrationAssumption ==
  /\ NoType \notin Types
  /\ Base \in [Types -> Types \cup {NoType}]
  /\ ReservedStatic \subseteq Names
  /\ ReservedGlobal \subseteq GlobalNames
  /\ MaxEntries \in Nat

VARIABLES
  wrapper,            \* of each type and version: see NewWrapper
  constructor_names,  \* used_constructor_name_list of the isolate
  globals             \* the type that JavaScript finds under each global name

vars == <<wrapper, constructor_names, globals>>

Wrappers == Types \X {"plain", "const"}
Plain(t) == <<t, "plain">>
Const(t) == <<t, "const">>

Kinds == {"member", "readonly", "method", "callable", "static", "enum",
          "index getter", "callback"}

Entry(name, kind) == [name |-> name, kind |-> kind]

\* The name under which make_callable registers, and one for what has no name.
Unnamed == "unused name"
Entries == [name : Names \cup {Unnamed}, kind : Kinds]

\* What a call of a template's function does when JavaScript makes an object.
Template(entries, from, constructor) ==
  [entries |-> entries, from |-> from, constructor |-> constructor]

Templates ==
  [entries : SUBSET Entries, from : Types \cup {NoType},
   constructor : {"nothing", "new", "refuse"}]

\* finalized; the two lists of used names; the adders; whose template is
\* global_parent_function_template; this_class_function_templates.
NewWrapper ==
  [finalized |-> FALSE, names |-> {}, static_names |-> {}, entries |-> {},
   from |-> NoType, templates |-> <<>>]

WrapperType ==
  [finalized : BOOLEAN, names : SUBSET (Names \cup {Unnamed}), static_names : SUBSET Names,
   entries : SUBSET Entries, from : Types \cup {NoType}, templates : Seq(Templates)]

Init ==
  /\ wrapper = [w \in Wrappers |-> NewWrapper]
  /\ constructor_names = ReservedGlobal
  /\ globals = [g \in GlobalNames |-> NoType]

-------------------------------------------------------------------------------
(* Members and methods.                                                    *)

\* Mutant: finalize() does not end it.
OpenAlways(t) ==
  /\ Cardinality(wrapper[Plain(t)].entries) < MaxEntries
  /\ UNCHANGED <<constructor_names, globals>>

\* A call that registers something for a type.
Open(t) ==
  /\ ~wrapper[Plain(t)].finalized
  /\ ~wrapper[Const(t)].finalized
  /\ Cardinality(wrapper[Plain(t)].entries) < MaxEntries
  /\ UNCHANGED <<constructor_names, globals>>

\* check_if_name_used throws.
Used(w, name) == name \in wrapper[w].names

Added(w, name, kind) ==
  [wrapper[w] EXCEPT !.names = @ \cup {name}, !.entries = @ \cup {Entry(name, kind)}]

RegisterPlain(t, name, kind) ==
  /\ ~Used(Plain(t), name)
  /\ wrapper' = [wrapper EXCEPT ![Plain(t)] = Added(Plain(t), name, kind)]

\* Mutant: the wrapper for const objects first, whatever the other one says.
RegisterBothUnchecked(t, name, kind, const_kind) ==
  wrapper' = [wrapper EXCEPT ![Const(t)] = Added(Const(t), name, const_kind)]

\* The wrapper for const objects is changed first.  When the name is used in the
\* other one alone, that throws, and the first change stays.
RegisterBoth(t, name, kind, const_kind) ==
  /\ ~Used(Const(t), name)
  /\ wrapper' =
       IF Used(Plain(t), name)
       THEN [wrapper EXCEPT ![Const(t)] = Added(Const(t), name, const_kind)]
       ELSE [wrapper EXCEPT ![Const(t)] = Added(Const(t), name, const_kind),
                            ![Plain(t)] = Added(Plain(t), name, kind)]

AddMember(t, name) == Open(t) /\ RegisterBoth(t, name, "member", "readonly")

AddMemberReadonly(t, name) == Open(t) /\ RegisterBoth(t, name, "readonly", "readonly")

\* add_method of a member function that is const.
AddConstMethod(t, name) == Open(t) /\ RegisterBoth(t, name, "method", "method")

AddMethod(t, name) == Open(t) /\ RegisterPlain(t, name, "method")

\* add_method of a function whose first parameter is a pointer to the object.
AddFakeMethod(t, name) ==
  /\ Open(t)
  /\ \/ RegisterBoth(t, name, "method", "method")
     \/ RegisterPlain(t, name, "method")

MakeCallable(t) == Open(t) /\ RegisterPlain(t, Unnamed, "callable")

\* add_static_method and add_static_member: for the constructor, so not for const.
AddStatic(t, name) ==
  /\ Open(t)
  /\ name \notin ReservedStatic \cup wrapper[Plain(t)].static_names
  /\ wrapper' = [wrapper EXCEPT ![Plain(t)].static_names = @ \cup {name},
                                ![Plain(t)].entries = @ \cup {Entry(name, "static")}]

AddTemplateCallback(t) ==
  /\ Open(t)
  /\ wrapper' = [wrapper EXCEPT ![Const(t)].entries = @ \cup {Entry(Unnamed, "callback")},
                                ![Plain(t)].entries = @ \cup {Entry(Unnamed, "callback")}]

\* add_enum and add_index_getter look neither at finalized nor at the names.
AddUnchecked(t, entry) ==
  /\ entry \notin wrapper[Plain(t)].entries
  /\ Cardinality(wrapper[Plain(t)].entries) < MaxEntries
  /\ wrapper' = [wrapper EXCEPT ![Plain(t)].entries = @ \cup {entry}]
  /\ UNCHANGED <<constructor_names, globals>>

AddEnum(t, name) == AddUnchecked(t, Entry(name, "enum"))
AddIndexGetter(t) == AddUnchecked(t, Entry(Unnamed, "index getter"))

-------------------------------------------------------------------------------
(* Parents, finalization and constructors.                                 *)

\* Mutant: no assertion that the parent type is finalized.
SetParentTypeEarly(t) ==
  /\ Open(t)
  /\ Base[t] # NoType
  /\ wrapper' = [wrapper EXCEPT ![Const(t)].from = Base[t], ![Plain(t)].from = Base[t]]

SetParentType(t) ==
  /\ Open(t)
  /\ Base[t] # NoType
  /\ wrapper[Const(Base[t])].finalized /\ wrapper[Plain(Base[t])].finalized
  /\ wrapper' = [wrapper EXCEPT ![Const(t)].from = Base[t], ![Plain(t)].from = Base[t]]

\* make_wrapping_function_template: what is there is copied into a new template.
WithTemplate(w, constructor) ==
  [wrapper[w] EXCEPT !.finalized = TRUE,
                     !.templates = Append(@, Template(wrapper[w].entries, wrapper[w].from, constructor))]

\* "first created function template must not call any type of constructor function,
\* so make one immediately"
Finalize(t) ==
  /\ ~wrapper[Plain(t)].finalized
  /\ ~wrapper[Const(t)].finalized
  /\ wrapper' = [wrapper EXCEPT ![Const(t)] = WithTemplate(Const(t), "nothing"),
                                ![Plain(t)] = WithTemplate(Plain(t), "nothing")]
  /\ UNCHANGED <<constructor_names, globals>>

\* check_if_constructor_name_used records the name.
AddTemplate(t, name, constructor) ==
  /\ wrapper[Plain(t)].finalized
  /\ name \notin constructor_names
  /\ constructor_names' = constructor_names \cup {name}
  /\ wrapper' = [wrapper EXCEPT ![Plain(t)] = WithTemplate(Plain(t), constructor)]
  /\ globals' = [globals EXCEPT ![name] = t]

AddConstructor(t, name) == AddTemplate(t, name, "new")
ExposeStaticMethods(t, name) == AddTemplate(t, name, "refuse")

\* Mutant: get_instance() does not make a wrapper anew.
DestroyForGood ==
  /\ wrapper' = <<>>
  /\ constructor_names' = ReservedGlobal
  /\ globals' = [g \in GlobalNames |-> NoType]

\* isolate_about_to_be_destroyed of every wrapper; the next isolate starts again.
DestroyIsolate ==
  /\ wrapper' = [w \in Wrappers |-> NewWrapper]
  /\ constructor_names' = ReservedGlobal
  /\ globals' = [g \in GlobalNames |-> NoType]

-------------------------------------------------------------------------------
Next ==
  \/ \E t \in Types, name \in Names :
       \/ AddMember(t, name)
       \/ AddMemberReadonly(t, name)
       \/ AddConstMethod(t, name)
       \/ AddMethod(t, name)
       \/ AddFakeMethod(t, name)
       \/ AddStatic(t, name)
       \/ AddEnum(t, name)
  \/ \E t \in Types :
       \/ MakeCallable(t)
       \/ AddTemplateCallback(t)
       \/ AddIndexGetter(t)
       \/ SetParentType(t)
       \/ Finalize(t)
  \/ \E t \in Types, name \in GlobalNames :
       \/ AddConstructor(t, name)
       \/ ExposeStaticMethods(t, name)
  \/ DestroyIsolate

Spec == Init /\ [][Next]_vars

-------------------------------------------------------------------------------
TypeOK ==
  /\ wrapper \in [Wrappers -> WrapperType]
  /\ constructor_names \subseteq GlobalNames
  /\ globals \in [GlobalNames -> Types \cup {NoType}]

Late == {e \in Entries : e.kind \in {"enum", "index getter"}}

Alike(a, b) == a.from = b.from /\ a.entries \ Late = b.entries \ Late

\* "return an arbitrary one, since they're all the same when used to call
\* .NewInstance()": all templates of a wrapper agree in what they give an object but
\* for enumerations and index getters, which finalize() does not freeze; and the
\* first one, with which existing objects are wrapped and from which derived types
\* inherit, runs no constructor.
TemplatesInterchangeable ==
  \A w \in Wrappers : wrapper[w].finalized =>
    LET templates == wrapper[w].templates IN
      /\ Len(templates) > 0
      /\ templates[1].constructor = "nothing"
      /\ \A k \in DOMAIN templates : Alike(templates[k], templates[1])
      /\ wrapper[w].entries \ Late = templates[1].entries \ Late

\* What a const object has, another object of the type has under the same name, even
\* after a registration that threw in between the two wrappers.
ConstNamesInPlain ==
  \A t \in Types : wrapper[Const(t)].names \subseteq wrapper[Plain(t)].names

\* A type is finalized after the type it inherits from, whose first template it
\* takes, and both remain so until the isolate is destroyed.
Finalized == {t \in Types : wrapper[Plain(t)].finalized}
Order == INSTANCE WrappingOrder WITH
  Classes <- Types,
  wrapped <- Finalized,
  parents <- [t \in Types |-> IF t \in Finalized /\ wrapper[Plain(t)].from # NoType
                              THEN {wrapper[Plain(t)].from} ELSE {}]
OrderSpec == Order!Spec
===============================================================================
