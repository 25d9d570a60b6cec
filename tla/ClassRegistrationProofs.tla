------------------------- MODULE ClassRegistrationProofs -------------------------
(***************************************************************************)
(* What ClassRegistration promises for any number of types, names and      *)
(* registrations.  The invariant says of each wrapper that it has no       *)
(* template before it is finalized, and afterwards holds what its first    *)
(* template holds; and of the two wrappers of a type that they are         *)
(* finalized together, after those of the type they inherit from.          *)
(***************************************************************************)
EXTENDS ClassRegistration, SequenceTheorems, TLAPS

USE RegistrationAssumption

-------------------------------------------------------------------------------
(* Wrappers and records.                                                   *)

LEMMA Pairs ==
  /\ \A t \in Types : Plain(t) \in Wrappers /\ Const(t) \in Wrappers
  /\ \A t, u \in Types : Plain(t) # Const(u)
  /\ \A t, u \in Types : t # u => Plain(t) # Plain(u) /\ Const(t) # Const(u)
  /\ \A w \in Wrappers : \E t \in Types : w = Plain(t) \/ w = Const(t)
BY DEF Plain, Const, Wrappers

LEMMA EntryType ==
  ASSUME NEW name \in Names \cup {Unnamed}, NEW kind \in Kinds
  PROVE  Entry(name, kind) \in Entries
BY DEF Entry, Entries

LEMMA AddedType ==
  ASSUME wrapper \in [Wrappers -> WrapperType], NEW w \in Wrappers,
         NEW name \in Names \cup {Unnamed}, NEW kind \in Kinds
  PROVE  Added(w, name, kind) \in WrapperType
<1>1. Entry(name, kind) \in Entries
  BY EntryType
<1>2. wrapper[w] \in WrapperType
  OBVIOUS
<1> QED BY <1>1, <1>2 DEF Added, WrapperType

LEMMA NewType == NewWrapper \in WrapperType
<1>1. <<>> \in Seq(Templates)
  OBVIOUS
<1> QED BY <1>1 DEF NewWrapper, WrapperType

LEMMA TemplateType ==
  ASSUME wrapper \in [Wrappers -> WrapperType], NEW w \in Wrappers,
         NEW constructor \in {"nothing", "new", "refuse"}
  PROVE  /\ Template(wrapper[w].entries, wrapper[w].from, constructor) \in Templates
         /\ WithTemplate(w, constructor) \in WrapperType
<1>1. wrapper[w] \in WrapperType
  OBVIOUS
<1>2. Template(wrapper[w].entries, wrapper[w].from, constructor) \in Templates
  BY <1>1 DEF Template, Templates, WrapperType
<1>3. Append(wrapper[w].templates, Template(wrapper[w].entries, wrapper[w].from, constructor))
        \in Seq(Templates)
  BY <1>1, <1>2, AppendProperties DEF WrapperType
<1> QED BY <1>1, <1>2, <1>3 DEF WithTemplate, WrapperType

-------------------------------------------------------------------------------
(* Typing.                                                                 *)

LEMMA PlainType ==
  ASSUME TypeOK, NEW t \in Types, NEW name \in Names \cup {Unnamed}, NEW kind \in Kinds,
         RegisterPlain(t, name, kind)
  PROVE  wrapper' \in [Wrappers -> WrapperType]
<1>1. Added(Plain(t), name, kind) \in WrapperType
  BY AddedType, Pairs DEF TypeOK
<1> QED BY <1>1 DEF RegisterPlain, TypeOK

LEMMA BothType ==
  ASSUME TypeOK, NEW t \in Types, NEW name \in Names \cup {Unnamed},
         NEW kind \in Kinds, NEW const_kind \in Kinds,
         RegisterBoth(t, name, kind, const_kind)
  PROVE  wrapper' \in [Wrappers -> WrapperType]
<1>1. Added(Plain(t), name, kind) \in WrapperType
  BY AddedType, Pairs DEF TypeOK
<1>2. Added(Const(t), name, const_kind) \in WrapperType
  BY AddedType, Pairs DEF TypeOK
<1> QED BY <1>1, <1>2 DEF RegisterBoth, TypeOK

LEMMA UncheckedType ==
  ASSUME TypeOK, NEW t \in Types, NEW entry \in Entries, AddUnchecked(t, entry)
  PROVE  TypeOK'
<1>1. wrapper[Plain(t)] \in WrapperType
  BY Pairs DEF TypeOK
<1>2. [wrapper[Plain(t)] EXCEPT !.entries = @ \cup {entry}] \in WrapperType
  BY <1>1 DEF WrapperType
<1>3. wrapper' = [wrapper EXCEPT ![Plain(t)] =
                    [wrapper[Plain(t)] EXCEPT !.entries = @ \cup {entry}]]
  BY DEF AddUnchecked
<1> QED BY <1>2, <1>3 DEF AddUnchecked, TypeOK

LEMMA TemplateStepType ==
  ASSUME TypeOK, NEW t \in Types, NEW name \in GlobalNames,
         NEW constructor \in {"nothing", "new", "refuse"}, AddTemplate(t, name, constructor)
  PROVE  TypeOK'
<1>1. WithTemplate(Plain(t), constructor) \in WrapperType
  BY TemplateType, Pairs DEF TypeOK
<1> QED BY <1>1 DEF AddTemplate, TypeOK

LEMMA InitType == Init => TypeOK
BY NewType DEF Init, TypeOK

LEMMA TypeStep == TypeOK /\ [Next]_vars => TypeOK'
<1> SUFFICES ASSUME TypeOK, [Next]_vars PROVE TypeOK'
  OBVIOUS
<1> USE DEF Kinds
<1>0. ASSUME NEW t \in Types, Open(t), wrapper' \in [Wrappers -> WrapperType] PROVE TypeOK'
  BY <1>0 DEF Open, TypeOK
<1>1. ASSUME NEW t \in Types, NEW name \in Names, AddMember(t, name) PROVE TypeOK'
  BY <1>0, <1>1, BothType DEF AddMember
<1>2. ASSUME NEW t \in Types, NEW name \in Names, AddMemberReadonly(t, name) PROVE TypeOK'
  BY <1>0, <1>2, BothType DEF AddMemberReadonly
<1>3. ASSUME NEW t \in Types, NEW name \in Names, AddConstMethod(t, name) PROVE TypeOK'
  BY <1>0, <1>3, BothType DEF AddConstMethod
<1>4. ASSUME NEW t \in Types, NEW name \in Names, AddMethod(t, name) PROVE TypeOK'
  BY <1>0, <1>4, PlainType DEF AddMethod
<1>5. ASSUME NEW t \in Types, NEW name \in Names, AddFakeMethod(t, name) PROVE TypeOK'
  BY <1>0, <1>5, BothType, PlainType DEF AddFakeMethod
<1>6. ASSUME NEW t \in Types, NEW name \in Names, AddStatic(t, name) PROVE TypeOK'
  <2>1. wrapper[Plain(t)] \in WrapperType
    BY Pairs DEF TypeOK
  <2>2. Entry(name, "static") \in Entries
    BY EntryType
  <2>3. [wrapper[Plain(t)] EXCEPT !.static_names = @ \cup {name},
                                  !.entries = @ \cup {Entry(name, "static")}] \in WrapperType
    BY <2>1, <2>2 DEF WrapperType
  <2>4. wrapper' = [wrapper EXCEPT ![Plain(t)] =
                      [wrapper[Plain(t)] EXCEPT !.static_names = @ \cup {name},
                                                !.entries = @ \cup {Entry(name, "static")}]]
    BY <1>6, <2>1, Pairs DEF AddStatic, TypeOK, WrapperType
  <2>5. wrapper' \in [Wrappers -> WrapperType]
    BY <2>3, <2>4 DEF TypeOK
  <2> QED BY <1>0, <1>6, <2>5 DEF AddStatic
<1>7. ASSUME NEW t \in Types, NEW name \in Names, AddEnum(t, name) PROVE TypeOK'
  BY <1>7, UncheckedType, EntryType DEF AddEnum
<1>8. ASSUME NEW t \in Types, MakeCallable(t) PROVE TypeOK'
  BY <1>0, <1>8, PlainType DEF MakeCallable
<1>9. ASSUME NEW t \in Types, AddTemplateCallback(t) PROVE TypeOK'
  <2>1. Entry(Unnamed, "callback") \in Entries
    BY EntryType
  <2>2. /\ wrapper[Plain(t)] \in WrapperType
        /\ wrapper[Const(t)] \in WrapperType
    BY Pairs DEF TypeOK
  <2>3. /\ [wrapper[Plain(t)] EXCEPT !.entries = @ \cup {Entry(Unnamed, "callback")}] \in WrapperType
        /\ [wrapper[Const(t)] EXCEPT !.entries = @ \cup {Entry(Unnamed, "callback")}] \in WrapperType
    BY <2>1, <2>2 DEF WrapperType
  <2>4. wrapper' \in [Wrappers -> WrapperType]
    BY <1>9, <2>3, Pairs DEF AddTemplateCallback, TypeOK
  <2> QED BY <1>0, <1>9, <2>4 DEF AddTemplateCallback
<1>10. ASSUME NEW t \in Types, AddIndexGetter(t) PROVE TypeOK'
  BY <1>10, UncheckedType, EntryType DEF AddIndexGetter
<1>11. ASSUME NEW t \in Types, SetParentType(t) PROVE TypeOK'
  <2>1. /\ wrapper[Plain(t)] \in WrapperType
        /\ wrapper[Const(t)] \in WrapperType
    BY Pairs DEF TypeOK
  <2>2. /\ [wrapper[Plain(t)] EXCEPT !.from = Base[t]] \in WrapperType
        /\ [wrapper[Const(t)] EXCEPT !.from = Base[t]] \in WrapperType
    BY <2>1 DEF WrapperType
  <2>3. wrapper' \in [Wrappers -> WrapperType]
    BY <1>11, <2>2, Pairs DEF SetParentType, TypeOK
  <2> QED BY <1>0, <1>11, <2>3 DEF SetParentType
<1>12. ASSUME NEW t \in Types, Finalize(t) PROVE TypeOK'
  <2>1. /\ WithTemplate(Plain(t), "nothing") \in WrapperType
        /\ WithTemplate(Const(t), "nothing") \in WrapperType
    BY TemplateType, Pairs DEF TypeOK
  <2> QED BY <1>12, <2>1 DEF Finalize, TypeOK
<1>13. ASSUME NEW t \in Types, NEW name \in GlobalNames, AddConstructor(t, name) PROVE TypeOK'
  BY <1>13, TemplateStepType DEF AddConstructor
<1>14. ASSUME NEW t \in Types, NEW name \in GlobalNames, ExposeStaticMethods(t, name)
       PROVE  TypeOK'
  BY <1>14, TemplateStepType DEF ExposeStaticMethods
<1>15. CASE DestroyIsolate
  BY <1>15, NewType DEF DestroyIsolate, TypeOK
<1>16. CASE UNCHANGED vars
  BY <1>16 DEF vars, TypeOK
<1> QED
  BY <1>1, <1>2, <1>3, <1>4, <1>5, <1>6, <1>7, <1>8, <1>9, <1>10, <1>11, <1>12, <1>13,
     <1>14, <1>15, <1>16 DEF Next

\* Every variable always has its type.
THEOREM Typing == Spec => []TypeOK
BY InitType, TypeStep, PTL DEF Spec

-------------------------------------------------------------------------------
(* Six kinds of steps.                                                     *)

\* What registering leaves of a wrapper.
Same(a, b) == a.finalized = b.finalized /\ a.from = b.from /\ a.templates = b.templates

\* Something is registered for a type that is not finalized.
Registers(t) ==
  /\ ~wrapper[Plain(t)].finalized /\ ~wrapper[Const(t)].finalized
  /\ \A w \in Wrappers :
       /\ Same(wrapper'[w], wrapper[w])
       /\ w \notin {Plain(t), Const(t)} => wrapper'[w].entries = wrapper[w].entries

\* Nothing is registered but what finalize() does not freeze.
RegistersLate ==
  \A w \in Wrappers :
    /\ Same(wrapper'[w], wrapper[w])
    /\ wrapper'[w].entries \ Late = wrapper[w].entries \ Late

LEMMA AddedSame ==
  ASSUME wrapper \in [Wrappers -> WrapperType], NEW w \in Wrappers, NEW name, NEW kind
  PROVE  Same(Added(w, name, kind), wrapper[w])
<1>1. wrapper[w] \in WrapperType
  OBVIOUS
<1> QED BY <1>1 DEF Added, Same, WrapperType

LEMMA PlainRegisters ==
  ASSUME TypeOK, NEW t \in Types, NEW name, NEW kind, Open(t), RegisterPlain(t, name, kind)
  PROVE  Registers(t)
<1>1. Same(Added(Plain(t), name, kind), wrapper[Plain(t)])
  BY AddedSame, Pairs DEF TypeOK
<1>2. wrapper' = [wrapper EXCEPT ![Plain(t)] = Added(Plain(t), name, kind)]
  BY DEF RegisterPlain
<1>3. \A w \in Wrappers :
        wrapper'[w] = IF w = Plain(t) THEN Added(Plain(t), name, kind) ELSE wrapper[w]
  BY <1>2 DEF TypeOK
<1> QED BY <1>1, <1>3 DEF Registers, Open, Same

LEMMA BothRegisters ==
  ASSUME TypeOK, NEW t \in Types, NEW name, NEW kind, NEW const_kind, Open(t),
         RegisterBoth(t, name, kind, const_kind)
  PROVE  Registers(t)
<1>1. /\ Same(Added(Plain(t), name, kind), wrapper[Plain(t)])
      /\ Same(Added(Const(t), name, const_kind), wrapper[Const(t)])
  BY AddedSame, Pairs DEF TypeOK
<1>2. \A w \in Wrappers :
        wrapper'[w] = IF w = Const(t) THEN Added(Const(t), name, const_kind)
                      ELSE IF w = Plain(t) /\ ~Used(Plain(t), name)
                      THEN Added(Plain(t), name, kind)
                      ELSE wrapper[w]
  BY Pairs DEF TypeOK, RegisterBoth
<1> QED BY <1>1, <1>2, Pairs DEF Registers, Open, Same

LEMMA StaticRegisters ==
  ASSUME TypeOK, NEW t \in Types, NEW name \in Names, AddStatic(t, name)
  PROVE  Registers(t)
<1>1. wrapper[Plain(t)] \in WrapperType
  BY Pairs DEF TypeOK
<1>2. \A w \in Wrappers :
        wrapper'[w] = IF w = Plain(t)
                      THEN [wrapper[Plain(t)] EXCEPT
                              !.static_names = @ \cup {name},
                              !.entries = @ \cup {Entry(name, "static")}]
                      ELSE wrapper[w]
  BY <1>1, Pairs DEF AddStatic, TypeOK, WrapperType
<1>3. Same([wrapper[Plain(t)] EXCEPT !.static_names = @ \cup {name},
                                     !.entries = @ \cup {Entry(name, "static")}],
           wrapper[Plain(t)])
  BY <1>1 DEF Same, WrapperType
<1>4. Open(t)
  BY DEF AddStatic
<1>5. \A w \in Wrappers :
        /\ Same(wrapper'[w], wrapper[w])
        /\ w # Plain(t) => wrapper'[w].entries = wrapper[w].entries
  BY <1>2, <1>3 DEF Same
<1> QED BY <1>4, <1>5 DEF Registers, Open

LEMMA CallbackRegisters ==
  ASSUME TypeOK, NEW t \in Types, AddTemplateCallback(t)
  PROVE  Registers(t)
<1>1. wrapper[Plain(t)] \in WrapperType /\ wrapper[Const(t)] \in WrapperType
  BY Pairs DEF TypeOK
<1>2. \A w \in Wrappers :
        wrapper'[w] = IF w \in {Plain(t), Const(t)}
                      THEN [wrapper[w] EXCEPT !.entries = @ \cup {Entry(Unnamed, "callback")}]
                      ELSE wrapper[w]
  BY Pairs DEF AddTemplateCallback, TypeOK
<1>3. \A w \in {Plain(t), Const(t)} :
        Same([wrapper[w] EXCEPT !.entries = @ \cup {Entry(Unnamed, "callback")}], wrapper[w])
  BY <1>1 DEF Same, WrapperType
<1>4. Open(t)
  BY DEF AddTemplateCallback
<1>5. \A w \in Wrappers :
        /\ Same(wrapper'[w], wrapper[w])
        /\ w \notin {Plain(t), Const(t)} => wrapper'[w].entries = wrapper[w].entries
  BY <1>2, <1>3 DEF Same
<1> QED BY <1>4, <1>5 DEF Registers, Open

LEMMA UncheckedIsLate ==
  ASSUME TypeOK, NEW t \in Types, NEW entry \in Late, AddUnchecked(t, entry)
  PROVE  RegistersLate
<1>1. wrapper[Plain(t)] \in WrapperType
  BY Pairs DEF TypeOK
<1>2. \A w \in Wrappers :
        wrapper'[w] = IF w = Plain(t)
                      THEN [wrapper[Plain(t)] EXCEPT !.entries = @ \cup {entry}]
                      ELSE wrapper[w]
  BY Pairs DEF AddUnchecked, TypeOK
<1> QED BY <1>1, <1>2 DEF RegistersLate, Same, WrapperType

LEMMA Steps ==
  ASSUME TypeOK, [Next]_vars
  PROVE  \/ \E t \in Types : Registers(t)
         \/ RegistersLate
         \/ \E t \in Types : SetParentType(t)
         \/ \E t \in Types : Finalize(t)
         \/ \E t \in Types, name \in GlobalNames, constructor \in {"new", "refuse"} :
              AddTemplate(t, name, constructor)
         \/ DestroyIsolate
<1>1. ASSUME NEW t \in Types, NEW name \in Names,
             \/ AddMember(t, name) \/ AddMemberReadonly(t, name) \/ AddConstMethod(t, name)
             \/ AddMethod(t, name) \/ AddFakeMethod(t, name)
      PROVE  Registers(t)
  BY <1>1, PlainRegisters, BothRegisters
     DEF AddMember, AddMemberReadonly, AddConstMethod, AddMethod, AddFakeMethod
<1>2. ASSUME NEW t \in Types, NEW name \in Names, AddEnum(t, name) PROVE RegistersLate
  <2>1. Entry(name, "enum") \in Late
    BY EntryType DEF Late, Entry, Kinds
  <2> QED BY <1>2, <2>1, UncheckedIsLate DEF AddEnum
<1>3. ASSUME NEW t \in Types, MakeCallable(t) PROVE Registers(t)
  BY <1>3, PlainRegisters DEF MakeCallable
<1>4. ASSUME NEW t \in Types, AddIndexGetter(t) PROVE RegistersLate
  <2>1. Entry(Unnamed, "index getter") \in Late
    BY EntryType DEF Late, Entry, Kinds
  <2> QED BY <1>4, <2>1, UncheckedIsLate DEF AddIndexGetter
<1>5. CASE UNCHANGED vars
  BY <1>5 DEF vars, RegistersLate, Same
<1> QED
  BY <1>1, <1>2, <1>3, <1>4, <1>5, StaticRegisters, CallbackRegisters
     DEF Next, AddConstructor, ExposeStaticMethods

-------------------------------------------------------------------------------
(* Names of const objects.                                                 *)

LEMMA BothNames ==
  ASSUME TypeOK, ConstNamesInPlain, NEW t \in Types, NEW name, NEW kind, NEW const_kind,
         RegisterBoth(t, name, kind, const_kind)
  PROVE  ConstNamesInPlain'
<1>1. \A w \in Wrappers : wrapper[w] \in WrapperType
  BY DEF TypeOK
<1>2. \A w \in Wrappers :
        wrapper'[w].names = IF \/ w = Const(t)
                               \/ w = Plain(t) /\ ~Used(Plain(t), name)
                            THEN wrapper[w].names \cup {name}
                            ELSE wrapper[w].names
  <2>1. \A w \in Wrappers :
          wrapper'[w] = IF w = Const(t) THEN Added(Const(t), name, const_kind)
                        ELSE IF w = Plain(t) /\ ~Used(Plain(t), name)
                        THEN Added(Plain(t), name, kind)
                        ELSE wrapper[w]
    BY Pairs DEF TypeOK, RegisterBoth
  <2>2. \A w \in Wrappers : \A k : Added(w, name, k).names = wrapper[w].names \cup {name}
    BY <1>1 DEF Added, WrapperType
  <2> QED BY <2>1, <2>2, Pairs
<1>3. /\ wrapper'[Const(t)].names = wrapper[Const(t)].names \cup {name}
      /\ wrapper[Plain(t)].names \cup {name} = wrapper'[Plain(t)].names
  BY <1>2, Pairs DEF Used
<1>4. \A u \in Types : u # t => /\ wrapper'[Const(u)].names = wrapper[Const(u)].names
                                 /\ wrapper'[Plain(u)].names = wrapper[Plain(u)].names
  BY <1>2, Pairs
<1> QED BY <1>3, <1>4 DEF ConstNamesInPlain

\* Every other step takes no name from a wrapper and gives none to a const one, or
\* starts again.
LEMMA OtherNames ==
  ASSUME TypeOK, ConstNamesInPlain,
         \A t \in Types : /\ wrapper'[Const(t)].names = wrapper[Const(t)].names
                          /\ wrapper[Plain(t)].names \subseteq wrapper'[Plain(t)].names
  PROVE  ConstNamesInPlain'
BY DEF ConstNamesInPlain

LEMMA NamesStep == TypeOK /\ ConstNamesInPlain /\ [Next]_vars => ConstNamesInPlain'
<1> SUFFICES ASSUME TypeOK, ConstNamesInPlain, [Next]_vars PROVE ConstNamesInPlain'
  OBVIOUS
<1>0. \A w \in Wrappers : wrapper[w] \in WrapperType
  BY DEF TypeOK
<1>1. ASSUME NEW t \in Types, NEW name, NEW kind, RegisterPlain(t, name, kind)
      PROVE  ConstNamesInPlain'
  <2>1. Added(Plain(t), name, kind).names = wrapper[Plain(t)].names \cup {name}
    BY <1>0, Pairs DEF Added, WrapperType
  <2> QED BY <1>1, <2>1, Pairs, OtherNames DEF RegisterPlain, TypeOK
<1>2. ASSUME NEW t \in Types, NEW name \in Names,
             \/ AddMember(t, name) \/ AddMemberReadonly(t, name) \/ AddConstMethod(t, name)
             \/ AddMethod(t, name) \/ AddFakeMethod(t, name)
      PROVE  ConstNamesInPlain'
  BY <1>1, <1>2, BothNames
     DEF AddMember, AddMemberReadonly, AddConstMethod, AddMethod, AddFakeMethod
<1>3. ASSUME NEW t \in Types, NEW name \in Names, AddStatic(t, name)
      PROVE  ConstNamesInPlain'
  BY <1>0, <1>3, Pairs, OtherNames DEF AddStatic, TypeOK, WrapperType
<1>4. ASSUME NEW t \in Types, NEW entry, AddUnchecked(t, entry) PROVE ConstNamesInPlain'
  BY <1>0, <1>4, Pairs, OtherNames DEF AddUnchecked, TypeOK, WrapperType
<1>5. ASSUME NEW t \in Types, MakeCallable(t) PROVE ConstNamesInPlain'
  BY <1>1, <1>5 DEF MakeCallable
<1>6. ASSUME NEW t \in Types, AddTemplateCallback(t) PROVE ConstNamesInPlain'
  BY <1>0, <1>6, Pairs, OtherNames DEF AddTemplateCallback, TypeOK, WrapperType
<1>7. ASSUME NEW t \in Types, SetParentType(t) PROVE ConstNamesInPlain'
  BY <1>0, <1>7, Pairs, OtherNames DEF SetParentType, TypeOK, WrapperType
<1>8. \A w \in Wrappers : \A c : WithTemplate(w, c).names = wrapper[w].names
  BY <1>0 DEF WithTemplate, WrapperType
<1>9. ASSUME NEW t \in Types, Finalize(t) PROVE ConstNamesInPlain'
  BY <1>8, <1>9, Pairs, OtherNames DEF Finalize, TypeOK
<1>10. ASSUME NEW t \in Types, NEW name, NEW constructor, AddTemplate(t, name, constructor)
       PROVE  ConstNamesInPlain'
  BY <1>8, <1>10, Pairs, OtherNames DEF AddTemplate, TypeOK
<1>11. CASE DestroyIsolate
  BY <1>11, Pairs DEF DestroyIsolate, NewWrapper, ConstNamesInPlain
<1>12. CASE UNCHANGED vars
  BY <1>12 DEF vars, ConstNamesInPlain
<1> QED
  BY <1>2, <1>3, <1>4, <1>5, <1>6, <1>7, <1>9, <1>10, <1>11, <1>12
     DEF Next, AddEnum, AddIndexGetter, AddConstructor, ExposeStaticMethods

\* A const object never has a name that other objects of its type do not have.
THEOREM ConstNames == Spec => []ConstNamesInPlain
<1>1. Init => ConstNamesInPlain
  BY Pairs DEF Init, NewWrapper, ConstNamesInPlain
<1> QED BY <1>1, InitType, TypeStep, NamesStep, PTL DEF Spec

-------------------------------------------------------------------------------
(* Templates.                                                              *)

\* Nothing is frozen before the first template, and all of it by that template.
Frozen(r) ==
  /\ ~r.finalized => r.templates = <<>>
  /\ r.finalized =>
       /\ Len(r.templates) > 0
       /\ r.templates[1].constructor = "nothing"
       /\ \A k \in DOMAIN r.templates : Alike(r.templates[k], r.templates[1])
       /\ Alike(r, r.templates[1])

FinalizedTogether ==
  \A t \in Types : wrapper[Plain(t)].finalized = wrapper[Const(t)].finalized

ParentFinalized(w) ==
  wrapper[w].from # NoType => wrapper[Plain(wrapper[w].from)].finalized

RegistrationInv ==
  /\ TypeOK
  /\ FinalizedTogether
  /\ \A w \in Wrappers : Frozen(wrapper[w]) /\ ParentFinalized(w)

\* A step that leaves the templates and what they froze leaves the invariant.
LEMMA FrozenKept ==
  ASSUME NEW r, NEW s, Frozen(s), Same(r, s), s.finalized => r.entries \ Late = s.entries \ Late
  PROVE  Frozen(r)
BY DEF Frozen, Same, Alike

LEMMA NewFrozen ==
  ASSUME NEW r, r.templates = <<>>, ~r.finalized
  PROVE  Frozen(r)
BY DEF Frozen

LEMMA FirstTemplate ==
  ASSUME TypeOK, NEW w \in Wrappers, ~wrapper[w].finalized, Frozen(wrapper[w])
  PROVE  Frozen(WithTemplate(w, "nothing"))
<1> DEFINE t == Template(wrapper[w].entries, wrapper[w].from, "nothing")
           r == WithTemplate(w, "nothing")
<1>1. wrapper[w] \in WrapperType
  BY DEF TypeOK
<1>2. wrapper[w].templates = <<>>
  BY DEF Frozen
<1>3. /\ r.templates = <<t>>
      /\ r.finalized
      /\ r.entries = wrapper[w].entries /\ r.from = wrapper[w].from
  BY <1>1, <1>2 DEF WithTemplate, WrapperType
<1>4. /\ t.entries = wrapper[w].entries /\ t.from = wrapper[w].from
      /\ t.constructor = "nothing"
  BY DEF Template
<1>5. Len(r.templates) = 1 /\ DOMAIN r.templates = {1} /\ r.templates[1] = t
  BY <1>3
<1>6. Alike(t, t) /\ Alike(r, t)
  BY <1>3, <1>4 DEF Alike
<1> HIDE DEF t, r
<1> QED BY <1>3, <1>4, <1>5, <1>6 DEF Frozen, r

LEMMA LaterTemplate ==
  ASSUME TypeOK, NEW w \in Wrappers, wrapper[w].finalized, Frozen(wrapper[w]),
         NEW constructor \in {"new", "refuse"}
  PROVE  Frozen(WithTemplate(w, constructor))
<1> DEFINE t == Template(wrapper[w].entries, wrapper[w].from, constructor)
           r == WithTemplate(w, constructor)
           old == wrapper[w].templates
<1>1. wrapper[w] \in WrapperType
  BY DEF TypeOK
<1>2. old \in Seq(Templates) /\ t \in Templates
  BY <1>1, TemplateType DEF TypeOK, WrapperType
<1>3. /\ r.templates = Append(old, t)
      /\ r.finalized
      /\ r.entries = wrapper[w].entries /\ r.from = wrapper[w].from
  BY <1>1 DEF WithTemplate, WrapperType
<1>4. t.entries = wrapper[w].entries /\ t.from = wrapper[w].from
  BY DEF Template
<1>5. /\ Len(old) > 0 /\ old[1].constructor = "nothing"
      /\ \A k \in DOMAIN old : Alike(old[k], old[1])
      /\ Alike(wrapper[w], old[1])
  BY DEF Frozen
<1> HIDE DEF t, r, old
<1>6. /\ Len(r.templates) = Len(old) + 1
      /\ r.templates[1] = old[1]
      /\ \A k \in DOMAIN r.templates : k \in DOMAIN old \/ k = Len(old) + 1
      /\ \A k \in DOMAIN old : r.templates[k] = old[k]
      /\ r.templates[Len(old) + 1] = t
  BY <1>2, <1>3, <1>5, AppendProperties
<1>7. Alike(t, old[1]) /\ Alike(r, old[1])
  BY <1>3, <1>4, <1>5 DEF Alike
<1>8. \A k \in DOMAIN r.templates : Alike(r.templates[k], old[1])
  BY <1>5, <1>6, <1>7
<1>9. Len(r.templates) > 0
  BY <1>2, <1>6
<1> QED BY <1>3, <1>5, <1>6, <1>7, <1>8, <1>9 DEF Frozen, r


LEMMA RegistrationInit == Init => RegistrationInv
<1> SUFFICES ASSUME Init PROVE RegistrationInv
  OBVIOUS
<1>1. \A w \in Wrappers : wrapper[w] = NewWrapper
  BY DEF Init
<1> QED
  BY <1>1, InitType, NewFrozen, Pairs
     DEF RegistrationInv, FinalizedTogether, ParentFinalized, NewWrapper

\* What a wrapper inherits from stays finalized where no wrapper loses that.
LEMMA ParentsKept ==
  ASSUME TypeOK, NEW w \in Wrappers, ParentFinalized(w), wrapper'[w].from = wrapper[w].from,
         \A v \in Wrappers : wrapper[v].finalized => wrapper'[v].finalized
  PROVE  ParentFinalized(w)'
<1>1. wrapper[w].from \in Types \cup {NoType}
  BY DEF TypeOK, WrapperType
<1> QED BY <1>1, Pairs DEF ParentFinalized

\* Where a step leaves finalization, parents and the two wrappers of each type alone.
LEMMA SameKept ==
  ASSUME RegistrationInv, TypeOK', \A w \in Wrappers : Same(wrapper'[w], wrapper[w]),
         \A w \in Wrappers : wrapper[w].finalized =>
           wrapper'[w].entries \ Late = wrapper[w].entries \ Late
  PROVE  RegistrationInv'
<1>1. FinalizedTogether'
  BY Pairs DEF RegistrationInv, FinalizedTogether, Same
<1>2. \A w \in Wrappers : Frozen(wrapper'[w])
  BY FrozenKept DEF RegistrationInv
<1>3. \A w \in Wrappers : ParentFinalized(w)'
  BY ParentsKept DEF RegistrationInv, Same
<1> QED BY <1>1, <1>2, <1>3 DEF RegistrationInv

LEMMA RegistrationStep == RegistrationInv /\ [Next]_vars => RegistrationInv'
<1> SUFFICES ASSUME RegistrationInv, [Next]_vars PROVE RegistrationInv'
  OBVIOUS
<1>0. /\ TypeOK /\ TypeOK'
      /\ wrapper \in [Wrappers -> WrapperType] /\ wrapper' \in [Wrappers -> WrapperType]
      /\ \A w \in Wrappers : wrapper[w] \in WrapperType
  BY TypeStep DEF RegistrationInv, TypeOK
<1>1. ASSUME NEW t \in Types, Registers(t) PROVE RegistrationInv'
  BY <1>0, <1>1, SameKept DEF Registers
<1>2. CASE RegistersLate
  BY <1>0, <1>2, SameKept DEF RegistersLate
<1>3. ASSUME NEW t \in Types, SetParentType(t) PROVE RegistrationInv'
  <2>1. /\ ~wrapper[Plain(t)].finalized /\ ~wrapper[Const(t)].finalized
        /\ Base[t] \in Types /\ wrapper[Plain(Base[t])].finalized
    BY <1>3 DEF SetParentType, Open
  <2>2. \A w \in Wrappers :
          wrapper'[w] = IF w \in {Plain(t), Const(t)}
                        THEN [wrapper[w] EXCEPT !.from = Base[t]] ELSE wrapper[w]
    BY <1>0, <1>3, Pairs DEF SetParentType
  <2>3. \A w \in Wrappers :
          /\ wrapper'[w].finalized = wrapper[w].finalized
          /\ wrapper'[w].templates = wrapper[w].templates
          /\ wrapper'[w].from = IF w \in {Plain(t), Const(t)} THEN Base[t] ELSE wrapper[w].from
          /\ w \notin {Plain(t), Const(t)} => wrapper'[w] = wrapper[w]
    BY <1>0, <2>2 DEF WrapperType
  <2>4. FinalizedTogether'
    BY <2>3, Pairs DEF RegistrationInv, FinalizedTogether
  <2>5. \A w \in {Plain(t), Const(t)} : Frozen(wrapper'[w]) /\ ParentFinalized(w)'
    <3>1. \A w \in {Plain(t), Const(t)} : wrapper'[w].templates = <<>>
      BY <2>1, <2>3, Pairs DEF RegistrationInv, Frozen
    <3>2. \A w \in {Plain(t), Const(t)} : ~wrapper'[w].finalized
      BY <2>1, <2>3, Pairs
    <3>3. \A w \in {Plain(t), Const(t)} : wrapper'[w].from = Base[t]
      BY <2>3, Pairs
    <3>4. wrapper'[Plain(Base[t])].finalized
      BY <2>1, <2>3, Pairs
    <3> QED BY <3>1, <3>2, <3>3, <3>4, NewFrozen DEF ParentFinalized
  <2>6. \A w \in Wrappers \ {Plain(t), Const(t)} : Frozen(wrapper'[w]) /\ ParentFinalized(w)'
    BY <1>0, <2>3, ParentsKept DEF RegistrationInv
  <2> QED BY <1>0, <2>4, <2>5, <2>6 DEF RegistrationInv
<1>4. ASSUME NEW t \in Types, Finalize(t) PROVE RegistrationInv'
  <2>1. /\ ~wrapper[Plain(t)].finalized /\ ~wrapper[Const(t)].finalized
    BY <1>4 DEF Finalize
  <2>2. \A w \in Wrappers :
          wrapper'[w] = IF w \in {Plain(t), Const(t)}
                        THEN WithTemplate(w, "nothing") ELSE wrapper[w]
    BY <1>0, <1>4, Pairs DEF Finalize
  <2>3. \A w \in Wrappers :
          /\ wrapper'[w].finalized = (w \in {Plain(t), Const(t)} \/ wrapper[w].finalized)
          /\ wrapper'[w].from = wrapper[w].from
    BY <1>0, <2>2 DEF WithTemplate, WrapperType
  <2>4. FinalizedTogether'
    BY <2>3, Pairs DEF RegistrationInv, FinalizedTogether
  <2>5. \A w \in {Plain(t), Const(t)} : Frozen(wrapper'[w])
    BY <1>0, <2>1, <2>2, Pairs, FirstTemplate DEF RegistrationInv
  <2>6. \A w \in Wrappers : Frozen(wrapper'[w])
    BY <2>2, <2>5 DEF RegistrationInv
  <2>7. \A w \in Wrappers : ParentFinalized(w)'
    BY <1>0, <2>3, ParentsKept DEF RegistrationInv
  <2> QED BY <1>0, <2>4, <2>6, <2>7 DEF RegistrationInv
<1>5. ASSUME NEW t \in Types, NEW name \in GlobalNames, NEW constructor \in {"new", "refuse"},
             AddTemplate(t, name, constructor)
      PROVE  RegistrationInv'
  <2>1. wrapper[Plain(t)].finalized
    BY <1>5 DEF AddTemplate
  <2>2. \A w \in Wrappers :
          wrapper'[w] = IF w = Plain(t) THEN WithTemplate(w, constructor) ELSE wrapper[w]
    BY <1>0, <1>5, Pairs DEF AddTemplate
  <2>3. \A w \in Wrappers :
          /\ wrapper'[w].finalized = wrapper[w].finalized
          /\ wrapper'[w].from = wrapper[w].from
    BY <1>0, <2>1, <2>2 DEF WithTemplate, WrapperType
  <2>4. FinalizedTogether'
    BY <2>3, Pairs DEF RegistrationInv, FinalizedTogether
  <2>5. Frozen(wrapper'[Plain(t)])
    BY <1>0, <2>1, <2>2, Pairs, LaterTemplate DEF RegistrationInv
  <2>6. \A w \in Wrappers : Frozen(wrapper'[w])
    BY <2>2, <2>5 DEF RegistrationInv
  <2>7. \A w \in Wrappers : ParentFinalized(w)'
    BY <1>0, <2>3, ParentsKept DEF RegistrationInv
  <2> QED BY <1>0, <2>4, <2>6, <2>7 DEF RegistrationInv
<1>6. CASE DestroyIsolate
  <2>1. \A w \in Wrappers : wrapper'[w] = NewWrapper
    BY <1>6 DEF DestroyIsolate
  <2>2. /\ FinalizedTogether'
        /\ \A w \in Wrappers : ParentFinalized(w)'
    BY <2>1, Pairs DEF FinalizedTogether, ParentFinalized, NewWrapper
  <2>3. \A w \in Wrappers : Frozen(wrapper'[w])
    BY <2>1, NewFrozen DEF NewWrapper
  <2> QED BY <1>0, <2>2, <2>3 DEF RegistrationInv
<1> QED BY <1>0, <1>1, <1>2, <1>3, <1>4, <1>5, <1>6, Steps

LEMMA Registration == Spec => []RegistrationInv
BY RegistrationInit, RegistrationStep, PTL DEF Spec

\* Whichever template of a type is used, the object has what the others give, but for
\* enumerations and index getters; the first template runs no constructor.
THEOREM Interchangeable == Spec => []TemplatesInterchangeable
<1>1. RegistrationInv => TemplatesInterchangeable
  BY DEF RegistrationInv, Frozen, Alike, TemplatesInterchangeable
<1> QED BY <1>1, Registration, PTL

-------------------------------------------------------------------------------
(* Refinement of WrappingOrder.                                            *)

Parents == [t \in Types |-> IF t \in Finalized /\ wrapper[Plain(t)].from # NoType
                            THEN {wrapper[Plain(t)].from} ELSE {}]

\* A step that leaves the types finalized, and what these inherit from.
LEMMA OrderKept ==
  ASSUME \A t \in Types :
           /\ wrapper'[Plain(t)].finalized = wrapper[Plain(t)].finalized
           /\ wrapper[Plain(t)].finalized =>
                wrapper'[Plain(t)].from = wrapper[Plain(t)].from
  PROVE  UNCHANGED <<Finalized, Parents>>
<1>1. Finalized' = Finalized
  BY DEF Finalized
<1>2. \A t \in Finalized : wrapper'[Plain(t)].from = wrapper[Plain(t)].from
  BY DEF Finalized
<1> QED BY <1>1, <1>2 DEF Parents

LEMMA OrderStep ==
  RegistrationInv /\ [Next]_vars => [Order!Next]_<<Finalized, Parents>>
<1> SUFFICES ASSUME RegistrationInv, [Next]_vars
             PROVE  [Order!Next]_<<Finalized, Parents>>
  OBVIOUS
<1>0. /\ TypeOK
      /\ wrapper \in [Wrappers -> WrapperType]
      /\ \A w \in Wrappers : wrapper[w] \in WrapperType
  BY DEF RegistrationInv, TypeOK
<1>1. ASSUME NEW t \in Types, Registers(t) PROVE UNCHANGED <<Finalized, Parents>>
  BY <1>1, Pairs, OrderKept DEF Registers, Same
<1>2. ASSUME RegistersLate PROVE UNCHANGED <<Finalized, Parents>>
  BY <1>2, Pairs, OrderKept DEF RegistersLate, Same
<1>3. ASSUME NEW t \in Types, SetParentType(t) PROVE UNCHANGED <<Finalized, Parents>>
  <2>1. \A u \in Types :
          wrapper'[Plain(u)] = IF u = t THEN [wrapper[Plain(t)] EXCEPT !.from = Base[t]]
                               ELSE wrapper[Plain(u)]
    BY <1>0, <1>3, Pairs DEF SetParentType
  <2>2. ~wrapper[Plain(t)].finalized
    BY <1>3 DEF SetParentType, Open
  <2>3. \A u \in Types :
          /\ wrapper'[Plain(u)].finalized = wrapper[Plain(u)].finalized
          /\ u # t => wrapper'[Plain(u)].from = wrapper[Plain(u)].from
    BY <1>0, <2>1, Pairs DEF WrapperType
  <2> QED BY <2>2, <2>3, OrderKept
<1>4. ASSUME NEW t \in Types, Finalize(t) PROVE Order!Next
  <2> DEFINE inherited == IF wrapper[Plain(t)].from # NoType THEN {wrapper[Plain(t)].from} ELSE {}
  <2>1. t \notin Finalized
    BY <1>4 DEF Finalize, Finalized
  <2>2. /\ inherited \subseteq Finalized
        /\ inherited \in SUBSET Types
    <3>1. wrapper[Plain(t)].from \in Types \cup {NoType}
      BY <1>0, Pairs DEF WrapperType
    <3>2. ParentFinalized(Plain(t))
      BY Pairs DEF RegistrationInv
    <3> QED BY <3>1, <3>2 DEF ParentFinalized, Finalized
  <2>3. \A u \in Types :
          wrapper'[Plain(u)] = IF u = t THEN WithTemplate(Plain(t), "nothing")
                               ELSE wrapper[Plain(u)]
    BY <1>0, <1>4, Pairs DEF Finalize
  <2>4. \A u \in Types :
          /\ wrapper'[Plain(u)].finalized = (u = t \/ wrapper[Plain(u)].finalized)
          /\ wrapper'[Plain(u)].from = wrapper[Plain(u)].from
    BY <1>0, <2>3, Pairs DEF WithTemplate, WrapperType
  <2>5. Finalized' = Finalized \cup {t}
    BY <2>4 DEF Finalized
  <2>6. Parents' = [Parents EXCEPT ![t] = inherited]
    <3>1. \A u \in Types : Parents'[u] = IF u = t THEN inherited ELSE Parents[u]
      BY <2>4, <2>5 DEF Parents
    <3> QED BY <3>1 DEF Parents
  <2> HIDE DEF inherited
  <2>7. \E c \in Types, from \in SUBSET Types :
          /\ c \notin Finalized
          /\ from \subseteq Finalized
          /\ Finalized' = Finalized \cup {c}
          /\ Parents' = [Parents EXCEPT ![c] = from]
    BY <2>1, <2>2, <2>5, <2>6
  <2> QED BY <2>7 DEF Order!Next, Order!Wrap, Parents
<1>5. ASSUME NEW t \in Types, NEW name \in GlobalNames, NEW constructor \in {"new", "refuse"},
             AddTemplate(t, name, constructor)
      PROVE  UNCHANGED <<Finalized, Parents>>
  <2>1. \A u \in Types :
          wrapper'[Plain(u)] = IF u = t THEN WithTemplate(Plain(t), constructor)
                               ELSE wrapper[Plain(u)]
    BY <1>0, <1>5, Pairs DEF AddTemplate
  <2>2. wrapper[Plain(t)].finalized
    BY <1>5 DEF AddTemplate
  <2>3. \A u \in Types :
          /\ wrapper'[Plain(u)].finalized = wrapper[Plain(u)].finalized
          /\ wrapper'[Plain(u)].from = wrapper[Plain(u)].from
    BY <1>0, <2>1, <2>2, Pairs DEF WithTemplate, WrapperType
  <2> QED BY <2>3, OrderKept
<1>6. ASSUME DestroyIsolate PROVE Order!Next
  <2>1. \A t \in Types : ~wrapper'[Plain(t)].finalized
    BY <1>6, Pairs DEF DestroyIsolate, NewWrapper
  <2>2. Finalized' = {}
    BY <2>1 DEF Finalized
  <2>3. Parents' = [t \in Types |-> {}]
    BY <2>2 DEF Parents
  <2> QED BY <2>2, <2>3 DEF Order!Next, Order!Forget, Parents
<1> QED BY <1>0, <1>1, <1>2, <1>3, <1>4, <1>5, <1>6, Steps

\* Types are finalized in an order in which each finds what it inherits from.
THEOREM Refinement == Spec => OrderSpec
<1>1. Init => Order!Init
  <2> SUFFICES ASSUME Init PROVE Order!Init
    OBVIOUS
  <2>1. \A t \in Types : ~wrapper[Plain(t)].finalized
    BY Pairs DEF Init, NewWrapper
  <2>2. Finalized = {}
    BY <2>1 DEF Finalized
  <2> QED BY <2>2 DEF Order!Init
<1>2. RegistrationInv /\ [Next]_vars => [Order!Next]_(Order!vars)
  BY OrderStep DEF Order!vars, Parents
<1> QED BY <1>1, <1>2, Registration, PTL DEF Spec, OrderSpec, Order!Spec

===============================================================================
