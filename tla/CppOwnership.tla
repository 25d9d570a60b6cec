----------------------------- MODULE CppOwnership -----------------------------
(***************************************************************************)
(* Who must delete a C++ object that C++ and JavaScript share: the         *)
(* promise of the memory management of v8toolkit, without JavaScript       *)
(* objects, wrappers or garbage collection.                                *)
(***************************************************************************)
CONSTANT Addresses

VARIABLE owner \* who must delete the object at each address

Owners == {"cpp", "js"}

TypeOK == owner \in [Addresses -> Owners \cup {"free", "nobody"}]

Init == owner = [a \in Addresses |-> "free"]

Become(a, who) == owner' = [owner EXCEPT ![a] = who]

\* An object is created where there is none.
Create(a) == owner[a] = "free" /\ \E who \in Owners \cup {"nobody"} : Become(a, who)

\* An owner hands its object over, to the other side or, by mistake, to nobody.
HandOver(a) ==
  /\ owner[a] \in Owners
  /\ \E who \in (Owners \cup {"nobody"}) \ {owner[a]} : Become(a, who)

\* Only the owner deletes the object.
Delete(a) == owner[a] \in Owners /\ Become(a, "free")

Next == \E a \in Addresses : Create(a) \/ HandOver(a) \/ Delete(a)

Spec == Init /\ [][Next]_owner
===============================================================================
