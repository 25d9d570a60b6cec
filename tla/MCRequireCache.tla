---------------------------- MODULE MCRequireCache ----------------------------
(* Small disks to model check RequireCache on.                             *)
EXTENDS RequireCache, TLC

Symmetry == Permutations(Threads)

Named(b) == [base |-> b, ext |-> <<>>]
NamedWith(b, e) == [base |-> b, ext |-> <<e>>]

OnePath == <<"p">>
TwoPaths == <<"p", "q">>

\* A module, asked for without an extension, that requires a JSON file.  It is in the
\* first path with a suffix, in the second with its exact name, in both or in neither.
NameAndData == {Named("a"), NamedWith("b", "json")}
NameAndDataDisk ==
  {File("p", Named("a"), <<"js">>), File("q", Named("a"), <<>>),
   File("p", NamedWith("b", "json"), <<>>)}
DataImport == [b \in {"a", "b"} |-> IF b = "a" THEN <<NamedWith("b", "json")>> ELSE <<>>]

\* A module that may require itself.
NameOnly == {Named("a")}
NameDisk == {File("p", Named("a"), <<"js">>)}
SelfImport == [b \in {"a"} |-> <<Named("a")>>]
===============================================================================
