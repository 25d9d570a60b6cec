------------------------------- MODULE ClassParser -------------------------------
(***************************************************************************)
(* The clang plugin of src/class_parser/ that writes the registrations of  *)
(* C++ classes.  AST matchers hand the classes of a translation unit to    *)
(* ClassHandler::run one at a time; each is entered into wrapped_classes   *)
(* with what is known of why it may be wrapped (its found_method), and     *)
(* classes seen later change what is known of those seen earlier.  At the  *)
(* end of the translation unit the classes to be wrapped are parsed, and   *)
(* BindingsOutputModule writes them to files, every base class first.      *)
(*                                                                         *)
(* The program that is parsed is chosen in Init and does not change.  A    *)
(* class has at most one base class, as everything beyond should_be_       *)
(* wrapped demands; what an annotation tells to ignore, and                *)
(* WrappedClassBase itself, are not bases here.                            *)
(***************************************************************************)
EXTENDS Naturals, Sequences, FiniteSets, Functions, SequencesExt

CONSTANTS Classes,
          NoClass,
          Programs,        \* the programs that may be parsed
          MaxDeclarations  \* max_declarations_per_file, 0 if there is no limit

FoundMethods == {"unspecified", "pimpl", "inheritance", "base_class"}

\* A program, by class: its base class; what derives from WrappedClassBase; what is
\* marked V8TOOLKIT_SKIP and V8TOOLKIT_BIDIRECTIONAL_CLASS; what is in std:: and not
\* matched; what is instantiated from a template; the class of its PIMPL member; its
\* declaration_count.
Program ==
  [base : [Classes -> Classes \cup {NoClass}],
   tracked : SUBSET Classes, skipped : SUBSET Classes, bidirectional : SUBSET Classes,
   foreign : SUBSET Classes, instantiated : SUBSET Classes,
   pimpl : [Classes -> Classes \cup {NoClass}], cost : [Classes -> Nat \ {0}]]

\* A base class is defined before what derives from it, so that no class is its own
\* ancestor: some class of any set has its base class outside of it.
Founded(base) == \A S \in SUBSET Classes : S # {} => \E c \in S : base[c] \notin S

ASSUME ParserAssumption ==
  /\ NoClass \notin Classes
  /\ IsFiniteSet(Classes)
  /\ Programs \subseteq Program
  /\ \A program \in Programs : Founded(program.base)
  /\ MaxDeclarations \in Nat

VARIABLES
  code,            \* the program
  phase,           \* what the plugin is doing
  matched,         \* classes the matchers have handed over
  wrapped_classes, \* in the order of entry; a bidirectional class is followed by the
                   \* JavaScript class made for it
  found_method,    \* by class, once it is in wrapped_classes
  no_constructors, \* classes with force_no_constructors
  position,        \* of the loop over a list of classes
  members_parsed,  \* classes with members_parsed
  accessed,        \* the class through whose PIMPL member another one is accessed
  errors,          \* an error was logged
  to_write,        \* should_be_wrapped_classes
  found_match,     \* this pass over to_write has written something
  binding_files    \* the classes of each file, and what they cost

matchVars == <<matched, wrapped_classes, no_constructors>>
parseVars == <<members_parsed, accessed, errors, to_write>>
writeVars == <<found_match, binding_files>>
vars == <<code, phase, found_method, position, matchVars, parseVars, writeVars>>

-------------------------------------------------------------------------------
Entry(c, generated) == [class |-> c, generated |-> generated]

BaseTypes(c) == IF code.base[c] = NoClass THEN {} ELSE {code.base[c]}

\* A class and those it derives from, the root first.
Line ==
  LET line[c \in Classes] ==
        IF code.base[c] = NoClass THEN <<c>> ELSE Append(line[code.base[c]], c)
  IN line

Ancestors(c) == Range(Line[c]) \ {c}

Seen(c) == c \in DOMAIN found_method

\* should_be_wrapped of a class of the program.
ShouldBeWrapped(c) ==
  \/ found_method[c] = "base_class"
  \/ found_method[c] = "inheritance" /\ c \notin code.skipped

\* One made for a bidirectional class is FOUND_GENERATED.
ShouldBeParsed(entry) ==
  entry.generated \/ ShouldBeWrapped(entry.class) \/ found_method[entry.class] = "pimpl"

\* Mutant: no first file.
InitWithoutFile ==
  /\ code \in Programs
  /\ phase = "matching"
  /\ matched = {}
  /\ wrapped_classes = <<>>
  /\ found_method = <<>>
  /\ no_constructors = {}
  /\ position = 1
  /\ members_parsed = {}
  /\ accessed = [c \in Classes |-> NoClass]
  /\ errors = FALSE
  /\ to_write = <<>>
  /\ found_match = FALSE
  /\ binding_files = <<>>

Init ==
  /\ code \in Programs
  /\ phase = "matching"
  /\ matched = {}
  /\ wrapped_classes = <<>>
  /\ found_method = <<>>
  /\ no_constructors = {}
  /\ position = 1
  /\ members_parsed = {}
  /\ accessed = [c \in Classes |-> NoClass]
  /\ errors = FALSE
  /\ to_write = <<>>
  /\ found_match = FALSE
  /\ binding_files = << [classes |-> <<>>, declaration_count |-> 0] >>

-------------------------------------------------------------------------------
(* Matching.                                                               *)

\* A class is visited after its base class, which must have been defined; the
\* instances of a template are visited with the template, before what they may
\* derive from.
MayVisit(c) ==
  /\ c \notin matched \cup code.foreign
  /\ c \in code.instantiated \/ BaseTypes(c) \subseteq matched \cup code.foreign

\* Mutant: bases beyond the first one are not promoted.
PromoteFirst(c, method) ==
  IF method = "unspecified" THEN {} ELSE BaseTypes(c)

\* "if a type was adjusted, make sure to adjust its base types as well"
Promoted(c, method) ==
  IF method = "unspecified" THEN {} ELSE Ancestors(c)

EntriesFor(c) ==
  <<Entry(c, FALSE)>> \o IF c \in code.bidirectional THEN <<Entry(c, TRUE)>> ELSE <<>>

\* What a class enters that is not there: the base classes that are missing, and then
\* itself.
Missing ==
  LET missing[c \in Classes] ==
        IF Seen(c) THEN <<>>
        ELSE IF code.base[c] = NoClass THEN EntriesFor(c)
        ELSE missing[code.base[c]] \o EntriesFor(c)
  IN missing

\* get_or_insert_wrapped_class of a class that is not there: its base classes become
\* wrapped if it is.
Insert(c, method) ==
  LET method_of(d) ==
        IF d = c THEN method
        ELSE IF d \in Promoted(c, method) THEN "base_class"
        ELSE IF Seen(d) THEN found_method[d] ELSE "unspecified"
  IN /\ wrapped_classes' = wrapped_classes \o Missing[c]
     /\ found_method' = [d \in DOMAIN found_method \cup Range(Line[c]) |-> method_of(d)]
     /\ no_constructors' =
          no_constructors \cup {d \in Promoted(c, method) : Seen(d) /\ ~ShouldBeWrapped(d)}

\* ClassHandler::run
Match(c) ==
  /\ phase = "matching"
  /\ MayVisit(c)
  /\ matched' = matched \cup {c}
  /\ IF Seen(c) \/ c \in code.tracked \cap code.skipped
     THEN UNCHANGED <<wrapped_classes, found_method, no_constructors>>
     ELSE Insert(c, IF c \in code.tracked THEN "inheritance" ELSE "unspecified")
  /\ UNCHANGED <<code, phase, position, parseVars, writeVars>>

EndMatching ==
  /\ phase = "matching"
  /\ \A c \in Classes : ~MayVisit(c)
  /\ phase' = "parsing"
  /\ UNCHANGED <<code, found_method, position, matchVars, parseVars, writeVars>>

-------------------------------------------------------------------------------
(* Parsing.                                                                *)

\* Classes whose members parse_members of c parses: its own and, through PIMPL
\* members, those of others that have not been parsed, up to so many PIMPL members away.
ParsedWithin(c) ==
  LET reach[k \in 0..Cardinality(Classes)] ==
        IF k = 0 THEN {c} \ members_parsed
        ELSE reach[k - 1] \cup {d \in DOMAIN found_method \ members_parsed :
                                  \E u \in reach[k - 1] : code.pimpl[u] = d}
  IN reach

ParsedWith(c) == ParsedWithin(c)[Cardinality(Classes)]

\* Classes that are parsed when those that u inherits from are looked at.
ParsedBefore(u, c) ==
  members_parsed \cup
    UNION {ParsedWithin(c)[k] : k \in {n \in 0..Cardinality(Classes) : u \notin ParsedWithin(c)[n]}}

\* What is wrong with the PIMPL members of the classes parsed together: the class
\* of one was never seen, or is accessed through another one already; or one that
\* is inherited has not been found by then.
PimplErrors(c) ==
  LET now == ParsedWith(c) IN
    \/ \E u \in now : code.pimpl[u] \notin DOMAIN found_method \cup {NoClass}
    \/ \E u \in now : /\ code.pimpl[u] # NoClass
                      /\ \/ accessed[code.pimpl[u]] # NoClass
                         \/ \E v \in now \ {u} : code.pimpl[v] = code.pimpl[u]
    \/ \E u \in now : \E d \in Ancestors(u) \ ParsedBefore(u, c) : code.pimpl[d] # NoClass

\* The class of a PIMPL member is FOUND_PIMPL from now on, whatever it was.
ParseMembers(c) ==
  LET now == ParsedWith(c)
      pimpls == {code.pimpl[u] : u \in now}
      user(d) == CHOOSE u \in now : code.pimpl[u] = d
  IN /\ members_parsed' = members_parsed \cup now
     /\ found_method' = [d \in DOMAIN found_method |->
                           IF d \in pimpls THEN "pimpl" ELSE found_method[d]]
     /\ accessed' = [d \in Classes |-> IF d \in pimpls THEN user(d) ELSE accessed[d]]
     /\ errors' = (errors \/ PimplErrors(c))

\* One turn of the loop of onEndOfTranslationUnit.
Parse ==
  /\ phase = "parsing"
  /\ position <= Len(wrapped_classes)
  /\ LET entry == wrapped_classes[position] IN
       IF ShouldBeParsed(entry)
       THEN /\ to_write' = Append(to_write, entry)
            /\ IF entry.generated
               THEN UNCHANGED <<found_method, members_parsed, accessed, errors>>
               ELSE ParseMembers(entry.class)
       ELSE UNCHANGED <<found_method, parseVars>>
  /\ position' = position + 1
  /\ UNCHANGED <<code, phase, matchVars, writeVars>>

\* "Aborting due to data error(s)"
EndParsing ==
  /\ phase = "parsing"
  /\ position > Len(wrapped_classes)
  /\ phase' = IF errors THEN "failed" ELSE "writing"
  /\ position' = 1
  /\ UNCHANGED <<code, found_method, matchVars, parseVars, writeVars>>

-------------------------------------------------------------------------------
(* BindingsOutputModule::process.                                          *)

BindingFile(classes, count) == [classes |-> classes, declaration_count |-> count]

CurrentFile == Last(binding_files)

AlreadyWrapped == UNION {Range(binding_files[k].classes) : k \in DOMAIN binding_files}

\* Mutant: the bases need not have been written.
ReadyUnordered(c) ==
  /\ c \notin AlreadyWrapped
  /\ ShouldBeWrapped(c)

\* ready_for_wrapping
ReadyForWrapping(c) ==
  /\ c \notin AlreadyWrapped
  /\ ShouldBeWrapped(c)
  /\ BaseTypes(c) \subseteq AlreadyWrapped

CanHold(c) ==
  \/ CurrentFile.declaration_count = 0
  \/ MaxDeclarations = 0
  \/ CurrentFile.declaration_count + code.cost[c] <= MaxDeclarations

AddClass(file, c) ==
  BindingFile(Append(file.classes, c), file.declaration_count + code.cost[c])

Write(c) ==
  binding_files' =
    IF CanHold(c)
    THEN Append(Front(binding_files), AddClass(CurrentFile, c))
    ELSE Append(binding_files, AddClass(BindingFile(<<>>, 0), c))

\* Mutant: a class that is not ready ends the pass.
VisitUntilBlocked ==
  /\ phase = "writing"
  /\ position <= Len(to_write)
  /\ LET entry == to_write[position] IN
       IF ~entry.generated /\ ReadyForWrapping(entry.class)
       THEN /\ Write(entry.class)
            /\ found_match' = TRUE
            /\ position' = position + 1
       ELSE /\ UNCHANGED writeVars
            /\ position' = Len(to_write) + 1
  /\ UNCHANGED <<code, phase, found_method, matchVars, parseVars>>

\* One turn of the loop over the classes.  A JavaScript class is left to another
\* module.
Visit ==
  /\ phase = "writing"
  /\ position <= Len(to_write)
  /\ LET entry == to_write[position] IN
       IF ~entry.generated /\ ReadyForWrapping(entry.class)
       THEN Write(entry.class) /\ found_match' = TRUE
       ELSE UNCHANGED writeVars
  /\ position' = position + 1
  /\ UNCHANGED <<code, phase, found_method, matchVars, parseVars>>

\* Mutant: found_match is not reset.
NextPassForever ==
  /\ phase = "writing"
  /\ position > Len(to_write)
  /\ position' = 1
  /\ UNCHANGED <<code, phase, found_method, matchVars, parseVars, writeVars>>

\* "until a full pass has been made with nothing new to be written out"
NextPass ==
  /\ phase = "writing"
  /\ position > Len(to_write)
  /\ phase' = IF found_match THEN "writing" ELSE "done"
  /\ position' = 1
  /\ found_match' = FALSE
  /\ UNCHANGED <<code, found_method, matchVars, parseVars, binding_files>>

-------------------------------------------------------------------------------
Next ==
  \/ \E c \in Classes : Match(c)
  \/ EndMatching
  \/ Parse
  \/ EndParsing
  \/ Visit
  \/ NextPass

Spec == Init /\ [][Next]_vars

\* One thread, which clang calls.
FairSpec == Spec /\ WF_vars(Next)

-------------------------------------------------------------------------------
TypeOK ==
  /\ code \in Program
  /\ phase \in {"matching", "parsing", "failed", "writing", "done"}
  /\ matched \subseteq Classes
  /\ wrapped_classes \in Seq([class : Classes, generated : BOOLEAN])
  /\ DOMAIN found_method \subseteq Classes
  /\ \A c \in DOMAIN found_method : found_method[c] \in FoundMethods
  /\ no_constructors \subseteq Classes
  /\ position \in Nat \ {0}
  /\ members_parsed \subseteq Classes
  /\ accessed \in [Classes -> Classes \cup {NoClass}]
  /\ errors \in BOOLEAN
  /\ to_write \in Seq([class : Classes, generated : BOOLEAN])
  /\ found_match \in BOOLEAN
  /\ binding_files \in Seq([classes : Seq(Classes), declaration_count : Nat])
  /\ binding_files # <<>>

\* "the type must ALWAYS be wrapped if it is the base of a wrapped type": in
\* whatever order classes are visited, the base of a class to be wrapped is to be
\* wrapped as well, but for one that is the class of a PIMPL member.
BasesAreWrapped ==
  \A c \in DOMAIN found_method : ShouldBeWrapped(c) =>
    \A b \in BaseTypes(c) :
      Seen(b) /\ (ShouldBeWrapped(b) \/ found_method[b] = "pimpl")

\* The passes over the list write every class that is to be wrapped down to its
\* root, and nothing else, whatever the order of the list.
OutputComplete ==
  phase = "done" =>
    AlreadyWrapped =
      {c \in DOMAIN found_method : \A d \in Range(Line[c]) : Seen(d) /\ ShouldBeWrapped(d)}

\* The classes are written in an order in which they can be wrapped: the base
\* class of each is in the same file before it or in an earlier one.
Order == INSTANCE WrappingOrder WITH
  wrapped <- AlreadyWrapped,
  parents <- [c \in Classes |-> IF c \in AlreadyWrapped THEN BaseTypes(c) ELSE {}]
OrderSpec == Order!Spec

\* The plugin comes to an end: the loop over passes has nothing left to write, or
\* there were errors.
ProcessEnds == <>(phase \in {"done", "failed"})
===============================================================================
