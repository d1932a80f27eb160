------------------------------- MODULE Linkage -------------------------------
(***************************************************************************)
(* The symbol table's entries of names with linkage.  Every top-level      *)
(* declaration is handled by two passes in turn: identifier resolution     *)
(* walks all of it, and enters each function not in the table yet; then    *)
(* the type checker walks it again, compares each declaration with the     *)
(* entry, and overwrites the entry.  So when a declaration is compared,    *)
(* the entry may come from an earlier one or from one further down in the  *)
(* same body.  Switch statements are not type-checked: what they declare   *)
(* is only resolved.  An error message is followed by exit(1).             *)
(*                                                                         *)
(* Declarations that resolution refuses are in IdentifierResolution; here  *)
(* it only meets those that pass, and initializers are constant.           *)
(***************************************************************************)
EXTENDS Integers, Sequences

CONSTANTS
  Name,       \* names with linkage
  Type,       \* types a name can be declared with
  MaxDecls    \* bound: declarations in the program

ASSUME BoundAssumption == MaxDecls \in Nat

VARIABLES
  symbolTable,
  phase,      \* "idle" between top-level declarations, "resolving" and
              \* "checking" inside one, "refused" at the end
  met,        \* the declarations that have taken effect so far
  pending,    \* the positions in met of those resolved and not yet checked
  refusal     \* history: the name and the reason of the message

vars == <<symbolTable, phase, met, pending, refusal>>

StorageClass == {"none", "static", "extern"}

\* `defines' is a body or an initializer.
Declaration ==
  [name: Name, kind: {"fun", "var"}, type: Type, storageClass: StorageClass,
   defines: BOOLEAN, level: {"file", "block"}]

FileDeclaration == {d \in Declaration : d.level = "file"}

\* What a body declares: prototypes and extern variables, the latter perhaps
\* with an initializer.
BlockDeclaration ==
  {d \in Declaration :
     /\ d.level = "block"
     /\ d.kind = "fun" => d.storageClass # "static" /\ ~d.defines
     /\ d.kind = "var" => d.storageClass = "extern"}

InitialValue == {"value", "tentative", "none"}
Entry == [kind: {"fun"}, type: Type, global: BOOLEAN, isDefined: BOOLEAN]
         \cup [kind: {"var"}, type: Type, global: BOOLEAN, initValue: InitialValue]

FunEntry(type, global, isDefined) ==
  [kind |-> "fun", type |-> type, global |-> global, isDefined |-> isDefined]
VarEntry(type, global, initValue) ==
  [kind |-> "var", type |-> type, global |-> global, initValue |-> initValue]

Contains(n) == n \in DOMAIN symbolTable

symbolTableInsert(n, entry) ==
  [x \in DOMAIN symbolTable \cup {n} |-> IF x = n THEN entry ELSE symbolTable[x]]

Init ==
  /\ symbolTable = [n \in {} |-> 0]
  /\ phase = "idle"
  /\ pending = <<>> /\ met = <<>> /\ refusal = <<>>

(***************************************************************************)
(* Identifier resolution.                                                  *)
(***************************************************************************)

\* A function that is not in the table yet is entered, undefined.
EnterFunction(d) ==
  IF d.kind = "fun" /\ ~Contains(d.name)
  THEN symbolTableInsert(d.name, FunEntry(d.type, d.storageClass # "static", FALSE))
  ELSE symbolTable

resolveTopLevel(d) ==
  /\ phase = "idle" /\ Len(met) < MaxDecls
  /\ symbolTable' = EnterFunction(d)
  /\ phase' = IF d.kind = "fun" /\ d.defines THEN "resolving" ELSE "checking"
  /\ pending' = <<Len(met) + 1>>
  /\ met' = Append(met, d)
  /\ UNCHANGED refusal

resolveBlockItem(d) ==
  /\ phase = "resolving" /\ Len(met) < MaxDecls
  /\ symbolTable' = EnterFunction(d)
  /\ pending' = Append(pending, Len(met) + 1)
  /\ met' = Append(met, d)
  /\ UNCHANGED <<phase, refusal>>

\* A prototype inside a switch: it takes effect only as the first one.
resolveInSwitch(d) ==
  /\ phase = "resolving" /\ Len(met) < MaxDecls
  /\ d.kind = "fun" /\ ~Contains(d.name)
  /\ symbolTable' = EnterFunction(d)
  /\ met' = Append(met, d)
  /\ UNCHANGED <<phase, pending, refusal>>

EndOfBody ==
  /\ phase = "resolving"
  /\ phase' = "checking"
  /\ UNCHANGED <<symbolTable, pending, met, refusal>>

(***************************************************************************)
(* Type checking.                                                          *)
(***************************************************************************)
Refuse(d, why) ==
  /\ phase' = "refused"
  /\ refusal' = <<[name |-> d.name, why |-> why]>>
  /\ UNCHANGED <<symbolTable, pending, met>>

\* Mutant: the declarations in the body are left unchecked.
HeaderOnly(table) ==
  /\ symbolTable' = table
  /\ pending' = Tail(pending)
  /\ phase' = "idle"
  /\ UNCHANGED <<met, refusal>>

Accept(table) ==
  /\ symbolTable' = table
  /\ pending' = Tail(pending)
  /\ phase' = IF Len(pending) = 1 THEN "idle" ELSE "checking"
  /\ UNCHANGED <<met, refusal>>

Checking(d) == phase = "checking" /\ d = met[Head(pending)]

\* The entry disagrees with d on the kind of the name or on its type.
OtherType(d) ==
  LET existing == symbolTable[d.name] IN
  Contains(d.name) /\ (existing.kind # d.kind \/ existing.type # d.type)

\* resolveFileScopeInitValue.
OwnInitValue(d) ==
  IF d.defines THEN "value"
  ELSE IF d.storageClass = "extern" THEN "none" ELSE "tentative"

Initialized(n) == Contains(n) /\ symbolTable[n].initValue = "value"

\* Mutant: extern is compared like no storage class.
ExternIsGlobal(d) ==
  Contains(d.name) /\ symbolTable[d.name].global # (d.storageClass # "static")

\* resolveFileScopeLinkage: extern takes the linkage there is.
OtherLinkage(d) ==
  /\ Contains(d.name) /\ d.storageClass # "extern"
  /\ symbolTable[d.name].global # (d.storageClass # "static")

\* Mutant: extern makes the variable global.
RequestedGlobal(d) == d.storageClass # "static"

FileScopeGlobal(d) ==
  IF Contains(d.name) /\ d.storageClass = "extern" THEN symbolTable[d.name].global
  ELSE d.storageClass # "static"

\* Mutant: the latest initial value counts.
LatestInitValue(d) == OwnInitValue(d)

\* resolveFileScopeExistingInit: an initializer stays.
FileScopeInitValue(d) ==
  IF Initialized(d.name) THEN "value" ELSE OwnInitValue(d)

typeCheckFileScopeVariableDeclaration(d) ==
  /\ Checking(d) /\ d.kind = "var" /\ d.level = "file"
  /\ \/ OtherType(d) /\ Refuse(d, "type")
     \/ ~OtherType(d) /\ OtherLinkage(d) /\ Refuse(d, "linkage")
     \/ /\ ~OtherType(d) /\ ~OtherLinkage(d)
        /\ Initialized(d.name) /\ d.defines
        /\ Refuse(d, "defined")
     \/ /\ ~OtherType(d) /\ ~OtherLinkage(d)
        /\ ~(Initialized(d.name) /\ d.defines)
        /\ Accept(symbolTableInsert(d.name,
             VarEntry(d.type, FileScopeGlobal(d), FileScopeInitValue(d))))

handleExternLocalVar(d) ==
  /\ Checking(d) /\ d.kind = "var" /\ d.level = "block"
  /\ \/ d.defines /\ Refuse(d, "initializer")
     \/ ~d.defines /\ OtherType(d) /\ Refuse(d, "type")
     \/ /\ ~d.defines /\ ~OtherType(d)
        /\ Accept(IF Contains(d.name) THEN symbolTable
                  ELSE symbolTableInsert(d.name, VarEntry(d.type, TRUE, "none")))

\* Mutant: a definition is not compared with the one before.
NeverTwice(d) == FALSE

DefinedTwice(d) == d.defines /\ symbolTable[d.name].isDefined

FunctionLinkage(d) ==
  IF d.storageClass = "static" THEN FALSE
  ELSE IF Contains(d.name) THEN symbolTable[d.name].global ELSE TRUE

\* Mutant: a prototype after the definition forgets it.
DefinedHere(d) == d.defines

isDefined(d) == d.defines \/ (Contains(d.name) /\ symbolTable[d.name].isDefined)

\* The header of a function, or a prototype in a block.
typeCheckFunctionDeclaration(d) ==
  /\ Checking(d) /\ d.kind = "fun"
  /\ \/ OtherType(d) /\ Refuse(d, "type")
     \/ /\ ~OtherType(d) /\ Contains(d.name)
        /\ d.storageClass = "static" /\ symbolTable[d.name].global
        /\ Refuse(d, "linkage")
     \/ /\ ~OtherType(d) /\ Contains(d.name)
        /\ ~(d.storageClass = "static" /\ symbolTable[d.name].global)
        /\ DefinedTwice(d)
        /\ Refuse(d, "defined")
     \/ /\ ~OtherType(d)
        /\ Contains(d.name) =>
             /\ ~(d.storageClass = "static" /\ symbolTable[d.name].global)
             /\ ~DefinedTwice(d)
        /\ Accept(symbolTableInsert(d.name,
             FunEntry(d.type, FunctionLinkage(d), isDefined(d))))

Next ==
  \/ \E d \in FileDeclaration : resolveTopLevel(d)
  \/ \E d \in BlockDeclaration : resolveBlockItem(d) \/ resolveInSwitch(d)
  \/ EndOfBody
  \/ /\ pending # <<>>
     /\ \/ typeCheckFileScopeVariableDeclaration(met[Head(pending)])
        \/ handleExternLocalVar(met[Head(pending)])
        \/ typeCheckFunctionDeclaration(met[Head(pending)])

Spec == Init /\ [][Next]_vars

(***************************************************************************)
(* What is emitted when the program has been accepted: a definition for    *)
(* each function with a body and each variable with an initial value.      *)
(***************************************************************************)
EmittedFunctions ==
  {[name |-> met[i].name, global |-> symbolTable[met[i].name].global] :
     i \in {i \in DOMAIN met : met[i].kind = "fun" /\ met[i].defines}}

EmittedVariables ==
  {n \in DOMAIN symbolTable :
     symbolTable[n].kind = "var" /\ symbolTable[n].initValue # "none"}

(***************************************************************************)
(* Properties.  They judge the declarations met, not the table.            *)
(***************************************************************************)
TypeOK ==
  /\ symbolTable \in UNION {[D -> Entry] : D \in SUBSET Name}
  /\ phase \in {"idle", "resolving", "checking", "refused"}
  /\ met \in Seq(Declaration) /\ pending \in Seq(DOMAIN met)
  /\ Len(met) <= MaxDecls
  /\ (phase = "idle") = (pending = <<>>)
  /\ (phase = "refused") = (refusal # <<>>)

OfName(n) == {i \in DOMAIN met : met[i].name = n}
First(n) == CHOOSE i \in OfName(n) : \A j \in OfName(n) : i <= j

\* A name is global unless its first declaration is static.
GlobalName(n) == met[First(n)].storageClass # "static"

\* Functions that are not static and extern variables take the linkage the
\* name has; any other variable asks for its own.
OwnLinkage(d) == d.storageClass = "static" \/ (d.kind = "var" /\ d.storageClass = "none")

Disagreement(n, why) ==
  CASE why = "type" ->
         \E i, j \in OfName(n) : met[i].kind # met[j].kind \/ met[i].type # met[j].type
    [] why = "linkage" ->
         \E i \in OfName(n) : /\ OwnLinkage(met[i])
                              /\ GlobalName(n) # (met[i].storageClass # "static")
    [] why = "defined" ->
         \E i, j \in OfName(n) : i # j /\ met[i].defines /\ met[j].defines
    [] why = "initializer" ->
         \E i \in OfName(n) : met[i].level = "block" /\ met[i].defines

\* When the program is accepted so far, all its declarations of a name agree
\* on kind, type and linkage, and at most one of them defines it, whichever
\* bodies they are in.
AcceptedAgree ==
  phase = "idle" =>
    \A n \in Name, why \in {"type", "linkage", "defined", "initializer"} :
      ~Disagreement(n, why)

\* A message is right about the name and the reason: there are declarations
\* of that name that disagree in that way.
RefusedDisagree ==
  phase = "refused" => Disagreement(refusal[1].name, refusal[1].why)

\* Between top-level declarations the entry of a name sums up all its
\* declarations: no overwriting loses the linkage, the definition or the
\* initializer, and none is invented.
EntrySumsUp ==
  phase = "idle" =>
    /\ DOMAIN symbolTable = {met[i].name : i \in DOMAIN met}
    /\ \A n \in DOMAIN symbolTable :
         LET defined == \E i \in OfName(n) : met[i].defines IN
         /\ symbolTable[n].type = met[First(n)].type
         /\ symbolTable[n].global = GlobalName(n)
         /\ symbolTable[n].kind = "fun" => symbolTable[n].isDefined = defined
         /\ symbolTable[n].kind = "var" =>
              (symbolTable[n].initValue = "value") = defined

\* What is emitted of an accepted program: no function also as a variable,
\* nothing global that was declared static first, each initialized variable,
\* and no variable that is declared extern only.
EmittedAsDeclared ==
  phase = "idle" =>
    /\ {f.name : f \in EmittedFunctions} \cap EmittedVariables = {}
    /\ \A f \in EmittedFunctions : f.global = GlobalName(f.name)
    /\ \A n \in EmittedVariables :
         \E i \in OfName(n) : met[i].defines \/ met[i].storageClass # "extern"
    /\ {met[i].name : i \in {i \in DOMAIN met :
          met[i].kind = "var" /\ met[i].defines}} \subseteq EmittedVariables

\* Once a name is in the table its linkage never changes, not even for the
\* time between the two passes.
LinkageFixed ==
  [][\A n \in DOMAIN symbolTable :
       n \in DOMAIN symbolTable' /\ symbolTable'[n].global = symbolTable[n].global]_vars

(***************************************************************************)
(* The inductive invariant of the proofs.  A declaration is settled when   *)
(* it has been checked, or was only resolved, in a switch; what is settled *)
(* agrees with the table at every moment, also between the two passes, and *)
(* what is not settled has its check to come.                              *)
(***************************************************************************)
Unchecked == {pending[k] : k \in DOMAIN pending}
Settled(n) == OfName(n) \ Unchecked

PendingOnce == \A k, l \in DOMAIN pending : pending[k] = pending[l] => k = l

InBlocks == \A i \in DOMAIN met : met[i].level = "block" => met[i] \in BlockDeclaration

FileVariableAlone ==
  \A i \in Unchecked :
    met[i].level = "file" /\ met[i].kind = "var" =>
      pending = <<Len(met)>> /\ phase # "resolving"

IsFirst(i, n) == i \in OfName(n) /\ \A j \in OfName(n) : i <= j
FirstExists == \A n \in Name : OfName(n) # {} => \E i \in DOMAIN met : IsFirst(i, n)

\* A name that has no entry was only met in variables still to be checked.
NotEntered ==
  \A i \in DOMAIN met :
    met[i].name \notin DOMAIN symbolTable => i \in Unchecked /\ met[i].kind = "var"

Defined(n) ==
  IF symbolTable[n].kind = "fun" THEN symbolTable[n].isDefined
  ELSE symbolTable[n].initValue = "value"

SameEntry(d) == symbolTable[d.name].kind = d.kind /\ symbolTable[d.name].type = d.type

EntryFounded ==
  \A n \in DOMAIN symbolTable :
    /\ \E i \in OfName(n) : SameEntry(met[i])
    /\ symbolTable[n].global = GlobalName(n)
    /\ Defined(n) => \E i \in Settled(n) : met[i].defines
    /\ symbolTable[n].kind = "var" /\ symbolTable[n].initValue # "none" =>
         \E i \in OfName(n) : met[i].defines \/ met[i].storageClass # "extern"

SettledAgree ==
  \A n \in DOMAIN symbolTable : \A i \in Settled(n) :
    /\ SameEntry(met[i])
    /\ OwnLinkage(met[i]) => symbolTable[n].global = (met[i].storageClass # "static")
    /\ met[i].defines => met[i].level = "file" /\ Defined(n)
    /\ \A j \in Settled(n) : met[i].defines /\ met[j].defines => i = j

LinkageInv ==
  /\ TypeOK /\ PendingOnce /\ InBlocks /\ FileVariableAlone
  /\ FirstExists /\ NotEntered /\ EntryFounded /\ SettledAgree
  /\ RefusedDisagree

=============================================================================
