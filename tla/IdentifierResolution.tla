------------------------ MODULE IdentifierResolution ------------------------
(***************************************************************************)
(* The identifier resolution pass.  A scope is a SemanticIdentifierMap; a  *)
(* new one starts as a copy of the map around it with every entry marked   *)
(* out of scope, so that a lookup needs the current map only.  Names       *)
(* without linkage are replaced by name.N, N from the compiler-wide        *)
(* counter currGlobalInt.  An error message is followed by exit(1).        *)
(*                                                                         *)
(* `maps' holds the maps of the open scopes, the file's varMap first and   *)
(* the current one last.  Any construct the grammar allows may come next.  *)
(***************************************************************************)
EXTENDS Integers, Sequences

CONSTANTS
  Name,         \* identifiers of the program
  MaxDepth,     \* bound: scopes open at once
  MaxCounter,   \* bound: unique names generated
  MaxParams     \* bound: parameters of a function

ASSUME BoundsAssumption ==
  MaxDepth \in Nat /\ MaxCounter \in Nat /\ MaxParams \in Nat

VARIABLES
  maps,           \* the scope maps: name -> MapEntry
  currGlobalInt,
  symbolTable,    \* what this pass puts there: unique name -> attributes
  objects,        \* history: the unique names generated, in order
  verdict         \* what was said about the latest construct

vars == <<maps, currGlobalInt, symbolTable, objects, verdict>>

Linked == -1
StorageClass == {"none", "static", "extern"}
ParamList == UNION {[1 .. k -> Name] : k \in 0 .. MaxParams}

\* The names code generation sees: "x" itself or "x.7".
Target == [base: Name, id: Linked .. MaxCounter]
Global(n) == [base |-> n, id |-> Linked]
UniqueName(n, id) == [base |-> n, id |-> id]

MapEntry == [value: Target, isInScope: BOOLEAN, hasExternalLinkage: BOOLEAN]

varMap == maps[Len(maps)]
Accepted == [kind |-> "accepted"]
Running == verdict.kind \in {"accepted", "bound"}

mapPut(map, n, v, linkage) ==
  [x \in DOMAIN map \cup {n} |->
     IF x = n THEN [value |-> v, isInScope |-> TRUE,
                    hasExternalLinkage |-> linkage]
     ELSE map[x]]

\* copySemanticIdentifierMap and markAllEntriesOutOfCurrentScope.
copySemanticIdentifierMap(map) ==
  [x \in DOMAIN map |-> [map[x] EXCEPT !.isInScope = FALSE]]

Put(n, v, linkage) ==
  [maps EXCEPT ![Len(maps)] = mapPut(varMap, n, v, linkage)]

\* Mutant: any visible declaration counts as one of this block.
KnownAtAll(n) == n \in DOMAIN varMap

isFromCurrentBlock(n) == n \in DOMAIN varMap /\ varMap[n].isInScope

\* Mutant: numbering starts again with every top-level declaration.
CounterPerFunction(k) == (IF Len(maps) = 1 THEN 0 ELSE currGlobalInt) + k

\* generateUniqueVariableName called k times.
CounterAfter(k) == currGlobalInt + k

ParamName(params, i) == UniqueName(params[i], currGlobalInt + i - 1)

resolveParams(map, params) ==
  [x \in DOMAIN map \cup {params[i] : i \in DOMAIN params} |->
     IF \E i \in DOMAIN params : params[i] = x
     THEN [value |-> ParamName(params, CHOOSE i \in DOMAIN params : params[i] = x),
           isInScope |-> TRUE, hasExternalLinkage |-> FALSE]
     ELSE map[x]]

Init ==
  /\ maps = <<[n \in {} |-> 0]>>
  /\ currGlobalInt = 0
  /\ symbolTable = [t \in {} |-> 0]
  /\ objects = <<>>
  /\ verdict = Accepted

Reject(why) ==
  /\ verdict' = why
  /\ UNCHANGED <<maps, currGlobalInt, symbolTable, objects>>

Conflict(n, linked) == [kind |-> "conflict", name |-> n, linked |-> linked]
Misplaced(n) == [kind |-> "misplaced", name |-> n]

(***************************************************************************)
(* Declarations.                                                           *)
(***************************************************************************)
resolveFileScopeVarDeclaration(n) ==
  /\ Running /\ Len(maps) = 1
  /\ maps' = Put(n, Global(n), TRUE)
  /\ verdict' = Accepted
  /\ UNCHANGED <<currGlobalInt, symbolTable, objects>>

\* A variable declaration in a block, or as the first clause of a for.
resolveLocalVarDeclaration(n, storageClass) ==
  /\ Running /\ Len(maps) > 1
  /\ \/ /\ isFromCurrentBlock(n)
        /\ ~(storageClass = "extern" /\ varMap[n].hasExternalLinkage)
        /\ Reject(Conflict(n, storageClass = "extern"))
     \/ /\ isFromCurrentBlock(n)
        /\ storageClass = "extern" /\ varMap[n].hasExternalLinkage
        /\ verdict' = Accepted
        /\ UNCHANGED <<maps, currGlobalInt, symbolTable, objects>>
     \/ /\ ~isFromCurrentBlock(n) /\ storageClass = "extern"
        /\ maps' = Put(n, Global(n), TRUE)
        /\ verdict' = Accepted
        /\ UNCHANGED <<currGlobalInt, symbolTable, objects>>
     \/ /\ ~isFromCurrentBlock(n) /\ storageClass # "extern"
        /\ currGlobalInt < MaxCounter
        /\ maps' = Put(n, UniqueName(n, currGlobalInt), FALSE)
        /\ currGlobalInt' = CounterAfter(1)
        /\ objects' = Append(objects, UniqueName(n, currGlobalInt))
        /\ verdict' = Accepted
        /\ UNCHANGED symbolTable

\* handleForInitDecl: no storage class there.
ForInitStorageClass(n) ==
  Running /\ Len(maps) > 1 /\ Reject(Misplaced(n))

FunctionConflict(n) == isFromCurrentBlock(n) /\ ~varMap[n].hasExternalLinkage

FunctionMisplaced(storageClass, hasBody) ==
  Len(maps) > 1 /\ (storageClass = "static" \/ hasBody)

Duplicate(params, j) == \E i \in 1 .. (j - 1) : params[i] = params[j]

RejectFunctionDeclaration(n, params, storageClass, hasBody) ==
  /\ Running
  /\ \/ FunctionConflict(n) /\ Reject(Conflict(n, TRUE))
     \/ /\ ~FunctionConflict(n) /\ FunctionMisplaced(storageClass, hasBody)
        /\ Reject(Misplaced(n))
     \/ /\ ~FunctionConflict(n) /\ ~FunctionMisplaced(storageClass, hasBody)
        /\ \E j \in DOMAIN params :
             /\ Duplicate(params, j)
             /\ \A i \in 1 .. (j - 1) : ~Duplicate(params, i)
             /\ Reject([kind |-> "duplicate", name |-> params[j],
                        params |-> params])

\* Mutant: no symbolTableContains before the insertion.
InsertAlways(n, params, storageClass) ==
  LET names == {ParamName(params, i) : i \in DOMAIN params} IN
  [t \in DOMAIN symbolTable \cup names \cup {Global(n)} |->
     IF t \in names THEN [attr |-> "local", global |-> FALSE]
     ELSE IF t = Global(n)
     THEN [attr |-> "fun", global |-> storageClass # "static"]
     ELSE symbolTable[t]]

\* The entry of a function is the first declaration's; a parameter's entry is
\* written whatever the table holds.
InsertSymbols(n, params, storageClass) ==
  LET names == {ParamName(params, i) : i \in DOMAIN params} IN
  [t \in DOMAIN symbolTable \cup names \cup {Global(n)} |->
     IF t \in names THEN [attr |-> "local", global |-> FALSE]
     ELSE IF t \in DOMAIN symbolTable THEN symbolTable[t]
     ELSE [attr |-> "fun", global |-> storageClass # "static"]]

\* Up to the body, which is resolved in the map of the parameters.  Without a
\* body that map is freed again.
resolveFunctionDeclaration(n, params, storageClass, hasBody) ==
  /\ Running /\ ~FunctionConflict(n)
  /\ ~FunctionMisplaced(storageClass, hasBody)
  /\ \A j \in DOMAIN params : ~Duplicate(params, j)
  /\ currGlobalInt + Len(params) <= MaxCounter
  /\ hasBody => Len(maps) < MaxDepth
  /\ symbolTable' = InsertSymbols(n, params, storageClass)
  /\ LET declared == Put(n, Global(n), TRUE)
         inner == copySemanticIdentifierMap(declared[Len(maps)])
     IN maps' = IF hasBody THEN Append(declared, resolveParams(inner, params))
                ELSE declared
  /\ currGlobalInt' = CounterAfter(Len(params))
  /\ objects' = objects \o [i \in DOMAIN params |-> ParamName(params, i)]
  /\ verdict' = Accepted

(***************************************************************************)
(* Statements and expressions.                                             *)
(***************************************************************************)

\* Compound statements and the three loops; if and switch open no scope.
EnterScope ==
  /\ Running /\ Len(maps) \in 2 .. (MaxDepth - 1)
  /\ maps' = Append(maps, copySemanticIdentifierMap(varMap))
  /\ verdict' = Accepted
  /\ UNCHANGED <<currGlobalInt, symbolTable, objects>>

\* Mutant: the inner scope worked on the map of the outer one, not on a copy.
LeaveSharedMap ==
  /\ Running /\ Len(maps) > 1
  /\ maps' = Append(SubSeq(maps, 1, Len(maps) - 2), varMap)
  /\ verdict' = Accepted
  /\ UNCHANGED <<currGlobalInt, symbolTable, objects>>

\* Mutant: the file's map is freed as well.
LeaveEvenFile ==
  /\ Running
  /\ maps' = SubSeq(maps, 1, Len(maps) - 1)
  /\ verdict' = Accepted
  /\ UNCHANGED <<currGlobalInt, symbolTable, objects>>

\* freeSemanticIdentifierMap at the end of a statement or of a function.
LeaveScope ==
  /\ Running /\ Len(maps) > 1
  /\ maps' = SubSeq(maps, 1, Len(maps) - 1)
  /\ verdict' = Accepted
  /\ UNCHANGED <<currGlobalInt, symbolTable, objects>>

\* handleFactorVar and handleFactorFunctionCall.
resolveIdentifier(n) ==
  /\ Running /\ Len(maps) > 1
  /\ \/ /\ n \in DOMAIN varMap
        /\ verdict' = [kind |-> "bound", name |-> n, object |-> varMap[n].value]
     \/ /\ n \notin DOMAIN varMap
        /\ verdict' = [kind |-> "undeclared", name |-> n]
  /\ UNCHANGED <<maps, currGlobalInt, symbolTable, objects>>

Next ==
  \/ EnterScope \/ LeaveScope
  \/ \E n \in Name :
       \/ resolveFileScopeVarDeclaration(n)
       \/ ForInitStorageClass(n)
       \/ resolveIdentifier(n)
       \/ \E storageClass \in StorageClass :
            \/ resolveLocalVarDeclaration(n, storageClass)
            \/ \E params \in ParamList, hasBody \in BOOLEAN :
                 \/ RejectFunctionDeclaration(n, params, storageClass, hasBody)
                 \/ resolveFunctionDeclaration(n, params, storageClass, hasBody)

Spec == Init /\ [][Next]_vars

(***************************************************************************)
(* Properties.                                                             *)
(***************************************************************************)
Map == UNION {[D -> MapEntry] : D \in SUBSET Name}

TypeOK ==
  /\ maps \in Seq(Map) /\ maps # <<>>
  /\ currGlobalInt \in 0 .. MaxCounter
  /\ DOMAIN symbolTable \subseteq Target
  /\ objects \in Seq(Target)
  /\ verdict.kind \in {"accepted", "bound", "undeclared", "conflict",
                       "duplicate", "misplaced"}

\* Scope k declares n itself; the other entries of its map are inherited.
Declares(k, n) == n \in DOMAIN maps[k] /\ maps[k][n].isInScope

\* Each map, copied when its scope began, still says of every name what the
\* innermost scope around it that declares the name says now; and it knows
\* every name those scopes know.
MapsMirrorScopes ==
  \A j \in DOMAIN maps :
    /\ \A n \in DOMAIN maps[j] :
         \E k \in 1 .. j :
           /\ Declares(k, n)
           /\ maps[k][n].value = maps[j][n].value
           /\ \A i \in (k + 1) .. j : ~Declares(i, n)
    /\ \A i \in 1 .. j : DOMAIN maps[i] \subseteq DOMAIN maps[j]

\* No two declarations of the whole program get the same unique name, so that
\* the flat symbol table and the later passes can tell all variables apart.
UniqueNamesApart ==
  \A i, j \in DOMAIN objects : objects[i] = objects[j] => i = j

\* An entry of the symbol table is never replaced by this pass: a later
\* declaration of a static function leaves it static.
SymbolsKept ==
  [][\A t \in DOMAIN symbolTable :
       t \in DOMAIN symbolTable' /\ symbolTable'[t] = symbolTable[t]]_vars

\* The maps are the scopes of the language: uses get the innermost binding,
\* and the pass refuses exactly what the language refuses.
DeclaredIn(map) == [n \in {x \in DOMAIN map : map[x].isInScope} |-> map[n].value]
Scopes(ms) == [k \in DOMAIN ms |-> DeclaredIn(ms[k])]
Created(names) == {names[i] : i \in DOMAIN names}

Lexical == INSTANCE LexicalScope
  WITH Object <- Target,
       LinkedTo <- [n \in Name |-> Global(n)],
       scopes <- Scopes(maps),
       objects <- Created(objects),
       answer <- verdict

ImplementsLexicalScope == Lexical!Spec

=============================================================================
