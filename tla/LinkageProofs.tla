---------------------------- MODULE LinkageProofs ----------------------------
(***************************************************************************)
(* For any names, types and number of declarations: what Linkage accepts   *)
(* agrees, what it refuses disagrees in the way the message says, and the  *)
(* entries sum up the declarations.                                        *)
(***************************************************************************)
EXTENDS Linkage, TLAPS

(***************************************************************************)
(* Types.                                                                  *)
(***************************************************************************)

\* What an entry may hold.
LEMMA EntryFacts ==
  ASSUME NEW e \in Entry
  PROVE  /\ e.kind \in {"fun", "var"} /\ e.type \in Type /\ e.global \in BOOLEAN
         /\ e.kind = "fun" => e.isDefined \in BOOLEAN
         /\ e.kind = "var" => e.initValue \in InitialValue
BY DEF Entry

LEMMA FunEntryFacts ==
  ASSUME NEW t \in Type, NEW g \in BOOLEAN, NEW b \in BOOLEAN
  PROVE  /\ FunEntry(t, g, b) \in Entry
         /\ FunEntry(t, g, b).kind = "fun" /\ FunEntry(t, g, b).type = t
         /\ FunEntry(t, g, b).global = g /\ FunEntry(t, g, b).isDefined = b
BY DEF Entry, FunEntry

LEMMA VarEntryFacts ==
  ASSUME NEW t \in Type, NEW g \in BOOLEAN, NEW v \in InitialValue
  PROVE  /\ VarEntry(t, g, v) \in Entry
         /\ VarEntry(t, g, v).kind = "var" /\ VarEntry(t, g, v).type = t
         /\ VarEntry(t, g, v).global = g /\ VarEntry(t, g, v).initValue = v
BY DEF Entry, VarEntry

LEMMA DeclarationFacts ==
  ASSUME NEW d \in Declaration
  PROVE  /\ d.name \in Name /\ d.kind \in {"fun", "var"} /\ d.type \in Type
         /\ d.storageClass \in StorageClass /\ d.defines \in BOOLEAN
         /\ d.level \in {"file", "block"}
BY DEF Declaration

TableType == symbolTable \in UNION {[D -> Entry] : D \in SUBSET Name}

\* The table is a function from names to entries.
LEMMA TableFacts ==
  ASSUME TableType
  PROVE  /\ DOMAIN symbolTable \subseteq Name
         /\ \A n \in DOMAIN symbolTable : symbolTable[n] \in Entry
BY DEF TableType

\* An insertion changes one entry.
LEMMA InsertFacts ==
  ASSUME TableType, NEW n \in Name, NEW e \in Entry,
         NEW table, table = symbolTableInsert(n, e)
  PROVE  /\ table \in UNION {[D -> Entry] : D \in SUBSET Name}
         /\ DOMAIN table = DOMAIN symbolTable \cup {n}
         /\ table[n] = e
         /\ \A m \in DOMAIN symbolTable : m # n => table[m] = symbolTable[m]
<1> DEFINE D == DOMAIN symbolTable \cup {n}
<1>1. DOMAIN symbolTable \subseteq Name /\ \A m \in DOMAIN symbolTable : symbolTable[m] \in Entry
  BY TableFacts
<1>2. table = [x \in D |-> IF x = n THEN e ELSE symbolTable[x]]
  BY DEF symbolTableInsert
<1>3. table \in [D -> Entry] /\ D \in SUBSET Name
  BY <1>1, <1>2
<1> QED
  BY <1>2, <1>3

\* What resolution leaves in the table.
LEMMA EnterFacts ==
  ASSUME TableType, NEW d \in Declaration
  PROVE  /\ EnterFunction(d) \in UNION {[D -> Entry] : D \in SUBSET Name}
         /\ DOMAIN symbolTable \subseteq DOMAIN EnterFunction(d)
         /\ DOMAIN EnterFunction(d) \subseteq DOMAIN symbolTable \cup {d.name}
         /\ \A m \in DOMAIN symbolTable : EnterFunction(d)[m] = symbolTable[m]
         /\ d.kind = "fun" => d.name \in DOMAIN EnterFunction(d)
         /\ d.name \in DOMAIN EnterFunction(d) \ DOMAIN symbolTable =>
              /\ d.kind = "fun"
              /\ EnterFunction(d)[d.name].kind = "fun"
              /\ EnterFunction(d)[d.name].type = d.type
              /\ EnterFunction(d)[d.name].global = (d.storageClass # "static")
              /\ EnterFunction(d)[d.name].isDefined = FALSE
<1> DEFINE e == FunEntry(d.type, d.storageClass # "static", FALSE)
<1>1. /\ e \in Entry /\ e.kind = "fun" /\ e.type = d.type
      /\ e.global = (d.storageClass # "static") /\ e.isDefined = FALSE
  BY DeclarationFacts, FunEntryFacts
<1>2. CASE d.kind = "fun" /\ ~Contains(d.name)
  <2>1. EnterFunction(d) = symbolTableInsert(d.name, e)
    BY <1>2 DEF EnterFunction
  <2>2. d.name \in Name /\ d.name \notin DOMAIN symbolTable
    BY <1>2, DeclarationFacts DEF Contains
  <2> HIDE DEF e
  <2>3. /\ EnterFunction(d) \in UNION {[D -> Entry] : D \in SUBSET Name}
        /\ DOMAIN EnterFunction(d) = DOMAIN symbolTable \cup {d.name}
        /\ EnterFunction(d)[d.name] = e
        /\ \A m \in DOMAIN symbolTable : m # d.name => EnterFunction(d)[m] = symbolTable[m]
    BY <1>1, <2>1, <2>2, InsertFacts
  <2> QED
    BY <1>1, <1>2, <2>2, <2>3
<1>3. CASE ~(d.kind = "fun" /\ ~Contains(d.name))
  <2>1. EnterFunction(d) = symbolTable
    BY <1>3 DEF EnterFunction
  <2> QED
    BY <1>3, <2>1 DEF Contains, TableType
<1> QED
  BY <1>2, <1>3

(***************************************************************************)
(* The declarations met, and the first of each name.                       *)
(***************************************************************************)

\* A set of numbers has one least member at most.
LEMMA Least ==
  ASSUME NEW S \in SUBSET Nat, NEW i \in S, \A j \in S : i <= j
  PROVE  (CHOOSE k \in S : \A j \in S : k <= j) = i
<1>1. \A k \in S : (\A j \in S : k <= j) => k = i
  <2> SUFFICES ASSUME NEW k \in S, \A j \in S : k <= j PROVE k = i
    OBVIOUS
  <2>1. k <= i /\ i <= k /\ k \in Nat /\ i \in Nat
    OBVIOUS
  <2> QED
    BY <2>1
<1> QED
  BY <1>1

LEMMA FirstIs ==
  ASSUME met \in Seq(Declaration), NEW n, NEW i, IsFirst(i, n)
  PROVE  First(n) = i
BY Least DEF First, IsFirst, OfName

\* Meeting one more declaration: the others keep their places.
LEMMA MeetFacts ==
  ASSUME met \in Seq(Declaration), NEW d \in Declaration, met' = Append(met, d)
  PROVE  /\ met' \in Seq(Declaration) /\ Len(met') = Len(met) + 1
         /\ Len(met) + 1 \notin DOMAIN met
         /\ DOMAIN met' = DOMAIN met \cup {Len(met) + 1}
         /\ \A i \in DOMAIN met : met'[i] = met[i]
         /\ met'[Len(met) + 1] = d
         /\ \A n : OfName(n)' = OfName(n) \cup (IF n = d.name THEN {Len(met) + 1} ELSE {})
<1>1. /\ met' \in Seq(Declaration) /\ Len(met') = Len(met) + 1
      /\ Len(met) + 1 \notin DOMAIN met
      /\ DOMAIN met' = DOMAIN met \cup {Len(met) + 1}
      /\ \A i \in DOMAIN met : met'[i] = met[i]
      /\ met'[Len(met) + 1] = d
  OBVIOUS
<1>2. ASSUME NEW n
      PROVE  OfName(n)' = OfName(n) \cup (IF n = d.name THEN {Len(met) + 1} ELSE {})
  BY <1>1 DEF OfName
<1> QED
  BY <1>1, <1>2

\* The first declaration of a name stays the first, and is the new one only if
\* there was none.
LEMMA FirstKept ==
  ASSUME met \in Seq(Declaration), FirstExists, NEW d \in Declaration, met' = Append(met, d)
  PROVE  /\ FirstExists'
         /\ \A n \in Name : OfName(n) # {} => GlobalName(n)' = GlobalName(n)
         /\ OfName(d.name) = {} => GlobalName(d.name)' = (d.storageClass # "static")
<1>1. /\ Len(met) \in Nat /\ DOMAIN met = 1..Len(met) /\ DOMAIN met' = 1..(Len(met) + 1)
      /\ \A n : OfName(n) \subseteq DOMAIN met /\ OfName(n)' \subseteq DOMAIN met'
  BY MeetFacts DEF OfName
<1>2. ASSUME NEW n, NEW i, IsFirst(i, n)'
      PROVE  First(n)' = i
  BY <1>1, <1>2, Least DEF First, IsFirst
<1>3. ASSUME NEW n \in Name, OfName(n) # {}
      PROVE  GlobalName(n)' = GlobalName(n) /\ \E i \in DOMAIN met' : IsFirst(i, n)'
  <2>1. PICK i \in DOMAIN met : IsFirst(i, n)
    BY <1>3 DEF FirstExists
  <2>2. \A j \in OfName(n)' : j \in OfName(n) \/ j = Len(met) + 1
    BY MeetFacts
  <2>3. i <= Len(met) + 1
    BY <1>1, <2>1
  <2>4. i \in DOMAIN met' /\ IsFirst(i, n)'
    BY <2>1, <2>2, <2>3, MeetFacts DEF IsFirst
  <2>5. First(n) = i /\ First(n)' = i
    BY <1>2, <2>1, <2>4, FirstIs
  <2>6. met'[i] = met[i]
    BY <2>1, MeetFacts
  <2> QED
    BY <2>4, <2>5, <2>6 DEF GlobalName
<1>4. ASSUME NEW n \in Name, OfName(n) = {}, OfName(n)' # {}
      PROVE  n = d.name /\ \E i \in DOMAIN met' : i = Len(met) + 1 /\ IsFirst(i, n)'
  <2>1. OfName(n)' = {Len(met) + 1} /\ n = d.name
    BY <1>4, MeetFacts
  <2>2. PICK i \in DOMAIN met' : i = Len(met) + 1
    BY <1>1
  <2>3. IsFirst(i, n)'
    BY <1>1, <2>1, <2>2 DEF IsFirst
  <2> QED
    BY <2>1, <2>2, <2>3
<1>5. ASSUME OfName(d.name) = {} PROVE GlobalName(d.name)' = (d.storageClass # "static")
  <2>1. OfName(d.name)' # {} /\ d.name \in Name
    BY MeetFacts, DeclarationFacts
  <2>2. First(d.name)' = Len(met) + 1
    BY <1>2, <1>4, <1>5, <2>1
  <2> QED
    BY <2>2, MeetFacts DEF GlobalName
<1> QED
  BY <1>3, <1>4, <1>5 DEF FirstExists

(***************************************************************************)
(* What is still to be checked.                                            *)
(***************************************************************************)

\* An element more, one element, and an element less.
LEMMA AppendUnchecked ==
  ASSUME NEW S, pending \in Seq(S), PendingOnce, NEW x, x \notin S, pending' = Append(pending, x)
  PROVE  Unchecked' = Unchecked \cup {x} /\ PendingOnce' /\ Unchecked \subseteq S
<1>1. /\ DOMAIN pending' = DOMAIN pending \cup {Len(pending) + 1}
      /\ Len(pending) + 1 \notin DOMAIN pending
      /\ \A k \in DOMAIN pending : pending'[k] = pending[k] /\ pending[k] \in S
      /\ pending'[Len(pending) + 1] = x
  OBVIOUS
<1>2. Unchecked' = Unchecked \cup {x} /\ Unchecked \subseteq S
  BY <1>1 DEF Unchecked
<1>3. PendingOnce'
  BY <1>1 DEF PendingOnce
<1> QED
  BY <1>2, <1>3

LEMMA OneUnchecked ==
  ASSUME NEW x, pending' = <<x>>
  PROVE  Unchecked' = {x} /\ PendingOnce'
BY DEF Unchecked, PendingOnce

LEMMA TailUnchecked ==
  ASSUME NEW S, pending \in Seq(S), pending # <<>>, PendingOnce, pending' = Tail(pending)
  PROVE  /\ Head(pending) \in Unchecked /\ Unchecked \subseteq S
         /\ Unchecked' = Unchecked \ {Head(pending)}
         /\ PendingOnce'
<1>1. /\ Len(pending) \in Nat \ {0} /\ Head(pending) = pending[1]
      /\ DOMAIN pending = 1..Len(pending) /\ DOMAIN pending' = 1..(Len(pending) - 1)
      /\ \A k \in DOMAIN pending' : pending'[k] = pending[k + 1]
      /\ \A k \in DOMAIN pending : pending[k] \in S
  OBVIOUS
<1>2. \A k \in DOMAIN pending : k # 1 => /\ k - 1 \in DOMAIN pending' /\ pending'[k - 1] = pending[k]
                                         /\ pending[k] # pending[1]
  BY <1>1 DEF PendingOnce
<1>3. \A k \in DOMAIN pending' : /\ k + 1 \in DOMAIN pending /\ k + 1 # 1
                                 /\ pending'[k] = pending[k + 1]
  BY <1>1
<1>4. Head(pending) \in Unchecked /\ Unchecked \subseteq S
  BY <1>1 DEF Unchecked
<1>5. ASSUME NEW i \in Unchecked, i # Head(pending) PROVE i \in Unchecked'
  BY <1>1, <1>2, <1>5 DEF Unchecked
<1>6. ASSUME NEW i \in Unchecked' PROVE i \in Unchecked /\ i # Head(pending)
  <2>1. PICK k \in DOMAIN pending' : i = pending'[k]
    BY <1>6 DEF Unchecked
  <2>2. k + 1 \in DOMAIN pending /\ k + 1 # 1 /\ i = pending[k + 1]
    BY <1>3, <2>1
  <2> QED
    BY <1>1, <1>2, <2>2 DEF Unchecked
<1>7. PendingOnce'
  <2> SUFFICES ASSUME NEW k \in DOMAIN pending', NEW l \in DOMAIN pending',
                      pending'[k] = pending'[l]
               PROVE  k = l
    BY DEF PendingOnce
  <2>1. k + 1 = l + 1
    BY <1>3 DEF PendingOnce
  <2> QED
    BY <1>1, <2>1
<1> QED
  BY <1>4, <1>5, <1>6, <1>7

(***************************************************************************)
(* Resolution.                                                             *)
(***************************************************************************)

\* The block's functions and variables.
LEMMA BlockFacts ==
  ASSUME NEW d \in BlockDeclaration
  PROVE  /\ d \in Declaration /\ d.level = "block"
         /\ d.kind = "fun" => d.storageClass # "static" /\ ~d.defines
         /\ d.kind = "var" => d.storageClass = "extern"
BY DEF BlockDeclaration

\* A name without an entry has been met as a variable that is to be checked,
\* and has the linkage of any of its declarations.
LEMMA NotEnteredFacts ==
  ASSUME LinkageInv, NEW n \in Name, n \notin DOMAIN symbolTable, NEW i \in OfName(n)
  PROVE  /\ Settled(n) = {}
         /\ i \in Unchecked /\ met[i].kind = "var"
         /\ GlobalName(n) = (met[i].storageClass # "static")
<1> USE DEF LinkageInv
<1>1. \A j \in OfName(n) : j \in DOMAIN met /\ j \in Unchecked /\ met[j].kind = "var"
  BY DEF OfName, NotEntered
<1>2. PICK f \in DOMAIN met : IsFirst(f, n)
  BY <1>1 DEF FirstExists
<1>3. f = First(n) /\ f \in OfName(n)
  BY <1>2, FirstIs DEF TypeOK, IsFirst
<1>4. met \in Seq(Declaration) /\ \A j \in DOMAIN met : met[j] \in Declaration
  BY DEF TypeOK
<1>5. \A j \in OfName(n) : met[j].level = "block" => met[j].storageClass # "static"
  BY <1>1, BlockFacts DEF InBlocks
<1>6. ASSUME NEW j \in OfName(n), met[j].level = "file" PROVE OfName(n) = {j}
  <2>1. pending = <<Len(met)>>
    BY <1>1, <1>6 DEF FileVariableAlone
  <2>2. Unchecked = {Len(met)}
    BY <2>1 DEF Unchecked
  <2> QED
    BY <1>1, <2>2
<1>7. CASE \A j \in OfName(n) : met[j].level = "block"
  BY <1>1, <1>3, <1>5, <1>7 DEF GlobalName, Settled
<1>8. CASE \E j \in OfName(n) : met[j].level # "block"
  <2>1. PICK j \in OfName(n) : met[j].level = "file"
    BY <1>1, <1>4, <1>8, DeclarationFacts
  <2>2. i = j /\ f = j
    BY <1>3, <1>6, <2>1
  <2> QED
    BY <1>1, <1>3, <2>2 DEF GlobalName, Settled
<1> QED
  BY <1>7, <1>8

\* Resolving a declaration: it is still to be checked, unless it is a
\* prototype in a switch.
LEMMA ResolveKeeps ==
  ASSUME LinkageInv, NEW d \in Declaration,
         symbolTable' = EnterFunction(d), met' = Append(met, d),
         d.level = "file" => Unchecked = {},
         d.level = "block" => d \in BlockDeclaration /\ phase = "resolving",
         \/ Unchecked' = Unchecked \cup {Len(met) + 1}
         \/ /\ Unchecked' = Unchecked
            /\ d.level = "block" /\ d.kind = "fun" /\ ~Contains(d.name)
  PROVE  InBlocks' /\ FirstExists' /\ NotEntered' /\ EntryFounded' /\ SettledAgree'
<1> DEFINE new == Len(met) + 1
<1>1. /\ met \in Seq(Declaration) /\ TableType /\ FirstExists
      /\ Unchecked \subseteq DOMAIN met
  BY DEF LinkageInv, TypeOK, TableType, Unchecked
<1>2. /\ d.name \in Name /\ d.kind \in {"fun", "var"} /\ d.level \in {"file", "block"}
      /\ DOMAIN symbolTable \subseteq Name
  BY <1>1, DeclarationFacts, TableFacts
<1>3. /\ new \notin DOMAIN met /\ DOMAIN met' = DOMAIN met \cup {new}
      /\ \A i \in DOMAIN met : met'[i] = met[i]
      /\ met'[new] = d
      /\ \A n : OfName(n)' = OfName(n) \cup (IF n = d.name THEN {new} ELSE {})
      /\ \A n : OfName(n) \subseteq DOMAIN met
  BY <1>1, MeetFacts DEF OfName
<1>4. /\ DOMAIN symbolTable \subseteq DOMAIN symbolTable'
      /\ DOMAIN symbolTable' \subseteq DOMAIN symbolTable \cup {d.name}
      /\ \A m \in DOMAIN symbolTable : symbolTable'[m] = symbolTable[m]
      /\ d.kind = "fun" => d.name \in DOMAIN symbolTable'
  BY <1>1, EnterFacts
<1>5. ASSUME d.name \in DOMAIN symbolTable' \ DOMAIN symbolTable
      PROVE  /\ d.kind = "fun" /\ SameEntry(d)'
             /\ symbolTable'[d.name].global = (d.storageClass # "static")
             /\ symbolTable'[d.name].isDefined = FALSE
             /\ symbolTable'[d.name].kind = "fun"
  BY <1>1, <1>5, EnterFacts DEF SameEntry
<1>6. \A n : n # d.name => Settled(n)' = Settled(n)
  BY <1>1, <1>3 DEF Settled
<1>7. /\ Settled(d.name) \subseteq Settled(d.name)'
      /\ Settled(d.name)' \subseteq Settled(d.name) \cup {new}
      /\ new \in Settled(d.name)' =>
           d \in BlockDeclaration /\ d.kind = "fun" /\ d.name \notin DOMAIN symbolTable
  BY <1>1, <1>3 DEF Settled, Contains
<1>8. InBlocks'
  BY <1>3 DEF LinkageInv, InBlocks
<1>9. NotEntered'
  <2> SUFFICES ASSUME NEW i \in DOMAIN met', met'[i].name \notin DOMAIN symbolTable'
               PROVE  i \in Unchecked' /\ met'[i].kind = "var"
    BY DEF NotEntered
  <2>1. CASE i \in DOMAIN met
    BY <1>3, <1>4, <2>1 DEF LinkageInv, NotEntered
  <2>2. CASE i = new
    BY <1>2, <1>3, <1>4, <2>2
  <2> QED
    BY <1>3, <2>1, <2>2
<1>10. FirstExists' /\ \A n \in Name : OfName(n) # {} => GlobalName(n)' = GlobalName(n)
  BY <1>1, FirstKept
<1>11. ASSUME d.name \in DOMAIN symbolTable' \ DOMAIN symbolTable
       PROVE  GlobalName(d.name)' = (d.storageClass # "static") /\ Settled(d.name) = {}
  <2>1. CASE OfName(d.name) = {}
    BY <1>1, <2>1, FirstKept DEF Settled
  <2>2. CASE OfName(d.name) # {}
    <3>1. PICK i \in OfName(d.name) : TRUE
      BY <2>2
    <3>2. /\ Settled(d.name) = {} /\ i \in Unchecked /\ met[i].kind = "var"
          /\ GlobalName(d.name) = (met[i].storageClass # "static")
      BY <1>2, <1>11, <3>1, NotEnteredFacts
    <3>3. d \in BlockDeclaration /\ phase = "resolving"
      BY <1>2, <3>2
    <3>4. met[i].level # "file"
      BY <3>2, <3>3 DEF LinkageInv, FileVariableAlone
    <3>5. met[i] \in Declaration /\ i \in DOMAIN met
      BY <1>1, <1>3, <3>1
    <3>6. met[i].storageClass # "static"
      BY <3>2, <3>4, <3>5, DeclarationFacts, BlockFacts DEF LinkageInv, InBlocks
    <3> QED
      BY <1>2, <1>5, <1>10, <1>11, <2>2, <3>2, <3>3, <3>6, BlockFacts
  <2> QED
    BY <2>1, <2>2
<1>12. EntryFounded'
  <2> SUFFICES ASSUME NEW n \in DOMAIN symbolTable'
               PROVE  (/\ \E i \in OfName(n) : SameEntry(met[i])
                       /\ symbolTable[n].global = GlobalName(n)
                       /\ Defined(n) => \E i \in Settled(n) : met[i].defines
                       /\ symbolTable[n].kind = "var" /\ symbolTable[n].initValue # "none" =>
                            \E i \in OfName(n) :
                              met[i].defines \/ met[i].storageClass # "extern")'
    BY DEF EntryFounded
  <2>1. CASE n \in DOMAIN symbolTable
    <3>1. /\ \E i \in OfName(n) : SameEntry(met[i])
          /\ symbolTable[n].global = GlobalName(n)
          /\ Defined(n) => \E i \in Settled(n) : met[i].defines
          /\ symbolTable[n].kind = "var" /\ symbolTable[n].initValue # "none" =>
               \E i \in OfName(n) : met[i].defines \/ met[i].storageClass # "extern"
      BY <2>1 DEF LinkageInv, EntryFounded
    <3>2. symbolTable'[n] = symbolTable[n] /\ Defined(n)' = Defined(n)
      BY <1>4, <2>1 DEF Defined
    <3>3. GlobalName(n)' = GlobalName(n)
      BY <1>2, <1>10, <2>1, <3>1
    <3>4. Settled(n) \subseteq Settled(n)' /\ OfName(n) \subseteq OfName(n)'
          /\ Settled(n) \subseteq DOMAIN met
      BY <1>3, <1>6, <1>7 DEF Settled
    <3>5. \A i \in OfName(n) : SameEntry(met[i]) => SameEntry(met[i])'
      BY <1>3, <2>1, <3>2 DEF SameEntry, OfName
    <3> QED
      BY <1>3, <3>1, <3>2, <3>3, <3>4, <3>5
  <2>2. CASE n \notin DOMAIN symbolTable
    <3>1. n = d.name /\ n \in DOMAIN symbolTable' \ DOMAIN symbolTable
      BY <1>4, <2>2
    <3>2. new \in OfName(n)' /\ met'[new] = d
      BY <1>3, <3>1
    <3>3. ~Defined(n)' /\ symbolTable'[n].kind # "var"
      BY <1>5, <3>1 DEF Defined
    <3> QED
      BY <1>5, <1>11, <3>1, <3>2, <3>3 DEF SameEntry
  <2> QED
    BY <2>1, <2>2
<1>13. SettledAgree'
  <2> SUFFICES ASSUME NEW n \in DOMAIN symbolTable', NEW i \in Settled(n)'
               PROVE  (/\ SameEntry(met[i])
                       /\ OwnLinkage(met[i]) =>
                            symbolTable[n].global = (met[i].storageClass # "static")
                       /\ met[i].defines => met[i].level = "file" /\ Defined(n)
                       /\ \A j \in Settled(n) : met[i].defines /\ met[j].defines => i = j)'
    BY DEF SettledAgree
  <2>1. CASE n \in DOMAIN symbolTable
    <3>1. Settled(n)' = Settled(n) /\ Settled(n) \subseteq OfName(n)
      BY <1>6, <1>7, <2>1 DEF Settled
    <3>2. \A k \in Settled(n) : k \in DOMAIN met /\ met'[k] = met[k] /\ met[k].name = n
      BY <1>3, <3>1 DEF OfName
    <3>3. symbolTable'[n] = symbolTable[n] /\ Defined(n)' = Defined(n)
      BY <1>4, <2>1 DEF Defined
    <3>4. /\ SameEntry(met[i])
          /\ OwnLinkage(met[i]) => symbolTable[n].global = (met[i].storageClass # "static")
          /\ met[i].defines => met[i].level = "file" /\ Defined(n)
          /\ \A j \in Settled(n) : met[i].defines /\ met[j].defines => i = j
      BY <2>1, <3>1 DEF LinkageInv, SettledAgree
    <3> QED
      BY <3>1, <3>2, <3>3, <3>4 DEF SameEntry, OwnLinkage
  <2>2. CASE n \notin DOMAIN symbolTable
    <3>1. n = d.name /\ n \in DOMAIN symbolTable' \ DOMAIN symbolTable
      BY <1>4, <2>2
    <3>2. Settled(n)' \subseteq {new}
      BY <1>7, <1>11, <3>1
    <3>3. i = new /\ d \in BlockDeclaration /\ d.kind = "fun"
      BY <1>7, <3>1, <3>2
    <3>4. d.storageClass # "static" /\ ~d.defines
      BY <3>3, BlockFacts
    <3> QED
      BY <1>3, <1>5, <3>1, <3>2, <3>3, <3>4 DEF SameEntry, OwnLinkage
  <2> QED
    BY <2>1, <2>2
<1> QED
  BY <1>8, <1>9, <1>10, <1>12, <1>13

(***************************************************************************)
(* Type checking.                                                          *)
(***************************************************************************)

\* Whether an entry has a body or an initializer.
HasDefinition(e) == IF e.kind = "fun" THEN e.isDefined ELSE e.initValue = "value"

\* The entry e sums up d and the entry before it.
Sums(d, e) ==
  /\ e.kind = d.kind /\ e.type = d.type
  /\ Contains(d.name) => SameEntry(d) /\ e.global = symbolTable[d.name].global
  /\ ~Contains(d.name) => e.global = (d.storageClass # "static")
  /\ OwnLinkage(d) => e.global = (d.storageClass # "static")
  /\ d.defines => d.level = "file" /\ ~(Contains(d.name) /\ Defined(d.name))
  /\ HasDefinition(e) <=> d.defines \/ (Contains(d.name) /\ Defined(d.name))
  /\ e.kind = "var" /\ e.initValue # "none" =>
       \/ d.defines \/ d.storageClass # "extern"
       \/ Contains(d.name) /\ symbolTable[d.name].initValue # "none"

\* Accepting the declaration at the head of the list, with the entry e for it.
LEMMA AcceptKeeps ==
  ASSUME LinkageInv, pending # <<>>, NEW d, d = met[Head(pending)], NEW e,
         met' = met, pending' = Tail(pending),
         DOMAIN symbolTable' = DOMAIN symbolTable \cup {d.name},
         symbolTable'[d.name] = e,
         \A m \in DOMAIN symbolTable : m # d.name => symbolTable'[m] = symbolTable[m],
         Sums(d, e)
  PROVE  InBlocks' /\ FirstExists' /\ NotEntered' /\ EntryFounded' /\ SettledAgree'
<1>s. /\ e.kind = d.kind /\ e.type = d.type
      /\ Contains(d.name) => SameEntry(d) /\ e.global = symbolTable[d.name].global
      /\ ~Contains(d.name) => e.global = (d.storageClass # "static")
      /\ OwnLinkage(d) => e.global = (d.storageClass # "static")
      /\ d.defines => d.level = "file" /\ ~(Contains(d.name) /\ Defined(d.name))
      /\ HasDefinition(e) <=> d.defines \/ (Contains(d.name) /\ Defined(d.name))
      /\ e.kind = "var" /\ e.initValue # "none" =>
           \/ d.defines \/ d.storageClass # "extern"
           \/ Contains(d.name) /\ symbolTable[d.name].initValue # "none"
  BY DEF Sums
<1> USE <1>s
<1>0. PICK i : i = Head(pending)
  OBVIOUS
<1>1. /\ met \in Seq(Declaration) /\ pending \in Seq(DOMAIN met) /\ PendingOnce
      /\ DOMAIN symbolTable \subseteq Name
  BY TableFacts DEF LinkageInv, TypeOK, TableType
<1>2. /\ i \in Unchecked /\ Unchecked \subseteq DOMAIN met
      /\ Unchecked' = Unchecked \ {i}
  BY <1>0, <1>1, TailUnchecked
<1>3. i \in DOMAIN met /\ d = met[i] /\ d \in Declaration /\ d.name \in Name
  BY <1>0, <1>1, <1>2, DeclarationFacts
<1>4. \A n : OfName(n)' = OfName(n) /\ First(n)' = First(n) /\ GlobalName(n)' = GlobalName(n)
  BY DEF OfName, First, GlobalName
<1>5. InBlocks' /\ FirstExists'
  BY <1>4 DEF LinkageInv, InBlocks, FirstExists, IsFirst
<1>6. i \in OfName(d.name) /\ i \notin Settled(d.name)
  BY <1>2, <1>3 DEF OfName, Settled
<1>7. /\ \A n : n # d.name => Settled(n)' = Settled(n)
      /\ Settled(d.name)' = Settled(d.name) \cup {i}
  BY <1>2, <1>3, <1>4, <1>6 DEF Settled, OfName
<1>8. NotEntered'
  <2> SUFFICES ASSUME NEW j \in DOMAIN met, met[j].name \notin DOMAIN symbolTable'
               PROVE  j \in Unchecked' /\ met[j].kind = "var"
    BY DEF NotEntered
  <2>1. met[j].name # d.name /\ met[j].name \notin DOMAIN symbolTable
    OBVIOUS
  <2> QED
    BY <1>2, <1>3, <2>1 DEF LinkageInv, NotEntered
<1>9. ASSUME ~Contains(d.name)
      PROVE  Settled(d.name) = {} /\ GlobalName(d.name) = e.global
  BY <1>3, <1>6, <1>9, NotEnteredFacts DEF Contains
<1>10. EntryFounded'
  <2> SUFFICES ASSUME NEW n \in DOMAIN symbolTable'
               PROVE  (/\ \E j \in OfName(n) : SameEntry(met[j])
                       /\ symbolTable[n].global = GlobalName(n)
                       /\ Defined(n) => \E j \in Settled(n) : met[j].defines
                       /\ symbolTable[n].kind = "var" /\ symbolTable[n].initValue # "none" =>
                            \E j \in OfName(n) :
                              met[j].defines \/ met[j].storageClass # "extern")'
    BY DEF EntryFounded
  <2>1. n \in DOMAIN symbolTable =>
          /\ \E j \in OfName(n) : SameEntry(met[j])
          /\ symbolTable[n].global = GlobalName(n)
          /\ Defined(n) => \E j \in Settled(n) : met[j].defines
          /\ symbolTable[n].kind = "var" /\ symbolTable[n].initValue # "none" =>
               \E j \in OfName(n) : met[j].defines \/ met[j].storageClass # "extern"
    BY DEF LinkageInv, EntryFounded
  <2>2. CASE n # d.name
    <3>1. n \in DOMAIN symbolTable /\ symbolTable'[n] = symbolTable[n]
      BY <2>2
    <3>2. \A j \in OfName(n) : met[j].name = n
      BY DEF OfName
    <3> QED
      BY <1>4, <1>7, <2>1, <2>2, <3>1, <3>2 DEF SameEntry, Defined
  <2>3. CASE n = d.name
    <3>1. i \in OfName(n)' /\ SameEntry(met[i])'
      BY <1>3, <1>4, <1>6, <2>3 DEF SameEntry
    <3>2. symbolTable'[n].global = GlobalName(n)'
      BY <1>4, <1>9, <2>1, <2>3 DEF Contains
    <3>3. Defined(n)' => \E j \in Settled(n)' : met'[j].defines
      BY <1>3, <1>7, <2>1, <2>3 DEF Contains, Defined, HasDefinition
    <3>4. symbolTable'[n].kind = "var" /\ symbolTable'[n].initValue # "none" =>
            \E j \in OfName(n)' : met'[j].defines \/ met'[j].storageClass # "extern"
      BY <1>3, <1>4, <1>6, <2>1, <2>3 DEF Contains, SameEntry
    <3> QED
      BY <3>1, <3>2, <3>3, <3>4
  <2> QED
    BY <2>2, <2>3
<1>11. SettledAgree'
  <2> SUFFICES ASSUME NEW n \in DOMAIN symbolTable', NEW j \in Settled(n)'
               PROVE  (/\ SameEntry(met[j])
                       /\ OwnLinkage(met[j]) =>
                            symbolTable[n].global = (met[j].storageClass # "static")
                       /\ met[j].defines => met[j].level = "file" /\ Defined(n)
                       /\ \A k \in Settled(n) : met[j].defines /\ met[k].defines => j = k)'
    BY DEF SettledAgree
  <2>1. ASSUME n \in DOMAIN symbolTable, NEW k \in Settled(n)
        PROVE  /\ SameEntry(met[k])
               /\ OwnLinkage(met[k]) => symbolTable[n].global = (met[k].storageClass # "static")
               /\ met[k].defines => met[k].level = "file" /\ Defined(n)
               /\ \A l \in Settled(n) : met[k].defines /\ met[l].defines => k = l
               /\ met[k].name = n
    BY <2>1 DEF LinkageInv, SettledAgree, Settled, OfName
  <2>2. CASE n # d.name
    <3>1. n \in DOMAIN symbolTable /\ symbolTable'[n] = symbolTable[n] /\ Settled(n)' = Settled(n)
      BY <1>7, <2>2
    <3> QED
      BY <2>1, <3>1 DEF SameEntry, OwnLinkage, Defined
  <2>3. CASE n = d.name
    <3>1. CASE j = i
      <4>1. SameEntry(met[j])' /\ Defined(n)' = HasDefinition(e)
        BY <1>3, <2>3, <3>1 DEF SameEntry, Defined, HasDefinition
      <4>2. d.defines => \A k \in Settled(n) : ~met[k].defines
        BY <1>9, <2>1, <2>3 DEF Contains
      <4> QED
        BY <1>3, <1>7, <2>3, <3>1, <4>1, <4>2 DEF OwnLinkage
    <3>2. CASE j # i
      <4>1. j \in Settled(n) /\ Contains(n)
        BY <1>7, <1>9, <2>3, <3>2
      <4>2. /\ SameEntry(met[j])
            /\ OwnLinkage(met[j]) => symbolTable[n].global = (met[j].storageClass # "static")
            /\ met[j].defines => met[j].level = "file" /\ Defined(n)
            /\ \A l \in Settled(n) : met[j].defines /\ met[l].defines => j = l
            /\ met[j].name = n
        BY <2>1, <4>1 DEF Contains
      <4>3. SameEntry(met[j])' /\ Defined(n)' = HasDefinition(e)
        BY <2>3, <4>1, <4>2 DEF SameEntry, Defined, HasDefinition
      <4>4. met[j].defines => ~d.defines
        BY <2>3, <4>1, <4>2
      <4> QED
        BY <1>3, <1>7, <2>3, <4>1, <4>2, <4>3, <4>4 DEF OwnLinkage
    <3> QED
      BY <3>1, <3>2
  <2> QED
    BY <2>2, <2>3
<1> QED
  BY <1>5, <1>8, <1>10, <1>11

\* The rest of the invariant when a declaration is accepted.
LEMMA AcceptRest ==
  ASSUME LinkageInv, phase = "checking", pending # <<>>, NEW table,
         table \in UNION {[D -> Entry] : D \in SUBSET Name}, Accept(table)
  PROVE  TypeOK' /\ PendingOnce' /\ FileVariableAlone' /\ RefusedDisagree'
<1>1. /\ symbolTable' = table /\ pending' = Tail(pending)
      /\ phase' = IF Len(pending) = 1 THEN "idle" ELSE "checking"
      /\ met' = met /\ refusal' = refusal
  BY DEF Accept
<1>2. met \in Seq(Declaration) /\ pending \in Seq(DOMAIN met) /\ PendingOnce
  BY DEF LinkageInv, TypeOK
<1>3. Unchecked' = Unchecked \ {Head(pending)} /\ PendingOnce' /\ Head(pending) \in Unchecked
  BY <1>1, <1>2, TailUnchecked
<1>4. pending' \in Seq(DOMAIN met') /\ ((phase' = "idle") = (pending' = <<>>))
  <2>1. /\ Len(pending) \in Nat \ {0} /\ Len(pending') = Len(pending) - 1
        /\ pending' \in Seq(DOMAIN met)
    <3>1. PICK S, p : S = DOMAIN met /\ p = pending
      OBVIOUS
    <3>2. p \in Seq(S) /\ p # <<>>
      BY <1>2, <3>1
    <3>3. Len(p) \in Nat \ {0} /\ Len(Tail(p)) = Len(p) - 1 /\ Tail(p) \in Seq(S)
      BY <3>2
    <3> QED BY <1>1, <3>1, <3>3
  <2>2. pending' = <<>> <=> Len(pending') = 0
    <3>1. PICK S, p : S = DOMAIN met /\ p = pending'
      OBVIOUS
    <3>2. p \in Seq(S)
      BY <2>1, <3>1
    <3>3. p = <<>> <=> Len(p) = 0
      BY <3>2
    <3> QED BY <3>1, <3>3
  <2> QED
    BY <1>1, <2>1, <2>2, SMTT(30)
<1>5. TypeOK'
  BY <1>1, <1>4 DEF LinkageInv, TypeOK
<1>6. FileVariableAlone'
  <2> SUFFICES ASSUME NEW i \in Unchecked', met[i].level = "file", met[i].kind = "var"
               PROVE  FALSE
    BY <1>1 DEF FileVariableAlone
  <2>1. i \in Unchecked /\ i # Head(pending)
    BY <1>3
  <2>2. pending = <<Len(met)>>
    BY <2>1 DEF LinkageInv, FileVariableAlone
  <2>3. Unchecked = {Head(pending)}
    BY <2>2 DEF Unchecked
  <2> QED
    BY <2>1, <2>3
<1>7. RefusedDisagree'
  BY <1>1 DEF RefusedDisagree
<1> QED
  BY <1>3, <1>5, <1>6, <1>7

\* Accepting the declaration at the head of the list with a new entry for it.
LEMMA InsertKeeps ==
  ASSUME LinkageInv, phase = "checking", pending # <<>>, NEW d, d = met[Head(pending)],
         NEW e \in Entry, Accept(symbolTableInsert(d.name, e)),
         Sums(d, e)
  PROVE  LinkageInv'
<1>1. /\ symbolTable' = symbolTableInsert(d.name, e) /\ met' = met /\ pending' = Tail(pending)
  BY DEF Accept
<1>0. TableType
  BY DEF LinkageInv, TypeOK, TableType
<1>2. d.name \in Name
  <2>1. /\ met \in Seq(Declaration) /\ pending \in Seq(DOMAIN met) /\ PendingOnce
    BY DEF LinkageInv, TypeOK
  <2>2. Head(pending) \in DOMAIN met
    BY <2>1
  <2> QED
    BY <2>1, <2>2, DeclarationFacts
<1>3. /\ symbolTable' \in UNION {[D -> Entry] : D \in SUBSET Name}
      /\ DOMAIN symbolTable' = DOMAIN symbolTable \cup {d.name}
      /\ symbolTable'[d.name] = e
      /\ \A m \in DOMAIN symbolTable : m # d.name => symbolTable'[m] = symbolTable[m]
  <2>0. PICK n \in Name : n = d.name
    BY <1>2
  <2>1. PICK table : table = symbolTableInsert(n, e)
    OBVIOUS
  <2>2. /\ table \in UNION {[D -> Entry] : D \in SUBSET Name}
        /\ DOMAIN table = DOMAIN symbolTable \cup {n}
        /\ table[n] = e
        /\ \A m \in DOMAIN symbolTable : m # n => table[m] = symbolTable[m]
    BY ONLY <1>0, <2>1, InsertFacts
  <2> QED
    BY <1>1, <2>0, <2>1, <2>2
<1>4. InBlocks' /\ FirstExists' /\ NotEntered' /\ EntryFounded' /\ SettledAgree'
  BY <1>1, <1>3, AcceptKeeps
<1>5. TypeOK' /\ PendingOnce' /\ FileVariableAlone' /\ RefusedDisagree'
  BY <1>1, <1>3, AcceptRest
<1> QED
  BY <1>4, <1>5 DEF LinkageInv

\* A refusal that is right changes nothing else.
LEMMA RefuseKeeps ==
  ASSUME LinkageInv, phase = "checking", NEW d, NEW why,
         Refuse(d, why), Disagreement(d.name, why)
  PROVE  LinkageInv'
<1>1. /\ symbolTable' = symbolTable /\ met' = met /\ pending' = pending
      /\ phase' = "refused" /\ refusal' = <<[name |-> d.name, why |-> why]>>
  BY DEF Refuse
<1>2. /\ \A n : OfName(n)' = OfName(n) /\ GlobalName(n)' = GlobalName(n)
      /\ Unchecked' = Unchecked
  BY <1>1 DEF OfName, GlobalName, First, Unchecked
<1>3. \A n : Settled(n)' = Settled(n) /\ Defined(n)' = Defined(n)
  BY <1>1, <1>2 DEF Settled, Defined
<1>4. TypeOK'
  BY <1>1 DEF LinkageInv, TypeOK
<1>5. Disagreement(d.name, why)'
  BY <1>1, <1>2 DEF Disagreement
<1>6. RefusedDisagree'
  <2>1. refusal'[1].name = d.name /\ refusal'[1].why = why
    BY <1>1
  <2> QED
    BY <1>5, <2>1 DEF RefusedDisagree
<1>7. PendingOnce' /\ InBlocks' /\ FileVariableAlone' /\ FirstExists' /\ NotEntered'
  BY <1>1, <1>2 DEF LinkageInv, PendingOnce, InBlocks, FileVariableAlone, FirstExists,
                    IsFirst, NotEntered
<1>8. EntryFounded' /\ SettledAgree'
  BY <1>1, <1>2, <1>3 DEF LinkageInv, EntryFounded, SettledAgree, SameEntry
<1> QED
  BY <1>4, <1>6, <1>7, <1>8 DEF LinkageInv

\* The declaration at the head of the list.
LEMMA HeadFacts ==
  ASSUME LinkageInv, pending # <<>>, NEW d, d = met[Head(pending)]
  PROVE  /\ d \in Declaration
         /\ d.level = "block" => d \in BlockDeclaration
         /\ TableType
         /\ Contains(d.name) =>
              /\ symbolTable[d.name] \in Entry
              /\ symbolTable[d.name].global = GlobalName(d.name)
              /\ \E j \in OfName(d.name) : SameEntry(met[j])
         /\ Contains(d.name) /\ Defined(d.name) /\ d.defines => Disagreement(d.name, "defined")
         /\ Head(pending) \in OfName(d.name)
<1>1. met \in Seq(Declaration) /\ pending \in Seq(DOMAIN met) /\ TableType
  BY DEF LinkageInv, TypeOK, TableType
<1>2. PICK i : i = Head(pending)
  OBVIOUS
<1>3. i \in DOMAIN met /\ i \in Unchecked /\ d = met[i]
  BY <1>1, <1>2 DEF Unchecked
<1>4. i \in OfName(d.name) /\ i \notin Settled(d.name)
  BY <1>3 DEF OfName, Settled
<1>5. ASSUME Contains(d.name), Defined(d.name), d.defines
      PROVE  Disagreement(d.name, "defined")
  <2>1. PICK j \in Settled(d.name) : met[j].defines
    BY <1>5 DEF LinkageInv, EntryFounded, Contains
  <2> QED
    BY <1>3, <1>4, <1>5, <2>1 DEF Disagreement, Settled
<1> QED
  BY <1>1, <1>2, <1>3, <1>4, <1>5, TableFacts DEF LinkageInv, InBlocks, EntryFounded, Contains

\* An entry of another kind or type comes from a declaration that differs.
LEMMA TypeDisagrees ==
  ASSUME LinkageInv, pending # <<>>, NEW d, d = met[Head(pending)], OtherType(d)
  PROVE  Disagreement(d.name, "type")
<1>1. Contains(d.name) /\ (symbolTable[d.name].kind # d.kind \/ symbolTable[d.name].type # d.type)
  BY DEF OtherType
<1>2. PICK j \in OfName(d.name) : SameEntry(met[j])
  BY <1>1, HeadFacts
<1>3. met[j].name = d.name
  BY DEF OfName
<1>4. Head(pending) \in OfName(d.name)
  BY HeadFacts
<1> QED
  BY <1>1, <1>2, <1>3, <1>4 DEF Disagreement, SameEntry

(***************************************************************************)
(* The actions.                                                            *)
(***************************************************************************)

\* A top-level declaration is resolved.
LEMMA TopLevelKeeps ==
  ASSUME LinkageInv, NEW d \in FileDeclaration, resolveTopLevel(d)
  PROVE  LinkageInv'
<1>1. /\ phase = "idle" /\ Len(met) < MaxDecls
      /\ symbolTable' = EnterFunction(d)
      /\ phase' = IF d.kind = "fun" /\ d.defines THEN "resolving" ELSE "checking"
      /\ pending' = <<Len(met) + 1>> /\ met' = Append(met, d) /\ refusal' = refusal
  BY DEF resolveTopLevel
<1>2. d \in Declaration /\ d.level = "file"
  BY DEF FileDeclaration
<1>3. /\ met \in Seq(Declaration) /\ TableType /\ pending = <<>> /\ refusal = <<>>
  BY <1>1 DEF LinkageInv, TypeOK, TableType
<1>4. Unchecked = {}
  BY <1>3 DEF Unchecked
<1>5. Unchecked' = {Len(met) + 1} /\ PendingOnce'
  <2>1. PICK x : x = Len(met) + 1
    OBVIOUS
  <2> QED
    BY <1>1, <2>1, OneUnchecked
<1>6. /\ met' \in Seq(Declaration) /\ Len(met') = Len(met) + 1
      /\ DOMAIN met' = DOMAIN met \cup {Len(met) + 1} /\ met'[Len(met) + 1] = d
  BY <1>1, <1>2, <1>3, MeetFacts
<1>7. InBlocks' /\ FirstExists' /\ NotEntered' /\ EntryFounded' /\ SettledAgree'
  BY <1>1, <1>2, <1>4, <1>5, ResolveKeeps
<1>8. TypeOK'
  <2>1. symbolTable' \in UNION {[D -> Entry] : D \in SUBSET Name}
    BY <1>1, <1>2, <1>3, EnterFacts
  <2>2. pending' \in Seq(DOMAIN met') /\ pending' # <<>>
    BY <1>1, <1>6
  <2>3. Len(met') <= MaxDecls
    BY <1>1, <1>3, <1>6, BoundAssumption
  <2> QED
    BY <1>1, <1>3, <1>6, <2>1, <2>2, <2>3 DEF TypeOK
<1>9. FileVariableAlone'
  BY <1>1, <1>5, <1>6 DEF FileVariableAlone
<1>10. RefusedDisagree'
  BY <1>1 DEF RefusedDisagree
<1> QED
  BY <1>5, <1>7, <1>8, <1>9, <1>10 DEF LinkageInv

\* A declaration in a body is resolved.
LEMMA BlockItemKeeps ==
  ASSUME LinkageInv, NEW d \in BlockDeclaration, resolveBlockItem(d)
  PROVE  LinkageInv'
<1>1. /\ phase = "resolving" /\ Len(met) < MaxDecls
      /\ symbolTable' = EnterFunction(d)
      /\ pending' = Append(pending, Len(met) + 1) /\ met' = Append(met, d)
      /\ phase' = phase /\ refusal' = refusal
  BY DEF resolveBlockItem
<1>2. d \in Declaration /\ d.level = "block"
  BY BlockFacts
<1>3. /\ met \in Seq(Declaration) /\ TableType /\ pending \in Seq(DOMAIN met) /\ PendingOnce
      /\ refusal = <<>>
  BY <1>1 DEF LinkageInv, TypeOK, TableType
<1>4. /\ met' \in Seq(Declaration) /\ Len(met') = Len(met) + 1 /\ Len(met) + 1 \notin DOMAIN met
      /\ DOMAIN met' = DOMAIN met \cup {Len(met) + 1} /\ met'[Len(met) + 1] = d
      /\ \A i \in DOMAIN met : met'[i] = met[i]
  BY <1>1, <1>2, <1>3, MeetFacts
<1>5. Unchecked' = Unchecked \cup {Len(met) + 1} /\ PendingOnce' /\ Unchecked \subseteq DOMAIN met
  <2>1. PICK x : x = Len(met) + 1
    OBVIOUS
  <2>2. PICK S : S = DOMAIN met
    OBVIOUS
  <2>3. Unchecked' = Unchecked \cup {x} /\ PendingOnce' /\ Unchecked \subseteq S
    BY <1>1, <1>3, <1>4, <2>1, <2>2, AppendUnchecked
  <2> QED
    BY <2>1, <2>2, <2>3
<1>6. InBlocks' /\ FirstExists' /\ NotEntered' /\ EntryFounded' /\ SettledAgree'
  BY <1>1, <1>2, <1>5, ResolveKeeps
<1>7. TypeOK'
  <2>1. symbolTable' \in UNION {[D -> Entry] : D \in SUBSET Name}
    BY <1>1, <1>2, <1>3, EnterFacts
  <2>2. pending' \in Seq(DOMAIN met') /\ pending' # <<>>
    BY <1>1, <1>3, <1>4
  <2>3. Len(met') <= MaxDecls
    BY <1>1, <1>3, <1>4, BoundAssumption
  <2> QED
    BY <1>1, <1>3, <1>4, <2>1, <2>2, <2>3 DEF TypeOK
<1>8. FileVariableAlone'
  <2> SUFFICES ASSUME NEW i \in Unchecked', met'[i].level = "file", met'[i].kind = "var"
               PROVE  FALSE
    BY DEF FileVariableAlone
  <2>1. i \in Unchecked /\ i \in DOMAIN met
    BY <1>2, <1>4, <1>5
  <2> QED
    BY <1>1, <1>4, <2>1 DEF LinkageInv, FileVariableAlone
<1>9. RefusedDisagree'
  BY <1>1 DEF RefusedDisagree
<1> QED
  BY <1>5, <1>6, <1>7, <1>8, <1>9 DEF LinkageInv

\* A prototype in a switch is resolved.
LEMMA InSwitchKeeps ==
  ASSUME LinkageInv, NEW d \in BlockDeclaration, resolveInSwitch(d)
  PROVE  LinkageInv'
<1>1. /\ phase = "resolving" /\ Len(met) < MaxDecls
      /\ d.kind = "fun" /\ ~Contains(d.name)
      /\ symbolTable' = EnterFunction(d) /\ met' = Append(met, d)
      /\ phase' = phase /\ pending' = pending /\ refusal' = refusal
  BY DEF resolveInSwitch
<1>2. d \in Declaration /\ d.level = "block"
  BY BlockFacts
<1>3. /\ met \in Seq(Declaration) /\ TableType /\ pending \in Seq(DOMAIN met) /\ PendingOnce
      /\ refusal = <<>> /\ pending # <<>>
  BY <1>1 DEF LinkageInv, TypeOK, TableType
<1>4. /\ met' \in Seq(Declaration) /\ Len(met') = Len(met) + 1
      /\ DOMAIN met' = DOMAIN met \cup {Len(met) + 1}
      /\ \A i \in DOMAIN met : met'[i] = met[i]
  BY <1>1, <1>2, <1>3, MeetFacts
<1>5. Unchecked' = Unchecked /\ PendingOnce' /\ Unchecked \subseteq DOMAIN met
  BY <1>1, <1>3 DEF Unchecked, PendingOnce
<1>6. InBlocks' /\ FirstExists' /\ NotEntered' /\ EntryFounded' /\ SettledAgree'
  BY <1>1, <1>2, <1>5, ResolveKeeps
<1>7. TypeOK'
  <2>1. symbolTable' \in UNION {[D -> Entry] : D \in SUBSET Name}
    BY <1>1, <1>2, <1>3, EnterFacts
  <2>2. pending' \in Seq(DOMAIN met') /\ pending' # <<>>
    BY <1>1, <1>3, <1>4
  <2>3. Len(met') <= MaxDecls
    BY <1>1, <1>3, <1>4, BoundAssumption
  <2> QED
    BY <1>1, <1>3, <1>4, <2>1, <2>2, <2>3 DEF TypeOK
<1>8. FileVariableAlone'
  BY <1>1, <1>4, <1>5 DEF LinkageInv, FileVariableAlone
<1>9. RefusedDisagree'
  BY <1>1 DEF RefusedDisagree
<1> QED
  BY <1>5, <1>6, <1>7, <1>8, <1>9 DEF LinkageInv

\* Nothing but the phase changes, and the program is not refused.
LEMMA OnlyPhase ==
  ASSUME LinkageInv, symbolTable' = symbolTable, met' = met, pending' = pending,
         refusal' = refusal,
         phase' = phase \/ (phase = "resolving" /\ phase' = "checking")
  PROVE  LinkageInv'
<1>1. /\ \A n : OfName(n)' = OfName(n) /\ GlobalName(n)' = GlobalName(n)
      /\ Unchecked' = Unchecked
  BY DEF OfName, GlobalName, First, Unchecked
<1>2. \A n : Settled(n)' = Settled(n) /\ Defined(n)' = Defined(n)
  BY <1>1 DEF Settled, Defined
<1>3. TypeOK'
  BY DEF LinkageInv, TypeOK
<1>4. PendingOnce' /\ InBlocks' /\ FirstExists' /\ NotEntered'
  BY <1>1 DEF LinkageInv, PendingOnce, InBlocks, FirstExists, IsFirst, NotEntered
<1>5. FileVariableAlone'
  BY <1>1 DEF LinkageInv, FileVariableAlone
<1>6. EntryFounded' /\ SettledAgree'
  BY <1>1, <1>2 DEF LinkageInv, EntryFounded, SettledAgree, SameEntry
<1>7. RefusedDisagree'
  BY <1>1 DEF LinkageInv, RefusedDisagree, Disagreement
<1> QED
  BY <1>3, <1>4, <1>5, <1>6, <1>7 DEF LinkageInv

\* The entry the declaration at the head of the list is compared with.
LEMMA ComparedFacts ==
  ASSUME LinkageInv, pending # <<>>, NEW d, d = met[Head(pending)], ~OtherType(d)
  PROVE  Contains(d.name) =>
           /\ SameEntry(d) /\ symbolTable[d.name] \in Entry
           /\ Defined(d.name) <=> IF d.kind = "fun" THEN symbolTable[d.name].isDefined
                                  ELSE symbolTable[d.name].initValue = "value"
BY HeadFacts DEF OtherType, SameEntry, Defined

\* A file-scope variable is checked.
LEMMA FileVariableKeeps ==
  ASSUME LinkageInv, pending # <<>>, NEW d, d = met[Head(pending)],
         typeCheckFileScopeVariableDeclaration(d)
  PROVE  LinkageInv'
<1>1. phase = "checking" /\ d.kind = "var" /\ d.level = "file"
  BY DEF typeCheckFileScopeVariableDeclaration, Checking
<1>2. d \in Declaration /\ Head(pending) \in OfName(d.name)
  BY HeadFacts
<1>3. d.name \in Name /\ d.type \in Type /\ d.defines \in BOOLEAN /\ d.storageClass \in StorageClass
  BY <1>2, DeclarationFacts
<1>4. CASE OtherType(d) /\ Refuse(d, "type")
  BY <1>1, <1>4, TypeDisagrees, RefuseKeeps
<1>5. CASE ~OtherType(d) /\ OtherLinkage(d) /\ Refuse(d, "linkage")
  <2>1. /\ Contains(d.name) /\ d.storageClass # "extern"
        /\ symbolTable[d.name].global # (d.storageClass # "static")
    BY <1>5 DEF OtherLinkage
  <2>2. symbolTable[d.name].global = GlobalName(d.name)
    BY <2>1, HeadFacts
  <2>3. OwnLinkage(d)
    BY <1>1, <1>3, <2>1 DEF OwnLinkage, StorageClass
  <2>4. Disagreement(d.name, "linkage")
    BY <1>2, <2>1, <2>2, <2>3 DEF Disagreement
  <2> QED
    BY <1>1, <1>5, <2>4, RefuseKeeps
<1>6. CASE ~OtherType(d) /\ Initialized(d.name) /\ d.defines /\ Refuse(d, "defined")
  <2>1. Contains(d.name) /\ Defined(d.name)
    BY <1>1, <1>6, ComparedFacts DEF Initialized
  <2>2. Disagreement(d.name, "defined")
    BY <1>6, <2>1, HeadFacts
  <2> QED
    BY <1>1, <1>6, <2>2, RefuseKeeps
<1>7. CASE /\ ~OtherType(d) /\ ~OtherLinkage(d)
           /\ ~(Initialized(d.name) /\ d.defines)
           /\ Accept(symbolTableInsert(d.name,
                VarEntry(d.type, FileScopeGlobal(d), FileScopeInitValue(d))))
  <2>1. Contains(d.name) =>
          /\ SameEntry(d) /\ symbolTable[d.name] \in Entry
          /\ symbolTable[d.name].kind = "var"
          /\ Defined(d.name) <=> symbolTable[d.name].initValue = "value"
    BY <1>1, <1>7, ComparedFacts DEF SameEntry
  <2>2. FileScopeGlobal(d) \in BOOLEAN /\ FileScopeInitValue(d) \in InitialValue
    BY <2>1, EntryFacts DEF FileScopeGlobal, FileScopeInitValue, OwnInitValue, InitialValue
  <2>3. PICK e : e = VarEntry(d.type, FileScopeGlobal(d), FileScopeInitValue(d))
    OBVIOUS
  <2>4. /\ e \in Entry /\ e.kind = "var" /\ e.type = d.type
        /\ e.global = FileScopeGlobal(d) /\ e.initValue = FileScopeInitValue(d)
    BY <1>3, <2>2, <2>3, VarEntryFacts
  <2>5. Contains(d.name) => e.global = symbolTable[d.name].global
    BY <1>7, <2>4 DEF FileScopeGlobal, OtherLinkage
  <2>6. /\ ~Contains(d.name) => e.global = (d.storageClass # "static")
        /\ OwnLinkage(d) => e.global = (d.storageClass # "static")
    BY <2>4 DEF FileScopeGlobal, OwnLinkage
  <2>7. e.initValue = "value" <=> d.defines \/ (Contains(d.name) /\ Defined(d.name))
    BY <2>1, <2>4 DEF FileScopeInitValue, OwnInitValue, Initialized
  <2>8. d.defines => ~(Contains(d.name) /\ Defined(d.name))
    BY <1>7, <2>1 DEF Initialized
  <2>9. e.initValue # "none" =>
          \/ d.defines \/ d.storageClass # "extern"
          \/ Contains(d.name) /\ symbolTable[d.name].initValue # "none"
    BY <2>4 DEF FileScopeInitValue, OwnInitValue, Initialized
  <2>10. Sums(d, e)
    BY <1>1, <2>1, <2>4, <2>5, <2>6, <2>7, <2>8, <2>9 DEF Sums, HasDefinition
  <2> QED
    BY <1>1, <1>7, <2>3, <2>4, <2>10, InsertKeeps
<1> QED
  BY <1>4, <1>5, <1>6, <1>7 DEF typeCheckFileScopeVariableDeclaration

\* An extern variable in a body is checked.
LEMMA BlockVariableKeeps ==
  ASSUME LinkageInv, pending # <<>>, NEW d, d = met[Head(pending)], handleExternLocalVar(d)
  PROVE  LinkageInv'
<1>1. phase = "checking" /\ d.kind = "var" /\ d.level = "block"
  BY DEF handleExternLocalVar, Checking
<1>2. d \in Declaration /\ Head(pending) \in OfName(d.name) /\ TableType
  BY HeadFacts
<1>3. d.name \in Name /\ d.type \in Type /\ d.storageClass = "extern"
  BY <1>1, <1>2, HeadFacts, DeclarationFacts, BlockFacts
<1>4. CASE d.defines /\ Refuse(d, "initializer")
  <2>1. Disagreement(d.name, "initializer")
    BY <1>1, <1>2, <1>4 DEF Disagreement
  <2> QED
    BY <1>1, <1>4, <2>1, RefuseKeeps
<1>5. CASE OtherType(d) /\ Refuse(d, "type")
  BY <1>1, <1>5, TypeDisagrees, RefuseKeeps
<1>6. CASE ~d.defines /\ ~OtherType(d) /\ Contains(d.name) /\ Accept(symbolTable)
  <2>1. PICK e : e = symbolTable[d.name]
    OBVIOUS
  <2>2. SameEntry(d) /\ (Defined(d.name) <=> e.initValue = "value")
    BY <1>1, <1>6, <2>1, ComparedFacts
  <2>3. e.kind = "var" /\ e.type = d.type
    BY <1>1, <2>1, <2>2 DEF SameEntry
  <2>4. Sums(d, e)
    BY <1>1, <1>3, <1>6, <2>1, <2>2, <2>3 DEF Sums, HasDefinition, OwnLinkage
  <2>5. symbolTable' = symbolTable /\ met' = met /\ pending' = Tail(pending)
    BY <1>6 DEF Accept
  <2>6. DOMAIN symbolTable' = DOMAIN symbolTable \cup {d.name}
    BY <1>6, <2>5 DEF Contains
  <2>7. symbolTable'[d.name] = e
    BY <2>1, <2>5
  <2>8. \A m \in DOMAIN symbolTable : m # d.name => symbolTable'[m] = symbolTable[m]
    BY <2>5
  <2>9. InBlocks' /\ FirstExists' /\ NotEntered' /\ EntryFounded' /\ SettledAgree'
    BY <2>4, <2>5, <2>6, <2>7, <2>8, AcceptKeeps
  <2>10. TypeOK' /\ PendingOnce' /\ FileVariableAlone' /\ RefusedDisagree'
    BY <1>1, <1>2, <1>6, AcceptRest DEF TableType
  <2> QED
    BY <2>9, <2>10 DEF LinkageInv
<1>7. CASE /\ ~d.defines /\ ~Contains(d.name)
           /\ Accept(symbolTableInsert(d.name, VarEntry(d.type, TRUE, "none")))
  <2>1. PICK e : e = VarEntry(d.type, TRUE, "none")
    OBVIOUS
  <2>3. /\ e \in Entry /\ e.kind = "var" /\ e.type = d.type
        /\ e.global = TRUE /\ e.initValue = "none"
    BY <1>3, <2>1 DEF Entry, VarEntry, InitialValue
  <2>4. Sums(d, e)
    BY <1>1, <1>3, <1>7, <2>3 DEF Sums, HasDefinition, OwnLinkage
  <2> QED
    BY <1>1, <1>7, <2>1, <2>3, <2>4, InsertKeeps
<1> QED
  BY <1>4, <1>5, <1>6, <1>7 DEF handleExternLocalVar

\* A function is checked.
LEMMA FunctionKeeps ==
  ASSUME LinkageInv, pending # <<>>, NEW d, d = met[Head(pending)],
         typeCheckFunctionDeclaration(d)
  PROVE  LinkageInv'
<1>1. phase = "checking" /\ d.kind = "fun"
  BY DEF typeCheckFunctionDeclaration, Checking
<1>2. d \in Declaration /\ Head(pending) \in OfName(d.name)
  BY HeadFacts
<1>3. /\ d.name \in Name /\ d.type \in Type /\ d.storageClass \in StorageClass
      /\ d.defines \in BOOLEAN
      /\ d.defines => d.level = "file"
  BY <1>1, <1>2, HeadFacts, DeclarationFacts, BlockFacts
<1>4. CASE OtherType(d) /\ Refuse(d, "type")
  BY <1>1, <1>4, TypeDisagrees, RefuseKeeps
<1>5. CASE /\ ~OtherType(d) /\ Contains(d.name)
           /\ d.storageClass = "static" /\ symbolTable[d.name].global
           /\ Refuse(d, "linkage")
  <2>1. symbolTable[d.name] \in Entry /\ symbolTable[d.name].global = GlobalName(d.name)
    BY <1>5, HeadFacts
  <2>2. GlobalName(d.name) = TRUE
    BY <1>5, <2>1, EntryFacts
  <2>3. Disagreement(d.name, "linkage")
    BY <1>2, <1>5, <2>2 DEF Disagreement, OwnLinkage
  <2> QED
    BY <1>1, <1>5, <2>3, RefuseKeeps
<1>6. CASE ~OtherType(d) /\ Contains(d.name) /\ DefinedTwice(d) /\ Refuse(d, "defined")
  <2>1. d.defines /\ Defined(d.name)
    BY <1>1, <1>6, ComparedFacts DEF DefinedTwice
  <2>2. Disagreement(d.name, "defined")
    BY <1>6, <2>1, HeadFacts
  <2> QED
    BY <1>1, <1>6, <2>2, RefuseKeeps
<1>7. CASE /\ ~OtherType(d)
           /\ Contains(d.name) =>
                /\ ~(d.storageClass = "static" /\ symbolTable[d.name].global)
                /\ ~DefinedTwice(d)
           /\ Accept(symbolTableInsert(d.name,
                FunEntry(d.type, FunctionLinkage(d), isDefined(d))))
  <2>1. Contains(d.name) =>
          /\ SameEntry(d) /\ symbolTable[d.name] \in Entry
          /\ symbolTable[d.name].global \in BOOLEAN
          /\ Defined(d.name) <=> symbolTable[d.name].isDefined
    BY <1>1, <1>7, ComparedFacts, EntryFacts
  <2>2. FunctionLinkage(d) \in BOOLEAN /\ isDefined(d) \in BOOLEAN
    BY <2>1 DEF FunctionLinkage, isDefined
  <2>3. PICK e : e = FunEntry(d.type, FunctionLinkage(d), isDefined(d))
    OBVIOUS
  <2>4. /\ e \in Entry /\ e.kind = "fun" /\ e.type = d.type
        /\ e.global = FunctionLinkage(d) /\ e.isDefined = isDefined(d)
    BY <1>3, <2>2, <2>3, FunEntryFacts
  <2>5. Contains(d.name) => e.global = symbolTable[d.name].global
    BY <1>7, <2>1, <2>4 DEF FunctionLinkage
  <2>6. /\ ~Contains(d.name) => e.global = (d.storageClass # "static")
        /\ OwnLinkage(d) => e.global = (d.storageClass # "static")
    BY <1>1, <2>4 DEF FunctionLinkage, OwnLinkage
  <2>7. e.isDefined <=> d.defines \/ (Contains(d.name) /\ Defined(d.name))
    BY <2>1, <2>4 DEF isDefined
  <2>8. d.defines => ~(Contains(d.name) /\ Defined(d.name))
    BY <1>7, <2>1 DEF DefinedTwice
  <2>9. Sums(d, e)
    BY <1>1, <1>3, <2>1, <2>4, <2>5, <2>6, <2>7, <2>8 DEF Sums, HasDefinition
  <2> QED
    BY <1>1, <1>7, <2>3, <2>4, <2>9, InsertKeeps
<1> QED
  BY <1>4, <1>5, <1>6, <1>7 DEF typeCheckFunctionDeclaration

(***************************************************************************)
(* The theorems.                                                           *)
(***************************************************************************)

LEMMA InitInv == Init => LinkageInv
<1> SUFFICES ASSUME Init PROVE LinkageInv
  OBVIOUS
<1>1. /\ symbolTable = [n \in {} |-> 0] /\ phase = "idle"
      /\ pending = <<>> /\ met = <<>> /\ refusal = <<>>
  BY DEF Init
<1>2. DOMAIN symbolTable = {} /\ DOMAIN met = {} /\ DOMAIN pending = {}
  BY <1>1
<1>3. TypeOK
  <2>1. symbolTable \in [{} -> Entry]
    BY <1>1
  <2>2. symbolTable \in UNION {[D -> Entry] : D \in SUBSET Name}
    BY <2>1
  <2>3. met \in Seq(Declaration) /\ pending \in Seq(DOMAIN met) /\ Len(met) <= MaxDecls
    BY <1>1, BoundAssumption
  <2> QED
    BY <1>1, <2>2, <2>3 DEF TypeOK
<1>4. \A n : OfName(n) = {}
  BY <1>2 DEF OfName
<1> QED
  BY <1>1, <1>2, <1>3, <1>4 DEF LinkageInv, PendingOnce, InBlocks, FileVariableAlone, Unchecked,
                                FirstExists, NotEntered, EntryFounded, SettledAgree,
                                RefusedDisagree

\* A step checks the declaration at the head of the list, resolves one, or
\* ends a body.
LEMMA NextInv == LinkageInv /\ [Next]_vars => LinkageInv'
<1> SUFFICES ASSUME LinkageInv, [Next]_vars PROVE LinkageInv'
  OBVIOUS
<1>1. ASSUME NEW d \in FileDeclaration, resolveTopLevel(d) PROVE LinkageInv'
  BY <1>1, TopLevelKeeps
<1>2. ASSUME NEW d \in BlockDeclaration, resolveBlockItem(d) PROVE LinkageInv'
  BY <1>2, BlockItemKeeps
<1>3. ASSUME NEW d \in BlockDeclaration, resolveInSwitch(d) PROVE LinkageInv'
  BY <1>3, InSwitchKeeps
<1>4. ASSUME EndOfBody PROVE LinkageInv'
  BY <1>4, OnlyPhase DEF EndOfBody
<1>5. ASSUME pending # <<>>,
             \/ typeCheckFileScopeVariableDeclaration(met[Head(pending)])
             \/ handleExternLocalVar(met[Head(pending)])
             \/ typeCheckFunctionDeclaration(met[Head(pending)])
      PROVE  LinkageInv'
  <2>1. PICK d : d = met[Head(pending)]
    OBVIOUS
  <2>2. CASE typeCheckFileScopeVariableDeclaration(d)
    BY <1>5, <2>1, <2>2, FileVariableKeeps
  <2>3. CASE handleExternLocalVar(d)
    BY <1>5, <2>1, <2>3, BlockVariableKeeps
  <2>4. CASE typeCheckFunctionDeclaration(d)
    BY <1>5, <2>1, <2>4, FunctionKeeps
  <2> QED
    BY <1>5, <2>1, <2>2, <2>3, <2>4
<1>6. ASSUME UNCHANGED vars PROVE LinkageInv'
  <2>1. /\ symbolTable' = symbolTable /\ phase' = phase /\ met' = met
        /\ pending' = pending /\ refusal' = refusal
    BY <1>6 DEF vars
  <2>2. phase' = phase \/ (phase = "resolving" /\ phase' = "checking")
    BY <2>1
  <2> QED
    BY <2>1, <2>2, OnlyPhase
<1> QED
  BY <1>1, <1>2, <1>3, <1>4, <1>5, <1>6 DEF Next

\* At every moment, also between the two passes, the entries agree with the
\* declarations that have been checked.
THEOREM LinkageInvariant == Spec => []LinkageInv
<1> QED
  BY InitInv, NextInv, PTL DEF Spec

\* The table, the list of what is to be checked and the message have the
\* types the code gives them.
THEOREM LinkageTypes == Spec => []TypeOK
<1>1. LinkageInv => TypeOK
  BY DEF LinkageInv
<1> QED
  BY <1>1, LinkageInvariant, PTL

\* Between top-level declarations all is settled.
LEMMA IdleFacts ==
  ASSUME LinkageInv, phase = "idle"
  PROVE  /\ \A n : Settled(n) = OfName(n)
         /\ \A i \in DOMAIN met : met[i].name \in DOMAIN symbolTable
<1>1. Unchecked = {}
  BY DEF LinkageInv, TypeOK, Unchecked
<1> QED
  BY <1>1 DEF Settled, LinkageInv, NotEntered

\* Whatever the program, its names and its types: if it is accepted, the
\* declarations of a name agree on kind, type and linkage, and one at most
\* defines it.
THEOREM AcceptedDeclarationsAgree == Spec => []AcceptedAgree
<1>1. LinkageInv => AcceptedAgree
  <2> SUFFICES ASSUME LinkageInv, phase = "idle", NEW n \in Name,
                      NEW why \in {"type", "linkage", "defined", "initializer"},
                      Disagreement(n, why)
               PROVE  FALSE
    BY DEF AcceptedAgree
  <2>1. \E i \in OfName(n) : TRUE
    BY DEF Disagreement
  <2>2. n \in DOMAIN symbolTable /\ Settled(n) = OfName(n)
    BY <2>1, IdleFacts DEF OfName
  <2>3. \A i \in OfName(n) :
          /\ SameEntry(met[i]) /\ met[i].name = n
          /\ OwnLinkage(met[i]) => symbolTable[n].global = (met[i].storageClass # "static")
          /\ met[i].defines => met[i].level = "file"
          /\ \A j \in OfName(n) : met[i].defines /\ met[j].defines => i = j
    BY <2>2 DEF LinkageInv, SettledAgree, OfName
  <2>4. symbolTable[n].global = GlobalName(n)
    BY <2>2 DEF LinkageInv, EntryFounded
  <2>5. CASE why = "type"
    BY <2>3, <2>5 DEF Disagreement, SameEntry
  <2>6. CASE why = "linkage"
    BY <2>3, <2>4, <2>6 DEF Disagreement
  <2>7. CASE why = "defined"
    BY <2>3, <2>7 DEF Disagreement
  <2>8. CASE why = "initializer"
    BY <2>3, <2>8 DEF Disagreement
  <2> QED
    BY <2>5, <2>6, <2>7, <2>8
<1> QED
  BY <1>1, LinkageInvariant, PTL

\* Whatever the program: a refusal names two declarations that do disagree in
\* the way it says, so that no program is refused for nothing.
THEOREM RefusedDeclarationsDisagree == Spec => []RefusedDisagree
<1>1. LinkageInv => RefusedDisagree
  BY DEF LinkageInv
<1> QED
  BY <1>1, LinkageInvariant, PTL

\* Whatever the program: between top-level declarations the entry of a name is
\* the sum of all its declarations, in whatever order and bodies they came.
THEOREM EntriesSumUp == Spec => []EntrySumsUp
<1>1. LinkageInv => EntrySumsUp
  <2> SUFFICES ASSUME LinkageInv, phase = "idle" PROVE EntrySumsUp
    BY DEF EntrySumsUp
  <2>1. \A n \in DOMAIN symbolTable :
          /\ \E i \in OfName(n) : SameEntry(met[i])
          /\ symbolTable[n].global = GlobalName(n)
          /\ Defined(n) => \E i \in OfName(n) : met[i].defines
    BY IdleFacts DEF LinkageInv, EntryFounded
  <2>2. DOMAIN symbolTable = {met[i].name : i \in DOMAIN met}
    <3>1. ASSUME NEW n \in DOMAIN symbolTable PROVE \E i \in DOMAIN met : n = met[i].name
      BY <2>1 DEF OfName
    <3>2. \A i \in DOMAIN met : met[i].name \in DOMAIN symbolTable
      BY IdleFacts
    <3> QED
      BY <3>1, <3>2
  <2>3. ASSUME NEW n \in DOMAIN symbolTable
        PROVE  LET defined == \E i \in OfName(n) : met[i].defines IN
               /\ symbolTable[n].type = met[First(n)].type
               /\ symbolTable[n].global = GlobalName(n)
               /\ symbolTable[n].kind = "fun" => symbolTable[n].isDefined = defined
               /\ symbolTable[n].kind = "var" =>
                    (symbolTable[n].initValue = "value") = defined
    <3> DEFINE defined == \E i \in OfName(n) : met[i].defines
    <3>1. TableType /\ met \in Seq(Declaration)
      BY DEF LinkageInv, TypeOK, TableType
    <3>2. n \in Name /\ symbolTable[n] \in Entry
      BY <3>1, TableFacts
    <3>3. symbolTable[n].kind = "fun" => symbolTable[n].isDefined \in BOOLEAN
      BY <3>2, EntryFacts
    <3>4. \A i \in OfName(n) : SameEntry(met[i]) /\ met[i].name = n /\ (met[i].defines => Defined(n))
      BY IdleFacts DEF LinkageInv, SettledAgree, OfName
    <3>5. PICK i \in DOMAIN met : IsFirst(i, n)
      BY <2>1, <3>2 DEF LinkageInv, FirstExists
    <3>6. First(n) = i /\ i \in OfName(n)
      BY <3>1, <3>5, FirstIs DEF IsFirst
    <3>7. symbolTable[n].type = met[First(n)].type
      BY <3>4, <3>6 DEF SameEntry
    <3>8. Defined(n) <=> defined
      BY <2>1, <3>4
    <3>9. symbolTable[n].kind = "fun" => symbolTable[n].isDefined = defined
      BY <3>3, <3>8 DEF Defined
    <3>10. symbolTable[n].kind = "var" => (symbolTable[n].initValue = "value") = defined
      BY <3>8 DEF Defined
    <3> QED
      BY <2>1, <3>7, <3>9, <3>10
  <2> QED
    BY <2>2, <2>3 DEF EntrySumsUp
<1> QED
  BY <1>1, LinkageInvariant, PTL

\* Whatever the program: what is emitted of an accepted one is what it
\* declares, with the linkage its first declaration gives.
THEOREM DeclaredIsEmitted == Spec => []EmittedAsDeclared
<1>1. LinkageInv => EmittedAsDeclared
  <2> SUFFICES ASSUME LinkageInv, phase = "idle" PROVE EmittedAsDeclared
    BY DEF EmittedAsDeclared
  <2>1. \A n \in DOMAIN symbolTable :
          /\ symbolTable[n].global = GlobalName(n)
          /\ symbolTable[n].kind = "var" /\ symbolTable[n].initValue # "none" =>
               \E i \in OfName(n) : met[i].defines \/ met[i].storageClass # "extern"
    BY DEF LinkageInv, EntryFounded
  <2>2. \A i \in DOMAIN met :
          /\ met[i].name \in DOMAIN symbolTable
          /\ symbolTable[met[i].name].kind = met[i].kind
          /\ met[i].defines => Defined(met[i].name)
    <3> SUFFICES ASSUME NEW i \in DOMAIN met
                 PROVE  /\ met[i].name \in DOMAIN symbolTable
                        /\ symbolTable[met[i].name].kind = met[i].kind
                        /\ met[i].defines => Defined(met[i].name)
      OBVIOUS
    <3>1. PICK n : n = met[i].name
      OBVIOUS
    <3>2. n \in DOMAIN symbolTable /\ i \in Settled(n)
      BY <3>1, IdleFacts DEF OfName
    <3>3. SameEntry(met[i]) /\ (met[i].defines => Defined(n))
      BY <3>2 DEF LinkageInv, SettledAgree
    <3> QED
      BY <3>1, <3>2, <3>3 DEF SameEntry
  <2>3. {f.name : f \in EmittedFunctions} \cap EmittedVariables = {}
    BY <2>2 DEF EmittedFunctions, EmittedVariables
  <2>4. \A f \in EmittedFunctions : f.global = GlobalName(f.name)
    BY <2>1, <2>2 DEF EmittedFunctions
  <2>5. \A n \in EmittedVariables :
          \E i \in OfName(n) : met[i].defines \/ met[i].storageClass # "extern"
    BY <2>1 DEF EmittedVariables
  <2>6. {met[i].name : i \in {i \in DOMAIN met : met[i].kind = "var" /\ met[i].defines}}
          \subseteq EmittedVariables
    BY <2>2 DEF EmittedVariables, Defined
  <2> QED
    BY <2>3, <2>4, <2>5, <2>6 DEF EmittedAsDeclared
<1> QED
  BY <1>1, LinkageInvariant, PTL

\* A step enters a name or keeps the names there are, and meets a declaration
\* or keeps those met.
LEMMA StepGrows ==
  ASSUME LinkageInv, [Next]_vars
  PROVE  /\ DOMAIN symbolTable \subseteq DOMAIN symbolTable'
         /\ met' = met \/ \E d \in Declaration : met' = Append(met, d)
<1>1. TableType
  BY DEF LinkageInv, TypeOK, TableType
<1>2. ASSUME NEW d \in Declaration, symbolTable' = EnterFunction(d)
      PROVE  DOMAIN symbolTable \subseteq DOMAIN symbolTable'
  BY <1>1, <1>2, EnterFacts
<1>3. ASSUME NEW n, NEW e, symbolTable' = symbolTableInsert(n, e)
      PROVE  DOMAIN symbolTable \subseteq DOMAIN symbolTable'
  BY <1>3 DEF symbolTableInsert
<1>4. ASSUME NEW d \in FileDeclaration, resolveTopLevel(d)
      PROVE  d \in Declaration /\ symbolTable' = EnterFunction(d) /\ met' = Append(met, d)
  BY <1>4 DEF resolveTopLevel, FileDeclaration
<1>5. ASSUME NEW d \in BlockDeclaration, resolveBlockItem(d) \/ resolveInSwitch(d)
      PROVE  d \in Declaration /\ symbolTable' = EnterFunction(d) /\ met' = Append(met, d)
  BY <1>5 DEF resolveBlockItem, resolveInSwitch, BlockDeclaration
<1>6. ASSUME EndOfBody \/ UNCHANGED vars PROVE symbolTable' = symbolTable /\ met' = met
  BY <1>6 DEF EndOfBody, vars
<1>7. ASSUME NEW d, \/ typeCheckFileScopeVariableDeclaration(d)
                    \/ handleExternLocalVar(d)
                    \/ typeCheckFunctionDeclaration(d)
      PROVE  /\ \/ symbolTable' = symbolTable
                \/ \E n, e : symbolTable' = symbolTableInsert(n, e)
             /\ met' = met
  <2>1. ASSUME NEW why, Refuse(d, why) PROVE symbolTable' = symbolTable /\ met' = met
    BY <2>1 DEF Refuse
  <2>2. ASSUME NEW table, Accept(table) PROVE symbolTable' = table /\ met' = met
    BY <2>2 DEF Accept
  <2>3. CASE typeCheckFileScopeVariableDeclaration(d)
    BY <2>1, <2>2, <2>3 DEF typeCheckFileScopeVariableDeclaration
  <2>4. CASE handleExternLocalVar(d)
    <3>1. CASE \E why : Refuse(d, why)
      BY <2>1, <3>1
    <3>2. CASE Accept(IF Contains(d.name) THEN symbolTable
                      ELSE symbolTableInsert(d.name, VarEntry(d.type, TRUE, "none")))
      <4>1. CASE Contains(d.name)
        BY <2>2, <3>2, <4>1
      <4>2. CASE ~Contains(d.name)
        <5>1. Accept(symbolTableInsert(d.name, VarEntry(d.type, TRUE, "none")))
          BY <3>2, <4>2
        <5> QED
          BY <5>1 DEF Accept
      <4> QED
        BY <4>1, <4>2
    <3> QED
      BY <2>4, <3>1, <3>2 DEF handleExternLocalVar
  <2>5. CASE typeCheckFunctionDeclaration(d)
    BY <2>1, <2>2, <2>5 DEF typeCheckFunctionDeclaration
  <2> QED
    BY <1>7, <2>3, <2>4, <2>5
<1> QED
  BY <1>2, <1>3, <1>4, <1>5, <1>6, <1>7 DEF Next

\* Whatever the program: from the moment a name is in the table its linkage
\* never changes.
THEOREM LinkageNeverChanges == Spec => LinkageFixed
<1>1. LinkageInv /\ LinkageInv' /\ [Next]_vars =>
        [\A n \in DOMAIN symbolTable :
           n \in DOMAIN symbolTable' /\ symbolTable'[n].global = symbolTable[n].global]_vars
  <2> SUFFICES ASSUME LinkageInv, LinkageInv', [Next]_vars, NEW n \in DOMAIN symbolTable
               PROVE  n \in DOMAIN symbolTable' /\ symbolTable'[n].global = symbolTable[n].global
    OBVIOUS
  <2>1. n \in DOMAIN symbolTable'
    BY StepGrows
  <2>2. symbolTable[n].global = GlobalName(n) /\ OfName(n) # {}
    BY DEF LinkageInv, EntryFounded
  <2>3. symbolTable'[n].global = GlobalName(n)'
    BY <2>1 DEF LinkageInv, EntryFounded
  <2>4. n \in Name /\ met \in Seq(Declaration) /\ FirstExists
    BY TableFacts DEF LinkageInv, TypeOK, TableType
  <2>5. GlobalName(n)' = GlobalName(n)
    <3>1. CASE met' = met
      BY <3>1 DEF GlobalName, First, OfName
    <3>2. CASE \E d \in Declaration : met' = Append(met, d)
      BY <2>2, <2>4, <3>2, FirstKept
    <3> QED
      BY <3>1, <3>2, StepGrows
  <2> QED
    BY <2>1, <2>2, <2>3, <2>5
<1> QED
  BY <1>1, LinkageInvariant, PTL DEF Spec, LinkageFixed

==============================================================================
