---------------------- MODULE IdentifierResolutionProofs ----------------------
(***************************************************************************)
(* For every set of identifiers, any depth of nesting and any number of    *)
(* declarations: the copied scope maps of IdentifierResolution mirror the  *)
(* innermost declarations, unique names are never shared, no entry of the  *)
(* symbol table is replaced, and each step of the pass on its maps is the  *)
(* step of LexicalScope that the construct stands for, with the same       *)
(* answer.                                                                 *)
(***************************************************************************)
EXTENDS IdentifierResolution, SequenceTheorems, TLAPS

(***************************************************************************)
(* The inductive invariant.                                                *)
(***************************************************************************)

\* MapsMirrorScopes of any stack of maps.
Bound(ms, k, n) == n \in DOMAIN ms[k] /\ ms[k][n].isInScope

Innermost(ms, j, n, k) ==
  /\ k \in 1 .. j
  /\ Bound(ms, k, n)
  /\ ms[k][n].value = ms[j][n].value
  /\ \A i \in (k + 1) .. j : ~Bound(ms, i, n)

Mirror(ms) ==
  \A j \in DOMAIN ms :
    /\ \A n \in DOMAIN ms[j] : \E k \in 1 .. j : Innermost(ms, j, n, k)
    /\ \A i \in 1 .. j : DOMAIN ms[i] \subseteq DOMAIN ms[j]

\* The stack holds maps, and the counter is the number of the names made.
Shape ==
  /\ maps \in Seq(Map) /\ maps # <<>>
  /\ currGlobalInt \in 0 .. MaxCounter
  /\ DOMAIN symbolTable \subseteq Target
  /\ objects \in Seq(Target)
  /\ verdict.kind \in {"accepted", "bound", "undeclared", "conflict",
                       "duplicate", "misplaced"}

\* The i-th name made has number i - 1.
Numbered ==
  /\ Len(objects) = currGlobalInt
  /\ \A i \in DOMAIN objects : objects[i].id = i - 1

\* The table holds no name that is still to be made.
TableBehind == \A t \in DOMAIN symbolTable : t.id < currGlobalInt

IInv == Shape /\ Numbered /\ TableBehind /\ Mirror(maps)

(***************************************************************************)
(* The operations on stacks of maps.                                       *)
(***************************************************************************)

\* A sequence with another last element.
LEMMA LastReplaced ==
  ASSUME NEW S, NEW s \in Seq(S), s # <<>>, NEW e \in S,
         NEW new, new = [s EXCEPT ![Len(s)] = e]
  PROVE  /\ new \in Seq(S) /\ Len(new) = Len(s) /\ new[Len(s)] = e
         /\ \A j \in 1 .. Len(s) : j # Len(s) => new[j] = s[j]
<1>1. Len(s) \in 1 .. Len(s)
  OBVIOUS
<1> QED
  BY <1>1, ExceptSeq

\* The innermost map changed to one that declares n itself and says of every
\* other name what it said.
LEMMA DeclareMirror ==
  ASSUME NEW ms, NEW L \in Nat \ {0}, DOMAIN ms = 1 .. L, Mirror(ms),
         NEW n, NEW new, DOMAIN new = 1 .. L,
         \A j \in 1 .. L : j # L => new[j] = ms[j],
         DOMAIN new[L] = DOMAIN ms[L] \cup {n}, new[L][n].isInScope,
         \A x \in DOMAIN ms[L] : x # n => new[L][x] = ms[L][x]
  PROVE  Mirror(new)
<1>1. ASSUME NEW j \in 1 .. L, NEW x \in DOMAIN new[j]
      PROVE  \E k \in 1 .. j : Innermost(new, j, x, k)
  <2>1. CASE j # L
    <3>1. \A i \in 1 .. j : i \in 1 .. L /\ i # L
      BY <2>1
    <3>2. \A i \in 1 .. j : new[i] = ms[i]
      BY <3>1
    <3>3. new[j] = ms[j]
      BY <2>1
    <3>4. PICK k \in 1 .. j : Innermost(ms, j, x, k)
      BY <3>3 DEF Mirror
    <3>5. Innermost(new, j, x, k)
      BY <3>2, <3>4 DEF Innermost, Bound
    <3> QED
      BY <3>5
  <2>2. CASE j = L /\ x = n
    <3>1. Innermost(new, L, n, L)
      BY DEF Innermost, Bound
    <3> QED
      BY <3>1, <2>2
  <2>3. CASE j = L /\ x # n
    <3>1. x \in DOMAIN ms[L] /\ new[L][x] = ms[L][x]
      BY <2>3
    <3>2. PICK k \in 1 .. L : Innermost(ms, L, x, k)
      BY <3>1 DEF Mirror
    <3>3. \A i \in 1 .. L : Bound(new, i, x) <=> Bound(ms, i, x)
      BY <3>1, <2>3 DEF Bound
    <3>4. new[k][x] = ms[k][x]
      BY <3>1, <3>2
    <3>5. Innermost(new, L, x, k)
      BY <3>1, <3>2, <3>3, <3>4 DEF Innermost
    <3> QED
      BY <3>5, <2>3
  <2> QED
    BY <2>1, <2>2, <2>3
<1>2. ASSUME NEW j \in 1 .. L, NEW i \in 1 .. j
      PROVE  DOMAIN new[i] \subseteq DOMAIN new[j]
  <2>1. DOMAIN ms[i] \subseteq DOMAIN ms[j]
    BY DEF Mirror
  <2>2. CASE j # L
    BY <2>1, <2>2
  <2>3. CASE j = L /\ i # L
    BY <2>1, <2>3
  <2>4. CASE j = L /\ i = L
    BY <2>4
  <2> QED
    BY <2>2, <2>3, <2>4
<1> QED
  BY <1>1, <1>2 DEF Mirror

\* An entry put into a map.
LEMMA PutFacts ==
  ASSUME NEW map \in Map, NEW n \in Name, NEW e \in MapEntry,
         NEW g, g = [x \in DOMAIN map \cup {n} |-> IF x = n THEN e ELSE map[x]]
  PROVE  /\ g \in Map
         /\ DOMAIN g = DOMAIN map \cup {n}
         /\ g[n] = e
         /\ \A x \in DOMAIN map : x # n => g[x] = map[x]
<1>1. PICK D \in SUBSET Name : map \in [D -> MapEntry]
  BY DEF Map
<1>2. \A x \in D \cup {n} : g[x] \in MapEntry
  BY <1>1
<1>3. g \in [D \cup {n} -> MapEntry] /\ D \cup {n} \in SUBSET Name
  BY <1>1, <1>2
<1> QED
  BY <1>3 DEF Map

\* A new declaration in the innermost scope.
LEMMA PutMirror ==
  ASSUME maps \in Seq(Map), maps # <<>>, Mirror(maps),
         NEW n \in Name, NEW v \in Target, NEW linkage \in BOOLEAN
  PROVE  /\ Put(n, v, linkage) \in Seq(Map) /\ Put(n, v, linkage) # <<>>
         /\ Len(Put(n, v, linkage)) = Len(maps)
         /\ Mirror(Put(n, v, linkage))
<1>1. PICK L \in Nat \ {0} : L = Len(maps) /\ maps[L] \in Map /\ DOMAIN maps = 1 .. L
  OBVIOUS
<1>2. PICK e : e = [value |-> v, isInScope |-> TRUE, hasExternalLinkage |-> linkage]
  OBVIOUS
<1>3. e \in MapEntry
  BY <1>2, Zenon DEF MapEntry
<1>4. e.isInScope
  BY <1>2, Zenon
<1>5. PICK g : g = [x \in DOMAIN maps[L] \cup {n} |-> IF x = n THEN e ELSE maps[L][x]]
  OBVIOUS
<1>6. /\ g \in Map
      /\ DOMAIN g = DOMAIN maps[L] \cup {n}
      /\ g[n] = e
      /\ \A x \in DOMAIN maps[L] : x # n => g[x] = maps[L][x]
  BY <1>1, <1>3, <1>5, PutFacts, SMTT(30)
<1>7. PICK new : new = [maps EXCEPT ![L] = g]
  OBVIOUS
<1>8. Put(n, v, linkage) = new
  BY <1>1, <1>2, <1>5, <1>7, Zenon DEF Put, varMap, mapPut
<1>9. /\ new \in Seq(Map) /\ Len(new) = L /\ new[L] = g
      /\ \A j \in 1 .. L : j # L => new[j] = maps[j]
  BY <1>1, <1>6, <1>7, LastReplaced
<1>10. DOMAIN new = 1 .. L /\ new # <<>>
  <2>1. L # 0
    OBVIOUS
  <2> QED
    BY <1>9, <2>1, LenProperties, EmptySeq, Zenon
<1>11. /\ DOMAIN new[L] = DOMAIN maps[L] \cup {n}
       /\ new[L][n].isInScope
       /\ \A x \in DOMAIN maps[L] : x # n => new[L][x] = maps[L][x]
  BY <1>4, <1>6, <1>9, Zenon
<1>12. Mirror(new)
  BY <1>1, <1>9, <1>10, <1>11, DeclareMirror
<1> QED
  BY <1>1, <1>8, <1>9, <1>10, <1>12, Zenon

\* A new innermost map that keeps the entries of the one around it, out of
\* scope, or declares them anew.
LEMMA PushMirror ==
  ASSUME NEW ms \in Seq(Map), ms # <<>>, Mirror(ms),
         NEW g \in Map, DOMAIN ms[Len(ms)] \subseteq DOMAIN g,
         \A x \in DOMAIN g :
           \/ g[x].isInScope
           \/ x \in DOMAIN ms[Len(ms)] /\ g[x].value = ms[Len(ms)][x].value,
         NEW new, new = Append(ms, g)
  PROVE  new \in Seq(Map) /\ Len(new) = Len(ms) + 1 /\ Mirror(new)
<1> DEFINE L == Len(ms)
<1>1. L \in Nat \ {0} /\ DOMAIN ms = 1 .. L
  OBVIOUS
<1>2. /\ new \in Seq(Map) /\ Len(new) = L + 1 /\ new[L + 1] = g
      /\ \A j \in 1 .. L : new[j] = ms[j]
  BY <1>1
<1>3. ASSUME NEW j \in 1 .. (L + 1), NEW x \in DOMAIN new[j]
      PROVE  \E k \in 1 .. j : Innermost(new, j, x, k)
  <2>1. CASE j # L + 1
    <3>1. j \in 1 .. L /\ \A i \in 1 .. j : new[i] = ms[i]
      BY <1>1, <1>2, <2>1
    <3>2. PICK k \in 1 .. j : Innermost(ms, j, x, k)
      BY <1>1, <3>1 DEF Mirror
    <3>3. Innermost(new, j, x, k)
      BY <3>1, <3>2, <1>1 DEF Innermost, Bound
    <3> QED
      BY <3>3
  <2>2. CASE j = L + 1 /\ g[x].isInScope
    <3>1. Innermost(new, L + 1, x, L + 1)
      BY <1>1, <1>2, <2>2 DEF Innermost, Bound
    <3> QED
      BY <3>1, <2>2, <1>1
  <2>3. CASE j = L + 1 /\ ~g[x].isInScope
    <3>1. x \in DOMAIN ms[L] /\ g[x].value = ms[L][x].value
      BY <1>2, <2>3
    <3>2. PICK k \in 1 .. L : Innermost(ms, L, x, k)
      BY <1>1, <3>1 DEF Mirror
    <3>3. \A i \in 1 .. L : Bound(new, i, x) <=> Bound(ms, i, x)
      BY <1>2 DEF Bound
    <3>4. ~Bound(new, L + 1, x) /\ new[k] = ms[k]
      BY <1>2, <2>3 DEF Bound
    <3>5. Innermost(new, L + 1, x, k)
      BY <1>1, <1>2, <3>1, <3>2, <3>3, <3>4 DEF Innermost
    <3> QED
      BY <3>5, <2>3, <1>1
  <2> QED
    BY <2>1, <2>2, <2>3
<1>4. ASSUME NEW j \in 1 .. (L + 1), NEW i \in 1 .. j
      PROVE  DOMAIN new[i] \subseteq DOMAIN new[j]
  <2>1. \A a \in 1 .. L : \A b \in 1 .. a : DOMAIN ms[b] \subseteq DOMAIN ms[a]
    BY <1>1 DEF Mirror
  <2>2. DOMAIN ms[L] \subseteq DOMAIN g
    OBVIOUS
  <2>3. CASE j # L + 1
    BY <1>1, <1>2, <2>1, <2>3
  <2>4. CASE j = L + 1
    BY <1>1, <1>2, <2>1, <2>2, <2>4
  <2> QED
    BY <2>3, <2>4
<1>5. Mirror(new)
  BY <1>2, <1>3, <1>4 DEF Mirror
<1> QED
  BY <1>2, <1>5

\* The innermost map dropped.
LEMMA PopMirror ==
  ASSUME NEW ms \in Seq(Map), Len(ms) > 1, Mirror(ms),
         NEW new, new = SubSeq(ms, 1, Len(ms) - 1)
  PROVE  new \in Seq(Map) /\ new # <<>> /\ Mirror(new)
<1> DEFINE L == Len(ms)
<1>1. L \in Nat \ {0} /\ L > 1 /\ DOMAIN ms = 1 .. L
  OBVIOUS
<1>2. /\ new \in Seq(Map) /\ Len(new) = L - 1 /\ new # <<>>
      /\ DOMAIN new = 1 .. (L - 1)
      /\ \A j \in 1 .. (L - 1) : new[j] = ms[j]
  <2>1. \A i \in 1 .. (L - 1) : ms[i] \in Map
    BY <1>1
  <2>2. /\ new \in Seq(Map)
        /\ Len(new) = L - 1
        /\ \A i \in 1 .. (L - 1) : new[i] = ms[i]
    <3>1. 1 <= L - 1 /\ (L - 1) - 1 + 1 = L - 1
      BY <1>1
    <3> HIDE DEF L
    <3>2. /\ new \in Seq(Map)
          /\ Len(new) = IF 1 <= L - 1 THEN (L - 1) - 1 + 1 ELSE 0
          /\ \A i \in 1 .. ((L - 1) - 1 + 1) : new[i] = ms[1 + i - 1]
      BY <1>1, <2>1, SubSeqProperties DEF L
    <3> QED
      BY <3>1, <3>2
  <2>3. DOMAIN new = 1 .. (L - 1)
    BY <2>2, LenProperties, Zenon
  <2>4. new # <<>>
    <3>1. L - 1 # 0
      BY <1>1
    <3> QED
      BY <2>2, <3>1, EmptySeq, Zenon
  <2> QED
    BY <2>2, <2>3, <2>4, Zenon
<1>3. ASSUME NEW j \in 1 .. (L - 1)
      PROVE  /\ \A x \in DOMAIN new[j] : \E k \in 1 .. j : Innermost(new, j, x, k)
             /\ \A i \in 1 .. j : DOMAIN new[i] \subseteq DOMAIN new[j]
  <2>1. j \in 1 .. L /\ \A i \in 1 .. j : new[i] = ms[i]
    BY <1>1, <1>2
  <2>2. ASSUME NEW x \in DOMAIN new[j] PROVE \E k \in 1 .. j : Innermost(new, j, x, k)
    <3>1. PICK k \in 1 .. j : Innermost(ms, j, x, k)
      BY <1>1, <2>1 DEF Mirror
    <3>2. Innermost(new, j, x, k)
      BY <1>1, <2>1, <3>1 DEF Innermost, Bound
    <3> QED
      BY <3>2
  <2>3. \A i \in 1 .. j : DOMAIN ms[i] \subseteq DOMAIN ms[j]
    BY <1>1, <2>1 DEF Mirror
  <2> QED
    BY <2>1, <2>2, <2>3
<1> QED
  BY <1>2, <1>3 DEF Mirror

\* A copied map marks every entry out of scope and changes no value.
LEMMA CopyFacts ==
  ASSUME NEW map \in Map, NEW g, g = copySemanticIdentifierMap(map)
  PROVE  /\ g \in Map /\ DOMAIN g = DOMAIN map
         /\ \A x \in DOMAIN map : ~g[x].isInScope /\ g[x].value = map[x].value
<1>1. PICK D \in SUBSET Name : map \in [D -> MapEntry]
  BY DEF Map
<1>2. /\ DOMAIN g = D
      /\ \A x \in D : g[x] \in MapEntry /\ ~g[x].isInScope /\ g[x].value = map[x].value
  BY <1>1 DEF copySemanticIdentifierMap, MapEntry
<1>3. g \in [D -> MapEntry]
  BY <1>1, <1>2 DEF copySemanticIdentifierMap
<1> QED
  BY <1>1, <1>2, <1>3 DEF Map

\* The map of a function's parameters.
LEMMA ParamsFacts ==
  ASSUME NEW map \in Map, NEW params \in ParamList, currGlobalInt \in Nat,
         currGlobalInt + Len(params) <= MaxCounter,
         NEW g, g = resolveParams(map, params)
  PROVE  /\ g \in Map /\ DOMAIN map \subseteq DOMAIN g
         /\ \A x \in DOMAIN g :
              g[x].isInScope \/ (x \in DOMAIN map /\ g[x] = map[x])
<1>1. PICK D \in SUBSET Name : map \in [D -> MapEntry]
  BY DEF Map
<1>2. PICK k \in 0 .. MaxParams : params \in [1 .. k -> Name]
  BY DEF ParamList
<1>3. k = Len(params) /\ k \in Nat /\ DOMAIN params = 1 .. k
  BY <1>2, BoundsAssumption
<1>4. PICK P \in SUBSET Name : P = {params[i] : i \in DOMAIN params}
  BY <1>2, <1>3
<1>5. PICK entry : entry = [x \in P |->
        [value |-> ParamName(params, CHOOSE i \in DOMAIN params : params[i] = x),
         isInScope |-> TRUE, hasExternalLinkage |-> FALSE]]
  OBVIOUS
<1>6. ASSUME NEW x \in P
      PROVE  entry[x] \in MapEntry /\ entry[x].isInScope
  <2>1. PICK i : i = CHOOSE j \in DOMAIN params : params[j] = x
    OBVIOUS
  <2>2. \E j \in DOMAIN params : params[j] = x
    BY <1>4, <1>6
  <2>3. i \in 1 .. k
    BY <1>3, <2>1, <2>2
  <2>4. params[i] \in Name /\ currGlobalInt + i - 1 \in Linked .. MaxCounter
    BY <1>2, <1>3, <2>3, BoundsAssumption DEF Linked
  <2>5. ParamName(params, i) \in Target
    BY <2>4 DEF ParamName, UniqueName, Target
  <2>6. entry[x] = [value |-> ParamName(params, i), isInScope |-> TRUE,
                    hasExternalLinkage |-> FALSE]
    BY <1>5, <1>6, <2>1
  <2>7. entry[x] \in MapEntry
    BY <2>5, <2>6 DEF MapEntry
  <2>8. entry[x].isInScope
    BY <2>6
  <2> QED
    BY <2>7, <2>8
<1>7. g = [x \in D \cup P |-> IF x \in P THEN entry[x] ELSE map[x]]
  <2>1. DOMAIN map = D
    BY <1>1
  <2>2. \A x : (\E i \in DOMAIN params : params[i] = x) <=> x \in P
    BY <1>4
  <2>3. g = [x \in D \cup P |->
              IF x \in P
              THEN [value |-> ParamName(params, CHOOSE i \in DOMAIN params : params[i] = x),
                    isInScope |-> TRUE, hasExternalLinkage |-> FALSE]
              ELSE map[x]]
    BY <2>1, <2>2, <1>4, Zenon DEF resolveParams
  <2> QED
    BY <2>3, <1>5
<1>8. /\ DOMAIN g = D \cup P
      /\ \A x \in P : g[x] = entry[x]
      /\ \A x \in D : x \notin P => g[x] = map[x]
  BY <1>7
<1>9. \A x \in D \cup P : g[x] \in MapEntry
  BY <1>1, <1>6, <1>8
<1>10. g \in [D \cup P -> MapEntry] /\ D \cup P \in SUBSET Name
  BY <1>7, <1>9, <1>8
<1>11. g \in Map
  BY <1>10 DEF Map
<1>12. \A x \in DOMAIN g : g[x].isInScope \/ (x \in D /\ g[x] = map[x])
  BY <1>6, <1>8, Zenon
<1> QED
  BY <1>1, <1>8, <1>11, <1>12

(***************************************************************************)
(* The steps.                                                              *)
(***************************************************************************)

\* What the maps must satisfy, and what the rest of the state must.
MapsInv == maps \in Seq(Map) /\ maps # <<>> /\ Mirror(maps)
NamesInv ==
  /\ currGlobalInt \in 0 .. MaxCounter
  /\ DOMAIN symbolTable \subseteq Target
  /\ objects \in Seq(Target)
  /\ Numbered /\ TableBehind

Said ==
  verdict.kind \in {"accepted", "bound", "undeclared", "conflict",
                    "duplicate", "misplaced"}

LEMMA Parts == IInv <=> MapsInv /\ NamesInv /\ Said
BY DEF IInv, Shape, MapsInv, NamesInv, Said

\* A step that leaves the names alone.
LEMMA SameNames ==
  ASSUME NamesInv, UNCHANGED <<currGlobalInt, symbolTable, objects>>
  PROVE  NamesInv'
BY DEF NamesInv, Numbered, TableBehind

LEMMA SameMaps ==
  ASSUME MapsInv, maps' = maps
  PROVE  MapsInv'
BY DEF MapsInv, Mirror, Innermost, Bound

\* A rejection changes nothing but what is said.
LEMMA RejectStep ==
  ASSUME IInv, NEW why, Reject(why),
         why.kind \in {"conflict", "duplicate", "misplaced"}
  PROVE  IInv'
<1>1. MapsInv'
  BY Parts, SameMaps DEF Reject
<1>2. NamesInv'
  BY Parts, SameNames DEF Reject
<1>3. Said'
  BY DEF Reject, Said
<1> QED
  BY <1>1, <1>2, <1>3, Parts, PTL

\* A declaration puts an entry into the innermost map.
LEMMA PutStep ==
  ASSUME MapsInv, NEW n \in Name, NEW v \in Target, NEW linkage \in BOOLEAN,
         maps' = Put(n, v, linkage)
  PROVE  MapsInv'
<1>1. /\ Put(n, v, linkage) \in Seq(Map) /\ Put(n, v, linkage) # <<>>
      /\ Mirror(Put(n, v, linkage))
  BY PutMirror, Zenon DEF MapsInv
<1> QED
  BY <1>1 DEF MapsInv, Mirror, Innermost, Bound

LEMMA GlobalTarget ==
  ASSUME NEW n \in Name PROVE Global(n) \in Target
BY BoundsAssumption DEF Global, Target, Linked

\* Making k names: the counter moves on by k, and the names have the numbers
\* in between.
LEMMA MakeNames ==
  ASSUME NamesInv, NEW k \in Nat, currGlobalInt + k <= MaxCounter,
         NEW made \in [1 .. k -> Target],
         \A i \in 1 .. k : made[i].id = currGlobalInt + i - 1,
         currGlobalInt' = CounterAfter(k), objects' = objects \o made
  PROVE  /\ currGlobalInt' \in 0 .. MaxCounter /\ currGlobalInt' = currGlobalInt + k
         /\ objects' \in Seq(Target)
         /\ Numbered'
<1>1. /\ currGlobalInt \in Nat /\ MaxCounter \in Nat /\ objects \in Seq(Target)
      /\ Len(objects) = currGlobalInt
      /\ \A i \in 1 .. currGlobalInt : objects[i].id = i - 1
  <2>1. currGlobalInt \in Nat /\ MaxCounter \in Nat
    BY BoundsAssumption DEF NamesInv
  <2>2. objects \in Seq(Target) /\ Len(objects) = currGlobalInt
        /\ \A i \in DOMAIN objects : objects[i].id = i - 1
    BY Zenon DEF NamesInv, Numbered
  <2>3. DOMAIN objects = 1 .. currGlobalInt
    BY <2>2, LenProperties, Zenon
  <2> QED
    BY <2>1, <2>2, <2>3, Zenon
<1>2. currGlobalInt' = currGlobalInt + k /\ currGlobalInt' \in 0 .. MaxCounter
  BY <1>1 DEF CounterAfter
<1>3. made \in Seq(Target) /\ Len(made) = k
  OBVIOUS
<1>4. /\ objects' \in Seq(Target) /\ Len(objects') = Len(objects) + k
      /\ \A i \in 1 .. (Len(objects) + k) :
           objects'[i] = IF i <= Len(objects) THEN objects[i]
                         ELSE made[i - Len(objects)]
  BY <1>1, <1>3, ConcatProperties, Zenon
<1>5. DOMAIN objects' = 1 .. (currGlobalInt + k)
  BY <1>1, <1>4, LenProperties, Zenon
<1>6. ASSUME NEW i \in 1 .. (currGlobalInt + k)
      PROVE  objects'[i].id = i - 1
  <2>1. CASE i <= currGlobalInt
    BY <1>1, <1>4, <2>1
  <2>2. CASE i > currGlobalInt
    <3>1. PICK m \in 1 .. k : m = i - currGlobalInt
      BY <1>1, <2>2
    <3>2. objects'[i] = made[m]
      BY <1>1, <1>4, <2>2, <3>1
    <3>3. made[m].id = currGlobalInt + m - 1
      OBVIOUS
    <3> QED
      BY <1>1, <3>1, <3>2, <3>3
  <2> QED
    BY <1>1, <2>1, <2>2
<1>7. Numbered'
  BY <1>1, <1>2, <1>4, <1>5, <1>6 DEF Numbered
<1> QED
  BY <1>2, <1>4, <1>7

\* Parameter names are the next ones.
LEMMA ParamNames ==
  ASSUME NamesInv, NEW params \in ParamList,
         currGlobalInt + Len(params) <= MaxCounter
  PROVE  /\ Len(params) \in Nat /\ DOMAIN params = 1 .. Len(params)
         /\ [i \in DOMAIN params |-> ParamName(params, i)]
              \in [1 .. Len(params) -> Target]
         /\ \A i \in DOMAIN params :
              /\ ParamName(params, i) \in Target
              /\ ParamName(params, i).id = currGlobalInt + i - 1
<1>1. PICK k \in 0 .. MaxParams : params \in [1 .. k -> Name]
  BY DEF ParamList
<1>2. k = Len(params) /\ k \in Nat /\ DOMAIN params = 1 .. k
  BY <1>1, BoundsAssumption
<1>3. currGlobalInt \in Nat /\ MaxCounter \in Nat
  BY BoundsAssumption DEF NamesInv
<1>4. ASSUME NEW i \in 1 .. k
      PROVE  /\ ParamName(params, i) \in Target
             /\ ParamName(params, i).id = currGlobalInt + i - 1
  <2>1. params[i] \in Name /\ currGlobalInt + i - 1 \in Linked .. MaxCounter
    BY <1>1, <1>2, <1>3 DEF Linked
  <2> QED
    BY <2>1 DEF ParamName, UniqueName, Target
<1> QED
  BY <1>2, <1>4

\* The first entry wins; entries of parameters are of names just made.
LEMMA InsertFacts ==
  ASSUME NamesInv, NEW n \in Name, NEW params \in ParamList, NEW storageClass,
         currGlobalInt + Len(params) <= MaxCounter,
         NEW table, table = InsertSymbols(n, params, storageClass)
  PROVE  /\ DOMAIN table \subseteq Target
         /\ \A t \in DOMAIN table : t.id < currGlobalInt + Len(params)
         /\ \A t \in DOMAIN symbolTable :
              t \in DOMAIN table /\ table[t] = symbolTable[t]
<1>1. currGlobalInt \in Nat /\ MaxCounter \in Nat /\ Len(params) \in Nat
      /\ DOMAIN params = 1 .. Len(params)
  BY ParamNames, BoundsAssumption DEF NamesInv
<1>2. PICK names : names = {ParamName(params, i) : i \in DOMAIN params}
  OBVIOUS
<1>3. \A t \in names : t \in Target /\ t.id \in Int /\ t.id >= currGlobalInt
                      /\ t.id < currGlobalInt + Len(params)
  BY <1>1, <1>2, ParamNames
<1>4. /\ Global(n) \in Target
      /\ Global(n).id < currGlobalInt + Len(params)
  BY <1>1, GlobalTarget DEF Global, Linked
<1>5. table = [t \in DOMAIN symbolTable \cup names \cup {Global(n)} |->
                IF t \in names THEN [attr |-> "local", global |-> FALSE]
                ELSE IF t \in DOMAIN symbolTable THEN symbolTable[t]
                ELSE [attr |-> "fun", global |-> storageClass # "static"]]
  BY <1>2 DEF InsertSymbols
<1>6. DOMAIN table = DOMAIN symbolTable \cup names \cup {Global(n)}
  BY <1>5
<1>7. DOMAIN symbolTable \subseteq Target
      /\ \A t \in DOMAIN symbolTable : t.id < currGlobalInt
  BY DEF NamesInv, TableBehind
<1>8. \A t \in DOMAIN symbolTable : t.id \in Int
  <2>1. Linked .. MaxCounter \subseteq Int
    BY <1>1 DEF Linked
  <2> QED
    BY <1>7, <2>1 DEF Target
<1>9. \A t \in DOMAIN symbolTable : t \notin names
  BY <1>1, <1>3, <1>7, <1>8
<1>10. \A t \in DOMAIN symbolTable : t \in DOMAIN table /\ table[t] = symbolTable[t]
  BY <1>5, <1>6, <1>9, Zenon
<1>11. \A t \in DOMAIN table : t \in Target /\ t.id < currGlobalInt + Len(params)
  BY <1>1, <1>3, <1>4, <1>6, <1>7, <1>8
<1> QED
  BY <1>10, <1>11

LEMMA FunctionStep ==
  ASSUME IInv, NEW n \in Name, NEW params \in ParamList,
         NEW storageClass \in StorageClass, NEW hasBody \in BOOLEAN,
         resolveFunctionDeclaration(n, params, storageClass, hasBody)
  PROVE  IInv'
<1>1. MapsInv /\ NamesInv /\ currGlobalInt + Len(params) <= MaxCounter
      /\ currGlobalInt \in Nat
  BY Parts DEF resolveFunctionDeclaration, NamesInv
<1>2. PICK declared : declared = Put(n, Global(n), TRUE)
  OBVIOUS
<1>3. declared \in Seq(Map) /\ declared # <<>> /\ Len(declared) = Len(maps)
      /\ Mirror(declared)
  <2>1. Global(n) \in Target /\ TRUE \in BOOLEAN
    BY GlobalTarget
  <2> QED
    BY <1>1, <1>2, <2>1, PutMirror, Zenon DEF MapsInv
<1>4. PICK inner : inner = copySemanticIdentifierMap(declared[Len(maps)])
  OBVIOUS
<1>5. PICK g : g = resolveParams(inner, params)
  OBVIOUS
<1>6. maps' = IF hasBody THEN Append(declared, g) ELSE declared
  BY <1>2, <1>4, <1>5, Zenon DEF resolveFunctionDeclaration
<1>7. PICK L : L = Len(declared)
  OBVIOUS
<1>8. declared[L] \in Map
  BY <1>3, <1>7
<1>9. /\ inner \in Map /\ DOMAIN inner = DOMAIN declared[L]
      /\ \A x \in DOMAIN inner : inner[x].value = declared[L][x].value
  BY <1>3, <1>4, <1>7, <1>8, CopyFacts
<1>10. /\ g \in Map /\ DOMAIN inner \subseteq DOMAIN g
       /\ \A x \in DOMAIN g :
            g[x].isInScope \/ (x \in DOMAIN inner /\ g[x] = inner[x])
  BY <1>1, <1>5, <1>9, ParamsFacts, Zenon
<1>11. /\ DOMAIN declared[L] \subseteq DOMAIN g
       /\ \A x \in DOMAIN g :
            g[x].isInScope \/ (x \in DOMAIN declared[L]
                               /\ g[x].value = declared[L][x].value)
  BY <1>9, <1>10, Zenon
<1>12. Append(declared, g) \in Seq(Map) /\ Append(declared, g) # <<>>
       /\ Mirror(Append(declared, g))
  <2>1. Append(declared, g) # <<>>
    BY <1>3, <1>10
  <2> QED
    BY <1>3, <1>7, <1>10, <1>11, <2>1, PushMirror, Zenon
<1>13. MapsInv'
  <2>1. maps' \in Seq(Map) /\ maps' # <<>> /\ Mirror(maps')
    BY <1>3, <1>6, <1>12, Zenon
  <2> QED
    BY <2>1 DEF MapsInv, Mirror, Innermost, Bound
<1>14. NamesInv'
  <2>1. PICK k \in Nat : k = Len(params)
    BY <1>1, ParamNames
  <2>2. PICK made \in [1 .. k -> Target] :
          /\ made = [i \in DOMAIN params |-> ParamName(params, i)]
          /\ \A i \in 1 .. k : made[i].id = currGlobalInt + i - 1
    BY <1>1, <2>1, ParamNames
  <2>3. /\ currGlobalInt' \in 0 .. MaxCounter
        /\ currGlobalInt' = currGlobalInt + k
        /\ objects' \in Seq(Target)
        /\ Numbered'
    <3>1. currGlobalInt' = CounterAfter(k) /\ objects' = objects \o made
      BY <2>1, <2>2, Zenon DEF resolveFunctionDeclaration
    <3> QED
      BY <1>1, <2>1, <2>2, <3>1, MakeNames
  <2>4. symbolTable' = InsertSymbols(n, params, storageClass)
    BY Zenon DEF resolveFunctionDeclaration
  <2>5. /\ DOMAIN symbolTable' \subseteq Target
        /\ \A t \in DOMAIN symbolTable' : t.id < currGlobalInt + Len(params)
    BY <1>1, <2>4, InsertFacts, Zenon
  <2>6. TableBehind'
    BY <2>1, <2>3, <2>5 DEF TableBehind
  <2> QED
    BY <2>3, <2>5, <2>6 DEF NamesInv
<1>15. Said'
  BY DEF resolveFunctionDeclaration, Accepted, Said
<1> QED
  BY <1>13, <1>14, <1>15, Parts, PTL

LEMMA LocalStep ==
  ASSUME IInv, NEW n \in Name, NEW storageClass \in StorageClass,
         resolveLocalVarDeclaration(n, storageClass)
  PROVE  IInv'
<1>1. MapsInv /\ NamesInv /\ Said
  BY Parts
<1>2. CASE Reject(Conflict(n, storageClass = "extern"))
  <2>1. Conflict(n, storageClass = "extern").kind = "conflict"
    BY DEF Conflict
  <2> QED
    BY <1>2, <2>1, RejectStep
<1>3. CASE maps' = maps /\ verdict' = Accepted
           /\ UNCHANGED <<currGlobalInt, symbolTable, objects>>
  <2>1. MapsInv' /\ NamesInv'
    BY <1>1, <1>3, SameMaps, SameNames
  <2>2. Said'
    BY <1>3 DEF Said, Accepted
  <2> QED
    BY <2>1, <2>2, Parts, PTL
<1>4. CASE maps' = Put(n, Global(n), TRUE) /\ verdict' = Accepted
           /\ UNCHANGED <<currGlobalInt, symbolTable, objects>>
  <2>1. MapsInv'
    BY <1>1, <1>4, GlobalTarget, PutStep
  <2>2. NamesInv'
    BY <1>1, <1>4, SameNames
  <2>3. Said'
    BY <1>4 DEF Said, Accepted
  <2> QED
    BY <2>1, <2>2, <2>3, Parts, PTL
<1>5. CASE /\ currGlobalInt < MaxCounter
           /\ maps' = Put(n, UniqueName(n, currGlobalInt), FALSE)
           /\ currGlobalInt' = CounterAfter(1)
           /\ objects' = Append(objects, UniqueName(n, currGlobalInt))
           /\ verdict' = Accepted
           /\ UNCHANGED symbolTable
  <2>1. currGlobalInt \in Nat /\ MaxCounter \in Nat
    BY <1>1, BoundsAssumption DEF NamesInv
  <2>2. UniqueName(n, currGlobalInt) \in Target
        /\ UniqueName(n, currGlobalInt).id = currGlobalInt
    BY <1>5, <2>1 DEF UniqueName, Target, Linked
  <2>3. MapsInv'
    BY <1>1, <1>5, <2>2, PutStep
  <2>4. PICK made : made = <<UniqueName(n, currGlobalInt)>>
    OBVIOUS
  <2>5. made \in [1 .. 1 -> Target]
        /\ \A i \in 1 .. 1 : made[i].id = currGlobalInt + i - 1
    BY <2>1, <2>2, <2>4
  <2>6. objects' = objects \o made
    BY <1>1, <1>5, <2>2, <2>4, AppendIsConcat, Zenon DEF NamesInv
  <2>7. /\ currGlobalInt' \in 0 .. MaxCounter /\ currGlobalInt' = currGlobalInt + 1
        /\ objects' \in Seq(Target)
        /\ Numbered'
    <3>1. currGlobalInt + 1 <= MaxCounter /\ 1 \in Nat
      BY <1>5, <2>1
    <3> QED
      BY <1>1, <1>5, <2>5, <2>6, <3>1, MakeNames, Zenon
  <2>8. TableBehind'
    <3>1. \A t \in DOMAIN symbolTable : t.id \in Int /\ t.id < currGlobalInt
      <4>1. Linked .. MaxCounter \subseteq Int
        BY <2>1 DEF Linked
      <4> QED
        BY <1>1, <4>1 DEF NamesInv, TableBehind, Target
    <3> QED
      BY <1>5, <2>1, <2>7, <3>1 DEF TableBehind
  <2>9. NamesInv'
    BY <1>1, <1>5, <2>7, <2>8 DEF NamesInv
  <2>10. Said'
    BY <1>5 DEF Said, Accepted
  <2> QED
    BY <2>3, <2>9, <2>10, Parts, PTL
<1> QED
  BY <1>2, <1>3, <1>4, <1>5, Zenon DEF resolveLocalVarDeclaration

\* Opening and closing scopes.
LEMMA ScopeStep ==
  ASSUME IInv, EnterScope \/ LeaveScope
  PROVE  IInv'
<1>1. MapsInv /\ NamesInv
  BY Parts
<1>2. PICK L : L = Len(maps)
  OBVIOUS
<1>3. maps \in Seq(Map) /\ maps # <<>> /\ Mirror(maps) /\ maps[L] \in Map
  BY <1>1, <1>2 DEF MapsInv
<1>4. CASE EnterScope
  <2>1. PICK g : g = copySemanticIdentifierMap(maps[L])
    OBVIOUS
  <2>2. /\ g \in Map /\ DOMAIN maps[L] \subseteq DOMAIN g
        /\ \A x \in DOMAIN g :
             x \in DOMAIN maps[L] /\ g[x].value = maps[L][x].value
    BY <1>3, <2>1, CopyFacts
  <2>3. Append(maps, g) # <<>>
    BY <1>3, <2>2
  <2>4. maps' = Append(maps, g)
    BY <1>2, <1>4, <2>1 DEF EnterScope, varMap
  <2>5. maps' \in Seq(Map) /\ maps' # <<>> /\ Mirror(maps')
    BY <1>2, <1>3, <2>2, <2>3, <2>4, PushMirror, Zenon
  <2>6. MapsInv'
    BY <2>5 DEF MapsInv, Mirror, Innermost, Bound
  <2>7. NamesInv'
    BY <1>1, <1>4, SameNames DEF EnterScope
  <2>8. Said'
    BY <1>4 DEF EnterScope, Accepted, Said
  <2> QED
    BY <2>6, <2>7, <2>8, Parts, PTL
<1>5. CASE LeaveScope
  <2>1. maps' \in Seq(Map) /\ maps' # <<>> /\ Mirror(maps')
    <3>1. maps' = SubSeq(maps, 1, Len(maps) - 1) /\ Len(maps) > 1
      BY <1>5 DEF LeaveScope
    <3> QED
      BY <1>3, <3>1, PopMirror, Zenon
  <2>2. MapsInv'
    BY <2>1 DEF MapsInv, Mirror, Innermost, Bound
  <2>3. NamesInv'
    BY <1>1, <1>5, SameNames DEF LeaveScope
  <2>4. Said'
    BY <1>5 DEF LeaveScope, Accepted, Said
  <2> QED
    BY <2>2, <2>3, <2>4, Parts, PTL
<1> QED
  BY <1>4, <1>5

(***************************************************************************)
(* The theorems.                                                           *)
(***************************************************************************)

LEMMA Initially ==
  Init => IInv
<1> SUFFICES ASSUME Init PROVE IInv
  OBVIOUS
<1>1. maps \in Seq(Map) /\ maps # <<>> /\ DOMAIN maps = {1} /\ DOMAIN maps[1] = {}
  <2>1. [n \in {} |-> 0] \in [{} -> MapEntry] /\ {} \in SUBSET Name
    OBVIOUS
  <2>2. [n \in {} |-> 0] \in Map
    BY <2>1 DEF Map
  <2> QED
    BY <2>2 DEF Init
<1>2. Mirror(maps)
  BY <1>1 DEF Mirror
<1>3. 0 \in 0 .. MaxCounter
  BY BoundsAssumption
<1>4. NamesInv
  BY <1>3 DEF Init, NamesInv, Numbered, TableBehind
<1>5. Said
  BY DEF Init, Said, Accepted
<1> QED
  BY <1>1, <1>2, <1>4, <1>5, Parts DEF MapsInv

\* Every step of the pass keeps the invariant.
LEMMA Inductive ==
  IInv /\ [Next]_vars => IInv'
<1> SUFFICES ASSUME IInv, [Next]_vars PROVE IInv'
  OBVIOUS
<1>1. MapsInv /\ NamesInv /\ Said
  BY Parts
<1>2. CASE EnterScope \/ LeaveScope
  BY <1>2, ScopeStep
<1>3. ASSUME NEW n \in Name, resolveFileScopeVarDeclaration(n) PROVE IInv'
  <2>1. MapsInv'
    BY <1>1, <1>3, GlobalTarget, PutStep DEF resolveFileScopeVarDeclaration
  <2>2. NamesInv'
    BY <1>1, <1>3, SameNames DEF resolveFileScopeVarDeclaration
  <2>3. Said'
    BY <1>3 DEF resolveFileScopeVarDeclaration, Said, Accepted
  <2> QED
    BY <2>1, <2>2, <2>3, Parts, PTL
<1>4. ASSUME NEW n \in Name, ForInitStorageClass(n) PROVE IInv'
  BY <1>4, RejectStep DEF ForInitStorageClass, Misplaced
<1>5. ASSUME NEW n \in Name, resolveIdentifier(n) PROVE IInv'
  <2>1. MapsInv' /\ NamesInv'
    BY <1>1, <1>5, SameMaps, SameNames DEF resolveIdentifier
  <2>2. Said'
    BY <1>5 DEF resolveIdentifier, Said
  <2> QED
    BY <2>1, <2>2, Parts, PTL
<1>6. ASSUME NEW n \in Name, NEW storageClass \in StorageClass,
             resolveLocalVarDeclaration(n, storageClass)
      PROVE  IInv'
  BY <1>6, LocalStep
<1>7. ASSUME NEW n \in Name, NEW storageClass \in StorageClass,
             NEW params \in ParamList, NEW hasBody \in BOOLEAN,
             RejectFunctionDeclaration(n, params, storageClass, hasBody)
      PROVE  IInv'
  <2>1. CASE Reject(Conflict(n, TRUE))
    <3>1. Conflict(n, TRUE).kind = "conflict"
      BY DEF Conflict
    <3> QED
      BY <2>1, <3>1, RejectStep
  <2>2. CASE Reject(Misplaced(n))
    BY <2>2, RejectStep DEF Misplaced
  <2>3. ASSUME NEW j \in DOMAIN params,
               Reject([kind |-> "duplicate", name |-> params[j], params |-> params])
        PROVE  IInv'
    BY <2>3, RejectStep
  <2> QED
    BY <1>7, <2>1, <2>2, <2>3, Zenon DEF RejectFunctionDeclaration
<1>8. ASSUME NEW n \in Name, NEW storageClass \in StorageClass,
             NEW params \in ParamList, NEW hasBody \in BOOLEAN,
             resolveFunctionDeclaration(n, params, storageClass, hasBody)
      PROVE  IInv'
  BY <1>8, FunctionStep
<1>9. CASE UNCHANGED vars
  <2>1. MapsInv' /\ NamesInv'
    BY <1>1, <1>9, SameMaps, SameNames DEF vars
  <2>2. Said'
    BY <1>1, <1>9 DEF Said, vars
  <2> QED
    BY <2>1, <2>2, Parts, PTL
<1> QED
  BY <1>2, <1>3, <1>4, <1>5, <1>6, <1>7, <1>8, <1>9, Zenon DEF Next

\* The invariant holds of every reachable state.
THEOREM ResolutionInvariant ==
  Spec => []IInv
<1> QED
  BY Initially, Inductive, PTL DEF Spec

\* Every state of the pass has the types its module gives: in particular the
\* file's map is never freed.
THEOREM TypeCorrect ==
  Spec => []TypeOK
<1>1. IInv => TypeOK
  BY DEF IInv, Shape, TypeOK
<1> QED
  BY <1>1, ResolutionInvariant, PTL

\* However deep the nesting, the copy of the map a scope works on answers
\* every lookup with the innermost declaration around it.
THEOREM MapsMirrorScopesAlways ==
  Spec => []MapsMirrorScopes
<1>1. IInv => MapsMirrorScopes
  <2> SUFFICES ASSUME IInv PROVE MapsMirrorScopes
    OBVIOUS
  <2>1. Mirror(maps)
    BY DEF IInv
  <2>2. \A k, n : Bound(maps, k, n) <=> Declares(k, n)
    BY DEF Bound, Declares
  <2> QED
    BY <2>1, <2>2, Zenon DEF Mirror, Innermost, MapsMirrorScopes
<1> QED
  BY <1>1, ResolutionInvariant, PTL

\* However many declarations a program has, no two variables or parameters
\* get the same unique name.
THEOREM UniqueNamesApartAlways ==
  Spec => []UniqueNamesApart
<1>1. IInv => UniqueNamesApart
  <2> SUFFICES ASSUME IInv, NEW i \in DOMAIN objects, NEW j \in DOMAIN objects,
                      objects[i] = objects[j]
               PROVE  i = j
    BY DEF UniqueNamesApart
  <2>1. objects[i].id = i - 1 /\ objects[j].id = j - 1
    BY Zenon DEF IInv, Numbered
  <2>2. i \in Int /\ j \in Int
    BY DEF IInv, Shape
  <2> QED
    BY <2>1, <2>2
<1> QED
  BY <1>1, ResolutionInvariant, PTL

\* No step of the pass replaces an entry of the symbol table.
THEOREM SymbolsKeptAlways ==
  Spec => SymbolsKept
<1>1. ASSUME IInv, [Next]_vars
      PROVE  [\A t \in DOMAIN symbolTable :
                t \in DOMAIN symbolTable' /\ symbolTable'[t] = symbolTable[t]]_vars
  <2>1. NamesInv
    BY <1>1, Parts
  <2>2. CASE symbolTable' = symbolTable
    BY <2>2
  <2>3. ASSUME NEW n \in Name, NEW storageClass \in StorageClass,
               NEW params \in ParamList, NEW hasBody \in BOOLEAN,
               resolveFunctionDeclaration(n, params, storageClass, hasBody)
        PROVE  \A t \in DOMAIN symbolTable :
                 t \in DOMAIN symbolTable' /\ symbolTable'[t] = symbolTable[t]
    <3>1. symbolTable' = InsertSymbols(n, params, storageClass)
          /\ currGlobalInt + Len(params) <= MaxCounter
      BY <2>3, Zenon DEF resolveFunctionDeclaration
    <3> QED
      BY <2>1, <3>1, InsertFacts, Zenon
  <2>4. CASE \E n \in Name, storageClass \in StorageClass,
                params \in ParamList, hasBody \in BOOLEAN :
               resolveFunctionDeclaration(n, params, storageClass, hasBody)
    BY <2>3, <2>4, Zenon
  <2>5. CASE \E n \in Name, storageClass \in StorageClass,
                params \in ParamList, hasBody \in BOOLEAN :
               RejectFunctionDeclaration(n, params, storageClass, hasBody)
    BY <2>2, <2>5 DEF RejectFunctionDeclaration, Reject
  <2>6. CASE \E n \in Name, storageClass \in StorageClass :
               resolveLocalVarDeclaration(n, storageClass)
    BY <2>2, <2>6 DEF resolveLocalVarDeclaration, Reject
  <2>7. CASE \/ EnterScope \/ LeaveScope
             \/ \E n \in Name : \/ resolveFileScopeVarDeclaration(n)
                                \/ ForInitStorageClass(n)
                                \/ resolveIdentifier(n)
    BY <2>2, <2>7 DEF EnterScope, LeaveScope, resolveFileScopeVarDeclaration,
       ForInitStorageClass, resolveIdentifier, Reject
  <2>8. CASE UNCHANGED vars
    BY <2>2, <2>8 DEF vars
  <2> QED
    BY <1>1, <2>4, <2>5, <2>6, <2>7, <2>8, Zenon DEF Next
<1> QED
  BY <1>1, ResolutionInvariant, PTL DEF Spec, SymbolsKept

(***************************************************************************)
(* What the flags of an entry mean.                                        *)
(***************************************************************************)

\* The flag for external linkage tells the linked object from the others.
FlagsTrue(map) ==
  \A n \in DOMAIN map : map[n].hasExternalLinkage <=> map[n].value = Global(n)

\* The file declares linked objects only.
AllLinked(map) == \A n \in DOMAIN map : map[n].value = Global(n)

Flagged(ms) ==
  /\ \A k \in DOMAIN ms : FlagsTrue(ms[k])
  /\ AllLinked(ms[1])

FInv == IInv /\ Flagged(maps)

(***************************************************************************)
(* Maps and the scopes they stand for.                                     *)
(***************************************************************************)

Scope == UNION {[D -> Target] : D \in SUBSET Name}

\* The bindings of a map are a scope of the language.
LEMMA DeclaredFacts ==
  ASSUME NEW map \in Map
  PROVE  /\ DeclaredIn(map) \in Scope
         /\ DOMAIN DeclaredIn(map) = {x \in DOMAIN map : map[x].isInScope}
         /\ \A x \in DOMAIN DeclaredIn(map) : DeclaredIn(map)[x] = map[x].value
<1>1. PICK D \in SUBSET Name : map \in [D -> MapEntry]
  BY DEF Map
<1>2. PICK E \in SUBSET Name : E = {x \in DOMAIN map : map[x].isInScope}
  BY <1>1
<1>3. DeclaredIn(map) = [x \in E |-> map[x].value]
  BY <1>2 DEF DeclaredIn
<1>4. \A x \in E : map[x].value \in Target
  BY <1>1, <1>2 DEF MapEntry
<1>5. DeclaredIn(map) \in [E -> Target]
  BY <1>3, <1>4
<1> QED
  BY <1>2, <1>3, <1>5 DEF Scope

LEMMA ScopesFacts ==
  ASSUME NEW ms \in Seq(Map)
  PROVE  /\ Scopes(ms) \in Seq(Scope) /\ Len(Scopes(ms)) = Len(ms)
         /\ DOMAIN Scopes(ms) = DOMAIN ms
         /\ \A k \in 1 .. Len(ms) : Scopes(ms)[k] = DeclaredIn(ms[k])
<1>1. DOMAIN ms = 1 .. Len(ms) /\ Len(ms) \in Nat
  OBVIOUS
<1>2. ASSUME NEW k \in 1 .. Len(ms) PROVE DeclaredIn(ms[k]) \in Scope
  <2>1. ms[k] \in Map
    OBVIOUS
  <2> QED
    BY <2>1, DeclaredFacts, Zenon
<1>3. Scopes(ms) = [k \in 1 .. Len(ms) |-> DeclaredIn(ms[k])]
  BY <1>1 DEF Scopes
<1>4. Scopes(ms) \in [1 .. Len(ms) -> Scope]
  BY <1>2, <1>3
<1>5. DOMAIN Scopes(ms) = 1 .. Len(ms)
      /\ \A k \in 1 .. Len(ms) : Scopes(ms)[k] = DeclaredIn(ms[k])
  BY <1>3
<1>6. Scopes(ms) \in Seq(Scope) /\ Len(Scopes(ms)) = Len(ms)
  <2>1. Scopes(ms) \in Seq(Scope)
    BY <1>1, <1>4, SeqDef
  <2> QED
    BY <1>1, <1>5, <2>1, LenProperties
<1> QED
  BY <1>1, <1>5, <1>6

\* Copied entries bind nothing.
LEMMA CopyBindsNothing ==
  ASSUME NEW map \in Map
  PROVE  DeclaredIn(copySemanticIdentifierMap(map)) = [n \in {} |-> 0]
<1>1. PICK g : g = copySemanticIdentifierMap(map)
  OBVIOUS
<1>2. {x \in DOMAIN g : g[x].isInScope} = {}
  BY <1>1, CopyFacts
<1>3. DeclaredIn(g) = [x \in {} |-> g[x].value]
  BY <1>2 DEF DeclaredIn
<1> QED
  BY <1>1, <1>3

\* A map with a new entry binds its name, and the others as before.
LEMMA PutBinds ==
  ASSUME NEW map \in Map, NEW n \in Name, NEW v \in Target, NEW linkage \in BOOLEAN
  PROVE  DeclaredIn(mapPut(map, n, v, linkage)) =
           [x \in DOMAIN DeclaredIn(map) \cup {n} |->
              IF x = n THEN v ELSE DeclaredIn(map)[x]]
<1>1. PICK e : e = [value |-> v, isInScope |-> TRUE, hasExternalLinkage |-> linkage]
  OBVIOUS
<1>2. e \in MapEntry /\ e.isInScope /\ e.value = v
  BY <1>1 DEF MapEntry
<1>3. PICK g : g = [x \in DOMAIN map \cup {n} |-> IF x = n THEN e ELSE map[x]]
  OBVIOUS
<1>4. mapPut(map, n, v, linkage) = g
  BY <1>1, <1>3, Zenon DEF mapPut
<1>5. /\ g \in Map /\ DOMAIN g = DOMAIN map \cup {n} /\ g[n] = e
      /\ \A x \in DOMAIN map : x # n => g[x] = map[x]
  BY <1>2, <1>3, PutFacts
<1>6. DOMAIN DeclaredIn(map) = {x \in DOMAIN map : map[x].isInScope}
      /\ \A x \in DOMAIN DeclaredIn(map) : DeclaredIn(map)[x] = map[x].value
  BY DeclaredFacts
<1>7. {x \in DOMAIN g : g[x].isInScope} = DOMAIN DeclaredIn(map) \cup {n}
  BY <1>2, <1>5, <1>6
<1>8. DeclaredIn(g) = [x \in DOMAIN DeclaredIn(map) \cup {n} |-> g[x].value]
  BY <1>7 DEF DeclaredIn
<1>9. \A x \in DOMAIN DeclaredIn(map) \cup {n} :
        g[x].value = IF x = n THEN v ELSE DeclaredIn(map)[x]
  BY <1>2, <1>5, <1>6
<1> QED
  BY <1>4, <1>8, <1>9

\* Put is the abstract binding of the name.
LEMMA PutIsBinding ==
  ASSUME maps \in Seq(Map), maps # <<>>,
         NEW n \in Name, NEW v \in Target, NEW linkage \in BOOLEAN
  PROVE  /\ Put(n, v, linkage) \in Seq(Map)
         /\ Len(Put(n, v, linkage)) = Len(maps)
         /\ Scopes(Put(n, v, linkage)) = Lexical!Binding(n, v)
         /\ Lexical!Binding(n, v) \in Seq(Scope)
         /\ Put(n, v, linkage)[Len(maps)] = mapPut(varMap, n, v, linkage)
         /\ \A k \in 1 .. Len(maps) : k # Len(maps) => Put(n, v, linkage)[k] = maps[k]
<1>1. PICK L : L = Len(maps)
  OBVIOUS
<1>2. PICK map \in Map :
        L \in Nat \ {0} /\ L \in 1 .. L /\ maps[L] = map /\ varMap = map
  BY <1>1 DEF varMap
<1>3. PICK g : g = mapPut(varMap, n, v, linkage)
  OBVIOUS
<1>4. g \in Map
  <2>1. PICK e : e = [value |-> v, isInScope |-> TRUE, hasExternalLinkage |-> linkage]
    OBVIOUS
  <2>2. e \in MapEntry
    BY <2>1 DEF MapEntry
  <2>3. g = [x \in DOMAIN map \cup {n} |-> IF x = n THEN e ELSE map[x]]
    BY <1>2, <1>3, <2>1, Zenon DEF mapPut
  <2> QED
    BY <2>2, <2>3, PutFacts
<1>5. PICK new : new = [maps EXCEPT ![L] = g]
  OBVIOUS
<1>6. Put(n, v, linkage) = new
  BY <1>1, <1>3, <1>5 DEF Put
<1>7. /\ new \in Seq(Map) /\ Len(new) = L /\ new[L] = g
      /\ \A k \in 1 .. L : k # L => new[k] = maps[k]
  BY <1>1, <1>4, <1>5, LastReplaced
<1>8. PICK old : old = Scopes(maps)
  OBVIOUS
<1>9. /\ old \in Seq(Scope) /\ Len(old) = L /\ DOMAIN old = 1 .. L
      /\ \A k \in 1 .. L : old[k] = DeclaredIn(maps[k])
  BY <1>1, <1>2, <1>8, ScopesFacts
<1>10. /\ Scopes(new) \in Seq(Scope) /\ Len(Scopes(new)) = L
       /\ \A k \in 1 .. L : Scopes(new)[k] = DeclaredIn(new[k])
  BY <1>7, ScopesFacts
<1>11. PICK b : b = [x \in DOMAIN old[L] \cup {n} |-> IF x = n THEN v ELSE old[L][x]]
  OBVIOUS
<1>12. DeclaredIn(g) = b
  <2>1. old[L] = DeclaredIn(map)
    BY <1>2, <1>9
  <2>2. b = [x \in DOMAIN DeclaredIn(map) \cup {n} |->
               IF x = n THEN v ELSE DeclaredIn(map)[x]]
    BY <1>11, <2>1, Zenon
  <2>3. g = mapPut(map, n, v, linkage)
    BY <1>2, <1>3, Zenon
  <2> QED
    BY <2>2, <2>3, PutBinds, ZenonT(60)
<1>13. b \in Scope
  BY <1>4, <1>12, DeclaredFacts
<1>14. Lexical!Binding(n, v) = [old EXCEPT ![L] = b]
  BY <1>8, <1>9, <1>11 DEF Lexical!Binding, Lexical!Innermost
<1>15. /\ [old EXCEPT ![L] = b] \in Seq(Scope)
       /\ Len([old EXCEPT ![L] = b]) = L
       /\ \A k \in 1 .. L : [old EXCEPT ![L] = b][k] = IF k = L THEN b ELSE old[k]
  BY <1>2, <1>9, <1>13, ExceptSeq
<1>16. \A k \in 1 .. L : Scopes(new)[k] = [old EXCEPT ![L] = b][k]
  BY <1>7, <1>9, <1>10, <1>12, <1>15
<1>17. Scopes(new) = [old EXCEPT ![L] = b]
  BY <1>10, <1>15, <1>16, SeqEqual, Zenon
<1> QED
  BY <1>1, <1>3, <1>6, <1>7, <1>14, <1>15, <1>17

\* One more map is one more scope.
LEMMA AppendScopes ==
  ASSUME NEW ms \in Seq(Map), NEW g \in Map
  PROVE  Scopes(Append(ms, g)) = Append(Scopes(ms), DeclaredIn(g))
<1>1. PICK L : L = Len(ms) /\ L \in Nat
  OBVIOUS
<1>2. PICK new : new = Append(ms, g)
  OBVIOUS
<1>3. new \in Seq(Map) /\ Len(new) = L + 1 /\ new[L + 1] = g
      /\ \A k \in 1 .. L : new[k] = ms[k]
  BY <1>1, <1>2
<1>4. DeclaredIn(g) \in Scope
  BY DeclaredFacts
<1>5. /\ Scopes(ms) \in Seq(Scope) /\ Len(Scopes(ms)) = L
      /\ \A k \in 1 .. L : Scopes(ms)[k] = DeclaredIn(ms[k])
  BY <1>1, ScopesFacts
<1>6. /\ Scopes(new) \in Seq(Scope) /\ Len(Scopes(new)) = L + 1
      /\ \A k \in 1 .. (L + 1) : Scopes(new)[k] = DeclaredIn(new[k])
  BY <1>3, ScopesFacts
<1>7. PICK appended : appended = Append(Scopes(ms), DeclaredIn(g))
  OBVIOUS
<1>8. /\ appended \in Seq(Scope) /\ Len(appended) = L + 1
      /\ appended[L + 1] = DeclaredIn(g)
      /\ \A k \in 1 .. L : appended[k] = Scopes(ms)[k]
  BY <1>4, <1>5, <1>7, AppendProperties
<1>9. \A k \in 1 .. (L + 1) : Scopes(new)[k] = appended[k]
  BY <1>1, <1>3, <1>5, <1>6, <1>8
<1>10. Scopes(new) = appended
  BY <1>6, <1>8, <1>9, SeqEqual, Zenon
<1> QED
  BY <1>2, <1>7, <1>10

\* One map less is one scope less.
LEMMA DropScope ==
  ASSUME NEW ms \in Seq(Map), Len(ms) > 1
  PROVE  Scopes(SubSeq(ms, 1, Len(ms) - 1)) = SubSeq(Scopes(ms), 1, Len(Scopes(ms)) - 1)
<1>1. PICK L : L = Len(ms) - 1 /\ L \in Nat \ {0} /\ Len(ms) = L + 1
  OBVIOUS
<1>2. /\ Scopes(ms) \in Seq(Scope) /\ Len(Scopes(ms)) = L + 1
      /\ \A k \in 1 .. (L + 1) : Scopes(ms)[k] = DeclaredIn(ms[k])
  BY <1>1, ScopesFacts
<1>3. PICK new : new = SubSeq(ms, 1, L)
  OBVIOUS
<1>4. PICK less : less = SubSeq(Scopes(ms), 1, L)
  OBVIOUS
<1>5. new \in Seq(Map) /\ Len(new) = L /\ \A k \in 1 .. L : new[k] = ms[k]
  <2>1. 1 <= L /\ L - 1 + 1 = L /\ \A i \in 1 .. L : ms[i] \in Map /\ 1 + i - 1 = i
    BY <1>1
  <2> QED
    BY <1>1, <1>3, <2>1, SubSeqProperties
<1>6. less \in Seq(Scope) /\ Len(less) = L /\ \A k \in 1 .. L : less[k] = Scopes(ms)[k]
  <2>1. 1 <= L /\ L - 1 + 1 = L /\ \A i \in 1 .. L : Scopes(ms)[i] \in Scope /\ 1 + i - 1 = i
    BY <1>1, <1>2
  <2> QED
    BY <1>1, <1>4, <2>1, SubSeqProperties
<1>7. /\ Scopes(new) \in Seq(Scope) /\ Len(Scopes(new)) = L
      /\ \A k \in 1 .. L : Scopes(new)[k] = DeclaredIn(new[k])
  BY <1>5, ScopesFacts
<1>8. ASSUME NEW k \in 1 .. L PROVE Scopes(new)[k] = less[k]
  <2>1. Scopes(new)[k] = DeclaredIn(new[k])
    BY <1>7
  <2>2. new[k] = ms[k]
    BY <1>5
  <2>3. less[k] = Scopes(ms)[k] /\ k \in 1 .. Len(ms)
    BY <1>1, <1>2, <1>6
  <2>4. Scopes(ms)[k] = DeclaredIn(ms[k])
    BY <1>1, <1>2, <2>3
  <2> QED BY <2>1, <2>2, <2>3, <2>4
<1>9. Scopes(new) = less
  BY <1>6, <1>7, <1>8, SeqEqual, Zenon
<1>10. Len(ms) - 1 = L /\ Len(Scopes(ms)) - 1 = L
  BY <1>1, <1>2
<1> QED
  BY <1>3, <1>4, <1>9, <1>10

(***************************************************************************)
(* The flags stay true.                                                    *)
(***************************************************************************)

LEMMA FlagsPut ==
  ASSUME NEW map, FlagsTrue(map), NEW n \in Name, NEW v \in Target,
         NEW linkage \in BOOLEAN, linkage <=> v = Global(n)
  PROVE  /\ FlagsTrue(mapPut(map, n, v, linkage))
         /\ AllLinked(map) /\ v = Global(n) => AllLinked(mapPut(map, n, v, linkage))
<1>1. PICK g : g = mapPut(map, n, v, linkage)
  OBVIOUS
<1>2. PICK e : e = [value |-> v, isInScope |-> TRUE, hasExternalLinkage |-> linkage]
  OBVIOUS
<1>3. e.value = v /\ e.hasExternalLinkage = linkage
  BY <1>2
<1>4. g = [x \in DOMAIN map \cup {n} |-> IF x = n THEN e ELSE map[x]]
  BY <1>1, <1>2, Zenon DEF mapPut
<1>5. /\ DOMAIN g = DOMAIN map \cup {n} /\ g[n] = e
      /\ \A x \in DOMAIN map : x # n => g[x] = map[x]
  BY <1>4
<1>6. FlagsTrue(g)
  BY <1>3, <1>5 DEF FlagsTrue
<1>7. AllLinked(map) /\ v = Global(n) => AllLinked(g)
  BY <1>3, <1>5 DEF AllLinked
<1> QED
  BY <1>1, <1>6, <1>7

LEMMA FlagsCopy ==
  ASSUME NEW map \in Map, FlagsTrue(map)
  PROVE  FlagsTrue(copySemanticIdentifierMap(map))
<1>1. PICK D \in SUBSET Name : map \in [D -> MapEntry]
  BY DEF Map
<1>2. PICK g : g = copySemanticIdentifierMap(map)
  OBVIOUS
<1>3. DOMAIN g = D /\ \A x \in D : g[x] = [map[x] EXCEPT !.isInScope = FALSE]
  BY <1>1, <1>2 DEF copySemanticIdentifierMap
<1>4. \A x \in D : g[x].value = map[x].value
                  /\ g[x].hasExternalLinkage = map[x].hasExternalLinkage
  BY <1>1, <1>3 DEF MapEntry
<1> QED
  BY <1>1, <1>2, <1>3, <1>4 DEF FlagsTrue

Distinct(params) == \A j \in DOMAIN params : ~Duplicate(params, j)

\* What the map of the parameters has: their names, numbered from the counter,
\* and what it was made from.
LEMMA ParamsEntries ==
  ASSUME NamesInv, NEW map \in Map, NEW params \in ParamList,
         currGlobalInt + Len(params) <= MaxCounter,
         Distinct(params),
         NEW g, g = resolveParams(map, params)
  PROVE  /\ \A x : x \in DOMAIN g <=>
              x \in DOMAIN map \/ \E i \in DOMAIN params : params[i] = x
         /\ \A i \in DOMAIN params :
              /\ g[params[i]].value = ParamName(params, i)
              /\ g[params[i]].isInScope
              /\ ~g[params[i]].hasExternalLinkage
         /\ \A x \in DOMAIN map :
              (\A i \in DOMAIN params : params[i] # x) => g[x] = map[x]
<1>1. Len(params) \in Nat /\ DOMAIN params = 1 .. Len(params)
  BY ParamNames
<1>2. \A i, j \in DOMAIN params : params[i] = params[j] => i = j
  BY <1>1 DEF Distinct, Duplicate
<1>3. PICK P : P = {params[i] : i \in DOMAIN params}
  OBVIOUS
<1>4. PICK entry : entry = [x \in P |->
        [value |-> ParamName(params, CHOOSE i \in DOMAIN params : params[i] = x),
         isInScope |-> TRUE, hasExternalLinkage |-> FALSE]]
  OBVIOUS
<1>5. ASSUME NEW i \in DOMAIN params
      PROVE  entry[params[i]] = [value |-> ParamName(params, i), isInScope |-> TRUE,
                                 hasExternalLinkage |-> FALSE]
  <2>1. (CHOOSE j \in DOMAIN params : params[j] = params[i]) = i
    BY <1>2
  <2>2. params[i] \in P
    BY <1>3
  <2> QED
    BY <1>4, <2>1, <2>2
<1>6. g = [x \in DOMAIN map \cup P |-> IF x \in P THEN entry[x] ELSE map[x]]
  <2>1. \A x : (\E i \in DOMAIN params : params[i] = x) <=> x \in P
    BY <1>3
  <2>2. g = [x \in DOMAIN map \cup P |->
              IF x \in P
              THEN [value |-> ParamName(params, CHOOSE i \in DOMAIN params : params[i] = x),
                    isInScope |-> TRUE, hasExternalLinkage |-> FALSE]
              ELSE map[x]]
    BY <2>1, <1>3, Zenon DEF resolveParams
  <2> QED
    BY <2>2, <1>4
<1>7. /\ DOMAIN g = DOMAIN map \cup P
      /\ \A x \in P : g[x] = entry[x]
      /\ \A x \in DOMAIN map : x \notin P => g[x] = map[x]
  BY <1>6
<1>8. ASSUME NEW i \in DOMAIN params
      PROVE  /\ g[params[i]].value = ParamName(params, i)
             /\ g[params[i]].isInScope
             /\ ~g[params[i]].hasExternalLinkage
  <2>1. g[params[i]] = entry[params[i]]
    BY <1>3, <1>7
  <2>2. PICK v : v = ParamName(params, i)
    OBVIOUS
  <2>3. g[params[i]] = [value |-> v, isInScope |-> TRUE, hasExternalLinkage |-> FALSE]
    BY <1>5, <2>1, <2>2, Zenon
  <2>4. g[params[i]].value = v /\ g[params[i]].isInScope
        /\ ~g[params[i]].hasExternalLinkage
    BY <2>3
  <2> QED
    BY <2>2, <2>4
<1> QED
  BY <1>3, <1>7, <1>8

LEMMA FlagsParams ==
  ASSUME NamesInv, NEW map \in Map, FlagsTrue(map), NEW params \in ParamList,
         currGlobalInt + Len(params) <= MaxCounter,
         Distinct(params)
  PROVE  FlagsTrue(resolveParams(map, params))
<1>1. PICK g : g = resolveParams(map, params)
  OBVIOUS
<1>2. /\ \A x : x \in DOMAIN g <=>
              x \in DOMAIN map \/ \E i \in DOMAIN params : params[i] = x
      /\ \A i \in DOMAIN params :
              /\ g[params[i]].value = ParamName(params, i)
              /\ g[params[i]].isInScope
              /\ ~g[params[i]].hasExternalLinkage
      /\ \A x \in DOMAIN map :
              (\A i \in DOMAIN params : params[i] # x) => g[x] = map[x]
  BY <1>1, ParamsEntries
<1>3. ASSUME NEW x \in DOMAIN g
      PROVE  g[x].hasExternalLinkage <=> g[x].value = Global(x)
  <2>1. CASE \E i \in DOMAIN params : params[i] = x
    <3>1. PICK i \in DOMAIN params : params[i] = x
      BY <2>1
    <3>2. ParamName(params, i).id = currGlobalInt + i - 1
          /\ i \in Nat \ {0} /\ currGlobalInt \in Nat
      BY ParamNames DEF NamesInv
    <3>3. ParamName(params, i) # Global(x)
      <4>1. Global(x).id = -1
        BY DEF Global, Linked
      <4> QED
        BY <3>2, <4>1
    <3> QED
      BY <1>2, <3>1, <3>3
  <2>2. CASE \A i \in DOMAIN params : params[i] # x
    BY <1>2, <2>2 DEF FlagsTrue
  <2> QED
    BY <2>1, <2>2
<1> QED
  BY <1>1, <1>3 DEF FlagsTrue

\* The flags of a stack of maps after a declaration.
LEMMA FlaggedPut ==
  ASSUME maps \in Seq(Map), maps # <<>>, Flagged(maps),
         NEW n \in Name, NEW v \in Target, NEW linkage \in BOOLEAN,
         linkage <=> v = Global(n), Len(maps) = 1 => linkage
  PROVE  Flagged(Put(n, v, linkage))
<1>1. PICK L : L = Len(maps) /\ L \in Nat \ {0} /\ DOMAIN maps = 1 .. L
  OBVIOUS
<1>2. PICK new : new = Put(n, v, linkage)
  OBVIOUS
<1>3. PICK map : map = varMap /\ map = maps[L]
  BY <1>1 DEF varMap
<1>4. /\ new \in Seq(Map) /\ Len(new) = L
      /\ new[L] = mapPut(map, n, v, linkage)
      /\ \A k \in 1 .. L : k # L => new[k] = maps[k]
  BY <1>1, <1>2, <1>3, PutIsBinding
<1>5. DOMAIN new = 1 .. L
  BY <1>4, LenProperties, Zenon
<1>6. FlagsTrue(map) /\ \A k \in 1 .. L : FlagsTrue(maps[k])
  BY <1>1, <1>3 DEF Flagged
<1>7. /\ FlagsTrue(new[L])
      /\ AllLinked(map) /\ v = Global(n) => AllLinked(new[L])
  BY <1>4, <1>6, FlagsPut
<1>8. \A k \in 1 .. L : FlagsTrue(new[k])
  BY <1>4, <1>6, <1>7
<1>9. AllLinked(new[1])
  <2>1. CASE L = 1
    BY <1>1, <1>3, <1>7, <2>1 DEF Flagged
  <2>2. CASE L # 1
    <3>1. 1 \in 1 .. L
      BY <1>1
    <3> QED
      BY <1>4, <2>2, <3>1 DEF Flagged
  <2> QED
    BY <2>1, <2>2
<1> QED
  BY <1>2, <1>5, <1>8, <1>9 DEF Flagged

LEMMA FlaggedPush ==
  ASSUME NEW ms \in Seq(Map), ms # <<>>, Flagged(ms), NEW g \in Map, FlagsTrue(g)
  PROVE  Flagged(Append(ms, g))
<1>1. PICK L : L = Len(ms) /\ L \in Nat \ {0} /\ DOMAIN ms = 1 .. L
  OBVIOUS
<1>2. PICK new : new = Append(ms, g)
  OBVIOUS
<1>3. DOMAIN new = 1 .. (L + 1) /\ new[L + 1] = g
      /\ \A k \in 1 .. L : new[k] = ms[k]
  BY <1>1, <1>2
<1>4. \A k \in 1 .. (L + 1) : FlagsTrue(new[k])
  BY <1>1, <1>3 DEF Flagged
<1>5. AllLinked(new[1])
  BY <1>1, <1>3 DEF Flagged
<1> QED
  BY <1>2, <1>3, <1>4, <1>5 DEF Flagged

LEMMA FlaggedDrop ==
  ASSUME NEW ms \in Seq(Map), Len(ms) > 1, Flagged(ms)
  PROVE  Flagged(SubSeq(ms, 1, Len(ms) - 1))
<1>1. PICK L : L = Len(ms) - 1 /\ L \in Nat \ {0} /\ DOMAIN ms = 1 .. (L + 1)
  OBVIOUS
<1>2. PICK new : new = SubSeq(ms, 1, L)
  OBVIOUS
<1>3. new \in Seq(Map) /\ Len(new) = L /\ \A k \in 1 .. L : new[k] = ms[k]
  <2>1. 1 <= L /\ L - 1 + 1 = L /\ \A i \in 1 .. L : ms[i] \in Map /\ 1 + i - 1 = i
    BY <1>1
  <2> QED
    BY <1>1, <1>2, <2>1, SubSeqProperties
<1>4. DOMAIN new = 1 .. L
  BY <1>3, LenProperties, Zenon
<1> QED
  BY <1>1, <1>2, <1>3, <1>4 DEF Flagged

LEMMA GlobalFlag ==
  ASSUME NEW n \in Name
  PROVE  TRUE \in BOOLEAN /\ (TRUE <=> Global(n) = Global(n))
OBVIOUS

\* The maps a function declaration leaves, its body's among them.
LEMMA FunctionMaps ==
  ASSUME FInv, NEW n \in Name, NEW params \in ParamList,
         NEW storageClass \in StorageClass, NEW hasBody \in BOOLEAN,
         resolveFunctionDeclaration(n, params, storageClass, hasBody)
  PROVE  \E declared \in Seq(Map), inner \in Map, g \in Map :
           /\ declared = Put(n, Global(n), TRUE)
           /\ declared # <<>> /\ Len(declared) = Len(maps)
           /\ inner = copySemanticIdentifierMap(declared[Len(maps)])
           /\ g = resolveParams(inner, params)
           /\ declared[Len(maps)] \in Map
           /\ maps' = IF hasBody THEN Append(declared, g) ELSE declared
<1>1. MapsInv /\ NamesInv /\ currGlobalInt \in Nat
      /\ currGlobalInt + Len(params) <= MaxCounter
  BY Parts DEF FInv, resolveFunctionDeclaration, NamesInv
<1>2. PICK declared : declared = Put(n, Global(n), TRUE)
  OBVIOUS
<1>3. declared \in Seq(Map) /\ Len(declared) = Len(maps) /\ declared # <<>>
  <2>1. Global(n) \in Target /\ TRUE \in BOOLEAN
    BY GlobalTarget
  <2> QED
    BY <1>1, <1>2, <2>1, PutMirror, Zenon DEF MapsInv
<1>4. PICK L : L = Len(maps) /\ L \in Nat \ {0}
  BY <1>1 DEF MapsInv
<1>5. declared[L] \in Map
  BY <1>3, <1>4
<1>6. PICK inner : inner = copySemanticIdentifierMap(declared[L])
  OBVIOUS
<1>7. inner \in Map
  BY <1>5, <1>6, CopyFacts
<1>8. PICK g : g = resolveParams(inner, params)
  OBVIOUS
<1>9. g \in Map
  BY <1>1, <1>7, <1>8, ParamsFacts, Zenon
<1>10. maps' = IF hasBody THEN Append(declared, g) ELSE declared
  BY <1>2, <1>4, <1>6, <1>8, Zenon DEF resolveFunctionDeclaration
<1> QED
  BY <1>2, <1>3, <1>4, <1>5, <1>6, <1>7, <1>8, <1>9, <1>10, Zenon

\* Every step of the pass keeps the flags true.
LEMMA FlaggedStep ==
  ASSUME FInv, [Next]_vars
  PROVE  Flagged(maps')
<1>1. MapsInv /\ NamesInv /\ Flagged(maps)
  BY Parts DEF FInv
<1>2. maps \in Seq(Map) /\ maps # <<>>
  BY <1>1 DEF MapsInv
<1> DEFINE L == Len(maps)
<1>12. L \in Nat \ {0}
  BY <1>2
<1> HIDE DEF L
<1>3. CASE maps' = maps
  BY <1>1, <1>3
<1>4. ASSUME NEW n \in Name, maps' = Put(n, Global(n), TRUE) PROVE Flagged(maps')
  BY <1>1, <1>2, <1>4, GlobalTarget, FlaggedPut
<1>5. CASE EnterScope
  <2>1. PICK map \in Map : map = varMap /\ FlagsTrue(map)
    BY <1>1, <1>2 DEF varMap, Flagged
  <2>2. PICK g \in Map : g = copySemanticIdentifierMap(map) /\ FlagsTrue(g)
    BY <2>1, CopyFacts, FlagsCopy
  <2>3. maps' = Append(maps, g)
    BY <1>5, <2>1, <2>2 DEF EnterScope
  <2> QED
    BY <1>1, <1>2, <2>2, <2>3, FlaggedPush
<1>6. CASE LeaveScope
  BY <1>1, <1>2, <1>6, FlaggedDrop DEF LeaveScope
<1>7. ASSUME NEW n \in Name, NEW storageClass \in StorageClass,
             resolveLocalVarDeclaration(n, storageClass)
      PROVE  Flagged(maps')
  <2>1. CASE maps' = Put(n, UniqueName(n, currGlobalInt), FALSE)
             /\ currGlobalInt < MaxCounter
    <3>1. currGlobalInt \in Nat /\ MaxCounter \in Nat
      BY <1>1, BoundsAssumption DEF NamesInv
    <3>2. UniqueName(n, currGlobalInt) \in Target
      BY <2>1, <3>1 DEF UniqueName, Target, Linked
    <3>3. UniqueName(n, currGlobalInt) # Global(n)
      <4>1. UniqueName(n, currGlobalInt).id = currGlobalInt /\ Global(n).id = -1
        BY DEF UniqueName, Global, Linked
      <4> QED
        BY <3>1, <4>1
    <3>4. Len(maps) # 1
      <4>1. Len(maps) > 1
        BY <1>7, Zenon DEF resolveLocalVarDeclaration
      <4>2. L > 1
        BY <4>1 DEF L
      <4>3. L # 1
        BY <1>12, <4>2
      <4> QED
        BY <4>3 DEF L
    <3>5. /\ FALSE \in BOOLEAN /\ (FALSE <=> UniqueName(n, currGlobalInt) = Global(n))
          /\ Len(maps) = 1 => FALSE
      BY <3>3, <3>4
    <3>6. Flagged(Put(n, UniqueName(n, currGlobalInt), FALSE))
      BY <1>1, <1>2, <3>2, <3>5, FlaggedPut, Zenon
    <3> QED
      BY <2>1, <3>6
  <2> QED
    BY <1>3, <1>4, <1>7, <2>1 DEF resolveLocalVarDeclaration, Reject
<1>8. ASSUME NEW n \in Name, NEW storageClass \in StorageClass,
             NEW params \in ParamList, NEW hasBody \in BOOLEAN,
             resolveFunctionDeclaration(n, params, storageClass, hasBody)
      PROVE  Flagged(maps')
  <2>1. PICK declared \in Seq(Map), inner \in Map, g \in Map :
           /\ declared = Put(n, Global(n), TRUE)
           /\ declared # <<>> /\ Len(declared) = Len(maps)
           /\ inner = copySemanticIdentifierMap(declared[Len(maps)])
           /\ g = resolveParams(inner, params)
           /\ declared[Len(maps)] \in Map
           /\ maps' = IF hasBody THEN Append(declared, g) ELSE declared
    BY <1>8, FunctionMaps, Zenon
  <2>2. Flagged(declared)
    BY <1>1, <1>2, <2>1, GlobalTarget, FlaggedPut
  <2>3. FlagsTrue(inner)
    <3>1. PICK map \in Map : map = declared[Len(maps)]
      BY <2>1
    <3>2. Len(maps) \in DOMAIN declared
      <4>1. DOMAIN declared = 1 .. L
        BY <2>1, LenProperties, Zenon DEF L
      <4>2. L \in 1 .. L
        BY <1>12
      <4> QED
        BY <4>1, <4>2 DEF L
    <3>3. FlagsTrue(map)
      BY <2>2, <3>1, <3>2 DEF Flagged
    <3>4. inner = copySemanticIdentifierMap(map)
      BY <2>1, <3>1, Zenon
    <3> QED
      BY <3>3, <3>4, FlagsCopy
  <2>4. FlagsTrue(g)
    <3>1. currGlobalInt + Len(params) <= MaxCounter
      BY <1>8, Zenon DEF resolveFunctionDeclaration
    <3>2. Distinct(params)
      BY <1>8, Zenon DEF resolveFunctionDeclaration, Distinct
    <3> QED
      BY <1>1, <2>1, <2>3, <3>1, <3>2, FlagsParams
  <2>5. Flagged(Append(declared, g))
    BY <2>1, <2>2, <2>4, FlaggedPush
  <2> QED
    BY <2>1, <2>2, <2>5, Zenon
<1>9. CASE \E n \in Name : \/ resolveFileScopeVarDeclaration(n)
                           \/ ForInitStorageClass(n) \/ resolveIdentifier(n)
  BY <1>3, <1>4, <1>9
     DEF resolveFileScopeVarDeclaration, ForInitStorageClass, resolveIdentifier, Reject
<1>10. CASE \E n \in Name, storageClass \in StorageClass, params \in ParamList,
               hasBody \in BOOLEAN :
              RejectFunctionDeclaration(n, params, storageClass, hasBody)
  BY <1>3, <1>10 DEF RejectFunctionDeclaration, Reject
<1>11. CASE UNCHANGED vars
  BY <1>3, <1>11 DEF vars
<1> QED
  BY <1>5, <1>6, <1>7, <1>8, <1>9, <1>10, <1>11, Zenon DEF Next

\* The flags are true in every reachable state.
LEMMA FlagInvariant ==
  Spec => []FInv
<1>1. Init => FInv
  <2> SUFFICES ASSUME Init PROVE FInv
    OBVIOUS
  <2>1. IInv
    BY Initially
  <2>2. maps = <<[n \in {} |-> 0]>>
    BY DEF Init
  <2>3. DOMAIN maps = {1} /\ DOMAIN maps[1] = {}
    BY <2>2
  <2>4. Flagged(maps)
    BY <2>3 DEF Flagged, FlagsTrue, AllLinked
  <2> QED
    BY <2>1, <2>4 DEF FInv
<1>2. FInv /\ [Next]_vars => FInv'
  <2> SUFFICES ASSUME FInv, [Next]_vars PROVE FInv'
    OBVIOUS
  <2>1. IInv'
    BY Inductive DEF FInv
  <2>2. Flagged(maps')
    BY FlaggedStep
  <2>3. Flagged(maps)'
    BY <2>2 DEF Flagged, FlagsTrue, AllLinked
  <2> QED
    BY <2>1, <2>3 DEF FInv
<1> QED
  BY <1>1, <1>2, PTL DEF Spec

(***************************************************************************)
(* The steps of the language.                                              *)
(***************************************************************************)

\* What the invariant says of the innermost scope.
LEMMA InnermostScope ==
  ASSUME FInv, NEW n \in Name
  PROVE  /\ Len(maps) \in Nat \ {0} /\ Len(Scopes(maps)) = Len(maps)
         /\ n \in DOMAIN Scopes(maps)[Len(maps)] <=> isFromCurrentBlock(n)
         /\ isFromCurrentBlock(n) => Scopes(maps)[Len(maps)][n] = varMap[n].value
         /\ Lexical!MayLink(n) <=>
              (isFromCurrentBlock(n) => varMap[n].hasExternalLinkage)
<1>1. maps \in Seq(Map) /\ maps # <<>> /\ Flagged(maps)
  BY Parts DEF FInv, MapsInv
<1>2. PICK L \in Nat \ {0} : L = Len(maps) /\ L \in 1 .. L /\ DOMAIN maps = 1 .. L
  BY <1>1
<1>3. PICK map \in Map : map = maps[L] /\ map = varMap
  BY <1>1, <1>2 DEF varMap
<1>4. Scopes(maps)[L] = DeclaredIn(map) /\ Len(Scopes(maps)) = L
  BY <1>1, <1>2, <1>3, ScopesFacts
<1>5. /\ n \in DOMAIN DeclaredIn(map) <=> isFromCurrentBlock(n)
      /\ isFromCurrentBlock(n) => DeclaredIn(map)[n] = map[n].value
  BY <1>3, DeclaredFacts DEF isFromCurrentBlock
<1>6. n \in DOMAIN map => (map[n].hasExternalLinkage <=> map[n].value = Global(n))
  BY <1>1, <1>2, <1>3 DEF Flagged, FlagsTrue
<1>7. Lexical!MayLink(n) <=>
        (n \in DOMAIN DeclaredIn(map) => DeclaredIn(map)[n] = Global(n))
  BY <1>2, <1>4 DEF Lexical!MayLink, Lexical!Innermost
<1>8. Lexical!MayLink(n) <=> (isFromCurrentBlock(n) => map[n].hasExternalLinkage)
  <2>1. isFromCurrentBlock(n) => n \in DOMAIN map
    BY <1>3 DEF isFromCurrentBlock
  <2> QED
    BY <1>5, <1>6, <1>7, <2>1, Zenon
<1> QED
  BY <1>2, <1>3, <1>4, <1>5, <1>8

LEMMA GoingIsRunning == Lexical!Going <=> Running
BY DEF Lexical!Going, Running

\* Names with numbers the counter has not reached are fresh objects.
LEMMA FreshNames ==
  ASSUME NamesInv, NEW T \in SUBSET Target,
         \A t \in T : t.id \in Nat /\ t.id >= currGlobalInt
  PROVE  Lexical!Fresh(T)
<1>1. currGlobalInt \in Nat /\ objects \in Seq(Target)
      /\ Len(objects) = currGlobalInt
      /\ \A i \in DOMAIN objects : objects[i].id = i - 1
  <2>1. currGlobalInt \in Nat
    BY DEF NamesInv
  <2> QED
    BY <2>1, Zenon DEF NamesInv, Numbered
<1>2. DOMAIN objects = 1 .. currGlobalInt
  BY <1>1, LenProperties, Zenon
<1>3. ASSUME NEW t \in T, t \in Created(objects) PROVE FALSE
  <2>1. PICK i \in 1 .. currGlobalInt : t = objects[i]
    BY <1>2, <1>3 DEF Created
  <2>2. t.id = i - 1
    BY <1>1, <1>2, <2>1
  <2> QED
    BY <1>1, <2>1, <2>2
<1>4. ASSUME NEW n \in Name PROVE [m \in Name |-> Global(m)][n] \notin T
  <2>1. Global(n).id = -1
    BY DEF Global, Linked
  <2> QED
    BY <2>1
<1> QED
  BY <1>3, <1>4 DEF Lexical!Fresh

LEMMA NothingFresh ==
  Lexical!Fresh({})
BY DEF Lexical!Fresh

\* A declaration that is refused.
LEMMA RefuseStep ==
  ASSUME FInv, Running, NEW n \in Name, NEW why, Reject(why),
         \/ ~Lexical!MayLink(n) /\ why = Conflict(n, TRUE)
         \/ isFromCurrentBlock(n) /\ why = Conflict(n, FALSE)
         \/ Len(maps) > 1 /\ why = Misplaced(n)
  PROVE  Lexical!Refuse(n)
<1>1. verdict' = why
      /\ maps' = maps /\ objects' = objects
  BY DEF Reject
<1>2. Lexical!Going
  BY GoingIsRunning
<1>3. Scopes(maps)' = Scopes(maps) /\ Created(objects)' = Created(objects)
  BY <1>1
<1>4. isFromCurrentBlock(n) => n \in DOMAIN Scopes(maps)[Lexical!Innermost]
  BY InnermostScope DEF Lexical!Innermost
<1>5. Len(Scopes(maps)) = Len(maps)
  BY InnermostScope
<1> QED
  BY <1>1, <1>2, <1>3, <1>4, <1>5 DEF Lexical!Refuse, Conflict, Misplaced

\* Two parameters of one name.
LEMMA RefuseDuplicate ==
  ASSUME FInv, Running, NEW params \in ParamList, NEW j \in DOMAIN params,
         Duplicate(params, j),
         Reject([kind |-> "duplicate", name |-> params[j], params |-> params])
  PROVE  Lexical!Refuse(params[j])
<1>1. PICK why : why = [kind |-> "duplicate", name |-> params[j], params |-> params]
  OBVIOUS
<1>2. verdict' = why
      /\ maps' = maps /\ objects' = objects
  BY <1>1, Zenon DEF Reject
<1>3. Lexical!Going
  BY GoingIsRunning
<1>4. Scopes(maps)' = Scopes(maps) /\ Created(objects)' = Created(objects)
  BY <1>2
<1>5. why.kind = "duplicate" /\ why.params = params
  BY <1>1
<1>6. PICK i \in DOMAIN params : i # j /\ params[i] = params[j]
  <2>1. PICK i \in 1 .. (j - 1) : params[i] = params[j]
    BY DEF Duplicate
  <2>2. PICK k \in 0 .. MaxParams : params \in [1 .. k -> Name]
    BY DEF ParamList
  <2>3. i \in DOMAIN params /\ i # j
    BY <2>2, BoundsAssumption
  <2> QED
    BY <2>1, <2>3
<1>7. \E a, b \in DOMAIN verdict'.params :
        a # b /\ verdict'.params[a] = params[j] /\ verdict'.params[b] = params[j]
  BY <1>2, <1>5, <1>6
<1> QED
  BY <1>2, <1>3, <1>4, <1>5, <1>7 DEF Lexical!Refuse

\* A declaration with linkage.
LEMMA LinkedStep ==
  ASSUME FInv, Running, NEW n \in Name,
         isFromCurrentBlock(n) => varMap[n].hasExternalLinkage,
         maps' = Put(n, Global(n), TRUE), verdict' = Accepted, objects' = objects
  PROVE  Lexical!DeclareLinked(n)
<1>1. maps \in Seq(Map) /\ maps # <<>>
  BY Parts DEF FInv, MapsInv
<1>2. Lexical!Going /\ Lexical!MayLink(n)
  BY GoingIsRunning, InnermostScope
<1>3. Scopes(maps') = Lexical!Binding(n, Global(n))
  BY <1>1, GlobalTarget, PutIsBinding
<1>4. Scopes(maps)' = Lexical!Binding(n, [m \in Name |-> Global(m)][n])
  BY <1>3
<1>5. Created(objects)' = Created(objects)
  BY DEF Created
<1>6. Created(objects)' \ Created(objects) = {}
  BY <1>5
<1>7. Lexical!Fresh(Created(objects)' \ Created(objects))
  BY <1>6, NothingFresh
<1> QED
  BY <1>2, <1>4, <1>5, <1>7 DEF Lexical!DeclareLinked, Lexical!Accepted, Accepted

\* The parameters' map declares them and nothing else.
LEMMA ParamsScope ==
  ASSUME NamesInv, NEW outer \in Map, NEW params \in ParamList,
         currGlobalInt + Len(params) <= MaxCounter, Distinct(params),
         NEW inner \in Map, inner = copySemanticIdentifierMap(outer),
         NEW g \in Map, g = resolveParams(inner, params)
  PROVE  /\ DOMAIN DeclaredIn(g) \subseteq Name
         /\ \A p \in DOMAIN DeclaredIn(g) : \E i \in DOMAIN params :
              p = params[i] /\ DeclaredIn(g)[p] = ParamName(params, i)
         /\ \A i \in DOMAIN params : params[i] \in DOMAIN DeclaredIn(g)
                                    /\ DeclaredIn(g)[params[i]] = ParamName(params, i)
<1>1. \A x \in DOMAIN inner : ~inner[x].isInScope
  BY CopyFacts
<1>2. /\ \A x : x \in DOMAIN g <=>
              x \in DOMAIN inner \/ \E i \in DOMAIN params : params[i] = x
      /\ \A i \in DOMAIN params :
              /\ g[params[i]].value = ParamName(params, i)
              /\ g[params[i]].isInScope
              /\ ~g[params[i]].hasExternalLinkage
      /\ \A x \in DOMAIN inner :
              (\A i \in DOMAIN params : params[i] # x) => g[x] = inner[x]
  BY ParamsEntries
<1>3. PICK d : d = DeclaredIn(g)
  OBVIOUS
<1>4. /\ d \in Scope
      /\ DOMAIN d = {x \in DOMAIN g : g[x].isInScope}
      /\ \A x \in DOMAIN d : d[x] = g[x].value
  BY <1>3, DeclaredFacts
<1>5. DOMAIN d \subseteq Name
  BY <1>4 DEF Scope
<1>6. ASSUME NEW p \in DOMAIN d
      PROVE  \E i \in DOMAIN params : p = params[i] /\ d[p] = ParamName(params, i)
  <2>1. p \in DOMAIN g /\ g[p].isInScope
    BY <1>4
  <2>2. \E i \in DOMAIN params : params[i] = p
    BY <1>1, <1>2, <2>1
  <2> QED
    BY <1>2, <1>4, <2>2
<1>7. ASSUME NEW i \in DOMAIN params
      PROVE  params[i] \in DOMAIN d /\ d[params[i]] = ParamName(params, i)
  <2>1. params[i] \in DOMAIN g /\ g[params[i]].isInScope
    BY <1>2
  <2> QED
    BY <1>2, <1>4, <2>1
<1> QED
  BY <1>3, <1>5, <1>6, <1>7

\* The names a function declaration makes.
LEMMA ParamObjects ==
  ASSUME NamesInv, NEW params \in ParamList,
         currGlobalInt + Len(params) <= MaxCounter,
         objects' = objects \o [i \in DOMAIN params |-> ParamName(params, i)],
         NEW T, T = {ParamName(params, i) : i \in DOMAIN params}
  PROVE  /\ Created(objects') = Created(objects) \cup T
         /\ Lexical!Fresh(T)
         /\ Created(objects') \ Created(objects) = T
<1>1. PICK k \in Nat : k = Len(params) /\ DOMAIN params = 1 .. k
  BY ParamNames
<1>2. PICK made \in [1 .. k -> Target] :
        /\ made = [i \in DOMAIN params |-> ParamName(params, i)]
        /\ \A i \in 1 .. k : made[i].id = currGlobalInt + i - 1
  BY <1>1, ParamNames
<1>3. T = {made[i] : i \in 1 .. k}
  BY <1>1, <1>2
<1>4. PICK os \in Seq(Target) : os = objects
  BY DEF NamesInv
<1>5. PICK new : new = os \o made
  OBVIOUS
<1>6. objects' = new
  BY <1>2, <1>4, <1>5
<1>7. made \in Seq(Target) /\ Len(made) = k
  OBVIOUS
<1>8. /\ new \in Seq(Target) /\ Len(new) = Len(os) + k
      /\ \A i \in 1 .. (Len(os) + k) :
           new[i] = IF i <= Len(os) THEN os[i] ELSE made[i - Len(os)]
  BY <1>5, <1>7, ConcatProperties, Zenon
<1>9. PICK m \in Nat : m = Len(os) /\ DOMAIN os = 1 .. m
  OBVIOUS
<1>10. DOMAIN new = 1 .. (m + k)
  BY <1>8, <1>9, LenProperties, Zenon
<1>11. Created(new) = Created(os) \cup T
  <2>1. ASSUME NEW t \in Created(new) PROVE t \in Created(os) \cup T
    <3>1. PICK i \in 1 .. (m + k) : t = new[i]
      BY <1>10 DEF Created
    <3>2. CASE i <= m
      <4>1. i \in DOMAIN os /\ t = os[i]
        BY <1>8, <1>9, <3>1, <3>2
      <4> QED
        BY <4>1 DEF Created
    <3>3. CASE i > m
      <4>1. i - m \in 1 .. k /\ t = made[i - m]
        BY <1>8, <1>9, <3>1, <3>3
      <4> QED
        BY <1>3, <4>1
    <3> QED
      BY <3>2, <3>3
  <2>2. ASSUME NEW t \in Created(os) PROVE t \in Created(new)
    <3>1. PICK i \in 1 .. m : t = os[i]
      BY <1>9 DEF Created
    <3>2. i \in 1 .. (m + k) /\ new[i] = t
      BY <1>8, <1>9, <3>1
    <3> QED
      BY <1>10, <3>2 DEF Created
  <2>3. ASSUME NEW t \in T PROVE t \in Created(new)
    <3>1. PICK i \in 1 .. k : t = made[i]
      BY <1>3
    <3>2. m + i \in 1 .. (m + k) /\ ~(m + i <= m) /\ (m + i) - m = i
      BY <1>9, <3>1
    <3>3. new[m + i] = t
      BY <1>8, <1>9, <3>1, <3>2
    <3> QED
      BY <1>10, <3>2, <3>3 DEF Created
  <2> QED
    BY <2>1, <2>2, <2>3
<1>12. currGlobalInt \in Nat
  BY DEF NamesInv
<1>13. T \in SUBSET Target /\ \A t \in T : t.id \in Nat /\ t.id >= currGlobalInt
  <2>1. ASSUME NEW t \in T
        PROVE  t \in Target /\ t.id \in Nat /\ t.id >= currGlobalInt
    <3>1. PICK i \in 1 .. k : t = made[i]
      BY <1>3
    <3>2. made[i].id = currGlobalInt + i - 1
      BY <1>2
    <3> QED
      BY <1>12, <3>1, <3>2
  <2> QED
    BY <2>1
<1>14. Lexical!Fresh(T)
  BY <1>13, FreshNames
<1>15. T \cap Created(objects) = {}
  BY <1>14 DEF Lexical!Fresh
<1> QED
  BY <1>4, <1>6, <1>11, <1>14, <1>15

LEMMA FunctionRefines ==
  ASSUME FInv, NEW n \in Name, NEW params \in ParamList,
         NEW storageClass \in StorageClass, NEW hasBody \in BOOLEAN,
         resolveFunctionDeclaration(n, params, storageClass, hasBody)
  PROVE  Lexical!DeclareLinked(n) \/ Lexical!DefineFunction(n)
<1>1. MapsInv /\ NamesInv /\ Running
      /\ currGlobalInt + Len(params) <= MaxCounter
  BY Parts, Zenon DEF FInv, resolveFunctionDeclaration
<1>2. verdict' = Accepted /\ ~FunctionConflict(n) /\ Distinct(params)
      /\ objects' = objects \o [i \in DOMAIN params |-> ParamName(params, i)]
  BY Zenon DEF resolveFunctionDeclaration, Distinct
<1>3. Lexical!Going /\ Lexical!MayLink(n)
  BY <1>1, <1>2, GoingIsRunning, InnermostScope, Zenon DEF FunctionConflict
<1>4. PICK declared \in Seq(Map), inner \in Map, g \in Map :
         /\ declared = Put(n, Global(n), TRUE)
         /\ declared # <<>> /\ Len(declared) = Len(maps)
         /\ inner = copySemanticIdentifierMap(declared[Len(maps)])
         /\ g = resolveParams(inner, params)
         /\ declared[Len(maps)] \in Map
         /\ maps' = IF hasBody THEN Append(declared, g) ELSE declared
  BY FunctionMaps, Zenon
<1>5. maps \in Seq(Map) /\ maps # <<>>
  BY <1>1 DEF MapsInv
<1>6. PICK bound : bound = Lexical!Binding(n, [m \in Name |-> Global(m)][n])
  OBVIOUS
<1>7. Scopes(declared) = bound /\ bound \in Seq(Scope)
  <2>1. bound = Lexical!Binding(n, Global(n))
    BY <1>6
  <2> QED
    BY <1>4, <1>5, <2>1, GlobalTarget, PutIsBinding
<1>8. PICK T : T = {ParamName(params, i) : i \in DOMAIN params}
  OBVIOUS
<1>9. /\ Created(objects') = Created(objects) \cup T
      /\ Lexical!Fresh(T)
      /\ Created(objects') \ Created(objects) = T
  BY <1>1, <1>2, <1>8, ParamObjects
<1>10. CASE ~hasBody
  <2>1. Scopes(maps)' = bound
    BY <1>4, <1>7, <1>10
  <2> QED
    BY <1>2, <1>3, <1>6, <1>9, <2>1 DEF Lexical!DeclareLinked, Lexical!Accepted, Accepted
<1>11. CASE hasBody
  <2>1. PICK ps : ps = DeclaredIn(g)
    OBVIOUS
  <2>2. Scopes(maps)' = Append(bound, ps)
    BY <1>4, <1>7, <1>11, <2>1, AppendScopes
  <2>3. ps \in Scope
    BY <2>1, DeclaredFacts
  <2>4. PICK new : new = Append(bound, ps)
    OBVIOUS
  <2>5. Len(new) = Len(bound) + 1 /\ new[Len(new)] = ps
    BY <1>7, <2>3, <2>4, AppendProperties
  <2>6. Len(bound) = Len(Scopes(maps))
    BY <1>4, <1>5, <1>7, ScopesFacts
  <2>7. /\ DOMAIN ps \subseteq Name
        /\ \A p \in DOMAIN ps : \E i \in DOMAIN params :
             p = params[i] /\ ps[p] = ParamName(params, i)
        /\ \A i \in DOMAIN params : params[i] \in DOMAIN ps
                                   /\ ps[params[i]] = ParamName(params, i)
    <3>1. PICK outer \in Map : outer = declared[Len(maps)]
      BY <1>4
    <3>2. inner = copySemanticIdentifierMap(outer) /\ g = resolveParams(inner, params)
      BY <1>4, <3>1, Zenon
    <3> QED
      BY <1>1, <1>2, <2>1, <3>2, ParamsScope
  <2>8. {ps[p] : p \in DOMAIN ps} = T
    BY <1>8, <2>7
  <2>9. ASSUME NEW p \in DOMAIN ps, NEW q \in DOMAIN ps, ps[p] = ps[q]
        PROVE  p = q
    <3>1. PICK i \in DOMAIN params : p = params[i] /\ ps[p] = ParamName(params, i)
      BY <2>7
    <3>2. PICK j \in DOMAIN params : q = params[j] /\ ps[q] = ParamName(params, j)
      BY <2>7
    <3>3. ParamName(params, i).id = currGlobalInt + i - 1
          /\ ParamName(params, j).id = currGlobalInt + j - 1
          /\ i \in Nat /\ j \in Nat /\ currGlobalInt \in Nat
      BY <1>1, ParamNames DEF NamesInv
    <3>4. i = j
      BY <2>9, <3>1, <3>2, <3>3
    <3> QED
      BY <3>1, <3>2, <3>4
  <2>10. Scopes(maps)' = new /\ new = Append(bound, new[Len(new)])
    BY <2>2, <2>4, <2>5
  <2>11. /\ verdict' = Lexical!Accepted
         /\ Len(Scopes(maps)') = Len(Scopes(maps)) + 1
         /\ Scopes(maps)' = Append(bound, Scopes(maps)'[Len(Scopes(maps)')])
         /\ Scopes(maps)'[Len(Scopes(maps)')] = ps
    BY <1>2, <2>4, <2>5, <2>6, <2>10 DEF Lexical!Accepted, Accepted
  <2> DEFINE last == Scopes(maps)'[Len(Scopes(maps)')]
  <2>15. last = ps
    BY <2>11
  <2> HIDE DEF last
  <2>12. /\ DOMAIN last \subseteq Name
         /\ \A p, q \in DOMAIN last : last[p] = last[q] => p = q
         /\ {last[p] : p \in DOMAIN last} = T
    BY <2>7, <2>8, <2>9, <2>15
  <2>13. /\ Lexical!Fresh({last[p] : p \in DOMAIN last})
         /\ Created(objects)' = Created(objects) \cup {last[p] : p \in DOMAIN last}
    BY <1>9, <2>12, Zenon
  <2>14. /\ verdict' = Lexical!Accepted
         /\ Len(Scopes(maps)') = Len(Scopes(maps)) + 1
         /\ Scopes(maps)' = Append(Lexical!Binding(n, [m \in Name |-> Global(m)][n]), last)
    BY <1>6, <2>11 DEF last
  <2> QED
    BY <1>3, <2>12, <2>13, <2>14, Zenon DEF Lexical!DefineFunction, last
<1> QED
  BY <1>10, <1>11

LEMMA CreatedAppend ==
  ASSUME NEW os \in Seq(Target), NEW o \in Target
  PROVE  Created(Append(os, o)) = Created(os) \cup {o}
<1>1. PICK m \in Nat : m = Len(os) /\ DOMAIN os = 1 .. m
  OBVIOUS
<1>2. PICK new : new = Append(os, o)
  OBVIOUS
<1>3. DOMAIN new = 1 .. (m + 1) /\ new[m + 1] = o /\ \A i \in 1 .. m : new[i] = os[i]
  BY <1>1, <1>2
<1>4. \A i \in 1 .. (m + 1) : i \in 1 .. m \/ i = m + 1
  BY <1>1
<1>5. \A i \in 1 .. m : i \in 1 .. (m + 1)
  BY <1>1
<1>6. m + 1 \in 1 .. (m + 1)
  BY <1>1
<1> QED
  BY <1>1, <1>2, <1>3, <1>4, <1>5, <1>6, Zenon DEF Created

LEMMA LocalRefines ==
  ASSUME FInv, NEW n \in Name, NEW storageClass \in StorageClass,
         resolveLocalVarDeclaration(n, storageClass)
  PROVE  Lexical!Refuse(n) \/ Lexical!DeclareLinked(n) \/ Lexical!DeclareLocal(n)
         \/ UNCHANGED <<Scopes(maps), Created(objects), verdict>>
<1>1. MapsInv /\ NamesInv /\ Running /\ Flagged(maps)
  BY Parts, Zenon DEF FInv, resolveLocalVarDeclaration
<1>2. maps \in Seq(Map) /\ maps # <<>>
  BY <1>1 DEF MapsInv
<1>3. Lexical!Going
  BY <1>1, GoingIsRunning
<1>4. CASE /\ isFromCurrentBlock(n)
           /\ ~(storageClass = "extern" /\ varMap[n].hasExternalLinkage)
           /\ Reject(Conflict(n, storageClass = "extern"))
  <2>1. CASE storageClass = "extern"
    <3>1. ~Lexical!MayLink(n)
      BY <1>4, <2>1, InnermostScope, Zenon
    <3>2. Conflict(n, storageClass = "extern") = Conflict(n, TRUE)
      BY <2>1
    <3> QED
      BY <1>1, <1>4, <3>1, <3>2, RefuseStep
  <2>2. CASE storageClass # "extern"
    <3>1. Conflict(n, storageClass = "extern") = Conflict(n, FALSE)
      BY <2>2
    <3> QED
      BY <1>1, <1>4, <3>1, RefuseStep
  <2> QED
    BY <2>1, <2>2
<1>5. CASE /\ isFromCurrentBlock(n)
           /\ storageClass = "extern" /\ varMap[n].hasExternalLinkage
           /\ verdict' = Accepted
           /\ UNCHANGED <<maps, currGlobalInt, symbolTable, objects>>
  <2>1. PICK L \in Nat \ {0} : L = Len(maps) /\ L \in 1 .. L /\ DOMAIN maps = 1 .. L
    BY <1>2
  <2>2. PICK map \in Map : map = maps[L] /\ map = varMap
    BY <1>2, <2>1 DEF varMap
  <2>3. /\ Lexical!MayLink(n) /\ isFromCurrentBlock(n)
        /\ n \in DOMAIN Scopes(maps)[L]
        /\ Scopes(maps)[L][n] = map[n].value
    BY <1>5, <2>1, <2>2, InnermostScope, Zenon
  <2>4. map[n].value = Global(n)
    <3>1. FlagsTrue(map)
      BY <1>1, <2>1, <2>2 DEF Flagged
    <3>2. n \in DOMAIN map
      BY <1>5, <2>2 DEF isFromCurrentBlock
    <3> QED
      BY <1>5, <2>2, <3>1, <3>2, Zenon DEF FlagsTrue
  <2>5. PICK old : old = Scopes(maps)
    OBVIOUS
  <2>6. /\ old \in Seq(Scope) /\ Len(old) = L
        /\ n \in DOMAIN old[L] /\ old[L][n] = Global(n)
    BY <1>2, <2>1, <2>3, <2>4, <2>5, ScopesFacts
  <2>7. PICK b : b = [x \in DOMAIN old[L] \cup {n} |-> IF x = n THEN Global(n) ELSE old[L][x]]
    OBVIOUS
  <2>8. b = old[L]
    <3>1. PICK D \in SUBSET Name : old[L] \in [D -> Target]
      BY <2>1, <2>6 DEF Scope
    <3> QED
      BY <2>6, <2>7, <3>1
  <2>9. Lexical!Binding(n, [m \in Name |-> Global(m)][n]) = [old EXCEPT ![L] = b]
    BY <2>5, <2>6, <2>7 DEF Lexical!Binding, Lexical!Innermost
  <2>10. [old EXCEPT ![L] = b] = old
    BY <2>6, <2>8
  <2>11. Scopes(maps)' = Lexical!Binding(n, [m \in Name |-> Global(m)][n])
    BY <1>5, <2>5, <2>9, <2>10
  <2>12. Created(objects)' \ Created(objects) = {}
         /\ Created(objects) \subseteq Created(objects)'
    BY <1>5
  <2>13. Lexical!Fresh(Created(objects)' \ Created(objects))
    BY <2>12, NothingFresh
  <2> QED
    BY <1>3, <1>5, <2>3, <2>11, <2>12, <2>13
       DEF Lexical!DeclareLinked, Lexical!Accepted, Accepted
<1>6. CASE /\ ~isFromCurrentBlock(n) /\ storageClass = "extern"
           /\ maps' = Put(n, Global(n), TRUE)
           /\ verdict' = Accepted
           /\ UNCHANGED <<currGlobalInt, symbolTable, objects>>
  BY <1>1, <1>6, LinkedStep
<1>7. CASE /\ ~isFromCurrentBlock(n) /\ storageClass # "extern"
           /\ currGlobalInt < MaxCounter
           /\ maps' = Put(n, UniqueName(n, currGlobalInt), FALSE)
           /\ currGlobalInt' = CounterAfter(1)
           /\ objects' = Append(objects, UniqueName(n, currGlobalInt))
           /\ verdict' = Accepted
           /\ UNCHANGED symbolTable
  <2>1. PICK o : o = UniqueName(n, currGlobalInt)
    OBVIOUS
  <2>2. o \in Target /\ o.id = currGlobalInt /\ currGlobalInt \in Nat
    <3>1. currGlobalInt \in Nat /\ MaxCounter \in Nat
      BY <1>1, BoundsAssumption DEF NamesInv
    <3> QED
      BY <1>7, <2>1, <3>1 DEF UniqueName, Target, Linked
  <2>3. Scopes(maps)' = Lexical!Binding(n, o)
    BY <1>2, <1>7, <2>1, <2>2, PutIsBinding
  <2>4. Lexical!Fresh({o})
    BY <1>1, <2>2, FreshNames
  <2>5. PICK os \in Seq(Target) : os = objects
    BY <1>1 DEF NamesInv
  <2>6. Created(Append(os, o)) = Created(os) \cup {o}
    BY <2>2, CreatedAppend
  <2>7. Created(objects)' = Created(objects) \cup {o}
    BY <1>7, <2>1, <2>5, <2>6
  <2>8. o \in Created(objects)' \ Created(objects)
    BY <2>4, <2>7 DEF Lexical!Fresh
  <2>9. PICK L : L = Len(maps)
    OBVIOUS
  <2>10. n \notin DOMAIN Scopes(maps)[Lexical!Innermost]
    BY <1>7, InnermostScope DEF Lexical!Innermost
  <2> QED
    BY <1>3, <1>7, <2>3, <2>4, <2>7, <2>8, <2>10
       DEF Lexical!DeclareLocal, Lexical!Accepted, Accepted
<1> QED
  BY <1>4, <1>5, <1>6, <1>7, Zenon DEF resolveLocalVarDeclaration

\* A use gets the innermost binding, and only an unbound name is refused.
LEMMA UseRefines ==
  ASSUME FInv, NEW n \in Name, resolveIdentifier(n)
  PROVE  Lexical!Use(n)
<1>1. MapsInv /\ Running
  BY Parts, Zenon DEF FInv, resolveIdentifier
<1>2. maps \in Seq(Map) /\ maps # <<>> /\ Mirror(maps)
  BY <1>1 DEF MapsInv
<1>3. PICK L \in Nat \ {0} : L = Len(maps) /\ L \in 1 .. L /\ DOMAIN maps = 1 .. L
  BY <1>2
<1>4. PICK map \in Map : map = maps[L] /\ map = varMap
  BY <1>2, <1>3 DEF varMap
<1>5. Lexical!Going
  BY <1>1, GoingIsRunning
<1>6. UNCHANGED <<Scopes(maps), Created(objects)>>
  BY DEF resolveIdentifier
<1>7. PICK old : old = Scopes(maps)
  OBVIOUS
<1>8. /\ old \in Seq(Scope) /\ DOMAIN old = 1 .. L
      /\ \A k \in 1 .. L : old[k] = DeclaredIn(maps[k])
  BY <1>2, <1>3, <1>7, ScopesFacts
<1>9. ASSUME NEW k \in 1 .. L
      PROVE  /\ n \in DOMAIN old[k] <=> Bound(maps, k, n)
             /\ Bound(maps, k, n) => old[k][n] = maps[k][n].value
  <2>1. PICK m \in Map : m = maps[k]
    BY <1>2, <1>3
  <2>2. /\ n \in DOMAIN DeclaredIn(m) <=> (n \in DOMAIN m /\ m[n].isInScope)
        /\ n \in DOMAIN DeclaredIn(m) => DeclaredIn(m)[n] = m[n].value
    BY DeclaredFacts
  <2> QED
    BY <1>8, <2>1, <2>2, Zenon DEF Bound
<1>10. CASE n \in DOMAIN varMap
            /\ verdict' = [kind |-> "bound", name |-> n, object |-> varMap[n].value]
  <2>1. PICK o : o = map[n].value
    OBVIOUS
  <2>2. PICK k \in 1 .. L : Innermost(maps, L, n, k)
    BY <1>2, <1>3, <1>4, <1>10 DEF Mirror
  <2>3. /\ Bound(maps, k, n) /\ maps[k][n].value = o
        /\ \A i \in (k + 1) .. L : ~Bound(maps, i, n)
    BY <1>4, <2>1, <2>2 DEF Innermost
  <2>4. /\ n \in DOMAIN old[k] /\ old[k][n] = o
        /\ \A i \in 1 .. L : i > k => n \notin DOMAIN old[i]
    BY <1>3, <1>9, <2>3
  <2>5. Lexical!Denotes(n, o)
    BY <1>7, <1>8, <2>4 DEF Lexical!Denotes
  <2>6. verdict' = [kind |-> "bound", name |-> n, object |-> o]
    BY <1>4, <1>10, <2>1
  <2>7. verdict'.kind = "bound" /\ verdict'.object = o
    BY <2>6
  <2> QED
    BY <1>5, <1>6, <2>5, <2>6, <2>7 DEF Lexical!Use
<1>11. CASE n \notin DOMAIN varMap /\ verdict' = [kind |-> "undeclared", name |-> n]
  <2>1. \A k \in 1 .. L : n \notin DOMAIN maps[k]
    BY <1>2, <1>3, <1>4, <1>11 DEF Mirror
  <2>2. \A k \in DOMAIN Scopes(maps) : n \notin DOMAIN Scopes(maps)[k]
    BY <1>7, <1>8, <1>9, <2>1 DEF Bound
  <2> QED
    BY <1>5, <1>6, <1>11, <2>2 DEF Lexical!Use
<1> QED
  BY <1>10, <1>11 DEF resolveIdentifier

LEMMA ScopeRefines ==
  ASSUME FInv
  PROVE  /\ EnterScope => Lexical!Open
         /\ LeaveScope => Lexical!Close
<1>1. maps \in Seq(Map) /\ maps # <<>>
  BY Parts DEF FInv, MapsInv
<1>2. PICK L \in Nat \ {0} : L = Len(maps) /\ L \in 1 .. L
  BY <1>1
<1>3. PICK map \in Map : map = maps[L] /\ map = varMap
  BY <1>1, <1>2 DEF varMap
<1>4. ASSUME EnterScope PROVE Lexical!Open
  <2>1. Lexical!Going
    BY <1>4, GoingIsRunning DEF EnterScope
  <2>2. PICK g \in Map : g = copySemanticIdentifierMap(map)
    BY CopyFacts
  <2>3. maps' = Append(maps, g)
    BY <1>3, <1>4, <2>2 DEF EnterScope
  <2>4. DeclaredIn(g) = Lexical!EmptyScope
    BY <2>2, CopyBindsNothing DEF Lexical!EmptyScope
  <2>5. Scopes(maps)' = Append(Scopes(maps), Lexical!EmptyScope)
    BY <1>1, <2>3, <2>4, AppendScopes
  <2> QED
    BY <1>4, <2>1, <2>5 DEF EnterScope, Lexical!Open, Lexical!Accepted, Accepted
<1>5. ASSUME LeaveScope PROVE Lexical!Close
  <2>1. Lexical!Going /\ Len(maps) > 1
    BY <1>5, GoingIsRunning DEF LeaveScope
  <2>2. Scopes(maps)' = SubSeq(Scopes(maps), 1, Len(Scopes(maps)) - 1)
    BY <1>1, <1>5, <2>1, DropScope DEF LeaveScope
  <2>3. Len(Scopes(maps)) = Len(maps)
    BY <1>1, ScopesFacts
  <2> QED
    BY <1>5, <2>1, <2>2, <2>3 DEF LeaveScope, Lexical!Close, Lexical!Accepted, Accepted
<1> QED
  BY <1>4, <1>5

(***************************************************************************)
(* The refinement.                                                         *)
(***************************************************************************)

\* The pass says of every program what lexical scoping says: it implements
\* the abstract specification, for all constants.
THEOREM ImplementsLexicalScopeAlways ==
  Spec => ImplementsLexicalScope
<1>1. Init => Lexical!Init
  <2> SUFFICES ASSUME Init PROVE Lexical!Init
    OBVIOUS
  <2>1. maps = <<[n \in {} |-> 0]>> /\ objects = <<>> /\ verdict = Accepted
    BY DEF Init
  <2>2. DeclaredIn([n \in {} |-> 0]) = [n \in {} |-> 0]
    BY DEF DeclaredIn
  <2>3. Scopes(<<[n \in {} |-> 0]>>) = <<[n \in {} |-> 0]>>
    BY <2>2 DEF Scopes
  <2>4. Created(<<>>) = {}
    BY DEF Created
  <2> QED
    BY <2>1, <2>3, <2>4 DEF Lexical!Init, Lexical!EmptyScope, Lexical!Accepted, Accepted
<1>2. FInv /\ [Next]_vars => [Lexical!Next]_(Lexical!vars)
  <2> SUFFICES ASSUME FInv, [Next]_vars PROVE [Lexical!Next]_(Lexical!vars)
    OBVIOUS
  <2>1. CASE EnterScope \/ LeaveScope
    BY <2>1, ScopeRefines DEF Lexical!Next
  <2>2. ASSUME NEW n \in Name, resolveFileScopeVarDeclaration(n)
        PROVE  Lexical!DeclareLinked(n)
    <3>1. isFromCurrentBlock(n) => varMap[n].hasExternalLinkage
      <4>1. maps \in Seq(Map) /\ Len(maps) = 1 /\ Flagged(maps)
        BY <2>2, Parts DEF FInv, MapsInv, resolveFileScopeVarDeclaration
      <4>2. varMap = maps[1] /\ 1 \in DOMAIN maps
        BY <4>1 DEF varMap
      <4> QED
        BY <4>1, <4>2, Zenon DEF Flagged, FlagsTrue, AllLinked, isFromCurrentBlock
    <3> QED
      BY <2>2, <3>1, LinkedStep DEF resolveFileScopeVarDeclaration
  <2>3. ASSUME NEW n \in Name, ForInitStorageClass(n) PROVE Lexical!Refuse(n)
    BY <2>3, RefuseStep DEF ForInitStorageClass
  <2>4. ASSUME NEW n \in Name, resolveIdentifier(n) PROVE Lexical!Use(n)
    BY <2>4, UseRefines
  <2>5. ASSUME NEW n \in Name, NEW storageClass \in StorageClass,
               resolveLocalVarDeclaration(n, storageClass)
        PROVE  \/ Lexical!Refuse(n) \/ Lexical!DeclareLinked(n) \/ Lexical!DeclareLocal(n)
               \/ UNCHANGED Lexical!vars
    BY <2>5, LocalRefines DEF Lexical!vars
  <2>6. ASSUME NEW n \in Name, NEW storageClass \in StorageClass,
               NEW params \in ParamList, NEW hasBody \in BOOLEAN,
               RejectFunctionDeclaration(n, params, storageClass, hasBody)
        PROVE  \E m \in Name : Lexical!Refuse(m)
    <3>1. Running
      BY <2>6 DEF RejectFunctionDeclaration
    <3>2. CASE FunctionConflict(n) /\ Reject(Conflict(n, TRUE))
      <4>1. ~Lexical!MayLink(n)
        BY <3>2, InnermostScope, Zenon DEF FunctionConflict
      <4> QED
        BY <3>1, <3>2, <4>1, RefuseStep
    <3>3. CASE FunctionMisplaced(storageClass, hasBody) /\ Reject(Misplaced(n))
      BY <3>1, <3>3, RefuseStep DEF FunctionMisplaced
    <3>4. ASSUME NEW j \in DOMAIN params, Duplicate(params, j),
                 Reject([kind |-> "duplicate", name |-> params[j], params |-> params])
          PROVE  \E m \in Name : Lexical!Refuse(m)
      <4>1. params[j] \in Name
        BY DEF ParamList
      <4> QED
        BY <3>1, <3>4, <4>1, RefuseDuplicate
    <3> QED
      BY <2>6, <3>2, <3>3, <3>4, Zenon DEF RejectFunctionDeclaration
  <2>7. ASSUME NEW n \in Name, NEW storageClass \in StorageClass,
               NEW params \in ParamList, NEW hasBody \in BOOLEAN,
               resolveFunctionDeclaration(n, params, storageClass, hasBody)
        PROVE  Lexical!DeclareLinked(n) \/ Lexical!DefineFunction(n)
    BY <2>7, FunctionRefines
  <2>8. CASE UNCHANGED vars
    BY <2>8 DEF vars, Lexical!vars
  <2> QED
    BY <2>1, <2>2, <2>3, <2>4, <2>5, <2>6, <2>7, <2>8, Zenon DEF Next, Lexical!Next
<1> QED
  BY <1>1, <1>2, FlagInvariant, PTL DEF Spec, ImplementsLexicalScope, Lexical!Spec

=============================================================================
