------------------------------ MODULE LexerProofs ------------------------------
(***************************************************************************)
(* The subset construction and the longest match read every text as the    *)
(* automaton does, whatever the automaton is.                              *)
(***************************************************************************)
EXTENDS Lexer, SequenceLemmas, FiniteSetTheorems

Ids == DOMAIN nfa
Epsilon(id) == ToSet(nfa[id].epsilon)

\* Every member of a sequence is at one of its places.
LEMMA ToSetMember ==
  ASSUME NEW s
  PROVE  \A x : x \in ToSet(s) <=> \E i \in DOMAIN s : s[i] = x
BY DEF ToSet

LEMMA NfaFacts ==
  /\ Ids = 1 .. Len(nfa) /\ Len(nfa) \in Nat /\ 1 \in Ids /\ Len(nfa) <= MAX_STATES
  /\ \A id \in Ids : Epsilon(id) \subseteq id + 1 .. Len(nfa)
  /\ \A id \in Ids : \A t \in ToSet(nfa[id].transitions) :
       t.to \in Ids /\ t.chars \subseteq ToSet(Char)
  /\ MAX_STATES \in Nat /\ Char \in Seq(ToSet(Char)) /\ Len(Char) <= MAX_STATES
  /\ Len(Char) \in Nat /\ DOMAIN Char = 1 .. Len(Char)
<1>1. Ids = 1 .. Len(nfa) /\ Len(nfa) \in Nat
  BY AutomatonAssumption, LenProperties DEF Ids
<1>2. Len(nfa) # 0
  BY AutomatonAssumption, EmptySeq
<1>3. 1 \in Ids
  BY <1>1, <1>2
<1> QED BY <1>1, <1>3, AutomatonAssumption, TableAssumption, LenProperties DEF Ids, Epsilon

LEMMA SetsAreFinite ==
  ASSUME NEW ids \in SUBSET Ids
  PROVE  IsFiniteSet(ids) /\ Cardinality(ids) \in Nat /\ ids \subseteq Nat
<1>1. IsFiniteSet(Ids) /\ Ids \subseteq Nat
  <2>1. PICK n \in Nat : Ids = 1 .. n
    BY NfaFacts
  <2>2. IsFiniteSet(1 .. n)
    BY FS_Interval
  <2> QED BY <2>1, <2>2
<1> QED BY <1>1, FS_Subset, FS_CardinalityType

\* There is a first member.
LEMMA LeastFacts ==
  ASSUME NEW S \in SUBSET Nat, S # {}
  PROVE  Least(S) \in S /\ \A other \in S : Least(S) <= other
<1>1. \E n \in S : \A other \in S : n <= other
  <2> SUFFICES ASSUME \A n \in S : \E other \in S : other < n PROVE FALSE
    OBVIOUS
  <2> DEFINE G == {n \in Nat : \A m \in 0 .. n : m \notin S}
  <2>1. 0 \in G
    OBVIOUS
  <2>2. ASSUME NEW n \in Nat, n \in G PROVE n + 1 \in G
    <3>1. n + 1 \notin S
      <4> SUFFICES ASSUME n + 1 \in S PROVE FALSE
        OBVIOUS
      <4>1. PICK other \in S : other < n + 1
        OBVIOUS
      <4>2. other \in 0 .. n
        BY <4>1
      <4> QED BY <4>2, <2>2
    <3> QED BY <3>1, <2>2
  <2>3. \A n \in Nat : n \in G
    <3> HIDE DEF G
    <3> QED BY <2>1, <2>2, Induction
  <2>4. PICK n : n \in S
    OBVIOUS
  <2>5. n \in G /\ n \in 0 .. n
    BY <2>3, <2>4
  <2> QED BY <2>4, <2>5
<1> QED BY <1>1 DEF Least

(***************************************************************************)
(* Positions in a sorted set.                                              *)
(***************************************************************************)
Before(ids, id) == {other \in ids : other < id}
Rank(ids, id) == Cardinality(Before(ids, id))

LEMMA BeforeFacts ==
  ASSUME NEW ids \in SUBSET Ids, NEW id \in Ids
  PROVE  /\ Before(ids, id) \in SUBSET Ids /\ Rank(ids, id) \in Nat
         /\ id \in ids => Rank(ids, id) < Cardinality(ids)
<1>1. /\ Before(ids, id) \in SUBSET Ids /\ Before(ids, id) \subseteq ids
      /\ id \in ids => Before(ids, id) # ids
  BY SetsAreFinite DEF Before
<1>2. /\ Cardinality(Before(ids, id)) <= Cardinality(ids)
      /\ Cardinality(Before(ids, id)) = Cardinality(ids) => ids = Before(ids, id)
  BY <1>1, SetsAreFinite, FS_Subset
<1>3. Cardinality(Before(ids, id)) \in Nat /\ Cardinality(ids) \in Nat
  BY <1>1, SetsAreFinite
<1> QED BY <1>1, <1>2, <1>3 DEF Rank

\* The next member, when there are more than the first ones.
LEMMA NextMember ==
  ASSUME NEW ids \in SUBSET Ids, NEW id \in ids, Rank(ids, id) + 1 < Cardinality(ids)
  PROVE  \E next \in ids : Rank(ids, next) = Rank(ids, id) + 1
<1>1. id \in Ids /\ Before(ids, id) \in SUBSET Ids /\ id \notin Before(ids, id)
  BY BeforeFacts, SetsAreFinite DEF Before
<1> DEFINE F == Before(ids, id) \cup {id}
<1>2. F \subseteq ids /\ Cardinality(F) = Rank(ids, id) + 1
  BY <1>1, SetsAreFinite, FS_AddElement DEF Before, Rank
<1>3. Rank(ids, id) \in Nat /\ Cardinality(ids) \in Nat
  BY <1>1, BeforeFacts, SetsAreFinite
<1>4. ids \ F # {}
  <2>1. F # ids
    BY <1>2, <1>3
  <2> QED BY <2>1, <1>2
<1>5. ids \ F \in SUBSET Nat
  BY SetsAreFinite
<1>6. PICK next \in ids \ F : \A other \in ids \ F : next <= other
  <2> HIDE DEF F
  <2> QED BY <1>4, <1>5, LeastFacts
<1>7. Before(ids, next) = F
  BY <1>1, <1>2, <1>6, SetsAreFinite DEF Before
<1> QED BY <1>2, <1>6, <1>7 DEF Rank

\* A set has a member at every position.
LEMMA NthFacts ==
  ASSUME NEW ids \in SUBSET Ids, NEW n \in 1 .. Cardinality(ids)
  PROVE  Nth(ids, n) \in ids /\ Rank(ids, Nth(ids, n)) = n - 1
<1> DEFINE G == {k \in Nat : k < Cardinality(ids) => \E id \in ids : Rank(ids, id) = k}
<1>0. Cardinality(ids) \in Nat /\ IsFiniteSet(ids) /\ ids \subseteq Nat
  BY SetsAreFinite
<1>1. 0 \in G
  <2> SUFFICES ASSUME 0 < Cardinality(ids) PROVE \E id \in ids : Rank(ids, id) = 0
    OBVIOUS
  <2>1. ids # {}
    BY FS_EmptySet
  <2>2. PICK id \in ids : \A other \in ids : id <= other
    BY <2>1, <1>0, LeastFacts
  <2>3. Before(ids, id) = {}
    <3>1. \A other \in ids : ~ (other < id)
      BY <2>2, <1>0
    <3> QED BY <3>1 DEF Before
  <2> QED BY <2>3, FS_EmptySet DEF Rank
<1>2. ASSUME NEW k \in Nat, k \in G PROVE k + 1 \in G
  <2> SUFFICES ASSUME k + 1 < Cardinality(ids) PROVE \E id \in ids : Rank(ids, id) = k + 1
    OBVIOUS
  <2>1. PICK id \in ids : Rank(ids, id) = k
    BY <1>0, <1>2
  <2> QED BY <2>1, NextMember
<1>3. \A k \in Nat : k \in G
  <2> HIDE DEF G
  <2> QED BY <1>1, <1>2, Induction
<1>4. n - 1 \in Nat /\ n - 1 < Cardinality(ids)
  BY <1>0
<1>5. \E id \in ids : Cardinality({other \in ids : other < id}) = n - 1
  BY <1>3, <1>4 DEF Rank, Before
<1> QED BY <1>5 DEF Nth, Rank, Before

(***************************************************************************)
(* Closures.                                                               *)
(***************************************************************************)
Closed(ids) == \A id \in ids : Epsilon(id) \subseteq ids
Founded(base, ids) == \A id \in ids \ base : \E from \in ids : id \in Epsilon(from)
ClosureOf(base, ids) == ids \in SUBSET Ids /\ base \subseteq ids /\ Closed(ids) /\ Founded(base, ids)

\* What IsClosure describes is one set: the automaton reads a text in one way.
LEMMA OneClosure ==
  ASSUME NEW base, NEW A, NEW B, ClosureOf(base, A), ClosureOf(base, B)
  PROVE  A = B
<1>1. ASSUME NEW C, NEW D, ClosureOf(base, C), ClosureOf(base, D) PROVE C \subseteq D
  <2> SUFFICES ASSUME C \ D # {} PROVE FALSE
    OBVIOUS
  <2>1. C \ D \in SUBSET Nat
    BY <1>1, SetsAreFinite DEF ClosureOf
  <2>2. PICK id \in C \ D : \A other \in C \ D : id <= other
    BY <2>1, LeastFacts
  <2>3. id \notin base
    BY <1>1, <2>2 DEF ClosureOf
  <2>4. PICK from \in C : id \in Epsilon(from)
    BY <1>1, <2>2, <2>3 DEF ClosureOf, Founded
  <2>5. from \in Ids /\ id \in Ids /\ from \in Nat /\ id \in Nat /\ from < id
    BY <1>1, <2>2, <2>4, NfaFacts DEF ClosureOf
  <2>6. from \in D
    BY <2>2, <2>5
  <2>7. id \in D
    BY <1>1, <2>4, <2>6 DEF ClosureOf, Closed
  <2> QED BY <2>2, <2>7
<1> QED BY <1>1

\* The set that is being closed: nothing is there without a reason, and the
\* members in front have been visited.
Growing(base, ids, n) ==
  /\ ids \in SUBSET Ids /\ base \subseteq ids /\ Founded(base, ids)
  /\ \A id \in ids : Rank(ids, id) + 1 < n => Epsilon(id) \subseteq ids

LEMMA GrowingStarts ==
  ASSUME NEW base \in SUBSET Ids
  PROVE  Growing(base, base, 1)
<1>1. \A id \in base : Rank(base, id) \in Nat
  BY BeforeFacts
<1> QED BY <1>1 DEF Growing, Founded

\* What a visit adds comes behind the member that is visited, so that those in
\* front are the same as before.
LEMMA GrowingGoesOn ==
  ASSUME NEW base, NEW ids, NEW n \in 1 .. Cardinality(ids), Growing(base, ids, n)
  PROVE  Growing(base, ids \cup Epsilon(Nth(ids, n)), n + 1)
<1> DEFINE id == Nth(ids, n)
           more == ids \cup Epsilon(id)
<1>1. ids \in SUBSET Ids
  BY DEF Growing
<1>2. Cardinality(ids) \in Nat /\ n \in Nat
  BY <1>1, SetsAreFinite
<1>3. id \in ids /\ id \in Ids /\ Rank(ids, id) = n - 1
  BY <1>1, NthFacts
<1> HIDE DEF id
<1>4. /\ Epsilon(id) \subseteq Ids /\ id \in Nat
      /\ \A x \in Epsilon(id) : x \in Nat /\ id < x
  <2>1. Epsilon(id) \subseteq id + 1 .. Len(nfa) /\ id \in 1 .. Len(nfa) /\ Len(nfa) \in Nat
    BY <1>3, NfaFacts
  <2>2. Ids = 1 .. Len(nfa)
    BY NfaFacts
  <2> QED BY <2>1, <2>2
<1>5. more \in SUBSET Ids /\ base \subseteq more
  BY <1>1, <1>4 DEF Growing
<1>6. Founded(base, more)
  BY <1>3 DEF Founded, Growing
<1>7. ASSUME NEW x \in more, Rank(more, x) + 1 < n + 1
      PROVE  Epsilon(x) \subseteq more
  <2>1. x \in Ids /\ x \in Nat
    BY <1>5, SetsAreFinite
  <2>2. Rank(more, x) \in Nat
    BY <2>1, <1>5, BeforeFacts
  <2>3. CASE x = id
    BY <2>3
  <2>4. CASE x < id
    <3>1. x \in ids
      BY <2>4, <1>4, <2>1
    <3>2. Before(more, x) = Before(ids, x)
      <4>1. \A y \in Epsilon(id) : ~ (y < x)
        BY <1>4, <2>4, <2>1
      <4> QED BY <4>1 DEF Before
    <3>3. Rank(ids, x) + 1 < n
      <4>1. Before(ids, x) \subseteq Before(ids, id) /\ Before(ids, x) # Before(ids, id)
        <5>1. x \in Before(ids, id) /\ x \notin Before(ids, x)
          BY <3>1, <2>4, <2>1 DEF Before
        <5>2. \A y \in ids : y < x => y < id
          BY <1>1, <1>4, <2>1, <2>4, SetsAreFinite
        <5> QED BY <5>1, <5>2 DEF Before
      <4>2. IsFiniteSet(Before(ids, id))
        BY <1>1, <1>3, BeforeFacts, SetsAreFinite
      <4>3. Rank(ids, x) <= Rank(ids, id) /\ Rank(ids, x) # Rank(ids, id)
        BY <4>1, <4>2, FS_Subset DEF Rank
      <4>4. Rank(ids, x) \in Nat
        BY <1>1, <2>1, BeforeFacts
      <4> QED BY <4>3, <4>4, <1>2, <1>3
    <3> QED BY <3>1, <3>3 DEF Growing
  <2>5. CASE id < x
    <3>1. id \in Before(more, x) /\ Before(ids, id) \subseteq Before(more, x)
      <4>1. \A y \in ids : y < id => y < x
        BY <1>1, <1>4, <2>1, <2>5, SetsAreFinite
      <4> QED BY <4>1, <1>3, <2>5 DEF Before
    <3>2. id \notin Before(ids, id) /\ IsFiniteSet(Before(ids, id))
      <4>1. id \notin Before(ids, id)
        BY <1>4 DEF Before
      <4> QED BY <4>1, <1>1, <1>3, BeforeFacts, SetsAreFinite
    <3>3. Cardinality(Before(ids, id) \cup {id}) = n
      <4>1. Cardinality(Before(ids, id) \cup {id}) = Cardinality(Before(ids, id)) + 1
        BY <3>2, FS_AddElement
      <4> QED BY <4>1, <1>2, <1>3 DEF Rank
    <3>4. IsFiniteSet(Before(more, x)) /\ Before(ids, id) \cup {id} \subseteq Before(more, x)
      BY <3>1, <2>1, <1>5, BeforeFacts, SetsAreFinite
    <3>5. n <= Rank(more, x)
      BY <3>3, <3>4, FS_Subset DEF Rank
    <3> QED BY <3>5, <2>2, <1>2, <1>7
  <2> QED BY <2>1, <2>3, <2>4, <2>5, <1>4
<1>8. \A x \in more : Rank(more, x) + 1 < n + 1 => Epsilon(x) \subseteq more
  BY <1>7
<1> HIDE DEF more
<1> QED BY <1>5, <1>6, <1>8 DEF Growing, id, more

LEMMA GrowingEnds ==
  ASSUME NEW base, NEW ids, NEW n \in Nat, Growing(base, ids, n), n > Cardinality(ids)
  PROVE  ClosureOf(base, ids)
<1>1. ids \in SUBSET Ids /\ Cardinality(ids) \in Nat
  BY SetsAreFinite DEF Growing
<1>2. ASSUME NEW id \in ids PROVE Rank(ids, id) + 1 <= Cardinality(ids)
  <2>1. id \in Ids
    BY <1>1
  <2> QED BY <2>1, <1>1, BeforeFacts
<1>3. \A id \in ids : Rank(ids, id) + 1 < n
  <2>1. \A id \in ids : Rank(ids, id) \in Nat
    BY <1>1, BeforeFacts
  <2> QED BY <2>1, <1>1, <1>2
<1>4. Closed(ids)
  BY <1>3, Zenon DEF Growing, Closed
<1>5. base \subseteq ids /\ Founded(base, ids)
  BY DEF Growing
<1> QED BY <1>1, <1>4, <1>5 DEF ClosureOf

(***************************************************************************)
(* The states of the deterministic automaton.                              *)
(***************************************************************************)
Type == {NOT_ACCEPTING} \cup {nfa[id].accepting : id \in Ids}
Transition == [to : Nat, exactC : ToSet(Char)]
State == [ids : SUBSET Ids, accepting : Type, transitions : Seq(Transition)]

AcceptingIn(ids) == {id \in ids : nfa[id].accepting # NOT_ACCEPTING}

LEMMA DominantFacts ==
  ASSUME NEW ids \in SUBSET Ids
  PROVE  /\ dominantToken(ids) \in Type
         /\ dominantToken(ids) = NOT_ACCEPTING <=> AcceptingIn(ids) = {}
         /\ AcceptingIn(ids) # {} =>
              \E id \in AcceptingIn(ids) :
                /\ \A other \in AcceptingIn(ids) : id <= other
                /\ dominantToken(ids) = nfa[id].accepting
<1>1. dominantToken(ids) =
        IF AcceptingIn(ids) = {} THEN NOT_ACCEPTING ELSE nfa[Least(AcceptingIn(ids))].accepting
  BY Zenon DEF dominantToken, AcceptingIn
<1>2. CASE AcceptingIn(ids) = {}
  BY <1>1, <1>2 DEF Type
<1>3. CASE AcceptingIn(ids) # {}
  <2>1. AcceptingIn(ids) \in SUBSET Nat
    BY SetsAreFinite DEF AcceptingIn
  <2>2. PICK id : id = Least(AcceptingIn(ids))
    OBVIOUS
  <2>3. id \in AcceptingIn(ids) /\ \A other \in AcceptingIn(ids) : id <= other
    BY <1>3, <2>1, <2>2, LeastFacts
  <2>4. id \in Ids /\ nfa[id].accepting # NOT_ACCEPTING
    BY <2>3 DEF AcceptingIn
  <2>5. dominantToken(ids) = nfa[id].accepting
    BY <1>1, <1>3, <2>2
  <2> QED BY <1>3, <2>3, <2>4, <2>5 DEF Type
<1> QED BY <1>2, <1>3

LEMMA MovedFacts ==
  ASSUME NEW ids \in SUBSET Ids, NEW char
  PROVE  /\ moveOnChar(ids, char) \in SUBSET Ids
         /\ moveOnChar(ids, char) # {} => char \in ToSet(Char)
<1>1. ASSUME NEW x \in moveOnChar(ids, char) PROVE x \in Ids /\ char \in ToSet(Char)
  <2>1. PICK id \in ids :
          x \in {t.to : t \in {t \in ToSet(nfa[id].transitions) : char \in t.chars}}
    BY <1>1 DEF moveOnChar
  <2>2. PICK t \in ToSet(nfa[id].transitions) : char \in t.chars /\ x = t.to
    BY <2>1
  <2>3. id \in Ids
    OBVIOUS
  <2> QED BY <2>2, <2>3, NfaFacts
<1> QED BY <1>1

LEMMA NewState ==
  ASSUME NEW ids \in SUBSET Ids
  PROVE  /\ DFAState(ids) \in State /\ DFAState(ids).ids = ids
         /\ DFAState(ids).accepting = dominantToken(ids) /\ DFAState(ids).transitions = <<>>
<1>1. dominantToken(ids) \in Type
  BY DominantFacts
<1>2. <<>> \in Seq(Transition)
  OBVIOUS
<1> QED BY <1>1, <1>2 DEF DFAState, State

\* The table after findOrCreate: as before, or with the set's state at the end.
LEMMA FoundOrCreated ==
  ASSUME NEW states \in Seq(State), NEW ids \in SUBSET Ids
  PROVE  /\ findOrCreate(states, ids) \in Seq(State)
         /\ \/ findOrCreate(states, ids) = states
            \/ findOrCreate(states, ids) = Append(states, DFAState(ids))
         /\ states = <<>> => findOrCreate(states, ids) = Append(states, DFAState(ids))
<1>1. Append(states, DFAState(ids)) \in Seq(State)
  BY NewState, AppendProperties
<1>2. \/ findOrCreate(states, ids) = states
      \/ findOrCreate(states, ids) = Append(states, DFAState(ids))
  BY DEF findOrCreate
<1>3. ASSUME states = <<>>
      PROVE  findOrCreate(states, ids) = Append(states, DFAState(ids))
  <2>1. Len(states) = 0 /\ DOMAIN states = {}
    BY <1>3
  <2>2. ~ (Len(states) >= MAX_STATES)
    BY <2>1, NfaFacts
  <2>3. ~ \E i \in DOMAIN states : states[i].ids = ids
    BY <2>1
  <2> QED BY <2>2, <2>3, Zenon DEF findOrCreate
<1> QED BY <1>1, <1>2, <1>3

(***************************************************************************)
(* The invariant.                                                          *)
(***************************************************************************)
\* The transitions of the state made for ids lead to the closures of its moves.
Leads(states, ids, t) ==
  /\ moveOnChar(ids, t.exactC) # {}
  /\ t.to \in DOMAIN states
  /\ ClosureOf(moveOnChar(ids, t.exactC), states[t.to].ids)

Table(states) ==
  /\ states \in Seq(State)
  /\ \A i \in DOMAIN states :
       /\ states[i].accepting = dominantToken(states[i].ids)
       /\ \A j \in DOMAIN states[i].transitions : Leads(states, states[i].ids, states[i].transitions[j])
  /\ states # <<>> => ClosureOf({1}, states[1].ids)

\* The set that is being closed is what the construction came to.
Base == IF dfa = <<>> THEN {1} ELSE moveOnChar(dfa[di].ids, Char[ch])
Closing ==
  status = "closing" =>
    /\ front \in Nat \ {0} /\ Growing(Base, set, front)
    /\ dfa # <<>> => di <= Len(dfa) /\ ch <= Len(Char) /\ Base # {}

\* The construction is at state di and character ch: no transition is missing
\* before, and there is none behind.
Due(i, k) == i < di \/ (i = di /\ k < ch)
HasTransition(state, char) ==
  \E j \in DOMAIN state.transitions : state.transitions[j].exactC = char
Progress ==
  /\ di \in Nat \ {0} /\ ch \in 1 .. Len(Char) + 1
  /\ dfa = <<>> => status = "closing" /\ di = 1 /\ ch = 1
  /\ \A i \in DOMAIN dfa :
       /\ i > di => dfa[i].transitions = <<>>
       /\ i = di => Len(dfa[i].transitions) < ch
  /\ ~dropped =>
       \A i \in DOMAIN dfa : \A k \in 1 .. Len(Char) :
         Due(i, k) /\ moveOnChar(dfa[i].ids, Char[k]) # {} => HasTransition(dfa[i], Char[k])
  /\ status \notin {"closing", "moving"} => di > Len(dfa)

\* What was accepted last: the state was m characters into the piece.
LastAccepted(m) ==
  /\ last.end = at + m
  /\ last.type = dfa[path[m + 1]].accepting
  /\ m # 0 => last.type # NOT_ACCEPTING
  /\ \A k \in m + 2 .. Len(path) : dfa[path[k]].accepting = NOT_ACCEPTING
Reading ==
  /\ at \in Nat /\ path \in Seq(DOMAIN dfa)
  /\ path # <<>> => \E m \in 0 .. Len(path) - 1 : LastAccepted(m)
  /\ status \in {"closing", "moving"} => path = <<>>

IInv == Table(dfa) /\ Closing /\ Progress /\ Reading

(***************************************************************************)
(* What the construction does to the table.                                *)
(***************************************************************************)
\* The state of a closed set is found or put at the end, and what the table
\* had stays as it was.
LEMMA TableCreates ==
  ASSUME NEW states, Table(states), NEW base, NEW ids, ClosureOf(base, ids),
         states = <<>> => base = {1},
         NEW new, new = findOrCreate(states, ids)
  PROVE  /\ Table(new) /\ new # <<>>
         /\ Len(states) \in Nat /\ Len(new) \in Nat /\ Len(states) <= Len(new)
         /\ \A i \in DOMAIN states : i \in DOMAIN new /\ new[i] = states[i]
         /\ \A i \in DOMAIN new : i \in DOMAIN states \/ new[i].transitions = <<>>
<1>1. states \in Seq(State) /\ ids \in SUBSET Ids
  BY DEF Table, ClosureOf
<1>2. Len(states) \in Nat /\ DOMAIN states = 1 .. Len(states)
  BY <1>1, LenProperties
<1>3. CASE new = states
  <2>1. states # <<>>
    <3> SUFFICES ASSUME states = <<>> PROVE FALSE
      OBVIOUS
    <3>1. Append(states, DFAState(ids)) = states
      BY <1>1, <1>3, FoundOrCreated
    <3>2. Len(Append(states, DFAState(ids))) = Len(states) + 1
      BY <1>1, NewState, AppendProperties
    <3> QED BY <3>1, <3>2, <1>2
  <2> QED BY <1>2, <1>3, <2>1
<1>4. CASE new = Append(states, DFAState(ids))
  <2> DEFINE added == DFAState(ids)
  <2>1. added \in State /\ added.ids = ids /\ added.transitions = <<>>
        /\ added.accepting = dominantToken(ids)
    BY <1>1, NewState
  <2> HIDE DEF added
  <2>2. /\ new \in Seq(State) /\ Len(new) = Len(states) + 1
        /\ \A i \in 1 .. Len(states) : new[i] = states[i]
        /\ new[Len(states) + 1] = added
    BY <1>1, <1>4, <2>1, AppendProperties DEF added
  <2>3. DOMAIN new = 1 .. Len(states) + 1
    BY <2>2, LenProperties
  <2>4. /\ \A i \in DOMAIN states : i \in DOMAIN new /\ new[i] = states[i]
        /\ \A i \in DOMAIN new : i \in DOMAIN states \/ new[i] = added
    BY <1>2, <2>2, <2>3
  <2>5. ASSUME NEW i \in DOMAIN new
        PROVE  /\ new[i].accepting = dominantToken(new[i].ids)
               /\ \A j \in DOMAIN new[i].transitions : Leads(new, new[i].ids, new[i].transitions[j])
    <3>1. CASE i \in DOMAIN states
      <4>1. \A j \in DOMAIN states[i].transitions : Leads(states, states[i].ids, states[i].transitions[j])
        BY <3>1 DEF Table
      <4>2. \A j \in DOMAIN states[i].transitions : Leads(new, states[i].ids, states[i].transitions[j])
        BY <4>1, <2>4 DEF Leads
      <4>3. states[i].accepting = dominantToken(states[i].ids) /\ new[i] = states[i]
        BY <3>1, <2>4 DEF Table
      <4> QED BY <4>2, <4>3
    <3>2. CASE new[i] = added
      BY <3>2, <2>1
    <3> QED BY <3>1, <3>2, <2>4
  <2>6. ClosureOf({1}, new[1].ids)
    <3>1. CASE states = <<>>
      <4>1. Len(states) = 0
        BY <3>1
      <4>2. new[1] = added
        BY <4>1, <2>2
      <4> QED BY <3>1, <4>2, <2>1
    <3>2. CASE states # <<>>
      <4>1. 1 \in DOMAIN states
        BY <3>2, <1>1, <1>2, EmptySeq
      <4> QED BY <3>2, <4>1, <2>4 DEF Table
    <3> QED BY <3>1, <3>2
  <2>7. new # <<>>
    BY <2>2, <1>2
  <2>8. Table(new)
    BY <2>2, <2>5, <2>6 DEF Table
  <2> QED BY <1>2, <2>1, <2>2, <2>4, <2>7, <2>8
<1> QED BY <1>1, <1>3, <1>4, FoundOrCreated

Connected(states, i, t) == [states EXCEPT ![i].transitions = Append(@, t)]

\* One transition more, to the closure of the move.
LEMMA TableConnects ==
  ASSUME NEW states, Table(states), NEW i \in DOMAIN states,
         NEW t \in Transition, Leads(states, states[i].ids, t),
         NEW new, new = Connected(states, i, t)
  PROVE  /\ Table(new) /\ Len(new) = Len(states) /\ DOMAIN new = DOMAIN states
         /\ \A j \in DOMAIN states :
              /\ new[j].ids = states[j].ids /\ new[j].accepting = states[j].accepting
              /\ j # i => new[j].transitions = states[j].transitions
         /\ new[i].transitions = Append(states[i].transitions, t)
<1>1. states \in Seq(State) /\ Len(states) \in Nat /\ DOMAIN states = 1 .. Len(states)
  BY LenProperties DEF Table
<1> DEFINE old == states[i]
           changed == [old EXCEPT !.transitions = Append(old.transitions, t)]
<1>2. old \in State
  BY <1>1, ElementOfSeq
<1>3. old.transitions \in Seq(Transition)
  BY <1>2 DEF State
<1>4. /\ Append(old.transitions, t) \in Seq(Transition)
      /\ Len(Append(old.transitions, t)) = Len(old.transitions) + 1
      /\ \A j \in 1 .. Len(old.transitions) : Append(old.transitions, t)[j] = old.transitions[j]
      /\ Append(old.transitions, t)[Len(old.transitions) + 1] = t
  BY <1>3, AppendProperties
<1>5. /\ changed \in State /\ changed.ids = old.ids /\ changed.accepting = old.accepting
      /\ changed.transitions = Append(old.transitions, t)
  BY <1>2, <1>4 DEF State
<1>6. new = [states EXCEPT ![i] = changed]
  BY DEF Connected
<1> HIDE DEF old, changed
<1>7. /\ new \in Seq(State) /\ Len(new) = Len(states)
      /\ \A j \in 1 .. Len(states) : new[j] = IF j = i THEN changed ELSE states[j]
  <2>1. i \in 1 .. Len(states)
    BY <1>1
  <2>2. /\ [states EXCEPT ![i] = changed] \in Seq(State)
        /\ Len([states EXCEPT ![i] = changed]) = Len(states)
        /\ \A j \in 1 .. Len(states) :
             [states EXCEPT ![i] = changed][j] = IF j = i THEN changed ELSE states[j]
    BY <1>1, <1>5, <2>1, ExceptSeq
  <2> QED BY <1>6, <2>2
<1>8. DOMAIN new = DOMAIN states /\ new[i] = changed /\ \A j \in DOMAIN states : j # i => new[j] = states[j]
  BY <1>1, <1>7, LenProperties
<1>9. \A j \in DOMAIN states : new[j].ids = states[j].ids /\ new[j].accepting = states[j].accepting
  BY <1>5, <1>8 DEF old
<1>10. ASSUME NEW ids, NEW u, Leads(states, ids, u) PROVE Leads(new, ids, u)
  BY <1>8, <1>9, <1>10 DEF Leads
<1>11. ASSUME NEW j \in DOMAIN new
       PROVE  /\ new[j].accepting = dominantToken(new[j].ids)
              /\ \A k \in DOMAIN new[j].transitions : Leads(new, new[j].ids, new[j].transitions[k])
  <2>1. /\ states[j].accepting = dominantToken(states[j].ids)
        /\ \A k \in DOMAIN states[j].transitions : Leads(states, states[j].ids, states[j].transitions[k])
    BY <1>8 DEF Table
  <2>2. new[j].accepting = dominantToken(new[j].ids)
    BY <2>1, <1>8, <1>9
  <2>3. ASSUME NEW k \in DOMAIN new[j].transitions
        PROVE  Leads(states, states[j].ids, new[j].transitions[k])
    <3>1. CASE j # i
      BY <3>1, <2>1, <1>8
    <3>2. CASE j = i
      <4>1. DOMAIN new[j].transitions = 1 .. Len(old.transitions) + 1
        BY <3>2, <1>4, <1>5, <1>8, LenProperties
      <4>2. Len(old.transitions) \in Nat /\ DOMAIN old.transitions = 1 .. Len(old.transitions)
        BY <1>3, LenProperties
      <4>3. CASE k = Len(old.transitions) + 1
        BY <4>3, <3>2, <1>4, <1>5, <1>8
      <4>4. CASE k \in DOMAIN old.transitions
        BY <4>2, <4>4, <3>2, <2>1, <1>4, <1>5, <1>8 DEF old
      <4> QED BY <4>1, <4>2, <4>3, <4>4
    <3> QED BY <3>1, <3>2
  <2>4. \A k \in DOMAIN new[j].transitions : Leads(new, new[j].ids, new[j].transitions[k])
    BY <2>3, <1>8, <1>9, <1>10
  <2> QED BY <2>2, <2>4
<1>12. new # <<>> => ClosureOf({1}, new[1].ids)
  <2> SUFFICES ASSUME new # <<>> PROVE ClosureOf({1}, new[1].ids)
    OBVIOUS
  <2>1. states # <<>> /\ 1 \in DOMAIN states
    BY <1>1, EmptySeq
  <2> QED BY <2>1, <1>9 DEF Table
<1>13. Table(new)
  BY <1>7, <1>11, <1>12 DEF Table
<1> QED BY <1>5, <1>7, <1>8, <1>9, <1>13 DEF old

(***************************************************************************)
(* The invariant holds.                                                    *)
(***************************************************************************)
LEMMA InitHolds ==
  ASSUME Init
  PROVE  IInv
<1>1. Table(dfa)
  <2>1. dfa = <<>> /\ dfa \in Seq(State) /\ DOMAIN dfa = {}
    BY DEF Init
  <2> QED BY <2>1 DEF Table
<1>2. Closing
  <2>1. {1} \in SUBSET Ids
    BY NfaFacts
  <2>2. Base = {1}
    BY DEF Init, Base
  <2> QED BY <2>1, <2>2, GrowingStarts DEF Init, Closing
<1>3. Progress
  <2>1. Len(Char) \in Nat /\ DOMAIN dfa = {}
    BY NfaFacts DEF Init
  <2> QED BY <2>1 DEF Init, Progress
<1>4. Reading
  BY DEF Init, Reading
<1> QED BY <1>1, <1>2, <1>3, <1>4 DEF IInv

\* Nothing is being read.
LEMMA ReadingIdle ==
  ASSUME path' = <<>>, at' \in Nat
  PROVE  Reading'
BY DEF Reading

\* The construction has been left alone.
LEMMA ConstructionKept ==
  ASSUME IInv, UNCHANGED construction, status # "closing", status' # "closing",
         status' \notin {"closing", "moving"} => di > Len(dfa)
  PROVE  Table(dfa') /\ Closing' /\ Progress'
<1>1. dfa' = dfa /\ di' = di /\ ch' = ch /\ set' = set /\ front' = front /\ dropped' = dropped
  BY DEF construction
<1>2. Table(dfa')
  BY <1>1 DEF IInv
<1>3. Closing'
  BY DEF Closing
<1>4. dfa # <<>>
  BY DEF IInv, Progress
<1>5. Progress'
  BY <1>1, <1>4 DEF IInv, Progress, Due
<1> QED BY <1>2, <1>3, <1>5

LEMMA StateFacts ==
  ASSUME Table(dfa)
  PROVE  /\ Len(dfa) \in Nat /\ DOMAIN dfa = 1 .. Len(dfa)
         /\ dfa # <<>> => 1 \in DOMAIN dfa
         /\ \A i \in DOMAIN dfa :
              /\ dfa[i].ids \in SUBSET Ids
              /\ dfa[i].transitions \in Seq(Transition)
              /\ Len(dfa[i].transitions) \in Nat
              /\ DOMAIN dfa[i].transitions = 1 .. Len(dfa[i].transitions)
<1>1. dfa \in Seq(State)
  BY DEF Table
<1>2. Len(dfa) \in Nat /\ DOMAIN dfa = 1 .. Len(dfa)
  BY <1>1, LenProperties
<1>3. dfa # <<>> => 1 \in DOMAIN dfa
  BY <1>1, <1>2, EmptySeq
<1>4. ASSUME NEW i \in DOMAIN dfa
      PROVE  dfa[i].ids \in SUBSET Ids /\ dfa[i].transitions \in Seq(Transition)
  <2>1. dfa[i] \in State
    BY <1>1, <1>2, ElementOfSeq
  <2> QED BY <2>1 DEF State
<1> QED BY <1>2, <1>3, <1>4, LenProperties

LEMMA ClosureStep ==
  ASSUME IInv, eClosure
  PROVE  IInv'
<1> USE DEF eClosure
<1>1. /\ dfa' = dfa /\ di' = di /\ ch' = ch /\ dropped' = dropped
      /\ path' = path /\ at' = at /\ last' = last /\ status' = status
  BY DEF reading
<1>2. Table(dfa')
  BY <1>1 DEF IInv
<1>3. Closing'
  <2>1. Base' = Base
    BY <1>1 DEF Base
  <2>2. front \in Nat \ {0} /\ Growing(Base, set, front)
    BY DEF IInv, Closing
  <2>3. set \in SUBSET Ids
    BY <2>2 DEF Growing
  <2>4. front \in 1 .. Cardinality(set)
    BY <2>2, <2>3, SetsAreFinite
  <2>5. Growing(Base, set \cup Epsilon(Nth(set, front)), front + 1)
    BY <2>2, <2>4, GrowingGoesOn
  <2>6. set' = set \cup Epsilon(Nth(set, front)) /\ front' = front + 1
    BY DEF Epsilon
  <2>7. Growing(Base', set', front') /\ front' \in Nat \ {0}
    BY <2>1, <2>2, <2>5, <2>6
  <2> QED BY <1>1, <2>1, <2>7 DEF IInv, Closing
<1>4. Progress'
  BY <1>1 DEF IInv, Progress, Due
<1>5. Reading'
  BY <1>1, ReadingIdle DEF IInv, Reading
<1> QED BY <1>2, <1>3, <1>4, <1>5 DEF IInv

LEMMA FirstStateStep ==
  ASSUME IInv, FirstState
  PROVE  IInv'
<1> USE DEF FirstState
<1>1. /\ di' = 1 /\ ch' = 1 /\ dropped' = dropped /\ status' = "moving"
      /\ path' = path /\ at' = at /\ dfa = <<>>
  BY DEF reading, IInv, Progress
<1>2. ClosureOf({1}, set)
  <2>1. front \in Nat \ {0} /\ Growing({1}, set, front)
    BY DEF IInv, Closing, Base
  <2> QED BY <2>1, GrowingEnds
<1>3. /\ Table(dfa') /\ dfa' # <<>>
      /\ \A i \in DOMAIN dfa' : i \in DOMAIN dfa \/ dfa'[i].transitions = <<>>
  BY <1>1, <1>2, TableCreates DEF IInv
<1>4. \A i \in DOMAIN dfa' : dfa'[i].transitions = <<>> /\ Len(dfa'[i].transitions) = 0 /\ i \in Nat \ {0}
  <2>1. DOMAIN dfa = {} /\ DOMAIN dfa' = 1 .. Len(dfa') /\ Len(dfa') \in Nat
    <3>1. dfa' \in Seq(State)
      BY <1>3 DEF Table
    <3> QED BY <3>1, <1>1, LenProperties
  <2> QED BY <2>1, <1>3
<1>5. Progress'
  <2>1. Len(Char) \in Nat
    BY NfaFacts
  <2>2. \A i \in DOMAIN dfa' : \A k \in 1 .. Len(Char) : ~ (i < di' \/ (i = di' /\ k < ch'))
    BY <1>1, <1>4, <2>1
  <2> QED BY <1>1, <1>3, <1>4, <2>1, <2>2 DEF Progress, Due
<1>6. Closing'
  BY DEF Closing
<1>7. Reading'
  BY <1>1, ReadingIdle DEF IInv, Reading
<1> QED BY <1>3, <1>5, <1>6, <1>7 DEF IInv

\* What is known when a set other than the first has been closed.
LEMMA ClosedSet ==
  ASSUME IInv, AddTransition
  PROVE  /\ di \in DOMAIN dfa /\ ch \in 1 .. Len(Char) /\ Len(Char) \in Nat
         /\ ClosureOf(moveOnChar(dfa[di].ids, Char[ch]), set)
         /\ moveOnChar(dfa[di].ids, Char[ch]) # {}
         /\ Char[ch] \in ToSet(Char)
<1>1. /\ dfa # <<>> /\ front \in Nat \ {0} /\ front > Cardinality(set)
      /\ Growing(Base, set, front) /\ di <= Len(dfa) /\ ch <= Len(Char) /\ Base # {}
  BY DEF AddTransition, IInv, Closing
<1>2. Base = moveOnChar(dfa[di].ids, Char[ch])
  BY <1>1 DEF Base
<1>3. Len(Char) \in Nat /\ DOMAIN Char = 1 .. Len(Char)
  BY NfaFacts
<1>4. di \in DOMAIN dfa /\ ch \in 1 .. Len(Char)
  BY <1>1, <1>3, StateFacts DEF IInv, Progress
<1>5. ClosureOf(Base, set)
  BY <1>1, GrowingEnds
<1>6. Char[ch] \in ToSet(Char)
  BY <1>3, <1>4, ToSetMember
<1> QED BY <1>1, <1>2, <1>3, <1>4, <1>5, <1>6

\* A transition more keeps those that were there.
LEMMA TransitionsGrow ==
  ASSUME NEW old, NEW new, NEW t, old.transitions \in Seq(Transition), t \in Transition,
         new.transitions = Append(old.transitions, t)
  PROVE  /\ Len(new.transitions) = Len(old.transitions) + 1
         /\ HasTransition(new, t.exactC)
         /\ \A char : HasTransition(old, char) => HasTransition(new, char)
<1>1. /\ new.transitions \in Seq(Transition)
      /\ Len(new.transitions) = Len(old.transitions) + 1
      /\ \A j \in 1 .. Len(old.transitions) : new.transitions[j] = old.transitions[j]
      /\ new.transitions[Len(old.transitions) + 1] = t
  BY AppendProperties
<1>2. /\ DOMAIN new.transitions = 1 .. Len(old.transitions) + 1
      /\ DOMAIN old.transitions = 1 .. Len(old.transitions) /\ Len(old.transitions) \in Nat
  BY <1>1, LenProperties
<1> QED BY <1>1, <1>2 DEF HasTransition

LEMMA AddTransitionStep ==
  ASSUME IInv, AddTransition
  PROVE  IInv'
<1> DEFINE states == findOrCreate(dfa, set)
           found == {i \in DOMAIN states : states[i].ids = set}
           moved == moveOnChar(dfa[di].ids, Char[ch])
<1>1. /\ di' = di /\ ch' = ch + 1 /\ status = "closing" /\ status' = "moving"
      /\ path' = path /\ at' = at /\ dfa # <<>>
  BY DEF AddTransition, reading
<1>2. /\ di \in DOMAIN dfa /\ ch \in 1 .. Len(Char) /\ Len(Char) \in Nat
      /\ ClosureOf(moved, set) /\ moved # {} /\ Char[ch] \in ToSet(Char)
  BY ClosedSet
<1>3. /\ Table(states) /\ states # <<>>
      /\ \A i \in DOMAIN dfa : i \in DOMAIN states /\ states[i] = dfa[i]
      /\ \A i \in DOMAIN states : i \in DOMAIN dfa \/ states[i].transitions = <<>>
  <2> HIDE DEF moved
  <2> QED BY <1>1, <1>2, TableCreates DEF IInv
<1>4. DOMAIN dfa = 1 .. Len(dfa) /\ Len(dfa) \in Nat /\ DOMAIN states \subseteq Nat \ {0}
  <2>1. states \in Seq(State)
    BY <1>3 DEF Table
  <2> HIDE DEF states
  <2> QED BY <2>1, StateFacts, LenProperties DEF IInv
<1>5. /\ \A i \in DOMAIN states : i > di => states[i].transitions = <<>>
      /\ states[di] = dfa[di] /\ Len(dfa[di].transitions) < ch
      /\ dfa[di].transitions \in Seq(Transition) /\ Len(dfa[di].transitions) \in Nat
  <2> HIDE DEF states
  <2> QED BY <1>2, <1>3, StateFacts DEF IInv, Progress
<1>6. /\ found = {} => dfa' = states /\ dropped' = TRUE
      /\ found # {} =>
           /\ dfa' = [states EXCEPT ![di].transitions =
                        Append(@, [to |-> Least(found), exactC |-> Char[ch]])]
           /\ dropped' = dropped
  BY Zenon DEF AddTransition
<1> HIDE DEF states
<1>7. Table(dfa') /\ Progress'
  <2>1. CASE found = {}
    <3>1. dfa' = states /\ dropped' = TRUE
      BY <2>1, <1>6
    <3>2. Table(dfa')
      BY <3>1, <1>3
    <3>3. Progress'
      BY <3>1, <1>1, <1>2, <1>3, <1>5 DEF Progress, IInv
    <3> QED BY <3>2, <3>3
  <2>2. CASE found # {}
    <3>1. PICK n : n = Least(found)
      OBVIOUS
    <3>2. n \in found
      BY <3>1, <2>2, <1>4, LeastFacts
    <3>3. n \in DOMAIN states /\ n \in Nat /\ states[n].ids = set
      BY <3>2, <1>4
    <3>4. PICK t : t = [to |-> n, exactC |-> Char[ch]]
      OBVIOUS
    <3>5. t \in Transition /\ t.to = n /\ t.exactC = Char[ch]
      BY <3>3, <3>4, <1>2 DEF Transition
    <3>6. dfa' = Connected(states, di, t) /\ dropped' = dropped
      BY <2>2, <3>1, <3>4, <1>6 DEF Connected
    <3>7. di \in DOMAIN states /\ Leads(states, states[di].ids, t)
      BY <1>2, <1>3, <1>5, <3>3, <3>5 DEF Leads
    <3> HIDE DEF found, moved
    <3>8. /\ Table(dfa') /\ DOMAIN dfa' = DOMAIN states
          /\ \A j \in DOMAIN states :
               /\ dfa'[j].ids = states[j].ids
               /\ j # di => dfa'[j].transitions = states[j].transitions
          /\ dfa'[di].transitions = Append(states[di].transitions, t)
      BY <1>3, <3>5, <3>6, <3>7, TableConnects
    <3>9. /\ Len(dfa'[di].transitions) = Len(dfa[di].transitions) + 1
          /\ HasTransition(dfa'[di], Char[ch])
          /\ \A char : HasTransition(dfa[di], char) => HasTransition(dfa'[di], char)
      <4>1. dfa'[di].transitions = Append(dfa[di].transitions, t)
        BY <1>5, <3>8
      <4>2. \A new : new.transitions = Append(dfa[di].transitions, t) =>
              /\ Len(new.transitions) = Len(dfa[di].transitions) + 1
              /\ HasTransition(new, t.exactC)
              /\ \A char : HasTransition(dfa[di], char) => HasTransition(new, char)
        BY <1>5, <3>5, TransitionsGrow
      <4> QED BY <4>1, <4>2, <3>5
    <3>10. ASSUME ~dropped, NEW i \in DOMAIN dfa', NEW k \in 1 .. Len(Char),
                  i < di \/ (i = di /\ k < ch + 1), moveOnChar(dfa'[i].ids, Char[k]) # {}
           PROVE  HasTransition(dfa'[i], Char[k])
      <4>1. i \in DOMAIN dfa /\ i \in DOMAIN states /\ states[i] = dfa[i]
        BY <1>2, <1>3, <1>4, <3>8, <3>10
      <4>2. dfa'[i].ids = dfa[i].ids
        BY <4>1, <3>8
      <4>3. CASE i = di /\ k = ch
        BY <4>3, <3>9
      <4>4. CASE ~ (i = di /\ k = ch)
        <5>1. Due(i, k)
          BY <4>4, <3>10, <1>2 DEF Due
        <5>2. HasTransition(dfa[i], Char[k])
          BY <5>1, <4>1, <4>2, <3>10 DEF IInv, Progress
        <5>3. HasTransition(dfa[i], Char[k]) => HasTransition(dfa'[i], Char[k])
          <6>1. CASE i = di
            BY <6>1, <3>9
          <6>2. CASE i # di
            <7>1. dfa'[i].transitions = dfa[i].transitions
              BY <6>2, <4>1, <3>8
            <7> QED BY <7>1 DEF HasTransition
          <6> QED BY <6>1, <6>2
        <5> QED BY <5>2, <5>3
      <4> QED BY <4>3, <4>4
    <3>11. \A i \in DOMAIN dfa' :
             /\ i > di => dfa'[i].transitions = <<>>
             /\ i = di => Len(dfa'[i].transitions) < ch + 1
      BY <1>2, <1>4, <1>5, <3>8, <3>9
    <3>12. dfa' # <<>>
      <4>1. di \in DOMAIN dfa'
        BY <3>7, <3>8
      <4> QED BY <4>1
    <3>13. Progress'
      <4>1. di' \in Nat \ {0} /\ ch' \in 1 .. Len(Char) + 1
        BY <1>1, <1>2 DEF IInv, Progress
      <4>2. ~dropped' =>
              \A i \in DOMAIN dfa' : \A k \in 1 .. Len(Char) :
                (i < di' \/ (i = di' /\ k < ch')) /\ moveOnChar(dfa'[i].ids, Char[k]) # {}
                  => HasTransition(dfa'[i], Char[k])
        BY <1>1, <3>6, <3>10
      <4> QED BY <4>1, <4>2, <1>1, <3>11, <3>12 DEF Progress, Due
    <3> QED BY <3>8, <3>13
  <2> QED BY <2>1, <2>2
<1>8. Closing'
  BY <1>1 DEF Closing
<1>9. Reading'
  BY <1>1, ReadingIdle DEF IInv, Reading
<1> QED BY <1>7, <1>8, <1>9 DEF IInv

LEMMA MoveStep ==
  ASSUME IInv, Move
  PROVE  IInv'
<1>1. /\ dfa' = dfa /\ di' = di /\ ch' = ch /\ dropped' = dropped /\ status' = "closing"
      /\ front' = 1 /\ path' = path /\ at' = at /\ status = "moving" /\ di <= Len(dfa)
      /\ ch <= Len(Char)
      /\ set' = moveOnChar(dfa[di].ids, Char[ch]) /\ moveOnChar(dfa[di].ids, Char[ch]) # {}
  BY DEF Move, CharLeft, reading
<1>2. Table(dfa') /\ dfa # <<>> /\ di \in DOMAIN dfa
  BY <1>1, StateFacts DEF IInv, Progress
<1>3. Closing'
  <2>1. Base' = set'
    BY <1>1, <1>2 DEF Base
  <2>2. set' \in SUBSET Ids
    BY <1>1, <1>2, StateFacts, MovedFacts DEF IInv
  <2>3. Growing(Base', set', front')
    BY <1>1, <2>1, <2>2, GrowingStarts
  <2> QED BY <1>1, <2>1, <2>3 DEF Closing
<1>4. Progress'
  BY <1>1, <1>2 DEF IInv, Progress, Due
<1>5. Reading'
  BY <1>1, ReadingIdle DEF IInv, Reading
<1> QED BY <1>2, <1>3, <1>4, <1>5 DEF IInv

LEMMA NoMoveStep ==
  ASSUME IInv, NoMove
  PROVE  IInv'
<1>1. /\ dfa' = dfa /\ di' = di /\ ch' = ch + 1 /\ dropped' = dropped /\ status' = status
      /\ path' = path /\ at' = at /\ status = "moving" /\ di <= Len(dfa)
      /\ ch <= Len(Char) /\ moveOnChar(dfa[di].ids, Char[ch]) = {}
  BY DEF NoMove, CharLeft, reading
<1>2. Table(dfa') /\ dfa # <<>> /\ di \in DOMAIN dfa /\ Len(Char) \in Nat
  BY <1>1, StateFacts, NfaFacts DEF IInv, Progress
<1>3. Closing'
  BY <1>1 DEF Closing
<1>4. Progress'
  <2>1. ASSUME ~dropped, NEW i \in DOMAIN dfa, NEW k \in 1 .. Len(Char),
               i < di \/ (i = di /\ k < ch + 1), moveOnChar(dfa[i].ids, Char[k]) # {}
        PROVE  HasTransition(dfa[i], Char[k])
    <3>1. ~ (i = di /\ k = ch)
      BY <1>1, <2>1
    <3>2. Due(i, k)
      BY <3>1, <2>1, <1>2 DEF Due, IInv, Progress
    <3> QED BY <3>2, <2>1 DEF IInv, Progress
  <2>2. /\ ch + 1 \in 1 .. Len(Char) + 1 /\ di \in Nat \ {0}
        /\ \A i \in DOMAIN dfa :
             /\ i > di => dfa[i].transitions = <<>>
             /\ i = di => Len(dfa[i].transitions) < ch + 1
    <3>1. \A i \in DOMAIN dfa : Len(dfa[i].transitions) \in Nat
      BY StateFacts DEF IInv
    <3> QED BY <3>1, <1>1, <1>2 DEF IInv, Progress
  <2> QED BY <1>1, <1>2, <2>1, <2>2 DEF Progress, Due
<1>5. Reading'
  BY <1>1, ReadingIdle DEF IInv, Reading
<1> QED BY <1>2, <1>3, <1>4, <1>5 DEF IInv

\* A state has room for all its transitions, so that none is left out when the
\* next state's turn comes.
LEMMA NextStateStep ==
  ASSUME IInv, NextState
  PROVE  IInv'
<1>1. /\ dfa' = dfa /\ di' = di + 1 /\ ch' = 1 /\ dropped' = dropped /\ status' = status
      /\ path' = path /\ at' = at /\ status = "moving" /\ di <= Len(dfa) /\ ~CharLeft
  BY DEF NextState, reading
<1>2. /\ Table(dfa') /\ dfa # <<>> /\ di \in DOMAIN dfa /\ Len(dfa) \in Nat
      /\ DOMAIN dfa = 1 .. Len(dfa) /\ Len(dfa[di].transitions) \in Nat
  BY <1>1, StateFacts DEF IInv, Progress
<1>3. Len(Char) \in Nat /\ MAX_STATES \in Nat /\ Len(Char) <= MAX_STATES
  BY NfaFacts
<1>4. ch > Len(Char)
  <2>1. Len(dfa[di].transitions) < ch /\ ch \in 1 .. Len(Char) + 1
    BY <1>2 DEF IInv, Progress
  <2> QED BY <1>1, <1>2, <1>3, <2>1 DEF CharLeft
<1>5. Closing'
  BY <1>1 DEF Closing
<1>6. Progress'
  <2>1. ASSUME ~dropped, NEW i \in DOMAIN dfa, NEW k \in 1 .. Len(Char),
               i < di + 1 \/ (i = di + 1 /\ k < 1), moveOnChar(dfa[i].ids, Char[k]) # {}
        PROVE  HasTransition(dfa[i], Char[k])
    <3>1. Due(i, k)
      BY <2>1, <1>2, <1>3, <1>4 DEF Due, IInv, Progress
    <3> QED BY <3>1, <2>1 DEF IInv, Progress
  <2>2. /\ 1 \in 1 .. Len(Char) + 1 /\ di + 1 \in Nat \ {0}
        /\ \A i \in DOMAIN dfa :
             /\ i > di + 1 => dfa[i].transitions = <<>>
             /\ i = di + 1 => Len(dfa[i].transitions) < 1
    <3>1. \A i \in DOMAIN dfa : i > di => dfa[i].transitions = <<>> /\ Len(dfa[i].transitions) = 0
      BY DEF IInv, Progress
    <3> QED BY <3>1, <1>2, <1>3 DEF IInv, Progress
  <2> QED BY <1>1, <1>2, <2>1, <2>2 DEF Progress, Due
<1>7. Reading'
  BY <1>1, ReadingIdle DEF IInv, Reading
<1> QED BY <1>2, <1>5, <1>6, <1>7 DEF IInv

LEMMA LexStep ==
  ASSUME IInv, lex
  PROVE  IInv'
<1>1. Reading'
  BY ReadingIdle DEF lex, IInv, Reading
<1>2. Table(dfa') /\ Closing' /\ Progress'
  BY ConstructionKept DEF lex
<1> QED BY <1>1, <1>2 DEF IInv

LEMMA SkipSpaceStep ==
  ASSUME IInv, SkipSpace
  PROVE  IInv'
<1>1. Reading'
  BY ReadingIdle DEF SkipSpace, IInv, Reading
<1>2. Table(dfa') /\ Closing' /\ Progress'
  BY ConstructionKept DEF SkipSpace, IInv, Progress
<1> QED BY <1>1, <1>2 DEF IInv

(***************************************************************************)
(* The match.                                                              *)
(***************************************************************************)
\* The transition that is found leads to the closure of the move; when none is
\* found, none is there.
LEMMA NextStateFacts ==
  ASSUME Table(dfa), NEW i \in DOMAIN dfa, NEW char
  PROVE  /\ nextStateOnChar(dfa[i], char) # 0 =>
              /\ nextStateOnChar(dfa[i], char) \in DOMAIN dfa
              /\ moveOnChar(dfa[i].ids, char) # {}
              /\ ClosureOf(moveOnChar(dfa[i].ids, char), dfa[nextStateOnChar(dfa[i], char)].ids)
         /\ nextStateOnChar(dfa[i], char) = 0 => ~HasTransition(dfa[i], char)
<1> DEFINE on == {j \in DOMAIN dfa[i].transitions : dfa[i].transitions[j].exactC = char}
<1>1. nextStateOnChar(dfa[i], char) = IF on = {} THEN 0 ELSE dfa[i].transitions[Least(on)].to
  BY Zenon DEF nextStateOnChar
<1>2. CASE on = {}
  BY <1>1, <1>2 DEF HasTransition
<1>3. CASE on # {}
  <2>1. on \in SUBSET Nat
    BY StateFacts
  <2>2. PICK j : j = Least(on)
    OBVIOUS
  <2>3. j \in on
    BY <1>3, <2>1, <2>2, LeastFacts
  <2>4. Leads(dfa, dfa[i].ids, dfa[i].transitions[j]) /\ dfa[i].transitions[j].exactC = char
    BY <2>3 DEF Table
  <2>5. nextStateOnChar(dfa[i], char) = dfa[i].transitions[j].to
    BY <1>1, <1>3, <2>2
  <2>6. dfa[i].transitions[j].to \in DOMAIN dfa /\ dfa[i].transitions[j].to # 0
    BY <2>4, StateFacts DEF Leads
  <2> QED BY <2>4, <2>5, <2>6 DEF Leads
<1> QED BY <1>2, <1>3

\* The states gone through.
LEMMA PathFacts ==
  ASSUME IInv, path # <<>>
  PROVE  /\ Len(path) \in Nat \ {0} /\ DOMAIN path = 1 .. Len(path)
         /\ \A k \in 1 .. Len(path) : path[k] \in DOMAIN dfa
         /\ Last(path) = path[Len(path)] /\ Last(path) \in DOMAIN dfa
         /\ at \in Nat /\ Position \in Nat /\ Position = at + (Len(path) - 1)
<1>1. path \in Seq(DOMAIN dfa) /\ at \in Nat
  BY DEF IInv, Reading
<1>2. Len(path) \in Nat \ {0} /\ DOMAIN path = 1 .. Len(path)
  BY <1>1, LenProperties, EmptySeq
<1>3. \A k \in 1 .. Len(path) : path[k] \in DOMAIN dfa
  BY <1>1, ElementOfSeq
<1>4. Last(path) = path[Len(path)]
  BY DEF Last
<1> QED BY <1>1, <1>2, <1>3, <1>4 DEF Position

LEMMA createTokenStep ==
  ASSUME IInv, createToken
  PROVE  IInv'
<1>1. /\ status = "lexing" /\ status' = status /\ at' = at /\ path' = <<1>>
      /\ last' = [type |-> dfa[1].accepting, end |-> at] /\ dfa' = dfa
  BY DEF createToken, construction
<1>2. Table(dfa') /\ Closing' /\ Progress'
  BY ConstructionKept DEF createToken, IInv, Progress
<1>3. at \in Nat /\ 1 \in DOMAIN dfa
  BY <1>1, StateFacts DEF IInv, Reading, Progress
<1>4. path' \in Seq(DOMAIN dfa') /\ Len(path') = 1 /\ path'[1] = 1
  BY <1>1, <1>3
<1>5. LastAccepted(0)'
  <2>1. \A k \in 0 + 2 .. Len(path') : FALSE
    BY <1>4
  <2> QED BY <1>1, <1>3, <1>4, <2>1 DEF LastAccepted
<1>6. Reading'
  BY <1>1, <1>3, <1>4, <1>5 DEF Reading
<1> QED BY <1>2, <1>6 DEF IInv

LEMMA DFARunStep ==
  ASSUME IInv, DFARun
  PROVE  IInv'
<1>1. /\ status = "lexing" /\ status' = status /\ at' = at /\ dfa' = dfa /\ path # <<>>
      /\ Following # 0 /\ path' = Append(path, Following)
      /\ last' = Latest(dfa[Following].accepting)
  BY DEF DFARun, construction
<1>2. Table(dfa') /\ Closing' /\ Progress'
  BY ConstructionKept DEF DFARun, IInv, Progress
<1>3. /\ Len(path) \in Nat \ {0} /\ Last(path) \in DOMAIN dfa
      /\ at \in Nat /\ Position = at + (Len(path) - 1)
  BY <1>1, PathFacts
<1>4. Following \in DOMAIN dfa
  <2>1. Following = nextStateOnChar(dfa[Last(path)], source[Position + 1])
    BY <1>1 DEF Following
  <2> QED BY <1>1, <1>3, <2>1, NextStateFacts DEF IInv
<1>a. PICK L : L = Len(path)
  OBVIOUS
<1> DEFINE type == dfa[Following].accepting
<1>5. /\ path' \in Seq(DOMAIN dfa) /\ Len(path') = L + 1
      /\ \A k \in 1 .. L : path'[k] = path[k]
      /\ path'[L + 1] = Following
  <2>1. path \in Seq(DOMAIN dfa)
    BY DEF IInv, Reading
  <2> HIDE DEF Following
  <2> QED BY <1>1, <1>4, <1>a, <2>1, AppendProperties
<1>6. \E m \in 0 .. Len(path') - 1 : LastAccepted(m)'
  <2>1. CASE type # NOT_ACCEPTING
    <3>1. last'.end = at + L /\ last'.type = type
      BY <1>1, <1>3, <1>a, <2>1 DEF Latest
    <3>2. \A k \in L + 2 .. Len(path') : FALSE
      BY <1>3, <1>a, <1>5
    <3>3. LastAccepted(L)'
      BY <1>1, <1>5, <2>1, <3>1, <3>2 DEF LastAccepted
    <3> QED BY <1>3, <1>a, <1>5, <3>3
  <2>2. CASE type = NOT_ACCEPTING
    <3>1. last' = last
      BY <1>1, <2>2 DEF Latest
    <3>2. PICK m \in 0 .. L - 1 : LastAccepted(m)
      BY <1>1, <1>a DEF IInv, Reading
    <3>3. path'[m + 1] = path[m + 1]
      BY <1>3, <1>a, <1>5
    <3>4. ASSUME NEW k \in m + 2 .. Len(path') PROVE dfa[path'[k]].accepting = NOT_ACCEPTING
      <4>1. CASE k = L + 1
        BY <4>1, <2>2, <1>5
      <4>2. CASE k # L + 1
        <5>1. k \in m + 2 .. L /\ k \in 1 .. L
          BY <4>2, <1>3, <1>a, <1>5
        <5> QED BY <5>1, <3>2, <1>5, <1>a DEF LastAccepted
      <4> QED BY <4>1, <4>2
    <3>5. LastAccepted(m)'
      BY <1>1, <3>1, <3>2, <3>3, <3>4 DEF LastAccepted
    <3> QED BY <1>3, <1>a, <1>5, <3>5
  <2> QED BY <2>1, <2>2
<1>7. Reading'
  BY <1>1, <1>3, <1>a, <1>5, <1>6 DEF Reading
<1> QED BY <1>2, <1>7 DEF IInv

LEMMA addTokenStep ==
  ASSUME IInv, addToken
  PROVE  IInv'
<1>1. /\ status = "lexing" /\ status' = status /\ at' = last.end /\ dfa' = dfa /\ path # <<>>
      /\ path' = <<>>
  BY DEF addToken, construction
<1>2. Table(dfa') /\ Closing' /\ Progress'
  BY ConstructionKept DEF addToken, IInv, Progress
<1>3. last.end \in Nat
  <2>1. PICK m \in 0 .. Len(path) - 1 : LastAccepted(m)
    BY <1>1 DEF IInv, Reading
  <2> QED BY <1>1, <2>1, PathFacts DEF LastAccepted
<1>4. Reading'
  BY <1>1, <1>3, ReadingIdle
<1> QED BY <1>2, <1>4 DEF IInv

LEMMA StopStep ==
  ASSUME IInv, InvalidToken \/ EndOfSource
  PROVE  IInv'
<1>1. /\ status = "lexing" /\ status' \in {"error", "done"} /\ at' = at /\ dfa' = dfa
      /\ path' = path /\ last' = last /\ UNCHANGED construction
  BY DEF InvalidToken, EndOfSource, construction, reading
<1>2. Table(dfa') /\ Closing' /\ Progress'
  BY <1>1, ConstructionKept DEF IInv, Progress
<1>3. Reading'
  BY <1>1 DEF IInv, Reading, LastAccepted
<1> QED BY <1>2, <1>3 DEF IInv

LEMMA StepHolds ==
  ASSUME IInv, [Next]_vars
  PROVE  IInv'
<1>1. CASE UNCHANGED vars
  BY <1>1 DEF vars, IInv, Closing, Base, Progress, Due, Reading, LastAccepted
<1>2. CASE Next
  BY <1>2, ClosureStep, FirstStateStep, AddTransitionStep, MoveStep, NoMoveStep, NextStateStep,
     LexStep, SkipSpaceStep, createTokenStep, DFARunStep, addTokenStep, StopStep DEF Next
<1> QED BY <1>1, <1>2

(***************************************************************************)
(* The scanner that is implemented.                                        *)
(***************************************************************************)
\* The sets gone through are those of the states gone through.
LEMMA RunFacts ==
  ASSUME NEW states \in Seq(State), NEW steps \in Seq(DOMAIN states)
  PROVE  /\ RunOf(states, steps) \in Seq(SUBSET Ids)
         /\ Len(RunOf(states, steps)) = Len(steps)
         /\ \A k \in 1 .. Len(steps) : RunOf(states, steps)[k] = states[steps[k]].ids
         /\ RunOf(states, steps) = <<>> <=> steps = <<>>
         /\ steps # <<>> => Last(RunOf(states, steps)) = states[Last(steps)].ids
<1>1. Len(steps) \in Nat /\ DOMAIN steps = 1 .. Len(steps)
  BY LenProperties
<1>2. ASSUME NEW k \in 1 .. Len(steps) PROVE states[steps[k]].ids \in SUBSET Ids
  <2>1. steps[k] \in DOMAIN states
    BY <1>2, ElementOfSeq
  <2>2. steps[k] \in 1 .. Len(states)
    BY <2>1, LenProperties
  <2>3. states[steps[k]] \in State
    BY <2>2, ElementOfSeq
  <2> QED BY <2>3 DEF State
<1>3. RunOf(states, steps) = [k \in 1 .. Len(steps) |-> states[steps[k]].ids]
  BY <1>1 DEF RunOf
<1> DEFINE run == [k \in 1 .. Len(steps) |-> states[steps[k]].ids]
<1>4. run \in [1 .. Len(steps) -> SUBSET Ids]
  BY <1>2
<1>5. run \in Seq(SUBSET Ids) /\ Len(run) = Len(steps)
  BY <1>1, <1>4, SeqDef, LenProperties
<1>6. \A k \in 1 .. Len(steps) : run[k] = states[steps[k]].ids
  OBVIOUS
<1> HIDE DEF run
<1>7. run = <<>> <=> steps = <<>>
  BY <1>1, <1>5, EmptySeq
<1>8. steps # <<>> => Last(run) = states[Last(steps)].ids
  <2> SUFFICES ASSUME steps # <<>> PROVE Last(run) = states[Last(steps)].ids
    OBVIOUS
  <2>1. Len(steps) \in 1 .. Len(steps)
    BY <1>1, EmptySeq
  <2> QED BY <2>1, <1>5, <1>6 DEF Last
<1>9. RunOf(states, steps) = run
  BY <1>3 DEF run
<1> QED BY <1>5, <1>6, <1>7, <1>8, <1>9

LEMMA MovedMapped ==
  ASSUME NEW ids, NEW char
  PROVE  Scan!Moved(ids, char) = moveOnChar(ids, char)
BY DEF Scan!Moved, moveOnChar, Scan!ToSet, ToSet

\* While a text is read, and no set has been dropped: the sets gone through, the
\* end of the piece, and which of its beginnings are tokens.
LEMMA ScanFacts ==
  ASSUME IInv, ~dropped, status = "lexing", path # <<>>
  PROVE  /\ RunOf(dfa, path) # <<>> /\ Len(RunOf(dfa, path)) = Len(path)
         /\ Last(RunOf(dfa, path)) = dfa[Last(path)].ids
         /\ Scan!Read = Len(path) - 1
         /\ Scan!AtEnd <=> Following = 0
         /\ \A n \in 1 .. Len(path) - 1 :
              Scan!IsToken(n) <=> dfa[path[n + 1]].accepting # NOT_ACCEPTING
<1>1. dfa \in Seq(State) /\ path \in Seq(DOMAIN dfa)
  BY DEF IInv, Table, Reading
<1>2. /\ RunOf(dfa, path) # <<>> /\ Len(RunOf(dfa, path)) = Len(path)
      /\ Last(RunOf(dfa, path)) = dfa[Last(path)].ids
      /\ \A k \in 1 .. Len(path) : RunOf(dfa, path)[k] = dfa[path[k]].ids
  BY <1>1, RunFacts
<1>3. Scan!Read = Len(path) - 1
  BY <1>2 DEF Scan!Read
<1>4. /\ Len(path) \in Nat \ {0} /\ at \in Nat /\ Position = at + (Len(path) - 1)
      /\ \A k \in 1 .. Len(path) : path[k] \in DOMAIN dfa
      /\ Last(path) \in DOMAIN dfa
  BY PathFacts
<1>5. Scan!AtEnd <=> Following = 0
  <2> DEFINE char == source[Position + 1]
             ids == dfa[Last(path)].ids
  <2>1. Scan!AtEnd <=> Position = Len(source) \/ moveOnChar(ids, char) = {}
    <3>1. at + Scan!Read = Position
      BY <1>3, <1>4
    <3>2. Scan!Moved(ids, char) = moveOnChar(ids, char)
      BY MovedMapped
    <3>3. Scan!AtEnd <=>
            (at + Scan!Read = Len(source)
              \/ Scan!Moved(Last(RunOf(dfa, path)), source[at + Scan!Read + 1]) = {})
      BY DEF Scan!AtEnd, Scan!Last, Last
    <3> QED BY <3>1, <3>2, <3>3, <1>2
  <2>2. CASE Position = Len(source)
    BY <2>1, <2>2 DEF Following
  <2>3. CASE Position # Len(source)
    <3>1. Following = nextStateOnChar(dfa[Last(path)], char)
      BY <2>3 DEF Following
    <3>2. Following # 0 => moveOnChar(ids, char) # {}
      BY <3>1, <1>4, NextStateFacts DEF IInv
    <3>3. Following = 0 => moveOnChar(ids, char) = {}
      <4> SUFFICES ASSUME Following = 0, moveOnChar(ids, char) # {} PROVE FALSE
        OBVIOUS
      <4>1. ~HasTransition(dfa[Last(path)], char)
        BY <3>1, <1>4, NextStateFacts DEF IInv
      <4>2. ids \in SUBSET Ids
        BY <1>4, StateFacts DEF IInv
      <4>3. char \in ToSet(Char)
        BY <4>2, MovedFacts
      <4>4. PICK k \in 1 .. Len(Char) : Char[k] = char
        BY <4>3, NfaFacts, ToSetMember
      <4>5. Due(Last(path), k)
        <5>1. di > Len(dfa) /\ di \in Nat /\ Len(dfa) \in Nat /\ Last(path) \in 1 .. Len(dfa)
          BY <1>4, StateFacts DEF IInv, Progress
        <5> QED BY <5>1 DEF Due
      <4>6. moveOnChar(dfa[Last(path)].ids, Char[k]) # {}
        BY <4>4
      <4>7. HasTransition(dfa[Last(path)], Char[k])
        BY <4>5, <4>6, <1>4 DEF IInv, Progress
      <4> QED BY <4>1, <4>4, <4>7
    <3> QED BY <2>1, <2>3, <3>2, <3>3
  <2> QED BY <2>2, <2>3
<1>6. ASSUME NEW n \in 1 .. Len(path) - 1
      PROVE  Scan!IsToken(n) <=> dfa[path[n + 1]].accepting # NOT_ACCEPTING
  <2>1. n + 1 \in 1 .. Len(path) /\ path[n + 1] \in DOMAIN dfa
    BY <1>4
  <2>2. PICK ids : ids = dfa[path[n + 1]].ids
    OBVIOUS
  <2>3. ids \in SUBSET Ids /\ dfa[path[n + 1]].accepting = dominantToken(ids)
    BY <2>1, <2>2, StateFacts DEF IInv, Table
  <2>4. Scan!IsToken(n) <=> Scan!Accepting(ids) # {}
    BY <2>1, <2>2, <1>2, <1>3 DEF Scan!IsToken
  <2>5. Scan!Accepting(ids) = AcceptingIn(ids)
    BY Zenon DEF Scan!Accepting, AcceptingIn, Scan!NOT_ACCEPTING, NOT_ACCEPTING
  <2> QED BY <2>3, <2>4, <2>5, DominantFacts
<1> QED BY <1>2, <1>3, <1>5, <1>6

LEMMA ClosureMapped ==
  ASSUME NEW base, NEW ids, ClosureOf(base, ids)
  PROVE  Scan!IsClosure(base, ids)
<1>1. base \subseteq ids
  BY DEF ClosureOf
<1>2. \A id \in ids : ToSet(nfa[id].epsilon) \subseteq ids
  BY DEF ClosureOf, Closed, Epsilon
<1>3. \A id \in ids \ base : \E from \in ids : id \in ToSet(nfa[from].epsilon)
  BY DEF ClosureOf, Founded, Epsilon
<1> QED BY <1>1, <1>2, <1>3 DEF Scan!IsClosure, Scan!ToSet, ToSet

\* One state more, one set more.
LEMMA RunAppend ==
  ASSUME NEW states \in Seq(State), NEW steps \in Seq(DOMAIN states), NEW n \in DOMAIN states
  PROVE  /\ RunOf(states, Append(steps, n)) = Append(RunOf(states, steps), states[n].ids)
         /\ Last(RunOf(states, Append(steps, n))) = states[n].ids
         /\ Len(RunOf(states, Append(steps, n))) = Len(RunOf(states, steps)) + 1
<1> DEFINE more == Append(steps, n)
           run == RunOf(states, steps)
           longer == RunOf(states, more)
           ids == states[n].ids
<1>1. /\ more \in Seq(DOMAIN states) /\ Len(more) = Len(steps) + 1 /\ Len(steps) \in Nat
      /\ \A k \in 1 .. Len(steps) : more[k] = steps[k]
      /\ more[Len(steps) + 1] = n
  BY AppendProperties, LenProperties
<1> HIDE DEF more
<1>2. /\ run \in Seq(SUBSET Ids) /\ Len(run) = Len(steps)
      /\ \A k \in 1 .. Len(steps) : run[k] = states[steps[k]].ids
  BY RunFacts
<1>3. /\ longer \in Seq(SUBSET Ids) /\ Len(longer) = Len(more)
      /\ \A k \in 1 .. Len(more) : longer[k] = states[more[k]].ids
  BY <1>1, RunFacts
<1>4. ids \in SUBSET Ids
  <2>1. n \in 1 .. Len(states)
    BY LenProperties
  <2>2. states[n] \in State
    BY <2>1, ElementOfSeq
  <2> QED BY <2>2 DEF State
<1> HIDE DEF run, longer
<1>5. /\ Append(run, ids) \in Seq(SUBSET Ids) /\ Len(Append(run, ids)) = Len(run) + 1
      /\ \A k \in 1 .. Len(run) : Append(run, ids)[k] = run[k]
      /\ Append(run, ids)[Len(run) + 1] = ids
  <2> HIDE DEF ids
  <2> QED BY <1>2, <1>4, AppendProperties
<1>6. ASSUME NEW k \in 1 .. Len(longer) PROVE longer[k] = Append(run, ids)[k]
  <2>1. CASE k = Len(steps) + 1
    BY <2>1, <1>1, <1>2, <1>3, <1>5
  <2>2. CASE k # Len(steps) + 1
    <3>1. k \in 1 .. Len(steps) /\ k \in 1 .. Len(more)
      BY <2>2, <1>1, <1>3
    <3> QED BY <3>1, <1>1, <1>2, <1>3, <1>5
  <2> QED BY <2>1, <2>2
<1>7. longer = Append(run, ids)
  <2>1. Len(longer) = Len(Append(run, ids))
    BY <1>1, <1>2, <1>3, <1>5
  <2> HIDE DEF ids
  <2> QED BY <2>1, <1>3, <1>5, <1>6, SeqEqual
<1>8. Last(longer) = ids
  BY <1>1, <1>2, <1>3, <1>5, <1>7 DEF Last
<1> QED BY <1>1, <1>2, <1>3, <1>7, <1>8 DEF run, longer, more

\* The construction is nothing to a reader.
LEMMA ConstructionStutters ==
  ASSUME IInv,
         eClosure \/ FirstState \/ AddTransition \/ Move \/ NoMove \/ NextState
  PROVE  UNCHANGED Scan!vars
<1>1. /\ status \in {"closing", "moving"} /\ status' \in {"closing", "moving"}
      /\ UNCHANGED reading
  BY DEF eClosure, FirstState, AddTransition, Move, NoMove, NextState
<1>2. path = <<>> /\ path' = <<>>
  BY <1>1 DEF IInv, Reading, reading
<1>3. RunOf(dfa, path) = <<>> /\ RunOf(dfa', path') = <<>>
  BY <1>2 DEF RunOf
<1>4. Stage' = Stage
  BY <1>1 DEF Stage
<1> QED BY <1>1, <1>3, <1>4 DEF Scan!vars, reading

LEMMA lexRefines ==
  ASSUME IInv, lex
  PROVE  Scan!Begin
<1>1. path = <<>> /\ path' = path
  BY DEF lex, IInv, Reading
<1>2. RunOf(dfa', path') = RunOf(dfa, path)
  BY <1>1 DEF RunOf
<1>3. Stage = "started" /\ Stage' = "lexing"
  BY DEF lex, Stage
<1> QED BY <1>2, <1>3 DEF lex, Scan!Begin

LEMMA SkipSpaceRefines ==
  ASSUME IInv, SkipSpace
  PROVE  Scan!Skip
<1>1. RunOf(dfa, path) = <<>> /\ RunOf(dfa', path') = <<>>
  BY DEF SkipSpace, RunOf
<1>2. Stage = "lexing" /\ Stage' = "lexing"
  BY DEF SkipSpace, Stage
<1> QED BY <1>1, <1>2 DEF SkipSpace, Scan!Skip

LEMMA createTokenRefines ==
  ASSUME IInv, createToken
  PROVE  Scan!Start
<1>1. /\ dfa' = dfa /\ path = <<>> /\ path' = Append(<<>>, 1) /\ dfa \in Seq(State)
      /\ 1 \in DOMAIN dfa /\ ClosureOf({1}, dfa[1].ids)
  <2>1. dfa # <<>>
    BY DEF createToken, IInv, Progress
  <2> QED BY <2>1, StateFacts DEF createToken, construction, IInv, Table
<1>2. RunOf(dfa, <<>>) = <<>>
  BY DEF RunOf
<1>3. /\ RunOf(dfa', path') = Append(<<>>, dfa[1].ids)
      /\ Last(RunOf(dfa', path')) = dfa[1].ids
  <2>1. <<>> \in Seq(DOMAIN dfa)
    OBVIOUS
  <2> QED BY <1>1, <1>2, <2>1, RunAppend
<1>4. RunOf(dfa', path') = <<dfa[1].ids>> /\ Len(RunOf(dfa', path')) = 1
  BY <1>3
<1>5. Scan!IsClosure({1}, dfa[1].ids)
  BY <1>1, ClosureMapped
<1>6. Stage = "lexing" /\ Stage' = "lexing" /\ RunOf(dfa, path) = <<>>
  BY <1>1, <1>2 DEF createToken, Stage
<1>7. Scan!Last(RunOf(dfa', path')) = dfa[1].ids
  BY <1>3 DEF Scan!Last, Last
<1> QED BY <1>4, <1>5, <1>6, <1>7 DEF createToken, Scan!Start

LEMMA DFARunRefines ==
  ASSUME IInv, ~dropped, DFARun
  PROVE  Scan!Step
<1>1. /\ dfa' = dfa /\ path # <<>> /\ Following # 0 /\ path' = Append(path, Following)
      /\ dfa \in Seq(State) /\ path \in Seq(DOMAIN dfa) /\ status = "lexing"
  BY DEF DFARun, construction, IInv, Table, Reading
<1>2. /\ RunOf(dfa, path) # <<>> /\ ~Scan!AtEnd
      /\ Last(RunOf(dfa, path)) = dfa[Last(path)].ids /\ Scan!Read = Len(path) - 1
  BY <1>1, ScanFacts
<1>3. PICK n : n = Following
  OBVIOUS
<1>4. PICK char : char = source[Position + 1]
  OBVIOUS
<1>5. /\ Last(path) \in DOMAIN dfa /\ at + Scan!Read + 1 = Position + 1
  BY <1>1, <1>2, PathFacts
<1>6. n = nextStateOnChar(dfa[Last(path)], char) /\ n # 0
  BY <1>1, <1>3, <1>4 DEF Following
<1>7. n \in DOMAIN dfa /\ ClosureOf(moveOnChar(dfa[Last(path)].ids, char), dfa[n].ids)
  BY <1>5, <1>6, NextStateFacts DEF IInv
<1>8. /\ RunOf(dfa', path') = Append(RunOf(dfa, path), dfa[n].ids)
      /\ Last(RunOf(dfa', path')) = dfa[n].ids
      /\ Len(RunOf(dfa', path')) = Len(RunOf(dfa, path)) + 1
  BY <1>1, <1>3, <1>7, RunAppend
<1>9. /\ Scan!Last(RunOf(dfa', path')) = dfa[n].ids
      /\ Scan!Last(RunOf(dfa, path)) = dfa[Last(path)].ids
  BY <1>2, <1>8 DEF Scan!Last, Last
<1>10. Scan!Moved(dfa[Last(path)].ids, source[at + Scan!Read + 1]) =
         moveOnChar(dfa[Last(path)].ids, char)
  BY <1>4, <1>5, MovedMapped
<1>11. Scan!IsClosure(Scan!Moved(Scan!Last(RunOf(dfa, path)), source[at + Scan!Read + 1]),
                      Scan!Last(RunOf(dfa', path')))
  BY <1>7, <1>9, <1>10, ClosureMapped
<1>12. Stage = "lexing" /\ Stage' = "lexing"
  BY DEF DFARun, Stage
<1> QED BY <1>2, <1>8, <1>9, <1>11, <1>12 DEF DFARun, Scan!Step

LEMMA addTokenRefines ==
  ASSUME IInv, ~dropped, addToken
  PROVE  Scan!Take
<1>1. /\ path # <<>> /\ Following = 0 /\ status = "lexing" /\ path' = <<>> /\ at' = last.end
      /\ last.type # NOT_ACCEPTING /\ last.end # at /\ source' = source
      /\ tokenList' =
           Append(tokenList, [type |-> last.type, value |-> SubSeq(source, at + 1, last.end)])
      /\ dfa \in Seq(State) /\ path \in Seq(DOMAIN dfa)
  BY DEF addToken, IInv, Table, Reading
<1>2. /\ RunOf(dfa, path) # <<>> /\ Scan!AtEnd /\ Scan!Read = Len(path) - 1
      /\ \A n \in 1 .. Len(path) - 1 :
           Scan!IsToken(n) <=> dfa[path[n + 1]].accepting # NOT_ACCEPTING
  BY <1>1, ScanFacts
<1>3. PICK m \in 0 .. Len(path) - 1 : LastAccepted(m)
  BY <1>1 DEF IInv, Reading
<1>4. /\ Len(path) \in Nat \ {0} /\ at \in Nat
      /\ \A k \in 1 .. Len(path) : path[k] \in DOMAIN dfa
  BY <1>1, PathFacts
<1>5. m \in 1 .. Len(path) - 1 /\ m + 1 \in 1 .. Len(path) /\ last.end = at + m
  BY <1>1, <1>3, <1>4 DEF LastAccepted
<1>6. Scan!IsToken(m)
  BY <1>1, <1>2, <1>3, <1>5 DEF LastAccepted
<1>7. ASSUME NEW longer \in m + 1 .. Len(path) - 1 PROVE ~Scan!IsToken(longer)
  <2>1. longer \in 1 .. Len(path) - 1 /\ longer + 1 \in m + 2 .. Len(path)
    BY <1>4, <1>5
  <2> QED BY <2>1, <1>2, <1>3 DEF LastAccepted
<1>8. PICK ids : ids = dfa[path[m + 1]].ids
  OBVIOUS
<1>9. RunOf(dfa, path)[m + 1] = ids
  BY <1>1, <1>5, <1>8, RunFacts
<1>10. ids \in SUBSET Ids /\ last.type = dominantToken(ids)
  <2>1. path[m + 1] \in DOMAIN dfa
    BY <1>4, <1>5
  <2> QED BY <2>1, <1>3, <1>8, StateFacts DEF IInv, Table, LastAccepted
<1>11. PICK id \in AcceptingIn(ids) :
         (\A other \in AcceptingIn(ids) : id <= other) /\ last.type = nfa[id].accepting
  BY <1>1, <1>10, DominantFacts
<1>12. id \in ids /\ Scan!Dominant(ids, id)
  <2>1. Scan!Accepting(ids) = AcceptingIn(ids)
    BY Zenon DEF Scan!Accepting, AcceptingIn, Scan!NOT_ACCEPTING, NOT_ACCEPTING
  <2> QED BY <2>1, <1>11 DEF Scan!Dominant, AcceptingIn
<1>13. tokenList' = Append(tokenList, [type |-> nfa[id].accepting,
                                       value |-> SubSeq(source, at + 1, at + m)])
  BY <1>1, <1>5, <1>11
<1>14. RunOf(dfa', path') = <<>> /\ Stage = "lexing" /\ Stage' = "lexing"
  BY <1>1 DEF RunOf, addToken, Stage
<1>15. \E id_1 \in RunOf(dfa, path)[m + 1] :
         /\ Scan!Dominant(RunOf(dfa, path)[m + 1], id_1)
         /\ tokenList' = Append(tokenList, [type |-> nfa[id_1].accepting,
                                            value |-> SubSeq(source, at + 1, at + m)])
  BY <1>9, <1>12, <1>13
<1>16. m \in 1 .. Scan!Read /\ \A longer \in m + 1 .. Scan!Read : ~Scan!IsToken(longer)
  BY <1>2, <1>5, <1>7
<1>17. at' = at + m
  BY <1>1, <1>5
<1> QED BY <1>1, <1>2, <1>6, <1>14, <1>15, <1>16, <1>17 DEF Scan!Take

LEMMA InvalidTokenRefines ==
  ASSUME IInv, ~dropped, InvalidToken
  PROVE  Scan!Refuse
<1>1. /\ path # <<>> /\ path' = path /\ dfa' = dfa /\ status = "lexing" /\ Following = 0
      /\ last.type = NOT_ACCEPTING \/ last.end = at
  BY DEF InvalidToken, construction, reading
<1>2. /\ RunOf(dfa, path) # <<>> /\ Scan!AtEnd /\ Scan!Read = Len(path) - 1
      /\ \A n \in 1 .. Len(path) - 1 :
           Scan!IsToken(n) <=> dfa[path[n + 1]].accepting # NOT_ACCEPTING
  BY <1>1, ScanFacts
<1>3. PICK m \in 0 .. Len(path) - 1 : LastAccepted(m)
  BY <1>1 DEF IInv, Reading
<1>4. Len(path) \in Nat \ {0} /\ at \in Nat
  BY <1>1, PathFacts
<1>5. m = 0
  BY <1>1, <1>3, <1>4 DEF LastAccepted
<1>6. ASSUME NEW n \in 1 .. Len(path) - 1 PROVE ~Scan!IsToken(n)
  <2>1. n + 1 \in m + 2 .. Len(path)
    BY <1>4, <1>5
  <2> QED BY <2>1, <1>2, <1>3 DEF LastAccepted
<1>7. RunOf(dfa', path') = RunOf(dfa, path)
  BY <1>1
<1>8. Stage = "lexing" /\ Stage' = "error"
  BY DEF InvalidToken, Stage
<1>9. \A n \in 1 .. Scan!Read : ~Scan!IsToken(n)
  BY <1>2, <1>6
<1> QED BY <1>2, <1>7, <1>8, <1>9 DEF InvalidToken, reading, Scan!Refuse

LEMMA EndOfSourceRefines ==
  ASSUME IInv, EndOfSource
  PROVE  Scan!Finish
<1>1. RunOf(dfa, path) = <<>> /\ RunOf(dfa', path') = RunOf(dfa, path)
  BY DEF EndOfSource, RunOf, construction, reading
<1>2. Stage = "lexing" /\ Stage' = "done"
  BY DEF EndOfSource, Stage
<1> QED BY <1>1, <1>2 DEF EndOfSource, reading, Scan!Finish

(***************************************************************************)
(* Theorems.                                                               *)
(***************************************************************************)
\* The table, the set that is being closed, the transitions made so far and the
\* token accepted last are what they should be, at each step.
\* (createDFAFromNFA, findOrCreate, eClosure, DFARun)
THEOREM ConstructionAlways == Spec => []IInv
<1>1. Init => IInv
  BY InitHolds
<1>2. IInv /\ [Next]_vars => IInv'
  BY StepHolds
<1> QED BY <1>1, <1>2, PTL DEF Spec

\* Unless the table of states is too small for the automaton, every text is read
\* as the automaton reads it.
\* (createDFAFromNFA, findOrCreate, eClosure, DFARun)
THEOREM ReadsAsAutomaton == Spec /\ [](~dropped) => ImplementsScanner
<1>1. Init => Scan!Init
  <2>1. ASSUME Init PROVE RunOf(dfa, path) = <<>> /\ Stage = "started"
    BY <2>1 DEF Init, RunOf, Stage
  <2> QED BY <2>1 DEF Init, Scan!Init
<1>2. IInv /\ ~dropped /\ [Next]_vars => [Scan!Next]_(Scan!vars)
  <2> SUFFICES ASSUME IInv, ~dropped, [Next]_vars PROVE [Scan!Next]_(Scan!vars)
    OBVIOUS
  <2>1. CASE UNCHANGED vars
    <3>1. dfa' = dfa /\ path' = path /\ status' = status
      BY <2>1 DEF vars
    <3>2. RunOf(dfa', path') = RunOf(dfa, path) /\ Stage' = Stage
      BY <3>1 DEF Stage
    <3> QED BY <2>1, <3>2 DEF vars, Scan!vars
  <2>2. CASE eClosure \/ FirstState \/ AddTransition \/ Move \/ NoMove \/ NextState
    BY <2>2, ConstructionStutters
  <2>3. CASE lex \/ SkipSpace \/ createToken \/ DFARun \/ addToken \/ InvalidToken \/ EndOfSource
    BY <2>3, lexRefines, SkipSpaceRefines, createTokenRefines, DFARunRefines, addTokenRefines,
       InvalidTokenRefines, EndOfSourceRefines DEF Scan!Next
  <2> QED BY <2>1, <2>2, <2>3 DEF Next
<1> QED BY <1>1, <1>2, ConstructionAlways, PTL DEF Spec, ImplementsScanner, Scan!Spec

\* No set has two states, and none is refused before the table is full.
Apart(states) == \A i, j \in DOMAIN states : states[i].ids = states[j].ids => i = j
Full == Apart(dfa) /\ (dropped => Len(dfa) >= MAX_STATES)

LEMMA CreatedApart ==
  ASSUME NEW states, Table(states), Apart(states), NEW ids \in SUBSET Ids,
         NEW new, new = findOrCreate(states, ids)
  PROVE  /\ Apart(new) /\ Len(new) >= Len(states) /\ Len(states) \in Nat /\ Len(new) \in Nat
         /\ {i \in DOMAIN new : new[i].ids = ids} = {} => Len(new) >= MAX_STATES
<1>1. states \in Seq(State) /\ Len(states) \in Nat /\ DOMAIN states = 1 .. Len(states)
  BY LenProperties DEF Table
<1>2. CASE (\E i \in DOMAIN states : states[i].ids = ids) \/ Len(states) >= MAX_STATES
  <2>1. new = states
    BY <1>2 DEF findOrCreate
  <2> QED BY <1>1, <1>2, <2>1
<1>3. CASE ~ ((\E i \in DOMAIN states : states[i].ids = ids) \/ Len(states) >= MAX_STATES)
  <2>1. new = Append(states, DFAState(ids))
    BY <1>3 DEF findOrCreate
  <2>2. DFAState(ids) \in State /\ DFAState(ids).ids = ids
    BY NewState
  <2>3. PICK added : added = DFAState(ids)
    OBVIOUS
  <2>4. /\ new \in Seq(State) /\ Len(new) = Len(states) + 1
        /\ \A i \in 1 .. Len(states) : new[i] = states[i]
        /\ new[Len(states) + 1] = added
    BY <1>1, <2>1, <2>2, <2>3, AppendProperties
  <2>5. DOMAIN new = 1 .. Len(states) + 1
    BY <2>4, LenProperties
  <2>6. new[Len(states) + 1].ids = ids /\ Len(states) + 1 \in DOMAIN new
    BY <1>1, <2>2, <2>3, <2>4, <2>5
  <2>7. ASSUME NEW i \in DOMAIN new, NEW j \in DOMAIN new, new[i].ids = new[j].ids PROVE i = j
    <3>1. \A k \in DOMAIN new : k = Len(states) + 1 \/ (k \in DOMAIN states /\ new[k] = states[k])
      BY <1>1, <2>4, <2>5
    <3> QED BY <1>3, <2>6, <2>7, <3>1 DEF Apart
  <2> QED BY <1>1, <2>4, <2>6, <2>7 DEF Apart
<1> QED BY <1>2, <1>3

LEMMA FullHolds ==
  ASSUME IInv, Full, [Next]_vars
  PROVE  Full'
<1>1. CASE UNCHANGED <<dfa, dropped>>
  BY <1>1 DEF Full
<1>2. CASE FirstState
  <2>1. ClosureOf({1}, set) /\ dfa' = findOrCreate(dfa, set) /\ dropped' = dropped
    <3>1. dfa = <<>> /\ front \in Nat \ {0} /\ front > Cardinality(set) /\ Growing({1}, set, front)
      BY <1>2 DEF FirstState, IInv, Closing, Base
    <3> QED BY <1>2, <3>1, GrowingEnds DEF FirstState
  <2>2. set \in SUBSET Ids
    BY <2>1 DEF ClosureOf
  <2>3. Apart(dfa') /\ Len(dfa') >= Len(dfa) /\ Len(dfa) \in Nat /\ Len(dfa') \in Nat
    BY <2>1, <2>2, CreatedApart DEF IInv, Full
  <2> QED BY <2>1, <2>3, NfaFacts DEF Full
<1>3. CASE AddTransition
  <2> DEFINE states == findOrCreate(dfa, set)
             found == {i \in DOMAIN states : states[i].ids = set}
  <2>1. set \in SUBSET Ids /\ di \in DOMAIN dfa
    BY <1>3, ClosedSet DEF ClosureOf
  <2>2. /\ Apart(states) /\ Len(states) >= Len(dfa) /\ Len(dfa) \in Nat /\ Len(states) \in Nat
        /\ found = {} => Len(states) >= MAX_STATES
    BY <2>1, CreatedApart DEF IInv, Full
  <2>3. /\ found = {} => dfa' = states
        /\ found # {} =>
             /\ dfa' = [states EXCEPT ![di].transitions =
                          Append(@, [to |-> Least(found), exactC |-> Char[ch]])]
             /\ dropped' = dropped
    BY <1>3, Zenon DEF AddTransition
  <2> HIDE DEF states
  <2>4. CASE found = {}
    BY <2>2, <2>3, <2>4 DEF Full
  <2>5. CASE found # {}
    <3>1. Len(dfa') = Len(states) /\ DOMAIN dfa' = DOMAIN states
          /\ \A i \in DOMAIN states : dfa'[i].ids = states[i].ids
      <4>1. states \in Seq(State)
        <5>1. findOrCreate(dfa, set) \in Seq(State)
          BY <2>1, FoundOrCreated DEF IInv, Table
        <5> QED BY <5>1 DEF states
      <4>2. PICK t : t = [to |-> Least(found), exactC |-> Char[ch]]
        OBVIOUS
      <4>3. dfa' = [states EXCEPT ![di].transitions = Append(@, t)]
        BY <2>3, <2>5, <4>2
      <4>4. \A i \in 1 .. Len(states) : states[i] \in State
        BY <4>1, ElementOfSeq
      <4> QED BY <4>1, <4>3, <4>4 DEF State
    <3> QED BY <2>2, <2>3, <2>5, <3>1, NfaFacts DEF Full, Apart
  <2> QED BY <2>4, <2>5
<1>4. CASE Next /\ ~FirstState /\ ~AddTransition
  <2>1. UNCHANGED <<dfa, dropped>>
    BY <1>4 DEF Next, eClosure, Move, NoMove, NextState, lex, SkipSpace, createToken, DFARun,
       addToken, InvalidToken, EndOfSource, construction
  <2> QED BY <2>1, <1>1
<1>5. CASE UNCHANGED vars
  BY <1>1, <1>5 DEF vars
<1> QED BY <1>2, <1>3, <1>4, <1>5

\* What ReadsAsAutomaton excepts happens only when every place of the table has
\* a state, each of another set.
\* (findOrCreate)
THEOREM DroppedWhenFull == Spec => []Full
<1>1. Init => Full
  <2>1. ASSUME Init PROVE DOMAIN dfa = {} /\ ~dropped
    BY <2>1 DEF Init
  <2> QED BY <2>1 DEF Full, Apart
<1>2. IInv /\ Full /\ [Next]_vars => Full'
  BY FullHolds
<1> QED BY <1>1, <1>2, ConstructionAlways, PTL DEF Spec

================================================================================
