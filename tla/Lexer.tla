--------------------------------- MODULE Lexer ---------------------------------
(***************************************************************************)
(* From an automaton with epsilon transitions to tokens: the subset        *)
(* construction, one set and one character after the other, and then the   *)
(* longest match.  An automaton is a sequence of states, numbered from 1;  *)
(* a text is a sequence of characters.                                     *)
(***************************************************************************)
EXTENDS Naturals, SequencesExt, FiniteSets

CONSTANTS
  nfa,            \* the merged automaton
  Char,           \* the characters, in order
  Source,         \* the texts to read
  Space,          \* the characters between tokens
  MAX_STATES, MAX_TRANSITION, MAX_EPSILON   \* the sizes of the tables

\* The automaton is well-formed and fits into its tables, which are filled
\* without a test; its epsilon transitions lead to states that were made later.
ASSUME AutomatonAssumption ==
  /\ nfa \in Seq(ToSet(nfa)) /\ nfa # <<>> /\ Len(nfa) <= MAX_STATES
  /\ \A id \in DOMAIN nfa :
       /\ Len(nfa[id].transitions) <= MAX_TRANSITION
       /\ \A t \in ToSet(nfa[id].transitions) :
            t.to \in DOMAIN nfa /\ t.chars \subseteq ToSet(Char)
       /\ Len(nfa[id].epsilon) <= MAX_EPSILON
       /\ ToSet(nfa[id].epsilon) \subseteq id + 1 .. Len(nfa)

\* A state has room for a transition on each character.
ASSUME TableAssumption ==
  MAX_STATES \in Nat /\ Char \in Seq(ToSet(Char)) /\ Len(Char) <= MAX_STATES

VARIABLES
  dfa,            \* the states made so far: their sets, tokens and transitions
  di, ch,         \* the state and the character whose transition is due
  set, front,     \* the set that is being closed, and how far
  dropped,        \* history: a set has found no room
  source,         \* the text
  at,             \* how much of it has been cut into tokens
  path,           \* the states gone through since then; `cur' is the last one
  last,           \* the type accepted last, and the end of its text
  tokenList,      \* the tokens
  status          \* "closing", "moving", "lexing", "done", or "error" after the exit

vars == <<dfa, di, ch, set, front, dropped, source, at, path, last, tokenList, status>>
construction == <<dfa, di, ch, set, front, dropped>>
reading == <<source, at, path, last, tokenList>>

NOT_ACCEPTING == "NOT_ACCEPTING"

(***************************************************************************)
(* The subset construction.  A set of states keeps its members sorted, so  *)
(* that a closure visits them by position while it adds others.            *)
(***************************************************************************)
Nth(ids, n) == CHOOSE id \in ids : Cardinality({other \in ids : other < id}) = n - 1
Least(numbers) == CHOOSE n \in numbers : \A other \in numbers : n <= other

moveOnChar(ids, char) ==
  UNION {{t.to : t \in {t \in ToSet(nfa[id].transitions) : char \in t.chars}} : id \in ids}

dominantToken(ids) ==
  LET accepting == {id \in ids : nfa[id].accepting # NOT_ACCEPTING} IN
  IF accepting = {} THEN NOT_ACCEPTING ELSE nfa[Least(accepting)].accepting

DFAState(ids) == [ids |-> ids, accepting |-> dominantToken(ids), transitions |-> <<>>]

\* The state is not made if the table is full.
findOrCreate(states, ids) ==
  IF (\E i \in DOMAIN states : states[i].ids = ids) \/ Len(states) >= MAX_STATES THEN states
  ELSE Append(states, DFAState(ids))

Init ==
  /\ dfa = <<>> /\ di = 1 /\ ch = 1
  /\ set = {1} /\ front = 1
  /\ dropped = FALSE
  /\ source = <<>> /\ at = 0
  /\ path = <<>> /\ last = [type |-> NOT_ACCEPTING, end |-> 0]
  /\ tokenList = <<>>
  /\ status = "closing"

\* One member more is visited, by its position among the sorted.
eClosure ==
  /\ status = "closing" /\ front <= Cardinality(set)
  /\ set' = set \cup ToSet(nfa[Nth(set, front)].epsilon)
  /\ front' = front + 1
  /\ UNCHANGED <<dfa, di, ch, dropped, reading, status>>

FirstState ==
  /\ status = "closing" /\ front > Cardinality(set) /\ dfa = <<>>
  /\ dfa' = findOrCreate(dfa, set)
  /\ status' = "moving"
  /\ UNCHANGED <<di, ch, set, front, dropped, reading>>

\* The closed set is looked up or made, and the transition goes there.
AddTransition ==
  /\ status = "closing" /\ front > Cardinality(set) /\ dfa # <<>>
  /\ LET states == findOrCreate(dfa, set)
         found == {i \in DOMAIN states : states[i].ids = set}
     IN IF found = {} THEN dfa' = states /\ dropped' = TRUE
        ELSE /\ dfa' = [states EXCEPT ![di].transitions =
                          Append(@, [to |-> Least(found), exactC |-> Char[ch]])]
             /\ UNCHANGED dropped
  /\ ch' = ch + 1
  /\ status' = "moving"
  /\ UNCHANGED <<di, set, front, reading>>

CharLeft == ch <= Len(Char) /\ Len(dfa[di].transitions) < MAX_STATES

Move ==
  /\ status = "moving" /\ di <= Len(dfa) /\ CharLeft
  /\ LET moved == moveOnChar(dfa[di].ids, Char[ch]) IN
     /\ moved # {}
     /\ set' = moved
  /\ front' = 1
  /\ status' = "closing"
  /\ UNCHANGED <<dfa, di, ch, dropped, reading>>

NoMove ==
  /\ status = "moving" /\ di <= Len(dfa) /\ CharLeft
  /\ moveOnChar(dfa[di].ids, Char[ch]) = {}
  /\ ch' = ch + 1
  /\ UNCHANGED <<dfa, di, set, front, dropped, reading, status>>

NextState ==
  /\ status = "moving" /\ di <= Len(dfa) /\ ~CharLeft
  /\ di' = di + 1 /\ ch' = 1
  /\ UNCHANGED <<dfa, set, front, dropped, reading, status>>

(***************************************************************************)
(* The longest match.                                                      *)
(***************************************************************************)
lex ==
  /\ status = "moving" /\ di > Len(dfa)
  /\ source' \in Source
  /\ status' = "lexing"
  /\ UNCHANGED <<construction, at, path, last, tokenList>>

\* The number of the next state, or 0.
nextStateOnChar(state, char) ==
  LET on == {j \in DOMAIN state.transitions : state.transitions[j].exactC = char} IN
  IF on = {} THEN 0 ELSE state.transitions[Least(on)].to

SkipSpace ==
  /\ status = "lexing" /\ path = <<>>
  /\ at < Len(source) /\ source[at + 1] \in Space
  /\ at' = at + 1
  /\ UNCHANGED <<construction, source, path, last, tokenList, status>>

createToken ==
  /\ status = "lexing" /\ path = <<>>
  /\ at < Len(source) /\ source[at + 1] \notin Space
  /\ path' = <<1>>
  /\ last' = [type |-> dfa[1].accepting, end |-> at]
  /\ UNCHANGED <<construction, source, at, tokenList, status>>

\* How many characters have been read since, and where the next one leads.
Position == at + Len(path) - 1
Following ==
  IF Position = Len(source) THEN 0
  ELSE nextStateOnChar(dfa[Last(path)], source[Position + 1])

\* Mutant: the token accepted first is kept.
KeepFirst(type) == IF last.type # NOT_ACCEPTING THEN last ELSE [type |-> type, end |-> Position + 1]

Latest(type) == IF type # NOT_ACCEPTING THEN [type |-> type, end |-> Position + 1] ELSE last

DFARun ==
  /\ status = "lexing" /\ path # <<>> /\ Following # 0
  /\ path' = Append(path, Following)
  /\ last' = Latest(dfa[Following].accepting)
  /\ UNCHANGED <<construction, source, at, tokenList, status>>

addToken ==
  /\ status = "lexing" /\ path # <<>> /\ Following = 0
  /\ last.type # NOT_ACCEPTING /\ last.end # at
  /\ tokenList' =
       Append(tokenList, [type |-> last.type, value |-> SubSeq(source, at + 1, last.end)])
  /\ at' = last.end
  /\ path' = <<>>
  /\ UNCHANGED <<construction, source, last, status>>

InvalidToken ==
  /\ status = "lexing" /\ path # <<>> /\ Following = 0
  /\ last.type = NOT_ACCEPTING \/ last.end = at
  /\ status' = "error"
  /\ UNCHANGED <<construction, reading>>

EndOfSource ==
  /\ status = "lexing" /\ path = <<>> /\ at = Len(source)
  /\ status' = "done"
  /\ UNCHANGED <<construction, reading>>

Next ==
  \/ eClosure \/ FirstState \/ AddTransition \/ Move \/ NoMove \/ NextState
  \/ lex \/ SkipSpace \/ createToken \/ DFARun \/ addToken \/ InvalidToken \/ EndOfSource

Spec == Init /\ [][Next]_vars

(***************************************************************************)
(* Properties.                                                             *)
(***************************************************************************)
\* The sets that have been gone through, and the part of the work.
RunOf(states, steps) == [k \in DOMAIN steps |-> states[steps[k]].ids]
Stage == IF status \in {"closing", "moving"} THEN "started" ELSE status

Scan == INSTANCE Scanner WITH run <- RunOf(dfa, path), status <- Stage

\* The construction and the match together read every text as the automaton
\* does: no set of states is lost in a full table or mistaken for another, no
\* closure stops short, and what is taken is the longest piece that is accepted,
\* with the type of the first state that accepts it.
\* (createDFAFromNFA, findOrCreate, eClosure, DFARun)
ImplementsScanner == Scan!Spec
================================================================================
