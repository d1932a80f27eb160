-------------------------------- MODULE Scanner --------------------------------
(***************************************************************************)
(* What an automaton with epsilon transitions says of a text: the sets of  *)
(* states that each character leads to, and the longest piece that ends in *)
(* an accepting one.  There are no tables, no closure that is computed     *)
(* step by step, and no memory of what was accepted last.                  *)
(***************************************************************************)
EXTENDS Naturals, SequencesExt

CONSTANTS
  nfa,      \* the states: accepted token, transitions, epsilon transitions
  Source,   \* the texts to read
  Space     \* the characters between tokens

VARIABLES
  source,     \* the text
  at,         \* how much of it has been cut into tokens
  run,        \* the sets of states gone through since then, none between tokens
  tokenList,
  status      \* "started", "lexing", "done" or "error"

vars == <<source, at, run, tokenList, status>>

NOT_ACCEPTING == "NOT_ACCEPTING"

\* What a character leads to from one of the states.
Moved(ids, char) ==
  UNION {{t.to : t \in {t \in ToSet(nfa[id].transitions) : char \in t.chars}} : id \in ids}

\* Nothing is missing, and nothing is there without a reason.  (An epsilon
\* transition leads to a later state, so that no states are each other's reason.)
IsClosure(ids, closed) ==
  /\ ids \subseteq closed
  /\ \A id \in closed : ToSet(nfa[id].epsilon) \subseteq closed
  /\ \A id \in closed \ ids : \E from \in closed : id \in ToSet(nfa[from].epsilon)

\* The state that gives a set its token: the first one that accepts.
Accepting(ids) == {id \in ids : nfa[id].accepting # NOT_ACCEPTING}
Dominant(ids, id) == id \in Accepting(ids) /\ \A other \in Accepting(ids) : id <= other

Read == Len(run) - 1
AtEnd == at + Read = Len(source) \/ Moved(Last(run), source[at + Read + 1]) = {}
IsToken(n) == n \in 1 .. Read /\ Accepting(run[n + 1]) # {}

Init ==
  /\ source = <<>> /\ at = 0 /\ run = <<>> /\ tokenList = <<>> /\ status = "started"

Begin ==
  /\ status = "started"
  /\ source' \in Source
  /\ status' = "lexing"
  /\ UNCHANGED <<at, run, tokenList>>

Skip ==
  /\ status = "lexing" /\ run = <<>>
  /\ at < Len(source) /\ source[at + 1] \in Space
  /\ at' = at + 1
  /\ UNCHANGED <<source, run, tokenList, status>>

Start ==
  /\ status = "lexing" /\ run = <<>>
  /\ at < Len(source) /\ source[at + 1] \notin Space
  /\ Len(run') = 1 /\ run' = <<Last(run')>>
  /\ IsClosure({1}, Last(run'))
  /\ UNCHANGED <<source, at, tokenList, status>>

Step ==
  /\ status = "lexing" /\ run # <<>> /\ ~AtEnd
  /\ Len(run') = Len(run) + 1 /\ run' = Append(run, Last(run'))
  /\ IsClosure(Moved(Last(run), source[at + Read + 1]), Last(run'))
  /\ UNCHANGED <<source, at, tokenList, status>>

Take ==
  /\ status = "lexing" /\ run # <<>> /\ AtEnd
  /\ \E n \in 1 .. Read :
       /\ IsToken(n) /\ \A longer \in n + 1 .. Read : ~IsToken(longer)
       /\ \E id \in run[n + 1] :
            /\ Dominant(run[n + 1], id)
            /\ tokenList' = Append(tokenList, [type |-> nfa[id].accepting,
                                               value |-> SubSeq(source, at + 1, at + n)])
       /\ at' = at + n
  /\ run' = <<>>
  /\ UNCHANGED <<source, status>>

Refuse ==
  /\ status = "lexing" /\ run # <<>> /\ AtEnd
  /\ \A n \in 1 .. Read : ~IsToken(n)
  /\ status' = "error"
  /\ UNCHANGED <<source, at, run, tokenList>>

Finish ==
  /\ status = "lexing" /\ run = <<>> /\ at = Len(source)
  /\ status' = "done"
  /\ UNCHANGED <<source, at, run, tokenList>>

Next == Begin \/ Skip \/ Start \/ Step \/ Take \/ Refuse \/ Finish

Spec == Init /\ [][Next]_vars
================================================================================
