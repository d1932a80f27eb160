----------------------------- MODULE ControlFlow -----------------------------
(***************************************************************************)
(* What a function body means: a statement tree is executed by keeping the *)
(* list of what remains to be done.  The only things seen from outside are *)
(* the calls made, each of which comes back with some value, and the value *)
(* returned in the end.                                                    *)
(*                                                                         *)
(* Lowering, the model of the passes that flatten the tree to jumps and    *)
(* labels, is compared with this module.                                   *)
(***************************************************************************)
EXTENDS Integers, Sequences

Call(id) == [kind |-> "call", id |-> id]

Absent == [kind |-> "absent"]      \* a clause or a branch that is left out

(***************************************************************************)
(* Work that is no part of the tree: choosing a branch by the latest       *)
(* value, replacing it, and the places break and continue lead to.         *)
(***************************************************************************)
Branch(yes, no) == [kind |-> "branch", yes |-> yes, no |-> no]
Constant(v) == [kind |-> "constant", value |-> v]
Truth == Branch(<<Constant(1)>>, <<Constant(0)>>)
EndOf(what) == [kind |-> "end", of |-> what]
Test(loop) == [kind |-> "test", loop |-> loop]
Select(switch) == [kind |-> "select", switch |-> switch]
Returning == [kind |-> "returning"]

\* A jump with no place to lead to has no meaning; nothing is left then.
RECURSIVE After(_, _)
After(todo, mark) ==
  IF todo = <<>> THEN <<>>
  ELSE IF Head(todo) = mark THEN Tail(todo) ELSE After(Tail(todo), mark)

\* The bodies from the i-th case on, the default last.
RECURSIVE CasesFrom(_, _)
CasesFrom(switch, i) ==
  IF i > Len(switch.cases) THEN <<switch.defaultCase>>
  ELSE <<switch.cases[i].body>>
       \o (IF switch.cases[i].hasBreak THEN <<[kind |-> "break"]>> ELSE <<>>)
       \o CasesFrom(switch, i + 1)

Matching(switch, value) ==
  IF \E i \in DOMAIN switch.cases : switch.cases[i].matchVal = value
  THEN CHOOSE i \in DOMAIN switch.cases : switch.cases[i].matchVal = value
  ELSE Len(switch.cases) + 1

\* One round of a loop that has passed its test.
Round(loop) ==
  CASE loop.kind = "while" -> <<loop.body, EndOf("round"), Test(loop)>>
    [] loop.kind = "do_while" -> <<loop.body, EndOf("round"), Test(loop)>>
    [] loop.kind = "for" -> <<loop.body, EndOf("round"), loop.post, Test(loop)>>

\* What item is replaced by, before `rest', when the latest value is v.
Unfold(item, rest, v) ==
  CASE item.kind \in {"and", "or"} ->
         (IF item.kind = "and"
          THEN <<item.left, Branch(<<item.right, Truth>>, <<Constant(0)>>)>>
          ELSE <<item.left, Branch(<<Constant(1)>>, <<item.right, Truth>>)>>) \o rest
    [] item.kind = "conditional" ->
         <<item.condition, Branch(<<item.then>>, <<item.otherwise>>)>> \o rest
    [] item.kind = "branch" -> (IF v # 0 THEN item.yes ELSE item.no) \o rest
    [] item.kind = "expression" -> <<item.exp>> \o rest
    [] item.kind = "compound" -> item.items \o rest
    [] item.kind = "if" ->
         <<item.condition, Branch(<<item.then>>, <<item.otherwise>>)>> \o rest
    [] item.kind = "while" -> <<Test(item), EndOf("loop")>> \o rest
    [] item.kind = "do_while" -> Round(item) \o <<EndOf("loop")>> \o rest
    [] item.kind = "for" -> <<item.init, Test(item), EndOf("loop")>> \o rest
    [] item.kind = "test" ->
         (IF item.loop.condition = Absent THEN Round(item.loop)
          ELSE <<item.loop.condition, Branch(Round(item.loop), <<>>)>>) \o rest
    [] item.kind = "switch" -> <<item.exp, Select(item), EndOf("loop")>> \o rest
    [] item.kind = "select" ->
         CasesFrom(item.switch, Matching(item.switch, v)) \o rest
    [] item.kind = "break" -> After(rest, EndOf("loop"))
    [] item.kind = "continue" -> After(rest, EndOf("round"))
    [] item.kind = "return" -> <<item.exp, Returning>>
    [] item.kind \in {"constant", "end", "absent", "null"} -> rest

\* The work left up to the next thing seen from outside: a call, the return,
\* or the end of the body.
RECURSIVE Settle(_, _)
Settle(todo, v) ==
  IF todo = <<>> \/ Head(todo).kind \in {"call", "returning"}
  THEN [todo |-> todo, value |-> v]
  ELSE Settle(Unfold(Head(todo), Tail(todo), v),
              IF Head(todo).kind = "constant" THEN Head(todo).value ELSE v)

Start(body) == Settle(<<body>>, 0)
CallNext(state, id) == state.todo # <<>> /\ Head(state.todo) = Call(id)
Resume(state, v) == Settle(Tail(state.todo), v)

\* A body that ends without return gives 0.
ReturnNext(state, v) ==
  \/ state.todo # <<>> /\ Head(state.todo) = Returning /\ state.value = v
  \/ state.todo = <<>> /\ v = 0

=============================================================================
