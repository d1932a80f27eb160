------------------------------ MODULE Lowering ------------------------------
(***************************************************************************)
(* From a function's statement tree to jumps and labels.  The labeler      *)
(* gives every loop a name and every break and continue the name of the    *)
(* loop it leaves; the emitters flatten the tree to a TACKY list, taking   *)
(* label names from counters that are never reset; the assembler binds the *)
(* labels; the list runs.                                                  *)
(*                                                                         *)
(* Both passes skip what is inside a switch: no handler is registered for  *)
(* STMT_SWITCH in the labeler.  Values are ints, and operands are calls    *)
(* whose results are arbitrary; ControlFlow says what the tree means.      *)
(***************************************************************************)
EXTENDS ControlFlow, FiniteSets, SequencesExt

CONSTANTS
  Program,    \* function bodies: trees of statements
  Value       \* what a call can come back with

VARIABLES
  body,       \* the tree; the labeler writes the names into it
  count,      \* the counters of generateUtils.c
  phase,      \* "parsed", "labeled", "lowered", "running", "done"; or the
              \* compilation has failed: "refused", "crashed", "unassembled"
  code,       \* the TACKY list
  pc,
  temps,      \* temporary -> value
  meaning     \* history: what the tree would do next

vars == <<body, count, phase, code, pc, temps, meaning>>

Counter == {"global", "end", "else", "e2", "false", "true", "default"}

NoLabel == <<>>
Unlabeled == <<"loop_stmt">>      \* what the parser puts into a break
Loop == {"while", "do_while", "for"}

(***************************************************************************)
(* labelStatement.  `n' is currGlobalInt; the result is the tree with its  *)
(* names and the counter after it.                                         *)
(***************************************************************************)
LoopName(n) == <<"loop", n>>

RECURSIVE Labeled(_, _, _)
Labeled(s, label, n) ==
  CASE s.kind = "if" ->
         LET then == Labeled(s.then, label, n)
             otherwise == Labeled(s.otherwise, label, then.n)
         IN [tree |-> [s EXCEPT !.then = then.tree, !.otherwise = otherwise.tree],
             n |-> otherwise.n]
    [] s.kind = "compound" ->
         FoldLeft(LAMBDA done, item :
                    LET next == Labeled(item, label, done.n) IN
                    [tree |-> [done.tree EXCEPT !.items = Append(@, next.tree)],
                     n |-> next.n],
                  [tree |-> [s EXCEPT !.items = <<>>], n |-> n], s.items)
    [] s.kind \in Loop ->
         LET inner == Labeled(s.body, LoopName(n), n + 1) IN
         [tree |-> [s EXCEPT !.identifier = LoopName(n), !.body = inner.tree],
          n |-> inner.n]
    [] s.kind \in {"break", "continue"} ->
         [tree |-> [s EXCEPT !.identifier = label], n |-> n]
    [] OTHER -> [tree |-> s, n |-> n]

\* The statements of a tree that the labeler gets to.
RECURSIVE Reached(_)
Reached(s) ==
  {s} \cup
  CASE s.kind = "if" -> Reached(s.then) \cup Reached(s.otherwise)
    [] s.kind = "compound" -> UNION {Reached(s.items[i]) : i \in DOMAIN s.items}
    [] s.kind \in Loop -> Reached(s.body)
    [] OTHER -> {}

\* All statements of a tree.
RECURSIVE Within(_)
Within(s) ==
  {s} \cup
  CASE s.kind = "if" -> Within(s.then) \cup Within(s.otherwise)
    [] s.kind = "compound" -> UNION {Within(s.items[i]) : i \in DOMAIN s.items}
    [] s.kind \in Loop -> Within(s.body)
    [] s.kind = "switch" ->
         UNION {Within(s.cases[i].body) : i \in DOMAIN s.cases}
         \cup Within(s.defaultCase)
    [] OTHER -> {}

(***************************************************************************)
(* The emitters.  `st' is the list so far, the counters, and the value the *)
(* latest expression is in.                                                *)
(***************************************************************************)
Add(st, instructions) == [st EXCEPT !.code = @ \o instructions]
Bump(st, counter) == [st EXCEPT !.n[counter] = @ + 1]
Named(counter, st) == <<counter, st.n[counter]>>
In(st, value) == [st EXCEPT !.val = value]
Temp(st) == <<"tmp", st.n["global"]>>

Label(name) == [op |-> "label", name |-> name]
Jump(name) == [op |-> "jump", name |-> name]
JumpIfZero(name, v) == [op |-> "jump_if_zero", name |-> name, condition |-> v]
JumpIfNotZero(name, v) == [op |-> "jump_if_not_zero", name |-> name, condition |-> v]
Copy(src, dest) == [op |-> "copy", src |-> src, dest |-> dest]
Const(v) == <<"const", v>>
breakLabel(loop) == <<"break", loop>>
continueLabel(loop) == <<"continue", loop>>

RECURSIVE emit_TACKYAndConvert(_, _)

emit_TACKYFunctionCall(exp, st) ==
  LET dest == Temp(st) IN
  In(Add(Bump(st, "global"), <<[op |-> "call", id |-> exp.id, dest |-> dest]>>), dest)

RightValue(exp) == IF exp.kind = "and" THEN 1 ELSE 0

\* Mutant: the operands of the subtraction are swapped.
SwappedShortValue(exp) == RightValue(exp) - 1

ShortValue(exp) == 1 - RightValue(exp)

shortCircuitTACKYInstruction(exp, st) ==
  LET left == emit_TACKYAndConvert(exp.left, st)
      end == Named("end", left)
      dest == Temp(left)
      which == IF exp.kind = "and" THEN "false" ELSE "true"
      short == Named(which, left)
      jump(v) == IF exp.kind = "and" THEN JumpIfZero(short, v) ELSE JumpIfNotZero(short, v)
      tested == Add(Bump(Bump(Bump(left, "end"), "global"), which), <<jump(left.val)>>)
      right == emit_TACKYAndConvert(exp.right, tested)
  IN In(Add(right, <<jump(right.val), Copy(Const(RightValue(exp)), dest), Jump(end),
                     Label(short), Copy(Const(ShortValue(exp)), dest), Label(end)>>), dest)

emit_TACKYConditional(exp, st) ==
  LET cond == emit_TACKYAndConvert(exp.condition, st)
      e2 == Named("e2", cond)
      end == Named("end", cond)
      dest == Temp(cond)
      then == emit_TACKYAndConvert(exp.then,
                Add(Bump(Bump(Bump(cond, "e2"), "end"), "global"),
                    <<JumpIfZero(e2, cond.val)>>))
      otherwise == emit_TACKYAndConvert(exp.otherwise,
                     Add(then, <<Copy(then.val, dest), Jump(end), Label(e2)>>))
  IN In(Add(otherwise, <<Copy(otherwise.val, dest), Label(end)>>), dest)

emit_TACKYAndConvert(exp, st) ==
  CASE exp.kind = "call" -> emit_TACKYFunctionCall(exp, st)
    [] exp.kind \in {"and", "or"} -> shortCircuitTACKYInstruction(exp, st)
    [] exp.kind = "conditional" -> emit_TACKYConditional(exp, st)
    [] exp.kind = "absent" -> st

RECURSIVE parseStatementInstructions(_, _)

parseIfStatementWithElseInstructions(s, st) ==
  LET end == Named("end", st)
      else == Named("else", st)
      then == parseStatementInstructions(s.then,
                Add(Bump(Bump(st, "end"), "else"), <<JumpIfZero(else, st.val)>>))
      otherwise == parseStatementInstructions(s.otherwise,
                     Add(then, <<Jump(end), Label(else)>>))
  IN Add(otherwise, <<Label(end)>>)

parseIfStatementWithoutElseInstructions(s, st) ==
  LET end == Named("end", st)
      then == parseStatementInstructions(s.then,
                Add(Bump(st, "end"), <<JumpIfZero(end, st.val)>>))
  IN Add(then, <<Label(end)>>)

\* Mutant: continue leads past the condition.
ContinueAfterTest(s, st) ==
  LET cond == emit_TACKYAndConvert(s.condition, st)
      inner == parseStatementInstructions(s.body,
                 Add(cond, <<JumpIfZero(breakLabel(s.identifier), cond.val),
                             Label(continueLabel(s.identifier))>>))
  IN Add(inner, <<Jump(continueLabel(s.identifier)), Label(breakLabel(s.identifier))>>)

parseWhileLoopInstructions(s, st) ==
  LET cond == emit_TACKYAndConvert(s.condition,
                Add(st, <<Label(continueLabel(s.identifier))>>))
      inner == parseStatementInstructions(s.body,
                 Add(cond, <<JumpIfZero(breakLabel(s.identifier), cond.val)>>))
  IN Add(inner, <<Jump(continueLabel(s.identifier)), Label(breakLabel(s.identifier))>>)

parseDoWhileLoopInstructions(s, st) ==
  LET inner == parseStatementInstructions(s.body, Add(st, <<Label(s.identifier)>>))
      cond == emit_TACKYAndConvert(s.condition,
                Add(inner, <<Label(continueLabel(s.identifier))>>))
  IN Add(cond, <<JumpIfNotZero(s.identifier, cond.val), Label(breakLabel(s.identifier))>>)

\* Mutant: the label of continue is behind the last clause.
ContinueSkipsPost(s, st) ==
  LET init == Add(emit_TACKYAndConvert(s.init, st), <<Label(s.identifier)>>)
      cond == emit_TACKYAndConvert(s.condition, init)
      tested == IF s.condition = Absent THEN cond
                ELSE Add(cond, <<JumpIfZero(breakLabel(s.identifier), cond.val)>>)
      inner == parseStatementInstructions(s.body, tested)
      post == emit_TACKYAndConvert(s.post, inner)
  IN Add(post, <<Label(continueLabel(s.identifier)), Jump(s.identifier),
                 Label(breakLabel(s.identifier))>>)

\* With parseForLoopInitInstructions.
parseForLoopInstructions(s, st) ==
  LET init == Add(emit_TACKYAndConvert(s.init, st), <<Label(s.identifier)>>)
      cond == emit_TACKYAndConvert(s.condition, init)
      tested == IF s.condition = Absent THEN cond
                ELSE Add(cond, <<JumpIfZero(breakLabel(s.identifier), cond.val)>>)
      inner == parseStatementInstructions(s.body, tested)
      post == emit_TACKYAndConvert(s.post,
                Add(inner, <<Label(continueLabel(s.identifier))>>))
  IN Add(post, <<Jump(s.identifier), Label(breakLabel(s.identifier))>>)

\* Mutant: the name of a case's label has no number.
CaseLabelByValue(s, i, st) == <<"case", s.cases[i].matchVal>>

CaseLabel(s, i, st) == <<"case", s.cases[i].matchVal, st.n["global"] + 2 * (i - 1)>>

\* Each comparison takes a number for its label and one for its temporary.
Comparison(s, i, st) ==
  LET dest == <<"tmp", st.n["global"] + 2 * i - 1>> IN
  <<[op |-> "equal", src1 |-> st.val, src2 |-> Const(s.cases[i].matchVal), dest |-> dest],
    JumpIfNotZero(CaseLabel(s, i, st), dest)>>

parseSwitchStatementInstructions(s, st) ==
  LET end == Named("end", st)
      withDefault == s.defaultCase # Absent
      default == IF withDefault THEN Named("default", st) ELSE end
      compared == Add([st EXCEPT !.n["end"] = @ + 1,
                                 !.n["default"] = @ + (IF withDefault THEN 1 ELSE 0),
                                 !.n["global"] = @ + 2 * Len(s.cases)],
                      FlattenSeq([i \in DOMAIN s.cases |-> Comparison(s, i, st)])
                      \o <<Jump(default)>>)
      cases == FoldLeft(
        LAMBDA done, i :
          LET case == parseStatementInstructions(s.cases[i].body,
                        Add(done, <<Label(CaseLabel(s, i, st))>>))
          IN IF s.cases[i].hasBreak THEN Add(case, <<Jump(end)>>) ELSE case,
        compared, [i \in DOMAIN s.cases |-> i])
      last == IF withDefault
              THEN parseStatementInstructions(s.defaultCase, Add(cases, <<Label(default)>>))
              ELSE cases
  IN Add(last, <<Label(end)>>)

parseTACKYReturn(s, st) ==
  LET value == emit_TACKYAndConvert(s.exp, st) IN
  Add(value, <<[op |-> "return", src |-> value.val]>>)

parseStatementInstructions(s, st) ==
  CASE s.kind \in {"null", "absent"} -> st
    [] s.kind = "expression" -> emit_TACKYAndConvert(s.exp, st)
    [] s.kind = "return" -> parseTACKYReturn(s, st)
    [] s.kind = "break" -> Add(st, <<Jump(breakLabel(s.identifier))>>)
    [] s.kind = "continue" -> Add(st, <<Jump(continueLabel(s.identifier))>>)
    [] s.kind = "compound" -> FoldLeft(LAMBDA done, item :
                                parseStatementInstructions(item, done), st, s.items)
    [] s.kind = "if" ->
         LET cond == emit_TACKYAndConvert(s.condition, st) IN
         IF s.otherwise = Absent THEN parseIfStatementWithoutElseInstructions(s, cond)
         ELSE parseIfStatementWithElseInstructions(s, cond)
    [] s.kind = "while" -> parseWhileLoopInstructions(s, st)
    [] s.kind = "do_while" -> parseDoWhileLoopInstructions(s, st)
    [] s.kind = "for" -> parseForLoopInstructions(s, st)
    [] s.kind = "switch" ->
         parseSwitchStatementInstructions(s, emit_TACKYAndConvert(s.exp, st))

(***************************************************************************)
(* The passes.                                                             *)
(***************************************************************************)
Init ==
  /\ body \in Program
  /\ count = [c \in Counter |-> 0]
  /\ phase = "parsed"
  /\ code = <<>> /\ pc = 1
  /\ temps = [t \in {} |-> 0]
  /\ meaning = Start(body)

\* Mutant: a break outside of loops keeps the name it has.
NoStrayTest ==
  /\ phase = "parsed"
  /\ LET result == Labeled(body, Unlabeled, count["global"]) IN
     /\ phase' = "labeled"
     /\ body' = result.tree
     /\ count' = [count EXCEPT !["global"] = result.n]
     /\ UNCHANGED <<code, pc, temps, meaning>>

resolveBlockWithLabeling ==
  /\ phase = "parsed"
  /\ LET result == Labeled(body, NoLabel, count["global"]) IN
     IF \E s \in Reached(result.tree) :
          s.kind \in {"break", "continue"} /\ s.identifier = NoLabel
     THEN /\ phase' = "refused"
          /\ UNCHANGED <<body, count, code, pc, temps, meaning>>
     ELSE /\ phase' = "labeled"
          /\ body' = result.tree
          /\ count' = [count EXCEPT !["global"] = result.n]
          /\ UNCHANGED <<code, pc, temps, meaning>>

\* A label name made from the missing name of a loop: strlen(NULL).
parseTACKYFunction ==
  /\ phase = "labeled"
  /\ IF \E s \in Within(body) : s.kind \in Loop /\ s.identifier = NoLabel
     THEN phase' = "crashed" /\ UNCHANGED <<count, code>>
     ELSE LET st == parseStatementInstructions(body,
                      [code |-> <<>>, n |-> count, val |-> Const(0)])
          IN phase' = "lowered" /\ count' = st.n /\ code' = st.code
  /\ UNCHANGED <<body, pc, temps, meaning>>

Places(name) == {i \in DOMAIN code : code[i] = Label(name)}
Jumps == {i \in DOMAIN code : code[i].op \in {"jump", "jump_if_zero", "jump_if_not_zero"}}
LabelPlace(name) == CHOOSE i \in Places(name) : TRUE

\* The assembler: every name bound once.
Assemble ==
  /\ phase = "lowered"
  /\ phase' = IF /\ \A i \in Jumps : Places(code[i].name) # {}
                 /\ \A i \in DOMAIN code :
                      code[i].op = "label" => Places(code[i].name) = {i}
              THEN "running" ELSE "unassembled"
  /\ UNCHANGED <<body, count, code, pc, temps, meaning>>

(***************************************************************************)
(* The list runs.                                                          *)
(***************************************************************************)
At(op) == phase = "running" /\ pc \in DOMAIN code /\ code[pc].op = op
Instruction == code[pc]

ValueOf(operand) == IF operand[1] = "const" THEN operand[2] ELSE temps[operand]

SetTemp(t, v) ==
  temps' = [x \in DOMAIN temps \cup {t} |-> IF x = t THEN v ELSE temps[x]]

RunLabel ==
  /\ At("label")
  /\ pc' = pc + 1
  /\ UNCHANGED <<body, count, phase, code, temps>>

Taken ==
  \/ At("jump")
  \/ At("jump_if_zero") /\ ValueOf(Instruction.condition) = 0
  \/ At("jump_if_not_zero") /\ ValueOf(Instruction.condition) # 0

RunJump ==
  /\ At("jump") \/ At("jump_if_zero") \/ At("jump_if_not_zero")
  /\ pc' = IF Taken THEN LabelPlace(Instruction.name) ELSE pc + 1
  /\ UNCHANGED <<body, count, phase, code, temps>>

RunCopy ==
  /\ At("copy")
  /\ SetTemp(Instruction.dest, ValueOf(Instruction.src))
  /\ pc' = pc + 1
  /\ UNCHANGED <<body, count, phase, code>>

RunEqual ==
  /\ At("equal")
  /\ SetTemp(Instruction.dest,
       IF ValueOf(Instruction.src1) = ValueOf(Instruction.src2) THEN 1 ELSE 0)
  /\ pc' = pc + 1
  /\ UNCHANGED <<body, count, phase, code>>

RunCall ==
  /\ At("call")
  /\ \E v \in Value : SetTemp(Instruction.dest, v)
  /\ pc' = pc + 1
  /\ UNCHANGED <<body, count, phase, code>>

\* Along with a call, the tree goes on with the value that came back.
FollowMeaning ==
  meaning' = IF At("call") /\ CallNext(meaning, Instruction.id)
             THEN Resume(meaning, temps'[Instruction.dest]) ELSE meaning

\* A return, or the return of 0 behind the list.
RunReturn ==
  /\ phase = "running"
  /\ At("return") \/ pc = Len(code) + 1
  /\ phase' = "done"
  /\ UNCHANGED <<body, count, code, pc, temps>>

Stopped ==
  phase \in {"refused", "crashed", "unassembled", "done"} /\ UNCHANGED vars

Run == RunLabel \/ RunJump \/ RunCopy \/ RunEqual \/ RunCall \/ RunReturn

Next ==
  \/ resolveBlockWithLabeling \/ parseTACKYFunction \/ Assemble
  \/ Run /\ FollowMeaning
  \/ Stopped

\* The processor does not stop by itself.
Spec == Init /\ [][Next]_vars /\ WF_<<phase, pc>>(Run)

(***************************************************************************)
(* Properties.                                                             *)
(***************************************************************************)
TypeOK ==
  /\ phase \in {"parsed", "labeled", "lowered", "running", "done",
                "refused", "crashed", "unassembled"}
  /\ count \in [Counter -> Nat]
  /\ phase = "running" => pc \in 1 .. (Len(code) + 1)
  /\ \A t \in DOMAIN temps : temps[t] \in Value \cup {0, 1}

\* The code makes the calls of the tree, in its order and under its
\* conditions, and returns its value: jumps, labels and temporaries add and
\* lose nothing, however the calls turn out.
MeaningKept ==
  /\ At("call") => CallNext(meaning, Instruction.id)
  /\ At("return") => ReturnNext(meaning, ValueOf(Instruction.src))
  /\ (phase = "running" /\ pc = Len(code) + 1) => ReturnNext(meaning, 0)

\* A break or continue of the tree that no loop and no switch surrounds.

RECURSIVE StrayJump(_)
StrayJump(s) ==
  CASE s.kind \in {"break", "continue"} -> TRUE
    [] s.kind = "if" -> StrayJump(s.then) \/ StrayJump(s.otherwise)
    [] s.kind = "compound" -> \E i \in DOMAIN s.items : StrayJump(s.items[i])
    [] OTHER -> FALSE

\* "'break' statement not within a loop": that is said exactly of trees with a
\* jump that nothing surrounds which it could leave.
StrayJumpsRefused ==
  phase # "parsed" => (phase = "refused") = StrayJump(body)

\* Switches with a loop or a jump of their own inside.
LoopOrJumpInSwitch ==
  \E s \in Within(body) :
    s.kind = "switch" /\ \E x \in Within(s) : x.kind \in Loop \cup {"break", "continue"}

\* Everything that is not refused compiles and assembles, with each label
\* bound once and each jump bound, unless a switch has a loop or a jump inside.
AcceptedAssembles ==
  phase \in {"crashed", "unassembled"} => LoopOrJumpInSwitch

\* The code does not go round without making a call: every way around a loop
\* passes its test, or the clause that stands for it.
NoSilentLoop ==
  (phase = "running" /\ ~At("call")) ~> (At("call") \/ phase = "done")

=============================================================================
