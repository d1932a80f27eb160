-------------------------- MODULE CallingConvention --------------------------
(***************************************************************************)
(* Calls between generated functions.  Two halves of the code generator    *)
(* decide separately where arguments go: parseFunctionCallInstruction for  *)
(* the caller, addArgsAsInstructionsToFunc for the callee.  Here both      *)
(* generate the code of a function that takes parameters of the types in   *)
(* `sig' and calls itself, fixMov repairs its moves, and a small machine   *)
(* runs it.                                                                *)
(*                                                                         *)
(* TACKY copies every argument into a temporary of its own, so arguments   *)
(* are always frame slots.  What else a body does (Work) may change every  *)
(* register but the frame's two and sets the temporaries of the next call. *)
(***************************************************************************)
EXTENDS Integers, Sequences, FiniteSets, SequencesExt

CONSTANTS
  argResigters,         \* registers for integer and pointer arguments
  doubleArgRegisters,   \* registers for double arguments, XMM0 first
  MaxArgs,              \* bound: parameters of the function
  MaxDepth,             \* bound: activations at once
  MaxCalls              \* bound: calls an activation makes

\* The registers are all different, and none of them is used for anything else.
ASSUME RegistersAssumption ==
  /\ argResigters \in Seq(STRING) /\ IsInjective(argResigters)
  /\ doubleArgRegisters \in Seq(STRING) /\ IsInjective(doubleArgRegisters)
  /\ doubleArgRegisters # <<>>
  /\ Range(argResigters) \cap Range(doubleArgRegisters) = {}
  /\ {"AX", "R10", "XMM15"} \cap (Range(argResigters) \cup Range(doubleArgRegisters)) = {}

ASSUME BoundsAssumption == MaxArgs \in Nat /\ MaxDepth \in Nat /\ MaxCalls \in Nat

ArgType == {"longword", "quadword", "double"}
Signature == UNION {[1 .. k -> ArgType] : k \in 0 .. MaxArgs}

VARIABLES
  sig,       \* the parameter types
  ret,       \* the return type
  code,      \* the function's instructions
  pc,        \* index of the next instruction
  regs,      \* register -> word
  rsp, rbp,
  stack,     \* address -> word, for the multiples of 8 written so far
  frames,    \* history: rbp of each activation, the oldest first
  calls,     \* history: how many calls each activation has made
  returned   \* history: whether the latest activation to end met a return

vars == <<sig, ret, code, pc, regs, rsp, rbp, stack, frames, calls, returned>>

(***************************************************************************)
(* Operands and instructions.                                              *)
(***************************************************************************)
Reg(r) == [kind |-> "register", name |-> r]
Stack(offset) == [kind |-> "memory", offset |-> offset]
Immediate(n) == [kind |-> "immediate", number |-> n]
Mov(type, src, dst) == [op |-> "mov", type |-> type, src |-> src, dst |-> dst]
Push(src) == [op |-> "push", src |-> src]
Adjust(n) == [op |-> "adjust", bytes |-> n]
AllocateStack(n) == Adjust(-n)
DeallocateStack(n) == Adjust(n)
Plain(op) == [op |-> op]

AX == Reg("AX")
XMM0 == Reg(doubleArgRegisters[1])
ReturnRegister(type) == IF type = "double" THEN XMM0 ELSE AX

Least(a, b) == IF a < b THEN a ELSE b
RoundUp16(n) == 16 * ((n + 15) \div 16)

\* The function's slots, one word each: parameters, temporaries of the
\* arguments, result of the call, value to return.
Param(i) == Stack(-8 * i)
Arg(i) == Stack(-8 * (Len(sig) + i))
Result == Stack(-8 * (2 * Len(sig) + 1))
ReturnValue == Stack(-8 * (2 * Len(sig) + 2))
FrameSize == RoundUp16(8 * (2 * Len(sig) + 2))

(***************************************************************************)
(* Code generation.                                                        *)
(***************************************************************************)
\* The numbers up to n that are in S, in order.
InOrder(S, n) == FlattenSeq([i \in 1 .. n |-> IF i \in S THEN <<i>> ELSE <<>>])

DoubleIdxs(types) == InOrder({i \in DOMAIN types : types[i] = "double"}, Len(types))
IntIdxs(types) == InOrder({i \in DOMAIN types : types[i] # "double"}, Len(types))

\* The first arguments of each class go to its registers, the rest to the
\* stack in the order of the argument list.
IntRegIdxs(types) ==
  SubSeq(IntIdxs(types), 1, Least(Len(IntIdxs(types)), Len(argResigters)))

DoubleRegIdxs(types) ==
  SubSeq(DoubleIdxs(types), 1, Least(Len(DoubleIdxs(types)), Len(doubleArgRegisters)))

StackIdxs(types) ==
  InOrder(DOMAIN types \ (Range(IntRegIdxs(types)) \cup Range(DoubleRegIdxs(types))),
          Len(types))

classifyCallArgs ==
  [intRegs |-> IntRegIdxs(sig), doubleRegs |-> DoubleRegIdxs(sig),
   stack |-> StackIdxs(sig)]

classifyFuncParams ==
  [intRegs |-> IntRegIdxs(sig), doubleRegs |-> DoubleRegIdxs(sig),
   stack |-> StackIdxs(sig)]

emitIntRegArgs(cls) ==
  [i \in DOMAIN cls.intRegs |->
     Mov(sig[cls.intRegs[i]], Arg(cls.intRegs[i]), Reg(argResigters[i]))]

emitDoubleRegArgs(cls) ==
  [i \in DOMAIN cls.doubleRegs |->
     Mov("double", Arg(cls.doubleRegs[i]), Reg(doubleArgRegisters[i]))]

\* A longword is read on its own and pushed from AX.
PushArg(i) ==
  IF sig[i] = "longword" THEN <<Mov("longword", Arg(i), AX), Push(AX)>>
  ELSE <<Push(Arg(i))>>

\* Mutant: the first stack argument is pushed first.
PushInOrder(cls) == FlattenSeq([j \in DOMAIN cls.stack |-> PushArg(cls.stack[j])])

\* Last argument first.
emitStackArgs(cls) ==
  FlattenSeq([j \in DOMAIN cls.stack |-> PushArg(cls.stack[Len(cls.stack) - j + 1])])

\* Mutant: no padding for an odd number of stack arguments.
NoPadding(cls) == 0

\* Mutant: half a word of padding.
HalfWordPadding(cls) == IF Len(cls.stack) % 2 = 1 THEN 4 ELSE 0

StackPadding(cls) == IF Len(cls.stack) % 2 = 1 THEN 8 ELSE 0

\* Mutant: the padding is forgotten when the arguments are removed.
RemovePushed(cls) == 8 * Len(cls.stack)

BytesToRemove(cls) == 8 * Len(cls.stack) + StackPadding(cls)

WhenAny(n, instruction) == IF n = 0 THEN <<>> ELSE <<instruction>>

parseFunctionCallInstruction ==
  LET cls == classifyCallArgs IN
  WhenAny(StackPadding(cls), AllocateStack(StackPadding(cls)))
  \o emitIntRegArgs(cls) \o emitDoubleRegArgs(cls) \o emitStackArgs(cls)
  \o <<Plain("call")>>
  \o WhenAny(BytesToRemove(cls), DeallocateStack(BytesToRemove(cls)))
  \o <<Mov(ret, ReturnRegister(ret), Result)>>

\* The first stack parameter is above the saved rbp and the return address.
emitStackParams(cls) ==
  [j \in DOMAIN cls.stack |->
     Mov(sig[cls.stack[j]], Stack(16 + 8 * (j - 1)), Param(cls.stack[j]))]

emitIntRegParams(cls) ==
  [i \in DOMAIN cls.intRegs |->
     Mov(sig[cls.intRegs[i]], Reg(argResigters[i]), Param(cls.intRegs[i]))]

emitDoubleRegParams(cls) ==
  [i \in DOMAIN cls.doubleRegs |->
     Mov("double", Reg(doubleArgRegisters[i]), Param(cls.doubleRegs[i]))]

addArgsAsInstructionsToFunc ==
  LET cls == classifyFuncParams IN
  emitIntRegParams(cls) \o emitDoubleRegParams(cls) \o emitStackParams(cls)

\* Mutant: every value is returned in AX.
ReturnInAX == <<Mov(ret, ReturnValue, AX), Plain("ret")>>

\* The value has been converted to the return type (handleTypeCheckReturn).
parseASMReturn ==
  <<Mov(ret, ReturnValue, ReturnRegister(ret)), Plain("ret")>>

scratchReg1(type) == Reg(IF type = "double" THEN "XMM15" ELSE "R10")

fixMov(in) ==
  IF in.op = "mov" /\ in.src.kind = "memory" /\ in.dst.kind = "memory"
  THEN <<Mov(in.type, in.src, scratchReg1(in.type)),
         Mov(in.type, scratchReg1(in.type), in.dst)>>
  ELSE <<in>>

FixedMoves(list) == FlattenSeq([k \in DOMAIN list |-> fixMov(list[k])])

\* The function works, and either calls itself and works again, or returns, or
\* gets to the end of its body: there it returns 0 as an int.
parseASMfunction ==
  <<Plain("enter"), AllocateStack(FrameSize)>>
  \o FixedMoves(addArgsAsInstructionsToFunc)
  \o <<Plain("work")>> \o FixedMoves(parseFunctionCallInstruction)
  \o <<Plain("again")>> \o FixedMoves(parseASMReturn)
  \o <<Mov("longword", Immediate(0), AX), Plain("ret")>>

WorkAt == CHOOSE k \in DOMAIN code : code[k].op = "work"
AgainAt == CHOOSE k \in DOMAIN code : code[k].op = "again"

(***************************************************************************)
(* The machine.  A word remembers how many bytes of it mean something.     *)
(***************************************************************************)
Garbage == [val |-> <<"garbage", -1>>, width |-> 0]
Address(n) == [val |-> <<"address", n>>, width |-> 8]
Number(n) == [val |-> <<"number", n>>, width |-> 8]
Halt == 0
Bytes(type) == IF type = "longword" THEN 4 ELSE 8
Registers ==
  Range(argResigters) \cup Range(doubleArgRegisters) \cup {"AX", "R10", "XMM15"}

Word(memory, address) ==
  IF address \in DOMAIN memory THEN memory[address] ELSE Garbage

Write(memory, address, word) ==
  [a \in DOMAIN memory \cup {address} |->
     IF a = address THEN word ELSE memory[a]]

Value(operand) ==
  CASE operand.kind = "register" -> regs[operand.name]
    [] operand.kind = "memory" -> Word(stack, rbp + operand.offset)
    [] operand.kind = "immediate" -> Number(operand.number)

Part(word, type) ==
  IF word.width >= Bytes(type)
  THEN [val |-> word.val, width |-> Bytes(type)] ELSE Garbage

Depth == Len(frames)

AddressIn(address) == Word(stack, address).val[2]

\* What activation d passes as argument i of its call number k, and returns.
Passed(d, k, i) == <<"arg", d, k, i>>
Returned(d) == <<"result", d>>

Init ==
  /\ sig \in Signature
  /\ ret \in ArgType
  /\ code = parseASMfunction
  /\ pc = 1
  /\ regs = [r \in Registers |-> Garbage]
  /\ rsp = -8 /\ rbp = 0
  /\ stack = Write(<<>>, -8, Address(Halt))
  /\ frames = <<>>
  /\ calls = <<>>
  /\ returned = TRUE

At(op) == pc # Halt /\ code[pc].op = op
Instruction == code[pc]

\* pushq %rbp; movq %rsp, %rbp
printFunctionPrologueToASMFile ==
  /\ At("enter")
  /\ stack' = Write(stack, rsp - 8, Address(rbp))
  /\ rsp' = rsp - 8 /\ rbp' = rsp - 8
  /\ frames' = Append(frames, rsp - 8)
  /\ calls' = Append(calls, 0)
  /\ pc' = pc + 1
  /\ UNCHANGED <<sig, ret, code, regs, returned>>

ExecMov ==
  /\ At("mov")
  /\ LET word == Part(Value(Instruction.src), Instruction.type) IN
     IF Instruction.dst.kind = "register"
     THEN /\ regs' = [regs EXCEPT ![Instruction.dst.name] = word]
          /\ UNCHANGED stack
     ELSE /\ stack' = Write(stack, rbp + Instruction.dst.offset, word)
          /\ UNCHANGED regs
  /\ pc' = pc + 1
  /\ UNCHANGED <<sig, ret, code, rsp, rbp, frames, calls, returned>>

ExecPush ==
  /\ At("push")
  /\ stack' = Write(stack, rsp - 8, Value(Instruction.src))
  /\ rsp' = rsp - 8
  /\ pc' = pc + 1
  /\ UNCHANGED <<sig, ret, code, regs, rbp, frames, calls, returned>>

ExecAdjust ==
  /\ At("adjust")
  /\ rsp' = rsp + Instruction.bytes
  /\ pc' = pc + 1
  /\ UNCHANGED <<sig, ret, code, regs, rbp, stack, frames, calls, returned>>

ExecCall ==
  /\ At("call")
  /\ stack' = Write(stack, rsp - 8, Address(pc + 1))
  /\ rsp' = rsp - 8
  /\ pc' = 1
  /\ UNCHANGED <<sig, ret, code, regs, rbp, frames, calls, returned>>

\* Mutant: no popq %rbp.
EpilogueWithoutPop ==
  /\ At("ret")
  /\ pc' = AddressIn(rbp + 8)
  /\ rsp' = rbp + 16
  /\ frames' = SubSeq(frames, 1, Depth - 1)
  /\ calls' = SubSeq(calls, 1, Depth - 1)
  /\ UNCHANGED <<sig, ret, code, regs, rbp, stack, returned>>

\* movq %rbp, %rsp; popq %rbp; ret
printFunctionEpilogueToASMFile ==
  /\ At("ret")
  /\ rbp' = AddressIn(rbp)
  /\ pc' = AddressIn(rbp + 8)
  /\ rsp' = rbp + 16
  /\ frames' = SubSeq(frames, 1, Depth - 1)
  /\ calls' = SubSeq(calls, 1, Depth - 1)
  /\ UNCHANGED <<sig, ret, code, regs, stack, returned>>

WorkThenReturn ==
  /\ At("work")
  /\ stack' = Write(stack, rbp + ReturnValue.offset,
                    [val |-> Returned(Depth), width |-> Bytes(ret)])
  /\ regs' = [r \in Registers |-> Garbage]
  /\ pc' = AgainAt + 1
  /\ returned' = TRUE
  /\ UNCHANGED <<sig, ret, code, rsp, rbp, frames, calls>>

\* The body ends without a return statement.
WorkThenFallOff ==
  /\ At("work")
  /\ regs' = [r \in Registers |-> Garbage]
  /\ pc' = Len(code) - 1
  /\ returned' = FALSE
  /\ UNCHANGED <<sig, ret, code, rsp, rbp, stack, frames, calls>>

WorkThenCall ==
  /\ At("work") /\ Depth < MaxDepth /\ calls[Depth] < MaxCalls
  /\ calls' = [calls EXCEPT ![Depth] = @ + 1]
  /\ LET args == {rbp + Arg(i).offset : i \in DOMAIN sig} IN
     stack' = [a \in DOMAIN stack \cup args |->
       IF a \notin args THEN stack[a]
       ELSE LET i == CHOOSE i \in DOMAIN sig : a = rbp + Arg(i).offset IN
            [val |-> Passed(Depth, calls'[Depth], i), width |-> Bytes(sig[i])]]
  /\ regs' = [r \in Registers |-> Garbage]
  /\ pc' = pc + 1
  /\ UNCHANGED <<sig, ret, code, rsp, rbp, frames, returned>>

Again ==
  /\ At("again")
  /\ pc' = WorkAt
  /\ UNCHANGED <<sig, ret, code, regs, rsp, rbp, stack, frames, calls, returned>>

Stopped == pc = Halt /\ UNCHANGED vars

Next ==
  \/ printFunctionPrologueToASMFile \/ printFunctionEpilogueToASMFile
  \/ ExecMov \/ ExecPush \/ ExecAdjust \/ ExecCall
  \/ WorkThenReturn \/ WorkThenFallOff \/ WorkThenCall \/ Again \/ Stopped

Spec == Init /\ [][Next]_vars

(***************************************************************************)
(* Properties.                                                             *)
(***************************************************************************)
TypeOK ==
  /\ sig \in Signature /\ ret \in ArgType
  /\ pc \in 0 .. Len(code)
  /\ DOMAIN regs = Registers
  /\ rsp \in Int /\ rbp \in Int
  /\ \A a \in DOMAIN stack : a % 8 = 0 /\ stack[a].width \in {0, 4, 8}
  /\ Len(calls) = Depth
  /\ returned \in BOOLEAN

\* Every activation under way has the arguments its caller passed in the slots
\* of its parameters, as wide as their types, from the start of its body until
\* it returns, whatever the activations above it do: the two classifications
\* agree, the moves reach the right slots, and no call tramples on them.
ParamsKept ==
  \A d \in 2 .. Depth :
    (d < Depth \/ pc >= WorkAt) =>
      \A i \in DOMAIN sig :
        Part(Word(stack, frames[d] + Param(i).offset), sig[i]) =
          [val |-> Passed(d - 1, calls[d - 1], i), width |-> Bytes(sig[i])]

\* The ABI's demand on every call: rsp is a multiple of 16 before it, padding
\* and pushes included.
AlignedAtCall == At("call") => rsp % 16 = 0

\* Whenever the body is back in control, rsp and rbp are where the prologue
\* left them: what a call pushed or padded is removed, no more and no less.
FrameRestored ==
  pc \in {WorkAt, AgainAt} => rbp = frames[Depth] /\ rsp = rbp - FrameSize

\* The value a call evaluates to is the one its callee returned, and 0 after a
\* function of type int that got to its end; of another type, any.
ResultDelivered ==
  At("again") /\ (returned \/ ret = "longword") =>
    Part(Word(stack, rbp + Result.offset), ret) =
      [val |-> IF returned THEN Returned(Depth + 1) ELSE Number(0).val,
       width |-> Bytes(ret)]

\* A function returns to the instruction after the call that started it.
ReturnsToCaller ==
  [][At("ret") =>
       IF Depth = 1 THEN pc' = Halt
       ELSE /\ pc' \in WorkAt + 2 .. AgainAt
            /\ code[pc' - 1].op = "call"
            /\ rbp' = frames[Depth - 1]]_vars

=============================================================================
