------------------------------ MODULE Selection ------------------------------
(***************************************************************************)
(* From one TACKY instruction to assembly.  A parser per instruction turns *)
(* it into assembly over the names of the program; the fix-up puts names   *)
(* into the frame and rewrites what the processor has no form for, through *)
(* registers set aside for it; the generator prints a mnemonic for a size; *)
(* Machine runs the text.                                                  *)
(*                                                                         *)
(* The frame is StackFrame's: here BP is 0 and the place of a name is its  *)
(* distance from it.  Calls and returns are CallingConvention's.           *)
(***************************************************************************)
EXTENDS Tacky, Machine, SequencesExt

CONSTANTS
  Shape,      \* what an instruction is and of which types
  CaseOf(_)   \* the [inst, symbols, mem] of a shape: an instruction and where it runs

\* A place is an address; a name that is no array has a cell of its type.
LaidInMemory(c) ==
  /\ c.mem = [p \in DOMAIN c.mem |-> [type |-> c.mem[p].type, val |-> c.mem[p].val]]
  /\ \A x \in DOMAIN c.symbols :
       LET s == c.symbols[x] IN
       /\ s.type.kind = "array" \/ isInteger(s.type) \/ isPointer(s.type) \/ isDouble(s.type)
       /\ s.place \in Nat /\ s.place = Wrap(s.place, LongBits)
       /\ s.type.kind # "array" => s.place \in DOMAIN c.mem /\ c.mem[s.place].type = s.type

ASSUME Cases ==
  \A shape \in Shape : \A c \in CaseOf(shape) :
    Compilable(c.inst, c.symbols) /\ LaidInMemory(c)

VARIABLES
  case,
  phase,      \* "tacky", "assembly", "fixed", "running", "done"
  code,       \* the assembly, then the text
  pc,
  machine,    \* [regs, flags, stack, mem, fault]
  taken       \* a conditional jump has left

vars == <<case, phase, code, pc, machine, taken>>

inst == case.inst
symbols == case.symbols

(***************************************************************************)
(* Operands and types.                                                     *)
(***************************************************************************)
createRegisterOperand(reg) == [k |-> "reg", reg |-> reg]
createImmediateOperand(val) == [k |-> "imm", val |-> val]
createMemoryOperand(base, offset) == [k |-> "memory", base |-> base.reg, offset |-> offset]
createIndexedMemoryOperand(base, index, scale) ==
  [k |-> "indexed", base |-> base.reg, index |-> index.reg, scale |-> scale]
createPsuedoMemoryOperand(identifier, offset) ==
  [k |-> "pseudo memory", identifier |-> identifier, offset |-> offset]
Pseudo(identifier) == [k |-> "pseudo", identifier |-> identifier]
Data(place) == [k |-> "data", place |-> place]

Reg(r) == createRegisterOperand(r)
Imm(n) == createImmediateOperand(n)

convertCTypeToASMType(type) ==
  CASE type.kind \in {"int", "uint"} -> "longword"
    [] type.kind \in {"long", "ulong", "pointer"} -> "quadword"
    [] type.kind = "double" -> "double"
    [] type.kind = "array" -> "bytes"

\* A name without an entry would be a longword; every name of a case has one
\* (Cases), as a name without a type means nothing.
convertTACKYTypeToASMType(v) == convertCTypeToASMType(TypeOf(v, symbols))

isSignedTACKYValue(v) == isSignedType(TypeOf(v, symbols))
isDoubleOperand(v) == convertTACKYTypeToASMType(v) = "double"

signedOrUnsigned(i) ==
  IF isDoubleOperand(i.src1) \/ isDoubleOperand(i.src2) THEN FALSE
  ELSE isSignedTACKYValue(i.src1) \/ isSignedTACKYValue(i.src2)

\* Where the pool of constants keeps a double: one label for one bit pattern.
createStaticConstant(d) ==
  Data(-1 - (2 * (d.half + 1) + Truth(d.neg)))

tackyValueToASMOperand(v) ==
  IF IsConstant(v)
  THEN IF isDouble(v.type) THEN createStaticConstant(v.val) ELSE Imm(v.val)
  ELSE LET s == symbols[v.identifier] IN
       IF s.static THEN Data(s.place)
       ELSE IF s.type.kind = "array" THEN createPsuedoMemoryOperand(v.identifier, 0)
       ELSE Pseudo(v.identifier)

Op(v) == tackyValueToASMOperand(v)
T(v) == convertTACKYTypeToASMType(v)

(***************************************************************************)
(* Instructions: the source first, as in the text.                         *)
(***************************************************************************)
createMovInstruction(t, src, dst) == [op |-> "mov", t |-> t, args |-> <<src, dst>>]
createASMBinaryInstruction(o, t, src, dst) ==
  [op |-> "binary", type |-> o, t |-> t, args |-> <<src, dst>>]
createASMCmpInstruction(t, op1, op2) == [op |-> "cmp", t |-> t, args |-> <<op1, op2>>]
createASMSetCCInstruction(cond, dst) == [op |-> "setcc", cond |-> cond, args |-> <<dst>>]
createASMMovsxInstruction(src, dst) == [op |-> "movsx", args |-> <<src, dst>>]
createASMMovZeroExtendInstruction(src, dst) == [op |-> "movzx", args |-> <<src, dst>>]
createCvtsi2sdInstruction(t, src, dst) == [op |-> "cvtsi2sd", t |-> t, args |-> <<src, dst>>]
createCvttsd2siInstruction(t, src, dst) == [op |-> "cvttsd2si", t |-> t, args |-> <<src, dst>>]
createLeaInstruction(src, dst) == [op |-> "lea", args |-> <<src, dst>>]
createIdivInstruction(divisor, t) == [op |-> "idiv", t |-> t, args |-> <<divisor>>]
createDivInstruction(divisor, t) == [op |-> "div", t |-> t, args |-> <<divisor>>]
createASMCDQInstruction(t) == [op |-> "cdq", t |-> t, args |-> <<>>]
createASMJumpInstruction(label) == [op |-> "jump", label |-> label, args |-> <<>>]
createASMJumpCCInstruction(cond, label) ==
  [op |-> "jumpcc", cond |-> cond, label |-> label, args |-> <<>>]
createASMLabelInstruction(label) == [op |-> "label", label |-> label, args |-> <<>>]
createASMPushInstruction(src) == [op |-> "push", args |-> <<src>>]
createASMPopInstruction(dst) == [op |-> "pop", args |-> <<dst>>]

createASMUnaryInstruction(type, t, v) ==
  [op |-> "unary", t |-> t, args |-> <<Op(v)>>,
   type |-> CASE type = "negate" -> "neg"
              [] type = "complement" -> "not"
              [] type = "increment" -> "inc"
              [] type = "decrement" -> "dec"]

binTypeToASMBinaryOperator(type) ==
  CASE type = "add" -> "add"
    [] type = "subtract" -> "subtract"
    [] type = "multiply" -> "multiply"
    [] type = "bit and" -> "and"
    [] type = "bit or" -> "or"
    [] type = "bit xor" -> "xor"
    [] type = "left shift" -> "shift left"
    [] type = "right shift" -> "shift right"

getCondCodeForRelationalOp(type, signed) ==
  CASE type = "equals" -> "e"
    [] type = "not equals" -> "ne"
    [] type = "less" -> IF signed THEN "l" ELSE "b"
    [] type = "less equal" -> IF signed THEN "le" ELSE "be"
    [] type = "greater" -> IF signed THEN "g" ELSE "a"
    [] type = "greater equal" -> IF signed THEN "ge" ELSE "ae"

(***************************************************************************)
(* The parsers.                                                            *)
(***************************************************************************)
getDivisionInst(i) ==
  IF isSignedTACKYValue(i.src1)
  THEN <<createASMCDQInstruction(T(i.src1)), createIdivInstruction(Op(i.src2), T(i.src1))>>
  ELSE <<createMovInstruction(T(i.src1), Imm(0), Reg("DX")),
         createDivInstruction(Op(i.src2), T(i.src1))>>

createASMDoubleDivision(i) ==
  <<createMovInstruction("double", Op(i.src1), Op(i.dest)),
    createASMBinaryInstruction("divide double", "double", Op(i.src2), Op(i.dest))>>

handleDivideModuloCase(i) ==
  IF isDoubleOperand(i.src1) \/ isDoubleOperand(i.src2) THEN createASMDoubleDivision(i)
  ELSE <<createMovInstruction(T(i.src1), Op(i.src1), Reg("AX"))>>
       \o getDivisionInst(i)
       \o <<createMovInstruction(T(i.dest), Reg(IF i.type = "remainder" THEN "DX" ELSE "AX"),
                                 Op(i.dest))>>

handleBinaryRelationalOp(i) ==
  <<createASMCmpInstruction(T(i.src1), Op(i.src2), Op(i.src1)),
    createMovInstruction("longword", Imm(0), Op(i.dest)),
    createASMSetCCInstruction(getCondCodeForRelationalOp(i.type, signedOrUnsigned(i)), Op(i.dest))>>

parseASMBinaryInstruction(i) ==
  IF i.type \in {"divide", "remainder"} THEN handleDivideModuloCase(i)
  ELSE IF i.type \in isRelationBinaryOp THEN handleBinaryRelationalOp(i)
  ELSE <<createMovInstruction(T(i.src1), Op(i.src1), Op(i.dest)),
         createASMBinaryInstruction(binTypeToASMBinaryOperator(i.type), T(i.src1),
                                    Op(i.src2), Op(i.dest))>>

handleUnaryNot(i) ==
  <<createASMCmpInstruction(T(i.src),
      IF T(i.src) = "double" THEN createStaticConstant(Zero) ELSE Imm(0), Op(i.src)),
    createMovInstruction("longword", Imm(0), Op(i.dest)),
    createASMSetCCInstruction("e", Op(i.dest))>>

handleDoubleNegation(i) ==
  <<createMovInstruction("double", Op(i.src), Op(i.dest)),
    createASMBinaryInstruction("xor", "double", createStaticConstant(Negated(Zero)), Op(i.dest))>>

parseASMUnaryInstruction(i) ==
  IF i.type = "not" THEN handleUnaryNot(i)
  ELSE IF i.type = "negate" /\ T(i.src) = "double" THEN handleDoubleNegation(i)
  ELSE IF i.type \in Step
  THEN <<createASMUnaryInstruction(i.type, T(i.src), i.src),
         createMovInstruction(T(i.src), Op(i.src), Op(i.dest))>>
  ELSE <<createMovInstruction(T(i.src), Op(i.src), Op(i.dest)),
         createASMUnaryInstruction(i.type, T(i.dest), i.dest)>>

handleDispatchCopy(i) == <<createMovInstruction(T(i.src), Op(i.src), Op(i.dest))>>

parseASMSignExtendInstruction(i) == <<createASMMovsxInstruction(Op(i.src), Op(i.dest))>>
parseZeroExtendInstruction(i) == <<createASMMovZeroExtendInstruction(Op(i.src), Op(i.dest))>>
parseASMTruncateInstruction(i) == <<createMovInstruction("longword", Op(i.src), Op(i.dest))>>

parseIntToDoubleInstruction(i) == <<createCvtsi2sdInstruction(T(i.src), Op(i.src), Op(i.dest))>>
parseDoubleToIntInstruction(i) == <<createCvttsd2siInstruction(T(i.dest), Op(i.src), Op(i.dest))>>

\* Mutant: the bit that halving drops is not kept.
BitDropped(i) ==
  <<createMovInstruction("quadword", Op(i.src), Reg("DX")),
    createMovInstruction("quadword", Reg("DX"), Reg("AX")),
    createASMBinaryInstruction("shift right", "double", Imm(1), Reg("AX"))>>

\* Half the number, the bit that drops out kept: it decides the rounding.
Halved(i) ==
  <<createMovInstruction("quadword", Op(i.src), Reg("DX")),
    createMovInstruction("quadword", Reg("DX"), Reg("AX")),
    createASMBinaryInstruction("shift right", "double", Imm(1), Reg("AX")),
    createASMBinaryInstruction("and", "quadword", Imm(1), Reg("DX")),
    createASMBinaryInstruction("or", "quadword", Reg("DX"), Reg("AX"))>>

parseUintToDoubleInstruction(i) ==
  IF T(i.src) = "longword"
  THEN <<createASMMovZeroExtendInstruction(Op(i.src), Reg("AX")),
         createCvtsi2sdInstruction("quadword", Reg("AX"), Op(i.dest))>>
  ELSE <<createASMCmpInstruction("quadword", Imm(0), Op(i.src)),
         createASMJumpCCInstruction("l", "else"),
         createCvtsi2sdInstruction("quadword", Op(i.src), Op(i.dest)),
         createASMJumpInstruction("end"),
         createASMLabelInstruction("else")>>
       \o Halved(i)
       \o <<createCvtsi2sdInstruction("quadword", Reg("AX"), Op(i.dest)),
            createASMBinaryInstruction("add", "double", Op(i.dest), Op(i.dest)),
            createASMLabelInstruction("end")>>

HalfRange == FromNumber(2^(LongBits - 1))

parseDoubleToUintInstruction(i) ==
  IF T(i.dest) = "longword"
  THEN <<createCvttsd2siInstruction("quadword", Op(i.src), Reg("AX")),
         createMovInstruction("longword", Reg("AX"), Op(i.dest))>>
  ELSE <<createASMCmpInstruction("double", createStaticConstant(HalfRange), Op(i.src)),
         createASMJumpCCInstruction("ae", "else"),
         createCvttsd2siInstruction("quadword", Op(i.src), Op(i.dest)),
         createASMJumpInstruction("end"),
         createASMLabelInstruction("else"),
         createMovInstruction("double", Op(i.src), Reg("XMM1")),
         createASMBinaryInstruction("subtract", "double", createStaticConstant(HalfRange),
                                    Reg("XMM1")),
         createCvttsd2siInstruction("quadword", Reg("XMM1"), Op(i.dest)),
         createMovInstruction("quadword", Imm(2^(LongBits - 1)), Reg("AX")),
         createASMBinaryInstruction("add", "quadword", Reg("AX"), Op(i.dest)),
         createASMLabelInstruction("end")>>

parseLoadInstruction(i) ==
  <<createMovInstruction("quadword", Op(i.src), Reg("R10")),
    createMovInstruction(T(i.dest), createMemoryOperand(Reg("R10"), 0), Op(i.dest))>>

parseStoreInstruction(i) ==
  <<createMovInstruction("quadword", Op(i.dest), Reg("R11")),
    createMovInstruction(T(i.src), Op(i.src), createMemoryOperand(Reg("R11"), 0))>>

parseGetAddressInstruction(i) == <<createLeaInstruction(Op(i.src), Op(i.dest))>>

parseCopyToOffsetInstruction(i) ==
  <<createMovInstruction(T(i.src), Op(i.src),
                         createPsuedoMemoryOperand(i.dest.identifier, i.offset))>>

parseAddPtrInstruction(i) ==
  LET byAddressing == i.scale \in {1, 2, 4, 8} IN
  <<createMovInstruction("quadword", Op(i.src), Reg("AX")),
    createMovInstruction("quadword", Op(i.index), Reg("DX"))>>
  \o (IF byAddressing THEN <<>>
      ELSE <<createASMBinaryInstruction("multiply", "quadword", Imm(i.scale), Reg("DX"))>>)
  \o <<createLeaInstruction(
         createIndexedMemoryOperand(Reg("AX"), Reg("DX"), IF byAddressing THEN i.scale ELSE 1),
         Op(i.dest))>>

handleDoubleCondJump(i, cond) ==
  <<createASMBinaryInstruction("xor", "double", Reg("XMM0"), Reg("XMM0")),
    createASMCmpInstruction("double", Op(i.condition), Reg("XMM0")),
    createASMJumpCCInstruction(cond, i.label)>>

parseCondJumpInstruction(i) ==
  LET cond == IF i.op = "jump if zero" THEN "e" ELSE "ne" IN
  IF T(i.condition) = "double" THEN handleDoubleCondJump(i, cond)
  ELSE <<createASMCmpInstruction(T(i.condition), Imm(0), Op(i.condition)),
         createASMJumpCCInstruction(cond, i.label)>>

instructionHandlers(i) ==
  CASE i.op = "unary" -> parseASMUnaryInstruction(i)
    [] i.op = "binary" -> parseASMBinaryInstruction(i)
    [] i.op = "copy" -> handleDispatchCopy(i)
    [] i.op \in CondJump -> parseCondJumpInstruction(i)
    [] i.op = "sign extend" -> parseASMSignExtendInstruction(i)
    [] i.op = "zero extend" -> parseZeroExtendInstruction(i)
    [] i.op = "truncate" -> parseASMTruncateInstruction(i)
    [] i.op = "double to int" -> parseDoubleToIntInstruction(i)
    [] i.op = "double to uint" -> parseDoubleToUintInstruction(i)
    [] i.op = "int to double" -> parseIntToDoubleInstruction(i)
    [] i.op = "uint to double" -> parseUintToDoubleInstruction(i)
    [] i.op = "load" -> parseLoadInstruction(i)
    [] i.op = "store" -> parseStoreInstruction(i)
    [] i.op = "get address" -> parseGetAddressInstruction(i)
    [] i.op = "add pointer" -> parseAddPtrInstruction(i)
    [] i.op = "copy to offset" -> parseCopyToOffsetInstruction(i)

(***************************************************************************)
(* The fix-up.  R10 and XMM15 take sources, R11 and XMM14 destinations.    *)
(***************************************************************************)
isMemoryOp(o) == o.k \in {"memory", "data"}
isBothMemoryOps(a, b) == isMemoryOp(a) /\ isMemoryOp(b)
isRegister(o) == o.k = "reg"
isImmediate(o) == o.k = "imm"
isLargeImmediate(o) == isImmediate(o) /\ ~FitsSigned(o.val, IntBits)

scratchReg1(t) == Reg(IF t = "double" THEN "XMM15" ELSE "R10")
scratchReg2(t) == Reg(IF t = "double" THEN "XMM14" ELSE "R11")

resolvePseudo(o) ==
  CASE o.k = "pseudo" -> createMemoryOperand(Reg("BP"), symbols[o.identifier].place)
    [] o.k = "pseudo memory" ->
         createMemoryOperand(Reg("BP"), symbols[o.identifier].place + o.offset)
    [] OTHER -> o

fixMov(in) ==
  LET src == in.args[1]
      dst == in.args[2]
      through == \/ isBothMemoryOps(src, dst)
                 \/ in.t = "quadword" /\ isLargeImmediate(src) /\ ~isRegister(dst)
  IN IF through
     THEN <<createMovInstruction(in.t, src, scratchReg1(in.t)),
            createMovInstruction(in.t, scratchReg1(in.t), dst)>>
     ELSE <<in>>

fixMovsx(in) ==
  LET src == in.args[1]
      dst == in.args[2]
      from == IF isImmediate(src) THEN Reg("R10") ELSE src
      to == IF isMemoryOp(dst) THEN Reg("R11") ELSE dst
  IN (IF isImmediate(src) THEN <<createMovInstruction("longword", src, from)>> ELSE <<>>)
     \o <<createASMMovsxInstruction(from, to)>>
     \o (IF isMemoryOp(dst) THEN <<createMovInstruction("quadword", to, dst)>> ELSE <<>>)

fixCVTTSD2SI(in) ==
  LET dst == in.args[2] IN
  IF isRegister(dst) THEN <<in>>
  ELSE <<createCvttsd2siInstruction(in.t, in.args[1], Reg("R11")),
         createMovInstruction(in.t, Reg("R11"), dst)>>

fixCVTSI2SD(in) ==
  LET src == in.args[1]
      dst == in.args[2]
      from == IF isImmediate(src) THEN Reg("R10") ELSE src
      to == IF isRegister(dst) THEN dst ELSE Reg("XMM15")
  IN (IF isImmediate(src) THEN <<createMovInstruction(in.t, src, from)>> ELSE <<>>)
     \o <<createCvtsi2sdInstruction(in.t, from, to)>>
     \o (IF isRegister(dst) THEN <<>> ELSE <<createMovInstruction("double", to, dst)>>)

fixLea(in) ==
  LET dst == in.args[2] IN
  IF isRegister(dst) THEN <<in>>
  ELSE <<createLeaInstruction(in.args[1], Reg("R11")),
         createMovInstruction("quadword", Reg("R11"), dst)>>

fixMovZeroExtend(in) ==
  LET dst == in.args[2] IN
  IF isRegister(dst) THEN <<createMovInstruction("longword", in.args[1], dst)>>
  ELSE <<createMovInstruction("longword", in.args[1], Reg("R11")),
         createMovInstruction("quadword", Reg("R11"), dst)>>

fixIdiv(in) ==
  IF isRegister(in.args[1]) THEN <<in>>
  ELSE <<createMovInstruction(in.t, in.args[1], Reg("R10")),
         createIdivInstruction(Reg("R10"), in.t)>>

fixDiv(in) ==
  IF isRegister(in.args[1]) THEN <<in>>
  ELSE <<createMovInstruction(in.t, in.args[1], Reg("R10")),
         createDivInstruction(Reg("R10"), in.t)>>

\* Mutant: the count is left where it is put.
CountKept(in) ==
  LET count == in.args[1]
      borrowed == ~isImmediate(count) /\ count # Reg("CX")
  IN (IF borrowed THEN <<createMovInstruction("longword", count, Reg("CX"))>> ELSE <<>>)
     \o <<createASMBinaryInstruction(in.type, in.t, IF borrowed THEN Reg("CX") ELSE count,
                                     in.args[2])>>

\* The count goes into CX, which is put back afterwards.
fixShift(in) ==
  LET count == in.args[1]
      dst == in.args[2]
      borrowed == ~isImmediate(count) /\ count # Reg("CX")
      by == IF borrowed THEN Reg("CX") ELSE count
  IN (IF borrowed THEN <<createASMPushInstruction(Reg("CX")),
                         createMovInstruction("longword", count, Reg("CX"))>> ELSE <<>>)
     \o (IF isImmediate(dst)
         THEN <<createMovInstruction(in.t, dst, Reg("R11")),
                createASMBinaryInstruction(in.type, in.t, by, Reg("R11")),
                createMovInstruction(in.t, Reg("R11"), dst)>>
         ELSE <<createASMBinaryInstruction(in.type, in.t, by, dst)>>)
     \o (IF borrowed THEN <<createASMPopInstruction(Reg("CX"))>> ELSE <<>>)

\* Mutant: a large immediate stays where it is.
NoLargeImmediate(t, o1, o2) ==
  IF isBothMemoryOps(o1, o2)
  THEN [op1 |-> scratchReg1(t), moves |-> <<createMovInstruction(t, o1, scratchReg1(t))>>]
  ELSE [op1 |-> o1, moves |-> <<>>]

\* What fixBinary and fixCmp do alike to their first operand.
FirstOperand(t, o1, o2) ==
  IF t = "quadword" /\ isLargeImmediate(o1)
  THEN [op1 |-> Reg("R10"), moves |-> <<createMovInstruction("quadword", o1, Reg("R10"))>>]
  ELSE IF isBothMemoryOps(o1, o2)
  THEN [op1 |-> scratchReg1(t), moves |-> <<createMovInstruction(t, o1, scratchReg1(t))>>]
  ELSE [op1 |-> o1, moves |-> <<>>]

fixBinary(in) ==
  LET first == FirstOperand(in.t, in.args[1], in.args[2])
      dst == in.args[2]
      scratch == scratchReg2(in.t)
  IN IF in.type \in {"shift left", "shift right"} THEN fixShift(in)
     ELSE first.moves \o
          (IF (in.type = "multiply" \/ in.t = "double") /\ isMemoryOp(dst)
           THEN <<createMovInstruction(in.t, dst, scratch),
                  createASMBinaryInstruction(in.type, in.t, first.op1, scratch),
                  createMovInstruction(in.t, scratch, dst)>>
           ELSE <<createASMBinaryInstruction(in.type, in.t, first.op1, dst)>>)

fixCmp(in) ==
  LET first == FirstOperand(in.t, in.args[1], in.args[2])
      op2 == in.args[2]
      second == IF isRegister(op2) THEN op2 ELSE scratchReg2(in.t)
  IN first.moves
     \o (IF isRegister(op2) THEN <<>> ELSE <<createMovInstruction(in.t, op2, second)>>)
     \o <<createASMCmpInstruction(in.t, first.op1, second)>>

InPlace(unresolved) ==
  [unresolved EXCEPT !.args = [n \in DOMAIN @ |-> resolvePseudo(@[n])]]

Fixed(unresolved) ==
  LET in == InPlace(unresolved) IN
  CASE in.op = "mov" -> fixMov(in)
    [] in.op = "movsx" -> fixMovsx(in)
    [] in.op = "movzx" -> fixMovZeroExtend(in)
    [] in.op = "idiv" -> fixIdiv(in)
    [] in.op = "div" -> fixDiv(in)
    [] in.op = "binary" -> fixBinary(in)
    [] in.op = "cvttsd2si" -> fixCVTTSD2SI(in)
    [] in.op = "cvtsi2sd" -> fixCVTSI2SD(in)
    [] in.op = "cmp" -> fixCmp(in)
    [] in.op = "lea" -> fixLea(in)
    [] OTHER -> <<in>>

(***************************************************************************)
(* The text.  A register has the name of its part of the size printed; a   *)
(* jump's target and a condition stay words of their own.                  *)
(***************************************************************************)
turnASMTypeToAsm(t) ==
  CASE t = "longword" -> "l" [] t = "quadword" -> "q" [] OTHER -> "unknown"

asmBinaryOperatorToString(type) ==
  CASE type = "add" -> "add"
    [] type = "subtract" -> "sub"
    [] type = "multiply" -> "imul"
    [] type = "shift left" -> "sal"
    [] type = "shift right" -> "sar"
    [] type \in {"and", "or", "xor"} -> type
    [] OTHER -> "unknown"

asmDoubleBinaryOpToString(type) ==
  CASE type = "add" -> "addsd"
    [] type = "subtract" -> "subsd"
    [] type = "multiply" -> "mulsd"
    [] type = "divide double" -> "divsd"
    [] type = "xor" -> "xorpd"
    [] OTHER -> "unknown"

Line(mn, sz, args) == [mn |-> mn, sz |-> sz, args |-> args]

printBinary(in) ==
  LET shift == in.type \in {"shift left", "shift right"} IN
  IF ~shift /\ in.t = "double"
  THEN Line(asmDoubleBinaryOpToString(in.type), "sd", in.args)
  ELSE IF in.type = "shift right" /\ in.t = "double" THEN Line("shr", "q", in.args)
  ELSE Line(asmBinaryOperatorToString(in.type), turnASMTypeToAsm(in.t), in.args)

printInstructionsToASMFile(in) ==
  CASE in.op = "mov" ->
         IF in.t = "double" THEN Line("movsd", "sd", in.args)
         ELSE Line("mov", turnASMTypeToAsm(in.t), in.args)
    [] in.op = "unary" ->
         Line(in.type, IF in.t = "double" THEN "sd" ELSE turnASMTypeToAsm(in.t), in.args)
    [] in.op = "binary" -> printBinary(in)
    [] in.op = "cmp" ->
         IF in.t = "double" THEN Line("comisd", "sd", in.args)
         ELSE Line("cmp", turnASMTypeToAsm(in.t), in.args)
    [] in.op = "movsx" -> Line("movslq", "q", in.args)
    [] in.op \in {"cvttsd2si", "cvtsi2sd", "idiv", "div"} ->
         Line(in.op, turnASMTypeToAsm(in.t), in.args)
    [] in.op = "lea" -> Line("lea", "q", in.args)
    [] in.op \in {"push", "pop"} -> Line(in.op, "q", in.args)
    [] in.op = "cdq" -> Line(IF in.t = "longword" THEN "cdq" ELSE "cqo", "", <<>>)
    [] in.op = "setcc" -> Line("set", in.cond, in.args)
    [] in.op = "jump" -> Line("jmp", in.label, <<>>)
    [] in.op = "jumpcc" -> [mn |-> "j", sz |-> in.cond, args |-> <<>>, label |-> in.label]
    [] in.op = "label" -> Line("label", in.label, <<>>)

(***************************************************************************)
(* The passes, and the run.                                                *)
(***************************************************************************)
\* Whatever the registers hold is somebody else's.
Registers == [r \in General \cup Vector |->
                IF r \in Vector THEN FromNumber(3) ELSE 2^LongBits - 2]

Init ==
  /\ \E shape \in Shape : case \in CaseOf(shape)
  /\ phase = "tacky"
  /\ code = <<>> /\ pc = 1
  /\ machine = [regs |-> Registers, flags |-> Flags(FALSE, FALSE, FALSE), stack |-> <<>>,
                mem |-> case.mem, fault |-> FALSE]
  /\ taken = FALSE

parseASMInstruction ==
  /\ phase = "tacky"
  /\ phase' = "assembly"
  /\ code' = instructionHandlers(inst)
  /\ UNCHANGED <<case, pc, machine, taken>>

pseudoToStackPositions ==
  /\ phase = "assembly"
  /\ phase' = "fixed"
  /\ code' = FlattenSeq([n \in DOMAIN code |-> Fixed(code[n])])
  /\ UNCHANGED <<case, pc, machine, taken>>

\* The constants the code names, each at its label.
Pool == UNION {{o.place : o \in {p \in ToSet(code[n].args) : p.k = "data"}} : n \in DOMAIN code}
        \cap {-n : n \in 1..2^(LongBits + 2)}

addConstantsAsTopLevels ==
  [place \in Pool |->
     [type |-> CTYPE_DOUBLE,
      val |-> Dbl((-1 - place) % 2 = 1, ((-1 - place) \div 2) - 1)]]

generateASMFile ==
  /\ phase = "fixed"
  /\ phase' = "running"
  /\ code' = [n \in DOMAIN code |-> printInstructionsToASMFile(code[n])]
  /\ machine' = [machine EXCEPT !.mem =
                   [place \in DOMAIN @ \cup Pool |->
                      IF place \in DOMAIN @ THEN @[place] ELSE addConstantsAsTopLevels[place]]]
  /\ UNCHANGED <<case, pc, taken>>

Target(label) ==
  {n \in DOMAIN code : code[n].mn = "label" /\ code[n].sz = label}

Jumps(line) ==
  \/ line.mn = "jmp"
  \/ line.mn = "j" /\ Holds(line.sz, machine.flags)

LabelOf(line) == IF line.mn = "jmp" THEN line.sz ELSE line.label

\* One line; a jump to a label of another instruction leaves this one.
Run ==
  /\ phase = "running"
  /\ UNCHANGED <<case, code>>
  /\ IF pc > Len(code) \/ machine.fault \/ ~Assembles(code[pc])
     THEN phase' = "done" /\ UNCHANGED <<pc, machine, taken>>
     ELSE LET line == code[pc] IN
          IF ~Jumps(line)
          THEN /\ machine' = Execute(line, machine)
               /\ pc' = pc + 1
               /\ UNCHANGED <<phase, taken>>
          ELSE /\ UNCHANGED machine
               /\ IF Target(LabelOf(line)) = {}
                  THEN /\ taken' = TRUE
                       /\ phase' = "done"
                       /\ UNCHANGED pc
                  ELSE /\ pc' = CHOOSE n \in Target(LabelOf(line)) : TRUE
                       /\ UNCHANGED <<phase, taken>>

Next == parseASMInstruction \/ pseudoToStackPositions \/ generateASMFile \/ Run

Spec == Init /\ [][Next]_vars

(***************************************************************************)
(* What is expected.                                                       *)
(***************************************************************************)
V(v) == Val(v, symbols, case.mem)

\* Known: a right shift of an unsigned number is printed as sar.
ShiftsSign ==
  /\ inst.op = "binary" /\ inst.type = "right shift"
  /\ ~isSignedTACKYValue(inst.src1)
  /\ Signed(V(inst.src1), Bits(TypeOf(inst.src1, symbols))) < 0
  /\ V(inst.src2) > 0

\* Known: comisd calls what is unordered equal, and below.
Unordered ==
  \/ /\ inst.op = "binary" /\ inst.type \in {"equals", "not equals", "less", "less equal"}
     /\ isDoubleOperand(inst.src1)
     /\ IsNaN(V(inst.src1)) \/ IsNaN(V(inst.src2))
  \/ inst.op = "unary" /\ inst.type = "not" /\ isDoubleOperand(inst.src) /\ IsNaN(V(inst.src))
  \/ inst.op \in CondJump /\ isDoubleOperand(inst.condition) /\ IsNaN(V(inst.condition))

\* Known: incsd and decsd do not exist.
StepsDouble == inst.op = "unary" /\ inst.type \in Step /\ isDoubleOperand(inst.src)

Visible == [place \in DOMAIN case.mem |-> machine.mem[place]]

\* An instruction that is defined leaves memory as it says and the jump it
\* says, and changes nothing else; the known exceptions never do.
\* (parsers, pseudoToStackPositions, printInstructionsToASMFile)
MeaningKept ==
  phase = "done" /\ ~Undefined(inst, symbols, case.mem) =>
    (/\ ~machine.fault
     /\ Visible = After(inst, symbols, case.mem)
     /\ taken <=> Taken(inst, symbols, case.mem))
    <=> ~(ShiftsSign \/ Unordered \/ StepsDouble)

\* Every line can be assembled, whatever mix of constants, frame slots and
\* static data the operands are; the known exception never can.
\* (fixMov .. fixCmp)
AllAssemble ==
  phase \in {"running", "done"} =>
    (\A n \in DOMAIN code : Assembles(code[n])) <=> ~StepsDouble

\* When it is over, CX and the stack are what they were: the arguments of a
\* call under construction are not lost.  (fixShift)
BorrowedBack ==
  phase = "done" =>
    /\ machine.stack = <<>>
    /\ \A r \in General \ {"AX", "DX", "R10", "R11"} : machine.regs[r] = Registers[r]
=============================================================================
