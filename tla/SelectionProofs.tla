---------------------------- MODULE SelectionProofs ----------------------------
(***************************************************************************)
(* The theorems about assembly selection: for any sizes of words, and any  *)
(* instructions over operands of the types the emitter gives them.         *)
(***************************************************************************)
EXTENDS Selection, SequenceLemmas

(***************************************************************************)
(* Operands, once names have their places.                                 *)
(***************************************************************************)
Free == {"AX", "DX", "R10", "R11"} \cup Vector

\* What a line does not write but for a register that may be written.
Quiet(line) ==
  \/ line.mn \in {"cdq", "cqo", "jmp", "j", "label"}
  \/ /\ line.mn \notin {"push", "pop"}
     /\ LET dst == line.args[Len(line.args)] IN IsReg(dst) => dst.reg \in Free

\* An instruction the fix-up may leave behind.
Fine(in) ==
  LET line == printInstructionsToASMFile(in) IN Assembles(line) /\ Quiet(line)

Slot(o) == o.k \in {"memory", "data"}
FreeReg(o) == o.k = "reg" /\ o.reg \in Free
GeneralReg(o) == o.k = "reg" /\ o.reg \in General
VectorReg(o) == o.k = "reg" /\ o.reg \in Vector

\* Operands of integers and of doubles, to be read and to be written.
Source(t, o) ==
  IF t = "double" THEN Slot(o) \/ VectorReg(o) ELSE Slot(o) \/ GeneralReg(o) \/ isImmediate(o)
Destination(t, o) ==
  IF t = "double" THEN Slot(o) \/ VectorReg(o) ELSE Slot(o) \/ (GeneralReg(o) /\ FreeReg(o))

AsmType == {"longword", "quadword", "double"}

LEMMA TwoArgs ==
  ASSUME NEW a, NEW b
  PROVE  /\ Len(<<a, b>>) = 2 /\ <<a, b>>[1] = a /\ <<a, b>>[2] = b
         /\ DOMAIN <<a, b>> = 1 .. 2
OBVIOUS

\* A move that the assembler has a form for.
LEMMA FineMov ==
  ASSUME NEW t \in AsmType, NEW src, NEW dst, Source(t, src), Destination(t, dst),
         ~isBothMemoryOps(src, dst),
         ~(t = "quadword" /\ isLargeImmediate(src) /\ ~isRegister(dst))
  PROVE  Fine(createMovInstruction(t, src, dst))
<1> USE DEF Fine, createMovInstruction, printInstructionsToASMFile, Line, Quiet, Source, Destination,
            Slot, FreeReg, GeneralReg, VectorReg, isImmediate, isMemoryOp, isBothMemoryOps,
            isLargeImmediate, isRegister
<1>1. CASE t = "double"
  <2>1. printInstructionsToASMFile(createMovInstruction(t, src, dst)) = Line("movsd", "sd", <<src, dst>>)
    BY <1>1
  <2>2. Assembles(Line("movsd", "sd", <<src, dst>>))
    BY <1>1 DEF Assembles, Alu, Shifts, VectorOp, InVector, IsReg, IsMem
  <2> QED BY <2>1, <2>2, <1>1 DEF Free, IsReg
<1>2. CASE t # "double"
  <2> DEFINE sz == IF t = "longword" THEN "l" ELSE "q"
  <2>1. printInstructionsToASMFile(createMovInstruction(t, src, dst)) = Line("mov", sz, <<src, dst>>)
    BY <1>2 DEF turnASMTypeToAsm, AsmType
  <2>2. Assembles(Line("mov", sz, <<src, dst>>))
    BY <1>2 DEF Assembles, Alu, Shifts, VectorOp, InGeneral, IsReg, IsMem, IsImm, ImmOK, GeneralOrMem, AsmType
  <2> QED BY <2>1, <2>2, <1>2 DEF IsReg
<1> QED BY <1>1, <1>2


\* Integer arithmetic: a product goes into a register.
LEMMA FineBinary ==
  ASSUME NEW t \in {"longword", "quadword"}, NEW src, NEW dst,
         NEW type \in {"add", "subtract", "multiply", "and", "or", "xor"},
         Source(t, src), Destination(t, dst), ~isBothMemoryOps(src, dst),
         ~(t = "quadword" /\ isLargeImmediate(src)), type = "multiply" => ~Slot(dst)
  PROVE  Fine(createASMBinaryInstruction(type, t, src, dst))
<1> USE DEF Source, Destination, Slot, FreeReg, GeneralReg, isImmediate, isMemoryOp,
            isBothMemoryOps, isLargeImmediate
<1> DEFINE sz == IF t = "longword" THEN "l" ELSE "q"
           line == Line(asmBinaryOperatorToString(type), sz, <<src, dst>>)
<1>1. printInstructionsToASMFile(createASMBinaryInstruction(type, t, src, dst)) = line
  BY DEF createASMBinaryInstruction, printInstructionsToASMFile, printBinary, Line, turnASMTypeToAsm
<1>2. asmBinaryOperatorToString(type) \in Alu \ {"imul"} \/ asmBinaryOperatorToString(type) = "imul"
  BY DEF asmBinaryOperatorToString, Alu
<1>3. asmBinaryOperatorToString(type) = "imul" => type = "multiply"
  BY DEF asmBinaryOperatorToString
<1>4. Assembles(line)
  BY <1>2, <1>3 DEF Assembles, Line, Alu, Shifts, VectorOp, InGeneral, IsReg, IsMem, IsImm, ImmOK,
     GeneralOrMem
<1>5. Quiet(line)
  BY <1>2 DEF Quiet, Line, IsReg, Alu
<1> QED BY <1>1, <1>4, <1>5 DEF Fine

\* Arithmetic of doubles is done in a register.
LEMMA FineDouble ==
  ASSUME NEW src, NEW dst, NEW type \in {"add", "subtract", "multiply", "divide double", "xor"},
         Source("double", src), VectorReg(dst)
  PROVE  Fine(createASMBinaryInstruction(type, "double", src, dst))
<1> DEFINE line == Line(asmDoubleBinaryOpToString(type), "sd", <<src, dst>>)
<1>1. printInstructionsToASMFile(createASMBinaryInstruction(type, "double", src, dst)) = line
  BY DEF createASMBinaryInstruction, printInstructionsToASMFile, printBinary, Line
<1>2. asmDoubleBinaryOpToString(type) \in VectorOp
  BY DEF asmDoubleBinaryOpToString, VectorOp
<1>3. Assembles(line)
  BY <1>2 DEF Assembles, Line, Alu, Shifts, VectorOp, InVector, IsReg, IsMem, Source, Slot, VectorReg
<1>4. Quiet(line)
  BY <1>2 DEF Quiet, Line, IsReg, VectorOp, VectorReg, Free
<1> QED BY <1>1, <1>3, <1>4 DEF Fine

\* A shift is by a number, or by what is in CX.
LEMMA FineShift ==
  ASSUME NEW t \in AsmType, NEW by, NEW dst, NEW type \in {"shift left", "shift right"},
         t = "double" => type = "shift right",
         isImmediate(by) \/ by = Reg("CX"), Slot(dst) \/ (GeneralReg(dst) /\ FreeReg(dst))
  PROVE  Fine(createASMBinaryInstruction(type, t, by, dst))
<1> DEFINE line == printInstructionsToASMFile(createASMBinaryInstruction(type, t, by, dst))
<1>1. line.mn \in Shifts /\ line.sz \in {"l", "q"} /\ line.args = <<by, dst>>
  BY DEF createASMBinaryInstruction, printInstructionsToASMFile, printBinary, Line, AsmType, Shifts,
     turnASMTypeToAsm, asmBinaryOperatorToString
<1> HIDE DEF line
<1>2. line.args[1] = by /\ line.args[Len(line.args)] = dst
  <2>1. <<by, dst>>[1] = by /\ <<by, dst>>[Len(<<by, dst>>)] = dst
    OBVIOUS
  <2> QED BY <1>1, <2>1, Zenon
<1>3. Assembles(line)
  <2>1. GeneralOrMem(dst)
    BY DEF InGeneral, IsReg, IsMem, GeneralOrMem, Slot, GeneralReg
  <2>2. IsImm(by) \/ by = [k |-> "reg", reg |-> "CX"]
    BY DEF IsImm, isImmediate, Reg, createRegisterOperand
  <2>3. line.mn \in {"sal", "sar", "shr"}
    BY <1>1 DEF Shifts
  <2> QED BY <1>1, <1>2, <2>1, <2>2, <2>3 DEF Assembles, Alu, Shifts, VectorOp
<1>4. Quiet(line)
  BY <1>1, <1>2 DEF Quiet, Shifts, IsReg, Slot, FreeReg
<1> QED BY <1>3, <1>4 DEF Fine, line

\* A comparison is with what is in a register.
LEMMA FineCmp ==
  ASSUME NEW t \in AsmType, NEW src, NEW dst, Source(t, src), Destination(t, dst), ~Slot(dst),
         ~(t = "quadword" /\ isLargeImmediate(src))
  PROVE  Fine(createASMCmpInstruction(t, src, dst))
<1> DEFINE line == printInstructionsToASMFile(createASMCmpInstruction(t, src, dst))
<1>1. /\ line.args = <<src, dst>>
      /\ line.mn = IF t = "double" THEN "comisd" ELSE "cmp"
      /\ t = "longword" => line.sz = "l"
      /\ t = "quadword" => line.sz = "q"
  BY DEF createASMCmpInstruction, printInstructionsToASMFile, Line, AsmType, turnASMTypeToAsm
<1> HIDE DEF line
<1>2. Quiet(line)
  BY <1>1 DEF Quiet, IsReg, Destination, VectorReg, FreeReg, Slot, Free
<1>3. CASE t = "double"
  <2>1. VectorReg(dst) /\ (Slot(src) \/ VectorReg(src))
    BY <1>3 DEF Source, Destination
  <2>2. Assembles(line)
    BY <1>1, <1>3, <2>1 DEF Assembles, Alu, Shifts, VectorOp, InVector, IsReg, IsMem, Slot, VectorReg
  <2> QED BY <1>2, <2>2 DEF Fine, line
<1>4. CASE t # "double"
  <2>1. line.mn = "cmp" /\ line.sz \in {"l", "q"} /\ (line.sz = "q" => t = "quadword")
    BY <1>1, <1>4 DEF AsmType
  <2>2. GeneralReg(dst) /\ (Slot(src) \/ GeneralReg(src) \/ isImmediate(src))
    BY <1>4 DEF Source, Destination
  <2>3. Assembles(line)
    BY <1>1, <2>1, <2>2 DEF Assembles, Alu, Shifts, VectorOp, InGeneral, IsReg, IsMem, IsImm, ImmOK,
       GeneralOrMem, isImmediate, isLargeImmediate, Slot, GeneralReg
  <2> QED BY <1>2, <2>3 DEF Fine, line
<1> QED BY <1>3, <1>4

LEMMA FineUnary ==
  ASSUME NEW t \in {"longword", "quadword"}, NEW o, Slot(o),
         NEW type \in {"neg", "not", "inc", "dec"}
  PROVE  Fine([op |-> "unary", t |-> t, args |-> <<o>>, type |-> type])
<1> DEFINE line == printInstructionsToASMFile([op |-> "unary", t |-> t, args |-> <<o>>, type |-> type])
<1>1. line.args = <<o>> /\ line.mn = type /\ line.sz \in {"l", "q"}
  BY DEF printInstructionsToASMFile, Line, turnASMTypeToAsm
<1> HIDE DEF line
<1>2. Assembles(line)
  BY <1>1 DEF Assembles, Alu, Shifts, VectorOp, IsMem, GeneralOrMem, Slot
<1>3. Quiet(line)
  BY <1>1 DEF Quiet, IsReg, Slot
<1> QED BY <1>2, <1>3 DEF Fine, line

\* The conversions end in registers.
LEMMA FineConversion ==
  ASSUME NEW src, NEW dst, NEW t \in {"longword", "quadword"}
  PROVE  /\ (Slot(src) \/ GeneralReg(src)) /\ GeneralReg(dst) /\ FreeReg(dst) =>
              Fine(createASMMovsxInstruction(src, dst))
         /\ (Slot(src) \/ GeneralReg(src)) /\ VectorReg(dst) =>
              Fine(createCvtsi2sdInstruction(t, src, dst))
         /\ (Slot(src) \/ VectorReg(src)) /\ GeneralReg(dst) /\ FreeReg(dst) =>
              Fine(createCvttsd2siInstruction(t, src, dst))
         /\ IsMem(src) /\ GeneralReg(dst) /\ FreeReg(dst) => Fine(createLeaInstruction(src, dst))
<1> USE DEF Line, printInstructionsToASMFile, Quiet, IsReg, Slot, FreeReg, VectorReg, GeneralReg, Free,
            Assembles, Alu, Shifts, VectorOp, InGeneral, InVector, GeneralOrMem, IsMem, Fine
<1>1. (Slot(src) \/ GeneralReg(src)) /\ GeneralReg(dst) /\ FreeReg(dst) =>
         Fine(createASMMovsxInstruction(src, dst))
  BY DEF createASMMovsxInstruction
<1>2. (Slot(src) \/ GeneralReg(src)) /\ VectorReg(dst) => Fine(createCvtsi2sdInstruction(t, src, dst))
  BY DEF createCvtsi2sdInstruction
<1>3. (Slot(src) \/ VectorReg(src)) /\ GeneralReg(dst) /\ FreeReg(dst) =>
         Fine(createCvttsd2siInstruction(t, src, dst))
  BY DEF createCvttsd2siInstruction
<1>4. IsMem(src) /\ GeneralReg(dst) /\ FreeReg(dst) => Fine(createLeaInstruction(src, dst))
  BY DEF createLeaInstruction
<1> QED BY <1>1, <1>2, <1>3, <1>4

LEMMA FineDivision ==
  ASSUME NEW t \in {"longword", "quadword"}, NEW o, GeneralReg(o), FreeReg(o)
  PROVE  /\ Fine(createIdivInstruction(o, t)) /\ Fine(createDivInstruction(o, t))
         /\ Fine(createASMCDQInstruction(t))
<1> USE DEF Line, printInstructionsToASMFile, Quiet, IsReg, FreeReg, GeneralReg, Free,
            Assembles, Alu, Shifts, VectorOp, InGeneral, GeneralOrMem, Fine, turnASMTypeToAsm
<1>1. Fine(createIdivInstruction(o, t))
  BY DEF createIdivInstruction
<1>2. Fine(createDivInstruction(o, t))
  BY DEF createDivInstruction
<1>3. Fine(createASMCDQInstruction(t))
  BY DEF createASMCDQInstruction
<1> QED BY <1>1, <1>2, <1>3

LEMMA FineControl ==
  ASSUME NEW cond, NEW label, NEW o
  PROVE  /\ Slot(o) => Fine(createASMSetCCInstruction(cond, o))
         /\ Fine(createASMJumpInstruction(label)) /\ Fine(createASMJumpCCInstruction(cond, label))
         /\ Fine(createASMLabelInstruction(label))
<1> USE DEF Line, printInstructionsToASMFile, Quiet, IsReg, Slot,
            Assembles, Alu, Shifts, VectorOp, IsMem, GeneralOrMem, Fine
<1>1. Slot(o) => Fine(createASMSetCCInstruction(cond, o))
  BY DEF createASMSetCCInstruction
<1>2. Fine(createASMJumpInstruction(label))
  BY DEF createASMJumpInstruction
<1>3. Fine(createASMJumpCCInstruction(cond, label))
  BY DEF createASMJumpCCInstruction
<1>4. Fine(createASMLabelInstruction(label))
  BY DEF createASMLabelInstruction
<1> QED BY <1>1, <1>2, <1>3, <1>4


(***************************************************************************)
(* Lists of fine lines.                                                    *)
(***************************************************************************)
Sound(lines) == \E S : lines \in Seq(S) /\ \A x \in S : Fine(x)

LEMMA SoundTuples ==
  ASSUME NEW a, NEW b, NEW c
  PROVE  /\ Sound(<<>>)
         /\ Fine(a) => Sound(<<a>>)
         /\ Fine(a) /\ Fine(b) => Sound(<<a, b>>)
         /\ Fine(a) /\ Fine(b) /\ Fine(c) => Sound(<<a, b, c>>)
<1>1. Sound(<<>>)
  <2>1. PICK S : S = {}
    OBVIOUS
  <2>2. <<>> \in Seq(S) /\ \A x \in S : Fine(x)
    BY <2>1
  <2> QED BY <2>2 DEF Sound
<1>2. ASSUME Fine(a) PROVE Sound(<<a>>)
  <2>1. PICK S : S = {a}
    OBVIOUS
  <2>2. <<a>> \in Seq(S) /\ \A x \in S : Fine(x)
    BY <1>2, <2>1
  <2> QED BY <2>2 DEF Sound
<1>3. ASSUME Fine(a), Fine(b) PROVE Sound(<<a, b>>)
  <2>1. PICK S : S = {a, b}
    OBVIOUS
  <2>2. <<a, b>> \in Seq(S) /\ \A x \in S : Fine(x)
    BY <1>3, <2>1
  <2> QED BY <2>2 DEF Sound
<1>4. ASSUME Fine(a), Fine(b), Fine(c) PROVE Sound(<<a, b, c>>)
  <2>1. PICK S : S = {a, b, c}
    OBVIOUS
  <2>2. <<a, b, c>> \in Seq(S) /\ \A x \in S : Fine(x)
    BY <1>4, <2>1
  <2> QED BY <2>2 DEF Sound
<1> QED BY <1>1, <1>2, <1>3, <1>4

LEMMA SoundConcat ==
  ASSUME NEW s, NEW t, Sound(s), Sound(t)
  PROVE  Sound(s \o t)
<1>1. PICK S : s \in Seq(S) /\ \A x \in S : Fine(x)
  BY DEF Sound
<1>2. PICK S2 : t \in Seq(S2) /\ \A x \in S2 : Fine(x)
  BY DEF Sound
<1>3. PICK U : U = S \cup S2
  OBVIOUS
<1>4. s \in Seq(U) /\ t \in Seq(U)
  <2>1. S \subseteq U /\ S2 \subseteq U
    BY <1>3
  <2> QED BY <1>1, <1>2, <2>1
<1>5. s \o t \in Seq(U)
  BY <1>4, ConcatProperties
<1>6. \A x \in U : Fine(x)
  BY <1>1, <1>2, <1>3
<1> QED BY <1>5, <1>6 DEF Sound

(***************************************************************************)
(* The fix-up of an instruction whose names have their places.             *)
(***************************************************************************)
R(o) == resolvePseudo(o)

LEMMA FixedMov ==
  ASSUME NEW t, NEW a, NEW b
  PROVE  Fixed(createMovInstruction(t, a, b)) = fixMov(createMovInstruction(t, R(a), R(b)))
<1>1. InPlace(createMovInstruction(t, a, b)) = createMovInstruction(t, R(a), R(b))
  BY DEF InPlace, R, createMovInstruction
<1> QED BY <1>1 DEF Fixed, createMovInstruction

LEMMA FixedBinary ==
  ASSUME NEW type, NEW t, NEW a, NEW b
  PROVE  Fixed(createASMBinaryInstruction(type, t, a, b))
        = fixBinary(createASMBinaryInstruction(type, t, R(a), R(b)))
<1>1. InPlace(createASMBinaryInstruction(type, t, a, b)) = createASMBinaryInstruction(type, t, R(a), R(b))
  BY DEF InPlace, R, createASMBinaryInstruction
<1> QED BY <1>1 DEF Fixed, createASMBinaryInstruction

LEMMA FixedCmp ==
  ASSUME NEW t, NEW a, NEW b
  PROVE  Fixed(createASMCmpInstruction(t, a, b)) = fixCmp(createASMCmpInstruction(t, R(a), R(b)))
<1>1. InPlace(createASMCmpInstruction(t, a, b)) = createASMCmpInstruction(t, R(a), R(b))
  BY DEF InPlace, R, createASMCmpInstruction
<1> QED BY <1>1 DEF Fixed, createASMCmpInstruction

LEMMA FixedMovsx ==
  ASSUME NEW a, NEW b
  PROVE  Fixed(createASMMovsxInstruction(a, b)) = fixMovsx(createASMMovsxInstruction(R(a), R(b)))
<1>1. InPlace(createASMMovsxInstruction(a, b)) = createASMMovsxInstruction(R(a), R(b))
  BY DEF InPlace, R, createASMMovsxInstruction
<1> QED BY <1>1 DEF Fixed, createASMMovsxInstruction

LEMMA FixedMovzx ==
  ASSUME NEW a, NEW b
  PROVE  Fixed(createASMMovZeroExtendInstruction(a, b))
        = fixMovZeroExtend(createASMMovZeroExtendInstruction(R(a), R(b)))
<1>1. InPlace(createASMMovZeroExtendInstruction(a, b)) = createASMMovZeroExtendInstruction(R(a), R(b))
  BY DEF InPlace, R, createASMMovZeroExtendInstruction
<1> QED BY <1>1 DEF Fixed, createASMMovZeroExtendInstruction

LEMMA FixedCvtsi2sd ==
  ASSUME NEW t, NEW a, NEW b
  PROVE  Fixed(createCvtsi2sdInstruction(t, a, b))
        = fixCVTSI2SD(createCvtsi2sdInstruction(t, R(a), R(b)))
<1>1. InPlace(createCvtsi2sdInstruction(t, a, b)) = createCvtsi2sdInstruction(t, R(a), R(b))
  BY DEF InPlace, R, createCvtsi2sdInstruction
<1> QED BY <1>1 DEF Fixed, createCvtsi2sdInstruction

LEMMA FixedCvttsd2si ==
  ASSUME NEW t, NEW a, NEW b
  PROVE  Fixed(createCvttsd2siInstruction(t, a, b))
        = fixCVTTSD2SI(createCvttsd2siInstruction(t, R(a), R(b)))
<1>1. InPlace(createCvttsd2siInstruction(t, a, b)) = createCvttsd2siInstruction(t, R(a), R(b))
  BY DEF InPlace, R, createCvttsd2siInstruction
<1> QED BY <1>1 DEF Fixed, createCvttsd2siInstruction

LEMMA FixedLea ==
  ASSUME NEW a, NEW b
  PROVE  Fixed(createLeaInstruction(a, b)) = fixLea(createLeaInstruction(R(a), R(b)))
<1>1. InPlace(createLeaInstruction(a, b)) = createLeaInstruction(R(a), R(b))
  BY DEF InPlace, R, createLeaInstruction
<1> QED BY <1>1 DEF Fixed, createLeaInstruction

LEMMA FixedIdiv ==
  ASSUME NEW t, NEW a
  PROVE  Fixed(createIdivInstruction(a, t)) = fixIdiv(createIdivInstruction(R(a), t))
<1>1. InPlace(createIdivInstruction(a, t)) = createIdivInstruction(R(a), t)
  BY DEF InPlace, R, createIdivInstruction
<1> QED BY <1>1 DEF Fixed, createIdivInstruction

LEMMA FixedDiv ==
  ASSUME NEW t, NEW a
  PROVE  Fixed(createDivInstruction(a, t)) = fixDiv(createDivInstruction(R(a), t))
<1>1. InPlace(createDivInstruction(a, t)) = createDivInstruction(R(a), t)
  BY DEF InPlace, R, createDivInstruction
<1> QED BY <1>1 DEF Fixed, createDivInstruction

LEMMA FixedCdq ==
  ASSUME NEW t
  PROVE  Fixed(createASMCDQInstruction(t)) = <<createASMCDQInstruction(t)>>
<1>1. InPlace(createASMCDQInstruction(t)) = createASMCDQInstruction(t)
  BY DEF InPlace, R, createASMCDQInstruction
<1> QED BY <1>1 DEF Fixed, createASMCDQInstruction

LEMMA FixedUnary ==
  ASSUME NEW type, NEW t, NEW a
  PROVE  Fixed([op |-> "unary", t |-> t, args |-> <<a>>, type |-> type])
        = <<[op |-> "unary", t |-> t, args |-> <<R(a)>>, type |-> type]>>
<1>1. InPlace([op |-> "unary", t |-> t, args |-> <<a>>, type |-> type]) = [op |-> "unary", t |-> t, args |-> <<R(a)>>, type |-> type]
  BY DEF InPlace, R
<1> QED BY <1>1 DEF Fixed

LEMMA FixedSetcc ==
  ASSUME NEW t, NEW a
  PROVE  Fixed(createASMSetCCInstruction(t, a)) = <<createASMSetCCInstruction(t, R(a))>>
<1>1. InPlace(createASMSetCCInstruction(t, a)) = createASMSetCCInstruction(t, R(a))
  BY DEF InPlace, R, createASMSetCCInstruction
<1> QED BY <1>1 DEF Fixed, createASMSetCCInstruction

LEMMA FixedJump ==
  ASSUME NEW t
  PROVE  Fixed(createASMJumpInstruction(t)) = <<createASMJumpInstruction(t)>>
<1>1. InPlace(createASMJumpInstruction(t)) = createASMJumpInstruction(t)
  BY DEF InPlace, R, createASMJumpInstruction
<1> QED BY <1>1 DEF Fixed, createASMJumpInstruction

LEMMA FixedJumpcc ==
  ASSUME NEW type, NEW t
  PROVE  Fixed(createASMJumpCCInstruction(t, type)) = <<createASMJumpCCInstruction(t, type)>>
<1>1. InPlace(createASMJumpCCInstruction(t, type)) = createASMJumpCCInstruction(t, type)
  BY DEF InPlace, R, createASMJumpCCInstruction
<1> QED BY <1>1 DEF Fixed, createASMJumpCCInstruction

LEMMA FixedLabel ==
  ASSUME NEW t
  PROVE  Fixed(createASMLabelInstruction(t)) = <<createASMLabelInstruction(t)>>
<1>1. InPlace(createASMLabelInstruction(t)) = createASMLabelInstruction(t)
  BY DEF InPlace, R, createASMLabelInstruction
<1> QED BY <1>1 DEF Fixed, createASMLabelInstruction

\* The scratch registers are for both kinds of operands.
LEMMA Scratch ==
  ASSUME NEW t \in AsmType
  PROVE  /\ Source(t, scratchReg1(t)) /\ Destination(t, scratchReg1(t)) /\ isRegister(scratchReg1(t))
         /\ Source(t, scratchReg2(t)) /\ Destination(t, scratchReg2(t)) /\ isRegister(scratchReg2(t))
         /\ t # "double" => scratchReg1(t) = Reg("R10") /\ scratchReg2(t) = Reg("R11")
BY DEF AsmType, Source, Destination, scratchReg1, scratchReg2, Reg, createRegisterOperand, isRegister,
   GeneralReg, VectorReg, FreeReg, Free, General, Vector

LEMMA FixMov ==
  ASSUME NEW t \in AsmType, NEW src, NEW dst, Source(t, src), Destination(t, dst)
  PROVE  Sound(fixMov(createMovInstruction(t, src, dst)))
<1> DEFINE through == \/ isBothMemoryOps(src, dst)
                      \/ t = "quadword" /\ isLargeImmediate(src) /\ ~isRegister(dst)
           s == scratchReg1(t)
<1>1. fixMov(createMovInstruction(t, src, dst))
        = IF through THEN <<createMovInstruction(t, src, s), createMovInstruction(t, s, dst)>>
          ELSE <<createMovInstruction(t, src, dst)>>
  BY DEF fixMov, createMovInstruction
<1>2. Source(t, s) /\ Destination(t, s) /\ isRegister(s)
  BY Scratch
<1>3. ~isMemoryOp(s) /\ ~isLargeImmediate(s)
  BY <1>2 DEF isRegister, isMemoryOp, isLargeImmediate, isImmediate
<1>4. CASE through
  <2>1. Fine(createMovInstruction(t, src, s))
    BY <1>2, <1>3, FineMov DEF isBothMemoryOps
  <2>2. Fine(createMovInstruction(t, s, dst))
    BY <1>2, <1>3, FineMov DEF isBothMemoryOps
  <2> QED BY <1>1, <1>4, <2>1, <2>2, SoundTuples
<1>5. CASE ~through
  <2>1. Fine(createMovInstruction(t, src, dst))
    BY <1>5, FineMov
  <2> QED BY <1>1, <1>5, <2>1, SoundTuples
<1> QED BY <1>4, <1>5

\* A constant moved into a register, if the operand is one.
LEMMA LoadedFirst ==
  ASSUME NEW t \in {"longword", "quadword"}, NEW src, Slot(src) \/ isImmediate(src) \/ GeneralReg(src)
  PROVE  Sound(IF isImmediate(src) THEN <<createMovInstruction(t, src, Reg("R10"))>> ELSE <<>>)
<1>1. Source(t, src) /\ Destination(t, Reg("R10")) /\ t \in AsmType
  BY DEF Source, Destination, Slot, GeneralReg, isImmediate, FreeReg, Reg, createRegisterOperand,
     General, Free, AsmType
<1>2. ~isMemoryOp(Reg("R10")) /\ isRegister(Reg("R10"))
  BY DEF isMemoryOp, isRegister, Reg, createRegisterOperand
<1>3. Fine(createMovInstruction(t, src, Reg("R10")))
  BY <1>1, <1>2, FineMov DEF isBothMemoryOps
<1> QED BY <1>3, SoundTuples

\* What a register holds moved to where it belongs.
LEMMA StoredLast ==
  ASSUME NEW t \in AsmType, NEW reg, NEW dst, GeneralReg(reg) \/ VectorReg(reg),
         Source(t, reg), Destination(t, dst)
  PROVE  Fine(createMovInstruction(t, reg, dst))
<1>1. ~isMemoryOp(reg) /\ ~isLargeImmediate(reg)
  BY DEF isMemoryOp, isLargeImmediate, isImmediate, GeneralReg, VectorReg
<1> QED BY <1>1, FineMov DEF isBothMemoryOps

LEMMA FixMovsx ==
  ASSUME NEW src, NEW dst, Slot(src) \/ isImmediate(src), Slot(dst)
  PROVE  Sound(fixMovsx(createASMMovsxInstruction(src, dst)))
<1> DEFINE from == IF isImmediate(src) THEN Reg("R10") ELSE src
           to == Reg("R11")
           first == IF isImmediate(src) THEN <<createMovInstruction("longword", src, Reg("R10"))>> ELSE <<>>
           then == <<createASMMovsxInstruction(from, to)>>
           last == <<createMovInstruction("quadword", to, dst)>>
<1>1. isMemoryOp(dst)
  BY DEF Slot, isMemoryOp
<1>2. fixMovsx(createASMMovsxInstruction(src, dst)) = first \o then \o last
  BY <1>1 DEF fixMovsx, createASMMovsxInstruction
<1>3. Sound(first)
  BY LoadedFirst
<1>4. (Slot(from) \/ GeneralReg(from)) /\ GeneralReg(to) /\ FreeReg(to)
  BY DEF Slot, GeneralReg, FreeReg, Reg, createRegisterOperand, General, Free
<1>5. Sound(then)
  BY <1>4, FineConversion, SoundTuples
<1>6. Sound(last)
  <2>1. Source("quadword", to) /\ Destination("quadword", dst)
    BY <1>4 DEF Source, Destination
  <2>2. Fine(createMovInstruction("quadword", to, dst))
    BY <1>4, <2>1, StoredLast DEF AsmType
  <2> QED BY <2>2, SoundTuples
<1> HIDE DEF first, then, last
<1> QED BY <1>2, <1>3, <1>5, <1>6, SoundConcat

LEMMA FixMovZeroExtend ==
  ASSUME NEW src, NEW dst, Slot(src) \/ isImmediate(src), Slot(dst) \/ (GeneralReg(dst) /\ FreeReg(dst))
  PROVE  Sound(fixMovZeroExtend(createASMMovZeroExtendInstruction(src, dst)))
<1>1. fixMovZeroExtend(createASMMovZeroExtendInstruction(src, dst))
        = IF isRegister(dst) THEN <<createMovInstruction("longword", src, dst)>>
          ELSE <<createMovInstruction("longword", src, Reg("R11")),
                 createMovInstruction("quadword", Reg("R11"), dst)>>
  BY DEF fixMovZeroExtend, createASMMovZeroExtendInstruction
<1>2. /\ Source("longword", src) /\ {"longword", "quadword"} \subseteq AsmType
      /\ GeneralReg(Reg("R11")) /\ FreeReg(Reg("R11")) /\ isRegister(Reg("R11"))
      /\ ~isMemoryOp(Reg("R11"))
      /\ Destination("longword", dst) /\ Destination("quadword", dst)
  BY DEF Source, Destination, AsmType, GeneralReg, FreeReg, isRegister, isMemoryOp, Reg,
     createRegisterOperand, General, Free
<1>3. CASE isRegister(dst)
  <2>1. ~isMemoryOp(dst)
    BY <1>3 DEF isRegister, isMemoryOp
  <2>2. Fine(createMovInstruction("longword", src, dst))
    BY <1>2, <2>1, FineMov DEF isBothMemoryOps
  <2> QED BY <1>1, <1>3, <2>2, SoundTuples
<1>4. CASE ~isRegister(dst)
  <2>1. /\ Destination("longword", Reg("R11")) /\ Source("quadword", Reg("R11"))
    BY <1>2 DEF Source, Destination
  <2>2. Fine(createMovInstruction("longword", src, Reg("R11")))
    BY <1>2, <2>1, FineMov DEF isBothMemoryOps
  <2>3. Fine(createMovInstruction("quadword", Reg("R11"), dst))
    BY <1>2, <2>1, StoredLast
  <2> QED BY <1>1, <1>4, <2>2, <2>3, SoundTuples
<1> QED BY <1>3, <1>4

LEMMA FixCvttsd2si ==
  ASSUME NEW t \in {"longword", "quadword"}, NEW src, NEW dst, Slot(src) \/ VectorReg(src),
         Slot(dst) \/ (GeneralReg(dst) /\ FreeReg(dst))
  PROVE  Sound(fixCVTTSD2SI(createCvttsd2siInstruction(t, src, dst)))
<1>1. fixCVTTSD2SI(createCvttsd2siInstruction(t, src, dst))
        = IF isRegister(dst) THEN <<createCvttsd2siInstruction(t, src, dst)>>
          ELSE <<createCvttsd2siInstruction(t, src, Reg("R11")), createMovInstruction(t, Reg("R11"), dst)>>
  BY DEF fixCVTTSD2SI, createCvttsd2siInstruction
<1>2. /\ GeneralReg(Reg("R11")) /\ FreeReg(Reg("R11")) /\ t \in AsmType
      /\ Source(t, Reg("R11")) /\ Destination(t, dst)
      /\ isRegister(dst) => GeneralReg(dst) /\ FreeReg(dst)
  BY DEF Source, Destination, AsmType, GeneralReg, FreeReg, isRegister, Reg, Slot,
     createRegisterOperand, General, Free
<1>3. Fine(createMovInstruction(t, Reg("R11"), dst))
  BY <1>2, StoredLast
<1>4. Fine(createCvttsd2siInstruction(t, src, Reg("R11")))
  BY <1>2, FineConversion
<1>5. isRegister(dst) => Fine(createCvttsd2siInstruction(t, src, dst))
  BY <1>2, FineConversion
<1> QED BY <1>1, <1>3, <1>4, <1>5, SoundTuples

LEMMA FixCvtsi2sd ==
  ASSUME NEW t \in {"longword", "quadword"}, NEW src, NEW dst,
         Slot(src) \/ isImmediate(src) \/ GeneralReg(src), Slot(dst)
  PROVE  Sound(fixCVTSI2SD(createCvtsi2sdInstruction(t, src, dst)))
<1> DEFINE from == IF isImmediate(src) THEN Reg("R10") ELSE src
           to == Reg("XMM15")
           first == IF isImmediate(src) THEN <<createMovInstruction(t, src, Reg("R10"))>> ELSE <<>>
           then == <<createCvtsi2sdInstruction(t, from, to)>>
           last == <<createMovInstruction("double", to, dst)>>
<1>1. ~isRegister(dst)
  BY DEF Slot, isRegister
<1>2. fixCVTSI2SD(createCvtsi2sdInstruction(t, src, dst)) = first \o then \o last
  BY <1>1 DEF fixCVTSI2SD, createCvtsi2sdInstruction
<1>3. Sound(first)
  BY LoadedFirst
<1>4. (Slot(from) \/ GeneralReg(from)) /\ VectorReg(to)
  BY DEF Slot, GeneralReg, VectorReg, Vector, Reg, createRegisterOperand, General
<1>5. Sound(then)
  BY <1>4, FineConversion, SoundTuples
<1>6. Sound(last)
  <2>1. Source("double", to) /\ Destination("double", dst)
    BY <1>4 DEF Source, Destination
  <2>2. Fine(createMovInstruction("double", to, dst))
    BY <1>4, <2>1, StoredLast DEF AsmType
  <2> QED BY <2>2, SoundTuples
<1> HIDE DEF first, then, last
<1> QED BY <1>2, <1>3, <1>5, <1>6, SoundConcat

LEMMA FixLea ==
  ASSUME NEW src, NEW dst, IsMem(src), Slot(dst)
  PROVE  Sound(fixLea(createLeaInstruction(src, dst)))
<1>1. fixLea(createLeaInstruction(src, dst))
        = <<createLeaInstruction(src, Reg("R11")), createMovInstruction("quadword", Reg("R11"), dst)>>
  BY DEF fixLea, createLeaInstruction, Slot, isRegister
<1>2. /\ GeneralReg(Reg("R11")) /\ FreeReg(Reg("R11")) /\ "quadword" \in AsmType
      /\ Source("quadword", Reg("R11")) /\ Destination("quadword", dst)
  BY DEF Source, Destination, AsmType, GeneralReg, FreeReg, Reg, createRegisterOperand, General, Free
<1>3. Fine(createMovInstruction("quadword", Reg("R11"), dst))
  BY <1>2, StoredLast
<1>4. Fine(createLeaInstruction(src, Reg("R11")))
  BY <1>2, FineConversion
<1> QED BY <1>1, <1>3, <1>4, SoundTuples

LEMMA FixDivisions ==
  ASSUME NEW t \in {"longword", "quadword"}, NEW o, Slot(o) \/ isImmediate(o)
  PROVE  Sound(fixIdiv(createIdivInstruction(o, t))) /\ Sound(fixDiv(createDivInstruction(o, t)))
<1> DEFINE r == Reg("R10")
<1>1. ~isRegister(o)
  BY DEF Slot, isImmediate, isRegister
<1>2. /\ GeneralReg(r) /\ FreeReg(r) /\ t \in AsmType /\ isRegister(r) /\ ~isMemoryOp(r)
      /\ Source(t, o) /\ Destination(t, r)
  BY DEF Source, Destination, AsmType, GeneralReg, FreeReg, Reg, createRegisterOperand, General, Free,
     isRegister, isMemoryOp
<1>3. Fine(createMovInstruction(t, o, r))
  BY <1>2, FineMov DEF isBothMemoryOps
<1>4. Fine(createIdivInstruction(r, t)) /\ Fine(createDivInstruction(r, t))
  BY <1>2, FineDivision
<1>5. fixIdiv(createIdivInstruction(o, t)) = <<createMovInstruction(t, o, r), createIdivInstruction(r, t)>>
  BY <1>1 DEF fixIdiv, createIdivInstruction
<1>6. fixDiv(createDivInstruction(o, t)) = <<createMovInstruction(t, o, r), createDivInstruction(r, t)>>
  BY <1>1 DEF fixDiv, createDivInstruction
<1> QED BY <1>3, <1>4, <1>5, <1>6, SoundTuples

\* The first operand becomes one that any second operand goes with.
LEMMA FirstOperandFits ==
  ASSUME NEW t \in AsmType, NEW o1, NEW o2, Source(t, o1)
  PROVE  LET f == FirstOperand(t, o1, o2) IN
         /\ Sound(f.moves) /\ Source(t, f.op1)
         /\ ~isBothMemoryOps(f.op1, o2) /\ ~(t = "quadword" /\ isLargeImmediate(f.op1))
         /\ f.op1 = o1 \/ f.op1 = scratchReg1(t)
<1> DEFINE f == FirstOperand(t, o1, o2)
           s == scratchReg1(t)
<1>1. Source(t, s) /\ Destination(t, s) /\ isRegister(s) /\ (t = "quadword" => s = Reg("R10"))
  BY Scratch DEF AsmType
<1>2. ~isMemoryOp(s) /\ ~isLargeImmediate(s)
  BY <1>1 DEF isRegister, isMemoryOp, isLargeImmediate, isImmediate
<1>3. Fine(createMovInstruction(t, o1, s))
  BY <1>1, <1>2, FineMov DEF isBothMemoryOps
<1>4. \/ f.op1 = s /\ f.moves = <<createMovInstruction(t, o1, s)>>
      \/ /\ f.op1 = o1 /\ f.moves = <<>> /\ ~isBothMemoryOps(o1, o2)
         /\ ~(t = "quadword" /\ isLargeImmediate(o1))
  BY <1>1 DEF FirstOperand
<1> QED BY <1>1, <1>2, <1>3, <1>4, SoundTuples DEF isBothMemoryOps

LEMMA FixCmp ==
  ASSUME NEW t \in AsmType, NEW o1, NEW o2, Source(t, o1), Source(t, o2),
         isRegister(o2) => Destination(t, o2)
  PROVE  Sound(fixCmp(createASMCmpInstruction(t, o1, o2)))
<1> DEFINE first == FirstOperand(t, o1, o2)
           s == scratchReg2(t)
           second == IF isRegister(o2) THEN o2 ELSE s
           moved == IF isRegister(o2) THEN <<>> ELSE <<createMovInstruction(t, o2, s)>>
           last == <<createASMCmpInstruction(t, first.op1, second)>>
<1>1. fixCmp(createASMCmpInstruction(t, o1, o2)) = first.moves \o moved \o last
  BY DEF fixCmp, createASMCmpInstruction
<1>2. Source(t, s) /\ Destination(t, s) /\ isRegister(s)
  BY Scratch
<1>3. ~isMemoryOp(s)
  BY <1>2 DEF isRegister, isMemoryOp
<1>4. Sound(moved)
  <2>1. Fine(createMovInstruction(t, o2, s))
    BY <1>2, <1>3, FineMov DEF isBothMemoryOps
  <2> QED BY <2>1, SoundTuples
<1>5. /\ Sound(first.moves) /\ Source(t, first.op1)
      /\ ~(t = "quadword" /\ isLargeImmediate(first.op1))
  BY FirstOperandFits
<1>6. Destination(t, second) /\ ~Slot(second)
  BY <1>2 DEF isRegister, Slot
<1> HIDE DEF second, first
<1>7. Sound(last)
  BY <1>5, <1>6, FineCmp, SoundTuples
<1> HIDE DEF last, moved
<1> QED BY <1>1, <1>4, <1>5, <1>7, SoundConcat

\* Arithmetic, but for shifts.
IntegerOp == {"add", "subtract", "multiply", "and", "or", "xor"}
DoubleArithmetic == {"add", "subtract", "multiply", "divide double", "xor"}
OpsOf(t) == IF t = "double" THEN DoubleArithmetic ELSE IntegerOp

LEMMA FineArithmetic ==
  ASSUME NEW t \in AsmType, NEW type \in OpsOf(t),
         NEW src, NEW dst, Source(t, src), Destination(t, dst), ~isBothMemoryOps(src, dst),
         ~(t = "quadword" /\ isLargeImmediate(src)),
         type = "multiply" \/ t = "double" => ~isMemoryOp(dst)
  PROVE  Fine(createASMBinaryInstruction(type, t, src, dst))
<1>1. CASE t = "double"
  <2>1. VectorReg(dst) /\ Source("double", src) /\ type \in DoubleArithmetic
    BY <1>1 DEF Destination, Slot, isMemoryOp, OpsOf
  <2> QED BY <1>1, <2>1, FineDouble DEF DoubleArithmetic
<1>2. CASE t # "double"
  <2>1. t \in {"longword", "quadword"} /\ type \in IntegerOp /\ (type = "multiply" => ~Slot(dst))
    BY <1>2 DEF AsmType, Slot, isMemoryOp, OpsOf
  <2> QED BY <2>1, FineBinary DEF IntegerOp
<1> QED BY <1>1, <1>2

LEMMA FixBinary ==
  ASSUME NEW t \in AsmType, NEW type \in OpsOf(t),
         NEW src, NEW dst, Source(t, src), Destination(t, dst)
  PROVE  Sound(fixBinary(createASMBinaryInstruction(type, t, src, dst)))
<1> DEFINE first == FirstOperand(t, src, dst)
           s == scratchReg2(t)
           op1 == first.op1
           inRegister == (type = "multiply" \/ t = "double") /\ isMemoryOp(dst)
           last == IF inRegister
                   THEN <<createMovInstruction(t, dst, s), createASMBinaryInstruction(type, t, op1, s),
                          createMovInstruction(t, s, dst)>>
                   ELSE <<createASMBinaryInstruction(type, t, op1, dst)>>
<1>1. type \notin {"shift left", "shift right"}
  BY DEF DoubleArithmetic, IntegerOp, OpsOf
<1>2. fixBinary(createASMBinaryInstruction(type, t, src, dst)) = first.moves \o last
  BY <1>1 DEF fixBinary, createASMBinaryInstruction
<1>3. /\ Sound(first.moves) /\ Source(t, op1) /\ ~isBothMemoryOps(op1, dst)
      /\ ~(t = "quadword" /\ isLargeImmediate(op1))
  BY FirstOperandFits
<1>4. Source(t, s) /\ Destination(t, s) /\ isRegister(s)
  BY Scratch
<1>5. ~isMemoryOp(s) /\ ~isLargeImmediate(s)
  BY <1>4 DEF isRegister, isMemoryOp, isLargeImmediate, isImmediate
<1> HIDE DEF first, s
<1>6. Sound(last)
  <2>1. CASE inRegister
    <3>1. Source(t, dst)
      BY <2>1 DEF Source, Slot, isMemoryOp
    <3>2. Fine(createMovInstruction(t, dst, s))
      BY <3>1, <1>4, <1>5, FineMov DEF isBothMemoryOps
    <3>3. Fine(createMovInstruction(t, s, dst))
      BY <1>4, <1>5, FineMov DEF isBothMemoryOps
    <3>4. Fine(createASMBinaryInstruction(type, t, op1, s))
      <4>1. ~isBothMemoryOps(op1, s)
        BY <1>5 DEF isBothMemoryOps
      <4> QED BY <1>3, <1>4, <1>5, <4>1, FineArithmetic
    <3> QED BY <2>1, <3>2, <3>3, <3>4, SoundTuples
  <2>2. CASE ~inRegister
    <3>1. Fine(createASMBinaryInstruction(type, t, op1, dst))
      BY <2>2, <1>3, FineArithmetic
    <3> QED BY <2>2, <3>1, SoundTuples
  <2> QED BY <2>1, <2>2
<1> HIDE DEF last
<1> QED BY <1>2, <1>3, <1>6, SoundConcat

LEMMA JoinFour ==
  ASSUME NEW a, NEW b, NEW c, NEW d
  PROVE  <<a, b>> \o <<c>> \o <<d>> = <<a, b, c, d>>
<1>1. PICK S : S = {a, b, c, d}
  OBVIOUS
<1>2. PICK s, t, u, all : s = <<a, b>> /\ t = <<c>> /\ u = <<d>> /\ all = <<a, b, c, d>>
  OBVIOUS
<1>3. s \in Seq(S) /\ t \in Seq(S) /\ u \in Seq(S) /\ all \in Seq(S)
  BY <1>1, <1>2
<1>4. /\ Len(s) = 2 /\ Len(t) = 1 /\ Len(u) = 1 /\ Len(all) = 4
      /\ all[1] = s[1] /\ all[2] = s[2] /\ all[3] = t[1] /\ all[4] = u[1]
  BY <1>2
<1>5. PICK st : st = s \o t
  OBVIOUS
<1>6. st \in Seq(S) /\ Len(st) = 3 /\ \A i \in 1 .. 3 : st[i] = all[i]
  <2>1. /\ st \in Seq(S) /\ Len(st) = 3
        /\ \A i \in 1 .. 3 : st[i] = IF i <= 2 THEN s[i] ELSE t[i - 2]
    <3>1. /\ st \in Seq(S) /\ Len(st) = Len(s) + Len(t)
          /\ \A i \in 1 .. Len(s) + Len(t) : st[i] = IF i <= Len(s) THEN s[i] ELSE t[i - Len(s)]
      BY <1>3, <1>5, ConcatProperties
    <3> QED BY <1>4, <3>1
  <2> QED BY <1>4, <2>1
<1>7. st \o u \in Seq(S) /\ Len(st \o u) = 4 /\ \A i \in 1 .. 4 : (st \o u)[i] = all[i]
  <2>1. PICK w : w = st \o u
    OBVIOUS
  <2>2. /\ w \in Seq(S) /\ Len(w) = 4
        /\ \A i \in 1 .. 4 : w[i] = IF i <= 3 THEN st[i] ELSE u[i - 3]
    <3>1. /\ w \in Seq(S) /\ Len(w) = Len(st) + Len(u)
          /\ \A i \in 1 .. Len(st) + Len(u) : w[i] = IF i <= Len(st) THEN st[i] ELSE u[i - Len(st)]
      BY <1>3, <1>6, <2>1, ConcatProperties
    <3> QED BY <1>4, <1>6, <3>1
  <2>3. \A i \in 1 .. 4 : w[i] = all[i]
    BY <1>4, <1>6, <2>2
  <2> QED BY <2>1, <2>2, <2>3
<1>8. st \o u = all
  BY <1>3, <1>4, <1>7, SeqEqual
<1> QED BY <1>2, <1>5, <1>8

\* A left shift is of integers.
ShiftOf(t, type) ==
  type \in {"shift left", "shift right"} /\ (t = "double" => type = "shift right")

\* A shift by a constant is left as it is; one by anything else borrows CX.
LEMMA FixShift ==
  ASSUME NEW t \in AsmType, NEW type, ShiftOf(t, type),
         NEW count, NEW dst, Slot(dst) \/ (GeneralReg(dst) /\ FreeReg(dst))
  PROVE  /\ isImmediate(count) =>
              Sound(fixBinary(createASMBinaryInstruction(type, t, count, dst)))
         /\ Slot(count) =>
              fixBinary(createASMBinaryInstruction(type, t, count, dst))
                = <<createASMPushInstruction(Reg("CX")),
                    createMovInstruction("longword", count, Reg("CX")),
                    createASMBinaryInstruction(type, t, Reg("CX"), dst),
                    createASMPopInstruction(Reg("CX"))>>
<1>1. ~isImmediate(dst)
  BY DEF Slot, GeneralReg, isImmediate
<1> DEFINE whole == createASMBinaryInstruction(type, t, count, dst)
           borrow == <<createASMPushInstruction(Reg("CX")),
                       createMovInstruction("longword", count, Reg("CX")),
                       createASMBinaryInstruction(type, t, Reg("CX"), dst),
                       createASMPopInstruction(Reg("CX"))>>
<1>2. fixBinary(whole) = fixShift(whole)
  BY DEF fixBinary, createASMBinaryInstruction, ShiftOf
<1>3. CASE isImmediate(count)
  <2>1. fixShift(whole) = <<whole>>
    BY <1>1, <1>3 DEF fixShift, createASMBinaryInstruction
  <2>2. Fine(whole)
    BY <1>3, FineShift DEF ShiftOf
  <2>3. ~Slot(count)
    BY <1>3 DEF isImmediate, Slot
  <2> QED BY <1>2, <2>1, <2>2, <2>3, SoundTuples
<1>4. CASE Slot(count)
  <2>1. ~isImmediate(count) /\ count # Reg("CX")
    BY <1>4 DEF Slot, isImmediate, Reg, createRegisterOperand
  <2>2. fixShift(whole) = <<createASMPushInstruction(Reg("CX")),
                            createMovInstruction("longword", count, Reg("CX"))>>
                          \o <<createASMBinaryInstruction(type, t, Reg("CX"), dst)>>
                          \o <<createASMPopInstruction(Reg("CX"))>>
    BY <1>1, <2>1 DEF fixShift, createASMBinaryInstruction
  <2>3. fixShift(whole) = borrow
    BY <2>2, JoinFour
  <2> QED BY <1>2, <2>1, <2>3
<1> QED BY <1>3, <1>4

(***************************************************************************)
(* Instructions as the parsers leave them.                                 *)
(***************************************************************************)
\* The fix-up makes fine lines of it.
Ready(in) == Sound(Fixed(in))

LEMMA Resolved ==
  ASSUME NEW r, NEW n, NEW x, NEW scale, NEW d
  PROVE  /\ R(Reg(r)) = Reg(r) /\ R(Imm(n)) = Imm(n)
         /\ R(createMemoryOperand(Reg(r), n)) = createMemoryOperand(Reg(r), n)
         /\ R(createIndexedMemoryOperand(Reg(r), Reg(x), scale))
              = createIndexedMemoryOperand(Reg(r), Reg(x), scale)
         /\ Slot(createMemoryOperand(Reg(r), n)) /\ isImmediate(Imm(n))
         /\ IsMem(createIndexedMemoryOperand(Reg(r), Reg(x), scale))
         /\ Slot(R(createStaticConstant(d))) /\ Slot(R(createPsuedoMemoryOperand(x, n)))
BY DEF R, resolvePseudo, Reg, Imm, createRegisterOperand, createImmediateOperand, createMemoryOperand,
   createIndexedMemoryOperand, createPsuedoMemoryOperand, createStaticConstant, Data, Slot, IsMem,
   isImmediate

LEMMA FreeRegisters ==
  /\ \A r \in {"AX", "DX", "R10", "R11"} : GeneralReg(Reg(r)) /\ FreeReg(Reg(r)) /\ isRegister(Reg(r))
  /\ \A r \in Vector : VectorReg(Reg(r)) /\ isRegister(Reg(r))
BY DEF GeneralReg, FreeReg, VectorReg, isRegister, Reg, createRegisterOperand, General, Free

LEMMA ReadyMov ==
  ASSUME NEW t \in AsmType, NEW a, NEW b, Source(t, R(a)), Destination(t, R(b))
  PROVE  Ready(createMovInstruction(t, a, b))
BY FixedMov, FixMov DEF Ready

LEMMA ReadyCmp ==
  ASSUME NEW t \in AsmType, NEW a, NEW b, Source(t, R(a)), Source(t, R(b)),
         isRegister(R(b)) => Destination(t, R(b))
  PROVE  Ready(createASMCmpInstruction(t, a, b))
BY FixedCmp, FixCmp DEF Ready

LEMMA ReadyBinary ==
  ASSUME NEW t \in AsmType, NEW type \in OpsOf(t), NEW a, NEW b, Source(t, R(a)), Destination(t, R(b))
  PROVE  Ready(createASMBinaryInstruction(type, t, a, b))
BY FixedBinary, FixBinary DEF Ready

LEMMA ReadyShift ==
  ASSUME NEW t \in AsmType, NEW type, ShiftOf(t, type), NEW a, NEW b, isImmediate(R(a)),
         Slot(R(b)) \/ (GeneralReg(R(b)) /\ FreeReg(R(b)))
  PROVE  Ready(createASMBinaryInstruction(type, t, a, b))
BY FixedBinary, FixShift DEF Ready

LEMMA ReadyConversion ==
  ASSUME NEW t \in {"longword", "quadword"}, NEW a, NEW b
  PROVE  /\ (Slot(R(a)) \/ isImmediate(R(a))) /\ Slot(R(b)) =>
              Ready(createASMMovsxInstruction(a, b))
         /\ (Slot(R(a)) \/ isImmediate(R(a))) /\ (Slot(R(b)) \/ (GeneralReg(R(b)) /\ FreeReg(R(b)))) =>
              Ready(createASMMovZeroExtendInstruction(a, b))
         /\ (Slot(R(a)) \/ isImmediate(R(a)) \/ GeneralReg(R(a))) /\ Slot(R(b)) =>
              Ready(createCvtsi2sdInstruction(t, a, b))
         /\ (Slot(R(a)) \/ VectorReg(R(a))) /\ (Slot(R(b)) \/ (GeneralReg(R(b)) /\ FreeReg(R(b)))) =>
              Ready(createCvttsd2siInstruction(t, a, b))
         /\ IsMem(R(a)) /\ Slot(R(b)) => Ready(createLeaInstruction(a, b))
BY FixedMovsx, FixedMovzx, FixedCvtsi2sd, FixedCvttsd2si, FixedLea, FixMovsx, FixMovZeroExtend, FixCvtsi2sd, FixCvttsd2si, FixLea DEF Ready

LEMMA ReadyDivision ==
  ASSUME NEW t \in {"longword", "quadword"}, NEW o, Slot(R(o)) \/ isImmediate(R(o))
  PROVE  /\ Ready(createIdivInstruction(o, t)) /\ Ready(createDivInstruction(o, t))
         /\ Ready(createASMCDQInstruction(t))
<1>1. Ready(createIdivInstruction(o, t)) /\ Ready(createDivInstruction(o, t))
  BY FixedIdiv, FixedDiv, FixedCdq, FixDivisions DEF Ready
<1>2. Fine(createASMCDQInstruction(t))
  BY FreeRegisters, FineDivision
<1> QED BY <1>1, <1>2, FixedIdiv, FixedDiv, FixedCdq, SoundTuples DEF Ready

LEMMA ReadyUnary ==
  ASSUME NEW t \in {"longword", "quadword"}, NEW o, Slot(R(o)),
         NEW type \in {"neg", "not", "inc", "dec"}
  PROVE  Ready([op |-> "unary", t |-> t, args |-> <<o>>, type |-> type])
<1>1. PICK x : x = [op |-> "unary", t |-> t, args |-> <<R(o)>>, type |-> type]
  OBVIOUS
<1>2. Sound(<<x>>)
  BY <1>1, FineUnary, SoundTuples
<1>3. Fixed([op |-> "unary", t |-> t, args |-> <<o>>, type |-> type]) = <<x>>
  BY <1>1, FixedUnary
<1> QED BY <1>2, <1>3 DEF Ready

LEMMA ReadyControl ==
  ASSUME NEW cond, NEW label, NEW o
  PROVE  /\ Slot(R(o)) => Ready(createASMSetCCInstruction(cond, o))
         /\ Ready(createASMJumpInstruction(label)) /\ Ready(createASMJumpCCInstruction(cond, label))
         /\ Ready(createASMLabelInstruction(label))
BY FineControl, FixedSetcc, FixedJump, FixedJumpcc, FixedLabel, SoundTuples DEF Ready

(***************************************************************************)
(* The operands of an instruction that can be compiled.                    *)
(***************************************************************************)
ScalarType(type) == isInteger(type) \/ isPointer(type) \/ isDouble(type)

\* What a value comes to, read with the size of its type.
Operand(v) ==
  /\ ScalarType(TypeOf(v, symbols))
  /\ T(v) \in AsmType /\ Source(T(v), R(Op(v))) /\ ~isRegister(R(Op(v)))
  /\ Slot(R(Op(v))) \/ (T(v) # "double" /\ isImmediate(R(Op(v))))

Compiled == Compilable(case.inst, case.symbols) /\ LaidInMemory(case)

LEMMA ConstantOperand ==
  ASSUME NEW v, Located(v, DOMAIN symbols), IsConstant(v)
  PROVE  Operand(v)
<1>1. TypeOf(v, symbols) = v.type /\ (isInteger(v.type) \/ isDouble(v.type))
  BY DEF Located, TypeOf
<1>2. T(v) \in AsmType /\ (T(v) = "double" <=> isDouble(v.type))
  BY <1>1 DEF T, convertTACKYTypeToASMType, convertCTypeToASMType, isInteger, isDouble, AsmType
<1>3. CASE isDouble(v.type)
  <2>1. Op(v) = createStaticConstant(v.val)
    BY <1>3 DEF Op, tackyValueToASMOperand
  <2>2. Slot(R(Op(v)))
    BY <2>1, Resolved
  <2> QED BY <1>1, <1>2, <1>3, <2>2 DEF Operand, Source, Slot, isRegister, ScalarType
<1>4. CASE ~isDouble(v.type)
  <2>1. Op(v) = Imm(v.val)
    BY <1>4 DEF Op, tackyValueToASMOperand
  <2>2. isImmediate(R(Op(v)))
    BY <2>1, Resolved
  <2> QED BY <1>1, <1>2, <1>4, <2>2 DEF Operand, Source, isImmediate, isRegister, ScalarType
<1> QED BY <1>3, <1>4

LEMMA VariableSlot ==
  ASSUME NEW v, ~IsConstant(v)
  PROVE  Slot(R(Op(v)))
BY DEF Op, tackyValueToASMOperand, R, resolvePseudo, Slot, Data, Pseudo, createPsuedoMemoryOperand,
   createMemoryOperand

LEMMA VariableOperand ==
  ASSUME Compiled, NEW v, Located(v, DOMAIN symbols), ~IsConstant(v),
         TypeOf(v, symbols).kind # "array"
  PROVE  Operand(v)
<1>1. Slot(R(Op(v)))
  BY VariableSlot
<1>2. v.identifier \in DOMAIN symbols /\ TypeOf(v, symbols) = symbols[v.identifier].type
  BY DEF Located, TypeOf
<1>3. isInteger(TypeOf(v, symbols)) \/ isPointer(TypeOf(v, symbols)) \/ isDouble(TypeOf(v, symbols))
  BY <1>2 DEF Compiled, LaidInMemory, symbols
<1>4. T(v) \in AsmType
  BY <1>3 DEF T, convertTACKYTypeToASMType, convertCTypeToASMType, isInteger, isDouble, isPointer, AsmType
<1> QED BY <1>1, <1>3, <1>4 DEF Operand, Source, Slot, isRegister, ScalarType

LEMMA WholeOperand ==
  ASSUME Compiled, NEW v, v \in ValuesOf(inst), v \in WholeValuesOf(inst)
  PROVE  Operand(v) /\ (~IsConstant(v) => Slot(R(Op(v))))
<1>1. Located(v, DOMAIN symbols) /\ TypeOf(v, symbols).kind # "array"
  BY DEF Compiled, Compilable, inst, symbols
<1> QED BY <1>1, ConstantOperand, VariableOperand, VariableSlot

LEMMA OperandFits ==
  ASSUME NEW v, Operand(v), NEW t \in AsmType, t = "double" => T(v) = "double"
  PROVE  /\ Source(t, R(Op(v)))
         /\ Slot(R(Op(v))) => Destination(t, R(Op(v)))
BY DEF Operand, Source, Destination, Slot, isImmediate

\* Types and the sizes they become.
LEMMA TypeSizes ==
  ASSUME NEW v, Operand(v)
  PROVE  /\ T(v) = "double" <=> isDouble(TypeOf(v, symbols))
         /\ T(v) = "quadword" <=> Wide(TypeOf(v, symbols)) /\ ~isDouble(TypeOf(v, symbols))
<1> DEFINE type == TypeOf(v, symbols)
<1>1. IntBits # LongBits
  BY WordSizes
<1>2. T(v) = convertCTypeToASMType(type)
  BY DEF T, convertTACKYTypeToASMType
<1>3. ScalarType(type)
  BY DEF Operand
<1> HIDE DEF type
<1>4. T(v) = convertCTypeToASMType(type) /\ ScalarType(type)
  BY <1>2, <1>3
<1> QED BY <1>1, <1>4 DEF convertCTypeToASMType, Wide, Bits, isDouble, isInteger, isPointer, ScalarType, type

(***************************************************************************)
(* The parsers.                                                            *)
(***************************************************************************)
ReadyAll(lines) == \E S : lines \in Seq(S) /\ \A x \in S : Ready(x)

LEMMA ReadyTuples ==
  ASSUME NEW a, NEW b, NEW c
  PROVE  /\ ReadyAll(<<>>)
         /\ Ready(a) => ReadyAll(<<a>>)
         /\ Ready(a) /\ Ready(b) => ReadyAll(<<a, b>>)
         /\ Ready(a) /\ Ready(b) /\ Ready(c) => ReadyAll(<<a, b, c>>)
<1>1. ReadyAll(<<>>)
  <2>1. PICK S : S = {}
    OBVIOUS
  <2>2. <<>> \in Seq(S) /\ \A x \in S : Ready(x)
    BY <2>1
  <2> QED BY <2>2 DEF ReadyAll
<1>2. ASSUME Ready(a) PROVE ReadyAll(<<a>>)
  <2>1. PICK S : S = {a}
    OBVIOUS
  <2>2. <<a>> \in Seq(S) /\ \A x \in S : Ready(x)
    BY <1>2, <2>1
  <2> QED BY <2>2 DEF ReadyAll
<1>3. ASSUME Ready(a), Ready(b) PROVE ReadyAll(<<a, b>>)
  <2>1. PICK S : S = {a, b}
    OBVIOUS
  <2>2. <<a, b>> \in Seq(S) /\ \A x \in S : Ready(x)
    BY <1>3, <2>1
  <2> QED BY <2>2 DEF ReadyAll
<1>4. ASSUME Ready(a), Ready(b), Ready(c) PROVE ReadyAll(<<a, b, c>>)
  <2>1. PICK S : S = {a, b, c}
    OBVIOUS
  <2>2. <<a, b, c>> \in Seq(S) /\ \A x \in S : Ready(x)
    BY <1>4, <2>1
  <2> QED BY <2>2 DEF ReadyAll
<1> QED BY <1>1, <1>2, <1>3, <1>4

LEMMA ReadyFive ==
  ASSUME NEW a, NEW b, NEW c, NEW d, NEW e, Ready(a), Ready(b), Ready(c), Ready(d), Ready(e)
  PROVE  ReadyAll(<<a, b, c, d, e>>)
<1>1. PICK S : S = {a, b, c, d, e}
  OBVIOUS
<1>2. <<a, b, c, d, e>> \in Seq(S) /\ \A x \in S : Ready(x)
  BY <1>1
<1> QED BY <1>2 DEF ReadyAll

LEMMA ReadyEleven ==
  ASSUME NEW a, NEW b, NEW c, NEW d, NEW e, NEW f, NEW g, NEW h, NEW k, NEW l, NEW m,
         Ready(a), Ready(b), Ready(c), Ready(d), Ready(e), Ready(f), Ready(g), Ready(h), Ready(k),
         Ready(l), Ready(m)
  PROVE  ReadyAll(<<a, b, c, d, e, f, g, h, k, l, m>>)
<1>1. PICK S : S = {a, b, c, d, e, f, g, h, k, l, m}
  OBVIOUS
<1>2. <<a, b, c, d, e, f, g, h, k, l, m>> \in Seq(S)
  BY <1>1
<1>3. \A x \in S : Ready(x)
  BY <1>1
<1> QED BY <1>2, <1>3 DEF ReadyAll

LEMMA ReadyConcat ==
  ASSUME NEW s, NEW t, ReadyAll(s), ReadyAll(t)
  PROVE  ReadyAll(s \o t)
<1>1. PICK S : s \in Seq(S) /\ \A x \in S : Ready(x)
  BY DEF ReadyAll
<1>2. PICK S2 : t \in Seq(S2) /\ \A x \in S2 : Ready(x)
  BY DEF ReadyAll
<1>3. PICK U : U = S \cup S2
  OBVIOUS
<1>4. s \in Seq(U) /\ t \in Seq(U)
  <2>1. S \subseteq U /\ S2 \subseteq U
    BY <1>3
  <2> QED BY <1>1, <1>2, <2>1
<1>5. s \o t \in Seq(U)
  BY <1>4, ConcatProperties
<1>6. \A x \in U : Ready(x)
  BY <1>1, <1>2, <1>3
<1> QED BY <1>5, <1>6 DEF ReadyAll

LEMMA HasDestination ==
  ASSUME NEW i, NEW type, NEW a, NEW b, NEW c, NEW d,
         \/ i = [op |-> a, src |-> b, dest |-> c]
         \/ i = createAddPtrInstruction(a, b, d, c)
         \/ i = createUnaryInstruction(type, a, b)
         \/ i = createBinaryInstruction(type, a, b, c)
  PROVE  "dest" \in DOMAIN i
<1>1. CASE i = [op |-> a, src |-> b, dest |-> c]
  BY <1>1
<1>2. CASE i = createAddPtrInstruction(a, b, d, c)
  BY <1>2 DEF createAddPtrInstruction
<1>3. CASE i = createUnaryInstruction(type, a, b)
  BY <1>3 DEF createUnaryInstruction
<1>4. CASE i = createBinaryInstruction(type, a, b, c)
  BY <1>4 DEF createBinaryInstruction
<1> QED BY <1>1, <1>2, <1>3, <1>4

\* What is moved from one place to another, converted or not.
FromTo == {"copy", "sign extend", "zero extend", "truncate", "int to double", "uint to double",
           "double to int", "double to uint", "load", "store"}

LEMMA FromToOperands ==
  ASSUME Compiled, inst.op \in FromTo
  PROVE  /\ Operand(inst.src) /\ Operand(inst.dest) /\ Slot(R(Op(inst.dest)))
         /\ WellTyped(inst, symbols)
<1>1. Instruction(inst) /\ WellTyped(inst, symbols)
  BY DEF Compiled, Compilable, inst, symbols
<1>2. inst = [op |-> inst.op, src |-> inst.src, dest |-> inst.dest]
  BY <1>1 DEF Instruction, FromTo, CondJump
<1>3. ~IsConstant(inst.dest)
  <2>1. "dest" \in DOMAIN inst
    BY <1>2
  <2> QED BY <1>1, <2>1 DEF WellTyped
<1>4. ValuesOf(inst) = {inst.src, inst.dest} /\ WholeValuesOf(inst) = {inst.src, inst.dest}
  BY DEF ValuesOf, WholeValuesOf, FromTo, CondJump
<1> QED BY <1>1, <1>3, <1>4, WholeOperand

LEMMA CopyReady ==
  ASSUME Compiled, inst.op = "copy"
  PROVE  ReadyAll(instructionHandlers(inst))
<1>1. Operand(inst.src) /\ Operand(inst.dest) /\ Slot(R(Op(inst.dest)))
  BY FromToOperands DEF FromTo
<1>2. Ready(createMovInstruction(T(inst.src), Op(inst.src), Op(inst.dest)))
  BY <1>1, ReadyMov DEF Operand, Destination
<1>3. instructionHandlers(inst) = <<createMovInstruction(T(inst.src), Op(inst.src), Op(inst.dest))>>
  BY DEF instructionHandlers, handleDispatchCopy, CondJump
<1> QED BY <1>2, <1>3, ReadyTuples

\* An operand that is no double, and one that is.
LEMMA OperandKinds ==
  ASSUME NEW v, Operand(v)
  PROVE  /\ ~isDouble(TypeOf(v, symbols)) =>
              T(v) \in {"longword", "quadword"} /\ (Slot(R(Op(v))) \/ isImmediate(R(Op(v))))
         /\ isDouble(TypeOf(v, symbols)) => T(v) = "double" /\ Slot(R(Op(v)))
BY TypeSizes DEF Operand, AsmType

LEMMA SlotDestination == ASSUME NEW t, NEW o, Slot(o) PROVE Destination(t, o)
BY DEF Destination

Extension == {"sign extend", "zero extend"}

LEMMA ExtensionReady ==
  ASSUME Compiled, inst.op \in Extension
  PROVE  ReadyAll(instructionHandlers(inst))
<1>1. /\ Operand(inst.src) /\ Slot(R(Op(inst.dest))) /\ WellTyped(inst, symbols)
  BY FromToOperands DEF FromTo, Extension
<1>2. ~isDouble(TypeOf(inst.src, symbols))
  <2>1. TypeOf(inst.src, symbols) = CTYPE_INT \/ TypeOf(inst.src, symbols) = CTYPE_UINT
    <3>1. CASE inst.op = "sign extend"
      BY <1>1, <3>1 DEF WellTyped, CondJump
    <3>2. CASE inst.op = "zero extend"
      BY <1>1, <3>2 DEF WellTyped, CondJump
    <3> QED BY <3>1, <3>2 DEF Extension
  <2> QED BY <2>1 DEF isDouble, CTYPE_INT, CTYPE_UINT, Scalar
<1>3. Slot(R(Op(inst.src))) \/ isImmediate(R(Op(inst.src)))
  BY <1>1, <1>2, OperandKinds
<1>4. /\ Ready(createASMMovsxInstruction(Op(inst.src), Op(inst.dest)))
      /\ Ready(createASMMovZeroExtendInstruction(Op(inst.src), Op(inst.dest)))
  BY <1>1, <1>3, ReadyConversion
<1>5. \/ instructionHandlers(inst) = <<createASMMovsxInstruction(Op(inst.src), Op(inst.dest))>>
      \/ instructionHandlers(inst) = <<createASMMovZeroExtendInstruction(Op(inst.src), Op(inst.dest))>>
  BY DEF instructionHandlers, parseASMSignExtendInstruction, parseZeroExtendInstruction, CondJump, Extension
<1> QED BY <1>4, <1>5, ReadyTuples

LEMMA TruncateReady ==
  ASSUME Compiled, inst.op = "truncate"
  PROVE  ReadyAll(instructionHandlers(inst))
<1>1. Operand(inst.src) /\ Slot(R(Op(inst.dest)))
  BY FromToOperands DEF FromTo
<1>2. Source("longword", R(Op(inst.src))) /\ "longword" \in AsmType
  BY <1>1, OperandFits DEF AsmType
<1>3. Ready(createMovInstruction("longword", Op(inst.src), Op(inst.dest)))
  BY <1>1, <1>2, ReadyMov, SlotDestination
<1>4. instructionHandlers(inst) = <<createMovInstruction("longword", Op(inst.src), Op(inst.dest))>>
  BY DEF instructionHandlers, parseASMTruncateInstruction, CondJump
<1> QED BY <1>3, <1>4, ReadyTuples

LEMMA IntToDoubleReady ==
  ASSUME Compiled, inst.op = "int to double"
  PROVE  ReadyAll(instructionHandlers(inst))
<1>1. Operand(inst.src) /\ Slot(R(Op(inst.dest))) /\ WellTyped(inst, symbols)
  BY FromToOperands DEF FromTo
<1>2. ~isDouble(TypeOf(inst.src, symbols))
  BY <1>1 DEF WellTyped, isDouble, isSignedType, CondJump
<1>3. /\ T(inst.src) \in {"longword", "quadword"}
      /\ Slot(R(Op(inst.src))) \/ isImmediate(R(Op(inst.src)))
  BY <1>1, <1>2, OperandKinds
<1>4. Ready(createCvtsi2sdInstruction(T(inst.src), Op(inst.src), Op(inst.dest)))
  BY <1>1, <1>3, ReadyConversion
<1>5. instructionHandlers(inst)
        = <<createCvtsi2sdInstruction(T(inst.src), Op(inst.src), Op(inst.dest))>>
  BY DEF instructionHandlers, parseIntToDoubleInstruction, CondJump
<1> QED BY <1>4, <1>5, ReadyTuples

LEMMA DoubleToIntReady ==
  ASSUME Compiled, inst.op = "double to int"
  PROVE  ReadyAll(instructionHandlers(inst))
<1>1. Operand(inst.src) /\ Operand(inst.dest) /\ Slot(R(Op(inst.dest))) /\ WellTyped(inst, symbols)
  BY FromToOperands DEF FromTo
<1>2. isDouble(TypeOf(inst.src, symbols)) /\ ~isDouble(TypeOf(inst.dest, symbols))
  BY <1>1 DEF WellTyped, isDouble, isSignedType, CondJump
<1>3. T(inst.dest) \in {"longword", "quadword"} /\ Slot(R(Op(inst.src)))
  BY <1>1, <1>2, OperandKinds
<1>4. Ready(createCvttsd2siInstruction(T(inst.dest), Op(inst.src), Op(inst.dest)))
  BY <1>1, <1>3, ReadyConversion
<1>5. instructionHandlers(inst)
        = <<createCvttsd2siInstruction(T(inst.dest), Op(inst.src), Op(inst.dest))>>
  BY DEF instructionHandlers, parseDoubleToIntInstruction, CondJump
<1> QED BY <1>4, <1>5, ReadyTuples

\* The scratch registers hold whole numbers, and are read and written.
LEMMA GeneralOperand ==
  ASSUME NEW t \in {"longword", "quadword"}, NEW r \in {"AX", "DX", "R10", "R11"}
  PROVE  Source(t, R(Reg(r))) /\ Destination(t, R(Reg(r))) /\ t \in AsmType
BY Resolved, FreeRegisters DEF Source, Destination, AsmType

LEMMA VectorOperand ==
  ASSUME NEW r \in Vector
  PROVE  Source("double", R(Reg(r))) /\ Destination("double", R(Reg(r)))
BY Resolved, FreeRegisters DEF Source, Destination

LEMMA ConstantOperands ==
  ASSUME NEW n, NEW d, NEW t \in {"longword", "quadword"}
  PROVE  Source(t, R(Imm(n))) /\ Source("double", R(createStaticConstant(d)))
BY Resolved DEF Source

LEMMA HalvedReady ==
  ASSUME Slot(R(Op(inst.src))) \/ isImmediate(R(Op(inst.src)))
  PROVE  ReadyAll(Halved(inst))
<1> DEFINE a == createMovInstruction("quadword", Op(inst.src), Reg("DX"))
           b == createMovInstruction("quadword", Reg("DX"), Reg("AX"))
           c == createASMBinaryInstruction("shift right", "double", Imm(1), Reg("AX"))
           d == createASMBinaryInstruction("and", "quadword", Imm(1), Reg("DX"))
           e == createASMBinaryInstruction("or", "quadword", Reg("DX"), Reg("AX"))
<1>1. Source("quadword", R(Op(inst.src)))
  BY DEF Source
<1>2. Ready(a) /\ Ready(b)
  BY <1>1, GeneralOperand, ReadyMov
<1>3. Ready(c)
  <2>1. isImmediate(R(Imm(1))) /\ GeneralReg(R(Reg("AX"))) /\ FreeReg(R(Reg("AX")))
    BY Resolved, FreeRegisters
  <2>2. ShiftOf("double", "shift right") /\ "double" \in AsmType
    BY DEF ShiftOf, AsmType
  <2> QED BY <2>1, <2>2, ReadyShift
<1>4. Ready(d) /\ Ready(e)
  <2>1. "and" \in OpsOf("quadword") /\ "or" \in OpsOf("quadword")
    BY DEF OpsOf, IntegerOp
  <2> QED BY <2>1, GeneralOperand, ConstantOperands, ReadyBinary
<1>5. Halved(inst) = <<a, b, c, d, e>>
  BY DEF Halved
<1> HIDE DEF a, b, c, d, e
<1> QED BY <1>2, <1>3, <1>4, <1>5, ReadyFive

LEMMA UintToDoubleReady ==
  ASSUME Compiled, inst.op = "uint to double"
  PROVE  ReadyAll(instructionHandlers(inst))
<1> DEFINE cvtAX == createCvtsi2sdInstruction("quadword", Reg("AX"), Op(inst.dest))
           cvt == createCvtsi2sdInstruction("quadword", Op(inst.src), Op(inst.dest))
           widen == createASMMovZeroExtendInstruction(Op(inst.src), Reg("AX"))
           test == createASMCmpInstruction("quadword", Imm(0), Op(inst.src))
           less == createASMJumpCCInstruction("l", "else")
           leave == createASMJumpInstruction("end")
           else == createASMLabelInstruction("else")
           end == createASMLabelInstruction("end")
           twice == createASMBinaryInstruction("add", "double", Op(inst.dest), Op(inst.dest))
<1>1. Operand(inst.src) /\ Slot(R(Op(inst.dest))) /\ WellTyped(inst, symbols)
  BY FromToOperands DEF FromTo
<1>2. ~isDouble(TypeOf(inst.src, symbols))
  BY <1>1 DEF WellTyped, isDouble, CondJump
<1>3. /\ T(inst.src) \in {"longword", "quadword"}
      /\ Slot(R(Op(inst.src))) \/ isImmediate(R(Op(inst.src)))
  BY <1>1, <1>2, OperandKinds
<1>4. Ready(widen) /\ Ready(cvtAX) /\ Ready(cvt)
  <2>1. GeneralReg(R(Reg("AX"))) /\ FreeReg(R(Reg("AX")))
    BY Resolved, FreeRegisters
  <2> QED BY <1>1, <1>3, <2>1, ReadyConversion
<1>5. Ready(test)
  <2>1. Source("quadword", R(Op(inst.src))) /\ ~isRegister(R(Op(inst.src)))
    BY <1>3 DEF Source, Slot, isImmediate, isRegister
  <2> QED BY <2>1, ConstantOperands, ReadyCmp DEF AsmType
<1>6. Ready(less) /\ Ready(leave) /\ Ready(else) /\ Ready(end)
  BY ReadyControl
<1>7. Ready(twice)
  <2>1. "add" \in OpsOf("double") /\ "double" \in AsmType
    BY DEF OpsOf, DoubleArithmetic, AsmType
  <2>2. Source("double", R(Op(inst.dest))) /\ Destination("double", R(Op(inst.dest)))
    BY <1>1 DEF Source, Destination
  <2> QED BY <2>1, <2>2, ReadyBinary
<1>8. CASE T(inst.src) = "longword"
  <2>1. instructionHandlers(inst) = <<widen, cvtAX>>
    BY <1>8 DEF instructionHandlers, parseUintToDoubleInstruction, CondJump
  <2> QED BY <1>4, <2>1, ReadyTuples
<1>9. CASE T(inst.src) # "longword"
  <2> HIDE DEF cvtAX, cvt, widen, test, less, leave, else, end, twice
  <2>1. instructionHandlers(inst)
          = <<test, less, cvt, leave, else>> \o Halved(inst) \o <<cvtAX, twice, end>>
    BY <1>9 DEF instructionHandlers, parseUintToDoubleInstruction, CondJump,
       cvtAX, cvt, test, less, leave, else, end, twice
  <2>2. ReadyAll(<<test, less, cvt, leave, else>>)
    BY <1>4, <1>5, <1>6, ReadyFive
  <2>3. ReadyAll(Halved(inst)) /\ ReadyAll(<<cvtAX, twice, end>>)
    BY <1>3, <1>4, <1>6, <1>7, HalvedReady, ReadyTuples
  <2> QED BY <2>1, <2>2, <2>3, ReadyConcat
<1> QED BY <1>8, <1>9

LEMMA DoubleToUintReady ==
  ASSUME Compiled, inst.op = "double to uint"
  PROVE  ReadyAll(instructionHandlers(inst))
<1> DEFINE half == createStaticConstant(HalfRange)
           cvtAX == createCvttsd2siInstruction("quadword", Op(inst.src), Reg("AX"))
           out == createMovInstruction("longword", Reg("AX"), Op(inst.dest))
           test == createASMCmpInstruction("double", half, Op(inst.src))
           above == createASMJumpCCInstruction("ae", "else")
           cvt == createCvttsd2siInstruction("quadword", Op(inst.src), Op(inst.dest))
           leave == createASMJumpInstruction("end")
           else == createASMLabelInstruction("else")
           in1 == createMovInstruction("double", Op(inst.src), Reg("XMM1"))
           sub == createASMBinaryInstruction("subtract", "double", half, Reg("XMM1"))
           cvt1 == createCvttsd2siInstruction("quadword", Reg("XMM1"), Op(inst.dest))
           top == createMovInstruction("quadword", Imm(2^(LongBits - 1)), Reg("AX"))
           add == createASMBinaryInstruction("add", "quadword", Reg("AX"), Op(inst.dest))
           end == createASMLabelInstruction("end")
<1>1. Operand(inst.src) /\ Slot(R(Op(inst.dest))) /\ WellTyped(inst, symbols)
  BY FromToOperands DEF FromTo
<1>2. isDouble(TypeOf(inst.src, symbols))
  BY <1>1 DEF WellTyped, isDouble, CondJump
<1>3. Slot(R(Op(inst.src)))
  BY <1>1, <1>2, OperandKinds
<1>4. {"double", "longword", "quadword"} \subseteq AsmType /\ "XMM1" \in Vector
  BY DEF AsmType, Vector
<1>5. /\ Source("double", R(Op(inst.src))) /\ ~isRegister(R(Op(inst.src)))
  BY <1>3 DEF Source, Slot, isRegister
<1>6. Ready(cvtAX) /\ Ready(cvt) /\ Ready(cvt1)
  <2>1. /\ GeneralReg(R(Reg("AX"))) /\ FreeReg(R(Reg("AX"))) /\ VectorReg(R(Reg("XMM1")))
    BY <1>4, Resolved, FreeRegisters
  <2> QED BY <1>1, <1>3, <2>1, ReadyConversion
<1>7. Ready(out) /\ Ready(top) /\ Ready(in1)
  BY <1>1, <1>4, <1>5, GeneralOperand, VectorOperand, ConstantOperands, SlotDestination, ReadyMov
<1>8. Ready(test)
  BY <1>4, <1>5, ConstantOperands, ReadyCmp
<1>9. Ready(above) /\ Ready(leave) /\ Ready(else) /\ Ready(end)
  BY ReadyControl
<1>10. Ready(sub) /\ Ready(add)
  <2>1. "subtract" \in OpsOf("double") /\ "add" \in OpsOf("quadword")
    BY DEF OpsOf, DoubleArithmetic, IntegerOp
  <2> QED BY <1>1, <1>4, <2>1, GeneralOperand, VectorOperand, ConstantOperands, SlotDestination, ReadyBinary
<1> HIDE DEF cvtAX, out, test, above, cvt, leave, else, in1, sub, cvt1, top, add, end
<1>11. \/ instructionHandlers(inst) = <<cvtAX, out>>
       \/ instructionHandlers(inst)
            = <<test, above, cvt, leave, else, in1, sub, cvt1, top, add, end>>
  BY DEF instructionHandlers, parseDoubleToUintInstruction, CondJump,
     cvtAX, out, test, above, cvt, leave, else, in1, sub, cvt1, top, add, end
<1>12. ReadyAll(<<cvtAX, out>>)
  BY <1>6, <1>7, ReadyTuples
<1>13. ReadyAll(<<test, above, cvt, leave, else, in1, sub, cvt1, top, add, end>>)
  BY <1>6, <1>7, <1>8, <1>9, <1>10, ReadyEleven
<1> QED BY <1>11, <1>12, <1>13

LEMMA LoadReady ==
  ASSUME Compiled, inst.op = "load"
  PROVE  ReadyAll(instructionHandlers(inst))
<1> DEFINE at == createMemoryOperand(Reg("R10"), 0)
           a == createMovInstruction("quadword", Op(inst.src), Reg("R10"))
           b == createMovInstruction(T(inst.dest), at, Op(inst.dest))
<1>1. Operand(inst.src) /\ Operand(inst.dest) /\ Slot(R(Op(inst.dest)))
  BY FromToOperands DEF FromTo
<1>2. Source("quadword", R(Op(inst.src))) /\ "quadword" \in AsmType /\ T(inst.dest) \in AsmType
  BY <1>1, OperandFits DEF Operand, AsmType
<1>3. Slot(R(at))
  BY Resolved
<1>4. Ready(a)
  BY <1>2, GeneralOperand, ReadyMov
<1>5. Ready(b)
  <2>1. Source(T(inst.dest), R(at))
    BY <1>3 DEF Source
  <2> QED BY <1>1, <1>2, <2>1, SlotDestination, ReadyMov
<1>6. instructionHandlers(inst) = <<a, b>>
  BY DEF instructionHandlers, parseLoadInstruction, CondJump
<1> QED BY <1>4, <1>5, <1>6, ReadyTuples

LEMMA StoreReady ==
  ASSUME Compiled, inst.op = "store"
  PROVE  ReadyAll(instructionHandlers(inst))
<1> DEFINE at == createMemoryOperand(Reg("R11"), 0)
           a == createMovInstruction("quadword", Op(inst.dest), Reg("R11"))
           b == createMovInstruction(T(inst.src), Op(inst.src), at)
<1>1. Operand(inst.src) /\ Operand(inst.dest)
  BY FromToOperands DEF FromTo
<1>2. /\ Source("quadword", R(Op(inst.dest))) /\ "quadword" \in AsmType
      /\ T(inst.src) \in AsmType /\ Source(T(inst.src), R(Op(inst.src)))
  BY <1>1, OperandFits DEF Operand, AsmType
<1>3. Slot(R(at))
  BY Resolved
<1>4. Ready(a)
  BY <1>2, GeneralOperand, ReadyMov
<1>5. Ready(b)
  BY <1>2, <1>3, SlotDestination, ReadyMov
<1>6. instructionHandlers(inst) = <<a, b>>
  BY DEF instructionHandlers, parseStoreInstruction, CondJump
<1> QED BY <1>4, <1>5, <1>6, ReadyTuples

LEMMA GetAddressReady ==
  ASSUME Compiled, inst.op = "get address"
  PROVE  ReadyAll(instructionHandlers(inst))
<1>1. Instruction(inst) /\ WellTyped(inst, symbols)
  BY DEF Compiled, Compilable, inst, symbols
<1>2. inst = [op |-> inst.op, src |-> inst.src, dest |-> inst.dest]
  BY <1>1 DEF Instruction, CondJump
<1>3. ~IsConstant(inst.dest) /\ ~IsConstant(inst.src)
  <2>1. "dest" \in DOMAIN inst
    BY <1>2, HasDestination
  <2> QED BY <1>1, <2>1 DEF WellTyped, CondJump
<1>4. IsMem(R(Op(inst.src))) /\ Slot(R(Op(inst.dest)))
  BY <1>3, VariableSlot DEF Slot, IsMem
<1>5. Ready(createLeaInstruction(Op(inst.src), Op(inst.dest)))
  BY <1>4, ReadyConversion
<1>6. instructionHandlers(inst) = <<createLeaInstruction(Op(inst.src), Op(inst.dest))>>
  BY DEF instructionHandlers, parseGetAddressInstruction, CondJump
<1> QED BY <1>5, <1>6, ReadyTuples

LEMMA AddPtrReady ==
  ASSUME Compiled, inst.op = "add pointer"
  PROVE  ReadyAll(instructionHandlers(inst))
<1> DEFINE scale == IF inst.scale \in {1, 2, 4, 8} THEN inst.scale ELSE 1
           sum == createIndexedMemoryOperand(Reg("AX"), Reg("DX"), scale)
           a == createMovInstruction("quadword", Op(inst.src), Reg("AX"))
           b == createMovInstruction("quadword", Op(inst.index), Reg("DX"))
           c == createASMBinaryInstruction("multiply", "quadword", Imm(inst.scale), Reg("DX"))
           d == createLeaInstruction(sum, Op(inst.dest))
<1>1. Instruction(inst) /\ WellTyped(inst, symbols)
  BY DEF Compiled, Compilable, inst, symbols
<1>2. inst = createAddPtrInstruction(inst.src, inst.index, inst.scale, inst.dest)
  BY <1>1 DEF Instruction, CondJump
<1>3. ~IsConstant(inst.dest)
  <2>1. "dest" \in DOMAIN inst
    BY <1>2, HasDestination
  <2> QED BY <1>1, <2>1 DEF WellTyped
<1>4. /\ ValuesOf(inst) = {inst.src, inst.index, inst.dest}
      /\ WholeValuesOf(inst) = {inst.src, inst.index, inst.dest}
  BY DEF ValuesOf, WholeValuesOf, CondJump
<1>5. Operand(inst.src) /\ Operand(inst.index) /\ Slot(R(Op(inst.dest)))
  BY <1>3, <1>4, WholeOperand
<1>6. "quadword" \in AsmType /\ "multiply" \in OpsOf("quadword")
  BY DEF AsmType, OpsOf, IntegerOp
<1>7. Ready(a) /\ Ready(b)
  BY <1>5, <1>6, OperandFits, GeneralOperand, ReadyMov
<1>8. Ready(c)
  BY <1>6, GeneralOperand, ConstantOperands, ReadyBinary
<1>9. Ready(d)
  <2>1. IsMem(R(sum))
    BY Resolved
  <2> QED BY <1>5, <2>1, ReadyConversion
<1> HIDE DEF a, b, c, d
<1>10. \/ instructionHandlers(inst) = <<a, b>> \o <<>> \o <<d>>
       \/ instructionHandlers(inst) = <<a, b>> \o <<c>> \o <<d>>
  BY DEF instructionHandlers, parseAddPtrInstruction, CondJump, a, b, c, d
<1>11. ReadyAll(<<a, b>>) /\ ReadyAll(<<>>) /\ ReadyAll(<<c>>) /\ ReadyAll(<<d>>)
  BY <1>7, <1>8, <1>9, ReadyTuples
<1> QED BY <1>10, <1>11, ReadyConcat

LEMMA CopyToOffsetReady ==
  ASSUME Compiled, inst.op = "copy to offset"
  PROVE  ReadyAll(instructionHandlers(inst))
<1> DEFINE at == createPsuedoMemoryOperand(inst.dest.identifier, inst.offset)
           a == createMovInstruction(T(inst.src), Op(inst.src), at)
<1>1. inst.src \in ValuesOf(inst) /\ inst.src \in WholeValuesOf(inst)
  BY DEF ValuesOf, WholeValuesOf, CondJump
<1>2. T(inst.src) \in AsmType /\ Source(T(inst.src), R(Op(inst.src)))
  BY <1>1, WholeOperand DEF Operand
<1>3. Slot(R(at))
  BY Resolved
<1>4. Ready(a)
  BY <1>2, <1>3, SlotDestination, ReadyMov
<1>5. instructionHandlers(inst) = <<a>>
  BY DEF instructionHandlers, parseCopyToOffsetInstruction, CondJump
<1> QED BY <1>4, <1>5, ReadyTuples

LEMMA CondJumpReady ==
  ASSUME Compiled, inst.op \in CondJump
  PROVE  ReadyAll(instructionHandlers(inst))
<1> DEFINE v == inst.condition
           cond == IF inst.op = "jump if zero" THEN "e" ELSE "ne"
           clear == createASMBinaryInstruction("xor", "double", Reg("XMM0"), Reg("XMM0"))
           testDouble == createASMCmpInstruction("double", Op(v), Reg("XMM0"))
           test == createASMCmpInstruction(T(v), Imm(0), Op(v))
           jump == createASMJumpCCInstruction(cond, inst.label)
<1>1. v \in ValuesOf(inst) /\ v \in WholeValuesOf(inst)
  BY DEF ValuesOf, WholeValuesOf, CondJump
<1>2. Operand(v)
  BY <1>1, WholeOperand
<1>3. T(v) \in AsmType /\ Source(T(v), R(Op(v))) /\ ~isRegister(R(Op(v)))
  BY <1>2 DEF Operand
<1>4. Ready(jump)
  BY ReadyControl
<1>5. instructionHandlers(inst)
        = IF T(v) = "double" THEN <<clear, testDouble, jump>> ELSE <<test, jump>>
  BY DEF instructionHandlers, parseCondJumpInstruction, handleDoubleCondJump, CondJump
<1>6. CASE T(v) = "double"
  <2>1. "XMM0" \in Vector /\ "xor" \in OpsOf("double") /\ "double" \in AsmType
    BY DEF Vector, OpsOf, DoubleArithmetic, AsmType
  <2>2. Ready(clear)
    BY <2>1, VectorOperand, ReadyBinary
  <2>3. Ready(testDouble)
    BY <1>3, <1>6, <2>1, VectorOperand, ReadyCmp
  <2> HIDE DEF clear, testDouble, jump
  <2> QED BY <1>4, <1>5, <1>6, <2>2, <2>3, ReadyTuples
<1>7. CASE T(v) # "double"
  <2>1. T(v) \in {"longword", "quadword"}
    BY <1>3, <1>7 DEF AsmType
  <2>2. Ready(test)
    BY <1>3, <2>1, ConstantOperands, ReadyCmp
  <2> HIDE DEF test, jump
  <2> QED BY <1>4, <1>5, <1>7, <2>2, ReadyTuples
<1> QED BY <1>6, <1>7

(***************************************************************************)
(* Binary instructions.  A shift by what is no constant is the one that    *)
(* borrows.                                                                *)
(***************************************************************************)
\* An operand with a cell of its own, of a whole number that size fits.
InCell(o, t, cells) ==
  LET place == IF o.k = "data" THEN o.place ELSE Wrap(0 + o.offset, LongBits) IN
  /\ Slot(o) /\ (o.k = "memory" => o.base = "BP")
  /\ place \in DOMAIN cells /\ ~isDouble(cells[place].type)
  /\ t = "quadword" => Bits(cells[place].type) # IntBits

Borrowed(lines, t, type, a, count, dst) ==
  /\ t \in {"longword", "quadword"} /\ ShiftOf(t, type) /\ Source(t, R(a))
  /\ lines = <<createMovInstruction(t, a, dst), createASMBinaryInstruction(type, t, count, dst)>>
  /\ InCell(R(count), "longword", case.mem) /\ InCell(R(dst), t, case.mem)

Borrows(lines) == \E t, type, a, count, dst : Borrowed(lines, t, type, a, count, dst)

LEMMA VariableCell ==
  ASSUME Compiled, NEW v, Located(v, DOMAIN symbols), ~IsConstant(v),
         TypeOf(v, symbols).kind # "array", ~isDouble(TypeOf(v, symbols)),
         NEW t, t = "quadword" => Wide(TypeOf(v, symbols))
  PROVE  InCell(R(Op(v)), t, case.mem)
<1> DEFINE s == symbols[v.identifier]
<1>1. v.identifier \in DOMAIN symbols /\ TypeOf(v, symbols) = s.type
  BY DEF Located, TypeOf
<1>2. /\ s.place \in Nat /\ s.place = Wrap(s.place, LongBits)
      /\ s.place \in DOMAIN case.mem /\ case.mem[s.place].type = s.type
  BY <1>1 DEF Compiled, LaidInMemory, symbols
<1>3. IntBits # LongBits
  BY WordSizes
<1>4. t = "quadword" => Bits(s.type) # IntBits
  BY <1>1, <1>3 DEF Wide
<1>5. Op(v) = IF s.static THEN Data(s.place) ELSE Pseudo(v.identifier)
  BY <1>1 DEF Op, tackyValueToASMOperand
<1>6. R(Op(v)) = IF s.static THEN Data(s.place) ELSE createMemoryOperand(Reg("BP"), s.place)
  BY <1>5 DEF R, resolvePseudo, Data, Pseudo
<1>7. 0 + s.place = s.place
  BY <1>2
<1> HIDE DEF s
<1> QED BY <1>1, <1>2, <1>4, <1>6, <1>7 DEF InCell, Slot, Data, createMemoryOperand, Reg, createRegisterOperand

LEMMA BinaryOperands ==
  ASSUME Compiled, inst.op = "binary"
  PROVE  /\ Operand(inst.src1) /\ Operand(inst.src2) /\ Operand(inst.dest)
         /\ Slot(R(Op(inst.dest))) /\ ~IsConstant(inst.dest)
         /\ isDouble(TypeOf(inst.src1, symbols)) <=> isDouble(TypeOf(inst.src2, symbols))
         /\ inst.type \in BinaryTypes /\ WellTyped(inst, symbols)
<1>1. Instruction(inst) /\ WellTyped(inst, symbols)
  BY DEF Compiled, Compilable, inst, symbols
<1>2. inst = createBinaryInstruction(inst.type, inst.src1, inst.src2, inst.dest) /\ inst.type \in BinaryTypes
  BY <1>1 DEF Instruction, CondJump
<1>3. ~IsConstant(inst.dest)
  <2>1. "dest" \in DOMAIN inst
    BY <1>2, HasDestination
  <2> QED BY <1>1, <2>1 DEF WellTyped
<1>4. /\ ValuesOf(inst) = {inst.src1, inst.src2, inst.dest}
      /\ WholeValuesOf(inst) = {inst.src1, inst.src2, inst.dest}
  BY DEF ValuesOf, WholeValuesOf, CondJump
<1>5. /\ Operand(inst.src1) /\ Operand(inst.src2) /\ Operand(inst.dest) /\ Slot(R(Op(inst.dest)))
  BY <1>3, <1>4, WholeOperand
<1>6. isDouble(TypeOf(inst.src1, symbols)) <=> isDouble(TypeOf(inst.src2, symbols))
  BY <1>1 DEF WellTyped, isDouble, isPointer, CondJump
<1> QED BY <1>1, <1>2, <1>3, <1>5, <1>6

LEMMA RelationalReady ==
  ASSUME Compiled, inst.op = "binary"
  PROVE  ReadyAll(handleBinaryRelationalOp(inst))
<1> DEFINE cond == getCondCodeForRelationalOp(inst.type, signedOrUnsigned(inst))
           a == createASMCmpInstruction(T(inst.src1), Op(inst.src2), Op(inst.src1))
           b == createMovInstruction("longword", Imm(0), Op(inst.dest))
           c == createASMSetCCInstruction(cond, Op(inst.dest))
<1>1. /\ Operand(inst.src1) /\ Operand(inst.src2) /\ Slot(R(Op(inst.dest)))
      /\ isDouble(TypeOf(inst.src1, symbols)) <=> isDouble(TypeOf(inst.src2, symbols))
  BY BinaryOperands
<1>2. T(inst.src1) = "double" <=> T(inst.src2) = "double"
  BY <1>1, TypeSizes
<1>3. /\ T(inst.src1) \in AsmType /\ Source(T(inst.src1), R(Op(inst.src1)))
      /\ Source(T(inst.src1), R(Op(inst.src2))) /\ ~isRegister(R(Op(inst.src1)))
  BY <1>1, <1>2, OperandFits DEF Operand
<1>4. Ready(a)
  BY <1>3, ReadyCmp
<1>5. Ready(b)
  BY <1>1, GeneralOperand, ConstantOperands, SlotDestination, ReadyMov
<1>6. Ready(c)
  BY <1>1, ReadyControl
<1>7. handleBinaryRelationalOp(inst) = <<a, b, c>>
  BY DEF handleBinaryRelationalOp
<1> HIDE DEF a, b, c
<1> QED BY <1>4, <1>5, <1>6, <1>7, ReadyTuples

LEMMA DivisionReady ==
  ASSUME Compiled, inst.op = "binary", inst.type \in {"divide", "remainder"}
  PROVE  ReadyAll(handleDivideModuloCase(inst))
<1> DEFINE v == inst.src1
           w == inst.src2
           d == inst.dest
           reg == Reg(IF inst.type = "remainder" THEN "DX" ELSE "AX")
           a == createMovInstruction("double", Op(v), Op(d))
           b == createASMBinaryInstruction("divide double", "double", Op(w), Op(d))
           low == createMovInstruction(T(v), Op(v), Reg("AX"))
           extend == createASMCDQInstruction(T(v))
           idiv == createIdivInstruction(Op(w), T(v))
           clear == createMovInstruction(T(v), Imm(0), Reg("DX"))
           div == createDivInstruction(Op(w), T(v))
           out == createMovInstruction(T(d), reg, Op(d))
<1>1. /\ Operand(v) /\ Operand(w) /\ Operand(d) /\ Slot(R(Op(d)))
      /\ isDouble(TypeOf(v, symbols)) <=> isDouble(TypeOf(w, symbols))
      /\ WellTyped(inst, symbols)
  BY BinaryOperands
<1>2. T(v) = "double" <=> T(w) = "double"
  BY <1>1, TypeSizes
<1>3. CASE T(v) = "double"
  <2>1. handleDivideModuloCase(inst) = <<a, b>>
    BY <1>3 DEF handleDivideModuloCase, createASMDoubleDivision, isDoubleOperand, T
  <2>2. /\ "double" \in AsmType /\ "divide double" \in OpsOf("double")
    BY DEF AsmType, OpsOf, DoubleArithmetic
  <2>3. Ready(a)
    BY <1>1, <1>3, <2>2, ReadyMov, SlotDestination DEF Operand
  <2>4. Ready(b)
    BY <1>1, <1>2, <1>3, <2>2, ReadyBinary, SlotDestination DEF Operand
  <2> HIDE DEF a, b
  <2> QED BY <2>1, <2>3, <2>4, ReadyTuples
<1>4. CASE T(v) # "double"
  <2>1. /\ T(v) \in {"longword", "quadword"}
        /\ Slot(R(Op(w))) \/ isImmediate(R(Op(w)))
    BY <1>1, <1>2, <1>4 DEF Operand, AsmType
  <2>2. T(d) \in {"longword", "quadword"}
    <3>1. ~isDouble(TypeOf(d, symbols))
      <4>1. ~isDouble(TypeOf(v, symbols)) /\ inst.type \notin isRelationBinaryOp
        BY <1>1, <1>4, TypeSizes DEF isRelationBinaryOp
      <4>2. SameClass(TypeOf(v, symbols), TypeOf(d, symbols))
        BY <1>1, <4>1 DEF WellTyped, CondJump
      <4> QED BY <4>1, <4>2 DEF SameClass
    <3> QED BY <1>1, <3>1, OperandKinds
  <2>3. Ready(low)
    BY <1>1, <2>1, GeneralOperand, ReadyMov DEF Operand
  <2>4. Ready(extend) /\ Ready(idiv) /\ Ready(div)
    BY <2>1, ReadyDivision
  <2>5. Ready(clear)
    BY <2>1, GeneralOperand, ConstantOperands, ReadyMov
  <2>6. Ready(out)
    <3>1. Source(T(d), R(reg)) /\ T(d) \in AsmType
      BY <2>2, GeneralOperand
    <3> QED BY <1>1, <3>1, ReadyMov, SlotDestination
  <2> HIDE DEF low, extend, idiv, clear, div, out
  <2>7. \/ handleDivideModuloCase(inst) = <<low>> \o <<extend, idiv>> \o <<out>>
        \/ handleDivideModuloCase(inst) = <<low>> \o <<clear, div>> \o <<out>>
    BY <1>2, <1>4 DEF handleDivideModuloCase, getDivisionInst, isDoubleOperand, T,
       low, extend, idiv, clear, div, out
  <2>8. /\ ReadyAll(<<low>>) /\ ReadyAll(<<out>>)
        /\ ReadyAll(<<extend, idiv>>) /\ ReadyAll(<<clear, div>>)
    BY <2>3, <2>4, <2>5, <2>6, ReadyTuples
  <2> QED BY <2>7, <2>8, ReadyConcat
<1> QED BY <1>3, <1>4

\* What is left: arithmetic in place, and shifts.
Plain == BinaryTypes \ ({"divide", "remainder"} \cup isRelationBinaryOp)

LEMMA PlainHandled ==
  ASSUME Compiled, inst.op = "binary", inst.type \in Plain
  PROVE  ReadyAll(instructionHandlers(inst)) \/ Borrows(instructionHandlers(inst))
<1> DEFINE v == inst.src1
           w == inst.src2
           d == inst.dest
           op == binTypeToASMBinaryOperator(inst.type)
           a == createMovInstruction(T(v), Op(v), Op(d))
           b == createASMBinaryInstruction(op, T(v), Op(w), Op(d))
<1>1. /\ Operand(v) /\ Operand(w) /\ Operand(d) /\ Slot(R(Op(d)))
      /\ isDouble(TypeOf(v, symbols)) <=> isDouble(TypeOf(w, symbols))
      /\ WellTyped(inst, symbols)
  BY BinaryOperands
<1>2. /\ T(v) = "double" <=> T(w) = "double"
      /\ T(v) = "double" <=> isDouble(TypeOf(v, symbols))
  BY <1>1, TypeSizes
<1>3. T(v) \in AsmType /\ Source(T(v), R(Op(v))) /\ Source(T(v), R(Op(w)))
  BY <1>1, <1>2, OperandFits DEF Operand
<1>4. Ready(a)
  BY <1>1, <1>3, ReadyMov, SlotDestination
<1>5. instructionHandlers(inst) = <<a, b>>
  BY DEF instructionHandlers, parseASMBinaryInstruction, Plain, CondJump
<1>6. CASE inst.type \in Shift
  <2>1. ~isDouble(TypeOf(v, symbols)) /\ inst.type \notin isRelationBinaryOp
    BY <1>1, <1>6 DEF WellTyped, CondJump, Plain
  <2>2. T(v) \in {"longword", "quadword"}
    BY <1>1, <2>1, OperandKinds
  <2>3. ShiftOf(T(v), op)
    BY <1>6, <2>2 DEF ShiftOf, binTypeToASMBinaryOperator, Shift
  <2>4. CASE IsConstant(w)
    <3>1. isImmediate(R(Op(w)))
      <4>1. Op(w) = Imm(w.val)
        BY <1>1, <2>1, <2>4 DEF Op, tackyValueToASMOperand, TypeOf
      <4> QED BY <4>1, Resolved
    <3>2. Ready(b)
      BY <1>1, <1>3, <2>3, <3>1, ReadyShift
    <3> HIDE DEF a, b
    <3> QED BY <1>4, <1>5, <3>2, ReadyTuples
  <2>5. CASE ~IsConstant(w)
    <3>1. /\ Located(w, DOMAIN symbols) /\ TypeOf(w, symbols).kind # "array"
          /\ Located(d, DOMAIN symbols) /\ TypeOf(d, symbols).kind # "array" /\ ~IsConstant(d)
      <4>1. {w, d} \subseteq ValuesOf(inst) /\ {w, d} \subseteq WholeValuesOf(inst)
        BY DEF ValuesOf, WholeValuesOf, CondJump
      <4> QED BY <4>1, BinaryOperands DEF Compiled, Compilable, inst, symbols
    <3>2. /\ ~isDouble(TypeOf(w, symbols)) /\ ~isDouble(TypeOf(d, symbols))
          /\ T(v) = "quadword" => Wide(TypeOf(d, symbols))
      <4>1. SameClass(TypeOf(v, symbols), TypeOf(d, symbols))
        BY <1>1, <2>1 DEF WellTyped, CondJump
      <4> QED BY <1>1, <2>1, <4>1, TypeSizes DEF SameClass
    <3>3. InCell(R(Op(w)), "longword", case.mem) /\ InCell(R(Op(d)), T(v), case.mem)
      BY <2>5, <3>1, <3>2, VariableCell
    <3>4. Borrowed(<<a, b>>, T(v), op, Op(v), Op(w), Op(d))
      BY <1>3, <2>2, <2>3, <3>3 DEF Borrowed
    <3> QED BY <1>5, <3>4 DEF Borrows
  <2> QED BY <2>4, <2>5
<1>7. CASE inst.type \notin Shift
  <2>1. op \in OpsOf(T(v))
    <3>1. CASE T(v) = "double"
      <4>1. inst.type \in {"add", "subtract", "multiply"}
        BY <1>1, <1>2, <1>7, <3>1 DEF Plain, BinaryTypes, WellTyped, CondJump
      <4> QED BY <3>1, <4>1 DEF OpsOf, DoubleArithmetic, binTypeToASMBinaryOperator
    <3>2. CASE T(v) # "double"
      <4>1. inst.type \in {"add", "subtract", "multiply", "bit and", "bit or", "bit xor"}
        BY <1>7 DEF Plain, BinaryTypes
      <4> QED BY <3>2, <4>1 DEF OpsOf, IntegerOp, binTypeToASMBinaryOperator
    <3> QED BY <3>1, <3>2
  <2>2. Ready(b)
    BY <1>1, <1>3, <2>1, ReadyBinary, SlotDestination
  <2> HIDE DEF a, b
  <2> QED BY <1>4, <1>5, <2>2, ReadyTuples
<1> QED BY <1>6, <1>7

LEMMA BinaryHandled ==
  ASSUME Compiled, inst.op = "binary"
  PROVE  ReadyAll(instructionHandlers(inst)) \/ Borrows(instructionHandlers(inst))
<1>1. inst.type \in BinaryTypes
  BY BinaryOperands
<1>2. CASE inst.type \in {"divide", "remainder"}
  <2>1. instructionHandlers(inst) = handleDivideModuloCase(inst)
    BY <1>2 DEF instructionHandlers, parseASMBinaryInstruction, CondJump
  <2> QED BY <1>2, <2>1, DivisionReady
<1>3. CASE inst.type \in isRelationBinaryOp
  <2>1. instructionHandlers(inst) = handleBinaryRelationalOp(inst)
    BY <1>3 DEF instructionHandlers, parseASMBinaryInstruction, CondJump, isRelationBinaryOp
  <2> QED BY <2>1, RelationalReady
<1>4. CASE inst.type \in Plain
  BY <1>4, PlainHandled
<1> QED BY <1>1, <1>2, <1>3, <1>4 DEF Plain

(***************************************************************************)
(* Unary instructions.  A double that is counted up or down is what cannot *)
(* be assembled.                                                           *)
(***************************************************************************)
UnaryIn(t, o, type) == [op |-> "unary", t |-> t, args |-> <<o>>, type |-> type]

StepAndMove(lines, o, type, b) ==
  /\ lines = <<UnaryIn("double", o, type), b>>
  /\ Slot(R(o)) /\ type \in {"inc", "dec"} /\ Ready(b)

Stepping(lines) == \E o, type, b : StepAndMove(lines, o, type, b)

LEMMA UnaryIs ==
  ASSUME NEW type \in {"negate", "complement"} \cup Step, NEW t, NEW v
  PROVE  \E name \in {"neg", "not", "inc", "dec"} :
           /\ createASMUnaryInstruction(type, t, v) = UnaryIn(t, Op(v), name)
           /\ type \in Step => name \in {"inc", "dec"}
<1> DEFINE name == CASE type = "negate" -> "neg" [] type = "complement" -> "not"
                     [] type = "increment" -> "inc" [] type = "decrement" -> "dec"
<1>1. name \in {"neg", "not", "inc", "dec"} /\ (type \in Step => name \in {"inc", "dec"})
  BY DEF Step
<1>2. createASMUnaryInstruction(type, t, v) = UnaryIn(t, Op(v), name)
  BY DEF createASMUnaryInstruction, UnaryIn
<1> QED BY <1>1, <1>2

LEMMA UnaryOperands ==
  ASSUME Compiled, inst.op = "unary"
  PROVE  /\ Operand(inst.src) /\ Operand(inst.dest) /\ Slot(R(Op(inst.dest)))
         /\ inst.type \in UnaryTypes /\ WellTyped(inst, symbols)
         /\ inst.type \in Step => Slot(R(Op(inst.src)))
         /\ inst.type # "not" => T(inst.src) = T(inst.dest)
<1>1. Instruction(inst) /\ WellTyped(inst, symbols)
  BY DEF Compiled, Compilable, inst, symbols
<1>2. inst = createUnaryInstruction(inst.type, inst.src, inst.dest) /\ inst.type \in UnaryTypes
  BY <1>1 DEF Instruction, CondJump
<1>3. ~IsConstant(inst.dest)
  <2>1. "dest" \in DOMAIN inst
    BY <1>2, HasDestination
  <2> QED BY <1>1, <2>1 DEF WellTyped
<1>4. /\ ValuesOf(inst) = {inst.src, inst.dest}
      /\ WholeValuesOf(inst) = {inst.src, inst.dest}
  BY DEF ValuesOf, WholeValuesOf, CondJump
<1>5. /\ Operand(inst.src) /\ Operand(inst.dest) /\ Slot(R(Op(inst.dest)))
  BY <1>3, <1>4, WholeOperand
<1>6. inst.type \in Step => Slot(R(Op(inst.src)))
  BY <1>1, VariableSlot DEF WellTyped, CondJump
<1>7. inst.type # "not" => T(inst.src) = T(inst.dest)
  BY <1>1 DEF WellTyped, CondJump, T, convertTACKYTypeToASMType
<1> QED BY <1>1, <1>2, <1>5, <1>6, <1>7

LEMMA NotReady ==
  ASSUME Compiled, inst.op = "unary"
  PROVE  ReadyAll(handleUnaryNot(inst))
<1> DEFINE zero == IF T(inst.src) = "double" THEN createStaticConstant(Zero) ELSE Imm(0)
           a == createASMCmpInstruction(T(inst.src), zero, Op(inst.src))
           b == createMovInstruction("longword", Imm(0), Op(inst.dest))
           c == createASMSetCCInstruction("e", Op(inst.dest))
<1>1. Operand(inst.src) /\ Slot(R(Op(inst.dest)))
  BY UnaryOperands
<1>2. T(inst.src) \in AsmType /\ Source(T(inst.src), R(Op(inst.src))) /\ ~isRegister(R(Op(inst.src)))
  BY <1>1 DEF Operand
<1>3. Source(T(inst.src), R(zero))
  <2>1. CASE T(inst.src) = "double"
    BY <2>1, ConstantOperands
  <2>2. CASE T(inst.src) # "double"
    <3>1. T(inst.src) \in {"longword", "quadword"}
      BY <1>2, <2>2 DEF AsmType
    <3> QED BY <2>2, <3>1, ConstantOperands
  <2> QED BY <2>1, <2>2
<1>4. Ready(a)
  BY <1>2, <1>3, ReadyCmp
<1>5. Ready(b)
  BY <1>1, GeneralOperand, ConstantOperands, SlotDestination, ReadyMov
<1>6. Ready(c)
  BY <1>1, ReadyControl
<1>7. handleUnaryNot(inst) = <<a, b, c>>
  BY DEF handleUnaryNot
<1> HIDE DEF a, b, c
<1> QED BY <1>4, <1>5, <1>6, <1>7, ReadyTuples

LEMMA DoubleNegationReady ==
  ASSUME Compiled, inst.op = "unary", T(inst.src) = "double"
  PROVE  ReadyAll(handleDoubleNegation(inst))
<1> DEFINE minus == createStaticConstant(Negated(Zero))
           a == createMovInstruction("double", Op(inst.src), Op(inst.dest))
           b == createASMBinaryInstruction("xor", "double", minus, Op(inst.dest))
<1>1. Operand(inst.src) /\ Slot(R(Op(inst.dest)))
  BY UnaryOperands
<1>2. "double" \in AsmType /\ "xor" \in OpsOf("double")
  BY DEF AsmType, OpsOf, DoubleArithmetic
<1>3. Ready(a)
  BY <1>1, <1>2, ReadyMov, SlotDestination DEF Operand
<1>4. Ready(b)
  <2>1. Source("double", R(minus))
    BY ConstantOperands
  <2> QED BY <1>1, <1>2, <2>1, ReadyBinary, SlotDestination
<1>5. handleDoubleNegation(inst) = <<a, b>>
  BY DEF handleDoubleNegation
<1> HIDE DEF a, b
<1> QED BY <1>3, <1>4, <1>5, ReadyTuples

LEMMA StepHandled ==
  ASSUME Compiled, inst.op = "unary", inst.type \in Step
  PROVE  /\ T(inst.src) # "double" => ReadyAll(instructionHandlers(inst))
         /\ T(inst.src) = "double" => Stepping(instructionHandlers(inst))
<1> DEFINE a == createASMUnaryInstruction(inst.type, T(inst.src), inst.src)
           b == createMovInstruction(T(inst.src), Op(inst.src), Op(inst.dest))
<1>1. Operand(inst.src) /\ Slot(R(Op(inst.src))) /\ Slot(R(Op(inst.dest)))
  BY UnaryOperands
<1>2. instructionHandlers(inst) = <<a, b>>
  BY DEF instructionHandlers, parseASMUnaryInstruction, Step, CondJump
<1>3. PICK name \in {"inc", "dec"} : a = UnaryIn(T(inst.src), Op(inst.src), name)
  BY UnaryIs
<1>4. Ready(b)
  BY <1>1, ReadyMov, SlotDestination DEF Operand
<1>5. ASSUME T(inst.src) # "double" PROVE ReadyAll(instructionHandlers(inst))
  <2>1. T(inst.src) \in {"longword", "quadword"}
    BY <1>1, <1>5 DEF Operand, AsmType
  <2>2. Ready(UnaryIn(T(inst.src), Op(inst.src), name))
    BY <1>1, <2>1, ReadyUnary DEF UnaryIn
  <2> HIDE DEF a, b
  <2> QED BY <1>2, <1>3, <1>4, <2>2, ReadyTuples
<1>6. ASSUME T(inst.src) = "double" PROVE Stepping(instructionHandlers(inst))
  <2> HIDE DEF a, b
  <2>1. StepAndMove(instructionHandlers(inst), Op(inst.src), name, b)
    BY <1>1, <1>2, <1>3, <1>4, <1>6 DEF StepAndMove
  <2> QED BY <2>1 DEF Stepping
<1> QED BY <1>5, <1>6

LEMMA UnaryHandled ==
  ASSUME Compiled, inst.op = "unary"
  PROVE  IF StepsDouble THEN Stepping(instructionHandlers(inst))
         ELSE ReadyAll(instructionHandlers(inst))
<1>1. Operand(inst.src) /\ inst.type \in UnaryTypes
  BY UnaryOperands
<1>2. StepsDouble <=> inst.type \in Step /\ T(inst.src) = "double"
  BY DEF StepsDouble, isDoubleOperand, T
<1>3. CASE inst.type = "not"
  <2>1. instructionHandlers(inst) = handleUnaryNot(inst) /\ inst.type \notin Step
    BY <1>3 DEF instructionHandlers, parseASMUnaryInstruction, Step, CondJump
  <2> QED BY <1>2, <2>1, NotReady
<1>4. CASE inst.type = "negate" /\ T(inst.src) = "double"
  <2>1. instructionHandlers(inst) = handleDoubleNegation(inst) /\ inst.type \notin Step
    BY <1>4 DEF instructionHandlers, parseASMUnaryInstruction, Step, CondJump
  <2> QED BY <1>2, <1>4, <2>1, DoubleNegationReady
<1>5. CASE inst.type \in Step
  BY <1>2, <1>5, StepHandled
<1>6. CASE inst.type \in {"negate", "complement"} /\ ~(inst.type = "negate" /\ T(inst.src) = "double")
  <2> DEFINE a == createMovInstruction(T(inst.src), Op(inst.src), Op(inst.dest))
             b == createASMUnaryInstruction(inst.type, T(inst.dest), inst.dest)
  <2>1. instructionHandlers(inst) = <<a, b>> /\ inst.type \notin Step /\ inst.type # "not"
    BY <1>6 DEF instructionHandlers, parseASMUnaryInstruction, Step, CondJump
  <2>2. /\ WellTyped(inst, symbols) /\ T(inst.src) = T(inst.dest) /\ Slot(R(Op(inst.dest)))
    BY <2>1, UnaryOperands
  <2>3. T(inst.dest) \in {"longword", "quadword"}
    <3>1. T(inst.src) # "double"
      <4>1. inst.type = "complement" => ~isDouble(TypeOf(inst.src, symbols))
        BY <2>2 DEF WellTyped, CondJump
      <4> QED BY <1>1, <1>6, <4>1, TypeSizes
    <3> QED BY <1>1, <2>2, <3>1 DEF Operand, AsmType
  <2>4. Ready(a)
    BY <1>1, <2>2, ReadyMov, SlotDestination DEF Operand
  <2>5. Ready(b)
    <3>1. PICK name \in {"neg", "not", "inc", "dec"} : b = UnaryIn(T(inst.dest), Op(inst.dest), name)
      BY <1>6, UnaryIs
    <3>2. Ready(UnaryIn(T(inst.dest), Op(inst.dest), name))
      BY <2>2, <2>3, ReadyUnary DEF UnaryIn
    <3> QED BY <3>1, <3>2
  <2> HIDE DEF a, b
  <2> QED BY <1>2, <2>1, <2>4, <2>5, ReadyTuples
<1> QED BY <1>1, <1>3, <1>4, <1>5, <1>6 DEF UnaryTypes

\* What the parsers make of an instruction that can be compiled.
Handled(lines) ==
  IF StepsDouble THEN Stepping(lines) ELSE ReadyAll(lines) \/ Borrows(lines)

LEMMA HandlersRight ==
  ASSUME Compiled
  PROVE  Handled(instructionHandlers(inst))
<1>1. Instruction(inst)
  BY DEF Compiled, Compilable, inst
<1>2. inst.op # "unary" => ~StepsDouble
  BY DEF StepsDouble
<1>3. CASE inst.op = "unary"
  BY <1>3, UnaryHandled DEF Handled
<1>4. CASE inst.op = "binary"
  BY <1>2, <1>4, BinaryHandled DEF Handled
<1>5. CASE inst.op \in CondJump
  BY <1>2, <1>5, CondJumpReady DEF Handled, CondJump
<1>6. CASE inst.op = "copy"
  BY <1>2, <1>6, CopyReady DEF Handled
<1>7. CASE inst.op \in Extension
  BY <1>2, <1>7, ExtensionReady DEF Handled, Extension
<1>8. CASE inst.op = "truncate"
  BY <1>2, <1>8, TruncateReady DEF Handled
<1>9. CASE inst.op = "int to double"
  BY <1>2, <1>9, IntToDoubleReady DEF Handled
<1>10. CASE inst.op = "uint to double"
  BY <1>2, <1>10, UintToDoubleReady DEF Handled
<1>11. CASE inst.op = "double to int"
  BY <1>2, <1>11, DoubleToIntReady DEF Handled
<1>12. CASE inst.op = "double to uint"
  BY <1>2, <1>12, DoubleToUintReady DEF Handled
<1>13. CASE inst.op = "load"
  BY <1>2, <1>13, LoadReady DEF Handled
<1>14. CASE inst.op = "store"
  BY <1>2, <1>14, StoreReady DEF Handled
<1>15. CASE inst.op = "get address"
  BY <1>2, <1>15, GetAddressReady DEF Handled
<1>16. CASE inst.op = "add pointer"
  BY <1>2, <1>16, AddPtrReady DEF Handled
<1>17. CASE inst.op = "copy to offset"
  BY <1>2, <1>17, CopyToOffsetReady DEF Handled
<1>18. \/ inst.op \in {"unary", "binary", "copy", "truncate", "load", "store"} \cup CondJump \cup Extension
       \/ inst.op = "int to double" \/ inst.op = "uint to double"
       \/ inst.op = "double to int" \/ inst.op = "double to uint"
       \/ inst.op = "get address" \/ inst.op = "add pointer" \/ inst.op = "copy to offset"
  BY <1>1 DEF Instruction, Extension
<1> QED BY <1>3, <1>4, <1>5, <1>6, <1>7, <1>8, <1>9, <1>10, <1>11, <1>12, <1>13, <1>14, <1>15, <1>16,
           <1>17, <1>18

(***************************************************************************)
(* The whole of the code, fixed.                                           *)
(***************************************************************************)
IsList(s) == Len(s) \in Nat /\ DOMAIN s = 1 .. Len(s)

FixedCode(lines) == FlattenSeq([n \in DOMAIN lines |-> Fixed(lines[n])])

LEMMA SoundIs ==
  ASSUME NEW s
  PROVE  Sound(s) => IsList(s) /\ \A n \in 1 .. Len(s) : Fine(s[n])
<1> SUFFICES ASSUME Sound(s) PROVE IsList(s) /\ \A n \in 1 .. Len(s) : Fine(s[n])
  OBVIOUS
<1>1. PICK S : s \in Seq(S) /\ \A x \in S : Fine(x)
  BY DEF Sound
<1> QED BY <1>1, LenProperties, ElementOfSeq DEF IsList

LEMMA ReadyFixed ==
  ASSUME NEW lines, ReadyAll(lines)
  PROVE  Sound(FixedCode(lines))
<1>1. PICK S : lines \in Seq(S) /\ \A x \in S : Ready(x)
  BY DEF ReadyAll
<1> DEFINE L == Len(lines)
           seqs == [n \in DOMAIN lines |-> Fixed(lines[n])]
           SetOf(n) == CHOOSE A : seqs[n] \in Seq(A) /\ \A x \in A : Fine(x)
           U == UNION {SetOf(n) : n \in 1 .. L}
<1>2. L \in Nat /\ DOMAIN lines = 1 .. L
  BY <1>1, LenProperties
<1>3. ASSUME NEW n \in 1 .. L
      PROVE  seqs[n] \in Seq(SetOf(n)) /\ \A x \in SetOf(n) : Fine(x)
  <2>1. Sound(Fixed(lines[n]))
    BY <1>1, ElementOfSeq DEF Ready
  <2>2. \E A : seqs[n] \in Seq(A) /\ \A x \in A : Fine(x)
    BY <2>1, <1>2 DEF Sound
  <2> QED BY <2>2
<1>4. \A x \in U : Fine(x)
  BY <1>3
<1>5. \A n \in 1 .. L : seqs[n] \in Seq(U)
  <2> SUFFICES ASSUME NEW n \in 1 .. L PROVE seqs[n] \in Seq(U)
    OBVIOUS
  <2>1. PICK A : A = SetOf(n)
    OBVIOUS
  <2>2. A \subseteq U
    BY <2>1
  <2>3. seqs[n] \in Seq(A)
    BY <1>3, <2>1
  <2> HIDE DEF seqs, U, SetOf
  <2> QED BY <2>2, <2>3, SeqMonotonic
<1>6. PICK all, W : all = seqs /\ W = U
  OBVIOUS
<1>7. all \in Seq(Seq(W))
  <2>1. all \in [1 .. L -> Seq(W)]
    BY <1>2, <1>5, <1>6
  <2> QED BY <1>2, <2>1, SeqDef
<1>8. FlattenSeq(all) \in Seq(W)
  BY <1>7, FlattenLaidOut
<1>9. FixedCode(lines) = FlattenSeq(all)
  BY <1>6 DEF FixedCode
<1> HIDE DEF U, seqs
<1> QED BY <1>4, <1>6, <1>8, <1>9 DEF Sound

LEMMA FlattenTwo ==
  ASSUME NEW S, NEW s \in Seq(S), NEW t \in Seq(S)
  PROVE  FlattenSeq(<<s, t>>) = s \o t
<1>1. FlattenSeq(Append(<<>>, s)) = FlattenSeq(<<>>) \o s
  <2>1. <<>> \in Seq(Seq(S))
    OBVIOUS
  <2> QED BY <2>1, FlattenAppend
<1>2. FlattenSeq(<<s>>) = s
  <2>1. Append(<<>>, s) = <<s>>
    OBVIOUS
  <2> QED BY <1>1, <2>1, LaidOutEmpty, ConcatEmptySeq
<1>3. FlattenSeq(Append(<<s>>, t)) = FlattenSeq(<<s>>) \o t
  <2>1. <<s>> \in Seq(Seq(S))
    OBVIOUS
  <2> QED BY <2>1, FlattenAppend
<1>4. Append(<<s>>, t) = <<s, t>>
  <2>1. PICK Q : Q = Seq(S)
    OBVIOUS
  <2>2. PICK one, two : one = <<s>> /\ two = <<s, t>>
    OBVIOUS
  <2>3. /\ one \in Seq(Q) /\ two \in Seq(Q) /\ Len(one) = 1 /\ Len(two) = 2 /\ t \in Q
        /\ two[1] = one[1] /\ two[2] = t
    BY <2>1, <2>2
  <2>4. PICK w : w = Append(one, t)
    OBVIOUS
  <2>5. w \in Seq(Q) /\ Len(w) = 2 /\ \A i \in 1 .. 2 : w[i] = two[i]
    <3>1. /\ w \in Seq(Q) /\ Len(w) = Len(one) + 1
          /\ \A i \in 1 .. Len(one) : w[i] = one[i]
          /\ w[Len(one) + 1] = t
      <4>1. one \in Seq(Q) /\ t \in Q
        BY <2>3
      <4> QED BY <4>1, <2>4, AppendProperties, Zenon
    <3>2. w[1] = two[1] /\ w[2] = two[2]
      BY <2>3, <3>1
    <3> QED BY <2>3, <3>1, <3>2
  <2> QED BY <2>2, <2>3, <2>4, <2>5, SeqEqual
<1> QED BY <1>2, <1>3, <1>4

LEMMA FixedTwo ==
  ASSUME NEW a, NEW b, NEW S, Fixed(a) \in Seq(S), Fixed(b) \in Seq(S)
  PROVE  FixedCode(<<a, b>>) = Fixed(a) \o Fixed(b)
<1>1. [n \in DOMAIN <<a, b>> |-> Fixed(<<a, b>>[n])] = <<Fixed(a), Fixed(b)>>
  OBVIOUS
<1> QED BY <1>1, FlattenTwo DEF FixedCode

\* A step of a double, and fine lines after it.
StepFirst(lines, o, type) ==
  /\ IsList(lines) /\ Len(lines) # 0
  /\ lines[1] = UnaryIn("double", o, type) /\ Slot(o) /\ type \in {"inc", "dec"}
  /\ \A n \in 2 .. Len(lines) : Fine(lines[n])

\* Moves, and behind the first b lines the four that borrow CX.
BorrowsAt(lines, b, t, type, count, dst) ==
  /\ b \in Nat /\ IsList(lines) /\ Len(lines) = b + 4
  /\ \A n \in 1 .. b : Fine(lines[n]) /\ lines[n].op = "mov"
  /\ lines[b + 1] = createASMPushInstruction(Reg("CX"))
  /\ lines[b + 2] = createMovInstruction("longword", count, Reg("CX"))
  /\ lines[b + 3] = createASMBinaryInstruction(type, t, Reg("CX"), dst)
  /\ lines[b + 4] = createASMPopInstruction(Reg("CX"))
  /\ t \in {"longword", "quadword"} /\ ShiftOf(t, type)
  /\ InCell(count, "longword", case.mem) /\ InCell(dst, t, case.mem)

FixedRight(lines) ==
  IF StepsDouble THEN \E o, type : StepFirst(lines, o, type)
  ELSE \/ Sound(lines)
       \/ \E b, t, type, count, dst : BorrowsAt(lines, b, t, type, count, dst)

\* One line before fine ones.
LEMMA OneBefore ==
  ASSUME NEW x, NEW s, Sound(s)
  PROVE  LET all == <<x>> \o s IN
         IsList(all) /\ Len(all) # 0 /\ all[1] = x /\ \A n \in 2 .. Len(all) : Fine(all[n])
<1>1. PICK S : s \in Seq(S) /\ \A y \in S : Fine(y)
  BY DEF Sound
<1>2. PICK U : U = S \cup {x}
  OBVIOUS
<1>3. PICK one, all : one = <<x>> /\ all = <<x>> \o s
  OBVIOUS
<1>4. one \in Seq(U) /\ s \in Seq(U) /\ Len(one) = 1 /\ one[1] = x
  <2>1. S \subseteq U /\ x \in U
    BY <1>2
  <2> QED BY <1>1, <1>3, <2>1
<1>5. /\ all \in Seq(U) /\ Len(all) = Len(one) + Len(s)
      /\ \A i \in 1 .. Len(one) + Len(s) : all[i] = IF i <= Len(one) THEN one[i] ELSE s[i - Len(one)]
  BY <1>3, <1>4, ConcatProperties
<1>6. Len(s) \in Nat /\ IsList(all) /\ \A n \in 1 .. Len(s) : Fine(s[n])
  BY <1>4, <1>5, LenProperties, SoundIs DEF IsList
<1>7. Len(all) = 1 + Len(s) /\ all[1] = x
  BY <1>4, <1>5, <1>6
<1>8. ASSUME NEW n \in 2 .. Len(all) PROVE Fine(all[n])
  <2>1. n - 1 \in 1 .. Len(s) /\ all[n] = s[n - 1]
    BY <1>4, <1>5, <1>6, <1>7
  <2> QED BY <1>6, <2>1
<1> QED BY <1>3, <1>6, <1>7, <1>8

LEMMA SteppingFixed ==
  ASSUME NEW lines, Stepping(lines)
  PROVE  \E o, type : StepFirst(FixedCode(lines), o, type)
<1>1. PICK o, type, b : StepAndMove(lines, o, type, b)
  BY DEF Stepping
<1>2. /\ lines = <<UnaryIn("double", o, type), b>>
      /\ Slot(R(o)) /\ type \in {"inc", "dec"} /\ Ready(b)
  BY <1>1 DEF StepAndMove
<1>3. PICK a : a = UnaryIn("double", o, type)
  OBVIOUS
<1>4. PICK x : x = UnaryIn("double", R(o), type)
  OBVIOUS
<1>5. Fixed(a) = <<x>>
  BY <1>3, <1>4, FixedUnary DEF UnaryIn
<1>6. PICK S : Fixed(b) \in Seq(S) /\ \A y \in S : Fine(y)
  BY <1>2 DEF Ready, Sound
<1>7. PICK U : U = S \cup {x}
  OBVIOUS
<1>8. Fixed(a) \in Seq(U) /\ Fixed(b) \in Seq(U)
  <2>1. S \subseteq U /\ x \in U
    BY <1>7
  <2> QED BY <1>5, <1>6, <2>1
<1>9. FixedCode(lines) = <<x>> \o Fixed(b)
  BY <1>2, <1>3, <1>5, <1>8, FixedTwo
<1>10. Sound(Fixed(b))
  BY <1>2 DEF Ready
<1>11. StepFirst(<<x>> \o Fixed(b), R(o), type)
  BY <1>2, <1>4, <1>10, OneBefore DEF StepFirst
<1> QED BY <1>9, <1>11

LEMMA MovesOnly ==
  ASSUME NEW t \in AsmType, NEW src, NEW dst, Source(t, src), Destination(t, dst)
  PROVE  LET s == fixMov(createMovInstruction(t, src, dst)) IN
         \A n \in 1 .. Len(s) : s[n].op = "mov"
<1>1. PICK x, y, z : /\ x = createMovInstruction(t, src, scratchReg1(t))
                     /\ y = createMovInstruction(t, scratchReg1(t), dst)
                     /\ z = createMovInstruction(t, src, dst)
  OBVIOUS
<1>2. \/ fixMov(createMovInstruction(t, src, dst)) = <<x, y>>
      \/ fixMov(createMovInstruction(t, src, dst)) = <<z>>
  BY <1>1 DEF fixMov, createMovInstruction
<1>3. x.op = "mov" /\ y.op = "mov" /\ z.op = "mov"
  BY <1>1 DEF createMovInstruction
<1>4. \A n \in 1 .. Len(<<x, y>>) : <<x, y>>[n].op = "mov"
  BY <1>3
<1>5. \A n \in 1 .. Len(<<z>>) : <<z>>[n].op = "mov"
  BY <1>3
<1> QED BY <1>2, <1>4, <1>5

LEMMA FourBehind ==
  ASSUME NEW s, IsList(s), NEW S, s \in Seq(S), NEW p, NEW q, NEW r, NEW u
  PROVE  LET all == s \o <<p, q, r, u>> IN
         /\ IsList(all) /\ Len(all) = Len(s) + 4
         /\ \A n \in 1 .. Len(s) : all[n] = s[n]
         /\ all[Len(s) + 1] = p /\ all[Len(s) + 2] = q /\ all[Len(s) + 3] = r /\ all[Len(s) + 4] = u
<1>1. PICK U : U = S \cup {p, q, r, u}
  OBVIOUS
<1>2. PICK four, all : four = <<p, q, r, u>> /\ all = s \o <<p, q, r, u>>
  OBVIOUS
<1>3. s \in Seq(U) /\ four \in Seq(U)
  <2>1. S \subseteq U /\ {p, q, r, u} \subseteq U
    BY <1>1
  <2> QED BY <1>2, <2>1
<1>4. /\ Len(four) = 4 /\ four[1] = p /\ four[2] = q /\ four[3] = r /\ four[4] = u
      /\ Len(s) \in Nat
  BY <1>2 DEF IsList
<1>5. /\ all \in Seq(U) /\ Len(all) = Len(s) + Len(four)
      /\ \A i \in 1 .. Len(s) + Len(four) : all[i] = IF i <= Len(s) THEN s[i] ELSE four[i - Len(s)]
  BY <1>2, <1>3, ConcatProperties
<1>6. IsList(all) /\ Len(all) = Len(s) + 4
  BY <1>4, <1>5, LenProperties DEF IsList
<1>7. \A n \in 1 .. Len(s) : all[n] = s[n]
  BY <1>4, <1>5
<1>8. /\ all[Len(s) + 1] = p /\ all[Len(s) + 2] = q /\ all[Len(s) + 3] = r /\ all[Len(s) + 4] = u
  <2>1. \A k \in 1 .. 4 : all[Len(s) + k] = four[(Len(s) + k) - Len(s)] /\ (Len(s) + k) - Len(s) = k
    BY <1>4, <1>5
  <2> QED BY <1>4, <2>1
<1> QED BY <1>2, <1>6, <1>7, <1>8

LEMMA BorrowsFixed ==
  ASSUME NEW lines, Borrows(lines)
  PROVE  \E b, t, type, count, dst : BorrowsAt(FixedCode(lines), b, t, type, count, dst)
<1>1. PICK t, type, a, count, dst : Borrowed(lines, t, type, a, count, dst)
  BY DEF Borrows
<1>2. PICK x, y : x = createMovInstruction(t, a, dst) /\ y = createASMBinaryInstruction(type, t, count, dst)
  OBVIOUS
<1>3. /\ t \in {"longword", "quadword"} /\ ShiftOf(t, type) /\ Source(t, R(a))
      /\ lines = <<x, y>>
      /\ InCell(R(count), "longword", case.mem) /\ InCell(R(dst), t, case.mem)
  BY <1>1, <1>2 DEF Borrowed
<1>4. Slot(R(count)) /\ Slot(R(dst)) /\ t \in AsmType
  BY <1>3 DEF InCell, AsmType
<1>5. PICK s : s = Fixed(x) /\ Sound(s) /\ \A n \in 1 .. Len(s) : s[n].op = "mov"
  <2>1. Fixed(x) = fixMov(createMovInstruction(t, R(a), R(dst)))
    BY <1>2, FixedMov
  <2>2. Destination(t, R(dst))
    BY <1>4, SlotDestination
  <2> QED BY <1>3, <1>4, <2>1, <2>2, FixMov, MovesOnly
<1>6. PICK p, q, r, u : /\ p = createASMPushInstruction(Reg("CX"))
                        /\ q = createMovInstruction("longword", R(count), Reg("CX"))
                        /\ r = createASMBinaryInstruction(type, t, Reg("CX"), R(dst))
                        /\ u = createASMPopInstruction(Reg("CX"))
  OBVIOUS
<1>7. Fixed(y) = <<p, q, r, u>>
  <2>1. Fixed(y) = fixBinary(createASMBinaryInstruction(type, t, R(count), R(dst)))
    BY <1>2, FixedBinary
  <2> QED BY <1>3, <1>4, <1>6, <2>1, FixShift
<1>8. PICK S : s \in Seq(S) /\ \A n \in S : Fine(n)
  BY <1>5 DEF Sound
<1>9. FixedCode(lines) = s \o <<p, q, r, u>>
  <2>1. PICK U : U = S \cup {p, q, r, u}
    OBVIOUS
  <2>2. s \in Seq(U) /\ <<p, q, r, u>> \in Seq(U)
    <3>1. S \subseteq U /\ {p, q, r, u} \subseteq U
      BY <2>1
    <3> QED BY <1>8, <3>1
  <2> QED BY <1>3, <1>5, <1>7, <2>2, FixedTwo
<1>10. PICK all : all = s \o <<p, q, r, u>>
  OBVIOUS
<1>11. IsList(s) /\ \A n \in 1 .. Len(s) : Fine(s[n])
  BY <1>5, SoundIs
<1>12. /\ IsList(all) /\ Len(all) = Len(s) + 4
       /\ \A n \in 1 .. Len(s) : all[n] = s[n]
       /\ all[Len(s) + 1] = p /\ all[Len(s) + 2] = q /\ all[Len(s) + 3] = r /\ all[Len(s) + 4] = u
  BY <1>8, <1>10, <1>11, FourBehind
<1>13. BorrowsAt(all, Len(s), t, type, R(count), R(dst))
  BY <1>3, <1>5, <1>6, <1>11, <1>12 DEF BorrowsAt, IsList
<1> QED BY <1>9, <1>10, <1>13

LEMMA PassRight ==
  ASSUME NEW lines, Handled(lines)
  PROVE  FixedRight(FixedCode(lines))
BY ReadyFixed, SteppingFixed, BorrowsFixed DEF Handled, FixedRight

(***************************************************************************)
(* The text of the whole.                                                  *)
(***************************************************************************)
Text(lines) == [n \in DOMAIN lines |-> printInstructionsToASMFile(lines[n])]

\* Behind b lines that keep CX and the stack, the four that borrow CX.
BorrowingText(text, cells, b, t, count, dst) ==
  /\ b \in Nat /\ Len(text) = b + 4
  /\ \A n \in 1 .. b : Quiet(text[n]) /\ text[n].mn \in {"mov", "movsd"}
  /\ text[b + 1] = Line("push", "q", <<Reg("CX")>>)
  /\ text[b + 2] = Line("mov", "l", <<count, Reg("CX")>>)
  /\ text[b + 3].mn \in Shifts /\ text[b + 3].sz \in {"l", "q"}
  /\ text[b + 3].args = <<Reg("CX"), dst>> /\ (text[b + 3].sz = "q" => t = "quadword")
  /\ text[b + 4] = Line("pop", "q", <<Reg("CX")>>)
  /\ InCell(count, "longword", cells) /\ InCell(dst, t, cells)

QuietText(text) == \A n \in 1 .. Len(text) : Quiet(text[n])

AllAssembled(text) == \A n \in DOMAIN text : Assembles(text[n])

LEMMA TextIs ==
  ASSUME NEW lines, IsList(lines)
  PROVE  /\ IsList(Text(lines)) /\ Len(Text(lines)) = Len(lines)
         /\ \A n \in 1 .. Len(lines) : Text(lines)[n] = printInstructionsToASMFile(lines[n])
<1>1. PICK L : L = Len(lines)
  OBVIOUS
<1>2. L \in Nat /\ DOMAIN lines = 1 .. L
  BY <1>1 DEF IsList
<1>3. PICK text : text = Text(lines)
  OBVIOUS
<1>4. text = [n \in 1 .. L |-> printInstructionsToASMFile(lines[n])]
  BY <1>2, <1>3 DEF Text
<1>5. Len(text) = L /\ DOMAIN text = 1 .. L
  <2>1. text \in [1 .. L -> {printInstructionsToASMFile(lines[n]) : n \in 1 .. L}]
    BY <1>4
  <2>2. text \in Seq({printInstructionsToASMFile(lines[n]) : n \in 1 .. L})
    BY <1>2, <2>1, SeqDef
  <2> QED BY <2>1, <2>2, <1>2, LenProperties
<1>6. \A n \in 1 .. L : text[n] = printInstructionsToASMFile(lines[n])
  BY <1>4
<1> QED BY <1>1, <1>2, <1>3, <1>5, <1>6 DEF IsList

LEMMA TextOfSound ==
  ASSUME NEW lines, Sound(lines)
  PROVE  IsList(Text(lines)) /\ QuietText(Text(lines)) /\ AllAssembled(Text(lines))
<1>1. IsList(lines) /\ \A n \in 1 .. Len(lines) : Fine(lines[n])
  BY SoundIs
<1>2. PICK text : text = Text(lines)
  OBVIOUS
<1>3. /\ IsList(text) /\ Len(text) = Len(lines)
      /\ \A n \in 1 .. Len(lines) : text[n] = printInstructionsToASMFile(lines[n])
  BY <1>1, <1>2, TextIs
<1>4. \A n \in 1 .. Len(lines) : Assembles(text[n]) /\ Quiet(text[n])
  BY <1>1, <1>3 DEF Fine
<1> QED BY <1>2, <1>3, <1>4 DEF QuietText, AllAssembled, IsList

\* No mnemonic steps a double.
LEMMA TextOfStep ==
  ASSUME NEW lines, NEW o, NEW type, StepFirst(lines, o, type)
  PROVE  IsList(Text(lines)) /\ QuietText(Text(lines)) /\ ~AllAssembled(Text(lines))
<1>1. /\ IsList(lines) /\ Len(lines) # 0
      /\ lines[1] = UnaryIn("double", o, type) /\ Slot(o) /\ type \in {"inc", "dec"}
      /\ \A n \in 2 .. Len(lines) : Fine(lines[n])
  BY DEF StepFirst
<1>2. PICK text : text = Text(lines)
  OBVIOUS
<1>3. /\ IsList(text) /\ Len(text) = Len(lines)
      /\ \A n \in 1 .. Len(lines) : text[n] = printInstructionsToASMFile(lines[n])
  BY <1>1, <1>2, TextIs
<1>4. 1 \in 1 .. Len(lines)
  BY <1>1 DEF IsList
<1>5. text[1] = printInstructionsToASMFile(UnaryIn("double", o, type))
  BY <1>1, <1>3, <1>4
<1>6. text[1].mn = type /\ text[1].sz = "sd" /\ text[1].args = <<o>>
  BY <1>5 DEF UnaryIn, printInstructionsToASMFile, Line
<1>7. ~Assembles(text[1])
  BY <1>1, <1>6 DEF Assembles, Alu, Shifts, VectorOp
<1>8. Quiet(text[1])
  <2>1. text[1].args[Len(text[1].args)] = o
    BY <1>6
  <2> QED BY <1>1, <1>6, <2>1 DEF Quiet, Slot, IsReg
<1>9. \A n \in 2 .. Len(lines) : Quiet(text[n])
  BY <1>1, <1>3 DEF Fine, IsList
<1>10. \A n \in 1 .. Len(lines) : n = 1 \/ n \in 2 .. Len(lines)
  BY <1>1 DEF IsList
<1>11. QuietText(text)
  BY <1>3, <1>8, <1>9, <1>10 DEF QuietText
<1>12. ~AllAssembled(text)
  BY <1>3, <1>4, <1>7 DEF AllAssembled, IsList
<1> QED BY <1>2, <1>3, <1>11, <1>12

LEMMA ShiftText ==
  ASSUME NEW t \in {"longword", "quadword"}, NEW type, ShiftOf(t, type), NEW by, NEW dst
  PROVE  LET line == printInstructionsToASMFile(createASMBinaryInstruction(type, t, by, dst)) IN
         /\ line.mn \in Shifts /\ line.sz \in {"l", "q"} /\ line.args = <<by, dst>>
         /\ line.sz = "q" => t = "quadword"
BY DEF createASMBinaryInstruction, printInstructionsToASMFile, printBinary, Line, ShiftOf, Shifts,
   turnASMTypeToAsm, asmBinaryOperatorToString

LEMMA BorrowingAssembles ==
  ASSUME NEW count, NEW dst, NEW t \in {"longword", "quadword"}, NEW type, ShiftOf(t, type),
         Slot(count), Slot(dst)
  PROVE  /\ Assembles(Line("push", "q", <<Reg("CX")>>)) /\ Assembles(Line("pop", "q", <<Reg("CX")>>))
         /\ Assembles(Line("mov", "l", <<count, Reg("CX")>>))
         /\ Assembles(printInstructionsToASMFile(createASMBinaryInstruction(type, t, Reg("CX"), dst)))
<1>1. Assembles(Line("push", "q", <<Reg("CX")>>)) /\ Assembles(Line("pop", "q", <<Reg("CX")>>))
  BY DEF Assembles, Line, Alu, Shifts, VectorOp, Reg, createRegisterOperand, GeneralOrMem, InGeneral,
     IsReg, General
<1>2. Assembles(Line("mov", "l", <<count, Reg("CX")>>))
  BY DEF Assembles, Line, Alu, Shifts, VectorOp, Reg, createRegisterOperand, GeneralOrMem, InGeneral,
     IsReg, IsMem, Slot, General
<1>3. Fine(createASMBinaryInstruction(type, t, Reg("CX"), dst))
  BY FineShift DEF ShiftOf, AsmType
<1> QED BY <1>1, <1>2, <1>3 DEF Fine

LEMMA MoveText ==
  ASSUME NEW line, line.op = "mov"
  PROVE  printInstructionsToASMFile(line).mn \in {"mov", "movsd"}
BY DEF printInstructionsToASMFile, Line

LEMMA TextOfBorrowing ==
  ASSUME NEW lines, NEW b, NEW t, NEW type, NEW count, NEW dst,
         BorrowsAt(lines, b, t, type, count, dst)
  PROVE  /\ IsList(Text(lines)) /\ AllAssembled(Text(lines))
         /\ BorrowingText(Text(lines), case.mem, b, t, count, dst)
<1>1. /\ b \in Nat /\ IsList(lines) /\ Len(lines) = b + 4
      /\ \A n \in 1 .. b : Fine(lines[n]) /\ lines[n].op = "mov"
      /\ lines[b + 1] = createASMPushInstruction(Reg("CX"))
      /\ lines[b + 2] = createMovInstruction("longword", count, Reg("CX"))
      /\ lines[b + 3] = createASMBinaryInstruction(type, t, Reg("CX"), dst)
      /\ lines[b + 4] = createASMPopInstruction(Reg("CX"))
      /\ t \in {"longword", "quadword"} /\ ShiftOf(t, type)
      /\ InCell(count, "longword", case.mem) /\ InCell(dst, t, case.mem)
  BY DEF BorrowsAt
<1>2. PICK text : text = Text(lines)
  OBVIOUS
<1>3. /\ IsList(text) /\ Len(text) = Len(lines)
      /\ \A n \in 1 .. b + 4 : text[n] = printInstructionsToASMFile(lines[n])
  BY <1>1, <1>2, TextIs
<1>4. \A n \in 1 .. b : n \in 1 .. b + 4
  BY <1>1
<1>5. b + 1 \in 1 .. b + 4 /\ b + 2 \in 1 .. b + 4 /\ b + 3 \in 1 .. b + 4 /\ b + 4 \in 1 .. b + 4
  BY <1>1
<1>6. \A n \in 1 .. b : Quiet(text[n]) /\ Assembles(text[n]) /\ text[n].mn \in {"mov", "movsd"}
  BY <1>1, <1>3, <1>4, MoveText DEF Fine
<1>7. text[b + 1] = Line("push", "q", <<Reg("CX")>>)
  <2>1. text[b + 1] = printInstructionsToASMFile(createASMPushInstruction(Reg("CX")))
    BY <1>1, <1>3, <1>5
  <2> QED BY <2>1 DEF createASMPushInstruction, printInstructionsToASMFile
<1>8. text[b + 4] = Line("pop", "q", <<Reg("CX")>>)
  <2>1. text[b + 4] = printInstructionsToASMFile(createASMPopInstruction(Reg("CX")))
    BY <1>1, <1>3, <1>5
  <2> QED BY <2>1 DEF createASMPopInstruction, printInstructionsToASMFile
<1>9. text[b + 2] = Line("mov", "l", <<count, Reg("CX")>>)
  <2>1. text[b + 2] = printInstructionsToASMFile(createMovInstruction("longword", count, Reg("CX")))
    BY <1>1, <1>3, <1>5
  <2> QED BY <2>1 DEF createMovInstruction, printInstructionsToASMFile, turnASMTypeToAsm
<1>10. text[b + 3] = printInstructionsToASMFile(createASMBinaryInstruction(type, t, Reg("CX"), dst))
  BY <1>1, <1>3, <1>5
<1>11. Slot(count) /\ Slot(dst)
  BY <1>1 DEF InCell
<1>12. \A n \in 1 .. b + 4 : Assembles(text[n])
  <2>1. \A n \in 1 .. b + 4 : n \in 1 .. b \/ n = b + 1 \/ n = b + 2 \/ n = b + 3 \/ n = b + 4
    BY <1>1
  <2>2. /\ Assembles(text[b + 1]) /\ Assembles(text[b + 2]) /\ Assembles(text[b + 3])
        /\ Assembles(text[b + 4])
    BY <1>1, <1>7, <1>8, <1>9, <1>10, <1>11, BorrowingAssembles
  <2> QED BY <1>6, <2>1, <2>2
<1>13. /\ text[b + 3].mn \in Shifts /\ text[b + 3].sz \in {"l", "q"}
       /\ text[b + 3].args = <<Reg("CX"), dst>> /\ (text[b + 3].sz = "q" => t = "quadword")
  BY <1>1, <1>10, ShiftText
<1>14. AllAssembled(text)
  BY <1>1, <1>3, <1>12 DEF AllAssembled, IsList
<1>15. BorrowingText(text, case.mem, b, t, count, dst)
  BY <1>1, <1>3, <1>6, <1>7, <1>8, <1>9, <1>13 DEF BorrowingText
<1> QED BY <1>2, <1>3, <1>14, <1>15

Borrowing(text, cells) == \E b, t, count, dst : BorrowingText(text, cells, b, t, count, dst)

TextRight(text, cells) ==
  IsList(text) /\ (QuietText(text) \/ (AllAssembled(text) /\ Borrowing(text, cells)))

LEMMA TextOf ==
  ASSUME NEW lines, FixedRight(lines)
  PROVE  TextRight(Text(lines), case.mem) /\ (AllAssembled(Text(lines)) <=> ~StepsDouble)
<1>1. CASE StepsDouble
  <2>1. PICK o, type : StepFirst(lines, o, type)
    BY <1>1 DEF FixedRight
  <2> QED BY <1>1, <2>1, TextOfStep DEF TextRight
<1>2. CASE ~StepsDouble /\ Sound(lines)
  BY <1>2, TextOfSound DEF TextRight
<1>3. CASE ~StepsDouble /\ ~Sound(lines)
  <2>1. PICK b, t, type, count, dst : BorrowsAt(lines, b, t, type, count, dst)
    BY <1>3 DEF FixedRight
  <2>2. /\ IsList(Text(lines)) /\ AllAssembled(Text(lines))
        /\ BorrowingText(Text(lines), case.mem, b, t, count, dst)
    BY <2>1, TextOfBorrowing
  <2>3. Borrowing(Text(lines), case.mem)
    BY <2>2 DEF Borrowing
  <2> QED BY <1>3, <2>2, <2>3 DEF TextRight
<1> QED BY <1>1, <1>2, <1>3

(***************************************************************************)
(* What a line does to the machine, and what it leaves alone.              *)
(***************************************************************************)
Shaped(m, cells) ==
  /\ DOMAIN m = {"regs", "flags", "stack", "mem", "fault"}
  /\ General \cup Vector \subseteq DOMAIN m.regs
  /\ \A p \in DOMAIN cells :
       p \in DOMAIN m.mem /\ DOMAIN m.mem[p] = {"type", "val"} /\ m.mem[p].type = cells[p].type

Kept(m, regs) == \A r \in (General \ Free) \ regs : m.regs[r] = Registers[r]

\* The machine n is the machine m but for registers that may be written,
\* flags and the values of cells.
Alike(m, n, cells) ==
  /\ Shaped(n, cells) /\ n.stack = m.stack
  /\ \A r \in General \ Free : n.regs[r] = m.regs[r]

LEMMA FreeAndKept == /\ "CX" \in General /\ "CX" \notin Free
                     /\ General \ {"AX", "DX", "R10", "R11"} = General \ Free
BY DEF General, Vector, Free

LEMMA RegisterWritten ==
  ASSUME NEW m, NEW cells, Shaped(m, cells), NEW r, NEW val
  PROVE  LET n == [m EXCEPT !.regs[r] = val] IN
         /\ Shaped(n, cells) /\ n.stack = m.stack /\ n.fault = m.fault
         /\ \A q \in General : q # r => n.regs[q] = m.regs[q]
         /\ r \in General => n.regs[r] = val
<1> DEFINE n == [m EXCEPT !.regs[r] = val]
<1>1. /\ DOMAIN n = DOMAIN m /\ n.stack = m.stack /\ n.fault = m.fault /\ n.mem = m.mem
      /\ n.regs = [m.regs EXCEPT ![r] = val]
  BY DEF Shaped
<1> HIDE DEF n
<1>2. /\ DOMAIN n.regs = DOMAIN m.regs
      /\ \A q \in DOMAIN m.regs : n.regs[q] = IF q = r THEN val ELSE m.regs[q]
  BY <1>1
<1>3. General \subseteq DOMAIN m.regs
  BY DEF Shaped
<1>4. Shaped(n, cells)
  BY <1>1, <1>2 DEF Shaped
<1>5. \A q \in General : q # r => n.regs[q] = m.regs[q]
  BY <1>2, <1>3
<1>6. r \in General => n.regs[r] = val
  BY <1>2, <1>3
<1> QED BY <1>1, <1>4, <1>5, <1>6 DEF n

CellSet(m, a, val) == [m EXCEPT !.mem[a].val = val]

LEMMA CellWritten ==
  ASSUME NEW m, NEW cells, Shaped(m, cells), NEW a, NEW val
  PROVE  LET n == CellSet(m, a, val) IN
         /\ Shaped(n, cells) /\ n.stack = m.stack /\ n.fault = m.fault /\ n.regs = m.regs
<1> DEFINE n == CellSet(m, a, val)
<1>1. /\ DOMAIN n = DOMAIN m /\ n.stack = m.stack /\ n.fault = m.fault /\ n.regs = m.regs
      /\ n.mem = [m.mem EXCEPT ![a] = [m.mem[a] EXCEPT !.val = val]]
  BY DEF Shaped, CellSet
<1> HIDE DEF n
<1>2. PICK cell : cell = [m.mem[a] EXCEPT !.val = val]
  OBVIOUS
<1>3. DOMAIN n.mem = DOMAIN m.mem /\ \A p \in DOMAIN m.mem : n.mem[p] = IF p = a THEN cell ELSE m.mem[p]
  BY <1>1, <1>2
<1>4. ASSUME NEW p \in DOMAIN cells
      PROVE  p \in DOMAIN n.mem /\ DOMAIN n.mem[p] = {"type", "val"} /\ n.mem[p].type = cells[p].type
  <2>1. p \in DOMAIN m.mem /\ DOMAIN m.mem[p] = {"type", "val"} /\ m.mem[p].type = cells[p].type
    BY DEF Shaped
  <2>2. p = a => DOMAIN cell = {"type", "val"} /\ cell.type = cells[p].type
    BY <1>2, <2>1
  <2> QED BY <1>3, <2>1, <2>2
<1>5. Shaped(n, cells)
  BY <1>1, <1>4 DEF Shaped
<1> QED BY <1>1, <1>5 DEF n

LEMMA Faulted ==
  ASSUME NEW m, NEW cells, Shaped(m, cells), NEW f
  PROVE  Alike(m, [m EXCEPT !.fault = TRUE], cells) /\ Alike(m, [m EXCEPT !.flags = f], cells)
<1>1. Alike(m, [m EXCEPT !.fault = TRUE], cells)
  BY DEF Shaped, Alike
<1>2. Alike(m, [m EXCEPT !.flags = f], cells)
  BY DEF Shaped, Alike
<1> QED BY <1>1, <1>2

LEMMA FreeWritten ==
  ASSUME NEW m, NEW cells, Shaped(m, cells), NEW r \in Free, NEW val
  PROVE  Alike(m, [m EXCEPT !.regs[r] = val], cells)
<1>1. PICK n : n = [m EXCEPT !.regs[r] = val]
  OBVIOUS
<1>2. /\ Shaped(n, cells) /\ n.stack = m.stack
      /\ \A q \in General : q # r => n.regs[q] = m.regs[q]
  BY <1>1, RegisterWritten
<1>3. Alike(m, n, cells)
  BY <1>2 DEF Alike
<1> QED BY <1>1, <1>3

LEMMA Written ==
  ASSUME NEW m, NEW cells, Shaped(m, cells), NEW o, IsReg(o) => o.reg \in Free, NEW sz, NEW val
  PROVE  Alike(m, WriteOperand(o, sz, val, m), cells)
<1>1. CASE IsReg(o)
  <2>1. PICK v : WriteOperand(o, sz, val, m) = [m EXCEPT !.regs[o.reg] = v]
    BY <1>1 DEF WriteOperand
  <2> QED BY <1>1, <2>1, FreeWritten
<1>2. CASE ~IsReg(o)
  <2>1. PICK a, v : WriteOperand(o, sz, val, m) = CellSet(m, a, v)
    BY <1>2 DEF WriteOperand, CellSet
  <2>2. PICK n : n = CellSet(m, a, v)
    OBVIOUS
  <2>3. Shaped(n, cells) /\ n.stack = m.stack /\ n.regs = m.regs
    BY <2>2, CellWritten
  <2> QED BY <2>1, <2>2, <2>3 DEF Alike
<1> QED BY <1>1, <1>2

LEMMA Divided ==
  ASSUME NEW m, NEW cells, Shaped(m, cells), NEW line
  PROVE  Alike(m, Divide(line, m), cells)
<1>1. PICK a, d : \/ Divide(line, m) = [m EXCEPT !.fault = TRUE]
                  \/ Divide(line, m) = [m EXCEPT !.regs["AX"] = a, !.regs["DX"] = d]
  BY DEF Divide
<1>2. CASE Divide(line, m) = [m EXCEPT !.fault = TRUE]
  BY <1>2, Faulted
<1>3. CASE Divide(line, m) = [m EXCEPT !.regs["AX"] = a, !.regs["DX"] = d]
  <2>1. PICK n : n = [m EXCEPT !.regs["AX"] = a]
    OBVIOUS
  <2>2. PICK w : w = [n EXCEPT !.regs["DX"] = d]
    OBVIOUS
  <2>3. Divide(line, m) = w
    BY <1>3, <2>1, <2>2
  <2>4. "AX" \in Free /\ "DX" \in Free
    BY DEF Free
  <2>5. Alike(m, n, cells)
    BY <2>1, <2>4, FreeWritten
  <2>6. Alike(n, w, cells)
    BY <2>2, <2>4, <2>5, FreeWritten DEF Alike
  <2> QED BY <2>3, <2>5, <2>6 DEF Alike
<1> QED BY <1>1, <1>2, <1>3

\* All that a line can do that is neither push nor pop.
LEMMA Effects ==
  ASSUME NEW line, NEW m, line.mn \notin {"push", "pop"}
  PROVE  \E val, sz, f :
           \/ Execute(line, m) = [m EXCEPT !.fault = TRUE]
           \/ Execute(line, m) = [m EXCEPT !.flags = f]
           \/ Execute(line, m) = [m EXCEPT !.regs["DX"] = val]
           \/ Execute(line, m) = Divide(line, m)
           \/ Execute(line, m) = m
           \/ /\ line.mn \notin {"cdq", "cqo", "jmp", "j", "label"}
              /\ Execute(line, m) = WriteOperand(line.args[Len(line.args)], sz, val, m)
BY DEF Execute, Alu, Shifts, VectorOp

LEMMA QuietLine ==
  ASSUME NEW line, Quiet(line), NEW m, NEW cells, Shaped(m, cells)
  PROVE  Alike(m, Execute(line, m), cells)
<1>1. line.mn \notin {"push", "pop"}
  BY DEF Quiet
<1>2. PICK val, sz, f :
           \/ Execute(line, m) = [m EXCEPT !.fault = TRUE]
           \/ Execute(line, m) = [m EXCEPT !.flags = f]
           \/ Execute(line, m) = [m EXCEPT !.regs["DX"] = val]
           \/ Execute(line, m) = Divide(line, m)
           \/ Execute(line, m) = m
           \/ /\ line.mn \notin {"cdq", "cqo", "jmp", "j", "label"}
              /\ Execute(line, m) = WriteOperand(line.args[Len(line.args)], sz, val, m)
  BY <1>1, Effects
<1>3. Alike(m, [m EXCEPT !.fault = TRUE], cells) /\ Alike(m, [m EXCEPT !.flags = f], cells)
  BY Faulted
<1>4. Alike(m, [m EXCEPT !.regs["DX"] = val], cells)
  <2>1. "DX" \in Free
    BY DEF Free
  <2> QED BY <2>1, FreeWritten
<1>5. Alike(m, Divide(line, m), cells)
  BY Divided
<1>6. Alike(m, m, cells)
  BY DEF Alike
<1>7. ASSUME line.mn \notin {"cdq", "cqo", "jmp", "j", "label"}
      PROVE  Alike(m, WriteOperand(line.args[Len(line.args)], sz, val, m), cells)
  <2>1. PICK o : o = line.args[Len(line.args)]
    OBVIOUS
  <2>2. IsReg(o) => o.reg \in Free
    BY <1>7, <2>1 DEF Quiet
  <2> QED BY <2>1, <2>2, Written
<1> QED BY <1>2, <1>3, <1>4, <1>5, <1>6, <1>7

(***************************************************************************)
(* While CX is borrowed.                                                   *)
(***************************************************************************)
Calm(m) == m.stack = <<>> /\ Kept(m, {})
Away(m) == ~m.fault /\ m.stack = <<Registers["CX"]>> /\ Kept(m, {"CX"})

LEMMA QuietCalm ==
  ASSUME NEW line, Quiet(line), NEW m, NEW cells, Shaped(m, cells), Calm(m)
  PROVE  Shaped(Execute(line, m), cells) /\ Calm(Execute(line, m))
<1>1. PICK n : n = Execute(line, m)
  OBVIOUS
<1>2. Alike(m, n, cells)
  BY <1>1, QuietLine
<1> QED BY <1>1, <1>2 DEF Alike, Calm, Kept

\* An operand that has a cell is there.
LEMMA CellThere ==
  ASSUME NEW m, NEW cells, Shaped(m, cells), NEW o, NEW t, InCell(o, t, cells),
         NEW sz, sz # "sd", sz = "q" => t = "quadword", NEW writing
  PROVE  ~BadAccess(o, sz, writing, m)
<1>1. PICK place : place = IF o.k = "data" THEN o.place ELSE Wrap(0 + o.offset, LongBits)
  OBVIOUS
<1>2. /\ Slot(o) /\ (o.k = "memory" => o.base = "BP")
      /\ place \in DOMAIN cells /\ ~isDouble(cells[place].type)
      /\ t = "quadword" => Bits(cells[place].type) # IntBits
  BY <1>1 DEF InCell
<1>3. AddressOf(o, m) = place
  BY <1>1, <1>2 DEF AddressOf, Slot
<1>4. place \in DOMAIN m.mem /\ m.mem[place].type = cells[place].type
  BY <1>2 DEF Shaped
<1>5. PICK a, type : a = AddressOf(o, m) /\ type = m.mem[a].type
  OBVIOUS
<1>6. a \in DOMAIN m.mem /\ ~isDouble(type) /\ (sz = "q" => Bits(type) # IntBits)
  BY <1>2, <1>3, <1>4, <1>5
<1>7. BadAccess(o, sz, writing, m) =>
        \/ a \notin DOMAIN m.mem
        \/ isDouble(type) # (sz = "sd")
        \/ sz = "q" /\ Bits(type) = IntBits
  BY <1>5 DEF BadAccess
<1>8. isDouble(type) \in BOOLEAN
  BY DEF isDouble
<1> QED BY <1>6, <1>7, <1>8

LEMMA RegisterThere ==
  ASSUME NEW m, NEW r, NEW sz, NEW writing
  PROVE  ~BadAccess(Reg(r), sz, writing, m)
BY DEF BadAccess, IsMem, Reg, createRegisterOperand

LEMMA Pushed ==
  ASSUME NEW m, NEW cells, Shaped(m, cells), Calm(m), ~m.fault
  PROVE  LET n == Execute(Line("push", "q", <<Reg("CX")>>), m) IN Shaped(n, cells) /\ Away(n)
<1>1. PICK line : line = Line("push", "q", <<Reg("CX")>>)
  OBVIOUS
<1>2. line.mn = "push" /\ line.args = <<Reg("CX")>> /\ line.sz = "q"
  BY <1>1 DEF Line
<1>3. line.args[1] = Reg("CX") /\ line.args[Len(line.args)] = Reg("CX")
  BY <1>2
<1>4. ~Faults(line, m)
  BY <1>3, RegisterThere DEF Faults
<1>5. ReadOperand(Reg("CX"), "q", m) = m.regs["CX"]
  <2>1. PICK o : o = Reg("CX")
    OBVIOUS
  <2>2. IsReg(o) /\ ~IsImm(o) /\ ~IsMem(o) /\ o.reg = "CX"
    BY <2>1 DEF IsImm, IsReg, IsMem, Reg, createRegisterOperand
  <2>3. ReadOperand(o, "q", m) = Part(m.regs["CX"], "q")
    BY <2>2 DEF ReadOperand
  <2>4. \A x : Part(x, "q") = x
    BY DEF Part
  <2> QED BY <2>1, <2>3, <2>4
<1>6. SrcSize(line) = "q"
  BY <1>2 DEF SrcSize, VectorOp, Shifts
<1>7. Execute(line, m) = [m EXCEPT !.stack = Append(m.stack, m.regs["CX"])]
  BY <1>2, <1>3, <1>4, <1>5, <1>6 DEF Execute, Alu, Shifts, VectorOp
<1>8. m.regs["CX"] = Registers["CX"] /\ m.stack = <<>>
  BY FreeAndKept DEF Calm, Kept
<1>9. Append(m.stack, m.regs["CX"]) = <<Registers["CX"]>>
  BY <1>8
<1>10. PICK n : n = Execute(line, m)
  OBVIOUS
<1>11. /\ DOMAIN n = DOMAIN m /\ n.stack = <<Registers["CX"]>> /\ n.fault = m.fault
       /\ n.mem = m.mem /\ n.regs = m.regs
  BY <1>7, <1>9, <1>10 DEF Shaped
<1>12. Shaped(n, cells) /\ Away(n)
  BY <1>11 DEF Shaped, Away, Calm, Kept
<1> QED BY <1>1, <1>10, <1>12

LEMMA CountMoved ==
  ASSUME NEW m, NEW cells, Shaped(m, cells), Away(m), NEW count, InCell(count, "longword", cells)
  PROVE  LET n == Execute(Line("mov", "l", <<count, Reg("CX")>>), m) IN Shaped(n, cells) /\ Away(n)
<1>1. PICK line : line = Line("mov", "l", <<count, Reg("CX")>>)
  OBVIOUS
<1>2. line.mn = "mov" /\ line.args = <<count, Reg("CX")>> /\ line.sz = "l"
  BY <1>1 DEF Line
<1>3. line.args[1] = count /\ line.args[Len(line.args)] = Reg("CX")
  BY <1>2
<1>4. SrcSize(line) = "l"
  BY <1>2 DEF SrcSize, VectorOp, Shifts
<1>5. ~BadAccess(count, "l", FALSE, m)
  BY CellThere
<1>6. ~Faults(line, m)
  BY <1>3, <1>4, <1>5, RegisterThere DEF Faults
<1>7. PICK val : Execute(line, m) = WriteOperand(Reg("CX"), DstSize(line), val, m)
  BY <1>2, <1>3, <1>6 DEF Execute
<1>8. PICK v : WriteOperand(Reg("CX"), DstSize(line), val, m) = [m EXCEPT !.regs["CX"] = v]
  BY DEF WriteOperand, IsReg, Reg, createRegisterOperand
<1>9. PICK n : n = [m EXCEPT !.regs["CX"] = v]
  OBVIOUS
<1>10. /\ Shaped(n, cells) /\ n.stack = m.stack /\ n.fault = m.fault
       /\ \A q \in General : q # "CX" => n.regs[q] = m.regs[q]
  BY <1>9, RegisterWritten
<1>11. Away(n)
  BY <1>10 DEF Away, Kept
<1> QED BY <1>1, <1>7, <1>8, <1>9, <1>10, <1>11

LEMMA Shifted ==
  ASSUME NEW m, NEW cells, Shaped(m, cells), Away(m), NEW dst, NEW t, InCell(dst, t, cells),
         NEW line, line.mn \in Shifts, line.sz \in {"l", "q"}, line.args = <<Reg("CX"), dst>>,
         line.sz = "q" => t = "quadword"
  PROVE  LET n == Execute(line, m) IN Shaped(n, cells) /\ Away(n)
<1>1. line.args[1] = Reg("CX") /\ line.args[Len(line.args)] = dst
  <2>1. <<Reg("CX"), dst>>[1] = Reg("CX") /\ <<Reg("CX"), dst>>[Len(<<Reg("CX"), dst>>)] = dst
    OBVIOUS
  <2> QED BY <2>1, Zenon
<1>2. DstSize(line) = line.sz
  BY DEF DstSize, VectorOp, Shifts
<1>3. \A w : ~BadAccess(dst, line.sz, w, m)
  BY CellThere
<1>4. ~Faults(line, m)
  BY <1>1, <1>2, <1>3, RegisterThere DEF Faults
<1>5. PICK val : Execute(line, m) = WriteOperand(dst, DstSize(line), val, m)
  BY <1>1, <1>4 DEF Execute, Alu, Shifts, VectorOp
<1>6. ~IsReg(dst)
  BY DEF InCell, Slot, IsReg
<1>7. PICK a, v : WriteOperand(dst, DstSize(line), val, m) = CellSet(m, a, v)
  BY <1>6 DEF WriteOperand, CellSet
<1>8. PICK n : n = CellSet(m, a, v)
  OBVIOUS
<1>9. Shaped(n, cells) /\ n.stack = m.stack /\ n.fault = m.fault /\ n.regs = m.regs
  BY <1>8, CellWritten
<1>10. Away(n)
  BY <1>9 DEF Away, Kept
<1> QED BY <1>5, <1>7, <1>8, <1>9, <1>10

LEMMA Popped ==
  ASSUME NEW m, NEW cells, Shaped(m, cells), Away(m)
  PROVE  LET n == Execute(Line("pop", "q", <<Reg("CX")>>), m) IN Shaped(n, cells) /\ Calm(n)
<1>1. PICK line : line = Line("pop", "q", <<Reg("CX")>>)
  OBVIOUS
<1>2. line.mn = "pop" /\ line.args = <<Reg("CX")>> /\ line.sz = "q"
  BY <1>1 DEF Line
<1>3. line.args[1] = Reg("CX") /\ line.args[Len(line.args)] = Reg("CX")
  BY <1>2
<1>4. ~Faults(line, m)
  BY <1>3, RegisterThere DEF Faults
<1>5. PICK w : w = [m EXCEPT !.stack = SubSeq(m.stack, 1, Len(m.stack) - 1)]
  OBVIOUS
<1>6. PICK val : val = m.stack[Len(m.stack)]
  OBVIOUS
<1>7. Execute(line, m) = WriteOperand(Reg("CX"), "q", val, w)
  BY <1>2, <1>3, <1>4, <1>5, <1>6 DEF Execute, Alu, Shifts, VectorOp
<1>8. WriteOperand(Reg("CX"), "q", val, w) = [w EXCEPT !.regs["CX"] = val]
  BY DEF WriteOperand, IsReg, Reg, createRegisterOperand
<1>9. m.stack = <<Registers["CX"]>>
  BY DEF Away
<1>10. PICK cx : cx = Registers["CX"]
  OBVIOUS
<1>11. Len(<<cx>>) = 1 /\ <<cx>>[1] = cx /\ SubSeq(<<cx>>, 1, 0) = <<>>
  OBVIOUS
<1>12. val = cx /\ SubSeq(m.stack, 1, Len(m.stack) - 1) = <<>>
  BY <1>6, <1>9, <1>10, <1>11
<1>13. /\ DOMAIN w = DOMAIN m /\ w.stack = <<>> /\ w.fault = m.fault
       /\ w.mem = m.mem /\ w.regs = m.regs
  BY <1>5, <1>12 DEF Shaped
<1>14. Shaped(w, cells)
  BY <1>13 DEF Shaped
<1>15. PICK n : n = [w EXCEPT !.regs["CX"] = val]
  OBVIOUS
<1>16. /\ Shaped(n, cells) /\ n.stack = w.stack
       /\ \A q \in General : q # "CX" => n.regs[q] = w.regs[q]
       /\ "CX" \in General => n.regs["CX"] = val
  BY <1>14, <1>15, RegisterWritten
<1>17. Calm(n)
  BY <1>10, <1>12, <1>13, <1>16, FreeAndKept DEF Calm, Away, Kept
<1> QED BY <1>1, <1>7, <1>8, <1>15, <1>16, <1>17

\* From any line of a text that borrows to the next.
Between(m, n, b) == IF n \in {b + 2, b + 3, b + 4} THEN Away(m) ELSE Calm(m)

LEMMA BorrowingStep ==
  ASSUME NEW text, NEW cells, NEW b, NEW t, NEW count, NEW dst,
         BorrowingText(text, cells, b, t, count, dst),
         NEW n \in Nat \ {0}, n <= Len(text), NEW m, Shaped(m, cells), ~m.fault, Between(m, n, b)
  PROVE  /\ text[n].mn \notin {"jmp", "j"}
         /\ Shaped(Execute(text[n], m), cells) /\ Between(Execute(text[n], m), n + 1, b)
<1>1. b \in Nat /\ Len(text) = b + 4
  BY DEF BorrowingText
<1>2. n \in 1 .. b \/ n = b + 1 \/ n = b + 2 \/ n = b + 3 \/ n = b + 4
  BY <1>1
<1>3. PICK w : w = Execute(text[n], m)
  OBVIOUS
<1>4. CASE n \in 1 .. b
  <2>1. Quiet(text[n]) /\ text[n].mn \in {"mov", "movsd"}
    BY <1>4 DEF BorrowingText
  <2>2. n \notin {b + 2, b + 3, b + 4} /\ n + 1 \notin {b + 2, b + 3, b + 4}
    BY <1>1, <1>4
  <2>3. Shaped(w, cells) /\ Calm(w)
    BY <1>3, <2>1, <2>2, QuietCalm DEF Between
  <2> QED BY <1>3, <2>1, <2>2, <2>3 DEF Between
<1>5. CASE n = b + 1
  <2>1. n \notin {b + 2, b + 3, b + 4} /\ n + 1 \in {b + 2, b + 3, b + 4}
    BY <1>1, <1>5
  <2>2. text[n] = Line("push", "q", <<Reg("CX")>>)
    BY <1>5 DEF BorrowingText
  <2>3. Shaped(w, cells) /\ Away(w)
    BY <1>3, <2>1, <2>2, Pushed DEF Between
  <2> QED BY <1>3, <2>1, <2>2, <2>3 DEF Between, Line
<1>6. CASE n = b + 2
  <2>1. n \in {b + 2, b + 3, b + 4} /\ n + 1 \in {b + 2, b + 3, b + 4}
    BY <1>1, <1>6
  <2>2. text[n] = Line("mov", "l", <<count, Reg("CX")>>) /\ InCell(count, "longword", cells)
    BY <1>6 DEF BorrowingText
  <2>3. Shaped(w, cells) /\ Away(w)
    BY <1>3, <2>1, <2>2, CountMoved DEF Between
  <2> QED BY <1>3, <2>1, <2>2, <2>3 DEF Between, Line
<1>7. CASE n = b + 3
  <2>1. n \in {b + 2, b + 3, b + 4} /\ n + 1 \in {b + 2, b + 3, b + 4}
    BY <1>1, <1>7
  <2>2. /\ text[n].mn \in Shifts /\ text[n].sz \in {"l", "q"} /\ text[n].args = <<Reg("CX"), dst>>
        /\ (text[n].sz = "q" => t = "quadword") /\ InCell(dst, t, cells)
    BY <1>7 DEF BorrowingText
  <2>3. Shaped(w, cells) /\ Away(w)
    BY <1>3, <2>1, <2>2, Shifted DEF Between
  <2> QED BY <1>3, <2>1, <2>2, <2>3 DEF Between, Shifts
<1>8. CASE n = b + 4
  <2>1. n \in {b + 2, b + 3, b + 4} /\ n + 1 \notin {b + 2, b + 3, b + 4}
    BY <1>1, <1>8
  <2>2. text[n] = Line("pop", "q", <<Reg("CX")>>)
    BY <1>8 DEF BorrowingText
  <2>3. Shaped(w, cells) /\ Calm(w)
    BY <1>3, <2>1, <2>2, Popped DEF Between
  <2> QED BY <1>3, <2>1, <2>2, <2>3 DEF Between, Line
<1> QED BY <1>2, <1>4, <1>5, <1>6, <1>7, <1>8

(***************************************************************************)
(* The invariant.  What the parsers leave, the fix-up makes right; what it *)
(* leaves, the generator prints right; while the text runs, CX is away     *)
(* only between the push and the pop.                                      *)
(***************************************************************************)
PhaseRight == phase \in {"tacky", "assembly", "fixed", "running", "done"}

CodeRight ==
  /\ phase = "assembly" => \E lines, f : lines = code /\ f = FixedCode(lines) /\ FixedRight(f)
  /\ phase = "fixed" => \E lines : lines = code /\ FixedRight(lines)
  /\ phase \in {"running", "done"} =>
       TextRight(code, case.mem) /\ (AllAssembled(code) <=> ~StepsDouble)

RunRight(text, cells, n, m) ==
  \/ QuietText(text) /\ Calm(m)
  \/ /\ AllAssembled(text)
     /\ \E b, t, count, dst : BorrowingText(text, cells, b, t, count, dst) /\ Between(m, n, b)

MachineRight ==
  /\ Shaped(machine, case.mem) /\ pc \in Nat \ {0}
  /\ phase \in {"tacky", "assembly", "fixed"} => pc = 1 /\ Calm(machine)
  /\ phase = "running" => RunRight(code, case.mem, pc, machine)
  /\ phase = "done" => Calm(machine)

IInv == Compiled /\ PhaseRight /\ CodeRight /\ MachineRight

\* Nothing that depends on the case changes with the step.
LEMMA SameOperand ==
  ASSUME case' = case, NEW o
  PROVE  resolvePseudo(o)' = resolvePseudo(o)
BY DEF resolvePseudo, symbols

LEMMA SameInPlace ==
  ASSUME case' = case, NEW line
  PROVE  InPlace(line)' = InPlace(line)
<1>1. \A o : resolvePseudo(o)' = resolvePseudo(o)
  BY SameOperand
<1>2. [n \in DOMAIN line.args |-> resolvePseudo(line.args[n])'] =
        [n \in DOMAIN line.args |-> resolvePseudo(line.args[n])]
  BY <1>1
<1> QED BY <1>2 DEF InPlace

LEMMA SameFixed ==
  ASSUME case' = case, NEW line
  PROVE  Fixed(line)' = Fixed(line)
<1>1. InPlace(line)' = InPlace(line)
  BY SameInPlace
<1> QED BY <1>1 DEF Fixed

LEMMA SameFixedCode ==
  ASSUME case' = case, NEW lines
  PROVE  FixedCode(lines)' = FixedCode(lines)
<1>1. \A line : Fixed(line)' = Fixed(line)
  BY SameFixed
<1>2. [n \in DOMAIN lines |-> Fixed(lines[n])'] = [n \in DOMAIN lines |-> Fixed(lines[n])]
  BY <1>1
<1> QED BY <1>2 DEF FixedCode

LEMMA SameStepsDouble ==
  ASSUME case' = case
  PROVE  StepsDouble' <=> StepsDouble
BY DEF StepsDouble, isDoubleOperand, convertTACKYTypeToASMType, inst, symbols

LEMMA SameFixedRight ==
  ASSUME case' = case, NEW lines
  PROVE  FixedRight(lines)' <=> FixedRight(lines)
<1>1. \A b, t, type, count, dst :
         BorrowsAt(lines, b, t, type, count, dst)' <=> BorrowsAt(lines, b, t, type, count, dst)
  BY DEF BorrowsAt
<1> QED BY <1>1, SameStepsDouble DEF FixedRight

LEMMA SameCompiled ==
  ASSUME case' = case
  PROVE  Compiled' <=> Compiled
BY DEF Compiled

LEMMA InitRight == Init => IInv
<1> SUFFICES ASSUME Init PROVE IInv
  OBVIOUS
<1>1. PICK shape \in Shape : case \in CaseOf(shape)
  BY DEF Init
<1>2. Compiled
  BY <1>1, Cases DEF Compiled
<1>3. /\ phase = "tacky" /\ pc = 1
      /\ machine = [regs |-> Registers, flags |-> Flags(FALSE, FALSE, FALSE), stack |-> <<>>,
                    mem |-> case.mem, fault |-> FALSE]
  BY DEF Init
<1>4. /\ DOMAIN machine = {"regs", "flags", "stack", "mem", "fault"}
      /\ machine.regs = Registers /\ machine.stack = <<>> /\ machine.mem = case.mem
  BY <1>3
<1>5. DOMAIN Registers = General \cup Vector
  BY DEF Registers
<1>6. \A p \in DOMAIN case.mem : DOMAIN case.mem[p] = {"type", "val"}
  <2>1. case.mem = [p \in DOMAIN case.mem |-> [type |-> case.mem[p].type, val |-> case.mem[p].val]]
    BY <1>2 DEF Compiled, LaidInMemory
  <2>2. \A p \in DOMAIN case.mem :
          case.mem[p] = [type |-> case.mem[p].type, val |-> case.mem[p].val]
    BY <2>1, Zenon
  <2>3. \A x, y : DOMAIN [type |-> x, val |-> y] = {"type", "val"}
    OBVIOUS
  <2> QED BY <2>2, <2>3
<1>7. Shaped(machine, case.mem) /\ Calm(machine)
  BY <1>4, <1>5, <1>6 DEF Shaped, Calm, Kept
<1> QED BY <1>2, <1>3, <1>7 DEF IInv, PhaseRight, CodeRight, MachineRight

LEMMA ParsedRight ==
  ASSUME IInv, parseASMInstruction
  PROVE  IInv'
<1>1. /\ phase = "tacky" /\ phase' = "assembly" /\ code' = instructionHandlers(inst)
      /\ case' = case /\ pc' = pc /\ machine' = machine
  BY DEF parseASMInstruction
<1>2. PICK lines : lines = instructionHandlers(inst)
  OBVIOUS
<1>3. PICK f : f = FixedCode(lines)
  OBVIOUS
<1>4. Compiled /\ Compiled'
  BY <1>1, SameCompiled DEF IInv
<1>5. FixedRight(f)
  BY <1>2, <1>3, <1>4, HandlersRight, PassRight
<1>6. f = FixedCode(lines)' /\ FixedRight(f)'
  BY <1>1, <1>3, <1>5, SameFixedCode, SameFixedRight
<1>7. CodeRight'
  <2>1. lines = code'
    BY <1>1, <1>2
  <2>2. phase' # "fixed" /\ phase' \notin {"running", "done"}
    BY <1>1
  <2> QED BY <1>6, <2>1, <2>2 DEF CodeRight
<1>8. MachineRight'
  BY <1>1 DEF IInv, MachineRight
<1> QED BY <1>1, <1>4, <1>7, <1>8 DEF IInv, PhaseRight

LEMMA FixedUpRight ==
  ASSUME IInv, pseudoToStackPositions
  PROVE  IInv'
<1>1. /\ phase = "assembly" /\ phase' = "fixed" /\ code' = FixedCode(code)
      /\ case' = case /\ pc' = pc /\ machine' = machine
  BY DEF pseudoToStackPositions, FixedCode
<1>2. PICK lines, f : lines = code /\ f = FixedCode(lines) /\ FixedRight(f)
  BY <1>1 DEF IInv, CodeRight
<1>3. Compiled'
  BY <1>1, SameCompiled DEF IInv
<1>4. FixedRight(f)'
  BY <1>1, <1>2, SameFixedRight
<1>5. CodeRight'
  <2>1. f = code'
    BY <1>1, <1>2
  <2>2. phase' # "assembly" /\ phase' \notin {"running", "done"}
    BY <1>1
  <2> QED BY <1>4, <2>1, <2>2 DEF CodeRight
<1>6. MachineRight'
  BY <1>1 DEF IInv, MachineRight
<1> QED BY <1>1, <1>3, <1>5, <1>6 DEF IInv, PhaseRight

\* The constants of the pool are new cells; what was there stays.
LEMMA PoolAdded ==
  ASSUME NEW m, NEW cells, Shaped(m, cells), NEW pool, NEW constants
  PROVE  LET n == [m EXCEPT !.mem = [place \in DOMAIN m.mem \cup pool |->
                     IF place \in DOMAIN m.mem THEN m.mem[place] ELSE constants[place]]] IN
         Shaped(n, cells) /\ n.stack = m.stack /\ n.regs = m.regs
<1> DEFINE mem == [place \in DOMAIN m.mem \cup pool |->
                     IF place \in DOMAIN m.mem THEN m.mem[place] ELSE constants[place]]
           n == [m EXCEPT !.mem = mem]
<1>1. DOMAIN mem = DOMAIN m.mem \cup pool /\ \A p \in DOMAIN m.mem : mem[p] = m.mem[p]
  OBVIOUS
<1> HIDE DEF mem
<1>2. DOMAIN n = DOMAIN m /\ n.stack = m.stack /\ n.regs = m.regs /\ n.mem = mem
  BY DEF Shaped
<1> HIDE DEF n
<1>3. Shaped(n, cells)
  BY <1>1, <1>2 DEF Shaped
<1> QED BY <1>2, <1>3 DEF n, mem

LEMMA GeneratedRight ==
  ASSUME IInv, generateASMFile
  PROVE  IInv'
<1>1. /\ phase = "fixed" /\ phase' = "running" /\ code' = Text(code)
      /\ case' = case /\ pc' = pc
  BY DEF generateASMFile, Text
<1>2. PICK lines : lines = code /\ FixedRight(lines)
  BY <1>1 DEF IInv, CodeRight
<1>3. PICK text : text = Text(lines)
  OBVIOUS
<1>4. PICK cells : cells = case.mem
  OBVIOUS
<1>5. TextRight(text, cells) /\ (AllAssembled(text) <=> ~StepsDouble)
  BY <1>2, <1>3, <1>4, TextOf
<1>6. text = code' /\ cells = case'.mem /\ (StepsDouble' <=> StepsDouble)
  BY <1>1, <1>2, <1>3, <1>4, SameStepsDouble
<1>7. Compiled'
  BY <1>1, SameCompiled DEF IInv
<1>8. CodeRight'
  <2>1. phase' # "assembly" /\ phase' # "fixed"
    BY <1>1
  <2> QED BY <1>5, <1>6, <2>1 DEF CodeRight
<1>9. PICK m, w : m = machine /\ w = machine'
  OBVIOUS
<1>10. Shaped(m, cells) /\ pc = 1 /\ Calm(m)
  BY <1>1, <1>4, <1>9 DEF IInv, MachineRight
<1>11. Shaped(w, cells) /\ w.stack = m.stack /\ w.regs = m.regs
  <2>1. PICK pool, constants : pool = Pool /\ constants = addConstantsAsTopLevels
    OBVIOUS
  <2>2. w = [m EXCEPT !.mem = [place \in DOMAIN m.mem \cup pool |->
                IF place \in DOMAIN m.mem THEN m.mem[place] ELSE constants[place]]]
    BY <1>9, <2>1 DEF generateASMFile
  <2> QED BY <1>10, <2>2, PoolAdded
<1>12. Calm(w)
  BY <1>10, <1>11 DEF Calm, Kept
<1>13. RunRight(text, cells, 1, w)
  <2>1. CASE QuietText(text)
    BY <1>12, <2>1 DEF RunRight
  <2>2. CASE ~QuietText(text)
    <3>1. AllAssembled(text) /\ Borrowing(text, cells)
      BY <1>5, <2>2 DEF TextRight
    <3>2. PICK b, t, count, dst : BorrowingText(text, cells, b, t, count, dst)
      BY <3>1 DEF Borrowing
    <3>3. b \in Nat
      BY <3>2 DEF BorrowingText
    <3>4. Between(w, 1, b)
      BY <1>12, <3>3 DEF Between
    <3> QED BY <3>1, <3>2, <3>4 DEF RunRight
  <2> QED BY <2>1, <2>2
<1>14. MachineRight'
  <2>1. pc' = 1 /\ w = machine'
    BY <1>1, <1>9, <1>10
  <2> QED BY <1>1, <1>6, <1>11, <1>13, <2>1 DEF MachineRight
<1> QED BY <1>1, <1>7, <1>8, <1>14 DEF IInv, PhaseRight

\* A text that stops has CX back.
LEMMA Stopped ==
  ASSUME NEW text, NEW cells, IsList(text), NEW n \in Nat \ {0}, NEW m, RunRight(text, cells, n, m),
         n > Len(text) \/ m.fault \/ ~Assembles(text[n])
  PROVE  Calm(m)
<1>1. CASE QuietText(text) /\ Calm(m)
  BY <1>1
<1>2. CASE ~(QuietText(text) /\ Calm(m))
  <2>1. PICK b, t, count, dst : /\ AllAssembled(text) /\ BorrowingText(text, cells, b, t, count, dst)
                                /\ Between(m, n, b)
    BY <1>2 DEF RunRight
  <2>2. b \in Nat /\ Len(text) = b + 4
    BY <2>1 DEF BorrowingText
  <2>3. ASSUME n \in {b + 2, b + 3, b + 4} PROVE FALSE
    <3>1. n \in DOMAIN text /\ ~(n > Len(text))
      BY <2>2, <2>3 DEF IsList
    <3>2. ~m.fault
      BY <2>1, <2>3 DEF Between, Away
    <3> QED BY <2>1, <3>1, <3>2 DEF AllAssembled
  <2> QED BY <2>1, <2>3 DEF Between
<1> QED BY <1>1, <1>2

LEMMA Executed ==
  ASSUME NEW text, NEW cells, IsList(text), NEW n \in Nat \ {0}, n <= Len(text), NEW m,
         Shaped(m, cells), ~m.fault, RunRight(text, cells, n, m)
  PROVE  /\ Shaped(Execute(text[n], m), cells)
         /\ RunRight(text, cells, n + 1, Execute(text[n], m))
<1>1. PICK w : w = Execute(text[n], m)
  OBVIOUS
<1>2. CASE QuietText(text) /\ Calm(m)
  <2>1. Quiet(text[n])
    BY <1>2 DEF QuietText, IsList
  <2>2. Shaped(w, cells) /\ Calm(w)
    BY <1>1, <1>2, <2>1, QuietCalm
  <2> QED BY <1>1, <1>2, <2>2 DEF RunRight
<1>3. CASE ~(QuietText(text) /\ Calm(m))
  <2>1. PICK b, t, count, dst : /\ AllAssembled(text) /\ BorrowingText(text, cells, b, t, count, dst)
                                /\ Between(m, n, b)
    BY <1>3 DEF RunRight
  <2>2. Shaped(w, cells) /\ Between(w, n + 1, b)
    BY <1>1, <2>1, BorrowingStep
  <2> QED BY <1>1, <2>1, <2>2 DEF RunRight
<1> QED BY <1>2, <1>3

\* Only a text that does not borrow jumps.
LEMMA Jumped ==
  ASSUME NEW text, NEW cells, IsList(text), NEW n \in Nat \ {0}, n <= Len(text), NEW m,
         Shaped(m, cells), ~m.fault, RunRight(text, cells, n, m), text[n].mn \in {"jmp", "j"}
  PROVE  QuietText(text) /\ Calm(m)
<1> SUFFICES ASSUME ~(QuietText(text) /\ Calm(m)) PROVE FALSE
  OBVIOUS
<1>1. PICK b, t, count, dst : BorrowingText(text, cells, b, t, count, dst) /\ Between(m, n, b)
  BY DEF RunRight
<1> QED BY <1>1, BorrowingStep

LEMMA RanRight ==
  ASSUME IInv, Run
  PROVE  IInv'
<1>1. phase = "running" /\ case' = case /\ code' = code
  BY DEF Run
<1>2. PICK text, cells, n, m : text = code /\ cells = case.mem /\ n = pc /\ m = machine
  OBVIOUS
<1>3. /\ Shaped(m, cells) /\ n \in Nat \ {0} /\ RunRight(text, cells, n, m)
      /\ TextRight(text, cells) /\ IsList(text) /\ (AllAssembled(text) <=> ~StepsDouble)
  BY <1>1, <1>2 DEF IInv, MachineRight, CodeRight, TextRight
<1>4. Compiled'
  BY <1>1, SameCompiled DEF IInv
<1>5. text = code' /\ cells = case'.mem /\ (StepsDouble' <=> StepsDouble)
  BY <1>1, <1>2, SameStepsDouble
<1>6. phase' \in {"running", "done"}
  BY <1>1 DEF Run
<1>7. CodeRight'
  <2>1. phase' # "assembly" /\ phase' # "fixed"
    BY <1>6
  <2> QED BY <1>3, <1>5, <2>1 DEF CodeRight
<1>8. CASE n > Len(text) \/ m.fault \/ ~Assembles(text[n])
  <2>1. phase' = "done" /\ pc' = n /\ machine' = m
    BY <1>2, <1>8 DEF Run
  <2>2. Calm(m)
    BY <1>3, <1>8, Stopped
  <2>3. MachineRight'
    BY <1>3, <1>5, <2>1, <2>2 DEF MachineRight
  <2> QED BY <1>4, <1>6, <1>7, <2>3 DEF IInv, PhaseRight
<1>9. CASE ~(n > Len(text) \/ m.fault \/ ~Assembles(text[n])) /\ ~Jumps(text[n])
  <2>1. phase' = "running" /\ pc' = n + 1 /\ machine' = Execute(text[n], m)
    BY <1>1, <1>2, <1>9 DEF Run
  <2>2. n <= Len(text)
    BY <1>3, <1>9 DEF IsList
  <2>3. PICK w : w = Execute(text[n], m)
    OBVIOUS
  <2>4. Shaped(w, cells) /\ RunRight(text, cells, n + 1, w)
    BY <1>3, <1>9, <2>2, <2>3, Executed
  <2>5. w = machine' /\ n + 1 \in Nat \ {0}
    BY <1>3, <2>1, <2>3
  <2>6. MachineRight'
    BY <1>5, <2>1, <2>4, <2>5 DEF MachineRight
  <2> QED BY <1>4, <1>6, <1>7, <2>6 DEF IInv, PhaseRight
<1>10. CASE ~(n > Len(text) \/ m.fault \/ ~Assembles(text[n])) /\ Jumps(text[n])
  <2>1. PICK there : there = Target(LabelOf(text[n]))
    OBVIOUS
  <2>2. /\ machine' = m
        /\ IF there = {} THEN phase' = "done" /\ pc' = n
           ELSE phase' = "running" /\ pc' = CHOOSE l \in there : TRUE
    BY <1>1, <1>2, <1>10, <2>1 DEF Run
  <2>3. n <= Len(text)
    BY <1>3, <1>10 DEF IsList
  <2>4. text[n].mn \in {"jmp", "j"}
    BY <1>10 DEF Jumps
  <2>5. QuietText(text) /\ Calm(m)
    BY <1>3, <1>10, <2>3, <2>4, Jumped
  <2>6. RunRight(text, cells, pc', m)
    BY <2>5 DEF RunRight
  <2>7. pc' \in Nat \ {0}
    <3>1. there \subseteq Nat \ {0}
      BY <1>2, <1>3, <2>1 DEF Target, IsList
    <3> QED BY <1>3, <2>2, <3>1
  <2>8. MachineRight'
    BY <1>3, <1>5, <2>2, <2>5, <2>6, <2>7 DEF MachineRight
  <2> QED BY <1>4, <1>6, <1>7, <2>8 DEF IInv, PhaseRight
<1> QED BY <1>8, <1>9, <1>10

LEMMA StutterRight ==
  ASSUME IInv, UNCHANGED vars
  PROVE  IInv'
<1>1. /\ case' = case /\ phase' = phase /\ code' = code /\ pc' = pc /\ machine' = machine
  BY DEF vars
<1>2. Compiled'
  BY <1>1, SameCompiled DEF IInv
<1>3. MachineRight' /\ PhaseRight'
  BY <1>1 DEF IInv, MachineRight, PhaseRight
<1>4. CASE phase = "assembly"
  <2>1. PICK lines, f : lines = code /\ f = FixedCode(lines) /\ FixedRight(f)
    BY <1>4 DEF IInv, CodeRight
  <2>2. lines = code' /\ f = FixedCode(lines)' /\ FixedRight(f)'
    BY <1>1, <2>1, SameFixedCode, SameFixedRight
  <2> QED BY <1>1, <1>2, <1>3, <1>4, <2>2 DEF IInv, CodeRight
<1>5. CASE phase = "fixed"
  <2>1. PICK lines : lines = code /\ FixedRight(lines)
    BY <1>5 DEF IInv, CodeRight
  <2>2. lines = code' /\ FixedRight(lines)'
    BY <1>1, <2>1, SameFixedRight
  <2> QED BY <1>1, <1>2, <1>3, <1>5, <2>2 DEF IInv, CodeRight
<1>6. CASE phase \notin {"assembly", "fixed"}
  <2>1. StepsDouble' <=> StepsDouble
    BY <1>1, SameStepsDouble
  <2>2. CodeRight'
    BY <1>1, <1>6, <2>1 DEF IInv, CodeRight
  <2> QED BY <1>2, <1>3, <2>2 DEF IInv
<1> QED BY <1>4, <1>5, <1>6

LEMMA Inductive == Spec => []IInv
<1>1. Init => IInv
  BY InitRight
<1>2. IInv /\ [Next]_vars => IInv'
  BY ParsedRight, FixedUpRight, GeneratedRight, RanRight, StutterRight DEF Next
<1> QED BY <1>1, <1>2, PTL DEF Spec

(***************************************************************************)
(* The theorems.                                                           *)
(***************************************************************************)
\* For all sizes of words and all instructions: whatever mix of constants,
\* frame slots and static data the operands are, each line of the text has a
\* form the assembler knows, unless a double is counted up or down, and then
\* some line has none.  (fixMov .. fixCmp, printInstructionsToASMFile)
THEOREM AllAssembleAlways == Spec => []AllAssemble
<1>1. IInv => AllAssemble
  BY DEF IInv, CodeRight, AllAssemble, AllAssembled
<1> QED BY <1>1, Inductive, PTL

\* For all sizes of words and all instructions: when the text has run, to its
\* end, to a jump out of it or to a fault, the stack is empty again and every
\* register that is not scratch, CX with the arguments of a call under
\* construction among them, holds what it held.  (fixShift)
THEOREM BorrowedBackAlways == Spec => []BorrowedBack
<1>1. IInv => BorrowedBack
  <2> SUFFICES ASSUME IInv, phase = "done"
               PROVE  /\ machine.stack = <<>>
                      /\ \A r \in General \ {"AX", "DX", "R10", "R11"} : machine.regs[r] = Registers[r]
    BY DEF BorrowedBack
  <2>1. Calm(machine)
    BY DEF IInv, MachineRight
  <2> QED BY <2>1, FreeAndKept DEF Calm, Kept
<1> QED BY <1>1, Inductive, PTL

=============================================================================
