------------------------------- MODULE Machine -------------------------------
(***************************************************************************)
(* The processor and its assembler, as far as the compiler uses them: the  *)
(* forms of instructions that can be assembled, and what they do.  A line  *)
(* of assembly is a mnemonic, an operand size and operands in the order of *)
(* the text, the destination last.                                         *)
(*                                                                         *)
(* Sizes: "l" is IntBits, "q" is LongBits, "b" one bit (the lowest, which  *)
(* is all that setcc needs), "sd" a double.                                *)
(***************************************************************************)
EXTENDS Words, Sequences

General == {"AX", "CX", "DX", "DI", "SI", "R8", "R9", "R10", "R11"}
Vector == {"XMM0", "XMM1", "XMM14", "XMM15"}

IsReg(o) == o.k = "reg"
IsImm(o) == o.k = "imm"
IsMem(o) == o.k \in {"memory", "data", "indexed"}
InGeneral(o) == IsReg(o) /\ o.reg \in General
InVector(o) == IsReg(o) /\ o.reg \in Vector

Alu == {"add", "sub", "imul", "and", "or", "xor"}
Shifts == {"sal", "sar", "shr"}
VectorOp == {"addsd", "subsd", "mulsd", "divsd", "xorpd", "comisd"}

(***************************************************************************)
(* What can be assembled.                                                  *)
(***************************************************************************)
FitsSigned(w, bits) == Signed(w, LongBits) = Signed(w % 2^bits, bits)

\* An immediate of a quad instruction is a sign-extended word of IntBits.
ImmOK(o, sz) == IsImm(o) /\ (sz = "q" => FitsSigned(o.val, IntBits))

GeneralOrMem(o) == InGeneral(o) \/ IsMem(o)

Assembles(t) ==
  LET src == t.args[1]
      dst == t.args[Len(t.args)]
      notBothMem == ~(IsMem(src) /\ IsMem(dst))
  IN CASE t.mn = "mov" /\ t.sz \in {"l", "q"} ->
            /\ GeneralOrMem(dst)
            /\ notBothMem
            /\ InGeneral(src) \/ IsMem(src) \/ ImmOK(src, t.sz) \/ (IsImm(src) /\ InGeneral(dst))
       [] t.mn = "movsd" ->
            /\ InVector(src) \/ InVector(dst)
            /\ {src.k, dst.k} \cap {"imm"} = {}
            /\ InVector(src) \/ IsMem(src)
            /\ InVector(dst) \/ IsMem(dst)
       [] t.mn = "movslq" -> GeneralOrMem(src) /\ InGeneral(dst)
       [] t.mn \in Alu /\ t.sz \in {"l", "q"} ->
            /\ IF t.mn = "imul" THEN InGeneral(dst) ELSE GeneralOrMem(dst)
            /\ notBothMem
            /\ GeneralOrMem(src) \/ ImmOK(src, t.sz)
       [] t.mn \in Shifts /\ t.sz \in {"l", "q"} ->
            GeneralOrMem(dst) /\ (IsImm(src) \/ src = [k |-> "reg", reg |-> "CX"])
       [] t.mn \in VectorOp -> InVector(dst) /\ (InVector(src) \/ IsMem(src))
       [] t.mn \in {"neg", "not", "inc", "dec"} /\ t.sz \in {"l", "q"} -> GeneralOrMem(dst)
       [] t.mn = "cmp" /\ t.sz \in {"l", "q"} ->
            /\ GeneralOrMem(dst)
            /\ notBothMem
            /\ GeneralOrMem(src) \/ ImmOK(src, t.sz)
       [] t.mn \in {"idiv", "div"} /\ t.sz \in {"l", "q"} -> GeneralOrMem(dst)
       [] t.mn = "cvtsi2sd" -> GeneralOrMem(src) /\ InVector(dst)
       [] t.mn = "cvttsd2si" -> (InVector(src) \/ IsMem(src)) /\ InGeneral(dst)
       [] t.mn = "lea" -> IsMem(src) /\ InGeneral(dst)
       [] t.mn \in {"push", "pop"} -> GeneralOrMem(dst)
       [] t.mn = "set" -> GeneralOrMem(dst)
       [] t.mn \in {"cdq", "cqo", "jmp", "j", "label"} -> TRUE
       [] OTHER -> FALSE

(***************************************************************************)
(* Operands.  A quad read of something shorter takes in what lies behind   *)
(* it; a quad written over something shorter is a fault, and so is any     *)
(* access where nothing is stored.                                         *)
(***************************************************************************)
AddressOf(o, st) ==
  CASE o.k = "memory" -> Wrap((IF o.base = "BP" THEN 0 ELSE st.regs[o.base]) + o.offset, LongBits)
    [] o.k = "data" -> o.place
    [] o.k = "indexed" ->
         Wrap(st.regs[o.base] + st.regs[o.index] * o.scale, LongBits)

Behind == 2^IntBits * (2^IntBits - 2)

BadAccess(o, sz, writing, st) ==
  /\ IsMem(o)
  /\ \/ AddressOf(o, st) \notin DOMAIN st.mem
     \/ LET type == st.mem[AddressOf(o, st)].type IN
        \/ isDouble(type) # (sz = "sd")
        \/ writing /\ sz = "q" /\ Bits(type) = IntBits

Part(w, sz) == CASE sz = "l" -> w % 2^IntBits [] sz = "b" -> w % 2 [] OTHER -> w

ReadOperand(o, sz, st) ==
  CASE IsImm(o) -> Part(o.val, sz)
    [] IsReg(o) -> Part(st.regs[o.reg], sz)
    [] IsMem(o) ->
         LET cell == st.mem[AddressOf(o, st)] IN
         IF sz = "q" /\ Bits(cell.type) = IntBits THEN cell.val + Behind
         ELSE Part(cell.val, sz)

\* A register takes "l" with zeros above; memory keeps what is above.
WriteOperand(o, sz, val, st) ==
  IF IsReg(o)
  THEN [st EXCEPT !.regs[o.reg] =
          IF sz = "b" THEN @ - (@ % 2) + val ELSE val]
  ELSE [st EXCEPT !.mem[AddressOf(o, st)].val =
          CASE sz = "l" -> @ - (@ % 2^IntBits) + val
            [] sz = "b" -> @ - (@ % 2) + val
            [] OTHER -> val]

(***************************************************************************)
(* What a line does.                                                       *)
(***************************************************************************)
SzBits(sz) == IF sz = "l" THEN IntBits ELSE LongBits

Flags(equal, less, below) == [equal |-> equal, less |-> less, below |-> below]

Holds(cond, f) ==
  CASE cond = "e" -> f.equal
    [] cond = "ne" -> ~f.equal
    [] cond = "l" -> f.less
    [] cond = "le" -> f.less \/ f.equal
    [] cond = "g" -> ~f.less /\ ~f.equal
    [] cond = "ge" -> ~f.less
    [] cond = "b" -> f.below
    [] cond = "be" -> f.below \/ f.equal
    [] cond = "a" -> ~f.below /\ ~f.equal
    [] cond = "ae" -> ~f.below

AluValue(mn, sz, dst, src) ==
  CASE mn \in {"and", "or", "xor"} ->
         BitOp(CASE mn = "and" -> "bit and" [] mn = "or" -> "bit or"
                 [] mn = "xor" -> "bit xor", dst, src)
    [] mn = "add" -> Wrap(dst + src, SzBits(sz))
    [] mn = "sub" -> Wrap(dst - src, SzBits(sz))
    [] mn = "imul" -> Wrap(dst * src, SzBits(sz))

ShiftValue(mn, sz, dst, count) ==
  LET by == count % SzBits(sz) IN
  CASE mn = "sal" -> Wrap(dst * 2^by, SzBits(sz))
    [] mn = "shr" -> dst \div 2^by
    [] mn = "sar" -> Wrap(Signed(dst, SzBits(sz)) \div 2^by, SzBits(sz))

VectorValue(mn, dst, src) ==
  CASE mn = "addsd" -> DoubleOp("add", dst, src)
    [] mn = "subsd" -> DoubleOp("subtract", dst, src)
    [] mn = "mulsd" -> DoubleOp("multiply", dst, src)
    [] mn = "divsd" -> DoubleOp("divide", dst, src)
    [] mn = "xorpd" ->                     \* with itself, or with a sign bit
         IF dst = src THEN Zero
         ELSE IF src = Negated(Zero) THEN Negated(dst) ELSE NaN

\* The quotient has to fit; otherwise the processor raises an exception.
Divide(t, st) ==
  LET sz == t.sz
      bits == SzBits(sz)
      signed == t.mn = "idiv"
      pair == ReadOperand([k |-> "reg", reg |-> "DX"], sz, st) * 2^bits
              + ReadOperand([k |-> "reg", reg |-> "AX"], sz, st)
      divisor == ReadOperand(t.args[1], sz, st)
      m == IF signed THEN Signed(pair, 2 * bits) ELSE pair
      n == IF signed THEN Signed(divisor, bits) ELSE divisor
      fits(q) == IF signed THEN q >= -2^(bits - 1) /\ q < 2^(bits - 1) ELSE q < 2^bits
  IN IF n = 0 \/ ~fits(Quotient(m, n)) THEN [st EXCEPT !.fault = TRUE]
     ELSE [st EXCEPT !.regs["AX"] = Wrap(Quotient(m, n), bits),
                     !.regs["DX"] = Wrap(Rest(m, n), bits)]

\* Out of range, the conversion gives the most negative number.
FromDouble(d, sz) ==
  LET n == Truncated(d)
      top == 2^(SzBits(sz) - 1)
  IN IF IsNaN(d) \/ n < -top \/ n >= top THEN top ELSE Wrap(n, SzBits(sz))

\* The sizes operands are read and written with.
SrcSize(t) == CASE t.mn = "movslq" -> "l"
                [] t.mn \in VectorOp \cup {"movsd", "cvttsd2si"} -> "sd"
                [] t.mn \in Shifts -> "b8"
                [] OTHER -> t.sz
DstSize(t) == CASE t.mn = "movslq" -> "q"
                [] t.mn \in VectorOp \cup {"movsd", "cvtsi2sd"} -> "sd"
                [] OTHER -> t.sz

Faults(t, st) ==
  /\ t.args # <<>>
  /\ t.mn # "lea"
  /\ \/ BadAccess(t.args[1], SrcSize(t), FALSE, st)
     \/ BadAccess(t.args[Len(t.args)], DstSize(t), t.mn \notin {"cmp", "comisd", "idiv", "div"}, st)

Execute(t, st) ==
  LET src == t.args[1]
      dst == t.args[Len(t.args)]
      from == ReadOperand(src, SrcSize(t), st)
      to == ReadOperand(dst, DstSize(t), st)
      put(val) == WriteOperand(dst, DstSize(t), val, st)
  IN IF Faults(t, st) THEN [st EXCEPT !.fault = TRUE]
     ELSE CASE t.mn \in {"mov", "movsd"} -> put(from)
            [] t.mn = "movslq" -> put(Wrap(Signed(from, IntBits), LongBits))
            [] t.mn \in Alu -> put(AluValue(t.mn, t.sz, to, from))
            [] t.mn \in Shifts -> put(ShiftValue(t.mn, t.sz, to, from))
            [] t.mn \in VectorOp \ {"comisd"} -> put(VectorValue(t.mn, to, from))
            [] t.mn = "neg" -> put(Wrap(-to, SzBits(t.sz)))
            [] t.mn = "not" -> put(Wrap(-to - 1, SzBits(t.sz)))
            [] t.mn = "inc" -> put(Wrap(to + 1, SzBits(t.sz)))
            [] t.mn = "dec" -> put(Wrap(to - 1, SzBits(t.sz)))
            [] t.mn = "cmp" ->
                 [st EXCEPT !.flags = Flags(to = from,
                    Signed(to, SzBits(t.sz)) < Signed(from, SzBits(t.sz)), to < from)]
            [] t.mn = "comisd" ->
                 LET unordered == IsNaN(to) \/ IsNaN(from) IN
                 [st EXCEPT !.flags = Flags(unordered \/ Halves(to) = Halves(from), FALSE,
                                            unordered \/ Halves(to) < Halves(from))]
            [] t.mn = "set" -> WriteOperand(dst, "b", Truth(Holds(t.sz, st.flags)), st)
            [] t.mn = "cvtsi2sd" -> put(FromNumber(Signed(from, SzBits(t.sz))))
            [] t.mn = "cvttsd2si" -> put(FromDouble(from, t.sz))
            [] t.mn = "lea" -> WriteOperand(dst, "q", AddressOf(src, st), st)
            [] t.mn = "cdq" ->
                 [st EXCEPT !.regs["DX"] =
                    IF Signed(st.regs["AX"] % 2^IntBits, IntBits) < 0 THEN 2^IntBits - 1 ELSE 0]
            [] t.mn = "cqo" ->
                 [st EXCEPT !.regs["DX"] =
                    IF Signed(st.regs["AX"], LongBits) < 0 THEN 2^LongBits - 1 ELSE 0]
            [] t.mn \in {"idiv", "div"} -> Divide(t, st)
            [] t.mn = "push" -> [st EXCEPT !.stack = Append(@, from)]
            [] t.mn = "pop" ->
                 WriteOperand(dst, "q", st.stack[Len(st.stack)],
                              [st EXCEPT !.stack = SubSeq(@, 1, Len(@) - 1)])
            [] OTHER -> st
==============================================================================
