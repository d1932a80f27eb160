-------------------------------- MODULE Tacky --------------------------------
(***************************************************************************)
(* TACKY, the three-address code between the tree and the assembly: its    *)
(* instructions, what each of them means, and which operand types it may   *)
(* have.  Selection compiles it; Expressions emits it.                     *)
(*                                                                         *)
(* Memory is a function from the addresses where something is stored to    *)
(* [type, val].  `symbols' gives a name its [type, static, place].         *)
(***************************************************************************)
EXTENDS Words, Sequences

createTackyValueFromConstant(type, val) ==
  [tag |-> "constant", type |-> type, val |-> val]
createVarValue(identifier) == [tag |-> "var", identifier |-> identifier]

IsConstant(v) == v.tag = "constant"

createUnaryInstruction(type, src, dest) ==
  [op |-> "unary", type |-> type, src |-> src, dest |-> dest]
createBinaryInstruction(type, src1, src2, dest) ==
  [op |-> "binary", type |-> type, src1 |-> src1, src2 |-> src2, dest |-> dest]
createCopyInstruction(src, dest) == [op |-> "copy", src |-> src, dest |-> dest]
createCopyToOffsetInstruction(src, dest, offset) ==
  [op |-> "copy to offset", src |-> src, dest |-> dest, offset |-> offset]
createSignExtendInstruction(src, dest) ==
  [op |-> "sign extend", src |-> src, dest |-> dest]
createZeroExtendInstruction(src, dest) ==
  [op |-> "zero extend", src |-> src, dest |-> dest]
createTruncateInstruction(src, dest) ==
  [op |-> "truncate", src |-> src, dest |-> dest]
createDoubleIntCastInstruction(src, dest, instType) ==
  [op |-> instType, src |-> src, dest |-> dest]
createLoadInstruction(src_ptr, dest) ==
  [op |-> "load", src |-> src_ptr, dest |-> dest]
createStoreInstruction(src, dst_ptr) ==
  [op |-> "store", src |-> src, dest |-> dst_ptr]
createGetAddressInstruction(src, dest) ==
  [op |-> "get address", src |-> src, dest |-> dest]
createAddPtrInstruction(base, index, scale, dest) ==
  [op |-> "add pointer", src |-> base, index |-> index, scale |-> scale, dest |-> dest]
createJumpInstruction(jumpType, label, condition) ==
  [op |-> jumpType, label |-> label, condition |-> condition]
createLabelInstruction(label) == [op |-> "label", label |-> label]

CondJump == {"jump if zero", "jump if not zero"}
Step == {"increment", "decrement"}
Shift == {"left shift", "right shift"}

(***************************************************************************)
(* What an instruction means.                                              *)
(***************************************************************************)
TypeOf(v, symbols) ==
  IF IsConstant(v) THEN v.type ELSE symbols[v.identifier].type

Place(v, symbols) == symbols[v.identifier].place

Val(v, symbols, mem) ==
  IF IsConstant(v) THEN v.val ELSE mem[Place(v, symbols)].val

IsZero(type, val) == IF isDouble(type) THEN Halves(val) = 0 /\ ~IsNaN(val) ELSE val = 0

OnNumbers(op, x, y) ==
  CASE op = "add" -> x + y
    [] op = "subtract" -> x - y
    [] op = "multiply" -> x * y
    [] op = "divide" -> Quotient(x, y)
    [] op = "remainder" -> Rest(x, y)

Arithmetic(op, type, m, n) ==
  CASE op \in {"bit and", "bit or", "bit xor"} -> BitOp(op, m, n)
    [] op = "left shift" -> Word(type, m * 2^n)
    [] op = "right shift" -> Word(type, Number(type, m) \div 2^n)
    [] OTHER -> Word(type, OnNumbers(op, Number(type, m), Number(type, n)))

BinaryValue(op, type, m, n) ==
  IF op \in isRelationBinaryOp
  THEN Truth(IF isDouble(type)
             THEN IF IsNaN(m) \/ IsNaN(n) THEN op = "not equals"
                  ELSE Compare(op, Halves(m), Halves(n))
             ELSE Compare(op, Number(type, m), Number(type, n)))
  ELSE IF isDouble(type) THEN DoubleOp(op, m, n)
  ELSE Arithmetic(op, type, m, n)

One(type) == IF isDouble(type) THEN FromNumber(1) ELSE 1

UnaryValue(op, type, m) ==
  CASE op = "not" -> Truth(IsZero(type, m))
    [] op = "negate" /\ isDouble(type) -> Negated(m)
    [] op = "negate" /\ ~isDouble(type) -> Word(type, -m)
    [] op = "complement" -> Word(type, -m - 1)
    [] op \in Step ->
         BinaryValue(IF op = "increment" THEN "add" ELSE "subtract", type, m, One(type))

\* From a value of one type to the value of another.
Converted(from, to, m) ==
  IF isDouble(from) = isDouble(to)
  THEN IF isDouble(to) THEN m ELSE Word(to, Number(from, m))
  ELSE IF isDouble(to) THEN FromNumber(Number(from, m))
  ELSE Word(to, Truncated(m))

SetAt(mem, place, val) == [mem EXCEPT ![place].val = val]

\* What is narrower than the cell leaves the upper half.
Overlaid(cell, type, val) ==
  IF Bits(type) = Bits(cell.type) THEN val
  ELSE (cell.val \div 2^Bits(type)) * 2^Bits(type) + val

After(i, symbols, mem) ==
  LET V(v) == Val(v, symbols, mem)
      T(v) == TypeOf(v, symbols)
      Into(v, val) == SetAt(mem, Place(v, symbols), val)
  IN CASE i.op = "binary" ->
            Into(i.dest, BinaryValue(i.type, T(i.src1), V(i.src1), V(i.src2)))
       [] i.op = "unary" /\ i.type \in Step ->
            LET stepped == UnaryValue(i.type, T(i.src), V(i.src)) IN
            SetAt(Into(i.src, stepped), Place(i.dest, symbols), stepped)
       [] i.op = "unary" /\ i.type \notin Step ->
            Into(i.dest, UnaryValue(i.type, T(i.src), V(i.src)))
       [] i.op \in {"copy", "sign extend", "zero extend", "truncate", "int to double",
                    "uint to double", "double to int", "double to uint"} ->
            Into(i.dest, Converted(T(i.src), T(i.dest), V(i.src)))
       [] i.op = "copy to offset" ->
            LET p == Place(i.dest, symbols) + i.offset IN
            SetAt(mem, p, Overlaid(mem[p], T(i.src), V(i.src)))
       [] i.op = "load" -> Into(i.dest, mem[V(i.src)].val)
       [] i.op = "store" -> SetAt(mem, V(i.dest), V(i.src))
       [] i.op = "get address" -> Into(i.dest, Place(i.src, symbols))
       [] i.op = "add pointer" ->
            Into(i.dest, Wrap(V(i.src) + Signed(V(i.index), LongBits) * i.scale, LongBits))
       [] OTHER -> mem

Taken(i, symbols, mem) ==
  /\ i.op \in CondJump
  /\ IsZero(TypeOf(i.condition, symbols), Val(i.condition, symbols, mem))
       <=> (i.op = "jump if zero")

(***************************************************************************)
(* What C leaves undefined, and an instruction is not asked to do.         *)
(***************************************************************************)
InRange(type, n) ==
  IF isSignedType(type)
  THEN n >= -2^(Bits(type) - 1) /\ n < 2^(Bits(type) - 1)
  ELSE n >= 0 /\ n < 2^Bits(type)

UndefinedBinary(op, type, m, n) ==
  /\ ~isDouble(type)
  /\ \/ op \in Shift /\ n >= Bits(type)
     \/ /\ op \in {"divide", "remainder"}
        /\ n = 0 \/ ~InRange(type, Quotient(Number(type, m), Number(type, n)))

UndefinedConversion(from, to, m) ==
  isDouble(from) /\ ~isDouble(to) /\ (IsNaN(m) \/ ~InRange(to, Truncated(m)))

Undefined(i, symbols, mem) ==
  LET V(v) == Val(v, symbols, mem)
      T(v) == TypeOf(v, symbols)
  IN CASE i.op = "binary" -> UndefinedBinary(i.type, T(i.src1), V(i.src1), V(i.src2))
       [] i.op \in {"double to int", "double to uint"} ->
            UndefinedConversion(T(i.src), T(i.dest), V(i.src))
       [] i.op = "load" -> V(i.src) \notin DOMAIN mem
       [] i.op = "store" -> V(i.dest) \notin DOMAIN mem
       [] OTHER -> FALSE

(***************************************************************************)
(* The operand types an instruction may have.                              *)
(***************************************************************************)
Wide(type) == Bits(type) = LongBits
SameClass(t, u) == isDouble(t) = isDouble(u) /\ (isDouble(t) \/ Wide(t) = Wide(u))

WellTyped(i, symbols) ==
  LET T(v) == TypeOf(v, symbols) IN
  /\ "dest" \in DOMAIN i => ~IsConstant(i.dest)
  /\ CASE i.op = "binary" ->
            /\ T(i.src1) = T(i.src2) \/ (isPointer(T(i.src1)) /\ isPointer(T(i.src2)))
            /\ T(i.src1).kind # "array"
            /\ i.type = "remainder" => ~isDouble(T(i.src1))
            /\ isDouble(T(i.src1)) => i.type \notin Shift \cup {"bit and", "bit or", "bit xor"}
            /\ IF i.type \in isRelationBinaryOp THEN T(i.dest) = CTYPE_INT
               ELSE SameClass(T(i.src1), T(i.dest))
       [] i.op = "unary" ->
            /\ i.type = "complement" => ~isDouble(T(i.src))
            /\ i.type \in Step => ~IsConstant(i.src)
            /\ IF i.type = "not" THEN T(i.dest) = CTYPE_INT ELSE T(i.src) = T(i.dest)
       [] i.op = "copy" -> "array" \notin {T(i.src).kind, T(i.dest).kind} /\ SameClass(T(i.src), T(i.dest))
       [] i.op = "copy to offset" -> T(i.src).kind # "array"
       [] i.op \in {"sign extend", "zero extend"} ->
            /\ T(i.src) = IF i.op = "sign extend" THEN CTYPE_INT ELSE CTYPE_UINT
            /\ Wide(T(i.dest)) /\ ~isDouble(T(i.dest))
       [] i.op = "truncate" ->
            ~isDouble(T(i.src)) /\ Wide(T(i.src)) /\ ~Wide(T(i.dest))
       [] i.op = "int to double" -> isSignedType(T(i.src)) /\ isDouble(T(i.dest))
       [] i.op = "uint to double" ->
            T(i.src).kind \in {"uint", "ulong"} /\ isDouble(T(i.dest))
       [] i.op = "double to int" -> isDouble(T(i.src)) /\ isSignedType(T(i.dest))
       [] i.op = "double to uint" ->
            isDouble(T(i.src)) /\ T(i.dest).kind \in {"uint", "ulong"}
       [] i.op = "load" -> isPointer(T(i.src)) /\ T(i.dest).kind # "array"
       [] i.op = "store" -> T(i.src).kind # "array" /\ isPointer(T(i.dest))
       [] i.op = "get address" -> ~IsConstant(i.src) /\ isPointer(T(i.dest))
       [] i.op = "add pointer" ->
            isPointer(T(i.src)) /\ T(i.index) = CTYPE_LONG /\ isPointer(T(i.dest))
       [] i.op \in CondJump -> T(i.condition).kind # "array"
       [] OTHER -> TRUE

(***************************************************************************)
(* What Selection is made for: these instructions, over values that have a *)
(* type and a place.                                                       *)
(***************************************************************************)
UnaryTypes == {"negate", "complement", "not"} \cup Step
BinaryTypes ==
  {"add", "subtract", "multiply", "divide", "remainder", "bit and", "bit or", "bit xor"}
  \cup Shift \cup isRelationBinaryOp

Instruction(i) ==
  CASE i.op = "unary" ->
         i = createUnaryInstruction(i.type, i.src, i.dest) /\ i.type \in UnaryTypes
    [] i.op = "binary" ->
         i = createBinaryInstruction(i.type, i.src1, i.src2, i.dest) /\ i.type \in BinaryTypes
    [] i.op = "copy to offset" ->
         i = createCopyToOffsetInstruction(i.src, i.dest, i.offset)
    [] i.op = "add pointer" ->
         i = createAddPtrInstruction(i.src, i.index, i.scale, i.dest)
    [] i.op \in CondJump -> i = createJumpInstruction(i.op, i.label, i.condition)
    [] i.op \in {"copy", "sign extend", "zero extend", "truncate", "int to double",
                 "uint to double", "double to int", "double to uint", "load", "store",
                 "get address"} -> i = [op |-> i.op, src |-> i.src, dest |-> i.dest]
    [] OTHER -> FALSE

ValuesOf(i) ==
  CASE i.op = "binary" -> {i.src1, i.src2, i.dest}
    [] i.op = "add pointer" -> {i.src, i.index, i.dest}
    [] i.op \in CondJump -> {i.condition}
    [] OTHER -> {i.src, i.dest}

\* Only & takes an array, and only its elements are copied to.
WholeValuesOf(i) ==
  CASE i.op = "get address" -> {i.dest}
    [] i.op = "copy to offset" -> {i.src}
    [] OTHER -> ValuesOf(i)

Located(v, names) ==
  IF IsConstant(v) THEN isInteger(v.type) \/ isDouble(v.type)
  ELSE v = createVarValue(v.identifier) /\ v.identifier \in names

Compilable(i, symbols) ==
  /\ Instruction(i)
  /\ WellTyped(i, symbols)
  /\ \A v \in ValuesOf(i) : Located(v, DOMAIN symbols)
  /\ \A v \in WholeValuesOf(i) : TypeOf(v, symbols).kind # "array"
==============================================================================
