----------------------------- MODULE MCSelection -----------------------------
(***************************************************************************)
(* Instructions for Selection: every instruction TACKY has, over every     *)
(* type it may have, with constants, frame slots and static data as its    *)
(* operands, holding values at the edges of their types.                   *)
(***************************************************************************)
EXTENDS Selection

Ints == {CTYPE_INT, CTYPE_UINT}
Longs == {CTYPE_LONG, CTYPE_ULONG}
Pointer(type) == PointerTo(type)
Scalars == Ints \cup Longs \cup {CTYPE_DOUBLE}

Doubles ==
  {Dbl(FALSE, n) : n \in {0, 1, 7, 30, 240, 256, 480}} \cup {Dbl(TRUE, n) : n \in {0, 3, 256}}

CellPlace == 32

\* 137 is what rounds differently once its last bit is lost.
Sample(type) ==
  CASE type \in Ints -> {0, 1, 4, 7, 8, 9, 15}
    [] type \in Longs -> {0, 1, 6, 8, 15, 127, 128, 137, 255}
    [] isDouble(type) -> Doubles \cup {NaN}
    [] OTHER -> {0, CellPlace}

\* A constant is written without a sign.
Constants(type) ==
  CASE isDouble(type) -> {d \in Doubles : ~d.neg}
    [] isInteger(type) -> {n \in Sample(type) : Number(type, n) >= 0}
    [] OTHER -> {}

Variables(name, type) ==
  {[v |-> createVarValue(name), static |-> s, type |-> type, val |-> n] :
     s \in BOOLEAN, n \in Sample(type)}

Operands(name, type) ==
  Variables(name, type) \cup
  {[v |-> createTackyValueFromConstant(type, n), static |-> FALSE, type |-> type, val |-> n] :
     n \in Constants(type)}

\* A temporary, holding what an earlier instruction left.
Temp(type) ==
  [v |-> createVarValue("d"), static |-> FALSE, type |-> type,
   val |-> IF isDouble(type) THEN FromNumber(3) ELSE 2^Bits(type) - 1]

Unused == [static |-> FALSE, type |-> CTYPE_LONG, val |-> 21]

PlaceOf == [x |-> 56, y |-> 48, d |-> 40]
Cell(type, val) == CellPlace :> [type |-> type, val |-> val]

InCase(i, x, y, d, cells) ==
  LET of == [x |-> x, y |-> y, d |-> d] IN
  [inst |-> i,
   symbols |-> [n \in DOMAIN of |->
                  [type |-> of[n].type, static |-> of[n].static, place |-> PlaceOf[n]]],
   mem |-> cells @@ [p \in {PlaceOf[n] : n \in DOMAIN of} |->
             LET o == of[CHOOSE n \in DOMAIN of : PlaceOf[n] = p] IN
             [type |-> o.type, val |-> o.val]]]

NoCells == [p \in {} |-> 0]

BinaryOps(type) ==
  {"add", "subtract", "multiply", "divide"} \cup isRelationBinaryOp \cup
  IF isDouble(type) THEN {}
  ELSE {"remainder", "bit and", "bit or", "bit xor", "left shift", "right shift"}

Binary(op, type) ==
  {InCase(createBinaryInstruction(op, x.v, y.v, createVarValue("d")), x, y,
          Temp(IF op \in isRelationBinaryOp THEN CTYPE_INT ELSE type), NoCells) :
     x \in Operands("x", type), y \in Operands("y", type)}

UnaryOps(type) ==
  {"not", "negate"} \cup Step \cup IF isDouble(type) THEN {} ELSE {"complement"}

Unary(op, type) ==
  {InCase(createUnaryInstruction(op, x.v, createVarValue("d")), x, Unused,
          Temp(IF op = "not" THEN CTYPE_INT ELSE type), NoCells) :
     x \in IF op \in Step THEN Variables("x", type) ELSE Operands("x", type)}

Copies(type) ==
  {InCase(createCopyInstruction(x.v, y.v), x, y, Unused, NoCells) :
     x \in Operands("x", type), y \in Variables("y", type)}

\* The instruction that a cast between two types is.
Cast(from, to, src, dest) ==
  CASE isDouble(to) ->
         createDoubleIntCastInstruction(src, dest,
           IF isSignedType(from) THEN "int to double" ELSE "uint to double")
    [] isDouble(from) ->
         createDoubleIntCastInstruction(src, dest,
           IF isSignedType(to) THEN "double to int" ELSE "double to uint")
    [] Wide(from) = Wide(to) -> createCopyInstruction(src, dest)
    [] Wide(from) -> createTruncateInstruction(src, dest)
    [] isSignedType(from) -> createSignExtendInstruction(src, dest)
    [] OTHER -> createZeroExtendInstruction(src, dest)

Casts(from, to) ==
  {InCase(Cast(from, to, x.v, createVarValue("d")), x, Unused, Temp(to), NoCells) :
     x \in Operands("x", from)}

\* A pointer that points at the cell.
Pointers(type) ==
  {[v |-> createVarValue("x"), static |-> s, type |-> Pointer(type), val |-> CellPlace] :
     s \in BOOLEAN}

Loads(type) ==
  {InCase(createLoadInstruction(x.v, createVarValue("d")), x, Unused, Temp(type), Cell(type, n)) :
     x \in Pointers(type), n \in Sample(type)}

Stores(type) ==
  {InCase(createStoreInstruction(y.v, x.v), x, y, Unused, Cell(type, Temp(type).val)) :
     x \in Pointers(type), y \in Operands("y", type)}

Addresses(type) ==
  {InCase(createGetAddressInstruction(x.v, createVarValue("d")), x, Unused,
          Temp(Pointer(type)), NoCells) : x \in Variables("x", type)}

Sums(scale) ==
  {InCase(createAddPtrInstruction(x.v, y.v, scale, createVarValue("d")), x, y,
          Temp(Pointer(CTYPE_LONG)), NoCells) :
     x \in Pointers(CTYPE_LONG), y \in Operands("y", CTYPE_LONG)}

\* The second element of an array that lies at d.
Elements(type) ==
  {InCase(createCopyToOffsetInstruction(y.v, createVarValue("d"), 4), Unused, y,
          [static |-> FALSE, type |-> ArrayOf(type, 2), val |-> 0],
          PlaceOf["d"] + 4 :> [type |-> type, val |-> Temp(type).val]) :
     y \in Operands("y", type)}

CondJumps(op, type) ==
  {InCase(createJumpInstruction(op, "elsewhere", x.v), x, Unused, Unused, NoCells) :
     x \in Operands("x", type)}

Ops(type) == BinaryOps(type) \cup UnaryOps(type) \cup CondJump

MCShape ==
  UNION {{<<op, type>> : op \in Ops(type)} : type \in Scalars} \cup
  {<<op, Pointer(CTYPE_INT)>> : op \in CondJump \cup {"not", "copy"}} \cup
  {<<op, type>> : op \in {"copy", "load", "store", "get address", "copy to offset"},
                  type \in Scalars} \cup
  {<<"cast", t, u>> : t \in Scalars, u \in Scalars} \cup
  {<<"add pointer", scale>> : scale \in {1, 3, 4, 8, 12}}

MCCaseOf(shape) ==
  LET op == shape[1]
      type == shape[2]
  IN CASE op = "copy" -> Copies(type)
       [] op = "load" -> Loads(type)
       [] op = "store" -> Stores(type)
       [] op = "get address" -> Addresses(type)
       [] op = "copy to offset" -> Elements(type)
       [] op = "add pointer" -> Sums(type)
       [] op = "cast" -> IF type = shape[3] THEN {} ELSE Casts(type, shape[3])
       [] op \in CondJump -> CondJumps(op, type)
       [] op \in UnaryOps(type) -> Unary(op, type)
       [] OTHER -> Binary(op, type)

ASSUME Representable == \A d \in Doubles : Rounded(Halves(d)).half = d.half
==============================================================================
