---------------------------- MODULE MCExpressions ----------------------------
(***************************************************************************)
(* Expressions over a variable of each type: every operator on every two   *)
(* operands, and operators on the results of others.                       *)
(***************************************************************************)
EXTENDS Expressions

CInt == CTYPE_INT
CLong == CTYPE_LONG

MCDeclared ==
  [i |-> [type |-> CInt, place |-> 4],
   u |-> [type |-> CTYPE_UINT, place |-> 8],
   l |-> [type |-> CLong, place |-> 16],
   m |-> [type |-> CTYPE_ULONG, place |-> 24],
   d |-> [type |-> CTYPE_DOUBLE, place |-> 32],
   a |-> [type |-> ArrayOf(CInt, 2), place |-> 40],
   b |-> [type |-> ArrayOf(CLong, 2), place |-> 48],
   c |-> [type |-> ArrayOf(ArrayOf(CInt, 2), 2), place |-> 80],
   p |-> [type |-> PointerTo(CInt), place |-> 64],
   q |-> [type |-> PointerTo(CLong), place |-> 72]]

CellType ==
  4 :> CInt @@ 8 :> CTYPE_UINT @@ 16 :> CLong @@ 24 :> CTYPE_ULONG @@ 32 :> CTYPE_DOUBLE @@
  40 :> CInt @@ 44 :> CInt @@ 48 :> CLong @@ 56 :> CLong @@
  80 :> CInt @@ 84 :> CInt @@ 88 :> CInt @@ 92 :> CInt @@
  64 :> PointerTo(CInt) @@ 72 :> PointerTo(CLong)

Holding(i, u, l, m, d, q) ==
  LET given == 4 :> i @@ 8 :> u @@ 16 :> l @@ 24 :> m @@ 32 :> d @@ 72 :> q @@ 64 :> 40 IN
  [p \in DOMAIN CellType |->
     [type |-> CellType[p], val |-> IF p \in DOMAIN given THEN given[p] ELSE (p \div 4) % 7]]

MCMemory ==
  {Holding(1, 14, 1, 140, Dbl(FALSE, 5), 56), Holding(13, 2, 250, 3, Dbl(TRUE, 3), 48)}

Var(x) == [f |-> "var", identifier |-> x]
Constant(type, val) == [f |-> "constant", type |-> type, val |-> val]
Binary(op, x, y) == [f |-> "binary", op |-> op, left |-> x, right |-> y]
Unary(op, x) == [f |-> "unary", op |-> op, post |-> FALSE, exp |-> x]
Postfix(op, x) == [f |-> "unary", op |-> op, post |-> TRUE, exp |-> x]
Cast(type, x) == [f |-> "cast", targetType |-> type, exp |-> x]
Dereference(x) == [f |-> "dereference", exp |-> x]
AddressOf(x) == [f |-> "address of", exp |-> x]
Subscript(x, y) == [f |-> "subscript", pointer |-> x, index |-> y]
Assign(x, y) == [f |-> "assignment", exp1 |-> x, exp2 |-> y]
Conditional(x, y, z) == [f |-> "conditional", condition |-> x, then |-> y, else_stmt |-> z]

Variables == {Var(x) : x \in DOMAIN MCDeclared}
Constants == {Constant(CInt, 0), Constant(CInt, 1), Constant(CTYPE_UINT, 3), Constant(CLong, 2),
              Constant(CTYPE_ULONG, 130), Constant(CTYPE_DOUBLE, FromNumber(2))}
Leaves == Variables \cup Constants

UnaryOps == {"negate", "complement", "not"} \cup Step
BinaryOps == {"add", "subtract", "divide", "remainder", "less", "equals", "bit and"}
             \cup Shift \cup Logical
Types == {CInt, CTYPE_UINT, CLong, CTYPE_ULONG, CTYPE_DOUBLE, PointerTo(CInt)}

\* One operator over operands of a set.
Over(S) ==
  UNION {{Unary(op, x) : op \in UnaryOps} \cup {Cast(t, x) : t \in Types} \cup
         {Dereference(x), AddressOf(x)} : x \in S} \cup
  {Postfix(op, x) : op \in Step, x \in S \cap {Var(y) : y \in DOMAIN MCDeclared \ {"a", "b", "c"}}}

\* Operands that are themselves made: of each kind some.
Made ==
  {Unary("negate", Var("i")), Unary("complement", Var("u")), Unary("not", Var("d")),
   Unary("increment", Var("i")), Unary("decrement", Var("l")), Postfix("increment", Var("u")),
   Cast(CLong, Var("i")), Cast(CTYPE_DOUBLE, Var("m")), Cast(CInt, Var("d")),
   Cast(PointerTo(CLong), Var("p")), Cast(PointerTo(CInt), Var("l")),
   Dereference(Var("p")), Dereference(Var("q")), Dereference(Var("c")), Dereference(Var("a")),
   AddressOf(Var("i")), AddressOf(Var("a")), AddressOf(Var("l")),
   Binary("add", Var("i"), Var("u")), Binary("subtract", Var("l"), Var("d")),
   Binary("add", Var("q"), Var("i")), Binary("add", Var("c"), Constant(CInt, 1)),
   Binary("less", Var("i"), Var("u")), Binary("and", Var("l"), Var("d")),
   Subscript(Var("a"), Var("i")), Subscript(Constant(CInt, 1), Var("b")),
   Subscript(Var("c"), Var("l")), Subscript(Var("p"), Constant(CInt, 0)),
   Assign(Var("i"), Var("d")), Assign(Var("m"), Var("i")), Assign(Var("q"), Var("b")),
   Conditional(Var("i"), Var("u"), Var("l"))}

(***************************************************************************)
(* Declarations: what they are given never mentions what they declare.     *)
(***************************************************************************)
Single(x) == [f |-> "single", exp |-> x]
Compound(s) == [f |-> "compound", inits |-> s]
UpTo(n, S) == UNION {[1..k -> S] : k \in 0..n}

Initializing ==
  {Constant(CInt, 1), Constant(CTYPE_UINT, 0), Var("m"), Var("d"), Var("q"), Var("c"),
   Postfix("increment", Var("u")), Binary("add", Var("i"), Var("u")), Unary("negate", Var("l")),
   Assign(Var("i"), Var("d")), Conditional(Var("i"), Var("u"), Var("l")),
   Unary("not", Constant(CInt, 1))}

InitsOf(x) ==
  LET singles == {Single(e) : e \in {y \in Initializing : Var(x) \notin Mentions(y)}}
      type == MCDeclared[x].type
  IN singles \cup {Compound(<<i>>) : i \in singles} \cup
     (IF type.kind # "array" THEN {Single(e) : e \in Leaves \cup Made}
      ELSE IF type.of.kind # "array" THEN {Compound(s) : s \in UpTo(3, singles)}
      ELSE LET few == {Single(Constant(CInt, 1)), Single(Var("d"))} IN
           {Compound(s) : s \in UpTo(2, few \cup {Compound(t) : t \in UpTo(3, few)})})

Declaration(x, init) == [f |-> "declaration", identifier |-> x, init |-> init]
Declarations(x) ==
  {Declaration(x, i) : i \in {j \in InitsOf(x) : Var(x) \notin Mentions(j)}}

MCShape ==
  {<<"declaration", x>> : x \in DOMAIN MCDeclared} \cup
  {<<"over leaves">>, <<"over made">>} \cup
  {<<"binary", op, how>> : op \in BinaryOps, how \in {"ll", "lm", "ml"}} \cup
  {<<kind, "", how>> : kind \in {"subscript", "assign"}, how \in {"ll", "lm", "ml", "mm"}} \cup
  {<<"conditional", x, "ll">> : x \in {Var("i"), Var("d"), Var("p")}}

Lefts(how) == IF how \in {"ll", "lm"} THEN Leaves ELSE Made
Rights(how) == IF how \in {"ll", "ml"} THEN Leaves ELSE Made

MCTreesOf(shape) ==
  CASE shape[1] = "over leaves" -> Over(Leaves)
    [] shape[1] = "over made" -> Over(Made)
    [] shape[1] = "declaration" -> Declarations(shape[2])
    [] shape[1] = "binary" ->
         {Binary(shape[2], x, y) : x \in Lefts(shape[3]), y \in Rights(shape[3])}
    [] shape[1] = "subscript" ->
         {Subscript(x, y) : x \in Lefts(shape[3]), y \in Rights(shape[3])}
    [] shape[1] = "assign" ->
         {Assign(x, y) : x \in Lefts(shape[3]), y \in Rights(shape[3])}
    [] shape[1] = "conditional" ->
         {Conditional(shape[2], x, y) : x \in Leaves, y \in Leaves}
==============================================================================
