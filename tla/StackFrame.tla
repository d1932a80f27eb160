----------------------------- MODULE StackFrame -----------------------------
(***************************************************************************)
(* The frame layout of one function: pseudoToStackPositions walks the      *)
(* function's instructions once, replaces every pseudo-register operand by *)
(* a frame-pointer offset (resolvePseudo), handing out a slot the first    *)
(* time a name is met (insertPseudoToTable), and at the end prepends the   *)
(* instruction that reserves the frame (fixStackSizeForFunction).          *)
(*                                                                         *)
(* The walk is over an arbitrary instruction list: any operand may come    *)
(* next. `accesses' remembers what the rewritten code touches, because     *)
(* code emitted early keeps the offset it was given.                       *)
(*                                                                         *)
(* A variable declared in a switch case is not type checked and has no     *)
(* entry in the table of types: its slot is four bytes. An operand of it   *)
(* is as wide as the other operand of its instruction, which may be more   *)
(* than that; such operands are not in `accesses', and what they overlap   *)
(* is outside the properties below.                                        *)
(***************************************************************************)
EXTENDS Integers

CONSTANTS
  Pseudo,   \* names of the function's pseudo-registers
  CType     \* the C types its variables and temporaries have

Scalar == {"int", "uint", "long", "ulong", "pointer", "double"}

\* An array type is its scalar at the bottom, the number of scalars in one
\* element (1 unless the elements are arrays) and the number of elements.
ArrayType == [kind: {"array"}, scalar: Scalar,
              inner: Nat \ {0}, count: Nat \ {0}]

ASSUME CTypeAssumption ==
  \A t \in CType : t \in [kind: Scalar] \/ t \in ArrayType

\* What the table of types has for a name declared in a switch.
NoEntry == [kind |-> "none"]

VARIABLES
  symTable,    \* the type of every name, or NoEntry; fixed before this pass
  table,       \* CharIntMap: name -> offset from the frame pointer
  used,        \* usedStackBytes, which RESOLVE passes on as *offset
  accesses,    \* [name, field, addr, width] of each operand rewritten so far
  frame        \* operand of the prepended allocation; Open until then

vars == <<symTable, table, used, accesses, frame>>

Open == -1

(***************************************************************************)
(* Types: size() and convertCTypeToASMType.                                *)
(***************************************************************************)
ScalarSize(s) == IF s \in {"int", "uint"} THEN 4 ELSE 8

ElementSize(t) == ScalarSize(t.scalar) * t.inner

SizeInBytes(t) ==
  IF t.kind = "array" THEN ElementSize(t) * t.count ELSE ScalarSize(t.kind)

convertCTypeToASMType(t) ==
  CASE t.kind = "array" ->
         [kind |-> "bytearray", size |-> SizeInBytes(t),
          alignment |-> IF SizeInBytes(t) >= 16 THEN 16 ELSE ElementSize(t)]
    [] t.kind \in {"int", "uint"} -> [kind |-> "longword"]
    [] t.kind = "double" -> [kind |-> "double"]
    [] OTHER -> [kind |-> "quadword"]

HasEntry(p) == symTable[p] # NoEntry

AsmTypeOf(p) == convertCTypeToASMType(symTable[p])

getPseudoSlotSize(p) ==
  IF HasEntry(p) /\ AsmTypeOf(p).kind = "bytearray" THEN AsmTypeOf(p).size
  ELSE IF HasEntry(p) => AsmTypeOf(p).kind = "longword" THEN 4 ELSE 8

SlotAlign(p) ==
  IF HasEntry(p) /\ AsmTypeOf(p).kind = "bytearray"
  THEN AsmTypeOf(p).alignment
  ELSE getPseudoSlotSize(p)

\* Mutant: no padding at all.
NoRounding(n, a) == n

RoundUp(n, a) == IF n % a = 0 THEN n ELSE n + (a - (n % a))

(***************************************************************************)
(* The pass.                                                               *)
(***************************************************************************)

\* The scalar that instructions read and write in a slot: an array is only
\* ever accessed one scalar at a time.
AccessWidth(p) ==
  ScalarSize(IF symTable[p].kind = "array" THEN symTable[p].scalar
             ELSE symTable[p].kind)

\* Offsets an operand can carry: 0 for ASM_OP_PSEUDO, the offset of any scalar
\* inside the array for ASM_OP_PSEUDO_MEMORY.
FieldOffsets(p) ==
  IF HasEntry(p)
  THEN {f \in 0 .. (SizeInBytes(symTable[p]) - 1) : f % AccessWidth(p) = 0}
  ELSE {0}

\* Mutant: the offset is aligned before the slot's size is added, not after.
AlignThenAdd(p) == RoundUp(used, SlotAlign(p)) + getPseudoSlotSize(p)

SlotEnd(p) == RoundUp(used + getPseudoSlotSize(p), SlotAlign(p))

\* Mutant: *offset advances by the size without the padding.
AdvanceBySize(p) ==
  IF p \in DOMAIN table
  THEN UNCHANGED <<table, used>>
  ELSE /\ table' = [q \in DOMAIN table \cup {p} |->
                      IF q = p THEN -SlotEnd(p) ELSE table[q]]
       /\ used' = used + getPseudoSlotSize(p)

\* Mutant: the early return for a known name is missing.
AlwaysNewSlot(p) ==
  /\ table' = [q \in DOMAIN table \cup {p} |->
                 IF q = p THEN -SlotEnd(p) ELSE table[q]]
  /\ used' = SlotEnd(p)

\* Mutant: *offset is given the slot's (negative) offset.
UsedIsOffset(p) ==
  IF p \in DOMAIN table
  THEN UNCHANGED <<table, used>>
  ELSE /\ table' = [q \in DOMAIN table \cup {p} |->
                      IF q = p THEN -SlotEnd(p) ELSE table[q]]
       /\ used' = -SlotEnd(p)

insertPseudoToTable(p) ==
  IF p \in DOMAIN table
  THEN UNCHANGED <<table, used>>
  ELSE /\ table' = [q \in DOMAIN table \cup {p} |->
                      IF q = p THEN -SlotEnd(p) ELSE table[q]]
       /\ used' = SlotEnd(p)

Init ==
  /\ symTable \in [Pseudo -> CType \cup {NoEntry}]
  /\ table = [p \in {} |-> 0]
  /\ used = 0
  /\ accesses = {}
  /\ frame = Open

resolvePseudo(p, f) ==
  /\ frame = Open
  /\ insertPseudoToTable(p)
  /\ accesses' = accesses \cup
       (IF HasEntry(p)
        THEN {[name |-> p, field |-> f, addr |-> table'[p] + f,
               width |-> AccessWidth(p)]}
        ELSE {})
  /\ UNCHANGED <<symTable, frame>>

\* Mutant: the frame is rounded down to a multiple of 16.
RoundFrameDown(n) == IF n <= 0 THEN 0 ELSE n - (n % 16)

fixStackSizeForFunction(n) == IF n <= 0 THEN 0 ELSE RoundUp(n, 16)

\* The end of pseudoToStackPositions: the allocation goes in front.
AllocateStack ==
  /\ frame = Open
  /\ frame' = fixStackSizeForFunction(used)
  /\ UNCHANGED <<symTable, table, used, accesses>>

Next ==
  \/ \E p \in Pseudo : \E f \in FieldOffsets(p) : resolvePseudo(p, f)
  \/ AllocateStack

Spec == Init /\ [][Next]_vars

(***************************************************************************)
(* Properties.                                                             *)
(***************************************************************************)
Access == [name: Pseudo, field: Nat, addr: Int, width: {4, 8}]

TypeOK ==
  /\ symTable \in [Pseudo -> CType \cup {NoEntry}]
  /\ DOMAIN table \subseteq Pseudo
  /\ table \in [DOMAIN table -> Int]
  /\ used \in Nat
  /\ accesses \subseteq Access
  /\ frame \in {Open} \cup Nat

\* Operands of two different names with types never touch a common byte, however many
\* instructions lie between them: a store to one variable cannot change
\* another (insertPseudoToTable advances *offset past each slot).
NoAliasing ==
  \A a, b \in accesses :
    a.name # b.name =>
      \/ a.addr + a.width <= b.addr
      \/ b.addr + b.width <= a.addr

\* The same part of the same variable is the same address in every
\* instruction: the slot found in the table later is the one handed out.
StableAddress ==
  \A a, b \in accesses :
    (a.name = b.name /\ a.field = b.field) => a.addr = b.addr

\* Every address lies on its scalar's natural boundary, which is what the
\* 16-byte alignment of the frame pointer makes of the offset.
NaturallyAligned ==
  \A a \in accesses : a.addr % a.width = 0

\* Once the frame is reserved, everything the code touches lies between the
\* stack pointer and the frame pointer, and the stack pointer is aligned for
\* the calls the function makes.
FrameCoversCode ==
  frame # Open =>
    /\ frame % 16 = 0
    /\ \A a \in accesses : a.addr >= -frame /\ a.addr + a.width <= 0

\* The layout keeps the abstract frame's promises step by step: a slot is
\* placed once, disjoint and aligned, and the reservation covers them all.
Abstract == INSTANCE FrameAllocator
  WITH size <- [p \in Pseudo |-> getPseudoSlotSize(p)],
       alignment <- [p \in Pseudo |-> SlotAlign(p)],
       slots <- table

ImplementsFrameAllocator == Abstract!Spec

(***************************************************************************)
(* The inductive invariant of the proofs: the slots lie in the used bytes, *)
(* apart from each other and aligned, and every access lies in its slot.   *)
(***************************************************************************)
SlotsInUse ==
  \A p \in DOMAIN table :
    /\ -used <= table[p]
    /\ table[p] + getPseudoSlotSize(p) <= 0
    /\ table[p] % SlotAlign(p) = 0

SlotsApart ==
  \A p, q \in DOMAIN table :
    p # q => \/ table[p] + getPseudoSlotSize(p) <= table[q]
             \/ table[q] + getPseudoSlotSize(q) <= table[p]

AccessesInSlots ==
  \A a \in accesses :
    /\ a.name \in DOMAIN table /\ HasEntry(a.name)
    /\ a.field \in FieldOffsets(a.name)
    /\ a.width = AccessWidth(a.name)
    /\ a.addr = table[a.name] + a.field

FrameReserved == frame # Open => frame % 16 = 0 /\ used <= frame

LayoutInv ==
  TypeOK /\ SlotsInUse /\ SlotsApart /\ AccessesInSlots /\ FrameReserved

=============================================================================
