-------------------------- MODULE StackFrameProofs --------------------------
(***************************************************************************)
(* For every set of names and every C type, or none: the layout of         *)
(* StackFrame keeps different variables apart, aligned and inside the      *)
(* reserved frame, and implements FrameAllocator.                          *)
(***************************************************************************)
EXTENDS StackFrame, TLAPS

(***************************************************************************)
(* Arithmetic: multiples, and rounding up to one.                          *)
(***************************************************************************)

\* A remainder of 0 is a multiple.
LEMMA Multiple ==
  ASSUME NEW n \in Int, NEW a \in Nat \ {0}
  PROVE  n % a = 0 <=> \E k \in Int : n = a * k
<1>1. n = a * (n \div a) + (n % a) /\ 0 <= n % a /\ n % a < a
      /\ (n \div a) \in Int
  OBVIOUS
<1>2. ASSUME NEW k \in Int, n = a * k PROVE n % a = 0
  <2>1. n % a = a * (k - (n \div a))
    BY <1>1, <1>2
  <2>2. k - (n \div a) < 1
    BY <1>1, <2>1
  <2>3. k - (n \div a) > -1
    BY <1>1, <2>1
  <2> QED
    BY <2>1, <2>2, <2>3, <1>1
<1>3. ASSUME n % a = 0 PROVE \E k \in Int : n = a * k
  <2>1. n = a * (n \div a)
    BY <1>1, <1>3
  <2> QED
    BY <1>1, <2>1
<1> QED
  BY <1>2, <1>3

\* Rounding up does not go down and ends on a multiple.
LEMMA RoundUpMultiple ==
  ASSUME NEW n \in Nat, NEW a \in Nat \ {0}
  PROVE  RoundUp(n, a) \in Nat /\ RoundUp(n, a) >= n /\ RoundUp(n, a) % a = 0
<1>1. n = a * (n \div a) + (n % a) /\ (n \div a) \in Int
      /\ n % a \in Nat /\ n % a < a
  OBVIOUS
<1>2. CASE n % a = 0
  BY <1>2 DEF RoundUp
<1>3. CASE n % a # 0
  <2>1. RoundUp(n, a) = a * ((n \div a) + 1) /\ RoundUp(n, a) \in Nat
        /\ RoundUp(n, a) >= n
    BY <1>1, <1>3 DEF RoundUp
  <2> QED
    BY <2>1, <1>1, Multiple
<1> QED
  BY <1>2, <1>3

\* A multiple of a product is a multiple of its factor.
LEMMA FactorDivides ==
  ASSUME NEW x \in Int, NEW w \in Nat \ {0}, NEW k \in Nat \ {0},
         x % (w * k) = 0
  PROVE  x % w = 0
<1>1. w * k \in Nat \ {0}
  OBVIOUS
<1>2. PICK q \in Int : x = (w * k) * q
  BY <1>1, Multiple
<1>3. x = w * (k * q) /\ k * q \in Int
  BY <1>2
<1> QED
  BY <1>3, Multiple

\* Offsets are the negated byte counts: they stay multiples.
LEMMA NegatedMultiple ==
  ASSUME NEW x \in Int, NEW a \in Nat \ {0}, x % a = 0
  PROVE  (-x) % a = 0
<1>1. PICK q \in Int : x = a * q
  BY Multiple
<1>2. -q \in Int /\ -x \in Int /\ -x = a * (-q)
  BY <1>1
<1> DEFINE y == -x
<1>3. y \in Int /\ \E k \in Int : y = a * k
  BY <1>2
<1> HIDE DEF y
<1>4. y % a = 0
  BY <1>3, Multiple
<1> QED
  BY <1>4 DEF y

(***************************************************************************)
(* Types.                                                                  *)
(***************************************************************************)

\* What the layout needs of a type: positive size and alignment, a scalar
\* width that divides both.
LEMMA EntryFacts ==
  ASSUME symTable \in [Pseudo -> CType \cup {NoEntry}], NEW p \in Pseudo,
         HasEntry(p)
  PROVE  /\ getPseudoSlotSize(p) \in Nat \ {0}
         /\ SlotAlign(p) \in Nat \ {0}
         /\ AccessWidth(p) \in {4, 8}
         /\ getPseudoSlotSize(p) = SizeInBytes(symTable[p])
         /\ \E k \in Nat \ {0} : getPseudoSlotSize(p) = AccessWidth(p) * k
         /\ \E k \in Nat \ {0} : SlotAlign(p) = AccessWidth(p) * k
<1> DEFINE t == symTable[p]
<1>1. t \in CType
  BY DEF HasEntry
<1>2. CASE t \in [kind: Scalar]
  <2>1. t.kind \in Scalar /\ t.kind # "array"
    BY <1>2 DEF Scalar
  <2>2. AccessWidth(p) = ScalarSize(t.kind)
        /\ getPseudoSlotSize(p) = ScalarSize(t.kind)
        /\ SlotAlign(p) = ScalarSize(t.kind)
        /\ SizeInBytes(t) = ScalarSize(t.kind)
    BY <2>1 DEF AccessWidth, getPseudoSlotSize, SlotAlign, AsmTypeOf,
       convertCTypeToASMType, SizeInBytes, ScalarSize, Scalar
  <2>3. ScalarSize(t.kind) \in {4, 8} /\ ScalarSize(t.kind) = ScalarSize(t.kind) * 1
    BY DEF ScalarSize
  <2> QED
    BY <2>2, <2>3
<1>3. CASE t \in ArrayType
  <2> DEFINE w == ScalarSize(t.scalar)
  <2>1. t.kind = "array" /\ t.inner \in Nat \ {0} /\ t.count \in Nat \ {0}
    BY <1>3 DEF ArrayType
  <2>2. w \in {4, 8}
    BY DEF ScalarSize
  <2>3. t.inner * t.count \in Nat \ {0} /\ w * t.inner \in Nat \ {0}
        /\ (w * t.inner) * t.count = w * (t.inner * t.count)
    BY <2>1, <2>2
  <2>4. SizeInBytes(t) = w * (t.inner * t.count) /\ ElementSize(t) = w * t.inner
    BY <2>1, <2>3 DEF SizeInBytes, ElementSize
  <2>5. AccessWidth(p) = w /\ getPseudoSlotSize(p) = SizeInBytes(t)
        /\ SlotAlign(p) = IF SizeInBytes(t) >= 16 THEN 16 ELSE ElementSize(t)
    BY <2>1 DEF AccessWidth, getPseudoSlotSize, SlotAlign, AsmTypeOf,
       convertCTypeToASMType
  <2> HIDE DEF w
  <2>6. 16 = 4 * 4 /\ 16 = 8 * 2
    OBVIOUS
  <2>7. \E k \in Nat \ {0} : SlotAlign(p) = w * k
    BY <2>1, <2>2, <2>4, <2>5, <2>6
  <2>8. SizeInBytes(t) \in Nat \ {0}
    BY <2>2, <2>3, <2>4
  <2> QED
    BY <2>2, <2>3, <2>4, <2>5, <2>7, <2>8
<1> QED
  BY <1>1, <1>2, <1>3, CTypeAssumption

\* A slot has positive size and alignment, with an entry or without.
LEMMA TypeFacts ==
  ASSUME symTable \in [Pseudo -> CType \cup {NoEntry}], NEW p \in Pseudo
  PROVE  getPseudoSlotSize(p) \in Nat \ {0} /\ SlotAlign(p) \in Nat \ {0}
<1>1. CASE HasEntry(p)
  BY <1>1, EntryFacts
<1>2. CASE ~HasEntry(p)
  BY <1>2 DEF getPseudoSlotSize, SlotAlign
<1> QED
  BY <1>1, <1>2

\* A slot end is a multiple of the alignment past all used bytes.
LEMMA SlotEndFacts ==
  ASSUME TypeOK, NEW p \in Pseudo
  PROVE  /\ SlotEnd(p) \in Nat
         /\ SlotEnd(p) >= used + getPseudoSlotSize(p)
         /\ (-SlotEnd(p)) % SlotAlign(p) = 0
<1>1. used + getPseudoSlotSize(p) \in Nat /\ SlotAlign(p) \in Nat \ {0}
  BY TypeFacts DEF TypeOK
<1>2. SlotEnd(p) \in Nat /\ SlotEnd(p) >= used + getPseudoSlotSize(p)
      /\ SlotEnd(p) % SlotAlign(p) = 0
  BY <1>1, RoundUpMultiple DEF SlotEnd
<1> QED
  BY <1>1, <1>2, NegatedMultiple

\* A scalar of a variable ends inside it.
LEMMA FieldEnds ==
  ASSUME TypeOK, NEW p \in Pseudo, HasEntry(p), NEW f \in FieldOffsets(p)
  PROVE  f \in Nat /\ f + AccessWidth(p) <= getPseudoSlotSize(p)
<1> DEFINE w == AccessWidth(p)
           size == getPseudoSlotSize(p)
<1>1. w \in {4, 8} /\ size \in Nat /\ size = SizeInBytes(symTable[p])
      /\ \E k \in Nat \ {0} : size = w * k
  BY EntryFacts DEF TypeOK
<1>2. f \in Nat /\ f < size /\ f % w = 0
  BY <1>1 DEF FieldOffsets
<1> HIDE DEF w, size
<1>3. PICK k \in Nat \ {0} : size = w * k
  BY <1>1
<1>4. PICK j \in Int : f = w * j
  <2>1. f \in Int /\ w \in Nat \ {0} /\ f % w = 0
    BY <1>1, <1>2
  <2> QED
    BY <2>1, Multiple
<1>5. CASE w = 4
  <2>1. size = 4 * k /\ f = 4 * j
    BY <1>3, <1>4, <1>5
  <2> QED
    BY <1>2, <1>5, <2>1 DEF w, size
<1>6. CASE w = 8
  <2>1. size = 8 * k /\ f = 8 * j
    BY <1>3, <1>4, <1>6
  <2> QED
    BY <1>2, <1>6, <2>1 DEF w, size
<1> QED
  BY <1>1, <1>5, <1>6

(***************************************************************************)
(* The inductive invariant.                                                *)
(***************************************************************************)

\* The layout invariant holds before the first instruction is rewritten.
LEMMA LayoutInit == Init => LayoutInv
  BY DEF Init, LayoutInv, TypeOK, SlotsInUse, SlotsApart, AccessesInSlots,
     FrameReserved, Open

\* Rewriting one operand keeps it, whether the name is new or known.
LEMMA ResolveKeepsLayout ==
  ASSUME LayoutInv, NEW p \in Pseudo, NEW f \in FieldOffsets(p),
         resolvePseudo(p, f)
  PROVE  LayoutInv'
<1> USE DEF LayoutInv
<1>1. /\ symTable' = symTable /\ frame' = frame /\ frame = Open
      /\ insertPseudoToTable(p)
      /\ accesses' = accesses \cup
           (IF HasEntry(p)
            THEN {[name |-> p, field |-> f, addr |-> table'[p] + f,
                   width |-> AccessWidth(p)]}
            ELSE {})
  BY DEF resolvePseudo
<1>2. \A q \in Pseudo :
        /\ HasEntry(q)' = HasEntry(q)
        /\ getPseudoSlotSize(q)' = getPseudoSlotSize(q)
        /\ SlotAlign(q)' = SlotAlign(q)
        /\ AccessWidth(q)' = AccessWidth(q)
        /\ FieldOffsets(q)' = FieldOffsets(q)
  <2> SUFFICES ASSUME NEW q \in Pseudo
               PROVE  /\ HasEntry(q)' = HasEntry(q)
                      /\ getPseudoSlotSize(q)' = getPseudoSlotSize(q)
                      /\ SlotAlign(q)' = SlotAlign(q)
                      /\ AccessWidth(q)' = AccessWidth(q)
                      /\ FieldOffsets(q)' = FieldOffsets(q)
    OBVIOUS
  <2>1. HasEntry(q)' = HasEntry(q) /\ AccessWidth(q)' = AccessWidth(q)
        /\ AsmTypeOf(q)' = AsmTypeOf(q)
    BY <1>1 DEF HasEntry, AccessWidth, AsmTypeOf
  <2>2. getPseudoSlotSize(q)' = getPseudoSlotSize(q)
    BY <2>1 DEF getPseudoSlotSize
  <2>3. SlotAlign(q)' = SlotAlign(q)
    BY <2>1, <2>2 DEF SlotAlign
  <2>4. FieldOffsets(q)' = FieldOffsets(q)
    <3>1. SizeInBytes(symTable[q])' = SizeInBytes(symTable[q])
      BY <1>1
    <3> QED
      BY <2>1, <3>1 DEF FieldOffsets
  <2> QED
    BY <2>1, <2>2, <2>3, <2>4
<1>3. \A q \in Pseudo : getPseudoSlotSize(q) \in Nat \ {0}
                        /\ (HasEntry(q) => AccessWidth(q) \in {4, 8})
  BY TypeFacts, EntryFacts DEF TypeOK
<1>4. /\ DOMAIN table' = DOMAIN table \cup {p}
      /\ table' \in [DOMAIN table' -> Int]
      /\ used' \in Nat /\ used <= used'
      /\ \A q \in DOMAIN table : table'[q] = table[q]
  <2>1. CASE p \in DOMAIN table
    <3>1. table' = table /\ used' = used
      BY <1>1, <2>1 DEF insertPseudoToTable
    <3>2. DOMAIN table = DOMAIN table \cup {p}
      BY <2>1
    <3> QED
      BY <3>1, <3>2 DEF TypeOK
  <2>2. CASE p \notin DOMAIN table
    <3>1. SlotEnd(p) \in Nat /\ SlotEnd(p) >= used + getPseudoSlotSize(p)
      BY SlotEndFacts
    <3> QED
      BY <1>1, <1>3, <2>2, <3>1 DEF insertPseudoToTable, TypeOK
  <2> QED
    BY <2>1, <2>2
<1>5. p \notin DOMAIN table =>
        /\ table'[p] = -used'
        /\ used + getPseudoSlotSize(p) <= used'
        /\ table'[p] % SlotAlign(p) = 0
  BY <1>1, SlotEndFacts DEF insertPseudoToTable
<1>6. TypeOK'
  <2>1. HasEntry(p) => f \in Nat
    BY FieldEnds
  <2> QED
    BY <1>1, <1>3, <1>4, <2>1 DEF TypeOK, Access
<1>7. SlotsInUse'
  <2> SUFFICES ASSUME NEW q \in DOMAIN table'
               PROVE  /\ -used' <= table'[q]
                      /\ table'[q] + getPseudoSlotSize(q)' <= 0
                      /\ table'[q] % SlotAlign(q)' = 0
    BY DEF SlotsInUse
  <2>1. CASE q \in DOMAIN table
    BY <1>2, <1>4, <2>1 DEF SlotsInUse, TypeOK
  <2>2. CASE q = p /\ p \notin DOMAIN table
    BY <1>2, <1>3, <1>4, <1>5, <2>2 DEF TypeOK
  <2> QED
    BY <1>4, <2>1, <2>2
<1>8. SlotsApart'
  <2> SUFFICES ASSUME NEW q \in DOMAIN table', NEW r \in DOMAIN table', q # r
               PROVE  \/ table'[q] + getPseudoSlotSize(q)' <= table'[r]
                      \/ table'[r] + getPseudoSlotSize(r)' <= table'[q]
    BY DEF SlotsApart
  <2>1. CASE q \in DOMAIN table /\ r \in DOMAIN table
    BY <1>2, <1>4, <2>1 DEF SlotsApart, TypeOK
  <2>2. CASE q = p /\ p \notin DOMAIN table /\ r \in DOMAIN table
    BY <1>2, <1>3, <1>4, <1>5, <2>2 DEF SlotsInUse, TypeOK
  <2>3. CASE r = p /\ p \notin DOMAIN table /\ q \in DOMAIN table
    BY <1>2, <1>3, <1>4, <1>5, <2>3 DEF SlotsInUse, TypeOK
  <2> QED
    BY <1>4, <2>1, <2>2, <2>3
<1>9. AccessesInSlots'
  <2> SUFFICES ASSUME NEW a \in accesses'
               PROVE  /\ a.name \in DOMAIN table' /\ HasEntry(a.name)'
                      /\ a.field \in FieldOffsets(a.name)'
                      /\ a.width = AccessWidth(a.name)'
                      /\ a.addr = table'[a.name] + a.field
    BY DEF AccessesInSlots
  <2>1. CASE a \in accesses
    BY <1>2, <1>4, <2>1 DEF AccessesInSlots, TypeOK
  <2>2. CASE HasEntry(p) /\ a = [name |-> p, field |-> f,
                                   addr |-> table'[p] + f,
                                   width |-> AccessWidth(p)]
    BY <1>2, <1>4, <2>2
  <2> QED
    BY <1>1, <2>1, <2>2
<1>10. FrameReserved'
  BY <1>1 DEF FrameReserved
<1> QED
  BY <1>6, <1>7, <1>8, <1>9, <1>10

\* Reserving the frame keeps it: the frame covers the used bytes.
LEMMA AllocateKeepsLayout ==
  ASSUME LayoutInv, AllocateStack
  PROVE  LayoutInv'
<1> USE DEF LayoutInv
<1>1. /\ UNCHANGED <<symTable, table, used, accesses>>
      /\ frame' = fixStackSizeForFunction(used)
  BY DEF AllocateStack
<1>2. frame' \in Nat /\ used <= frame' /\ frame' % 16 = 0
  BY <1>1, RoundUpMultiple DEF fixStackSizeForFunction, TypeOK
<1> QED
  BY <1>1, <1>2 DEF TypeOK, SlotsInUse, SlotsApart, AccessesInSlots,
     FrameReserved, HasEntry, getPseudoSlotSize, SlotAlign, AccessWidth, FieldOffsets,
     AsmTypeOf

\* The layout invariant holds throughout the pass.
THEOREM LayoutInvariant == Spec => []LayoutInv
<1>1. LayoutInv /\ [Next]_vars => LayoutInv'
  <2> SUFFICES ASSUME LayoutInv, [Next]_vars PROVE LayoutInv'
    OBVIOUS
  <2>1. ASSUME NEW p \in Pseudo, NEW f \in FieldOffsets(p), resolvePseudo(p, f)
        PROVE  LayoutInv'
    BY <2>1, ResolveKeepsLayout
  <2>2. CASE AllocateStack
    BY <2>2, AllocateKeepsLayout
  <2>3. CASE UNCHANGED vars
    BY <2>3 DEF vars, LayoutInv, TypeOK, SlotsInUse, SlotsApart,
       AccessesInSlots, FrameReserved, HasEntry, getPseudoSlotSize, SlotAlign,
       AccessWidth, FieldOffsets, AsmTypeOf
  <2> QED
    BY <2>1, <2>2, <2>3 DEF Next
<1> QED
  BY LayoutInit, <1>1, PTL DEF Spec

(***************************************************************************)
(* The properties.                                                         *)
(***************************************************************************)

\* Every state of the pass is well typed.
THEOREM TypeCorrect == Spec => []TypeOK
<1>1. LayoutInv => TypeOK
  BY DEF LayoutInv
<1> QED
  BY <1>1, LayoutInvariant, PTL

\* No two operands of different variables ever share a byte.
THEOREM NoAliasingAlways == Spec => []NoAliasing
<1>1. LayoutInv => NoAliasing
  <2> SUFFICES ASSUME LayoutInv, NEW a \in accesses, NEW b \in accesses,
                      a.name # b.name
               PROVE  \/ a.addr + a.width <= b.addr
                      \/ b.addr + b.width <= a.addr
    BY DEF NoAliasing
  <2> USE DEF LayoutInv
  <2>1. \A c \in accesses :
          /\ c.name \in DOMAIN table /\ c.name \in Pseudo
          /\ table[c.name] \in Int
          /\ getPseudoSlotSize(c.name) \in Nat
          /\ c.addr \in Int /\ c.width \in Int
          /\ table[c.name] <= c.addr
          /\ c.addr + c.width <= table[c.name] + getPseudoSlotSize(c.name)
    <3> SUFFICES ASSUME NEW c \in accesses
                 PROVE  /\ c.name \in DOMAIN table /\ c.name \in Pseudo
                        /\ table[c.name] \in Int
                        /\ getPseudoSlotSize(c.name) \in Nat
                        /\ c.addr \in Int /\ c.width \in Int
                        /\ table[c.name] <= c.addr
                        /\ c.addr + c.width
                             <= table[c.name] + getPseudoSlotSize(c.name)
      OBVIOUS
    <3>1. c.name \in DOMAIN table /\ HasEntry(c.name)
          /\ c.field \in FieldOffsets(c.name)
          /\ c.width = AccessWidth(c.name) /\ c.addr = table[c.name] + c.field
      BY DEF AccessesInSlots
    <3>2. c.name \in Pseudo /\ table[c.name] \in Int
      BY <3>1 DEF TypeOK
    <3>3. c.field \in Nat
          /\ c.field + AccessWidth(c.name) <= getPseudoSlotSize(c.name)
      BY <3>1, <3>2, FieldEnds
    <3>4. AccessWidth(c.name) \in {4, 8} /\ getPseudoSlotSize(c.name) \in Nat
      BY <3>1, <3>2, EntryFacts DEF TypeOK
    <3> QED
      BY <3>1, <3>2, <3>3, <3>4
  <2>2. \/ table[a.name] + getPseudoSlotSize(a.name) <= table[b.name]
        \/ table[b.name] + getPseudoSlotSize(b.name) <= table[a.name]
    BY <2>1 DEF SlotsApart
  <2> QED
    BY <2>1, <2>2
<1> QED
  BY <1>1, LayoutInvariant, PTL

\* The same part of the same variable has one address in all the code.
THEOREM StableAddressAlways == Spec => []StableAddress
<1>1. LayoutInv => StableAddress
  BY DEF LayoutInv, AccessesInSlots, StableAddress
<1> QED
  BY <1>1, LayoutInvariant, PTL

\* Every operand lies on its scalar's boundary.
THEOREM NaturallyAlignedAlways == Spec => []NaturallyAligned
<1>1. LayoutInv => NaturallyAligned
  <2> SUFFICES ASSUME LayoutInv, NEW a \in accesses
               PROVE  a.addr % a.width = 0
    BY DEF NaturallyAligned
  <2> USE DEF LayoutInv
  <2>1. a.name \in DOMAIN table /\ HasEntry(a.name)
        /\ a.field \in FieldOffsets(a.name)
        /\ a.width = AccessWidth(a.name) /\ a.addr = table[a.name] + a.field
    BY DEF AccessesInSlots
  <2>2. a.name \in Pseudo /\ table[a.name] \in Int
        /\ table[a.name] % SlotAlign(a.name) = 0
    BY <2>1 DEF TypeOK, SlotsInUse
  <2>3. a.width \in {4, 8} /\ \E k \in Nat \ {0} : SlotAlign(a.name) = a.width * k
    BY <2>1, <2>2, EntryFacts DEF TypeOK
  <2>4. table[a.name] % a.width = 0
    BY <2>2, <2>3, FactorDivides
  <2>5. a.field \in Nat /\ a.field % a.width = 0
    BY <2>1, <2>2, FieldEnds DEF FieldOffsets
  <2>6. CASE a.width = 4
    BY <2>1, <2>2, <2>4, <2>5, <2>6
  <2>7. CASE a.width = 8
    BY <2>1, <2>2, <2>4, <2>5, <2>7
  <2> QED
    BY <2>3, <2>6, <2>7
<1> QED
  BY <1>1, LayoutInvariant, PTL

\* The reserved frame holds all the code touches and is a multiple of 16.
THEOREM FrameCoversCodeAlways == Spec => []FrameCoversCode
<1>1. LayoutInv => FrameCoversCode
  <2> SUFFICES ASSUME LayoutInv, frame # Open, NEW a \in accesses
               PROVE  a.addr >= -frame /\ a.addr + a.width <= 0
    BY DEF FrameCoversCode, LayoutInv, FrameReserved
  <2> USE DEF LayoutInv
  <2>1. a.name \in DOMAIN table /\ HasEntry(a.name)
        /\ a.field \in FieldOffsets(a.name)
        /\ a.width = AccessWidth(a.name) /\ a.addr = table[a.name] + a.field
    BY DEF AccessesInSlots
  <2>2. a.name \in Pseudo /\ table[a.name] \in Int
        /\ -used <= table[a.name]
        /\ table[a.name] + getPseudoSlotSize(a.name) <= 0
    BY <2>1 DEF TypeOK, SlotsInUse
  <2>3. a.field \in Nat
        /\ a.field + AccessWidth(a.name) <= getPseudoSlotSize(a.name)
        /\ getPseudoSlotSize(a.name) \in Nat /\ AccessWidth(a.name) \in {4, 8}
    BY <2>1, <2>2, FieldEnds, EntryFacts DEF TypeOK
  <2>4. used \in Nat /\ frame \in Nat /\ used <= frame
    BY DEF TypeOK, FrameReserved
  <2> QED
    BY <2>1, <2>2, <2>3, <2>4
<1> QED
  BY <1>1, LayoutInvariant, PTL

(***************************************************************************)
(* Refinement.                                                             *)
(***************************************************************************)

\* Every step of the pass is a step of FrameAllocator or leaves it alone.
THEOREM Implements == Spec => ImplementsFrameAllocator
<1>1. Init => Abstract!Init
  <2> SUFFICES ASSUME Init PROVE Abstract!Init
    OBVIOUS
  <2>1. \A p \in Pseudo : getPseudoSlotSize(p) \in Nat \ {0}
                          /\ SlotAlign(p) \in Nat \ {0}
    BY TypeFacts DEF Init
  <2> QED
    BY <2>1 DEF Init, Abstract!Init, Abstract!Open, Open
<1>2. LayoutInv /\ LayoutInv' /\ [Next]_vars => [Abstract!Next]_(Abstract!vars)
  <2> SUFFICES ASSUME LayoutInv, LayoutInv', [Next]_vars
               PROVE  [Abstract!Next]_(Abstract!vars)
    OBVIOUS
  <2> USE DEF LayoutInv
  <2>1. symTable' = symTable
    BY DEF Next, vars, resolvePseudo, AllocateStack
  <2>2. UNCHANGED <<[p \in Pseudo |-> getPseudoSlotSize(p)],
                    [p \in Pseudo |-> SlotAlign(p)]>>
    BY <2>1 DEF HasEntry, getPseudoSlotSize, SlotAlign, AsmTypeOf
  <2>3. ASSUME NEW p \in Pseudo, NEW f \in FieldOffsets(p), resolvePseudo(p, f)
        PROVE  [Abstract!Next]_(Abstract!vars)
    <3>1. frame = Open /\ UNCHANGED frame
      BY <2>3 DEF resolvePseudo
    <3>2. CASE p \in DOMAIN table
      BY <2>2, <2>3, <3>1, <3>2 DEF resolvePseudo, insertPseudoToTable,
         Abstract!vars
    <3>3. CASE p \notin DOMAIN table
      <4>1. /\ DOMAIN table' = DOMAIN table \cup {p}
            /\ table'[p] = -used' /\ used' = SlotEnd(p)
            /\ \A q \in DOMAIN table : table'[q] = table[q]
        BY <2>3, <3>3 DEF resolvePseudo, insertPseudoToTable
      <4>2. SlotEnd(p) \in Nat
            /\ SlotEnd(p) >= used + getPseudoSlotSize(p)
            /\ (-SlotEnd(p)) % SlotAlign(p) = 0
            /\ getPseudoSlotSize(p) \in Nat
        BY SlotEndFacts, TypeFacts DEF TypeOK
      <4>3. \A q \in DOMAIN table :
              q \in Pseudo /\ table'[p] + getPseudoSlotSize(p) <= table[q]
        BY <4>1, <4>2 DEF SlotsInUse, TypeOK
      <4>4. Abstract!PlaceSlot(p)
        BY <2>2, <3>1, <3>3, <4>1, <4>2, <4>3
           DEF Abstract!PlaceSlot, Abstract!Open, Open, TypeOK
      <4> QED
        BY <4>4 DEF Abstract!Next
    <3> QED
      BY <3>2, <3>3
  <2>4. CASE AllocateStack
    <3>1. /\ frame = Open /\ UNCHANGED table
          /\ frame' \in Nat /\ frame' % 16 = 0 /\ used <= frame'
      <4>1. frame = Open /\ UNCHANGED table
            /\ frame' = fixStackSizeForFunction(used)
        BY <2>4 DEF AllocateStack
      <4> QED
        BY <4>1, RoundUpMultiple DEF fixStackSizeForFunction, TypeOK
    <3>2. \A p \in DOMAIN table : -frame' <= table[p]
      BY <3>1 DEF SlotsInUse, TypeOK
    <3>3. Abstract!Reserve
      BY <2>2, <3>1, <3>2 DEF Abstract!Reserve, Abstract!Open, Open
    <3> QED
      BY <3>3 DEF Abstract!Next
  <2>5. CASE UNCHANGED vars
    BY <2>2, <2>5 DEF vars, Abstract!vars
  <2> QED
    BY <2>3, <2>4, <2>5 DEF Next
<1> QED
  BY <1>1, <1>2, LayoutInvariant, PTL
     DEF Spec, ImplementsFrameAllocator, Abstract!Spec

=============================================================================
