------------------------ MODULE CallingConventionProofs ------------------------
(***************************************************************************)
(* The theorems about calls: for any numbers of parameters, calls and      *)
(* activations, and any registers.  The first part says where each         *)
(* instruction of the generated function lies, and knows nothing of the    *)
(* machine that runs it; the second part is about the machine.             *)
(***************************************************************************)
EXTENDS CallingConvention, SequenceLemmas

(***************************************************************************)
(* The parameters of each class, and how much of a call depends on them.   *)
(***************************************************************************)
IntRegs == IntRegIdxs(sig)
DoubleRegs == DoubleRegIdxs(sig)
OnStack == StackIdxs(sig)

Ints == Len(IntRegs)
Doubles == Len(DoubleRegs)
Stacked == Len(OnStack)
Padding == StackPadding(classifyCallArgs)
Removed == BytesToRemove(classifyCallArgs)

\* How many instructions pad before a call, and clean up after it.
Pads == IF Padding = 0 THEN 0 ELSE 1
Removes == IF Removed = 0 THEN 0 ELSE 1

(***************************************************************************)
(* Positions.                                                              *)
(***************************************************************************)
IntParamAt(j) == 2 + j
DoubleParamAt(j) == 2 + Ints + j
StackParamAt(j) == 2 + Ints + Doubles + 2 * j - 1
BodyAt == 3 + Ints + Doubles + 2 * Stacked
IntArgAt(j) == BodyAt + Pads + j
DoubleArgAt(j) == BodyAt + Pads + Ints + j

\* The j-th argument to be pushed, counted from the last.
Pushed(j) == OnStack[Stacked - j + 1]
PushParts == [j \in 1 .. Stacked |-> PushArg(Pushed(j))]
PushPlaces == CHOOSE at : LaidOut(FlattenSeq(PushParts), at, PushParts)
PushAt(j) == BodyAt + Pads + Ints + Doubles + PushPlaces[j] + 1

CallAt == PushAt(Stacked + 1)
TakeAt == CallAt + Removes + 1
EndAt == CallAt + Removes + 6

(***************************************************************************)
(* The classes.                                                            *)
(***************************************************************************)
Inj(s) == \A j, k \in DOMAIN s : s[j] = s[k] => j = k

\* InOrder lists exactly the members, and each once.
LEMMA InOrderFacts ==
  ASSUME NEW S, NEW n \in Nat
  PROVE  /\ InOrder(S, n) \in Seq(1 .. n)
         /\ \A j \in DOMAIN InOrder(S, n) : InOrder(S, n)[j] \in S
         /\ \A i \in 1 .. n : i \in S => \E j \in DOMAIN InOrder(S, n) : InOrder(S, n)[j] = i
         /\ Inj(InOrder(S, n))
<1> DEFINE seqs == [i \in 1 .. n |-> IF i \in S THEN <<i>> ELSE <<>>]
<1>1. seqs \in Seq(Seq(1 .. n)) /\ Len(seqs) = n
  <2>1. \A i \in 1 .. n : <<i>> \in Seq(1 .. n) /\ <<>> \in Seq(1 .. n)
    OBVIOUS
  <2>2. PICK T : T = Seq(1 .. n)
    OBVIOUS
  <2>3. seqs \in [1 .. n -> T]
    BY <2>1, <2>2
  <2>4. seqs \in Seq(T) /\ Len(seqs) = n
    <3> HIDE DEF seqs
    <3> QED BY <2>3
  <2> QED BY <2>2, <2>4
<1>2. ASSUME NEW i \in 1 .. n
      PROVE  /\ i \in S => Len(seqs[i]) = 1 /\ seqs[i][1] = i
             /\ i \notin S => Len(seqs[i]) = 0
  <2>1. seqs[i] = IF i \in S THEN <<i>> ELSE <<>>
    OBVIOUS
  <2> HIDE DEF seqs
  <2> QED BY <2>1
<1>3. PICK all, at : all = FlattenSeq(seqs) /\ all \in Seq(1 .. n) /\ LaidOut(all, at, seqs)
  <2> HIDE DEF seqs
  <2> QED BY <1>1, FlattenLaidOut
<1>4. InOrder(S, n) = all
  BY <1>3 DEF InOrder
<1>5. DOMAIN all = 1 .. Len(all) /\ Len(all) \in Nat
  BY <1>3, LenProperties
<1> HIDE DEF seqs
<1>6. /\ \A i \in 1 .. n : at[i] \in Nat /\ at[i] + Len(seqs[i]) <= Len(all)
      /\ \A i \in 1 .. n : i \in S => all[at[i] + 1] = i
      /\ \A p \in 1 .. Len(all) : \E i \in 1 .. n : i \in S /\ p = at[i] + 1
  <2>1. ASSUME NEW i \in 1 .. n PROVE at[i] \in Nat /\ at[i] + Len(seqs[i]) <= Len(all)
    <3>1. i \in 1 .. Len(seqs) /\ i \in 1 .. n + 1 /\ n + 1 \in 1 .. n + 1 /\ i < n + 1
      BY <1>1
    <3> QED BY <3>1, <1>1, <1>3 DEF LaidOut
  <2>2. ASSUME NEW i \in 1 .. n, i \in S PROVE all[at[i] + 1] = i
    <3>1. i \in 1 .. Len(seqs)
      BY <1>1
    <3>2. Len(seqs[i]) = 1 /\ seqs[i][1] = i
      BY <2>2, <1>2
    <3>3. 1 \in 1 .. Len(seqs[i])
      BY <3>2
    <3> QED BY <3>1, <3>2, <3>3, <1>3 DEF LaidOut
  <2>3. ASSUME NEW p \in 1 .. Len(all) PROVE \E i \in 1 .. n : i \in S /\ p = at[i] + 1
    <3>1. PICK i \in 1 .. n : \E k \in 1 .. Len(seqs[i]) : p = at[i] + k
      BY <1>1, <1>3 DEF LaidOut
    <3>2. PICK k \in 1 .. Len(seqs[i]) : p = at[i] + k
      BY <3>1
    <3>3. i \in S
      BY <3>2, <1>2
    <3>5. Len(seqs[i]) = 1
      BY <3>3, <1>2
    <3>4. k = 1
      BY <3>5
    <3> QED BY <3>2, <3>3, <3>4
  <2> QED BY <2>1, <2>2, <2>3
<1>7. \A j \in DOMAIN all : all[j] \in S
  BY <1>5, <1>6
<1>8. ASSUME NEW i \in 1 .. n, i \in S PROVE \E j \in DOMAIN all : all[j] = i
  <2>1. Len(seqs[i]) = 1 /\ at[i] \in Nat /\ at[i] + Len(seqs[i]) <= Len(all)
    BY <1>2, <1>6, <1>8
  <2>2. at[i] + 1 \in DOMAIN all /\ all[at[i] + 1] = i
    BY <2>1, <1>5, <1>6, <1>8
  <2> QED BY <2>2
<1>9. ASSUME NEW j \in DOMAIN all, NEW k \in DOMAIN all, all[j] = all[k] PROVE j = k
  <2>1. PICK x \in 1 .. n : x \in S /\ j = at[x] + 1
    BY <1>5, <1>6
  <2>2. PICK y \in 1 .. n : y \in S /\ k = at[y] + 1
    BY <1>5, <1>6
  <2> QED BY <2>1, <2>2, <1>6, <1>9
<1> QED BY <1>3, <1>4, <1>7, <1>8, <1>9 DEF Inj

LEMMA FirstsApart ==
  ASSUME NEW o, NEW f, NEW L \in Nat, NEW l \in Nat, DOMAIN o = 1 .. L, DOMAIN f = 1 .. l,
         l <= L, \A i \in 1 .. l : f[i] = o[i], Inj(o)
  PROVE  Inj(f)
BY DEF Inj

\* As many members of a class as have a register.
LEMMA Fitting ==
  ASSUME NEW S, NEW n \in Nat, NEW m \in Nat, NEW o, o = InOrder(S, n)
  PROVE  \A f : f = SubSeq(o, 1, Least(Len(o), m)) =>
           /\ f \in Seq(1 .. n) /\ Len(f) <= m /\ Inj(f)
           /\ \A j \in 1 .. Len(f) : f[j] \in S
<1>0. SUFFICES ASSUME NEW f, f = SubSeq(o, 1, Least(Len(o), m))
               PROVE  /\ f \in Seq(1 .. n) /\ Len(f) <= m /\ Inj(f)
                      /\ \A j \in 1 .. Len(f) : f[j] \in S
  OBVIOUS
<1>1. o \in Seq(1 .. n) /\ Inj(o) /\ \A j \in DOMAIN o : o[j] \in S
  BY InOrderFacts
<1>2. PICK l : l = Least(Len(o), m)
  OBVIOUS
<1>3. Len(o) \in Nat /\ DOMAIN o = 1 .. Len(o)
  BY <1>1, LenProperties
<1>4. l \in Nat /\ l <= Len(o) /\ l <= m
  BY <1>2, <1>3 DEF Least
<1>5. \A i \in 1 .. l : o[i] \in 1 .. n
  BY <1>1, <1>3, <1>4, ElementOfSeq
<1>6. f \in Seq(1 .. n) /\ Len(f) = l /\ \A i \in 1 .. l : f[i] = o[i]
  BY <1>0, <1>2, <1>4, <1>5, SubSeqProperties
<1>7. DOMAIN f = 1 .. l
  BY <1>6, LenProperties
<1>8. Inj(f)
  BY <1>1, <1>3, <1>4, <1>6, <1>7, FirstsApart
<1>9. \A j \in 1 .. Len(f) : f[j] \in S
  BY <1>1, <1>3, <1>4, <1>6
<1> QED BY <1>4, <1>6, <1>8, <1>9

LEMMA SigFacts ==
  ASSUME sig \in Signature
  PROVE  /\ sig \in Seq(ArgType) /\ Len(sig) \in Nat /\ DOMAIN sig = 1 .. Len(sig)
         /\ \A i \in DOMAIN sig : sig[i] \in ArgType
<1>1. PICK k \in 0 .. MaxArgs : sig \in [1 .. k -> ArgType]
  BY DEF Signature
<1>2. k \in Nat
  BY BoundsAssumption
<1>3. sig \in Seq(ArgType)
  BY <1>1, <1>2
<1> QED BY <1>1, <1>3, LenProperties

\* Every parameter has one place: a register of its class, or the stack.
LEMMA ClassFacts ==
  ASSUME sig \in Signature
  PROVE  /\ IntRegs \in Seq(DOMAIN sig) /\ DoubleRegs \in Seq(DOMAIN sig)
         /\ OnStack \in Seq(DOMAIN sig)
         /\ Ints \in Nat /\ Doubles \in Nat /\ Stacked \in Nat
         /\ DOMAIN IntRegs = 1 .. Ints /\ DOMAIN DoubleRegs = 1 .. Doubles
         /\ DOMAIN OnStack = 1 .. Stacked
         /\ Ints <= Len(argResigters) /\ Doubles <= Len(doubleArgRegisters)
         /\ Inj(IntRegs) /\ Inj(DoubleRegs) /\ Inj(OnStack)
         /\ \A j \in 1 .. Ints : sig[IntRegs[j]] # "double"
         /\ \A j \in 1 .. Doubles : sig[DoubleRegs[j]] = "double"
         /\ \A i \in DOMAIN sig :
              \/ \E j \in 1 .. Ints : i = IntRegs[j]
              \/ \E j \in 1 .. Doubles : i = DoubleRegs[j]
              \/ \E j \in 1 .. Stacked : i = OnStack[j]
<1>1. PICK n \in Nat : n = Len(sig) /\ DOMAIN sig = 1 .. n
  BY SigFacts
<1>2. PICK A : A = {i \in DOMAIN sig : sig[i] # "double"}
  OBVIOUS
<1>3. PICK B : B = {i \in DOMAIN sig : sig[i] = "double"}
  OBVIOUS
<1>4. PICK m : m = Len(argResigters)
  OBVIOUS
<1>5. PICK p : p = Len(doubleArgRegisters)
  OBVIOUS
<1>6. m \in Nat /\ p \in Nat
  BY <1>4, <1>5, RegistersAssumption, LenProperties
<1>7. PICK i : i = IntRegs
  OBVIOUS
<1>8. PICK d : d = DoubleRegs
  OBVIOUS
<1>9. /\ i \in Seq(1 .. n) /\ Len(i) <= m /\ Inj(i)
      /\ \A j \in 1 .. Len(i) : i[j] \in A
  <2>1. PICK o : o = InOrder(A, n)
    OBVIOUS
  <2>2. i = SubSeq(o, 1, Least(Len(o), m))
    BY <2>1, <1>1, <1>2, <1>4, <1>7, Zenon DEF IntRegs, IntRegIdxs, IntIdxs
  <2> QED BY <2>1, <2>2, <1>6, Fitting
<1>10. /\ d \in Seq(1 .. n) /\ Len(d) <= p /\ Inj(d)
       /\ \A j \in 1 .. Len(d) : d[j] \in B
  <2>1. PICK o : o = InOrder(B, n)
    OBVIOUS
  <2>2. d = SubSeq(o, 1, Least(Len(o), p))
    BY <2>1, <1>1, <1>3, <1>5, <1>8, Zenon DEF DoubleRegs, DoubleRegIdxs, DoubleIdxs
  <2> QED BY <2>1, <2>2, <1>6, Fitting
<1>11. PICK s, R : s = OnStack /\ R = DOMAIN sig \ (Range(i) \cup Range(d))
  OBVIOUS
<1>12. s = InOrder(R, n)
  BY <1>1, <1>7, <1>8, <1>11 DEF OnStack, StackIdxs, IntRegs, DoubleRegs
<1>13. s \in Seq(1 .. n) /\ Inj(s) /\ \A k \in 1 .. n : k \in R => \E j \in DOMAIN s : s[j] = k
  BY <1>12, InOrderFacts
<1>14. /\ DOMAIN i = 1 .. Len(i) /\ Len(i) \in Nat /\ DOMAIN d = 1 .. Len(d) /\ Len(d) \in Nat
       /\ DOMAIN s = 1 .. Len(s) /\ Len(s) \in Nat
  BY <1>9, <1>10, <1>13, LenProperties
<1>15. ASSUME NEW k \in 1 .. n
       PROVE  \/ \E j \in 1 .. Len(i) : k = i[j]
              \/ \E j \in 1 .. Len(d) : k = d[j]
              \/ \E j \in 1 .. Len(s) : k = s[j]
  <2>1. CASE k \in R
    BY <2>1, <1>13, <1>14
  <2>2. CASE k \notin R
    <3>1. k \in Range(i) \/ k \in Range(d)
      BY <2>2, <1>1, <1>11
    <3> QED BY <3>1, <1>14 DEF Range
  <2> QED BY <2>1, <2>2
<1>16. i = IntRegs /\ d = DoubleRegs /\ s = OnStack
  BY <1>7, <1>8, <1>11
<1>17. Ints = Len(i) /\ Doubles = Len(d) /\ Stacked = Len(s)
  BY <1>16 DEF Ints, Doubles, Stacked
<1>18. DOMAIN sig = 1 .. n
  BY <1>1
<1>19. \A j \in 1 .. Len(i) : sig[i[j]] # "double"
  BY <1>2, <1>9
<1>20. \A j \in 1 .. Len(d) : sig[d[j]] = "double"
  BY <1>3, <1>10
<1> QED
  BY <1>4, <1>5, <1>9, <1>10, <1>13, <1>14, <1>15, <1>16, <1>17, <1>18, <1>19, <1>20, Zenon

(***************************************************************************)
(* Instructions, and those that fixMov leaves alone.                       *)
(***************************************************************************)
Operand ==
  [kind : {"register"}, name : Registers] \cup [kind : {"memory"}, offset : Int]
  \cup [kind : {"immediate"}, number : Int]
Instr ==
  [op : {"enter", "work", "again", "call", "ret"}]
  \cup [op : {"mov"}, type : ArgType, src : Operand, dst : Operand]
  \cup [op : {"push"}, src : Operand] \cup [op : {"adjust"}, bytes : Int]
Fine == {x \in Instr : fixMov(x) = <<x>>}

LEMMA OperandFacts ==
  /\ \A r \in Registers : Reg(r) \in Operand /\ Reg(r).kind = "register" /\ Reg(r).name = r
  /\ \A n \in Int : Stack(n) \in Operand /\ Stack(n).kind = "memory" /\ Stack(n).offset = n
  /\ \A n \in Int : /\ Immediate(n) \in Operand /\ Immediate(n).kind = "immediate"
                    /\ Immediate(n).number = n
BY DEF Operand, Reg, Stack, Immediate

LEMMA ScratchFacts ==
  \A t : /\ scratchReg1(t) \in Operand /\ scratchReg1(t).kind = "register"
        /\ scratchReg1(t).name \in {"R10", "XMM15"}
<1> SUFFICES ASSUME NEW t
             PROVE  /\ scratchReg1(t) \in Operand /\ scratchReg1(t).kind = "register"
                    /\ scratchReg1(t).name \in {"R10", "XMM15"}
  OBVIOUS
<1>1. CASE t = "double"
  <2>1. scratchReg1(t) = Reg("XMM15")
    BY <1>1 DEF scratchReg1
  <2>2. PICK r \in Registers : r = "XMM15"
    BY DEF Registers
  <2>3. Reg(r) \in Operand /\ Reg(r).kind = "register" /\ Reg(r).name = r
    BY OperandFacts
  <2>4. r \in {"R10", "XMM15"} /\ scratchReg1(t) = Reg(r)
    BY <2>1, <2>2
  <2> QED BY <2>3, <2>4
<1>2. CASE t # "double"
  <2>1. scratchReg1(t) = Reg("R10")
    BY <1>2 DEF scratchReg1
  <2>2. PICK r \in Registers : r = "R10"
    BY DEF Registers
  <2>3. Reg(r) \in Operand /\ Reg(r).kind = "register" /\ Reg(r).name = r
    BY OperandFacts
  <2>4. r \in {"R10", "XMM15"} /\ scratchReg1(t) = Reg(r)
    BY <2>1, <2>2
  <2> QED BY <2>3, <2>4
<1> QED BY <1>1, <1>2

LEMMA InstrFacts ==
  /\ \A op \in {"enter", "work", "again", "call", "ret"} : Plain(op) \in Fine
  /\ \A n \in Int : Adjust(n) \in Fine
  /\ \A s \in Operand : Push(s) \in Fine
  /\ \A t \in ArgType, s \in Operand, d \in Operand : Mov(t, s, d) \in Instr
  /\ \A t \in ArgType, s \in Operand, d \in Operand :
       s.kind = "register" \/ d.kind = "register" => Mov(t, s, d) \in Fine
  /\ \A x \in Fine : x \in Instr
<1>1. ASSUME NEW op \in {"enter", "work", "again", "call", "ret"} PROVE Plain(op) \in Fine
  BY DEF Plain, Fine, Instr, fixMov
<1>2. ASSUME NEW n \in Int PROVE Adjust(n) \in Fine
  BY DEF Adjust, Fine, Instr, fixMov
<1>3. ASSUME NEW s \in Operand PROVE Push(s) \in Fine
  BY DEF Push, Fine, Instr, fixMov
<1>4. ASSUME NEW t \in ArgType, NEW s \in Operand, NEW d \in Operand
      PROVE  Mov(t, s, d) \in Instr
  BY DEF Mov, Instr
<1>5. ASSUME NEW t \in ArgType, NEW s \in Operand, NEW d \in Operand,
             s.kind = "register" \/ d.kind = "register"
      PROVE  Mov(t, s, d) \in Fine
  <2>1. ~(Mov(t, s, d).src.kind = "memory" /\ Mov(t, s, d).dst.kind = "memory")
    BY <1>5 DEF Mov
  <2>2. fixMov(Mov(t, s, d)) = <<Mov(t, s, d)>>
    BY <2>1, Zenon DEF fixMov
  <2> QED BY <2>2, <1>4, Zenon DEF Fine
<1> QED BY <1>1, <1>2, <1>3, <1>4, <1>5 DEF Fine

\* What each instruction of a list becomes.
Parts(list) == [k \in DOMAIN list |-> fixMov(list[k])]

LEMMA PartsFacts ==
  ASSUME NEW list \in Seq(Instr)
  PROVE  /\ Parts(list) \in Seq(Seq(Instr)) /\ Len(Parts(list)) = Len(list)
         /\ \A k \in 1 .. Len(list) : Parts(list)[k] = fixMov(list[k])
<1>1. DOMAIN list = 1 .. Len(list) /\ Len(list) \in Nat
  BY LenProperties
<1>2. ASSUME NEW x \in Instr PROVE fixMov(x) \in Seq(Instr)
  <2>1. CASE x.op = "mov" /\ x.src.kind = "memory" /\ x.dst.kind = "memory"
    <3>1. x \in [op : {"mov"}, type : ArgType, src : Operand, dst : Operand]
      <4>1. x.op = "mov"
        BY <2>1
      <4> QED BY <4>1, SMTT(30) DEF Instr
    <3>2. x.type \in ArgType /\ x.src \in Operand /\ x.dst \in Operand
      BY <3>1
    <3>3. scratchReg1(x.type) \in Operand
      BY ScratchFacts
    <3>4. /\ Mov(x.type, x.src, scratchReg1(x.type)) \in Instr
          /\ Mov(x.type, scratchReg1(x.type), x.dst) \in Instr
      BY <3>2, <3>3, InstrFacts
    <3>5. fixMov(x) = <<Mov(x.type, x.src, scratchReg1(x.type)),
                        Mov(x.type, scratchReg1(x.type), x.dst)>>
      BY <2>1 DEF fixMov
    <3> QED BY <3>4, <3>5
  <2>2. CASE ~(x.op = "mov" /\ x.src.kind = "memory" /\ x.dst.kind = "memory")
    <3>1. fixMov(x) = <<x>>
      BY <2>2 DEF fixMov
    <3> QED BY <3>1
  <2> QED BY <2>1, <2>2
<1>3. PICK T : T = Seq(Instr)
  OBVIOUS
<1>4. ASSUME NEW k \in 1 .. Len(list) PROVE fixMov(list[k]) \in T
  <2>1. list[k] \in Instr
    BY ElementOfSeq
  <2> QED BY <2>1, <1>2, <1>3
<1>5. Parts(list) \in [1 .. Len(list) -> T]
  BY <1>1, <1>4 DEF Parts
<1>6. \A k \in 1 .. Len(list) : Parts(list)[k] = fixMov(list[k])
  BY <1>1 DEF Parts
<1>7. Parts(list) \in Seq(T) /\ Len(Parts(list)) = Len(list)
  BY <1>1, <1>5
<1> QED BY <1>3, <1>6, <1>7

LEMMA FixedFine ==
  ASSUME NEW list \in Seq(Fine)
  PROVE  FixedMoves(list) = list
<1>1. list \in Seq(Instr)
  BY InstrFacts, SeqMonotonic
<1>2. \A k \in 1 .. Len(list) : fixMov(list[k]) = <<list[k]>>
  BY ElementOfSeq DEF Fine
<1>3. FixedMoves(list) = FlattenSeq(Parts(list))
  BY DEF FixedMoves, Parts
<1>4. /\ Parts(list) \in Seq(Seq(Instr)) /\ Len(Parts(list)) = Len(list)
      /\ \A k \in 1 .. Len(list) : Parts(list)[k] = <<list[k]>>
  BY <1>1, <1>2, PartsFacts
<1>5. FlattenSeq(Parts(list)) = list
  BY <1>1, <1>4, FlattenSingles
<1> QED BY <1>3, <1>5

LEMMA Listed ==
  ASSUME NEW S, NEW n \in Nat, NEW f \in [1 .. n -> S]
  PROVE  f \in Seq(S) /\ Len(f) = n
OBVIOUS

(***************************************************************************)
(* Registers and slots.                                                    *)
(***************************************************************************)
Scratch == {"AX", "R10", "XMM15"}

LEMMA RegisterFacts ==
  /\ Len(argResigters) \in Nat /\ Len(doubleArgRegisters) \in Nat
  /\ \A j \in 1 .. Len(argResigters) :
       argResigters[j] \in Registers /\ argResigters[j] \notin Scratch
  /\ \A j \in 1 .. Len(doubleArgRegisters) :
       doubleArgRegisters[j] \in Registers /\ doubleArgRegisters[j] \notin Scratch
  /\ Inj(argResigters) /\ Inj(doubleArgRegisters)
  /\ \A j \in 1 .. Len(argResigters), k \in 1 .. Len(doubleArgRegisters) :
       argResigters[j] # doubleArgRegisters[k]
  /\ "AX" \in Registers /\ "R10" \in Registers /\ "XMM15" \in Registers
  /\ 1 \in 1 .. Len(doubleArgRegisters)
<1>1. PICK a, d, A, D :
        /\ a = argResigters /\ d = doubleArgRegisters
        /\ A = Range(argResigters) /\ D = Range(doubleArgRegisters)
  OBVIOUS
<1>2. a \in Seq(STRING) /\ d \in Seq(STRING) /\ d # <<>>
  BY <1>1, RegistersAssumption
<1>3. /\ Len(a) \in Nat /\ DOMAIN a = 1 .. Len(a)
      /\ Len(d) \in Nat /\ DOMAIN d = 1 .. Len(d)
  BY <1>2, LenProperties
<1>4. \A j \in 1 .. Len(a) : a[j] \in A
  BY <1>1, <1>3 DEF Range
<1>5. \A j \in 1 .. Len(d) : d[j] \in D
  BY <1>1, <1>3 DEF Range
<1>6. Inj(a) /\ Inj(d)
  BY <1>1, RegistersAssumption DEF Inj, IsInjective
<1>7. Registers = A \cup D \cup Scratch
  BY <1>1 DEF Registers, Scratch
<1>8. A \cap D = {} /\ Scratch \cap (A \cup D) = {}
  BY <1>1, RegistersAssumption DEF Scratch
<1>9. Len(d) # 0
  BY <1>2, EmptySeq
<1>10. {"AX", "R10", "XMM15"} \subseteq Registers
  BY <1>7 DEF Scratch
<1>11. \A j \in 1 .. Len(a) : a[j] \in Registers /\ a[j] \notin Scratch
  BY <1>4, <1>7, <1>8
<1>12. \A j \in 1 .. Len(d) : d[j] \in Registers /\ d[j] \notin Scratch
  BY <1>5, <1>7, <1>8
<1>13. \A j \in 1 .. Len(a), k \in 1 .. Len(d) : a[j] # d[k]
  BY <1>4, <1>5, <1>8
<1>14. 1 \in 1 .. Len(d)
  BY <1>3, <1>9
<1> QED BY <1>1, <1>3, <1>6, <1>10, <1>11, <1>12, <1>13, <1>14

LEMMA ReturnRegisterFacts ==
  \A t : /\ ReturnRegister(t) \in Operand /\ ReturnRegister(t).kind = "register"
        /\ ReturnRegister(t).name \in Registers
        /\ ReturnRegister(t).name \notin {"R10", "XMM15"}
<1> SUFFICES ASSUME NEW t
             PROVE  /\ ReturnRegister(t) \in Operand /\ ReturnRegister(t).kind = "register"
                    /\ ReturnRegister(t).name \in Registers
                    /\ ReturnRegister(t).name \notin {"R10", "XMM15"}
  OBVIOUS
<1>1. PICK r \in Registers : ReturnRegister(t) = Reg(r) /\ r \notin {"R10", "XMM15"}
  <2>1. CASE t = "double"
    <3>1. ReturnRegister(t) = Reg(doubleArgRegisters[1])
      BY <2>1 DEF ReturnRegister, XMM0
    <3>2. PICK r : r = doubleArgRegisters[1]
      OBVIOUS
    <3>3. r \in Registers /\ r \notin {"R10", "XMM15"}
      BY <3>2, RegisterFacts DEF Scratch
    <3> QED BY <3>1, <3>2, <3>3
  <2>2. CASE t # "double"
    <3>1. ReturnRegister(t) = Reg("AX")
      BY <2>2 DEF ReturnRegister, AX
    <3>2. PICK r : r = "AX"
      OBVIOUS
    <3>3. r \in Registers /\ r \notin {"R10", "XMM15"}
      BY <3>2, RegisterFacts
    <3> QED BY <3>1, <3>2, <3>3
  <2> QED BY <2>1, <2>2
<1> QED BY <1>1, OperandFacts

LEMMA SlotFacts ==
  ASSUME sig \in Signature
  PROVE  /\ \A i \in DOMAIN sig :
              /\ Param(i) \in Operand /\ Param(i).kind = "memory"
              /\ Param(i).offset = -(8 * i)
              /\ Arg(i) \in Operand /\ Arg(i).kind = "memory"
              /\ Arg(i).offset = -(8 * (Len(sig) + i))
         /\ Result \in Operand /\ Result.kind = "memory"
         /\ Result.offset = -(8 * (2 * Len(sig) + 1))
         /\ ReturnValue \in Operand /\ ReturnValue.kind = "memory"
         /\ ReturnValue.offset = -(8 * (2 * Len(sig) + 2))
<1>1. PICK n \in Nat : n = Len(sig) /\ DOMAIN sig = 1 .. n
  BY SigFacts
<1>2. ASSUME NEW i \in DOMAIN sig
      PROVE  /\ Param(i) \in Operand /\ Param(i).kind = "memory"
             /\ Param(i).offset = -(8 * i)
             /\ Arg(i) \in Operand /\ Arg(i).kind = "memory"
             /\ Arg(i).offset = -(8 * (n + i))
  <2>1. -8 * i \in Int /\ -8 * i = -(8 * i) /\ -8 * (n + i) \in Int /\ -8 * (n + i) = -(8 * (n + i))
    BY <1>1
  <2>2. Param(i) = Stack(-8 * i) /\ Arg(i) = Stack(-8 * (n + i))
    BY <1>1 DEF Param, Arg
  <2> QED BY <2>1, <2>2, OperandFacts
<1>3. /\ Result \in Operand /\ Result.kind = "memory"
      /\ Result.offset = -(8 * (2 * n + 1))
      /\ ReturnValue \in Operand /\ ReturnValue.kind = "memory"
      /\ ReturnValue.offset = -(8 * (2 * n + 2))
  <2>1. /\ -8 * (2 * n + 1) \in Int /\ -8 * (2 * n + 1) = -(8 * (2 * n + 1))
        /\ -8 * (2 * n + 2) \in Int /\ -8 * (2 * n + 2) = -(8 * (2 * n + 2))
    OBVIOUS
  <2>2. Result = Stack(-8 * (2 * n + 1)) /\ ReturnValue = Stack(-8 * (2 * n + 2))
    BY <1>1 DEF Result, ReturnValue
  <2> QED BY <2>1, <2>2, OperandFacts
<1> QED BY <1>1, <1>2, <1>3

(***************************************************************************)
(* What each emitter emits.                                                *)
(***************************************************************************)
LEMMA ClassesAre ==
  /\ classifyCallArgs.intRegs = IntRegs /\ classifyCallArgs.doubleRegs = DoubleRegs
  /\ classifyCallArgs.stack = OnStack
  /\ classifyFuncParams.intRegs = IntRegs /\ classifyFuncParams.doubleRegs = DoubleRegs
  /\ classifyFuncParams.stack = OnStack
BY DEF classifyCallArgs, classifyFuncParams, IntRegs, DoubleRegs, OnStack

LEMMA IntArgCode ==
  ASSUME sig \in Signature
  PROVE  /\ emitIntRegArgs(classifyCallArgs) \in Seq(Fine)
         /\ Len(emitIntRegArgs(classifyCallArgs)) = Ints
         /\ \A j \in 1 .. Ints : emitIntRegArgs(classifyCallArgs)[j] =
              Mov(sig[IntRegs[j]], Arg(IntRegs[j]), Reg(argResigters[j]))
<1>1. /\ DOMAIN IntRegs = 1 .. Ints /\ Ints \in Nat /\ IntRegs \in Seq(DOMAIN sig)
      /\ Ints <= Len(argResigters) /\ Ints = Len(IntRegs)
  BY ClassFacts DEF Ints
<1> DEFINE M(j) == Mov(sig[IntRegs[j]], Arg(IntRegs[j]), Reg(argResigters[j]))
<1>2. PICK f : f = emitIntRegArgs(classifyCallArgs)
  OBVIOUS
<1>3. f = [j \in 1 .. Ints |-> M(j)]
  BY <1>1, <1>2, ClassesAre, Zenon DEF emitIntRegArgs
<1>4. ASSUME NEW j \in 1 .. Ints PROVE M(j) \in Fine
  <2>1. IntRegs[j] \in DOMAIN sig
    BY <1>1, ElementOfSeq
  <2>2. j \in 1 .. Len(argResigters)
    BY <1>1, RegisterFacts
  <2>3. Reg(argResigters[j]) \in Operand /\ Reg(argResigters[j]).kind = "register"
    BY <2>2, RegisterFacts, OperandFacts
  <2>4. Arg(IntRegs[j]) \in Operand /\ sig[IntRegs[j]] \in ArgType
    BY <2>1, SlotFacts, SigFacts
  <2> QED BY <2>3, <2>4, InstrFacts
<1> HIDE DEF M
<1>5. f \in [1 .. Ints -> Fine]
  BY <1>3, <1>4
<1>6. f \in Seq(Fine) /\ Len(f) = Ints
  BY <1>1, <1>5, Listed
<1>7. \A j \in 1 .. Ints : f[j] = M(j)
  BY <1>3
<1> QED BY <1>2, <1>6, <1>7 DEF M

LEMMA DoubleArgCode ==
  ASSUME sig \in Signature
  PROVE  /\ emitDoubleRegArgs(classifyCallArgs) \in Seq(Fine)
         /\ Len(emitDoubleRegArgs(classifyCallArgs)) = Doubles
         /\ \A j \in 1 .. Doubles : emitDoubleRegArgs(classifyCallArgs)[j] =
              Mov("double", Arg(DoubleRegs[j]), Reg(doubleArgRegisters[j]))
<1>1. /\ DOMAIN DoubleRegs = 1 .. Doubles /\ Doubles \in Nat /\ DoubleRegs \in Seq(DOMAIN sig)
      /\ Doubles <= Len(doubleArgRegisters) /\ Doubles = Len(DoubleRegs)
  BY ClassFacts DEF Doubles
<1> DEFINE M(j) == Mov("double", Arg(DoubleRegs[j]), Reg(doubleArgRegisters[j]))
<1>2. PICK f : f = emitDoubleRegArgs(classifyCallArgs)
  OBVIOUS
<1>3. f = [j \in 1 .. Doubles |-> M(j)]
  BY <1>1, <1>2, ClassesAre, Zenon DEF emitDoubleRegArgs
<1>4. ASSUME NEW j \in 1 .. Doubles PROVE M(j) \in Fine
  <2>1. DoubleRegs[j] \in DOMAIN sig
    BY <1>1, ElementOfSeq
  <2>2. j \in 1 .. Len(doubleArgRegisters)
    BY <1>1, RegisterFacts
  <2>3. Reg(doubleArgRegisters[j]) \in Operand /\ Reg(doubleArgRegisters[j]).kind = "register"
    BY <2>2, RegisterFacts, OperandFacts
  <2>4. Arg(DoubleRegs[j]) \in Operand
    BY <2>1, SlotFacts
  <2>5. "double" \in ArgType
    BY DEF ArgType
  <2> QED BY <2>3, <2>4, <2>5, InstrFacts
<1> HIDE DEF M
<1>5. f \in [1 .. Doubles -> Fine]
  BY <1>3, <1>4
<1>6. f \in Seq(Fine) /\ Len(f) = Doubles
  BY <1>1, <1>5, Listed
<1>7. \A j \in 1 .. Doubles : f[j] = M(j)
  BY <1>3
<1> QED BY <1>2, <1>6, <1>7 DEF M

LEMMA IntParamCode ==
  ASSUME sig \in Signature
  PROVE  /\ emitIntRegParams(classifyFuncParams) \in Seq(Fine)
         /\ Len(emitIntRegParams(classifyFuncParams)) = Ints
         /\ \A j \in 1 .. Ints : emitIntRegParams(classifyFuncParams)[j] =
              Mov(sig[IntRegs[j]], Reg(argResigters[j]), Param(IntRegs[j]))
<1>1. /\ DOMAIN IntRegs = 1 .. Ints /\ Ints \in Nat /\ IntRegs \in Seq(DOMAIN sig)
      /\ Ints <= Len(argResigters) /\ Ints = Len(IntRegs)
  BY ClassFacts DEF Ints
<1> DEFINE M(j) == Mov(sig[IntRegs[j]], Reg(argResigters[j]), Param(IntRegs[j]))
<1>2. PICK f : f = emitIntRegParams(classifyFuncParams)
  OBVIOUS
<1>3. f = [j \in 1 .. Ints |-> M(j)]
  BY <1>1, <1>2, ClassesAre, Zenon DEF emitIntRegParams
<1>4. ASSUME NEW j \in 1 .. Ints PROVE M(j) \in Fine
  <2>1. IntRegs[j] \in DOMAIN sig
    BY <1>1, ElementOfSeq
  <2>2. j \in 1 .. Len(argResigters)
    BY <1>1, RegisterFacts
  <2>3. Reg(argResigters[j]) \in Operand /\ Reg(argResigters[j]).kind = "register"
    BY <2>2, RegisterFacts, OperandFacts
  <2>4. Param(IntRegs[j]) \in Operand /\ sig[IntRegs[j]] \in ArgType
    BY <2>1, SlotFacts, SigFacts
  <2> QED BY <2>3, <2>4, InstrFacts
<1> HIDE DEF M
<1>5. f \in [1 .. Ints -> Fine]
  BY <1>3, <1>4
<1>6. f \in Seq(Fine) /\ Len(f) = Ints
  BY <1>1, <1>5, Listed
<1>7. \A j \in 1 .. Ints : f[j] = M(j)
  BY <1>3
<1> QED BY <1>2, <1>6, <1>7 DEF M

LEMMA DoubleParamCode ==
  ASSUME sig \in Signature
  PROVE  /\ emitDoubleRegParams(classifyFuncParams) \in Seq(Fine)
         /\ Len(emitDoubleRegParams(classifyFuncParams)) = Doubles
         /\ \A j \in 1 .. Doubles : emitDoubleRegParams(classifyFuncParams)[j] =
              Mov("double", Reg(doubleArgRegisters[j]), Param(DoubleRegs[j]))
<1>1. /\ DOMAIN DoubleRegs = 1 .. Doubles /\ Doubles \in Nat /\ DoubleRegs \in Seq(DOMAIN sig)
      /\ Doubles <= Len(doubleArgRegisters) /\ Doubles = Len(DoubleRegs)
  BY ClassFacts DEF Doubles
<1> DEFINE M(j) == Mov("double", Reg(doubleArgRegisters[j]), Param(DoubleRegs[j]))
<1>2. PICK f : f = emitDoubleRegParams(classifyFuncParams)
  OBVIOUS
<1>3. f = [j \in 1 .. Doubles |-> M(j)]
  BY <1>1, <1>2, ClassesAre, Zenon DEF emitDoubleRegParams
<1>4. ASSUME NEW j \in 1 .. Doubles PROVE M(j) \in Fine
  <2>1. DoubleRegs[j] \in DOMAIN sig
    BY <1>1, ElementOfSeq
  <2>2. j \in 1 .. Len(doubleArgRegisters)
    BY <1>1, RegisterFacts
  <2>3. Reg(doubleArgRegisters[j]) \in Operand /\ Reg(doubleArgRegisters[j]).kind = "register"
    BY <2>2, RegisterFacts, OperandFacts
  <2>4. Param(DoubleRegs[j]) \in Operand
    BY <2>1, SlotFacts
  <2>5. "double" \in ArgType
    BY DEF ArgType
  <2> QED BY <2>3, <2>4, <2>5, InstrFacts
<1> HIDE DEF M
<1>5. f \in [1 .. Doubles -> Fine]
  BY <1>3, <1>4
<1>6. f \in Seq(Fine) /\ Len(f) = Doubles
  BY <1>1, <1>5, Listed
<1>7. \A j \in 1 .. Doubles : f[j] = M(j)
  BY <1>3
<1> QED BY <1>2, <1>6, <1>7 DEF M

\* The offset at which the j-th stack parameter is found.
AboveFrame(j) == 16 + 8 * (j - 1)

LEMMA StackParamCode ==
  ASSUME sig \in Signature
  PROVE  /\ emitStackParams(classifyFuncParams) \in Seq(Instr)
         /\ Len(emitStackParams(classifyFuncParams)) = Stacked
         /\ \A j \in 1 .. Stacked : emitStackParams(classifyFuncParams)[j] =
              Mov(sig[OnStack[j]], Stack(AboveFrame(j)), Param(OnStack[j]))
<1>1. /\ DOMAIN OnStack = 1 .. Stacked /\ Stacked \in Nat /\ OnStack \in Seq(DOMAIN sig)
      /\ Stacked = Len(OnStack)
  BY ClassFacts DEF Stacked
<1> DEFINE M(j) == Mov(sig[OnStack[j]], Stack(AboveFrame(j)), Param(OnStack[j]))
<1>2. PICK f : f = emitStackParams(classifyFuncParams)
  OBVIOUS
<1>3. f = [j \in 1 .. Stacked |-> M(j)]
  BY <1>1, <1>2, ClassesAre, Zenon DEF emitStackParams, AboveFrame
<1>4. ASSUME NEW j \in 1 .. Stacked PROVE M(j) \in Instr
  <2>1. OnStack[j] \in DOMAIN sig
    BY <1>1, ElementOfSeq
  <2>2. AboveFrame(j) \in Int
    BY DEF AboveFrame
  <2>3. Stack(AboveFrame(j)) \in Operand
    BY <2>2, OperandFacts
  <2>4. Param(OnStack[j]) \in Operand /\ sig[OnStack[j]] \in ArgType
    BY <2>1, SlotFacts, SigFacts
  <2> QED BY <2>3, <2>4, InstrFacts
<1> HIDE DEF M
<1>5. f \in [1 .. Stacked -> Instr]
  BY <1>3, <1>4
<1>6. f \in Seq(Instr) /\ Len(f) = Stacked
  BY <1>1, <1>5, Listed
<1>7. \A j \in 1 .. Stacked : f[j] = M(j)
  BY <1>3
<1> QED BY <1>2, <1>6, <1>7 DEF M

\* The argument that is pushed j-th is on the stack of arguments.
LEMMA PushedFacts ==
  ASSUME sig \in Signature, NEW j \in 1 .. Stacked
  PROVE  /\ Pushed(j) \in DOMAIN sig /\ sig[Pushed(j)] \in ArgType
         /\ Stacked - j + 1 \in 1 .. Stacked /\ Pushed(j) = OnStack[Stacked - j + 1]
<1>1. Stacked \in Nat /\ OnStack \in Seq(DOMAIN sig) /\ Stacked = Len(OnStack)
  BY ClassFacts DEF Stacked
<1>2. Stacked - j + 1 \in 1 .. Stacked
  BY <1>1
<1>3. OnStack[Stacked - j + 1] \in DOMAIN sig
  BY <1>1, <1>2, ElementOfSeq
<1> QED BY <1>2, <1>3, SigFacts DEF Pushed

LEMMA PushArgFacts ==
  ASSUME sig \in Signature, NEW i \in DOMAIN sig
  PROVE  /\ PushArg(i) \in Seq(Fine)
         /\ sig[i] = "longword" => /\ Len(PushArg(i)) = 2
                                   /\ PushArg(i)[1] = Mov("longword", Arg(i), AX)
                                   /\ PushArg(i)[2] = Push(AX)
         /\ sig[i] # "longword" => Len(PushArg(i)) = 1 /\ PushArg(i)[1] = Push(Arg(i))
<1>1. PICK r \in Registers : r = "AX"
  BY RegisterFacts
<1>2. AX \in Operand /\ AX.kind = "register"
  BY <1>1, OperandFacts DEF AX
<1>3. Arg(i) \in Operand /\ "longword" \in ArgType
  BY SlotFacts DEF ArgType
<1>4. PICK m \in Fine : m = Mov("longword", Arg(i), AX)
  BY <1>2, <1>3, InstrFacts
<1>5. PICK p \in Fine : p = Push(AX)
  BY <1>2, InstrFacts
<1>6. PICK q \in Fine : q = Push(Arg(i))
  BY <1>3, InstrFacts
<1>7. CASE sig[i] = "longword"
  <2>1. PushArg(i) = <<m, p>>
    BY <1>4, <1>5, <1>7 DEF PushArg
  <2>2. <<m, p>> \in Seq(Fine) /\ Len(<<m, p>>) = 2 /\ <<m, p>>[1] = m /\ <<m, p>>[2] = p
    OBVIOUS
  <2> QED BY <2>1, <2>2, <1>4, <1>5, <1>7
<1>8. CASE sig[i] # "longword"
  <2>1. PushArg(i) = <<q>>
    BY <1>6, <1>8 DEF PushArg
  <2>2. <<q>> \in Seq(Fine) /\ Len(<<q>>) = 1 /\ <<q>>[1] = q
    OBVIOUS
  <2> QED BY <2>1, <2>2, <1>6, <1>8
<1> QED BY <1>7, <1>8

LEMMA PushCode ==
  ASSUME sig \in Signature
  PROVE  /\ PushParts \in Seq(Seq(Fine)) /\ Len(PushParts) = Stacked
         /\ \A j \in 1 .. Stacked : PushParts[j] = PushArg(Pushed(j))
         /\ emitStackArgs(classifyCallArgs) = FlattenSeq(PushParts)
         /\ FlattenSeq(PushParts) \in Seq(Fine)
         /\ LaidOut(FlattenSeq(PushParts), PushPlaces, PushParts)
<1>1. Stacked \in Nat /\ DOMAIN OnStack = 1 .. Stacked /\ Stacked = Len(OnStack)
  BY ClassFacts DEF Stacked
<1>2. PICK T : T = Seq(Fine)
  OBVIOUS
<1>3. PICK parts : parts = PushParts
  OBVIOUS
<1>4. \A j \in 1 .. Stacked : PushArg(Pushed(j)) \in T
  BY <1>2, PushedFacts, PushArgFacts
<1>5. parts \in [1 .. Stacked -> T] /\ \A j \in 1 .. Stacked : parts[j] = PushArg(Pushed(j))
  BY <1>3, <1>4 DEF PushParts
<1>6. parts \in Seq(T) /\ Len(parts) = Stacked
  BY <1>1, <1>5, Listed
<1>7. emitStackArgs(classifyCallArgs) = FlattenSeq(parts)
  <2>1. parts = [j \in 1 .. Stacked |-> PushArg(OnStack[Stacked - j + 1])]
    BY <1>3, Zenon DEF PushParts, Pushed
  <2> QED BY <1>1, <2>1, ClassesAre, Zenon DEF emitStackArgs
<1>8. FlattenSeq(parts) \in Seq(Fine) /\ \E at : LaidOut(FlattenSeq(parts), at, parts)
  BY <1>2, <1>6, FlattenLaidOut
<1>9. LaidOut(FlattenSeq(parts), PushPlaces, parts)
  BY <1>3, <1>8, Zenon DEF PushPlaces
<1> QED BY <1>2, <1>3, <1>5, <1>6, <1>7, <1>8, <1>9

\* Padding is a word or nothing, and with the arguments a multiple of 16.
LEMMA PaddingFacts ==
  ASSUME sig \in Signature
  PROVE  /\ Padding \in {0, 8} /\ Removed = 8 * Stacked + Padding
         /\ Removed \in Nat /\ Removed % 16 = 0
         /\ Pads = (IF Padding = 0 THEN 0 ELSE 1) /\ Pads \in {0, 1}
         /\ Removes = (IF Removed = 0 THEN 0 ELSE 1) /\ Removes \in {0, 1}
<1>1. Stacked \in Nat /\ Stacked = Len(OnStack)
  BY ClassFacts DEF Stacked
<1>2. Padding = IF Stacked % 2 = 1 THEN 8 ELSE 0
  BY <1>1, ClassesAre DEF Padding, StackPadding
<1>3. Removed = 8 * Stacked + Padding
  BY <1>1, ClassesAre DEF Removed, BytesToRemove, Padding
<1>4. (8 * Stacked + Padding) % 16 = 0
  BY <1>1, <1>2
<1> QED BY <1>1, <1>2, <1>3, <1>4 DEF Pads, Removes

LEMMA Counts ==
  ASSUME sig \in Signature
  PROVE  /\ Ints \in Nat /\ Doubles \in Nat /\ Stacked \in Nat
         /\ Pads \in {0, 1} /\ Removes \in {0, 1} /\ Padding \in Nat /\ Removed \in Nat
<1>1. Ints \in Nat /\ Doubles \in Nat /\ Stacked \in Nat
  BY ClassFacts
<1>2. Pads \in {0, 1} /\ Removes \in {0, 1} /\ Padding \in {0, 8} /\ Removed \in Nat
  BY PaddingFacts
<1> QED BY <1>1, <1>2

LEMMA PushAtFacts ==
  ASSUME sig \in Signature
  PROVE  /\ \A j \in 1 .. Stacked + 1 : PushAt(j) \in Nat
         /\ PushAt(1) = BodyAt + Pads + Ints + Doubles + 1
         /\ CallAt = BodyAt + Pads + Ints + Doubles + Len(FlattenSeq(PushParts)) + 1
         /\ \A j \in 1 .. Stacked :
              /\ sig[Pushed(j)] = "longword" => PushAt(j + 1) = PushAt(j) + 2
              /\ sig[Pushed(j)] # "longword" => PushAt(j + 1) = PushAt(j) + 1
         /\ \A j \in 1 .. Stacked, k \in 1 .. Stacked + 1 : j < k => PushAt(j + 1) <= PushAt(k)
         /\ \A p \in PushAt(1) .. CallAt - 1 :
              \E j \in 1 .. Stacked : p \in PushAt(j) .. PushAt(j + 1) - 1
<1>1. PICK n \in Nat : n = Stacked
  BY ClassFacts
<1>2. PICK base \in Nat : base = BodyAt + Pads + Ints + Doubles
  <2>1. Ints \in Nat /\ Doubles \in Nat /\ Stacked \in Nat
    BY ClassFacts
  <2>2. Pads \in Nat
    BY PaddingFacts
  <2>3. BodyAt + Pads + Ints + Doubles \in Nat
    BY <2>1, <2>2 DEF BodyAt
  <2> QED BY <2>3
<1>3. PICK parts, all, at : parts = PushParts /\ all = FlattenSeq(PushParts) /\ at = PushPlaces
  OBVIOUS
<1>4. /\ at \in [1 .. n + 1 -> Nat] /\ at[1] = 0 /\ at[n + 1] = Len(all)
      /\ \A j \in 1 .. n : at[j + 1] = at[j] + Len(parts[j])
      /\ \A j \in 1 .. n, k \in 1 .. n + 1 : j < k => at[j + 1] <= at[k]
      /\ \A p \in 1 .. Len(all) :
           \E j \in 1 .. n : \E k \in 1 .. Len(parts[j]) : p = at[j] + k
  <2>1. LaidOut(all, at, parts) /\ Len(parts) = n
    BY <1>1, <1>3, PushCode
  <2> QED BY <2>1, Zenon DEF LaidOut
<1>5. \A j \in 1 .. n + 1 : PushAt(j) = base + at[j] + 1
  BY <1>2, <1>3 DEF PushAt
<1>6. CallAt = PushAt(n + 1)
  BY <1>1 DEF CallAt
<1>7. \A j \in 1 .. n : /\ sig[Pushed(j)] = "longword" => Len(parts[j]) = 2
                        /\ sig[Pushed(j)] # "longword" => Len(parts[j]) = 1
  BY <1>1, <1>3, PushCode, PushedFacts, PushArgFacts
<1>8. 1 \in 1 .. n + 1 /\ n + 1 \in 1 .. n + 1
  OBVIOUS
<1>9. \A j \in 1 .. n + 1 : PushAt(j) \in Nat
  BY <1>4, <1>5
<1>10. PushAt(1) = base + 1
  BY <1>4, <1>5, <1>8
<1>11. CallAt = base + Len(all) + 1
  BY <1>4, <1>5, <1>6, <1>8
<1>12. ASSUME NEW j \in 1 .. n
       PROVE  /\ sig[Pushed(j)] = "longword" => PushAt(j + 1) = PushAt(j) + 2
              /\ sig[Pushed(j)] # "longword" => PushAt(j + 1) = PushAt(j) + 1
  <2>1. j \in 1 .. n + 1 /\ j + 1 \in 1 .. n + 1
    OBVIOUS
  <2>2. PushAt(j) = base + at[j] + 1 /\ PushAt(j + 1) = base + at[j + 1] + 1
    BY <2>1, <1>5
  <2>3. at[j] \in Nat /\ at[j + 1] = at[j] + Len(parts[j])
    BY <2>1, <1>4
  <2>4. CASE sig[Pushed(j)] = "longword"
    <3>1. Len(parts[j]) = 2
      BY <2>4, <1>7
    <3> QED BY <2>2, <2>3, <2>4, <3>1
  <2>5. CASE sig[Pushed(j)] # "longword"
    <3>1. Len(parts[j]) = 1
      BY <2>5, <1>7
    <3> QED BY <2>2, <2>3, <2>5, <3>1
  <2> QED BY <2>4, <2>5
<1>13. ASSUME NEW j \in 1 .. n, NEW k \in 1 .. n + 1, j < k PROVE PushAt(j + 1) <= PushAt(k)
  <2>1. j + 1 \in 1 .. n + 1
    OBVIOUS
  <2> QED BY <2>1, <1>4, <1>5, <1>13
<1>14. ASSUME NEW p \in PushAt(1) .. CallAt - 1
       PROVE  \E j \in 1 .. n : p \in PushAt(j) .. PushAt(j + 1) - 1
  <2>1. Len(all) \in Nat
    BY <1>4, <1>8
  <2>2. p - base \in 1 .. Len(all)
    BY <2>1, <1>10, <1>11
  <2>3. PICK j \in 1 .. n : \E k \in 1 .. Len(parts[j]) : p - base = at[j] + k
    BY <2>2, <1>4
  <2>4. PICK k \in 1 .. Len(parts[j]) : p - base = at[j] + k
    BY <2>3
  <2>5. j \in 1 .. n + 1 /\ j + 1 \in 1 .. n + 1
    OBVIOUS
  <2>6. at[j + 1] = at[j] + Len(parts[j]) /\ at[j] \in Nat /\ Len(parts[j]) \in {1, 2}
    BY <2>5, <1>4, <1>7
  <2>7. PushAt(j) = base + at[j] + 1 /\ PushAt(j + 1) = base + at[j + 1] + 1
    BY <2>5, <1>5
  <2>8. p \in PushAt(j) .. PushAt(j + 1) - 1
    BY <2>4, <2>6, <2>7
  <2> QED BY <2>8
<1> QED BY <1>1, <1>2, <1>3, <1>9, <1>10, <1>11, <1>12, <1>13, <1>14

LEMMA ParamCode ==
  ASSUME sig \in Signature
  PROVE  \A p : p = FixedMoves(addArgsAsInstructionsToFunc) =>
           /\ p \in Seq(Instr) /\ Len(p) = Ints + Doubles + 2 * Stacked
           /\ \A j \in 1 .. Ints :
                p[j] = Mov(sig[IntRegs[j]], Reg(argResigters[j]), Param(IntRegs[j]))
           /\ \A j \in 1 .. Doubles :
                p[Ints + j] = Mov("double", Reg(doubleArgRegisters[j]), Param(DoubleRegs[j]))
           /\ \A j \in 1 .. Stacked :
                LET t == sig[OnStack[j]] IN
                /\ p[Ints + Doubles + 2 * j - 1] =
                     Mov(t, Stack(AboveFrame(j)), scratchReg1(t))
                /\ p[Ints + Doubles + 2 * j] = Mov(t, scratchReg1(t), Param(OnStack[j]))
<1>1. PICK i \in Nat, d \in Nat, n \in Nat : i = Ints /\ d = Doubles /\ n = Stacked
  BY ClassFacts
<1>2. PICK A, B, C : /\ A = emitIntRegParams(classifyFuncParams)
                     /\ B = emitDoubleRegParams(classifyFuncParams)
                     /\ C = emitStackParams(classifyFuncParams)
  OBVIOUS
<1>3. A \in Seq(Instr) /\ Len(A) = i /\ B \in Seq(Instr) /\ Len(B) = d
      /\ C \in Seq(Instr) /\ Len(C) = n
  BY <1>1, <1>2, IntParamCode, DoubleParamCode, StackParamCode, InstrFacts, SeqMonotonic
<1>4. PICK list : list = (A \o B) \o C
  OBVIOUS
<1>5. list = addArgsAsInstructionsToFunc
  BY <1>2, <1>4 DEF addArgsAsInstructionsToFunc
<1>6. A \o B \in Seq(Instr) /\ Len(A \o B) = i + d
  BY <1>3, ConcatProperties
<1>7. list \in Seq(Instr) /\ Len(list) = i + d + n
  <2>1. PICK D \in Seq(Instr) : D = A \o B /\ Len(D) = i + d
    BY <1>6
  <2>2. list = D \o C
    BY <2>1, <1>4
  <2>3. D \o C \in Seq(Instr) /\ Len(D \o C) = Len(D) + Len(C)
    BY <2>1, <1>3, ConcatProperties
  <2> QED BY <2>1, <2>2, <2>3, <1>3
<1>8. Placed(list, 0, A) /\ Placed(list, i, B) /\ Placed(list, i + d, C)
  <2>1. Placed(list, 0, list)
    BY <1>7, LenProperties DEF Placed
  <2>2. Placed(list, 0, A \o B) /\ Placed(list, 0 + Len(A \o B), C)
    BY <2>1, <1>3, <1>4, <1>6, PlacedConcat
  <2>3. Placed(list, 0, A) /\ Placed(list, 0 + Len(A), B)
    BY <2>2, <1>3, PlacedConcat
  <2> QED BY <2>2, <2>3, <1>3, <1>6
<1>9. PICK parts : parts = Parts(list)
  OBVIOUS
<1>10. /\ parts \in Seq(Seq(Instr)) /\ Len(parts) = i + d + n
       /\ \A k \in 1 .. i + d + n : parts[k] = fixMov(list[k])
  BY <1>7, <1>9, PartsFacts
<1>11. PICK p, at : p = FlattenSeq(parts) /\ p \in Seq(Instr) /\ LaidOut(p, at, parts)
  BY <1>10, FlattenLaidOut
<1>12. p = FixedMoves(addArgsAsInstructionsToFunc)
  BY <1>5, <1>9, <1>11 DEF FixedMoves, Parts
<1>13. ASSUME NEW j \in 1 .. i
       PROVE  Len(parts[j]) = 1
              /\ parts[j][1] = Mov(sig[IntRegs[j]], Reg(argResigters[j]), Param(IntRegs[j]))
  <2>1. PICK m : m = Mov(sig[IntRegs[j]], Reg(argResigters[j]), Param(IntRegs[j]))
    OBVIOUS
  <2>2. A[j] = m /\ A[j] \in Fine
    BY <2>1, <1>1, <1>2, <1>3, IntParamCode, ElementOfSeq
  <2>3. list[j] = m
    BY <2>2, <1>3, <1>8 DEF Placed
  <2>4. parts[j] = <<m>>
    BY <2>2, <2>3, <1>10 DEF Fine
  <2> QED BY <2>1, <2>4
<1>14. ASSUME NEW j \in 1 .. d
       PROVE  Len(parts[i + j]) = 1
              /\ parts[i + j][1] = Mov("double", Reg(doubleArgRegisters[j]), Param(DoubleRegs[j]))
  <2>1. PICK m : m = Mov("double", Reg(doubleArgRegisters[j]), Param(DoubleRegs[j]))
    OBVIOUS
  <2>2. B[j] = m /\ B[j] \in Fine
    BY <2>1, <1>1, <1>2, <1>3, DoubleParamCode, ElementOfSeq
  <2>3. list[i + j] = m
    BY <2>2, <1>3, <1>8 DEF Placed
  <2>4. i + j \in 1 .. i + d + n
    OBVIOUS
  <2>5. parts[i + j] = <<m>>
    BY <2>2, <2>3, <2>4, <1>10 DEF Fine
  <2> QED BY <2>1, <2>5
<1>15. ASSUME NEW j \in 1 .. n
       PROVE  LET t == sig[OnStack[j]] IN
              /\ Len(parts[i + d + j]) = 2
              /\ parts[i + d + j][1] = Mov(t, Stack(AboveFrame(j)), scratchReg1(t))
              /\ parts[i + d + j][2] = Mov(t, scratchReg1(t), Param(OnStack[j]))
  <2>1. PICK t, a, b : t = sig[OnStack[j]] /\ a = Stack(AboveFrame(j)) /\ b = Param(OnStack[j])
    OBVIOUS
  <2>2. C[j] = Mov(t, a, b)
    BY <2>1, <1>1, <1>2, StackParamCode
  <2>3. list[(i + d) + j] = Mov(t, a, b)
    BY <2>2, <1>3, <1>8 DEF Placed
  <2>4. (i + d) + j \in 1 .. i + d + n
    OBVIOUS
  <2>5. OnStack[j] \in DOMAIN sig /\ AboveFrame(j) \in Int
    BY <1>1, ClassFacts, ElementOfSeq DEF AboveFrame, Stacked
  <2>6. a.kind = "memory" /\ b.kind = "memory"
    BY <2>1, <2>5, SlotFacts, OperandFacts
  <2>7. fixMov(Mov(t, a, b)) = <<Mov(t, a, scratchReg1(t)), Mov(t, scratchReg1(t), b)>>
    <3>1. PICK m : m = Mov(t, a, b)
      OBVIOUS
    <3>2. m.op = "mov" /\ m.type = t /\ m.src = a /\ m.dst = b
      BY <3>1 DEF Mov
    <3>3. fixMov(m) = <<Mov(m.type, m.src, scratchReg1(m.type)),
                        Mov(m.type, scratchReg1(m.type), m.dst)>>
      BY <3>2, <2>6, Zenon DEF fixMov
    <3> QED BY <3>1, <3>2, <3>3
  <2>8. parts[(i + d) + j] = <<Mov(t, a, scratchReg1(t)), Mov(t, scratchReg1(t), b)>>
    BY <2>3, <2>4, <2>7, <1>10
  <2>9. PICK x, y : x = Mov(t, a, scratchReg1(t)) /\ y = Mov(t, scratchReg1(t), b)
    OBVIOUS
  <2>10. Len(parts[(i + d) + j]) = 2 /\ parts[(i + d) + j][1] = x /\ parts[(i + d) + j][2] = y
    BY <2>8, <2>9
  <2> QED BY <2>1, <2>9, <2>10
<1>16. \A k \in 1 .. i + d : Len(parts[k]) = 1
  <2> SUFFICES ASSUME NEW k \in 1 .. i + d PROVE Len(parts[k]) = 1
    OBVIOUS
  <2>1. CASE k <= i
    <3>1. k \in 1 .. i
      BY <2>1
    <3> QED BY <3>1, <1>13
  <2>2. CASE k > i
    <3>1. k - i \in 1 .. d /\ i + (k - i) = k
      BY <2>2
    <3> QED BY <3>1, <1>14
  <2> QED BY <2>1, <2>2
<1>17. \A k \in i + d + 1 .. i + d + n : Len(parts[k]) = 2
  <2> SUFFICES ASSUME NEW k \in i + d + 1 .. i + d + n PROVE Len(parts[k]) = 2
    OBVIOUS
  <2>1. k - (i + d) \in 1 .. n /\ i + d + (k - (i + d)) = k
    OBVIOUS
  <2> QED BY <2>1, <1>15
<1>18. \A k \in 1 .. i + d + 1 : at[k] = k - 1
  <2>1. PICK b \in Nat : b = i + d + 1
    OBVIOUS
  <2>2. 1 \in 1 .. Len(parts) + 1 /\ b \in 1 .. Len(parts) + 1
    BY <2>1, <1>10
  <2>3. Sized(parts, 1, b, 1)
    BY <2>1, <1>16 DEF Sized
  <2>4. parts \in Seq(Seq(Instr)) /\ LaidOut(p, at, parts) /\ at[1] = 0
    BY <1>10, <1>11 DEF LaidOut
  <2>5. Stepped(at, 1, b, 1)
    BY <2>2, <2>3, <2>4, Steady
  <2> QED BY <2>1, <2>4, <2>5 DEF Stepped
<1>19. \A k \in i + d + 1 .. i + d + n + 1 : at[k] = i + d + 2 * (k - (i + d + 1))
  <2>1. PICK a \in Nat, b \in Nat : a = i + d + 1 /\ b = i + d + n + 1
    OBVIOUS
  <2>2. a \in 1 .. Len(parts) + 1 /\ b \in a .. Len(parts) + 1
    BY <2>1, <1>10
  <2>3. Sized(parts, a, b, 2)
    BY <2>1, <1>17 DEF Sized
  <2>4. parts \in Seq(Seq(Instr)) /\ LaidOut(p, at, parts)
    BY <1>10, <1>11
  <2>5. Stepped(at, a, b, 2)
    BY <2>2, <2>3, <2>4, Steady
  <2>6. at[a] = i + d
    BY <2>1, <1>18
  <2> QED BY <2>1, <2>5, <2>6 DEF Stepped
<1>20. /\ \A k \in 1 .. i + d + n : \A m \in 1 .. Len(parts[k]) : p[at[k] + m] = parts[k][m]
       /\ Len(p) = at[i + d + n + 1]
  BY <1>10, <1>11 DEF LaidOut
<1>21. Len(p) = i + d + 2 * n
  BY <1>19, <1>20
<1>22. \A j \in 1 .. i :
         p[j] = Mov(sig[IntRegs[j]], Reg(argResigters[j]), Param(IntRegs[j]))
  <2> SUFFICES ASSUME NEW j \in 1 .. i PROVE p[j] = parts[j][1]
    BY <1>13
  <2>1. j \in 1 .. i + d + 1 /\ j \in 1 .. i + d + n /\ 1 \in 1 .. Len(parts[j])
    BY <1>13
  <2>2. p[at[j] + 1] = parts[j][1] /\ at[j] = j - 1
    BY <2>1, <1>18, <1>20
  <2> QED BY <2>2
<1>23. \A j \in 1 .. d :
         p[i + j] = Mov("double", Reg(doubleArgRegisters[j]), Param(DoubleRegs[j]))
  <2> SUFFICES ASSUME NEW j \in 1 .. d PROVE p[i + j] = parts[i + j][1]
    BY <1>14
  <2>1. i + j \in 1 .. i + d + 1 /\ i + j \in 1 .. i + d + n /\ 1 \in 1 .. Len(parts[i + j])
    BY <1>14
  <2>2. p[at[i + j] + 1] = parts[i + j][1] /\ at[i + j] = (i + j) - 1
    BY <2>1, <1>18, <1>20
  <2> QED BY <2>2
<1>24. ASSUME NEW j \in 1 .. n
       PROVE  /\ p[i + d + 2 * j - 1] = parts[i + d + j][1]
              /\ p[i + d + 2 * j] = parts[i + d + j][2]
  <2>0. Len(parts[i + d + j]) = 2
    BY <1>15
  <2>1. /\ i + d + j \in i + d + 1 .. i + d + n + 1 /\ i + d + j \in 1 .. i + d + n
        /\ 1 \in 1 .. Len(parts[i + d + j]) /\ 2 \in 1 .. Len(parts[i + d + j])
    BY <2>0
  <2>2. at[i + d + j] = i + d + 2 * (j - 1)
    BY <2>1, <1>19
  <2>3. at[i + d + j] + 1 = i + d + 2 * j - 1 /\ at[i + d + j] + 2 = i + d + 2 * j
    BY <2>2
  <2>4. /\ p[at[i + d + j] + 1] = parts[i + d + j][1]
        /\ p[at[i + d + j] + 2] = parts[i + d + j][2]
    BY <2>1, <1>20
  <2> QED BY <2>3, <2>4
<1> QED BY <1>1, <1>11, <1>12, <1>15, <1>21, <1>22, <1>23, <1>24

LEMMA WhenAnyFacts ==
  ASSUME NEW n, NEW x \in Fine
  PROVE  /\ WhenAny(n, x) \in Seq(Fine)
         /\ Len(WhenAny(n, x)) = (IF n = 0 THEN 0 ELSE 1)
         /\ n # 0 => WhenAny(n, x)[1] = x
<1>0. PICK s : s = WhenAny(n, x)
  OBVIOUS
<1>1. CASE n = 0
  <2>1. s = <<>>
    BY <1>0, <1>1 DEF WhenAny
  <2>2. <<>> \in Seq(Fine) /\ Len(<<>>) = 0
    OBVIOUS
  <2>3. s \in Seq(Fine) /\ Len(s) = 0
    BY <2>1, <2>2
  <2> QED BY <1>0, <1>1, <2>3
<1>2. CASE n # 0
  <2>1. s = <<x>>
    BY <1>0, <1>2 DEF WhenAny
  <2>2. s \in Seq(Fine) /\ Len(s) = 1 /\ s[1] = x
    BY <2>1
  <2> QED BY <1>0, <1>2, <2>2
<1> QED BY <1>1, <1>2

\* Of the parts of a call nothing needs fixing, so that they lie one after the
\* other wherever the call is.
LEMMA CallCode ==
  ASSUME sig \in Signature, ret \in ArgType
  PROVE  \A list : list = FixedMoves(parseFunctionCallInstruction) =>
           /\ list \in Seq(Instr)
           /\ Len(list) = Pads + Ints + Doubles + Len(FlattenSeq(PushParts)) + Removes + 2
           /\ \A whole : \A after \in Nat : Placed(whole, after, list) =>
                /\ Placed(whole, after, WhenAny(Padding, AllocateStack(Padding)))
                /\ Placed(whole, after + Pads, emitIntRegArgs(classifyCallArgs))
                /\ Placed(whole, after + Pads + Ints, emitDoubleRegArgs(classifyCallArgs))
                /\ Placed(whole, after + Pads + Ints + Doubles, FlattenSeq(PushParts))
                /\ Placed(whole, after + Pads + Ints + Doubles + Len(FlattenSeq(PushParts)),
                          <<Plain("call")>>)
                /\ Placed(whole, after + Pads + Ints + Doubles + Len(FlattenSeq(PushParts)) + 1,
                          WhenAny(Removed, DeallocateStack(Removed)))
                /\ Placed(whole, after + Pads + Ints + Doubles
                                 + Len(FlattenSeq(PushParts)) + 1 + Removes,
                          <<Mov(ret, ReturnRegister(ret), Result)>>)
<1>1. PICK w \in Nat, i \in Nat, d \in Nat, v \in Nat :
        w = Pads /\ i = Ints /\ d = Doubles /\ v = Removes
  <2>1. Pads \in Nat /\ Removes \in Nat
    BY PaddingFacts
  <2>2. Ints \in Nat /\ Doubles \in Nat
    BY ClassFacts
  <2> QED BY <2>1, <2>2
<1>2. PICK A, B, C, D, E, F, G :
        /\ A = WhenAny(Padding, AllocateStack(Padding))
        /\ B = emitIntRegArgs(classifyCallArgs) /\ C = emitDoubleRegArgs(classifyCallArgs)
        /\ D = FlattenSeq(PushParts) /\ E = <<Plain("call")>>
        /\ F = WhenAny(Removed, DeallocateStack(Removed))
        /\ G = <<Mov(ret, ReturnRegister(ret), Result)>>
  OBVIOUS
<1>3. A \in Seq(Fine) /\ Len(A) = w
  <2>1. PICK x : x = AllocateStack(Padding)
    OBVIOUS
  <2>2. -Padding \in Int
    BY PaddingFacts
  <2>3. x \in Fine
    BY <2>1, <2>2, InstrFacts DEF AllocateStack
  <2> QED BY <2>1, <2>3, <1>1, <1>2, WhenAnyFacts DEF Pads
<1>4. F \in Seq(Fine) /\ Len(F) = v
  <2>1. PICK x : x = DeallocateStack(Removed)
    OBVIOUS
  <2>2. Removed \in Int
    BY PaddingFacts
  <2>3. x \in Fine
    BY <2>1, <2>2, InstrFacts DEF DeallocateStack
  <2> QED BY <2>1, <2>3, <1>1, <1>2, WhenAnyFacts DEF Removes
<1>5. B \in Seq(Fine) /\ Len(B) = i /\ C \in Seq(Fine) /\ Len(C) = d
  BY <1>1, <1>2, IntArgCode, DoubleArgCode
<1>6. PICK n \in Nat : D \in Seq(Fine) /\ Len(D) = n
  BY <1>2, PushCode, LenProperties
<1>7. E \in Seq(Fine) /\ Len(E) = 1
  <2>1. PICK x \in Fine : x = Plain("call")
    BY InstrFacts
  <2> QED BY <2>1, <1>2
<1>8. G \in Seq(Fine) /\ Len(G) = 1
  <2>1. PICK x : x = Mov(ret, ReturnRegister(ret), Result)
    OBVIOUS
  <2>2. x \in Fine
    BY <2>1, ReturnRegisterFacts, SlotFacts, InstrFacts
  <2> QED BY <2>1, <2>2, <1>2
<1>9. PICK list : list = (((((A \o B) \o C) \o D) \o E) \o F) \o G
  OBVIOUS
<1>10. list = parseFunctionCallInstruction
  BY <1>2, <1>9, PushCode, Zenon DEF parseFunctionCallInstruction, Padding, Removed
<1>11. PICK AB : AB = A \o B /\ AB \in Seq(Fine) /\ Len(AB) = w + i
  <2>1. A \o B \in Seq(Fine) /\ Len(A \o B) = Len(A) + Len(B)
    BY <1>3, <1>5, ConcatProperties
  <2>2. Len(A \o B) = w + i
    BY <2>1, <1>3, <1>5
  <2> QED BY <2>1, <2>2
<1>12. PICK AC : AC = AB \o C /\ AC \in Seq(Fine) /\ Len(AC) = w + i + d
  <2>1. AB \o C \in Seq(Fine) /\ Len(AB \o C) = Len(AB) + Len(C)
    BY <1>5, <1>11, ConcatProperties
  <2>2. Len(AB \o C) = w + i + d
    BY <2>1, <1>5, <1>11
  <2> QED BY <2>1, <2>2
<1>13. PICK AD : AD = AC \o D /\ AD \in Seq(Fine) /\ Len(AD) = w + i + d + n
  <2>1. AC \o D \in Seq(Fine) /\ Len(AC \o D) = Len(AC) + Len(D)
    BY <1>6, <1>12, ConcatProperties
  <2>2. Len(AC \o D) = w + i + d + n
    BY <2>1, <1>6, <1>12
  <2> QED BY <2>1, <2>2
<1>14. PICK AE : AE = AD \o E /\ AE \in Seq(Fine) /\ Len(AE) = w + i + d + n + 1
  <2>1. AD \o E \in Seq(Fine) /\ Len(AD \o E) = Len(AD) + Len(E)
    BY <1>7, <1>13, ConcatProperties
  <2>2. Len(AD \o E) = w + i + d + n + 1
    BY <2>1, <1>7, <1>13
  <2> QED BY <2>1, <2>2
<1>15. PICK AF : AF = AE \o F /\ AF \in Seq(Fine) /\ Len(AF) = w + i + d + n + 1 + v
  <2>1. AE \o F \in Seq(Fine) /\ Len(AE \o F) = Len(AE) + Len(F)
    BY <1>4, <1>14, ConcatProperties
  <2>2. Len(AE \o F) = w + i + d + n + 1 + v
    BY <2>1, <1>4, <1>14
  <2> QED BY <2>1, <2>2
<1>16. list = AF \o G /\ list \in Seq(Fine) /\ Len(list) = w + i + d + n + v + 2
  <2>1. list = AF \o G
    BY <1>9, <1>11, <1>12, <1>13, <1>14, <1>15
  <2>2. AF \o G \in Seq(Fine) /\ Len(AF \o G) = Len(AF) + Len(G)
    BY <1>8, <1>15, ConcatProperties
  <2>3. Len(AF \o G) = w + i + d + n + v + 2
    BY <2>2, <1>8, <1>15
  <2> QED BY <2>1, <2>2, <2>3
<1>17. FixedMoves(parseFunctionCallInstruction) = list
  BY <1>10, <1>16, FixedFine
<1>18. list \in Seq(Instr)
  BY <1>16, InstrFacts, SeqMonotonic
<1>19. ASSUME NEW whole, NEW after \in Nat, Placed(whole, after, list)
       PROVE  /\ Placed(whole, after, A) /\ Placed(whole, after + w, B)
              /\ Placed(whole, after + w + i, C) /\ Placed(whole, after + w + i + d, D)
              /\ Placed(whole, after + w + i + d + n, E)
              /\ Placed(whole, after + w + i + d + n + 1, F)
              /\ Placed(whole, after + w + i + d + n + 1 + v, G)
  <2>1. Placed(whole, after, AF) /\ Placed(whole, after + Len(AF), G)
    BY <1>8, <1>15, <1>16, <1>19, PlacedConcat
  <2>2. Placed(whole, after, AE) /\ Placed(whole, after + Len(AE), F)
    BY <2>1, <1>4, <1>14, <1>15, PlacedConcat
  <2>3. Placed(whole, after, AD) /\ Placed(whole, after + Len(AD), E)
    BY <2>2, <1>7, <1>13, <1>14, PlacedConcat
  <2>4. Placed(whole, after, AC) /\ Placed(whole, after + Len(AC), D)
    BY <2>3, <1>6, <1>12, <1>13, PlacedConcat
  <2>5. Placed(whole, after, AB) /\ Placed(whole, after + Len(AB), C)
    BY <2>4, <1>5, <1>11, <1>12, PlacedConcat
  <2>6. Placed(whole, after, A) /\ Placed(whole, after + Len(A), B)
    BY <2>5, <1>3, <1>5, <1>11, PlacedConcat
  <2>7. /\ after + Len(AF) = after + w + i + d + n + 1 + v
        /\ after + Len(AE) = after + w + i + d + n + 1
        /\ after + Len(AD) = after + w + i + d + n
        /\ after + Len(AC) = after + w + i + d /\ after + Len(AB) = after + w + i
        /\ after + Len(A) = after + w
    BY <1>3, <1>11, <1>12, <1>13, <1>14, <1>15
  <2> QED BY <2>1, <2>2, <2>3, <2>4, <2>5, <2>6, <2>7
<1> QED BY <1>1, <1>2, <1>6, <1>16, <1>17, <1>18, <1>19

(***************************************************************************)
(* The code of the function.                                               *)
(***************************************************************************)
Generated == sig \in Signature /\ ret \in ArgType /\ code = parseASMfunction

LEMMA ReturnCode ==
  ASSUME sig \in Signature, ret \in ArgType
  PROVE  \A list : list = FixedMoves(parseASMReturn) =>
           /\ list \in Seq(Instr) /\ Len(list) = 2
           /\ list[1] = Mov(ret, ReturnValue, ReturnRegister(ret)) /\ list[2] = Plain("ret")
<1>1. PICK m : m = Mov(ret, ReturnValue, ReturnRegister(ret))
  OBVIOUS
<1>2. m \in Fine
  BY <1>1, ReturnRegisterFacts, SlotFacts, InstrFacts
<1>3. PICK r \in Fine : r = Plain("ret")
  BY InstrFacts
<1>4. <<m, r>> \in Seq(Fine) /\ Len(<<m, r>>) = 2 /\ <<m, r>>[1] = m /\ <<m, r>>[2] = r
  BY <1>2
<1>5. parseASMReturn = <<m, r>>
  BY <1>1, <1>3 DEF parseASMReturn
<1>6. FixedMoves(parseASMReturn) = <<m, r>>
  BY <1>4, <1>5, FixedFine
<1>7. <<m, r>> \in Seq(Instr)
  BY <1>4, InstrFacts, SeqMonotonic
<1> QED BY <1>1, <1>3, <1>4, <1>6, <1>7

LEMMA LastCode ==
  \A list : list = <<Mov("longword", Immediate(0), AX), Plain("ret")>> =>
    /\ list \in Seq(Instr) /\ Len(list) = 2
    /\ list[1] = Mov("longword", Immediate(0), AX) /\ list[2] = Plain("ret")
<1>1. PICK m : m = Mov("longword", Immediate(0), AX)
  OBVIOUS
<1>2. m \in Instr
  <2>1. AX \in Operand /\ Immediate(0) \in Operand /\ "longword" \in ArgType
    <3>1. PICK r \in Registers : r = "AX"
      BY DEF Registers
    <3> QED BY <3>1, OperandFacts DEF AX, ArgType
  <2> QED BY <2>1, <1>1, InstrFacts
<1>3. PICK r \in Instr : r = Plain("ret")
  BY InstrFacts
<1>4. <<m, r>> \in Seq(Instr) /\ Len(<<m, r>>) = 2 /\ <<m, r>>[1] = m /\ <<m, r>>[2] = r
  BY <1>2
<1> QED BY <1>1, <1>3, <1>4

LEMMA Sections ==
  ASSUME Generated
  PROVE  /\ code \in Seq(Instr) /\ Len(code) = EndAt
         /\ code[1] = Plain("enter") /\ code[2] = AllocateStack(FrameSize)
         /\ Placed(code, 2, FixedMoves(addArgsAsInstructionsToFunc))
         /\ code[BodyAt] = Plain("work")
         /\ Placed(code, BodyAt, FixedMoves(parseFunctionCallInstruction))
         /\ code[TakeAt + 1] = Plain("again")
         /\ code[TakeAt + 2] = Mov(ret, ReturnValue, ReturnRegister(ret))
         /\ code[TakeAt + 3] = Plain("ret")
         /\ code[TakeAt + 4] = Mov("longword", Immediate(0), AX)
         /\ code[EndAt] = Plain("ret")
<1>1. sig \in Signature /\ ret \in ArgType /\ code = parseASMfunction
  BY DEF Generated
<1>2. PICK A, B, C, D, E, F, G :
        /\ A = <<Plain("enter"), AllocateStack(FrameSize)>>
        /\ B = FixedMoves(addArgsAsInstructionsToFunc)
        /\ C = <<Plain("work")>>
        /\ D = FixedMoves(parseFunctionCallInstruction)
        /\ E = <<Plain("again")>>
        /\ F = FixedMoves(parseASMReturn)
        /\ G = <<Mov("longword", Immediate(0), AX), Plain("ret")>>
  OBVIOUS
<1>3. A \in Seq(Instr) /\ Len(A) = 2 /\ A[1] = Plain("enter") /\ A[2] = AllocateStack(FrameSize)
  <2>1. PICK x \in Instr : x = Plain("enter")
    BY InstrFacts
  <2>2. PICK y : y = AllocateStack(FrameSize)
    OBVIOUS
  <2>3. -FrameSize \in Int
    <3>1. 8 * (2 * Len(sig) + 2) \in Int
      BY <1>1, SigFacts
    <3> QED BY <3>1 DEF FrameSize, RoundUp16
  <2>4. y \in Instr
    BY <2>2, <2>3, InstrFacts DEF AllocateStack
  <2>5. A = <<x, y>>
    BY <1>2, <2>1, <2>2
  <2> QED BY <2>1, <2>2, <2>4, <2>5
<1>4. C \in Seq(Instr) /\ Len(C) = 1 /\ C[1] = Plain("work")
  <2>1. PICK x \in Instr : x = Plain("work")
    BY InstrFacts
  <2> QED BY <2>1, <1>2
<1>5. E \in Seq(Instr) /\ Len(E) = 1 /\ E[1] = Plain("again")
  <2>1. PICK x \in Instr : x = Plain("again")
    BY InstrFacts
  <2> QED BY <2>1, <1>2
<1>6. PICK b \in Nat : b = Ints + Doubles + 2 * Stacked
  <2>1. Ints \in Nat /\ Doubles \in Nat /\ Stacked \in Nat
    BY <1>1, ClassFacts
  <2> QED BY <2>1
<1>7. B \in Seq(Instr) /\ Len(B) = b
  BY <1>1, <1>2, <1>6, ParamCode
<1>8. PICK d : d = Len(D) /\ D \in Seq(Instr)
  BY <1>1, <1>2, CallCode
<1>9. d \in Nat
  BY <1>8, LenProperties
<1>10. F \in Seq(Instr) /\ Len(F) = 2 /\ F[2] = Plain("ret")
       /\ F[1] = Mov(ret, ReturnValue, ReturnRegister(ret))
  BY <1>1, <1>2, ReturnCode
<1>11. G \in Seq(Instr) /\ Len(G) = 2 /\ G[2] = Plain("ret")
       /\ G[1] = Mov("longword", Immediate(0), AX)
  BY <1>2, LastCode
<1>12. code = (((((A \o B) \o C) \o D) \o E) \o F) \o G
  BY <1>1, <1>2, Zenon DEF parseASMfunction
<1>13. PICK AB : AB = A \o B /\ AB \in Seq(Instr) /\ Len(AB) = b + 2
  <2>1. A \o B \in Seq(Instr) /\ Len(A \o B) = Len(A) + Len(B)
    BY <1>3, <1>7, ConcatProperties
  <2>2. Len(A \o B) = b + 2
    BY <2>1, <1>3, <1>7
  <2> QED BY <2>1, <2>2
<1>14. PICK AC : AC = AB \o C /\ AC \in Seq(Instr) /\ Len(AC) = b + 3
  <2>1. AB \o C \in Seq(Instr) /\ Len(AB \o C) = Len(AB) + Len(C)
    BY <1>4, <1>13, ConcatProperties
  <2>2. Len(AB \o C) = b + 3
    BY <2>1, <1>4, <1>13
  <2> QED BY <2>1, <2>2
<1>15. PICK AD : AD = AC \o D /\ AD \in Seq(Instr) /\ Len(AD) = b + 3 + d
  <2>1. AC \o D \in Seq(Instr) /\ Len(AC \o D) = Len(AC) + Len(D)
    BY <1>8, <1>14, ConcatProperties
  <2>2. Len(AC \o D) = b + 3 + d
    BY <2>1, <1>8, <1>14
  <2> QED BY <2>1, <2>2
<1>16. PICK AE : AE = AD \o E /\ AE \in Seq(Instr) /\ Len(AE) = b + d + 4
  <2>1. AD \o E \in Seq(Instr) /\ Len(AD \o E) = Len(AD) + Len(E)
    BY <1>5, <1>15, ConcatProperties
  <2>2. Len(AD \o E) = b + d + 4
    BY <2>1, <1>5, <1>15, <1>9
  <2> QED BY <2>1, <2>2
<1>17. PICK AF : AF = AE \o F /\ AF \in Seq(Instr) /\ Len(AF) = b + d + 6
  <2>1. AE \o F \in Seq(Instr) /\ Len(AE \o F) = Len(AE) + Len(F)
    BY <1>10, <1>16, ConcatProperties
  <2>2. Len(AE \o F) = b + d + 6
    BY <2>1, <1>9, <1>10, <1>16
  <2> QED BY <2>1, <2>2
<1>18. code = AF \o G /\ code \in Seq(Instr) /\ Len(code) = b + d + 8
  <2>1. code = AF \o G
    BY <1>12, <1>13, <1>14, <1>15, <1>16, <1>17
  <2>2. AF \o G \in Seq(Instr) /\ Len(AF \o G) = Len(AF) + Len(G)
    BY <1>11, <1>17, ConcatProperties
  <2>3. Len(AF \o G) = b + d + 8
    BY <2>2, <1>9, <1>11, <1>17
  <2> QED BY <2>1, <2>2, <2>3
<1>19. /\ Placed(code, 0, A) /\ Placed(code, 2, B) /\ Placed(code, b + 2, C)
       /\ Placed(code, b + 3, D) /\ Placed(code, b + 3 + d, E) /\ Placed(code, b + d + 4, F)
       /\ Placed(code, b + d + 6, G)
  <2>0. PICK all : all = code
    OBVIOUS
  <2>1. Placed(code, 0, AF \o G)
    BY <1>18 DEF Placed
  <2>8. Placed(all, 0, AF) /\ Placed(all, 0 + Len(AF), G)
    BY <2>0, <2>1, <1>11, <1>17, PlacedConcat
  <2>2. Placed(all, 0, AE) /\ Placed(all, 0 + Len(AE), F)
    BY <2>8, <1>10, <1>16, <1>17, PlacedConcat
  <2>3. Placed(all, 0, AD) /\ Placed(all, 0 + Len(AD), E)
    BY <2>2, <1>5, <1>15, <1>16, PlacedConcat
  <2>4. Placed(all, 0, AC) /\ Placed(all, 0 + Len(AC), D)
    BY <2>3, <1>8, <1>14, <1>15, PlacedConcat
  <2>5. Placed(all, 0, AB) /\ Placed(all, 0 + Len(AB), C)
    BY <2>4, <1>4, <1>13, <1>14, PlacedConcat
  <2>6. Placed(all, 0, A) /\ Placed(all, 0 + Len(A), B)
    BY <2>5, <1>3, <1>7, <1>13, PlacedConcat
  <2>7. /\ 0 + Len(AE) = b + d + 4 /\ 0 + Len(AD) = b + 3 + d /\ 0 + Len(AC) = b + 3
        /\ 0 + Len(AB) = b + 2 /\ 0 + Len(A) = 2 /\ 0 + Len(AF) = b + d + 6
    BY <1>3, <1>9, <1>13, <1>14, <1>15, <1>16, <1>17
  <2> QED BY <2>0, <2>2, <2>3, <2>4, <2>5, <2>6, <2>7, <2>8
<1>20. BodyAt = b + 3 /\ TakeAt + 1 = b + d + 4 /\ TakeAt + 2 = b + d + 5
       /\ TakeAt + 3 = b + d + 6 /\ TakeAt + 4 = b + d + 7 /\ EndAt = b + d + 8
  <2>1. /\ Ints \in Nat /\ Doubles \in Nat /\ Stacked \in Nat
        /\ Pads \in {0, 1} /\ Removes \in {0, 1}
    BY <1>1, Counts
  <2>2. BodyAt = b + 3
    BY <2>1, <1>6 DEF BodyAt
  <2>3. PICK n \in Nat : n = Len(FlattenSeq(PushParts))
    BY <1>1, PushCode, LenProperties
  <2>4. d = Pads + Ints + Doubles + n + Removes + 2
    BY <2>3, <1>1, <1>2, <1>8, CallCode
  <2>5. CallAt = BodyAt + Pads + Ints + Doubles + n + 1
    BY <2>3, <1>1, PushAtFacts
  <2> QED BY <2>1, <2>2, <2>4, <2>5 DEF TakeAt, EndAt
<1>21. code[1] = A[1] /\ code[2] = A[2]
  BY <1>3, <1>19 DEF Placed
<1>22. code[b + 3] = C[1]
  <2>1. 1 \in 1 .. Len(C) /\ (b + 2) + 1 = b + 3
    BY <1>4
  <2> QED BY <2>1, <1>19 DEF Placed
<1>23. code[b + d + 4] = E[1]
  <2>1. 1 \in 1 .. Len(E) /\ (b + 3 + d) + 1 = b + d + 4
    BY <1>5, <1>9
  <2> QED BY <2>1, <1>19 DEF Placed
<1>24. code[b + d + 5] = F[1] /\ code[b + d + 6] = F[2]
  <2>1. /\ 1 \in 1 .. Len(F) /\ (b + d + 4) + 1 = b + d + 5
        /\ 2 \in 1 .. Len(F) /\ (b + d + 4) + 2 = b + d + 6
    BY <1>9, <1>10
  <2> QED BY <2>1, <1>19 DEF Placed
<1>25. code[b + d + 7] = G[1] /\ code[b + d + 8] = G[2]
  <2>1. /\ 1 \in 1 .. Len(G) /\ (b + d + 6) + 1 = b + d + 7
        /\ 2 \in 1 .. Len(G) /\ (b + d + 6) + 2 = b + d + 8
    BY <1>9, <1>11
  <2> QED BY <2>1, <1>19 DEF Placed
<1>26. code[1] = Plain("enter") /\ code[2] = AllocateStack(FrameSize)
  BY <1>3, <1>21
<1>27. code[BodyAt] = Plain("work") /\ code[TakeAt + 1] = Plain("again")
  BY <1>4, <1>5, <1>20, <1>22, <1>23
<1>28. /\ code[TakeAt + 2] = Mov(ret, ReturnValue, ReturnRegister(ret))
       /\ code[TakeAt + 3] = Plain("ret")
       /\ code[TakeAt + 4] = Mov("longword", Immediate(0), AX)
       /\ code[EndAt] = Plain("ret")
  BY <1>10, <1>20, <1>24, <1>11, <1>25
<1>29. Placed(code, 2, B) /\ Placed(code, BodyAt, D)
  BY <1>19, <1>20
<1> QED BY <1>2, <1>18, <1>20, <1>26, <1>27, <1>28, <1>29

(***************************************************************************)
(* The instruction at each position.                                       *)
(***************************************************************************)
\* The scratch register of the j-th stack parameter.
Via(j) == scratchReg1(sig[OnStack[j]])

IntParamCodeAt ==
  \A j \in 1 .. Ints :
    code[IntParamAt(j)] = Mov(sig[IntRegs[j]], Reg(argResigters[j]), Param(IntRegs[j]))
DoubleParamCodeAt ==
  \A j \in 1 .. Doubles :
    code[DoubleParamAt(j)] = Mov("double", Reg(doubleArgRegisters[j]), Param(DoubleRegs[j]))
StackParamCodeAt ==
  \A j \in 1 .. Stacked :
    /\ code[StackParamAt(j)] = Mov(sig[OnStack[j]], Stack(AboveFrame(j)), Via(j))
    /\ code[StackParamAt(j) + 1] = Mov(sig[OnStack[j]], Via(j), Param(OnStack[j]))
PadCodeAt == Pads = 1 => code[BodyAt + 1] = AllocateStack(Padding)
IntArgCodeAt ==
  \A j \in 1 .. Ints :
    code[IntArgAt(j)] = Mov(sig[IntRegs[j]], Arg(IntRegs[j]), Reg(argResigters[j]))
DoubleArgCodeAt ==
  \A j \in 1 .. Doubles :
    code[DoubleArgAt(j)] = Mov("double", Arg(DoubleRegs[j]), Reg(doubleArgRegisters[j]))
PushCodeAt ==
  \A j \in 1 .. Stacked :
    /\ sig[Pushed(j)] = "longword" =>
         /\ code[PushAt(j)] = Mov("longword", Arg(Pushed(j)), AX)
         /\ code[PushAt(j) + 1] = Push(AX)
    /\ sig[Pushed(j)] # "longword" => code[PushAt(j)] = Push(Arg(Pushed(j)))
CleanCodeAt == Removes = 1 => code[CallAt + 1] = DeallocateStack(Removed)
FixedCodeAt ==
  /\ code[1] = Plain("enter") /\ code[2] = AllocateStack(FrameSize)
  /\ code[BodyAt] = Plain("work") /\ code[CallAt] = Plain("call")
  /\ code[TakeAt] = Mov(ret, ReturnRegister(ret), Result)
  /\ code[TakeAt + 1] = Plain("again")
  /\ code[TakeAt + 2] = Mov(ret, ReturnValue, ReturnRegister(ret))
  /\ code[TakeAt + 3] = Plain("ret")
  /\ code[TakeAt + 4] = Mov("longword", Immediate(0), AX)
  /\ code[EndAt] = Plain("ret")

LEMMA ParamsAt ==
  ASSUME Generated
  PROVE  IntParamCodeAt /\ DoubleParamCodeAt /\ StackParamCodeAt
<1>1. PICK i \in Nat, d \in Nat, n \in Nat : i = Ints /\ d = Doubles /\ n = Stacked
  BY Counts DEF Generated
<1>2. PICK p : p = FixedMoves(addArgsAsInstructionsToFunc)
  OBVIOUS
<1>3. Len(p) = i + d + 2 * n /\ Placed(code, 2, p)
  BY <1>1, <1>2, Sections, ParamCode DEF Generated
<1>4. \A k \in 1 .. i + d + 2 * n : code[2 + k] = p[k]
  BY <1>3 DEF Placed
<1>5. ASSUME NEW j \in 1 .. i
      PROVE  code[IntParamAt(j)] = Mov(sig[IntRegs[j]], Reg(argResigters[j]), Param(IntRegs[j]))
  <2>1. p[j] = Mov(sig[IntRegs[j]], Reg(argResigters[j]), Param(IntRegs[j]))
    BY <1>1, <1>2, ParamCode DEF Generated
  <2>2. j \in 1 .. i + d + 2 * n
    OBVIOUS
  <2> QED BY <2>1, <2>2, <1>4 DEF IntParamAt
<1>6. ASSUME NEW j \in 1 .. d
      PROVE  code[DoubleParamAt(j)]
               = Mov("double", Reg(doubleArgRegisters[j]), Param(DoubleRegs[j]))
  <2>1. p[i + j] = Mov("double", Reg(doubleArgRegisters[j]), Param(DoubleRegs[j]))
    BY <1>1, <1>2, ParamCode DEF Generated
  <2>2. i + j \in 1 .. i + d + 2 * n /\ DoubleParamAt(j) = 2 + (i + j)
    BY <1>1 DEF DoubleParamAt
  <2> QED BY <2>1, <2>2, <1>4
<1>7. ASSUME NEW j \in 1 .. n
      PROVE  /\ code[StackParamAt(j)] = Mov(sig[OnStack[j]], Stack(AboveFrame(j)), Via(j))
             /\ code[StackParamAt(j) + 1] = Mov(sig[OnStack[j]], Via(j), Param(OnStack[j]))
  <2>1. /\ p[i + d + 2 * j - 1] = Mov(sig[OnStack[j]], Stack(AboveFrame(j)), Via(j))
        /\ p[i + d + 2 * j] = Mov(sig[OnStack[j]], Via(j), Param(OnStack[j]))
    BY <1>1, <1>2, ParamCode DEF Generated, Via
  <2>2. /\ i + d + 2 * j - 1 \in 1 .. i + d + 2 * n
        /\ StackParamAt(j) = 2 + (i + d + 2 * j - 1)
        /\ i + d + 2 * j \in 1 .. i + d + 2 * n /\ StackParamAt(j) + 1 = 2 + (i + d + 2 * j)
    BY <1>1 DEF StackParamAt
  <2> QED BY <2>1, <2>2, <1>4
<1> QED BY <1>1, <1>5, <1>6, <1>7 DEF IntParamCodeAt, DoubleParamCodeAt, StackParamCodeAt

LEMMA ArgsAt ==
  ASSUME Generated
  PROVE  /\ PadCodeAt /\ IntArgCodeAt /\ DoubleArgCodeAt /\ PushCodeAt /\ CleanCodeAt
         /\ FixedCodeAt
<1>0. sig \in Signature /\ ret \in ArgType
  BY DEF Generated
<1>1. PICK i \in Nat, d \in Nat, w \in Nat, v \in Nat, body \in Nat :
        i = Ints /\ d = Doubles /\ w = Pads /\ v = Removes /\ body = BodyAt
  <2>1. /\ Ints \in Nat /\ Doubles \in Nat /\ Stacked \in Nat
        /\ Pads \in {0, 1} /\ Removes \in {0, 1}
    BY <1>0, Counts
  <2>2. BodyAt \in Nat
    BY <2>1 DEF BodyAt
  <2> QED BY <2>1, <2>2
<1>2. PICK all : all = FlattenSeq(PushParts)
  OBVIOUS
<1>3. PICK n \in Nat : n = Len(all)
  BY <1>0, <1>2, PushCode, LenProperties
<1>4. /\ Placed(code, body, WhenAny(Padding, AllocateStack(Padding)))
      /\ Placed(code, body + w, emitIntRegArgs(classifyCallArgs))
      /\ Placed(code, body + w + i, emitDoubleRegArgs(classifyCallArgs))
      /\ Placed(code, body + w + i + d, all)
      /\ Placed(code, body + w + i + d + n, <<Plain("call")>>)
      /\ Placed(code, body + w + i + d + n + 1, WhenAny(Removed, DeallocateStack(Removed)))
      /\ Placed(code, body + w + i + d + n + 1 + v, <<Mov(ret, ReturnRegister(ret), Result)>>)
  <2>1. PICK list : list = FixedMoves(parseFunctionCallInstruction)
    OBVIOUS
  <2>2. Placed(code, body, list)
    BY <2>1, <1>1, Sections
  <2> QED BY <2>1, <2>2, <1>0, <1>1, <1>2, <1>3, CallCode
<1>5. CallAt = body + w + i + d + n + 1 /\ TakeAt = CallAt + v + 1
  BY <1>0, <1>1, <1>2, <1>3, PushAtFacts DEF TakeAt
<1>6. PadCodeAt
  <2> SUFFICES ASSUME Pads = 1 PROVE code[BodyAt + 1] = AllocateStack(Padding)
    BY DEF PadCodeAt
  <2>1. Padding # 0
    BY DEF Pads
  <2>2. PICK x : x = AllocateStack(Padding)
    OBVIOUS
  <2>3. WhenAny(Padding, x) = <<x>>
    BY <2>1 DEF WhenAny
  <2>4. Placed(code, body, <<x>>)
    BY <2>2, <2>3, <1>4
  <2>5. code[body + 1] = x
    BY <2>4 DEF Placed
  <2> QED BY <2>2, <2>5, <1>1
<1>7. CleanCodeAt
  <2> SUFFICES ASSUME Removes = 1 PROVE code[CallAt + 1] = DeallocateStack(Removed)
    BY DEF CleanCodeAt
  <2>1. Removed # 0
    BY DEF Removes
  <2>2. PICK x : x = DeallocateStack(Removed)
    OBVIOUS
  <2>3. WhenAny(Removed, x) = <<x>>
    BY <2>1 DEF WhenAny
  <2>4. Placed(code, CallAt, <<x>>)
    BY <2>2, <2>3, <1>4, <1>5
  <2>5. code[CallAt + 1] = x
    BY <2>4 DEF Placed
  <2> QED BY <2>2, <2>5
<1>8. IntArgCodeAt
  <2> SUFFICES ASSUME NEW j \in 1 .. i
               PROVE  code[body + w + j]
                        = Mov(sig[IntRegs[j]], Arg(IntRegs[j]), Reg(argResigters[j]))
    BY <1>1 DEF IntArgCodeAt, IntArgAt
  <2>1. PICK s : s = emitIntRegArgs(classifyCallArgs)
    OBVIOUS
  <2>2. /\ Len(s) = i /\ Placed(code, body + w, s)
        /\ s[j] = Mov(sig[IntRegs[j]], Arg(IntRegs[j]), Reg(argResigters[j]))
    BY <2>1, <1>0, <1>1, <1>4, IntArgCode
  <2> QED BY <2>2 DEF Placed
<1>9. DoubleArgCodeAt
  <2> SUFFICES ASSUME NEW j \in 1 .. d
               PROVE  code[body + w + i + j]
                        = Mov("double", Arg(DoubleRegs[j]), Reg(doubleArgRegisters[j]))
    BY <1>1 DEF DoubleArgCodeAt, DoubleArgAt
  <2>1. PICK s : s = emitDoubleRegArgs(classifyCallArgs)
    OBVIOUS
  <2>2. /\ Len(s) = d /\ Placed(code, body + w + i, s)
        /\ s[j] = Mov("double", Arg(DoubleRegs[j]), Reg(doubleArgRegisters[j]))
    BY <2>1, <1>0, <1>1, <1>4, DoubleArgCode
  <2> QED BY <2>2 DEF Placed
<1>10. PushCodeAt
  <2> SUFFICES ASSUME NEW j \in 1 .. Stacked
               PROVE  /\ sig[Pushed(j)] = "longword" =>
                           /\ code[PushAt(j)] = Mov("longword", Arg(Pushed(j)), AX)
                           /\ code[PushAt(j) + 1] = Push(AX)
                      /\ sig[Pushed(j)] # "longword" => code[PushAt(j)] = Push(Arg(Pushed(j)))
    BY DEF PushCodeAt
  <2>1. PICK parts, at : parts = PushParts /\ at = PushPlaces
    OBVIOUS
  <2>2. /\ parts \in Seq(Seq(Fine)) /\ LaidOut(all, at, parts) /\ j \in 1 .. Len(parts)
        /\ parts[j] = PushArg(Pushed(j))
    BY <2>1, <1>0, <1>2, PushCode
  <2>3. PICK after \in Nat : after = body + w + i + d
    OBVIOUS
  <2>4. Placed(code, after, all)
    BY <2>3, <1>4
  <2>5. Placed(code, after + at[j], parts[j])
    BY <2>2, <2>4, PlacedPart
  <2>6. \A k \in 1 .. Len(parts[j]) : code[(after + at[j]) + k] = parts[j][k]
    BY <2>5 DEF Placed
  <2>7. at[j] \in Nat
    <3>1. Stacked \in Nat /\ Len(parts) = Stacked
      BY <2>1, <1>0, Counts, PushCode
    <3>2. j \in 1 .. Len(parts) + 1
      BY <3>1
    <3> QED BY <2>2, <3>2 DEF LaidOut
  <2>8. PushAt(j) = (after + at[j]) + 1 /\ PushAt(j) + 1 = (after + at[j]) + 2
    BY <2>1, <2>3, <2>7, <1>1 DEF PushAt
  <2>9. Pushed(j) \in DOMAIN sig
    BY <1>0, PushedFacts
  <2>10. CASE sig[Pushed(j)] = "longword"
    <3>1. /\ Len(parts[j]) = 2 /\ parts[j][1] = Mov("longword", Arg(Pushed(j)), AX)
          /\ parts[j][2] = Push(AX)
      BY <2>2, <2>9, <2>10, <1>0, PushArgFacts
    <3>2. code[(after + at[j]) + 1] = parts[j][1] /\ code[(after + at[j]) + 2] = parts[j][2]
      BY <3>1, <2>6
    <3> QED BY <3>1, <3>2, <2>8, <2>10
  <2>11. CASE sig[Pushed(j)] # "longword"
    <3>1. Len(parts[j]) = 1 /\ parts[j][1] = Push(Arg(Pushed(j)))
      BY <2>2, <2>9, <2>11, <1>0, PushArgFacts
    <3>2. code[(after + at[j]) + 1] = parts[j][1]
      BY <3>1, <2>6
    <3> QED BY <3>1, <3>2, <2>8, <2>11
  <2> QED BY <2>10, <2>11
<1>11. FixedCodeAt
  <2>1. code[CallAt] = Plain("call")
    <3>0. PICK k \in Nat : k = body + w + i + d + n
      OBVIOUS
    <3>1. PICK x : x = Plain("call")
      OBVIOUS
    <3>2. Placed(code, k, <<x>>)
      BY <3>0, <3>1, <1>4
    <3>3. code[k + 1] = x
      BY <3>2 DEF Placed
    <3> QED BY <3>0, <3>1, <3>3, <1>5
  <2>2. code[TakeAt] = Mov(ret, ReturnRegister(ret), Result)
    <3>0. PICK k \in Nat : k = body + w + i + d + n + 1 + v
      OBVIOUS
    <3>1. PICK x : x = Mov(ret, ReturnRegister(ret), Result)
      OBVIOUS
    <3>2. Placed(code, k, <<x>>)
      BY <3>0, <3>1, <1>4
    <3>3. code[k + 1] = x
      BY <3>2 DEF Placed
    <3> QED BY <3>0, <3>1, <3>3, <1>5
  <2> QED BY <2>1, <2>2, Sections DEF FixedCodeAt
<1> QED BY <1>6, <1>7, <1>8, <1>9, <1>10, <1>11

(***************************************************************************)
(* Which positions there are, and what kind of instruction each has.       *)
(***************************************************************************)
LEMMA Order ==
  ASSUME sig \in Signature
  PROVE  /\ BodyAt \in Nat /\ BodyAt = 3 + Ints + Doubles + 2 * Stacked
         /\ CallAt \in Nat /\ TakeAt \in Nat /\ EndAt \in Nat
         /\ PushAt(1) = BodyAt + Pads + Ints + Doubles + 1 /\ PushAt(1) <= CallAt
         /\ TakeAt = CallAt + Removes + 1 /\ EndAt = TakeAt + 5
<1>1. PICK i \in Nat, d \in Nat, n \in Nat, w \in Nat, v \in Nat :
        i = Ints /\ d = Doubles /\ n = Stacked /\ w = Pads /\ v = Removes
  BY Counts
<1>2. BodyAt = 3 + i + d + 2 * n
  BY <1>1 DEF BodyAt
<1>3. PICK l \in Nat : l = Len(FlattenSeq(PushParts))
  BY PushCode, LenProperties
<1>4. PushAt(1) = BodyAt + w + i + d + 1 /\ CallAt = BodyAt + w + i + d + l + 1
  BY <1>1, <1>3, PushAtFacts
<1>5. TakeAt = CallAt + v + 1 /\ EndAt = CallAt + v + 6
  BY <1>1 DEF TakeAt, EndAt
<1> QED BY <1>1, <1>2, <1>4, <1>5

InParams(k) ==
  \/ \E j \in 1 .. Ints : k = IntParamAt(j)
  \/ \E j \in 1 .. Doubles : k = DoubleParamAt(j)
  \/ \E j \in 1 .. Stacked : k = StackParamAt(j)
  \/ \E j \in 1 .. Stacked : k = StackParamAt(j) + 1
InRegArgs(k) ==
  \/ \E j \in 1 .. Ints : k = IntArgAt(j)
  \/ \E j \in 1 .. Doubles : k = DoubleArgAt(j)
LoadsAX(k) == \E j \in 1 .. Stacked : k = PushAt(j) /\ sig[Pushed(j)] = "longword"
PushesAX(k) == \E j \in 1 .. Stacked : k = PushAt(j) + 1 /\ sig[Pushed(j)] = "longword"
PushesSlot(k) == \E j \in 1 .. Stacked : k = PushAt(j) /\ sig[Pushed(j)] # "longword"

LEMMA Covering ==
  ASSUME sig \in Signature, NEW k \in 1 .. EndAt
  PROVE  \/ k = 1 \/ k = 2 \/ InParams(k) \/ k = BodyAt
         \/ (Pads = 1 /\ k = BodyAt + 1) \/ InRegArgs(k)
         \/ LoadsAX(k) \/ PushesAX(k) \/ PushesSlot(k)
         \/ k = CallAt \/ (Removes = 1 /\ k = CallAt + 1)
         \/ k = TakeAt \/ k = TakeAt + 1 \/ k = TakeAt + 2 \/ k = TakeAt + 3
         \/ k = TakeAt + 4 \/ k = EndAt
<1>1. PICK i \in Nat, d \in Nat, n \in Nat, w \in {0, 1}, v \in {0, 1} :
        i = Ints /\ d = Doubles /\ n = Stacked /\ w = Pads /\ v = Removes
  BY Counts
<1>2. PICK body \in Nat, call \in Nat, first \in Nat :
        /\ body = BodyAt /\ call = CallAt /\ first = PushAt(1)
        /\ body = 3 + i + d + 2 * n /\ first = body + w + i + d + 1 /\ first <= call
        /\ TakeAt = call + v + 1 /\ EndAt = call + v + 6
  BY <1>1, Order
<1>3. CASE k \in 3 .. body - 1
  <2>1. CASE k <= 2 + i
    <3>1. k - 2 \in 1 .. i /\ k = 2 + (k - 2)
      BY <1>3, <2>1
    <3> QED BY <3>1, <1>1 DEF InParams, IntParamAt
  <2>2. CASE k > 2 + i /\ k <= 2 + i + d
    <3>1. k - 2 - i \in 1 .. d /\ k = 2 + i + (k - 2 - i)
      BY <1>3, <2>2
    <3> QED BY <3>1, <1>1 DEF InParams, DoubleParamAt
  <2>3. CASE k > 2 + i + d
    <3>1. PICK x \in Nat : x = k - (2 + i + d) /\ x \in 1 .. 2 * n
      BY <1>2, <1>3, <2>3
    <3>2. \/ \E j \in 1 .. n : x = 2 * j - 1
          \/ \E j \in 1 .. n : x = 2 * j
      <4>1. CASE x % 2 = 1
        <5>1. (x + 1) \div 2 \in 1 .. n /\ x = 2 * ((x + 1) \div 2) - 1
          BY <3>1, <4>1
        <5> QED BY <5>1
      <4>2. CASE x % 2 = 0
        <5>1. x \div 2 \in 1 .. n /\ x = 2 * (x \div 2)
          BY <3>1, <4>2
        <5> QED BY <5>1
      <4> QED BY <3>1, <4>1, <4>2
    <3>3. CASE \E j \in 1 .. n : x = 2 * j - 1
      <4>1. PICK j \in 1 .. n : x = 2 * j - 1
        BY <3>3
      <4>2. k = 2 + i + d + 2 * j - 1
        BY <3>1, <4>1
      <4> QED BY <4>2, <1>1 DEF InParams, StackParamAt
    <3>4. CASE \E j \in 1 .. n : x = 2 * j
      <4>1. PICK j \in 1 .. n : x = 2 * j
        BY <3>4
      <4>2. k = (2 + i + d + 2 * j - 1) + 1
        BY <3>1, <4>1
      <4> QED BY <4>2, <1>1 DEF InParams, StackParamAt
    <3> QED BY <3>2, <3>3, <3>4
  <2> QED BY <2>1, <2>2, <2>3
<1>4. CASE k \in body + 1 .. first - 1
  <2>1. CASE k = body + w
    BY <1>1, <1>2, <1>4, <2>1
  <2>2. CASE k > body + w /\ k <= body + w + i
    <3>1. k - body - w \in 1 .. i /\ k = body + w + (k - body - w)
      BY <1>4, <2>2
    <3> QED BY <3>1, <1>1, <1>2 DEF InRegArgs, IntArgAt
  <2>3. CASE k > body + w + i
    <3>1. k - body - w - i \in 1 .. d /\ k = body + w + i + (k - body - w - i)
      BY <1>2, <1>4, <2>3
    <3> QED BY <3>1, <1>1, <1>2 DEF InRegArgs, DoubleArgAt
  <2> QED BY <2>1, <2>2, <2>3, <1>4
<1>5. CASE k \in first .. call - 1
  <2>1. PICK j \in 1 .. n : k \in PushAt(j) .. PushAt(j + 1) - 1
    BY <1>1, <1>2, <1>5, PushAtFacts
  <2>2. PushAt(j) \in Nat
    <3>1. j \in 1 .. n + 1
      OBVIOUS
    <3> QED BY <3>1, <1>1, PushAtFacts
  <2>3. CASE sig[Pushed(j)] = "longword"
    <3>1. PushAt(j + 1) = PushAt(j) + 2
      BY <2>3, <1>1, PushAtFacts
    <3>2. k = PushAt(j) \/ k = PushAt(j) + 1
      BY <2>1, <2>2, <3>1
    <3> QED BY <3>2, <2>3, <1>1 DEF LoadsAX, PushesAX
  <2>4. CASE sig[Pushed(j)] # "longword"
    <3>1. PushAt(j + 1) = PushAt(j) + 1
      BY <2>4, <1>1, PushAtFacts
    <3>2. k = PushAt(j)
      BY <2>1, <2>2, <3>1
    <3> QED BY <3>2, <2>4, <1>1 DEF PushesSlot
  <2> QED BY <2>3, <2>4
<1>6. CASE k < 3 \/ k = body \/ k >= call
  BY <1>1, <1>2, <1>6
<1> QED BY <1>2, <1>3, <1>4, <1>5, <1>6

LEMMA OpAt ==
  ASSUME Generated, NEW k \in 1 .. EndAt
  PROVE  /\ code[k].op = "enter" => k = 1
         /\ code[k].op = "work" => k = BodyAt
         /\ code[k].op = "again" => k = TakeAt + 1
         /\ code[k].op = "call" => k = CallAt
         /\ code[k].op = "ret" => k = TakeAt + 3 \/ k = EndAt
         /\ code[k].op = "adjust" => \/ k = 2
                                     \/ Pads = 1 /\ k = BodyAt + 1
                                     \/ Removes = 1 /\ k = CallAt + 1
         /\ code[k].op = "push" => PushesAX(k) \/ PushesSlot(k)
         /\ code[k].op = "mov" => \/ InParams(k) \/ InRegArgs(k) \/ LoadsAX(k)
                                  \/ k = TakeAt \/ k = TakeAt + 2 \/ k = TakeAt + 4
         /\ \/ InParams(k) \/ InRegArgs(k) \/ LoadsAX(k)
            \/ k = TakeAt \/ k = TakeAt + 2 \/ k = TakeAt + 4
            => code[k].op = "mov"
<1>1. sig \in Signature
  BY DEF Generated
<1>2. \A t, a, b : Mov(t, a, b).op = "mov"
  BY DEF Mov
<1>3. InParams(k) => code[k].op = "mov"
  BY <1>2, ParamsAt DEF InParams, IntParamCodeAt, DoubleParamCodeAt, StackParamCodeAt
<1>4. InRegArgs(k) => code[k].op = "mov"
  BY <1>2, ArgsAt DEF InRegArgs, IntArgCodeAt, DoubleArgCodeAt
<1>5. LoadsAX(k) => code[k].op = "mov"
  BY <1>2, ArgsAt DEF LoadsAX, PushCodeAt
<1>6. PushesAX(k) \/ PushesSlot(k) => code[k].op = "push"
  <2>1. \A a : Push(a).op = "push"
    BY DEF Push
  <2> QED BY <2>1, ArgsAt DEF PushesAX, PushesSlot, PushCodeAt
<1>7. /\ k = 1 => code[k].op = "enter"
      /\ k = 2 => code[k].op = "adjust"
      /\ k = BodyAt => code[k].op = "work"
      /\ k = CallAt => code[k].op = "call"
      /\ k = TakeAt \/ k = TakeAt + 2 \/ k = TakeAt + 4 => code[k].op = "mov"
      /\ k = TakeAt + 1 => code[k].op = "again"
      /\ k = TakeAt + 3 \/ k = EndAt => code[k].op = "ret"
  <2>1. \A op : Plain(op).op = op
    BY DEF Plain
  <2>2. \A n : AllocateStack(n).op = "adjust"
    BY DEF AllocateStack, Adjust
  <2> QED BY <2>1, <2>2, <1>2, ArgsAt DEF FixedCodeAt
<1>8. /\ Pads = 1 /\ k = BodyAt + 1 => code[k].op = "adjust"
      /\ Removes = 1 /\ k = CallAt + 1 => code[k].op = "adjust"
  <2>1. \A n : AllocateStack(n).op = "adjust" /\ DeallocateStack(n).op = "adjust"
    BY DEF AllocateStack, DeallocateStack, Adjust
  <2> QED BY <2>1, ArgsAt DEF PadCodeAt, CleanCodeAt
<1> QED BY <1>1, <1>3, <1>4, <1>5, <1>6, <1>7, <1>8, Covering

\* The two places that the machine looks up.
LEMMA LookedUp ==
  ASSUME Generated
  PROVE  WorkAt = BodyAt /\ AgainAt = TakeAt + 1
<1>1. code \in Seq(Instr) /\ Len(code) = EndAt
  BY Sections
<1>2. DOMAIN code = 1 .. EndAt
  BY <1>1, LenProperties
<1>3. /\ BodyAt \in Nat /\ BodyAt >= 3 /\ BodyAt <= EndAt
      /\ TakeAt + 1 \in Nat /\ TakeAt + 1 >= 1 /\ TakeAt + 1 <= EndAt
  <2>1. /\ Ints \in Nat /\ Doubles \in Nat /\ Stacked \in Nat
        /\ Pads \in {0, 1} /\ Removes \in {0, 1}
    BY Counts DEF Generated
  <2> QED BY <2>1, Order DEF Generated
<1>4. code[BodyAt].op = "work" /\ code[TakeAt + 1].op = "again"
  <2>1. \A op : Plain(op).op = op
    BY DEF Plain
  <2> QED BY <2>1, ArgsAt DEF FixedCodeAt
<1>5. BodyAt \in DOMAIN code /\ TakeAt + 1 \in DOMAIN code
  BY <1>2, <1>3
<1>6. WorkAt \in DOMAIN code /\ code[WorkAt].op = "work"
  BY <1>4, <1>5, Zenon DEF WorkAt
<1>7. AgainAt \in DOMAIN code /\ code[AgainAt].op = "again"
  BY <1>4, <1>5, Zenon DEF AgainAt
<1> QED BY <1>2, <1>6, <1>7, OpAt

(***************************************************************************)
(* The frame.                                                              *)
(***************************************************************************)
LEMMA FrameFacts ==
  ASSUME sig \in Signature
  PROVE  /\ Len(sig) \in Nat /\ FrameSize \in Nat /\ FrameSize % 16 = 0
         /\ FrameSize >= 8 * (2 * Len(sig) + 2)
<1>1. PICK n \in Nat : n = Len(sig)
  BY SigFacts
<1>2. PICK b \in Nat : b = 8 * (2 * n + 2)
  OBVIOUS
<1>3. /\ 16 * ((b + 15) \div 16) \in Nat /\ (16 * ((b + 15) \div 16)) % 16 = 0
      /\ 16 * ((b + 15) \div 16) >= b
  OBVIOUS
<1>4. FrameSize = 16 * ((b + 15) \div 16)
  BY <1>1, <1>2 DEF FrameSize, RoundUp16
<1> QED BY <1>1, <1>2, <1>3, <1>4

(***************************************************************************)
(* How far rsp is below rbp: r is the one and b the other before           *)
(* instruction k.                                                          *)
(***************************************************************************)
Below(k, r, b) ==
  /\ k = 2 => r = b
  /\ k \in 3 .. BodyAt + Pads => r = b - FrameSize
  /\ k \in BodyAt + Pads + 1 .. PushAt(1) => r = b - FrameSize - Padding
  /\ \A j \in 1 .. Stacked :
       k \in PushAt(j) .. PushAt(j + 1) - 1 => r = b - FrameSize - Padding - 8 * (j - 1)
  /\ k \in CallAt .. CallAt + Removes => r = b - FrameSize - Removed
  /\ k \in TakeAt .. EndAt => r = b - FrameSize

\* Where the pushes are, without what is pushed.
LEMMA PushRanges ==
  ASSUME sig \in Signature
  PROVE  /\ \A j \in 1 .. Stacked :
              /\ PushAt(j) \in Nat /\ PushAt(j + 1) \in Nat
              /\ PushAt(1) <= PushAt(j) /\ PushAt(j) < PushAt(j + 1) /\ PushAt(j + 1) <= CallAt
         /\ \A j \in 1 .. Stacked, k \in 1 .. Stacked : j < k => PushAt(j + 1) <= PushAt(k)
         /\ PushAt(Stacked + 1) = CallAt
<1>1. PICK n \in Nat : n = Stacked
  BY Counts
<1>2. /\ \A j \in 1 .. n + 1 : PushAt(j) \in Nat
      /\ \A j \in 1 .. n : PushAt(j + 1) = PushAt(j) + 2 \/ PushAt(j + 1) = PushAt(j) + 1
      /\ \A j \in 1 .. n, k \in 1 .. n + 1 : j < k => PushAt(j + 1) <= PushAt(k)
  BY <1>1, PushAtFacts
<1>3. PushAt(n + 1) = CallAt
  BY <1>1 DEF CallAt
<1>4. ASSUME NEW j \in 1 .. n
      PROVE  /\ PushAt(j) \in Nat /\ PushAt(j + 1) \in Nat
             /\ PushAt(1) <= PushAt(j) /\ PushAt(j) < PushAt(j + 1) /\ PushAt(j + 1) <= CallAt
  <2>1. j \in 1 .. n + 1 /\ j + 1 \in 1 .. n + 1 /\ n + 1 \in 1 .. n + 1 /\ 1 \in 1 .. n + 1
    OBVIOUS
  <2>2. PushAt(j) \in Nat /\ PushAt(j + 1) \in Nat /\ PushAt(1) \in Nat /\ PushAt(j) < PushAt(j + 1)
    BY <2>1, <1>2
  <2>3. PushAt(j + 1) <= CallAt
    BY <2>1, <1>2, <1>3
  <2>4. PushAt(1) <= PushAt(j)
    <3>1. CASE j = 1
      BY <3>1, <2>2
    <3>2. CASE j # 1
      <4>1. 1 \in 1 .. n /\ 1 < j
        BY <3>2
      <4>2. PushAt(1 + 1) <= PushAt(j)
        BY <4>1, <2>1, <1>2
      <4>3. PushAt(1) < PushAt(1 + 1) /\ PushAt(1 + 1) \in Nat
        <5>1. 1 + 1 \in 1 .. n + 1
          BY <4>1
        <5> QED BY <4>1, <5>1, <2>2, <1>2
      <4> QED BY <4>2, <4>3, <2>2
    <3> QED BY <3>1, <3>2
  <2> QED BY <2>2, <2>3, <2>4
<1>5. ASSUME NEW j \in 1 .. n, NEW k \in 1 .. n, j < k PROVE PushAt(j + 1) <= PushAt(k)
  BY <1>2, <1>5
<1> QED BY <1>1, <1>3, <1>4, <1>5

\* A move leaves rsp alone, and may: the next instruction expects it there.
LEMMA BelowMov ==
  ASSUME sig \in Signature, NEW k \in Nat, NEW r \in Int, NEW b \in Int, Below(k, r, b),
         \/ InParams(k) \/ InRegArgs(k) \/ LoadsAX(k)
         \/ k = TakeAt \/ k = TakeAt + 1 \/ k = TakeAt + 2 \/ k = TakeAt + 4
  PROVE  Below(k + 1, r, b)
<1>1. PICK i \in Nat, d \in Nat, n \in Nat, w \in {0, 1}, v \in {0, 1} :
        i = Ints /\ d = Doubles /\ n = Stacked /\ w = Pads /\ v = Removes
  BY Counts
<1>2. PICK body \in Nat, call \in Nat, first \in Nat :
        /\ body = BodyAt /\ call = CallAt /\ first = PushAt(1)
        /\ body = 3 + i + d + 2 * n /\ first = body + w + i + d + 1 /\ first <= call
        /\ TakeAt = call + v + 1 /\ EndAt = call + v + 6
  BY <1>1, Order
<1>3. PICK f \in Nat, p \in Nat, s \in Nat :
        /\ f = FrameSize /\ p = Padding /\ s = Removed /\ s = 8 * n + p
  BY <1>1, Counts, PaddingFacts, FrameFacts
<1>4. /\ \A j \in 1 .. n :
           /\ PushAt(j) \in Nat /\ PushAt(j + 1) \in Nat
           /\ first <= PushAt(j) /\ PushAt(j) < PushAt(j + 1) /\ PushAt(j + 1) <= call
      /\ \A j \in 1 .. n, m \in 1 .. n : j < m => PushAt(j + 1) <= PushAt(m)
  BY <1>1, <1>2, PushRanges
<1>5. CASE InParams(k)
  <2>1. k \in 3 .. body - 1
    BY <1>1, <1>2, <1>5
       DEF InParams, IntParamAt, DoubleParamAt, StackParamAt
  <2> QED BY <2>1, <1>1, <1>2, <1>3, <1>4 DEF Below
<1>6. CASE InRegArgs(k)
  <2>1. k \in body + w + 1 .. first - 1
    BY <1>1, <1>2, <1>6 DEF InRegArgs, IntArgAt, DoubleArgAt
  <2>2. r = b - f - p
    BY <2>1, <1>1, <1>2, <1>3 DEF Below
  <2>3. \A j \in 1 .. n : k + 1 \in PushAt(j) .. PushAt(j + 1) - 1 => j = 1
    <3> SUFFICES ASSUME NEW j \in 1 .. n, k + 1 \in PushAt(j) .. PushAt(j + 1) - 1, j # 1
                 PROVE  FALSE
      OBVIOUS
    <3>1. 1 \in 1 .. n /\ 1 < j
      OBVIOUS
    <3>2. PushAt(1 + 1) <= PushAt(j) /\ PushAt(1) < PushAt(1 + 1) /\ PushAt(1 + 1) \in Nat
          /\ PushAt(j) \in Nat
      BY <3>1, <1>4
    <3> QED BY <3>2, <2>1, <1>2
  <2>4. first = call => n = 0
    <3> SUFFICES ASSUME first = call, n # 0 PROVE FALSE
      OBVIOUS
    <3>1. n \in 1 .. n
      OBVIOUS
    <3> QED BY <3>1, <1>4
  <2> QED BY <2>1, <2>2, <2>3, <2>4, <1>1, <1>2, <1>3 DEF Below
<1>7. CASE LoadsAX(k)
  <2>1. PICK j \in 1 .. n : k = PushAt(j) /\ PushAt(j + 1) = PushAt(j) + 2
    BY <1>1, <1>7, PushAtFacts DEF LoadsAX
  <2>2. PushAt(j) \in Nat /\ first <= PushAt(j) /\ PushAt(j + 1) <= call
    BY <1>4
  <2>3. k \in PushAt(j) .. PushAt(j + 1) - 1 /\ k + 1 \in PushAt(j) .. PushAt(j + 1) - 1
    BY <2>1, <2>2
  <2>4. r = b - f - p - 8 * (j - 1)
    BY <2>3, <1>1, <1>3 DEF Below
  <2>5. \A m \in 1 .. n : k + 1 \in PushAt(m) .. PushAt(m + 1) - 1 => m = j
    <3> SUFFICES ASSUME NEW m \in 1 .. n, k + 1 \in PushAt(m) .. PushAt(m + 1) - 1, m # j
                 PROVE  FALSE
      OBVIOUS
    <3>1. CASE m < j
      BY <3>1, <2>1, <2>2, <1>4
    <3>2. CASE j < m
      BY <3>2, <2>1, <2>2, <1>4
    <3> QED BY <3>1, <3>2
  <2> QED BY <2>1, <2>2, <2>4, <2>5, <1>1, <1>2, <1>3 DEF Below
<1>8. CASE k = TakeAt \/ k = TakeAt + 1 \/ k = TakeAt + 2 \/ k = TakeAt + 4
  <2>1. \A j \in 1 .. n : ~(k + 1 \in PushAt(j) .. PushAt(j + 1) - 1)
    BY <1>2, <1>4, <1>8
  <2> QED BY <2>1, <1>1, <1>2, <1>3, <1>8 DEF Below
<1> QED BY <1>5, <1>6, <1>7, <1>8

LEMMA BelowPush ==
  ASSUME sig \in Signature, NEW k \in Nat, NEW r \in Int, NEW b \in Int, Below(k, r, b),
         PushesAX(k) \/ PushesSlot(k)
  PROVE  Below(k + 1, r - 8, b)
<1>1. PICK i \in Nat, d \in Nat, n \in Nat, w \in {0, 1}, v \in {0, 1} :
        i = Ints /\ d = Doubles /\ n = Stacked /\ w = Pads /\ v = Removes
  BY Counts
<1>2. PICK body \in Nat, call \in Nat, first \in Nat :
        /\ body = BodyAt /\ call = CallAt /\ first = PushAt(1)
        /\ body = 3 + i + d + 2 * n /\ first = body + w + i + d + 1 /\ first <= call
        /\ TakeAt = call + v + 1 /\ EndAt = call + v + 6
  BY <1>1, Order
<1>3. PICK f \in Nat, p \in Nat, s \in Nat :
        /\ f = FrameSize /\ p = Padding /\ s = Removed /\ s = 8 * n + p
  BY <1>1, Counts, PaddingFacts, FrameFacts
<1>4. /\ \A j \in 1 .. n :
           /\ PushAt(j) \in Nat /\ PushAt(j + 1) \in Nat
           /\ first <= PushAt(j) /\ PushAt(j) < PushAt(j + 1) /\ PushAt(j + 1) <= call
      /\ \A j \in 1 .. n, m \in 1 .. n : j < m => PushAt(j + 1) <= PushAt(m)
  BY <1>1, <1>2, PushRanges
<1>5. PICK j \in 1 .. n : k \in PushAt(j) .. PushAt(j + 1) - 1 /\ k + 1 = PushAt(j + 1)
  <2>1. CASE PushesAX(k)
    <3>1. PICK j \in 1 .. n : k = PushAt(j) + 1 /\ PushAt(j + 1) = PushAt(j) + 2
      BY <1>1, <2>1, PushAtFacts DEF PushesAX
    <3> QED BY <3>1, <1>4
  <2>2. CASE PushesSlot(k)
    <3>1. PICK j \in 1 .. n : k = PushAt(j) /\ PushAt(j + 1) = PushAt(j) + 1
      BY <1>1, <2>2, PushAtFacts DEF PushesSlot
    <3> QED BY <3>1, <1>4
  <2> QED BY <2>1, <2>2
<1>6. r = b - f - p - 8 * (j - 1)
  BY <1>1, <1>3, <1>5 DEF Below
<1>7. \A m \in 1 .. n : k + 1 \in PushAt(m) .. PushAt(m + 1) - 1 => m = j + 1
  <2> SUFFICES ASSUME NEW m \in 1 .. n, k + 1 \in PushAt(m) .. PushAt(m + 1) - 1, m # j + 1
               PROVE  FALSE
    OBVIOUS
  <2>1. CASE m <= j
    <3>1. PushAt(m + 1) <= PushAt(j + 1)
      <4>1. CASE m = j
        BY <4>1, <1>4
      <4>2. CASE m < j
        <5>1. PushAt(m + 1) <= PushAt(j) /\ PushAt(j) < PushAt(j + 1)
              /\ PushAt(m + 1) \in Nat /\ PushAt(j) \in Nat /\ PushAt(j + 1) \in Nat
          BY <4>2, <1>4
        <5> QED BY <5>1
      <4> QED BY <4>1, <4>2, <2>1
    <3>2. PushAt(m + 1) \in Nat /\ PushAt(j + 1) \in Nat
      BY <1>4
    <3> QED BY <3>1, <3>2, <1>5
  <2>2. CASE m > j
    <3>1. j + 1 \in 1 .. n /\ j + 1 < m
      BY <2>2
    <3>2. PushAt((j + 1) + 1) <= PushAt(m) /\ PushAt(j + 1) < PushAt((j + 1) + 1)
          /\ PushAt(j + 1) \in Nat /\ PushAt((j + 1) + 1) \in Nat /\ PushAt(m) \in Nat
      BY <3>1, <1>4
    <3> QED BY <3>2, <1>5
  <2> QED BY <2>1, <2>2
<1>8. PushAt(j + 1) \in Nat /\ first < PushAt(j + 1) /\ PushAt(j + 1) <= call
  <2>1. /\ PushAt(j) \in Nat /\ PushAt(j + 1) \in Nat
        /\ first <= PushAt(j) /\ PushAt(j) < PushAt(j + 1) /\ PushAt(j + 1) <= call
    BY <1>4
  <2> QED BY <2>1
<1>9. PushAt(j + 1) = call => j = n
  <2> SUFFICES ASSUME PushAt(j + 1) = call, j # n PROVE FALSE
    OBVIOUS
  <2>1. j + 1 \in 1 .. n
    OBVIOUS
  <2> QED BY <2>1, <1>4
<1> QED BY <1>1, <1>2, <1>3, <1>5, <1>6, <1>7, <1>8, <1>9 DEF Below

LEMMA BelowAdjust ==
  ASSUME sig \in Signature, NEW k \in Nat, NEW r \in Int, NEW b \in Int, Below(k, r, b)
  PROVE  /\ k = 2 => Below(k + 1, r - FrameSize, b)
         /\ Pads = 1 /\ k = BodyAt + 1 => Below(k + 1, r - Padding, b)
         /\ Removes = 1 /\ k = CallAt + 1 => Below(k + 1, r + Removed, b)
<1>1. PICK i \in Nat, d \in Nat, n \in Nat, w \in {0, 1}, v \in {0, 1} :
        i = Ints /\ d = Doubles /\ n = Stacked /\ w = Pads /\ v = Removes
  BY Counts
<1>2. PICK body \in Nat, call \in Nat, first \in Nat :
        /\ body = BodyAt /\ call = CallAt /\ first = PushAt(1)
        /\ body = 3 + i + d + 2 * n /\ first = body + w + i + d + 1 /\ first <= call
        /\ TakeAt = call + v + 1 /\ EndAt = call + v + 6
  BY <1>1, Order
<1>3. PICK f \in Nat, p \in Nat, s \in Nat :
        /\ f = FrameSize /\ p = Padding /\ s = Removed /\ s = 8 * n + p
  BY <1>1, Counts, PaddingFacts, FrameFacts
<1>4. /\ \A j \in 1 .. n :
           /\ PushAt(j) \in Nat /\ PushAt(j + 1) \in Nat
           /\ first <= PushAt(j) /\ PushAt(j) < PushAt(j + 1) /\ PushAt(j + 1) <= call
      /\ \A j \in 1 .. n, m \in 1 .. n : j < m => PushAt(j + 1) <= PushAt(m)
  BY <1>1, <1>2, PushRanges
<1>5. ASSUME k = 2 PROVE Below(k + 1, r - f, b)
  <2>1. \A j \in 1 .. n : ~(k + 1 \in PushAt(j) .. PushAt(j + 1) - 1)
    BY <1>2, <1>4, <1>5
  <2> QED BY <2>1, <1>1, <1>2, <1>3, <1>5 DEF Below
<1>6. ASSUME w = 1, k = body + 1 PROVE Below(k + 1, r - p, b)
  <2>1. r = b - f
    BY <1>1, <1>2, <1>3, <1>6 DEF Below
  <2>2. \A j \in 1 .. n : k + 1 \in PushAt(j) .. PushAt(j + 1) - 1 => j = 1
    <3> SUFFICES ASSUME NEW j \in 1 .. n, k + 1 \in PushAt(j) .. PushAt(j + 1) - 1, j # 1
                 PROVE  FALSE
      OBVIOUS
    <3>1. 1 \in 1 .. n /\ 1 < j
      OBVIOUS
    <3>2. PushAt(1 + 1) <= PushAt(j) /\ PushAt(1) < PushAt(1 + 1) /\ PushAt(1 + 1) \in Nat
          /\ PushAt(j) \in Nat
      BY <3>1, <1>4
    <3> QED BY <3>2, <1>2, <1>6
  <2>3. first = call => n = 0
    <3> SUFFICES ASSUME first = call, n # 0 PROVE FALSE
      OBVIOUS
    <3>1. n \in 1 .. n
      OBVIOUS
    <3> QED BY <3>1, <1>4
  <2> QED BY <2>1, <2>2, <2>3, <1>1, <1>2, <1>3, <1>6 DEF Below
<1>7. ASSUME v = 1, k = call + 1 PROVE Below(k + 1, r + s, b)
  <2>1. r = b - f - s
    BY <1>1, <1>2, <1>3, <1>7 DEF Below
  <2>2. \A j \in 1 .. n : ~(k + 1 \in PushAt(j) .. PushAt(j + 1) - 1)
    BY <1>2, <1>4, <1>7
  <2> QED BY <2>1, <2>2, <1>1, <1>2, <1>3, <1>7 DEF Below
<1> QED BY <1>1, <1>2, <1>3, <1>5, <1>6, <1>7

\* Where a jump or a return goes, rsp is as expected there.
LEMMA BelowJump ==
  ASSUME sig \in Signature, NEW r \in Int, NEW b \in Int
  PROVE  /\ r = b => Below(2, r, b)
         /\ Below(BodyAt, r, b) <=> r = b - FrameSize
         /\ Below(BodyAt, r, b) => /\ Below(BodyAt + 1, r, b)
                                   /\ Below(TakeAt + 2, r, b) /\ Below(TakeAt + 4, r, b)
         /\ Below(TakeAt + 1, r, b) <=> r = b - FrameSize
         /\ Below(CallAt, r, b) => r = b - FrameSize - Removed
         /\ r = b - FrameSize - Removed => Below(CallAt + 1, r, b)
<1>1. PICK i \in Nat, d \in Nat, n \in Nat, w \in {0, 1}, v \in {0, 1} :
        i = Ints /\ d = Doubles /\ n = Stacked /\ w = Pads /\ v = Removes
  BY Counts
<1>2. PICK body \in Nat, call \in Nat, first \in Nat :
        /\ body = BodyAt /\ call = CallAt /\ first = PushAt(1)
        /\ body = 3 + i + d + 2 * n /\ first = body + w + i + d + 1 /\ first <= call
        /\ TakeAt = call + v + 1 /\ EndAt = call + v + 6
  BY <1>1, Order
<1>3. PICK f \in Nat, p \in Nat, s \in Nat :
        /\ f = FrameSize /\ p = Padding /\ s = Removed /\ s = 8 * n + p
  BY <1>1, Counts, PaddingFacts, FrameFacts
<1>4. /\ \A j \in 1 .. n :
           /\ PushAt(j) \in Nat /\ PushAt(j + 1) \in Nat
           /\ first <= PushAt(j) /\ PushAt(j) < PushAt(j + 1) /\ PushAt(j + 1) <= call
      /\ \A j \in 1 .. n, m \in 1 .. n : j < m => PushAt(j + 1) <= PushAt(m)
  BY <1>1, <1>2, PushRanges
<1>5. \A j \in 1 .. n : ~(2 \in PushAt(j) .. PushAt(j + 1) - 1)
                        /\ ~(body \in PushAt(j) .. PushAt(j + 1) - 1)
                        /\ ~(TakeAt + 1 \in PushAt(j) .. PushAt(j + 1) - 1)
                        /\ ~(TakeAt + 2 \in PushAt(j) .. PushAt(j + 1) - 1)
                        /\ ~(TakeAt + 4 \in PushAt(j) .. PushAt(j + 1) - 1)
                        /\ ~(call + 1 \in PushAt(j) .. PushAt(j + 1) - 1)
  BY <1>2, <1>4
<1>6. (w = 0 => p = 0) /\ (v = 0 => s = 0)
  BY <1>1, <1>3, PaddingFacts
<1>7. r = b => Below(2, r, b)
  BY <1>1, <1>2, <1>3, <1>5 DEF Below
<1>8. Below(body, r, b) <=> r = b - f
  BY <1>1, <1>2, <1>3, <1>5 DEF Below
<1>9. r = b - f => Below(body + 1, r, b)
  <2> SUFFICES ASSUME r = b - f PROVE Below(body + 1, r, b)
    OBVIOUS
  <2>1. \A j \in 1 .. n : body + 1 \in PushAt(j) .. PushAt(j + 1) - 1 => j = 1
    <3> SUFFICES ASSUME NEW j \in 1 .. n, body + 1 \in PushAt(j) .. PushAt(j + 1) - 1, j # 1
                 PROVE  FALSE
      OBVIOUS
    <3>1. 1 \in 1 .. n /\ 1 < j
      OBVIOUS
    <3>2. PushAt(1 + 1) <= PushAt(j) /\ PushAt(1) < PushAt(1 + 1) /\ PushAt(1 + 1) \in Nat
          /\ PushAt(j) \in Nat
      BY <3>1, <1>4
    <3> QED BY <3>2, <1>2
  <2>2. first = call => n = 0
    <3> SUFFICES ASSUME first = call, n # 0 PROVE FALSE
      OBVIOUS
    <3>1. n \in 1 .. n
      OBVIOUS
    <3> QED BY <3>1, <1>4
  <2>3. \A j \in 1 .. n : first <= PushAt(j) /\ PushAt(j) \in Nat
    BY <1>4
  <2> QED BY <2>1, <2>2, <2>3, <1>1, <1>2, <1>3, <1>6 DEF Below
<1>10. r = b - f => Below(TakeAt + 2, r, b) /\ Below(TakeAt + 4, r, b)
  BY <1>1, <1>2, <1>3, <1>5 DEF Below
<1>11. Below(TakeAt + 1, r, b) <=> r = b - f
  BY <1>1, <1>2, <1>3, <1>5 DEF Below
<1>12. Below(call, r, b) => r = b - f - s
  BY <1>1, <1>2, <1>3 DEF Below
<1>13. r = b - f - s => Below(call + 1, r, b)
  BY <1>1, <1>2, <1>3, <1>5, <1>6 DEF Below
<1> QED BY <1>2, <1>3, <1>7, <1>8, <1>9, <1>10, <1>11, <1>12, <1>13

LEMMA BelowRange ==
  ASSUME sig \in Signature, NEW k \in 2 .. EndAt, NEW r \in Int, NEW b \in Int, Below(k, r, b)
  PROVE  /\ r <= b /\ r >= b - FrameSize - Removed /\ (b - r) % 8 = 0
         /\ k >= BodyAt => r <= b - FrameSize
<1>1. PICK i \in Nat, d \in Nat, n \in Nat, w \in {0, 1}, v \in {0, 1} :
        i = Ints /\ d = Doubles /\ n = Stacked /\ w = Pads /\ v = Removes
  BY Counts
<1>2. PICK body \in Nat, call \in Nat, first \in Nat :
        /\ body = BodyAt /\ call = CallAt /\ first = PushAt(1)
        /\ body = 3 + i + d + 2 * n /\ first = body + w + i + d + 1 /\ first <= call
        /\ TakeAt = call + v + 1 /\ EndAt = call + v + 6
  <2>1. /\ BodyAt \in Nat /\ CallAt \in Nat /\ PushAt(1) \in Nat
        /\ BodyAt = 3 + i + d + 2 * n /\ PushAt(1) = BodyAt + w + i + d + 1
        /\ PushAt(1) <= CallAt
    BY <1>1, Order
  <2>2. TakeAt = CallAt + v + 1 /\ EndAt = CallAt + v + 6
    BY <1>1, <2>1, Order
  <2> QED BY <2>1, <2>2
<1>3. PICK f \in Nat, p \in Nat, s \in Nat :
        /\ f = FrameSize /\ p = Padding /\ s = Removed /\ s = 8 * n + p
  BY <1>1, Counts, PaddingFacts, FrameFacts
<1>4. /\ \A j \in 1 .. n :
           /\ PushAt(j) \in Nat /\ PushAt(j + 1) \in Nat
           /\ first <= PushAt(j) /\ PushAt(j) < PushAt(j + 1) /\ PushAt(j + 1) <= call
      /\ \A j \in 1 .. n, m \in 1 .. n : j < m => PushAt(j + 1) <= PushAt(m)
  BY <1>1, <1>2, PushRanges
<1>5. f % 16 = 0 /\ p \in {0, 8}
  BY <1>3, FrameFacts, PaddingFacts
<1>6. CASE k = 2
  BY <1>2, <1>3, <1>6 DEF Below
<1>7. CASE k \in 3 .. body + w
  <2>1. r = b - f
    BY <1>1, <1>2, <1>7 , <1>3 DEF Below
  <2> QED BY <2>1, <1>3, <1>5
<1>8. CASE k \in body + w + 1 .. first
  <2>1. r = b - f - p
    BY <1>1, <1>2, <1>3, <1>8 DEF Below
  <2> QED BY <2>1, <1>3, <1>5
<1>9. CASE k \in first .. call - 1
  <2>1. PICK j \in 1 .. n : k \in PushAt(j) .. PushAt(j + 1) - 1
    BY <1>1, <1>2, <1>9, PushAtFacts
  <2>2. r = b - f - p - 8 * (j - 1)
    BY <2>1, <1>1, <1>3 DEF Below
  <2> QED BY <2>2, <1>3, <1>5
<1>10. CASE k \in call .. call + v
  <2>1. r = b - f - s
    BY <1>1, <1>2, <1>3, <1>10 DEF Below
  <2> QED BY <2>1, <1>3, <1>5
<1>11. CASE k >= TakeAt
  <2>1. r = b - f
    BY <1>1, <1>2, <1>3, <1>11 DEF Below
  <2> QED BY <2>1, <1>3, <1>5
<1>12. \/ k = 2 \/ k \in 3 .. body + w \/ k \in body + w + 1 .. first
       \/ k \in first .. call - 1 \/ k \in call .. call + v \/ k >= TakeAt
  BY <1>2
<1> QED BY <1>6, <1>7, <1>8, <1>9, <1>10, <1>11, <1>12


(***************************************************************************)
(* The inductive invariant, first half: the two pointers and what a return *)
(* needs.                                                                  *)
(***************************************************************************)
Widths == {0, 4, 8}

Typed ==
  /\ pc \in 0 .. EndAt
  /\ DOMAIN regs = Registers /\ \A r \in Registers : regs[r].width \in Widths
  /\ rsp \in Int /\ rbp \in Int
  /\ \A a \in DOMAIN stack : a \in Int /\ a % 8 = 0 /\ stack[a].width \in Widths
  /\ frames \in Seq(Int) /\ calls \in Seq(Nat) /\ Len(calls) = Len(frames)

\* From one frame to the next.
Pitch == FrameSize + Removed + 16

Chain ==
  /\ Depth >= 1 => frames[1] = -16
  /\ \A d \in 2 .. Depth : frames[d] = frames[d - 1] - Pitch
  /\ \A d \in 1 .. Depth : frames[d] % 16 = 0
  /\ \A d \in 1 .. Depth, e \in 1 .. Depth : d < e => frames[e] <= frames[d] - Pitch

Pointers ==
  /\ pc = Halt => Depth = 0
  /\ pc = 1 /\ Depth = 0 => rsp = -8 /\ rbp = 0
  /\ pc = 1 /\ Depth > 0 => rbp = frames[Depth] /\ rsp = rbp - Pitch + 8
  /\ pc > 1 => Depth > 0 /\ rbp = frames[Depth] /\ Below(pc, rsp, rbp)

\* What activation d saved of its caller, and where it returns to.
Caller(d) == IF d = 1 THEN 0 ELSE frames[d - 1]
Back(d) == IF d = 1 THEN Halt ELSE CallAt + 1

Saved ==
  /\ \A d \in 1 .. Depth : /\ Word(stack, frames[d]) = Address(Caller(d))
                           /\ Word(stack, frames[d] + 8) = Address(Back(d))
  /\ pc = 1 => Word(stack, rsp) = Address(Back(Depth + 1))

Standing == Generated /\ Typed /\ Chain /\ Pointers /\ Saved

(***************************************************************************)
(* The memory.                                                             *)
(***************************************************************************)
LEMMA WordWritten ==
  ASSUME NEW m, NEW a, NEW w, NEW b
  PROVE  Word(Write(m, a, w), b) = IF b = a THEN w ELSE Word(m, b)
BY DEF Word, Write

\* Nothing changes at an address or above.
Quiet(lo) == \A b \in Int : b >= lo => Word(stack', b) = Word(stack, b)

LEMMA QuietWrite ==
  ASSUME NEW a \in Int, NEW w, NEW lo \in Int, a < lo, stack' = Write(stack, a, w)
  PROVE  Quiet(lo)
<1> SUFFICES ASSUME NEW b \in Int, b >= lo PROVE Word(stack', b) = Word(stack, b)
  BY DEF Quiet
<1>1. b # a
  OBVIOUS
<1> QED BY <1>1, WordWritten

(***************************************************************************)
(* The moves, one by one.                                                  *)
(***************************************************************************)
ParamSlot(b, i) == b - 8 * i
ArgSlot(b, i) == b - 8 * (Len(sig) + i)
ResultSlot(b) == b - 8 * (2 * Len(sig) + 1)
ReturnSlot(b) == b - 8 * (2 * Len(sig) + 2)

LEMMA Slots ==
  ASSUME sig \in Signature, NEW b \in Int
  PROVE  /\ Len(sig) \in Nat /\ DOMAIN sig = 1 .. Len(sig)
         /\ \A i \in DOMAIN sig : /\ b + Param(i).offset = ParamSlot(b, i)
                                  /\ b + Arg(i).offset = ArgSlot(b, i)
                                  /\ ParamSlot(b, i) \in Int /\ ArgSlot(b, i) \in Int
         /\ b + Result.offset = ResultSlot(b) /\ b + ReturnValue.offset = ReturnSlot(b)
         /\ ResultSlot(b) \in Int /\ ReturnSlot(b) \in Int
<1>1. PICK n \in Nat : n = Len(sig) /\ DOMAIN sig = 1 .. n
  BY SigFacts
<1>2. ASSUME NEW i \in DOMAIN sig
      PROVE  /\ b + Param(i).offset = ParamSlot(b, i) /\ b + Arg(i).offset = ArgSlot(b, i)
             /\ ParamSlot(b, i) \in Int /\ ArgSlot(b, i) \in Int
  <2>1. Param(i).offset = -(8 * i) /\ Arg(i).offset = -(8 * (n + i)) /\ i \in Nat
    BY <1>1, SlotFacts
  <2>2. ParamSlot(b, i) = b - 8 * i /\ ArgSlot(b, i) = b - 8 * (n + i)
    BY <1>1 DEF ParamSlot, ArgSlot
  <2> QED BY <2>1, <2>2
<1>3. /\ b + Result.offset = ResultSlot(b) /\ b + ReturnValue.offset = ReturnSlot(b)
      /\ ResultSlot(b) \in Int /\ ReturnSlot(b) \in Int
  <2>1. Result.offset = -(8 * (2 * n + 1)) /\ ReturnValue.offset = -(8 * (2 * n + 2))
    BY <1>1, SlotFacts
  <2>2. ResultSlot(b) = b - 8 * (2 * n + 1) /\ ReturnSlot(b) = b - 8 * (2 * n + 2)
    BY <1>1 DEF ResultSlot, ReturnSlot
  <2> QED BY <2>1, <2>2
<1> QED BY <1>1, <1>2, <1>3

Stores(a, w) == stack' = Write(stack, a, w) /\ regs' = regs
Loads(r, w) == regs' = [regs EXCEPT ![r] = w] /\ stack' = stack

LEMMA MovIs ==
  ASSUME ExecMov, NEW t, NEW s, NEW d, code[pc] = Mov(t, s, d)
  PROVE  /\ d.kind = "register" => Loads(d.name, Part(Value(s), t))
         /\ d.kind # "register" => Stores(rbp + d.offset, Part(Value(s), t))
<1>1. PICK in : in = code[pc] /\ in = Mov(t, s, d)
  OBVIOUS
<1>2. in.type = t /\ in.src = s /\ in.dst = d
  BY <1>1 DEF Mov
<1>3. CASE d.kind = "register"
  BY <1>1, <1>2, <1>3 DEF ExecMov, Instruction, Loads
<1>4. CASE d.kind # "register"
  BY <1>1, <1>2, <1>4 DEF ExecMov, Instruction, Stores
<1> QED BY <1>3, <1>4

LEMMA ValueIs ==
  /\ \A o : o.kind = "register" => Value(o) = regs[o.name]
  /\ \A o : o.kind = "memory" => Value(o) = Word(stack, rbp + o.offset)
  /\ \A o : o.kind = "immediate" => Value(o) = Number(o.number)
BY DEF Value

TakesIntParam(j) ==
  pc = IntParamAt(j)
  /\ Stores(ParamSlot(rbp, IntRegs[j]), Part(regs[argResigters[j]], sig[IntRegs[j]]))
TakesDoubleParam(j) ==
  pc = DoubleParamAt(j)
  /\ Stores(ParamSlot(rbp, DoubleRegs[j]), Part(regs[doubleArgRegisters[j]], "double"))
FetchesParam(j) ==
  pc = StackParamAt(j)
  /\ Loads(Via(j).name, Part(Word(stack, rbp + AboveFrame(j)), sig[OnStack[j]]))
KeepsParam(j) ==
  pc = StackParamAt(j) + 1
  /\ Stores(ParamSlot(rbp, OnStack[j]), Part(regs[Via(j).name], sig[OnStack[j]]))
LoadsIntArg(j) ==
  pc = IntArgAt(j)
  /\ Loads(argResigters[j], Part(Word(stack, ArgSlot(rbp, IntRegs[j])), sig[IntRegs[j]]))
LoadsDoubleArg(j) ==
  pc = DoubleArgAt(j)
  /\ Loads(doubleArgRegisters[j], Part(Word(stack, ArgSlot(rbp, DoubleRegs[j])), "double"))
LoadsPushed(j) ==
  pc = PushAt(j) /\ sig[Pushed(j)] = "longword"
  /\ Loads("AX", Part(Word(stack, ArgSlot(rbp, Pushed(j))), "longword"))
TakesResult ==
  pc = TakeAt /\ Stores(ResultSlot(rbp), Part(regs[ReturnRegister(ret).name], ret))
LoadsReturn ==
  pc = TakeAt + 2
  /\ Loads(ReturnRegister(ret).name, Part(Word(stack, ReturnSlot(rbp)), ret))
LoadsZero ==
  pc = TakeAt + 4 /\ Loads("AX", Part(Number(0), "longword"))

LEMMA OnStackFacts ==
  ASSUME sig \in Signature
  PROVE  /\ \A j \in 1 .. Ints : IntRegs[j] \in DOMAIN sig
         /\ \A j \in 1 .. Doubles : DoubleRegs[j] \in DOMAIN sig
         /\ \A j \in 1 .. Stacked : OnStack[j] \in DOMAIN sig
<1>1. /\ IntRegs \in Seq(DOMAIN sig) /\ DoubleRegs \in Seq(DOMAIN sig)
      /\ OnStack \in Seq(DOMAIN sig)
  BY ClassFacts
<1> QED BY <1>1, ElementOfSeq DEF Ints, Doubles, Stacked

LEMMA Movs ==
  ASSUME Standing, ExecMov
  PROVE  \/ \E j \in 1 .. Ints : TakesIntParam(j)
         \/ \E j \in 1 .. Doubles : TakesDoubleParam(j)
         \/ \E j \in 1 .. Stacked : FetchesParam(j)
         \/ \E j \in 1 .. Stacked : KeepsParam(j)
         \/ \E j \in 1 .. Ints : LoadsIntArg(j)
         \/ \E j \in 1 .. Doubles : LoadsDoubleArg(j)
         \/ \E j \in 1 .. Stacked : LoadsPushed(j)
         \/ TakesResult \/ LoadsReturn \/ LoadsZero
<1>1. Generated /\ sig \in Signature /\ rbp \in Int
  BY DEF Standing, Generated, Typed
<1>2. pc \in 1 .. EndAt /\ code[pc].op = "mov"
  <2>1. pc \in 0 .. EndAt /\ EndAt \in Nat
    BY <1>1, Order DEF Standing, Typed
  <2> QED BY <2>1 DEF ExecMov, At, Halt
<1>3. \/ InParams(pc) \/ InRegArgs(pc) \/ LoadsAX(pc)
      \/ pc = TakeAt \/ pc = TakeAt + 2 \/ pc = TakeAt + 4
  BY <1>1, <1>2, OpAt
<1>4. ASSUME NEW j \in 1 .. Ints, pc = IntParamAt(j) PROVE TakesIntParam(j)
  <2>1. PICK o, i : o = Reg(argResigters[j]) /\ i = IntRegs[j]
    OBVIOUS
  <2>2. code[pc] = Mov(sig[i], o, Param(i))
    BY <2>1, <1>1, <1>4, ParamsAt DEF IntParamCodeAt
  <2>3. i \in DOMAIN sig
    BY <2>1, <1>1, OnStackFacts
  <2>4. o.kind = "register" /\ o.name = argResigters[j]
    BY <2>1 DEF Reg
  <2>5. Param(i).kind = "memory" /\ rbp + Param(i).offset = ParamSlot(rbp, i)
    BY <2>3, <1>1, SlotFacts, Slots
  <2>6. Stores(rbp + Param(i).offset, Part(Value(o), sig[i]))
    BY <2>2, <2>5, MovIs
  <2>7. Value(o) = regs[argResigters[j]]
    BY <2>4, ValueIs
  <2> QED BY <2>1, <2>5, <2>6, <2>7, <1>4 DEF TakesIntParam
<1>5. ASSUME NEW j \in 1 .. Doubles, pc = DoubleParamAt(j) PROVE TakesDoubleParam(j)
  <2>1. PICK o, i : o = Reg(doubleArgRegisters[j]) /\ i = DoubleRegs[j]
    OBVIOUS
  <2>2. code[pc] = Mov("double", o, Param(i))
    BY <2>1, <1>1, <1>5, ParamsAt DEF DoubleParamCodeAt
  <2>3. i \in DOMAIN sig
    BY <2>1, <1>1, OnStackFacts
  <2>4. o.kind = "register" /\ o.name = doubleArgRegisters[j]
    BY <2>1 DEF Reg
  <2>5. Param(i).kind = "memory" /\ rbp + Param(i).offset = ParamSlot(rbp, i)
    BY <2>3, <1>1, SlotFacts, Slots
  <2>6. Stores(rbp + Param(i).offset, Part(Value(o), "double"))
    BY <2>2, <2>5, MovIs
  <2>7. Value(o) = regs[doubleArgRegisters[j]]
    BY <2>4, ValueIs
  <2> QED BY <2>1, <2>5, <2>6, <2>7, <1>5 DEF TakesDoubleParam
<1>6. ASSUME NEW j \in 1 .. Stacked, pc = StackParamAt(j) PROVE FetchesParam(j)
  <2>1. PICK o, t : o = Stack(AboveFrame(j)) /\ t = sig[OnStack[j]]
    OBVIOUS
  <2>2. code[pc] = Mov(t, o, Via(j))
    BY <2>1, <1>1, <1>6, ParamsAt DEF StackParamCodeAt
  <2>3. o.kind = "memory" /\ o.offset = AboveFrame(j)
    BY <2>1 DEF Stack
  <2>4. Via(j).kind = "register"
    BY ScratchFacts DEF Via
  <2>5. Loads(Via(j).name, Part(Value(o), t))
    BY <2>2, <2>4, MovIs
  <2>6. Value(o) = Word(stack, rbp + AboveFrame(j))
    BY <2>3, ValueIs
  <2> QED BY <2>1, <2>5, <2>6, <1>6 DEF FetchesParam
<1>7. ASSUME NEW j \in 1 .. Stacked, pc = StackParamAt(j) + 1 PROVE KeepsParam(j)
  <2>1. PICK i : i = OnStack[j]
    OBVIOUS
  <2>2. code[pc] = Mov(sig[i], Via(j), Param(i))
    BY <2>1, <1>1, <1>7, ParamsAt DEF StackParamCodeAt
  <2>3. i \in DOMAIN sig
    BY <2>1, <1>1, OnStackFacts
  <2>4. Via(j).kind = "register"
    BY ScratchFacts DEF Via
  <2>5. Param(i).kind = "memory" /\ rbp + Param(i).offset = ParamSlot(rbp, i)
    BY <2>3, <1>1, SlotFacts, Slots
  <2>6. Stores(rbp + Param(i).offset, Part(Value(Via(j)), sig[i]))
    BY <2>2, <2>5, MovIs
  <2>7. Value(Via(j)) = regs[Via(j).name]
    BY <2>4, ValueIs
  <2> QED BY <2>1, <2>5, <2>6, <2>7, <1>7 DEF KeepsParam
<1>8. ASSUME NEW j \in 1 .. Ints, pc = IntArgAt(j) PROVE LoadsIntArg(j)
  <2>1. PICK o, i : o = Reg(argResigters[j]) /\ i = IntRegs[j]
    OBVIOUS
  <2>2. code[pc] = Mov(sig[i], Arg(i), o)
    BY <2>1, <1>1, <1>8, ArgsAt DEF IntArgCodeAt
  <2>3. i \in DOMAIN sig
    BY <2>1, <1>1, OnStackFacts
  <2>4. o.kind = "register" /\ o.name = argResigters[j]
    BY <2>1 DEF Reg
  <2>5. Arg(i).kind = "memory" /\ rbp + Arg(i).offset = ArgSlot(rbp, i)
    BY <2>3, <1>1, SlotFacts, Slots
  <2>6. Loads(o.name, Part(Value(Arg(i)), sig[i]))
    BY <2>2, <2>4, MovIs
  <2>7. Value(Arg(i)) = Word(stack, ArgSlot(rbp, i))
    BY <2>5, ValueIs
  <2> QED BY <2>1, <2>4, <2>6, <2>7, <1>8 DEF LoadsIntArg
<1>9. ASSUME NEW j \in 1 .. Doubles, pc = DoubleArgAt(j) PROVE LoadsDoubleArg(j)
  <2>1. PICK o, i : o = Reg(doubleArgRegisters[j]) /\ i = DoubleRegs[j]
    OBVIOUS
  <2>2. code[pc] = Mov("double", Arg(i), o)
    BY <2>1, <1>1, <1>9, ArgsAt DEF DoubleArgCodeAt
  <2>3. i \in DOMAIN sig
    BY <2>1, <1>1, OnStackFacts
  <2>4. o.kind = "register" /\ o.name = doubleArgRegisters[j]
    BY <2>1 DEF Reg
  <2>5. Arg(i).kind = "memory" /\ rbp + Arg(i).offset = ArgSlot(rbp, i)
    BY <2>3, <1>1, SlotFacts, Slots
  <2>6. Loads(o.name, Part(Value(Arg(i)), "double"))
    BY <2>2, <2>4, MovIs
  <2>7. Value(Arg(i)) = Word(stack, ArgSlot(rbp, i))
    BY <2>5, ValueIs
  <2> QED BY <2>1, <2>4, <2>6, <2>7, <1>9 DEF LoadsDoubleArg
<1>10. ASSUME NEW j \in 1 .. Stacked, pc = PushAt(j), sig[Pushed(j)] = "longword"
       PROVE  LoadsPushed(j)
  <2>1. PICK i : i = Pushed(j)
    OBVIOUS
  <2>2. code[pc] = Mov("longword", Arg(i), AX)
    BY <2>1, <1>1, <1>10, ArgsAt DEF PushCodeAt
  <2>3. i \in DOMAIN sig
    BY <2>1, <1>1, PushedFacts
  <2>4. AX.kind = "register" /\ AX.name = "AX"
    BY DEF AX, Reg
  <2>5. Arg(i).kind = "memory" /\ rbp + Arg(i).offset = ArgSlot(rbp, i)
    BY <2>3, <1>1, SlotFacts, Slots
  <2>6. Loads(AX.name, Part(Value(Arg(i)), "longword"))
    BY <2>2, <2>4, MovIs
  <2>7. Value(Arg(i)) = Word(stack, ArgSlot(rbp, i))
    BY <2>5, ValueIs
  <2> QED BY <2>1, <2>4, <2>6, <2>7, <1>10 DEF LoadsPushed
<1>11. ASSUME pc = TakeAt PROVE TakesResult
  <2>1. code[pc] = Mov(ret, ReturnRegister(ret), Result)
    BY <1>1, <1>11, ArgsAt DEF FixedCodeAt
  <2>2. ReturnRegister(ret).kind = "register"
    BY ReturnRegisterFacts
  <2>3. Result.kind = "memory" /\ rbp + Result.offset = ResultSlot(rbp)
    BY <1>1, SlotFacts, Slots
  <2>4. Stores(rbp + Result.offset, Part(Value(ReturnRegister(ret)), ret))
    BY <2>1, <2>3, MovIs
  <2>5. Value(ReturnRegister(ret)) = regs[ReturnRegister(ret).name]
    BY <2>2, ValueIs
  <2> QED BY <2>3, <2>4, <2>5, <1>11 DEF TakesResult
<1>12. ASSUME pc = TakeAt + 2 PROVE LoadsReturn
  <2>1. code[pc] = Mov(ret, ReturnValue, ReturnRegister(ret))
    BY <1>1, <1>12, ArgsAt DEF FixedCodeAt
  <2>2. ReturnRegister(ret).kind = "register"
    BY ReturnRegisterFacts
  <2>3. ReturnValue.kind = "memory" /\ rbp + ReturnValue.offset = ReturnSlot(rbp)
    BY <1>1, SlotFacts, Slots
  <2>4. Loads(ReturnRegister(ret).name, Part(Value(ReturnValue), ret))
    BY <2>1, <2>2, MovIs
  <2>5. Value(ReturnValue) = Word(stack, ReturnSlot(rbp))
    BY <2>3, ValueIs
  <2> QED BY <2>4, <2>5, <1>12 DEF LoadsReturn
<1>13. ASSUME pc = TakeAt + 4 PROVE LoadsZero
  <2>1. PICK o : o = Immediate(0)
    OBVIOUS
  <2>2. code[pc] = Mov("longword", o, AX)
    BY <2>1, <1>1, <1>13, ArgsAt DEF FixedCodeAt
  <2>3. o.kind = "immediate" /\ o.number = 0
    BY <2>1 DEF Immediate
  <2>4. AX.kind = "register" /\ AX.name = "AX"
    BY DEF AX, Reg
  <2>5. Loads(AX.name, Part(Value(o), "longword"))
    BY <2>2, <2>4, MovIs
  <2>6. Value(o) = Number(0)
    BY <2>3, ValueIs
  <2> QED BY <2>4, <2>5, <2>6, <1>13 DEF LoadsZero
<1>14. CASE InParams(pc)
  BY <1>4, <1>5, <1>6, <1>7, <1>14 DEF InParams
<1>15. CASE InRegArgs(pc)
  BY <1>8, <1>9, <1>15 DEF InRegArgs
<1>16. CASE LoadsAX(pc)
  BY <1>10, <1>16 DEF LoadsAX
<1> QED BY <1>3, <1>11, <1>12, <1>14, <1>15, <1>16, <1>13

(***************************************************************************)
(* The pushes.                                                             *)
(***************************************************************************)
PushesLoaded(j) ==
  /\ pc = PushAt(j) + 1 /\ PushAt(j + 1) = pc + 1 /\ sig[Pushed(j)] = "longword"
  /\ stack' = Write(stack, rsp - 8, regs["AX"])
PushesArg(j) ==
  /\ pc = PushAt(j) /\ PushAt(j + 1) = pc + 1 /\ sig[Pushed(j)] # "longword"
  /\ stack' = Write(stack, rsp - 8, Word(stack, ArgSlot(rbp, Pushed(j))))

LEMMA Pushes ==
  ASSUME Standing, ExecPush
  PROVE  \/ \E j \in 1 .. Stacked : PushesLoaded(j)
         \/ \E j \in 1 .. Stacked : PushesArg(j)
<1>1. Generated /\ sig \in Signature /\ rbp \in Int
  BY DEF Standing, Generated, Typed
<1>2. pc \in 1 .. EndAt /\ code[pc].op = "push"
  <2>1. pc \in 0 .. EndAt /\ EndAt \in Nat
    BY <1>1, Order DEF Standing, Typed
  <2> QED BY <2>1 DEF ExecPush, At, Halt
<1>3. PushesAX(pc) \/ PushesSlot(pc)
  BY <1>1, <1>2, OpAt
<1>4. stack' = Write(stack, rsp - 8, Value(code[pc].src))
  BY DEF ExecPush, Instruction
<1>5. CASE PushesAX(pc)
  <2>1. PICK j \in 1 .. Stacked : pc = PushAt(j) + 1 /\ sig[Pushed(j)] = "longword"
    BY <1>5 DEF PushesAX
  <2>2. PushAt(j + 1) = PushAt(j) + 2 /\ PushAt(j) \in Nat
    BY <2>1, <1>1, PushAtFacts, PushRanges
  <2>3. code[pc].src = AX
    <3>1. code[pc] = Push(AX)
      BY <2>1, <1>1, ArgsAt DEF PushCodeAt
    <3>2. \A x : Push(x).src = x
      BY DEF Push
    <3> QED BY <3>1, <3>2
  <2>4. Value(AX) = regs["AX"]
    BY DEF Value, AX, Reg
  <2> QED BY <2>1, <2>2, <2>3, <2>4, <1>4 DEF PushesLoaded
<1>6. CASE PushesSlot(pc)
  <2>1. PICK j \in 1 .. Stacked : pc = PushAt(j) /\ sig[Pushed(j)] # "longword"
    BY <1>6 DEF PushesSlot
  <2>2. PushAt(j + 1) = PushAt(j) + 1
    BY <2>1, <1>1, PushAtFacts
  <2>3. code[pc].src = Arg(Pushed(j))
    <3>1. code[pc] = Push(Arg(Pushed(j)))
      BY <2>1, <1>1, ArgsAt DEF PushCodeAt
    <3>2. \A x : Push(x).src = x
      BY DEF Push
    <3> QED BY <3>1, <3>2
  <2>4. /\ Arg(Pushed(j)).kind = "memory"
        /\ rbp + Arg(Pushed(j)).offset = ArgSlot(rbp, Pushed(j))
    BY <1>1, PushedFacts, SlotFacts, Slots
  <2>5. Value(Arg(Pushed(j))) = Word(stack, ArgSlot(rbp, Pushed(j)))
    BY <2>4, ValueIs
  <2> QED BY <2>1, <2>2, <2>3, <2>5, <1>4 DEF PushesArg
<1> QED BY <1>3, <1>5, <1>6

(***************************************************************************)
(* Where the pointers are, and so what an instruction leaves alone.        *)
(***************************************************************************)
LEMMA Where ==
  ASSUME Standing
  PROVE  /\ FrameSize \in Nat /\ Removed \in Nat /\ Depth \in Nat /\ EndAt \in Nat
         /\ rsp \in Int /\ rbp \in Int /\ (pc >= 1 => rsp % 8 = 0)
         /\ \A d \in 1 .. Depth : frames[d] \in Int
         /\ pc = 1 => /\ (rsp - 8) % 16 = 0
                      /\ \A d \in 1 .. Depth : rsp + FrameSize + Removed + 8 <= frames[d]
         /\ pc > 1 => /\ Depth > 0 /\ rbp = frames[Depth] /\ rbp % 16 = 0
                      /\ rsp <= rbp /\ rbp - FrameSize - Removed <= rsp
                      /\ pc >= BodyAt => rsp <= rbp - FrameSize
                      /\ \A d \in 1 .. Depth : rbp <= frames[d]
                      /\ \A d \in 1 .. Depth : d # Depth => rbp + Pitch <= frames[d]
<1>1. sig \in Signature /\ Typed /\ Chain /\ Pointers
  BY DEF Standing, Generated
<1>2. PICK f \in Nat, r \in Nat : /\ f = FrameSize /\ r = Removed /\ f % 16 = 0 /\ r % 16 = 0
                                  /\ Pitch = f + r + 16
  BY <1>1, FrameFacts, PaddingFacts DEF Pitch
<1>3. PICK n \in Nat : n = Depth
  BY <1>1, LenProperties DEF Typed, Depth
<1>4. EndAt \in Nat /\ BodyAt \in Nat
  BY <1>1, Order
<1>5. \A d \in 1 .. n : frames[d] \in Int
  BY <1>1, <1>3, ElementOfSeq DEF Typed, Depth
<1>6. rsp \in Int /\ rbp \in Int /\ pc \in 0 .. EndAt
  BY <1>1 DEF Typed
<1>7. /\ \A d \in 1 .. n : frames[d] % 16 = 0
      /\ \A d \in 1 .. n, e \in 1 .. n : d < e => frames[e] <= frames[d] - (f + r + 16)
  BY <1>1, <1>2, <1>3 DEF Chain
<1>8. \A d \in 1 .. n : /\ frames[n] <= frames[d]
                        /\ d # n => frames[n] + (f + r + 16) <= frames[d]
  <2> SUFFICES ASSUME NEW d \in 1 .. n
               PROVE  /\ frames[n] <= frames[d]
                      /\ d # n => frames[n] + (f + r + 16) <= frames[d]
    OBVIOUS
  <2>1. frames[d] \in Int /\ frames[n] \in Int /\ n \in 1 .. n
    BY <1>5
  <2>2. CASE d = n
    BY <2>1, <2>2
  <2>3. CASE d # n
    <3>1. frames[n] <= frames[d] - (f + r + 16)
      BY <2>3, <1>7
    <3> QED BY <2>1, <2>3, <3>1
  <2> QED BY <2>2, <2>3
<1>9. CASE pc = 0
  BY <1>2, <1>3, <1>4, <1>5, <1>6, <1>9
<1>10. CASE pc = 1
  <2>1. CASE n = 0
    <3>1. rsp = -8
      BY <2>1, <1>1, <1>3, <1>10 DEF Pointers
    <3> QED BY <3>1, <2>1, <1>2, <1>3, <1>4, <1>5, <1>6, <1>10
  <2>2. CASE n > 0
    <3>1. rsp = frames[n] - (f + r + 16) + 8
      BY <2>2, <1>1, <1>2, <1>3, <1>10 DEF Pointers
    <3>2. frames[n] \in Int /\ frames[n] % 16 = 0
      BY <2>2, <1>5, <1>7
    <3>3. rsp % 8 = 0 /\ (rsp - 8) % 16 = 0
      BY <3>1, <3>2, <1>2
    <3>4. \A d \in 1 .. n : rsp + f + r + 8 <= frames[d]
      BY <3>1, <3>2, <1>5, <1>8
    <3> QED BY <3>3, <3>4, <1>2, <1>3, <1>4, <1>5, <1>6, <1>10
  <2> QED BY <2>1, <2>2
<1>11. CASE pc > 1
  <2>1. n > 0 /\ rbp = frames[n] /\ Below(pc, rsp, rbp)
    BY <1>1, <1>3, <1>11 DEF Pointers
  <2>2. rbp % 16 = 0
    BY <2>1, <1>7
  <2>3. pc \in 2 .. EndAt
    BY <1>6, <1>4, <1>11
  <2>4. /\ rsp <= rbp /\ rsp >= rbp - f - r /\ (rbp - rsp) % 8 = 0
        /\ pc >= BodyAt => rsp <= rbp - f
    BY <2>1, <2>3, <1>1, <1>2, <1>6, BelowRange
  <2>5. rsp % 8 = 0
    BY <2>2, <2>4, <1>6
  <2>6. \A d \in 1 .. n : rbp <= frames[d] /\ (d # n => rbp + Pitch <= frames[d])
    BY <2>1, <1>2, <1>8
  <2> QED BY <2>1, <2>2, <2>4, <2>5, <2>6, <1>2, <1>3, <1>4, <1>5, <1>6, <1>11
<1> QED BY <1>4, <1>6, <1>9, <1>10, <1>11

TypedStack(m) == \A a \in DOMAIN m : a \in Int /\ a % 8 = 0 /\ m[a].width \in Widths
TypedRegs(g) == DOMAIN g = Registers /\ \A r \in Registers : g[r].width \in Widths

LEMMA PartWidth ==
  \A w, t : Part(w, t).width \in Widths
<1> SUFFICES ASSUME NEW w, NEW t PROVE Part(w, t).width \in Widths
  OBVIOUS
<1>1. Bytes(t) \in {4, 8}
  BY DEF Bytes
<1>2. CASE w.width >= Bytes(t)
  <2>1. Part(w, t).width = Bytes(t)
    BY <1>2 DEF Part
  <2> QED BY <2>1, <1>1 DEF Widths
<1>3. CASE ~(w.width >= Bytes(t))
  <2>1. Part(w, t).width = 0
    BY <1>3 DEF Part, Garbage
  <2> QED BY <2>1 DEF Widths
<1> QED BY <1>2, <1>3

LEMMA TypedWrite ==
  ASSUME NEW m, TypedStack(m), NEW a \in Int, a % 8 = 0, NEW w, w.width \in Widths
  PROVE  TypedStack(Write(m, a, w))
<1> SUFFICES ASSUME NEW b \in DOMAIN Write(m, a, w)
             PROVE  b \in Int /\ b % 8 = 0 /\ Write(m, a, w)[b].width \in Widths
  BY DEF TypedStack
<1>1. b \in DOMAIN m \cup {a} /\ Write(m, a, w)[b] = IF b = a THEN w ELSE m[b]
  BY DEF Write
<1> QED BY <1>1 DEF TypedStack

LEMMA TypedWord ==
  ASSUME NEW m, TypedStack(m), NEW a
  PROVE  Word(m, a).width \in Widths
<1>1. CASE a \in DOMAIN m
  BY <1>1 DEF Word, TypedStack
<1>2. CASE a \notin DOMAIN m
  <2>1. Word(m, a).width = 0
    BY <1>2 DEF Word, Garbage
  <2> QED BY <2>1 DEF Widths
<1> QED BY <1>1, <1>2

LEMMA TypedLoad ==
  ASSUME NEW g, TypedRegs(g), NEW r, NEW w, w.width \in Widths
  PROVE  TypedRegs([g EXCEPT ![r] = w])
<1>1. DOMAIN [g EXCEPT ![r] = w] = DOMAIN g
  OBVIOUS
<1>2. \A x \in DOMAIN g : [g EXCEPT ![r] = w][x] = IF x = r THEN w ELSE g[x]
  OBVIOUS
<1> QED BY <1>1, <1>2 DEF TypedRegs

\* A word is written to the frame, below the parameters once they are there.
WritesFrame ==
  \E a \in Int : \E w :
    /\ Stores(a, w) /\ w.width \in Widths
    /\ a % 8 = 0 /\ a < rbp /\ (pc >= BodyAt => a < rbp - 8 * Len(sig))
LoadsRegister == \E r, w : Loads(r, w) /\ w.width \in Widths

LEMMA MovEffect ==
  ASSUME Standing, ExecMov
  PROVE  WritesFrame \/ LoadsRegister
<1>1. sig \in Signature
  BY DEF Standing, Generated
<1>2. PICK n \in Nat : n = Len(sig) /\ DOMAIN sig = 1 .. n
  BY <1>1, SigFacts
<1>3. pc > 1
  <2>1. pc \in 1 .. EndAt /\ code[pc].op = "mov"
    <3>1. pc \in 0 .. EndAt /\ EndAt \in Nat
      BY <1>1, Order DEF Standing, Typed
    <3> QED BY <3>1 DEF ExecMov, At, Halt
  <2>2. code[1].op = "enter"
    <3>1. \A op : Plain(op).op = op
      BY DEF Plain
    <3> QED BY <3>1, ArgsAt DEF FixedCodeAt, Standing
  <2> QED BY <2>1, <2>2
<1>4. rbp \in Int /\ rbp % 16 = 0
  BY <1>3, Where
<1>5. ASSUME NEW i \in DOMAIN sig
      PROVE  ParamSlot(rbp, i) \in Int /\ ParamSlot(rbp, i) % 8 = 0 /\ ParamSlot(rbp, i) < rbp
  BY <1>2, <1>4 DEF ParamSlot
<1>6. /\ ResultSlot(rbp) \in Int /\ ResultSlot(rbp) % 8 = 0
      /\ ResultSlot(rbp) < rbp - 8 * n /\ ResultSlot(rbp) < rbp
  BY <1>2, <1>4 DEF ResultSlot
<1>7. PICK i \in Nat, d \in Nat, s \in Nat : i = Ints /\ d = Doubles /\ s = Stacked
  BY <1>1, Counts
<1>8. BodyAt = 3 + i + d + 2 * s
  BY <1>1, <1>7, Order
<1>9. CASE \E j \in 1 .. i : TakesIntParam(j)
  <2>1. PICK j \in 1 .. i : TakesIntParam(j)
    BY <1>9
  <2>2. ~(pc >= BodyAt)
    BY <2>1, <1>7, <1>8 DEF TakesIntParam, IntParamAt
  <2>3. PICK w : Stores(ParamSlot(rbp, IntRegs[j]), w) /\ w.width \in Widths
    BY <2>1, PartWidth DEF TakesIntParam
  <2>4. IntRegs[j] \in DOMAIN sig
    BY <1>1, <1>7, OnStackFacts
  <2> QED BY <2>2, <2>3, <2>4, <1>5 DEF WritesFrame
<1>10. CASE \E j \in 1 .. d : TakesDoubleParam(j)
  <2>1. PICK j \in 1 .. d : TakesDoubleParam(j)
    BY <1>10
  <2>2. ~(pc >= BodyAt)
    BY <2>1, <1>7, <1>8 DEF TakesDoubleParam, DoubleParamAt
  <2>3. PICK w : Stores(ParamSlot(rbp, DoubleRegs[j]), w) /\ w.width \in Widths
    BY <2>1, PartWidth DEF TakesDoubleParam
  <2>4. DoubleRegs[j] \in DOMAIN sig
    BY <1>1, <1>7, OnStackFacts
  <2> QED BY <2>2, <2>3, <2>4, <1>5 DEF WritesFrame
<1>11. CASE \E j \in 1 .. s : KeepsParam(j)
  <2>1. PICK j \in 1 .. s : KeepsParam(j)
    BY <1>11
  <2>2. ~(pc >= BodyAt)
    BY <2>1, <1>7, <1>8 DEF KeepsParam, StackParamAt
  <2>3. PICK w : Stores(ParamSlot(rbp, OnStack[j]), w) /\ w.width \in Widths
    BY <2>1, PartWidth DEF KeepsParam
  <2>4. OnStack[j] \in DOMAIN sig
    BY <1>1, <1>7, OnStackFacts
  <2> QED BY <2>2, <2>3, <2>4, <1>5 DEF WritesFrame
<1>12. CASE TakesResult
  <2>1. PICK w : Stores(ResultSlot(rbp), w) /\ w.width \in Widths
    BY <1>12, PartWidth DEF TakesResult
  <2> QED BY <2>1, <1>2, <1>6 DEF WritesFrame
<1>13. CASE \/ \E j \in 1 .. s : FetchesParam(j)
            \/ \E j \in 1 .. i : LoadsIntArg(j)
            \/ \E j \in 1 .. d : LoadsDoubleArg(j)
            \/ \E j \in 1 .. s : LoadsPushed(j)
            \/ LoadsReturn \/ LoadsZero
  <2>1. PICK r, w, t : Loads(r, Part(w, t))
    BY <1>13, Zenon
       DEF FetchesParam, LoadsIntArg, LoadsDoubleArg, LoadsPushed, LoadsReturn, LoadsZero
  <2> QED BY <2>1, PartWidth DEF LoadsRegister
<1> QED BY <1>7, <1>9, <1>10, <1>11, <1>12, <1>13, Movs

(***************************************************************************)
(* Steps within one activation.                                            *)
(***************************************************************************)
\* The code does not change, and so nor does any place in it.
LEMMA SameCode ==
  ASSUME UNCHANGED <<sig, ret>>
  PROVE  parseASMfunction' = parseASMfunction
<1>1. /\ classifyCallArgs' = classifyCallArgs /\ classifyFuncParams' = classifyFuncParams
      /\ FrameSize' = FrameSize
  BY DEF classifyCallArgs, classifyFuncParams, FrameSize
<1>2. \A i : /\ Param(i)' = Param(i) /\ Arg(i)' = Arg(i) /\ sig'[i] = sig[i]
             /\ PushArg(i)' = PushArg(i)
  BY DEF Param, Arg, PushArg
<1>3. addArgsAsInstructionsToFunc' = addArgsAsInstructionsToFunc
  BY <1>1, <1>2 DEF addArgsAsInstructionsToFunc, emitIntRegParams, emitDoubleRegParams,
                    emitStackParams
<1>4. parseFunctionCallInstruction' = parseFunctionCallInstruction
  BY <1>1, <1>2 DEF parseFunctionCallInstruction, emitIntRegArgs, emitDoubleRegArgs,
                    emitStackArgs, Result
<1>5. parseASMReturn' = parseASMReturn
  BY DEF parseASMReturn, ReturnValue
<1> QED BY <1>1, <1>3, <1>4, <1>5 DEF parseASMfunction

LEMMA SamePlaces ==
  ASSUME UNCHANGED <<sig, ret, code>>
  PROVE  /\ EndAt' = EndAt /\ BodyAt' = BodyAt /\ CallAt' = CallAt /\ TakeAt' = TakeAt
         /\ FrameSize' = FrameSize /\ Removed' = Removed /\ Padding' = Padding
         /\ Pitch' = Pitch /\ Pads' = Pads /\ Removes' = Removes
         /\ Stacked' = Stacked /\ \A j : PushAt(j)' = PushAt(j)
         /\ Generated' = Generated
<1>1. /\ Ints' = Ints /\ Doubles' = Doubles /\ Stacked' = Stacked /\ OnStack' = OnStack
      /\ Padding' = Padding /\ Removed' = Removed
  BY DEF Ints, Doubles, Stacked, OnStack, IntRegs, DoubleRegs, Padding, Removed, BytesToRemove,
         StackPadding, classifyCallArgs
<1>2. PushParts' = PushParts
  BY <1>1 DEF PushParts, PushArg, Arg, Pushed
<1>3. PushPlaces' = PushPlaces
  BY <1>2 DEF PushPlaces
<1>4. Pads' = Pads /\ Removes' = Removes
  BY <1>1 DEF Pads, Removes
<1>5. BodyAt' = BodyAt
  BY <1>1 DEF BodyAt
<1>6. \A j : PushAt(j)' = PushAt(j)
  BY <1>1, <1>3, <1>4, <1>5 DEF PushAt
<1>7. CallAt' = CallAt
  BY <1>1, <1>3, <1>4, <1>5 DEF PushAt, CallAt
<1>8. TakeAt' = TakeAt /\ EndAt' = EndAt
  BY <1>7, <1>4 DEF TakeAt, EndAt
<1>9. FrameSize' = FrameSize /\ Pitch' = Pitch
  BY <1>1 DEF FrameSize, Pitch
<1>10. Generated' = Generated
  BY SameCode DEF Generated
<1> QED BY <1>1, <1>4, <1>5, <1>6, <1>7, <1>8, <1>9, <1>10

LEMMA SameBelow ==
  ASSUME UNCHANGED <<sig, ret, code>>, Below(pc', rsp', rbp')
  PROVE  Below(pc, rsp, rbp)'
BY SamePlaces DEF Below

\* A step that goes on in the same activation, and leaves rbp and what is saved
\* from there upwards alone.
SameFrame ==
  /\ UNCHANGED <<sig, ret, code, rbp, frames>>
  /\ pc > 1 /\ pc' \in 2 .. EndAt
  /\ rsp' \in Int /\ Below(pc', rsp', rbp)
  /\ calls' \in Seq(Nat) /\ Len(calls') = Len(calls)
  /\ TypedStack(stack') /\ TypedRegs(regs') /\ Quiet(rbp)

\* It also leaves the parameters alone from the start of the body on, and the
\* calls of the other activations.
Within ==
  /\ SameFrame
  /\ pc >= BodyAt => Quiet(rbp - 8 * Len(sig))
  /\ \A d \in 1 .. Depth - 1 : calls'[d] = calls[d]

LEMMA SameFrameStanding ==
  ASSUME Standing, SameFrame
  PROVE  Standing'
<1>1. UNCHANGED <<sig, ret, code, rbp, frames>>
  BY DEF SameFrame
<1>2. Depth' = Depth /\ Depth \in Nat
  BY <1>1, Where DEF Depth
<1>3. pc' > 1 /\ pc' \in Nat /\ pc' <= EndAt /\ EndAt \in Nat
  BY Where DEF SameFrame
<1>4. Generated'
  BY <1>1, SamePlaces DEF Standing
<1>5. Typed'
  <2>1. EndAt' = EndAt
    BY <1>1, SamePlaces
  <2>2. rbp' \in Int /\ frames' \in Seq(Int) /\ Len(calls') = Len(frames')
    BY <1>1 DEF Standing, Typed, SameFrame
  <2> QED BY <1>3, <2>1, <2>2 DEF Typed, SameFrame, TypedStack, TypedRegs
<1>6. Chain'
  <2>1. Pitch' = Pitch
    BY <1>1, SamePlaces
  <2> QED BY <1>1, <1>2, <2>1 DEF Standing, Chain
<1>7. Pointers'
  <2>1. Depth > 0 /\ rbp = frames[Depth]
    BY Where DEF SameFrame
  <2>2. Below(pc, rsp, rbp)'
    BY <1>1, SameBelow DEF SameFrame
  <2> QED BY <1>1, <1>2, <1>3, <2>1, <2>2 DEF Pointers, Halt
<1>8. Saved'
  <2>1. CallAt' = CallAt
    BY <1>1, SamePlaces
  <2>2. ASSUME NEW d \in 1 .. Depth
        PROVE  /\ Word(stack', frames[d]) = Address(Caller(d))
               /\ Word(stack', frames[d] + 8) = Address(Back(d))
    <3>1. frames[d] \in Int /\ frames[d] >= rbp /\ rbp \in Int
      BY Where DEF SameFrame
    <3>2. /\ Word(stack', frames[d]) = Word(stack, frames[d])
          /\ Word(stack', frames[d] + 8) = Word(stack, frames[d] + 8)
      BY <3>1 DEF SameFrame, Quiet
    <3> QED BY <3>2 DEF Standing, Saved
  <2> QED BY <1>1, <1>2, <1>3, <2>1, <2>2 DEF Saved, Caller, Back
<1> QED BY <1>4, <1>5, <1>6, <1>7, <1>8 DEF Standing

\* The kind of an instruction says where it is.
LEMMA RunsAt ==
  ASSUME Standing, NEW op, At(op)
  PROVE  /\ pc \in 1 .. EndAt /\ code[pc].op = op /\ sig \in Signature /\ Generated
         /\ EndAt \in Nat /\ pc \in Nat
         /\ (op # "enter" => pc > 1) /\ (op # "ret" => pc + 1 \in 2 .. EndAt)
<1>1. sig \in Signature /\ Generated
  BY DEF Standing, Generated
<1>2. pc \in 1 .. EndAt /\ EndAt \in Nat /\ code[pc].op = op
  <2>1. pc \in 0 .. EndAt /\ EndAt \in Nat
    BY <1>1, Order DEF Standing, Typed
  <2> QED BY <2>1 DEF At, Halt
<1>3. code[1].op = "enter" /\ code[EndAt].op = "ret"
  <2>1. \A o : Plain(o).op = o
    BY DEF Plain
  <2> QED BY <2>1, <1>1, ArgsAt DEF FixedCodeAt
<1> QED BY <1>1, <1>2, <1>3

LEMMA StandingTyped ==
  ASSUME Standing
  PROVE  /\ TypedStack(stack) /\ TypedRegs(regs)
         /\ calls \in Seq(Nat) /\ Len(calls) = Depth
         /\ (pc > 1 => Below(pc, rsp, rbp))
BY DEF Standing, Typed, TypedStack, TypedRegs, Pointers, Depth

LEMMA MovWithin ==
  ASSUME Standing, ExecMov
  PROVE  Within
<1>1. pc \in 1 .. EndAt /\ pc > 1 /\ pc + 1 \in 2 .. EndAt /\ code[pc].op = "mov"
      /\ sig \in Signature /\ Generated
  <2>1. At("mov")
    BY DEF ExecMov
  <2> QED BY <2>1, RunsAt
<1>2. EndAt \in Nat /\ rsp \in Int /\ rbp \in Int
  BY Where
<1>3. \/ InParams(pc) \/ InRegArgs(pc) \/ LoadsAX(pc)
      \/ pc = TakeAt \/ pc = TakeAt + 2 \/ pc = TakeAt + 4
  BY <1>1, OpAt
<1>4. Below(pc + 1, rsp, rbp)
  BY <1>1, <1>2, <1>3, StandingTyped, BelowMov
<1>6. /\ TypedStack(stack') /\ TypedRegs(regs') /\ Quiet(rbp)
      /\ pc >= BodyAt => Quiet(rbp - 8 * Len(sig))
  <2>1. CASE WritesFrame
    <3>1. PICK a \in Int : \E w : /\ Stores(a, w) /\ w.width \in Widths /\ a % 8 = 0 /\ a < rbp
                                  /\ pc >= BodyAt => a < rbp - 8 * Len(sig)
      BY <2>1 DEF WritesFrame
    <3>2. PICK w : /\ Stores(a, w) /\ w.width \in Widths /\ a % 8 = 0 /\ a < rbp
                   /\ pc >= BodyAt => a < rbp - 8 * Len(sig)
      BY <3>1
    <3>3. stack' = Write(stack, a, w) /\ regs' = regs
      BY <3>2 DEF Stores
    <3>4. Quiet(rbp) /\ (pc >= BodyAt => Quiet(rbp - 8 * Len(sig)))
      <4>1. rbp - 8 * Len(sig) \in Int
        BY <1>1, <1>2, SigFacts
      <4> QED BY <4>1, <3>2, <3>3, <1>2, QuietWrite
    <3>5. TypedStack(Write(stack, a, w))
      BY <3>2, StandingTyped, TypedWrite
    <3> QED BY <3>3, <3>4, <3>5, StandingTyped
  <2>2. CASE LoadsRegister
    <3>1. PICK r, w : Loads(r, w) /\ w.width \in Widths
      BY <2>2 DEF LoadsRegister
    <3>2. regs' = [regs EXCEPT ![r] = w] /\ stack' = stack
      BY <3>1 DEF Loads
    <3>3. TypedRegs([regs EXCEPT ![r] = w])
      BY <3>1, StandingTyped, TypedLoad
    <3> QED BY <3>2, <3>3, StandingTyped DEF Quiet
  <2> QED BY <2>1, <2>2, MovEffect
<1>7. /\ UNCHANGED <<sig, ret, code, rbp, frames>> /\ rsp' = rsp /\ calls' = calls
      /\ pc' = pc + 1
  BY DEF ExecMov
<1> QED BY <1>1, <1>2, <1>4, <1>6, <1>7, StandingTyped DEF Within, SameFrame

LEMMA PushWithin ==
  ASSUME Standing, ExecPush
  PROVE  Within
<1>1. pc \in 1 .. EndAt /\ pc > 1 /\ pc + 1 \in 2 .. EndAt /\ code[pc].op = "push"
      /\ sig \in Signature /\ Generated
  <2>1. At("push")
    BY DEF ExecPush
  <2> QED BY <2>1, RunsAt
<1>2. EndAt \in Nat /\ rsp \in Int /\ rbp \in Int /\ rsp % 8 = 0 /\ rsp <= rbp
  BY <1>1, Where
<1>3. PushesAX(pc) \/ PushesSlot(pc)
  BY <1>1, OpAt
<1>4. Below(pc + 1, rsp - 8, rbp)
  <2>1. PICK k \in Nat, r \in Int : k = pc /\ r = rsp /\ Below(k, r, rbp)
    <3>1. pc \in Nat
      BY <1>1, <1>2
    <3> QED BY <3>1, <1>1, <1>2, StandingTyped
  <2>2. PushesAX(k) \/ PushesSlot(k)
    BY <2>1, <1>3
  <2>3. Below(k + 1, r - 8, rbp)
    BY <2>1, <2>2, <1>1, <1>2, BelowPush
  <2> QED BY <2>1, <2>3
<1>6. /\ TypedStack(stack') /\ Quiet(rbp)
      /\ pc >= BodyAt => Quiet(rbp - 8 * Len(sig))
  <2>1. PICK w : stack' = Write(stack, rsp - 8, w) /\ w.width \in Widths
    <3>1. CASE \E j \in 1 .. Stacked : PushesLoaded(j)
      <4>1. "AX" \in Registers
        BY DEF Registers
      <4>2. regs["AX"].width \in Widths
        BY <4>1, StandingTyped DEF TypedRegs
      <4> QED BY <3>1, <4>2 DEF PushesLoaded
    <3>2. CASE \E j \in 1 .. Stacked : PushesArg(j)
      <4>1. PICK a : stack' = Write(stack, rsp - 8, Word(stack, a))
        BY <3>2 DEF PushesArg
      <4> QED BY <4>1, StandingTyped, TypedWord
    <3> QED BY <3>1, <3>2, Pushes
  <2>2. rsp - 8 \in Int /\ (rsp - 8) % 8 = 0 /\ rsp - 8 < rbp
    BY <1>2
  <2>3. /\ rbp - 8 * Len(sig) \in Int
        /\ pc >= BodyAt => rsp - 8 < rbp - 8 * Len(sig)
    <3>1. PICK n \in Nat, f \in Nat : n = Len(sig) /\ f = FrameSize /\ f >= 8 * (2 * n + 2)
      BY <1>1, FrameFacts
    <3>2. pc >= BodyAt => rsp <= rbp - f
      BY <3>1, <1>1, Where
    <3> QED BY <3>1, <3>2, <1>2
  <2> QED BY <2>1, <2>2, <2>3, <1>2, StandingTyped, TypedWrite, QuietWrite
<1>7. /\ UNCHANGED <<sig, ret, code, rbp, frames>> /\ rsp' = rsp - 8 /\ calls' = calls
      /\ pc' = pc + 1 /\ regs' = regs
  BY DEF ExecPush
<1> QED BY <1>1, <1>2, <1>4, <1>6, <1>7, StandingTyped DEF Within, SameFrame

LEMMA AdjustIs ==
  ASSUME Standing, ExecAdjust
  PROVE  /\ pc = 2 \/ (Pads = 1 /\ pc = BodyAt + 1) \/ (Removes = 1 /\ pc = CallAt + 1)
         /\ pc = 2 => rsp' = rsp - FrameSize
         /\ Pads = 1 /\ pc = BodyAt + 1 => rsp' = rsp - Padding
         /\ Removes = 1 /\ pc = CallAt + 1 => rsp' = rsp + Removed
<1>1. pc \in 1 .. EndAt /\ code[pc].op = "adjust" /\ Generated /\ sig \in Signature
  <2>1. At("adjust")
    BY DEF ExecAdjust
  <2> QED BY <2>1, RunsAt
<1>2. FrameSize \in Nat /\ Removed \in Nat /\ Padding \in Nat /\ rsp \in Int
  BY <1>1, Where, PaddingFacts
<1>3. rsp' = rsp + code[pc].bytes
  BY DEF ExecAdjust, Instruction
<1>4. \A n : AllocateStack(n).bytes = -n /\ DeallocateStack(n).bytes = n
  BY DEF AllocateStack, DeallocateStack, Adjust
<1>5. pc = 2 => code[pc] = AllocateStack(FrameSize)
  BY <1>1, ArgsAt DEF FixedCodeAt
<1>6. Pads = 1 /\ pc = BodyAt + 1 => code[pc] = AllocateStack(Padding)
  BY <1>1, ArgsAt DEF PadCodeAt
<1>7. Removes = 1 /\ pc = CallAt + 1 => code[pc] = DeallocateStack(Removed)
  BY <1>1, ArgsAt DEF CleanCodeAt
<1>8. pc = 2 => rsp' = rsp - FrameSize
  BY <1>2, <1>3, <1>4, <1>5
<1>9. Pads = 1 /\ pc = BodyAt + 1 => rsp' = rsp - Padding
  BY <1>2, <1>3, <1>4, <1>6
<1>10. Removes = 1 /\ pc = CallAt + 1 => rsp' = rsp + Removed
  BY <1>2, <1>3, <1>4, <1>7
<1> QED BY <1>1, <1>8, <1>9, <1>10, OpAt

LEMMA AdjustWithin ==
  ASSUME Standing, ExecAdjust
  PROVE  Within
<1>1. pc \in 1 .. EndAt /\ pc > 1 /\ pc + 1 \in 2 .. EndAt
      /\ code[pc].op = "adjust" /\ sig \in Signature /\ Generated
  <2>1. At("adjust")
    BY DEF ExecAdjust
  <2> QED BY <2>1, RunsAt
<1>2. EndAt \in Nat /\ rsp \in Int /\ rbp \in Int
  BY Where
<1>3. rsp' \in Int /\ Below(pc + 1, rsp', rbp)
  <2>1. FrameSize \in Nat /\ Removed \in Nat /\ Padding \in Nat /\ pc \in Nat
    BY <1>1, Where, PaddingFacts
  <2>2. Below(pc, rsp, rbp)
    BY <1>1, StandingTyped
  <2> QED BY <1>1, <1>2, <2>1, <2>2, AdjustIs, BelowAdjust
<1>7. /\ UNCHANGED <<sig, ret, code, rbp, frames>> /\ calls' = calls
      /\ pc' = pc + 1 /\ regs' = regs /\ stack' = stack
  BY DEF ExecAdjust
<1> QED BY <1>1, <1>2, <1>3, <1>7, StandingTyped DEF Within, SameFrame, Quiet

\* What the temporaries of the next call are set to.
LEMMA WorkPrepares ==
  ASSUME Standing, WorkThenCall
  PROVE  /\ \A i \in DOMAIN sig :
              Word(stack', ArgSlot(rbp, i))
                = [val |-> Passed(Depth, calls'[Depth], i), width |-> Bytes(sig[i])]
         /\ \A b \in Int :
              (\A i \in DOMAIN sig : b # ArgSlot(rbp, i)) => Word(stack', b) = Word(stack, b)
         /\ TypedStack(stack')
<1>1. sig \in Signature /\ pc > 1
  <2>1. At("work")
    BY DEF WorkThenCall
  <2> QED BY <2>1, RunsAt
<1>2. rbp \in Int /\ rbp % 16 = 0
  BY <1>1, Where
<1>3. PICK n \in Nat : n = Len(sig) /\ DOMAIN sig = 1 .. n
  BY <1>1, SigFacts
<1>4. \A i \in 1 .. n : /\ rbp + Arg(i).offset = ArgSlot(rbp, i)
                        /\ ArgSlot(rbp, i) \in Int /\ ArgSlot(rbp, i) % 8 = 0
  <2> SUFFICES ASSUME NEW i \in 1 .. n
               PROVE  /\ rbp + Arg(i).offset = ArgSlot(rbp, i)
                      /\ ArgSlot(rbp, i) \in Int /\ ArgSlot(rbp, i) % 8 = 0
    OBVIOUS
  <2>1. ArgSlot(rbp, i) = rbp - 8 * (n + i)
    BY <1>3 DEF ArgSlot
  <2>2. rbp - 8 * (n + i) \in Int /\ (rbp - 8 * (n + i)) % 8 = 0
    BY <1>2
  <2>3. rbp + Arg(i).offset = ArgSlot(rbp, i)
    BY <1>1, <1>2, <1>3, Slots
  <2> QED BY <2>1, <2>2, <2>3
<1>5. \A i \in 1 .. n, k \in 1 .. n : ArgSlot(rbp, i) = ArgSlot(rbp, k) => i = k
  <2> SUFFICES ASSUME NEW i \in 1 .. n, NEW k \in 1 .. n, ArgSlot(rbp, i) = ArgSlot(rbp, k)
               PROVE  i = k
    OBVIOUS
  <2>1. ArgSlot(rbp, i) = rbp - 8 * (n + i) /\ ArgSlot(rbp, k) = rbp - 8 * (n + k)
    BY <1>3 DEF ArgSlot
  <2>2. PICK b \in Int : b = rbp
    BY <1>2
  <2>3. b - 8 * (n + i) = b - 8 * (n + k)
    BY <2>1, <2>2
  <2> QED BY <2>3
<1>6. PICK args : args = {rbp + Arg(i).offset : i \in DOMAIN sig}
  OBVIOUS
<1>7. \A a : a \in args <=> \E i \in 1 .. n : a = ArgSlot(rbp, i)
  BY <1>3, <1>4, <1>6
<1> DEFINE W(i) == [val |-> Passed(Depth, calls'[Depth], i), width |-> Bytes(sig[i])]
           Which(a) == CHOOSE i \in DOMAIN sig : a = rbp + Arg(i).offset
           new == [a \in DOMAIN stack \cup args |->
                     IF a \notin args THEN stack[a] ELSE W(Which(a))]
<1>8. stack' = new
  BY <1>6 DEF WorkThenCall
<1>9. \A i \in 1 .. n : Which(ArgSlot(rbp, i)) = i
  <2> SUFFICES ASSUME NEW i \in 1 .. n PROVE Which(ArgSlot(rbp, i)) = i
    OBVIOUS
  <2>1. i \in DOMAIN sig /\ ArgSlot(rbp, i) = rbp + Arg(i).offset
    BY <1>3, <1>4
  <2>2. PICK k : k = Which(ArgSlot(rbp, i))
    OBVIOUS
  <2>3. k \in DOMAIN sig /\ ArgSlot(rbp, i) = rbp + Arg(k).offset
    BY <2>1, <2>2, Zenon
  <2>4. ArgSlot(rbp, i) = ArgSlot(rbp, k)
    BY <2>3, <1>3, <1>4
  <2> QED BY <2>2, <2>3, <2>4, <1>3, <1>5
<1>10. \A w \in Nat : \A v : [val |-> v, width |-> w].width = w
  OBVIOUS
<1>11. \A i : W(i).width \in Widths
  <2> SUFFICES ASSUME NEW i PROVE W(i).width \in Widths
    OBVIOUS
  <2>1. W(i).width = Bytes(sig[i])
    OBVIOUS
  <2>2. Bytes(sig[i]) \in Widths
    BY DEF Bytes, Widths
  <2> QED BY <2>1, <2>2
<1> HIDE DEF W, Which
<1>12. /\ DOMAIN new = DOMAIN stack \cup args
       /\ \A a \in args : new[a] = W(Which(a))
       /\ \A a \in DOMAIN stack : a \notin args => new[a] = stack[a]
  OBVIOUS
<1> HIDE DEF new
<1>13. \A i \in 1 .. n : Word(stack', ArgSlot(rbp, i)) = W(i)
  BY <1>7, <1>8, <1>9, <1>12 DEF Word
<1>14. ASSUME NEW b \in Int, \A i \in DOMAIN sig : b # ArgSlot(rbp, i)
       PROVE  Word(stack', b) = Word(stack, b)
  <2>1. b \notin args
    BY <1>3, <1>7, <1>14
  <2> QED BY <2>1, <1>8, <1>12 DEF Word
<1>15. TypedStack(stack')
  <2> SUFFICES ASSUME NEW a \in DOMAIN stack'
               PROVE  a \in Int /\ a % 8 = 0 /\ stack'[a].width \in Widths
    BY DEF TypedStack
  <2>1. CASE a \in args
    BY <2>1, <1>4, <1>7, <1>8, <1>11, <1>12
  <2>2. CASE a \notin args
    BY <2>2, <1>8, <1>12, StandingTyped DEF TypedStack
  <2> QED BY <2>1, <2>2
<1>16. \A i \in 1 .. n : Word(stack', ArgSlot(rbp, i))
                = [val |-> Passed(Depth, calls'[Depth], i), width |-> Bytes(sig[i])]
  BY <1>13 DEF W
<1> QED BY <1>3, <1>14, <1>15, <1>16

LEMMA TypedGarbage == TypedRegs([r \in Registers |-> Garbage])
BY DEF TypedRegs, Garbage, Widths

LEMMA WorkThenReturnWithin ==
  ASSUME Standing, WorkThenReturn
  PROVE  Within
<1>1. pc = BodyAt /\ pc > 1 /\ sig \in Signature /\ Generated /\ AgainAt + 1 = TakeAt + 2
  <2>1. At("work")
    BY DEF WorkThenReturn
  <2> QED BY <2>1, RunsAt, OpAt, LookedUp, Order
<1>2. rsp \in Int /\ rbp \in Int /\ rbp % 16 = 0
  BY <1>1, Where
<1>3. pc' \in 2 .. EndAt /\ pc' = TakeAt + 2
  BY <1>1, Order DEF WorkThenReturn
<1>4. Below(pc', rsp', rbp)
  BY <1>1, <1>2, <1>3, StandingTyped, BelowJump DEF WorkThenReturn
<1>5. PICK n \in Nat : n = Len(sig)
  BY <1>1, SigFacts
<1>6. PICK a \in Int : /\ a = rbp + ReturnValue.offset /\ a % 8 = 0
                       /\ a < rbp /\ a < rbp - 8 * n /\ rbp - 8 * n \in Int
  <2>1. rbp + ReturnValue.offset = rbp - 8 * (2 * n + 2)
    BY <1>1, <1>2, <1>5, Slots DEF ReturnSlot
  <2> QED BY <2>1, <1>2
<1>7. PICK w : stack' = Write(stack, a, w) /\ w.width \in Widths
  <2>1. Bytes(ret) \in Widths
    BY DEF Bytes, Widths
  <2>2. \A v, x : [val |-> v, width |-> x].width = x
    OBVIOUS
  <2> QED BY <2>1, <2>2, <1>6 DEF WorkThenReturn
<1>8. TypedStack(stack') /\ Quiet(rbp) /\ Quiet(rbp - 8 * Len(sig))
  BY <1>2, <1>5, <1>6, <1>7, StandingTyped, TypedWrite, QuietWrite
<1>9. TypedRegs(regs')
  BY TypedGarbage DEF WorkThenReturn
<1>10. UNCHANGED <<sig, ret, code, rbp, frames>> /\ calls' = calls /\ rsp' = rsp
  BY DEF WorkThenReturn
<1> QED BY <1>1, <1>2, <1>3, <1>4, <1>8, <1>9, <1>10, StandingTyped DEF Within, SameFrame

LEMMA WorkThenFallOffWithin ==
  ASSUME Standing, WorkThenFallOff
  PROVE  Within /\ pc = BodyAt /\ pc' = TakeAt + 4
<1>1. pc = BodyAt /\ pc > 1 /\ sig \in Signature /\ Generated
  <2>1. At("work")
    BY DEF WorkThenFallOff
  <2> QED BY <2>1, RunsAt, OpAt
<1>2. rsp \in Int /\ rbp \in Int
  BY <1>1, Where
<1>3. pc' \in 2 .. EndAt /\ pc' = TakeAt + 4
  <2>1. Len(code) = EndAt /\ EndAt = TakeAt + 5 /\ TakeAt \in Nat
    BY <1>1, Sections, Order
  <2> QED BY <2>1 DEF WorkThenFallOff
<1>4. /\ UNCHANGED <<sig, ret, code, rbp, frames>> /\ rsp' = rsp
      /\ calls' = calls /\ stack' = stack
  BY DEF WorkThenFallOff
<1>5. Below(pc', rsp', rbp)
  BY <1>1, <1>2, <1>3, <1>4, StandingTyped, BelowJump
<1>6. TypedRegs(regs')
  BY TypedGarbage DEF WorkThenFallOff
<1> QED BY <1>1, <1>2, <1>3, <1>4, <1>5, <1>6, StandingTyped DEF Within, SameFrame, Quiet

LEMMA WorkThenCallWithin ==
  ASSUME Standing, WorkThenCall
  PROVE  Within
<1>1. pc = BodyAt /\ pc > 1 /\ pc + 1 \in 2 .. EndAt /\ sig \in Signature
  <2>1. At("work")
    BY DEF WorkThenCall
  <2> QED BY <2>1, RunsAt, OpAt
<1>2. rsp \in Int /\ rbp \in Int
  BY <1>1, Where
<1>3. Below(pc + 1, rsp, rbp)
  BY <1>1, <1>2, StandingTyped, BelowJump
<1>4. PICK n \in Nat : n = Len(sig) /\ DOMAIN sig = 1 .. n
  BY <1>1, SigFacts
<1>5. Quiet(rbp) /\ Quiet(rbp - 8 * Len(sig))
  <2>1. ASSUME NEW b \in Int, b >= rbp - 8 * n PROVE Word(stack', b) = Word(stack, b)
    <3>1. \A i \in 1 .. n : b # ArgSlot(rbp, i)
      <4> SUFFICES ASSUME NEW i \in 1 .. n PROVE b # ArgSlot(rbp, i)
        OBVIOUS
      <4>1. ArgSlot(rbp, i) = rbp - 8 * (n + i)
        BY <1>4 DEF ArgSlot
      <4> QED BY <4>1, <2>1, <1>2
    <3> QED BY <3>1, <1>4, WorkPrepares
  <2>2. \A b \in Int : b >= rbp => b >= rbp - 8 * n
    BY <1>2
  <2> QED BY <2>1, <2>2, <1>4 DEF Quiet
<1>6. TypedStack(stack')
  BY WorkPrepares
<1>7. TypedRegs(regs')
  BY TypedGarbage DEF WorkThenCall
<1>8. calls' \in Seq(Nat) /\ Len(calls') = Len(calls)
  <2>1. PICK d \in 1 .. Len(calls) : d = Depth
    BY <1>1, Where, StandingTyped
  <2>2. calls' = [calls EXCEPT ![d] = calls[d] + 1]
    BY <2>1 DEF WorkThenCall
  <2>3. calls \in Seq(Nat)
    BY StandingTyped
  <2>4. calls[d] + 1 \in Nat
    BY <2>1, <2>3, ElementOfSeq
  <2> QED BY <2>1, <2>2, <2>3, <2>4, ExceptSeq
<1>9. \A d \in 1 .. Depth - 1 : calls'[d] = calls[d]
  <2>1. PICK n0 \in Nat : n0 = Depth /\ Len(calls) = n0 /\ calls \in Seq(Nat)
    BY Where, StandingTyped
  <2>2. calls' = [calls EXCEPT ![n0] = calls[n0] + 1]
    BY <2>1 DEF WorkThenCall
  <2> QED BY <2>1, <2>2
<1>10. UNCHANGED <<sig, ret, code, rbp, frames>> /\ pc' = pc + 1 /\ rsp' = rsp
  BY DEF WorkThenCall
<1> QED BY <1>1, <1>2, <1>3, <1>5, <1>6, <1>7, <1>8, <1>9, <1>10 DEF Within, SameFrame

LEMMA AgainWithin ==
  ASSUME Standing, Again
  PROVE  Within
<1>1. pc = TakeAt + 1 /\ pc > 1 /\ sig \in Signature /\ WorkAt = BodyAt
  <2>1. At("again")
    BY DEF Again
  <2> QED BY <2>1, RunsAt, OpAt, LookedUp
<1>2. rsp \in Int /\ rbp \in Int
  BY Where
<1>3. Below(BodyAt, rsp, rbp)
  BY <1>1, <1>2, StandingTyped, BelowJump
<1>4. BodyAt \in 2 .. EndAt
  <2>1. Ints \in Nat /\ Doubles \in Nat /\ Stacked \in Nat /\ Pads \in {0, 1} /\ Removes \in {0, 1}
    BY <1>1, Counts
  <2> QED BY <2>1, <1>1, Order
<1>5. /\ UNCHANGED <<sig, ret, code, rbp, frames>> /\ pc' = BodyAt /\ rsp' = rsp
      /\ calls' = calls /\ stack' = stack /\ regs' = regs
  BY <1>1 DEF Again
<1> QED BY <1>1, <1>2, <1>3, <1>4, <1>5, StandingTyped DEF Within, SameFrame, Quiet

(***************************************************************************)
(* Calls and returns.                                                      *)
(***************************************************************************)
LEMMA AddressFacts ==
  \A n \in Int : Address(n).val[2] = n /\ Address(n).width \in Widths
<1> SUFFICES ASSUME NEW n \in Int PROVE Address(n).val[2] = n /\ Address(n).width \in Widths
  OBVIOUS
<1>1. Address(n).val = <<"address", n>> /\ Address(n).width = 8
  BY DEF Address
<1>2. <<"address", n>>[2] = n
  OBVIOUS
<1> QED BY <1>1, <1>2 DEF Widths

\* What the frames and the addresses of the activations under way need, when
\* nothing at or above the newest frame's base has changed.
LEMMA SavedStays ==
  ASSUME Standing, UNCHANGED <<sig, ret, code>>, NEW lo \in Int, Quiet(lo),
         NEW n \in 0 .. Depth, \A d \in 1 .. n : frames[d] >= lo /\ frames'[d] = frames[d]
  PROVE  \A d \in 1 .. n : /\ Word(stack', frames'[d]) = Address(Caller(d)')
                           /\ Word(stack', frames'[d] + 8) = Address(Back(d)')
<1> SUFFICES ASSUME NEW d \in 1 .. n
             PROVE  /\ Word(stack', frames'[d]) = Address(Caller(d)')
                    /\ Word(stack', frames'[d] + 8) = Address(Back(d)')
  OBVIOUS
<1>1. Depth \in Nat /\ frames[d] \in Int /\ d \in 1 .. Depth
  BY Where
<1>2. /\ Word(stack', frames[d]) = Word(stack, frames[d])
      /\ Word(stack', frames[d] + 8) = Word(stack, frames[d] + 8)
  BY <1>1 DEF Quiet
<1>3. /\ Word(stack, frames[d]) = Address(Caller(d))
      /\ Word(stack, frames[d] + 8) = Address(Back(d))
  BY <1>1 DEF Standing, Saved
<1>4. Caller(d)' = Caller(d)
  <2>1. CASE d = 1
    BY <2>1 DEF Caller
  <2>2. CASE d # 1
    <3>1. d - 1 \in 1 .. n
      BY <2>2, <1>1
    <3> QED BY <2>2, <3>1 DEF Caller
  <2> QED BY <2>1, <2>2
<1>5. Back(d)' = Back(d)
  BY SamePlaces DEF Back
<1> QED BY <1>2, <1>3, <1>4, <1>5

LEMMA StandingCall ==
  ASSUME Standing, ExecCall
  PROVE  Standing'
<1>1. pc = CallAt /\ pc > 1 /\ pc \in Nat /\ sig \in Signature /\ pc + 1 \in 2 .. EndAt
  <2>1. At("call")
    BY DEF ExecCall
  <2> QED BY <2>1, RunsAt, OpAt
<1>2. PICK f \in Nat, r \in Nat, n \in Nat, e \in Nat :
        f = FrameSize /\ r = Removed /\ n = Depth /\ e = EndAt
  BY <1>1, Where
<1>3. Pitch = f + r + 16
  BY <1>2 DEF Pitch
<1>4. /\ rsp \in Int /\ rbp \in Int /\ rsp % 8 = 0 /\ n > 0 /\ rbp = frames[n]
      /\ \A d \in 1 .. n : frames[d] \in Int /\ rbp <= frames[d]
  BY <1>1, <1>2, Where
<1>5. rsp = rbp - f - r
  <2>1. Below(CallAt, rsp, rbp)
    BY <1>1, StandingTyped
  <2> QED BY <2>1, <1>1, <1>2, <1>4, BelowJump
<1>6. /\ UNCHANGED <<sig, ret, code, regs, rbp, frames, calls>>
      /\ pc' = 1 /\ rsp' = rsp - 8 /\ stack' = Write(stack, rsp - 8, Address(CallAt + 1))
  BY <1>1 DEF ExecCall
<1>7. Depth' = n
  BY <1>2, <1>6 DEF Depth
<1>8. EndAt' = e /\ Pitch' = Pitch /\ CallAt' = CallAt /\ Generated'
  BY <1>2, <1>6, SamePlaces DEF Standing
<1>9. Typed'
  <2>1. TypedStack(stack')
    <3>1. (rsp - 8) \in Int /\ (rsp - 8) % 8 = 0
      BY <1>4
    <3>2. CallAt + 1 \in Int
      BY <1>1
    <3> QED BY <3>1, <3>2, <1>6, AddressFacts, StandingTyped, TypedWrite
  <2>2. pc' \in 0 .. EndAt' /\ rsp' \in Int
    BY <1>1, <1>2, <1>4, <1>6, <1>8
  <2> QED BY <2>1, <2>2, <1>6 DEF Standing, Typed, TypedStack
<1>10. Chain'
  BY <1>2, <1>6, <1>7, <1>8 DEF Standing, Chain
<1>11. Pointers'
  <2>1. rsp' = rbp' - Pitch' + 8
    BY <1>2, <1>3, <1>4, <1>5, <1>6, <1>8
  <2>2. Depth' > 0 /\ rbp' = frames'[Depth']
    BY <1>2, <1>4, <1>6, <1>7
  <2> QED BY <2>1, <2>2, <1>2, <1>6, <1>7 DEF Pointers, Halt
<1>12. Saved'
  <2>1. Quiet(rsp)
    BY <1>4, <1>6, QuietWrite
  <2>2. \A d \in 1 .. n : frames[d] >= rsp /\ frames'[d] = frames[d]
    BY <1>2, <1>4, <1>5, <1>6
  <2>3. \A d \in 1 .. n : /\ Word(stack', frames'[d]) = Address(Caller(d)')
                          /\ Word(stack', frames'[d] + 8) = Address(Back(d)')
    <3>1. n \in 0 .. Depth
      BY <1>2
    <3> QED BY <2>1, <2>2, <3>1, <1>4, <1>6, SavedStays
  <2>4. Word(stack', rsp') = Address(CallAt + 1)
    BY <1>6, WordWritten
  <2>5. Back(Depth + 1)' = CallAt + 1
    <3>1. n + 1 # 1
      BY <1>2, <1>4
    <3> QED BY <3>1, <1>7, <1>8 DEF Back
  <2> QED BY <2>3, <2>4, <2>5, <1>7 DEF Saved
<1> QED BY <1>8, <1>9, <1>10, <1>11, <1>12 DEF Standing

LEMMA StandingEnter ==
  ASSUME Standing, printFunctionPrologueToASMFile
  PROVE  Standing'
<1>1. pc = 1 /\ sig \in Signature /\ EndAt \in Nat /\ EndAt >= 2
  <2>1. At("enter")
    BY DEF printFunctionPrologueToASMFile
  <2>2. pc = 1 /\ sig \in Signature /\ EndAt \in Nat /\ pc + 1 \in 2 .. EndAt
    BY <2>1, RunsAt, OpAt
  <2> QED BY <2>2
<1>2. PICK f \in Nat, r \in Nat, n \in Nat :
        f = FrameSize /\ r = Removed /\ n = Depth
  BY Where
<1>3. Pitch = f + r + 16
  BY <1>2 DEF Pitch
<1>4. PICK s \in Int : s = rsp - 8
  BY Where
<1>5. /\ rsp = s + 8 /\ rsp \in Int /\ rbp \in Int /\ s % 16 = 0 /\ s % 8 = 0
      /\ \A d \in 1 .. n : frames[d] \in Int /\ s + f + r + 16 <= frames[d]
  <2>1. /\ rsp \in Int /\ rbp \in Int /\ rsp % 8 = 0 /\ (rsp - 8) % 16 = 0
        /\ \A d \in 1 .. n : frames[d] \in Int /\ rsp + f + r + 8 <= frames[d]
    BY <1>1, <1>2, Where
  <2> QED BY <2>1, <1>4
<1>6. /\ UNCHANGED <<sig, ret, code, regs>> /\ pc' = 2 /\ rsp' = s /\ rbp' = s
      /\ stack' = Write(stack, s, Address(rbp))
      /\ frames' = Append(frames, s) /\ calls' = Append(calls, 0)
  BY <1>1, <1>4 DEF printFunctionPrologueToASMFile
<1>7. /\ frames' \in Seq(Int) /\ Len(frames') = n + 1 /\ Depth' = n + 1
      /\ frames'[n + 1] = s /\ \A d \in 1 .. n : frames'[d] = frames[d]
  <2>1. frames \in Seq(Int) /\ Len(frames) = n
    BY <1>2 DEF Standing, Typed, Depth
  <2> QED BY <2>1, <1>6, AppendProperties DEF Depth
<1>8. calls' \in Seq(Nat) /\ Len(calls') = n + 1
  <2>1. calls \in Seq(Nat) /\ Len(calls) = n
    BY <1>2, StandingTyped
  <2>2. 0 \in Nat
    OBVIOUS
  <2> QED BY <2>1, <2>2, <1>6, AppendProperties
<1>9. EndAt' = EndAt /\ Pitch' = Pitch /\ CallAt' = CallAt /\ Generated'
  BY <1>6, SamePlaces DEF Standing
<1>10. Typed'
  <2>1. TypedStack(stack')
    BY <1>5, <1>6, AddressFacts, StandingTyped, TypedWrite
  <2>2. pc' \in 0 .. EndAt' /\ rsp' \in Int /\ rbp' \in Int
    BY <1>1, <1>6, <1>9
  <2> QED BY <2>1, <2>2, <1>6, <1>7, <1>8 DEF Standing, Typed, TypedStack
<1>11. CASE n = 0
  <2>1. rsp = -8 /\ rbp = 0
    BY <1>1, <1>2, <1>11 DEF Standing, Pointers
  <2>2. s = -16
    BY <2>1, <1>5
  <2>3. Chain'
    <3>1. /\ frames'[1] = -16 /\ Depth' = 1
      BY <2>2, <1>7, <1>11
    <3>2. (-16) % 16 = 0
      OBVIOUS
    <3> QED BY <3>1, <3>2 DEF Chain
  <2>4. Pointers'
    <3>1. Below(2, s, s)
      BY <1>1, BelowJump
    <3>2. Below(pc, rsp, rbp)'
      BY <3>1, <1>6, SameBelow
    <3> QED BY <3>2, <1>6, <1>7, <1>11 DEF Pointers, Halt
  <2>5. Saved'
    <3>1. Word(stack', s) = Address(0)
      BY <2>1, <1>6, WordWritten
    <3>2. Word(stack', s + 8) = Address(Halt)
      <4>1. Word(stack, rsp) = Address(Back(Depth + 1))
        BY <1>1 DEF Standing, Saved
      <4>2. Back(Depth + 1) = Halt
        BY <1>2, <1>11 DEF Back
      <4>3. Word(stack', s + 8) = Word(stack, s + 8)
        <5>1. s + 8 # s
          OBVIOUS
        <5> QED BY <5>1, <1>6, WordWritten
      <4> QED BY <4>1, <4>2, <4>3, <1>5
    <3>3. Caller(1)' = 0 /\ Back(1)' = Halt
      BY DEF Caller, Back
    <3>4. Depth' = 1 /\ frames'[1] = s /\ pc' # 1
      BY <1>6, <1>7, <1>11
    <3> QED BY <3>1, <3>2, <3>3, <3>4 DEF Saved
  <2> QED BY <2>3, <2>4, <2>5, <1>9, <1>10 DEF Standing
<1>12. CASE n > 0
  <2>1. rbp = frames[n] /\ rsp = frames[n] - (f + r + 16) + 8
    BY <1>1, <1>2, <1>3, <1>12 DEF Standing, Pointers
  <2>2. s = frames[n] - (f + r + 16)
    BY <2>1, <1>5, <1>12
  <2>3. Chain'
    <3>1. /\ frames[1] = -16 /\ \A d \in 2 .. n : frames[d] = frames[d - 1] - (f + r + 16)
          /\ \A d \in 1 .. n : frames[d] % 16 = 0
          /\ \A d \in 1 .. n, e \in 1 .. n : d < e => frames[e] <= frames[d] - (f + r + 16)
      BY <1>2, <1>3, <1>12 DEF Standing, Chain
    <3>2. frames'[1] = -16
      BY <3>1, <1>7, <1>12
    <3>3. ASSUME NEW d \in 2 .. n + 1 PROVE frames'[d] = frames'[d - 1] - (f + r + 16)
      <4>1. d - 1 \in 1 .. n /\ (d = n + 1 \/ d \in 2 .. n)
        OBVIOUS
      <4> QED BY <4>1, <3>1, <2>2, <1>7
    <3>4. ASSUME NEW d \in 1 .. n + 1 PROVE frames'[d] % 16 = 0
      <4>1. d = n + 1 \/ d \in 1 .. n
        OBVIOUS
      <4> QED BY <4>1, <3>1, <1>5, <1>7
    <3>5. ASSUME NEW d \in 1 .. n + 1, NEW e \in 1 .. n + 1, d < e
          PROVE  frames'[e] <= frames'[d] - (f + r + 16)
      <4>1. d \in 1 .. n /\ frames'[d] = frames[d] /\ frames[d] \in Int
        BY <3>5, <1>5, <1>7
      <4>2. CASE e = n + 1
        <5>1. frames'[e] = s /\ s + f + r + 16 <= frames[d]
          BY <4>1, <4>2, <1>5, <1>7
        <5> QED BY <4>1, <5>1
      <4>3. CASE e # n + 1
        <5>1. e \in 1 .. n
          BY <4>3
        <5> QED BY <5>1, <4>1, <3>1, <3>5, <1>7
      <4> QED BY <4>2, <4>3
    <3> QED BY <3>2, <3>3, <3>4, <3>5, <1>3, <1>7, <1>9 DEF Chain
  <2>4. Pointers'
    <3>1. Below(2, s, s)
      BY <1>1, BelowJump
    <3>2. Below(pc, rsp, rbp)'
      BY <3>1, <1>6, SameBelow
    <3>3. Depth' > 0 /\ rbp' = frames'[Depth']
      BY <1>6, <1>7
    <3> QED BY <3>2, <3>3, <1>6 DEF Pointers, Halt
  <2>5. Saved'
    <3>1. Word(stack', s) = Address(rbp)
      BY <1>6, WordWritten
    <3>2. Word(stack', s + 8) = Address(CallAt + 1)
      <4>1. Word(stack, rsp) = Address(Back(Depth + 1))
        BY <1>1 DEF Standing, Saved
      <4>2. Back(Depth + 1) = CallAt + 1
        BY <1>2, <1>12 DEF Back
      <4>3. Word(stack', s + 8) = Word(stack, s + 8)
        <5>1. s + 8 # s
          OBVIOUS
        <5> QED BY <5>1, <1>6, WordWritten
      <4> QED BY <4>1, <4>2, <4>3, <1>5
    <3>3. Caller(n + 1)' = rbp /\ Back(n + 1)' = CallAt + 1
      <4>1. n + 1 # 1 /\ n + 1 - 1 = n /\ n \in 1 .. n
        BY <1>12
      <4>2. frames'[n] = rbp
        BY <4>1, <2>1, <1>7
      <4> QED BY <4>1, <4>2, <1>9 DEF Caller, Back
    <3>4. \A d \in 1 .. n : /\ Word(stack', frames'[d]) = Address(Caller(d)')
                            /\ Word(stack', frames'[d] + 8) = Address(Back(d)')
      <4>1. Quiet(s + 8)
        BY <1>5, <1>6, QuietWrite
      <4>2. \A d \in 1 .. n : frames[d] >= s + 8 /\ frames'[d] = frames[d]
        BY <1>5, <1>7
      <4>3. n \in 0 .. Depth /\ s + 8 \in Int
        BY <1>2
      <4> QED BY <4>1, <4>2, <4>3, <1>6, SavedStays
    <3>5. ASSUME NEW d \in 1 .. n + 1
          PROVE  /\ Word(stack', frames'[d]) = Address(Caller(d)')
                 /\ Word(stack', frames'[d] + 8) = Address(Back(d)')
      <4>1. CASE d = n + 1
        BY <4>1, <3>1, <3>2, <3>3, <1>7
      <4>2. CASE d # n + 1
        <5>1. d \in 1 .. n
          BY <4>2
        <5> QED BY <5>1, <3>4
      <4> QED BY <4>1, <4>2
    <3> QED BY <3>5, <1>6, <1>7 DEF Saved
  <2> QED BY <2>3, <2>4, <2>5, <1>9, <1>10 DEF Standing
<1> QED BY <1>11, <1>12

\* What the epilogue reads from the frame.
LEMMA ReturnIs ==
  ASSUME Standing, printFunctionEpilogueToASMFile
  PROVE  /\ pc = TakeAt + 3 \/ pc = EndAt
         /\ pc > 1 /\ Depth > 0 /\ rbp = frames[Depth]
         /\ rbp' = Caller(Depth) /\ pc' = Back(Depth) /\ rsp' = rbp + 16
         /\ UNCHANGED <<sig, ret, code, regs, stack, returned>>
         /\ frames' \in Seq(Int) /\ Len(frames') = Depth - 1 /\ Depth' = Depth - 1
         /\ \A d \in 1 .. Depth - 1 : frames'[d] = frames[d]
         /\ calls' \in Seq(Nat) /\ Len(calls') = Depth - 1
         /\ \A d \in 1 .. Depth - 1 : calls'[d] = calls[d]
<1>1. (pc = TakeAt + 3 \/ pc = EndAt) /\ pc > 1 /\ sig \in Signature
  <2>1. At("ret")
    BY DEF printFunctionEpilogueToASMFile
  <2> QED BY <2>1, RunsAt, OpAt
<1>2. PICK n \in Nat : n = Depth
  BY Where
<1>3. n > 0 /\ rbp = frames[n] /\ \A d \in 1 .. n : frames[d] \in Int
  BY <1>1, <1>2, Where
<1>4. /\ Word(stack, rbp) = Address(Caller(n)) /\ Word(stack, rbp + 8) = Address(Back(n))
  <2>1. n \in 1 .. Depth
    BY <1>2, <1>3
  <2> QED BY <2>1, <1>3 DEF Standing, Saved
<1>5. Caller(n) \in Int /\ Back(n) \in Int
  <2>1. CASE n = 1
    BY <2>1 DEF Caller, Back, Halt
  <2>2. CASE n # 1
    <3>1. n - 1 \in 1 .. n /\ CallAt \in Nat
      BY <2>2, <1>1, <1>3, Order
    <3> QED BY <2>2, <3>1, <1>3 DEF Caller, Back
  <2> QED BY <2>1, <2>2
<1>6. rbp' = Caller(n) /\ pc' = Back(n) /\ rsp' = rbp + 16
  BY <1>4, <1>5, AddressFacts DEF printFunctionEpilogueToASMFile, AddressIn
<1>7. frames' = SubSeq(frames, 1, n - 1) /\ calls' = SubSeq(calls, 1, n - 1)
  BY <1>2 DEF printFunctionEpilogueToASMFile
<1>8. /\ frames \in Seq(Int) /\ Len(frames) = n
      /\ calls \in Seq(Nat) /\ Len(calls) = n
  BY <1>2, StandingTyped DEF Standing, Typed, Depth
<1>9. /\ frames' \in Seq(Int) /\ Len(frames') = n - 1
      /\ \A d \in 1 .. n - 1 : frames'[d] = frames[d]
  BY <1>3, <1>7, <1>8
<1>10. /\ calls' \in Seq(Nat) /\ Len(calls') = n - 1
       /\ \A d \in 1 .. n - 1 : calls'[d] = calls[d]
  BY <1>3, <1>7, <1>8
<1>11. Depth' = n - 1
  BY <1>9 DEF Depth
<1> QED BY <1>1, <1>2, <1>3, <1>6, <1>9, <1>10, <1>11 DEF printFunctionEpilogueToASMFile

LEMMA StandingReturn ==
  ASSUME Standing, printFunctionEpilogueToASMFile
  PROVE  Standing'
<1>1. /\ pc > 1 /\ rbp' = Caller(Depth) /\ pc' = Back(Depth) /\ rsp' = rbp + 16
      /\ UNCHANGED <<sig, ret, code, regs, stack>>
  BY ReturnIs
<1>2. PICK f \in Nat, r \in Nat, n \in Nat :
        f = FrameSize /\ r = Removed /\ n = Depth
  BY Where
<1>3. Pitch = f + r + 16
  BY <1>2 DEF Pitch
<1>4. /\ rbp = frames[n] /\ n > 0 /\ \A d \in 1 .. n : frames[d] \in Int
  BY <1>1, <1>2, Where
<1>5. /\ Depth' = n - 1 /\ frames' \in Seq(Int) /\ Len(frames') = n - 1
      /\ \A d \in 1 .. n - 1 : frames'[d] = frames[d]
      /\ calls' \in Seq(Nat) /\ Len(calls') = n - 1
  BY <1>2, ReturnIs
<1>6. EndAt' = EndAt /\ Pitch' = Pitch /\ CallAt' = CallAt /\ Generated'
  BY <1>1, SamePlaces DEF Standing
<1>7. sig \in Signature
  BY DEF Standing, Generated
<1>8. Chain'
  <2>1. /\ n >= 1 => frames[1] = -16
        /\ \A d \in 2 .. n : frames[d] = frames[d - 1] - Pitch
        /\ \A d \in 1 .. n : frames[d] % 16 = 0
        /\ \A d \in 1 .. n, e \in 1 .. n : d < e => frames[e] <= frames[d] - Pitch
    BY <1>2 DEF Standing, Chain
  <2>2. n - 1 >= 1 => frames'[1] = -16
    BY <2>1, <1>5
  <2>3. \A d \in 2 .. n - 1 : frames'[d] = frames'[d - 1] - Pitch
    <3> SUFFICES ASSUME NEW d \in 2 .. n - 1 PROVE frames'[d] = frames'[d - 1] - Pitch
      OBVIOUS
    <3>1. d \in 2 .. n /\ d \in 1 .. n - 1 /\ d - 1 \in 1 .. n - 1
      OBVIOUS
    <3> QED BY <3>1, <2>1, <1>5
  <2>4. \A d \in 1 .. n - 1 : d \in 1 .. n
    OBVIOUS
  <2>5. \A d \in 1 .. n - 1 : frames'[d] % 16 = 0
    BY <2>1, <2>4, <1>5
  <2>6. \A d \in 1 .. n - 1, e \in 1 .. n - 1 : d < e => frames'[e] <= frames'[d] - Pitch
    BY <2>1, <2>4, <1>5
  <2> QED BY <2>2, <2>3, <2>5, <2>6, <1>5, <1>6 DEF Chain
<1>9. Saved'
  <2>1. \A d \in 1 .. n - 1 : /\ Word(stack', frames'[d]) = Address(Caller(d)')
                              /\ Word(stack', frames'[d] + 8) = Address(Back(d)')
    <3>1. \A d \in 1 .. n - 1 : frames[d] >= rbp /\ frames'[d] = frames[d]
      BY <1>1, <1>2, <1>5, Where
    <3>2. Quiet(rbp)
      BY <1>1 DEF Quiet
    <3>3. n - 1 \in 0 .. Depth /\ rbp \in Int
      BY <1>2, <1>4
    <3> QED BY <3>1, <3>2, <3>3, <1>1, SavedStays
  <2>2. pc' # 1
    <3>1. CASE n = 1
      BY <3>1, <1>1, <1>2 DEF Back, Halt
    <3>2. CASE n # 1
      <4>1. PushAt(1) <= CallAt /\ CallAt \in Nat /\ CallAt # 0
        <5>1. /\ Ints \in Nat /\ Doubles \in Nat /\ Stacked \in Nat /\ Pads \in {0, 1}
          BY <1>7, Counts
        <5> QED BY <5>1, <1>7, Order
      <4> QED BY <3>2, <4>1, <1>1, <1>2 DEF Back
    <3> QED BY <3>1, <3>2
  <2> QED BY <2>1, <2>2, <1>5 DEF Saved
<1>10. CASE n = 1
  <2>1. pc' = 0 /\ rbp' = 0 /\ Depth' = 0
    BY <1>1, <1>2, <1>5, <1>10 DEF Back, Caller, Halt
  <2>2. rsp' \in Int
    BY <1>1, <1>4
  <2>3. Typed'
    <3>1. pc' \in 0 .. EndAt'
      BY <2>1, <1>6, Where
    <3> QED BY <2>1, <2>2, <3>1, <1>1, <1>5 DEF Standing, Typed
  <2>4. Pointers'
    BY <2>1 DEF Pointers, Halt
  <2> QED BY <2>3, <2>4, <1>6, <1>8, <1>9 DEF Standing
<1>11. CASE n # 1
  <2>1. n - 1 \in 1 .. n /\ n - 1 >= 1 /\ n \in 2 .. n
    BY <1>4, <1>11
  <2>2. pc' = CallAt + 1 /\ rbp' = frames[n - 1] /\ rsp' = frames[n] + 16
    BY <1>1, <1>2, <1>4, <1>11 DEF Back, Caller
  <2>3. PICK b \in Int : b = frames[n - 1]
    BY <2>1, <1>4
  <2>4. rbp' = b /\ rsp' = b - f - r
    <3>1. frames[n] = frames[n - 1] - (f + r + 16)
      BY <2>1, <1>2, <1>3 DEF Standing, Chain
    <3> QED BY <3>1, <2>2, <2>3
  <2>5. CallAt + 1 \in 2 .. EndAt
    <3>1. /\ Ints \in Nat /\ Doubles \in Nat /\ Stacked \in Nat /\ Pads \in {0, 1}
          /\ Removes \in {0, 1}
      BY <1>7, Counts
    <3> QED BY <3>1, <1>7, Order
  <2>6. Typed'
    <3>1. pc' \in 0 .. EndAt' /\ rbp' \in Int /\ rsp' \in Int
      BY <2>2, <2>3, <2>4, <2>5, <1>6
    <3> QED BY <3>1, <1>1, <1>5 DEF Standing, Typed
  <2>7. Pointers'
    <3>1. Below(CallAt + 1, rsp', rbp')
      <4>1. \A s \in Int : s = b - FrameSize - Removed => Below(CallAt + 1, s, b)
        BY <1>7, <2>3, BelowJump
      <4> QED BY <4>1, <1>2, <2>4
    <3>2. Below(pc, rsp, rbp)'
      BY <3>1, <2>2, <1>1, SameBelow
    <3>3. Depth' > 0 /\ rbp' = frames'[Depth']
      BY <2>1, <2>2, <1>5
    <3>4. pc' > 1
      BY <2>2, <2>5
    <3> QED BY <3>2, <3>3, <3>4 DEF Pointers, Halt
  <2> QED BY <2>6, <2>7, <1>6, <1>8, <1>9 DEF Standing
<1> QED BY <1>10, <1>11

LEMMA StandingInit ==
  Init => Standing
<1> SUFFICES ASSUME Init PROVE Standing
  OBVIOUS
<1>1. Generated /\ sig \in Signature
  BY DEF Init, Generated
<1>2. /\ pc = 1 /\ rsp = -8 /\ rbp = 0 /\ frames = <<>> /\ calls = <<>> /\ Depth = 0
      /\ stack = Write(<<>>, -8, Address(Halt)) /\ regs = [r \in Registers |-> Garbage]
  BY DEF Init, Depth
<1>3. Typed
  <2>1. pc \in 0 .. EndAt
    BY <1>1, <1>2, Order
  <2>2. DOMAIN regs = Registers /\ \A r \in Registers : regs[r].width \in Widths
    BY <1>2, TypedGarbage DEF TypedRegs
  <2>3. TypedStack(stack)
    <3>1. TypedStack(<<>>)
      BY DEF TypedStack
    <3>2. (-8) % 8 = 0 /\ -8 \in Int /\ Halt \in Int
      BY DEF Halt
    <3> QED BY <3>1, <3>2, <1>2, AddressFacts, TypedWrite
  <2> QED BY <2>1, <2>2, <2>3, <1>2 DEF Typed, TypedStack
<1>4. Chain
  BY <1>2 DEF Chain
<1>5. Pointers
  BY <1>2 DEF Pointers, Halt
<1>6. Saved
  <2>1. Word(stack, rsp) = Address(Halt)
    BY <1>2, WordWritten
  <2> QED BY <2>1, <1>2 DEF Saved, Back
<1> QED BY <1>1, <1>3, <1>4, <1>5, <1>6 DEF Standing

LEMMA StandingStays ==
  ASSUME Standing, UNCHANGED vars
  PROVE  Standing'
<1>1. UNCHANGED <<sig, ret, code, pc, regs, rsp, rbp, stack, frames, calls>>
  BY DEF vars
<1>2. Generated' /\ EndAt' = EndAt /\ Pitch' = Pitch /\ CallAt' = CallAt /\ Depth' = Depth
  BY <1>1, SamePlaces DEF Standing, Depth
<1>3. Typed'
  BY <1>1, <1>2 DEF Standing, Typed
<1>4. Chain'
  BY <1>1, <1>2 DEF Standing, Chain
<1>5. Pointers'
  BY <1>1, <1>2, SameBelow DEF Standing, Pointers
<1>6. Saved'
  BY <1>1, <1>2 DEF Standing, Saved, Caller, Back
<1> QED BY <1>2, <1>3, <1>4, <1>5, <1>6 DEF Standing

LEMMA StandingNext ==
  ASSUME Standing, [Next]_vars
  PROVE  Standing'
<1>1. CASE Next
  <2>1. CASE \/ ExecMov \/ ExecPush \/ ExecAdjust \/ WorkThenReturn \/ WorkThenFallOff
             \/ WorkThenCall \/ Again
    <3>1. Within
      BY <2>1, MovWithin, PushWithin, AdjustWithin, WorkThenReturnWithin,
         WorkThenFallOffWithin, WorkThenCallWithin, AgainWithin
    <3> QED BY <3>1, SameFrameStanding DEF Within
  <2> QED BY <2>1, <1>1, StandingEnter, StandingReturn, StandingCall, StandingStays
          DEF Next, Stopped
<1>2. CASE UNCHANGED vars
  BY <1>2, StandingStays
<1> QED BY <1>1, <1>2

(***************************************************************************)
(* The theorems about the pointers.                                        *)
(***************************************************************************)
\* In every state the frames stand in their places, and every activation has
\* saved what it needs to return.
THEOREM StandingAlways ==
  Spec => []Standing
<1>1. Init => Standing
  BY StandingInit
<1>2. Standing /\ [Next]_vars => Standing'
  BY StandingNext
<1> QED BY <1>1, <1>2, PTL DEF Spec

LEMMA ReturnedAlways ==
  Spec => [](returned \in BOOLEAN)
<1>1. Init => returned \in BOOLEAN
  BY DEF Init
<1>2. returned \in BOOLEAN /\ [Next]_vars => (returned \in BOOLEAN)'
  BY DEF Next, vars, printFunctionPrologueToASMFile, printFunctionEpilogueToASMFile, ExecMov,
         ExecPush, ExecAdjust, ExecCall, WorkThenReturn, WorkThenFallOff, WorkThenCall, Again,
         Stopped
<1> QED BY <1>1, <1>2, PTL DEF Spec

\* Every register, pointer and word of the stack is what it can be.
THEOREM TypesAlways ==
  Spec => []TypeOK
<1>1. Standing /\ returned \in BOOLEAN => TypeOK
  <2> SUFFICES ASSUME Standing, returned \in BOOLEAN PROVE TypeOK
    OBVIOUS
  <2>1. Generated /\ Len(code) = EndAt
    BY Sections DEF Standing
  <2> QED BY <2>1 DEF Standing, Generated, Typed, TypeOK, Depth, Widths
<1> QED BY <1>1, StandingAlways, ReturnedAlways, PTL

\* rsp is a multiple of 16 before every call.
THEOREM AlignedAlways ==
  Spec => []AlignedAtCall
<1>1. Standing => AlignedAtCall
  <2> SUFFICES ASSUME Standing, At("call") PROVE rsp % 16 = 0
    BY DEF AlignedAtCall
  <2>1. pc = CallAt /\ pc > 1 /\ sig \in Signature
    BY RunsAt, OpAt
  <2>2. PICK f \in Nat, r \in Nat : f = FrameSize /\ r = Removed /\ f % 16 = 0 /\ r % 16 = 0
    BY <2>1, FrameFacts, PaddingFacts
  <2>3. rbp \in Int /\ rsp \in Int /\ rbp % 16 = 0
    BY <2>1, Where
  <2>4. rsp = rbp - f - r
    <3>1. Below(CallAt, rsp, rbp)
      BY <2>1, StandingTyped
    <3> QED BY <3>1, <2>1, <2>2, <2>3, BelowJump
  <2> QED BY <2>2, <2>3, <2>4
<1> QED BY <1>1, StandingAlways, PTL

\* Whenever the body is back in control, the frame is as the prologue made it.
THEOREM FrameAlwaysRestored ==
  Spec => []FrameRestored
<1>1. Standing => FrameRestored
  <2> SUFFICES ASSUME Standing, pc \in {WorkAt, AgainAt}
               PROVE  rbp = frames[Depth] /\ rsp = rbp - FrameSize
    BY DEF FrameRestored
  <2>1. Generated /\ sig \in Signature
    BY DEF Standing, Generated
  <2>2. pc = BodyAt \/ pc = TakeAt + 1
    BY <2>1, LookedUp
  <2>3. pc > 1
    <3>1. /\ Ints \in Nat /\ Doubles \in Nat /\ Stacked \in Nat /\ Pads \in {0, 1}
          /\ Removes \in {0, 1}
      BY <2>1, Counts
    <3> QED BY <3>1, <2>1, <2>2, Order
  <2>4. rsp \in Int /\ rbp \in Int /\ rbp = frames[Depth]
    BY <2>3, Where
  <2>5. Below(pc, rsp, rbp)
    BY <2>3, StandingTyped
  <2> QED BY <2>1, <2>2, <2>4, <2>5, BelowJump
<1> QED BY <1>1, StandingAlways, PTL

\* A function returns to the instruction after the call that started it, with
\* the caller's frame.
THEOREM ReturnsAlways ==
  Spec => ReturnsToCaller
<1> DEFINE Returns ==
      At("ret") =>
        IF Depth = 1 THEN pc' = Halt
        ELSE /\ pc' \in WorkAt + 2 .. AgainAt
             /\ code[pc' - 1].op = "call"
             /\ rbp' = frames[Depth - 1]
<1>1. Standing /\ [Next]_vars => [Returns]_vars
  <2> SUFFICES ASSUME Standing, Next, At("ret")
               PROVE  IF Depth = 1 THEN pc' = Halt
                      ELSE /\ pc' \in WorkAt + 2 .. AgainAt
                           /\ code[pc' - 1].op = "call"
                           /\ rbp' = frames[Depth - 1]
    OBVIOUS
  <2>1. pc # Halt /\ code[pc].op = "ret"
    BY DEF At
  <2>2. printFunctionEpilogueToASMFile
    BY <2>1, Zenon
       DEF Next, At, printFunctionPrologueToASMFile, ExecMov, ExecPush, ExecAdjust, ExecCall,
           WorkThenReturn, WorkThenFallOff, WorkThenCall, Again, Stopped
  <2>3. rbp' = Caller(Depth) /\ pc' = Back(Depth)
    BY <2>2, ReturnIs
  <2>4. Generated /\ sig \in Signature
    BY DEF Standing, Generated
  <2>5. WorkAt = BodyAt /\ AgainAt = TakeAt + 1
    BY <2>4, LookedUp
  <2>6. CallAt + 1 \in BodyAt + 2 .. TakeAt + 1 /\ CallAt \in Nat
    <3>1. /\ Ints \in Nat /\ Doubles \in Nat /\ Stacked \in Nat /\ Pads \in {0, 1}
          /\ Removes \in {0, 1}
      BY <2>4, Counts
    <3> QED BY <3>1, <2>4, Order
  <2>7. code[CallAt].op = "call"
    <3>1. \A o : Plain(o).op = o
      BY DEF Plain
    <3> QED BY <3>1, <2>4, ArgsAt DEF FixedCodeAt
  <2>8. CASE Depth = 1
    BY <2>3, <2>8 DEF Back
  <2>9. CASE Depth # 1
    <3>1. pc' = CallAt + 1 /\ rbp' = frames[Depth - 1] /\ pc' - 1 = CallAt
      BY <2>3, <2>6, <2>9 DEF Back, Caller
    <3> QED BY <3>1, <2>5, <2>6, <2>7, <2>9
  <2> QED BY <2>8, <2>9
<1> QED BY <1>1, StandingAlways, PTL DEF Spec, ReturnsToCaller

(***************************************************************************)
(* The inductive invariant, second half: what the words on the way from    *)
(* the caller's temporaries to the callee's parameters, and back, are.     *)
(* The predicates take the parts of the state that they are about: a       *)
(* position k, registers g, a memory m, pointers s and b, frames f,        *)
(* calls c, an activation d, the number n of its call, and v, whether the  *)
(* latest activation to end met a return.                                  *)
(***************************************************************************)
\* The words that activation d passes in its call n, and that it returns.
Given(d, n, i) == [val |-> Passed(d, n, i), width |-> Bytes(sig[i])]
Yielded(d, v) ==
  [val |-> IF v THEN Returned(d) ELSE Number(0).val, width |-> Bytes(ret)]

\* What it returns is known: the value of a return, or the 0 of an int function.
Known(v) == v \/ ret = "longword"

ParamsHold(m, b, d, n) == \A i \in DOMAIN sig : Word(m, ParamSlot(b, i)) = Given(d, n, i)
ArgsHold(m, b, d, n) == \A i \in DOMAIN sig : Word(m, ArgSlot(b, i)) = Given(d, n, i)
StackHolds(m, a, d, n) ==
  \A j \in 1 .. Stacked : Word(m, a + 8 * (j - 1)) = Given(d, n, OnStack[j])
RegsHold(g, d, n) ==
  /\ \A j \in 1 .. Ints : g[argResigters[j]] = Given(d, n, IntRegs[j])
  /\ \A j \in 1 .. Doubles : g[doubleArgRegisters[j]] = Given(d, n, DoubleRegs[j])

\* Before position k, parameter i has been moved to its slot.
Moved(k, i) ==
  \/ \E j \in 1 .. Ints : IntParamAt(j) < k /\ i = IntRegs[j]
  \/ \E j \in 1 .. Doubles : DoubleParamAt(j) < k /\ i = DoubleRegs[j]
  \/ \E j \in 1 .. Stacked : StackParamAt(j) + 1 < k /\ i = OnStack[j]
Arrived(k, g, m, b, d, n) ==
  /\ \A i \in DOMAIN sig : Moved(k, i) => Word(m, ParamSlot(b, i)) = Given(d, n, i)
  /\ \A j \in 1 .. Stacked : k = StackParamAt(j) + 1 => g[Via(j).name] = Given(d, n, OnStack[j])

PushSlot(b, j) == b - FrameSize - Padding - 8 * j
Prepared(k, g, m, b, d, n) ==
  /\ ArgsHold(m, b, d, n)
  /\ \A j \in 1 .. Ints : IntArgAt(j) < k => g[argResigters[j]] = Given(d, n, IntRegs[j])
  /\ \A j \in 1 .. Doubles :
       DoubleArgAt(j) < k => g[doubleArgRegisters[j]] = Given(d, n, DoubleRegs[j])
  /\ \A j \in 1 .. Stacked : PushAt(j + 1) <= k => Word(m, PushSlot(b, j)) = Given(d, n, Pushed(j))
  /\ \A j \in 1 .. Stacked :
       PushAt(j) < k /\ k < PushAt(j + 1) => g["AX"] = Given(d, n, Pushed(j))

KeptAt(k, f, c, m) ==
  \A d \in 2 .. Len(f) :
    d < Len(f) \/ k = 1 \/ k >= BodyAt => ParamsHold(m, f[d], d - 1, c[d - 1])
IncomingAt(k, g, m, s, b, d, c) ==
  /\ k = 1 /\ d >= 1 => RegsHold(g, d, c[d]) /\ StackHolds(m, s + 8, d, c[d])
  /\ k \in 2 .. BodyAt - 1 /\ d >= 2 =>
       /\ StackHolds(m, b + 16, d - 1, c[d - 1])
       /\ k <= 2 + Ints + Doubles => RegsHold(g, d - 1, c[d - 1])
       /\ Arrived(k, g, m, b, d - 1, c[d - 1])
OutgoingAt(k, g, m, b, d, c) ==
  k \in BodyAt + 1 .. CallAt => Prepared(k, g, m, b, d, c[d])
DeliveredAt(k, g, m, b, d, v) ==
  /\ k = TakeAt + 4 => v = FALSE
  /\ Known(v) =>
       /\ k \in CallAt + 1 .. TakeAt => g[ReturnRegister(ret).name] = Yielded(d + 1, v)
       /\ k = TakeAt + 1 => Word(m, ResultSlot(b)) = Yielded(d + 1, v)
       /\ k = TakeAt + 2 => Word(m, ReturnSlot(b)) = Yielded(d, v)
       /\ k = TakeAt + 3 \/ k = EndAt => g[ReturnRegister(ret).name] = Yielded(d, v)

Carried ==
  /\ KeptAt(pc, frames, calls, stack)
  /\ IncomingAt(pc, regs, stack, rsp, rbp, Depth, calls)
  /\ OutgoingAt(pc, regs, stack, rbp, Depth, calls)
  /\ DeliveredAt(pc, regs, stack, rbp, Depth, returned)

LEMMA SameIndices ==
  ASSUME UNCHANGED <<sig, ret, code>>
  PROVE  /\ Ints' = Ints /\ Doubles' = Doubles /\ Stacked' = Stacked
         /\ IntRegs' = IntRegs /\ DoubleRegs' = DoubleRegs /\ OnStack' = OnStack
         /\ \A j : Pushed(j)' = Pushed(j)
BY DEF Ints, Doubles, Stacked, OnStack, IntRegs, DoubleRegs, Pushed

LEMMA SameCarried ==
  ASSUME UNCHANGED <<sig, ret, code>>,
         KeptAt(pc', frames', calls', stack'),
         IncomingAt(pc', regs', stack', rsp', rbp', Depth', calls'),
         OutgoingAt(pc', regs', stack', rbp', Depth', calls'),
         DeliveredAt(pc', regs', stack', rbp', Depth', returned')
  PROVE  Carried'
<1>1. KeptAt(pc, frames, calls, stack)'
  BY SamePlaces DEF KeptAt, ParamsHold, ParamSlot, Given
<1>2. IncomingAt(pc, regs, stack, rsp, rbp, Depth, calls)'
  BY SamePlaces, SameIndices
     DEF IncomingAt, RegsHold, StackHolds, Arrived, Moved, ParamSlot, Given, IntParamAt,
    DoubleParamAt, StackParamAt, Via
<1>3. OutgoingAt(pc, regs, stack, rbp, Depth, calls)'
  BY SamePlaces, SameIndices
     DEF OutgoingAt, Prepared, ArgsHold, ArgSlot, Given, IntArgAt, DoubleArgAt, PushSlot
<1>4. DeliveredAt(pc, regs, stack, rbp, Depth, returned)'
  BY SamePlaces DEF DeliveredAt, Known, Yielded, ResultSlot, ReturnSlot
<1> QED BY <1>1, <1>2, <1>3, <1>4 DEF Carried

LEMMA PartGiven ==
  \A d, n, i : Part(Given(d, n, i), sig[i]) = Given(d, n, i)
BY DEF Part, Given, Bytes

LEMMA PartYielded ==
  \A d, v : Part(Yielded(d, v), ret) = Yielded(d, v)
BY DEF Part, Yielded, Bytes

\* What has no place in the next state's phase holds of it.
LEMMA Vacuous ==
  ASSUME sig \in Signature, NEW k \in Nat, NEW g, NEW m, NEW s, NEW b, NEW d, NEW c,
         NEW v
  PROVE  /\ k = 0 \/ k >= BodyAt => IncomingAt(k, g, m, s, b, d, c)
         /\ k <= BodyAt \/ k > CallAt => OutgoingAt(k, g, m, b, d, c)
         /\ k <= CallAt => DeliveredAt(k, g, m, b, d, v)
<1>1. /\ BodyAt \in Nat /\ CallAt \in Nat /\ TakeAt \in Nat /\ EndAt \in Nat
      /\ TakeAt >= CallAt + 1 /\ EndAt = TakeAt + 5 /\ BodyAt >= 3
  <2>1. /\ Ints \in Nat /\ Doubles \in Nat /\ Stacked \in Nat
        /\ Pads \in {0, 1} /\ Removes \in {0, 1}
    BY Counts
  <2> QED BY <2>1, Order
<1> QED BY <1>1 DEF IncomingAt, OutgoingAt, DeliveredAt

CarriedNext ==
  /\ KeptAt(pc', frames', calls', stack')
  /\ IncomingAt(pc', regs', stack', rsp', rbp', Depth', calls')
  /\ OutgoingAt(pc', regs', stack', rbp', Depth', calls')
  /\ DeliveredAt(pc', regs', stack', rbp', Depth', returned')

LEMMA ParamsStay ==
  ASSUME sig \in Signature, NEW b \in Int, NEW d, NEW n, NEW lo \in Int, Quiet(lo),
         lo <= b - 8 * Len(sig), ParamsHold(stack, b, d, n)
  PROVE  ParamsHold(stack', b, d, n)
<1> SUFFICES ASSUME NEW i \in DOMAIN sig PROVE Word(stack', ParamSlot(b, i)) = Given(d, n, i)
  BY DEF ParamsHold
<1>1. PICK len \in Nat : len = Len(sig) /\ DOMAIN sig = 1 .. len
  BY SigFacts
<1>2. ParamSlot(b, i) \in Int /\ ParamSlot(b, i) >= lo
  BY <1>1 DEF ParamSlot
<1> QED BY <1>2 DEF Quiet, ParamsHold

LEMMA KeptWithin ==
  ASSUME Standing, Within, KeptAt(pc, frames, calls, stack),
         Depth >= 2 /\ pc < BodyAt /\ pc' >= BodyAt =>
           ParamsHold(stack', rbp, Depth - 1, calls[Depth - 1])
  PROVE  KeptAt(pc', frames', calls', stack')
<1>1. sig \in Signature /\ pc > 1 /\ pc' > 1 /\ frames' = frames /\ BodyAt \in Nat /\ pc \in Nat
  <2>1. sig \in Signature
    BY DEF Standing, Generated
  <2>2. EndAt \in Nat /\ pc \in 0 .. EndAt
    BY <2>1, Order DEF Standing, Typed
  <2> QED BY <2>1, <2>2, Order DEF Within, SameFrame
<1>2. PICK n \in Nat : n = Depth
  BY Where
<1>3. n > 0 /\ rbp \in Int /\ rbp = frames[n]
  BY <1>1, <1>2, Where
<1>4. PICK l \in Nat, f \in Nat, r \in Nat :
        l = Len(sig) /\ f = FrameSize /\ r = Removed /\ f >= 8 * (2 * l + 2)
  BY <1>1, FrameFacts, Where
<1>5. Pitch = f + r + 16
  BY <1>4 DEF Pitch
<1>6. ASSUME NEW d \in 2 .. n, d < n \/ pc' = 1 \/ pc' >= BodyAt
      PROVE  ParamsHold(stack', frames[d], d - 1, calls'[d - 1])
  <2>1. calls'[d - 1] = calls[d - 1]
    <3>1. d - 1 \in 1 .. n - 1
      OBVIOUS
    <3> QED BY <3>1, <1>2 DEF Within
  <2>2. CASE d < n
    <3>1. ParamsHold(stack, frames[d], d - 1, calls[d - 1])
      BY <2>2, <1>2 DEF KeptAt, Depth
    <3>2. frames[d] \in Int /\ rbp + Pitch <= frames[d]
      <4>1. d \in 1 .. n /\ d # n
        BY <2>2
      <4> QED BY <4>1, <1>1, <1>2, Where
    <3>3. rbp <= frames[d] - 8 * l
      BY <3>2, <1>3, <1>4, <1>5
    <3>4. Quiet(rbp)
      BY DEF Within, SameFrame
    <3> QED BY <3>1, <3>2, <3>3, <3>4, <2>1, <1>1, <1>3, <1>4, ParamsStay
  <2>3. CASE d = n /\ pc >= BodyAt
    <3>1. ParamsHold(stack, rbp, d - 1, calls[d - 1])
      BY <2>3, <1>2, <1>3 DEF KeptAt, Depth
    <3>2. Quiet(rbp - 8 * Len(sig))
      BY <2>3 DEF Within
    <3>3. rbp - 8 * Len(sig) \in Int /\ rbp - 8 * Len(sig) <= rbp - 8 * Len(sig)
      BY <1>3, <1>4
    <3>4. ParamsHold(stack', rbp, d - 1, calls[d - 1])
      BY <3>1, <3>2, <3>3, <1>1, <1>3, ParamsStay
    <3> QED BY <3>4, <2>1, <2>3, <1>3
  <2>4. CASE d = n /\ pc < BodyAt
    <3>1. Depth >= 2 /\ pc' >= BodyAt
      BY <2>4, <1>1, <1>2, <1>6
    <3>2. ParamsHold(stack', rbp, n - 1, calls[n - 1])
      BY <3>1, <2>4, <1>2
    <3> QED BY <3>2, <2>1, <2>4, <1>3
  <2> QED BY <2>2, <2>3, <2>4, <1>1
<1> QED BY <1>1, <1>2, <1>6 DEF KeptAt, Depth

\* The places in the order of the code.
LEMMA Places ==
  ASSUME sig \in Signature
  PROVE  /\ BodyAt \in Nat /\ CallAt \in Nat /\ TakeAt \in Nat /\ EndAt \in Nat
         /\ BodyAt >= 3 /\ BodyAt < CallAt /\ CallAt < TakeAt /\ EndAt = TakeAt + 5
         /\ PushAt(1) > BodyAt /\ PushAt(1) <= CallAt /\ PushAt(1) \in Nat
<1>1. /\ Ints \in Nat /\ Doubles \in Nat /\ Stacked \in Nat
      /\ Pads \in {0, 1} /\ Removes \in {0, 1}
  BY Counts
<1> QED BY <1>1, Order

LEMMA CarriedIs ==
  ASSUME Carried
  PROVE  /\ KeptAt(pc, frames, calls, stack)
         /\ IncomingAt(pc, regs, stack, rsp, rbp, Depth, calls)
         /\ OutgoingAt(pc, regs, stack, rbp, Depth, calls)
         /\ DeliveredAt(pc, regs, stack, rbp, Depth, returned)
BY DEF Carried

\* A step within the body, or from there to the end.
LEMMA InBody ==
  ASSUME Standing, Carried, Within, pc >= BodyAt, pc' >= BodyAt, pc' \in Nat,
         OutgoingAt(pc', regs', stack', rbp', Depth', calls'),
         DeliveredAt(pc', regs', stack', rbp', Depth', returned')
  PROVE  CarriedNext
<1>1. sig \in Signature
  BY DEF Standing, Generated
<1>2. ~(pc < BodyAt)
  BY <1>1, Places, Where DEF Standing, Typed
<1>3. KeptAt(pc', frames', calls', stack')
  BY <1>2, CarriedIs, KeptWithin
<1>4. IncomingAt(pc', regs', stack', rsp', rbp', Depth', calls')
  BY <1>1, Vacuous
<1> QED BY <1>3, <1>4 DEF CarriedNext

LEMMA CarriedWorkThenCall ==
  ASSUME Standing, Carried, WorkThenCall
  PROVE  CarriedNext
<1>1. pc = BodyAt /\ sig \in Signature
  <2>1. At("work")
    BY DEF WorkThenCall
  <2> QED BY <2>1, RunsAt, OpAt
<1>2. pc' = BodyAt + 1 /\ rbp' = rbp /\ Depth' = Depth
  BY <1>1 DEF WorkThenCall, Depth
<1>3. ArgsHold(stack', rbp, Depth, calls'[Depth])
  BY WorkPrepares DEF ArgsHold, Given
<1>4. PICK i \in Nat, d \in Nat, n \in Nat, w \in {0, 1}, body \in Nat :
        i = Ints /\ d = Doubles /\ n = Stacked /\ w = Pads /\ body = BodyAt
  BY <1>1, Counts, Places
<1>5. \A j \in 1 .. i : ~(IntArgAt(j) < body + 1)
  BY <1>4 DEF IntArgAt
<1>6. \A j \in 1 .. d : ~(DoubleArgAt(j) < body + 1)
  BY <1>4 DEF DoubleArgAt
<1>7. \A j \in 1 .. n : ~(PushAt(j + 1) <= body + 1) /\ ~(PushAt(j) < body + 1)
  <2> SUFFICES ASSUME NEW j \in 1 .. n
               PROVE  ~(PushAt(j + 1) <= body + 1) /\ ~(PushAt(j) < body + 1)
    OBVIOUS
  <2>1. /\ PushAt(j) \in Nat /\ PushAt(j + 1) \in Nat
        /\ PushAt(1) <= PushAt(j) /\ PushAt(j) < PushAt(j + 1)
    BY <1>1, <1>4, PushRanges
  <2>2. PushAt(1) > body /\ PushAt(1) \in Nat
    BY <1>1, <1>4, Places
  <2> QED BY <2>1, <2>2
<1>8. Prepared(BodyAt + 1, regs', stack', rbp, Depth, calls'[Depth])
  BY <1>3, <1>4, <1>5, <1>6, <1>7 DEF Prepared
<1>9. OutgoingAt(pc', regs', stack', rbp', Depth', calls')
  BY <1>2, <1>8 DEF OutgoingAt
<1>10. DeliveredAt(pc', regs', stack', rbp', Depth', returned')
  <2>1. BodyAt + 1 <= CallAt /\ BodyAt + 1 \in Nat
    BY <1>1, Places
  <2> QED BY <2>1, <1>1, <1>2, Vacuous
<1>11. pc >= BodyAt /\ pc' >= BodyAt /\ pc' \in Nat
  BY <1>1, <1>2, <1>4
<1> QED BY <1>9, <1>10, <1>11, WorkThenCallWithin, InBody

LEMMA CarriedWorkThenReturn ==
  ASSUME Standing, Carried, WorkThenReturn
  PROVE  CarriedNext
<1>1. pc = BodyAt /\ sig \in Signature /\ AgainAt + 1 = TakeAt + 2
  <2>1. At("work")
    BY DEF WorkThenReturn
  <2> QED BY <2>1, RunsAt, OpAt, LookedUp, Places
<1>2. pc' = TakeAt + 2 /\ rbp' = rbp /\ Depth' = Depth /\ rbp \in Int
  BY <1>1, Where DEF WorkThenReturn, Depth
<1>3. pc >= BodyAt /\ pc' >= BodyAt /\ pc' \in Nat /\ pc' > CallAt
  BY <1>1, <1>2, Places
<1>4. OutgoingAt(pc', regs', stack', rbp', Depth', calls')
  BY <1>1, <1>3, Vacuous
<1>5. Word(stack', ReturnSlot(rbp)) = Yielded(Depth, returned')
  <2>1. rbp + ReturnValue.offset = ReturnSlot(rbp)
    BY <1>1, <1>2, Slots
  <2>2. PICK y : y = [val |-> Returned(Depth), width |-> Bytes(ret)]
    OBVIOUS
  <2>3. stack' = Write(stack, ReturnSlot(rbp), y)
    BY <2>1, <2>2 DEF WorkThenReturn
  <2>4. Yielded(Depth, returned') = y
    BY <2>2 DEF WorkThenReturn, Yielded
  <2>5. Word(stack', ReturnSlot(rbp)) = y
    BY <2>3, WordWritten
  <2> QED BY <2>4, <2>5
<1>6. DeliveredAt(pc', regs', stack', rbp', Depth', returned')
  <2>1. /\ TakeAt + 2 \notin CallAt + 1 .. TakeAt /\ TakeAt + 2 # TakeAt + 1
        /\ TakeAt + 2 # TakeAt + 3 /\ TakeAt + 2 # TakeAt + 4 /\ TakeAt + 2 # EndAt
    BY <1>1, Places
  <2> QED BY <2>1, <1>2, <1>5 DEF DeliveredAt
<1> QED BY <1>3, <1>4, <1>6, WorkThenReturnWithin, InBody

LEMMA CarriedWorkThenFallOff ==
  ASSUME Standing, Carried, WorkThenFallOff
  PROVE  CarriedNext
<1>1. pc = BodyAt /\ pc' = TakeAt + 4 /\ Within /\ sig \in Signature
  BY WorkThenFallOffWithin DEF Standing, Generated
<1>2. returned' = FALSE
  BY DEF WorkThenFallOff
<1>3. pc >= BodyAt /\ pc' >= BodyAt /\ pc' \in Nat /\ pc' > CallAt
  BY <1>1, Places
<1>4. OutgoingAt(pc', regs', stack', rbp', Depth', calls')
  BY <1>1, <1>3, Vacuous
<1>5. DeliveredAt(pc', regs', stack', rbp', Depth', returned')
  <2>1. /\ TakeAt + 4 \notin CallAt + 1 .. TakeAt /\ TakeAt + 4 # TakeAt + 1
        /\ TakeAt + 4 # TakeAt + 2 /\ TakeAt + 4 # TakeAt + 3 /\ TakeAt + 4 # EndAt
    BY <1>1, Places
  <2> QED BY <2>1, <1>1, <1>2 DEF DeliveredAt
<1> QED BY <1>1, <1>3, <1>4, <1>5, InBody

LEMMA CarriedAgain ==
  ASSUME Standing, Carried, Again
  PROVE  CarriedNext
<1>1. pc = TakeAt + 1 /\ sig \in Signature /\ pc' = BodyAt
  <2>1. At("again")
    BY DEF Again
  <2> QED BY <2>1, RunsAt, OpAt, LookedUp DEF Again
<1>2. pc >= BodyAt /\ pc' >= BodyAt /\ pc' \in Nat /\ pc' <= CallAt
  BY <1>1, Places
<1>3. /\ OutgoingAt(pc', regs', stack', rbp', Depth', calls')
      /\ DeliveredAt(pc', regs', stack', rbp', Depth', returned')
  BY <1>1, <1>2, Vacuous
<1> QED BY <1>2, <1>3, AgainWithin, InBody

LEMMA CarriedReturn ==
  ASSUME Standing, Carried, printFunctionEpilogueToASMFile
  PROVE  CarriedNext
<1>1. /\ pc = TakeAt + 3 \/ pc = EndAt
      /\ pc > 1 /\ Depth > 0 /\ pc' = Back(Depth)
      /\ UNCHANGED <<sig, ret, code, regs, stack, returned>>
      /\ Depth' = Depth - 1
      /\ \A d \in 1 .. Depth - 1 : frames'[d] = frames[d] /\ calls'[d] = calls[d]
  BY ReturnIs
<1>2. sig \in Signature
  BY DEF Standing, Generated
<1>3. PICK n \in Nat : n = Depth
  BY Where
<1>4. KeptAt(pc', frames', calls', stack')
  <2>1. ASSUME NEW d \in 2 .. n - 1
        PROVE  ParamsHold(stack, frames'[d], d - 1, calls'[d - 1])
    <3>1. ParamsHold(stack, frames[d], d - 1, calls[d - 1])
      BY <1>3, CarriedIs DEF KeptAt, Depth
    <3>2. d \in 1 .. n - 1 /\ d - 1 \in 1 .. n - 1
      OBVIOUS
    <3> QED BY <3>1, <3>2, <1>1, <1>3
  <2>2. Len(frames') = n - 1
    BY <1>1, <1>3 DEF Depth
  <2> QED BY <2>1, <2>2, <1>1 DEF KeptAt
<1>5. pc' \in Nat /\ (pc' = 0 \/ (n > 1 /\ pc' = CallAt + 1))
  <2>1. CASE n = 1
    BY <2>1, <1>1, <1>3 DEF Back, Halt
  <2>2. CASE n # 1
    BY <2>2, <1>1, <1>2, <1>3, Places DEF Back
  <2> QED BY <2>1, <2>2
<1>6. /\ IncomingAt(pc', regs', stack', rsp', rbp', Depth', calls')
      /\ OutgoingAt(pc', regs', stack', rbp', Depth', calls')
  <2>1. (pc' = 0 \/ pc' >= BodyAt) /\ (pc' <= BodyAt \/ pc' > CallAt)
    BY <1>2, <1>5, Places
  <2> QED BY <2>1, <1>2, <1>5, Vacuous
<1>7. DeliveredAt(pc', regs', stack', rbp', Depth', returned')
  <2>1. CASE pc' = 0
    <3>1. pc' <= CallAt
      BY <2>1, <1>2, Places
    <3> QED BY <3>1, <1>2, <1>5, Vacuous
  <2>2. CASE n > 1 /\ pc' = CallAt + 1
    <3>1. Known(returned) => regs[ReturnRegister(ret).name] = Yielded(n, returned)
      BY <1>1, <1>3, CarriedIs DEF DeliveredAt
    <3>2. Depth' + 1 = n
      BY <1>1, <1>3
    <3>3. /\ pc' # TakeAt + 1 /\ pc' # TakeAt + 2 /\ pc' # TakeAt + 3 /\ pc' # TakeAt + 4
          /\ pc' # EndAt
      BY <2>2, <1>2, Places
    <3> QED BY <3>1, <3>2, <3>3, <1>1 DEF DeliveredAt
  <2> QED BY <2>1, <2>2, <1>5
<1> QED BY <1>4, <1>6, <1>7 DEF CarriedNext

\* The stack arguments stay where they are.
LEMMA StackStays ==
  ASSUME sig \in Signature, NEW a \in Int, NEW d, NEW n, NEW lo \in Int, Quiet(lo), lo <= a,
         StackHolds(stack, a, d, n)
  PROVE  StackHolds(stack', a, d, n)
<1> SUFFICES ASSUME NEW j \in 1 .. Stacked
             PROVE  Word(stack', a + 8 * (j - 1)) = Given(d, n, OnStack[j])
  BY DEF StackHolds
<1>1. Stacked \in Nat
  BY Counts
<1>2. a + 8 * (j - 1) \in Int /\ a + 8 * (j - 1) >= lo
  BY <1>1
<1> QED BY <1>2 DEF Quiet, StackHolds

\* Everything loaded and pushed is where the callee looks for it.
LEMMA PreparedAll ==
  ASSUME sig \in Signature, NEW g, NEW m, NEW b \in Int, NEW d, NEW n, NEW s \in Int,
         s = b - FrameSize - Removed, Prepared(CallAt, g, m, b, d, n)
  PROVE  RegsHold(g, d, n) /\ StackHolds(m, s, d, n)
<1>1. PICK i \in Nat, e \in Nat, t \in Nat, w \in {0, 1} :
        i = Ints /\ e = Doubles /\ t = Stacked /\ w = Pads
  BY Counts
<1>2. PICK body \in Nat, call \in Nat :
        body = BodyAt /\ call = CallAt /\ body + w + i + e + 1 <= call
  BY <1>1, Order
<1>3. \A j \in 1 .. i : g[argResigters[j]] = Given(d, n, IntRegs[j])
  <2>1. \A j \in 1 .. i : IntArgAt(j) < call
    BY <1>1, <1>2 DEF IntArgAt
  <2> QED BY <2>1, <1>1, <1>2 DEF Prepared
<1>4. \A j \in 1 .. e : g[doubleArgRegisters[j]] = Given(d, n, DoubleRegs[j])
  <2>1. \A j \in 1 .. e : DoubleArgAt(j) < call
    BY <1>1, <1>2 DEF DoubleArgAt
  <2> QED BY <2>1, <1>1, <1>2 DEF Prepared
<1>5. ASSUME NEW j \in 1 .. t PROVE Word(m, s + 8 * (j - 1)) = Given(d, n, OnStack[j])
  <2>1. PICK k \in 1 .. t : k = t - j + 1
    OBVIOUS
  <2>2. PushAt(k + 1) <= CallAt
    BY <1>1, PushRanges
  <2>3. Word(m, PushSlot(b, k)) = Given(d, n, Pushed(k))
    BY <2>2, <1>1 DEF Prepared
  <2>4. Pushed(k) = OnStack[j]
    <3>1. t - k + 1 = j
      BY <2>1
    <3> QED BY <3>1, <1>1 DEF Pushed
  <2>5. PushSlot(b, k) = s + 8 * (j - 1)
    <3>1. PICK f \in Nat, p \in Nat : f = FrameSize /\ p = Padding /\ Removed = 8 * t + p
      BY <1>1, FrameFacts, PaddingFacts
    <3>2. s = b - f - (8 * t + p) /\ PushSlot(b, k) = b - f - p - 8 * k
      BY <3>1 DEF PushSlot
    <3> QED BY <3>1, <3>2, <2>1
  <2> QED BY <2>3, <2>4, <2>5
<1> QED BY <1>1, <1>3, <1>4, <1>5 DEF RegsHold, StackHolds

LEMMA CarriedCall ==
  ASSUME Standing, Carried, ExecCall
  PROVE  CarriedNext
<1>1. pc = CallAt /\ pc > 1 /\ sig \in Signature
  <2>1. At("call")
    BY DEF ExecCall
  <2> QED BY <2>1, RunsAt, OpAt
<1>2. /\ UNCHANGED <<regs, rbp, frames, calls>> /\ Depth' = Depth
      /\ pc' = 1 /\ rsp' = rsp - 8 /\ stack' = Write(stack, rsp - 8, Address(CallAt + 1))
  BY <1>1 DEF ExecCall, Depth
<1>3. PICK n \in Nat, f \in Nat, r \in Nat, l \in Nat :
        /\ n = Depth /\ f = FrameSize /\ r = Removed /\ l = Len(sig) /\ f >= 8 * (2 * l + 2)
  BY <1>1, Where, FrameFacts
<1>4. /\ n > 0 /\ rsp \in Int /\ rbp \in Int /\ rbp = frames[n]
      /\ \A d \in 1 .. n : frames[d] \in Int /\ rbp <= frames[d]
  BY <1>1, <1>3, Where
<1>5. rsp = rbp - f - r
  <2>1. Below(CallAt, rsp, rbp)
    BY <1>1, StandingTyped
  <2> QED BY <2>1, <1>1, <1>3, <1>4, BelowJump
<1>6. Quiet(rsp)
  BY <1>2, <1>4, QuietWrite
<1>7. KeptAt(pc', frames', calls', stack')
  <2>1. ASSUME NEW d \in 2 .. n PROVE ParamsHold(stack', frames[d], d - 1, calls[d - 1])
    <3>1. pc >= BodyAt
      BY <1>1, Places
    <3>2. ParamsHold(stack, frames[d], d - 1, calls[d - 1])
      BY <3>1, <1>3, CarriedIs DEF KeptAt, Depth
    <3>3. frames[d] \in Int /\ rbp <= frames[d]
      BY <1>4
    <3>4. rsp <= frames[d] - 8 * l
      BY <3>3, <1>3, <1>4, <1>5
    <3> QED BY <3>2, <3>3, <3>4, <1>1, <1>3, <1>4, <1>6, ParamsStay
  <2> QED BY <2>1, <1>2, <1>3 DEF KeptAt, Depth
<1>8. IncomingAt(pc', regs', stack', rsp', rbp', Depth', calls')
  <2>1. Prepared(CallAt, regs, stack, rbp, n, calls[n])
    <3>1. CallAt \in BodyAt + 1 .. CallAt
      BY <1>1, Places
    <3> QED BY <3>1, <1>1, <1>3, CarriedIs DEF OutgoingAt
  <2>2. RegsHold(regs, n, calls[n]) /\ StackHolds(stack, rsp, n, calls[n])
    BY <2>1, <1>1, <1>3, <1>4, <1>5, PreparedAll
  <2>3. StackHolds(stack', rsp, n, calls[n])
    <3>1. rsp <= rsp
      BY <1>4
    <3> QED BY <3>1, <2>2, <1>1, <1>4, <1>6, StackStays
  <2>4. rsp' + 8 = rsp
    BY <1>2, <1>4
  <2> QED BY <2>2, <2>3, <2>4, <1>2, <1>3 DEF IncomingAt
<1>9. /\ OutgoingAt(pc', regs', stack', rbp', Depth', calls')
      /\ DeliveredAt(pc', regs', stack', rbp', Depth', returned')
  <2>1. pc' \in Nat /\ pc' <= BodyAt /\ pc' <= CallAt
    BY <1>1, <1>2, Places
  <2> QED BY <2>1, <1>1, Vacuous
<1> QED BY <1>7, <1>8, <1>9 DEF CarriedNext

\* Nothing has arrived before the first move.
LEMMA NothingArrived ==
  ASSUME sig \in Signature, NEW k \in 2 .. 3, NEW g, NEW m, NEW b, NEW d, NEW n
  PROVE  Arrived(k, g, m, b, d, n)
<1>1. PICK i \in Nat, e \in Nat, t \in Nat : i = Ints /\ e = Doubles /\ t = Stacked
  BY Counts
<1>2. \A j \in 1 .. i : ~(IntParamAt(j) < k)
  BY DEF IntParamAt
<1>3. \A j \in 1 .. e : ~(DoubleParamAt(j) < k)
  BY <1>1 DEF DoubleParamAt
<1>4. \A j \in 1 .. t : ~(StackParamAt(j) + 1 < k) /\ k # StackParamAt(j) + 1
  BY <1>1 DEF StackParamAt
<1> QED BY <1>1, <1>2, <1>3, <1>4 DEF Arrived, Moved

LEMMA CarriedEnter ==
  ASSUME Standing, Carried, printFunctionPrologueToASMFile
  PROVE  CarriedNext
<1>1. pc = 1 /\ sig \in Signature
  <2>1. At("enter")
    BY DEF printFunctionPrologueToASMFile
  <2> QED BY <2>1, RunsAt, OpAt
<1>2. PICK n \in Nat, f \in Nat, r \in Nat, l \in Nat :
        /\ n = Depth /\ f = FrameSize /\ r = Removed /\ l = Len(sig) /\ f >= 8 * (2 * l + 2)
  BY <1>1, Where, FrameFacts
<1>3. PICK s \in Int : s = rsp - 8
  BY Where
<1>4. /\ rsp = s + 8 /\ rsp \in Int /\ rbp \in Int
      /\ \A d \in 1 .. n : frames[d] \in Int /\ s + f + r + 16 <= frames[d]
  <2>1. /\ rsp \in Int /\ rbp \in Int
        /\ \A d \in 1 .. n : frames[d] \in Int /\ rsp + f + r + 8 <= frames[d]
    BY <1>1, <1>2, Where
  <2> QED BY <2>1, <1>3
<1>5. /\ UNCHANGED regs /\ pc' = 2 /\ rsp' = s /\ rbp' = s
      /\ stack' = Write(stack, s, Address(rbp))
      /\ frames' = Append(frames, s) /\ calls' = Append(calls, 0)
  BY <1>1, <1>3 DEF printFunctionPrologueToASMFile
<1>6. /\ Depth' = n + 1 /\ Len(frames') = n + 1
      /\ \A d \in 1 .. n : frames'[d] = frames[d] /\ calls'[d] = calls[d]
  <2>1. frames \in Seq(Int) /\ Len(frames) = n /\ calls \in Seq(Nat) /\ Len(calls) = n
    BY <1>2, StandingTyped DEF Standing, Typed, Depth
  <2> QED BY <2>1, <1>5, AppendProperties DEF Depth
<1>7. Quiet(s + 8) /\ s + 8 \in Int
  BY <1>3, <1>5, QuietWrite
<1>8. KeptAt(pc', frames', calls', stack')
  <2>1. ASSUME NEW d \in 2 .. n PROVE ParamsHold(stack', frames'[d], d - 1, calls'[d - 1])
    <3>1. ParamsHold(stack, frames[d], d - 1, calls[d - 1])
      BY <1>1, <1>2, CarriedIs DEF KeptAt, Depth
    <3>2. frames[d] \in Int /\ s + f + r + 16 <= frames[d]
      BY <1>4
    <3>3. s + 8 <= frames[d] - 8 * l
      BY <3>2, <1>2
    <3>4. ParamsHold(stack', frames[d], d - 1, calls[d - 1])
      BY <3>1, <3>2, <3>3, <1>1, <1>2, <1>7, ParamsStay
    <3>5. d \in 1 .. n /\ d - 1 \in 1 .. n
      OBVIOUS
    <3> QED BY <3>4, <3>5, <1>6
  <2>2. ~(pc' = 1 \/ pc' >= BodyAt)
    BY <1>1, <1>5, Places
  <2>3. \A d \in 2 .. n + 1 : d < n + 1 => d \in 2 .. n
    OBVIOUS
  <2> QED BY <2>1, <2>2, <2>3, <1>6 DEF KeptAt
<1>9. IncomingAt(pc', regs', stack', rsp', rbp', Depth', calls')
  <2>1. CASE n = 0
    BY <2>1, <1>5, <1>6 DEF IncomingAt
  <2>2. CASE n > 0
    <3>1. RegsHold(regs, n, calls[n]) /\ StackHolds(stack, rsp + 8, n, calls[n])
      BY <2>2, <1>1, <1>2, CarriedIs DEF IncomingAt
    <3>2. StackHolds(stack', s + 16, n, calls[n])
      <4>1. rsp + 8 = s + 16 /\ s + 8 <= s + 16 /\ s + 16 \in Int
        BY <1>4
      <4> QED BY <4>1, <3>1, <1>1, <1>7, StackStays
    <3>3. Arrived(2, regs', stack', s, n, calls[n])
      BY <1>1, NothingArrived
    <3>4. calls'[n] = calls[n] /\ Depth' - 1 = n /\ pc' # 1
      <4>1. n \in 1 .. n /\ n + 1 - 1 = n
        BY <2>2
      <4>2. calls'[n] = calls[n]
        BY <4>1, <1>6
      <4>3. Depth' - 1 = n
        BY <4>1, <1>6
      <4>4. pc' # 1
        BY <1>5
      <4> QED BY <4>2, <4>3, <4>4
    <3>5. RegsHold(regs', Depth' - 1, calls'[Depth' - 1])
      BY <3>1, <3>4, <1>5
    <3>6. StackHolds(stack', rbp' + 16, Depth' - 1, calls'[Depth' - 1])
      BY <3>2, <3>4, <1>5
    <3>7. Arrived(pc', regs', stack', rbp', Depth' - 1, calls'[Depth' - 1])
      BY <3>3, <3>4, <1>5
    <3> QED BY <3>4, <3>5, <3>6, <3>7 DEF IncomingAt
  <2> QED BY <2>1, <2>2
<1>10. /\ OutgoingAt(pc', regs', stack', rbp', Depth', calls')
       /\ DeliveredAt(pc', regs', stack', rbp', Depth', returned')
  <2>1. pc' \in Nat /\ pc' <= BodyAt /\ pc' <= CallAt
    BY <1>1, <1>5, Places
  <2> QED BY <2>1, <1>1, Vacuous
<1> QED BY <1>8, <1>9, <1>10 DEF CarriedNext

\* Once all the moves are made, all the parameters have their values.
LEMMA ArrivedAll ==
  ASSUME sig \in Signature, NEW g, NEW m, NEW b, NEW d, NEW n, Arrived(BodyAt, g, m, b, d, n)
  PROVE  ParamsHold(m, b, d, n)
<1>1. PICK i \in Nat, e \in Nat, t \in Nat : i = Ints /\ e = Doubles /\ t = Stacked
  BY Counts
<1>2. BodyAt = 3 + i + e + 2 * t
  BY <1>1, Order
<1>3. \A j \in 1 .. i : IntParamAt(j) < BodyAt
  BY <1>2 DEF IntParamAt
<1>4. \A j \in 1 .. e : DoubleParamAt(j) < BodyAt
  BY <1>1, <1>2 DEF DoubleParamAt
<1>5. \A j \in 1 .. t : StackParamAt(j) + 1 < BodyAt
  BY <1>1, <1>2 DEF StackParamAt
<1>6. \A x \in DOMAIN sig : \/ \E j \in 1 .. i : x = IntRegs[j]
                            \/ \E j \in 1 .. e : x = DoubleRegs[j]
                            \/ \E j \in 1 .. t : x = OnStack[j]
  BY <1>1, ClassFacts
<1>7. \A x \in DOMAIN sig : Moved(BodyAt, x)
  BY <1>1, <1>3, <1>4, <1>5, <1>6 DEF Moved
<1> QED BY <1>7 DEF Arrived, ParamsHold

\* At position k, the parameter x is moved to its slot, and no other.
Adds(k, x) ==
  /\ \A y : Moved(k + 1, y) => Moved(k, y) \/ y = x
  /\ \A j \in 1 .. Stacked : k + 1 # StackParamAt(j) + 1

LEMMA AddsInt ==
  ASSUME sig \in Signature, NEW j \in 1 .. Ints
  PROVE  Adds(IntParamAt(j), IntRegs[j])
<1>1. PICK i \in Nat, e \in Nat, t \in Nat : i = Ints /\ e = Doubles /\ t = Stacked
  BY Counts
<1>2. PICK k \in Nat : k = IntParamAt(j) /\ k = 2 + j
  BY <1>1 DEF IntParamAt
<1>3. \A h \in 1 .. i : IntParamAt(h) < k + 1 => IntParamAt(h) < k \/ h = j
  BY <1>2 DEF IntParamAt
<1>4. \A h \in 1 .. e : ~(DoubleParamAt(h) < k + 1)
  BY <1>1, <1>2 DEF DoubleParamAt
<1>5. \A h \in 1 .. t : ~(StackParamAt(h) + 1 < k + 1) /\ k + 1 # StackParamAt(h) + 1
  BY <1>1, <1>2 DEF StackParamAt
<1> QED BY <1>1, <1>2, <1>3, <1>4, <1>5 DEF Adds, Moved

LEMMA AddsDouble ==
  ASSUME sig \in Signature, NEW j \in 1 .. Doubles
  PROVE  Adds(DoubleParamAt(j), DoubleRegs[j])
<1>1. PICK i \in Nat, e \in Nat, t \in Nat : i = Ints /\ e = Doubles /\ t = Stacked
  BY Counts
<1>2. PICK k \in Nat : k = DoubleParamAt(j) /\ k = 2 + i + j
  BY <1>1 DEF DoubleParamAt
<1>3. \A h \in 1 .. i : IntParamAt(h) < k
  BY <1>2 DEF IntParamAt
<1>4. \A h \in 1 .. e : DoubleParamAt(h) < k + 1 => DoubleParamAt(h) < k \/ h = j
  BY <1>1, <1>2 DEF DoubleParamAt
<1>5. \A h \in 1 .. t : ~(StackParamAt(h) + 1 < k + 1) /\ k + 1 # StackParamAt(h) + 1
  BY <1>1, <1>2 DEF StackParamAt
<1> QED BY <1>1, <1>2, <1>3, <1>4, <1>5 DEF Adds, Moved

LEMMA AddsStack ==
  ASSUME sig \in Signature, NEW j \in 1 .. Stacked
  PROVE  /\ Adds(StackParamAt(j) + 1, OnStack[j])
         /\ \A y : Moved(StackParamAt(j) + 1, y) => Moved(StackParamAt(j), y)
         /\ \A h \in 1 .. Stacked : StackParamAt(h) = StackParamAt(j) => h = j
<1>1. PICK i \in Nat, e \in Nat, t \in Nat : i = Ints /\ e = Doubles /\ t = Stacked
  BY Counts
<1>2. PICK k \in Nat : k = StackParamAt(j) /\ k = 2 + i + e + 2 * j - 1
  BY <1>1 DEF StackParamAt
<1>3. \A h \in 1 .. i : IntParamAt(h) < k
  BY <1>2 DEF IntParamAt
<1>4. \A h \in 1 .. e : DoubleParamAt(h) < k
  BY <1>1, <1>2 DEF DoubleParamAt
<1>5. \A h \in 1 .. t : /\ StackParamAt(h) + 1 < k + 1 + 1 => StackParamAt(h) + 1 < k + 1 \/ h = j
                        /\ StackParamAt(h) + 1 < k + 1 => StackParamAt(h) + 1 < k
                        /\ k + 1 + 1 # StackParamAt(h) + 1
                        /\ StackParamAt(h) = k => h = j
  <2> SUFFICES ASSUME NEW h \in 1 .. t
               PROVE  /\ StackParamAt(h) + 1 < k + 1 + 1 => StackParamAt(h) + 1 < k + 1 \/ h = j
                      /\ StackParamAt(h) + 1 < k + 1 => StackParamAt(h) + 1 < k
                      /\ k + 1 + 1 # StackParamAt(h) + 1
                      /\ StackParamAt(h) = k => h = j
    OBVIOUS
  <2>1. StackParamAt(h) = 2 + i + e + 2 * h - 1
    BY <1>1 DEF StackParamAt
  <2> QED BY <2>1, <1>1, <1>2
<1>6. \A h \in 1 .. i : IntParamAt(h) < k + 1
  BY <1>3, <1>2 DEF IntParamAt
<1>7. \A h \in 1 .. e : DoubleParamAt(h) < k + 1
  BY <1>4, <1>1, <1>2 DEF DoubleParamAt
<1>8. Adds(k + 1, OnStack[j])
  BY <1>1, <1>5, <1>6, <1>7 DEF Adds, Moved
<1>9. \A y : Moved(k + 1, y) => Moved(k, y)
  BY <1>1, <1>3, <1>4, <1>5 DEF Moved
<1> QED BY <1>1, <1>2, <1>5, <1>8, <1>9

\* A move to a parameter's slot.
LEMMA Arrives ==
  ASSUME sig \in Signature, rbp \in Int, NEW d, NEW n, NEW x \in DOMAIN sig,
         Stores(ParamSlot(rbp, x), Given(d, n, x)), Adds(pc, x),
         Arrived(pc, regs, stack, rbp, d, n)
  PROVE  Arrived(pc + 1, regs', stack', rbp, d, n)
<1>1. PICK len \in Nat : len = Len(sig) /\ DOMAIN sig = 1 .. len
  BY SigFacts
<1>2. ASSUME NEW y \in DOMAIN sig, Moved(pc + 1, y)
      PROVE  Word(stack', ParamSlot(rbp, y)) = Given(d, n, y)
  <2>1. /\ Word(stack', ParamSlot(rbp, y))
             = IF ParamSlot(rbp, y) = ParamSlot(rbp, x) THEN Given(d, n, x)
               ELSE Word(stack, ParamSlot(rbp, y))
    BY WordWritten DEF Stores
  <2>2. ParamSlot(rbp, y) = ParamSlot(rbp, x) => y = x
    BY <1>1 DEF ParamSlot
  <2>3. Moved(pc, y) \/ y = x
    BY <1>2 DEF Adds
  <2>4. CASE y = x
    BY <2>1, <2>4
  <2>5. CASE y # x
    <3>1. Word(stack, ParamSlot(rbp, y)) = Given(d, n, y)
      BY <2>3, <2>5 DEF Arrived
    <3> QED BY <3>1, <2>1, <2>2, <2>5
  <2> QED BY <2>4, <2>5
<1> QED BY <1>2 DEF Arrived, Adds

\* A step among the moves of the parameters.
LEMMA ParamStep ==
  ASSUME Standing, Carried, Within, pc \in 2 .. BodyAt - 1, pc' = pc + 1, calls' = calls,
         Depth >= 2 => Arrived(pc + 1, regs', stack', rbp, Depth - 1, calls[Depth - 1]),
         regs' = regs \/ pc > 2 + Ints + Doubles
  PROVE  CarriedNext
<1>1. sig \in Signature /\ pc > 1
  BY DEF Standing, Generated, Within, SameFrame
<1>2. PICK body \in Nat, k \in Nat : body = BodyAt /\ k = pc /\ k \in 2 .. body - 1
  BY <1>1, Places
<1>3. UNCHANGED <<rbp, frames>> /\ Depth' = Depth /\ Depth \in Nat /\ rbp \in Int /\ Quiet(rbp)
  BY Where DEF Within, SameFrame, Depth
<1>4. KeptAt(pc', frames', calls', stack')
  <2>1. ASSUME Depth >= 2, pc < BodyAt, pc' >= BodyAt
        PROVE  ParamsHold(stack', rbp, Depth - 1, calls[Depth - 1])
    <3>1. pc + 1 = BodyAt
      BY <2>1, <1>2
    <3>2. Arrived(BodyAt, regs', stack', rbp, Depth - 1, calls[Depth - 1])
      BY <2>1, <3>1
    <3> QED BY <3>2, <1>1, ArrivedAll
  <2> QED BY <2>1, CarriedIs, KeptWithin
<1>5. IncomingAt(pc', regs', stack', rsp', rbp', Depth', calls')
  <2> SUFFICES ASSUME pc + 1 \in 2 .. BodyAt - 1, Depth >= 2
               PROVE  /\ StackHolds(stack', rbp + 16, Depth - 1, calls[Depth - 1])
                      /\ pc + 1 <= 2 + Ints + Doubles => RegsHold(regs', Depth - 1, calls[Depth - 1])
                      /\ Arrived(pc + 1, regs', stack', rbp, Depth - 1, calls[Depth - 1])
    <3>1. pc + 1 # 1
      BY <1>2
    <3> QED BY <3>1, <1>3 DEF IncomingAt
  <2>1. StackHolds(stack', rbp + 16, Depth - 1, calls[Depth - 1])
    <3>1. StackHolds(stack, rbp + 16, Depth - 1, calls[Depth - 1])
      BY CarriedIs DEF IncomingAt
    <3>2. rbp <= rbp + 16 /\ rbp + 16 \in Int
      BY <1>3
    <3> QED BY <3>1, <3>2, <1>1, <1>3, StackStays
  <2>2. ASSUME pc + 1 <= 2 + Ints + Doubles PROVE RegsHold(regs', Depth - 1, calls[Depth - 1])
    <3>1. PICK i \in Nat, e \in Nat : i = Ints /\ e = Doubles
      BY <1>1, Counts
    <3>2. pc <= 2 + Ints + Doubles /\ ~(pc > 2 + Ints + Doubles)
      BY <3>1, <2>2, <1>2
    <3>3. RegsHold(regs, Depth - 1, calls[Depth - 1])
      BY <3>2, CarriedIs DEF IncomingAt
    <3> QED BY <3>2, <3>3
  <2> QED BY <2>1, <2>2
<1>6. /\ OutgoingAt(pc', regs', stack', rbp', Depth', calls')
      /\ DeliveredAt(pc', regs', stack', rbp', Depth', returned')
  <2>1. pc' \in Nat /\ pc' <= BodyAt /\ pc' <= CallAt
    BY <1>1, <1>2, Places
  <2> QED BY <2>1, <1>1, Vacuous
<1> QED BY <1>4, <1>5, <1>6 DEF CarriedNext

\* What is known of the caller's words at a move of a parameter.
LEMMA IncomingIs ==
  ASSUME Standing, Carried, pc \in 2 .. BodyAt - 1, Depth >= 2
  PROVE  /\ StackHolds(stack, rbp + 16, Depth - 1, calls[Depth - 1])
         /\ pc <= 2 + Ints + Doubles => RegsHold(regs, Depth - 1, calls[Depth - 1])
         /\ Arrived(pc, regs, stack, rbp, Depth - 1, calls[Depth - 1])
BY CarriedIs DEF IncomingAt

LEMMA CarriedParams ==
  ASSUME Standing, Carried, ExecMov,
         \/ \E j \in 1 .. Ints : TakesIntParam(j)
         \/ \E j \in 1 .. Doubles : TakesDoubleParam(j)
         \/ \E j \in 1 .. Stacked : FetchesParam(j)
         \/ \E j \in 1 .. Stacked : KeepsParam(j)
  PROVE  CarriedNext
<1>1. sig \in Signature /\ Within /\ rbp \in Int
  BY MovWithin, Where DEF Standing, Generated
<1>2. pc' = pc + 1 /\ calls' = calls
  BY DEF ExecMov
<1>3. PICK i \in Nat, e \in Nat, t \in Nat : i = Ints /\ e = Doubles /\ t = Stacked
  BY <1>1, Counts
<1>4. BodyAt = 3 + i + e + 2 * t
  BY <1>1, <1>3, Order
<1>5. CASE \E j \in 1 .. i : TakesIntParam(j)
  <2>1. PICK j \in 1 .. i : TakesIntParam(j)
    BY <1>5
  <2>2. PICK x \in DOMAIN sig : x = IntRegs[j]
    BY <1>1, <1>3, OnStackFacts
  <2>3. /\ pc = IntParamAt(j) /\ regs' = regs
        /\ Stores(ParamSlot(rbp, x), Part(regs[argResigters[j]], sig[x]))
    BY <2>1, <2>2 DEF TakesIntParam, Stores
  <2>4. pc \in 2 .. BodyAt - 1 /\ pc <= 2 + Ints + Doubles
    BY <2>3, <1>3, <1>4 DEF IntParamAt
  <2>5. ASSUME Depth >= 2
        PROVE  Arrived(pc + 1, regs', stack', rbp, Depth - 1, calls[Depth - 1])
    <3>1. /\ RegsHold(regs, Depth - 1, calls[Depth - 1])
          /\ Arrived(pc, regs, stack, rbp, Depth - 1, calls[Depth - 1])
      BY <2>4, <2>5, IncomingIs
    <3>2. regs[argResigters[j]] = Given(Depth - 1, calls[Depth - 1], x)
      BY <3>1, <2>2, <1>3 DEF RegsHold
    <3>3. Stores(ParamSlot(rbp, x), Given(Depth - 1, calls[Depth - 1], x))
      BY <3>2, <2>3, PartGiven
    <3>4. Adds(pc, x)
      BY <2>2, <2>3, <1>1, <1>3, AddsInt
    <3> QED BY <3>1, <3>3, <3>4, <1>1, Arrives
  <2> QED BY <2>3, <2>4, <2>5, <1>1, <1>2, ParamStep
<1>6. CASE \E j \in 1 .. e : TakesDoubleParam(j)
  <2>1. PICK j \in 1 .. e : TakesDoubleParam(j)
    BY <1>6
  <2>2. PICK x \in DOMAIN sig : x = DoubleRegs[j] /\ sig[x] = "double"
    BY <1>1, <1>3, OnStackFacts, ClassFacts
  <2>3. /\ pc = DoubleParamAt(j) /\ regs' = regs
        /\ Stores(ParamSlot(rbp, x), Part(regs[doubleArgRegisters[j]], sig[x]))
    BY <2>1, <2>2 DEF TakesDoubleParam, Stores
  <2>4. pc \in 2 .. BodyAt - 1 /\ pc <= 2 + Ints + Doubles
    BY <2>3, <1>3, <1>4 DEF DoubleParamAt
  <2>5. ASSUME Depth >= 2
        PROVE  Arrived(pc + 1, regs', stack', rbp, Depth - 1, calls[Depth - 1])
    <3>1. /\ RegsHold(regs, Depth - 1, calls[Depth - 1])
          /\ Arrived(pc, regs, stack, rbp, Depth - 1, calls[Depth - 1])
      BY <2>4, <2>5, IncomingIs
    <3>2. regs[doubleArgRegisters[j]] = Given(Depth - 1, calls[Depth - 1], x)
      BY <3>1, <2>2, <1>3 DEF RegsHold
    <3>3. Stores(ParamSlot(rbp, x), Given(Depth - 1, calls[Depth - 1], x))
      BY <3>2, <2>3, PartGiven
    <3>4. Adds(pc, x)
      BY <2>2, <2>3, <1>1, <1>3, AddsDouble
    <3> QED BY <3>1, <3>3, <3>4, <1>1, Arrives
  <2> QED BY <2>3, <2>4, <2>5, <1>1, <1>2, ParamStep
<1>7. CASE \E j \in 1 .. t : FetchesParam(j)
  <2>1. PICK j \in 1 .. t : FetchesParam(j)
    BY <1>7
  <2>2. PICK x \in DOMAIN sig : x = OnStack[j]
    BY <1>1, <1>3, OnStackFacts
  <2>3. /\ pc = StackParamAt(j) /\ stack' = stack
        /\ regs' = [regs EXCEPT ![Via(j).name] = Part(Word(stack, rbp + AboveFrame(j)), sig[x])]
    BY <2>1, <2>2 DEF FetchesParam, Loads
  <2>4. pc \in 2 .. BodyAt - 1 /\ pc > 2 + Ints + Doubles
    BY <2>3, <1>3, <1>4 DEF StackParamAt
  <2>5. ASSUME Depth >= 2
        PROVE  Arrived(pc + 1, regs', stack', rbp, Depth - 1, calls[Depth - 1])
    <3>1. /\ StackHolds(stack, rbp + 16, Depth - 1, calls[Depth - 1])
          /\ Arrived(pc, regs, stack, rbp, Depth - 1, calls[Depth - 1])
      BY <2>4, <2>5, IncomingIs
    <3>2. Word(stack, rbp + AboveFrame(j)) = Given(Depth - 1, calls[Depth - 1], x)
      <4>1. rbp + AboveFrame(j) = rbp + 16 + 8 * (j - 1)
        BY <1>1 DEF AboveFrame
      <4> QED BY <4>1, <3>1, <2>2, <1>3 DEF StackHolds
    <3>3. regs'[Via(j).name] = Given(Depth - 1, calls[Depth - 1], x)
      <4>1. Via(j).name \in DOMAIN regs
        <5>1. DOMAIN regs = Registers
          BY StandingTyped DEF TypedRegs
        <5>2. Via(j).name \in {"R10", "XMM15"}
          BY DEF Via, scratchReg1, Reg
        <5> QED BY <5>1, <5>2 DEF Registers
      <4>2. regs'[Via(j).name] = Part(Word(stack, rbp + AboveFrame(j)), sig[x])
        BY <4>1, <2>3
      <4> QED BY <4>2, <3>2, PartGiven
    <3>4. ASSUME NEW h \in 1 .. t, pc + 1 = StackParamAt(h) + 1 PROVE h = j
      <4>1. StackParamAt(h) = 2 + i + e + 2 * h - 1 /\ StackParamAt(j) = 2 + i + e + 2 * j - 1
        BY <1>3 DEF StackParamAt
      <4> QED BY <4>1, <3>4, <2>3
    <3>5. \A y : Moved(pc + 1, y) => Moved(pc, y)
      BY <2>3, <1>1, <1>3, AddsStack
    <3>6. \A y \in DOMAIN sig : Moved(pc + 1, y) =>
            Word(stack', ParamSlot(rbp, y)) = Given(Depth - 1, calls[Depth - 1], y)
      BY <3>1, <3>5, <2>3 DEF Arrived
    <3>7. \A h \in 1 .. t : pc + 1 = StackParamAt(h) + 1 =>
            regs'[Via(h).name] = Given(Depth - 1, calls[Depth - 1], OnStack[h])
      BY <3>3, <3>4, <2>2
    <3> QED BY <3>6, <3>7, <1>3 DEF Arrived
  <2> QED BY <2>4, <2>5, <1>1, <1>2, ParamStep
<1>8. CASE \E j \in 1 .. t : KeepsParam(j)
  <2>1. PICK j \in 1 .. t : KeepsParam(j)
    BY <1>8
  <2>2. PICK x \in DOMAIN sig : x = OnStack[j]
    BY <1>1, <1>3, OnStackFacts
  <2>3. /\ pc = StackParamAt(j) + 1 /\ regs' = regs
        /\ Stores(ParamSlot(rbp, x), Part(regs[Via(j).name], sig[x]))
    BY <2>1, <2>2 DEF KeepsParam, Stores
  <2>4. pc \in 2 .. BodyAt - 1
    BY <2>3, <1>3, <1>4 DEF StackParamAt
  <2>5. ASSUME Depth >= 2
        PROVE  Arrived(pc + 1, regs', stack', rbp, Depth - 1, calls[Depth - 1])
    <3>1. Arrived(pc, regs, stack, rbp, Depth - 1, calls[Depth - 1])
      BY <2>4, <2>5, IncomingIs
    <3>2. regs[Via(j).name] = Given(Depth - 1, calls[Depth - 1], x)
      BY <3>1, <2>2, <2>3, <1>3 DEF Arrived
    <3>3. Stores(ParamSlot(rbp, x), Given(Depth - 1, calls[Depth - 1], x))
      BY <3>2, <2>3, PartGiven
    <3>4. Adds(pc, x)
      BY <2>2, <2>3, <1>1, <1>3, AddsStack
    <3> QED BY <3>1, <3>3, <3>4, <1>1, Arrives
  <2> QED BY <2>3, <2>4, <2>5, <1>1, <1>2, ParamStep
<1> QED BY <1>3, <1>5, <1>6, <1>7, <1>8

(***************************************************************************)
(* The arguments of a call.                                                *)
(***************************************************************************)
LEMMA OutStep ==
  ASSUME Standing, Carried, Within, pc \in BodyAt + 1 .. CallAt - 1, pc' = pc + 1,
         calls' = calls, Prepared(pc + 1, regs', stack', rbp, Depth, calls[Depth])
  PROVE  CarriedNext
<1>1. sig \in Signature /\ UNCHANGED <<rbp, frames>> /\ Depth' = Depth
  BY DEF Standing, Generated, Within, SameFrame, Depth
<1>2. pc >= BodyAt /\ pc' >= BodyAt /\ pc' \in Nat /\ pc' <= CallAt
  BY <1>1, Places
<1>3. OutgoingAt(pc', regs', stack', rbp', Depth', calls')
  BY <1>1 DEF OutgoingAt
<1>4. DeliveredAt(pc', regs', stack', rbp', Depth', returned')
  BY <1>1, <1>2, Vacuous
<1> QED BY <1>2, <1>3, <1>4, InBody

LEMMA OutgoingIs ==
  ASSUME Carried, pc \in BodyAt + 1 .. CallAt
  PROVE  Prepared(pc, regs, stack, rbp, Depth, calls[Depth])
BY CarriedIs DEF OutgoingAt

LEMMA ArgsStay ==
  ASSUME sig \in Signature, rbp \in Int, NEW d, NEW n, NEW lo \in Int, Quiet(lo),
         lo <= rbp - FrameSize, ArgsHold(stack, rbp, d, n)
  PROVE  ArgsHold(stack', rbp, d, n)
<1> SUFFICES ASSUME NEW i \in DOMAIN sig PROVE Word(stack', ArgSlot(rbp, i)) = Given(d, n, i)
  BY DEF ArgsHold
<1>1. PICK l \in Nat, f \in Nat :
        l = Len(sig) /\ DOMAIN sig = 1 .. l /\ f = FrameSize /\ f >= 8 * (2 * l + 2)
  BY SigFacts, FrameFacts
<1>2. ArgSlot(rbp, i) = rbp - 8 * (l + i)
  BY <1>1 DEF ArgSlot
<1>3. ArgSlot(rbp, i) \in Int /\ ArgSlot(rbp, i) >= lo
  BY <1>1, <1>2
<1> QED BY <1>3 DEF Quiet, ArgsHold

\* The loads of registers come before the pushes.
LEMMA LoadsFirst ==
  ASSUME sig \in Signature
  PROVE  /\ \A j \in 1 .. Ints : /\ IntArgAt(j) \in Nat /\ IntArgAt(j) >= BodyAt + 1
                                 /\ IntArgAt(j) < PushAt(1)
         /\ \A j \in 1 .. Doubles : /\ DoubleArgAt(j) \in Nat /\ DoubleArgAt(j) >= BodyAt + 1
                                    /\ DoubleArgAt(j) < PushAt(1)
         /\ \A j \in 1 .. Ints, h \in 1 .. Doubles : IntArgAt(j) < DoubleArgAt(h)
         /\ \A j, h \in 1 .. Ints :
              IntArgAt(h) < IntArgAt(j) + 1 => IntArgAt(h) < IntArgAt(j) \/ h = j
         /\ \A j, h \in 1 .. Doubles :
              DoubleArgAt(h) < DoubleArgAt(j) + 1 => DoubleArgAt(h) < DoubleArgAt(j) \/ h = j
<1>1. PICK i \in Nat, e \in Nat, w \in {0, 1} : i = Ints /\ e = Doubles /\ w = Pads
  BY Counts
<1>2. PICK body \in Nat : body = BodyAt /\ PushAt(1) = body + w + i + e + 1
  BY <1>1, Order
<1>3. /\ \A j \in 1 .. i : IntArgAt(j) = body + w + j
      /\ \A j \in 1 .. e : DoubleArgAt(j) = body + w + i + j
  BY <1>1, <1>2 DEF IntArgAt, DoubleArgAt
<1>4. /\ \A j \in 1 .. i : /\ IntArgAt(j) \in Nat /\ IntArgAt(j) >= body + 1
                           /\ IntArgAt(j) < PushAt(1)
      /\ \A j \in 1 .. e : /\ DoubleArgAt(j) \in Nat /\ DoubleArgAt(j) >= body + 1
                           /\ DoubleArgAt(j) < PushAt(1)
  BY <1>1, <1>2, <1>3
<1>5. \A j \in 1 .. i, h \in 1 .. e : IntArgAt(j) < DoubleArgAt(h)
  BY <1>1, <1>2, <1>3
<1>6. \A j \in 1 .. i, h \in 1 .. i :
        IntArgAt(h) < IntArgAt(j) + 1 => IntArgAt(h) < IntArgAt(j) \/ h = j
  BY <1>1, <1>2, <1>3
<1>7. \A j \in 1 .. e, h \in 1 .. e :
        DoubleArgAt(h) < DoubleArgAt(j) + 1 => DoubleArgAt(h) < DoubleArgAt(j) \/ h = j
  BY <1>1, <1>2, <1>3
<1> QED BY <1>1, <1>2, <1>4, <1>5, <1>6, <1>7

\* Up to the first push, nothing is pushed.
LEMMA NothingPushed ==
  ASSUME sig \in Signature, NEW k \in Nat, k <= PushAt(1)
  PROVE  \A j \in 1 .. Stacked : ~(PushAt(j + 1) <= k) /\ ~(PushAt(j) < k)
<1> SUFFICES ASSUME NEW j \in 1 .. Stacked PROVE ~(PushAt(j + 1) <= k) /\ ~(PushAt(j) < k)
  OBVIOUS
<1>1. /\ PushAt(j) \in Nat /\ PushAt(j + 1) \in Nat
      /\ PushAt(1) <= PushAt(j) /\ PushAt(j) < PushAt(j + 1)
  BY PushRanges
<1>2. PushAt(1) \in Nat
  BY Places
<1> QED BY <1>1, <1>2

LEMMA CarriedPad ==
  ASSUME Standing, Carried, ExecAdjust, Pads = 1, pc = BodyAt + 1
  PROVE  CarriedNext
<1>1. sig \in Signature /\ Within
  BY AdjustWithin DEF Standing, Generated
<1>2. UNCHANGED <<regs, stack, calls>> /\ pc' = pc + 1
  BY DEF ExecAdjust
<1>3. PICK i \in Nat, e \in Nat, body \in Nat, call \in Nat :
        /\ i = Ints /\ e = Doubles /\ body = BodyAt /\ call = CallAt
        /\ PushAt(1) = body + 1 + i + e + 1 /\ PushAt(1) <= call
  BY <1>1, Counts, Order
<1>4. pc \in BodyAt + 1 .. CallAt - 1 /\ pc \in BodyAt + 1 .. CallAt
  BY <1>3
<1>5. Prepared(pc, regs, stack, rbp, Depth, calls[Depth])
  BY <1>4, OutgoingIs
<1>6. \A j \in 1 .. i : ~(IntArgAt(j) < pc + 1)
  BY <1>3 DEF IntArgAt
<1>7. \A j \in 1 .. e : ~(DoubleArgAt(j) < pc + 1)
  BY <1>3 DEF DoubleArgAt
<1>8. \A j \in 1 .. Stacked : ~(PushAt(j + 1) <= pc + 1) /\ ~(PushAt(j) < pc + 1)
  <2>1. pc + 1 \in Nat /\ pc + 1 <= PushAt(1)
    BY <1>3
  <2> QED BY <2>1, <1>1, NothingPushed
<1>9. Prepared(pc + 1, regs', stack', rbp, Depth, calls[Depth])
  BY <1>2, <1>3, <1>5, <1>6, <1>7, <1>8 DEF Prepared
<1> QED BY <1>1, <1>2, <1>4, <1>9, OutStep

LEMMA LoadedRegs ==
  ASSUME Standing, NEW r \in Registers, NEW w, Loads(r, w)
  PROVE  /\ stack' = stack /\ regs'[r] = w
         /\ \A x \in Registers : x # r => regs'[x] = regs[x]
<1>1. DOMAIN regs = Registers
  BY StandingTyped DEF TypedRegs
<1> QED BY <1>1 DEF Loads

\* The registers of the arguments are all different.
LEMMA ArgRegisters ==
  ASSUME sig \in Signature
  PROVE  /\ \A j \in 1 .. Ints : argResigters[j] \in Registers /\ argResigters[j] # "AX"
         /\ \A j \in 1 .. Doubles :
              doubleArgRegisters[j] \in Registers /\ doubleArgRegisters[j] # "AX"
         /\ \A j, h \in 1 .. Ints : argResigters[j] = argResigters[h] => j = h
         /\ \A j, h \in 1 .. Doubles : doubleArgRegisters[j] = doubleArgRegisters[h] => j = h
         /\ \A j \in 1 .. Ints, h \in 1 .. Doubles : argResigters[j] # doubleArgRegisters[h]
<1>1. PICK i \in Nat, e \in Nat, p \in Nat, q \in Nat :
        /\ i = Ints /\ e = Doubles /\ p = Len(argResigters) /\ q = Len(doubleArgRegisters)
        /\ i <= p /\ e <= q
  BY Counts, ClassFacts, RegisterFacts
<1>2. DOMAIN argResigters = 1 .. p /\ DOMAIN doubleArgRegisters = 1 .. q
  BY <1>1, RegistersAssumption, LenProperties
<1>3. \A j \in 1 .. i : j \in 1 .. p
  BY <1>1
<1>4. \A j \in 1 .. e : j \in 1 .. q
  BY <1>1
<1>5. /\ \A j \in 1 .. p : argResigters[j] \in Registers /\ argResigters[j] # "AX"
      /\ \A j \in 1 .. q : doubleArgRegisters[j] \in Registers /\ doubleArgRegisters[j] # "AX"
  BY <1>1, RegisterFacts DEF Scratch
<1>6. /\ \A j, h \in 1 .. p : argResigters[j] = argResigters[h] => j = h
      /\ \A j, h \in 1 .. q : doubleArgRegisters[j] = doubleArgRegisters[h] => j = h
  BY <1>2, RegisterFacts DEF Inj
<1>7. \A j \in 1 .. p, h \in 1 .. q : argResigters[j] # doubleArgRegisters[h]
  <2> SUFFICES ASSUME NEW j \in 1 .. p, NEW h \in 1 .. q
               PROVE  argResigters[j] # doubleArgRegisters[h]
    OBVIOUS
  <2>1. /\ argResigters[j] \in Range(argResigters)
        /\ doubleArgRegisters[h] \in Range(doubleArgRegisters)
    BY <1>2 DEF Range
  <2> QED BY <2>1, RegistersAssumption
<1> QED BY <1>1, <1>3, <1>4, <1>5, <1>6, <1>7

LEMMA CarriedRegArgs ==
  ASSUME Standing, Carried, ExecMov,
         \/ \E j \in 1 .. Ints : LoadsIntArg(j)
         \/ \E j \in 1 .. Doubles : LoadsDoubleArg(j)
  PROVE  CarriedNext
<1>1. sig \in Signature /\ Within
  BY MovWithin DEF Standing, Generated
<1>2. pc' = pc + 1 /\ calls' = calls
  BY DEF ExecMov
<1>3. PICK i \in Nat, e \in Nat, t \in Nat, first \in Nat, call \in Nat :
        /\ i = Ints /\ e = Doubles /\ t = Stacked
        /\ first = PushAt(1) /\ call = CallAt /\ first <= call
  BY <1>1, Counts, Places
<1>4. BodyAt \in Nat
  BY <1>1, Places
<1>5. CASE \E j \in 1 .. i : LoadsIntArg(j)
  <2>1. PICK j \in 1 .. i : LoadsIntArg(j)
    BY <1>5
  <2>2. PICK x \in DOMAIN sig : x = IntRegs[j]
    BY <1>1, <1>3, OnStackFacts
  <2>3. PICK k \in Nat : k = pc /\ k = IntArgAt(j) /\ k >= BodyAt + 1 /\ k < first
    BY <2>1, <1>1, <1>3, LoadsFirst DEF LoadsIntArg
  <2>4. pc \in BodyAt + 1 .. CallAt - 1 /\ pc \in BodyAt + 1 .. CallAt
    BY <2>3, <1>3, <1>4
  <2>5. PICK d, n : d = Depth /\ n = calls[Depth]
    OBVIOUS
  <2>6. Prepared(k, regs, stack, rbp, d, n)
    BY <2>3, <2>4, <2>5, OutgoingIs
  <2>7. Word(stack, ArgSlot(rbp, x)) = Given(d, n, x)
    BY <2>6 DEF Prepared, ArgsHold
  <2>8. Loads(argResigters[j], Given(d, n, x))
    BY <2>1, <2>2, <2>7, PartGiven DEF LoadsIntArg
  <2>9. /\ stack' = stack /\ regs'[argResigters[j]] = Given(d, n, x)
        /\ \A r \in Registers : r # argResigters[j] => regs'[r] = regs[r]
    BY <2>8, <1>1, <1>3, ArgRegisters, LoadedRegs
  <2>10. ASSUME NEW h \in 1 .. i, IntArgAt(h) < k + 1
         PROVE  regs'[argResigters[h]] = Given(d, n, IntRegs[h])
    <3>1. CASE h = j
      BY <3>1, <2>2, <2>9
    <3>2. CASE h # j
      <4>1. IntArgAt(h) < k
        BY <3>2, <2>3, <2>10, <1>1, <1>3, LoadsFirst
      <4>2. regs[argResigters[h]] = Given(d, n, IntRegs[h])
        BY <4>1, <2>6, <1>3 DEF Prepared
      <4>3. argResigters[h] \in Registers /\ argResigters[h] # argResigters[j]
        BY <3>2, <1>1, <1>3, ArgRegisters
      <4> QED BY <4>2, <4>3, <2>9
    <3> QED BY <3>1, <3>2
  <2>11. \A h \in 1 .. e : ~(DoubleArgAt(h) < k + 1)
    <3> SUFFICES ASSUME NEW h \in 1 .. e PROVE ~(DoubleArgAt(h) < k + 1)
      OBVIOUS
    <3>1. DoubleArgAt(h) \in Nat /\ k < DoubleArgAt(h)
      BY <2>3, <1>1, <1>3, LoadsFirst
    <3> QED BY <3>1
  <2>12. \A h \in 1 .. t : ~(PushAt(h + 1) <= k + 1) /\ ~(PushAt(h) < k + 1)
    <3>1. k + 1 \in Nat /\ k + 1 <= PushAt(1)
      BY <2>3, <1>3
    <3> QED BY <3>1, <1>1, <1>3, NothingPushed
  <2>13. ArgsHold(stack', rbp, d, n)
    BY <2>6, <2>9 DEF Prepared
  <2>14. Prepared(k + 1, regs', stack', rbp, d, n)
    BY <2>10, <2>11, <2>12, <2>13, <1>3 DEF Prepared
  <2> QED BY <2>3, <2>4, <2>5, <2>14, <1>1, <1>2, OutStep
<1>6. CASE \E j \in 1 .. e : LoadsDoubleArg(j)
  <2>1. PICK j \in 1 .. e : LoadsDoubleArg(j)
    BY <1>6
  <2>2. PICK x \in DOMAIN sig : x = DoubleRegs[j] /\ sig[x] = "double"
    BY <1>1, <1>3, OnStackFacts, ClassFacts
  <2>3. PICK k \in Nat : k = pc /\ k = DoubleArgAt(j) /\ k >= BodyAt + 1 /\ k < first
    BY <2>1, <1>1, <1>3, LoadsFirst DEF LoadsDoubleArg
  <2>4. pc \in BodyAt + 1 .. CallAt - 1 /\ pc \in BodyAt + 1 .. CallAt
    BY <2>3, <1>3, <1>4
  <2>5. PICK d, n : d = Depth /\ n = calls[Depth]
    OBVIOUS
  <2>6. Prepared(k, regs, stack, rbp, d, n)
    BY <2>3, <2>4, <2>5, OutgoingIs
  <2>7. Word(stack, ArgSlot(rbp, x)) = Given(d, n, x)
    BY <2>6 DEF Prepared, ArgsHold
  <2>8. Loads(doubleArgRegisters[j], Given(d, n, x))
    BY <2>1, <2>2, <2>7, PartGiven DEF LoadsDoubleArg
  <2>9. /\ stack' = stack /\ regs'[doubleArgRegisters[j]] = Given(d, n, x)
        /\ \A r \in Registers : r # doubleArgRegisters[j] => regs'[r] = regs[r]
    BY <2>8, <1>1, <1>3, ArgRegisters, LoadedRegs
  <2>10. ASSUME NEW h \in 1 .. e, DoubleArgAt(h) < k + 1
         PROVE  regs'[doubleArgRegisters[h]] = Given(d, n, DoubleRegs[h])
    <3>1. CASE h = j
      BY <3>1, <2>2, <2>9
    <3>2. CASE h # j
      <4>1. DoubleArgAt(h) < k
        BY <3>2, <2>3, <2>10, <1>1, <1>3, LoadsFirst
      <4>2. regs[doubleArgRegisters[h]] = Given(d, n, DoubleRegs[h])
        BY <4>1, <2>6, <1>3 DEF Prepared
      <4>3. doubleArgRegisters[h] \in Registers /\ doubleArgRegisters[h] # doubleArgRegisters[j]
        BY <3>2, <1>1, <1>3, ArgRegisters
      <4> QED BY <4>2, <4>3, <2>9
    <3> QED BY <3>1, <3>2
  <2>11. ASSUME NEW h \in 1 .. i PROVE regs'[argResigters[h]] = Given(d, n, IntRegs[h])
    <3>1. IntArgAt(h) < k
      BY <2>3, <1>1, <1>3, LoadsFirst
    <3>2. regs[argResigters[h]] = Given(d, n, IntRegs[h])
      BY <3>1, <2>6, <1>3 DEF Prepared
    <3>3. argResigters[h] \in Registers /\ argResigters[h] # doubleArgRegisters[j]
      BY <1>1, <1>3, ArgRegisters
    <3> QED BY <3>2, <3>3, <2>9
  <2>12. \A h \in 1 .. t : ~(PushAt(h + 1) <= k + 1) /\ ~(PushAt(h) < k + 1)
    <3>1. k + 1 \in Nat /\ k + 1 <= PushAt(1)
      BY <2>3, <1>3
    <3> QED BY <3>1, <1>1, <1>3, NothingPushed
  <2>13. ArgsHold(stack', rbp, d, n)
    BY <2>6, <2>9 DEF Prepared
  <2>14. Prepared(k + 1, regs', stack', rbp, d, n)
    BY <2>10, <2>11, <2>12, <2>13, <1>3 DEF Prepared
  <2> QED BY <2>3, <2>4, <2>5, <2>14, <1>1, <1>2, OutStep
<1> QED BY <1>3, <1>5, <1>6

\* By the first push all the registers are loaded, and stay so while no
\* register of an argument changes.
LEMMA RegsReady ==
  ASSUME sig \in Signature, NEW k \in Nat, PushAt(1) <= k, NEW d, NEW n, NEW g, NEW m, NEW b,
         Prepared(k, g, m, b, d, n)
  PROVE  RegsHold(g, d, n)
<1>1. PushAt(1) \in Nat
  BY Places
<1>2. /\ \A j \in 1 .. Ints : IntArgAt(j) < k
      /\ \A j \in 1 .. Doubles : DoubleArgAt(j) < k
  BY <1>1, LoadsFirst
<1> QED BY <1>2 DEF Prepared, RegsHold

\* Where push j is among the others.
LEMMA OtherPushes ==
  ASSUME sig \in Signature, NEW j \in 1 .. Stacked, NEW h \in 1 .. Stacked
  PROVE  /\ PushAt(j) \in Nat /\ PushAt(j + 1) \in Nat /\ PushAt(h) \in Nat /\ PushAt(h + 1) \in Nat
         /\ PushAt(1) <= PushAt(j) /\ PushAt(j) < PushAt(j + 1) /\ PushAt(j + 1) <= CallAt
         /\ PushAt(h) < PushAt(h + 1)
         /\ h < j => PushAt(h + 1) <= PushAt(j)
         /\ h > j => PushAt(j + 1) <= PushAt(h)
         /\ h \in Nat /\ j \in Nat
BY PushRanges, Counts

LEMMA CarriedLoadsPushed ==
  ASSUME Standing, Carried, ExecMov, NEW j \in 1 .. Stacked, LoadsPushed(j)
  PROVE  CarriedNext
<1>1. sig \in Signature /\ Within
  BY MovWithin DEF Standing, Generated
<1>2. pc' = pc + 1 /\ calls' = calls
  BY DEF ExecMov
<1>3. PICK k \in Nat, next \in Nat, first \in Nat, call \in Nat :
        /\ k = pc /\ k = PushAt(j) /\ next = PushAt(j + 1) /\ next = k + 2
        /\ first = PushAt(1) /\ first <= k /\ call = CallAt /\ next <= call
        /\ first > BodyAt /\ BodyAt \in Nat
  <2>1. pc = PushAt(j) /\ PushAt(j + 1) = PushAt(j) + 2
    BY <1>1, PushAtFacts DEF LoadsPushed
  <2>2. /\ PushAt(j) \in Nat /\ PushAt(j + 1) \in Nat /\ PushAt(1) <= PushAt(j)
        /\ PushAt(j + 1) <= CallAt
    BY <1>1, PushRanges
  <2>3. PushAt(1) \in Nat /\ CallAt \in Nat /\ PushAt(1) > BodyAt /\ BodyAt \in Nat
    BY <1>1, Places
  <2> QED BY <2>1, <2>2, <2>3
<1>4. pc \in BodyAt + 1 .. CallAt - 1 /\ pc \in BodyAt + 1 .. CallAt
  BY <1>3
<1>5. PICK d, n : d = Depth /\ n = calls[Depth]
  OBVIOUS
<1>6. Prepared(k, regs, stack, rbp, d, n)
  BY <1>3, <1>4, <1>5, OutgoingIs
<1>7. PICK x \in DOMAIN sig : x = Pushed(j) /\ sig[x] = "longword"
  BY <1>1, PushedFacts DEF LoadsPushed
<1>8. Word(stack, ArgSlot(rbp, x)) = Given(d, n, x)
  BY <1>6 DEF Prepared, ArgsHold
<1>9. Loads("AX", Given(d, n, x))
  BY <1>7, <1>8, PartGiven DEF LoadsPushed
<1>10. /\ stack' = stack /\ regs'["AX"] = Given(d, n, x)
       /\ \A r \in Registers : r # "AX" => regs'[r] = regs[r]
  <2>1. "AX" \in Registers
    BY DEF Registers
  <2> QED BY <2>1, <1>9, LoadedRegs
<1>11. RegsHold(regs, d, n)
  BY <1>1, <1>3, <1>6, RegsReady
<1>12. RegsHold(regs', d, n)
  BY <1>1, <1>10, <1>11, ArgRegisters DEF RegsHold
<1>13. ASSUME NEW h \in 1 .. Stacked, PushAt(h + 1) <= k + 1
       PROVE  Word(stack', PushSlot(rbp, h)) = Given(d, n, Pushed(h))
  <2>1. PushAt(h + 1) <= k
    <3>1. h < j
      BY <1>1, <1>3, <1>13, OtherPushes
    <3> QED BY <3>1, <1>1, <1>3, OtherPushes
  <2> QED BY <2>1, <1>6, <1>10 DEF Prepared
<1>14. ASSUME NEW h \in 1 .. Stacked, PushAt(h) < k + 1, k + 1 < PushAt(h + 1)
       PROVE  regs'["AX"] = Given(d, n, Pushed(h))
  <2>1. h = j
    BY <1>1, <1>3, <1>14, OtherPushes
  <2> QED BY <2>1, <1>7, <1>10
<1>15. ArgsHold(stack', rbp, d, n)
  BY <1>6, <1>10 DEF Prepared
<1>16. Prepared(k + 1, regs', stack', rbp, d, n)
  BY <1>12, <1>13, <1>14, <1>15 DEF Prepared, RegsHold
<1> QED BY <1>1, <1>2, <1>3, <1>4, <1>5, <1>16, OutStep

LEMMA CarriedPush ==
  ASSUME Standing, Carried, ExecPush
  PROVE  CarriedNext
<1>1. sig \in Signature /\ Within
  BY PushWithin DEF Standing, Generated
<1>2. pc' = pc + 1 /\ calls' = calls /\ regs' = regs
  BY DEF ExecPush
<1>3. PICK j \in 1 .. Stacked : PushesLoaded(j) \/ PushesArg(j)
  BY Pushes
<1>4. PICK k \in Nat, next \in Nat, first \in Nat, call \in Nat :
        /\ k = pc /\ PushAt(j) <= k /\ next = PushAt(j + 1) /\ next = k + 1
        /\ first = PushAt(1) /\ first <= k /\ call = CallAt /\ next <= call
        /\ first > BodyAt /\ BodyAt \in Nat
  <2>1. /\ PushAt(j) \in Nat /\ PushAt(j + 1) \in Nat /\ PushAt(1) <= PushAt(j)
        /\ PushAt(j + 1) <= CallAt
    BY <1>1, PushRanges
  <2>2. PushAt(1) \in Nat /\ CallAt \in Nat /\ PushAt(1) > BodyAt /\ BodyAt \in Nat
    BY <1>1, Places
  <2>3. (pc = PushAt(j) \/ pc = PushAt(j) + 1) /\ PushAt(j + 1) = pc + 1
    BY <1>3 DEF PushesLoaded, PushesArg
  <2>4. pc \in Nat /\ PushAt(j) <= pc /\ PushAt(1) <= pc
    BY <2>1, <2>2, <2>3
  <2> QED BY <2>1, <2>2, <2>3, <2>4
<1>5. pc \in BodyAt + 1 .. CallAt - 1 /\ pc \in BodyAt + 1 .. CallAt
  BY <1>4
<1>6. PICK d, n : d = Depth /\ n = calls[Depth]
  OBVIOUS
<1>7. Prepared(k, regs, stack, rbp, d, n)
  BY <1>4, <1>5, <1>6, OutgoingIs
<1>8. PICK x \in DOMAIN sig : x = Pushed(j)
  BY <1>1, PushedFacts
<1>9. stack' = Write(stack, rsp - 8, Given(d, n, x))
  <2>1. CASE PushesLoaded(j)
    <3>1. PushAt(j) < k /\ k < PushAt(j + 1)
      <4>1. pc = PushAt(j) + 1 /\ PushAt(j) \in Nat
        BY <2>1, <1>1, PushRanges DEF PushesLoaded
      <4> QED BY <4>1, <1>4
    <3>2. regs["AX"] = Given(d, n, x)
      BY <3>1, <1>7, <1>8 DEF Prepared
    <3> QED BY <2>1, <3>2 DEF PushesLoaded
  <2>2. CASE PushesArg(j)
    <3>1. Word(stack, ArgSlot(rbp, x)) = Given(d, n, x)
      BY <1>7 DEF Prepared, ArgsHold
    <3> QED BY <2>2, <3>1, <1>8 DEF PushesArg
  <2> QED BY <2>1, <2>2, <1>3
<1>10. PICK f \in Nat, p \in Nat : f = FrameSize /\ p = Padding
  BY <1>1, FrameFacts, PaddingFacts
<1>11. rbp \in Int /\ rsp \in Int /\ rsp = rbp - f - p - 8 * (j - 1)
  <2>1. rbp \in Int /\ rsp \in Int
    BY Where
  <2>2. Below(pc, rsp, rbp)
    BY <1>1, StandingTyped DEF Within, SameFrame
  <2>3. k \in PushAt(j) .. PushAt(j + 1) - 1
    BY <1>1, <1>4, PushRanges
  <2> QED BY <2>1, <2>2, <2>3, <1>4, <1>10 DEF Below
<1>12. \A h \in 1 .. Stacked : PushSlot(rbp, h) = rbp - f - p - 8 * h
  BY <1>10 DEF PushSlot
<1>13. rsp - 8 = PushSlot(rbp, j)
  BY <1>1, <1>11, <1>12, Counts
<1>14. ASSUME NEW h \in 1 .. Stacked, PushAt(h + 1) <= k + 1
       PROVE  Word(stack', PushSlot(rbp, h)) = Given(d, n, Pushed(h))
  <2>1. CASE h = j
    BY <2>1, <1>8, <1>9, <1>13, WordWritten
  <2>2. CASE h # j
    <3>1. h < j
      BY <2>2, <1>1, <1>4, <1>14, OtherPushes
    <3>2. PushAt(h + 1) <= k
      BY <3>1, <1>1, <1>4, OtherPushes
    <3>3. Word(stack, PushSlot(rbp, h)) = Given(d, n, Pushed(h))
      BY <3>2, <1>7 DEF Prepared
    <3>4. PushSlot(rbp, h) # rsp - 8
      <4>1. h \in Nat /\ j \in Nat
        BY <1>1, Counts
      <4>2. rsp - 8 = rbp - f - p - 8 * j /\ PushSlot(rbp, h) = rbp - f - p - 8 * h
        BY <1>12, <1>13
      <4> QED BY <4>1, <4>2, <2>2, <1>11
    <3> QED BY <3>3, <3>4, <1>9, WordWritten
  <2> QED BY <2>1, <2>2
<1>15. ASSUME NEW h \in 1 .. Stacked, PushAt(h) < k + 1, k + 1 < PushAt(h + 1)
       PROVE  FALSE
  BY <1>1, <1>4, <1>15, OtherPushes
<1>16. RegsHold(regs, d, n)
  BY <1>1, <1>4, <1>7, RegsReady
<1>17. ArgsHold(stack', rbp, d, n)
  <2>1. rsp <= rbp - FrameSize
    <3>1. pc >= BodyAt /\ pc > 1
      BY <1>1, <1>4, Places
    <3> QED BY <3>1, Where
  <2>2. Quiet(rsp)
    BY <1>9, <1>11, QuietWrite
  <2>3. ArgsHold(stack, rbp, d, n)
    BY <1>7 DEF Prepared
  <2> QED BY <2>1, <2>2, <2>3, <1>1, <1>11, ArgsStay
<1>18. Prepared(k + 1, regs', stack', rbp, d, n)
  BY <1>2, <1>14, <1>15, <1>16, <1>17 DEF Prepared, RegsHold
<1> QED BY <1>1, <1>2, <1>4, <1>5, <1>6, <1>18, OutStep

(***************************************************************************)
(* The result, and all steps together.                                     *)
(***************************************************************************)
LEMMA CarriedResult ==
  ASSUME Standing, Carried, ExecMov, TakesResult \/ LoadsReturn \/ LoadsZero
  PROVE  CarriedNext
<1>1. sig \in Signature /\ Within /\ rbp' = rbp /\ Depth' = Depth
  BY MovWithin DEF Standing, Generated, Within, SameFrame, Depth
<1>2. pc' = pc + 1 /\ returned' = returned
  BY DEF ExecMov
<1>3. pc = TakeAt \/ pc = TakeAt + 2 \/ pc = TakeAt + 4
  BY DEF TakesResult, LoadsReturn, LoadsZero
<1>4. pc >= BodyAt /\ pc' >= BodyAt /\ pc' \in Nat /\ pc' > CallAt
  BY <1>1, <1>2, <1>3, Places
<1>5. OutgoingAt(pc', regs', stack', rbp', Depth', calls')
  BY <1>1, <1>4, Vacuous
<1>6. DeliveredAt(pc', regs', stack', rbp', Depth', returned')
  <2>1. CASE TakesResult
    <3>1. pc = TakeAt /\ pc \in CallAt + 1 .. TakeAt
      BY <2>1, <1>1, Places DEF TakesResult
    <3>2. Known(returned) => regs[ReturnRegister(ret).name] = Yielded(Depth + 1, returned)
      BY <3>1, CarriedIs DEF DeliveredAt
    <3>3. Known(returned) => Word(stack', ResultSlot(rbp)) = Yielded(Depth + 1, returned)
      <4> SUFFICES ASSUME Known(returned)
                   PROVE  Word(stack', ResultSlot(rbp)) = Yielded(Depth + 1, returned)
        OBVIOUS
      <4>1. stack' = Write(stack, ResultSlot(rbp), Yielded(Depth + 1, returned))
        BY <2>1, <3>2, PartYielded DEF TakesResult, Stores
      <4> QED BY <4>1, WordWritten
    <3>4. /\ TakeAt + 1 \notin CallAt + 1 .. TakeAt /\ TakeAt + 1 # TakeAt + 2
          /\ TakeAt + 1 # TakeAt + 3 /\ TakeAt + 1 # TakeAt + 4 /\ TakeAt + 1 # EndAt
      BY <1>1, Places
    <3> QED BY <3>1, <3>3, <3>4, <1>1, <1>2 DEF DeliveredAt
  <2>2. CASE LoadsReturn
    <3>1. pc = TakeAt + 2
      BY <2>2 DEF LoadsReturn
    <3>2. Known(returned) => Word(stack, ReturnSlot(rbp)) = Yielded(Depth, returned)
      BY <3>1, <1>1, CarriedIs, Places DEF DeliveredAt
    <3>3. Known(returned) => regs'[ReturnRegister(ret).name] = Yielded(Depth, returned)
      <4> SUFFICES ASSUME Known(returned)
                   PROVE  regs'[ReturnRegister(ret).name] = Yielded(Depth, returned)
        OBVIOUS
      <4>1. Loads(ReturnRegister(ret).name, Yielded(Depth, returned))
        BY <2>2, <3>2, PartYielded DEF LoadsReturn
      <4> QED BY <4>1, ReturnRegisterFacts, LoadedRegs
    <3>4. /\ pc' = TakeAt + 3 /\ TakeAt + 3 \notin CallAt + 1 .. TakeAt
          /\ TakeAt + 3 # TakeAt + 1 /\ TakeAt + 3 # TakeAt + 2 /\ TakeAt + 3 # TakeAt + 4
      BY <3>1, <1>1, <1>2, Places
    <3> QED BY <3>3, <3>4, <1>1, <1>2 DEF DeliveredAt
  <2>3. CASE LoadsZero
    <3>1. pc = TakeAt + 4
      BY <2>3 DEF LoadsZero
    <3>2. returned = FALSE
      BY <3>1, CarriedIs DEF DeliveredAt
    <3>3. Known(returned) => regs'[ReturnRegister(ret).name] = Yielded(Depth, returned)
      <4> SUFFICES ASSUME Known(returned)
                   PROVE  regs'[ReturnRegister(ret).name] = Yielded(Depth, returned)
        OBVIOUS
      <4>1. ret = "longword"
        BY <3>2 DEF Known
      <4>2. ReturnRegister(ret).name = "AX"
        BY <4>1 DEF ReturnRegister, AX, Reg
      <4>3. Part(Number(0), "longword") = Yielded(Depth, returned)
        BY <3>2, <4>1 DEF Part, Number, Yielded, Bytes
      <4>4. Loads(ReturnRegister(ret).name, Yielded(Depth, returned))
        BY <2>3, <4>2, <4>3 DEF LoadsZero
      <4> QED BY <4>4, ReturnRegisterFacts, LoadedRegs
    <3>4. /\ pc' = EndAt /\ EndAt \notin CallAt + 1 .. TakeAt /\ EndAt # TakeAt + 1
          /\ EndAt # TakeAt + 2 /\ EndAt # TakeAt + 3 /\ EndAt # TakeAt + 4
      BY <3>1, <1>1, <1>2, Places
    <3> QED BY <3>3, <3>4, <1>1, <1>2 DEF DeliveredAt
  <2> QED BY <2>1, <2>2, <2>3
<1> QED BY <1>1, <1>4, <1>5, <1>6, InBody

LEMMA CarriedMov ==
  ASSUME Standing, Carried, ExecMov
  PROVE  CarriedNext
<1>1. CASE \/ \E j \in 1 .. Ints : TakesIntParam(j)
           \/ \E j \in 1 .. Doubles : TakesDoubleParam(j)
           \/ \E j \in 1 .. Stacked : FetchesParam(j)
           \/ \E j \in 1 .. Stacked : KeepsParam(j)
  BY <1>1, CarriedParams
<1>2. CASE \/ \E j \in 1 .. Ints : LoadsIntArg(j)
           \/ \E j \in 1 .. Doubles : LoadsDoubleArg(j)
  BY <1>2, CarriedRegArgs
<1>3. CASE \E j \in 1 .. Stacked : LoadsPushed(j)
  <2>1. PICK j \in 1 .. Stacked : LoadsPushed(j)
    BY <1>3
  <2> QED BY <2>1, CarriedLoadsPushed
<1>4. CASE TakesResult \/ LoadsReturn \/ LoadsZero
  BY <1>4, CarriedResult
<1> QED BY <1>1, <1>2, <1>3, <1>4, Movs

LEMMA CarriedAdjust ==
  ASSUME Standing, Carried, ExecAdjust
  PROVE  CarriedNext
<1>1. sig \in Signature /\ Within /\ rbp' = rbp /\ Depth' = Depth
  BY AdjustWithin DEF Standing, Generated, Within, SameFrame, Depth
<1>2. UNCHANGED <<regs, stack, calls, returned>> /\ pc' = pc + 1
  BY DEF ExecAdjust
<1>3. CASE pc = 2
  <2>1. pc \in 2 .. BodyAt - 1
    BY <1>1, <1>3, Places
  <2>2. Arrived(pc + 1, regs', stack', rbp, Depth - 1, calls[Depth - 1])
    <3>1. pc + 1 \in 2 .. 3
      BY <1>3
    <3> QED BY <3>1, <1>1, NothingArrived
  <2> QED BY <2>1, <2>2, <1>1, <1>2, ParamStep
<1>4. CASE Pads = 1 /\ pc = BodyAt + 1
  BY <1>4, CarriedPad
<1>5. CASE Removes = 1 /\ pc = CallAt + 1
  <2>1. pc >= BodyAt /\ pc' >= BodyAt /\ pc' \in Nat /\ pc' > CallAt
    BY <1>1, <1>2, <1>5, Places
  <2>2. TakeAt = CallAt + 2 /\ CallAt \in Nat /\ EndAt = TakeAt + 5
    BY <1>1, <1>5, Order
  <2>3. OutgoingAt(pc', regs', stack', rbp', Depth', calls')
    BY <2>1, <1>1, Vacuous
  <2>4. DeliveredAt(pc', regs', stack', rbp', Depth', returned')
    <3>1. Known(returned) => regs[ReturnRegister(ret).name] = Yielded(Depth + 1, returned)
      BY <2>2, <1>5, CarriedIs DEF DeliveredAt
    <3>2. /\ pc' = TakeAt /\ TakeAt # TakeAt + 1 /\ TakeAt # TakeAt + 2
          /\ TakeAt # TakeAt + 3 /\ TakeAt # TakeAt + 4 /\ TakeAt # EndAt
      BY <2>2, <1>2, <1>5
    <3> QED BY <3>1, <3>2, <1>1, <1>2 DEF DeliveredAt
  <2> QED BY <2>1, <2>3, <2>4, <1>1, InBody
<1> QED BY <1>3, <1>4, <1>5, AdjustIs

LEMMA CarriedStays ==
  ASSUME Carried, UNCHANGED vars
  PROVE  CarriedNext
<1>1. UNCHANGED <<pc, regs, rsp, rbp, stack, frames, calls, returned>> /\ Depth' = Depth
  BY DEF vars, Depth
<1> QED BY <1>1, CarriedIs DEF CarriedNext

LEMMA CarriedInit ==
  Init => Carried
<1> SUFFICES ASSUME Init PROVE Carried
  OBVIOUS
<1>1. sig \in Signature /\ pc = 1 /\ frames = <<>> /\ Depth = 0
  BY DEF Init, Depth
<1>2. KeptAt(pc, frames, calls, stack)
  BY <1>1 DEF KeptAt
<1>3. IncomingAt(pc, regs, stack, rsp, rbp, Depth, calls)
  BY <1>1 DEF IncomingAt
<1>4. /\ OutgoingAt(pc, regs, stack, rbp, Depth, calls)
      /\ DeliveredAt(pc, regs, stack, rbp, Depth, returned)
  <2>1. pc \in Nat /\ pc <= BodyAt /\ pc <= CallAt
    BY <1>1, Places
  <2> QED BY <2>1, <1>1, Vacuous
<1> QED BY <1>2, <1>3, <1>4 DEF Carried

LEMMA CarriedStep ==
  ASSUME Standing, Carried, [Next]_vars
  PROVE  Carried'
<1>1. CarriedNext
  BY CarriedEnter, CarriedReturn, CarriedMov, CarriedPush, CarriedAdjust, CarriedCall,
     CarriedWorkThenReturn, CarriedWorkThenFallOff, CarriedWorkThenCall, CarriedAgain,
     CarriedStays DEF Next, Stopped
<1>2. UNCHANGED <<sig, ret, code>>
  BY DEF Next, vars, printFunctionPrologueToASMFile, printFunctionEpilogueToASMFile, ExecMov,
         ExecPush, ExecAdjust, ExecCall, WorkThenReturn, WorkThenFallOff, WorkThenCall, Again,
         Stopped
<1> QED BY <1>1, <1>2, SameCarried DEF CarriedNext

\* Every word on the way from a caller's temporaries to its callee's parameters,
\* and of a result on the way back, is the right one, in every state.
THEOREM CarriedAlways ==
  Spec => []Carried
<1>1. Init => Carried
  BY CarriedInit
<1>2. Standing /\ Carried /\ [Next]_vars => Carried'
  BY CarriedStep
<1> QED BY <1>1, <1>2, StandingAlways, PTL DEF Spec

\* Every activation keeps the arguments its caller passed.
THEOREM ParamsAlwaysKept ==
  Spec => []ParamsKept
<1>1. Standing /\ Carried => ParamsKept
  <2> SUFFICES ASSUME Standing, Carried, NEW d \in 2 .. Depth, d < Depth \/ pc >= WorkAt,
                      NEW i \in DOMAIN sig
               PROVE  Part(Word(stack, frames[d] + Param(i).offset), sig[i]) =
                        [val |-> Passed(d - 1, calls[d - 1], i), width |-> Bytes(sig[i])]
    BY DEF ParamsKept
  <2>1. Generated /\ sig \in Signature
    BY DEF Standing, Generated
  <2>2. WorkAt = BodyAt
    BY <2>1, LookedUp
  <2>3. ParamsHold(stack, frames[d], d - 1, calls[d - 1])
    BY <2>2, CarriedIs DEF KeptAt, Depth
  <2>4. frames[d] + Param(i).offset = ParamSlot(frames[d], i)
    <3>1. frames[d] \in Int
      <4>1. d \in 1 .. Depth
        BY Where
      <4> QED BY <4>1, Where
    <3> QED BY <3>1, <2>1, Slots
  <2>5. Word(stack, frames[d] + Param(i).offset) = Given(d - 1, calls[d - 1], i)
    BY <2>3, <2>4 DEF ParamsHold
  <2> QED BY <2>5, PartGiven DEF Given
<1> QED BY <1>1, StandingAlways, CarriedAlways, PTL

\* The value a call evaluates to is the one its callee returned, and 0 when an
\* int function got to its end without a return.
THEOREM ResultsAlwaysDelivered ==
  Spec => []ResultDelivered
<1>1. Standing /\ Carried => ResultDelivered
  <2> SUFFICES ASSUME Standing, Carried, At("again"), Known(returned)
               PROVE  Part(Word(stack, rbp + Result.offset), ret) =
                        Yielded(Depth + 1, returned)
    BY DEF ResultDelivered, Known, Yielded
  <2>1. pc = TakeAt + 1 /\ sig \in Signature /\ rbp \in Int
    BY RunsAt, OpAt, Where
  <2>2. Word(stack, ResultSlot(rbp)) = Yielded(Depth + 1, returned)
    BY <2>1, CarriedIs DEF DeliveredAt
  <2>3. rbp + Result.offset = ResultSlot(rbp)
    BY <2>1, Slots
  <2> QED BY <2>2, <2>3, PartYielded
<1> QED BY <1>1, StandingAlways, CarriedAlways, PTL

================================================================================
