--------------------------- MODULE FrameAllocator ---------------------------
(***************************************************************************)
(* What a function's stack frame promises, whatever algorithm lays it out: *)
(* every pseudo-register the function mentions owns a byte range below the *)
(* frame pointer, no two ranges meet, every range starts at an address its *)
(* type may start at, and the frame that the prologue finally reserves     *)
(* covers all of them and keeps the stack pointer on a 16-byte boundary.   *)
(*                                                                         *)
(* StackFrame, the model of ASMInstructionFix.c, implements this module.   *)
(***************************************************************************)
EXTENDS Integers

CONSTANT Pseudo      \* the pseudo-registers of one function

VARIABLES
  size,        \* the bytes each pseudo-register needs; never changes
  alignment,   \* the boundary its first byte has to lie on; never changes
  slots,       \* the offsets handed out, a partial function on Pseudo
  frame        \* the bytes reserved, or Open while code is still rewritten

vars == <<size, alignment, slots, frame>>

Open == -1

Init ==
  /\ size \in [Pseudo -> Nat \ {0}]
  /\ alignment \in [Pseudo -> Nat \ {0}]
  /\ slots = [p \in {} |-> 0]
  /\ frame = Open

\* p gets some range that lies below the frame pointer, where its type may lie
\* and where nobody else's range does; all earlier slots stay.
PlaceSlot(p) ==
  /\ frame = Open
  /\ p \notin DOMAIN slots
  /\ DOMAIN slots' = DOMAIN slots \cup {p}
  /\ slots'[p] \in Int
  /\ slots'[p] + size[p] <= 0
  /\ slots'[p] % alignment[p] = 0
  /\ \A q \in DOMAIN slots :
       /\ slots'[q] = slots[q]
       /\ \/ slots'[p] + size[p] <= slots[q]
          \/ slots[q] + size[q] <= slots'[p]
  /\ UNCHANGED <<size, alignment, frame>>

\* The frame is closed: it holds every slot.
Reserve ==
  /\ frame = Open
  /\ frame' \in Nat
  /\ frame' % 16 = 0
  /\ \A p \in DOMAIN slots : -frame' <= slots[p]
  /\ UNCHANGED <<size, alignment, slots>>

Next == Reserve \/ \E p \in Pseudo : PlaceSlot(p)

Spec == Init /\ [][Next]_vars

=============================================================================
