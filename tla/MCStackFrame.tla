---------------------------- MODULE MCStackFrame ----------------------------
(* StackFrame on three names over every assignment of seven types, or none,*)
(* to them.                                                                *)
EXTENDS StackFrame, TLC

\* Small and large arrays, arrays of arrays (whose slot alignment is the size
\* of an inner array), and sizes that are no multiple of 8 or 16.
MCCType ==
  {[kind |-> "int"], [kind |-> "long"], [kind |-> "double"],
   [kind |-> "array", scalar |-> "int", inner |-> 1, count |-> 1],
   [kind |-> "array", scalar |-> "int", inner |-> 3, count |-> 1],
   [kind |-> "array", scalar |-> "uint", inner |-> 1, count |-> 5],
   [kind |-> "array", scalar |-> "double", inner |-> 1, count |-> 3]}

Names == Permutations(Pseudo)

=============================================================================
