------------------------ MODULE MCCallingConvention ------------------------
(* CallingConvention with two integer registers and one for doubles. *)
EXTENDS CallingConvention

MCIntRegisters == <<"DI", "SI">>
MCDoubleRegisters == <<"XMM0">>

=============================================================================
