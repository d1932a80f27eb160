------------------------------- MODULE MCDriver -------------------------------
(***************************************************************************)
(* Command lines over three sources, two of which share their stem.        *)
(***************************************************************************)
EXTENDS Driver, TLC

MCPath == {"x.c", "x.1.c", "y.c"}

MCStem ==
  "x.c" :> "x" @@ "x.1.c" :> "x" @@ "y.c" :> "y" @@ "y" :> "y" @@ "-o" :> "-o" @@
  "prog" :> "prog"

MCArguments ==
  {<<"x.c">>, <<"x.c", "y.c">>, <<"y.c", "-c", "x.c">>, <<"x.c", "x.1.c">>,
   <<"-o", "prog", "x.c", "-lm", "y.c">>, <<"--lex", "x.c", "-o", "prog">>,
   <<"-o", "prog", "prog", "x.c">>, <<"x.c", "prog">>, <<"x.c", "-o">>,
   <<"-o", "y", "x.c", "-o", "prog">>, <<"-o", "x.c", "y.c">>, <<"-c">>, <<"-lm">>}
==============================================================================
