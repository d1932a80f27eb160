----------------------------- MODULE MCLowering -----------------------------
(***************************************************************************)
(* Lowering on families of trees.  A tree is built for a place, a tuple of *)
(* numbers, which makes the calls in it different from each other.         *)
(***************************************************************************)
EXTENDS Lowering

Exp(p) == [kind |-> "expression", exp |-> Call(p)]
Return(p) == [kind |-> "return", exp |-> Call(p)]
Break == [kind |-> "break", identifier |-> Unlabeled]
Continue == [kind |-> "continue", identifier |-> Unlabeled]
Null == [kind |-> "null"]

If(c, t, e) == [kind |-> "if", condition |-> c, then |-> t, otherwise |-> e]
While(c, b) == [kind |-> "while", condition |-> c, body |-> b, identifier |-> NoLabel]
DoWhile(c, b) == [kind |-> "do_while", condition |-> c, body |-> b, identifier |-> NoLabel]
For(i, c, q, b) ==
  [kind |-> "for", init |-> i, condition |-> c, post |-> q, body |-> b,
   identifier |-> NoLabel]
Compound(s) == [kind |-> "compound", items |-> s]
Case(v, s, brk) == [matchVal |-> v, body |-> s, hasBreak |-> brk]
Switch(e, cases, d) == [kind |-> "switch", exp |-> e, cases |-> cases, defaultCase |-> d]

Simple(p) == {Exp(p), Break, Continue, Return(p)}

Loops(p, B) ==
  UNION {{While(Call(p \o <<0>>), b), DoWhile(Call(p \o <<0>>), b),
          For(Call(p \o <<0>>), Call(p \o <<8>>), Call(p \o <<9>>), b),
          For(Absent, Call(p \o <<8>>), Absent, b),
          For(Absent, Absent, Call(p \o <<9>>), b)} : b \in B}

Ifs(p, T, E) ==
  {If(Call(p \o <<0>>), t, e) : t \in T, e \in E}

Pairs(S, T) == {Compound(<<s, t>>) : s \in S, t \in T}

\* One or two cases, with and without break and default.
Switches(p, B) ==
  {Switch(Call(p \o <<0>>), <<Case(1, b, brk)>>, d) :
     b \in B, brk \in BOOLEAN, d \in {Absent, Exp(p \o <<3>>)}}
  \cup {Switch(Call(p \o <<0>>), <<Case(1, Exp(p \o <<1>>), b1), Case(0, b, b2)>>, d) :
     b \in B, b1 \in BOOLEAN, b2 \in BOOLEAN, d \in {Absent, Exp(p \o <<3>>)}}

Simples(p) == Simple(p) \cup {Null}

Inner(p) ==
  Simple(p) \cup Loops(p, Simple(p \o <<1>>))
  \cup Ifs(p, Simple(p \o <<1>>), Simple(p \o <<2>>) \cup {Absent})
  \cup Switches(p, {Exp(p \o <<2>>), Break})

Statements ==
  Loops(<<>>, Inner(<<1>>) \cup Pairs(Inner(<<1>>), {Exp(<<2>>), Continue}))
  \cup Ifs(<<>>, Inner(<<1>>), {Absent, Exp(<<2>>)})
  \cup Pairs(Inner(<<1>>), Inner(<<2>>))
  \cup Switches(<<>>, Inner(<<2>>))

\* Expressions two operators deep, returned or tested.
Flat(p) ==
  {Call(p)}
  \cup {[kind |-> k, left |-> Call(p \o <<1>>), right |-> Call(p \o <<2>>)] : k \in {"and", "or"}}
  \cup {[kind |-> "conditional", condition |-> Call(p \o <<1>>),
         then |-> Call(p \o <<2>>), otherwise |-> Call(p \o <<3>>)]}

Nested(p) ==
  {[kind |-> k, left |-> l, right |-> r] :
     k \in {"and", "or"}, l \in Flat(p \o <<1>>), r \in Flat(p \o <<2>>)}
  \cup {[kind |-> "conditional", condition |-> c, then |-> t, otherwise |-> Call(p \o <<3>>)] :
          c \in Flat(p \o <<1>>), t \in Flat(p \o <<2>>)}

Expressions ==
  {[kind |-> "return", exp |-> e] : e \in Nested(<<>>)}
  \cup {While(e, Exp(<<9>>)) : e \in Nested(<<>>)}
  \cup {If(e, Exp(<<9>>), Exp(<<8>>)) : e \in Nested(<<>>)}

MCProgram == Statements \cup Expressions

=============================================================================
