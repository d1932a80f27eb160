---------------------------- MODULE SequenceLemmas ----------------------------
(***************************************************************************)
(* Facts about FlattenSeq of the community modules, which the driver and   *)
(* the calling convention are written with: where each part lies in the    *)
(* whole, and what one part more does to it.  FlattenSeq is a recursive    *)
(* function; what it computes is proved by induction over the number of    *)
(* parts.                                                                  *)
(***************************************************************************)
EXTENDS Integers, SequencesExt, SequenceTheorems, WellFoundedInduction, TLAPS

\* A set of naturals that has 0, and each successor of what it has, has all.
LEMMA Induction ==
  ASSUME NEW S, 0 \in S, \A n \in Nat : n \in S => n + 1 \in S
  PROVE  \A n \in Nat : n \in S
<1> DEFINE T == Nat \ S
           R == {ss \in Nat \X Nat : ss[1] < ss[2]}
<1>1. SUFFICES ASSUME T # {} PROVE FALSE
  OBVIOUS
<1>2. IsWellFoundedOn(R, Nat)
  BY NatLessThanWellFounded DEF OpToRel
<1>3. \E n \in T : \A m \in T : ~ (<<m, n>> \in R)
  <2>1. T \subseteq Nat
    OBVIOUS
  <2> HIDE DEF T, R
  <2> QED BY <1>1, <1>2, <2>1, WFMin, Zenon
<1>4. PICK n \in T : \A m \in T : ~ (<<m, n>> \in R)
  BY <1>3
<1>5. n \in Nat /\ n # 0 /\ n - 1 \in Nat /\ n - 1 < n
  BY <1>4
<1>6. <<n - 1, n>> \in R
  BY <1>5
<1>7. n - 1 \in S
  <2> HIDE DEF R
  <2> QED BY <1>4, <1>5, <1>6
<1>8. (n - 1) + 1 \in S
  BY <1>5, <1>7
<1> QED BY <1>5, <1>8, <1>4

\* What has come out after each of the first n parts.
Flattening(f, n, seqs) ==
  \A i \in 1 .. n : f[i] = IF i = 1 THEN seqs[i] ELSE f[i - 1] \o seqs[i]

\* For any parts there is such a function.
LEMMA FlatteningExists ==
  ASSUME NEW S, NEW seqs \in Seq(Seq(S))
  PROVE  \E f \in [1 .. Len(seqs) -> Seq(S)] : Flattening(f, Len(seqs), seqs)
<1> DEFINE Holds(n) == \E f \in [1 .. n -> Seq(S)] : Flattening(f, n, seqs)
           G == {n \in Nat : n <= Len(seqs) => Holds(n)}
<1>1. 0 \in G
  <2> DEFINE f == [i \in 1 .. 0 |-> <<>>]
  <2>1. f \in [1 .. 0 -> Seq(S)]
    OBVIOUS
  <2>2. Flattening(f, 0, seqs)
    BY DEF Flattening
  <2> HIDE DEF f
  <2> QED BY <2>1, <2>2
<1>2. ASSUME NEW n \in Nat, n \in G, n + 1 <= Len(seqs)
      PROVE  Holds(n + 1)
  <2>1. Len(seqs) \in Nat
    BY LenProperties
  <2>2. PICK f \in [1 .. n -> Seq(S)] : Flattening(f, n, seqs)
    BY <1>2, <2>1
  <2> DEFINE last == IF n = 0 THEN seqs[n + 1] ELSE f[n] \o seqs[n + 1]
             g == [i \in 1 .. n + 1 |-> IF i = n + 1 THEN last ELSE f[i]]
  <2>3. n + 1 \in DOMAIN seqs /\ seqs[n + 1] \in Seq(S)
    BY <1>2, LenProperties
  <2>4. last \in Seq(S)
    BY <2>2, <2>3, ConcatProperties
  <2>5. g \in [1 .. n + 1 -> Seq(S)]
    <3> HIDE DEF last
    <3> QED BY <2>4, <2>2
  <2>6. ASSUME NEW i \in 1 .. n + 1
        PROVE  g[i] = IF i = 1 THEN seqs[i] ELSE g[i - 1] \o seqs[i]
    <3>1. CASE i = n + 1 /\ n = 0
      BY <3>1
    <3>2. CASE i = n + 1 /\ n # 0
      <4>1. n \in 1 .. n + 1 /\ i - 1 = n /\ i # 1 /\ n # n + 1
        BY <3>2
      <4>2. g[n] = f[n]
        BY <4>1
      <4>3. g[i] = f[n] \o seqs[n + 1]
        BY <3>2
      <4> HIDE DEF g
      <4> QED BY <4>1, <4>2, <4>3, <3>2
    <3>3. CASE i # n + 1
      <4>1. i \in 1 .. n /\ i \in 1 .. n + 1
        BY <3>3
      <4>2. g[i] = f[i]
        BY <4>1, <3>3
      <4>3. ASSUME i # 1 PROVE g[i - 1] = f[i - 1]
        <5>1. i - 1 \in 1 .. n + 1 /\ i - 1 # n + 1
          BY <4>1, <4>3
        <5> QED BY <5>1
      <4> HIDE DEF g
      <4> QED BY <4>1, <4>2, <4>3, <2>2 DEF Flattening
    <3> QED BY <3>1, <3>2, <3>3
  <2> HIDE DEF g
  <2> QED BY <2>5, <2>6 DEF Flattening
<1>3. \A n \in Nat : n \in G
  <2>1. Len(seqs) \in Nat
    BY LenProperties
  <2>2. ASSUME NEW n \in Nat, n \in G PROVE n + 1 \in G
    <3> HIDE DEF Holds
    <3> QED BY <1>2, <2>2
  <2> HIDE DEF G
  <2> QED BY <1>1, <2>2, Induction
<1>4. Holds(Len(seqs))
  <2> HIDE DEF Holds
  <2> QED BY <1>3, LenProperties
<1> QED BY <1>4

\* FlattenSeq is the last value of any such function.
LEMMA FlattenSeqIs ==
  ASSUME NEW S, NEW seqs \in Seq(Seq(S)), seqs # <<>>
  PROVE  \E f \in [1 .. Len(seqs) -> Seq(S)] :
           Flattening(f, Len(seqs), seqs) /\ FlattenSeq(seqs) = f[Len(seqs)]
<1> DEFINE Is(f) == f = [i \in 1 .. Len(seqs) |->
                           IF i = 1 THEN seqs[i] ELSE f[i - 1] \o seqs[i]]
           F == CHOOSE f : Is(f)
<1>1. Len(seqs) \in Nat /\ Len(seqs) # 0
  BY EmptySeq
<1>2. FlattenSeq(seqs) = F[Len(seqs)]
  BY <1>1, Zenon DEF FlattenSeq
<1>3. PICK f \in [1 .. Len(seqs) -> Seq(S)] : Flattening(f, Len(seqs), seqs)
  BY FlatteningExists
<1>4. Is(f)
  BY <1>3 DEF Flattening
<1>5. Is(F)
  BY <1>4, Zenon
<1> HIDE DEF F
<1>6. \A i \in 1 .. Len(seqs) : F[i] = IF i = 1 THEN seqs[i] ELSE F[i - 1] \o seqs[i]
  BY <1>5
<1>7. F = [i \in 1 .. Len(seqs) |-> F[i]]
  BY <1>5
<1> HIDE DEF Is
<1> DEFINE G == {n \in Nat : n \in 1 .. Len(seqs) => F[n] = f[n]}
<1>8. 0 \in G
  OBVIOUS
<1>9. ASSUME NEW n \in Nat, n \in G PROVE n + 1 \in G
  <2> SUFFICES ASSUME n + 1 \in 1 .. Len(seqs) PROVE F[n + 1] = f[n + 1]
    OBVIOUS
  <2>1. CASE n = 0
    <3>1. n + 1 = 1 /\ 1 \in 1 .. Len(seqs)
      BY <2>1, <1>1
    <3>2. F[1] = seqs[1] /\ f[1] = seqs[1]
      BY <3>1, <1>6, <1>3 DEF Flattening
    <3> QED BY <3>1, <3>2
  <2>2. CASE n # 0
    <3>1. n \in 1 .. Len(seqs) /\ n + 1 # 1 /\ (n + 1) - 1 = n
      BY <2>2, <1>1
    <3>2. F[n] = f[n]
      BY <3>1, <1>9
    <3>3. F[n + 1] = F[n] \o seqs[n + 1] /\ f[n + 1] = f[n] \o seqs[n + 1]
      <4> HIDE DEF G
      <4> QED BY <3>1, <1>6, <1>3 DEF Flattening
    <3> QED BY <3>2, <3>3
  <2> QED BY <2>1, <2>2
<1>10. \A n \in Nat : n \in G
  <2> HIDE DEF G
  <2> QED BY <1>8, <1>9, Induction
<1>11. \A n \in 1 .. Len(seqs) : F[n] = f[n]
  BY <1>10, <1>1
<1>12. f = [i \in 1 .. Len(seqs) |-> f[i]]
  BY <1>3
<1>13. F = f
  <2> HIDE DEF G
  <2> QED BY <1>7, <1>11, <1>12
<1> HIDE DEF G
<1> QED BY <1>2, <1>3, <1>13

(***************************************************************************)
(* Where the parts lie: part i begins behind place at[i].                  *)
(***************************************************************************)
LaidOut(whole, at, seqs) ==
  /\ at \in [1 .. Len(seqs) + 1 -> Nat]
  /\ at[1] = 0 /\ at[Len(seqs) + 1] = Len(whole)
  /\ \A i \in 1 .. Len(seqs) : at[i + 1] = at[i] + Len(seqs[i])
  /\ \A i \in 1 .. Len(seqs), j \in 1 .. Len(seqs) + 1 : i < j => at[i + 1] <= at[j]
  /\ \A i \in 1 .. Len(seqs) : \A k \in 1 .. Len(seqs[i]) : whole[at[i] + k] = seqs[i][k]
  /\ \A p \in 1 .. Len(whole) :
       \E i \in 1 .. Len(seqs) : \E k \in 1 .. Len(seqs[i]) : p = at[i] + k

LEMMA LaidOutEmpty ==
  /\ FlattenSeq(<<>>) = <<>>
  /\ \E at : LaidOut(<<>>, at, <<>>)
<1>1. FlattenSeq(<<>>) = <<>>
  BY DEF FlattenSeq
<1> DEFINE at == [i \in 1 .. 1 |-> 0]
<1>2. LaidOut(<<>>, at, <<>>)
  BY DEF LaidOut
<1> QED BY <1>1, <1>2, Zenon

\* One part more, behind the others.
LEMMA LaidOutAppend ==
  ASSUME NEW S, NEW seqs \in Seq(Seq(S)), NEW e \in Seq(S),
         NEW whole \in Seq(S), NEW at, LaidOut(whole, at, seqs)
  PROVE  \E new : LaidOut(whole \o e, new, Append(seqs, e))
<1> DEFINE L == Len(seqs)
           more == Append(seqs, e)
           new == [i \in 1 .. L + 2 |-> IF i = L + 2 THEN Len(whole \o e) ELSE at[i]]
<1>1. L \in Nat /\ Len(whole) \in Nat /\ Len(e) \in Nat
  BY LenProperties
<1>2. /\ Len(more) = L + 1
      /\ \A i \in 1 .. L : more[i] = seqs[i]
      /\ more[L + 1] = e
  BY AppendProperties
<1>3. /\ whole \o e \in Seq(S)
      /\ Len(whole \o e) = Len(whole) + Len(e)
      /\ \A i \in 1 .. Len(whole) : (whole \o e)[i] = whole[i]
      /\ \A i \in 1 .. Len(e) : (whole \o e)[Len(whole) + i] = e[i]
  BY ConcatProperties, <1>1
<1>4. \A i \in 1 .. L : seqs[i] \in Seq(S) /\ Len(seqs[i]) \in Nat
  BY LenProperties
<1> DEFINE all == whole \o e
<1> HIDE DEF all, more, L
<1>5. /\ at \in [1 .. L + 1 -> Nat]
      /\ at[1] = 0 /\ at[L + 1] = Len(whole)
      /\ \A i \in 1 .. L : at[i + 1] = at[i] + Len(seqs[i])
      /\ \A i \in 1 .. L, j \in 1 .. L + 1 : i < j => at[i + 1] <= at[j]
      /\ \A i \in 1 .. L : \A k \in 1 .. Len(seqs[i]) : whole[at[i] + k] = seqs[i][k]
      /\ \A p \in 1 .. Len(whole) :
           \E i \in 1 .. L : \E k \in 1 .. Len(seqs[i]) : p = at[i] + k
  BY DEF LaidOut, L
<1>6. /\ \A i \in 1 .. L + 1 : new[i] = at[i]
      /\ new[L + 2] = Len(whole) + Len(e)
  BY <1>1, <1>3 DEF all
<1>7. new \in [1 .. Len(more) + 1 -> Nat]
  BY <1>1, <1>2, <1>3, <1>5 DEF all
<1> HIDE DEF new
<1>8. new[1] = 0 /\ new[Len(more) + 1] = Len(all)
  BY <1>1, <1>2, <1>3, <1>5, <1>6 DEF all
<1>9. ASSUME NEW i \in 1 .. Len(more) PROVE new[i + 1] = new[i] + Len(more[i])
  <2>1. CASE i = L + 1
    BY <2>1, <1>1, <1>2, <1>5, <1>6
  <2>2. CASE i # L + 1
    <3>1. i \in 1 .. L /\ i \in 1 .. L + 1 /\ i + 1 \in 1 .. L + 1
      BY <2>2, <1>1, <1>2
    <3>2. new[i + 1] = at[i + 1] /\ new[i] = at[i] /\ more[i] = seqs[i]
      BY <3>1, <1>2, <1>6
    <3> QED BY <3>1, <3>2, <1>5
  <2> QED BY <2>1, <2>2
<1>10. ASSUME NEW i \in 1 .. Len(more), NEW j \in 1 .. Len(more) + 1, i < j
       PROVE  new[i + 1] <= new[j]
  <2>1. CASE j = L + 2 /\ i = L + 1
    BY <2>1, <1>1, <1>2, <1>6
  <2>2. CASE j = L + 2 /\ i # L + 1
    <3>1. i \in 1 .. L /\ i + 1 \in 1 .. L + 1 /\ L + 1 \in 1 .. L + 1
      BY <2>2, <1>1, <1>2
    <3>2. at[i + 1] <= at[L + 1]
      BY <3>1, <1>5
    <3>3. new[i + 1] = at[i + 1] /\ new[j] = Len(all) /\ Len(whole) <= Len(all)
      BY <3>1, <2>2, <1>1, <1>3, <1>6 DEF all
    <3>4. at[i + 1] \in Nat
      BY <3>1, <1>5
    <3> QED BY <3>2, <3>3, <3>4, <1>1, <1>5, SMTT(30)
  <2>3. CASE j # L + 2
    <3>1. i \in 1 .. L /\ j \in 1 .. L + 1 /\ i + 1 \in 1 .. L + 1
      BY <2>3, <1>10, <1>1, <1>2
    <3>2. at[i + 1] <= at[j]
      BY <3>1, <1>10, <1>5
    <3> QED BY <3>1, <3>2, <1>6
  <2> QED BY <2>1, <2>2, <2>3
<1>11. ASSUME NEW i \in 1 .. Len(more), NEW k \in 1 .. Len(more[i])
       PROVE  all[new[i] + k] = more[i][k]
  <2>1. CASE i = L + 1
    BY <2>1, <1>1, <1>2, <1>3, <1>5, <1>6 DEF all
  <2>2. CASE i # L + 1
    <3>1. i \in 1 .. L /\ new[i] = at[i] /\ more[i] = seqs[i]
      BY <2>2, <1>1, <1>2, <1>6
    <3>2. at[i] + k <= at[i + 1] /\ at[i + 1] <= at[L + 1] /\ at[i] \in Nat
      BY <3>1, <1>1, <1>4, <1>5
    <3>3. at[i] + k \in 1 .. Len(whole)
      BY <3>1, <3>2, <1>1, <1>4, <1>5, SMTT(30)
    <3>4. all[at[i] + k] = whole[at[i] + k]
      BY <3>3, <1>3 DEF all
    <3> QED BY <3>1, <3>4, <1>5
  <2> QED BY <2>1, <2>2
<1>12. ASSUME NEW p \in 1 .. Len(all)
       PROVE  \E i \in 1 .. Len(more) : \E k \in 1 .. Len(more[i]) : p = new[i] + k
  <2>1. CASE p <= Len(whole)
    <3>1. PICK i \in 1 .. L : \E k \in 1 .. Len(seqs[i]) : p = at[i] + k
      BY <2>1, <1>1, <1>3, <1>5 DEF all
    <3>2. i \in 1 .. Len(more) /\ more[i] = seqs[i] /\ new[i] = at[i]
      BY <1>1, <1>2, <1>6
    <3> QED BY <3>1, <3>2
  <2>2. CASE p > Len(whole)
    <3> DEFINE k == p - Len(whole)
    <3>1. L + 1 \in 1 .. Len(more) /\ more[L + 1] = e /\ new[L + 1] = Len(whole)
      BY <1>1, <1>2, <1>5, <1>6
    <3>2. k \in 1 .. Len(e) /\ p = Len(whole) + k
      BY <2>2, <1>1, <1>3 DEF all
    <3> HIDE DEF k
    <3> QED BY <3>1, <3>2
  <2> QED BY <2>1, <2>2, <1>1, <1>3 DEF all
<1>13. LaidOut(all, new, more)
  BY <1>7, <1>8, <1>9, <1>10, <1>11, <1>12 DEF LaidOut
<1> QED BY <1>13, Zenon DEF all, more

\* One part more only adds its elements.
LEMMA FlattenAppend ==
  ASSUME NEW S, NEW seqs \in Seq(Seq(S)), NEW e \in Seq(S)
  PROVE  FlattenSeq(Append(seqs, e)) = FlattenSeq(seqs) \o e
<1> DEFINE more == Append(seqs, e)
<1>1. /\ more \in Seq(Seq(S)) /\ more # <<>>
      /\ Len(more) = Len(seqs) + 1
      /\ \A i \in 1 .. Len(seqs) : more[i] = seqs[i]
      /\ more[Len(seqs) + 1] = e
  BY AppendProperties
<1>2. Len(seqs) \in Nat
  BY LenProperties
<1> HIDE DEF more
<1>3. PICK g \in [1 .. Len(more) -> Seq(S)] :
        Flattening(g, Len(more), more) /\ FlattenSeq(more) = g[Len(more)]
  BY <1>1, FlattenSeqIs
<1>4. CASE seqs = <<>>
  <2>1. Len(seqs) = 0 /\ FlattenSeq(seqs) = <<>>
    BY <1>4, LaidOutEmpty
  <2>2. FlattenSeq(more) = e
    BY <2>1, <1>1, <1>3 DEF Flattening
  <2>3. <<>> \o e = e
    BY ConcatEmptySeq
  <2> QED BY <2>1, <2>2, <2>3 DEF more
<1>5. CASE seqs # <<>>
  <2>1. PICK f \in [1 .. Len(seqs) -> Seq(S)] :
          Flattening(f, Len(seqs), seqs) /\ FlattenSeq(seqs) = f[Len(seqs)]
    BY <1>5, FlattenSeqIs
  <2> DEFINE G == {n \in Nat : n \in 1 .. Len(seqs) => g[n] = f[n]}
  <2>2. 0 \in G
    OBVIOUS
  <2>3. ASSUME NEW n \in Nat, n \in G PROVE n + 1 \in G
    <3> SUFFICES ASSUME n + 1 \in 1 .. Len(seqs) PROVE g[n + 1] = f[n + 1]
      OBVIOUS
    <3>1. n + 1 \in 1 .. Len(more) /\ more[n + 1] = seqs[n + 1]
      BY <1>1, <1>2
    <3>2. CASE n = 0
      <4>1. n + 1 = 1
        BY <3>2
      <4>2. g[1] = more[1] /\ f[1] = seqs[1]
        BY <4>1, <3>1, <1>3, <2>1 DEF Flattening
      <4> QED BY <4>1, <4>2, <3>1
    <3>3. CASE n # 0
      <4>1. n \in 1 .. Len(seqs) /\ n + 1 # 1 /\ (n + 1) - 1 = n
        BY <3>3, <1>2
      <4>2. g[n] = f[n]
        BY <4>1, <2>3
      <4>3. g[n + 1] = g[n] \o more[n + 1] /\ f[n + 1] = f[n] \o seqs[n + 1]
        <5> HIDE DEF G
        <5> QED BY <4>1, <3>1, <1>3, <2>1 DEF Flattening
      <4> QED BY <4>2, <4>3, <3>1
    <3> QED BY <3>2, <3>3
  <2>4. \A n \in Nat : n \in G
    <3> HIDE DEF G
    <3> QED BY <2>2, <2>3, Induction
  <2>5. Len(seqs) \in 1 .. Len(seqs)
    BY <1>5, EmptySeq, <1>2
  <2>6. g[Len(seqs)] = f[Len(seqs)]
    <3>1. Len(seqs) \in G
      <4> HIDE DEF G
      <4> QED BY <2>4, <1>2
    <3> QED BY <3>1, <2>5
  <2>7. Len(more) \in 1 .. Len(more) /\ Len(more) # 1 /\ Len(more) - 1 = Len(seqs)
    BY <2>5, <1>1, <1>2
  <2>8. g[Len(more)] = g[Len(more) - 1] \o more[Len(more)]
    <3> HIDE DEF G
    <3> QED BY <2>7, <1>3 DEF Flattening
  <2> QED BY <2>1, <2>6, <2>7, <2>8, <1>1, <1>3 DEF more
<1> QED BY <1>4, <1>5

\* What comes out is a sequence, and has each part at its place.
LEMMA FlattenLaidOut ==
  ASSUME NEW S, NEW seqs \in Seq(Seq(S))
  PROVE  /\ FlattenSeq(seqs) \in Seq(S)
         /\ \E at : LaidOut(FlattenSeq(seqs), at, seqs)
<1> DEFINE Holds(ss) ==
      FlattenSeq(ss) \in Seq(S) /\ \E at : LaidOut(FlattenSeq(ss), at, ss)
           G == {n \in Nat : \A ss \in Seq(Seq(S)) : Len(ss) = n => Holds(ss)}
<1>1. 0 \in G
  <2> SUFFICES ASSUME NEW ss \in Seq(Seq(S)), Len(ss) = 0 PROVE Holds(ss)
    OBVIOUS
  <2>1. ss = <<>>
    BY EmptySeq
  <2>2. <<>> \in Seq(S)
    BY EmptySeq
  <2> QED BY <2>1, <2>2, LaidOutEmpty
<1>2. ASSUME NEW n \in Nat, n \in G PROVE n + 1 \in G
  <2> SUFFICES ASSUME NEW ss \in Seq(Seq(S)), Len(ss) = n + 1 PROVE Holds(ss)
    OBVIOUS
  <2>1. ss # <<>>
    BY EmptySeq
  <2>2. PICK front \in Seq(Seq(S)), e \in Seq(S) : ss = Append(front, e)
    BY <2>1, SequenceEmptyOrAppend
  <2>3. Len(front) = n
    BY <2>2, AppendProperties, LenProperties
  <2>4. FlattenSeq(front) \in Seq(S)
    BY <2>3, <1>2
  <2>5. PICK at : LaidOut(FlattenSeq(front), at, front)
    BY <2>3, <1>2
  <2>6. FlattenSeq(ss) = FlattenSeq(front) \o e
    BY <2>2, FlattenAppend
  <2>7. FlattenSeq(ss) \in Seq(S)
    BY <2>4, <2>6, ConcatProperties
  <2>8. \E new : LaidOut(FlattenSeq(front) \o e, new, Append(front, e))
    BY <2>4, <2>5, LaidOutAppend
  <2> QED BY <2>2, <2>6, <2>7, <2>8
<1>3. \A n \in Nat : n \in G
  <2> HIDE DEF G
  <2> QED BY <1>1, <1>2, Induction
<1> QED BY <1>3, LenProperties

(***************************************************************************)
(* Places in a list that is put together.                                  *)
(***************************************************************************)
\* The part lies in the whole behind the given place.
Placed(whole, after, part) == \A k \in 1 .. Len(part) : whole[after + k] = part[k]

LEMMA PlacedConcat ==
  ASSUME NEW S, NEW s \in Seq(S), NEW t \in Seq(S), NEW whole, NEW after \in Nat,
         Placed(whole, after, s \o t)
  PROVE  /\ s \o t \in Seq(S) /\ Len(s \o t) = Len(s) + Len(t)
         /\ Placed(whole, after, s) /\ Placed(whole, after + Len(s), t)
<1>1. Len(s) \in Nat /\ Len(t) \in Nat
  BY LenProperties
<1>2. /\ s \o t \in Seq(S) /\ Len(s \o t) = Len(s) + Len(t)
      /\ \A i \in 1 .. Len(s) + Len(t) :
           (s \o t)[i] = IF i <= Len(s) THEN s[i] ELSE t[i - Len(s)]
  BY ConcatProperties
<1> DEFINE all == s \o t
<1>3. \A k \in 1 .. Len(s) + Len(t) : whole[after + k] = all[k]
  BY <1>2 DEF Placed
<1> HIDE DEF all
<1>4. ASSUME NEW k \in 1 .. Len(s) PROVE whole[after + k] = s[k]
  <2>1. k \in 1 .. Len(s) + Len(t) /\ k <= Len(s)
    BY <1>1
  <2> QED BY <2>1, <1>2, <1>3 DEF all
<1>5. ASSUME NEW k \in 1 .. Len(t) PROVE whole[(after + Len(s)) + k] = t[k]
  <2>1. /\ Len(s) + k \in 1 .. Len(s) + Len(t) /\ ~(Len(s) + k <= Len(s))
        /\ (Len(s) + k) - Len(s) = k /\ (after + Len(s)) + k = after + (Len(s) + k)
    BY <1>1
  <2>2. all[Len(s) + k] = t[k]
    BY <2>1, <1>2 DEF all
  <2> QED BY <2>1, <2>2, <1>3
<1> QED BY <1>2, <1>4, <1>5 DEF Placed

LEMMA PlacedPart ==
  ASSUME NEW S, NEW seqs \in Seq(Seq(S)), NEW at, NEW all, LaidOut(all, at, seqs),
         NEW whole, NEW after \in Nat, Placed(whole, after, all), NEW i \in 1 .. Len(seqs)
  PROVE  Placed(whole, after + at[i], seqs[i])
<1>1. Len(seqs) \in Nat
  BY LenProperties
<1>2. /\ at[i] \in Nat /\ at[i + 1] = at[i] + Len(seqs[i]) /\ at[i + 1] <= Len(all)
      /\ \A k \in 1 .. Len(seqs[i]) : all[at[i] + k] = seqs[i][k]
  <2>1. i \in 1 .. Len(seqs) + 1 /\ Len(seqs) + 1 \in 1 .. Len(seqs) + 1 /\ i < Len(seqs) + 1
    BY <1>1
  <2> QED BY <2>1 DEF LaidOut
<1>3. seqs[i] \in Seq(S)
  BY ElementOfSeq
<1>4. Len(seqs[i]) \in Nat
  BY <1>3, LenProperties
<1> SUFFICES ASSUME NEW k \in 1 .. Len(seqs[i])
             PROVE  whole[(after + at[i]) + k] = seqs[i][k]
  BY DEF Placed
<1>5. Len(all) \in Nat
  <2>1. Len(seqs) + 1 \in 1 .. Len(seqs) + 1
    BY <1>1
  <2> QED BY <2>1 DEF LaidOut
<1>6. at[i] + k \in 1 .. Len(all) /\ (after + at[i]) + k = after + (at[i] + k)
  BY <1>2, <1>4, <1>5
<1>7. whole[after + (at[i] + k)] = all[at[i] + k]
  BY <1>6 DEF Placed
<1> QED BY <1>2, <1>6, <1>7

\* The parts from a up to b have c elements each, and so their places are c apart.
Sized(seqs, a, b, c) == \A i \in a .. b - 1 : Len(seqs[i]) = c
Stepped(at, a, b, c) ==
  \A i \in a .. b : at[i] = at[a] + (IF c = 1 THEN i - a ELSE 2 * (i - a))

\* Among parts of one or of two elements, places are counted.
LEMMA Steady ==
  ASSUME NEW S, NEW seqs \in Seq(Seq(S)), NEW all, NEW at, LaidOut(all, at, seqs),
         NEW c \in {1, 2}, NEW a \in 1 .. Len(seqs) + 1, NEW b \in a .. Len(seqs) + 1,
         Sized(seqs, a, b, c)
  PROVE  Stepped(at, a, b, c)
<1> DEFINE Far(n) == IF c = 1 THEN n ELSE 2 * n
           G == {n \in Nat : a + n <= b => at[a + n] = at[a] + Far(n)}
<1>1. Len(seqs) \in Nat
  BY LenProperties
<1>2. /\ at \in [1 .. Len(seqs) + 1 -> Nat]
      /\ \A i \in 1 .. Len(seqs) : at[i + 1] = at[i] + Len(seqs[i])
  BY DEF LaidOut
<1>3. 0 \in G
  BY <1>1, <1>2
<1>4. ASSUME NEW n \in Nat, n \in G PROVE n + 1 \in G
  <2> SUFFICES ASSUME a + (n + 1) <= b PROVE at[a + (n + 1)] = at[a] + Far(n + 1)
    OBVIOUS
  <2>1. a + n \in 1 .. Len(seqs) /\ a + n \in a .. b - 1 /\ a + (n + 1) = (a + n) + 1
    BY <1>1
  <2>2. at[(a + n) + 1] = at[a + n] + c
    BY <2>1, <1>2 DEF Sized
  <2>3. at[a + n] = at[a] + Far(n)
    BY <2>1, <1>4
  <2>4. at[a] \in Nat
    BY <1>1, <1>2
  <2>5. Far(n + 1) = Far(n) + c /\ Far(n) \in Nat /\ Far(n + 1) \in Nat
    OBVIOUS
  <2> HIDE DEF Far
  <2> QED BY <2>1, <2>2, <2>3, <2>4, <2>5
<1>5. \A n \in Nat : n \in G
  <2> HIDE DEF G
  <2> QED BY <1>3, <1>4, Induction
<1> SUFFICES ASSUME NEW i \in a .. b PROVE at[i] = at[a] + Far(i - a)
  BY DEF Stepped
<1>6. i - a \in Nat /\ a + (i - a) = i /\ a + (i - a) <= b
  BY <1>1
<1> QED BY <1>5, <1>6

\* Parts of one element each come out as these elements.
LEMMA FlattenSingles ==
  ASSUME NEW S, NEW list \in Seq(S), NEW seqs \in Seq(Seq(S)), Len(seqs) = Len(list),
         \A i \in 1 .. Len(list) : seqs[i] = <<list[i]>>
  PROVE  FlattenSeq(seqs) = list
<1>1. Len(list) \in Nat
  BY LenProperties
<1>2. ASSUME NEW i \in 1 .. Len(list) PROVE Len(seqs[i]) = 1 /\ seqs[i][1] = list[i]
  <2>1. seqs[i] = <<list[i]>>
    OBVIOUS
  <2> QED BY <2>1
<1>3. PICK all, at : all = FlattenSeq(seqs) /\ all \in Seq(S) /\ LaidOut(all, at, seqs)
  BY FlattenLaidOut
<1>4. \A i \in 1 .. Len(list) + 1 : at[i] = at[1] + (i - 1)
  <2>1. 1 \in 1 .. Len(seqs) + 1 /\ Len(seqs) + 1 \in 1 .. Len(seqs) + 1
    BY <1>1
  <2>2. Sized(seqs, 1, Len(seqs) + 1, 1)
    BY <1>1, <1>2 DEF Sized
  <2>3. Stepped(at, 1, Len(seqs) + 1, 1)
    BY <1>3, <2>1, <2>2, Steady
  <2> QED BY <2>3 DEF Stepped
<1>5. /\ at[1] = 0 /\ at[Len(list) + 1] = Len(all)
      /\ \A i \in 1 .. Len(list) : all[at[i] + 1] = list[i]
  BY <1>2, <1>3 DEF LaidOut
<1>6. Len(all) = Len(list) /\ \A i \in 1 .. Len(list) : all[i] = list[i]
  <2>1. Len(all) = Len(list)
    <3>1. Len(list) + 1 \in 1 .. Len(list) + 1
      BY <1>1
    <3> QED BY <3>1, <1>1, <1>4, <1>5
  <2>2. ASSUME NEW i \in 1 .. Len(list) PROVE all[i] = list[i]
    <3>1. i \in 1 .. Len(list) + 1
      BY <1>1
    <3>2. at[i] + 1 = i
      BY <3>1, <1>4, <1>5
    <3> QED BY <3>2, <1>5
  <2> QED BY <2>1, <2>2
<1> QED BY <1>3, <1>6, SeqEqual

=============================================================================
