--------------------------- MODULE FrameTheorems ---------------------------
(***************************************************************************)
(* What the proofs about the driver and about its decoder need to know of  *)
(* numbers, of sequences and of the operators of FrameTables.              *)
(*                                                                         *)
(* Induction is over the least element of a set: the principle is stated   *)
(* with sets rather than predicates, so that it can be cited.              *)
(***************************************************************************)
EXTENDS FrameTables, SequencesExt, WellFoundedInduction, TLAPS

(* Every set of natural numbers that is not empty has a least element.     *)
LEMMA LeastNat ==
  ASSUME NEW T, T \subseteq Nat, T # {}
  PROVE  \E n \in T : \A m \in T : n <= m
<1> DEFINE R == OpToRel(<, Nat)
<1>1. IsWellFoundedOn(R, Nat)
  BY NatLessThanWellFounded
<1>2. \A m, n \in Nat : m < n => <<m, n>> \in R
  BY DEF OpToRel
<1> HIDE DEF R
<1>3. PICK n \in T : \A m \in T : ~ (<<m, n>> \in R)
  BY <1>1, WFMin
<1>4. ASSUME NEW m \in T, ~ (n <= m)
      PROVE  FALSE
  <2>1. m \in Nat /\ n \in Nat
    OBVIOUS
  <2>2. m < n
    BY <2>1, <1>4
  <2>3. <<m, n>> \in R
    BY <2>1, <2>2, <1>2, Zenon
  <2> QED
    BY <2>3, <1>3, Zenon
<1> QED
  BY <1>4

(* A set that has zero and, with each number, the next has all of them.    *)
LEMMA AllNat ==
  ASSUME NEW T, 0 \in T, \A n \in Nat : n \in T => n + 1 \in T
  PROVE  \A n \in Nat : n \in T
<1> SUFFICES ASSUME Nat \ T # {} PROVE FALSE
  OBVIOUS
<1>1. PICK n \in Nat \ T : \A m \in Nat \ T : n <= m
  BY LeastNat
<1>2. n - 1 \in Nat /\ n - 1 \in T
  BY <1>1
<1> QED
  BY <1>1, <1>2

(* The same for sequences, which grow at their end.                        *)
LEMMA AllSeq ==
  ASSUME NEW S, NEW T, <<>> \in T,
         \A s \in Seq(S), e \in S : s \in T => Append(s, e) \in T
  PROVE  \A s \in Seq(S) : s \in T
<1> DEFINE N == {n \in Nat : \A s \in Seq(S) : Len(s) = n => s \in T}
<1>1. 0 \in N
  <2>1. \A s \in Seq(S) : Len(s) = 0 => s = <<>>
    OBVIOUS
  <2> QED
    BY <2>1
<1>2. ASSUME NEW n \in Nat, n \in N
      PROVE  n + 1 \in N
  <2> SUFFICES ASSUME NEW s \in Seq(S), Len(s) = n + 1
               PROVE  s \in T
    OBVIOUS
  <2>1. SubSeq(s, 1, n) \in Seq(S) /\ Len(SubSeq(s, 1, n)) = n /\ s[n + 1] \in S
    OBVIOUS
  <2>2. s = Append(SubSeq(s, 1, n), s[n + 1])
    OBVIOUS
  <2> QED
    BY <1>2, <2>1, <2>2
<1> HIDE DEF N
<1>3. \A n \in Nat : n \in N
  BY <1>1, <1>2, AllNat
<1> QED
  BY <1>3 DEF N
-----------------------------------------------------------------------------
(* FlattenSeq, of the community modules, is a recursive function: it must  *)
(* be shown to exist before anything is known of its values.               *)
FlattenStep(g, ss, k) == IF k = 1 THEN ss[k] ELSE g[k - 1] \o ss[k]
Flattening(g, ss, n)  == g = [k \in 1..n |-> FlattenStep(g, ss, k)]
SameUpTo(s, t, n)     == \A k \in 1..n : s[k] = t[k]

LEMMA FlatteningIs ==
  ASSUME NEW g, NEW ss, NEW n \in Nat, Flattening(g, ss, n), NEW k \in 1..n
  PROVE  g[k] = FlattenStep(g, ss, k)
<1> DEFINE h == [j \in 1..n |-> FlattenStep(g, ss, j)]
<1>1. g = h
  BY DEF Flattening
<1>2. h[k] = FlattenStep(g, ss, k)
  OBVIOUS
<1> QED
  BY <1>1, <1>2, Zenon

(* A step depends on the step before and on one sequence.                  *)
LEMMA SameStep ==
  ASSUME NEW g, NEW h, NEW ss, NEW tt, NEW k \in Nat \ {0},
         k # 1 => g[k - 1] = h[k - 1], ss[k] = tt[k]
  PROVE  FlattenStep(g, ss, k) = FlattenStep(h, tt, k)
BY DEF FlattenStep

LEMMA FlatteningExists ==
  ASSUME NEW ss, NEW n \in Nat
  PROVE  \E g : Flattening(g, ss, n)
<1> DEFINE N == {m \in Nat : \E g : Flattening(g, ss, m)}
<1>1. 0 \in N
  <2>1. Flattening(<<>>, ss, 0)
    BY DEF Flattening
  <2> QED
    BY <2>1
<1>2. ASSUME NEW m \in Nat, m \in N
      PROVE  m + 1 \in N
  <2>1. PICK g : Flattening(g, ss, m)
    BY <1>2
  <2> DEFINE h == [k \in 1..(m + 1) |-> FlattenStep(g, ss, k)]
  <2>2. \A k \in 1..m : h[k] = g[k]
    BY <2>1, FlatteningIs
  <2>3. ASSUME NEW k \in 1..(m + 1)
        PROVE  FlattenStep(g, ss, k) = FlattenStep(h, ss, k)
    <3>1. k # 1 => g[k - 1] = h[k - 1]
      BY <2>2
    <3> HIDE DEF h
    <3> QED
      BY <3>1, SameStep
  <2>4. h = [k \in 1..(m + 1) |-> FlattenStep(h, ss, k)]
    BY <2>3
  <2> HIDE DEF h
  <2>5. Flattening(h, ss, m + 1)
    BY <2>4 DEF Flattening
  <2> QED
    BY <2>5
<1> HIDE DEF N
<1>3. n \in N
  BY <1>1, <1>2, AllNat
<1> QED
  BY <1>3 DEF N

LEMMA FlattenSeqIs ==
  ASSUME NEW ss, NEW n \in Nat \ {0}, Len(ss) = n
  PROVE  \E g : Flattening(g, ss, n) /\ FlattenSeq(ss) = g[n]
<1> DEFINE g == CHOOSE g : g = [k \in 1..n |-> IF k = 1 THEN ss[k] ELSE g[k - 1] \o ss[k]]
<1>1. \E h : h = [k \in 1..n |-> IF k = 1 THEN ss[k] ELSE h[k - 1] \o ss[k]]
  BY FlatteningExists DEF Flattening, FlattenStep
<1>2. g = [k \in 1..n |-> IF k = 1 THEN ss[k] ELSE g[k - 1] \o ss[k]]
  BY <1>1, Zenon
<1>3. FlattenSeq(ss) = g[n]
  BY DEF FlattenSeq
<1> HIDE DEF g
<1> QED
  BY <1>2, <1>3 DEF Flattening, FlattenStep

(* It depends on the sequences so far only.                                *)
LEMMA FlatteningsAgree ==
  ASSUME NEW m \in Nat, NEW n \in Nat, m <= n,
         NEW ss, NEW tt, SameUpTo(ss, tt, m),
         NEW g, Flattening(g, ss, m), NEW h, Flattening(h, tt, n)
  PROVE  SameUpTo(g, h, m)
<1> DEFINE N == {k \in Nat : k \in 1..m => g[k] = h[k]}
<1>1. 0 \in N
  OBVIOUS
<1>2. ASSUME NEW k \in Nat, k \in N
      PROVE  k + 1 \in N
  <2> SUFFICES ASSUME NEW a \in 1..m, a = k + 1
               PROVE  g[a] = h[a]
    OBVIOUS
  <2>1. a \in 1..n /\ a \in Nat \ {0} /\ ss[a] = tt[a]
    BY DEF SameUpTo
  <2>2. a # 1 => g[a - 1] = h[a - 1]
    BY <1>2
  <2>3. g[a] = FlattenStep(g, ss, a) /\ h[a] = FlattenStep(h, tt, a)
    BY <2>1, FlatteningIs
  <2>4. FlattenStep(g, ss, a) = FlattenStep(h, tt, a)
    BY <2>1, <2>2, SameStep
  <2> QED
    BY <2>3, <2>4
<1> HIDE DEF N
<1>3. \A k \in Nat : k \in N
  BY <1>1, <1>2, AllNat
<1> QED
  BY <1>3 DEF N, SameUpTo

(* FlattenSeq, one sequence after another.                                 *)
LEMMA FlattenEmpty == FlattenSeq(<<>>) = <<>>
BY DEF FlattenSeq

LEMMA FlattenOne ==
  ASSUME NEW s
  PROVE  FlattenSeq(<<s>>) = s
<1>1. PICK ss : ss = <<s>>
  OBVIOUS
<1>2. Len(ss) = 1 /\ ss[1] = s /\ 1 \in Nat \ {0} /\ 1 \in 1..1
  BY <1>1
<1>3. PICK g : Flattening(g, ss, 1) /\ FlattenSeq(ss) = g[1]
  BY <1>2, FlattenSeqIs
<1>4. g[1] = s
  <2>1. g[1] = FlattenStep(g, ss, 1)
    BY <1>2, <1>3, FlatteningIs
  <2> QED
    BY <1>2, <2>1 DEF FlattenStep
<1> QED
  BY <1>1, <1>3, <1>4

LEMMA FlattenAppend ==
  ASSUME NEW S, NEW ss \in Seq(Seq(S)), NEW s \in Seq(S)
  PROVE  FlattenSeq(Append(ss, s)) = FlattenSeq(ss) \o s
<1> DEFINE tt == Append(ss, s)
<1>1. PICK m \in Nat, n \in Nat :
        /\ m = Len(ss) /\ n = m + 1 /\ m <= n /\ m = n - 1
        /\ Len(tt) = n /\ tt[n] = s /\ n \in Nat \ {0} /\ n \in 1..n
        /\ \A k \in 1..m : ss[k] = tt[k]
  OBVIOUS
<1>2. CASE m = 0
  <2>1. ss = <<>> /\ tt = <<s>>
    BY <1>1, <1>2
  <2>2. <<>> \o s = s
    OBVIOUS
  <2> QED
    BY <1>1, <2>1, <2>2, FlattenEmpty, FlattenOne
<1>3. CASE m # 0
  <2> HIDE DEF tt
  <2>1. m \in Nat \ {0} /\ m \in 1..m
    BY <1>1, <1>3
  <2>2. PICK g : Flattening(g, ss, m) /\ FlattenSeq(ss) = g[m]
    BY <1>1, <2>1, FlattenSeqIs
  <2>3. PICK h : Flattening(h, tt, n) /\ FlattenSeq(tt) = h[n]
    BY <1>1, FlattenSeqIs
  <2>4. SameUpTo(g, h, m)
    <3>1. m <= n /\ SameUpTo(ss, tt, m)
      BY <1>1 DEF SameUpTo
    <3>2. Flattening(g, ss, m) /\ Flattening(h, tt, n)
      BY <2>2, <2>3
    <3> QED
      BY <3>1, <3>2, FlatteningsAgree
  <2>5. m \in 1..n /\ n \in 1..n /\ n = m + 1 /\ tt[n] = s
    BY <1>1, <2>1
  <2>6. h[n] = h[m] \o s
    <3>1. h[n] = FlattenStep(h, tt, n)
      BY <2>3, <2>5, FlatteningIs
    <3>2. n # 1 /\ n - 1 = m
      BY <2>1, <2>5
    <3> QED
      BY <2>5, <3>1, <3>2 DEF FlattenStep
  <2>7. h[m] = FlattenSeq(ss)
    BY <2>1, <2>2, <2>4 DEF SameUpTo
  <2> QED
    BY <2>3, <2>6, <2>7 DEF tt
<1> QED
  BY <1>2, <1>3

LEMMA FlattenType ==
  ASSUME NEW S, NEW ss \in Seq(Seq(S))
  PROVE  FlattenSeq(ss) \in Seq(S)
<1> DEFINE T == {tt \in Seq(Seq(S)) : FlattenSeq(tt) \in Seq(S)}
<1>1. <<>> \in T
  <2>1. <<>> \in Seq(Seq(S)) /\ <<>> \in Seq(S)
    OBVIOUS
  <2> QED
    BY <2>1, FlattenEmpty, Zenon
<1>2. ASSUME NEW tt \in Seq(Seq(S)), NEW s \in Seq(S), tt \in T
      PROVE  Append(tt, s) \in T
  <2>1. FlattenSeq(Append(tt, s)) = FlattenSeq(tt) \o s
    BY FlattenAppend
  <2>2. FlattenSeq(tt) \o s \in Seq(S) /\ Append(tt, s) \in Seq(Seq(S))
    BY <1>2
  <2> QED
    BY <2>1, <2>2, Zenon
<1> HIDE DEF T
<1>3. \A tt \in Seq(Seq(S)) : tt \in T
  BY <1>1, <1>2, AllSeq
<1> QED
  BY <1>3 DEF T

LEMMA FlattenConcat ==
  ASSUME NEW S, NEW ss \in Seq(Seq(S)), NEW uu \in Seq(Seq(S))
  PROVE  FlattenSeq(ss \o uu) = FlattenSeq(ss) \o FlattenSeq(uu)
<1> DEFINE T == {tt \in Seq(Seq(S)) : FlattenSeq(ss \o tt) = FlattenSeq(ss) \o FlattenSeq(tt)}
<1>1. <<>> \in T
  <2>1. FlattenSeq(ss) \in Seq(S)
    BY FlattenType
  <2>2. ss \o <<>> = ss /\ FlattenSeq(ss) \o <<>> = FlattenSeq(ss) /\ <<>> \in Seq(Seq(S))
    BY <2>1
  <2> QED
    BY <2>2, FlattenEmpty, Zenon
<1>2. ASSUME NEW tt \in Seq(Seq(S)), NEW s \in Seq(S), tt \in T
      PROVE  Append(tt, s) \in T
  <2>1. ss \o Append(tt, s) = Append(ss \o tt, s) /\ ss \o tt \in Seq(Seq(S))
    OBVIOUS
  <2>2. FlattenSeq(ss \o Append(tt, s)) = (FlattenSeq(ss) \o FlattenSeq(tt)) \o s
    BY <1>2, <2>1, FlattenAppend
  <2>3. @ = FlattenSeq(ss) \o (FlattenSeq(tt) \o s)
    BY FlattenType
  <2>4. @ = FlattenSeq(ss) \o FlattenSeq(Append(tt, s))
    BY FlattenAppend
  <2> QED
    BY <2>2, <2>3, <2>4
<1> HIDE DEF T
<1>3. \A tt \in Seq(Seq(S)) : tt \in T
  BY <1>1, <1>2, AllSeq
<1> QED
  BY <1>3 DEF T

-----------------------------------------------------------------------------
(* A table takes what there is room for.                                   *)
LEMMA KeptType ==
  ASSUME NEW S, NEW table \in Seq(S), NEW samples \in Seq(S)
  PROVE  /\ Kept(table, samples) \in Seq(S)
         /\ Len(Kept(table, samples)) <= TableLength
         /\ Len(table) + Len(samples) <= TableLength =>
              Kept(table, samples) = table \o samples
<1>1. table \o samples \in Seq(S) /\ Len(table \o samples) = Len(table) + Len(samples)
  OBVIOUS
<1> QED
  BY <1>1, TableLengthOK DEF Kept

(* To push a run of samples one by one is to keep what there is room for.  *)
Cut(all) == IF Len(all) <= TableLength THEN all ELSE SubSeq(all, 1, TableLength)

LEMMA CutPush ==
  ASSUME NEW S, NEW all \in Seq(S), NEW s \in S
  PROVE  Push(Cut(all), s) = Cut(Append(all, s))
<1>1. Len(Append(all, s)) = Len(all) + 1 /\ Append(all, s) \in Seq(S) /\ Len(all) \in Nat
  OBVIOUS
<1>2. CASE Len(all) < TableLength
  BY <1>1, <1>2, TableLengthOK DEF Cut, Push
<1>3. CASE Len(all) = TableLength
  <2>1. SubSeq(Append(all, s), 1, TableLength) = all
    BY <1>3, TableLengthOK
  <2>2. Cut(all) = all /\ Cut(Append(all, s)) = all
    <3>1. Len(all) <= TableLength
      BY <1>1, <1>3, TableLengthOK
    <3>2. ~ (Len(Append(all, s)) <= TableLength)
      BY <1>1, <1>3, TableLengthOK
    <3>3. Cut(Append(all, s)) = SubSeq(Append(all, s), 1, TableLength)
      BY <3>2, Zenon DEF Cut
    <3>4. Cut(all) = all
      BY <3>1, Zenon DEF Cut
    <3> QED
      BY <2>1, <3>3, <3>4, Zenon
  <2> QED
    BY <1>3, <2>2 DEF Push
<1>4. CASE Len(all) > TableLength
  <2>1. SubSeq(Append(all, s), 1, TableLength) = SubSeq(all, 1, TableLength)
    BY <1>4, TableLengthOK
  <2>2. Len(SubSeq(all, 1, TableLength)) = TableLength
    BY <1>4, TableLengthOK
  <2>3. Cut(all) = SubSeq(all, 1, TableLength)
    <3>1. ~ (Len(all) <= TableLength)
      BY <1>1, <1>4, TableLengthOK
    <3> QED
      BY <3>1, Zenon DEF Cut
  <2>4. Cut(Append(all, s)) = SubSeq(Append(all, s), 1, TableLength)
    <3>1. ~ (Len(Append(all, s)) <= TableLength)
      BY <1>1, <1>4, TableLengthOK
    <3> QED
      BY <3>1, Zenon DEF Cut
  <2>5. Len(Cut(all)) >= TableLength
    BY <2>2, <2>3, TableLengthOK
  <2>6. Push(Cut(all), s) = Cut(all)
    BY <2>5, Zenon DEF Push
  <2> QED
    BY <2>1, <2>3, <2>4, <2>6, Zenon
<1> QED
  BY <1>1, <1>2, <1>3, <1>4, TableLengthOK

LEMMA KeptPush ==
  ASSUME NEW S, NEW table \in Seq(S), NEW samples \in Seq(S), NEW s \in S
  PROVE  Push(Kept(table, samples), s) = Kept(table, samples \o <<s>>)
<1>1. table \o samples \in Seq(S) /\ table \o (samples \o <<s>>) = Append(table \o samples, s)
  OBVIOUS
<1>2. Push(Cut(table \o samples), s) = Cut(Append(table \o samples, s))
  BY <1>1, CutPush
<1> QED
  BY <1>1, <1>2, Zenon DEF Kept, Cut

LEMMA KeptNothing ==
  ASSUME NEW S, NEW table \in Seq(S), Len(table) <= TableLength
  PROVE  Kept(table, <<>>) = table
BY TableLengthOK DEF Kept

LEMMA KeptOne ==
  ASSUME NEW S, NEW table \in Seq(S), Len(table) <= TableLength, NEW s \in S
  PROVE  Kept(table, <<s>>) = Push(table, s)
<1>1. Push(Kept(table, <<>>), s) = Kept(table, <<>> \o <<s>>)
  <2>1. <<>> \in Seq(S)
    OBVIOUS
  <2> QED
    BY <2>1, KeptPush
<1>2. Kept(table, <<>>) = table
  BY KeptNothing
<1>3. <<>> \o <<s>> = <<s>>
  OBVIOUS
<1> QED
  BY <1>1, <1>2, <1>3, Zenon

(* To keep some samples and then at most one more is to keep them all.     *)
AtMostOne(more, S) == more = <<>> \/ \E s \in S : more = <<s>>
KeepsMore(table, samples, more) ==
  Kept(Kept(table, samples), more) = Kept(table, samples \o more)

LEMMA KeptMore ==
  ASSUME NEW S, NEW table \in Seq(S), NEW samples \in Seq(S), NEW more, AtMostOne(more, S)
  PROVE  KeepsMore(table, samples, more)
<1>1. PICK all \in Seq(S) : all = Kept(table, samples) /\ Len(all) <= TableLength
  BY KeptType
<1>2. CASE more = <<>>
  <2>1. samples \o more = samples
    BY <1>2
  <2>2. Kept(all, <<>>) = all
    BY <1>1, KeptNothing
  <2> QED
    BY <1>1, <1>2, <2>1, <2>2, Zenon DEF KeepsMore
<1>3. CASE \E s \in S : more = <<s>>
  <2>1. PICK s \in S : more = <<s>>
    BY <1>3
  <2>2. Kept(all, <<s>>) = Push(all, s)
    BY <1>1, KeptOne
  <2>3. Push(all, s) = Kept(table, samples \o <<s>>)
    BY <1>1, KeptPush
  <2> QED
    BY <1>1, <2>1, <2>2, <2>3, Zenon DEF KeepsMore
<1> QED
  BY <1>2, <1>3 DEF AtMostOne

LEMMA SplitAt ==
  ASSUME NEW T, NEW ss \in Seq(T), NEW m \in 1..Len(ss), NEW k \in 0..Len(ss), k = m - 1
  PROVE  /\ SubSeq(ss, 1, m) = Append(SubSeq(ss, 1, k), ss[m])
         /\ ss = SubSeq(ss, 1, m) \o SubSeq(ss, m + 1, Len(ss))
<1>1. SubSeq(ss, 1, m) = Append(SubSeq(ss, 1, k), ss[m])
  OBVIOUS
<1>2. ss = SubSeq(ss, 1, m) \o SubSeq(ss, m + 1, Len(ss))
  OBVIOUS
<1> QED
  BY <1>1, <1>2

(* What the first sequences come to, and one more, and the rest.           *)
LEMMA FlattenPrefix ==
  ASSUME NEW S, NEW ss \in Seq(Seq(S)), NEW m \in 1..Len(ss), NEW k \in 0..Len(ss), k = m - 1
  PROVE  /\ FlattenSeq(SubSeq(ss, 1, m)) = FlattenSeq(SubSeq(ss, 1, k)) \o ss[m]
         /\ FlattenSeq(ss) = FlattenSeq(SubSeq(ss, 1, m)) \o FlattenSeq(SubSeq(ss, m + 1, Len(ss)))
         /\ FlattenSeq(SubSeq(ss, 1, k)) \in Seq(S)
         /\ FlattenSeq(SubSeq(ss, m + 1, Len(ss))) \in Seq(S)
<1>1. PICK tt \in Seq(Seq(S)), uu \in Seq(Seq(S)), vv \in Seq(Seq(S)), s \in Seq(S) :
        /\ tt = SubSeq(ss, 1, k) /\ uu = SubSeq(ss, 1, m)
        /\ vv = SubSeq(ss, m + 1, Len(ss)) /\ s = ss[m]
  <2>1. /\ SubSeq(ss, 1, k) \in Seq(Seq(S)) /\ SubSeq(ss, 1, m) \in Seq(Seq(S))
        /\ SubSeq(ss, m + 1, Len(ss)) \in Seq(Seq(S)) /\ ss[m] \in Seq(S)
    OBVIOUS
  <2> QED
    BY <2>1
<1>2. uu = Append(tt, s) /\ ss = uu \o vv
  <2>1. /\ SubSeq(ss, 1, m) = Append(SubSeq(ss, 1, k), ss[m])
        /\ ss = SubSeq(ss, 1, m) \o SubSeq(ss, m + 1, Len(ss))
    BY SplitAt
  <2> QED
    BY <1>1, <2>1, Zenon
<1>3. FlattenSeq(uu) = FlattenSeq(tt) \o s
  BY <1>2, FlattenAppend
<1>4. FlattenSeq(ss) = FlattenSeq(uu) \o FlattenSeq(vv)
  BY <1>2, FlattenConcat
<1>5. FlattenSeq(tt) \in Seq(S) /\ FlattenSeq(vv) \in Seq(S)
  BY FlattenType
<1> QED
  BY <1>1, <1>3, <1>4, <1>5
=============================================================================
