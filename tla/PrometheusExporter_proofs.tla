---------------------- MODULE PrometheusExporter_proofs ----------------------
(***************************************************************************)
(* Theorems about PrometheusExporter, for every set of metrics, keys and   *)
(* amounts, any number of overlapping scrapes and any size of the buffers. *)
(***************************************************************************)
EXTENDS PrometheusExporter, SequenceTheorems, WellFoundedInduction, TLAPS

-----------------------------------------------------------------------------
(* Sums                                                                    *)

\* A set of numbers that is not empty has a least element.
LEMMA Least ==
  ASSUME NEW T, T \subseteq Nat, T # {}
  PROVE  \E x \in T : \A y \in T : x <= y
<1> DEFINE R == {ss \in Nat \X Nat : ss[1] < ss[2]}
<1>1. IsWellFoundedOn(R, Nat)
  BY NatLessThanWellFounded DEF OpToRel
<1> HIDE DEF R
<1>2. PICK x \in T : \A y \in T : ~ (<<y, x>> \in R)
  BY <1>1, WFMin
<1>3. \A y \in T : ~ (y < x)
  BY <1>2 DEF R
<1> QED
  BY <1>3

\* What holds of 0 and of each number after one of which it holds, holds of all up to n.
LEMMA UpTo ==
  ASSUME NEW n \in Nat, NEW T, 0 \in T, \A i \in 1 .. n : i - 1 \in T => i \in T
  PROVE  \A i \in 0 .. n : i \in T
<1> DEFINE U == {i \in 0 .. n : i \notin T}
<1> SUFFICES ASSUME U # {} PROVE FALSE
  OBVIOUS
<1>0. U \subseteq Nat
  OBVIOUS
<1>1. PICK x \in U : \A y \in U : x <= y
  <2> HIDE DEF U
  <2> QED
    BY <1>0, Least
<1>2. x \in 1 .. n /\ x \notin T
  BY <1>1
<1>3. x - 1 \in U /\ ~ (x <= x - 1)
  BY <1>2
<1> QED
  BY <1>1, <1>3

\* Added returns the last of the running sums.
LEMMA AddedRuns ==
  ASSUME NEW w \in Seq(Int)
  PROVE  \E p \in [0 .. Len(w) -> Int] :
           /\ p[0] = 0 /\ \A i \in 1 .. Len(w) : p[i] = p[i - 1] + w[i]
           /\ Added(w) = p[Len(w)]
<1> DEFINE N == Len(w)
           Runs(n, p) == p[0] = 0 /\ \A i \in 1 .. n : p[i] = p[i - 1] + w[i]
           T == {n \in 0 .. N : \E p \in [0 .. n -> Int] : Runs(n, p)}
           Sums(g) == g = [n \in 0 .. Len(w) |-> IF n = 0 THEN 0 ELSE g[n - 1] + w[n]]
           s == CHOOSE g : Sums(g)
<1>1. N \in Nat /\ \A i \in 1 .. N : w[i] \in Int
  BY LenProperties, ElementOfSeq
<1>2. 0 \in T
  <2>1. [i \in 0 .. 0 |-> 0] \in [0 .. 0 -> Int] /\ Runs(0, [i \in 0 .. 0 |-> 0])
    OBVIOUS
  <2> HIDE DEF Runs
  <2>2. \E p \in [0 .. 0 -> Int] : Runs(0, p)
    BY <2>1
  <2> QED
    BY <1>1, <2>2
<1>3. ASSUME NEW n \in 1 .. N, n - 1 \in T PROVE n \in T
  <2>1. PICK p \in [0 .. n - 1 -> Int] : Runs(n - 1, p)
    BY <1>3
  <2> DEFINE q == [i \in 0 .. n |-> IF i = n THEN p[n - 1] + w[n] ELSE p[i]]
  <2>2. w[n] \in Int /\ n \in Nat /\ p[n - 1] \in Int
    BY <1>1
  <2>3. q \in [0 .. n -> Int]
    BY <2>2
  <2>4. Runs(n, q)
    BY <2>1, <2>2
  <2> HIDE DEF Runs, q
  <2>5. \E g \in [0 .. n -> Int] : Runs(n, g)
    BY <2>3, <2>4
  <2> QED
    BY <1>1, <2>5
<1>4. PICK p \in [0 .. N -> Int] : Runs(N, p)
  <2> HIDE DEF T, N
  <2>1. \A i \in 0 .. N : i \in T
    BY <1>1, <1>2, <1>3, UpTo
  <2>2. N \in T
    BY <1>1, <2>1
  <2> QED
    BY <2>2 DEF T
<1>5. Sums(p)
  <2>1. \A n \in 0 .. N : p[n] = IF n = 0 THEN 0 ELSE p[n - 1] + w[n]
    BY <1>1, <1>4
  <2> QED
    BY <2>1, <1>4
<1>6. Sums(s)
  <2> HIDE DEF Sums
  <2> QED
    BY <1>5
<1>7. Added(w) = s[N]
  BY DEF Added
<1> HIDE DEF s
<1>8. s[0] = 0 /\ \A n \in 1 .. N : s[n] = s[n - 1] + w[n]
  <2>1. \A n \in 0 .. N : s[n] = IF n = 0 THEN 0 ELSE s[n - 1] + w[n]
    BY <1>6
  <2> QED
    BY <2>1, <1>1
<1>9. \A n \in 0 .. N : n \in {i \in 0 .. N : s[i] \in Int}
  <2> DEFINE I == {i \in 0 .. N : s[i] \in Int}
  <2>1. 0 \in I
    BY <1>1, <1>8
  <2>2. \A n \in 1 .. N : n - 1 \in I => n \in I
    BY <1>1, <1>8
  <2> HIDE DEF I, N
  <2>3. \A n \in 0 .. N : n \in I
    BY <1>1, <2>1, <2>2, UpTo
  <2> QED
    BY <2>3 DEF I
<1>10. s \in [0 .. N -> Int]
  <2>1. s = [n \in 0 .. N |-> s[n]]
    BY <1>6
  <2> QED
    BY <2>1, <1>9
<1> QED
  BY <1>7, <1>8, <1>10

\* A sum of numbers is a number.
LEMMA AddedIsInt ==
  ASSUME NEW w \in Seq(Int) PROVE Added(w) \in Int
BY AddedRuns, LenProperties

\* The sum grows by an amount that is appended.
LEMMA AddedAppend ==
  ASSUME NEW w \in Seq(Int), NEW x \in Seq(Int), Len(x) = Len(w) + 1,
         \A i \in 1 .. Len(w) : x[i] = w[i]
  PROVE  Added(x) = Added(w) + x[Len(x)]
<1>1. PICK p \in [0 .. Len(w) -> Int] :
        /\ p[0] = 0 /\ \A i \in 1 .. Len(w) : p[i] = p[i - 1] + w[i]
        /\ Added(w) = p[Len(w)]
  BY AddedRuns
<1>2. PICK q \in [0 .. Len(x) -> Int] :
        /\ q[0] = 0 /\ \A i \in 1 .. Len(x) : q[i] = q[i - 1] + x[i]
        /\ Added(x) = q[Len(x)]
  BY AddedRuns
<1> DEFINE T == {i \in 0 .. Len(w) : q[i] = p[i]}
<1>3. Len(w) \in Nat
  BY LenProperties
<1>4. 0 \in T
  BY <1>1, <1>2, <1>3
<1>5. \A i \in 1 .. Len(w) : i - 1 \in T => i \in T
  BY <1>1, <1>2, <1>3
<1> HIDE DEF T
<1>6. \A i \in 0 .. Len(w) : i \in T
  BY <1>3, <1>4, <1>5, UpTo
<1>7. q[Len(w)] = p[Len(w)]
  BY <1>3, <1>6 DEF T
<1>8. q[Len(x)] = q[Len(x) - 1] + x[Len(x)]
  BY <1>2, <1>3
<1> QED
  BY <1>1, <1>2, <1>3, <1>7, <1>8

\* The sum shrinks by the amount that is taken from the front.
LEMMA AddedTail ==
  ASSUME NEW w \in Seq(Int), NEW x \in Seq(Int), Len(w) = Len(x) + 1,
         \A i \in 1 .. Len(x) : x[i] = w[i + 1]
  PROVE  Added(w) = w[1] + Added(x)
<1>1. PICK p \in [0 .. Len(w) -> Int] :
        /\ p[0] = 0 /\ \A i \in 1 .. Len(w) : p[i] = p[i - 1] + w[i]
        /\ Added(w) = p[Len(w)]
  BY AddedRuns
<1>2. PICK q \in [0 .. Len(x) -> Int] :
        /\ q[0] = 0 /\ \A i \in 1 .. Len(x) : q[i] = q[i - 1] + x[i]
        /\ Added(x) = q[Len(x)]
  BY AddedRuns
<1> DEFINE T == {i \in 0 .. Len(x) : p[i + 1] = w[1] + q[i]}
<1>3. Len(x) \in Nat /\ \A i \in 1 .. Len(w) : w[i] \in Int
  BY LenProperties, ElementOfSeq
<1>4. 0 \in T
  BY <1>1, <1>2, <1>3
<1>5. \A i \in 1 .. Len(x) : i - 1 \in T => i \in T
  <2> TAKE i \in 1 .. Len(x)
  <2>0. /\ i \in 0 .. Len(x) /\ i - 1 \in 0 .. Len(x) /\ i \in 0 .. Len(w)
        /\ 1 \in 1 .. Len(w) /\ i + 1 \in 1 .. Len(w) /\ (i + 1) - 1 = i
    BY <1>3
  <2>1. p[i + 1] = p[i] + w[i + 1] /\ q[i] = q[i - 1] + x[i] /\ x[i] = w[i + 1]
    BY <1>1, <1>2, <2>0
  <2>2. p[i] \in Int /\ q[i] \in Int /\ q[i - 1] \in Int /\ w[1] \in Int /\ w[i + 1] \in Int
    BY <1>3, <2>0
  <2> QED
    BY <2>1, <2>2
<1> HIDE DEF T
<1>6. \A i \in 0 .. Len(x) : i \in T
  BY <1>3, <1>4, <1>5, UpTo
<1>7. p[Len(x) + 1] = w[1] + q[Len(x)]
  BY <1>3, <1>6 DEF T
<1> QED
  BY <1>1, <1>2, <1>7

\* The sum changes as much as the one amount that is another.
LEMMA AddedChange ==
  ASSUME NEW w \in Seq(Int), NEW x \in Seq(Int), Len(x) = Len(w), NEW d \in 1 .. Len(w),
         \A i \in 1 .. Len(w) : i # d => x[i] = w[i]
  PROVE  Added(x) = Added(w) - w[d] + x[d]
<1>1. PICK p \in [0 .. Len(w) -> Int] :
        /\ p[0] = 0 /\ \A i \in 1 .. Len(w) : p[i] = p[i - 1] + w[i]
        /\ Added(w) = p[Len(w)]
  BY AddedRuns
<1>2. PICK q \in [0 .. Len(x) -> Int] :
        /\ q[0] = 0 /\ \A i \in 1 .. Len(x) : q[i] = q[i - 1] + x[i]
        /\ Added(x) = q[Len(x)]
  BY AddedRuns
<1>3. Len(w) \in Nat /\ w[d] \in Int /\ x[d] \in Int
  BY LenProperties, ElementOfSeq
<1>4. PICK c \in Int : c = x[d] - w[d]
  BY <1>3
<1> DEFINE T == {i \in 0 .. Len(w) : IF i < d THEN q[i] = p[i] ELSE q[i] = p[i] + c}
<1>5. 0 \in T
  BY <1>1, <1>2, <1>3
<1>6. \A i \in 1 .. Len(w) : i - 1 \in T => i \in T
  <2> TAKE i \in 1 .. Len(w)
  <2>1. /\ i \in 0 .. Len(w) /\ i - 1 \in 0 .. Len(w)
        /\ i \in 0 .. Len(x) /\ i - 1 \in 0 .. Len(x)
    BY <1>3
  <2>2. p[i] = p[i - 1] + w[i] /\ q[i] = q[i - 1] + x[i] /\ (i # d => x[i] = w[i])
    BY <1>1, <1>2
  <2>3. /\ p[i] \in Int /\ p[i - 1] \in Int /\ q[i] \in Int /\ q[i - 1] \in Int
        /\ w[i] \in Int /\ x[i] \in Int
    BY <2>1, ElementOfSeq
  <2>4. CASE i < d
    BY <1>3, <2>1, <2>2, <2>3, <2>4
  <2>5. CASE i = d
    <3>1. i - 1 < d /\ ~ (i < d) /\ x[i] = w[i] + c
      BY <1>3, <1>4, <2>5
    <3>2. q[i - 1] = p[i - 1] => q[i] = p[i] + c
      <4>1. p[i] = p[i - 1] + w[i] /\ q[i] = q[i - 1] + (w[i] + c)
        BY <2>2, <3>1
      <4>2. \A pp, ww \in Int : pp + (ww + c) = (pp + ww) + c
        OBVIOUS
      <4>3. p[i - 1] + (w[i] + c) = (p[i - 1] + w[i]) + c
        BY <2>3, <4>2
      <4> QED
        BY <4>1, <4>3
    <3> QED
      BY <2>1, <3>1, <3>2
  <2>6. CASE i > d
    <3>1. ~ (i - 1 < d) /\ ~ (i < d) /\ x[i] = w[i]
      BY <1>3, <2>2, <2>6
    <3>2. q[i - 1] = p[i - 1] + c => q[i] = p[i] + c
      <4>1. p[i] = p[i - 1] + w[i] /\ q[i] = q[i - 1] + w[i]
        BY <2>2, <3>1
      <4>2. \A pp, qq, ww \in Int : qq = pp + c => qq + ww = (pp + ww) + c
        OBVIOUS
      <4>3. q[i - 1] = p[i - 1] + c => q[i - 1] + w[i] = (p[i - 1] + w[i]) + c
        BY <2>3, <4>2
      <4> QED
        BY <4>1, <4>3
    <3> QED
      BY <2>1, <3>1, <3>2
  <2> QED
    BY <1>3, <2>4, <2>5, <2>6
<1> HIDE DEF T
<1>7. \A i \in 0 .. Len(w) : i \in T
  BY <1>3, <1>5, <1>6, UpTo
<1>8. q[Len(w)] = p[Len(w)] + c
  <2>1. Len(w) \in T /\ ~ (Len(w) < d)
    BY <1>3, <1>7
  <2> QED
    BY <2>1 DEF T
<1>9. Added(x) = Added(w) + c /\ Added(w) \in Int
  BY <1>1, <1>2, <1>3, <1>8
<1> QED
  BY <1>3, <1>4, <1>9

\* Amounts none of which is negative have a sum that is not.
LEMMA AddedNat ==
  ASSUME NEW w \in Seq(Int), \A i \in 1 .. Len(w) : w[i] >= 0
  PROVE  Added(w) >= 0
<1>1. PICK p \in [0 .. Len(w) -> Int] :
        /\ p[0] = 0 /\ \A i \in 1 .. Len(w) : p[i] = p[i - 1] + w[i]
        /\ Added(w) = p[Len(w)]
  BY AddedRuns
<1> DEFINE T == {i \in 0 .. Len(w) : p[i] >= 0}
<1>2. Len(w) \in Nat /\ \A i \in 1 .. Len(w) : w[i] \in Int
  BY LenProperties, ElementOfSeq
<1>3. 0 \in T
  BY <1>1, <1>2
<1>4. \A i \in 1 .. Len(w) : i - 1 \in T => i \in T
  <2> TAKE i \in 1 .. Len(w)
  <2>1. i - 1 \in 0 .. Len(w) /\ p[i - 1] \in Int /\ w[i] \in Int
    BY <1>2
  <2>2. p[i] = p[i - 1] + w[i]
    BY <1>1
  <2>3. p[i - 1] >= 0 => p[i] >= 0
    BY <1>2, <2>1, <2>2
  <2> QED
    BY <2>3
<1> HIDE DEF T
<1>5. \A i \in 0 .. Len(w) : i \in T
  BY <1>2, <1>3, <1>4, UpTo
<1> QED
  BY <1>1, <1>2, <1>5 DEF T

\* The sum of zeros, as many or as few as there are.
LEMMA AddedZeros ==
  ASSUME NEW w \in Seq(Int), \A i \in 1 .. Len(w) : w[i] = 0
  PROVE  Added(w) = 0
<1>1. PICK p \in [0 .. Len(w) -> Int] :
        /\ p[0] = 0 /\ \A i \in 1 .. Len(w) : p[i] = p[i - 1] + w[i]
        /\ Added(w) = p[Len(w)]
  BY AddedRuns
<1> DEFINE T == {i \in 0 .. Len(w) : p[i] = 0}
<1>2. Len(w) \in Nat
  BY LenProperties
<1>3. 0 \in T
  BY <1>1, <1>2
<1>4. \A i \in 1 .. Len(w) : i - 1 \in T => i \in T
  BY <1>1, <1>2
<1> HIDE DEF T
<1>5. \A i \in 0 .. Len(w) : i \in T
  BY <1>2, <1>3, <1>4, UpTo
<1> QED
  BY <1>1, <1>2, <1>5 DEF T

-----------------------------------------------------------------------------
(* Sums of values                                                          *)

\* A function on an initial segment of the numbers is a sequence.
LEMMA FunctionIsSequence ==
  ASSUME NEW S, NEW n \in Nat, NEW f \in [1 .. n -> S]
  PROVE  f \in Seq(S) /\ Len(f) = n
BY SeqDef

\* An array with a value at its end.
LEMMA OneMore ==
  ASSUME NEW b \in Seq(Value), NEW n \in Nat, n = Len(b), NEW v \in Value
  PROVE  \E more \in Seq(Value) :
           /\ more = Append(b, v) /\ more # <<>> /\ Len(more) = n + 1
           /\ \A i \in 1 .. n : more[i] = b[i]
           /\ more[n + 1] = v
<1>1. PICK more \in Seq(Value) :
        /\ more = Append(b, v) /\ Len(more) = Len(b) + 1
        /\ \A i \in 1 .. Len(b) : more[i] = b[i]
        /\ more[Len(b) + 1] = v
  BY AppendProperties
<1>2. more # <<>>
  BY <1>1, EmptySeq
<1> QED
  BY <1>1, <1>2

\* What the values of a batch add to the sum over the keys, one after the other.
Shares(m, batch, keys) == [i \in DOMAIN batch |-> Share(m, batch[i], keys)]

\* So is the share that a value has in a series.
LEMMA ShareIsInt ==
  ASSUME NEW m, NEW v \in Value, NEW keys
  PROVE  Share(m, v, keys) \in Int
<1>1. v.amount \in Int
  BY AmountsAssumption DEF Value
<1> QED
  BY <1>1 DEF Share

\* The shares of a batch, one for each value.
LEMMA SharesAre ==
  ASSUME NEW m, NEW batch \in Seq(Value), NEW keys
  PROVE  /\ Shares(m, batch, keys) \in Seq(Int) /\ Len(Shares(m, batch, keys)) = Len(batch)
         /\ \A i \in 1 .. Len(batch) : Shares(m, batch, keys)[i] = Share(m, batch[i], keys)
         /\ SumOf(m, batch, keys) = Added(Shares(m, batch, keys))
<1>1. DOMAIN batch = 1 .. Len(batch)
  BY LenProperties
<1>2. Len(batch) \in Nat /\ \A i \in 1 .. Len(batch) : batch[i] \in Value
  BY LenProperties, ElementOfSeq
<1>3. Shares(m, batch, keys) \in [1 .. Len(batch) -> Int]
  BY <1>1, <1>2, ShareIsInt DEF Shares
<1>4. \A i \in 1 .. Len(batch) : Shares(m, batch, keys)[i] = Share(m, batch[i], keys)
  BY <1>1 DEF Shares
<1>5. SumOf(m, batch, keys) = Added(Shares(m, batch, keys))
  BY DEF SumOf, Shares
<1> QED
  BY <1>2, <1>3, <1>4, <1>5, FunctionIsSequence

\* The sum of a batch is a number.
LEMMA SumIsInt ==
  ASSUME NEW m, NEW batch \in Seq(Value), NEW keys
  PROVE  SumOf(m, batch, keys) \in Int
BY SharesAre, AddedIsInt

\* No values add up to nothing.
LEMMA SumOfNone ==
  ASSUME NEW m, NEW keys
  PROVE  SumOf(m, <<>>, keys) = 0
<1>1. <<>> \in Seq(Value) /\ Len(<<>>) = 0
  BY EmptySeq
<1>2. /\ Shares(m, <<>>, keys) \in Seq(Int) /\ Len(Shares(m, <<>>, keys)) = 0
      /\ SumOf(m, <<>>, keys) = Added(Shares(m, <<>>, keys))
  BY <1>1, SharesAre
<1> QED
  BY <1>2, AddedZeros

\* A value at the end adds its share.
LEMMA SumOfAppended ==
  ASSUME NEW m, NEW batch \in Seq(Value), NEW v \in Value, NEW keys
  PROVE  SumOf(m, Append(batch, v), keys) = SumOf(m, batch, keys) + Share(m, v, keys)
<1>1. PICK more \in Seq(Value) :
        /\ more = Append(batch, v) /\ Len(more) = Len(batch) + 1
        /\ \A i \in 1 .. Len(batch) : more[i] = batch[i]
        /\ more[Len(batch) + 1] = v
  BY AppendProperties
<1>2. Len(batch) \in Nat
  BY LenProperties
<1> DEFINE w == Shares(m, batch, keys)
           x == Shares(m, more, keys)
<1>3. /\ w \in Seq(Int) /\ Len(w) = Len(batch) /\ SumOf(m, batch, keys) = Added(w)
      /\ \A i \in 1 .. Len(batch) : w[i] = Share(m, batch[i], keys)
  BY SharesAre
<1>4. /\ x \in Seq(Int) /\ Len(x) = Len(more) /\ SumOf(m, more, keys) = Added(x)
      /\ \A i \in 1 .. Len(more) : x[i] = Share(m, more[i], keys)
  BY SharesAre
<1> HIDE DEF w, x
<1>5. \A i \in 1 .. Len(w) : x[i] = w[i]
  BY <1>1, <1>2, <1>3, <1>4
<1>6. Len(x) = Len(w) + 1 /\ x[Len(x)] = Share(m, v, keys)
  BY <1>1, <1>2, <1>3, <1>4
<1> QED
  BY <1>1, <1>3, <1>4, <1>5, <1>6, AddedAppend

\* The first value has its share of the sum.
LEMMA SumOfTail ==
  ASSUME NEW m, NEW batch \in Seq(Value), batch # <<>>, NEW keys
  PROVE  SumOf(m, batch, keys) = Share(m, batch[1], keys) + SumOf(m, Tail(batch), keys)
<1>1. PICK rest \in Seq(Value) :
        /\ rest = Tail(batch) /\ Len(rest) = Len(batch) - 1
        /\ \A i \in 1 .. Len(rest) : rest[i] = batch[i + 1]
  BY HeadTailProperties
<1>2. Len(batch) \in Nat \ {0}
  BY LenProperties, EmptySeq
<1> DEFINE w == Shares(m, batch, keys)
           x == Shares(m, rest, keys)
<1>3. /\ w \in Seq(Int) /\ Len(w) = Len(batch) /\ SumOf(m, batch, keys) = Added(w)
      /\ \A i \in 1 .. Len(batch) : w[i] = Share(m, batch[i], keys)
  BY SharesAre
<1>4. /\ x \in Seq(Int) /\ Len(x) = Len(rest) /\ SumOf(m, rest, keys) = Added(x)
      /\ \A i \in 1 .. Len(rest) : x[i] = Share(m, rest[i], keys)
  BY SharesAre
<1> HIDE DEF w, x
<1>5. \A i \in 1 .. Len(x) : x[i] = w[i + 1]
  BY <1>1, <1>2, <1>3, <1>4
<1>6. Len(w) = Len(x) + 1 /\ w[1] = Share(m, batch[1], keys)
  BY <1>1, <1>2, <1>3, <1>4
<1> QED
  BY <1>1, <1>3, <1>4, <1>5, <1>6, AddedTail

\* Values of other keys add nothing.
LEMMA SumOfOthers ==
  ASSUME NEW m, NEW batch \in Seq(Value), NEW keys, KeysIn(batch) \cap keys = {}
  PROVE  SumOf(m, batch, keys) = 0
<1>1. DOMAIN batch = 1 .. Len(batch)
  BY LenProperties
<1>2. \A i \in 1 .. Len(batch) : batch[i].key \notin keys
  BY <1>1 DEF KeysIn, ToSet
<1>3. \A i \in 1 .. Len(batch) : Share(m, batch[i], keys) = 0
  BY <1>2 DEF Share
<1> QED
  BY <1>3, SharesAre, AddedZeros

\* Nothing makes a counter smaller.
LEMMA SumOfCounter ==
  ASSUME NEW m, NEW batch \in Seq(Value), NEW keys, Type[m] = "counter"
  PROVE  SumOf(m, batch, keys) >= 0
<1>1. ASSUME NEW i \in 1 .. Len(batch) PROVE Share(m, batch[i], keys) >= 0
  <2>1. batch[i] \in Value
    BY ElementOfSeq
  <2>2. batch[i].amount \in Int
    BY <2>1, AmountsAssumption DEF Value
  <2> QED
    BY <2>2 DEF Share
<1> DEFINE w == Shares(m, batch, keys)
<1>2. /\ w \in Seq(Int) /\ Len(w) = Len(batch) /\ SumOf(m, batch, keys) = Added(w)
      /\ \A i \in 1 .. Len(batch) : w[i] = Share(m, batch[i], keys)
  BY SharesAre
<1> HIDE DEF w
<1> QED
  BY <1>1, <1>2, AddedNat

-----------------------------------------------------------------------------
(* The keys of a batch                                                     *)

\* A key of a batch has a first value in it.
LEMMA FirstIsInBatch ==
  ASSUME NEW batch \in Seq(Value), NEW k \in KeysIn(batch)
  PROVE  FirstOf(batch, k) \in 1 .. Len(batch)
<1> DEFINE I == {i \in 1 .. Len(batch) : batch[i].key = k}
<1>1. DOMAIN batch = 1 .. Len(batch)
  BY LenProperties
<1>2. I # {} /\ I \subseteq Nat
  <2>1. \E i \in 1 .. Len(batch) : batch[i].key = k
    BY <1>1 DEF KeysIn, ToSet
  <2> QED
    BY <2>1, LenProperties
<1>3. \E i \in I : \A j \in I : i <= j
  <2> HIDE DEF I
  <2> QED
    BY <1>2, Least
<1>4. \E i \in 1 .. Len(batch) :
        batch[i].key = k /\ \A j \in 1 .. Len(batch) : batch[j].key = k => i <= j
  BY <1>3
<1> QED
  BY <1>1, <1>4 DEF FirstOf

\* The last key of a series in a batch is one of it.
LEMMA LastKeyIsOne ==
  ASSUME NEW batch \in Seq(Value), NEW l, KeysIn(batch) \cap KeysOf(l) # {}
  PROVE  LastKey(batch, l) \in KeysIn(batch) \cap KeysOf(l)
<1> DEFINE K == KeysIn(batch) \cap KeysOf(l)
           I == {Len(batch) - FirstOf(batch, k) : k \in K}
<1>1. Len(batch) \in Nat /\ \A k \in K : FirstOf(batch, k) \in 1 .. Len(batch)
  BY LenProperties, FirstIsInBatch
<1>2. I # {} /\ I \subseteq Nat
  BY <1>1
<1>3. PICK x \in I : \A y \in I : x <= y
  <2> HIDE DEF I
  <2> QED
    BY <1>2, Least
<1>4. PICK k \in K : x = Len(batch) - FirstOf(batch, k)
  OBVIOUS
<1>5. \A j \in K : FirstOf(batch, j) <= FirstOf(batch, k)
  <2> TAKE j \in K
  <2>1. Len(batch) - FirstOf(batch, k) <= Len(batch) - FirstOf(batch, j)
    BY <1>3, <1>4
  <2>2. FirstOf(batch, j) \in Int /\ FirstOf(batch, k) \in Int
    BY <1>1
  <2> QED
    BY <1>1, <2>1, <2>2
<1>6. \E i \in K : \A j \in K : FirstOf(batch, j) <= FirstOf(batch, i)
  BY <1>5
<1> QED
  BY <1>6 DEF LastKey

-----------------------------------------------------------------------------
(* Types                                                                   *)

\* A buffer stays one when a value is put into it.
LEMMA BufferedIsBuffer ==
  ASSUME NEW buffer \in Seq(Value), NEW v \in Value
  PROVE  Buffered(buffer, v) \in Seq(Value)
<1>1. PICK more \in Seq(Value) : more = Append(buffer, v) /\ Len(more) = Len(buffer) + 1
  BY AppendProperties
<1>2. Len(buffer) \in Nat
  BY LenProperties
<1>3. more # <<>>
  BY <1>1, <1>2, EmptySeq
<1>4. Tail(more) \in Seq(Value)
  BY <1>3, HeadTailProperties
<1> QED
  BY <1>1, <1>4 DEF Buffered

\* A flush leaves sums and totals numbers.
LEMMA FlushKeepsTypes ==
  ASSUME TypeOK
  PROVE  /\ FlushedSeries \in [Metrics -> [Series -> Int]]
         /\ [m \in Metrics |-> Accumulated(m, pending[m])] \in [Metrics -> [Keys -> Int]]
<1>t. /\ pending \in [Metrics -> Seq(Value)] /\ gaugeValues \in [Metrics -> [Keys -> Int]]
      /\ series \in [Metrics -> [Series -> Int]]
  BY DEF TypeOK
<1>1. ASSUME NEW m \in Metrics, NEW keys PROVE SumOf(m, pending[m], keys) \in Int
  BY <1>t, SumIsInt
<1>2. ASSUME NEW m \in Metrics, NEW k \in Keys PROVE Final(m, pending[m], k) \in Int
  <2>1. SumOf(m, pending[m], {k}) \in Int /\ gaugeValues[m][k] \in Int
    BY <1>1, <1>t
  <2> QED
    BY <2>1 DEF Final
<1>3. ASSUME NEW m \in Metrics, NEW l \in Series
      PROVE  /\ Increased(m, pending[m])[l] \in Int
             /\ SetTo(m, pending[m])[l] \in Int
  <2>1. SumOf(m, pending[m], KeysOf(l)) \in Int /\ series[m][l] \in Int
    BY <1>1, <1>t
  <2>2. Increased(m, pending[m])[l] \in Int
    BY <2>1 DEF Increased
  <2>3. ASSUME KeysIn(pending[m]) \cap KeysOf(l) # {} PROVE LastKey(pending[m], l) \in Keys
    BY <2>3, <1>t, LastKeyIsOne DEF KeysOf
  <2> QED
    BY <2>1, <2>2, <2>3, <1>2 DEF SetTo
<1>4. ASSUME NEW m \in Metrics PROVE FlushedSeries[m] \in [Series -> Int]
  <2>1. Increased(m, pending[m]) \in [Series -> Int]
    BY <1>3 DEF Increased
  <2>2. SetTo(m, pending[m]) \in [Series -> Int]
    BY <1>3 DEF SetTo
  <2> QED
    BY <2>1, <2>2 DEF FlushedSeries
<1>5. ASSUME NEW m \in Metrics PROVE Accumulated(m, pending[m]) \in [Keys -> Int]
  BY <1>t, <1>2 DEF Accumulated
<1> QED
  BY <1>4, <1>5 DEF FlushedSeries

\* A value of an instrument, and what becomes of it.
LEMMA RecordedValue ==
  ASSUME TypeOK, NEW m \in Metrics, NEW k \in Keys, NEW a \in Amounts, OnMetricRecorded(m, k, a)
  PROVE  \E v \in Value :
           /\ v = [key |-> k, amount |-> a]
           /\ pending' = [pending EXCEPT ![m] = Buffered(pending[m], v)]
           /\ sent' = [sent EXCEPT ![m] = Append(sent[m], v)]
           /\ pending[m] \in Seq(Value) /\ sent[m] \in Seq(Value)
<1>1. [key |-> k, amount |-> a] \in Value
  BY DEF Value
<1>2. /\ pending' = [pending EXCEPT ![m] = Buffered(pending[m], [key |-> k, amount |-> a])]
      /\ sent' = [sent EXCEPT ![m] = Append(sent[m], [key |-> k, amount |-> a])]
  BY DEF OnMetricRecorded
<1>3. pending[m] \in Seq(Value) /\ sent[m] \in Seq(Value)
  BY DEF TypeOK
<1> QED
  BY <1>1, <1>2, <1>3

\* The buffer b holds the newest of the values t, as many as fit since f of them had been
\* flushed; those of the positions d, culled, are older.
Window(t, b, f, d) ==
  /\ f <= Len(t)
  /\ Len(b) = IF Len(t) - f > MaxPending THEN MaxPending ELSE Len(t) - f
  /\ \A i \in 1 .. Len(b) : b[i] = t[Len(t) - Len(b) + i]
  /\ d \subseteq 1 .. Len(t) - Len(b)

Buffers == \A m \in Metrics : Window(sent[m], pending[m], flushed[m], dropped[m])

\* The variables begin with values of their kinds.
LEMMA TypeInit ==
  ASSUME Init PROVE TypeOK
<1>1. pending \in [Metrics -> Seq(Value)] /\ sent \in [Metrics -> Seq(Value)]
  BY EmptySeq DEF Init
<1>2. /\ gaugeValues \in [Metrics -> [Keys -> Int]]
      /\ NoSeries \in [Metrics -> [Series -> Int]]
  BY DEF Init, NoSeries
<1>3. /\ series \in [Metrics -> [Series -> Int]]
      /\ result \in [Scrapes -> [Metrics -> [Series -> Int]]]
      /\ floor \in [Scrapes -> [Metrics -> [Series -> Int]]]
  BY <1>2 DEF Init
<1>4. closed \in BOOLEAN
  BY DEF Init
<1>5. /\ state \in [Scrapes -> {"new", "reading", "done", "failed"}]
      /\ unread \in [Scrapes -> SUBSET Metrics] /\ instruments \subseteq Metrics
      /\ dropped \in [Metrics -> SUBSET Nat] /\ flushed \in [Metrics -> Nat]
  BY DEF Init
<1> QED
  BY <1>1, <1>2, <1>3, <1>4, <1>5 DEF TypeOK

\* A step keeps them.
LEMMA TypeSteps ==
  ASSUME TypeOK, Buffers, [Next]_vars PROVE TypeOK'
<1>t. /\ pending \in [Metrics -> Seq(Value)] /\ sent \in [Metrics -> Seq(Value)]
      /\ dropped \in [Metrics -> SUBSET Nat] /\ flushed \in [Metrics -> Nat]
      /\ series \in [Metrics -> [Series -> Int]]
  BY DEF TypeOK
<1>s. [m \in Metrics |-> Len(sent[m])] \in [Metrics -> Nat]
  BY <1>t, LenProperties
<1>e. [m \in Metrics |-> <<>>] \in [Metrics -> Seq(Value)]
  BY EmptySeq
<1>1. ASSUME NEW m \in Metrics, OnDescriptorRegistered(m) PROVE TypeOK'
  BY <1>1 DEF TypeOK, OnDescriptorRegistered, bufferVars, flushVars, scrapeVars
<1>2. ASSUME NEW m \in Metrics, NEW k \in Keys, NEW a \in Amounts, OnMetricRecorded(m, k, a)
      PROVE  TypeOK'
  <2>1. PICK v \in Value :
          /\ pending' = [pending EXCEPT ![m] = Buffered(pending[m], v)]
          /\ sent' = [sent EXCEPT ![m] = Append(sent[m], v)]
    BY <1>2, RecordedValue
  <2>2. Buffered(pending[m], v) \in Seq(Value) /\ Append(sent[m], v) \in Seq(Value)
    BY <1>t, BufferedIsBuffer, AppendProperties
  <2>3. pending' \in [Metrics -> Seq(Value)] /\ sent' \in [Metrics -> Seq(Value)]
    BY <1>t, <2>1, <2>2
  <2>4. dropped' \in [Metrics -> SUBSET Nat]
    <3>1. /\ Len(pending[m]) \in Nat /\ Len(sent[m]) \in Nat
          /\ flushed[m] \in Nat /\ MaxPending \in Nat
      BY <1>t, LenProperties, BoundsAssumption
    <3>2. Len(pending[m]) <= Len(sent[m])
      <4>1. Len(pending[m]) = IF Len(sent[m]) - flushed[m] > MaxPending THEN MaxPending
                             ELSE Len(sent[m]) - flushed[m]
        BY DEF Buffers, Window
      <4> QED
        BY <3>1, <4>1
    <3>3. CASE Len(pending[m]) < MaxPending
      BY <1>2, <1>t, <3>3 DEF OnMetricRecorded
    <3>4. CASE ~ (Len(pending[m]) < MaxPending)
      <4>1. dropped' = [dropped EXCEPT ![m] = @ \cup {Len(sent[m]) + 1 - MaxPending}]
        BY <1>2, <3>4 DEF OnMetricRecorded
      <4>2. Len(sent[m]) + 1 - MaxPending \in Nat
        BY <3>1, <3>2, <3>4
      <4> QED
        BY <1>t, <4>1, <4>2
    <3> QED
      BY <3>3, <3>4
  <2> QED
    BY <1>2, <2>3, <2>4 DEF TypeOK, OnMetricRecorded, flushVars, scrapeVars
<1>3. ASSUME NEW s \in Scrapes, GetMetrics(s) PROVE TypeOK'
  <2>1. /\ series' \in [Metrics -> [Series -> Int]]
        /\ gaugeValues' \in [Metrics -> [Keys -> Int]]
    BY <1>3, FlushKeepsTypes DEF GetMetrics
  <2>2. /\ pending' \in [Metrics -> Seq(Value)] /\ flushed' \in [Metrics -> Nat]
    BY <1>3, <1>s, <1>e DEF GetMetrics
  <2>3. /\ state' \in [Scrapes -> {"new", "reading", "done", "failed"}]
        /\ unread' \in [Scrapes -> SUBSET Metrics]
        /\ floor' \in [Scrapes -> [Metrics -> [Series -> Int]]]
    BY <1>3, <2>1 DEF TypeOK, GetMetrics
  <2> QED
    BY <1>3, <2>1, <2>2, <2>3 DEF TypeOK, GetMetrics
<1>4. ASSUME NEW s \in Scrapes, NEW m \in Metrics, ReadInstrument(s, m) PROVE TypeOK'
  <2>1. result' \in [Scrapes -> [Metrics -> [Series -> Int]]]
    BY <1>4, <1>t DEF TypeOK, ReadInstrument
  <2> QED
    BY <1>4, <2>1 DEF TypeOK, ReadInstrument, bufferVars, flushVars
<1>5. ASSUME NEW s \in Scrapes, GetMetricsReturns(s) \/ GetMetricsFails(s) PROVE TypeOK'
  BY <1>5 DEF TypeOK, GetMetricsReturns, GetMetricsFails, bufferVars, flushVars
<1>6. CASE Shutdown
  BY <1>6, <1>s, <1>e DEF TypeOK, Shutdown, scrapeVars
<1>7. CASE UNCHANGED vars
  BY <1>7 DEF TypeOK, vars, bufferVars, flushVars, scrapeVars
<1> QED
  BY <1>1, <1>2, <1>3, <1>4, <1>5, <1>6, <1>7 DEF Next

-----------------------------------------------------------------------------
(* The buffers                                                             *)

\* A buffer that is full loses its oldest value, any other none.
LEMMA BufferedHolds ==
  ASSUME NEW buffer \in Seq(Value), NEW v \in Value
  PROVE  \E c \in {0, 1} :
           /\ c = 0 <=> Len(buffer) < MaxPending
           /\ Len(Buffered(buffer, v)) = Len(buffer) + 1 - c
           /\ \A i \in 1 .. Len(buffer) + 1 - c :
                Buffered(buffer, v)[i] = IF i + c = Len(buffer) + 1 THEN v ELSE buffer[i + c]
<1>1. PICK more \in Seq(Value) :
        /\ more = Append(buffer, v) /\ Len(more) = Len(buffer) + 1
        /\ \A i \in 1 .. Len(buffer) : more[i] = buffer[i]
        /\ more[Len(buffer) + 1] = v
  BY AppendProperties
<1>2. Len(buffer) \in Nat /\ MaxPending \in Nat \ {0}
  BY LenProperties, BoundsAssumption
<1>3. more # <<>>
  BY <1>1, <1>2, EmptySeq
<1>4. /\ Len(Tail(more)) = Len(buffer)
      /\ \A i \in 1 .. Len(buffer) : Tail(more)[i] = more[i + 1]
  BY <1>1, <1>2, <1>3, HeadTailProperties
<1>5. CASE Len(buffer) < MaxPending
  <2>1. Buffered(buffer, v) = more
    BY <1>1, <1>2, <1>5 DEF Buffered
  <2>2. \A i \in 1 .. Len(buffer) + 1 - 0 :
          more[i] = IF i + 0 = Len(buffer) + 1 THEN v ELSE buffer[i + 0]
    BY <1>1, <1>2
  <2> QED
    BY <1>1, <1>2, <1>5, <2>1, <2>2
<1>6. CASE ~ (Len(buffer) < MaxPending)
  <2>1. Buffered(buffer, v) = Tail(more)
    BY <1>1, <1>2, <1>6 DEF Buffered
  <2>2. \A i \in 1 .. Len(buffer) + 1 - 1 :
          Tail(more)[i] = IF i + 1 = Len(buffer) + 1 THEN v ELSE buffer[i + 1]
    BY <1>1, <1>2, <1>4
  <2> QED
    BY <1>2, <1>4, <1>6, <2>1, <2>2
<1> QED
  BY <1>5, <1>6

\* The positions that are culled when one more value is recorded.
Culled(t, b, d) == IF Len(b) < MaxPending THEN d ELSE d \cup {Len(t) + 1 - MaxPending}

\* A value that is recorded moves the window.
LEMMA WindowMoves ==
  ASSUME NEW t \in Seq(Value), NEW b \in Seq(Value), NEW f \in Nat, NEW d, NEW v \in Value,
         Window(t, b, f, d)
  PROVE  Window(Append(t, v), Buffered(b, v), f, Culled(t, b, d))
<1>1. PICK n \in Nat, h \in Nat : n = Len(t) /\ h = Len(b)
  BY LenProperties
<1>2. MaxPending \in Nat \ {0}
  BY BoundsAssumption
<1>3. f <= n /\ h = IF n - f > MaxPending THEN MaxPending ELSE n - f
  BY <1>1 DEF Window
<1>4. \A i \in 1 .. h : b[i] = t[n - h + i]
  BY <1>1 DEF Window
<1>5. d \subseteq 1 .. n - h
  BY <1>1 DEF Window
<1>6. PICK t2 \in Seq(Value) :
        t2 = Append(t, v) /\ Len(t2) = n + 1 /\ t2[n + 1] = v /\ \A i \in 1 .. n : t2[i] = t[i]
  <2>1. PICK t2 \in Seq(Value) :
          /\ t2 = Append(t, v) /\ Len(t2) = Len(t) + 1
          /\ \A i \in 1 .. Len(t) : t2[i] = t[i]
          /\ t2[Len(t) + 1] = v
    BY AppendProperties
  <2> QED
    BY <1>1, <2>1
<1>7. PICK b2 \in Seq(Value), c \in {0, 1} :
        /\ b2 = Buffered(b, v) /\ (c = 0 <=> h < MaxPending) /\ Len(b2) = h + 1 - c
        /\ \A i \in 1 .. h + 1 - c : b2[i] = IF i + c = h + 1 THEN v ELSE b[i + c]
  <2>1. PICK c \in {0, 1} :
          /\ c = 0 <=> Len(b) < MaxPending
          /\ Len(Buffered(b, v)) = Len(b) + 1 - c
          /\ \A i \in 1 .. Len(b) + 1 - c :
               Buffered(b, v)[i] = IF i + c = Len(b) + 1 THEN v ELSE b[i + c]
    BY BufferedHolds
  <2>2. PICK b2 \in Seq(Value) : b2 = Buffered(b, v)
    BY BufferedIsBuffer
  <2>3. /\ c = 0 <=> h < MaxPending
        /\ Len(b2) = h + 1 - c
        /\ \A i \in 1 .. h + 1 - c : b2[i] = IF i + c = h + 1 THEN v ELSE b[i + c]
    BY <1>1, <2>1, <2>2
  <2> QED
    BY <2>2, <2>3
<1> DEFINE d2 == Culled(t, b, d)
<1>8. f <= n + 1 /\ h + 1 - c = IF n + 1 - f > MaxPending THEN MaxPending ELSE n + 1 - f
  BY <1>2, <1>3, <1>7
<1>9. ASSUME NEW i \in 1 .. h + 1 - c PROVE b2[i] = t2[(n + 1) - (h + 1 - c) + i]
  <2>1. i \in Nat /\ (n + 1) - (h + 1 - c) + i = n - h + (i + c)
    OBVIOUS
  <2>2. CASE i + c = h + 1
    <3>1. n - h + (i + c) = n + 1
      BY <2>2
    <3> QED
      BY <1>6, <1>7, <2>1, <2>2, <3>1
  <2>3. CASE i + c # h + 1
    <3>1. i + c \in 1 .. h
      BY <2>1, <2>3
    <3>2. n - h + (i + c) \in 1 .. n
      BY <1>2, <1>3, <3>1
    <3> QED
      BY <1>4, <1>6, <1>7, <2>1, <2>3, <3>1, <3>2
  <2> QED
    BY <2>2, <2>3
<1>10. d2 \subseteq 1 .. (n + 1) - (h + 1 - c)
  <2>1. n - h \in Nat
    BY <1>2, <1>3
  <2>2. CASE c = 0
    <3>1. d2 = d /\ (n + 1) - (h + 1 - c) = n - h
      BY <1>1, <1>7, <2>2 DEF Culled
    <3> QED
      BY <1>5, <3>1
  <2>3. CASE c = 1
    <3>1. h = MaxPending
      BY <1>2, <1>3, <1>7, <2>3
    <3>2. d2 = d \cup {n - h + 1} /\ (n + 1) - (h + 1 - c) = n - h + 1
      BY <1>1, <1>7, <2>3, <3>1 DEF Culled
    <3>3. \A x \in Nat : 1 .. x \subseteq 1 .. x + 1 /\ x + 1 \in 1 .. x + 1
      OBVIOUS
    <3> QED
      BY <1>5, <2>1, <3>2, <3>3
  <2> QED
    BY <2>2, <2>3
<1> HIDE DEF d2
<1>11. Window(t2, b2, f, d2)
  <2>1. Len(t2) = n + 1 /\ Len(b2) = h + 1 - c
    BY <1>6, <1>7
  <2>2. /\ f <= Len(t2)
        /\ Len(b2) = IF Len(t2) - f > MaxPending THEN MaxPending ELSE Len(t2) - f
    BY <1>8, <2>1
  <2>3. \A i \in 1 .. Len(b2) : b2[i] = t2[Len(t2) - Len(b2) + i]
    BY <1>9, <2>1
  <2>4. d2 \subseteq 1 .. Len(t2) - Len(b2)
    BY <1>10, <2>1
  <2> QED
    BY <2>2, <2>3, <2>4 DEF Window
<1> QED
  BY <1>6, <1>7, <1>11 DEF d2

\* A flush leaves an empty one.
LEMMA WindowEmptied ==
  ASSUME NEW t \in Seq(Value), NEW b \in Seq(Value), NEW f, NEW d, Window(t, b, f, d)
  PROVE  Window(t, <<>>, Len(t), d)
<1>1. PICK n \in Nat, h \in Nat : n = Len(t) /\ h = Len(b)
  BY LenProperties
<1>2. 1 .. n - h \subseteq 1 .. n - 0 /\ n <= n /\ MaxPending \in Nat \ {0}
  BY BoundsAssumption
<1>3. d \subseteq 1 .. n - 0
  BY <1>1, <1>2 DEF Window
<1>4. Len(<<>>) = 0 /\ n - n = 0 /\ 1 .. 0 = {}
  BY EmptySeq
<1> QED
  BY <1>1, <1>2, <1>3, <1>4 DEF Window

\* After a flush every buffer is empty, and all was flushed.
LEMMA FlushedBuffers ==
  ASSUME TypeOK, Buffers, pending' = [m \in Metrics |-> <<>>],
         flushed' = [m \in Metrics |-> Len(sent[m])], UNCHANGED <<sent, dropped>>
  PROVE  Buffers'
<1>1. ASSUME NEW m \in Metrics
      PROVE  Window(sent'[m], pending'[m], flushed'[m], dropped'[m])
  <2>1. sent[m] \in Seq(Value) /\ pending[m] \in Seq(Value)
    BY DEF TypeOK
  <2>2. Window(sent[m], <<>>, Len(sent[m]), dropped[m])
    BY <2>1, WindowEmptied DEF Buffers
  <2> QED
    BY <2>2
<1> QED
  BY <1>1 DEF Buffers

\* A step leaves in each buffer the newest values since the last flush.
LEMMA BufferSteps ==
  ASSUME TypeOK, Buffers, [Next]_vars PROVE Buffers'
<1>1. ASSUME NEW m \in Metrics, NEW k \in Keys, NEW a \in Amounts, OnMetricRecorded(m, k, a)
      PROVE  Buffers'
  <2>1. PICK v \in Value :
          /\ pending' = [pending EXCEPT ![m] = Buffered(pending[m], v)]
          /\ sent' = [sent EXCEPT ![m] = Append(sent[m], v)]
    BY <1>1, RecordedValue
  <2>2. /\ flushed' = flushed
        /\ dropped' = IF Len(pending[m]) < MaxPending THEN dropped
                      ELSE [dropped EXCEPT ![m] = @ \cup {Len(sent[m]) + 1 - MaxPending}]
    BY <1>1 DEF OnMetricRecorded, flushVars
  <2>3. /\ pending \in [Metrics -> Seq(Value)] /\ sent \in [Metrics -> Seq(Value)]
        /\ dropped \in [Metrics -> SUBSET Nat] /\ flushed \in [Metrics -> Nat]
    BY DEF TypeOK
  <2>4. ASSUME NEW n \in Metrics
        PROVE  Window(sent'[n], pending'[n], flushed'[n], dropped'[n])
    <3>1. Window(sent[n], pending[n], flushed[n], dropped[n])
      BY DEF Buffers
    <3>2. CASE n # m
      BY <2>1, <2>2, <2>3, <3>1, <3>2
    <3>3. CASE n = m
      <4>1. Window(Append(sent[m], v), Buffered(pending[m], v), flushed[m],
                   Culled(sent[m], pending[m], dropped[m]))
        BY <2>3, <3>1, <3>3, WindowMoves
      <4>2. dropped'[m] = Culled(sent[m], pending[m], dropped[m])
        BY <2>2, <2>3 DEF Culled
      <4>3. /\ sent'[m] = Append(sent[m], v) /\ pending'[m] = Buffered(pending[m], v)
            /\ flushed'[m] = flushed[m]
        BY <2>1, <2>2, <2>3
      <4> QED
        BY <3>3, <4>1, <4>2, <4>3
    <3> QED
      BY <3>2, <3>3
  <2> QED
    BY <2>4 DEF Buffers
<1>2. ASSUME NEW s \in Scrapes, GetMetrics(s) PROVE Buffers'
  BY <1>2, FlushedBuffers DEF GetMetrics
<1>3. CASE Shutdown
  BY <1>3, FlushedBuffers DEF Shutdown
<1>4. CASE UNCHANGED <<pending, sent, dropped, flushed>>
  BY <1>4 DEF Buffers
<1>5. ASSUME NEW m \in Metrics, OnDescriptorRegistered(m)
      PROVE  UNCHANGED <<pending, sent, dropped, flushed>>
  BY <1>5 DEF OnDescriptorRegistered, bufferVars, flushVars
<1>6. ASSUME NEW s \in Scrapes, NEW m \in Metrics, ReadInstrument(s, m)
      PROVE  UNCHANGED <<pending, sent, dropped, flushed>>
  BY <1>6 DEF ReadInstrument, bufferVars, flushVars
<1>7. ASSUME NEW s \in Scrapes, GetMetricsReturns(s) \/ GetMetricsFails(s)
      PROVE  UNCHANGED <<pending, sent, dropped, flushed>>
  BY <1>7 DEF GetMetricsReturns, GetMetricsFails, bufferVars, flushVars
<1>8. UNCHANGED vars => UNCHANGED <<pending, sent, dropped, flushed>>
  BY DEF vars, bufferVars, flushVars
<1> QED
  BY <1>1, <1>2, <1>3, <1>4, <1>5, <1>6, <1>7, <1>8 DEF Next

\* The buffers begin empty.
LEMMA BuffersInit ==
  ASSUME Init PROVE Buffers
<1>1. ASSUME NEW m \in Metrics PROVE Window(sent[m], pending[m], flushed[m], dropped[m])
  <2>1. sent[m] = <<>> /\ pending[m] = <<>> /\ flushed[m] = 0 /\ dropped[m] = {}
    BY DEF Init
  <2>2. Len(<<>>) = 0 /\ MaxPending \in Nat \ {0}
    BY EmptySeq, BoundsAssumption
  <2> QED
    BY <2>1, <2>2 DEF Window
<1> QED
  BY <1>1 DEF Buffers

\* The types and the buffers keep each other: what is culled has a position.
THEOREM BuffersCorrect == Spec => [](TypeOK /\ Buffers)
<1>1. Init => TypeOK /\ Buffers
  BY TypeInit, BuffersInit
<1>2. TypeOK /\ Buffers /\ [Next]_vars => (TypeOK /\ Buffers)'
  BY TypeSteps, BufferSteps
<1> QED
  BY <1>1, <1>2, PTL DEF Spec

\* A window is the end of what was sent, as much of it as fits.
LEMMA WindowIsNewest ==
  ASSUME NEW t \in Seq(Value), NEW b \in Seq(Value), NEW f \in Nat, NEW d, Window(t, b, f, d)
  PROVE  b = SubSeq(t, (IF Len(t) - f > MaxPending THEN Len(t) - MaxPending ELSE f) + 1, Len(t))
<1>1. PICK n \in Nat, h \in Nat : n = Len(t) /\ h = Len(b)
  BY LenProperties
<1>2. f <= n /\ h = IF n - f > MaxPending THEN MaxPending ELSE n - f
  BY <1>1 DEF Window
<1>3. \A i \in 1 .. h : b[i] = t[n - h + i]
  BY <1>1 DEF Window
<1>4. PICK first \in Int :
        first = (IF n - f > MaxPending THEN n - MaxPending ELSE f) + 1
  <2>1. (IF n - f > MaxPending THEN n - MaxPending ELSE f) + 1 \in Int
    BY BoundsAssumption
  <2> QED
    BY <2>1
<1>5. first = n - h + 1 /\ first \in 1 .. n + 1
  BY <1>2, <1>4, BoundsAssumption
<1>6. \A i \in first .. n : t[i] \in Value
  <2>1. \A i \in 1 .. n : t[i] \in Value
    BY <1>1, ElementOfSeq
  <2>2. first .. n \subseteq 1 .. n
    BY <1>5
  <2> QED
    BY <2>1, <2>2
<1>7. PICK u \in Seq(Value) :
        /\ u = SubSeq(t, first, n)
        /\ Len(u) = IF first <= n THEN n - first + 1 ELSE 0
        /\ \A i \in 1 .. n - first + 1 : u[i] = t[first + i - 1]
  <2>1. /\ SubSeq(t, first, n) \in Seq(Value)
        /\ Len(SubSeq(t, first, n)) = IF first <= n THEN n - first + 1 ELSE 0
        /\ \A i \in 1 .. n - first + 1 : SubSeq(t, first, n)[i] = t[first + i - 1]
    BY <1>6, SubSeqProperties
  <2> QED
    BY <2>1
<1>8. Len(u) = h
  BY <1>5, <1>7
<1>9. \A i \in 1 .. h : u[i] = b[i]
  <2> TAKE i \in 1 .. h
  <2>1. i \in 1 .. n - first + 1 /\ first + i - 1 = n - h + i
    BY <1>5
  <2> QED
    BY <1>3, <1>7, <2>1
<1>10. u = b
  BY <1>1, <1>8, <1>9, SeqEqual
<1> QED
  BY <1>1, <1>4, <1>7, <1>10

-----------------------------------------------------------------------------
(* The sums                                                                *)

\* What each of the values t adds to the sum over the keys; those of the positions d do not.
KeptShares(m, t, d, keys) ==
  [i \in DOMAIN t |-> IF i \in d THEN 0 ELSE Share(m, t[i], keys)]

\* The shares of the values that were not culled.
LEMMA KeptSharesAre ==
  ASSUME NEW m, NEW t \in Seq(Value), NEW d, NEW keys
  PROVE  /\ KeptShares(m, t, d, keys) \in Seq(Int) /\ Len(KeptShares(m, t, d, keys)) = Len(t)
         /\ \A i \in 1 .. Len(t) :
              KeptShares(m, t, d, keys)[i] = IF i \in d THEN 0 ELSE Share(m, t[i], keys)
<1>1. DOMAIN t = 1 .. Len(t)
  BY LenProperties
<1>2. Len(t) \in Nat /\ \A i \in 1 .. Len(t) : t[i] \in Value
  BY LenProperties, ElementOfSeq
<1>3. KeptShares(m, t, d, keys) \in [1 .. Len(t) -> Int]
  BY <1>1, <1>2, ShareIsInt DEF KeptShares
<1>4. \A i \in 1 .. Len(t) :
        KeptShares(m, t, d, keys)[i] = IF i \in d THEN 0 ELSE Share(m, t[i], keys)
  BY <1>1 DEF KeptShares
<1> QED
  BY <1>2, <1>3, <1>4, FunctionIsSequence

\* A value that is recorded adds as much to what is buffered as to what is kept, and a value
\* that is culled for it takes as much from both: for a counter, not less than nothing.
LEMMA SumsMove ==
  ASSUME NEW m, NEW t \in Seq(Value), NEW b \in Seq(Value), NEW f \in Nat, NEW d,
         NEW v \in Value, NEW keys, Window(t, b, f, d)
  PROVE  /\ Added(KeptShares(m, Append(t, v), Culled(t, b, d), keys)) - SumOf(m, Buffered(b, v), keys)
              = Added(KeptShares(m, t, d, keys)) - SumOf(m, b, keys)
         /\ Type[m] = "counter"
              => SumOf(m, Buffered(b, v), keys) <= SumOf(m, b, keys) + Share(m, v, keys)
<1>1. PICK n \in Nat, h \in Nat : n = Len(t) /\ h = Len(b)
  BY LenProperties
<1>2. MaxPending \in Nat \ {0}
  BY BoundsAssumption
<1>3. h <= n /\ h <= MaxPending
  <2>1. f <= n /\ h = IF n - f > MaxPending THEN MaxPending ELSE n - f
    BY <1>1 DEF Window
  <2> QED
    BY <1>2, <2>1
<1>4. d \subseteq 1 .. n - h /\ (h >= 1 => b[1] = t[n - h + 1])
  BY <1>1 DEF Window
<1>5. PICK t2 \in Seq(Value) :
        /\ t2 = Append(t, v) /\ t2 # <<>> /\ Len(t2) = n + 1
        /\ \A i \in 1 .. n : t2[i] = t[i]
        /\ t2[n + 1] = v
  BY <1>1, OneMore
<1>6. PICK b2 \in Seq(Value) :
        /\ b2 = Append(b, v) /\ b2 # <<>> /\ Len(b2) = h + 1
        /\ \A i \in 1 .. h : b2[i] = b[i]
        /\ b2[h + 1] = v
  BY <1>1, OneMore
<1>7. PICK w \in Seq(Int) :
        /\ w = KeptShares(m, t, d, keys) /\ Len(w) = Len(t)
        /\ \A i \in 1 .. Len(t) : w[i] = IF i \in d THEN 0 ELSE Share(m, t[i], keys)
  BY KeptSharesAre
<1>8. PICK x \in Seq(Int) :
        /\ x = KeptShares(m, t2, d, keys) /\ Len(x) = Len(t2)
        /\ \A i \in 1 .. Len(t2) : x[i] = IF i \in d THEN 0 ELSE Share(m, t2[i], keys)
  BY KeptSharesAre
<1>a. /\ Len(w) = n /\ \A i \in 1 .. n : w[i] = IF i \in d THEN 0 ELSE Share(m, t[i], keys)
  BY <1>1, <1>7
<1>b. /\ Len(x) = n + 1
      /\ \A i \in 1 .. n + 1 : x[i] = IF i \in d THEN 0 ELSE Share(m, t2[i], keys)
  BY <1>5, <1>8
<1>c. (\A i \in 1 .. n : t2[i] = t[i]) /\ t2[n + 1] = v
  BY <1>5
<1>9. Added(x) = Added(w) + Share(m, v, keys)
  <2>1. Len(x) = Len(w) + 1 /\ \A i \in 1 .. Len(w) : x[i] = w[i]
    <3>1. \A i \in 1 .. n : i \in 1 .. n + 1
      OBVIOUS
    <3>2. \A i \in 1 .. n : x[i] = w[i]
      BY <1>a, <1>b, <1>c, <3>1
    <3>3. Len(x) = n + 1 /\ Len(w) = n
      BY <1>a, <1>b
    <3> QED
      BY <3>2, <3>3
  <2>2. n + 1 \notin d
    BY <1>3, <1>4
  <2>3. x[Len(x)] = Share(m, v, keys)
    BY <1>b, <1>c, <2>2
  <2> QED
    BY <2>1, <2>3, AddedAppend
<1>10. SumOf(m, b2, keys) = SumOf(m, b, keys) + Share(m, v, keys)
  BY <1>6, SumOfAppended
<1>11. /\ SumOf(m, b, keys) \in Int /\ Share(m, v, keys) \in Int
       /\ Added(w) \in Int /\ Added(x) \in Int
  BY SumIsInt, ShareIsInt, AddedIsInt
<1>d. PICK old \in Int, gain \in Int, kept \in Int :
        /\ old = SumOf(m, b, keys) /\ gain = Share(m, v, keys)
        /\ kept = Added(KeptShares(m, t, d, keys))
  BY <1>7, <1>11
<1>e. SumOf(m, b2, keys) = old + gain /\ Added(x) = kept + gain
  BY <1>7, <1>9, <1>10, <1>d
<1>12. CASE Len(b) < MaxPending
  <2>1. Buffered(b, v) = b2
    BY <1>1, <1>2, <1>6, <1>12 DEF Buffered
  <2>2. Culled(t, b, d) = d
    BY <1>12 DEF Culled
  <2>3. Added(KeptShares(m, Append(t, v), Culled(t, b, d), keys)) = kept + gain
    BY <1>5, <1>8, <1>e, <2>2
  <2>4. SumOf(m, Buffered(b, v), keys) = old + gain
    BY <1>e, <2>1
  <2>5. (kept + gain) - (old + gain) = kept - old /\ old + gain <= old + gain
    OBVIOUS
  <2> QED
    BY <1>d, <2>3, <2>4, <2>5
<1>13. CASE ~ (Len(b) < MaxPending)
  <2>1. h = MaxPending /\ h >= 1
    BY <1>1, <1>2, <1>3, <1>13
  <2>2. Buffered(b, v) = Tail(b2)
    BY <1>1, <1>2, <1>6, <1>13 DEF Buffered
  <2>3. b2[1] = b[1]
    BY <1>1, <1>6, <2>1
  <2>4. b[1] \in Value
    <3>1. 1 \in 1 .. Len(b)
      BY <1>1, <2>1
    <3> QED
      BY <3>1, ElementOfSeq
  <2>5. PICK lost \in Int : lost = Share(m, b[1], keys)
    BY <2>4, ShareIsInt
  <2>6. Tail(b2) \in Seq(Value)
    BY <1>6, HeadTailProperties
  <2>7. PICK rest \in Int : rest = SumOf(m, Buffered(b, v), keys)
    BY <2>2, <2>6, SumIsInt
  <2>8. lost + rest = SumOf(m, b, keys) + Share(m, v, keys)
    <3>1. SumOf(m, b2, keys) = Share(m, b2[1], keys) + SumOf(m, Tail(b2), keys)
      BY <1>6, SumOfTail
    <3> QED
      BY <1>10, <2>2, <2>3, <2>5, <2>7, <3>1
  <2>9. PICK at \in 1 .. n : at = Len(t) + 1 - MaxPending /\ at = n - h + 1 /\ at \notin d
    <3>1. n - h + 1 \in 1 .. n /\ n - h + 1 \notin 1 .. n - h
      BY <1>3, <2>1
    <3>2. Len(t) + 1 - MaxPending = n - h + 1
      BY <1>1, <2>1
    <3> QED
      BY <1>4, <3>1, <3>2
  <2>10. PICK y \in Seq(Int) :
           /\ y = KeptShares(m, t2, d \cup {at}, keys) /\ Len(y) = Len(t2)
           /\ \A i \in 1 .. Len(t2) :
                y[i] = IF i \in d \cup {at} THEN 0 ELSE Share(m, t2[i], keys)
    BY KeptSharesAre
  <2>b. /\ Len(y) = n + 1
        /\ \A i \in 1 .. n + 1 : y[i] = IF i \in d \cup {at} THEN 0 ELSE Share(m, t2[i], keys)
    BY <1>5, <2>10
  <2>11. Added(y) = Added(x) - x[at] + y[at]
    <3>1. at \in 1 .. Len(x) /\ Len(y) = Len(x)
      BY <1>b, <2>b
    <3>2. \A i \in 1 .. Len(x) : i # at => y[i] = x[i]
      BY <1>b, <2>b
    <3> QED
      BY <3>1, <3>2, AddedChange
  <2>12. at \in 1 .. n + 1 /\ y[at] = 0
    BY <2>b
  <2>13. x[at] = lost
    <3>1. x[at] = Share(m, t2[at], keys)
      BY <1>b, <2>9, <2>12
    <3>2. t2[at] = t[at] /\ t[at] = b[1]
      BY <1>1, <1>4, <1>5, <2>1, <2>9
    <3> QED
      BY <2>5, <3>1, <3>2
  <2>14. Added(y) = Added(x) - lost
    BY <2>11, <2>12, <2>13, <1>11
  <2>15. Type[m] = "counter" => lost >= 0
    <3>1. b[1].amount \in Int
      BY <2>4, AmountsAssumption DEF Value
    <3> QED
      BY <2>5, <3>1 DEF Share
  <2>16. Culled(t, b, d) = d \cup {at}
    BY <1>13, <2>9 DEF Culled
  <2>17. Added(KeptShares(m, Append(t, v), Culled(t, b, d), keys)) = Added(x) - lost
    BY <1>5, <2>10, <2>14, <2>16
  <2>18. Added(KeptShares(m, Append(t, v), Culled(t, b, d), keys)) = kept + gain - lost
    BY <1>e, <2>17
  <2>19. lost + rest = old + gain
    BY <1>d, <2>8
  <2>20. /\ (kept + gain - lost) - rest = kept - old
         /\ lost >= 0 => rest <= old + gain
    BY <2>19
  <2> QED
    BY <1>d, <2>7, <2>15, <2>18, <2>20
<1> QED
  BY <1>12, <1>13

\* A value that is recorded moves both sums of each metric by the same amount.
LEMMA RecordedSums ==
  ASSUME TypeOK, Buffers, NEW m \in Metrics, NEW k \in Keys, NEW a \in Amounts,
         OnMetricRecorded(m, k, a), NEW n \in Metrics, NEW keys
  PROVE  /\ SumOf(n, pending[n], keys) \in Int /\ SumOf(n, pending'[n], keys) \in Int
         /\ SumKept(n, keys) \in Int /\ SumKept(n, keys)' \in Int
         /\ SumKept(n, keys)' - SumOf(n, pending'[n], keys)
              = SumKept(n, keys) - SumOf(n, pending[n], keys)
         /\ n # m => SumOf(n, pending'[n], keys) = SumOf(n, pending[n], keys)
         /\ n = m /\ Type[n] = "counter"
              => SumOf(n, pending'[n], keys)
                   <= SumOf(n, pending[n], keys) + Share(m, [key |-> k, amount |-> a], keys)
<1>1. PICK v \in Value :
        /\ v = [key |-> k, amount |-> a]
        /\ pending' = [pending EXCEPT ![m] = Buffered(pending[m], v)]
        /\ sent' = [sent EXCEPT ![m] = Append(sent[m], v)]
  BY RecordedValue
<1>2. dropped' = IF Len(pending[m]) < MaxPending THEN dropped
                 ELSE [dropped EXCEPT ![m] = @ \cup {Len(sent[m]) + 1 - MaxPending}]
  BY DEF OnMetricRecorded
<1>3. /\ pending \in [Metrics -> Seq(Value)] /\ sent \in [Metrics -> Seq(Value)]
      /\ dropped \in [Metrics -> SUBSET Nat] /\ flushed \in [Metrics -> Nat]
  BY DEF TypeOK
<1>4. /\ SumKept(n, keys) = Added(KeptShares(n, sent[n], dropped[n], keys))
      /\ SumKept(n, keys)' = Added(KeptShares(n, sent'[n], dropped'[n], keys))
  BY DEF SumKept, KeptShares
<1>5. /\ sent'[n] \in Seq(Value) /\ pending'[n] \in Seq(Value)
      /\ sent[n] \in Seq(Value) /\ pending[n] \in Seq(Value)
  BY <1>1, <1>3, BufferedIsBuffer, AppendProperties
<1>6. /\ SumOf(n, pending[n], keys) \in Int /\ SumOf(n, pending'[n], keys) \in Int
      /\ SumKept(n, keys) \in Int /\ SumKept(n, keys)' \in Int
  BY <1>4, <1>5, SumIsInt, KeptSharesAre, AddedIsInt
<1>7. CASE n # m
  <2>1. pending'[n] = pending[n] /\ sent'[n] = sent[n] /\ dropped'[n] = dropped[n]
    BY <1>1, <1>2, <1>3, <1>7
  <2>2. SumKept(n, keys)' = SumKept(n, keys)
    BY <1>4, <2>1
  <2> QED
    BY <1>6, <1>7, <2>1, <2>2
<1>8. CASE n = m
  <2>1. Window(sent[m], pending[m], flushed[m], dropped[m])
    BY DEF Buffers
  <2>2. sent[m] \in Seq(Value) /\ pending[m] \in Seq(Value) /\ flushed[m] \in Nat
    BY <1>3
  <2>3. /\ pending'[m] = Buffered(pending[m], v) /\ sent'[m] = Append(sent[m], v)
        /\ dropped'[m] = Culled(sent[m], pending[m], dropped[m])
    BY <1>1, <1>2, <1>3 DEF Culled
  <2>4. /\ Added(KeptShares(m, Append(sent[m], v), Culled(sent[m], pending[m], dropped[m]), keys))
              - SumOf(m, Buffered(pending[m], v), keys)
            = Added(KeptShares(m, sent[m], dropped[m], keys)) - SumOf(m, pending[m], keys)
        /\ Type[m] = "counter"
             => SumOf(m, Buffered(pending[m], v), keys)
                  <= SumOf(m, pending[m], keys) + Share(m, v, keys)
    BY <2>1, <2>2, SumsMove
  <2> QED
    BY <1>1, <1>4, <1>6, <1>8, <2>3, <2>4
<1> QED
  BY <1>7, <1>8

-----------------------------------------------------------------------------
(* Counters and histograms                                                 *)

\* Until the exporter is closed, the flush is the only step that writes to prom-client, and
\* recording the only other one that touches what the sums are made of.
LEMMA Untouched ==
  ASSUME [Next]_vars,
         ~ \E m \in Metrics, k \in Keys, a \in Amounts : OnMetricRecorded(m, k, a),
         ~ \E s \in Scrapes : GetMetrics(s),
         ~ Shutdown
  PROVE  UNCHANGED <<pending, sent, dropped, series, gaugeValues, closed>>
<1>1. ASSUME NEW m \in Metrics, OnDescriptorRegistered(m)
      PROVE  UNCHANGED <<pending, sent, dropped, series, gaugeValues, closed>>
  BY <1>1 DEF OnDescriptorRegistered, bufferVars, flushVars
<1>2. ASSUME NEW s \in Scrapes, NEW m \in Metrics, ReadInstrument(s, m)
      PROVE  UNCHANGED <<pending, sent, dropped, series, gaugeValues, closed>>
  BY <1>2 DEF ReadInstrument, bufferVars, flushVars
<1>3. ASSUME NEW s \in Scrapes, GetMetricsReturns(s) \/ GetMetricsFails(s)
      PROVE  UNCHANGED <<pending, sent, dropped, series, gaugeValues, closed>>
  BY <1>3 DEF GetMetricsReturns, GetMetricsFails, bufferVars, flushVars
<1>4. UNCHANGED vars => UNCHANGED <<pending, sent, dropped, series, gaugeValues, closed>>
  BY DEF vars, bufferVars, flushVars
<1> QED
  BY <1>1, <1>2, <1>3, <1>4 DEF Next

\* The sums of a metric are numbers.
LEMMA SumsAreInt ==
  ASSUME TypeOK, NEW m \in Metrics, NEW keys
  PROVE  SumOf(m, pending[m], keys) \in Int /\ SumKept(m, keys) \in Int
<1>1. pending[m] \in Seq(Value) /\ sent[m] \in Seq(Value)
  BY DEF TypeOK
<1>2. SumKept(m, keys) = Added(KeptShares(m, sent[m], dropped[m], keys))
  BY DEF SumKept, KeptShares
<1> QED
  BY <1>1, <1>2, SumIsInt, KeptSharesAre, AddedIsInt

\* A step counts each value once, or moves it on.
LEMMA CounterSteps ==
  ASSUME TypeOK, Buffers, CountersExact, [Next]_vars PROVE CountersExact'
<1> SUFFICES ASSUME NEW n \in Metrics, ~ closed', Type[n] \in {"counter", "histogram"},
                    NEW l \in Series
             PROVE  ShownOrBuffered(n, l)' = SumKept(n, KeysOf(l))'
  BY DEF CountersExact, AddsUp
<1>1. series[n][l] \in Int /\ SumOf(n, pending[n], KeysOf(l)) \in Int /\ SumKept(n, KeysOf(l)) \in Int
  BY SumsAreInt DEF TypeOK
<1>2. ASSUME ~ closed
      PROVE  series[n][l] + SumOf(n, pending[n], KeysOf(l)) = SumKept(n, KeysOf(l))
  BY <1>2 DEF CountersExact, AddsUp, ShownOrBuffered
<1>3. ShownOrBuffered(n, l)' = series'[n][l] + SumOf(n, pending'[n], KeysOf(l))
  BY DEF ShownOrBuffered
<1>4. ASSUME NEW m \in Metrics, NEW k \in Keys, NEW a \in Amounts, OnMetricRecorded(m, k, a)
      PROVE  ShownOrBuffered(n, l)' = SumKept(n, KeysOf(l))'
  <2>1. series' = series /\ closed' = closed
    BY <1>4 DEF OnMetricRecorded, flushVars
  <2>2. PICK b0 \in Int, b1 \in Int, t0 \in Int, t1 \in Int :
          /\ b0 = SumOf(n, pending[n], KeysOf(l)) /\ b1 = SumOf(n, pending'[n], KeysOf(l))
          /\ t0 = SumKept(n, KeysOf(l)) /\ t1 = SumKept(n, KeysOf(l))'
          /\ t1 - b1 = t0 - b0
    <3>1. /\ SumOf(n, pending[n], KeysOf(l)) \in Int /\ SumOf(n, pending'[n], KeysOf(l)) \in Int
          /\ SumKept(n, KeysOf(l)) \in Int /\ SumKept(n, KeysOf(l))' \in Int
          /\ SumKept(n, KeysOf(l))' - SumOf(n, pending'[n], KeysOf(l))
               = SumKept(n, KeysOf(l)) - SumOf(n, pending[n], KeysOf(l))
      BY <1>4, RecordedSums
    <3> QED
      BY <3>1
  <2> QED
    BY <1>1, <1>2, <1>3, <2>1, <2>2
<1>5. ASSUME NEW s \in Scrapes, GetMetrics(s)
      PROVE  ShownOrBuffered(n, l)' = SumKept(n, KeysOf(l))'
  <2>1. /\ series'[n] = Increased(n, pending[n]) /\ pending'[n] = <<>>
        /\ sent' = sent /\ dropped' = dropped /\ closed' = closed
    BY <1>5 DEF GetMetrics, FlushedSeries
  <2>2. series'[n][l] = series[n][l] + SumOf(n, pending[n], KeysOf(l))
    BY <2>1 DEF Increased
  <2>3. SumKept(n, KeysOf(l))' = SumKept(n, KeysOf(l))
    BY <2>1 DEF SumKept
  <2>4. SumOf(n, pending'[n], KeysOf(l)) = 0
    BY <2>1, SumOfNone
  <2> QED
    BY <1>1, <1>2, <1>3, <2>1, <2>2, <2>3, <2>4
<1>6. ~ Shutdown
  BY DEF Shutdown
<1>7. CASE UNCHANGED <<pending, sent, dropped, series, gaugeValues, closed>>
  <2>1. SumKept(n, KeysOf(l))' = SumKept(n, KeysOf(l))
    BY <1>7 DEF SumKept
  <2> QED
    BY <1>2, <1>3, <1>7, <2>1
<1> QED
  BY <1>4, <1>5, <1>6, <1>7, Untouched

\* At the start there is nothing to add.
LEMMA SumsInit ==
  ASSUME Init, NEW m \in Metrics, NEW keys
  PROVE  SumOf(m, pending[m], keys) = 0 /\ SumKept(m, keys) = 0
<1>1. pending[m] = <<>> /\ sent[m] = <<>>
  BY DEF Init
<1>2. PICK t \in Seq(Value) : t = <<>> /\ Len(t) = 0
  BY EmptySeq
<1>3. SumKept(m, keys) = Added(KeptShares(m, t, dropped[m], keys))
  BY <1>1, <1>2 DEF SumKept, KeptShares
<1>4. Added(KeptShares(m, t, dropped[m], keys)) = 0
  <2>1. PICK w \in Seq(Int) : w = KeptShares(m, t, dropped[m], keys) /\ Len(w) = Len(t)
    BY KeptSharesAre
  <2>2. \A i \in 1 .. Len(w) : w[i] = 0
    BY <1>2, <2>1
  <2> QED
    BY <2>1, <2>2, AddedZeros
<1> QED
  BY <1>1, <1>3, <1>4, SumOfNone

\* For every number of metrics, keys, amounts and overlapping scrapes and every size of the
\* buffers: a buffer holds the newest values in order, and every value of a counter or a
\* histogram that was not culled is counted exactly once.
THEOREM CountersCorrect == Spec => [](TypeOK /\ PendingKeepsNewest /\ CountersExact)
<1>1. Init => CountersExact
  <2> SUFFICES ASSUME Init, NEW m \in Metrics, NEW l \in Series
               PROVE  ShownOrBuffered(m, l) = SumKept(m, KeysOf(l))
    BY DEF CountersExact, AddsUp
  <2>1. series[m][l] = 0
    BY DEF Init, NoSeries
  <2> QED
    BY <2>1, SumsInit DEF ShownOrBuffered
<1>2. TypeOK /\ Buffers /\ CountersExact /\ [Next]_vars => CountersExact'
  BY CounterSteps
<1>3. TypeOK /\ Buffers => PendingKeepsNewest
  <2> SUFFICES ASSUME TypeOK, Buffers, NEW m \in Metrics
               PROVE  pending[m] =
                        SubSeq(sent[m], (IF Len(sent[m]) - flushed[m] > MaxPending
                                         THEN Len(sent[m]) - MaxPending ELSE flushed[m]) + 1,
                               Len(sent[m]))
    BY DEF PendingKeepsNewest
  <2>1. /\ sent[m] \in Seq(Value) /\ pending[m] \in Seq(Value) /\ flushed[m] \in Nat
        /\ Window(sent[m], pending[m], flushed[m], dropped[m])
    BY DEF TypeOK, Buffers
  <2> QED
    BY <2>1, WindowIsNewest
<1> QED
  BY <1>1, <1>2, <1>3, BuffersCorrect, PTL DEF Spec

-----------------------------------------------------------------------------
(* Running totals                                                          *)

\* No two keys are the same series: of two that are, prom-client shows the later one only.
OneKeyEach == \A j, k \in Keys : SeriesOf[j] = SeriesOf[k] => j = k

\* The running total of a key is what its series shows, and with the buffered values the
\* sum of what was recorded under it.
RunningTotals ==
  \A m \in Metrics : ~ closed /\ Type[m] = "updown_counter" =>
    /\ \A k \in Keys : /\ gaugeValues[m][k] + SumOf(m, pending[m], {k}) = SumKept(m, {k})
                       /\ series[m][SeriesOf[k]] = gaugeValues[m][k]
    /\ \A l \in Series : KeysOf(l) = {} => series[m][l] = 0

\* A series has one key when no two keys are one series.
LEMMA KeysOfOne ==
  ASSUME OneKeyEach, NEW k \in Keys
  PROVE  KeysOf(SeriesOf[k]) = {k}
BY DEF OneKeyEach, KeysOf

\* The totals begin at what was sent, nothing.
LEMMA TotalsInit ==
  ASSUME Init PROVE RunningTotals
<1> SUFFICES ASSUME NEW m \in Metrics
             PROVE  /\ \A k \in Keys :
                         /\ gaugeValues[m][k] + SumOf(m, pending[m], {k}) = SumKept(m, {k})
                         /\ series[m][SeriesOf[k]] = gaugeValues[m][k]
                    /\ \A l \in Series : KeysOf(l) = {} => series[m][l] = 0
  BY DEF RunningTotals
<1>1. /\ \A k \in Keys : gaugeValues[m][k] = 0 /\ SeriesOf[k] \in Series
      /\ \A l \in Series : series[m][l] = 0
  BY SeriesAssumption DEF Init, NoSeries
<1>2. \A k \in Keys : SumOf(m, pending[m], {k}) = 0 /\ SumKept(m, {k}) = 0
  BY SumsInit
<1> QED
  BY <1>1, <1>2

\* What a flush does to one key.
LEMMA FlushedKey ==
  ASSUME OneKeyEach, TypeOK, NEW m \in Metrics, NEW k \in Keys, Type[m] = "updown_counter",
         series[m][SeriesOf[k]] = gaugeValues[m][k]
  PROVE  /\ FlushedSeries[m][SeriesOf[k]] = Accumulated(m, pending[m])[k]
         /\ Accumulated(m, pending[m])[k] = gaugeValues[m][k] + SumOf(m, pending[m], {k})
<1>1. /\ pending[m] \in Seq(Value) /\ gaugeValues[m][k] \in Int
      /\ SumOf(m, pending[m], {k}) \in Int /\ SeriesOf[k] \in Series
  BY SumsAreInt, SeriesAssumption DEF TypeOK
<1>2. /\ FlushedSeries[m][SeriesOf[k]]
           = IF KeysIn(pending[m]) \cap {k} = {} THEN series[m][SeriesOf[k]]
             ELSE Final(m, pending[m], LastKey(pending[m], SeriesOf[k]))
      /\ Accumulated(m, pending[m])[k] =
           IF k \in KeysIn(pending[m]) THEN Final(m, pending[m], k) ELSE gaugeValues[m][k]
  BY <1>1, KeysOfOne DEF FlushedSeries, SetTo, Accumulated
<1>3. Final(m, pending[m], k) = SumOf(m, pending[m], {k}) + gaugeValues[m][k]
  BY DEF Final
<1>4. CASE k \in KeysIn(pending[m])
  <2>1. KeysIn(pending[m]) \cap KeysOf(SeriesOf[k]) = {k}
    BY <1>4, KeysOfOne
  <2>2. LastKey(pending[m], SeriesOf[k]) = k
    BY <1>1, <2>1, LastKeyIsOne
  <2> QED
    BY <1>1, <1>2, <1>3, <1>4, <2>2
<1>5. CASE k \notin KeysIn(pending[m])
  <2>1. SumOf(m, pending[m], {k}) = 0
    BY <1>1, <1>5, SumOfOthers
  <2> QED
    BY <1>1, <1>2, <1>5, <2>1
<1> QED
  BY <1>4, <1>5

\* A step keeps the running totals.
LEMMA TotalSteps ==
  ASSUME OneKeyEach, TypeOK, Buffers, RunningTotals, [Next]_vars PROVE RunningTotals'
<1> SUFFICES ASSUME NEW n \in Metrics, ~ closed', Type[n] = "updown_counter"
             PROVE  /\ \A k \in Keys :
                         /\ gaugeValues'[n][k] + SumOf(n, pending'[n], {k}) = SumKept(n, {k})'
                         /\ series'[n][SeriesOf[k]] = gaugeValues'[n][k]
                    /\ \A l \in Series : KeysOf(l) = {} => series'[n][l] = 0
  BY DEF RunningTotals
<1>1. ASSUME ~ closed
      PROVE  /\ \A k \in Keys :
                  /\ gaugeValues[n][k] + SumOf(n, pending[n], {k}) = SumKept(n, {k})
                  /\ series[n][SeriesOf[k]] = gaugeValues[n][k]
             /\ \A l \in Series : KeysOf(l) = {} => series[n][l] = 0
  BY <1>1 DEF RunningTotals
<1>2. ASSUME NEW m \in Metrics, NEW k \in Keys, NEW a \in Amounts, OnMetricRecorded(m, k, a)
      PROVE  /\ \A j \in Keys :
                  /\ gaugeValues'[n][j] + SumOf(n, pending'[n], {j}) = SumKept(n, {j})'
                  /\ series'[n][SeriesOf[j]] = gaugeValues'[n][j]
             /\ \A l \in Series : KeysOf(l) = {} => series'[n][l] = 0
  <2>1. series' = series /\ gaugeValues' = gaugeValues /\ closed' = closed
    BY <1>2 DEF OnMetricRecorded, flushVars
  <2>2. ASSUME NEW j \in Keys
        PROVE  gaugeValues[n][j] + SumOf(n, pending'[n], {j}) = SumKept(n, {j})'
    <3>1. /\ SumOf(n, pending[n], {j}) \in Int /\ SumOf(n, pending'[n], {j}) \in Int
          /\ SumKept(n, {j}) \in Int /\ SumKept(n, {j})' \in Int
          /\ SumKept(n, {j})' - SumOf(n, pending'[n], {j})
               = SumKept(n, {j}) - SumOf(n, pending[n], {j})
      BY <1>2, RecordedSums
    <3>2. gaugeValues[n][j] \in Int
      BY DEF TypeOK
    <3>3. gaugeValues[n][j] + SumOf(n, pending[n], {j}) = SumKept(n, {j})
      BY <1>1, <2>1
    <3> QED
      BY <3>1, <3>2, <3>3
  <2> QED
    BY <1>1, <2>1, <2>2
<1>3. ASSUME NEW s \in Scrapes, GetMetrics(s)
      PROVE  /\ \A k \in Keys :
                  /\ gaugeValues'[n][k] + SumOf(n, pending'[n], {k}) = SumKept(n, {k})'
                  /\ series'[n][SeriesOf[k]] = gaugeValues'[n][k]
             /\ \A l \in Series : KeysOf(l) = {} => series'[n][l] = 0
  <2>1. /\ series' = FlushedSeries /\ gaugeValues'[n] = Accumulated(n, pending[n])
        /\ pending'[n] = <<>> /\ sent' = sent /\ dropped' = dropped /\ closed' = closed
    BY <1>3 DEF GetMetrics
  <2>2. ASSUME NEW k \in Keys
        PROVE  /\ gaugeValues'[n][k] + SumOf(n, pending'[n], {k}) = SumKept(n, {k})'
               /\ series'[n][SeriesOf[k]] = gaugeValues'[n][k]
    <3>1. /\ gaugeValues[n][k] + SumOf(n, pending[n], {k}) = SumKept(n, {k})
          /\ series[n][SeriesOf[k]] = gaugeValues[n][k]
      BY <1>1, <2>1
    <3>2. /\ FlushedSeries[n][SeriesOf[k]] = Accumulated(n, pending[n])[k]
          /\ Accumulated(n, pending[n])[k] = gaugeValues[n][k] + SumOf(n, pending[n], {k})
      BY <3>1, FlushedKey
    <3>3. SumKept(n, {k})' = SumKept(n, {k}) /\ SumOf(n, pending'[n], {k}) = 0
      BY <2>1, SumOfNone DEF SumKept
    <3>4. SumKept(n, {k}) \in Int
      BY SumsAreInt
    <3> QED
      BY <2>1, <3>1, <3>2, <3>3, <3>4
  <2>3. ASSUME NEW l \in Series, KeysOf(l) = {} PROVE series'[n][l] = 0
    <3>1. series'[n][l] = series[n][l]
      BY <2>1, <2>3 DEF FlushedSeries, SetTo
    <3> QED
      BY <1>1, <2>1, <2>3, <3>1
  <2> QED
    BY <2>2, <2>3
<1>4. ~ Shutdown
  BY DEF Shutdown
<1>5. CASE UNCHANGED <<pending, sent, dropped, series, gaugeValues, closed>>
  <2>1. \A k \in Keys : SumKept(n, {k})' = SumKept(n, {k})
    BY <1>5 DEF SumKept
  <2> QED
    BY <1>1, <1>5, <2>1
<1> QED
  BY <1>2, <1>3, <1>4, <1>5, Untouched

\* The sum over no keys.
LEMMA SumKeptOfNone ==
  ASSUME TypeOK, NEW m \in Metrics PROVE SumKept(m, {}) = 0
<1>1. sent[m] \in Seq(Value)
  BY DEF TypeOK
<1>2. PICK w \in Seq(Int) :
        /\ w = KeptShares(m, sent[m], dropped[m], {}) /\ Len(w) = Len(sent[m])
        /\ \A i \in 1 .. Len(sent[m]) :
             w[i] = IF i \in dropped[m] THEN 0 ELSE Share(m, sent[m][i], {})
  BY <1>1, KeptSharesAre
<1>3. \A i \in 1 .. Len(w) : w[i] = 0
  BY <1>2 DEF Share
<1>4. SumKept(m, {}) = Added(w)
  BY <1>2 DEF SumKept, KeptShares
<1> QED
  BY <1>3, <1>4, AddedZeros

\* With the running totals the sums are exact.
LEMMA TotalsAreExact ==
  ASSUME OneKeyEach, TypeOK, RunningTotals PROVE TotalsExact
<1> SUFFICES ASSUME NEW m \in Metrics, ~ closed, Type[m] = "updown_counter", NEW l \in Series
             PROVE  series[m][l] + SumOf(m, pending[m], KeysOf(l)) = SumKept(m, KeysOf(l))
  BY DEF TotalsExact, AddsUp, ShownOrBuffered
<1>1. CASE KeysOf(l) = {}
  <2>1. series[m][l] = 0 /\ SumKept(m, {}) = 0
    BY <1>1, SumKeptOfNone DEF RunningTotals
  <2>2. SumOf(m, pending[m], {}) = 0
    BY SumOfOthers DEF TypeOK
  <2> QED
    BY <1>1, <2>1, <2>2
<1>2. ASSUME NEW k \in KeysOf(l)
      PROVE  series[m][l] + SumOf(m, pending[m], KeysOf(l)) = SumKept(m, KeysOf(l))
  <2>1. k \in Keys /\ SeriesOf[k] = l
    BY DEF KeysOf
  <2>2. KeysOf(l) = {k}
    BY <2>1, KeysOfOne
  <2> QED
    BY <2>1, <2>2 DEF RunningTotals
<1> QED
  BY <1>1, <1>2

\* Where no two keys are the same series, nothing is miscounted: the buffers keep the newest
\* values, and what prom-client shows of each series of a counter, a histogram or an
\* updown_counter, with what is still buffered, is the sum of all that was recorded and not
\* culled, whatever scrapes overlap or fail.
THEOREM NothingMiscountedCorrect ==
  ASSUME OneKeyEach PROVE Spec => []NothingMiscounted
<1>1. Init => RunningTotals
  BY TotalsInit
<1>2. TypeOK /\ Buffers /\ RunningTotals /\ [Next]_vars => RunningTotals'
  BY TotalSteps
<1>3. TypeOK /\ PendingKeepsNewest /\ CountersExact /\ RunningTotals => NothingMiscounted
  BY TotalsAreExact DEF NothingMiscounted
<1> QED
  BY <1>1, <1>2, <1>3, BuffersCorrect, CountersCorrect, PTL DEF Spec

-----------------------------------------------------------------------------
(* The ledger                                                              *)

\* A counter never shows less than it did when a scrape began.
Floors ==
  \A s \in Scrapes : state[s] # "new" =>
    \A m \in Counters, l \in Series : floor[s][m][l] <= series[m][l]

\* What a counter shows and what is buffered of it are numbers, the latter never negative.
LEMMA CounterNumbers ==
  ASSUME TypeOK, NEW m \in Counters, NEW l \in Series
  PROVE  /\ series[m][l] \in Int /\ ShownOrBuffered(m, l) \in Int
         /\ series[m][l] <= ShownOrBuffered(m, l)
<1>1. m \in Metrics /\ Type[m] = "counter" /\ pending[m] \in Seq(Value)
  BY DEF Counters, TypeOK
<1>2. SumOf(m, pending[m], KeysOf(l)) \in Int /\ SumOf(m, pending[m], KeysOf(l)) >= 0
  BY <1>1, SumIsInt, SumOfCounter
<1>3. series[m][l] \in Int
  BY <1>1 DEF TypeOK
<1> QED
  BY <1>2, <1>3 DEF ShownOrBuffered

\* A flush moves what is buffered of a counter to what is shown.
LEMMA CounterFlushed ==
  ASSUME TypeOK, NEW s \in Scrapes, GetMetrics(s), NEW m \in Counters, NEW l \in Series
  PROVE  /\ series'[m][l] = ShownOrBuffered(m, l)
         /\ ShownOrBuffered(m, l)' = ShownOrBuffered(m, l)
<1>1. m \in Metrics /\ Type[m] = "counter"
  BY DEF Counters
<1>2. series'[m] = Increased(m, pending[m]) /\ pending'[m] = <<>>
  BY <1>1 DEF GetMetrics, FlushedSeries
<1>3. series'[m][l] = ShownOrBuffered(m, l)
  BY <1>2 DEF Increased, ShownOrBuffered
<1>4. SumOf(m, pending'[m], KeysOf(l)) = 0
  BY <1>2, SumOfNone
<1>5. ShownOrBuffered(m, l) \in Int
  BY CounterNumbers
<1>6. ShownOrBuffered(m, l)' = series'[m][l] + SumOf(m, pending'[m], KeysOf(l))
  BY DEF ShownOrBuffered
<1> QED
  BY <1>3, <1>4, <1>5, <1>6

\* What a scrape may not fall below stays so.
LEMMA FloorSteps ==
  ASSUME TypeOK, Floors, [Next]_vars PROVE Floors'
<1> SUFFICES ASSUME NEW s \in Scrapes, state'[s] # "new", NEW m \in Counters, NEW l \in Series
             PROVE  floor'[s][m][l] <= series'[m][l]
  BY DEF Floors
<1>1. ASSUME state[s] # "new" PROVE floor[s][m][l] <= series[m][l]
  BY <1>1 DEF Floors
<1>2. m \in Metrics
  BY DEF Counters
<1>3. ASSUME NEW r \in Scrapes, GetMetrics(r) PROVE floor'[s][m][l] <= series'[m][l]
  <2>1. /\ series[m][l] \in Int /\ ShownOrBuffered(m, l) \in Int
        /\ series[m][l] <= ShownOrBuffered(m, l)
    BY CounterNumbers
  <2>2. series'[m][l] = ShownOrBuffered(m, l)
    BY <1>3, CounterFlushed
  <2>3. state \in [Scrapes -> {"new", "reading", "done", "failed"}]
        /\ floor \in [Scrapes -> [Metrics -> [Series -> Int]]]
    BY DEF TypeOK
  <2>4. CASE s = r
    <3>1. floor'[s] = series'
      BY <1>3, <2>3, <2>4 DEF GetMetrics
    <3> QED
      BY <2>1, <2>2, <3>1
  <2>5. CASE s # r
    <3>1. floor'[s] = floor[s] /\ state[s] # "new"
      BY <1>3, <2>3, <2>5 DEF GetMetrics
    <3>2. floor[s][m][l] \in Int
      BY <1>2, <2>3
    <3> QED
      BY <1>1, <2>1, <2>2, <3>1, <3>2
  <2> QED
    BY <2>4, <2>5
<1>4. ASSUME NEW r \in Scrapes, GetMetricsReturns(r) \/ GetMetricsFails(r)
      PROVE  floor'[s][m][l] <= series'[m][l]
  <2>1. series' = series /\ floor' = floor
    BY <1>4 DEF GetMetricsReturns, GetMetricsFails, flushVars
  <2>2. state[s] # "new"
    BY <1>4 DEF GetMetricsReturns, GetMetricsFails, TypeOK
  <2> QED
    BY <1>1, <2>1, <2>2
<1>5. CASE UNCHANGED <<series, state, floor>>
  BY <1>1, <1>5
<1>6. ASSUME NEW n \in Metrics,
             \/ OnDescriptorRegistered(n)
             \/ \E k \in Keys, a \in Amounts : OnMetricRecorded(n, k, a)
             \/ \E r \in Scrapes : ReadInstrument(r, n)
      PROVE  UNCHANGED <<series, state, floor>>
  BY <1>6 DEF OnDescriptorRegistered, OnMetricRecorded, ReadInstrument, flushVars, scrapeVars
<1>7. Shutdown \/ UNCHANGED vars => UNCHANGED <<series, state, floor>>
  BY DEF Shutdown, vars, flushVars, scrapeVars
<1> QED
  BY <1>3, <1>4, <1>5, <1>6, <1>7 DEF Next

\* The variables of the ledger.
LedgerTotal == [m \in Counters |-> [l \in Series |-> ShownOrBuffered(m, l)]]
LedgerReported == [m \in Counters |-> series[m]]
LedgerBegun == {s \in Scrapes : state[s] # "new"}
LedgerFloor == [s \in Scrapes |-> [m \in Counters |-> floor[s][m]]]
LedgerResult == [s \in Scrapes |-> [m \in Counters |-> result[s][m]]]

\* What a recorded value does to the total of one series of one counter.
LEMMA RecordedTotal ==
  ASSUME TypeOK, TypeOK', Buffers, NEW m \in Metrics, NEW k \in Keys, NEW a \in Amounts,
         OnMetricRecorded(m, k, a), NEW n \in Counters, NEW l \in Series
  PROVE  /\ series[n][l] \in Int /\ ShownOrBuffered(n, l) \in Int /\ ShownOrBuffered(n, l)' \in Int
         /\ series[n][l] <= ShownOrBuffered(n, l)'
         /\ n # m => ShownOrBuffered(n, l)' = ShownOrBuffered(n, l)
         /\ n = m => ShownOrBuffered(n, l)'
                       <= ShownOrBuffered(n, l) + (IF SeriesOf[k] = l /\ a >= 0 THEN a ELSE 0)
<1>1. series' = series /\ n \in Metrics /\ Type[n] = "counter"
  BY DEF OnMetricRecorded, flushVars, Counters
<1>2. /\ series[n][l] \in Int /\ ShownOrBuffered(n, l) \in Int
      /\ ShownOrBuffered(n, l)' \in Int /\ series[n][l] <= ShownOrBuffered(n, l)'
  <2>1. series[n][l] \in Int /\ ShownOrBuffered(n, l) \in Int
    BY CounterNumbers
  <2>2. pending'[n] \in Seq(Value)
    BY <1>1 DEF TypeOK
  <2>3. SumOf(n, pending'[n], KeysOf(l)) \in Int /\ SumOf(n, pending'[n], KeysOf(l)) >= 0
    BY <1>1, <2>2, SumIsInt, SumOfCounter
  <2> QED
    BY <1>1, <2>1, <2>3 DEF ShownOrBuffered
<1>3. /\ SumOf(n, pending[n], KeysOf(l)) \in Int /\ SumOf(n, pending'[n], KeysOf(l)) \in Int
      /\ n # m => SumOf(n, pending'[n], KeysOf(l)) = SumOf(n, pending[n], KeysOf(l))
      /\ n = m /\ Type[n] = "counter"
              => SumOf(n, pending'[n], KeysOf(l))
                   <= SumOf(n, pending[n], KeysOf(l)) + Share(m, [key |-> k, amount |-> a], KeysOf(l))
  BY <1>1, RecordedSums
<1>4. PICK gain \in Int : gain = IF SeriesOf[k] = l /\ a >= 0 THEN a ELSE 0
  <2>1. a \in Int
    BY AmountsAssumption
  <2> QED
    BY <2>1
<1>5. n = m => Share(m, [key |-> k, amount |-> a], KeysOf(l)) = gain
  BY <1>1, <1>4 DEF Share, KeysOf
<1>6. /\ ShownOrBuffered(n, l) = series[n][l] + SumOf(n, pending[n], KeysOf(l))
      /\ ShownOrBuffered(n, l)' = series[n][l] + SumOf(n, pending'[n], KeysOf(l))
  BY <1>1 DEF ShownOrBuffered
<1>7. CASE n = m
  <2>1. SumOf(n, pending'[n], KeysOf(l)) <= SumOf(n, pending[n], KeysOf(l)) + gain
    BY <1>1, <1>3, <1>5, <1>7
  <2>2. ShownOrBuffered(n, l)' <= ShownOrBuffered(n, l) + gain
    BY <1>2, <1>3, <1>6, <2>1
  <2> QED
    BY <1>1, <1>2, <1>4, <1>7, <2>2
<1>8. CASE n # m
  BY <1>1, <1>2, <1>3, <1>6, <1>8
<1> QED
  BY <1>7, <1>8

\* The exporter begins as the ledger does.
LEMMA LedgerInit ==
  ASSUME Init PROVE Ledger!Init
<1>1. ASSUME NEW m \in Counters, NEW l \in Series
      PROVE  series[m][l] = 0 /\ ShownOrBuffered(m, l) = 0
  <2>1. m \in Metrics
    BY DEF Counters
  <2>2. series[m][l] = 0
    BY <2>1 DEF Init, NoSeries
  <2>3. SumOf(m, pending[m], KeysOf(l)) = 0
    BY <2>1, SumsInit
  <2> QED
    BY <2>2, <2>3 DEF ShownOrBuffered
<1>2. LedgerTotal = Ledger!Zero
  BY <1>1 DEF LedgerTotal, Ledger!Zero
<1>3. ASSUME NEW m \in Counters PROVE NoSeries[m] = [l \in Series |-> 0]
  BY DEF NoSeries, Counters
<1>4. LedgerReported = Ledger!Zero
  BY <1>3 DEF LedgerReported, Ledger!Zero, Init
<1>5. LedgerBegun = {}
  BY DEF LedgerBegun, Init
<1>6. LedgerFloor = [s \in Scrapes |-> Ledger!Zero] /\ LedgerResult = [s \in Scrapes |-> Ledger!Zero]
  BY <1>3 DEF LedgerFloor, LedgerResult, Ledger!Zero, Init
<1> QED
  BY <1>2, <1>4, <1>5, <1>6
  DEF LedgerTotal, LedgerReported, LedgerBegun, LedgerFloor, LedgerResult, Ledger!Init

\* A value of a counter is recorded, or, when inc takes none that is negative, at most loses
\* older ones.
LEMMA RecordIsRecord ==
  ASSUME TypeOK, TypeOK', Buffers, NEW m \in Metrics, NEW k \in Keys, NEW a \in Amounts,
         OnMetricRecorded(m, k, a)
  PROVE  [Ledger!Next]_(Ledger!vars)
<1>1. UNCHANGED <<LedgerReported, LedgerBegun, LedgerFloor, LedgerResult>>
  BY DEF OnMetricRecorded, flushVars, scrapeVars,
         LedgerReported, LedgerBegun, LedgerFloor, LedgerResult
<1>2. ASSUME NEW n \in Counters, n # m PROVE LedgerTotal'[n] = LedgerTotal[n]
  BY <1>2, RecordedTotal DEF LedgerTotal
<1>3. SeriesOf[k] \in Series /\ a \in Int
  BY SeriesAssumption, AmountsAssumption
<1>4. CASE m \in Counters /\ a >= 0
  <2>1. ASSUME NEW l \in Series
        PROVE  LedgerTotal'[m][l] \in LedgerReported[m][l] ..
                 [LedgerTotal[m] EXCEPT ![SeriesOf[k]] = @ + a][l]
    <3>1. /\ series[m][l] \in Int /\ ShownOrBuffered(m, l) \in Int
          /\ ShownOrBuffered(m, l)' \in Int /\ series[m][l] <= ShownOrBuffered(m, l)'
          /\ ShownOrBuffered(m, l)'
               <= ShownOrBuffered(m, l) + (IF SeriesOf[k] = l /\ a >= 0 THEN a ELSE 0)
      BY <1>4, RecordedTotal
    <3>2. /\ LedgerTotal'[m][l] = ShownOrBuffered(m, l)' /\ LedgerReported[m][l] = series[m][l]
          /\ [LedgerTotal[m] EXCEPT ![SeriesOf[k]] = @ + a][l]
               = IF SeriesOf[k] = l THEN ShownOrBuffered(m, l) + a ELSE ShownOrBuffered(m, l)
      BY <1>3, <1>4 DEF LedgerTotal, LedgerReported
    <3> QED
      BY <1>3, <1>4, <3>1, <3>2
  <2>2. Ledger!Record(m, SeriesOf[k], a)
    BY <1>1, <1>2, <1>4, <2>1
    DEF LedgerTotal, LedgerReported, LedgerBegun, LedgerFloor, LedgerResult,
        Ledger!Record, Ledger!Between
  <2>3. a \in Amounts \cap Nat
    BY <1>3, <1>4
  <2> QED
    BY <1>3, <1>4, <2>2, <2>3 DEF Ledger!Next
<1>5. CASE ~ (m \in Counters /\ a >= 0)
  <2>1. ASSUME NEW n \in Counters, NEW l \in Series
        PROVE  LedgerTotal'[n][l] \in LedgerReported[n][l] .. LedgerTotal[n][l]
    <3>1. /\ series[n][l] \in Int /\ ShownOrBuffered(n, l) \in Int
          /\ ShownOrBuffered(n, l)' \in Int /\ series[n][l] <= ShownOrBuffered(n, l)'
          /\ n # m => ShownOrBuffered(n, l)' = ShownOrBuffered(n, l)
          /\ n = m => ShownOrBuffered(n, l)'
               <= ShownOrBuffered(n, l) + (IF SeriesOf[k] = l /\ a >= 0 THEN a ELSE 0)
      BY RecordedTotal
    <3>2. /\ LedgerTotal'[n][l] = ShownOrBuffered(n, l)' /\ LedgerReported[n][l] = series[n][l]
          /\ LedgerTotal[n][l] = ShownOrBuffered(n, l)
      BY DEF LedgerTotal, LedgerReported
    <3> QED
      BY <1>3, <1>5, <3>1, <3>2
  <2>2. Ledger!Lose
    BY <1>1, <2>1
    DEF LedgerTotal, LedgerReported, LedgerBegun, LedgerFloor, LedgerResult,
        Ledger!Lose, Ledger!Between
  <2> QED
    BY <2>2 DEF Ledger!Next
<1> QED
  BY <1>4, <1>5

\* GetMetrics begins a scrape of the ledger.
LEMMA FlushIsBegin ==
  ASSUME TypeOK, NEW s \in Scrapes, GetMetrics(s)
  PROVE  Ledger!Begin(s)
<1>1. LedgerTotal' = LedgerTotal
  BY CounterFlushed DEF LedgerTotal
<1>2. LedgerReported' = LedgerTotal
  <2>1. series' \in [Metrics -> [Series -> Int]]
    BY FlushKeepsTypes DEF GetMetrics
  <2>2. ASSUME NEW m \in Counters PROVE series'[m] = [l \in Series |-> ShownOrBuffered(m, l)]
    <3>1. series'[m] \in [Series -> Int]
      BY <2>1 DEF Counters
    <3> QED
      BY <3>1, CounterFlushed
  <2> QED
    BY <2>2 DEF LedgerReported, LedgerTotal
<1>3. s \notin LedgerBegun /\ LedgerBegun' = LedgerBegun \cup {s}
  BY DEF GetMetrics, LedgerBegun, TypeOK
<1>4. LedgerFloor' = [LedgerFloor EXCEPT ![s] = LedgerTotal]
  <2>1. floor' = [floor EXCEPT ![s] = series']
    BY DEF GetMetrics
  <2>2. ASSUME NEW r \in Scrapes
        PROVE  [m \in Counters |-> floor'[r][m]]
                 = IF r = s THEN LedgerReported' ELSE [m \in Counters |-> floor[r][m]]
    BY <2>1 DEF LedgerReported, TypeOK
  <2> QED
    BY <1>2, <2>2 DEF LedgerFloor
<1>5. LedgerResult' = LedgerResult
  BY DEF GetMetrics, LedgerResult
<1> QED
  BY <1>1, <1>2, <1>3, <1>4, <1>5
  DEF LedgerTotal, LedgerReported, LedgerBegun, LedgerFloor, LedgerResult, Ledger!Begin

\* An instrument that is read reports to its scrape, or nothing happens in the ledger.
LEMMA ReadIsRead ==
  ASSUME TypeOK, Floors, NEW s \in Scrapes, NEW m \in Metrics, ReadInstrument(s, m)
  PROVE  [Ledger!Next]_(Ledger!vars)
<1>1. UNCHANGED <<LedgerTotal, LedgerReported, LedgerBegun, LedgerFloor>>
  BY DEF ReadInstrument, bufferVars, flushVars, ShownOrBuffered,
         LedgerTotal, LedgerReported, LedgerBegun, LedgerFloor
<1>2. /\ result \in [Scrapes -> [Metrics -> [Series -> Int]]] /\ state[s] # "new"
      /\ result' = [result EXCEPT ![s] = [result[s] EXCEPT ![m] = series[m]]]
  BY DEF TypeOK, ReadInstrument
<1>3. ASSUME NEW r \in Scrapes, NEW n \in Metrics
      PROVE  result'[r][n] = IF r = s /\ n = m THEN series[m] ELSE result[r][n]
  BY <1>2
<1>4. CASE m \in Counters
  <2>1. s \in LedgerBegun
    BY <1>2 DEF LedgerBegun
  <2>2. LedgerResult' = [LedgerResult EXCEPT ![s] = [LedgerResult[s] EXCEPT ![m] = series[m]]]
    <3>1. ASSUME NEW r \in Scrapes
          PROVE  [n \in Counters |-> result'[r][n]]
                   = IF r = s THEN [[n \in Counters |-> result[s][n]] EXCEPT ![m] = series[m]]
                     ELSE [n \in Counters |-> result[r][n]]
      BY <1>3, <1>4 DEF Counters
    <3> QED
      BY <3>1 DEF LedgerResult
  <2>3. LedgerResult'[s][m] = series[m]
    BY <1>4, <2>2 DEF LedgerResult
  <2>4. LedgerResult' = [LedgerResult EXCEPT ![s][m] = LedgerResult'[s][m]]
    BY <2>2, <2>3
  <2>5. ASSUME NEW l \in Series
        PROVE  LedgerResult'[s][m][l] \in LedgerFloor[s][m][l] .. LedgerTotal[m][l]
    <3>1. /\ series[m][l] \in Int /\ ShownOrBuffered(m, l) \in Int
          /\ series[m][l] <= ShownOrBuffered(m, l)
      BY <1>4, CounterNumbers
    <3>2. floor[s][m][l] \in Int /\ floor[s][m][l] <= series[m][l]
      BY <1>2, <1>4 DEF Floors, TypeOK
    <3>3. LedgerFloor[s][m][l] = floor[s][m][l] /\ LedgerTotal[m][l] = ShownOrBuffered(m, l)
      BY <1>4 DEF LedgerFloor, LedgerTotal
    <3> QED
      BY <2>3, <3>1, <3>2, <3>3
  <2>6. Ledger!Read(s, m)
    BY <1>1, <2>1, <2>4, <2>5
    DEF LedgerTotal, LedgerReported, LedgerBegun, LedgerFloor, LedgerResult,
        Ledger!Read, Ledger!Between
  <2> QED
    BY <1>4, <2>6 DEF Ledger!Next
<1>5. CASE m \notin Counters
  <2>1. LedgerResult' = LedgerResult
    BY <1>3, <1>5 DEF LedgerResult, Counters
  <2> QED
    BY <1>1, <2>1
    DEF LedgerTotal, LedgerReported, LedgerBegun, LedgerFloor, LedgerResult, Ledger!vars
<1> QED
  BY <1>4, <1>5

\* Shutdown loses what is not shown.
LEMMA ShutdownIsLose ==
  ASSUME TypeOK, Shutdown PROVE Ledger!Lose
<1>1. UNCHANGED <<LedgerReported, LedgerBegun, LedgerFloor, LedgerResult>>
  BY DEF Shutdown, scrapeVars, LedgerReported, LedgerBegun, LedgerFloor, LedgerResult
<1>2. ASSUME NEW m \in Counters, NEW l \in Series
      PROVE  LedgerTotal'[m][l] \in LedgerReported[m][l] .. LedgerTotal[m][l]
  <2>1. /\ series[m][l] \in Int /\ ShownOrBuffered(m, l) \in Int
        /\ series[m][l] <= ShownOrBuffered(m, l)
    BY CounterNumbers
  <2>2. pending'[m] = <<>> /\ series' = series
    BY DEF Shutdown, Counters
  <2>3. SumOf(m, pending'[m], KeysOf(l)) = 0
    BY <2>2, SumOfNone
  <2>4. ShownOrBuffered(m, l)' = series[m][l]
    BY <2>1, <2>2, <2>3 DEF ShownOrBuffered
  <2>5. /\ LedgerTotal'[m][l] = ShownOrBuffered(m, l)' /\ LedgerReported[m][l] = series[m][l]
        /\ LedgerTotal[m][l] = ShownOrBuffered(m, l)
    BY DEF LedgerTotal, LedgerReported
  <2> QED
    BY <2>1, <2>4, <2>5
<1> QED
  BY <1>1, <1>2
  DEF LedgerTotal, LedgerReported, LedgerBegun, LedgerFloor, LedgerResult,
      Ledger!Lose, Ledger!Between

\* The exporter implements MetricsLedger: every scrape reports of each series of a counter
\* a value it had while the scrape was under way, what one scrape could see is never taken
\* back, and only values that no scrape could see yet are lost.
THEOREM CountersLedgerCorrect == Spec => CountersAreLedger
<1>1. Init => Ledger!Init /\ Floors
  BY LedgerInit DEF Init, Floors
<1>2. TypeOK /\ Floors /\ [Next]_vars => Floors'
  BY FloorSteps
<1>3. TypeOK /\ TypeOK' /\ Buffers /\ Floors /\ [Next]_vars => [Ledger!Next]_(Ledger!vars)
  <2> SUFFICES ASSUME TypeOK, TypeOK', Buffers, Floors, [Next]_vars
               PROVE  [Ledger!Next]_(Ledger!vars)
    OBVIOUS
  <2>1. ASSUME NEW m \in Metrics, OnDescriptorRegistered(m) PROVE UNCHANGED Ledger!vars
    BY <2>1 DEF OnDescriptorRegistered, bufferVars, flushVars, scrapeVars,
                ShownOrBuffered, Ledger!vars
  <2>2. ASSUME NEW m \in Metrics, NEW k \in Keys, NEW a \in Amounts, OnMetricRecorded(m, k, a)
        PROVE  [Ledger!Next]_(Ledger!vars)
    BY <2>2, RecordIsRecord
  <2>3. ASSUME NEW s \in Scrapes, GetMetrics(s) PROVE [Ledger!Next]_(Ledger!vars)
    BY <2>3, FlushIsBegin DEF Ledger!Next
  <2>4. ASSUME NEW s \in Scrapes, NEW m \in Metrics, ReadInstrument(s, m)
        PROVE  [Ledger!Next]_(Ledger!vars)
    BY <2>4, ReadIsRead
  <2>5. ASSUME NEW s \in Scrapes, GetMetricsReturns(s) \/ GetMetricsFails(s)
        PROVE  UNCHANGED Ledger!vars
    <3>1. UNCHANGED <<pending, series, floor, result>>
      BY <2>5 DEF GetMetricsReturns, GetMetricsFails, bufferVars, flushVars
    <3>2. LedgerBegun' = LedgerBegun
      BY <2>5 DEF GetMetricsReturns, GetMetricsFails, LedgerBegun, TypeOK
    <3> QED
      BY <3>1, <3>2 DEF LedgerBegun, ShownOrBuffered, Ledger!vars
  <2>6. CASE Shutdown
    BY <2>6, ShutdownIsLose DEF Ledger!Next
  <2>7. CASE UNCHANGED vars
    BY <2>7 DEF vars, bufferVars, flushVars, scrapeVars, ShownOrBuffered, Ledger!vars
  <2> QED
    BY <2>1, <2>2, <2>3, <2>4, <2>5, <2>6, <2>7 DEF Next
<1> QED
  BY <1>1, <1>2, <1>3, BuffersCorrect, PTL DEF Spec, CountersAreLedger, Ledger!Spec
=============================================================================
