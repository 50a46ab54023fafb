--------------------------- MODULE McpLoop_proofs ---------------------------
(***************************************************************************)
(* Proofs about the main loop of the MCP server, for every size of the     *)
(* queues, of the pages and of the card's FIFOs, every number of requests  *)
(* and of open requests: the state keeps its type, the two locks count the *)
(* bytes they are set to count, and the loop implements CommandService.    *)
(***************************************************************************)
EXTENDS McpLoop, FiniteSetTheorems, SequenceTheorems, TLAPS

-----------------------------------------------------------------------------
(* Sums and parts of sequences, and least numbers: those from the library's *)
(* fact that the subsets of a finite set are well founded.                  *)

(* A set of natural numbers that is not empty has a least one: the least of *)
(* the intervals 0 .. k, ordered by inclusion, is that of the least k.      *)
LEMMA LeastNumber ==
  ASSUME NEW T, T \subseteq Nat, T # {}
  PROVE  \E x \in T : \A y \in T : x <= y
<1>1. PICK n \in T : TRUE
  OBVIOUS
<1> DEFINE S == {0 .. k : k \in {j \in T : j <= n}}
<1>2. IsWellFoundedOn(StrictSubsetOrdering(0 .. n), SUBSET (0 .. n))
  <2>1. IsFiniteSet(0 .. n)
    BY FS_Interval
  <2>2. FiniteSubsetsOf(0 .. n) = SUBSET (0 .. n)
    BY <2>1, FS_FiniteSubsetsOfFinite, Zenon
  <2>3. QED
    BY <2>2, FS_StrictSubsetOrderingWellFounded, Zenon
<1>3. S \subseteq SUBSET (0 .. n) /\ S # {}
  BY <1>1
<1>4. PICK s \in S : \A r \in S : <<r, s>> \notin StrictSubsetOrdering(0 .. n)
  BY <1>2, <1>3, WFMin, Zenon
<1>5. PICK x \in T : x <= n /\ s = 0 .. x
  BY <1>4
<1>6. ASSUME NEW y \in T, ~(x <= y)
      PROVE  FALSE
  <2>1. x \in 0 .. x /\ x \notin 0 .. y
    BY <1>5, <1>6
  <2>2. /\ 0 .. y \in S
        /\ 0 .. y \subseteq 0 .. x /\ 0 .. y # 0 .. x
        /\ 0 .. y \subseteq 0 .. n /\ 0 .. x \subseteq 0 .. n
    BY <2>1, <1>5, <1>6
  <2>3. <<0 .. y, s>> \in StrictSubsetOrdering(0 .. n)
    BY <2>2, <1>5 DEF StrictSubsetOrdering
  <2>4. QED
    BY <2>2, <2>3, <1>4
<1>7. QED
  BY <1>6

(* Induction: a set with 0 and the successors of its numbers has them all.  *)
LEMMA NumbersByInduction ==
  ASSUME NEW S, 0 \in S, \A n \in Nat : n \in S => n + 1 \in S
  PROVE  Nat \subseteq S
<1> DEFINE T == {n \in Nat : n \notin S}
<1>1. SUFFICES ASSUME T # {}
               PROVE  FALSE
  OBVIOUS
<1>2. PICK x \in T : \A y \in T : x <= y
  BY <1>1, LeastNumber
<1>3. x - 1 \in Nat /\ x - 1 \notin T
  BY <1>2
<1>4. QED
  BY <1>2, <1>3

-----------------------------------------------------------------------------
(* Sums. *)

(* The sums of the prefixes of a sequence of numbers, as a function.        *)
Sums(s) ==
  CHOOSE sum : sum = [n \in 0 .. Len(s) |-> IF n = 0 THEN 0 ELSE sum[n - 1] + s[n]]

(* There is such a function: the one for n terms gives the one for n + 1.   *)
LEMMA SumsExist ==
  ASSUME NEW s \in Seq(Int)
  PROVE  /\ Sums(s) = [n \in 0 .. Len(s) |-> IF n = 0 THEN 0 ELSE Sums(s)[n - 1] + s[n]]
         /\ SumOf(s) = Sums(s)[Len(s)]
<1> DEFINE Is(sum, k) ==
             sum = [n \in 0 .. k |-> IF n = 0 THEN 0 ELSE sum[n - 1] + s[n]]
           S == {k \in Nat : k <= Len(s) => \E sum : Is(sum, k)}
<1>1. 0 \in S
  <2>1. Is([n \in 0 .. 0 |-> 0], 0)
    OBVIOUS
  <2>2. QED
    BY <2>1
<1>2. ASSUME NEW k \in Nat, k \in S
      PROVE  k + 1 \in S
  <2>1. CASE k + 1 <= Len(s)
    <3>1. PICK sum : Is(sum, k)
      BY <2>1, <1>2
    <3> DEFINE more == [n \in 0 .. k + 1 |-> IF n <= k THEN sum[n] ELSE sum[k] + s[k + 1]]
    <3>2. \A n \in 0 .. k + 1 :
            more[n] = IF n = 0 THEN 0 ELSE more[n - 1] + s[n]
      BY <3>1
    <3>3. Is(more, k + 1)
      BY <3>2
    <3>4. \E f : Is(f, k + 1)
      <4> HIDE DEF Is, more
      <4>1. QED
        BY <3>3
    <3>5. QED
      BY <3>4
  <2>2. CASE ~(k + 1 <= Len(s))
    BY <2>2
  <2>3. QED
    BY <2>1, <2>2
<1>3. Nat \subseteq S
  <2> HIDE DEF S
  <2>1. QED
    BY <1>1, <1>2, NumbersByInduction
<1>4. \E sum : Is(sum, Len(s))
  BY <1>3
<1>5. QED
  BY <1>4 DEF SumOf, Sums

(* The sums of the prefixes, one by one.                                    *)
LEMMA SumsStep ==
  ASSUME NEW s \in Seq(Int)
  PROVE  /\ Sums(s)[0] = 0
         /\ \A n \in 0 .. Len(s) - 1 : Sums(s)[n + 1] = Sums(s)[n] + s[n + 1]
         /\ \A n \in 0 .. Len(s) : Sums(s)[n] \in Int
<1>1. /\ Sums(s)[0] = 0
      /\ \A n \in 0 .. Len(s) - 1 : Sums(s)[n + 1] = Sums(s)[n] + s[n + 1]
  <2> DEFINE sum == Sums(s)
  <2>1. sum = [n \in 0 .. Len(s) |-> IF n = 0 THEN 0 ELSE sum[n - 1] + s[n]]
    BY SumsExist
  <2>2. Len(s) \in Nat
    OBVIOUS
  <2> HIDE DEF sum
  <2>3. /\ sum[0] = 0
        /\ \A n \in 0 .. Len(s) - 1 : sum[n + 1] = sum[n] + s[n + 1]
    BY <2>1, <2>2
  <2>4. QED
    BY <2>3 DEF sum
<1> DEFINE S == {n \in Nat : n <= Len(s) => Sums(s)[n] \in Int}
<1>2. 0 \in S
  BY <1>1
<1>3. ASSUME NEW n \in Nat, n \in S
      PROVE  n + 1 \in S
  BY <1>1, <1>3
<1>4. Nat \subseteq S
  <2> HIDE DEF S
  <2>1. QED
    BY <1>2, <1>3, NumbersByInduction
<1>5. QED
  BY <1>1, <1>4

(* A sum of integers is one. *)
LEMMA SumOfType ==
  ASSUME NEW s \in Seq(Int)
  PROVE  SumOf(s) \in Int
BY SumsExist, SumsStep

(* The sum of no numbers. *)
LEMMA SumOfEmpty == SumOf(<< >>) = 0
BY SumsExist, SumsStep, << >> \in Seq(Int), Len(<< >>) = 0

(* The sum of one number. *)
LEMMA SumOfOne ==
  ASSUME NEW x \in Int
  PROVE  SumOf(<<x>>) = x
<1> DEFINE s == <<x>>
<1>1. s \in Seq(Int) /\ Len(s) = 1 /\ s[1] = x
  OBVIOUS
<1> HIDE DEF s
<1>2. Sums(s)[0] = 0 /\ \A n \in 0 .. Len(s) - 1 : Sums(s)[n + 1] = Sums(s)[n] + s[n + 1]
  BY <1>1, SumsStep
<1>3. Sums(s)[1] = x
  BY <1>1, <1>2, 0 \in 0 .. Len(s) - 1
<1>4. SumOf(s) = x
  BY <1>1, <1>3, SumsExist
<1>5. QED
  BY <1>4 DEF s

(* The sum of two sequences, one after the other.                           *)
LEMMA SumOfConcat ==
  ASSUME NEW s \in Seq(Int), NEW t \in Seq(Int)
  PROVE  SumOf(s \o t) = SumOf(s) + SumOf(t)
<1>1. /\ s \o t \in Seq(Int) /\ Len(s \o t) = Len(s) + Len(t)
      /\ \A i \in 1 .. Len(s) : (s \o t)[i] = s[i]
      /\ \A i \in 1 .. Len(t) : (s \o t)[Len(s) + i] = t[i]
      /\ Len(s) \in Nat /\ Len(t) \in Nat
  OBVIOUS
<1> DEFINE S == {n \in Nat : n <= Len(s) => Sums(s \o t)[n] = Sums(s)[n]}
           T == {n \in Nat : n <= Len(t) =>
                   Sums(s \o t)[Len(s) + n] = Sums(s)[Len(s)] + Sums(t)[n]}
<1>2. 0 \in S
  BY <1>1, SumsStep
<1>3. ASSUME NEW n \in Nat, n \in S
      PROVE  n + 1 \in S
  <2>1. CASE n + 1 <= Len(s)
    <3>1. n \in 0 .. Len(s) - 1 /\ n \in 0 .. Len(s \o t) - 1
          /\ (s \o t)[n + 1] = s[n + 1]
      BY <2>1, <1>1
    <3>2. Sums(s \o t)[n + 1] = Sums(s \o t)[n] + s[n + 1]
      BY <3>1, <1>1, SumsStep
    <3>3. Sums(s)[n + 1] = Sums(s)[n] + s[n + 1]
      BY <3>1, SumsStep
    <3>4. QED
      BY <3>2, <3>3, <1>3, <2>1
  <2>2. CASE ~(n + 1 <= Len(s))
    BY <2>2
  <2>3. QED
    BY <2>1, <2>2
<1>4. Nat \subseteq S
  <2> HIDE DEF S
  <2>1. QED
    BY <1>2, <1>3, NumbersByInduction
<1>5. 0 \in T
  BY <1>1, <1>4, SumsStep
<1>6. ASSUME NEW n \in Nat, n \in T
      PROVE  n + 1 \in T
  <2>1. CASE n + 1 <= Len(t)
    <3>1. /\ Len(s) + n \in 0 .. Len(s \o t) - 1 /\ n \in 0 .. Len(t) - 1
          /\ (s \o t)[(Len(s) + n) + 1] = t[n + 1]
      <4>1. n + 1 \in 1 .. Len(t) /\ Len(s) + (n + 1) = (Len(s) + n) + 1
        BY <1>1, <2>1
      <4>2. QED
        BY <1>1, <2>1, <4>1
    <3>2. Sums(s \o t)[(Len(s) + n) + 1] = Sums(s \o t)[Len(s) + n] + t[n + 1]
      BY <3>1, <1>1, SumsStep
    <3>3. Sums(t)[n + 1] = Sums(t)[n] + t[n + 1]
      BY <3>1, SumsStep
    <3>4. /\ Sums(s)[Len(s)] \in Int /\ Sums(t)[n] \in Int /\ t[n + 1] \in Int
          /\ (Len(s) + n) + 1 = Len(s) + (n + 1)
      BY <3>1, <1>1, SumsStep
    <3>5. QED
      BY <3>2, <3>3, <3>4, <1>6, <2>1
  <2>2. CASE ~(n + 1 <= Len(t))
    BY <2>2
  <2>3. QED
    BY <2>1, <2>2
<1>7. Nat \subseteq T
  <2> HIDE DEF T
  <2>1. QED
    BY <1>5, <1>6, NumbersByInduction
<1>8. Sums(s \o t)[Len(s) + Len(t)] = Sums(s)[Len(s)] + Sums(t)[Len(t)]
  BY <1>1, <1>7
<1>9. SumOf(s \o t) = Sums(s \o t)[Len(s \o t)]
  BY <1>1, SumsExist
<1>10. QED
  BY <1>1, <1>8, <1>9, SumsExist

(* Numbers that are not negative: no member is above the sum.               *)
LEMMA SumOfNaturals ==
  ASSUME NEW s \in Seq(Nat)
  PROVE  /\ SumOf(s) \in Nat
         /\ \A i \in 1 .. Len(s) : s[i] <= SumOf(s)
<1>1. s \in Seq(Int) /\ Len(s) \in Nat /\ \A i \in 1 .. Len(s) : s[i] \in Nat
  OBVIOUS
<1> DEFINE S == {n \in Nat : n <= Len(s) =>
                   /\ Sums(s)[n] \in Nat
                   /\ \A i \in 1 .. n : s[i] <= Sums(s)[n]}
<1>2. 0 \in S
  BY <1>1, SumsStep
<1>3. ASSUME NEW n \in Nat, n \in S
      PROVE  n + 1 \in S
  <2>1. CASE n + 1 <= Len(s)
    <3>1. /\ Sums(s)[n + 1] = Sums(s)[n] + s[n + 1]
          /\ Sums(s)[n] \in Nat /\ s[n + 1] \in Nat
          /\ \A i \in 1 .. n : s[i] <= Sums(s)[n]
      BY <1>1, <1>3, <2>1, SumsStep
    <3>2. ASSUME NEW i \in 1 .. n + 1
          PROVE  s[i] <= Sums(s)[n + 1]
      <4>1. CASE i = n + 1
        BY <4>1, <3>1
      <4>2. CASE i # n + 1
        <5>1. i \in 1 .. n /\ s[i] \in Nat
          BY <4>2, <2>1, <1>1
        <5> DEFINE x == Sums(s)[n]
                   y == Sums(s)[n + 1]
                   v == s[n + 1]
        <5>2. x \in Nat /\ v \in Nat /\ y = x + v /\ s[i] <= x
          BY <5>1, <3>1
        <5> HIDE DEF x, y, v
        <5>3. s[i] <= y
          BY <5>1, <5>2
        <5>4. QED
          BY <5>3 DEF y
      <4>3. QED
        BY <4>1, <4>2
    <3>3. QED
      BY <3>1, <3>2
  <2>2. CASE ~(n + 1 <= Len(s))
    BY <2>2
  <2>3. QED
    BY <2>1, <2>2
<1>4. Nat \subseteq S
  <2> HIDE DEF S
  <2>1. QED
    BY <1>2, <1>3, NumbersByInduction
<1>5. QED
  BY <1>1, <1>4, SumsExist

-----------------------------------------------------------------------------
(* What a sequence weighs, when a function w gives the weight of a member.  *)

Weights(s, w) == [i \in 1 .. Len(s) |-> w[s[i]]]
Weight(s, w) == SumOf(Weights(s, w))

(* The weights of the elements are integers. *)
LEMMA WeightsOfSequence ==
  ASSUME NEW S, NEW w \in [S -> Int], NEW s \in Seq(S)
  PROVE  /\ Weights(s, w) \in Seq(Int)
         /\ Len(Weights(s, w)) = Len(s)
         /\ \A i \in 1 .. Len(s) : Weights(s, w)[i] = w[s[i]]
BY DEF Weights

(* A weight is an integer. *)
LEMMA WeightType ==
  ASSUME NEW S, NEW w \in [S -> Int], NEW s \in Seq(S)
  PROVE  Weight(s, w) \in Int
BY WeightsOfSequence, SumOfType DEF Weight

(* The weight of no elements. *)
LEMMA WeightOfEmpty ==
  ASSUME NEW w
  PROVE  Weight(<< >>, w) = 0
<1>1. Weights(<< >>, w) = << >>
  BY DEF Weights
<1>2. QED
  BY <1>1, SumOfEmpty DEF Weight

(* The weight of one element. *)
LEMMA WeightOfOne ==
  ASSUME NEW S, NEW w \in [S -> Int], NEW x \in S
  PROVE  Weight(<<x>>, w) = w[x]
<1>1. Weights(<<x>>, w) = <<w[x]>>
  BY DEF Weights
<1>2. QED
  BY <1>1, SumOfOne DEF Weight

(* Weights of sequences put together add up. *)
LEMMA WeightOfConcat ==
  ASSUME NEW S, NEW w \in [S -> Int], NEW s \in Seq(S), NEW t \in Seq(S)
  PROVE  Weight(s \o t, w) = Weight(s, w) + Weight(t, w)
<1>1. Weights(s \o t, w) = Weights(s, w) \o Weights(t, w)
  BY WeightsOfSequence DEF Weights
<1>2. QED
  BY <1>1, WeightsOfSequence, SumOfConcat DEF Weight

(* A sequence is its head before its tail. *)
LEMMA HeadBeforeTail ==
  ASSUME NEW S, NEW s \in Seq(S), s # << >>
  PROVE  s = <<Head(s)>> \o Tail(s) /\ Head(s) \in S /\ Tail(s) \in Seq(S)
OBVIOUS

(* The weight of the head and of the tail. *)
LEMMA WeightOfTail ==
  ASSUME NEW S, NEW w \in [S -> Int], NEW s \in Seq(S), s # << >>
  PROVE  Weight(s, w) = w[Head(s)] + Weight(Tail(s), w)
<1>1. s = <<Head(s)>> \o Tail(s) /\ <<Head(s)>> \in Seq(S) /\ Tail(s) \in Seq(S)
      /\ Head(s) \in S
  BY HeadBeforeTail
<1>2. QED
  BY <1>1, WeightOfConcat, WeightOfOne

(* Weights that are not negative: no member weighs more than the sequence.  *)
LEMMA WeightOfMember ==
  ASSUME NEW S, NEW w \in [S -> Nat], NEW s \in Seq(S)
  PROVE  /\ Weight(s, w) \in Nat
         /\ \A i \in 1 .. Len(s) : w[s[i]] <= Weight(s, w)
<1>1. Weights(s, w) \in Seq(Nat)
  BY DEF Weights
<1>2. /\ SumOf(Weights(s, w)) \in Nat
      /\ \A i \in 1 .. Len(Weights(s, w)) : Weights(s, w)[i] <= SumOf(Weights(s, w))
  BY <1>1, SumOfNaturals
<1>3. w \in [S -> Int]
  OBVIOUS
<1>4. QED
  BY <1>2, <1>3, WeightsOfSequence DEF Weight

-----------------------------------------------------------------------------
(* The members of a sequence that are in a set. *)

Selections(s, S) ==
  CHOOSE those : those = [n \in 0 .. Len(s) |->
        IF n = 0 THEN << >> ELSE Joined(those[n - 1], s[n], S)]

(* There is such a function, for the same reason as there are sums.         *)
LEMMA SelectionsExist ==
  ASSUME NEW U, NEW s \in Seq(U), NEW S
  PROVE  /\ Selections(s, S) = [n \in 0 .. Len(s) |->
               IF n = 0 THEN << >> ELSE Joined(Selections(s, S)[n - 1], s[n], S)]
         /\ Those(s, S) = Selections(s, S)[Len(s)]
<1> DEFINE Is(f, k) == f = [n \in 0 .. k |->
                         IF n = 0 THEN << >> ELSE Joined(f[n - 1], s[n], S)]
           T == {k \in Nat : k <= Len(s) => \E f : Is(f, k)}
<1>1. 0 \in T
  <2>1. Is([n \in 0 .. 0 |-> << >>], 0)
    OBVIOUS
  <2>2. QED
    BY <2>1
<1>2. ASSUME NEW k \in Nat, k \in T
      PROVE  k + 1 \in T
  <2>1. CASE k + 1 <= Len(s)
    <3>1. PICK f : Is(f, k)
      BY <2>1, <1>2
    <3> DEFINE more == [n \in 0 .. k + 1 |->
                          IF n <= k THEN f[n] ELSE Joined(f[k], s[k + 1], S)]
    <3>2. \A n \in 0 .. k + 1 :
            more[n] = IF n = 0 THEN << >> ELSE Joined(more[n - 1], s[n], S)
      BY <3>1
    <3>3. Is(more, k + 1)
      BY <3>2
    <3>4. \E g : Is(g, k + 1)
      <4> HIDE DEF Is, more
      <4>1. QED
        BY <3>3
    <3>5. QED
      BY <3>4
  <2>2. CASE ~(k + 1 <= Len(s))
    BY <2>2
  <2>3. QED
    BY <2>1, <2>2
<1>3. Nat \subseteq T
  <2> HIDE DEF T
  <2>1. QED
    BY <1>1, <1>2, NumbersByInduction
<1>4. \E f : Is(f, Len(s))
  BY <1>3
<1>5. QED
  BY <1>4 DEF Those, Selections

(* An element joined to a sequence makes a sequence. *)
LEMMA JoinedType ==
  ASSUME NEW S, NEW t \in Seq(S), NEW x
  PROVE  Joined(t, x, S) \in Seq(S)
BY DEF Joined

(* Each selection is the one before with the next element joined. *)
LEMMA SelectionsStep ==
  ASSUME NEW U, NEW s \in Seq(U), NEW S
  PROVE  /\ Selections(s, S)[0] = << >>
         /\ \A n \in 0 .. Len(s) - 1 :
              Selections(s, S)[n + 1] = Joined(Selections(s, S)[n], s[n + 1], S)
         /\ \A n \in 0 .. Len(s) : Selections(s, S)[n] \in Seq(S)
<1> DEFINE f == Selections(s, S)
<1>1. Len(s) \in Nat
  OBVIOUS
<1>2. f = [n \in 0 .. Len(s) |-> IF n = 0 THEN << >> ELSE Joined(f[n - 1], s[n], S)]
  BY SelectionsExist, Zenon
<1> HIDE DEF f
<1>3. /\ f[0] = << >>
      /\ \A n \in 0 .. Len(s) - 1 : f[n + 1] = Joined(f[n], s[n + 1], S)
  BY <1>1, <1>2
<1>4. \A n \in 0 .. Len(s) : f[n] \in Seq(S)
  <2> DEFINE T == {n \in Nat : n <= Len(s) => f[n] \in Seq(S)}
  <2>1. 0 \in T
    <3>1. << >> \in Seq(S)
      OBVIOUS
    <3>2. f[0] \in Seq(S)
      BY <3>1, <1>3, Zenon
    <3>3. QED
      BY <3>2
  <2>2. ASSUME NEW n \in Nat, n \in T
        PROVE  n + 1 \in T
    BY <2>2, <1>1, <1>3, JoinedType
  <2>3. Nat \subseteq T
    <3> HIDE DEF T
    <3>1. QED
      BY <2>1, <2>2, NumbersByInduction
  <2>4. QED
    BY <2>3, <1>1
<1>5. QED
  BY <1>3, <1>4 DEF f

(* What is selected is in the set. *)
LEMMA ThoseType ==
  ASSUME NEW U, NEW s \in Seq(U), NEW S
  PROVE  Those(s, S) \in Seq(S)
<1>1. Len(s) \in 0 .. Len(s)
  OBVIOUS
<1>2. Selections(s, S)[Len(s)] \in Seq(S)
  BY <1>1, SelectionsStep, Zenon
<1>3. Those(s, S) = Selections(s, S)[Len(s)]
  BY SelectionsExist, Zenon
<1>4. QED
  BY <1>2, <1>3

(* What is selected of nothing. *)
LEMMA ThoseOfEmpty ==
  ASSUME NEW S
  PROVE  Those(<< >>, S) = << >>
<1> DEFINE s == << >>
<1>1. s \in Seq({}) /\ Len(s) = 0
  OBVIOUS
<1> HIDE DEF s
<1>2. Selections(s, S)[0] = << >>
  BY <1>1, SelectionsStep, Zenon
<1>3. Those(s, S) = Selections(s, S)[Len(s)]
  BY <1>1, SelectionsExist, Zenon
<1>4. QED
  BY <1>1, <1>2, <1>3 DEF s

(* What is selected of one element. *)
LEMMA ThoseOfOne ==
  ASSUME NEW x, NEW S
  PROVE  Those(<<x>>, S) = IF x \in S THEN <<x>> ELSE << >>
<1> DEFINE s == <<x>>
<1>1. /\ s \in Seq({x}) /\ Len(s) = 1 /\ s[1] = x /\ 0 \in 0 .. Len(s) - 1
      /\ Joined(<< >>, x, S) = IF x \in S THEN s ELSE << >>
  BY DEF Joined
<1> HIDE DEF s
<1>2. /\ Selections(s, S)[0] = << >>
      /\ \A n \in 0 .. Len(s) - 1 :
           Selections(s, S)[n + 1] = Joined(Selections(s, S)[n], s[n + 1], S)
  BY <1>1, SelectionsStep, Zenon
<1>3. Selections(s, S)[1] = Joined(<< >>, x, S)
  BY <1>1, <1>2
<1>4. Those(s, S) = Selections(s, S)[1]
  BY <1>1, SelectionsExist, Zenon
<1>5. Those(s, S) = IF x \in S THEN s ELSE << >>
  BY <1>1, <1>3, <1>4, Zenon
<1>6. QED
  BY <1>5 DEF s

(* Joining to two sequences is joining to the second. *)
LEMMA JoinedToConcat ==
  ASSUME NEW S, NEW a \in Seq(S), NEW b \in Seq(S), NEW x
  PROVE  Joined(a \o b, x, S) = a \o Joined(b, x, S)
<1>1. CASE x \in S
  <2>1. Joined(a \o b, x, S) = Append(a \o b, x) /\ Joined(b, x, S) = Append(b, x)
    BY <1>1 DEF Joined
  <2>2. /\ Append(a \o b, x) \in Seq(S) /\ a \o Append(b, x) \in Seq(S)
        /\ Len(Append(a \o b, x)) = Len(a) + Len(b) + 1
        /\ Len(a \o Append(b, x)) = Len(a) + (Len(b) + 1)
        /\ Len(a) \in Nat /\ Len(b) \in Nat
    BY <1>1
  <2>3. ASSUME NEW i \in 1 .. Len(a) + Len(b) + 1
        PROVE  Append(a \o b, x)[i] = (a \o Append(b, x))[i]
    <3>1. CASE i <= Len(a)
      BY <3>1, <2>2, <1>1
    <3>2. CASE Len(a) < i /\ i <= Len(a) + Len(b)
      BY <3>2, <2>2, <1>1
    <3>3. CASE i = Len(a) + Len(b) + 1
      BY <3>3, <2>2, <1>1
    <3>4. QED
      BY <3>1, <3>2, <3>3, <2>2
  <2>4. Append(a \o b, x) = a \o Append(b, x)
    <3> DEFINE l == Append(a \o b, x)
               r == a \o Append(b, x)
    <3>1. /\ l \in Seq(S) /\ r \in Seq(S) /\ Len(l) = Len(r)
          /\ \A i \in 1 .. Len(l) : l[i] = r[i]
      BY <2>2, <2>3
    <3> HIDE DEF l, r
    <3>2. l = r
      BY <3>1, SeqEqual, Zenon
    <3>3. QED
      BY <3>2 DEF l, r
  <2>5. QED
    BY <2>1, <2>4
<1>2. CASE x \notin S
  BY <1>2 DEF Joined
<1>3. QED
  BY <1>1, <1>2

(* The selection of two sequences, one after the other.                     *)
LEMMA ThoseOfConcat ==
  ASSUME NEW U, NEW s \in Seq(U), NEW t \in Seq(U), NEW S
  PROVE  Those(s \o t, S) = Those(s, S) \o Those(t, S)
<1> DEFINE st == s \o t
           whole == Selections(st, S)
           left == Selections(s, S)
           right == Selections(t, S)
<1>1. /\ st \in Seq(U) /\ Len(st) = Len(s) + Len(t)
      /\ \A i \in 1 .. Len(s) : st[i] = s[i]
      /\ \A i \in 1 .. Len(t) : st[Len(s) + i] = t[i]
      /\ Len(s) \in Nat /\ Len(t) \in Nat
  OBVIOUS
<1>2. /\ Those(st, S) = whole[Len(st)]
      /\ Those(s, S) = left[Len(s)] /\ Those(t, S) = right[Len(t)]
  <2> HIDE DEF st
  <2>1. QED
    BY <1>1, SelectionsExist, Zenon
<1>3. /\ left[0] = << >>
      /\ \A n \in 0 .. Len(s) - 1 : left[n + 1] = Joined(left[n], s[n + 1], S)
      /\ \A n \in 0 .. Len(s) : left[n] \in Seq(S)
  BY SelectionsStep, Zenon
<1>4. /\ right[0] = << >>
      /\ \A n \in 0 .. Len(t) - 1 : right[n + 1] = Joined(right[n], t[n + 1], S)
      /\ \A n \in 0 .. Len(t) : right[n] \in Seq(S)
  BY SelectionsStep, Zenon
<1>5. /\ whole[0] = << >>
      /\ \A n \in 0 .. Len(st) - 1 : whole[n + 1] = Joined(whole[n], st[n + 1], S)
  <2> HIDE DEF st
  <2>1. st \in Seq(U)
    BY <1>1
  <2>2. QED
    BY <2>1, SelectionsStep, Zenon
<1> HIDE DEF st, whole, left, right
<1>6. \A n \in 0 .. Len(s) : whole[n] = left[n]
  <2> DEFINE A == {n \in Nat : n <= Len(s) => whole[n] = left[n]}
  <2>1. 0 \in A
    BY <1>3, <1>5
  <2>2. ASSUME NEW n \in Nat, n \in A
        PROVE  n + 1 \in A
    <3>1. CASE n + 1 <= Len(s)
      <4>1. n \in 0 .. Len(s) - 1 /\ n \in 0 .. Len(st) - 1 /\ st[n + 1] = s[n + 1]
        BY <3>1, <1>1
      <4>2. QED
        BY <4>1, <2>2, <1>3, <1>5
    <3>2. CASE ~(n + 1 <= Len(s))
      BY <3>2
    <3>3. QED
      BY <3>1, <3>2
  <2>3. Nat \subseteq A
    <3> HIDE DEF A
    <3>1. QED
      BY <2>1, <2>2, NumbersByInduction
  <2>4. QED
    BY <2>3, <1>1
<1> DEFINE joined(n) == left[Len(s)] \o right[n]
<1>7. joined(0) = whole[Len(s) + 0]
  <2>1. /\ whole[Len(s)] = left[Len(s)] /\ left[Len(s)] \in Seq(S)
        /\ Len(s) + 0 = Len(s)
    BY <1>1, <1>3, <1>6
  <2>2. left[Len(s)] \o << >> = left[Len(s)]
    BY <2>1
  <2>3. QED
    BY <2>1, <2>2, <1>4
<1>8. ASSUME NEW n \in 0 .. Len(t) - 1
      PROVE  joined(n + 1) = Joined(joined(n), t[n + 1], S)
  <2>1. left[Len(s)] \in Seq(S) /\ right[n] \in Seq(S)
    BY <1>1, <1>3, <1>4
  <2>2. right[n + 1] = Joined(right[n], t[n + 1], S)
    BY <1>4
  <2>3. Joined(left[Len(s)] \o right[n], t[n + 1], S)
          = left[Len(s)] \o Joined(right[n], t[n + 1], S)
    BY <2>1, JoinedToConcat, Zenon
  <2>4. QED
    BY <2>2, <2>3, Zenon
<1> HIDE DEF joined
<1>9. \A n \in 0 .. Len(t) : whole[Len(s) + n] = joined(n)
  <2> DEFINE B == {n \in Nat : n <= Len(t) => whole[Len(s) + n] = joined(n)}
  <2>1. 0 \in B
    BY <1>7
  <2>2. ASSUME NEW n \in Nat, n \in B
        PROVE  n + 1 \in B
    <3>1. CASE n + 1 <= Len(t)
      <4>1. /\ n \in 0 .. Len(t) - 1 /\ n + 1 \in 1 .. Len(t)
            /\ Len(s) + n \in 0 .. Len(st) - 1
            /\ Len(s) + (n + 1) = (Len(s) + n) + 1
            /\ whole[Len(s) + n] = joined(n)
        BY <3>1, <2>2, <1>1
      <4>2. st[(Len(s) + n) + 1] = t[n + 1]
        BY <4>1, <1>1
      <4>3. whole[(Len(s) + n) + 1]
              = Joined(whole[Len(s) + n], st[(Len(s) + n) + 1], S)
        BY <4>1, <1>5
      <4>4. whole[Len(s) + (n + 1)] = joined(n + 1)
        BY <4>1, <4>2, <4>3, <1>8
      <4>5. QED
        BY <4>4
    <3>2. CASE ~(n + 1 <= Len(t))
      BY <3>2
    <3>3. QED
      BY <3>1, <3>2
  <2>3. Nat \subseteq B
    <3> HIDE DEF B
    <3>1. QED
      BY <2>1, <2>2, NumbersByInduction
  <2>4. QED
    BY <2>3, <1>1
<1>10. Those(st, S) = joined(Len(t))
  BY <1>1, <1>2, <1>9
<1>11. QED
  BY <1>2, <1>10 DEF joined, st

(* What is selected of the head and of the tail. *)
LEMMA ThoseOfTail ==
  ASSUME NEW U, NEW s \in Seq(U), s # << >>, NEW S
  PROVE  Those(s, S) = (IF Head(s) \in S THEN <<Head(s)>> ELSE << >>)
                         \o Those(Tail(s), S)
<1> DEFINE first == <<Head(s)>>
           rest == Tail(s)
<1>1. s = first \o rest /\ first \in Seq(U) /\ rest \in Seq(U)
  BY HeadBeforeTail
<1>2. Those(first, S) = IF Head(s) \in S THEN <<Head(s)>> ELSE << >>
  BY ThoseOfOne
<1> HIDE DEF first, rest
<1>3. first \in Seq(U) /\ rest \in Seq(U)
  BY <1>1, Zenon
<1>4. Those(first \o rest, S) = Those(first, S) \o Those(rest, S)
  BY <1>3, ThoseOfConcat
<1>5. QED
  BY <1>1, <1>2, <1>4, Zenon DEF rest

-----------------------------------------------------------------------------
(* The inductive invariant. *)

Stores == {"salloc", "ialloc"}

StreamPacket ==
  [what : COMMAND \cup {"data", "rest"}, size : Nat \ {0},
   val : VALUE \cup {NoPage}, wants : Nat]
AnswerPacket ==
  [what : Commands \cup {"page"}, size : Nat \ {0},
   val : VALUE \cup {NoPage}, last : BOOLEAN]

(* The client sends as much BinaryData as its SALLOC or IALLOC asks for.    *)
DataAsWanted ==
  /\ "salloc" \in COMMAND => DATA_SIZE = {PAGE_SIZE}
  /\ "ialloc" \in COMMAND =>
       \A size \in DATA_SIZE, insert \in INSERT_SIZE : size = insert

(* Only the packet at the head can be what is left of one.                  *)
RestFirst(s) == \A i \in 1 .. Len(s) : s[i].what = "rest" => i = 1

(* Each SALLOC or IALLOC is followed by its BinaryData, and marked with the *)
(* page it leaves, if the data is enough.                                   *)
Paired(c, d) ==
  /\ d.what = "data" /\ d.wants = c.wants /\ d.val \in VALUE
  /\ c.val = IF d.size - PACKET_OVERHEAD >= c.wants THEN d.val ELSE NoPage
StoresPaired(s) ==
  \A i \in 1 .. Len(s) :
    s[i].what \in Stores => i < Len(s) /\ Paired(s[i], s[i + 1])

DataWhole(s) ==
  \A i \in 1 .. Len(s) : s[i].what = "data" =>
    /\ s[i].size > PACKET_OVERHEAD
    /\ DataAsWanted => s[i].size = s[i].wants + PACKET_OVERHEAD

(* Nothing is sent after a RESET, nor after a RALLOC by a client that waits.*)
ResetLast(s) == \A i \in 1 .. Len(s) : s[i].what = "reset" => i = Len(s)
RallocLast(s) ==
  WaitsForPage => \A i \in 1 .. Len(s) : s[i].what = "ralloc" => i = Len(s)

Shape(s) ==
  /\ s \in Seq(StreamPacket)
  /\ RestFirst(s) /\ StoresPaired(s) /\ DataWhole(s)
  /\ ResetLast(s) /\ RallocLast(s)

(* The answers under way end with a last one, and the client has not had    *)
(* all of the first.                                                        *)
OutShape ==
  /\ out \in Seq(AnswerPacket)
  /\ out # << >> => out[Len(out)].last /\ Got < Head(out).size

(* Every command that gets an answer, and every answer, is of a request     *)
(* that is open.                                                            *)
AwaitedBy ==
  [p \in StreamPacket |-> IF p.what \in Commands \ {"getfile"} THEN 1 ELSE 0]
LastOf == [p \in AnswerPacket |-> IF p.last THEN 1 ELSE 0]
Counted == Weight(stream, AwaitedBy) + Weight(out, LastOf) <= open

ResetPending(s) == \E i \in 1 .. Len(s) : s[i].what = "reset"
ResetAlone == ResetPending(stream) => open = 1 /\ out = << >>

(* Each byte of the packets is with its writer, in the card's FIFO, in the  *)
(* server's queue or with its reader.                                       *)
Bytes ==
  /\ in_bytes \in 0 .. Total(stream) /\ up \in 0 .. FIFO_DEPTH
  /\ out_bytes \in 0 .. OUT_SIZE /\ down \in 0 .. FIFO_DEPTH
  /\ Unwritten >= 0 /\ Got >= 0
  /\ open \in 0 .. WINDOW

Queues == Bytes /\ Shape(stream) /\ OutShape /\ Counted /\ ResetAlone

Locks ==
  /\ binary_data_receive_mode \in Int /\ binary_data_send_mode \in Nat
  /\ WaitsForPage => SendLockCountsBytesToSend
  /\ DataAsWanted =>
       binary_data_receive_mode \in Nat /\ ReceiveLockCountsMissingBytes

ServerState ==
  /\ command_states \in [Slots -> CommandState]
  /\ page \in VALUE \cup {NoPage}
  /\ halting \in BOOLEAN
  /\ packet_check_counter \in 0 .. MAX_COMMAND_WAIT
  /\ tick_check_counter \in 0 .. MAX_TICK_WAIT
  /\ pc \in {"read", "send", "check", "tick"}
  /\ requests \in 0 .. MaxRequests

IInv == Queues /\ Locks /\ ServerState

(* The invariant has the types of the state in it. *)
LEMMA InvariantHasTypes == IInv => TypeOK
BY DEF IInv, Queues, Bytes, Locks, ServerState, TypeOK

-----------------------------------------------------------------------------
(* Sizes and weights of packets. *)

StreamSize == [p \in StreamPacket |-> p.size]
AnswerSize == [p \in AnswerPacket |-> p.size]
CommandsOf(s) == Those(Brief(s), Request)

(* The weights are numbers for every packet. *)
LEMMA WeightTypes ==
  /\ StreamSize \in [StreamPacket -> Nat] /\ StreamSize \in [StreamPacket -> Int]
  /\ AwaitedBy \in [StreamPacket -> Nat] /\ AwaitedBy \in [StreamPacket -> Int]
  /\ AnswerSize \in [AnswerPacket -> Nat] /\ AnswerSize \in [AnswerPacket -> Int]
  /\ LastOf \in [AnswerPacket -> Nat] /\ LastOf \in [AnswerPacket -> Int]
BY DEF StreamSize, AwaitedBy, AnswerSize, LastOf, StreamPacket, AnswerPacket

(* Total is a weight.                                                       *)
LEMMA TotalOfStream ==
  ASSUME NEW s \in Seq(StreamPacket)
  PROVE  Total(s) = Weight(s, StreamSize) /\ Total(s) \in Nat
<1>1. [i \in 1 .. Len(s) |-> s[i].size] = Weights(s, StreamSize)
  BY DEF StreamSize, Weights
<1>2. QED
  BY <1>1, WeightTypes, WeightOfMember DEF Total, Weight

(* Total is a weight of answers too. *)
LEMMA TotalOfAnswers ==
  ASSUME NEW s \in Seq(AnswerPacket)
  PROVE  Total(s) = Weight(s, AnswerSize) /\ Total(s) \in Nat
<1>1. [i \in 1 .. Len(s) |-> s[i].size] = Weights(s, AnswerSize)
  BY DEF AnswerSize, Weights
<1>2. QED
  BY <1>1, WeightTypes, WeightOfMember DEF Total, Weight

(* The first packet of the stream and the others.                           *)
LEMMA StreamTail ==
  ASSUME NEW s \in Seq(StreamPacket), s # << >>
  PROVE  /\ Head(s) \in StreamPacket /\ Head(s) = s[1] /\ Head(s).size \in Nat \ {0}
         /\ Tail(s) \in Seq(StreamPacket)
         /\ Len(s) \in Nat \ {0} /\ Len(Tail(s)) = Len(s) - 1
         /\ \A i \in 1 .. Len(Tail(s)) : Tail(s)[i] = s[i + 1]
         /\ Total(s) = Head(s).size + Total(Tail(s))
         /\ Total(s) \in Nat /\ Total(Tail(s)) \in Nat
         /\ Weight(s, AwaitedBy) = AwaitedBy[Head(s)] + Weight(Tail(s), AwaitedBy)
         /\ AwaitedBy[Head(s)] \in Nat
         /\ Weight(s, AwaitedBy) \in Nat /\ Weight(Tail(s), AwaitedBy) \in Nat
<1>1. /\ Head(s) \in StreamPacket /\ Head(s) = s[1]
      /\ Tail(s) \in Seq(StreamPacket)
      /\ Len(s) \in Nat \ {0} /\ Len(Tail(s)) = Len(s) - 1
      /\ \A i \in 1 .. Len(Tail(s)) : Tail(s)[i] = s[i + 1]
  OBVIOUS
<1>2. Head(s).size \in Nat \ {0} /\ StreamSize[Head(s)] = Head(s).size
  BY <1>1 DEF StreamPacket, StreamSize
<1>3. /\ Weight(s, StreamSize) = StreamSize[Head(s)] + Weight(Tail(s), StreamSize)
      /\ Weight(s, AwaitedBy) = AwaitedBy[Head(s)] + Weight(Tail(s), AwaitedBy)
  BY WeightTypes, WeightOfTail, Zenon
<1>4. AwaitedBy[Head(s)] \in Nat
  BY <1>1, WeightTypes
<1>5. Weight(s, AwaitedBy) \in Nat /\ Weight(Tail(s), AwaitedBy) \in Nat
  BY <1>1, WeightTypes, WeightOfMember, Zenon
<1>6. QED
  BY <1>1, <1>2, <1>3, <1>4, <1>5, TotalOfStream

(* The first answer and the others. *)
LEMMA AnswersTail ==
  ASSUME NEW s \in Seq(AnswerPacket), s # << >>
  PROVE  /\ Head(s) \in AnswerPacket /\ Head(s) = s[1] /\ Head(s).size \in Nat \ {0}
         /\ Tail(s) \in Seq(AnswerPacket)
         /\ Len(s) \in Nat \ {0} /\ Len(Tail(s)) = Len(s) - 1
         /\ \A i \in 1 .. Len(Tail(s)) : Tail(s)[i] = s[i + 1]
         /\ Total(s) = Head(s).size + Total(Tail(s))
         /\ Total(s) \in Nat /\ Total(Tail(s)) \in Nat
         /\ Weight(s, LastOf) = LastOf[Head(s)] + Weight(Tail(s), LastOf)
         /\ LastOf[Head(s)] = IF Head(s).last THEN 1 ELSE 0
         /\ Weight(s, LastOf) \in Nat /\ Weight(Tail(s), LastOf) \in Nat
<1>1. /\ Head(s) \in AnswerPacket /\ Head(s) = s[1]
      /\ Tail(s) \in Seq(AnswerPacket)
      /\ Len(s) \in Nat \ {0} /\ Len(Tail(s)) = Len(s) - 1
      /\ \A i \in 1 .. Len(Tail(s)) : Tail(s)[i] = s[i + 1]
  OBVIOUS
<1>2. Head(s).size \in Nat \ {0} /\ AnswerSize[Head(s)] = Head(s).size
  BY <1>1 DEF AnswerPacket, AnswerSize
<1>3. /\ Weight(s, AnswerSize) = AnswerSize[Head(s)] + Weight(Tail(s), AnswerSize)
      /\ Weight(s, LastOf) = LastOf[Head(s)] + Weight(Tail(s), LastOf)
  BY WeightTypes, WeightOfTail, Zenon
<1>4. LastOf[Head(s)] = IF Head(s).last THEN 1 ELSE 0
  BY <1>1 DEF LastOf
<1>5. Weight(s, LastOf) \in Nat /\ Weight(Tail(s), LastOf) \in Nat
  BY <1>1, WeightTypes, WeightOfMember, Zenon
<1>6. QED
  BY <1>1, <1>2, <1>3, <1>4, <1>5, TotalOfAnswers

(* A stream without its first packet keeps its shape.                       *)
LEMMA ShapeOfTail ==
  ASSUME NEW s, Shape(s), s # << >>
  PROVE  /\ Shape(Tail(s))
         /\ \A i \in 1 .. Len(Tail(s)) : Tail(s)[i].what # "rest"
         /\ ResetPending(Tail(s)) => ResetPending(s)
<1>1. s \in Seq(StreamPacket)
  BY DEF Shape
<1> DEFINE t == Tail(s)
<1>2. /\ t \in Seq(StreamPacket) /\ Len(s) \in Nat \ {0} /\ Len(t) = Len(s) - 1
      /\ \A i \in 1 .. Len(t) : t[i] = s[i + 1]
  BY <1>1, StreamTail, Zenon
<1> HIDE DEF t
<1>3. \A i \in 1 .. Len(t) : i + 1 \in 1 .. Len(s) /\ i + 1 # 1
  BY <1>2
<1>4. \A i \in 1 .. Len(t) : t[i].what # "rest"
  BY <1>2, <1>3 DEF Shape, RestFirst
<1>5. StoresPaired(t)
  <2> SUFFICES ASSUME NEW i \in 1 .. Len(t), t[i].what \in Stores
               PROVE  i < Len(t) /\ Paired(t[i], t[i + 1])
    BY DEF StoresPaired
  <2>1. t[i] = s[i + 1] /\ i + 1 \in 1 .. Len(s)
    BY <1>2, <1>3
  <2>2. i + 1 < Len(s) /\ Paired(s[i + 1], s[(i + 1) + 1])
    BY <2>1 DEF Shape, StoresPaired
  <2>3. i + 1 \in 1 .. Len(t)
    BY <1>2, <2>2
  <2>4. QED
    BY <1>2, <2>1, <2>2, <2>3
<1>6. DataWhole(t)
  BY <1>2, <1>3 DEF Shape, DataWhole
<1>7. ResetLast(t) /\ RallocLast(t)
  BY <1>2, <1>3 DEF Shape, ResetLast, RallocLast
<1>8. ResetPending(t) => ResetPending(s)
  BY <1>2, <1>3 DEF ResetPending
<1>9. QED
  BY <1>2, <1>4, <1>5, <1>6, <1>7, <1>8 DEF Shape, RestFirst, t

(* What is left of a packet, ahead of whole ones.                           *)
LEMMA ShapeOfRest ==
  ASSUME NEW t, Shape(t), \A i \in 1 .. Len(t) : t[i].what # "rest",
         NEW p \in StreamPacket, p.what = "rest"
  PROVE  /\ Shape(<<p>> \o t)
         /\ Total(<<p>> \o t) = p.size + Total(t)
         /\ Weight(<<p>> \o t, AwaitedBy) = Weight(t, AwaitedBy)
         /\ ResetPending(<<p>> \o t) => ResetPending(t)
<1> DEFINE s == <<p>> \o t
<1>1. t \in Seq(StreamPacket) /\ Len(t) \in Nat
  BY DEF Shape
<1>2. /\ s \in Seq(StreamPacket) /\ s # << >> /\ Len(s) = Len(t) + 1
      /\ s[1] = p /\ Head(s) = p /\ Tail(s) = t
      /\ \A i \in 1 .. Len(s) : i = 1 \/ (i - 1 \in 1 .. Len(t) /\ s[i] = t[i - 1])
  BY <1>1
<1> HIDE DEF s
<1>3. Total(s) = p.size + Total(t)
  BY <1>2, StreamTail
<1>4. Weight(s, AwaitedBy) = Weight(t, AwaitedBy)
  <2>1. AwaitedBy[p] = 0
    BY DEF AwaitedBy, Commands
  <2>2. /\ Weight(s, AwaitedBy) = AwaitedBy[p] + Weight(t, AwaitedBy)
        /\ Weight(t, AwaitedBy) \in Nat
    BY <1>2, StreamTail
  <2>3. QED
    BY <2>1, <2>2
<1>5. RestFirst(s)
  BY <1>2 DEF RestFirst
<1>6. StoresPaired(s)
  <2> SUFFICES ASSUME NEW i \in 1 .. Len(s), s[i].what \in Stores
               PROVE  i < Len(s) /\ Paired(s[i], s[i + 1])
    BY DEF StoresPaired
  <2>1. i # 1
    BY <1>2 DEF Stores
  <2>2. i - 1 \in 1 .. Len(t) /\ s[i] = t[i - 1]
    BY <1>2, <2>1
  <2>3. i - 1 < Len(t) /\ Paired(t[i - 1], t[(i - 1) + 1])
    BY <2>2 DEF Shape, StoresPaired
  <2>4. i + 1 \in 1 .. Len(s) /\ s[i + 1] = t[(i - 1) + 1]
    BY <1>1, <1>2, <2>3
  <2>5. QED
    BY <2>2, <2>3, <2>4
<1>7. DataWhole(s)
  BY <1>2 DEF Shape, DataWhole
<1>8. ResetLast(s) /\ RallocLast(s)
  BY <1>1, <1>2 DEF Shape, ResetLast, RallocLast
<1>9. ResetPending(s) => ResetPending(t)
  BY <1>2 DEF ResetPending
<1>10. QED
  BY <1>2, <1>3, <1>4, <1>5, <1>6, <1>7, <1>8, <1>9 DEF Shape, s

-----------------------------------------------------------------------------
(* The commands of a stream. *)

(* What the abstract service sees of the packets of a stream. *)
LEMMA BriefOfStream ==
  ASSUME NEW s \in Seq(StreamPacket)
  PROVE  /\ Brief(s) \in Seq([what : COMMAND \cup {"data", "rest"},
                              val : VALUE \cup {NoPage}])
         /\ Len(Brief(s)) = Len(s)
<1> DEFINE S == [what : COMMAND \cup {"data", "rest"}, val : VALUE \cup {NoPage}]
           brief(i) == [what |-> s[i].what, val |-> s[i].val]
<1>1. ASSUME NEW i \in 1 .. Len(s)
      PROVE  brief(i) \in S
  <2>1. s[i] \in StreamPacket
    OBVIOUS
  <2>2. s[i].what \in COMMAND \cup {"data", "rest"} /\ s[i].val \in VALUE \cup {NoPage}
    BY <2>1 DEF StreamPacket
  <2>3. QED
    BY <2>2
<1> HIDE DEF S, brief
<1>2. [i \in 1 .. Len(s) |-> brief(i)] \in Seq(S) /\ Len(s) \in Nat
  BY <1>1
<1>3. Brief(s) = [i \in 1 .. Len(s) |-> brief(i)]
  BY DEF Brief, brief
<1>4. Len([i \in 1 .. Len(s) |-> brief(i)]) = Len(s)
  BY <1>2
<1>5. QED
  BY <1>2, <1>3, <1>4 DEF S

(* The commands of a stream are that of its first packet, if it is one, and *)
(* those of the rest.                                                       *)
LEMMA CommandsOfTail ==
  ASSUME NEW s \in Seq(StreamPacket), s # << >>
  PROVE  CommandsOf(s) =
           (IF Head(s).what \in Commands
              THEN <<[what |-> Head(s).what, val |-> Head(s).val]>> ELSE << >>)
             \o CommandsOf(Tail(s))
<1> DEFINE b == Brief(s)
           h == [what |-> Head(s).what, val |-> Head(s).val]
<1>1. Brief(Tail(s)) = Tail(b) /\ Head(b) = h /\ b # << >>
  BY StreamTail DEF Brief
<1>2. b \in Seq([what : COMMAND \cup {"data", "rest"}, val : VALUE \cup {NoPage}])
  BY BriefOfStream
<1>3. h \in Request <=> Head(s).what \in Commands
  BY StreamTail DEF StreamPacket, Request
<1> HIDE DEF b, h
<1>4. Those(b, Request) = (IF Head(b) \in Request THEN <<Head(b)>> ELSE << >>)
                            \o Those(Tail(b), Request)
  BY <1>1, <1>2, ThoseOfTail, Zenon
<1>5. CommandsOf(s) = (IF Head(s).what \in Commands THEN <<h>> ELSE << >>)
                        \o CommandsOf(Tail(s))
  BY <1>1, <1>3, <1>4 DEF CommandsOf, b
<1>6. QED
  BY <1>5 DEF h

(* The commands of a stream are a sequence of requests. *)
LEMMA CommandsType ==
  ASSUME NEW s \in Seq(StreamPacket)
  PROVE  CommandsOf(s) \in Seq(Request)
BY BriefOfStream, ThoseType, Zenon DEF CommandsOf

(* The commands of two streams, one after the other. *)
LEMMA CommandsOfConcat ==
  ASSUME NEW s \in Seq(StreamPacket), NEW t \in Seq(StreamPacket)
  PROVE  CommandsOf(s \o t) = CommandsOf(s) \o CommandsOf(t)
<1>1. Brief(s \o t) = Brief(s) \o Brief(t)
  BY DEF Brief
<1> DEFINE b == Brief(s)
           c == Brief(t)
           S == [what : COMMAND \cup {"data", "rest"}, val : VALUE \cup {NoPage}]
<1>2. b \in Seq(S) /\ c \in Seq(S)
  BY BriefOfStream
<1> HIDE DEF b, c, S
<1>3. Those(b \o c, Request) = Those(b, Request) \o Those(c, Request)
  BY <1>2, ThoseOfConcat
<1>4. QED
  BY <1>1, <1>3 DEF CommandsOf, b, c

(* What is left of a packet is no command.                                  *)
LEMMA CommandsAfterRest ==
  ASSUME NEW s \in Seq(StreamPacket), s # << >>, Head(s).what \notin Commands
  PROVE  CommandsOf(s) = CommandsOf(Tail(s))
<1>1. CommandsOf(Tail(s)) \in Seq(Request)
  BY StreamTail, CommandsType
<1>2. << >> \o CommandsOf(Tail(s)) = CommandsOf(Tail(s))
  BY <1>1
<1>3. CommandsOf(s) = << >> \o CommandsOf(Tail(s))
  BY CommandsOfTail, Zenon
<1>4. QED
  BY <1>2, <1>3

-----------------------------------------------------------------------------
(* queue_skip_to_next_packet: what is skipped is of a packet read in part,  *)
(* and neither the commands nor the bytes to come change.                   *)
LEMMA FoundFacts ==
  ASSUME Bytes, Shape(stream)
  PROVE  /\ Shape(Found)
         /\ Unread \in Nat
         /\ Total(Found) \in Nat
         /\ Total(Found) - Unread = Total(stream) - in_bytes
         /\ Weight(Found, AwaitedBy) = Weight(stream, AwaitedBy)
         /\ CommandsOf(Found) = CommandsOf(stream)
         /\ ResetPending(Found) => ResetPending(stream)
<1>1. stream \in Seq(StreamPacket) /\ Total(stream) \in Nat /\ in_bytes \in Nat
  BY TotalOfStream DEF Shape, Bytes
<1>2. CASE Skipped = 0
  BY <1>1, <1>2 DEF Found, Unread
<1>3. CASE Skipped # 0
  <2> DEFINE h == Head(stream)
             t == Tail(stream)
  <2>1. stream # << >> /\ h.what = "rest"
    BY <1>3 DEF Skipped
  <2>2. h \in StreamPacket /\ h.size \in Nat \ {0}
    BY <1>1, <2>1, StreamTail
  <2>3. Skipped \in 1 .. h.size /\ Skipped <= in_bytes
    BY <1>1, <1>3, <2>1, <2>2 DEF Skipped
  <2>4. /\ Shape(t) /\ \A i \in 1 .. Len(t) : t[i].what # "rest"
        /\ ResetPending(t) => ResetPending(stream)
    BY <2>1, ShapeOfTail
  <2>5. /\ t \in Seq(StreamPacket) /\ Total(t) \in Nat
        /\ Total(stream) = h.size + Total(t)
        /\ Weight(stream, AwaitedBy) = AwaitedBy[h] + Weight(t, AwaitedBy)
        /\ Weight(t, AwaitedBy) \in Nat
    BY <1>1, <2>1, StreamTail
  <2>6. AwaitedBy[h] = 0 /\ h.what \notin Commands
    BY <2>1, <2>2 DEF AwaitedBy, Commands
  <2>7. Weight(stream, AwaitedBy) = Weight(t, AwaitedBy)
    BY <2>5, <2>6
  <2>8. CommandsOf(stream) = CommandsOf(t)
    BY <1>1, <2>1, <2>6, CommandsAfterRest
  <2>9. CASE Skipped = h.size
    <3>1. Found = t
      BY <1>3, <2>9 DEF Found
    <3>2. Unread \in Nat /\ Total(t) - Unread = Total(stream) - in_bytes
      BY <1>1, <2>3, <2>5, <2>9 DEF Unread
    <3>3. QED
      BY <3>1, <3>2, <2>4, <2>5, <2>7, <2>8
  <2>10. CASE Skipped # h.size
    <3> DEFINE p == [h EXCEPT !.size = @ - Skipped]
    <3>1. /\ p \in StreamPacket /\ p.what = "rest"
          /\ p.size = h.size - Skipped
      BY <2>1, <2>2, <2>3, <2>10 DEF StreamPacket
    <3>2. Found = <<p>> \o t
      BY <1>3, <2>10 DEF Found
    <3> HIDE DEF p, h, t
    <3>3. /\ Shape(<<p>> \o t)
          /\ Total(<<p>> \o t) = p.size + Total(t)
          /\ Weight(<<p>> \o t, AwaitedBy) = Weight(t, AwaitedBy)
          /\ ResetPending(<<p>> \o t) => ResetPending(t)
      BY <2>4, <3>1, ShapeOfRest
    <3>4. /\ Unread \in Nat /\ Total(Found) \in Nat
          /\ Total(Found) - Unread = Total(stream) - in_bytes
      BY <1>1, <2>2, <2>3, <2>5, <2>10, <3>1, <3>2, <3>3 DEF Unread
    <3>5. CommandsOf(Found) = CommandsOf(t)
      <4> DEFINE s == <<p>> \o t
      <4>1. /\ s \in Seq(StreamPacket) /\ s # << >>
            /\ Head(s) = p /\ Tail(s) = t
        BY <2>5, <3>1
      <4>2. Head(s).what \notin Commands
        BY <4>1, <3>1 DEF Commands
      <4> HIDE DEF s
      <4>3. CommandsOf(s) = CommandsOf(Tail(s))
        BY <4>1, <4>2, CommandsAfterRest
      <4>4. QED
        BY <4>1, <4>3, <3>2 DEF s
    <3>6. QED
      BY <3>2, <3>3, <3>4, <3>5, <2>4, <2>7, <2>8
  <2>11. QED
    BY <2>9, <2>10
<1>4. QED
  BY <1>2, <1>3

(* The packet at the head has come whole: it can be read.                   *)
LEMMA CompleteFacts ==
  ASSUME Bytes, Shape(stream), IsComplete(Found, Unread)
  PROVE  /\ Found # << >> /\ Found \in Seq(StreamPacket)
         /\ Head(Found) \in StreamPacket /\ Head(Found) = Found[1]
         /\ Head(Found).what \in COMMAND \cup {"data"}
         /\ Head(Found).size \in Nat \ {0}
         /\ Shape(Tail(Found)) /\ Tail(Found) \in Seq(StreamPacket)
         /\ \A i \in 1 .. Len(Tail(Found)) : Tail(Found)[i].what # "rest"
         /\ Unread - Head(Found).size \in Nat
         /\ Total(Tail(Found)) \in Nat
         /\ Total(Tail(Found)) - (Unread - Head(Found).size)
              = Total(stream) - in_bytes
         /\ Weight(stream, AwaitedBy)
              = AwaitedBy[Head(Found)] + Weight(Tail(Found), AwaitedBy)
         /\ AwaitedBy[Head(Found)]
              = IF Head(Found).what \in Commands \ {"getfile"} THEN 1 ELSE 0
         /\ Weight(Tail(Found), AwaitedBy) \in Nat
         /\ ResetPending(Tail(Found)) => ResetPending(stream)
<1>1. Found # << >> /\ Head(Found).what # "rest" /\ Unread >= Head(Found).size
  BY DEF IsComplete
<1>2. /\ Shape(Found) /\ Found \in Seq(StreamPacket)
      /\ Unread \in Nat /\ Total(Found) \in Nat
      /\ Total(Found) - Unread = Total(stream) - in_bytes
      /\ Weight(Found, AwaitedBy) = Weight(stream, AwaitedBy)
      /\ ResetPending(Found) => ResetPending(stream)
  BY FoundFacts DEF Shape
<1> DEFINE f == Found
<1> HIDE DEF f
<1>3. /\ Head(f) \in StreamPacket /\ Head(f) = f[1] /\ Head(f).size \in Nat \ {0}
      /\ Tail(f) \in Seq(StreamPacket)
      /\ Total(f) = Head(f).size + Total(Tail(f)) /\ Total(Tail(f)) \in Nat
      /\ Weight(f, AwaitedBy) = AwaitedBy[Head(f)] + Weight(Tail(f), AwaitedBy)
      /\ Weight(Tail(f), AwaitedBy) \in Nat
  BY <1>1, <1>2, StreamTail DEF f
<1>4. /\ Shape(Tail(f)) /\ \A i \in 1 .. Len(Tail(f)) : Tail(f)[i].what # "rest"
      /\ ResetPending(Tail(f)) => ResetPending(f)
  BY <1>1, <1>2, ShapeOfTail DEF f
<1>5. /\ AwaitedBy[Head(f)] = IF Head(f).what \in Commands \ {"getfile"} THEN 1 ELSE 0
      /\ Head(f).what \in COMMAND \cup {"data", "rest"}
  BY <1>3 DEF AwaitedBy, StreamPacket
<1>6. Total(Tail(f)) - (Unread - Head(f).size) = Total(stream) - in_bytes
  <2> DEFINE size == Head(f).size
             total == Total(f)
             rest == Total(Tail(f))
  <2>1. /\ size \in Nat /\ rest \in Nat /\ total = size + rest
        /\ total - Unread = Total(stream) - in_bytes
    BY <1>2, <1>3 DEF f
  <2> HIDE DEF size, total, rest
  <2>2. rest - (Unread - size) = total - Unread
    BY <2>1, <1>2
  <2>3. QED
    BY <2>1, <2>2 DEF size, rest
<1>7. Unread - Head(f).size \in Nat
  BY <1>1, <1>2, <1>3 DEF f
<1>8. ResetPending(Tail(f)) => ResetPending(stream)
  BY <1>2, <1>4 DEF f
<1>9. Weight(stream, AwaitedBy) = AwaitedBy[Head(f)] + Weight(Tail(f), AwaitedBy)
  BY <1>2, <1>3 DEF f
<1>10. QED
  BY <1>1, <1>2, <1>3, <1>4, <1>5, <1>6, <1>7, <1>8, <1>9 DEF f

-----------------------------------------------------------------------------
(* Answers. *)

(* A ring that is not filled to its last slot has the space it says.        *)
LEMMA SpaceIsThere ==
  ASSUME out_bytes \in 0 .. OUT_SIZE, ~RingFilled, NEW n \in Nat, SpaceAvailable(n)
  PROVE  /\ out_bytes + n <= OUT_SIZE
         /\ \A m \in 0 .. n : SpaceAvailable(m)
<1>1. ToSend = out_bytes
  BY SizeAssumption DEF ToSend, RingFilled
<1>2. QED
  BY <1>1, SizeAssumption DEF SpaceAvailable

(* What Answer makes is an answer packet of the size asked for. *)
LEMMA AnswerType ==
  ASSUME NEW what \in Commands \cup {"page"}, NEW payload \in Nat,
         NEW val \in VALUE \cup {NoPage}, NEW last \in BOOLEAN
  PROVE  /\ Answer(what, payload, val, last) \in AnswerPacket
         /\ Answer(what, payload, val, last).size = payload + PACKET_OVERHEAD
         /\ Answer(what, payload, val, last).last = last
BY DEF Answer, AnswerPacket, PACKET_OVERHEAD

(* The answers of one command.                                              *)
Reply(a) ==
  /\ a \in Seq(AnswerPacket) /\ a # << >> /\ a[Len(a)].last
  /\ Weight(a, LastOf) = 1

(* One answer, marked as the last, answers a command. *)
LEMMA OneAnswerIsReply ==
  ASSUME NEW a \in AnswerPacket, a.last
  PROVE  Reply(<<a>>) /\ Total(<<a>>) = a.size
<1> DEFINE s == <<a>>
<1>1. /\ s \in Seq(AnswerPacket) /\ s # << >> /\ Len(s) = 1 /\ s[1] = a
      /\ Head(s) = a /\ Tail(s) = << >>
  OBVIOUS
<1> HIDE DEF s
<1>2. /\ Weight(s, LastOf) = LastOf[a] + Weight(<< >>, LastOf)
      /\ Total(s) = a.size + Total(<< >>)
      /\ LastOf[a] = 1 /\ a.size \in Nat \ {0}
  BY <1>1, AnswersTail
<1>3. Weight(<< >>, LastOf) = 0 /\ Weight(<< >>, AnswerSize) = 0
  BY WeightOfEmpty
<1>4. << >> \in Seq(AnswerPacket)
  OBVIOUS
<1>5. Total(<< >>) = 0
  BY <1>3, <1>4, TotalOfAnswers
<1>6. Weight(s, LastOf) = 1 /\ Total(s) = a.size
  BY <1>2, <1>3, <1>5
<1>7. QED
  BY <1>1, <1>6 DEF Reply, s

(* The answer of RALLOC and the page answer a command. *)
LEMMA PageAnswerIsReply ==
  ASSUME page \in VALUE \cup {NoPage}
  PROVE  Reply(PageAnswer) /\ Total(PageAnswer) = PAGE_SIZE + 23
<1> DEFINE a == Answer("ralloc", 5, NoPage, FALSE)
           b == Answer("page", PAGE_SIZE, page, TRUE)
           s == <<a, b>>
<1>1. a \in AnswerPacket /\ a.size = 14 /\ a.last = FALSE
  BY DEF Answer, AnswerPacket, Commands, PACKET_OVERHEAD
<1>2. b \in AnswerPacket /\ b.size = PAGE_SIZE + 9 /\ b.last = TRUE
  BY AnswerType, SizeAssumption DEF Commands, PACKET_OVERHEAD
<1> HIDE DEF a, b
<1>3. /\ s \in Seq(AnswerPacket) /\ s # << >> /\ Len(s) = 2 /\ s[2] = b
      /\ Head(s) = a /\ Tail(s) = <<b>>
  BY <1>1, <1>2
<1>4. Reply(<<b>>) /\ Total(<<b>>) = PAGE_SIZE + 9
  BY <1>2, OneAnswerIsReply
<1> HIDE DEF s
<1>5. /\ Weight(s, LastOf) = LastOf[a] + Weight(<<b>>, LastOf)
      /\ Total(s) = a.size + Total(<<b>>)
      /\ LastOf[a] = 0
  BY <1>1, <1>3, AnswersTail
<1>6. Weight(s, LastOf) = 1 /\ Total(s) = PAGE_SIZE + 23
  BY <1>1, <1>4, <1>5, SizeAssumption DEF Reply
<1>7. Reply(s)
  BY <1>2, <1>3, <1>6 DEF Reply
<1>8. QED
  BY <1>6, <1>7 DEF PageAnswer, s, a, b

(* The weights of packets under way add up. *)
LEMMA WeightsOfJoined ==
  ASSUME NEW s, NEW t
  PROVE  /\ s \in Seq(AnswerPacket) /\ t \in Seq(AnswerPacket) =>
              /\ Weight(s \o t, LastOf) = Weight(s, LastOf) + Weight(t, LastOf)
              /\ Weight(s \o t, AnswerSize) = Weight(s, AnswerSize) + Weight(t, AnswerSize)
         /\ s \in Seq(StreamPacket) /\ t \in Seq(StreamPacket) =>
              /\ Weight(s \o t, AwaitedBy) = Weight(s, AwaitedBy) + Weight(t, AwaitedBy)
              /\ Weight(s \o t, StreamSize) = Weight(s, StreamSize) + Weight(t, StreamSize)
<1>1. ASSUME s \in Seq(AnswerPacket), t \in Seq(AnswerPacket), NEW w \in [AnswerPacket -> Int]
      PROVE  Weight(s \o t, w) = Weight(s, w) + Weight(t, w)
  BY <1>1, WeightOfConcat
<1>2. ASSUME s \in Seq(StreamPacket), t \in Seq(StreamPacket), NEW w \in [StreamPacket -> Int]
      PROVE  Weight(s \o t, w) = Weight(s, w) + Weight(t, w)
  BY <1>2, WeightOfConcat
<1>3. QED
  BY <1>1, <1>2, WeightTypes

(* The answers under way, with those of one more command.                   *)
LEMMA AnswersAdded ==
  ASSUME Bytes, OutShape, NEW a, Reply(a)
  PROVE  /\ out \o a \in Seq(AnswerPacket) /\ out \o a # << >>
         /\ (out \o a)[Len(out \o a)].last
         /\ Total(out \o a) = Total(out) + Total(a)
         /\ Total(out) \in Nat /\ Total(a) \in Nat
         /\ Weight(out \o a, LastOf) = Weight(out, LastOf) + 1
         /\ Weight(out, LastOf) \in Nat
         /\ Got < Head(out \o a).size
<1>1. out \in Seq(AnswerPacket) /\ a \in Seq(AnswerPacket) /\ a # << >>
      /\ a[Len(a)].last /\ Weight(a, LastOf) = 1
  BY DEF OutShape, Reply
<1> DEFINE o == out \o a
<1>2. /\ o \in Seq(AnswerPacket) /\ o # << >> /\ o[Len(o)] = a[Len(a)]
  BY <1>1
<1>3. Weight(o, LastOf) = Weight(out, LastOf) + Weight(a, LastOf)
      /\ Weight(o, AnswerSize) = Weight(out, AnswerSize) + Weight(a, AnswerSize)
  BY <1>1, WeightsOfJoined
<1>4. /\ Total(o) = Weight(o, AnswerSize)
      /\ Total(out) = Weight(out, AnswerSize) /\ Total(out) \in Nat
      /\ Total(a) = Weight(a, AnswerSize) /\ Total(a) \in Nat
      /\ Weight(out, LastOf) \in Nat
  <2> HIDE DEF o
  <2>1. QED
    BY <1>1, <1>2, TotalOfAnswers, WeightTypes, WeightOfMember
<1>5. Got < Head(o).size
  <2>1. CASE out = << >>
    <3>1. Weight(out, AnswerSize) = 0
      BY <2>1, WeightOfEmpty
    <3>2. Got = 0
      BY <3>1, <1>4 DEF Bytes, Got
    <3> HIDE DEF o
    <3>3. Head(o).size \in Nat \ {0}
      BY <1>2, AnswersTail
    <3>4. QED
      BY <3>2, <3>3
  <2>2. CASE out # << >>
    <3>1. Head(o) = Head(out)
      BY <1>1, <2>2
    <3>2. QED
      BY <3>1, <2>2 DEF OutShape
  <2>3. QED
    BY <2>1, <2>2
<1>6. QED
  BY <1>1, <1>2, <1>3, <1>4, <1>5

(* A pending RESET is a request that is open.                               *)
LEMMA ResetIsAwaited ==
  ASSUME NEW s \in Seq(StreamPacket), ResetPending(s)
  PROVE  Weight(s, AwaitedBy) >= 1
<1>1. PICK i \in 1 .. Len(s) : s[i].what = "reset"
  BY DEF ResetPending
<1>2. s[i] \in StreamPacket
  OBVIOUS
<1>3. AwaitedBy[s[i]] = 1
  BY <1>1, <1>2 DEF AwaitedBy, Commands
<1>4. AwaitedBy[s[i]] <= Weight(s, AwaitedBy) /\ Weight(s, AwaitedBy) \in Nat
  BY WeightTypes, WeightOfMember
<1>5. QED
  BY <1>3, <1>4

-----------------------------------------------------------------------------
(* What the loop's steps do to the queues. *)

(* A command is put back, or there is none: only what is left of a packet   *)
(* read in part has gone.                                                   *)
LEMMA PutBackKeepsQueues ==
  ASSUME Queues, NothingRead, UNCHANGED <<up, out, out_bytes, down, open>>
  PROVE  Queues'
<1>1. /\ Shape(Found) /\ Unread \in Nat /\ Total(Found) \in Nat
      /\ Total(Found) - Unread = Total(stream) - in_bytes
      /\ Weight(Found, AwaitedBy) = Weight(stream, AwaitedBy)
      /\ ResetPending(Found) => ResetPending(stream)
  BY FoundFacts DEF Queues
<1>2. Total(stream) \in Nat
  BY TotalOfStream DEF Queues, Shape
<1>3. stream' = Found /\ in_bytes' = Unread
  BY DEF NothingRead
<1>4. Bytes'
  BY <1>1, <1>2, <1>3 DEF Queues, Bytes, Unwritten, Got
<1>5. OutShape'
  BY DEF Queues, OutShape, Got
<1>6. Counted' /\ ResetAlone'
  BY <1>1, <1>3 DEF Queues, Counted, ResetAlone
<1>7. QED
  BY <1>1, <1>3, <1>4, <1>5, <1>6 DEF Queues

(* A command is read and nothing is written.                                *)
LEMMA SilenceKeepsQueues ==
  ASSUME Queues, IsComplete(Found, Unread), CommandRead,
         UNCHANGED <<up, out, out_bytes, down, open>>
  PROVE  Queues'
<1> DEFINE n == Unread - Head(Found).size
<1>1. /\ Shape(Tail(Found)) /\ n \in Nat /\ Total(Tail(Found)) \in Nat
      /\ Total(Tail(Found)) - n = Total(stream) - in_bytes
      /\ AwaitedBy[Head(Found)] \in 0 .. 1
      /\ Weight(stream, AwaitedBy)
           = AwaitedBy[Head(Found)] + Weight(Tail(Found), AwaitedBy)
      /\ Weight(Tail(Found), AwaitedBy) \in Nat
      /\ ResetPending(Tail(Found)) => ResetPending(stream)
  BY CompleteFacts DEF Queues
<1>2. Total(stream) \in Nat /\ Weight(out, LastOf) \in Nat
  BY TotalOfStream, WeightTypes, WeightOfMember DEF Queues, Shape, OutShape
<1>3. stream' = Tail(Found) /\ in_bytes' = n
  BY DEF CommandRead
<1> HIDE DEF n
<1>4. Bytes'
  BY <1>1, <1>2, <1>3 DEF Queues, Bytes, Unwritten, Got
<1>5. OutShape'
  BY DEF Queues, OutShape, Got
<1>6. Counted'
  <2> DEFINE w == Weight(stream, AwaitedBy)
             v == Weight(Tail(Found), AwaitedBy)
             a == AwaitedBy[Head(Found)]
             o == Weight(out, LastOf)
  <2>1. /\ w = a + v /\ a \in 0 .. 1 /\ v \in Nat /\ o \in Nat
        /\ w + o <= open /\ open \in Nat
    BY <1>1, <1>2, SizeAssumption DEF Queues, Bytes, Counted
  <2>2. Weight(stream', AwaitedBy) = v /\ out' = out /\ open' = open
    BY <1>3
  <2> HIDE DEF w, v, a, o
  <2>3. v + o <= open
    BY <2>1
  <2>4. QED
    BY <2>2, <2>3 DEF Counted, o
<1>7. ResetAlone'
  BY <1>1, <1>3 DEF Queues, ResetAlone
<1>8. QED
  BY <1>1, <1>3, <1>4, <1>5, <1>6, <1>7 DEF Queues

(* A command is read and its answers are written: the stream is short of    *)
(* the command's packet and perhaps of more, see Store.                     *)
LEMMA ReplyKeepsQueues ==
  ASSUME Queues, NEW a, Reply(a), out_bytes + Total(a) <= OUT_SIZE,
         Shape(stream'), in_bytes' \in Nat, Total(stream') \in Nat,
         Total(stream') - in_bytes' = Total(stream) - in_bytes,
         Weight(stream', AwaitedBy) \in Nat,
         Weight(stream, AwaitedBy) >= 1 + Weight(stream', AwaitedBy),
         ResetPending(stream') => ResetPending(stream),
         out' = out \o a, out_bytes' = out_bytes + Total(a),
         UNCHANGED <<up, down, open>>
  PROVE  Queues'
<1> DEFINE o == out \o a
<1>1. /\ o \in Seq(AnswerPacket) /\ o[Len(o)].last
      /\ Total(o) = Total(out) + Total(a)
      /\ Total(out) \in Nat /\ Total(a) \in Nat
      /\ Weight(o, LastOf) = Weight(out, LastOf) + 1
      /\ Weight(out, LastOf) \in Nat
      /\ Got < Head(o).size
      /\ out' = o
  BY AnswersAdded DEF Queues
<1> HIDE DEF o
<1>2. Total(stream) \in Nat /\ Weight(stream, AwaitedBy) \in Nat
  BY TotalOfStream, WeightTypes, WeightOfMember DEF Queues, Shape
<1>3. Got' = Got
  <2>1. Got' = Total(out') - out_bytes' - down'
    BY DEF Got
  <2>2. QED
    BY <2>1, <1>1 DEF Queues, Bytes, Got
<1>4. Bytes'
  <2>1. Unwritten' = Unwritten
    <3>1. Unwritten' = Total(stream') - in_bytes' - up'
      BY DEF Unwritten
    <3>2. QED
      BY <3>1, <1>2 DEF Queues, Bytes, Unwritten
  <2>2. out_bytes' \in 0 .. OUT_SIZE
    <3>1. out_bytes \in Nat /\ OUT_SIZE \in Nat
      BY SizeAssumption DEF Queues, Bytes
    <3>2. out_bytes' = out_bytes + Total(a) /\ out_bytes + Total(a) <= OUT_SIZE
      OBVIOUS
    <3>3. Total(a) \in Nat
      BY <1>1
    <3> QED
      BY <3>1, <3>2, <3>3
  <2>3. in_bytes' \in 0 .. Total(stream')
    BY <1>2 DEF Queues, Bytes
  <2>4. QED
    BY <2>1, <2>2, <2>3, <1>3 DEF Queues, Bytes
<1>5. OutShape'
  BY <1>1, <1>3 DEF OutShape
<1>6. Counted'
  <2>1. Weight(stream, AwaitedBy) + Weight(out, LastOf) <= open /\ open \in Nat
    BY SizeAssumption DEF Queues, Bytes, Counted
  <2>2. Weight(out', LastOf) = Weight(out, LastOf) + 1
    BY <1>1
  <2>3. Weight(stream', AwaitedBy) + Weight(out', LastOf) <= open
    <3> DEFINE w == Weight(stream, AwaitedBy)
               v == Weight(stream', AwaitedBy)
               p == Weight(out, LastOf)
    <3>1. w \in Nat /\ v \in Nat /\ p \in Nat /\ v + 1 <= w /\ w + p <= open
      BY <1>1, <1>2, <2>1
    <3> HIDE DEF w, v, p
    <3>2. v + (p + 1) <= open
      BY <3>1, <2>1
    <3>3. QED
      BY <3>2, <2>2 DEF v, p
  <2>4. QED
    BY <2>3 DEF Counted
<1>7. ~ResetPending(stream')
  <2> SUFFICES ASSUME ResetPending(stream')
               PROVE  FALSE
    OBVIOUS
  <2>1. Weight(stream', AwaitedBy) >= 1
    <3>1. stream' \in Seq(StreamPacket)
      BY DEF Shape
    <3>2. QED
      BY <3>1, ResetIsAwaited
  <2>2. open = 1
    BY DEF Queues, ResetAlone
  <2> DEFINE w == Weight(stream, AwaitedBy)
             v == Weight(stream', AwaitedBy)
             p == Weight(out, LastOf)
  <2>3. w \in Nat /\ v \in Nat /\ p \in Nat /\ v + 1 <= w /\ v >= 1 /\ w + p <= 1
    BY <1>1, <1>2, <2>1, <2>2 DEF Queues, Counted
  <2> HIDE DEF w, v, p
  <2>4. QED
    BY <2>3
<1>8. QED
  BY <1>4, <1>5, <1>6, <1>7 DEF Queues, ResetAlone

-----------------------------------------------------------------------------
(* What a request adds to the stream. *)

(* A stream that is not closed by a RESET or a RALLOC, and one after it.    *)
LEMMA ShapeOfConcat ==
  ASSUME NEW s, Shape(s), NEW r, Shape(r), \A i \in 1 .. Len(r) : r[i].what # "rest",
         ~ResetPending(s),
         WaitsForPage => \A i \in 1 .. Len(s) : s[i].what # "ralloc"
  PROVE  Shape(s \o r) /\ (ResetPending(s \o r) => ResetPending(r))
<1> DEFINE u == s \o r
<1>1. s \in Seq(StreamPacket) /\ r \in Seq(StreamPacket) /\ Len(s) \in Nat /\ Len(r) \in Nat
  BY DEF Shape
<1>2. /\ u \in Seq(StreamPacket) /\ Len(u) = Len(s) + Len(r)
      /\ \A i \in 1 .. Len(s) : u[i] = s[i]
      /\ \A i \in 1 .. Len(u) : \/ i \in 1 .. Len(s) /\ u[i] = s[i]
                                \/ i - Len(s) \in 1 .. Len(r) /\ u[i] = r[i - Len(s)]
  BY <1>1
<1> HIDE DEF u
<1>3. RestFirst(u)
  BY <1>2 DEF Shape, RestFirst
<1>4. StoresPaired(u)
  <2> SUFFICES ASSUME NEW i \in 1 .. Len(u), u[i].what \in Stores
               PROVE  i < Len(u) /\ Paired(u[i], u[i + 1])
    BY DEF StoresPaired
  <2>1. CASE i \in 1 .. Len(s) /\ u[i] = s[i]
    <3>1. i < Len(s) /\ Paired(s[i], s[i + 1])
      BY <2>1 DEF Shape, StoresPaired
    <3>2. i + 1 \in 1 .. Len(s) /\ u[i + 1] = s[i + 1]
      BY <3>1, <1>1, <1>2
    <3>3. QED
      BY <2>1, <3>1, <3>2, <1>1, <1>2
  <2>2. CASE i - Len(s) \in 1 .. Len(r) /\ u[i] = r[i - Len(s)]
    <3> DEFINE j == i - Len(s)
    <3>1. j < Len(r) /\ Paired(r[j], r[j + 1])
      BY <2>2 DEF Shape, StoresPaired
    <3>2. i + 1 \in 1 .. Len(u) /\ ~(i + 1 \in 1 .. Len(s)) /\ (i + 1) - Len(s) = j + 1
      BY <3>1, <2>2, <1>1, <1>2
    <3>3. u[i + 1] = r[j + 1]
      BY <3>2, <1>2
    <3>4. QED
      BY <2>2, <3>1, <3>2, <3>3, <1>1, <1>2
  <2>3. QED
    BY <2>1, <2>2, <1>2
<1>5. DataWhole(u)
  BY <1>2 DEF Shape, DataWhole
<1>6. ResetLast(u)
  <2> SUFFICES ASSUME NEW i \in 1 .. Len(u), u[i].what = "reset"
               PROVE  i = Len(u)
    BY DEF ResetLast
  <2>1. i - Len(s) \in 1 .. Len(r) /\ r[i - Len(s)].what = "reset"
    BY <1>2 DEF ResetPending
  <2>2. i - Len(s) = Len(r)
    BY <2>1 DEF Shape, ResetLast
  <2>3. QED
    BY <2>2, <1>1, <1>2
<1>7. RallocLast(u)
  <2> SUFFICES ASSUME WaitsForPage, NEW i \in 1 .. Len(u), u[i].what = "ralloc"
               PROVE  i = Len(u)
    BY DEF RallocLast
  <2>1. i - Len(s) \in 1 .. Len(r) /\ r[i - Len(s)].what = "ralloc"
    BY <1>2
  <2>2. i - Len(s) = Len(r)
    BY <2>1 DEF Shape, RallocLast
  <2>3. QED
    BY <2>2, <1>1, <1>2
<1>8. ResetPending(u) => ResetPending(r)
  BY <1>2 DEF ResetPending
<1>9. QED
  BY <1>2, <1>3, <1>4, <1>5, <1>6, <1>7, <1>8 DEF Shape, u

(* One command without BinaryData.                                          *)
LEMMA OnePacketShape ==
  ASSUME NEW p \in StreamPacket, p.what \in Commands \ Stores
  PROVE  /\ Shape(<<p>>)
         /\ \A i \in 1 .. Len(<<p>>) : <<p>>[i].what # "rest"
         /\ Weight(<<p>>, AwaitedBy) = AwaitedBy[p]
         /\ ResetPending(<<p>>) => p.what = "reset"
         /\ CommandsOf(<<p>>) = <<[what |-> p.what, val |-> p.val]>>
<1> DEFINE r == <<p>>
           b == [what |-> p.what, val |-> p.val]
<1>1. r \in Seq(StreamPacket) /\ Len(r) = 1 /\ r[1] = p
  OBVIOUS
<1>2. b \in Request
  BY DEF StreamPacket, Request
<1>3. Brief(r) = <<b>>
  BY <1>1 DEF Brief
<1>4. Weight(r, AwaitedBy) = AwaitedBy[p]
  BY WeightTypes, WeightOfOne
<1> HIDE DEF r, b
<1>5. CommandsOf(r) = <<b>>
  BY <1>2, <1>3, ThoseOfOne DEF CommandsOf
<1>6. Shape(r)
  BY <1>1 DEF Shape, RestFirst, StoresPaired, DataWhole, ResetLast, RallocLast, Commands
<1>7. \A i \in 1 .. Len(r) : r[i].what # "rest"
  BY <1>1 DEF Commands
<1>8. ResetPending(r) => p.what = "reset"
  BY <1>1 DEF ResetPending
<1>9. QED
  BY <1>4, <1>5, <1>6, <1>7, <1>8 DEF r, b

(* A SALLOC or IALLOC and its BinaryData.                                   *)
LEMMA TwoPacketsShape ==
  ASSUME NEW c \in StreamPacket, c.what \in Stores,
         NEW d \in StreamPacket, Paired(c, d), d.size > PACKET_OVERHEAD,
         DataAsWanted => d.size = d.wants + PACKET_OVERHEAD
  PROVE  /\ Shape(<<c, d>>)
         /\ \A i \in 1 .. Len(<<c, d>>) : <<c, d>>[i].what # "rest"
         /\ Weight(<<c, d>>, AwaitedBy) = AwaitedBy[c]
         /\ ~ResetPending(<<c, d>>)
         /\ CommandsOf(<<c, d>>) = <<[what |-> c.what, val |-> c.val]>>
<1> DEFINE r == <<c, d>>
           b == [what |-> c.what, val |-> c.val]
           e == [what |-> d.what, val |-> d.val]
<1>1. /\ r \in Seq(StreamPacket) /\ Len(r) = 2 /\ r[1] = c /\ r[2] = d
      /\ r = <<c>> \o <<d>> /\ <<c>> \in Seq(StreamPacket) /\ <<d>> \in Seq(StreamPacket)
  OBVIOUS
<1>2. d.what = "data"
  BY DEF Paired
<1>3. /\ c.what # "rest" /\ c.what # "reset" /\ c.what # "ralloc" /\ c.what # "data"
      /\ c.what \in Commands
  BY DEF Stores, Commands
<1>4. Brief(r) = <<b>> \o <<e>>
  BY <1>1 DEF Brief
<1>5. b \in Request /\ e \notin Request
  BY <1>2, <1>3 DEF StreamPacket, Request, Commands
<1>6. AwaitedBy[d] = 0 /\ AwaitedBy[c] \in Nat
  <2>1. AwaitedBy[d] = 0
    BY <1>2 DEF AwaitedBy, Commands
  <2>2. AwaitedBy[c] \in Nat
    BY WeightTypes
  <2>3. QED
    BY <2>1, <2>2
<1>7. Weight(<<c>>, AwaitedBy) = AwaitedBy[c] /\ Weight(<<d>>, AwaitedBy) = AwaitedBy[d]
  BY WeightTypes, WeightOfOne
<1>8. Weight(r, AwaitedBy) = Weight(<<c>>, AwaitedBy) + Weight(<<d>>, AwaitedBy)
  <2>1. /\ <<c>> \in Seq(StreamPacket) /\ <<d>> \in Seq(StreamPacket)
        /\ r = <<c>> \o <<d>>
    BY <1>1
  <2> HIDE DEF r
  <2>2. Weight(<<c>> \o <<d>>, AwaitedBy)
          = Weight(<<c>>, AwaitedBy) + Weight(<<d>>, AwaitedBy)
    BY <2>1, WeightsOfJoined, Zenon
  <2>3. QED
    BY <2>1, <2>2, Zenon
<1>9. Weight(r, AwaitedBy) = AwaitedBy[c]
  BY <1>6, <1>7, <1>8
<1> HIDE DEF r, b, e
<1>10. CommandsOf(r) = <<b>>
  <2> DEFINE x == <<b>>
             y == <<e>>
  <2>1. x \in Seq({b, e}) /\ y \in Seq({b, e}) /\ x \o << >> = x
    OBVIOUS
  <2>2. Those(x, Request) = x /\ Those(y, Request) = << >>
    BY <1>5, ThoseOfOne
  <2> HIDE DEF x, y
  <2>3. Those(x \o y, Request) = Those(x, Request) \o Those(y, Request)
    BY <2>1, ThoseOfConcat
  <2>4. Brief(r) = x \o y
    BY <1>4 DEF x, y
  <2>5. QED
    BY <2>1, <2>2, <2>3, <2>4 DEF CommandsOf, x
<1>11. Shape(r)
  <2>1. StoresPaired(r)
    BY <1>1, <1>2 DEF StoresPaired, Stores
  <2>2. DataWhole(r)
    BY <1>1, <1>2, <1>3 DEF DataWhole
  <2>3. RestFirst(r) /\ ResetLast(r) /\ RallocLast(r)
    BY <1>1, <1>2, <1>3 DEF RestFirst, ResetLast, RallocLast
  <2>4. QED
    BY <1>1, <2>1, <2>2, <2>3 DEF Shape
<1>12. \A i \in 1 .. Len(r) : r[i].what # "rest" /\ r[i].what # "reset"
  BY <1>1, <1>2, <1>3
<1>13. QED
  BY <1>9, <1>10, <1>11, <1>12 DEF r, b, ResetPending

(* A request is one command, with its BinaryData if it stores.              *)
LEMMA StoringFacts ==
  ASSUME NEW what \in COMMAND, what \in Stores, NEW payload \in Nat, NEW val \in VALUE,
         NEW size \in Nat \ {0}, NEW wants \in Nat, DataAsWanted => size = wants
  PROVE  LET r == StoringPackets(what, payload, val, size, wants) IN
         /\ Shape(r) /\ \A i \in 1 .. Len(r) : r[i].what # "rest"
         /\ Weight(r, AwaitedBy) = 1
         /\ ~ResetPending(r)
         /\ \E v \in VALUE \cup {NoPage} : CommandsOf(r) = <<[what |-> what, val |-> v]>>
<1> DEFINE v == IF size >= wants THEN val ELSE NoPage
           c == Packet(what, payload, v, wants)
           d == Packet("data", size, val, wants)
<1>1. c \in StreamPacket /\ c.what = what /\ c.val = v /\ c.wants = wants
  BY DEF Packet, StreamPacket, PACKET_OVERHEAD
<1>2. /\ d \in StreamPacket /\ d.what = "data" /\ d.wants = wants /\ d.val = val
      /\ d.size = size + PACKET_OVERHEAD /\ d.size > PACKET_OVERHEAD
      /\ d.size - PACKET_OVERHEAD = size
  BY DEF Packet, StreamPacket, PACKET_OVERHEAD
<1>3. v \in VALUE \cup {NoPage}
  OBVIOUS
<1>4. Paired(c, d)
  BY <1>1, <1>2 DEF Paired
<1>5. AwaitedBy[c] = 1
  BY <1>1 DEF AwaitedBy, Stores, Commands
<1>6. StoringPackets(what, payload, val, size, wants) = <<c, d>>
  BY DEF StoringPackets
<1> HIDE DEF c, d, v
<1>7. DataAsWanted => d.size = d.wants + PACKET_OVERHEAD
  BY <1>2
<1>8. /\ Shape(<<c, d>>)
      /\ \A i \in 1 .. Len(<<c, d>>) : <<c, d>>[i].what # "rest"
      /\ Weight(<<c, d>>, AwaitedBy) = AwaitedBy[c]
      /\ ~ResetPending(<<c, d>>)
      /\ CommandsOf(<<c, d>>) = <<[what |-> c.what, val |-> c.val]>>
  BY <1>1, <1>2, <1>4, <1>7, TwoPacketsShape
<1>9. QED
  BY <1>1, <1>3, <1>5, <1>6, <1>8

(* The packets of a request: its command, the data that belongs to it, one  *)
(* answer to wait for.                                                      *)
LEMMA RequestFacts ==
  ASSUME NEW what \in COMMAND, NEW val \in VALUE, NEW size \in DATA_SIZE,
         NEW insert \in INSERT_SIZE
  PROVE  LET r == RequestPackets(what, val, size, insert) IN
         /\ Shape(r) /\ \A i \in 1 .. Len(r) : r[i].what # "rest"
         /\ Weight(r, AwaitedBy) = IF what = "getfile" THEN 0 ELSE 1
         /\ ResetPending(r) => what = "reset"
         /\ \E v \in VALUE \cup {NoPage} : CommandsOf(r) = <<[what |-> what, val |-> v]>>
<1> DEFINE r == RequestPackets(what, val, size, insert)
<1>1. /\ what \in Commands /\ size \in Nat \ {0} /\ insert \in Nat \ {0}
      /\ PAGE_SIZE \in Nat
  BY CommandAssumption, SizeAssumption
<1>2. CASE what = "salloc"
  <2>1. DataAsWanted => size = PAGE_SIZE
    BY <1>2 DEF DataAsWanted
  <2>2. r = StoringPackets(what, 4, val, size, PAGE_SIZE)
    BY <1>2 DEF RequestPackets
  <2> HIDE DEF r
  <2>3. /\ Shape(r) /\ \A i \in 1 .. Len(r) : r[i].what # "rest"
        /\ Weight(r, AwaitedBy) = 1
        /\ ~ResetPending(r)
        /\ \E v \in VALUE \cup {NoPage} : CommandsOf(r) = <<[what |-> what, val |-> v]>>
    BY <1>1, <1>2, <2>1, <2>2, StoringFacts DEF Stores
  <2>4. QED
    BY <1>2, <2>3 DEF r
<1>3. CASE what = "ialloc"
  <2>1. DataAsWanted => size = insert
    BY <1>3 DEF DataAsWanted
  <2>2. r = StoringPackets(what, 10, val, size, insert)
    BY <1>3 DEF RequestPackets
  <2> HIDE DEF r
  <2>3. /\ Shape(r) /\ \A i \in 1 .. Len(r) : r[i].what # "rest"
        /\ Weight(r, AwaitedBy) = 1
        /\ ~ResetPending(r)
        /\ \E v \in VALUE \cup {NoPage} : CommandsOf(r) = <<[what |-> what, val |-> v]>>
    BY <1>1, <1>3, <2>1, <2>2, StoringFacts DEF Stores
  <2>4. QED
    BY <1>3, <2>3 DEF r
<1>4. CASE what \notin Stores
  <2> DEFINE p == IF what = "ralloc" THEN Packet(what, 4, NoPage, 0)
                                     ELSE Packet(what, 1, NoPage, 0)
  <2>1. r = <<p>>
    BY <1>4 DEF RequestPackets, Stores
  <2>2. p \in StreamPacket /\ p.what = what /\ p.val = NoPage
    BY DEF Packet, StreamPacket, PACKET_OVERHEAD
  <2>3. AwaitedBy[p] = IF what = "getfile" THEN 0 ELSE 1
    BY <1>1, <2>2 DEF AwaitedBy
  <2> HIDE DEF r, p
  <2>4. /\ Shape(<<p>>)
        /\ \A i \in 1 .. Len(<<p>>) : <<p>>[i].what # "rest"
        /\ Weight(<<p>>, AwaitedBy) = AwaitedBy[p]
        /\ ResetPending(<<p>>) => p.what = "reset"
        /\ CommandsOf(<<p>>) = <<[what |-> p.what, val |-> p.val]>>
    BY <1>1, <1>4, <2>2, OnePacketShape
  <2>5. QED
    BY <2>1, <2>2, <2>3, <2>4 DEF r
<1>5. QED
  BY <1>2, <1>3, <1>4 DEF Stores

(* Who sends a RESET has no other request open.                             *)
LEMMA AnswersAreAwaited ==
  ASSUME OutShape, out # << >>
  PROVE  Weight(out, LastOf) >= 1
<1>1. out \in Seq(AnswerPacket) /\ out[Len(out)].last /\ Len(out) \in 1 .. Len(out)
  BY DEF OutShape
<1>2. out[Len(out)] \in AnswerPacket
  BY <1>1
<1>3. LastOf[out[Len(out)]] = 1
  BY <1>1, <1>2 DEF LastOf
<1>4. LastOf[out[Len(out)]] <= Weight(out, LastOf) /\ Weight(out, LastOf) \in Nat
  BY <1>1, WeightTypes, WeightOfMember
<1>5. QED
  BY <1>3, <1>4

(* The client begins a request: its packets are behind those under way. *)
LEMMA SubmitKeepsQueues ==
  ASSUME Queues, NEW what \in COMMAND, NEW val \in VALUE, NEW size \in DATA_SIZE,
         NEW insert \in INSERT_SIZE, Submit(what, val, size, insert)
  PROVE  /\ Queues'
         /\ \E v \in VALUE \cup {NoPage} :
              CommandsOf(stream') = Append(CommandsOf(stream), [what |-> what, val |-> v])
         /\ Len(stream') >= Len(stream)
         /\ \A i \in 1 .. Len(stream) : stream'[i] = stream[i]
<1> DEFINE r == RequestPackets(what, val, size, insert)
           n == IF what = "getfile" THEN 0 ELSE 1
<1>1. /\ Shape(r) /\ \A i \in 1 .. Len(r) : r[i].what # "rest"
      /\ Weight(r, AwaitedBy) = n
      /\ ResetPending(r) => what = "reset"
      /\ \E v \in VALUE \cup {NoPage} : CommandsOf(r) = <<[what |-> what, val |-> v]>>
  BY RequestFacts
<1>2. /\ stream' = stream \o r
      /\ open' = open + n
      /\ open < IF what = "reset" THEN 1 ELSE WINDOW
      /\ ~Pending({"reset"})
      /\ WaitsForPage => ~Pending({"ralloc", "page"})
      /\ UNCHANGED <<in_bytes, up, out, out_bytes, down>>
  BY SizeAssumption DEF Submit, outVars, Queues, Bytes
<1> HIDE DEF r
<1>3. Shape(stream) /\ stream \in Seq(StreamPacket) /\ r \in Seq(StreamPacket)
  BY <1>1 DEF Queues, Shape
<1>4. ~ResetPending(stream)
  BY <1>2, <1>3 DEF Pending, ResetPending, Range
<1>5. WaitsForPage => \A i \in 1 .. Len(stream) : stream[i].what # "ralloc"
  BY <1>2, <1>3 DEF Pending, Range
<1> DEFINE s == stream \o r
<1>6. /\ s \in Seq(StreamPacket) /\ Len(s) >= Len(stream)
      /\ \A i \in 1 .. Len(stream) : s[i] = stream[i]
  BY <1>3
<1>7. Shape(s) /\ (ResetPending(s) => ResetPending(r))
  BY <1>1, <1>3, <1>4, <1>5, ShapeOfConcat
<1>8. CommandsOf(s) = CommandsOf(stream) \o CommandsOf(r)
  BY <1>3, CommandsOfConcat
<1>9. /\ Weight(s, AwaitedBy) = Weight(stream, AwaitedBy) + Weight(r, AwaitedBy)
      /\ Weight(s, StreamSize) = Weight(stream, StreamSize) + Weight(r, StreamSize)
  BY <1>3, WeightsOfJoined
<1> HIDE DEF s
<1>10. /\ Total(s) = Weight(s, StreamSize) /\ Total(s) \in Nat
       /\ Total(stream) = Weight(stream, StreamSize) /\ Total(stream) \in Nat
       /\ Total(r) = Weight(r, StreamSize) /\ Total(r) \in Nat
  BY <1>3, <1>6, TotalOfStream
<1>11. /\ Weight(stream, AwaitedBy) \in Nat
       /\ Weight(out, LastOf) \in Nat /\ open \in Nat
  <2>1. out \in Seq(AnswerPacket)
    BY DEF Queues, OutShape
  <2>2. Weight(stream, AwaitedBy) \in Nat /\ Weight(out, LastOf) \in Nat
    BY <1>3, <2>1, WeightTypes, WeightOfMember, Zenon
  <2>3. QED
    BY <2>2, SizeAssumption DEF Queues, Bytes
<1>12. stream' = s
  BY <1>2 DEF s
<1>13. Total(s) = Total(stream) + Total(r)
  BY <1>9, <1>10
<1>14. Bytes'
  <2>1. Unwritten' = Total(s) - in_bytes - up
    BY <1>2, <1>12 DEF Unwritten
  <2>2. Unwritten' >= 0 /\ in_bytes \in 0 .. Total(s)
    BY <2>1, <1>10, <1>13 DEF Queues, Bytes, Unwritten
  <2>3. Got' = Got
    BY <1>2 DEF Got
  <2>4. open' \in 0 .. WINDOW
    BY <1>2, <1>11, SizeAssumption
  <2>5. QED
    BY <2>2, <2>3, <2>4, <1>2, <1>12 DEF Queues, Bytes
<1>15. OutShape'
  BY <1>2 DEF Queues, OutShape, Got
<1>16. Counted'
  <2>1. Weight(s, AwaitedBy) + Weight(out, LastOf) <= open + n
    BY <1>1, <1>9, <1>11 DEF Queues, Counted
  <2>2. QED
    BY <2>1, <1>2, <1>12 DEF Counted
<1>17. ResetAlone'
  <2> SUFFICES ASSUME ResetPending(stream')
               PROVE  open' = 1 /\ out' = << >>
    BY DEF ResetAlone
  <2>1. what = "reset"
    BY <1>1, <1>7, <1>12
  <2>2. open = 0 /\ open' = 1
    BY <2>1, <1>2, <1>11
  <2>3. out = << >>
    BY <2>2, <1>11, AnswersAreAwaited DEF Queues, Counted
  <2>4. QED
    BY <2>2, <2>3, <1>2
<1>18. \E v \in VALUE \cup {NoPage} :
         CommandsOf(s) = Append(CommandsOf(stream), [what |-> what, val |-> v])
  <2>1. PICK v \in VALUE \cup {NoPage} : CommandsOf(r) = <<[what |-> what, val |-> v]>>
    BY <1>1
  <2> DEFINE cs == CommandsOf(stream)
             c == [what |-> what, val |-> v]
  <2>2. cs \in Seq(Request)
    BY <1>3, CommandsType
  <2> HIDE DEF cs, c
  <2>3. cs \o <<c>> = Append(cs, c)
    BY <2>2
  <2>4. QED
    BY <2>1, <2>3, <1>8 DEF cs, c
<1>19. QED
  BY <1>6, <1>7, <1>12, <1>14, <1>15, <1>16, <1>17, <1>18 DEF Queues

(* With the last byte of a packet the client has it whole, and the request  *)
(* is no longer open if that was its last.                                  *)
LEMMA ClientReadKeepsQueues ==
  ASSUME Queues, ClientRead
  PROVE  /\ Queues' /\ out # << >>
         /\ out' # out => out' = Tail(out)
<1>1. /\ out \in Seq(AnswerPacket) /\ Got \in Int /\ Got >= 0
      /\ out_bytes \in Nat /\ down \in Nat /\ open \in Nat /\ Total(out) \in Nat
      /\ Got = Total(out) - out_bytes - down
  BY TotalOfAnswers, SizeAssumption DEF Queues, Bytes, OutShape, Got
<1>2. /\ down > 0 /\ down' = down - 1
      /\ UNCHANGED <<stream, in_bytes, up, out_bytes>>
  BY DEF ClientRead, inVars
<1>3. out # << >>
  <2> SUFFICES ASSUME out = << >>
               PROVE  FALSE
    OBVIOUS
  <2>1. Total(out) = 0
    BY <1>1, TotalOfAnswers, WeightOfEmpty
  <2>2. QED
    BY <2>1, <1>1, <1>2
<1> DEFINE h == Head(out)
           t == Tail(out)
<1>4. /\ h \in AnswerPacket /\ h.size \in Nat \ {0}
      /\ t \in Seq(AnswerPacket) /\ Len(out) \in Nat \ {0} /\ Len(t) = Len(out) - 1
      /\ \A i \in 1 .. Len(t) : t[i] = out[i + 1]
      /\ Total(out) = h.size + Total(t) /\ Total(t) \in Nat
      /\ Weight(out, LastOf) = LastOf[h] + Weight(t, LastOf)
      /\ LastOf[h] = IF h.last THEN 1 ELSE 0
      /\ Weight(t, LastOf) \in Nat
  BY <1>1, <1>3, AnswersTail
<1>5. Weight(stream, AwaitedBy) \in Nat
  <2>1. stream \in Seq(StreamPacket)
    BY DEF Queues, Shape
  <2>2. QED
    BY <2>1, WeightTypes, WeightOfMember, Zenon
<1>6. Weight(stream, AwaitedBy) + Weight(out, LastOf) <= open
  BY DEF Queues, Counted
<1>7. out[Len(out)].last /\ Got < h.size /\ ~ResetPending(stream)
  BY <1>3 DEF Queues, OutShape, ResetAlone
<1>8. Got' = Total(out') - out_bytes - (down - 1)
  BY <1>2 DEF Got
<1>9. CASE Got + 1 = h.size
  <2>1. out' = t /\ open' = IF h.last THEN open - 1 ELSE open
    BY <1>9 DEF ClientRead
  <2> HIDE DEF t, h
  <2>2. Got' = 0
    <3>1. Got' = Total(t) - out_bytes - (down - 1)
      BY <2>1, <1>8
    <3>2. Total(out) = (Got + 1) + Total(t) /\ Total(t) \in Nat
      BY <1>4, <1>9
    <3>3. Got \in Int /\ out_bytes \in Nat /\ down \in Nat /\ Total(out) \in Nat
      BY <1>1
    <3>4. Got = Total(out) - out_bytes - down
      BY <1>1
    <3>5. Total(t) - out_bytes - (down - 1) = 0
      BY <3>2, <3>3, <3>4
    <3>6. QED
      BY <3>1, <3>5
  <2>3. t # << >> => t[Len(t)].last /\ Got' < Head(t).size
    <3> SUFFICES ASSUME t # << >>
                 PROVE  t[Len(t)].last /\ Got' < Head(t).size
      OBVIOUS
    <3>1. Head(t).size \in Nat \ {0} /\ Len(t) \in 1 .. Len(t) /\ Len(t) + 1 = Len(out)
      BY <1>1, <1>4, AnswersTail
    <3>2. t[Len(t)] = out[Len(out)]
      BY <3>1, <1>4
    <3>3. QED
      BY <3>1, <3>2, <2>2, <1>7
  <2>4. OutShape'
    BY <2>1, <2>3, <1>4 DEF OutShape
  <2>5. open' \in 0 .. WINDOW /\ Weight(stream, AwaitedBy) + Weight(t, LastOf) <= open'
    BY <2>1, <1>1, <1>4, <1>5, <1>6, SizeAssumption DEF Queues, Bytes
  <2>6. Counted' /\ ResetAlone'
    BY <2>1, <2>5, <1>2, <1>7 DEF Counted, ResetAlone
  <2>7. Bytes'
    BY <2>2, <2>5, <1>1, <1>2, SizeAssumption DEF Queues, Bytes, Unwritten
  <2>8. QED
    BY <2>1, <2>4, <2>6, <2>7, <1>2, <1>3 DEF Queues, t
<1>10. CASE Got + 1 # h.size
  <2>1. out' = out /\ open' = open
    BY <1>10 DEF ClientRead
  <2>2. Got' = Got + 1
    BY <2>1, <1>1, <1>8
  <2>3. Got' < h.size
    <3>1. h.size \in Nat /\ Got \in Int /\ Got < h.size
      BY <1>1, <1>4, <1>7
    <3>2. QED
      BY <3>1, <2>2, <1>10
  <2>4. OutShape'
    BY <2>1, <2>3, <1>7 DEF Queues, OutShape
  <2>5. Counted' /\ ResetAlone'
    BY <2>1, <1>2, <1>7 DEF Queues, Counted, ResetAlone
  <2>6. Bytes'
    BY <2>1, <2>2, <1>1, <1>2, SizeAssumption DEF Queues, Bytes, Unwritten
  <2>7. QED
    BY <2>1, <2>4, <2>5, <2>6, <1>2, <1>3 DEF Queues
<1>11. QED
  BY <1>9, <1>10

(* A byte goes from the card to in_queue, or from out_queue to the card.    *)
LEMMA ByteMovesKeepQueues ==
  ASSUME Queues, ClientWrite \/ ReadByte \/ SendByte
  PROVE  Queues'
<1>1. Total(stream) \in Nat /\ Total(out) \in Nat
  BY TotalOfStream, TotalOfAnswers DEF Queues, Shape, OutShape
<1>2. UNCHANGED <<stream, out, open>>
  BY DEF ClientWrite, ReadByte, SendByte, outVars, clientVars, inVars
<1>3. /\ in_bytes \in Nat /\ up \in Nat /\ out_bytes \in Nat /\ down \in Nat
      /\ FIFO_DEPTH \in Nat
  BY <1>1, SizeAssumption DEF Queues, Bytes
<1>4. /\ in_bytes' \in Nat /\ up' \in 0 .. FIFO_DEPTH
      /\ in_bytes' + up' <= Total(stream)
      /\ out_bytes' \in Nat /\ out_bytes' <= OUT_SIZE /\ down' \in 0 .. FIFO_DEPTH
      /\ \/ UNCHANGED <<out_bytes, down>>
         \/ out_bytes' = out_bytes - 1 /\ down' = down + 1
  <2>1. CASE ClientWrite
    BY <2>1, <1>1, <1>3 DEF ClientWrite, outVars, Queues, Bytes, Unwritten
  <2>2. CASE ReadByte
    BY <2>2, <1>1, <1>3 DEF ReadByte, outVars, Queues, Bytes, Unwritten
  <2>3. CASE SendByte
    <3>1. ToSend > 0 => out_bytes > 0
      BY <1>3, SizeAssumption DEF ToSend
    <3>2. QED
      BY <2>3, <3>1, <1>1, <1>3, SizeAssumption DEF SendByte, inVars, Queues, Bytes, Unwritten
  <2>4. QED
    BY <2>1, <2>2, <2>3
<1>5. Got' = Got
  <2>1. Got' = Total(out) - out_bytes' - down'
    BY <1>2 DEF Got
  <2>2. Got = Total(out) - out_bytes - down
    BY DEF Got
  <2>3. Total(out) - out_bytes' - down' = Total(out) - out_bytes - down
    BY <1>1, <1>3, <1>4
  <2>4. QED
    BY <2>1, <2>2, <2>3
<1>6. Bytes'
  <2>1. Unwritten' = Total(stream) - in_bytes' - up'
    BY <1>2 DEF Unwritten
  <2>2. QED
    BY <2>1, <1>1, <1>2, <1>3, <1>4, <1>5, SizeAssumption DEF Queues, Bytes
<1>7. OutShape'
  BY <1>2, <1>5 DEF Queues, OutShape
<1>8. QED
  BY <1>2, <1>6, <1>7 DEF Queues, Counted, ResetAlone

(* The step of a command that is complete leaves to the others what is      *)
(* theirs.                                                                  *)
LEMMA CheckingFacts ==
  ASSUME CheckingPackets, ServerState
  PROVE  /\ Unlocked
         /\ UNCHANGED <<up, down, open, requests, tick_check_counter>>
         /\ pc' \in {"read", "send", "check", "tick"}
         /\ packet_check_counter' \in 0 .. MAX_COMMAND_WAIT
         /\ tick_check_counter' \in 0 .. MAX_TICK_WAIT
         /\ requests' \in 0 .. MaxRequests
BY SizeAssumption DEF CheckingPackets, ServerState, clientVars

(* No lock is set, and none is touched. *)
LEMMA LocksStayOpen ==
  ASSUME Unlocked, UNCHANGED lockVars, out_bytes' \in Nat
  PROVE  Locks'
BY DEF Unlocked, lockVars, Locks, SendLockCountsBytesToSend, ReceiveLockCountsMissingBytes

(* A command is read and its answers written: there was space for them.     *)
LEMMA PutKeepsQueues ==
  ASSUME Queues, NEW what \in Commands \ {"getfile"},
         IsComplete(Found, Unread), Head(Found).what = what, CommandRead,
         NEW a, Reply(a), SpaceAvailable(Total(a)), Put(a),
         UNCHANGED <<up, down, open>>
  PROVE  Queues'
<1> DEFINE n == Unread - Head(Found).size
<1>1. /\ Shape(Tail(Found)) /\ n \in Nat /\ Total(Tail(Found)) \in Nat
      /\ Total(Tail(Found)) - n = Total(stream) - in_bytes
      /\ Weight(stream, AwaitedBy)
           = AwaitedBy[Head(Found)] + Weight(Tail(Found), AwaitedBy)
      /\ AwaitedBy[Head(Found)] = 1
      /\ Weight(Tail(Found), AwaitedBy) \in Nat
      /\ ResetPending(Tail(Found)) => ResetPending(stream)
  BY CompleteFacts DEF Queues
<1>2. stream' = Tail(Found) /\ in_bytes' = n
  BY DEF CommandRead
<1> HIDE DEF n
<1>3. Total(a) \in Nat
  BY TotalOfAnswers DEF Reply
<1>4. out_bytes + Total(a) <= OUT_SIZE
  BY <1>3, SpaceIsThere DEF Put, Queues, Bytes
<1>5. out' = out \o a /\ out_bytes' = out_bytes + Total(a)
  BY DEF Put
<1>6. Weight(stream, AwaitedBy) >= 1 + Weight(stream', AwaitedBy)
  BY <1>1, <1>2
<1>7. QED
  BY <1>1, <1>2, <1>4, <1>5, <1>6, ReplyKeepsQueues

(* A handler that writes without looking whether there is space.            *)
LEMMA WriteKeepsQueues ==
  ASSUME Queues, NEW what \in Commands \ {"getfile"},
         IsComplete(Found, Unread), Head(Found).what = what, CommandRead,
         NEW a \in AnswerPacket, a.last, Write(a),
         UNCHANGED <<up, down, open>>
  PROVE  Queues'
<1>1. CASE SpaceAvailable(a.size)
  <2>1. Put(<<a>>)
    BY <1>1 DEF Write
  <2>2. Reply(<<a>>) /\ Total(<<a>>) = a.size
    BY OneAnswerIsReply
  <2> DEFINE s == <<a>>
  <2>3. Put(s) /\ Reply(s) /\ SpaceAvailable(Total(s))
    BY <2>1, <2>2, <1>1
  <2> HIDE DEF s
  <2>4. QED
    BY <2>3, PutKeepsQueues
<1>2. CASE ~SpaceAvailable(a.size)
  <2>1. UNCHANGED <<out, out_bytes>>
    BY <1>2 DEF Write
  <2>2. QED
    BY <2>1, SilenceKeepsQueues
<1>3. QED
  BY <1>1, <1>2

(* The RESET is the last request, and no answer is under way: what is left  *)
(* is its own answer.                                                       *)
LEMMA ResetKeepsQueues ==
  ASSUME Queues, ServerState, Reset
  PROVE  Queues' /\ out = << >> /\ Tail(Found) = << >>
<1> DEFINE a == Answer("reset", 3, NoPage, TRUE)
<1>1. /\ IsComplete(Found, Unread) /\ Head(Found).what = "reset"
      /\ SpaceAvailable(30) /\ CheckingPackets
  BY DEF Reset, MayRun, Complete, OUT_QUEUE_SPACE
<1>2. UNCHANGED <<up, down, open>>
  BY <1>1, CheckingFacts
<1>3. /\ stream' = << >> /\ in_bytes' = 0 /\ out' = <<a>> /\ out_bytes' = 12
  BY DEF Reset, PACKET_OVERHEAD
<1>4. /\ Found # << >> /\ Found \in Seq(StreamPacket) /\ Head(Found) = Found[1]
      /\ Shape(Found) /\ (ResetPending(Found) => ResetPending(stream))
      /\ Total(Tail(Found)) - (Unread - Head(Found).size) = Total(stream) - in_bytes
      /\ Unread - Head(Found).size \in Nat
  BY <1>1, FoundFacts, CompleteFacts DEF Queues
<1>5. Len(Found) = 1 /\ ResetPending(Found)
  <2> DEFINE f == Found
  <2>1. f \in Seq(StreamPacket) /\ f # << >> /\ f[1].what = "reset" /\ ResetLast(f)
    BY <1>1, <1>4 DEF Shape
  <2> HIDE DEF f
  <2>2. 1 \in 1 .. Len(f)
    BY <2>1
  <2>3. QED
    BY <2>1, <2>2 DEF ResetLast, ResetPending, f
<1>6. out = << >> /\ open = 1
  BY <1>4, <1>5 DEF Queues, ResetAlone
<1>7. Tail(Found) = << >>
  <2> DEFINE f == Found
  <2>1. f \in Seq(StreamPacket) /\ Len(f) = 1
    BY <1>4, <1>5
  <2> HIDE DEF f
  <2>2. Tail(f) \in Seq(StreamPacket) /\ Len(Tail(f)) = 0
    BY <2>1
  <2>3. Tail(f) = << >>
    BY <2>2, EmptySeq
  <2>4. QED
    BY <2>3 DEF f
<1>8. << >> \in Seq(StreamPacket) /\ << >> \in Seq(AnswerPacket)
  OBVIOUS
<1>9. Total(<< >>) = 0 /\ Weight(<< >>, AwaitedBy) = 0
  BY <1>8, TotalOfStream, WeightOfEmpty
<1>10. a \in AnswerPacket /\ a.size = 12 /\ a.last
  BY DEF Answer, AnswerPacket, Commands, PACKET_OVERHEAD
<1> HIDE DEF a
<1>11. Reply(<<a>>) /\ Total(<<a>>) = 12
  BY <1>10, OneAnswerIsReply
<1>12. down = 0 /\ up = 0 /\ out_bytes = 0 /\ OUT_SIZE > 30
  <2>1. Got = 0 - out_bytes - down
    BY <1>6, <1>9 DEF Got
  <2>2. Unwritten = Total(stream) - in_bytes - up
    BY DEF Unwritten
  <2>3. Total(stream) - in_bytes = 0 - (Unread - Head(Found).size)
    BY <1>4, <1>7, <1>9
  <2>4. out_bytes \in Nat /\ down \in Nat /\ up \in Nat /\ Got >= 0 /\ Unwritten >= 0
    BY SizeAssumption DEF Queues, Bytes
  <2>5. out_bytes = 0 /\ down = 0
    BY <2>1, <2>4
  <2>6. up = 0
    BY <2>2, <2>3, <2>4, <1>4
  <2>7. OUT_SIZE > 30
    BY <2>5, <1>1, SizeAssumption DEF SpaceAvailable, ToSend
  <2>8. QED
    BY <2>5, <2>6, <2>7
<1>13. Bytes'
  <2>1. Unwritten' = 0
    <3>1. Unwritten' = Total(<< >>) - 0 - 0
      BY <1>2, <1>3, <1>12 DEF Unwritten
    <3>2. QED
      BY <3>1, <1>9
  <2>2. Got' = 0
    <3>1. Got' = Total(<<a>>) - 12 - 0
      BY <1>2, <1>3, <1>12 DEF Got
    <3>2. QED
      BY <3>1, <1>11
  <2>3. in_bytes' \in 0 .. Total(stream')
    BY <1>3, <1>9
  <2>4. up' = 0 /\ down' = 0 /\ out_bytes' = 12 /\ open' = open /\ OUT_SIZE > 30
    BY <1>2, <1>3, <1>12
  <2>5. QED
    BY <2>1, <2>2, <2>3, <2>4, SizeAssumption DEF Queues, Bytes
<1>14. OutShape'
  <2>1. Got' = 0
    <3>1. Got' = Total(<<a>>) - 12 - 0
      BY <1>2, <1>3, <1>12 DEF Got
    <3>2. QED
      BY <3>1, <1>11
  <2> DEFINE s == <<a>>
  <2>2. s \in Seq(AnswerPacket) /\ s[Len(s)].last /\ Head(s).size = 12
    BY <1>10
  <2>3. out' = s
    BY <1>3
  <2> HIDE DEF s
  <2>4. QED
    BY <2>1, <2>2, <2>3 DEF OutShape
<1>15. Counted'
  <2>1. Weight(stream', AwaitedBy) = 0 /\ Weight(out', LastOf) = 1 /\ open' = 1
    BY <1>2, <1>3, <1>6, <1>9, <1>11 DEF Reply
  <2>2. QED
    BY <2>1 DEF Counted
<1>16. Shape(stream') /\ ResetAlone'
  BY <1>3, <1>8 DEF Shape, RestFirst, StoresPaired, DataWhole, ResetLast, RallocLast,
                    ResetAlone, ResetPending
<1>17. QED
  BY <1>6, <1>7, <1>13, <1>14, <1>15, <1>16 DEF Queues

(* What a SALLOC or IALLOC that runs finds after it.                        *)
LEMMA StoreFacts ==
  ASSUME Queues, MayStore
  PROVE  /\ CheckingPackets /\ IsComplete(Found, Unread) /\ page # NoPage
         /\ SpaceAvailable(OUT_QUEUE_SPACE)
         /\ Head(Found).what \in Stores /\ Head(Found).wants \in Nat
         /\ Head(Found) = Found[1] /\ Head(AfterCommand) = Found[2]
         /\ Len(Found) >= 2
         /\ AfterCommand \in Seq(StreamPacket) /\ AfterCommand # << >>
         /\ Head(AfterCommand) \in StreamPacket
         /\ Paired(Head(Found), Head(AfterCommand))
         /\ Head(AfterCommand).size \in Nat /\ Head(AfterCommand).size > PACKET_OVERHEAD
         /\ DataAsWanted =>
              Head(AfterCommand).size = Head(AfterCommand).wants + PACKET_OVERHEAD
<1>1. /\ CheckingPackets /\ IsComplete(Found, Unread) /\ page # NoPage
      /\ SpaceAvailable(OUT_QUEUE_SPACE) /\ Head(Found).what \in Stores
  BY DEF MayStore, MayRun, Complete, Stores
<1> DEFINE f == Found
<1>2. /\ Shape(f) /\ f \in Seq(StreamPacket) /\ f # << >> /\ Head(f) = f[1]
      /\ Head(f) \in StreamPacket
  BY <1>1, FoundFacts, CompleteFacts DEF Queues
<1>3. f[1].what \in Stores
  BY <1>1, <1>2
<1> HIDE DEF f
<1>4. 1 < Len(f) /\ Paired(f[1], f[2])
  <2>1. 1 \in 1 .. Len(f)
    BY <1>2
  <2>2. 1 < Len(f) /\ Paired(f[1], f[1 + 1])
    BY <2>1, <1>2, <1>3 DEF Shape, StoresPaired
  <2>3. QED
    BY <2>2
<1>5. 2 \in 1 .. Len(f) /\ Len(f) >= 2 /\ f[2] \in StreamPacket /\ f[2].what = "data"
  BY <1>2, <1>4 DEF Paired
<1>6. /\ f[2].size > PACKET_OVERHEAD /\ f[2].size \in Nat
      /\ DataAsWanted => f[2].size = f[2].wants + PACKET_OVERHEAD
  BY <1>2, <1>5 DEF Shape, DataWhole, StreamPacket
<1>7. Tail(f) \in Seq(StreamPacket) /\ Tail(f) # << >> /\ Head(Tail(f)) = f[2]
  <2> DEFINE t == Tail(f)
  <2>1. t \in Seq(StreamPacket) /\ Len(t) >= 1 /\ t[1] = f[2]
    BY <1>2, <1>5, StreamTail
  <2> HIDE DEF t
  <2>2. t # << >> /\ Head(t) = t[1]
    BY <2>1
  <2>3. QED
    BY <2>1, <2>2 DEF t
<1>8. Head(f).wants \in Nat
  BY <1>2 DEF StreamPacket
<1>9. QED
  BY <1>1, <1>2, <1>4, <1>5, <1>6, <1>7, <1>8 DEF f, AfterCommand

(* The stream after a store: what is left of the BinaryData is no command.  *)
LEMMA StoreReads ==
  ASSUME Queues, Store
  PROVE  /\ Shape(stream') /\ in_bytes' \in Nat /\ Total(stream') \in Nat
         /\ Total(stream') - in_bytes' = Total(stream) - in_bytes
         /\ Weight(stream', AwaitedBy) \in Nat
         /\ Weight(stream, AwaitedBy) = 1 + Weight(stream', AwaitedBy)
         /\ ResetPending(stream') => ResetPending(stream)
         /\ CommandsOf(stream') = CommandsOf(AfterCommand)
<1> DEFINE c == Head(Found)
           t == Tail(Found)
           d == Head(t)
           u == Tail(t)
           n == Unread - c.size
           left == d.size - PACKET_OVERHEAD - c.wants + REAR_DELIMITER_OVERHEAD
<1>1. /\ IsComplete(Found, Unread) /\ c.what \in Stores /\ c.wants \in Nat
      /\ t \in Seq(StreamPacket) /\ t # << >>
      /\ d \in StreamPacket /\ d.size \in Nat /\ d.size > PACKET_OVERHEAD
      /\ d.what = "data"
  BY StoreFacts DEF Store, AfterCommand, Paired
<1>2. /\ Shape(t) /\ \A i \in 1 .. Len(t) : t[i].what # "rest"
      /\ n \in Nat /\ Total(t) \in Nat /\ Total(t) - n = Total(stream) - in_bytes
      /\ Weight(stream, AwaitedBy) = AwaitedBy[c] + Weight(t, AwaitedBy)
      /\ AwaitedBy[c] = IF c.what \in Commands \ {"getfile"} THEN 1 ELSE 0
      /\ ResetPending(t) => ResetPending(stream)
  BY <1>1, CompleteFacts DEF Queues
<1>3. AwaitedBy[c] = 1
  BY <1>1, <1>2 DEF Stores, Commands
<1>4. AwaitedBy[d] = 0 /\ d.what \notin Commands
  BY <1>1 DEF AwaitedBy, Commands
<1>5. /\ n >= d.size /\ d.size - PACKET_OVERHEAD >= c.wants
      /\ IF d.size - PACKET_OVERHEAD = c.wants
           THEN stream' = u /\ in_bytes' = n - d.size
           ELSE /\ stream' = <<[d EXCEPT !.what = "rest", !.size = left]>> \o u
                /\ in_bytes' = n - d.size + left
  BY DEF Store, DataPayload, AfterCommand, UnreadAfter, Wanted, IsComplete
<1> HIDE DEF c, d, n, t
<1>6. /\ Shape(u) /\ \A i \in 1 .. Len(u) : u[i].what # "rest"
      /\ ResetPending(u) => ResetPending(t)
  BY <1>1, <1>2, ShapeOfTail
<1>7. /\ u \in Seq(StreamPacket) /\ Total(u) \in Nat
      /\ Total(t) = d.size + Total(u)
      /\ Weight(t, AwaitedBy) = AwaitedBy[d] + Weight(u, AwaitedBy)
      /\ Weight(u, AwaitedBy) \in Nat
  BY <1>1, StreamTail DEF d
<1>8. CommandsOf(t) = CommandsOf(u)
  BY <1>1, <1>4, CommandsAfterRest DEF d
<1>9. Weight(stream, AwaitedBy) = 1 + Weight(u, AwaitedBy)
  BY <1>2, <1>3, <1>4, <1>7
<1>10. AfterCommand = t
  BY DEF AfterCommand, t
<1>11. Total(stream) - in_bytes = d.size + Total(u) - n
  <2>1. Total(t) = d.size + Total(u)
    BY <1>7
  <2>2. Total(t) - n = Total(stream) - in_bytes
    BY <1>2
  <2>3. Total(stream) - in_bytes = (d.size + Total(u)) - n
    BY <2>1, <2>2
  <2> HIDE DEF u, left
  <2>4. n \in Nat /\ Total(u) \in Nat /\ d.size \in Nat
    BY <1>1, <1>2, <1>7
  <2>5. QED
    BY <2>3, <2>4
<1> HIDE DEF u
<1>12. CASE d.size - PACKET_OVERHEAD = c.wants
  <2>1. stream' = u /\ in_bytes' = n - d.size
    BY <1>5, <1>12
  <2>2. in_bytes' \in Nat /\ Total(u) - in_bytes' = d.size + Total(u) - n
    <3> DEFINE size == d.size
               total == Total(u)
    <3>1. /\ size \in Nat /\ total \in Nat /\ n \in Nat /\ n >= size
          /\ in_bytes' = n - size
      BY <2>1, <1>1, <1>2, <1>5, <1>7
    <3> HIDE DEF size, total
    <3>2. in_bytes' \in Nat /\ total - in_bytes' = size + total - n
      BY <3>1
    <3>3. QED
      BY <3>2 DEF size, total
  <2>3. QED
    BY <2>1, <2>2, <1>2, <1>6, <1>7, <1>8, <1>9, <1>10, <1>11
<1>13. CASE d.size - PACKET_OVERHEAD # c.wants
  <2> DEFINE p == [d EXCEPT !.what = "rest", !.size = left]
  <2>1. left \in Nat \ {0}
    BY <1>1, <1>5 DEF PACKET_OVERHEAD, REAR_DELIMITER_OVERHEAD
  <2> HIDE DEF left
  <2>2. p \in StreamPacket /\ p.what = "rest" /\ p.size = left
    BY <2>1, <1>1 DEF StreamPacket
  <2>3. stream' = <<p>> \o u /\ in_bytes' = n - d.size + left
    BY <1>5, <1>13
  <2> HIDE DEF p
  <2> DEFINE s == <<p>> \o u
  <2>4. /\ Shape(s) /\ Total(s) = left + Total(u)
        /\ Weight(s, AwaitedBy) = Weight(u, AwaitedBy)
        /\ ResetPending(s) => ResetPending(u)
    BY <2>2, <1>6, ShapeOfRest
  <2>5. CommandsOf(s) = CommandsOf(u)
    <3>1. /\ s \in Seq(StreamPacket) /\ s # << >> /\ Head(s) = p /\ Tail(s) = u
      BY <2>2, <1>7
    <3>2. p.what \notin Commands
      BY <2>2 DEF Commands
    <3> HIDE DEF s
    <3>3. QED
      BY <3>1, <3>2, CommandsAfterRest
  <2>6. stream' = s
    BY <2>3
  <2> HIDE DEF s
  <2>7. in_bytes' \in Nat /\ Total(s) - in_bytes' = d.size + Total(u) - n /\ Total(s) \in Nat
    <3>1. /\ n \in Nat /\ d.size \in Nat /\ n >= d.size /\ left \in Nat
          /\ Total(u) \in Nat
      BY <2>1, <1>1, <1>2, <1>5, <1>7
    <3>2. in_bytes' = n - d.size + left /\ Total(s) = left + Total(u)
      BY <2>3, <2>4
    <3>3. in_bytes' \in Nat /\ Total(s) \in Nat
      BY <3>1, <3>2
    <3>4. (left + Total(u)) - (n - d.size + left) = d.size + Total(u) - n
      BY <3>1
    <3>5. QED
      BY <3>2, <3>3, <3>4
  <2>8. QED
    BY <2>4, <2>5, <2>6, <2>7, <1>2, <1>6, <1>7, <1>8, <1>9, <1>10, <1>11
<1>14. QED
  BY <1>12, <1>13

(* RALLOC, when there is room for the page.                                 *)
LEMMA RetrieveKeepsQueues ==
  ASSUME Queues, ServerState, Retrieve
  PROVE  /\ Queues'
         /\ out' = out \o PageAnswer /\ out_bytes' = out_bytes + PAGE_SIZE + 23
         /\ CheckingPackets /\ IsComplete(Found, Unread) /\ Head(Found).what = "ralloc"
<1>1. /\ CheckingPackets /\ IsComplete(Found, Unread) /\ Head(Found).what = "ralloc"
      /\ CommandRead /\ SpaceAvailable(Total(PageAnswer)) /\ Put(PageAnswer)
  BY DEF Retrieve, MayRun, Complete
<1>2. UNCHANGED <<up, down, open>>
  BY <1>1, CheckingFacts
<1>3. Reply(PageAnswer) /\ Total(PageAnswer) = PAGE_SIZE + 23
  BY PageAnswerIsReply DEF ServerState
<1>4. "ralloc" \in Commands \ {"getfile"}
  BY DEF Commands
<1>5. Queues'
  BY <1>1, <1>2, <1>3, <1>4, PutKeepsQueues
<1>6. out' = out \o PageAnswer /\ out_bytes' = out_bytes + Total(PageAnswer)
  BY <1>1 DEF Put
<1>7. out_bytes \in Nat /\ PAGE_SIZE \in Nat
  BY SizeAssumption DEF Queues, Bytes
<1>8. QED
  BY <1>1, <1>3, <1>5, <1>6, <1>7

(* SALLOC and IALLOC, when their BinaryData has come.                       *)
LEMMA StoreKeepsQueues ==
  ASSUME Queues, ServerState, Store
  PROVE  /\ Queues'
         /\ out' = out \o <<Answer(Head(Found).what,
                                   IF Head(Found).what = "ialloc" THEN 3 ELSE 5,
                                   NoPage, TRUE)>>
<1> DEFINE what == Head(Found).what
           a == Answer(what, IF what = "ialloc" THEN 3 ELSE 5, NoPage, TRUE)
           s == <<a>>
<1>1. /\ CheckingPackets /\ SpaceAvailable(30) /\ what \in Stores
  BY StoreFacts DEF Store, OUT_QUEUE_SPACE
<1>2. UNCHANGED <<up, down, open>>
  BY <1>1, CheckingFacts
<1>3. a \in AnswerPacket /\ a.size \in 12 .. 14 /\ a.last
  BY <1>1 DEF Answer, AnswerPacket, Commands, Stores, PACKET_OVERHEAD
<1>4. Put(s)
  BY DEF Store
<1> HIDE DEF a
<1>5. Reply(s) /\ Total(s) = a.size
  BY <1>3, OneAnswerIsReply
<1> HIDE DEF s
<1>6. ~RingFilled /\ out' = out \o s /\ out_bytes' = out_bytes + Total(s)
  BY <1>4 DEF Put
<1>7. out_bytes + 30 <= OUT_SIZE
  BY <1>1, <1>6, SpaceIsThere DEF Queues, Bytes
<1>8. out_bytes + Total(s) <= OUT_SIZE
  BY <1>3, <1>5, <1>7, SizeAssumption DEF Queues, Bytes
<1>9. /\ Shape(stream') /\ in_bytes' \in Nat /\ Total(stream') \in Nat
      /\ Total(stream') - in_bytes' = Total(stream) - in_bytes
      /\ Weight(stream', AwaitedBy) \in Nat
      /\ Weight(stream, AwaitedBy) = 1 + Weight(stream', AwaitedBy)
      /\ ResetPending(stream') => ResetPending(stream)
  BY StoreReads
<1>10. Weight(stream, AwaitedBy) >= 1 + Weight(stream', AwaitedBy)
  BY <1>9
<1>11. Queues'
  BY <1>2, <1>5, <1>6, <1>8, <1>9, <1>10, ReplyKeepsQueues
<1>12. QED
  BY <1>6, <1>11 DEF s, a

(* Every step keeps what is said of the packets under way. *)
LEMMA QueuesAreKept ==
  ASSUME Queues, ServerState, [Next]_vars
  PROVE  Queues'
<1>1. ASSUME NEW what \in COMMAND, NEW val \in VALUE, NEW size \in DATA_SIZE,
             NEW insert \in INSERT_SIZE, Submit(what, val, size, insert)
      PROVE  Queues'
  BY <1>1, SubmitKeepsQueues
<1>2. CASE ClientRead
  BY <1>2, ClientReadKeepsQueues
<1>3. CASE ClientWrite \/ ReadByte \/ SendByte
  BY <1>3, ByteMovesKeepQueues
<1>4. CASE UNCHANGED <<inVars, outVars, open>>
  BY <1>4 DEF inVars, outVars, Queues, Bytes, Unwritten, Got, OutShape, Counted, ResetAlone
<1>5. CASE NoPacket \/ UnexpectedData \/ Postpone \/ RetrieveNoSpace \/ StoreWaits
  <2>1. CheckingPackets /\ NothingRead /\ UNCHANGED <<out, out_bytes>>
    BY <1>5, StoreFacts DEF NoPacket, UnexpectedData, Postpone, RetrieveNoSpace, StoreWaits,
                            MayRun, Complete
  <2>2. QED
    BY <2>1, CheckingFacts, PutBackKeepsQueues
<1>6. CASE GetFile \/ StoreTooShort
  <2>1. /\ CheckingPackets /\ IsComplete(Found, Unread) /\ CommandRead
        /\ UNCHANGED <<out, out_bytes>>
    BY <1>6, StoreFacts DEF GetFile, StoreTooShort, MayRun, Complete
  <2>2. QED
    BY <2>1, CheckingFacts, SilenceKeepsQueues
<1>7. ASSUME NEW what \in Commands \ {"getfile"}, NEW payload \in Nat,
             Complete(what), CommandRead, Write(Answer(what, payload, NoPage, TRUE))
      PROVE  Queues'
  <2> DEFINE a == Answer(what, payload, NoPage, TRUE)
  <2>1. CheckingPackets /\ IsComplete(Found, Unread) /\ Head(Found).what = what
    BY <1>7 DEF Complete
  <2>2. UNCHANGED <<up, down, open>>
    BY <2>1, CheckingFacts
  <2>3. a \in AnswerPacket /\ a.last
    BY DEF Answer, AnswerPacket, PACKET_OVERHEAD
  <2>4. Write(a)
    BY <1>7
  <2> HIDE DEF a
  <2>5. QED
    BY <1>7, <2>1, <2>2, <2>3, <2>4, WriteKeepsQueues
<1>8. CASE BadCommand \/ Ping \/ Shutdown
  <2>1. CASE BadCommand
    BY <2>1, <1>7 DEF BadCommand, Commands
  <2>2. CASE Ping
    BY <2>2, <1>7 DEF Ping, MayRun, Commands
  <2>3. CASE Shutdown
    BY <2>3, <1>7 DEF Shutdown, MayRun, Commands
  <2>4. QED
    BY <1>8, <2>1, <2>2, <2>3
<1>9. CASE RetrieveRefused
  <2> DEFINE a == Answer("ralloc", 5, NoPage, TRUE)
             s == <<a>>
  <2>1. /\ CheckingPackets /\ IsComplete(Found, Unread) /\ Head(Found).what = "ralloc"
        /\ CommandRead /\ SpaceAvailable(30) /\ Put(s)
    BY <1>9 DEF RetrieveRefused, MayRun, Complete, OUT_QUEUE_SPACE
  <2>2. UNCHANGED <<up, down, open>>
    BY <2>1, CheckingFacts
  <2>3. a \in AnswerPacket /\ a.size = 14 /\ a.last
    BY DEF Answer, AnswerPacket, Commands, PACKET_OVERHEAD
  <2> HIDE DEF a
  <2>4. Reply(s) /\ Total(s) = 14
    BY <2>3, OneAnswerIsReply
  <2> HIDE DEF s
  <2>5. ~RingFilled
    BY <2>1 DEF Put
  <2>6. SpaceAvailable(Total(s))
    BY <2>1, <2>4, <2>5, SpaceIsThere DEF Queues, Bytes
  <2>7. "ralloc" \in Commands \ {"getfile"}
    BY DEF Commands
  <2>8. QED
    BY <2>1, <2>2, <2>4, <2>6, <2>7, PutKeepsQueues
<1>10. CASE Retrieve
  BY <1>10, RetrieveKeepsQueues
<1>11. CASE Store
  BY <1>11, StoreKeepsQueues
<1>12. CASE Reset
  BY <1>12, ResetKeepsQueues
<1>13. CASE NotChecking \/ NoTick \/ TickCommand \/ (\E i \in Slots : TimePasses(i))
              \/ UNCHANGED vars
  <2>1. UNCHANGED <<inVars, outVars, open>>
    BY <1>13 DEF NotChecking, NoTick, TickCommand, TimePasses, vars, clientVars
  <2>2. QED
    BY <2>1, <1>4
<1>14. QED
  BY <1>1, <1>2, <1>3, <1>5, <1>6, <1>8, <1>9, <1>10, <1>11, <1>12, <1>13
  DEF Next, Loop, CheckPacket

(* The send lock of a client that waits for its pages: the RALLOC is the    *)
(* last of the stream, so nothing unread of in_queue is counted with the    *)
(* page.                                                                    *)
LEMMA RetrieveKeepsLocks ==
  ASSUME Queues, Locks, ServerState, Retrieve
  PROVE  Locks'
<1> DEFINE n == Unread - Head(Found).size
<1>1. /\ out_bytes' = out_bytes + PAGE_SIZE + 23
      /\ CheckingPackets /\ IsComplete(Found, Unread) /\ Head(Found).what = "ralloc"
  BY RetrieveKeepsQueues
<1>2. binary_data_receive_mode = 0 /\ binary_data_receive_mode' = 0
  BY <1>1, CheckingFacts DEF Unlocked, Retrieve
<1>3. /\ Found # << >> /\ Found \in Seq(StreamPacket) /\ Head(Found) = Found[1]
      /\ Shape(Found) /\ n \in Nat
      /\ Total(Tail(Found)) - n = Total(stream) - in_bytes
  BY <1>1, FoundFacts, CompleteFacts DEF Queues
<1>4. binary_data_send_mode' = (PAGE_SIZE + 9) + (n + 3)
  BY DEF Retrieve, SendLock, PACKET_OVERHEAD, REAR_DELIMITER_OVERHEAD
<1> HIDE DEF n
<1>5. binary_data_send_mode' \in Nat
  BY <1>3, <1>4, SizeAssumption
<1>6. ASSUME WaitsForPage
      PROVE  n = 0
  <2> DEFINE f == Found
             t == Tail(f)
  <2>1. f \in Seq(StreamPacket) /\ f # << >> /\ f[1].what = "ralloc" /\ RallocLast(f)
    BY <1>1, <1>3 DEF Shape
  <2> HIDE DEF f
  <2>2. Len(f) = 1
    <3>1. 1 \in 1 .. Len(f)
      BY <2>1
    <3>2. QED
      BY <1>6, <2>1, <3>1 DEF RallocLast
  <2>3. t \in Seq(StreamPacket) /\ Len(t) = 0
    BY <2>1, <2>2, StreamTail
  <2>4. t = << >>
    BY <2>3, EmptySeq
  <2>5. Total(t) = 0
    BY <2>3, <2>4, TotalOfStream, WeightOfEmpty
  <2>6. Total(t) - n = Total(stream) - in_bytes
    BY <1>3 DEF f
  <2>7. Total(stream) - in_bytes >= 0
    <3>1. stream \in Seq(StreamPacket)
      BY DEF Queues, Shape
    <3>2. Total(stream) \in Nat
      BY <3>1, TotalOfStream
    <3>3. QED
      BY <3>2 DEF Queues, Bytes
  <2>8. QED
    BY <1>3, <2>5, <2>6, <2>7
<1>7. WaitsForPage => SendLockCountsBytesToSend'
  <2>1. out_bytes \in Nat /\ PAGE_SIZE \in Nat
    BY SizeAssumption DEF Queues, Bytes
  <2>2. QED
    BY <1>1, <1>4, <1>6, <2>1 DEF SendLockCountsBytesToSend
<1>8. QED
  BY <1>2, <1>5, <1>7 DEF Locks, ReceiveLockCountsMissingBytes

(* The receive lock of a client that sends the BinaryData it announces: it  *)
(* is set to the bytes of the BinaryData that have not come.                *)
LEMMA StoreWaitsKeepsLocks ==
  ASSUME Queues, Locks, ServerState, StoreWaits
  PROVE  Locks'
<1> DEFINE c == Head(Found)
           d == Head(AfterCommand)
           n == Unread - c.size
<1>1. /\ CheckingPackets /\ IsComplete(Found, Unread)
      /\ c.what \in Stores /\ c.wants \in Nat /\ c = Found[1] /\ d = Found[2]
      /\ Len(Found) >= 2 /\ AfterCommand # << >>
      /\ Paired(c, d) /\ d.size \in Nat
      /\ DataAsWanted => d.size = d.wants + PACKET_OVERHEAD
  BY StoreFacts DEF StoreWaits
<1>2. n \in Nat /\ Unread \in Nat /\ c.size \in Nat
  BY <1>1, FoundFacts, CompleteFacts DEF Queues
<1>3. d.what = "data" /\ d.wants = c.wants
  BY <1>1 DEF Paired
<1>4. /\ stream' = Found /\ in_bytes' = Unread /\ out_bytes' = out_bytes
      /\ binary_data_send_mode' = binary_data_send_mode
      /\ binary_data_receive_mode' = c.wants + 9 - n
      /\ ~IsComplete(AfterCommand, n)
  BY DEF StoreWaits, NothingRead, ReceiveLock, Wanted, UnreadAfter, PACKET_OVERHEAD
<1>5. ~(n >= d.size)
  BY <1>1, <1>3, <1>4 DEF IsComplete
<1>6. ASSUME DataAsWanted
      PROVE  /\ binary_data_receive_mode' \in Nat
             /\ binary_data_receive_mode' = c.size + d.size - Unread
  <2>1. d.size = c.wants + 9
    BY <1>1, <1>3, <1>6 DEF PACKET_OVERHEAD
  <2>2. binary_data_receive_mode' = d.size - n
    <3> DEFINE w == c.wants
    <3>1. w \in Nat /\ n \in Nat /\ d.size = w + 9 /\ binary_data_receive_mode' = w + 9 - n
      BY <1>1, <1>2, <1>4, <2>1
    <3> HIDE DEF w, n, c, d
    <3>2. QED
      BY <3>1
  <2> DEFINE z == d.size
             y == c.size
  <2>3. /\ z \in Nat /\ y \in Nat /\ Unread \in Nat /\ Unread - y \in Nat
        /\ ~(Unread - y >= z) /\ binary_data_receive_mode' = z - (Unread - y)
    BY <1>1, <1>2, <1>5, <2>2
  <2> HIDE DEF y, z
  <2>4. binary_data_receive_mode' \in Nat /\ binary_data_receive_mode' = y + z - Unread
    BY <2>3
  <2>5. QED
    BY <2>4 DEF y, z
<1>7. DataAsWanted => ReceiveLockCountsMissingBytes'
  <2> SUFFICES ASSUME DataAsWanted
               PROVE  ReceiveLockCountsMissingBytes'
    OBVIOUS
  <2>1. /\ stream'[1] = c /\ stream'[2] = d /\ Len(stream') >= 2
        /\ binary_data_receive_mode' = c.size + d.size - in_bytes'
    BY <1>1, <1>4, <1>6
  <2>2. c.what \in {"salloc", "ialloc"}
    BY <1>1 DEF Stores
  <2> HIDE DEF c, d
  <2>3. QED
    BY <2>1, <2>2, <1>3 DEF ReceiveLockCountsMissingBytes
<1>8. binary_data_receive_mode' \in Int
  <2> HIDE DEF c, n
  <2>1. QED
    BY <1>1, <1>2, <1>4
<1>9. binary_data_send_mode' \in Nat /\ (WaitsForPage => SendLockCountsBytesToSend')
  BY <1>4 DEF Locks, SendLockCountsBytesToSend
<1>10. QED
  BY <1>6, <1>7, <1>8, <1>9 DEF Locks

(* Every step keeps the locks counting what they are to count. *)
LEMMA LocksAreKept ==
  ASSUME Queues, Locks, ServerState, [Next]_vars
  PROVE  Locks'
<1>1. Queues' /\ out_bytes' \in Nat /\ out_bytes \in Nat
  BY QueuesAreKept, SizeAssumption DEF Queues, Bytes
<1>2. ASSUME NEW what \in COMMAND, NEW val \in VALUE, NEW size \in DATA_SIZE,
             NEW insert \in INSERT_SIZE, Submit(what, val, size, insert)
      PROVE  Locks'
  <2>1. UNCHANGED <<in_bytes, out_bytes, lockVars>>
    BY <1>2 DEF Submit, outVars
  <2>2. /\ Len(stream') >= Len(stream)
        /\ \A i \in 1 .. Len(stream) : stream'[i] = stream[i]
    BY <1>2, SubmitKeepsQueues
  <2>3. Len(stream) \in Nat /\ Len(stream') \in Nat
    BY <1>1 DEF Queues, Shape
  <2>4. ReceiveLockCountsMissingBytes => ReceiveLockCountsMissingBytes'
    BY <2>1, <2>2, <2>3 DEF ReceiveLockCountsMissingBytes, lockVars
  <2>5. QED
    BY <2>1, <2>4 DEF Locks, SendLockCountsBytesToSend, lockVars
<1>3. CASE UNCHANGED <<stream, in_bytes, out_bytes, lockVars>>
  BY <1>3 DEF Locks, SendLockCountsBytesToSend, ReceiveLockCountsMissingBytes, lockVars
<1>4. CASE \/ ClientWrite \/ ClientRead \/ NotChecking \/ NoTick \/ TickCommand
           \/ (\E i \in Slots : TimePasses(i)) \/ UNCHANGED vars
  <2>1. UNCHANGED <<stream, in_bytes, out_bytes, lockVars>>
    BY <1>4 DEF ClientWrite, ClientRead, NotChecking, NoTick, TickCommand, TimePasses,
                vars, inVars, outVars
  <2>2. QED
    BY <2>1, <1>3
<1>5. CASE ReadByte
  <2>1. CASE up > 0
    <3>1. /\ in_bytes' = in_bytes + 1 /\ in_bytes \in Nat
          /\ UNCHANGED <<stream, out_bytes, binary_data_send_mode>>
          /\ binary_data_receive_mode' =
               IF binary_data_receive_mode > 0
                 THEN binary_data_receive_mode - 1 ELSE binary_data_receive_mode
      <4>1. in_bytes \in Nat
        <5>1. stream \in Seq(StreamPacket)
          BY DEF Queues, Shape
        <5>2. Total(stream) \in Nat
          BY <5>1, TotalOfStream
        <5>3. QED
          BY <5>2 DEF Queues, Bytes
      <4>2. QED
        BY <1>5, <2>1, <4>1 DEF ReadByte, outVars
    <3>2. ASSUME DataAsWanted
          PROVE  binary_data_receive_mode' \in Nat /\ ReceiveLockCountsMissingBytes'
      <4>1. binary_data_receive_mode \in Nat /\ ReceiveLockCountsMissingBytes
        BY <3>2 DEF Locks
      <4>2. CASE binary_data_receive_mode = 0
        BY <3>1, <4>1, <4>2 DEF ReceiveLockCountsMissingBytes
      <4>3. CASE binary_data_receive_mode # 0
        <5> DEFINE y == stream[1].size
                   z == stream[2].size
        <5>1. /\ Len(stream) >= 2
              /\ stream[1].what \in {"salloc", "ialloc"} /\ stream[2].what = "data"
              /\ binary_data_receive_mode = y + z - in_bytes
          BY <4>1, <4>3 DEF ReceiveLockCountsMissingBytes
        <5>2. y \in Nat /\ z \in Nat
          <6>1. stream \in Seq(StreamPacket)
            BY DEF Queues, Shape
          <6>2. 1 \in 1 .. Len(stream) /\ 2 \in 1 .. Len(stream)
            BY <5>1, <6>1
          <6>3. stream[1] \in StreamPacket /\ stream[2] \in StreamPacket
            BY <6>1, <6>2
          <6>4. QED
            BY <6>3 DEF StreamPacket
        <5> HIDE DEF y, z
        <5>3. binary_data_receive_mode' = y + z - in_bytes'
          BY <3>1, <4>1, <4>3, <5>1, <5>2
        <5>4. binary_data_receive_mode' \in Nat
          BY <3>1, <4>1, <4>3
        <5>5. QED
          BY <3>1, <5>1, <5>3, <5>4 DEF ReceiveLockCountsMissingBytes, y, z
      <4>4. QED
        BY <4>2, <4>3
    <3>3. QED
      BY <3>1, <3>2 DEF Locks, SendLockCountsBytesToSend
  <2>2. CASE ~(up > 0)
    <3>1. UNCHANGED <<stream, in_bytes, out_bytes, lockVars>>
      BY <1>5, <2>2 DEF ReadByte, outVars, lockVars
    <3>2. QED
      BY <3>1, <1>3
  <2>3. QED
    BY <2>1, <2>2
<1>6. CASE SendByte
  <2>1. CASE ToSend > 0 /\ down < FIFO_DEPTH
    <3>1. out_bytes > 0
      BY <1>1, <2>1, SizeAssumption DEF ToSend
    <3>2. /\ out_bytes' = out_bytes - 1
          /\ UNCHANGED <<stream, in_bytes, binary_data_receive_mode>>
          /\ binary_data_send_mode' =
               IF binary_data_send_mode > 0
                 THEN binary_data_send_mode - 1 ELSE binary_data_send_mode
      BY <1>6, <2>1 DEF SendByte, inVars
    <3>3. binary_data_send_mode' \in Nat /\ (WaitsForPage => SendLockCountsBytesToSend')
      BY <1>1, <3>1, <3>2 DEF Locks, SendLockCountsBytesToSend
    <3>4. QED
      BY <3>2, <3>3 DEF Locks, ReceiveLockCountsMissingBytes
  <2>2. CASE ~(ToSend > 0 /\ down < FIFO_DEPTH)
    <3>1. UNCHANGED <<stream, in_bytes, out_bytes, lockVars>>
      BY <1>6, <2>2 DEF SendByte, inVars, lockVars
    <3>2. QED
      BY <3>1, <1>3
  <2>3. QED
    BY <2>1, <2>2
<1>7. CASE \/ NoPacket \/ UnexpectedData \/ Postpone \/ BadCommand \/ Ping \/ Shutdown
           \/ GetFile \/ Reset \/ RetrieveRefused \/ RetrieveNoSpace
           \/ StoreTooShort \/ Store
  <2>1. CheckingPackets
    BY <1>7 DEF NoPacket, UnexpectedData, Postpone, BadCommand, Ping, Shutdown, GetFile,
                Reset, RetrieveRefused, RetrieveNoSpace, StoreTooShort, Store, MayStore,
                MayRun, Complete
  <2>2. UNCHANGED lockVars
    BY <1>7 DEF NoPacket, UnexpectedData, Postpone, BadCommand, Ping, Shutdown, GetFile,
                Reset, RetrieveRefused, RetrieveNoSpace, StoreTooShort, Store
  <2>3. QED
    BY <2>1, <2>2, <1>1, CheckingFacts, LocksStayOpen
<1>8. CASE Retrieve
  BY <1>8, RetrieveKeepsLocks
<1>9. CASE StoreWaits
  BY <1>9, StoreWaitsKeepsLocks
<1>10. QED
  BY <1>2, <1>4, <1>5, <1>6, <1>7, <1>8, <1>9 DEF Next, Loop, CheckPacket

(* The table keeps only commands that have a next stage.                    *)
LEMMA TableIsKept ==
  ASSUME command_states \in [Slots -> CommandState],
         \/ command_states' = command_states
         \/ \E what \in {"shutdown", "getfile"} : KeepForLater(what)
         \/ command_states' = [i \in Slots |-> Free]
         \/ \E i \in Slots : TimePasses(i)
         \/ TickCommand
  PROVE  command_states' \in [Slots -> CommandState]
<1> DEFINE C == [command_id : {"shutdown", "getfile"}, next_exec : {"later", "again", "due"}]
<1>1. CASE \E what \in {"shutdown", "getfile"} : KeepForLater(what)
  <2>1. PICK what \in {"shutdown", "getfile"} : KeepForLater(what)
    BY <1>1
  <2> DEFINE state == [command_id |-> what, next_exec |-> "later"]
  <2>2. state \in CommandState
    BY DEF CommandState
  <2> HIDE DEF state
  <2>3. \A i \in Slots : command_states[i] \in CommandState
    OBVIOUS
  <2>4. QED
    BY <2>1, <2>2, <2>3 DEF KeepForLater, state
<1>2. CASE command_states' = [i \in Slots |-> Free]
  BY <1>2 DEF CommandState
<1>3. CASE \E i \in Slots : TimePasses(i)
  <2>1. PICK i \in Slots : TimePasses(i)
    BY <1>3
  <2>2. /\ command_states[i].next_exec # "never"
        /\ command_states[i] \in CommandState
    BY <2>1 DEF TimePasses
  <2>3. command_states[i] \in C
    BY <2>2 DEF CommandState, Free
  <2>4. [command_states[i] EXCEPT !.next_exec = "due"] \in C
    BY <2>3
  <2>5. command_states' = [command_states EXCEPT ![i] = [command_states[i] EXCEPT !.next_exec = "due"]]
    BY <2>1 DEF TimePasses
  <2>6. [command_states[i] EXCEPT !.next_exec = "due"] \in CommandState
    BY <2>4 DEF CommandState
  <2>7. QED
    BY <2>5, <2>6
<1>4. CASE TickCommand
  <2> DEFINE due == {i \in Slots : command_states[i].next_exec = "due"}
             first == {i \in due : \A j \in due : i <= j}
  <2>1. command_states' = [i \in Slots |-> IF i \in first THEN Ticked(command_states[i])
                                                         ELSE command_states[i]]
    BY <1>4 DEF TickCommand
  <2>2. ASSUME NEW i \in Slots, i \in first
        PROVE  Ticked(command_states[i]) \in CommandState
    <3>1. command_states[i] \in CommandState /\ command_states[i].next_exec = "due"
      BY <2>2
    <3>2. command_states[i] \in C
      BY <3>1 DEF CommandState, Free
    <3>3. [command_states[i] EXCEPT !.next_exec = "again"] \in C
      BY <3>2
    <3>4. QED
      BY <3>3 DEF Ticked, CommandState
  <2> HIDE DEF first
  <2>3. \A i \in Slots : command_states[i] \in CommandState
    OBVIOUS
  <2>4. QED
    BY <2>1, <2>2, <2>3
<1>5. QED
  BY <1>1, <1>2, <1>3, <1>4

(* Every step keeps the types of the state of the server. *)
LEMMA ServerStateIsKept ==
  ASSUME Queues, ServerState, [Next]_vars
  PROVE  ServerState'
<1>1. command_states \in [Slots -> CommandState]
  BY DEF ServerState
<1>2. CASE UNCHANGED <<stateVars, packet_check_counter, tick_check_counter, requests>>
           /\ pc' \in {"read", "send", "check", "tick"}
  BY <1>2 DEF ServerState, stateVars
<1>3. ASSUME NEW what \in COMMAND, NEW val \in VALUE, NEW size \in DATA_SIZE,
             NEW insert \in INSERT_SIZE, Submit(what, val, size, insert)
      PROVE  ServerState'
  <2>1. UNCHANGED <<stateVars, loopVars>> /\ requests' = requests + 1 /\ requests < MaxRequests
    BY <1>3 DEF Submit
  <2>2. QED
    BY <2>1, SizeAssumption DEF ServerState, stateVars, loopVars
<1>4. CASE ClientWrite \/ ClientRead \/ ReadByte \/ SendByte \/ UNCHANGED vars
  <2>1. /\ UNCHANGED <<stateVars, packet_check_counter, tick_check_counter, requests>>
        /\ pc' \in {"read", "send", "check", "tick"}
    BY <1>4 DEF ClientWrite, ClientRead, ReadByte, SendByte, vars, clientVars, loopVars,
                ServerState
  <2>2. QED
    BY <2>1, <1>2
<1>5. CASE NotChecking \/ NoTick
  <2>1. UNCHANGED <<stateVars, requests>>
    BY <1>5 DEF NotChecking, NoTick, clientVars
  <2>2. /\ pc' \in {"read", "tick"}
        /\ packet_check_counter' \in 0 .. MAX_COMMAND_WAIT
        /\ tick_check_counter' \in 0 .. MAX_TICK_WAIT
    BY <1>5, SizeAssumption DEF NotChecking, NoTick, ServerState
  <2>3. QED
    BY <2>1, <2>2 DEF ServerState, stateVars
<1>6. CASE (\E i \in Slots : TimePasses(i)) \/ TickCommand
  <2>1. command_states' \in [Slots -> CommandState]
    BY <1>1, <1>6, TableIsKept
  <2>2. CASE \E i \in Slots : TimePasses(i)
    BY <2>1, <2>2 DEF ServerState, TimePasses, loopVars, clientVars
  <2>3. CASE TickCommand
    <3>1. /\ page' = page /\ requests' = requests /\ pc' = "read"
          /\ packet_check_counter' = packet_check_counter /\ tick_check_counter' = 0
          /\ halting' \in BOOLEAN
      BY <2>3 DEF TickCommand, clientVars
    <3>2. QED
      BY <2>1, <3>1, SizeAssumption DEF ServerState
  <2>4. QED
    BY <1>6, <2>2, <2>3
<1>7. ASSUME CheckingPackets, command_states' \in [Slots -> CommandState],
             page' \in VALUE \cup {NoPage}, halting' = halting
      PROVE  ServerState'
  BY <1>7, CheckingFacts DEF ServerState
<1>8. CASE \/ NoPacket \/ UnexpectedData \/ Postpone \/ BadCommand \/ Ping
           \/ RetrieveRefused \/ RetrieveNoSpace \/ Retrieve \/ StoreWaits \/ StoreTooShort
  <2>1. CheckingPackets /\ UNCHANGED stateVars
    BY <1>8 DEF NoPacket, UnexpectedData, Postpone, BadCommand, Ping, RetrieveRefused,
                RetrieveNoSpace, Retrieve, StoreWaits, StoreTooShort, MayStore, MayRun, Complete
  <2>2. QED
    BY <2>1, <1>7 DEF stateVars, ServerState
<1>9. CASE Shutdown \/ GetFile
  <2>1. /\ CheckingPackets /\ UNCHANGED <<page, halting>>
        /\ \E what \in {"shutdown", "getfile"} : KeepForLater(what)
    BY <1>9 DEF Shutdown, GetFile, MayRun, Complete
  <2>2. command_states' \in [Slots -> CommandState]
    BY <1>1, <2>1, TableIsKept
  <2>3. QED
    BY <2>1, <2>2, <1>7 DEF ServerState
<1>10. CASE Reset
  <2>1. /\ CheckingPackets /\ page' = NoPage /\ halting' = halting
        /\ command_states' = [i \in Slots |-> Free]
    BY <1>10 DEF Reset, MayRun, Complete
  <2>2. command_states' \in [Slots -> CommandState]
    BY <1>1, <2>1, TableIsKept
  <2>3. QED
    BY <2>1, <2>2, <1>7
<1>11. CASE Store
  <2>1. /\ MayStore /\ page' = Head(AfterCommand).val
        /\ UNCHANGED <<command_states, halting>>
    BY <1>11 DEF Store
  <2>2. CheckingPackets /\ Head(AfterCommand).val \in VALUE
    BY <2>1, StoreFacts DEF Paired
  <2>3. QED
    BY <1>1, <2>1, <2>2, <1>7
<1>12. QED
  BY <1>3, <1>4, <1>5, <1>6, <1>8, <1>9, <1>10, <1>11 DEF Next, Loop, CheckPacket

-----------------------------------------------------------------------------
(* The theorems. *)

(* Nothing weighs nothing. *)
LEMMA NothingUnderWay ==
  /\ << >> \in Seq(StreamPacket) /\ << >> \in Seq(AnswerPacket)
  /\ Total(<< >>) = 0
  /\ Weight(<< >>, AwaitedBy) = 0 /\ Weight(<< >>, LastOf) = 0
<1>1. << >> \in Seq(StreamPacket) /\ << >> \in Seq(AnswerPacket)
  OBVIOUS
<1>2. QED
  BY <1>1, TotalOfStream, WeightOfEmpty

(* The invariant holds to begin with. *)
LEMMA InitHolds == Init => IInv
<1> SUFFICES ASSUME Init
             PROVE  IInv
  OBVIOUS
<1>1. Queues
  <2>1. Unwritten = 0 /\ Got = 0
    BY NothingUnderWay DEF Init, Unwritten, Got
  <2>2. Bytes
    BY <2>1, NothingUnderWay, SizeAssumption DEF Init, Bytes
  <2>3. Shape(stream)
    BY NothingUnderWay DEF Init, Shape, RestFirst, StoresPaired, DataWhole, ResetLast,
                           RallocLast
  <2>4. OutShape
    BY NothingUnderWay DEF Init, OutShape
  <2>5. Counted /\ ResetAlone
    BY NothingUnderWay DEF Init, Counted, ResetAlone, ResetPending
  <2>6. QED
    BY <2>2, <2>3, <2>4, <2>5 DEF Queues
<1>2. Locks
  BY DEF Init, Locks, SendLockCountsBytesToSend, ReceiveLockCountsMissingBytes
<1>3. ServerState
  <2>1. [i \in Slots |-> Free] \in [Slots -> CommandState]
    BY DEF CommandState
  <2>2. command_states \in [Slots -> CommandState] /\ page \in VALUE \cup {NoPage}
    BY <2>1 DEF Init
  <2>3. halting \in BOOLEAN /\ pc \in {"read", "send", "check", "tick"}
    BY Zenon DEF Init
  <2>4. packet_check_counter = 0 /\ tick_check_counter = 0 /\ requests = 0
    BY DEF Init
  <2>5. QED
    BY <2>2, <2>3, <2>4, SizeAssumption DEF ServerState
<1>4. QED
  BY <1>1, <1>2, <1>3 DEF IInv

(* Every step keeps the invariant. *)
LEMMA StepKeepsInvariant == IInv /\ [Next]_vars => IInv'
BY QueuesAreKept, LocksAreKept, ServerStateIsKept DEF IInv

(* The invariant holds in every behaviour. *)
LEMMA Invariance == Spec => []IInv
BY InitHolds, StepKeepsInvariant, PTL DEF Spec

(* Whatever the client sends and however the bytes come, the queues hold no *)
(* more bytes than there are, the client never has more open than its       *)
(* window, and the server's counters and table stay in their ranges.        *)
THEOREM TypeCorrect == Spec => []TypeOK
BY Invariance, InvariantHasTypes, PTL

(* set_binary_data_send_lock_mode: to a client that has its page before it  *)
(* asks for more, the lock never counts more than the loop can send; it     *)
(* ends with at least 11 bytes of the page unsent, because the answer that  *)
(* goes before the page is counted off too.                                 *)
THEOREM SendLockEnds ==
  ASSUME WaitsForPage
  PROVE  Spec => []SendLockCountsBytesToSend
<1>1. IInv => SendLockCountsBytesToSend
  BY DEF IInv, Locks
<1>2. QED
  BY <1>1, Invariance, PTL

(* set_binary_data_receive_lock_mode: from a client that sends as much      *)
(* BinaryData as it says, the lock counts exactly the bytes that are        *)
(* missing, so that it ends with the last of them.                          *)
THEOREM ReceiveLockEnds ==
  ASSUME DataAsWanted
  PROVE  Spec => []ReceiveLockCountsMissingBytes
<1>1. IInv => ReceiveLockCountsMissingBytes
  BY DEF IInv, Locks
<1>2. QED
  BY <1>1, Invariance, PTL

-----------------------------------------------------------------------------
(* The loop implements CommandService. *)

(* What the abstract service sees of the answers. *)
LEMMA BriefOfAnswers ==
  ASSUME NEW s \in Seq(AnswerPacket), NEW t \in Seq(AnswerPacket)
  PROVE  /\ Brief(s \o t) = Brief(s) \o Brief(t)
         /\ s # << >> => Brief(s) # << >> /\ Brief(Tail(s)) = Tail(Brief(s))
<1>1. Brief(s \o t) = Brief(s) \o Brief(t)
  BY DEF Brief
<1>2. ASSUME s # << >>
      PROVE  Brief(s) # << >> /\ Brief(Tail(s)) = Tail(Brief(s))
  <2> DEFINE b == Brief(s)
  <2>1. Len(s) \in Nat \ {0}
    BY <1>2
  <2>2. Brief(Tail(s)) = Tail(b)
    BY <1>2, AnswersTail DEF Brief
  <2>3. b # << >>
    BY <2>1 DEF Brief
  <2>4. QED
    BY <2>2, <2>3
<1>3. QED
  BY <1>1, <1>2

(* What the abstract service sees of one answer. *)
LEMMA BriefOfOneAnswer ==
  ASSUME NEW a \in AnswerPacket
  PROVE  Brief(<<a>>) = <<[what |-> a.what, val |-> a.val]>> /\ <<a>> \in Seq(AnswerPacket)
BY DEF Brief

(* Neither the commands to be carried out, nor the page, nor the answers    *)
(* under way change.                                                        *)
LEMMA Stutters ==
  ASSUME CommandsOf(stream') = CommandsOf(stream), page' = page, out' = out
  PROVE  UNCHANGED Service!vars
BY DEF CommandsOf, Service!vars

(* A command that is put back is one the service has not looked at. *)
LEMMA PutBackStutters ==
  ASSUME Queues, NothingRead, page' = page, out' = out
  PROVE  UNCHANGED Service!vars
<1>1. CommandsOf(stream') = CommandsOf(stream)
  BY FoundFacts DEF Queues, NothingRead
<1>2. QED
  BY <1>1, Stutters

(* The command at the head is carried out.                                  *)
LEMMA Serves ==
  ASSUME Queues, IsComplete(Found, Unread), Head(Found).what \in Commands,
         CommandsOf(stream') = CommandsOf(Tail(Found)),
         NEW c, c = [what |-> Head(Found).what, val |-> Head(Found).val],
         page' = Service!Effect(c, page),
         Brief(out') = Brief(out) \o Service!Answers(c, page)
  PROVE  Service!Serve
<1> DEFINE asked == CommandsOf(stream)
           rest == CommandsOf(Tail(Found))
<1>1. Found \in Seq(StreamPacket) /\ Found # << >> /\ Tail(Found) \in Seq(StreamPacket)
  BY CompleteFacts DEF Queues
<1>2. CommandsOf(Found) = asked
  BY FoundFacts DEF Queues
<1>3. CommandsOf(Found) = <<c>> \o rest
  <2>1. CommandsOf(Found) =
          (IF Head(Found).what \in Commands
             THEN <<[what |-> Head(Found).what, val |-> Head(Found).val]>> ELSE << >>)
            \o CommandsOf(Tail(Found))
    BY <1>1, CommandsOfTail
  <2>2. QED
    BY <2>1
<1>4. rest \in Seq(Request)
  BY <1>1, CommandsType
<1>5. asked' = rest
  OBVIOUS
<1> HIDE DEF asked, rest
<1>6. asked # << >> /\ Head(asked) = c /\ Tail(asked) = rest
  BY <1>2, <1>3, <1>4
<1>7. asked = Those(Brief(stream), Request)
  BY DEF asked, CommandsOf
<1>8. asked' = Those(Brief(stream)', Request)
  BY DEF asked, CommandsOf
<1>9. QED
  BY <1>5, <1>6, <1>7, <1>8 DEF Service!Serve

(* The answer of a handler that writes one packet.                          *)
LEMMA OneAnswerServes ==
  ASSUME Queues, NEW what \in Commands \ {"getfile"},
         IsComplete(Found, Unread), Head(Found).what = what,
         CommandsOf(stream') = CommandsOf(Tail(Found)),
         NEW payload \in Nat, out' = out \o <<Answer(what, payload, NoPage, TRUE)>>,
         what = "ralloc" => page = NoPage,
         what \in Stores => Head(Found).val # NoPage,
         page' = IF what \in Stores THEN Head(Found).val
                 ELSE IF what = "reset" THEN NoPage ELSE page
  PROVE  Service!Serve
<1> DEFINE c == [what |-> what, val |-> Head(Found).val]
           a == Answer(what, payload, NoPage, TRUE)
           s == <<a>>
<1>1. a \in AnswerPacket /\ a.what = what /\ a.val = NoPage
  BY DEF Answer, AnswerPacket, PACKET_OVERHEAD
<1>2. c.what = what /\ c.val = Head(Found).val
  OBVIOUS
<1>3. c = [what |-> Head(Found).what, val |-> Head(Found).val]
  OBVIOUS
<1> HIDE DEF a, c
<1>4. Brief(s) = <<[what |-> what, val |-> NoPage]>> /\ s \in Seq(AnswerPacket)
  BY <1>1, BriefOfOneAnswer
<1>5. out' = out \o s
  BY DEF a
<1> HIDE DEF s
<1>6. Brief(out') = Brief(out) \o Brief(s)
  BY <1>4, <1>5, BriefOfAnswers DEF Queues, OutShape
<1>7. Service!Answers(c, page) = <<[what |-> c.what, val |-> NoPage]>>
  BY <1>2 DEF Service!Answers, Stores
<1>8. page' = Service!Effect(c, page)
  BY <1>2 DEF Service!Effect, Stores
<1>9. QED
  BY <1>2, <1>3, <1>4, <1>6, <1>7, <1>8, Serves

(* BadCommand does not look whether there is space for its answer, and      *)
(* SHUTDOWN asks for 2 bytes less than it needs: the answer may get lost    *)
(* unless they are not sent, or one request at a time.                      *)
UnaskedSpace == {"bad", "shutdown"}
NoAnswerIsLost == COMMAND \cap UnaskedSpace = {} \/ (WINDOW = 1 /\ OUT_SIZE > 32)

(* With one request open, its command waiting, no answer is under way.      *)
LEMMA AloneThereIsSpace ==
  ASSUME Queues, WINDOW = 1, OUT_SIZE > 32,
         IsComplete(Found, Unread), Head(Found).what \in Commands \ {"getfile"}
  PROVE  \A n \in 0 .. 32 : SpaceAvailable(n)
<1>1. /\ Weight(stream, AwaitedBy) = AwaitedBy[Head(Found)] + Weight(Tail(Found), AwaitedBy)
      /\ AwaitedBy[Head(Found)] = 1 /\ Weight(Tail(Found), AwaitedBy) \in Nat
  BY CompleteFacts DEF Queues
<1>2. Weight(out, LastOf) \in Nat
  <2>1. out \in Seq(AnswerPacket)
    BY DEF Queues, OutShape
  <2>2. QED
    BY <2>1, WeightTypes, WeightOfMember, Zenon
<1>3. Weight(stream, AwaitedBy) + Weight(out, LastOf) <= open /\ open \in 0 .. 1
  BY DEF Queues, Counted, Bytes
<1>4. Weight(out, LastOf) < 1
  BY <1>1, <1>2, <1>3
<1>5. out = << >>
  <2>1. OutShape
    BY DEF Queues
  <2>2. QED
    BY <1>2, <1>4, <2>1, AnswersAreAwaited
<1>6. out_bytes = 0
  <2>1. Got = 0 - out_bytes - down
    BY <1>5, NothingUnderWay DEF Got
  <2>2. out_bytes \in Nat /\ down \in Nat /\ Got >= 0
    BY SizeAssumption DEF Queues, Bytes
  <2>3. QED
    BY <2>1, <2>2
<1>7. ToSend = 0
  BY <1>6, SizeAssumption DEF ToSend
<1>8. QED
  BY <1>7, SizeAssumption DEF SpaceAvailable

(* A command that writes one answer is served. *)
LEMMA WritingServes ==
  ASSUME Queues, NEW what \in {"bad", "ping", "shutdown"},
         IsComplete(Found, Unread), Head(Found).what = what, CommandRead,
         NEW payload \in 0 .. 23, SpaceAvailable(payload + PACKET_OVERHEAD),
         Write(Answer(what, payload, NoPage, TRUE)), page' = page
  PROVE  Service!Serve
<1>1. Answer(what, payload, NoPage, TRUE).size = payload + PACKET_OVERHEAD
  BY DEF Answer
<1>2. Put(<<Answer(what, payload, NoPage, TRUE)>>)
  BY <1>1 DEF Write
<1>3. out' = out \o <<Answer(what, payload, NoPage, TRUE)>>
  BY <1>2 DEF Put
<1>4. what \in Commands \ {"getfile"} /\ what \notin Stores /\ what # "ralloc" /\ what # "reset"
  BY DEF Commands, Stores
<1>5. CommandsOf(stream') = CommandsOf(Tail(Found))
  BY DEF CommandRead
<1>6. payload \in Nat
  OBVIOUS
<1>7. QED
  BY <1>3, <1>4, <1>5, <1>6, OneAnswerServes

(* An unknown command, PING and SHUTDOWN are served. *)
LEMMA WritersServe ==
  ASSUME Queues, NoAnswerIsLost, BadCommand \/ Ping \/ Shutdown
  PROVE  Service!Serve
<1>1. CASE Ping
  <2>1. /\ IsComplete(Found, Unread) /\ Head(Found).what = "ping" /\ CommandRead
        /\ SpaceAvailable(30) /\ Write(Answer("ping", 6, NoPage, TRUE)) /\ page' = page
    BY <1>1 DEF Ping, MayRun, Complete, OUT_QUEUE_SPACE, stateVars
  <2>2. SpaceAvailable(6 + PACKET_OVERHEAD)
    <3>1. out_bytes \in Nat
      BY SizeAssumption DEF Queues, Bytes
    <3>2. QED
      BY <2>1, <3>1, SizeAssumption DEF SpaceAvailable, PACKET_OVERHEAD
  <2>3. 6 \in 0 .. 23 /\ "ping" \in {"bad", "ping", "shutdown"}
    OBVIOUS
  <2>4. QED
    BY <2>1, <2>2, <2>3, WritingServes, Zenon
<1>2. ASSUME NEW what \in UnaskedSpace,
             IsComplete(Found, Unread), Head(Found).what = what
      PROVE  \A n \in 0 .. 32 : SpaceAvailable(n)
  <2>1. what \in COMMAND
    BY <1>2, CompleteFacts DEF Queues, UnaskedSpace
  <2>2. WINDOW = 1 /\ OUT_SIZE > 32
    BY <2>1 DEF NoAnswerIsLost
  <2>3. what \in Commands \ {"getfile"}
    BY DEF UnaskedSpace, Commands
  <2>4. QED
    BY <1>2, <2>2, <2>3, AloneThereIsSpace
<1>3. CASE BadCommand
  <2>1. /\ IsComplete(Found, Unread) /\ Head(Found).what = "bad" /\ CommandRead
        /\ Write(Answer("bad", 17, NoPage, TRUE)) /\ page' = page
    BY <1>3 DEF BadCommand, Complete, stateVars
  <2>2. SpaceAvailable(17 + PACKET_OVERHEAD)
    BY <1>2, <2>1 DEF PACKET_OVERHEAD, UnaskedSpace
  <2>3. 17 \in 0 .. 23 /\ "bad" \in {"bad", "ping", "shutdown"}
    OBVIOUS
  <2>4. QED
    BY <2>1, <2>2, <2>3, WritingServes, Zenon
<1>4. CASE Shutdown
  <2>1. /\ IsComplete(Found, Unread) /\ Head(Found).what = "shutdown" /\ CommandRead
        /\ Write(Answer("shutdown", 23, NoPage, TRUE)) /\ page' = page
    BY <1>4 DEF Shutdown, MayRun, Complete
  <2>2. SpaceAvailable(23 + PACKET_OVERHEAD)
    BY <1>2, <2>1 DEF PACKET_OVERHEAD, UnaskedSpace
  <2>3. 23 \in 0 .. 23 /\ "shutdown" \in {"bad", "ping", "shutdown"}
    OBVIOUS
  <2>4. QED
    BY <2>1, <2>2, <2>3, WritingServes, Zenon
<1>5. QED
  BY <1>1, <1>3, <1>4

(* Commands that get no answer.                                             *)
LEMMA SilentServes ==
  ASSUME Queues, ServerState, GetFile \/ StoreTooShort
  PROVE  Service!Serve
<1> DEFINE c == [what |-> Head(Found).what, val |-> Head(Found).val]
<1>1. /\ IsComplete(Found, Unread) /\ stream' = Tail(Found) /\ out' = out /\ page' = page
      /\ \/ Head(Found).what = "getfile"
         \/ Head(Found).what \in Stores /\ Head(Found).val = NoPage
  <2>1. CASE GetFile
    BY <2>1 DEF GetFile, MayRun, Complete, CommandRead
  <2>2. CASE StoreTooShort
    <3>1. /\ MayStore /\ stream' = Tail(Found) /\ out' = out /\ page' = page
          /\ Head(AfterCommand).size - PACKET_OVERHEAD < Head(Found).wants
      BY <2>2 DEF StoreTooShort, CommandRead, stateVars, DataPayload, Wanted
    <3>2. /\ IsComplete(Found, Unread) /\ Head(Found).what \in Stores
          /\ Paired(Head(Found), Head(AfterCommand))
          /\ Head(AfterCommand).size \in Nat /\ Head(Found).wants \in Nat
      BY <3>1, StoreFacts
    <3>3. Head(Found).val = NoPage
      BY <3>1, <3>2 DEF Paired, PACKET_OVERHEAD
    <3>4. QED
      BY <3>1, <3>2, <3>3
  <2>3. QED
    BY <2>1, <2>2
<1>2. c.what = Head(Found).what /\ c.val = Head(Found).val
  OBVIOUS
<1>3. Head(Found).what \in Commands
  BY <1>1 DEF Stores, Commands
<1>4. c = [what |-> Head(Found).what, val |-> Head(Found).val]
  OBVIOUS
<1> HIDE DEF c
<1>5. Service!Answers(c, page) = << >>
  BY <1>1, <1>2 DEF Service!Answers, Stores
<1>6. Service!Effect(c, page) = page
  BY <1>1, <1>2 DEF Service!Effect, Stores
<1>7. Brief(out) \o << >> = Brief(out)
  <2>1. << >> \in Seq(AnswerPacket) /\ out \in Seq(AnswerPacket) /\ out \o << >> = out
    BY DEF Queues, OutShape
  <2>2. Brief(out \o << >>) = Brief(out) \o Brief(<< >>) /\ Brief(<< >>) = << >>
    BY <2>1, BriefOfAnswers DEF Brief
  <2>3. QED
    BY <2>1, <2>2
<1>8. CommandsOf(stream') = CommandsOf(Tail(Found)) /\ Brief(out') = Brief(out)
  BY <1>1
<1>9. QED
  BY <1>1, <1>3, <1>4, <1>5, <1>6, <1>7, <1>8, Serves

(* RALLOC of a page that is there is served with the page. *)
LEMMA RetrieveServes ==
  ASSUME Queues, ServerState, Retrieve
  PROVE  Service!Serve
<1> DEFINE c == [what |-> Head(Found).what, val |-> Head(Found).val]
           a == Answer("ralloc", 5, NoPage, FALSE)
           b == Answer("page", PAGE_SIZE, page, TRUE)
<1>1. /\ IsComplete(Found, Unread) /\ Head(Found).what = "ralloc" /\ CommandRead
      /\ page # NoPage /\ page' = page /\ Put(<<a, b>>)
  BY DEF Retrieve, MayRun, Complete, stateVars, PageAnswer
<1>2. stream' = Tail(Found) /\ out' = out \o <<a, b>>
  BY <1>1 DEF CommandRead, Put
<1>3. a \in AnswerPacket /\ a.what = "ralloc" /\ a.val = NoPage
  BY DEF Answer, AnswerPacket, Commands, PACKET_OVERHEAD
<1>4. b \in AnswerPacket /\ b.what = "page" /\ b.val = page
  BY SizeAssumption DEF Answer, AnswerPacket, PACKET_OVERHEAD, ServerState
<1>5. c.what = "ralloc"
  BY <1>1
<1>6. c = [what |-> Head(Found).what, val |-> Head(Found).val]
  OBVIOUS
<1> HIDE DEF a, b, c
<1> DEFINE s == <<a, b>>
<1>7. /\ s \in Seq(AnswerPacket)
      /\ Brief(s) = <<[what |-> "ralloc", val |-> NoPage], [what |-> "page", val |-> page]>>
  BY <1>3, <1>4 DEF Brief
<1> HIDE DEF s
<1>8. Brief(out') = Brief(out) \o Brief(s)
  <2>1. out \in Seq(AnswerPacket) /\ out' = out \o s
    BY <1>2 DEF Queues, OutShape, s
  <2>2. QED
    BY <1>7, <2>1, BriefOfAnswers
<1>9. Service!Answers(c, page) = Brief(s)
  BY <1>1, <1>5, <1>7 DEF Service!Answers
<1>10. page' = Service!Effect(c, page)
  BY <1>1, <1>5 DEF Service!Effect
<1>11. Head(Found).what \in Commands
  BY <1>1 DEF Commands
<1>12. CommandsOf(stream') = CommandsOf(Tail(Found))
  BY <1>2
<1>13. QED
  BY <1>1, <1>6, <1>8, <1>9, <1>10, <1>11, <1>12, Serves

(* SALLOC and IALLOC are served with the data that follows them. *)
LEMMA StoreServes ==
  ASSUME Queues, ServerState, Store
  PROVE  Service!Serve
<1> DEFINE what == Head(Found).what
           payload == IF what = "ialloc" THEN 3 ELSE 5
<1>1. /\ IsComplete(Found, Unread) /\ what \in Stores /\ Head(Found).wants \in Nat
      /\ Paired(Head(Found), Head(AfterCommand)) /\ Head(AfterCommand).size \in Nat
  BY StoreFacts DEF Store
<1>2. page' = Head(AfterCommand).val /\ Head(AfterCommand).size - 9 >= Head(Found).wants
  BY DEF Store, DataPayload, Wanted, PACKET_OVERHEAD
<1>3. page' = Head(Found).val /\ Head(Found).val # NoPage
  BY <1>1, <1>2, ValueAssumption DEF Paired, PACKET_OVERHEAD
<1>4. out' = out \o <<Answer(what, payload, NoPage, TRUE)>>
  BY StoreKeepsQueues
<1>5. CommandsOf(stream') = CommandsOf(Tail(Found))
  BY StoreReads DEF AfterCommand
<1>6. what \in Commands \ {"getfile"} /\ what # "ralloc" /\ payload \in Nat
  BY <1>1 DEF Stores, Commands
<1> HIDE DEF payload
<1>7. QED
  BY <1>1, <1>3, <1>4, <1>5, <1>6, OneAnswerServes

(* RESET is served: nothing else is under way then. *)
LEMMA ResetServes ==
  ASSUME Queues, ServerState, Reset
  PROVE  Service!Serve
<1>1. /\ IsComplete(Found, Unread) /\ Head(Found).what = "reset"
      /\ stream' = << >> /\ page' = NoPage /\ out' = <<Answer("reset", 3, NoPage, TRUE)>>
  BY DEF Reset, MayRun, Complete
<1>2. out = << >> /\ Tail(Found) = << >>
  BY ResetKeepsQueues
<1>3. out' = out \o <<Answer("reset", 3, NoPage, TRUE)>>
  BY <1>1, <1>2
<1>4. CommandsOf(stream') = CommandsOf(Tail(Found))
  BY <1>1, <1>2
<1>5. "reset" \in Commands \ {"getfile"} /\ "reset" \notin Stores /\ 3 \in Nat
  BY DEF Commands, Stores
<1>6. QED
  BY <1>1, <1>3, <1>4, <1>5, OneAnswerServes

(* RALLOC of a page that is not there is served with an error. *)
LEMMA RetrieveRefusedServes ==
  ASSUME Queues, ServerState, RetrieveRefused
  PROVE  Service!Serve
<1>1. /\ IsComplete(Found, Unread) /\ Head(Found).what = "ralloc" /\ page = NoPage
      /\ page' = page /\ stream' = Tail(Found)
      /\ out' = out \o <<Answer("ralloc", 5, NoPage, TRUE)>>
  BY DEF RetrieveRefused, MayRun, Complete, CommandRead, Put, stateVars
<1>2. "ralloc" \in Commands \ {"getfile"} /\ "ralloc" \notin Stores /\ 5 \in Nat
  BY DEF Commands, Stores
<1>3. CommandsOf(stream') = CommandsOf(Tail(Found))
  BY <1>1
<1>4. QED
  BY <1>1, <1>2, <1>3, OneAnswerServes

(* To begin a request is to ask the service. *)
LEMMA SubmitAsks ==
  ASSUME Queues, NEW what \in COMMAND, NEW val \in VALUE, NEW size \in DATA_SIZE,
         NEW insert \in INSERT_SIZE, Submit(what, val, size, insert)
  PROVE  Service!Ask
<1>1. PICK v \in VALUE \cup {NoPage} :
        CommandsOf(stream') = Append(CommandsOf(stream), [what |-> what, val |-> v])
  BY SubmitKeepsQueues
<1>2. page' = page /\ out' = out
  BY DEF Submit, outVars, stateVars
<1>3. what \in {"ping", "bad", "shutdown", "reset", "ralloc", "salloc", "ialloc", "getfile"}
  BY CommandAssumption DEF Commands
<1>4. Brief(out)' = Brief(out)
  BY <1>2
<1>5. Those(Brief(stream)', Request)
        = Append(Those(Brief(stream), Request), [what |-> what, val |-> v])
  BY <1>1 DEF CommandsOf
<1>6. QED
  BY <1>2, <1>3, <1>4, <1>5 DEF Service!Ask

(* The last byte of an answer is its receipt, the others are nothing to the *)
(* service.                                                                 *)
LEMMA ClientReadReceives ==
  ASSUME Queues, ClientRead
  PROVE  Service!Receive \/ UNCHANGED Service!vars
<1>1. out \in Seq(AnswerPacket) /\ out # << >> /\ (out' # out => out' = Tail(out))
  BY ClientReadKeepsQueues DEF Queues, OutShape
<1>2. stream' = stream /\ page' = page
  BY DEF ClientRead, inVars, stateVars
<1>3. Brief(out) # << >> /\ Brief(Tail(out)) = Tail(Brief(out))
  BY <1>1, BriefOfAnswers
<1>4. CASE out' = out
  BY <1>2, <1>4, Stutters
<1>5. CASE out' = Tail(out)
  <2>1. Brief(out)' = Tail(Brief(out)) /\ Those(Brief(stream)', Request) = Those(Brief(stream), Request)
    BY <1>2, <1>3, <1>5
  <2>2. QED
    BY <1>2, <1>3, <2>1 DEF Service!Receive
<1>6. QED
  BY <1>1, <1>4, <1>5

(* Every step is one of the service, or nothing to it. *)
LEMMA StepIsServed ==
  ASSUME NoAnswerIsLost, IInv, [Next]_vars
  PROVE  [Service!Next]_Service!vars
<1>1. Queues /\ ServerState
  BY DEF IInv
<1>2. ASSUME NEW what \in COMMAND, NEW val \in VALUE, NEW size \in DATA_SIZE,
             NEW insert \in INSERT_SIZE, Submit(what, val, size, insert)
      PROVE  Service!Next
  BY <1>1, <1>2, SubmitAsks DEF Service!Next
<1>3. CASE ClientRead
  BY <1>1, <1>3, ClientReadReceives DEF Service!Next
<1>4. CASE UNCHANGED <<stream, page, out>>
  BY <1>4, Stutters
<1>5. CASE \/ ClientWrite \/ ReadByte \/ SendByte \/ NotChecking \/ NoTick \/ TickCommand
           \/ (\E i \in Slots : TimePasses(i)) \/ UNCHANGED vars
  <2>1. UNCHANGED <<stream, page, out>>
    BY <1>5 DEF ClientWrite, ReadByte, SendByte, NotChecking, NoTick, TickCommand, TimePasses,
                vars, inVars, outVars, stateVars
  <2>2. QED
    BY <2>1, <1>4
<1>6. CASE NoPacket \/ UnexpectedData \/ Postpone \/ RetrieveNoSpace \/ StoreWaits
  <2>1. NothingRead /\ page' = page /\ out' = out
    BY <1>6 DEF NoPacket, UnexpectedData, Postpone, RetrieveNoSpace, StoreWaits, stateVars
  <2>2. QED
    BY <1>1, <2>1, PutBackStutters
<1>7. CASE BadCommand \/ Ping \/ Shutdown
  BY <1>1, <1>7, WritersServe DEF Service!Next
<1>8. CASE GetFile \/ StoreTooShort
  BY <1>1, <1>8, SilentServes DEF Service!Next
<1>9. CASE Reset \/ RetrieveRefused \/ Retrieve \/ Store
  BY <1>1, <1>9, ResetServes, RetrieveRefusedServes, RetrieveServes, StoreServes
  DEF Service!Next
<1>10. QED
  BY <1>2, <1>3, <1>5, <1>6, <1>7, <1>8, <1>9 DEF Next, Loop, CheckPacket

(* The first states are those of the service. *)
LEMMA InitIsServed == Init => Service!Init
<1> SUFFICES ASSUME Init
             PROVE  Service!Init
  OBVIOUS
<1>1. stream = << >> /\ out = << >> /\ page \in VALUE
  BY DEF Init
<1>2. Brief(<< >>) = << >>
  BY DEF Brief
<1>3. Those(<< >>, Request) = << >>
  BY ThoseOfEmpty
<1>4. QED
  BY <1>1, <1>2, <1>3 DEF Service!Init

(* The loop with its queues, its locks and its handlers implements the      *)
(* service its client relies on: each command is carried out once, in the   *)
(* order sent, and each gives its answers in that order, whichever way the  *)
(* bytes and the commands that are put back interleave.                     *)
THEOREM LoopIsService ==
  ASSUME NoAnswerIsLost
  PROVE  Spec => RefinesCommandService
<1>1. Init => Service!Init
  BY InitIsServed
<1>2. IInv /\ [Next]_vars => [Service!Next]_Service!vars
  BY StepIsServed
<1>3. QED
  BY <1>1, <1>2, Invariance, PTL DEF Spec, RefinesCommandService, Service!Spec

=============================================================================
