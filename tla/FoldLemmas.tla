----------------------------- MODULE FoldLemmas -----------------------------
(***************************************************************************)
(* Facts about folding a sequence from the left.  The provers cannot use a *)
(* lemma about every operator, so a module that folds takes these by       *)
(* instantiating Step with its own step, which may depend on a context     *)
(* besides the accumulator and the element, and Holds with what it wants   *)
(* to know of the accumulator.  They rest on the least element of a set of *)
(* natural numbers, which stands in for induction.                         *)
(***************************************************************************)
EXTENDS Integers, Sequences, SequencesExt, SequenceTheorems, WellFoundedInduction, TLAPS

CONSTANTS Step(_, _, _), Holds(_, _)

Folded(context, base, seq) ==
    FoldLeft(LAMBDA acc, x : Step(context, acc, x), base, seq)

-----------------------------------------------------------------------------

LEMMA Least ==
    ASSUME NEW T \in SUBSET Nat, T # {}
    PROVE  \E m \in T : \A n \in T : m <= n
<1>1. T \subseteq Nat
  OBVIOUS
<1>2. PICK m \in T : \A n \in T : ~(<<n, m>> \in OpToRel(<, Nat))
  BY <1>1, NatLessThanWellFounded, WFMin
<1>3. ASSUME NEW n \in T PROVE m <= n
  <2>1. m \in Nat /\ n \in Nat
    BY <1>1
  <2>2. ~(n < m)
    BY <1>2, <2>1 DEF OpToRel
  <2> QED BY <2>1, <2>2
<1> QED BY <1>3

(* What holds at the foot and from each rung to the next holds at the top. *)
LEMMA Climb ==
    ASSUME NEW n \in Nat, NEW T, 0 \in T, \A k \in 1..n : k - 1 \in T => k \in T
    PROVE  n \in T
<1> DEFINE Bad == {k \in 0..n : k \notin T}
<1>1. ASSUME Bad # {} PROVE FALSE
  <2>1. Bad \in SUBSET Nat
    OBVIOUS
  <2>2. PICK m \in Bad : \A k \in Bad : m <= k
    BY ONLY <1>1, <2>1, Least
  <2>3. m \in 1..n /\ m \notin T
    OBVIOUS
  <2>4. m - 1 \in 0..n /\ m - 1 \notin Bad
    BY <2>2, <2>3
  <2> QED BY <2>3, <2>4
<1>2. n \in 0..n
  OBVIOUS
<1> QED BY <1>1, <1>2

LEMMA MaxOfRange ==
    ASSUME NEW k \in Nat, NEW T \in SUBSET (1..k), k \in T
    PROVE  Max(T) = k
<1>1. \A y \in T : k >= y
  OBVIOUS
<1>2. \A x \in T : (\A y \in T : x >= y) => x = k
  OBVIOUS
<1> QED BY <1>1, <1>2 DEF Max

(* The function by which the library defines the fold, for n elements.     *)
Iterates(g, c, base, s, n) ==
    g = [T \in SUBSET (1..n) |->
            IF T = {} THEN base ELSE Step(c, g[T \ {Max(T)}], s[Max(T)])]

LEMMA Unfolded ==
    ASSUME NEW c, NEW base, NEW s, NEW n \in Nat, DOMAIN s = 1..n
    PROVE  Folded(c, base, s) = (CHOOSE g : Iterates(g, c, base, s, n))[1..n]
<1>1. Folded(c, base, s) =
        (CHOOSE g : g = [T \in SUBSET (DOMAIN s) |->
            IF T = {} THEN base ELSE Step(c, g[T \ {Max(T)}], s[Max(T)])])[DOMAIN s]
  BY DEF Folded, FoldLeft, MapThenFoldSet
<1> QED BY <1>1 DEF Iterates

LEMMA FoldExists ==
    ASSUME NEW c, NEW base, NEW s, NEW n \in Nat
    PROVE  \E g : Iterates(g, c, base, s, n)
<1> DEFINE Exists(m) == \E g : Iterates(g, c, base, s, m)
           Bad == {m \in 0..n : ~Exists(m)}
<1>1. ASSUME Bad # {} PROVE FALSE
  <2>1. Bad \in SUBSET Nat /\ \A k \in 0..n : k \notin Bad => Exists(k)
    OBVIOUS
  <2>2. PICK m \in Bad : \A k \in Bad : m <= k
    BY ONLY <1>1, <2>1, Least
  <2>3. Exists(0)
    <3>1. SUBSET (1..0) = {{}}
      OBVIOUS
    <3>2. PICK g : g = [T \in SUBSET (1..0) |-> base]
      OBVIOUS
    <3>3. Iterates(g, c, base, s, 0)
      BY <3>1, <3>2 DEF Iterates
    <3> QED BY <3>3
  <2>4. m \in 0..n /\ ~Exists(m)
    OBVIOUS
  <2> HIDE DEF Exists, Bad
  <2>5. m \in 1..n /\ m - 1 \in 0..n
    BY <2>3, <2>4
  <2>6. Exists(m - 1)
    BY <2>1, <2>2, <2>5
  <2>7. PICK f : Iterates(f, c, base, s, m - 1)
    BY <2>6 DEF Exists
  <2>8. PICK g : g = [T \in SUBSET (1..m) |->
                         IF m \in T THEN Step(c, f[T \ {m}], s[m]) ELSE f[T]]
    OBVIOUS
  <2>9. ASSUME NEW T \in SUBSET (1..m)
        PROVE  g[T] = IF T = {} THEN base ELSE Step(c, g[T \ {Max(T)}], s[Max(T)])
    <3>1. CASE m \in T
      <4>1. Max(T) = m
        BY <2>5, <3>1, MaxOfRange
      <4>2. T \ {m} \in SUBSET (1..m) /\ m \notin T \ {m}
        OBVIOUS
      <4>3. g[T \ {m}] = f[T \ {m}]
        BY <2>8, <4>2
      <4>4. g[T] = Step(c, f[T \ {m}], s[m])
        BY <2>8, <3>1
      <4> QED BY <3>1, <4>1, <4>3, <4>4
    <3>2. CASE m \notin T
      <4>1. T \in SUBSET (1..(m - 1)) /\ g[T] = f[T]
        BY <2>5, <2>8, <3>2
      <4>2. f[T] = IF T = {} THEN base ELSE Step(c, f[T \ {Max(T)}], s[Max(T)])
        BY <2>7, <4>1 DEF Iterates
      <4>3. T \ {Max(T)} \in SUBSET (1..m) /\ m \notin T \ {Max(T)}
        BY <3>2
      <4>4. g[T \ {Max(T)}] = f[T \ {Max(T)}]
        BY <2>8, <4>3
      <4> QED BY <4>1, <4>2, <4>4
    <3> QED BY <3>1, <3>2
  <2>10. g = [T \in SUBSET (1..m) |-> g[T]]
    BY <2>8
  <2>11. Iterates(g, c, base, s, m)
    BY <2>9, <2>10 DEF Iterates
  <2> QED BY <2>4, <2>11 DEF Exists
<1>2. n \in 0..n
  OBVIOUS
<1> QED BY <1>1, <1>2

(* A fold is reached step by step.                                         *)
LEMMA FoldSteps ==
    ASSUME NEW c, NEW base, NEW S, NEW s \in Seq(S)
    PROVE  \E f : /\ f[0] = base /\ f[Len(s)] = Folded(c, base, s)
                  /\ \A k \in 1..Len(s) : f[k] = Step(c, f[k - 1], s[k])
<1>1. DOMAIN s = 1..Len(s) /\ Len(s) \in Nat
  OBVIOUS
<1>2. PICK n \in Nat : n = Len(s)
  BY <1>1
<1>3. PICK g : Iterates(g, c, base, s, n) /\ Folded(c, base, s) = g[1..n]
  <2>1. \E g : Iterates(g, c, base, s, n)
    BY FoldExists
  <2>2. Folded(c, base, s) = (CHOOSE g : Iterates(g, c, base, s, n))[1..n]
    BY <1>1, <1>2, Unfolded
  <2>3. Iterates(CHOOSE g : Iterates(g, c, base, s, n), c, base, s, n)
    BY <2>1
  <2> QED BY <2>2, <2>3
<1>4. PICK f : f = [k \in 0..n |-> g[1..k]]
  OBVIOUS
<1>5. f[0] = base
  <2>1. 1..0 = {} /\ {} \in SUBSET (1..n) /\ 0 \in 0..n
    OBVIOUS
  <2>2. g[{}] = base
    BY <1>3, <2>1 DEF Iterates
  <2> QED BY <1>4, <2>1, <2>2
<1>6. ASSUME NEW k \in 1..n PROVE f[k] = Step(c, f[k - 1], s[k])
  <2>1. 1..k \in SUBSET (1..n) /\ 1..k # {} /\ (1..k) \ {k} = 1..(k - 1)
    OBVIOUS
  <2>2. Max(1..k) = k
    <3>1. k \in Nat /\ 1..k \in SUBSET (1..k) /\ k \in 1..k
      OBVIOUS
    <3> QED BY ONLY <3>1, MaxOfRange
  <2>3. g[1..k] = Step(c, g[1..(k - 1)], s[k])
    BY <1>3, <2>1, <2>2 DEF Iterates
  <2> QED BY <1>4, <2>3
<1>7. f[n] = Folded(c, base, s)
  <2>1. n \in 0..n
    OBVIOUS
  <2> QED BY <1>3, <1>4, <2>1
<1>8. /\ f[0] = base /\ f[n] = Folded(c, base, s)
      /\ \A k \in 1..n : f[k] = Step(c, f[k - 1], s[k])
  BY <1>5, <1>6, <1>7
<1> QED BY <1>2, <1>8

(* What holds of the base, and is kept by each step, holds of the fold.    *)
LEMMA FoldHolds ==
    ASSUME NEW c, NEW base, NEW S, NEW s \in Seq(S), Holds(c, base),
           \A k \in 1..Len(s) : \A acc : Holds(c, acc) => Holds(c, Step(c, acc, s[k]))
    PROVE  Holds(c, Folded(c, base, s))
<1>1. PICK f : /\ f[0] = base /\ f[Len(s)] = Folded(c, base, s)
               /\ \A k \in 1..Len(s) : f[k] = Step(c, f[k - 1], s[k])
  BY FoldSteps
<1>2. PICK n \in Nat : n = Len(s)
  OBVIOUS
<1> DEFINE Bad == {k \in 0..n : ~Holds(c, f[k])}
<1>3. ASSUME Bad # {} PROVE FALSE
  <2>1. Bad \in SUBSET Nat
    OBVIOUS
  <2>2. PICK m \in Bad : \A k \in Bad : m <= k
    BY ONLY <1>3, <2>1, Least
  <2>3. m \in 0..n /\ ~Holds(c, f[m]) /\ m # 0
    BY <1>1
  <2>4. m - 1 \in 0..n /\ m - 1 \notin Bad
    BY <2>2, <2>3
  <2>5. Holds(c, f[m - 1])
    BY <2>4
  <2>6. m \in 1..Len(s) /\ f[m] = Step(c, f[m - 1], s[m])
    BY <1>1, <1>2, <2>3
  <2> QED BY <2>3, <2>5, <2>6
<1>4. n \in 0..n
  OBVIOUS
<1>5. Holds(c, f[n])
  BY <1>3, <1>4
<1> QED BY <1>1, <1>2, <1>5

LEMMA FoldEmpty ==
    ASSUME NEW c, NEW base
    PROVE  Folded(c, base, <<>>) = base
<1>1. PICK s, S : s = <<>> /\ S = {}
  OBVIOUS
<1>2. s \in Seq(S)
  BY <1>1
<1>3. PICK f : /\ f[0] = base /\ f[Len(s)] = Folded(c, base, s)
               /\ \A k \in 1..Len(s) : f[k] = Step(c, f[k - 1], s[k])
  BY <1>2, FoldSteps
<1>4. Len(s) = 0
  BY <1>1
<1> QED BY <1>1, <1>3, <1>4

(* Folding one more element is one more step.                              *)
LEMMA FoldAppend ==
    ASSUME NEW c, NEW base, NEW S, NEW s \in Seq(S), NEW x \in S
    PROVE  Folded(c, base, Append(s, x)) = Step(c, Folded(c, base, s), x)
<1>1. PICK n \in Nat : n = Len(s)
  OBVIOUS
<1>2. /\ Append(s, x) \in Seq(S) /\ Len(Append(s, x)) = n + 1
      /\ \A k \in 1..n : Append(s, x)[k] = s[k] /\ Append(s, x)[n + 1] = x
  BY <1>1, AppendProperties
<1>3. PICK f : /\ f[0] = base /\ f[n] = Folded(c, base, s)
               /\ \A k \in 1..n : f[k] = Step(c, f[k - 1], s[k])
  BY <1>1, FoldSteps
<1>4. PICK t : t = Append(s, x)
  OBVIOUS
<1>5. PICK g : /\ g[0] = base /\ g[n + 1] = Folded(c, base, t)
               /\ \A k \in 1..(n + 1) : g[k] = Step(c, g[k - 1], t[k])
  <2>1. t \in Seq(S) /\ Len(t) = n + 1
    BY <1>2, <1>4
  <2>2. \E g : /\ g[0] = base /\ g[Len(t)] = Folded(c, base, t)
               /\ \A k \in 1..Len(t) : g[k] = Step(c, g[k - 1], t[k])
    BY <2>1, FoldSteps
  <2> QED BY <2>1, <2>2
<1> DEFINE Bad == {k \in 0..n : f[k] # g[k]}
<1>6. ASSUME Bad # {} PROVE FALSE
  <2>1. Bad \in SUBSET Nat
    OBVIOUS
  <2>2. PICK m \in Bad : \A k \in Bad : m <= k
    BY ONLY <1>6, <2>1, Least
  <2>3. m \in 0..n /\ f[m] # g[m] /\ m # 0
    BY <1>3, <1>5
  <2>4. m - 1 \in 0..n /\ m - 1 \notin Bad
    BY <2>2, <2>3
  <2>5. f[m - 1] = g[m - 1]
    BY <2>4
  <2>6. m \in 1..n /\ m \in 1..(n + 1) /\ t[m] = s[m]
    BY <1>2, <1>4, <2>3
  <2> QED BY <1>3, <1>5, <2>3, <2>5, <2>6
<1>7. f[n] = g[n]
  <2>1. n \in 0..n
    OBVIOUS
  <2> QED BY <1>6, <2>1
<1>8. n + 1 \in 1..(n + 1) /\ (n + 1) - 1 = n /\ t[n + 1] = x
  BY <1>2, <1>4, AppendProperties, <1>1
<1>9. g[n + 1] = Step(c, g[n], x)
  BY <1>5, <1>8
<1> QED BY <1>3, <1>4, <1>5, <1>7, <1>9
=============================================================================
