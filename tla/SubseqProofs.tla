------------------------------ MODULE SubseqProofs ------------------------------
(***************************************************************************)
(* Facts about naturals, iteration and the places of a sequence that other *)
(* proofs rest on.  The library states induction for an operator, which    *)
(* the provers cannot instantiate; here it is put as the least             *)
(* counterexample, and a recursion over Nat as the iteration of a          *)
(* function.                                                               *)
(***************************************************************************)
EXTENDS Subseqs, FiniteSetTheorems, WellFoundedInduction, TLAPS

\* Every set of natural numbers has a least element.
LEMMA LeastExists ==
    ASSUME NEW S, S \subseteq Nat, S # {}
    PROVE  \E m \in S : \A n \in S : m <= n
<1> DEFINE R == {p \in Nat \X Nat : p[1] < p[2]}
<1>1. IsWellFoundedOn(R, Nat)
    BY NatLessThanWellFounded DEF OpToRel
<1> HIDE DEF R
<1>2. PICK m \in S : \A n \in S : <<n, m>> \notin R
    BY <1>1, WFMin, Zenon
<1>3. \A n \in S : ~(n < m)
    BY <1>2 DEF R
<1> QED
    BY <1>3

\* Induction: a set that holds 0, and the next one of each of its members.
LEMMA AllNaturals ==
    ASSUME NEW S, 0 \in S, \A n \in Nat : n \in S => n + 1 \in S
    PROVE  Nat \subseteq S
<1> DEFINE Bad == Nat \ S
<1> SUFFICES ASSUME Bad # {} PROVE FALSE
    OBVIOUS
<1>1. PICK m \in Bad : \A n \in Bad : m <= n
    BY LeastExists
<1>2. m \in Nat /\ m # 0 /\ m \notin S
    BY <1>1
<1>3. m - 1 \in Nat /\ m - 1 \in S
    BY <1>1, <1>2
<1>4. (m - 1) + 1 = m
    BY <1>2
<1> QED
    BY <1>2, <1>3, <1>4

-----------------------------------------------------------------------------
(* Iteration *)

\* A recursion of depth n, whatever n is.
Iterates(f, x, step) == f[0] = x /\ \A n \in Nat : f[n + 1] = step[f[n]]
IteratesTo(f, x, step, n) ==
    f[0] = x /\ \A m \in Nat : m < n => f[m + 1] = step[f[m]]

LEMMA IteratesFarther ==
    ASSUME NEW X, NEW x \in X, NEW step \in [X -> X], NEW n \in Nat,
           NEW f \in [Nat -> X], IteratesTo(f, x, step, n)
    PROVE  \E g \in [Nat -> X] : IteratesTo(g, x, step, n + 1)
<1> DEFINE g == [m \in Nat |-> IF m = n + 1 THEN step[f[n]] ELSE f[m]]
<1>1. g \in [Nat -> X]
    OBVIOUS
<1>2. g[0] = x
    BY DEF IteratesTo
<1>3. ASSUME NEW m \in Nat, m < n + 1 PROVE g[m + 1] = step[g[m]]
  <2>1. g[m] = f[m]
      BY <1>3
  <2>2. CASE m = n
      BY <2>1, <2>2
  <2>3. CASE m < n
    <3>1. f[m + 1] = step[f[m]]
        BY <2>3 DEF IteratesTo
    <3>2. m + 1 # n + 1 /\ m + 1 \in Nat
        BY <2>3
    <3> QED
        BY <2>1, <3>1, <3>2
  <2> QED
      BY <1>3, <2>2, <2>3
<1> HIDE DEF g
<1> QED
    BY <1>1, <1>2, <1>3 DEF IteratesTo

LEMMA IteratesToAll ==
    ASSUME NEW X, NEW x \in X, NEW step \in [X -> X]
    PROVE  \A n \in Nat : \E f \in [Nat -> X] : IteratesTo(f, x, step, n)
<1> DEFINE S == {n \in Nat : \E f \in [Nat -> X] : IteratesTo(f, x, step, n)}
<1>1. 0 \in S
  <2> DEFINE f == [n \in Nat |-> x]
  <2>1. f \in [Nat -> X] /\ IteratesTo(f, x, step, 0)
      BY DEF IteratesTo
  <2> HIDE DEF f
  <2> QED
      BY <2>1
<1>2. \A n \in Nat : n \in S => n + 1 \in S
    BY IteratesFarther
<1> HIDE DEF S
<1>3. Nat \subseteq S
    BY <1>1, <1>2, AllNaturals
<1> QED
    BY <1>3 DEF S

\* Two iterations of the same step are the same as far as they go.
LEMMA IteratesAlike ==
    ASSUME NEW x, NEW step, NEW n \in Nat, NEW f, NEW g,
           IteratesTo(f, x, step, n), IteratesTo(g, x, step, n)
    PROVE  \A m \in Nat : m <= n => f[m] = g[m]
<1> DEFINE S == {m \in Nat : m <= n => f[m] = g[m]}
<1>1. 0 \in S
    BY DEF IteratesTo
<1>2. ASSUME NEW m \in Nat, m \in S PROVE m + 1 \in S
  <2>1. CASE m < n
      BY <1>2, <2>1 DEF IteratesTo
  <2> QED
      BY <2>1
<1> HIDE DEF S
<1>3. Nat \subseteq S
    BY <1>1, <1>2, AllNaturals
<1> QED
    BY <1>3 DEF S

\* A function may be iterated without end.
LEMMA IterationExists ==
    ASSUME NEW X, NEW x \in X, NEW step \in [X -> X]
    PROVE  \E f \in [Nat -> X] : Iterates(f, x, step)
<1> DEFINE F(n) == CHOOSE f \in [Nat -> X] : IteratesTo(f, x, step, n)
           g == [n \in Nat |-> F(n)[n]]
<1>1. \A n \in Nat : F(n) \in [Nat -> X] /\ IteratesTo(F(n), x, step, n)
    BY IteratesToAll
<1> HIDE DEF F
<1>2. g \in [Nat -> X]
    BY <1>1
<1>3. g[0] = x
    BY <1>1 DEF IteratesTo
<1>4. ASSUME NEW n \in Nat PROVE g[n + 1] = step[g[n]]
  <2>1. n + 1 \in Nat /\ n < n + 1 /\ n <= n
      OBVIOUS
  <2>2. F(n + 1)[n + 1] = step[F(n + 1)[n]]
      BY <1>1, <2>1 DEF IteratesTo
  <2>3. IteratesTo(F(n), x, step, n) /\ IteratesTo(F(n + 1), x, step, n)
    <3>1. \A m \in Nat : m < n => m < n + 1
        OBVIOUS
    <3> QED
        BY <1>1, <2>1, <3>1 DEF IteratesTo
  <2>4. F(n + 1)[n] = F(n)[n]
      BY <2>1, <2>3, IteratesAlike
  <2> QED
      BY <2>1, <2>2, <2>4
<1> HIDE DEF g
<1> QED
    BY <1>2, <1>3, <1>4 DEF Iterates

\* What a step keeps, every iterate has.
LEMMA IterationKeeps ==
    ASSUME NEW X, NEW x \in X, NEW step, NEW f, Iterates(f, x, step),
           \A y \in X : step[y] \in X
    PROVE  \A n \in Nat : f[n] \in X
<1> DEFINE S == {n \in Nat : f[n] \in X}
<1>1. 0 \in S
    BY DEF Iterates
<1>2. \A n \in Nat : n \in S => n + 1 \in S
    BY DEF Iterates
<1> HIDE DEF S
<1>3. Nat \subseteq S
    BY <1>1, <1>2, AllNaturals
<1> QED
    BY <1>3 DEF S

\* So may one that depends on how often.
Recurs(f, x, step) == f[0] = x /\ \A n \in Nat : f[n + 1] = step[<<n, f[n]>>]

LEMMA RecursionExists ==
    ASSUME NEW X, NEW x \in X, NEW step \in [Nat \X X -> X]
    PROVE  \E f \in [Nat -> X] : Recurs(f, x, step)
<1> DEFINE Y == Nat \X X
           next == [y \in Y |-> <<y[1] + 1, step[y]>>]
<1>1. next \in [Y -> Y] /\ <<0, x>> \in Y
    OBVIOUS
<1>2. \A y \in Y : next[y] = <<y[1] + 1, step[y]>>
    OBVIOUS
<1> HIDE DEF next
<1>3. PICK g \in [Nat -> Y] : Iterates(g, <<0, x>>, next)
    BY <1>1, IterationExists
<1> DEFINE S == {n \in Nat : g[n][1] = n}
<1>4. 0 \in S
    BY <1>3 DEF Iterates
<1>5. ASSUME NEW n \in Nat, n \in S PROVE n + 1 \in S
    BY <1>2, <1>3, <1>5 DEF Iterates
<1> HIDE DEF S
<1>6. Nat \subseteq S
    BY <1>4, <1>5, AllNaturals
<1> DEFINE f == [n \in Nat |-> g[n][2]]
<1>7. f \in [Nat -> X] /\ f[0] = x
    BY <1>3 DEF Iterates
<1>8. ASSUME NEW n \in Nat PROVE f[n + 1] = step[<<n, f[n]>>]
  <2>1. g[n + 1] = <<g[n][1] + 1, step[g[n]]>> /\ g[n] \in Y
      BY <1>2, <1>3 DEF Iterates
  <2>2. g[n] = <<n, f[n]>>
      BY <1>6, <2>1 DEF S
  <2> QED
      BY <2>1, <2>2
<1> HIDE DEF f
<1> QED
    BY <1>7, <1>8 DEF Recurs

-----------------------------------------------------------------------------
(* The members of a set in order *)

Enumerates(at, S) ==
    /\ at \in [1 .. Cardinality(S) -> S]
    /\ \A j, k \in 1 .. Cardinality(S) : j < k => at[j] < at[k]

\* One more below the others.
LEMMA EnumerateWithLeast ==
    ASSUME NEW S, S \subseteq Nat, IsFiniteSet(S), NEW m \in S, \A n \in S : m <= n,
           NEW b, Enumerates(b, S \ {m})
    PROVE  \E at : Enumerates(at, S)
<1> DEFINE n == Cardinality(S)
           at == [k \in 1 .. n |-> IF k = 1 THEN m ELSE b[k - 1]]
<1>1. n \in Nat /\ Cardinality(S \ {m}) = n - 1 /\ n - 1 \in Nat
    BY FS_CardinalityType, FS_RemoveElement, FS_Subset, FS_EmptySet
<1> HIDE DEF n
<1>2. /\ b \in [1 .. n - 1 -> S \ {m}]
      /\ \A j, k \in 1 .. n - 1 : j < k => b[j] < b[k]
    BY <1>1 DEF Enumerates
<1>3. ASSUME NEW k \in 1 .. n, k # 1
      PROVE  k - 1 \in 1 .. n - 1 /\ b[k - 1] \in S /\ m < b[k - 1]
  <2>1. k - 1 \in 1 .. n - 1
      BY <1>1, <1>3
  <2>2. b[k - 1] \in S \ {m}
      BY <1>2, <2>1
  <2>3. m \in Nat /\ b[k - 1] \in Nat /\ m <= b[k - 1] /\ b[k - 1] # m
      BY <2>2
  <2> QED
      BY <2>1, <2>2, <2>3
<1>4. at \in [1 .. n -> S]
    BY <1>3
<1>5. ASSUME NEW j \in 1 .. n, NEW k \in 1 .. n, j < k PROVE at[j] < at[k]
    BY <1>1, <1>2, <1>3, <1>5
<1> HIDE DEF at
<1>6. Enumerates(at, S)
    BY <1>4, <1>5 DEF Enumerates, n
<1> QED
    BY <1>6

LEMMA EnumerationExists ==
    ASSUME NEW S, S \subseteq Nat, IsFiniteSet(S)
    PROVE  \E at : Enumerates(at, S)
<1> DEFINE N == {n \in Nat : \A T \in SUBSET Nat :
                    IsFiniteSet(T) /\ Cardinality(T) = n => \E at : Enumerates(at, T)}
<1>1. 0 \in N
  <2> SUFFICES ASSUME NEW T \in SUBSET Nat, IsFiniteSet(T), Cardinality(T) = 0
               PROVE  \E at : Enumerates(at, T)
      OBVIOUS
  <2>1. Enumerates([k \in 1 .. 0 |-> 0], T)
      BY DEF Enumerates
  <2> QED
      BY <2>1
<1>2. ASSUME NEW n \in Nat, n \in N PROVE n + 1 \in N
  <2> SUFFICES ASSUME NEW T \in SUBSET Nat, IsFiniteSet(T), Cardinality(T) = n + 1
               PROVE  \E at : Enumerates(at, T)
      OBVIOUS
  <2>1. T # {}
      BY FS_EmptySet
  <2>2. PICK m \in T : \A k \in T : m <= k
      BY <2>1, LeastExists
  <2>3. IsFiniteSet(T \ {m}) /\ Cardinality(T \ {m}) = n
    <3>1. IsFiniteSet(T \ {m}) /\ Cardinality(T \ {m}) = Cardinality(T) - 1
        BY <2>2, FS_RemoveElement
    <3> QED
        BY <3>1
  <2>4. PICK b : Enumerates(b, T \ {m})
      BY <1>2, <2>3
  <2> QED
      BY <2>2, <2>4, EnumerateWithLeast
<1> HIDE DEF N
<1>3. Nat \subseteq N
    BY <1>1, <1>2, AllNaturals
<1> QED
    BY <1>3, FS_CardinalityType DEF N

\* Ordered names each member of the set, and none twice.
LEMMA OrderedEnumerates ==
    ASSUME NEW S, S \subseteq Nat, IsFiniteSet(S)
    PROVE  /\ Enumerates(Ordered(S), S)
           /\ Cardinality(S) \in Nat
           /\ \A i, j \in 1 .. Cardinality(S) : Ordered(S)[i] = Ordered(S)[j] => i = j
           /\ \A m \in S : \E k \in 1 .. Cardinality(S) : Ordered(S)[k] = m
<1> DEFINE n == Cardinality(S)
           at == Ordered(S)
<1>1. Enumerates(at, S)
    BY EnumerationExists DEF Enumerates, Ordered
<1>2. n \in Nat
    BY FS_CardinalityType
<1> HIDE DEF at
<1>3. at \in [1 .. n -> S] /\ \A j, k \in 1 .. n : j < k => at[j] < at[k]
    BY <1>1 DEF Enumerates
<1> HIDE DEF n
<1>4. ASSUME NEW i \in 1 .. n, NEW j \in 1 .. n, at[i] = at[j] PROVE i = j
  <2>1. at[i] \in Nat /\ at[j] \in Nat /\ i \in Nat /\ j \in Nat
    <3>1. at[i] \in S /\ at[j] \in S
        BY <1>3
    <3>2. i \in Nat /\ j \in Nat
        BY <1>2
    <3>3. \A x \in S : x \in Nat
        OBVIOUS
    <3> QED
        BY <3>1, <3>2, <3>3, Zenon
  <2>2. ~(i < j) /\ ~(j < i)
      BY <1>3, <1>4, <2>1
  <2> QED
      BY <2>1, <2>2
<1>5. at \in Injection(1 .. n, S)
    BY <1>3, <1>4 DEF Injection, IsInjective
<1>6. Cardinality(1 .. n) = n
    BY <1>2, FS_Interval
<1>7. at \in Surjection(1 .. n, S)
    BY <1>2, <1>5, <1>6, FS_Injection DEF n
<1>8. \A m \in S : \E k \in 1 .. n : at[k] = m
    BY <1>7 DEF Surjection
<1> QED
    BY <1>1, <1>2, <1>4, <1>8 DEF n, at

\* What is left of a sequence: the elements at the places named, each once, in
\* their order.
LEMMA SubseqKeeps ==
    ASSUME NEW E, NEW s \in Seq(E), NEW S, S \subseteq DOMAIN s
    PROVE  /\ SubseqAt(s, S) \in Seq(E)
           /\ Len(SubseqAt(s, S)) = Cardinality(S)
           /\ \A m \in S : \E k \in DOMAIN SubseqAt(s, S) : SubseqAt(s, S)[k] = s[m]
           /\ \A k \in DOMAIN SubseqAt(s, S) : Ordered(S)[k] \in S
                                              /\ SubseqAt(s, S)[k] = s[Ordered(S)[k]]
           /\ \A j, k \in DOMAIN SubseqAt(s, S) : j < k => Ordered(S)[j] < Ordered(S)[k]
<1> DEFINE n == Cardinality(S)
           at == Ordered(S)
           t == [k \in 1 .. n |-> s[at[k]]]
<1>1. IsFiniteSet(S) /\ S \subseteq Nat
  <2>1. Len(s) \in Nat /\ DOMAIN s = 1 .. Len(s)
      OBVIOUS
  <2>2. IsFiniteSet(1 .. Len(s)) /\ S \subseteq 1 .. Len(s)
      BY <2>1, FS_Interval
  <2> QED
      BY <2>1, <2>2, FS_Subset
<1>2. /\ n \in Nat /\ at \in [1 .. n -> S]
      /\ \A j, k \in 1 .. n : j < k => at[j] < at[k]
      /\ \A m \in S : \E k \in 1 .. n : at[k] = m
    BY <1>1, OrderedEnumerates DEF Enumerates
<1> HIDE DEF n, at
<1>3. t \in [1 .. n -> E]
    BY <1>2
<1>4. t \in Seq(E) /\ Len(t) = n /\ DOMAIN t = 1 .. n
    BY <1>2, <1>3
<1>5. \A k \in 1 .. n : at[k] \in S /\ t[k] = s[at[k]]
    BY <1>2
<1>6. SubseqAt(s, S) = t
    BY DEF SubseqAt, n, at
<1> HIDE DEF t
<1>7. \A m \in S : \E k \in 1 .. n : t[k] = s[m]
    BY <1>2, <1>5
<1> QED
    BY <1>2, <1>4, <1>5, <1>6, <1>7 DEF n, at

-----------------------------------------------------------------------------
(* Concatenation, place by place *)

LEMMA ConcatShape ==
    ASSUME NEW E, NEW a \in Seq(E), NEW b \in Seq(E)
    PROVE  /\ a \o b \in Seq(E)
           /\ Len(a \o b) = Len(a) + Len(b)
           /\ DOMAIN (a \o b) = 1 .. Len(a) + Len(b)
           /\ \A k \in 1 .. Len(a) : (a \o b)[k] = a[k]
           /\ \A k \in 1 .. Len(b) : (a \o b)[Len(a) + k] = b[k]
OBVIOUS
=============================================================================
