----------------------------- MODULE PackProofs -----------------------------
(***************************************************************************)
(* Proofs about the codec of the pack: whatever is written is read back.   *)
(***************************************************************************)
EXTENDS Pack, FiniteSetTheorems, TLAPS

(* Lists.                                                                  *)

\* A set of places in a list that is not empty has a last one.
LEMMA LastPlace ==
    ASSUME NEW n \in Nat, NEW I \in SUBSET (1 .. n), I # {}
    PROVE  \E m \in I : \A i \in I : i <= m
<1> DEFINE From == {i .. n : i \in I}
<1>1. From # {} /\ From \subseteq FiniteSubsetsOf(Nat)
    <2>1. \A i \in I : IsFiniteSet(i .. n) /\ i .. n \subseteq Nat
        BY FS_Interval
    <2> QED BY <2>1 DEF FiniteSubsetsOf
<1>2. IsWellFoundedOn(StrictSubsetOrdering(Nat), FiniteSubsetsOf(Nat))
    BY FS_StrictSubsetOrderingWellFounded
<1>3. \E X \in From : \A Y \in From : <<Y, X>> \notin StrictSubsetOrdering(Nat)
    <2> HIDE DEF From
    <2> QED BY <1>1, <1>2, WFMin
<1>4. PICK m \in I : \A i \in I : <<i .. n, m .. n>> \notin StrictSubsetOrdering(Nat)
    BY <1>3
<1>5. ASSUME NEW i \in I, m < i PROVE FALSE
    <2>1. i .. n \in SUBSET Nat /\ m .. n \in SUBSET Nat
        OBVIOUS
    <2>2. i .. n \subseteq m .. n /\ i .. n # m .. n
        BY <1>5
    <2>3. <<i .. n, m .. n>> \in StrictSubsetOrdering(Nat)
        BY <2>1, <2>2 DEF StrictSubsetOrdering
    <2> QED BY <2>3, <1>4
<1>6. QED
    BY <1>5

\* And a first one.
LEMMA FirstPlace ==
    ASSUME NEW n \in Nat, NEW I \in SUBSET (1 .. n), I # {}
    PROVE  \E m \in I : \A i \in I : m <= i
<1> DEFINE J == {n + 1 - i : i \in I}
<1>1. J \in SUBSET (1 .. n) /\ J # {}
    OBVIOUS
<1>2. PICK k \in J : \A j \in J : j <= k
    <2> HIDE DEF J
    <2> QED BY <1>1, LastPlace
<1>3. PICK m \in I : k = n + 1 - m
    BY <1>2
<1>4. \A i \in I : m <= i
    BY <1>2, <1>3
<1>5. QED
    BY <1>4
-----------------------------------------------------------------------------
\* The first k lists of lists, put one after the other, after each of them.
Flattens(f, seqs) ==
    \A i \in DOMAIN f : f[i] = IF i = 1 THEN seqs[1] ELSE f[i - 1] \o seqs[i]

\* There is such a function for every list of lists.
LEMMA FlatteningExists ==
    ASSUME NEW T, NEW seqs \in Seq(Seq(T)), NEW n \in Nat, n = Len(seqs), n > 0
    PROVE  \E f \in [1 .. n -> Seq(T)] : Flattens(f, seqs)
<1> DEFINE K == {k \in 1 .. n : ~ \E f \in [1 .. k -> Seq(T)] : Flattens(f, seqs)}
<1>1. SUFFICES ASSUME K # {} PROVE FALSE
    <2>1. n \in 1 .. n
        OBVIOUS
    <2> QED BY <2>1
<1>2. PICK m \in K : \A k \in K : m <= k
    <2>1. K \in SUBSET (1 .. n)
        OBVIOUS
    <2> HIDE DEF K
    <2> QED BY <1>1, <2>1, FirstPlace
<1>3. m \in 1 .. n /\ seqs[m] \in Seq(T) /\ seqs[1] \in Seq(T)
    OBVIOUS
<1>4. CASE m = 1
    <2> DEFINE f == [i \in 1 .. 1 |-> seqs[1]]
    <2>1. f \in [1 .. m -> Seq(T)]
        BY <1>3, <1>4
    <2>2. Flattens(f, seqs)
        BY DEF Flattens
    <2> QED BY <2>1, <2>2
<1>5. CASE m # 1
    <2>0. m - 1 \in 1 .. n /\ m - 1 < m
        BY <1>3, <1>5
    <2>1. m - 1 \in 1 .. n /\ m - 1 \notin K
        <3> HIDE DEF K
        <3>1. ASSUME m - 1 \in K PROVE FALSE
            BY <1>2, <1>3, <2>0, <3>1
        <3> QED BY <2>0, <3>1
    <2>2. PICK g \in [1 .. m - 1 -> Seq(T)] : Flattens(g, seqs)
        BY <2>1
    <2> DEFINE f == [i \in 1 .. m |-> IF i = m THEN g[m - 1] \o seqs[m] ELSE g[i]]
    <2>3. g[m - 1] \o seqs[m] \in Seq(T)
        <3>1. g[m - 1] \in Seq(T)
            BY <2>1
        <3> QED BY <1>3, <3>1
    <2>4. f \in [1 .. m -> Seq(T)]
        BY <1>3, <2>3
    <2>5. Flattens(f, seqs)
        <3>1. ASSUME NEW i \in 1 .. m PROVE f[i] = IF i = 1 THEN seqs[1] ELSE f[i - 1] \o seqs[i]
            <4>1. CASE i = m
                <5>1. m - 1 \in 1 .. m /\ m - 1 # m /\ m \in 1 .. m
                    BY <1>3, <2>0
                <5> HIDE DEF K
                <5>2. f[m - 1] = g[m - 1] /\ f[m] = g[m - 1] \o seqs[m]
                    BY <1>3, <5>1
                <5> HIDE DEF f
                <5> QED BY <1>5, <4>1, <5>2
            <4>2. CASE i # m
                <5>1. i \in 1 .. m - 1 /\ f[i] = g[i]
                    BY <1>3, <4>2
                <5>2. i # 1 => f[i - 1] = g[i - 1]
                    BY <1>3, <5>1
                <5> QED BY <2>2, <5>1, <5>2 DEF Flattens
            <4> QED BY <4>1, <4>2
        <3> QED BY <3>1 DEF Flattens
    <2> HIDE DEF f
    <2> QED BY <2>4, <2>5
<1>6. QED
    BY <1>4, <1>5

\* FlattenSeq is the last value of that function.
LEMMA FlatteningFlattens ==
    ASSUME NEW T, NEW seqs \in Seq(Seq(T)), NEW n \in Nat, n = Len(seqs), n > 0
    PROVE  \E f \in [1 .. n -> Seq(T)] : Flattens(f, seqs) /\ FlattenSeq(seqs) = f[n]
<1>1. PICK f \in [1 .. n -> Seq(T)] : Flattens(f, seqs)
    BY FlatteningExists
<1> DEFINE Is(h) == h = [i \in 1 .. n |-> IF i = 1 THEN seqs[i] ELSE h[i - 1] \o seqs[i]]
           g == CHOOSE h : Is(h)
<1>2. FlattenSeq(seqs) = g[n]
    BY DEF FlattenSeq
<1>3. Is(f)
    BY <1>1 DEF Flattens
<1>4. Is(g)
    <2> HIDE DEF Is
    <2> QED BY <1>3
<1>5. \A i \in 1 .. n : g[i] = IF i = 1 THEN seqs[1] ELSE g[i - 1] \o seqs[i]
    <2> HIDE DEF g
    <2> QED BY <1>4
<1> HIDE DEF g
<1> DEFINE K == {k \in 1 .. n : g[k] # f[k]}
<1>6. K = {}
    <2>1. SUFFICES ASSUME K # {} PROVE FALSE
        OBVIOUS
    <2>2. PICK m \in K : \A k \in K : m <= k
        <3>1. K \in SUBSET (1 .. n)
            OBVIOUS
        <3> HIDE DEF K
        <3> QED BY <2>1, <3>1, FirstPlace
    <2>3. CASE m = 1
        BY <1>1, <1>5, <2>3 DEF Flattens
    <2>4. CASE m # 1
        <3>1. m \in 1 .. n /\ g[m] # f[m]
            OBVIOUS
        <3>2. m - 1 \in 1 .. n /\ m - 1 < m
            BY <2>4, <3>1
        <3>3. g[m - 1] = f[m - 1]
            BY <2>2, <3>1, <3>2
        <3>4. f[m] = f[m - 1] \o seqs[m] /\ g[m] = g[m - 1] \o seqs[m]
            BY <1>1, <1>5, <2>4, <3>1 DEF Flattens
        <3> QED BY <3>1, <3>3, <3>4
    <2> QED BY <2>3, <2>4
<1>7. g[n] = f[n]
    BY <1>6
<1>8. QED
    BY <1>1, <1>2, <1>7

\* One list, then another.
Joins(u, s, t) ==
    /\ Len(s) \in Nat /\ Len(t) \in Nat /\ Len(u) = Len(s) + Len(t)
    /\ \A x \in 1 .. Len(s) : u[x] = s[x]
    /\ \A j \in 1 .. Len(t) : Len(s) + j \in 1 .. Len(u) /\ u[Len(s) + j] = t[j]

\* That is what \o makes.
LEMMA Joined ==
    ASSUME NEW T, NEW s \in Seq(T), NEW t \in Seq(T)
    PROVE  Joins(s \o t, s, t)
BY DEF Joins

\* Where each list begins in FlattenSeq, and that it is there as a whole.
Placed(seqs, off) ==
    /\ off \in [1 .. Len(seqs) + 1 -> Nat]
    /\ off[1] = 0
    /\ \A i \in 1 .. Len(seqs) : off[i + 1] = off[i] + Len(seqs[i])
    /\ \A i, j \in 1 .. Len(seqs) + 1 : i <= j => off[i] <= off[j]
    /\ Len(FlattenSeq(seqs)) = off[Len(seqs) + 1]
    /\ \A i \in 1 .. Len(seqs) : \A j \in 1 .. Len(seqs[i]) :
            FlattenSeq(seqs)[off[i] + j] = seqs[i][j]

\* FlattenSeq is a list that holds every list at its place.
LEMMA Flattened ==
    ASSUME NEW T, NEW seqs \in Seq(Seq(T))
    PROVE  FlattenSeq(seqs) \in Seq(T) /\ \E off : Placed(seqs, off)
<1>1. PICK n \in Nat : n = Len(seqs) /\ DOMAIN seqs = 1 .. n
    OBVIOUS
<1>2. CASE n = 0
    <2>1. FlattenSeq(seqs) = seqs /\ seqs = <<>>
        BY <1>1, <1>2 DEF FlattenSeq
    <2> DEFINE off == [i \in 1 .. 1 |-> 0]
    <2>2. Placed(seqs, off)
        BY <1>1, <1>2, <2>1 DEF Placed
    <2> QED BY <2>1, <2>2
<1>3. CASE n > 0
    <2>1. PICK f \in [1 .. n -> Seq(T)] : Flattens(f, seqs) /\ FlattenSeq(seqs) = f[n]
        BY <1>1, <1>3, FlatteningFlattens
    <2>2. \A i \in 1 .. n : f[i] \in Seq(T) /\ seqs[i] \in Seq(T) /\ Len(f[i]) \in Nat /\ Len(seqs[i]) \in Nat
        BY <1>1
    <2>3. \A i \in 1 .. n : i # 1 => f[i] = f[i - 1] \o seqs[i]
        BY <2>1 DEF Flattens
    <2>4. f[1] = seqs[1]
        <3>1. 1 \in 1 .. n
            BY <1>3
        <3> QED BY <2>1, <3>1 DEF Flattens
    <2> DEFINE Within(i, k) == Len(f[i]) <= Len(f[k]) /\ \A x \in 1 .. Len(f[i]) : f[k][x] = f[i][x]
    <2>5. ASSUME NEW i \in 1 .. n, NEW k \in i .. n PROVE Within(i, k)
        <3> DEFINE K == {l \in 1 .. n : i <= l /\ ~ Within(i, l)}
        <3>0. k \in 1 .. n /\ i <= k
            OBVIOUS
        <3>1. SUFFICES ASSUME K # {} PROVE FALSE
            <4> HIDE DEF Within
            <4> QED BY <3>0
        <3>2. PICK m \in K : \A l \in K : m <= l
            <4>1. K \in SUBSET (1 .. n)
                OBVIOUS
            <4> HIDE DEF K
            <4> QED BY <3>1, <4>1, FirstPlace
        <3>3. m \in 1 .. n /\ i <= m /\ ~ Within(i, m)
            OBVIOUS
        <3>4. m # i
            BY <2>2, <3>3
        <3>5. m - 1 \in 1 .. n /\ i <= m - 1 /\ m # 1 /\ m - 1 < m
            BY <3>3, <3>4
        <3>6. Within(i, m - 1)
            <4>1. m - 1 \in K => FALSE
                <5> HIDE DEF K
                <5> QED BY <3>2, <3>3, <3>5
            <4> QED BY <3>5, <4>1
        <3>7. /\ f[m - 1] \in Seq(T) /\ seqs[m] \in Seq(T) /\ f[m] = f[m - 1] \o seqs[m]
              /\ Len(f[i]) \in Nat
            BY <2>2, <2>3, <3>3, <3>5
        <3>8. /\ Len(f[m]) = Len(f[m - 1]) + Len(seqs[m]) /\ Len(seqs[m]) \in Nat /\ Len(f[m - 1]) \in Nat
              /\ \A x \in 1 .. Len(f[m - 1]) : f[m][x] = f[m - 1][x]
            <4> HIDE DEF K, Within
            <4>1. Joins(f[m - 1] \o seqs[m], f[m - 1], seqs[m])
                BY <3>7, Joined
            <4> QED BY <3>7, <4>1 DEF Joins
        <3>9. Within(i, m)
            <4>1. Len(f[i]) <= Len(f[m - 1]) /\ \A x \in 1 .. Len(f[i]) : f[m - 1][x] = f[i][x]
                BY <3>6
            <4> HIDE DEF K, Within
            <4>2. Len(f[i]) <= Len(f[m])
                <5>1. /\ Len(f[m]) = Len(f[m - 1]) + Len(seqs[m]) /\ Len(f[i]) <= Len(f[m - 1])
                      /\ Len(seqs[m]) \in Nat /\ Len(f[m - 1]) \in Nat /\ Len(f[i]) \in Nat
                    BY <3>7, <3>8, <4>1
                <5> DEFINE a == Len(f[m - 1])
                           b == Len(seqs[m])
                           c == Len(f[i])
                <5> HIDE DEF a, b, c
                <5>2. Len(f[m]) = a + b /\ c <= a /\ a \in Nat /\ b \in Nat /\ c \in Nat
                    BY <5>1 DEF a, b, c
                <5>3. c <= a + b
                    BY <5>2
                <5> QED BY <5>2, <5>3 DEF c
            <4>3. ASSUME NEW x \in 1 .. Len(f[i]) PROVE f[m][x] = f[i][x]
                <5>1. x \in 1 .. Len(f[m - 1])
                    BY <3>7, <3>8, <4>1
                <5> QED BY <3>8, <4>1, <5>1
            <4> QED BY <4>2, <4>3 DEF Within
        <3> QED BY <3>3, <3>9
    <2> DEFINE off == [i \in 1 .. n + 1 |-> IF i = 1 THEN 0 ELSE Len(f[i - 1])]
    <2> HIDE DEF Within
    <2>6. off[1] = 0 /\ \A i \in 1 .. n : off[i + 1] = Len(f[i])
        BY <1>1
    <2>7. off \in [1 .. n + 1 -> Nat]
        <3>1. ASSUME NEW i \in 1 .. n + 1, i # 1 PROVE Len(f[i - 1]) \in Nat
            <4>1. i - 1 \in 1 .. n
                BY <3>1
            <4> QED BY <2>2, <4>1
        <3> QED BY <3>1
    <2> HIDE DEF off
    <2>8. ASSUME NEW i \in 1 .. n
          PROVE  /\ off[i + 1] = off[i] + Len(seqs[i])
                 /\ \A j \in 1 .. Len(seqs[i]) : off[i] + j \in 1 .. Len(f[i]) /\ f[i][off[i] + j] = seqs[i][j]
        <3>1. CASE i = 1
            <4>1. off[1] = 0 /\ off[1 + 1] = Len(f[1]) /\ f[1] = seqs[1] /\ Len(seqs[1]) \in Nat
                BY <2>2, <2>4, <2>6, <3>1
            <4>2. \A j \in 1 .. Len(seqs[1]) : 0 + j = j
                BY <4>1
            <4> QED BY <3>1, <4>1, <4>2
        <3>2. CASE i # 1
            <4>1. i - 1 \in 1 .. n /\ (i - 1) + 1 = i
                BY <3>2
            <4>2. f[i] = f[i - 1] \o seqs[i] /\ off[i] = Len(f[i - 1]) /\ off[i + 1] = Len(f[i])
                BY <2>3, <2>6, <3>2, <4>1
            <4>3. f[i - 1] \in Seq(T) /\ seqs[i] \in Seq(T)
                BY <2>2, <4>1
            <4>4. Joins(f[i - 1] \o seqs[i], f[i - 1], seqs[i])
                BY <4>3, Joined
            <4> QED BY <4>2, <4>4 DEF Joins
        <3> QED BY <3>1, <3>2
    <2>9. ASSUME NEW i \in 1 .. n + 1, NEW j \in 1 .. n + 1, i <= j PROVE off[i] <= off[j]
        <3>1. off[j] \in Nat
            BY <2>7
        <3>2. CASE i = 1
            BY <2>6, <3>1, <3>2
        <3>3. CASE i # 1
            <4>1. i - 1 \in 1 .. n /\ j - 1 \in (i - 1) .. n /\ j - 1 \in 1 .. n
                BY <2>9, <3>3
            <4>2. Within(i - 1, j - 1)
                BY <2>5, <4>1
            <4>3. off[(i - 1) + 1] = Len(f[i - 1]) /\ off[(j - 1) + 1] = Len(f[j - 1])
                BY <2>6, <4>1
            <4>4. (i - 1) + 1 = i /\ (j - 1) + 1 = j
                OBVIOUS
            <4> QED BY <4>2, <4>3, <4>4 DEF Within
        <3> QED BY <3>2, <3>3
    <2>10. ASSUME NEW i \in 1 .. n, NEW j \in 1 .. Len(seqs[i]) PROVE f[n][off[i] + j] = seqs[i][j]
        <3>1. Within(i, n)
            BY <1>1, <1>3, <2>5
        <3> QED BY <2>8, <3>1 DEF Within
    <2>11. Len(f[n]) = off[n + 1] /\ f[n] \in Seq(T)
        <3>1. n \in 1 .. n
            BY <1>1, <1>3
        <3> QED BY <2>2, <2>6, <3>1
    <2>12. Placed(seqs, off)
        BY <1>1, <2>1, <2>6, <2>7, <2>8, <2>9, <2>10, <2>11 DEF Placed
    <2> QED BY <2>1, <2>11, <2>12
<1>4. QED
    BY <1>1, <1>2, <1>3
-----------------------------------------------------------------------------
(* Numbers and their widths.                                               *)

\* What holds of 0 and of the next number wherever it holds of one holds of all.
LEMMA Upward ==
    ASSUME NEW n \in Nat, NEW I, 0 \in I, \A k \in 1 .. n : k - 1 \in I => k \in I
    PROVE  \A k \in 0 .. n : k \in I
<1> DEFINE K == {k \in 1 .. n : k \notin I}
<1>1. K = {}
    <2>1. SUFFICES ASSUME K # {} PROVE FALSE
        OBVIOUS
    <2>2. PICK m \in K : \A k \in K : m <= k
        <3>1. K \in SUBSET (1 .. n)
            OBVIOUS
        <3> HIDE DEF K
        <3> QED BY <2>1, <3>1, FirstPlace
    <2>3. m \in 1 .. n /\ m \notin I
        OBVIOUS
    <2>4. m - 1 \notin I
        BY <2>3
    <2>5. m - 1 \in 1 .. n /\ m - 1 < m
        BY <2>3, <2>4
    <2>6. m - 1 \in K
        BY <2>4, <2>5
    <2> HIDE DEF K
    <2> QED BY <2>2, <2>3, <2>5, <2>6
<1>2. QED
    BY <1>1

\* The weights of the bytes are positive, and each is Base times the last one.
LEMMA Weights ==
    /\ Weight \in [0 .. Groups -> Nat \ {0}]
    /\ Weight[0] = 1
    /\ \A n \in 1 .. Groups : Weight[n] = Base * Weight[n - 1]
<1>0. Base \in Nat \ {0} /\ Groups \in Nat \ {0}
    BY WidthsAssumption
<1> DEFINE Is(w, m) == w[0] = 1 /\ \A n \in 1 .. m : w[n] = Base * w[n - 1]
           I == {m \in 0 .. Groups : \E w \in [0 .. m -> Nat \ {0}] : Is(w, m)}
<1>1. 0 \in I
    <2>1. \E w \in [0 .. 0 -> Nat \ {0}] : Is(w, 0)
        <3> DEFINE w == [n \in 0 .. 0 |-> 1]
        <3>1. w \in [0 .. 0 -> Nat \ {0}] /\ Is(w, 0)
            OBVIOUS
        <3> HIDE DEF w, Is
        <3> QED BY <3>1
    <2> HIDE DEF Is
    <2> QED BY <1>0, <2>1
<1>2. ASSUME NEW m \in 1 .. Groups, m - 1 \in I PROVE m \in I
    <2>1. PICK w \in [0 .. m - 1 -> Nat \ {0}] : Is(w, m - 1)
        BY <1>2
    <2> DEFINE x == Base * w[m - 1]
               v == [n \in 0 .. m |-> IF n = m THEN x ELSE w[n]]
    <2>2. x \in Nat \ {0}
        <3>1. w[m - 1] \in Nat \ {0}
            BY <2>1
        <3>2. \A a, b \in Nat \ {0} : a * b \in Nat \ {0}
            OBVIOUS
        <3> QED BY <1>0, <3>1, <3>2
    <2>3. v \in [0 .. m -> Nat \ {0}]
        <3> HIDE DEF x
        <3> QED BY <2>1, <2>2
    <2>4. Is(v, m)
        <3>1. v[0] = 1
            BY <2>1
        <3>2. ASSUME NEW n \in 1 .. m PROVE v[n] = Base * v[n - 1]
            <4>1. v[n - 1] = w[n - 1]
                OBVIOUS
            <4>2. CASE n = m
                BY <4>1, <4>2
            <4>3. CASE n # m
                <5>1. n \in 1 .. m - 1 /\ v[n] = w[n]
                    BY <4>3
                <5> QED BY <2>1, <4>1, <5>1
            <4> QED BY <4>2, <4>3
        <3> QED BY <3>1, <3>2
    <2> HIDE DEF v, Is
    <2> QED BY <2>3, <2>4
<1>3. PICK w \in [0 .. Groups -> Nat \ {0}] : Is(w, Groups)
    <2>1. Groups \in I
        <3> HIDE DEF I
        <3> QED BY <1>0, <1>1, <1>2, Upward
    <2> QED BY <2>1
<1> DEFINE Defines(w0) == w0 = [n \in 0 .. Groups |-> IF n = 0 THEN 1 ELSE Base * w0[n - 1]]
           v == CHOOSE w0 : Defines(w0)
<1>4. Weight = v
    BY DEF Weight
<1>5. Defines(w)
    BY <1>0, <1>3
<1>6. Defines(v)
    <2> HIDE DEF Defines
    <2> QED BY <1>5
<1> HIDE DEF v
<1>7. v[0] = 1 /\ \A n \in 1 .. Groups : v[n] = Base * v[n - 1]
    <2>1. \A n \in 0 .. Groups : v[n] = IF n = 0 THEN 1 ELSE Base * v[n - 1]
        BY <1>6
    <2> QED BY <1>0, <2>1
<1>8. \A n \in 0 .. Groups : n \in {k \in 0 .. Groups : v[k] = w[k]}
    <2> DEFINE J == {k \in 0 .. Groups : v[k] = w[k]}
    <2>1. 0 \in J
        BY <1>0, <1>3, <1>7
    <2>2. \A k \in 1 .. Groups : k - 1 \in J => k \in J
        BY <1>3, <1>7
    <2> HIDE DEF J
    <2>3. \A n \in 0 .. Groups : n \in J
        BY <1>0, <2>1, <2>2, Upward
    <2> QED BY <2>3 DEF J
<1>9. v = [n \in 0 .. Groups |-> v[n]]
    BY <1>6
<1>10. v \in [0 .. Groups -> Nat \ {0}]
    BY <1>8, <1>9
<1>11. QED
    BY <1>4, <1>7, <1>10

\* Numbers that fit their width.
LEMMA Widths ==
    /\ U64Max \in Nat /\ U8Max \in Nat /\ U8Max = 2 * Base - 1 /\ U32Max \in Nat \ {0} /\ U32Max <= U64Max
    /\ Base \in Nat /\ Base >= 6 /\ Groups \in Nat \ {0} /\ U64Max < Weight[Groups]
    /\ BadByte \in 0 .. U8Max /\ Replacement \in 0 .. U8Max
<1>1. Base \in Nat \ {0} /\ Groups \in Nat \ {0} /\ LastGroup \in Nat \ {0} /\ LastGroup <= Base
    BY WidthsAssumption
<1>2. Groups - 1 \in 0 .. Groups /\ Groups \in 1 .. Groups
    BY <1>1
<1>3. Weight[Groups - 1] \in Nat \ {0} /\ Weight[Groups] = Base * Weight[Groups - 1]
    BY <1>2, Weights
<1> DEFINE w == Weight[Groups - 1]
<1> HIDE DEF w
<1>4. w \in Nat \ {0} /\ U64Max = w * LastGroup - 1 /\ Weight[Groups] = Base * w
    BY <1>3 DEF w, U64Max
<1>5. \A a, b, c \in Nat \ {0} : b <= c => a * b \in Nat \ {0} /\ a * b <= c * a
    OBVIOUS
<1>6. w * LastGroup \in Nat \ {0} /\ w * LastGroup <= Base * w
    BY <1>1, <1>4, <1>5
<1>7. U64Max \in Nat /\ U64Max < Weight[Groups]
    <2> DEFINE a == w * LastGroup
               b == Base * w
    <2>1. a \in Nat \ {0} /\ a <= b /\ U64Max = a - 1 /\ Weight[Groups] = b /\ b \in Int
        BY <1>1, <1>4, <1>6
    <2> HIDE DEF a, b
    <2> QED BY <2>1
<1>8. U8Max = 2 * Base - 1 /\ U8Max >= 11
    BY TagsAssumption DEF U8Max, EncodedLanguage
<1>9. QED
    BY <1>1, <1>7, <1>8, WidthsAssumption

\* The digits of a number: the lowest, and those of the rest of it.
LEMMA Digits ==
    ASSUME NEW v \in Nat
    PROVE  /\ v % Base \in 0 .. Base - 1 /\ v \div Base \in Nat /\ v = Base * (v \div Base) + (v % Base)
           /\ v >= Base => v \div Base < v /\ v \div Base >= 1
           /\ v < Base => v % Base = v
           /\ \A w \in Nat : v < Base * w => v \div Base < w
<1>1. Base \in Nat /\ Base >= 6
    BY Widths
<1>2. v % Base \in 0 .. Base - 1 /\ v \div Base \in Nat /\ v = Base * (v \div Base) + (v % Base)
    BY <1>1
<1> DEFINE q == v \div Base
           r == v % Base
<1>3. q \in Nat /\ r \in 0 .. Base - 1 /\ v = Base * q + r
    BY <1>2
<1>7. v < Base => v % Base = v
    BY <1>1
<1> HIDE DEF q, r
<1>4. v >= Base => q < v /\ q >= 1
    <2>1. SUFFICES ASSUME v >= Base PROVE q < v /\ q >= 1
        OBVIOUS
    <2>2. CASE q = 0
        BY <1>1, <1>3, <2>1, <2>2
    <2>3. CASE q # 0
        <3>1. \A a, b \in Nat : a >= 6 /\ b >= 1 => b < a * b
            OBVIOUS
        <3>2. q < Base * q /\ Base * q \in Nat
            BY <1>1, <1>3, <2>3, <3>1
        <3> DEFINE a == Base * q
        <3>3. a \in Nat /\ q < a /\ v = a + r /\ r >= 0
            BY <1>1, <1>3, <3>2
        <3> HIDE DEF a
        <3> QED BY <1>1, <1>3, <2>3, <3>3
    <2> QED BY <2>2, <2>3
<1>5. ASSUME NEW w \in Nat, v < Base * w PROVE q < w
    <2>1. SUFFICES ASSUME w <= q PROVE FALSE
        BY <1>3
    <2>2. \A a, b, c \in Nat : b <= c => a * b <= a * c /\ a * b \in Nat /\ a * c \in Nat
        OBVIOUS
    <2>3. Base * w <= Base * q /\ Base * w \in Nat /\ Base * q \in Nat
        BY <1>1, <1>3, <2>1, <2>2
    <2> DEFINE a == Base * q
               b == Base * w
    <2>4. a \in Nat /\ b \in Nat /\ b <= a /\ v = a + r /\ r >= 0 /\ v < b /\ r \in Int
        BY <1>1, <1>3, <1>5, <2>3
    <2> HIDE DEF a, b
    <2> QED BY <2>4
<1>6. QED
    BY <1>2, <1>4, <1>5, <1>7 DEF q, r

\* A number as bytes is a list of bytes: its one digit, or its lowest digit with
\* the flag and then the rest of it as bytes.
LEMMA VarInts ==
    /\ VarInt \in [0 .. U64Max -> Strings]
    /\ \A v \in 0 .. U64Max : VarInt[v] = IF v < Base THEN <<v>> ELSE <<Base + (v % Base)>> \o VarInt[v \div Base]
<1> DEFINE M == U64Max
           Step(f, v) == IF v < Base THEN <<v>> ELSE <<Base + (v % Base)>> \o f[v \div Base]
           Is(f, m) == \A v \in 0 .. m : f[v] = Step(f, v)
           I == {m \in 0 .. M : \E f \in [0 .. m -> Strings] : Is(f, m)}
<1>0. M \in Nat /\ Base \in Nat /\ Base >= 6 /\ U8Max = 2 * Base - 1
    BY Widths
<1> HIDE DEF M
<1>1. \A v \in Nat : v < Base => <<v>> \in Strings
    BY <1>0 DEF Strings
<1>2. \A v \in Nat : <<Base + (v % Base)>> \in Strings
    <2>1. ASSUME NEW v \in Nat PROVE Base + (v % Base) \in 0 .. U8Max
        BY <1>0, Digits
    <2> QED BY <2>1 DEF Strings
<1>3. \A s, t \in Strings : s \o t \in Strings
    BY DEF Strings
<1>4. 0 \in I
    <2>1. \E f \in [0 .. 0 -> Strings] : Is(f, 0)
        <3> DEFINE f == [v \in 0 .. 0 |-> <<v>>]
        <3>1. f \in [0 .. 0 -> Strings]
            BY <1>0, <1>1
        <3>2. Is(f, 0)
            BY <1>0
        <3> HIDE DEF f, Is
        <3> QED BY <3>1, <3>2
    <2> HIDE DEF Is
    <2> QED BY <1>0, <2>1
<1>5. ASSUME NEW m \in 1 .. M, m - 1 \in I PROVE m \in I
    <2>1. PICK f \in [0 .. m - 1 -> Strings] : Is(f, m - 1)
        BY <1>5
    <2> DEFINE x == Step(f, m)
               g == [v \in 0 .. m |-> IF v = m THEN x ELSE f[v]]
    <2>2. ASSUME NEW v \in 1 .. m, v >= Base PROVE v \div Base \in 0 .. m - 1
        <3>1. v \in Nat /\ m \in Nat
            BY <1>0
        <3> QED BY <2>2, <3>1, Digits
    <2>3. x \in Strings
        <3>0. m \in Nat /\ m \in 1 .. m
            BY <1>0
        <3>1. CASE m < Base
            BY <1>1, <3>0, <3>1
        <3>2. CASE ~(m < Base)
            <4>1. f[m \div Base] \in Strings
                <5>1. m >= Base
                    BY <1>0, <3>0, <3>2
                <5>2. m \div Base \in 0 .. m - 1
                    BY <2>2, <3>0, <5>1, Zenon
                <5> QED BY <2>1, <5>2
            <4>2. <<Base + (m % Base)>> \in Strings
                BY <1>2, <3>0
            <4>3. x = <<Base + (m % Base)>> \o f[m \div Base]
                BY <3>2
            <4> QED BY <1>3, <4>1, <4>2, <4>3
        <3> QED BY <3>1, <3>2
    <2>4. g \in [0 .. m -> Strings]
        <3> HIDE DEF x
        <3> QED BY <1>0, <2>1, <2>3
    <2>5. ASSUME NEW v \in 0 .. m PROVE g[v] = Step(g, v)
        <3>1. ASSUME v >= Base PROVE g[v \div Base] = f[v \div Base]
            <4>1. v \in 1 .. m
                BY <1>0, <3>1
            <4>2. v \div Base \in 0 .. m - 1 /\ m \in Nat
                <5>1. v \div Base \in 0 .. m - 1
                    BY <2>2, <3>1, <4>1, Zenon
                <5> QED BY <1>0, <5>1
            <4>3. v \div Base \in 0 .. m /\ v \div Base # m
                BY <4>2
            <4> QED BY <4>3
        <3>2. Step(g, v) = Step(f, v)
            <4> HIDE DEF g
            <4>1. v \in Int /\ Base \in Int
                BY <1>0
            <4>2. CASE v < Base
                BY <4>2
            <4>3. CASE ~(v < Base)
                <5>1. g[v \div Base] = f[v \div Base]
                    BY <3>1, <4>1, <4>3
                <5> QED BY <4>3, <5>1
            <4> QED BY <4>2, <4>3
        <3>3. g[v] = Step(f, v)
            <4>1. CASE v = m
                BY <4>1
            <4>2. CASE v # m
                <5>1. v \in 0 .. m - 1 /\ g[v] = f[v]
                    BY <1>0, <4>2
                <5> QED BY <2>1, <5>1
            <4> QED BY <4>1, <4>2
        <3> QED BY <3>2, <3>3
    <2>6. Is(g, m)
        BY <2>5
    <2> HIDE DEF g, Is
    <2> QED BY <2>4, <2>6
<1>6. PICK f \in [0 .. M -> Strings] : Is(f, M)
    <2>1. M \in I
        <3> HIDE DEF I
        <3>1. M \in 0 .. M
            BY <1>0
        <3> QED BY <1>0, <1>4, <1>5, <3>1, Upward
    <2> QED BY <2>1
<1> DEFINE Defines(h) == h = [v \in 0 .. M |-> Step(h, v)]
           g == CHOOSE h : Defines(h)
<1>7. VarInt = g
    BY DEF VarInt, M
<1>8. Defines(f)
    <2> HIDE DEF Step
    <2> QED BY <1>6
<1>9. Defines(g)
    <2> HIDE DEF Defines
    <2> QED BY <1>8
<1> HIDE DEF g
<1>10. \A v \in 0 .. M : g[v] = Step(g, v)
    <2> HIDE DEF Step
    <2> QED BY <1>9
<1> DEFINE K == {v \in 0 .. M : \A w \in 0 .. v : g[w] = f[w]}
<1>11. M \in K
    <2>1. 0 \in K
        <3>1. Step(g, 0) = Step(f, 0)
            BY <1>0
        <3>2. 0 \in 0 .. M
            BY <1>0
        <3>3. g[0] = f[0]
            <4> HIDE DEF Step
            <4> QED BY <1>6, <1>10, <3>1, <3>2
        <3>4. \A w \in 0 .. 0 : w = 0
            OBVIOUS
        <3> QED BY <3>2, <3>3, <3>4
    <2>2. ASSUME NEW v \in 1 .. M, v - 1 \in K PROVE v \in K
        <3>1. \A w \in 0 .. v - 1 : g[w] = f[w]
            BY <2>2
        <3>2. g[v] = f[v]
            <4>0. v \in 0 .. M
                BY <1>0
            <4>1. CASE v < Base
                <5>1. Step(g, v) = Step(f, v)
                    BY <4>1
                <5> HIDE DEF Step, K
                <5> QED BY <1>6, <1>10, <4>0, <5>1
            <4>2. CASE ~(v < Base)
                <5>1. v \in Nat /\ v >= Base /\ v \in 0 .. M
                    BY <1>0, <4>2
                <5>2. v \div Base \in 0 .. v - 1
                    BY <5>1, Digits
                <5>3. Step(g, v) = Step(f, v)
                    BY <3>1, <5>2
                <5> HIDE DEF Step, K
                <5> QED BY <1>6, <1>10, <5>1, <5>3
            <4> QED BY <4>1, <4>2
        <3>3. \A w \in 0 .. v : g[w] = f[w]
            <4>1. \A w \in 0 .. v : w \in 0 .. v - 1 \/ w = v
                BY <1>0
            <4> QED BY <3>1, <3>2, <4>1
        <3>4. v \in 0 .. M
            BY <1>0
        <3> QED BY <3>3, <3>4
    <2> HIDE DEF K
    <2>3. M \in 0 .. M
        BY <1>0
    <2> QED BY <1>0, <2>1, <2>2, <2>3, Upward
<1>12. \A v \in 0 .. M : g[v] = f[v]
    BY <1>11
<1>13. g = [v \in 0 .. M |-> g[v]]
    <2> HIDE DEF Step
    <2> QED BY <1>9
<1>14. g \in [0 .. M -> Strings]
    <2> HIDE DEF Step, K
    <2> QED BY <1>12, <1>13
<1>15. QED
    BY <1>7, <1>10, <1>14 DEF M

\* What holds of every number that follows numbers it holds of holds of all.
LEMMA Strongly ==
    ASSUME NEW n \in Nat, NEW I, \A v \in 0 .. n : (\A w \in 0 .. v - 1 : w \in I) => v \in I
    PROVE  \A v \in 0 .. n : v \in I
<1> DEFINE K == {v \in 0 .. n : \A w \in 0 .. v : w \in I}
<1>1. 0 \in K
    <2>1. 0 \in 0 .. n /\ \A w \in 0 .. 0 - 1 : w \in I
        OBVIOUS
    <2>2. 0 \in I
        BY <2>1
    <2>3. \A w \in 0 .. 0 : w = 0
        OBVIOUS
    <2> QED BY <2>1, <2>2, <2>3
<1>2. ASSUME NEW v \in 1 .. n, v - 1 \in K PROVE v \in K
    <2>1. v \in 0 .. n /\ \A w \in 0 .. v - 1 : w \in I
        BY <1>2
    <2>2. v \in I
        BY <2>1
    <2>3. \A w \in 0 .. v : w \in 0 .. v - 1 \/ w = v
        OBVIOUS
    <2> QED BY <2>1, <2>2, <2>3
<1>3. \A v \in 0 .. n : v \in K
    <2> HIDE DEF K
    <2> QED BY <1>1, <1>2, Upward
<1>4. QED
    BY <1>3

\* A byte before a list.
LEMMA Prepended ==
    ASSUME NEW b \in 0 .. U8Max, NEW s \in Strings
    PROVE  /\ <<b>> \o s \in Strings /\ Len(<<b>> \o s) = 1 + Len(s) /\ Len(s) \in Nat
           /\ (<<b>> \o s)[1] = b
           /\ \A j \in 1 .. Len(s) : (<<b>> \o s)[1 + j] = s[j]
BY DEF Strings

\* A number in bytes: all but the last carry the flag.
Ends(e) ==
    /\ e \in Strings /\ Len(e) \in Nat /\ Len(e) >= 1
    /\ \A i \in 1 .. Len(e) - 1 : e[i] >= Base
    /\ e[Len(e)] < Base

\* It takes no more bytes than the reader accepts.
LEMMA VarIntShape ==
    \A v \in 0 .. U64Max :
        /\ Ends(VarInt[v])
        /\ \A k \in 1 .. Groups : v < Weight[k] => Len(VarInt[v]) <= k
<1> DEFINE Good(v) == Ends(VarInt[v]) /\ \A k \in 1 .. Groups : v < Weight[k] => Len(VarInt[v]) <= k
           I == {v \in 0 .. U64Max : Good(v)}
<1>0. U64Max \in Nat /\ Base \in Nat /\ Base >= 6 /\ U8Max = 2 * Base - 1 /\ Groups \in Nat \ {0}
    BY Widths
<1>1. ASSUME NEW v \in 0 .. U64Max, \A w \in 0 .. v - 1 : w \in I PROVE v \in I
    <2>1. CASE v < Base
        <3>1. VarInt[v] = <<v>>
            BY <2>1, VarInts
        <3>2. <<v>> \in Strings /\ Len(<<v>>) = 1 /\ <<v>>[1] = v
            BY <1>0, <2>1 DEF Strings
        <3>3. Ends(<<v>>)
            BY <1>0, <2>1, <3>2 DEF Ends
        <3>4. \A k \in 1 .. Groups : Len(VarInt[v]) <= k
            BY <1>0, <3>1, <3>2
        <3>5. Good(v)
            BY <3>1, <3>3, <3>4
        <3> HIDE DEF Good
        <3> QED BY <3>5
    <2>2. CASE ~(v < Base)
        <3> DEFINE q == v \div Base
                   b == Base + (v % Base)
                   t == VarInt[q]
        <3>1. v \in Nat /\ v >= Base
            BY <1>0, <2>2
        <3>2. q \in 0 .. v - 1 /\ b \in Base .. U8Max /\ b \in 0 .. U8Max
            <4> DEFINE r == v % Base
            <4>1. r \in 0 .. Base - 1 /\ q \in Nat /\ q < v /\ b = Base + r
                BY <3>1, Digits
            <4> HIDE DEF q, r, b
            <4> QED BY <1>0, <3>1, <4>1
        <3>2a. \A w \in Nat : v < Base * w => q < w
            BY <3>1, Digits
        <3>3. Good(q) /\ q \in 0 .. U64Max
            <4> HIDE DEF q, Good
            <4> QED BY <1>1, <3>2
        <3>4. VarInt[v] = <<b>> \o t
            BY <2>2, VarInts
        <3> HIDE DEF q, b
        <3>5. t \in Strings /\ Len(t) \in Nat /\ Len(t) >= 1
            BY <3>3 DEF Ends
        <3> DEFINE e == <<b>> \o t
        <3> HIDE DEF t
        <3>6. e \in Strings /\ Len(e) = 1 + Len(t) /\ e[1] = b /\ \A j \in 1 .. Len(t) : e[1 + j] = t[j]
            BY <3>2, <3>5, Prepended
        <3> HIDE DEF e
        <3>7. Ends(e)
            <4>1. ASSUME NEW i \in 1 .. Len(e) - 1 PROVE e[i] >= Base
                <5>1. CASE i = 1
                    BY <1>0, <3>2, <3>6, <5>1
                <5>2. CASE i # 1
                    <6>1. i - 1 \in 1 .. Len(t) - 1 /\ i - 1 \in 1 .. Len(t) /\ 1 + (i - 1) = i
                        BY <3>5, <3>6, <5>2
                    <6>2. t[i - 1] >= Base
                        BY <3>3, <6>1 DEF Ends, t
                    <6>3. e[1 + (i - 1)] = t[i - 1]
                        BY <3>6, <6>1
                    <6> QED BY <6>1, <6>2, <6>3
                <5> QED BY <5>1, <5>2
            <4>2. e[1 + Len(t)] < Base
                <5>1. Len(t) \in 1 .. Len(t)
                    BY <3>5
                <5>2. t[Len(t)] < Base
                    BY <3>3 DEF Ends, t
                <5> QED BY <3>6, <5>1, <5>2
            <4> QED BY <3>5, <3>6, <4>1, <4>2 DEF Ends
        <3>8. ASSUME NEW k \in 1 .. Groups, v < Weight[k] PROVE Len(e) <= k
            <4>1. Weight[k] = Base * Weight[k - 1] /\ Weight[k - 1] \in Nat
                BY <1>0, Weights
            <4>2. q < Weight[k - 1]
                BY <3>2a, <3>8, <4>1
            <4>3. k - 1 \in 1 .. Groups
                <5>1. k = 1 => Weight[k - 1] = 1
                    BY Weights
                <5>2. q >= 1
                    BY <3>1, Digits DEF q
                <5> QED BY <1>0, <3>2, <4>2, <5>1, <5>2
            <4>4. Len(t) <= k - 1
                BY <3>3, <4>2, <4>3 DEF t
            <4> QED BY <3>5, <3>6, <4>4
        <3>9. Good(v)
            BY <3>4, <3>7, <3>8 DEF e
        <3> QED BY <3>9
    <2> QED BY <2>1, <2>2
<1>2. \A v \in 0 .. U64Max : v \in I
    <2> HIDE DEF I
    <2> QED BY <1>0, <1>1, Strongly
<1>3. QED
    BY <1>2

\* What the bytes from each of them on are worth.
Worth(h, s) ==
    \A i \in 1 .. Len(s) : h[i] = (s[i] % Base) + (IF i = Len(s) THEN 0 ELSE Base * h[i + 1])

\* That is how a number is read.
LEMMA NumberIsWorth ==
    ASSUME NEW s \in Strings, Len(s) >= 1
    PROVE  \E h : Worth(h, s) /\ Number(s) = h[1] % (U64Max + 1)
<1> DEFINE n == Len(s)
           Step(h, i) == (s[i] % Base) + (IF i = n THEN 0 ELSE Base * h[i + 1])
           Is(h, m) == \A i \in n - m .. n : h[i] = Step(h, i)
           I == {m \in 0 .. n - 1 : \E h \in [n - m .. n -> Int] : Is(h, m)}
<1>0. n \in Nat /\ n >= 1 /\ Base \in Nat /\ Base >= 6 /\ \A i \in 1 .. n : s[i] % Base \in Int
    <2>1. ASSUME NEW i \in 1 .. n PROVE s[i] % Base \in Int
        <3>1. s[i] \in Nat
            BY Widths DEF Strings
        <3>2. s[i] % Base \in 0 .. Base - 1
            BY <3>1, Digits
        <3> QED BY <3>2, Widths
    <2> QED BY <2>1, Widths DEF Strings
<1> HIDE DEF n
<1>1. 0 \in I
    <2>1. \E h \in [n - 0 .. n -> Int] : Is(h, 0)
        <3> DEFINE h == [i \in n .. n |-> s[n] % Base]
        <3>1. s[n] % Base \in Int
            BY <1>0
        <3>2. h \in [n - 0 .. n -> Int]
            BY <1>0, <3>1
        <3>3. Is(h, 0)
            <4>1. \A i \in n - 0 .. n : i = n /\ n \in n .. n
                BY <1>0
            <4>2. h[n] = s[n] % Base
                BY <4>1, <1>0
            <4>3. Step(h, n) = s[n] % Base
                BY <3>1
            <4> HIDE DEF Step, h
            <4> QED BY <4>1, <4>2, <4>3
        <3> HIDE DEF h, Is
        <3> QED BY <3>2, <3>3
    <2> HIDE DEF Is
    <2>2. 0 \in 0 .. n - 1
        BY <1>0
    <2> QED BY <2>1, <2>2
<1>2. ASSUME NEW m \in 1 .. n - 1, m - 1 \in I PROVE m \in I
    <2>0. m \in 0 .. n - 1 /\ m - 1 \in 0 .. n - 1 /\ n - (m - 1) = n - m + 1 /\ n - m \in 1 .. n /\ n - m # n
        BY <1>0
    <2>1. PICK h \in [n - (m - 1) .. n -> Int] : Is(h, m - 1)
        BY <1>2
    <2> DEFINE k == n - m
               x == Step(h, k)
               g == [i \in n - m .. n |-> IF i = k THEN x ELSE h[i]]
    <2>2. k \in Int /\ k + 1 \in n - (m - 1) .. n /\ k + 1 \in n - m .. n /\ k \in n - m .. n /\ k # n /\ k # k + 1
          /\ k \in 1 .. n
        BY <1>0, <2>0
    <2>3. \A i \in n - m .. n : i = k \/ i \in n - (m - 1) .. n
        BY <1>0, <2>0
    <2>4. x \in Int
        <3>1. h[k + 1] \in Int
            BY <2>1, <2>2
        <3>2. x = (s[k] % Base) + Base * h[k + 1]
            BY <2>2
        <3>3. Base * h[k + 1] \in Int
            BY <1>0, <3>1
        <3>4. s[k] % Base \in Int
            BY <1>0, <2>2
        <3> DEFINE a == s[k] % Base
                   b == Base * h[k + 1]
        <3>5. a \in Int /\ b \in Int /\ x = a + b
            BY <3>2, <3>3, <3>4
        <3> HIDE DEF a, b, x
        <3> QED BY <3>5
    <2>5. g \in [n - m .. n -> Int]
        <3> HIDE DEF x
        <3> QED BY <2>1, <2>3, <2>4
    <2>6. ASSUME NEW i \in n - m .. n PROVE g[i] = Step(g, i)
        <3>1. i # n => i + 1 \in n - m .. n /\ i + 1 # k /\ i + 1 \in n - (m - 1) .. n
            BY <1>0, <2>0
        <3>2. i # n => g[i + 1] = h[i + 1]
            <4> HIDE DEF x
            <4> QED BY <3>1
        <3>3. Step(g, i) = Step(h, i)
            <4> HIDE DEF g, x
            <4> QED BY <3>2
        <3>4. g[i] = Step(h, i)
            <4>1. CASE i = k
                BY <2>2, <4>1
            <4>2. CASE i # k
                <5>1. i \in n - (m - 1) .. n
                    BY <2>3, <4>2
                <5>2. g[i] = h[i]
                    <6> HIDE DEF x
                    <6> QED BY <4>2
                <5>3. h[i] = Step(h, i)
                    BY <2>1, <5>1
                <5> QED BY <5>2, <5>3
            <4> QED BY <4>1, <4>2
        <3> QED BY <3>3, <3>4
    <2>7. Is(g, m)
        <3> HIDE DEF g, x, Step
        <3> QED BY <2>6
    <2> HIDE DEF g, Is
    <2> QED BY <2>0, <2>5, <2>7
<1>3. PICK h \in [n - (n - 1) .. n -> Int] : Is(h, n - 1)
    <2>1. n - 1 \in I
        <3>1. n - 1 \in Nat /\ n - 1 \in 0 .. n - 1
            BY <1>0
        <3> HIDE DEF I
        <3> QED BY <1>1, <1>2, <3>1, Upward
    <2> QED BY <2>1
<1> DEFINE Defines(f) == f = [i \in 1 .. n |-> Step(f, i)]
           g == CHOOSE f : Defines(f)
<1>4. Number(s) = g[1] % (U64Max + 1)
    BY DEF Number, n
<1>5. Defines(h)
    <2>1. n - (n - 1) = 1
        BY <1>0
    <2>2. h \in [1 .. n -> Int] /\ \A i \in 1 .. n : h[i] = Step(h, i)
        <3> HIDE DEF Step
        <3> QED BY <1>3, <2>1
    <2> HIDE DEF Step
    <2> QED BY <2>2
<1>6. Defines(g)
    <2> HIDE DEF Defines
    <2> QED BY <1>5
<1> HIDE DEF g
<1>7. \A i \in 1 .. n : g[i] = Step(g, i)
    <2> HIDE DEF Step
    <2> QED BY <1>6
<1>8. Worth(g, s)
    BY <1>7 DEF Worth, n
<1>9. QED
    BY <1>4, <1>8

\* The flag is not part of a digit.
LEMMA FlagGoes == \A r \in 0 .. Base - 1 : (Base + r) % Base = r
<1>0. Base \in Nat /\ Base >= 6
    BY Widths
<1>1. ASSUME NEW r \in 0 .. Base - 1 PROVE (Base + r) % Base = r
    <2> DEFINE v == Base + r
               q == v \div Base
               d == v % Base
    <2>1. v \in Nat /\ v >= Base /\ v < Base * 2
        BY <1>0
    <2>2. q \in Nat /\ d \in 0 .. Base - 1 /\ v = Base * q + d /\ q >= 1 /\ q < 2
        <3> HIDE DEF v
        <3> QED BY <2>1, Digits
    <2> HIDE DEF q, d
    <2>3. q = 1
        BY <2>2
    <2>4. v = Base * 1 + d
        BY <2>2, <2>3
    <2>5. d = r
        BY <1>0, <2>2, <2>4
    <2> QED BY <2>5 DEF d
<1>2. QED
    BY <1>1

\* The bytes of a number are worth that number, wherever they end.
LEMMA WorthOfVarInt ==
    ASSUME NEW s, NEW n \in Nat, n = Len(s), NEW h, Worth(h, s),
           NEW v \in 0 .. U64Max, NEW a \in Nat, a + Len(VarInt[v]) = n,
           \A j \in 1 .. Len(VarInt[v]) : s[a + j] = VarInt[v][j]
    PROVE  h[a + 1] = v
<1> DEFINE At(w, b) == b + Len(VarInt[w]) = n /\ \A j \in 1 .. Len(VarInt[w]) : s[b + j] = VarInt[w][j]
           I == {w \in 0 .. U64Max : \A b \in Nat : At(w, b) => h[b + 1] = w}
<1>0. U64Max \in Nat /\ Base \in Nat /\ Base >= 6
    BY Widths
<1>1. ASSUME NEW w \in 0 .. U64Max, \A u \in 0 .. w - 1 : u \in I PROVE w \in I
    <2>1. SUFFICES ASSUME NEW b \in Nat, At(w, b) PROVE h[b + 1] = w
        OBVIOUS
    <2> DEFINE e == VarInt[w]
    <2>2. e \in Strings /\ Len(e) \in Nat /\ Len(e) >= 1
        BY VarIntShape DEF Ends
    <2>3. b + 1 \in 1 .. n /\ b + Len(e) = n /\ (b + 1 = n <=> Len(e) = 1) /\ w \in Nat
        <3>1. b + Len(e) = n
            BY <2>1
        <3> DEFINE m == Len(e)
        <3>2. m \in Nat /\ m >= 1 /\ b + m = n
            BY <2>2, <3>1
        <3> HIDE DEF m, At, I
        <3>3. b + 1 \in 1 .. n /\ (b + 1 = n <=> m = 1)
            BY <3>2
        <3>4. w \in Nat
            BY <1>0
        <3> QED BY <3>2, <3>3, <3>4 DEF m
    <2>4. h[b + 1] = (s[b + 1] % Base) + (IF b + 1 = n THEN 0 ELSE Base * h[b + 1 + 1])
        BY <2>3 DEF Worth
    <2>5. s[b + 1] = e[1]
        BY <2>1, <2>2
    <2>6. CASE w < Base
        <3>1. e = <<w>>
            BY <2>6, VarInts
        <3>2. Len(e) = 1 /\ e[1] = w
            BY <3>1
        <3>3. w % Base = w
            BY <2>3, <2>6, Digits
        <3> HIDE DEF e, I, At
        <3> QED BY <2>3, <2>4, <2>5, <3>2, <3>3
    <2>7. CASE ~(w < Base)
        <3> DEFINE q == w \div Base
                   r == w % Base
                   t == VarInt[q]
        <3>1. q \in 0 .. w - 1 /\ r \in 0 .. Base - 1 /\ w = Base * q + r /\ w >= Base
            <4>1. r \in 0 .. Base - 1 /\ q \in Nat /\ q < w /\ w = Base * q + r /\ w >= Base
                BY <1>0, <2>3, <2>7, Digits
            <4> HIDE DEF q, r
            <4> QED BY <2>3, <4>1
        <3>2. e = <<Base + r>> \o t
            BY <2>7, VarInts
        <3> HIDE DEF q, r
        <3>1a. r \in 0 .. Base - 1
            BY <3>1
        <3>3. q \in I /\ q \in 0 .. U64Max
            <4> HIDE DEF I
            <4> QED BY <1>0, <1>1, <3>1
        <3>4. t \in Strings /\ Len(t) \in Nat /\ Len(t) >= 1
            BY <3>3, VarIntShape DEF Ends
        <3>5. Base + r \in 0 .. U8Max
            BY <1>0, <3>1a, Widths
        <3> HIDE DEF t, e
        <3>6. Len(e) = 1 + Len(t) /\ e[1] = Base + r /\ \A j \in 1 .. Len(t) : e[1 + j] = t[j]
            BY <3>2, <3>4, <3>5, Prepended
        <3>7. At(q, b + 1)
            <4>1. (b + 1) + Len(t) = n
                BY <2>3, <3>4, <3>6
            <4>2. ASSUME NEW j \in 1 .. Len(t) PROVE s[b + 1 + j] = t[j]
                <5>1. 1 + j \in 1 .. Len(e) /\ b + 1 + j = b + (1 + j)
                    BY <3>4, <3>6
                <5>2. s[b + (1 + j)] = e[1 + j]
                    BY <2>1, <5>1 DEF e
                <5> QED BY <3>6, <5>1, <5>2
            <4> HIDE DEF I
            <4> QED BY <4>1, <4>2 DEF t
        <3>8. h[b + 1 + 1] = q
            <4>1. b + 1 \in Nat
                OBVIOUS
            <4> HIDE DEF At
            <4> QED BY <3>3, <3>7, <4>1
        <3>9. (Base + r) % Base = r
            BY <3>1a, FlagGoes
        <3>10. b + 1 # n
            BY <2>3, <3>4, <3>6
        <3> HIDE DEF At, I
        <3>11. h[b + 1] = r + Base * q
            BY <2>4, <2>5, <3>6, <3>8, <3>9, <3>10
        <3>12. Base * q \in Int
            BY <1>0, <3>1
        <3> DEFINE c == Base * q
        <3>13. c \in Int /\ r \in Int /\ w = c + r /\ h[b + 1] = r + c
            BY <3>1, <3>11, <3>12
        <3> HIDE DEF c
        <3> QED BY <3>13
    <2> QED BY <2>6, <2>7
<1>2. v \in I
    <2> HIDE DEF I
    <2> QED BY <1>0, <1>1, Strongly
<1>3. QED
    BY <1>2

-----------------------------------------------------------------------------
(* Reading.                                                                *)

\* Some bytes are those of an encoding, as far as there are any.
Agree(bytes, e) == \A j \in 1 .. Len(e) : j <= Len(bytes) => bytes[j] = e[j]

\* A read takes so many bytes and gives a value, or fails for want of them.
Reads(read, v, bytes, n) == read = IF n <= Len(bytes) THEN Got(v, Drop(bytes, n)) ELSE Failed

\* The beginning and the end of a list.
LEMMA Parts ==
    ASSUME NEW T, NEW s \in Seq(T), NEW n \in 0 .. Len(s)
    PROVE  /\ Len(s) \in Nat
           /\ SubSeq(s, 1, n) \in Seq(T) /\ Len(SubSeq(s, 1, n)) = n
           /\ \A j \in 1 .. n : SubSeq(s, 1, n)[j] = s[j]
           /\ SubSeq(s, n + 1, Len(s)) \in Seq(T) /\ Len(SubSeq(s, n + 1, Len(s))) = Len(s) - n
           /\ \A j \in 1 .. Len(s) - n : SubSeq(s, n + 1, Len(s))[j] = s[n + j]
OBVIOUS

\* Bytes are numbers.
LEMMA ByteIsNat ==
    ASSUME NEW s \in Strings
    PROVE  Len(s) \in Nat /\ \A j \in 1 .. Len(s) : s[j] \in Nat /\ s[j] <= U8Max
BY Widths DEF Strings

\* Lists of the same length and elements are the same.
LEMMA SameList ==
    ASSUME NEW T, NEW s \in Seq(T), NEW t \in Seq(T), Len(s) = Len(t), \A j \in 1 .. Len(t) : s[j] = t[j]
    PROVE  s = t
OBVIOUS

\* What follows the first bytes.
LEMMA Dropped ==
    ASSUME NEW bytes \in Strings, NEW n \in 0 .. Len(bytes)
    PROVE  /\ Drop(bytes, n) \in Strings /\ Len(bytes) \in Nat /\ Len(Drop(bytes, n)) = Len(bytes) - n
           /\ \A j \in 1 .. Len(bytes) - n : Drop(bytes, n)[j] = bytes[n + j]
BY Parts DEF Drop, Strings

\* A number is read back, or found to be torn.
LEMMA VarIntIsRead ==
    ASSUME NEW v \in 0 .. U64Max, NEW bytes \in Strings, Agree(bytes, VarInt[v])
    PROVE  Reads(ReadVarInt(bytes), v, bytes, Len(VarInt[v]))
<1> DEFINE e == VarInt[v]
           n == Len(e)
           I == {i \in 1 .. Len(bytes) : bytes[i] < Base}
<1>0. U64Max \in Nat /\ Base \in Nat /\ Base >= 6 /\ Groups \in Nat \ {0} /\ U64Max < Weight[Groups]
    BY Widths
<1>1. e \in Strings /\ n \in Nat /\ n >= 1 /\ (\A i \in 1 .. n - 1 : e[i] >= Base) /\ e[n] < Base
    BY VarIntShape DEF Ends
<1>2. n <= Groups
    <2>1. v < Weight[Groups] /\ Groups \in 1 .. Groups
        <3>1. Weight[Groups] \in Nat
            BY <1>0, Weights
        <3> QED BY <1>0, <3>1
    <2> QED BY <2>1, VarIntShape
<1>3. IntSize(bytes) = IF I # {} THEN Min(I) ELSE 0
    BY DEF IntSize, SelectInSeq
<1>4. \A j \in 1 .. n : j <= Len(bytes) => bytes[j] = e[j]
    BY DEF Agree
<1>5. Len(bytes) \in Nat
    BY DEF Strings
<1> HIDE DEF e
<1>6. CASE n <= Len(bytes)
    <2>1. n \in I
        <3>1. n \in 1 .. Len(bytes) /\ n \in 1 .. n
            BY <1>1, <1>5, <1>6
        <3> QED BY <1>1, <1>4, <1>6, <3>1
    <2>2. \A i \in I : n <= i
        <3>1. ASSUME NEW i \in 1 .. Len(bytes), bytes[i] < Base, i < n PROVE FALSE
            <4>1. i \in 1 .. n - 1 /\ i \in 1 .. n /\ i <= Len(bytes)
                BY <1>1, <1>5, <3>1
            <4>2. bytes[i] = e[i] /\ e[i] >= Base
                BY <1>1, <1>4, <4>1
            <4>3. e[i] \in Int
                BY <1>1, <4>1, Widths, SMTT(20) DEF Strings
            <4> QED BY <1>0, <3>1, <4>2, <4>3
        <3> QED BY <1>1, <1>5, <3>1
    <2>3. Min(I) = n
        <3>1. \A i \in I : i \in Int
            BY <1>5
        <3> HIDE DEF I
        <3>2. Min(I) \in I /\ \A i \in I : Min(I) <= i
            BY <2>1, <2>2 DEF Min
        <3>3. Min(I) <= n /\ n <= Min(I) /\ Min(I) \in Int
            BY <2>1, <2>2, <3>1, <3>2
        <3> QED BY <1>1, <3>3
    <2>4. IntSize(bytes) = n /\ n \in 1 .. Groups
        BY <1>0, <1>1, <1>2, <1>3, <2>1, <2>3
    <2>5. SubSeq(bytes, 1, n) = e
        <3>1. SubSeq(bytes, 1, n) \in Strings /\ Len(SubSeq(bytes, 1, n)) = n
              /\ \A j \in 1 .. n : SubSeq(bytes, 1, n)[j] = bytes[j]
            <4>1. n \in 0 .. Len(bytes)
                BY <1>1, <1>5, <1>6
            <4> HIDE DEF n
            <4> QED BY <4>1, Parts DEF Strings
        <3>2. \A j \in 1 .. n : SubSeq(bytes, 1, n)[j] = e[j]
            BY <1>1, <1>4, <1>5, <1>6, <3>1
        <3> QED BY <1>1, <3>1, <3>2, SameList DEF Strings
    <2>6. Number(e) = v
        <3>1. PICK h : Worth(h, e) /\ Number(e) = h[1] % (U64Max + 1)
            BY <1>1, NumberIsWorth
        <3>2. h[0 + 1] = v
            <4>1. 0 \in Nat /\ 0 + Len(VarInt[v]) = n /\ \A j \in 1 .. Len(VarInt[v]) : e[0 + j] = VarInt[v][j]
                BY <1>1 DEF e
            <4> QED BY <1>1, <3>1, <4>1, WorthOfVarInt
        <3>3. \A m, w \in Nat : w <= m => w % (m + 1) = w
            OBVIOUS
        <3>4. v % (U64Max + 1) = v
            BY <1>0, <3>3
        <3> QED BY <3>1, <3>2, <3>4
    <2>7. ReadVarInt(bytes) = Got(v, Drop(bytes, n))
        BY <2>4, <2>5, <2>6 DEF ReadVarInt
    <2> QED BY <1>6, <2>7 DEF Reads, e
<1>7. CASE ~(n <= Len(bytes))
    <2>1. ASSUME NEW i \in I PROVE FALSE
        <3>1. i \in 1 .. n - 1 /\ i \in 1 .. n /\ i <= Len(bytes)
            BY <1>1, <1>5, <1>7
        <3>2. bytes[i] = e[i] /\ e[i] >= Base /\ bytes[i] < Base
            BY <1>1, <1>4, <3>1
        <3>3. e[i] \in Int
            <4> HIDE DEF I, n
            <4>1. \A j \in 1 .. Len(e) : e[j] \in Nat
                BY <1>1, ByteIsNat
            <4> QED BY <3>1, <4>1 DEF n
        <3> QED BY <1>0, <3>2, <3>3
    <2>2. IntSize(bytes) = 0
        <3> HIDE DEF I
        <3> QED BY <1>3, <2>1
    <2>3. ReadVarInt(bytes) = Failed
        BY <2>2 DEF ReadVarInt
    <2> QED BY <1>7, <2>3 DEF Reads, e
<1>8. QED
    BY <1>6, <1>7

\* What is left after dropping twice.
LEMMA DroppedTwice ==
    ASSUME NEW bytes \in Strings, NEW x \in Nat, NEW y \in Nat, x + y <= Len(bytes)
    PROVE  Drop(Drop(bytes, x), y) = Drop(bytes, x + y)
<1> DEFINE n == Len(bytes)
           b == Drop(bytes, x)
           c == Drop(b, y)
           d == Drop(bytes, x + y)
<1>0. n \in Nat /\ x \in 0 .. n /\ x + y \in 0 .. n /\ y \in 0 .. n - x
    BY DEF Strings
<1>1. b \in Strings /\ Len(b) = n - x /\ \A j \in 1 .. n - x : b[j] = bytes[x + j]
    BY <1>0, Dropped
<1>2. d \in Strings /\ Len(d) = n - (x + y) /\ \A j \in 1 .. n - (x + y) : d[j] = bytes[x + y + j]
    BY <1>0, Dropped
<1>3. c \in Strings /\ Len(c) = n - x - y /\ \A j \in 1 .. n - x - y : c[j] = b[y + j]
    <2> HIDE DEF b, n
    <2>1. y \in 0 .. Len(b) /\ b \in Strings
        BY <1>0, <1>1
    <2>2. c \in Strings /\ Len(c) = Len(b) - y /\ \A j \in 1 .. Len(b) - y : c[j] = b[y + j]
        BY <2>1, Dropped
    <2>3. Len(b) = n - x
        BY <1>1
    <2> HIDE DEF c
    <2> QED BY <2>2, <2>3
<1> HIDE DEF n, b, c, d
<1>4. \A j \in 1 .. n - (x + y) : c[j] = d[j]
    <2>1. ASSUME NEW j \in 1 .. n - (x + y) PROVE c[j] = d[j]
        <3>1. j \in 1 .. n - x - y /\ y + j \in 1 .. n - x /\ x + (y + j) = x + y + j
            BY <1>0
        <3> QED BY <1>1, <1>2, <1>3, <3>1
    <2> QED BY <2>1
<1>5. Len(c) = Len(d)
    BY <1>0, <1>2, <1>3
<1>6. c = d
    BY <1>2, <1>3, <1>4, <1>5, SameList DEF Strings
<1>7. QED
    BY <1>6 DEF b, c, d

\* A cursor after the first so many parts of what it reads.
After(bytes, off, w, m) ==
    IF off[m + 1] <= Len(bytes) THEN Got([i \in 1 .. m |-> w[i]], Drop(bytes, off[m + 1])) ELSE Failed

\* Where a part has its place, the bytes agree with it.
LEMMA PartAgrees ==
    ASSUME NEW bytes \in Strings, NEW parts \in Seq(Strings), NEW off, Placed(parts, off),
           Agree(bytes, FlattenSeq(parts)), NEW m \in 1 .. Len(parts), off[m] <= Len(bytes)
    PROVE  Agree(Drop(bytes, off[m]), parts[m])
<1> DEFINE a == off[m]
           n == Len(bytes)
           l == Len(parts[m])
<1>0. /\ Len(parts) \in Nat /\ m \in 1 .. Len(parts) + 1 /\ m + 1 \in 1 .. Len(parts) + 1
      /\ Len(parts) + 1 \in 1 .. Len(parts) + 1 /\ m + 1 <= Len(parts) + 1
    OBVIOUS
<1>1. a \in Nat /\ n \in Nat /\ l \in Nat /\ a <= n
    BY <1>0, SMTT(20) DEF Placed, Strings
<1>2. off[m + 1] = a + l /\ a + l <= Len(FlattenSeq(parts)) /\ Len(FlattenSeq(parts)) \in Nat
    BY <1>0 DEF Placed
<1>3. \A j \in 1 .. l : FlattenSeq(parts)[a + j] = parts[m][j]
    BY DEF Placed
<1>4. /\ Len(Drop(bytes, a)) = n - a
      /\ \A j \in 1 .. n - a : Drop(bytes, a)[j] = bytes[a + j]
    <2>1. a \in 0 .. n
        BY <1>1
    <2> HIDE DEF a
    <2> QED BY <2>1, Dropped
<1>5. \A j \in 1 .. Len(FlattenSeq(parts)) : j <= n => bytes[j] = FlattenSeq(parts)[j]
    BY DEF Agree
<1> HIDE DEF a, n, l
<1>6. ASSUME NEW j \in 1 .. l, j <= n - a PROVE Drop(bytes, a)[j] = parts[m][j]
    <2>1. a + j \in 1 .. Len(FlattenSeq(parts)) /\ a + j <= n /\ j \in 1 .. n - a
        <3> DEFINE f == Len(FlattenSeq(parts))
        <3>1. f \in Nat /\ a + l <= f
            BY <1>2
        <3> HIDE DEF f
        <3>2. a + j \in 1 .. f
            BY <1>1, <1>6, <3>1
        <3>3. a + j <= n /\ j \in 1 .. n - a
            BY <1>1, <1>6
        <3> QED BY <3>2, <3>3 DEF f
    <2> QED BY <1>3, <1>4, <1>5, <2>1
<1>7. Agree(Drop(bytes, a), parts[m])
    BY <1>4, <1>6 DEF Agree, l
<1>8. QED
    BY <1>7 DEF a

\* A cursor goes on over the next part when that is read.
LEMMA CursorGoesOn ==
    ASSUME NEW bytes \in Strings, NEW parts \in Seq(Strings), NEW off, Placed(parts, off),
           Agree(bytes, FlattenSeq(parts)), NEW m \in 1 .. Len(parts), NEW w, NEW read,
           \A b \in Strings : b = After(bytes, off, w, m - 1).rest /\ Agree(b, parts[m])
                                => Reads(read, w[m], b, Len(parts[m]))
    PROVE  After(bytes, off, w, m) = Advance(After(bytes, off, w, m - 1), read)
<1> DEFINE a == off[m]
           n == Len(bytes)
           l == Len(parts[m])
           v == [i \in 1 .. m - 1 |-> w[i]]
<1>0. /\ Len(parts) \in Nat /\ m \in 1 .. Len(parts) + 1 /\ m + 1 \in 1 .. Len(parts) + 1 /\ m - 1 + 1 = m
      /\ m \in Nat /\ m - 1 \in Nat
    OBVIOUS
<1>1. a \in Nat /\ n \in Nat /\ l \in Nat /\ off[m + 1] = a + l
    <2>1. n \in Nat /\ parts[m] \in Strings /\ l \in Nat
        BY DEF Strings
    <2>2. off[m] \in Nat /\ off[m + 1] = off[m] + Len(parts[m])
        BY <1>0 DEF Placed
    <2> QED BY <2>1, <2>2
<1>2. After(bytes, off, w, m - 1) = IF a <= n THEN Got(v, Drop(bytes, a)) ELSE Failed
    BY <1>0 DEF After
<1>3. After(bytes, off, w, m) = IF a + l <= n THEN Got([i \in 1 .. m |-> w[i]], Drop(bytes, a + l)) ELSE Failed
    BY <1>1 DEF After
<1>4. Append(v, w[m]) = [i \in 1 .. m |-> w[i]]
    <2> DEFINE T == {w[i] : i \in 1 .. m}
    <2>1. v \in Seq(T) /\ Len(v) = m - 1 /\ w[m] \in T
        BY <1>0
    <2>2. [i \in 1 .. m |-> w[i]] \in Seq(T) /\ Len([i \in 1 .. m |-> w[i]]) = m
        BY <1>0
    <2>3. Append(v, w[m]) \in Seq(T) /\ Len(Append(v, w[m])) = m
        BY <1>0, <2>1
    <2>4. \A j \in 1 .. m : Append(v, w[m])[j] = w[j]
        BY <1>0, <2>1
    <2> HIDE DEF T
    <2> QED BY <2>2, <2>3, <2>4, SameList
<1>5. CASE a <= n
    <2> DEFINE b == Drop(bytes, a)
    <2>1. b \in Strings /\ Len(b) = n - a
        <3>1. a \in 0 .. n
            BY <1>1, <1>5
        <3> HIDE DEF a
        <3> QED BY <3>1, Dropped
    <2>2. Agree(b, parts[m])
        BY <1>5, PartAgrees
    <2>3. b = After(bytes, off, w, m - 1).rest
        BY <1>2, <1>5 DEF Got
    <2>4. Reads(read, w[m], b, l)
        BY <2>1, <2>2, <2>3
    <2>5. l <= Len(b) <=> a + l <= n
        <3> HIDE DEF a, n, l, b
        <3> QED BY <1>1, <1>5, <2>1
    <2>6. CASE a + l <= n
        <3>1. Drop(b, l) = Drop(bytes, a + l)
            <4> HIDE DEF a, l
            <4> QED BY <1>1, <2>6, DroppedTwice
        <3>2. read = Got(w[m], Drop(bytes, a + l))
            <4> HIDE DEF a, n, l
            <4> QED BY <2>4, <2>5, <2>6, <3>1 DEF Reads
        <3> HIDE DEF a, n, l, b, v
        <3>3. After(bytes, off, w, m - 1) = Got(v, Drop(bytes, a))
            BY <1>2, <1>5
        <3>4. Advance(Got(v, Drop(bytes, a)), read) = Got(Append(v, w[m]), Drop(bytes, a + l))
            BY <3>2 DEF Advance, Got
        <3> QED BY <1>3, <1>4, <2>6, <3>3, <3>4
    <2>7. CASE ~(a + l <= n)
        <3> HIDE DEF a, n, l, b, v
        <3> QED BY <1>2, <1>3, <1>5, <2>4, <2>5, <2>7 DEF Reads, Advance, Got, Failed
    <2> QED BY <2>6, <2>7
<1>6. CASE ~(a <= n)
    <2> HIDE DEF a, n, l, v
    <2>1. ~(a + l <= n)
        BY <1>1, <1>6
    <2> QED BY <1>2, <1>3, <1>6, <2>1 DEF Advance, Failed
<1>7. QED
    BY <1>5, <1>6

-----------------------------------------------------------------------------
(* Fields.                                                                 *)

\* A field has these bytes for a value: wherever they are, it is read from them.
Encodes(field, part, v) ==
    /\ part \in Strings
    /\ \A bytes \in Strings : Agree(bytes, part) => Reads(ReadValue(bytes, field), v, bytes, Len(part))

\* The reader of each field.
LEMMA Readers ==
    ASSUME NEW bytes
    PROVE  /\ ReadValue(bytes, "u8") = ReadU8(bytes)
           /\ ReadValue(bytes, "u32") = ReadU32(bytes)
           /\ ReadValue(bytes, "u64") = ReadVarInt(bytes)
           /\ ReadValue(bytes, "opt u8") = ReadOptU8(bytes)
           /\ ReadValue(bytes, "opt u32") = ReadOptU32(bytes)
           /\ ReadValue(bytes, "span") = ReadOptSpan(bytes)
           /\ ReadValue(bytes, "text") = ReadText(bytes)
<1>1. ReadValue(bytes, "u8") = ReadU8(bytes)
    BY Zenon DEF ReadValue
<1>2. ReadValue(bytes, "u32") = ReadU32(bytes)
    BY Zenon DEF ReadValue
<1>3. ReadValue(bytes, "u64") = ReadVarInt(bytes)
    BY Zenon DEF ReadValue
<1>4. ReadValue(bytes, "opt u8") = ReadOptU8(bytes)
    BY Zenon DEF ReadValue
<1>5. ReadValue(bytes, "opt u32") = ReadOptU32(bytes)
    BY Zenon DEF ReadValue
<1>6. ReadValue(bytes, "span") = ReadOptSpan(bytes)
    BY Zenon DEF ReadValue
<1>7. ReadValue(bytes, "text") = ReadText(bytes)
    BY Zenon DEF ReadValue
<1>8. QED
    BY <1>1, <1>2, <1>3, <1>4, <1>5, <1>6, <1>7

\* A byte.
LEMMA ByteIsRead ==
    ASSUME NEW v \in 0 .. U8Max, NEW bytes \in Strings, Agree(bytes, U8(v))
    PROVE  Reads(ReadU8(bytes), v, bytes, 1)
<1>0. U8(v) = <<v>> /\ Len(U8(v)) = 1 /\ Len(bytes) \in Nat
    BY DEF U8, Strings
<1>1. CASE bytes = <<>>
    <2>1. Len(bytes) = 0
        BY <1>1
    <2> QED BY <1>1, <2>1 DEF ReadU8, Reads
<1>2. CASE bytes # <<>>
    <2>1. Len(bytes) >= 1 /\ Head(bytes) = bytes[1] /\ Tail(bytes) = Drop(bytes, 1)
        BY <1>2 DEF Strings, Drop
    <2>2. bytes[1] = v
        <3>1. 1 \in 1 .. Len(U8(v)) /\ 1 <= Len(bytes)
            BY <1>0, <2>1
        <3> QED BY <1>0, <3>1 DEF Agree
    <2> QED BY <1>0, <1>2, <2>1, <2>2 DEF ReadU8, Reads
<1>3. QED
    BY <1>1, <1>2

\* A field of one byte.
LEMMA ByteField == \A v \in 0 .. U8Max : Encodes("u8", U8(v), v)
<1>1. ASSUME NEW v \in 0 .. U8Max PROVE Encodes("u8", U8(v), v)
    <2>1. U8(v) \in Strings /\ Len(U8(v)) = 1
        BY DEF U8, Strings
    <2> QED BY <2>1, ByteIsRead, Readers DEF Encodes
<1>2. QED
    BY <1>1

\* A byte, the largest of which stands for absence.
LEMMA OptByteField == \A v \in 0 .. U8Max - 1 \cup {None} : Encodes("opt u8", OptU8(v), v)
<1>1. ASSUME NEW v \in 0 .. U8Max - 1 \cup {None} PROVE Encodes("opt u8", OptU8(v), v)
    <2> DEFINE w == IF v = None THEN U8Max ELSE v
    <2>1. U8Max \in Nat /\ w \in 0 .. U8Max /\ OptU8(v) = U8(w) /\ (w = U8Max <=> v = None)
        <3>1. U8Max \in Nat /\ None \notin Nat
            BY Widths, AbsenceAssumption
        <3> QED BY <3>1 DEF OptU8, U8
    <2>2. U8(w) \in Strings /\ Len(U8(w)) = 1
        BY <2>1 DEF U8, Strings
    <2>3. ASSUME NEW bytes \in Strings, Agree(bytes, U8(w)) PROVE Reads(ReadOptU8(bytes), v, bytes, 1)
        <3>1. Reads(ReadU8(bytes), w, bytes, 1)
            <4> HIDE DEF w
            <4> QED BY <2>1, <2>3, ByteIsRead
        <3>2. v = IF w = U8Max THEN None ELSE w
            BY <2>1
        <3> HIDE DEF w
        <3> DEFINE r == ReadU8(bytes)
        <3>3. ReadOptU8(bytes) = IF r.ok THEN Got(IF r.value = U8Max THEN None ELSE r.value, r.rest) ELSE Failed
            BY DEF ReadOptU8, Map
        <3> HIDE DEF r
        <3>4. Reads(r, w, bytes, 1)
            BY <3>1 DEF r
        <3>5. CASE 1 <= Len(bytes)
            <4>1. r.ok /\ r.value = w /\ r.rest = Drop(bytes, 1)
                BY <3>4, <3>5 DEF Reads, Got
            <4> QED BY <3>2, <3>3, <3>5, <4>1 DEF Reads
        <3>6. CASE ~(1 <= Len(bytes))
            <4>1. ~r.ok
                BY <3>4, <3>6 DEF Reads, Failed
            <4> QED BY <3>3, <3>6, <4>1 DEF Reads
        <3> QED BY <3>5, <3>6
    <2> HIDE DEF w
    <2> QED BY <2>1, <2>2, <2>3, Readers DEF Encodes
<1>2. QED
    BY <1>1

\* Numbers that fit in 32 bits are read back.
LEMMA U32IsRead ==
    ASSUME NEW v \in 0 .. U32Max, NEW bytes \in Strings, Agree(bytes, VarInt[v])
    PROVE  /\ VarInt[v] \in Strings
           /\ Reads(ReadU32(bytes), v, bytes, Len(VarInt[v]))
<1>1. v \in 0 .. U64Max /\ v <= U32Max
    BY Widths
<1>2. Reads(ReadVarInt(bytes), v, bytes, Len(VarInt[v])) /\ VarInt[v] \in Strings
    BY <1>1, VarIntIsRead, VarInts
<1>3. QED
    BY <1>1, <1>2 DEF Reads, ReadU32, Require, Got, Failed

\* A number of up to 32 bits, one of up to 64.
LEMMA NumberFields ==
    /\ \A v \in 0 .. U32Max : Encodes("u32", VarInt[v], v)
    /\ \A v \in 0 .. U64Max : Encodes("u64", VarInt[v], v)
<1>1. ASSUME NEW v \in 0 .. U32Max PROVE Encodes("u32", VarInt[v], v)
    <2>1. v \in 0 .. U64Max
        BY Widths
    <2>2. VarInt[v] \in Strings
        BY <2>1, VarInts
    <2> QED BY <2>2, U32IsRead, Readers DEF Encodes
<1>2. ASSUME NEW v \in 0 .. U64Max PROVE Encodes("u64", VarInt[v], v)
    <2>1. VarInt[v] \in Strings
        BY VarInts
    <2> QED BY <2>1, VarIntIsRead, Readers DEF Encodes
<1>3. QED
    BY <1>1, <1>2

\* An index that may be absent, below the largest number of 32 bits.
LEMMA OptNumberField == \A v \in 0 .. U32Max - 1 \cup {None} : Encodes("opt u32", OptU32(v), v)
<1>1. ASSUME NEW v \in 0 .. U32Max - 1 \cup {None} PROVE Encodes("opt u32", OptU32(v), v)
    <2> DEFINE w == IF v = None THEN 0 ELSE v + 1
    <2>0. U32Max \in Nat /\ None \notin Nat /\ U32Max <= U64Max /\ U64Max \in Nat
        BY Widths, AbsenceAssumption
    <2>1. w \in 0 .. U32Max /\ w \in 0 .. U64Max /\ v = IF w = 0 THEN None ELSE w - 1
        BY <2>0
    <2>2. OptU32(v) = VarInt[w]
        <3>1. \A m, x \in Nat : x <= m => x % (m + 1) = x
            OBVIOUS
        <3>2. v # None => (v + 1) % (U32Max + 1) = v + 1
            BY <2>0, <3>1
        <3> QED BY <3>2 DEF OptU32
    <2>3. ASSUME NEW bytes \in Strings, Agree(bytes, VarInt[w])
          PROVE  Reads(ReadOptU32(bytes), v, bytes, Len(VarInt[w]))
        <3> HIDE DEF w
        <3>1. Reads(ReadU32(bytes), w, bytes, Len(VarInt[w]))
            BY <2>1, <2>3, U32IsRead
        <3> DEFINE r == ReadU32(bytes)
        <3>2. ReadOptU32(bytes) = IF r.ok THEN Got(IF r.value = 0 THEN None ELSE r.value - 1, r.rest) ELSE Failed
            BY DEF ReadOptU32, Map
        <3> HIDE DEF r
        <3>3. Reads(r, w, bytes, Len(VarInt[w]))
            BY <3>1 DEF r
        <3>4. CASE Len(VarInt[w]) <= Len(bytes)
            <4>1. r.ok /\ r.value = w /\ r.rest = Drop(bytes, Len(VarInt[w]))
                BY <3>3, <3>4 DEF Reads, Got
            <4> QED BY <2>1, <3>2, <3>4, <4>1 DEF Reads
        <3>5. CASE ~(Len(VarInt[w]) <= Len(bytes))
            <4>1. ~r.ok
                BY <3>3, <3>5 DEF Reads, Failed
            <4> QED BY <3>2, <3>5, <4>1 DEF Reads
        <3> QED BY <3>4, <3>5
    <2> HIDE DEF w
    <2>4. VarInt[w] \in Strings
        BY <2>1, VarInts
    <2> QED BY <2>2, <2>3, <2>4, Readers DEF Encodes
<1>2. QED
    BY <1>1

\* Bytes that agree with two lists in a row agree with the first, and what is
\* left of them with the second.
LEMMA AgreeInTurn ==
    ASSUME NEW bytes \in Strings, NEW s \in Strings, NEW t \in Strings, Agree(bytes, s \o t)
    PROVE  /\ Agree(bytes, s)
           /\ Len(s) <= Len(bytes) => Agree(Drop(bytes, Len(s)), t)
           /\ Len(s \o t) = Len(s) + Len(t) /\ s \o t \in Strings
           /\ Len(s) \in Nat /\ Len(t) \in Nat /\ Len(bytes) \in Nat
<1> DEFINE a == Len(s)
           l == Len(t)
           n == Len(bytes)
           u == s \o t
<1>1. Joins(u, s, t) /\ u \in Strings
    BY Joined DEF Strings
<1>2. n \in Nat /\ a \in Nat /\ l \in Nat /\ Len(u) = a + l
    BY <1>1 DEF Joins, Strings
<1>3. \A j \in 1 .. Len(u) : j <= n => bytes[j] = u[j]
    BY DEF Agree
<1>4. (\A j \in 1 .. a : u[j] = s[j]) /\ \A j \in 1 .. l : u[a + j] = t[j]
    BY <1>1 DEF Joins
<1>5. a <= n => /\ Len(Drop(bytes, a)) = n - a
                /\ \A j \in 1 .. n - a : Drop(bytes, a)[j] = bytes[a + j]
    <2>1. ASSUME a <= n PROVE a \in 0 .. n
        BY <1>2, <2>1
    <2> HIDE DEF a
    <2> QED BY <2>1, Dropped
<1> HIDE DEF u
<1>6. Agree(bytes, s)
    <2>1. ASSUME NEW j \in 1 .. a, j <= n PROVE bytes[j] = s[j]
        <3> HIDE DEF a, n, l
        <3> QED BY <1>2, <1>3, <1>4, <2>1
    <2> HIDE DEF n
    <2> QED BY <2>1 DEF Agree, n
<1>7. ASSUME a <= n PROVE Agree(Drop(bytes, a), t)
    <2>1. ASSUME NEW j \in 1 .. l, j <= n - a PROVE Drop(bytes, a)[j] = t[j]
        <3> HIDE DEF a, n, l
        <3>1. a + j \in 1 .. Len(u) /\ a + j <= n /\ j \in 1 .. n - a
            BY <1>2, <1>7, <2>1
        <3> QED BY <1>3, <1>4, <1>5, <1>7, <3>1
    <2> HIDE DEF a
    <2> QED BY <1>5, <1>7, <2>1 DEF Agree
<1>8. QED
    BY <1>1, <1>2, <1>6, <1>7 DEF u

\* A string of at most so many bytes.
LEMMA TextField == \A s \in Strings : Len(s) <= U32Max => Encodes("text", Text(s), s)
<1>1. ASSUME NEW s \in Strings, Len(s) <= U32Max PROVE Encodes("text", Text(s), s)
    <2> DEFINE l == Len(s)
               e == VarInt[l]
               a == Len(e)
    <2>1. l \in 0 .. U32Max /\ l \in 0 .. U64Max
        BY <1>1, Widths DEF Strings
    <2>2. e \in Strings /\ Text(s) = e \o s /\ Text(s) \in Strings
        <3>1. e \in Strings
            BY <2>1, VarInts
        <3> HIDE DEF e
        <3>2. e \o s \in Strings
            BY <3>1 DEF Strings
        <3> QED BY <3>1, <3>2 DEF Text, e
    <2>3. ASSUME NEW bytes \in Strings, Agree(bytes, e \o s)
          PROVE  Reads(ReadText(bytes), s, bytes, Len(e \o s))
        <3> DEFINE n == Len(bytes)
                   size == ReadU32(bytes)
                   tail == Drop(bytes, a)
                   gate == Require(size, LAMBDA x : x.value <= Len(x.rest))
        <3>1. /\ Agree(bytes, e) /\ Len(e \o s) = a + l
              /\ a \in Nat /\ l \in Nat /\ n \in Nat
              /\ a <= n => Agree(tail, s)
            <4> HIDE DEF e
            <4> QED BY <2>2, <2>3, AgreeInTurn
        <3>2. size = IF a <= n THEN Got(l, tail) ELSE Failed
            <4>1. Reads(ReadU32(bytes), l, bytes, Len(VarInt[l]))
                <5> HIDE DEF l
                <5> QED BY <2>1, <3>1, U32IsRead
            <4> QED BY <4>1 DEF Reads
        <3>3. ReadText(bytes) = TextOf(gate)
            BY DEF ReadText
        <3>4. gate = IF size.ok /\ size.value <= Len(size.rest) THEN size ELSE Failed
            BY DEF Require
        <3> HIDE DEF gate, size, e
        <3>5. CASE a + l <= n
            <4>1. a <= n /\ a \in 0 .. n
                <5> HIDE DEF a, l, n
                <5> QED BY <3>1, <3>5
            <4>2. tail \in Strings /\ Len(tail) = n - a
                <5> HIDE DEF a
                <5> QED BY <4>1, Dropped
            <4>3. size = Got(l, tail)
                BY <3>2, <4>1
            <4>4. l <= Len(tail) /\ l \in 0 .. Len(tail)
                <5> HIDE DEF a, l, n, tail
                <5> QED BY <3>1, <3>5, <4>2
            <4>5. gate = Got(l, tail)
                <5> HIDE DEF a, l, n, tail
                <5> QED BY <3>4, <4>3, <4>4 DEF Got
            <4>6. ReadText(bytes) = Got(SubSeq(tail, 1, l), Drop(tail, l))
                <5> HIDE DEF a, l, n, tail
                <5> QED BY <3>3, <4>5 DEF TextOf, Got
            <4>7. Drop(tail, l) = Drop(bytes, a + l)
                <5> HIDE DEF a, l
                <5> QED BY <3>1, <3>5, DroppedTwice
            <4>8. SubSeq(tail, 1, l) = s
                <5>1. /\ SubSeq(tail, 1, l) \in Strings /\ Len(SubSeq(tail, 1, l)) = l
                      /\ \A j \in 1 .. l : SubSeq(tail, 1, l)[j] = tail[j]
                    <6> HIDE DEF l, tail
                    <6> QED BY <4>2, <4>4, Parts DEF Strings
                <5>2. \A j \in 1 .. l : tail[j] = s[j]
                    <6> DEFINE k == Len(tail)
                    <6>1. \A j \in 1 .. l : j <= k => tail[j] = s[j]
                        BY <3>1, <4>1 DEF Agree
                    <6>2. l <= k /\ l \in Nat /\ k \in Nat
                        BY <4>4
                    <6> HIDE DEF k, l, tail
                    <6> QED BY <6>1, <6>2
                <5>3. \A j \in 1 .. l : SubSeq(tail, 1, l)[j] = s[j]
                    <6> HIDE DEF l, tail
                    <6> QED BY <5>1, <5>2
                <5> HIDE DEF tail
                <5> QED BY <5>1, <5>3, SameList DEF Strings
            <4> HIDE DEF a, l, n, tail
            <4> QED BY <3>1, <3>5, <4>6, <4>7, <4>8 DEF Reads, n
        <3>6. CASE ~(a + l <= n)
            <4>1. gate = Failed
                <5>1. CASE a <= n
                    <6>1. tail \in Strings /\ Len(tail) = n - a
                        <7>1. a \in 0 .. n
                            BY <3>1, <5>1
                        <7> HIDE DEF a
                        <7> QED BY <7>1, Dropped
                    <6>2. size = Got(l, tail)
                        BY <3>2, <5>1
                    <6>3. ~(l <= Len(tail))
                        <7> HIDE DEF a, l, n, tail
                        <7> QED BY <3>1, <3>6, <5>1, <6>1
                    <6> HIDE DEF a, l, n, tail
                    <6> QED BY <3>4, <6>2, <6>3 DEF Got
                <5>2. CASE ~(a <= n)
                    BY <3>2, <3>4, <5>2
                <5> QED BY <5>1, <5>2
            <4>2. ReadText(bytes) = Failed
                BY <3>3, <4>1 DEF TextOf, Failed
            <4> HIDE DEF a, l, n, tail
            <4> QED BY <3>1, <3>6, <4>2 DEF Reads, n
        <3> QED BY <3>5, <3>6
    <2> HIDE DEF e
    <2> QED BY <2>2, <2>3, Readers DEF Encodes
<1>2. QED
    BY <1>1

\* A cursor that has read nothing is at the beginning.
LEMMA CursorStarts ==
    ASSUME NEW bytes \in Strings, NEW parts \in Seq(Strings), NEW off, Placed(parts, off), NEW w
    PROVE  After(bytes, off, w, 0) = Cursor(bytes)
<1>1. off[0 + 1] = 0 /\ Len(bytes) \in Nat
    BY DEF Placed, Strings
<1>2. Drop(bytes, 0) = bytes
    BY DEF Drop, Strings
<1>3. [i \in 1 .. 0 |-> w[i]] = <<>>
    OBVIOUS
<1>4. QED
    BY <1>1, <1>2, <1>3 DEF After, Cursor

\* And one that has read everything is at the end.
LEMMA CursorEnds ==
    ASSUME NEW bytes \in Strings, NEW parts \in Seq(Strings), NEW off, Placed(parts, off), NEW w
    PROVE  Reads(After(bytes, off, w, Len(parts)), [i \in 1 .. Len(parts) |-> w[i]], bytes, Len(FlattenSeq(parts)))
BY DEF Placed, After, Reads

\* Six numbers in a row are read one after the other.
LEMMA SpanIsRead ==
    ASSUME NEW span \in Spans, NEW bytes \in Strings,
           Agree(bytes, FlattenSeq([i \in DOMAIN span |-> VarInt[span[i]]]))
    PROVE  /\ FlattenSeq([i \in DOMAIN span |-> VarInt[span[i]]]) \in Strings
           /\ Reads(Then(Then(Then(Then(Then(Then(Cursor(bytes),
                        ReadU32), ReadU32), ReadU32), ReadU32), ReadU32), ReadU32),
                    span, bytes, Len(FlattenSeq([i \in DOMAIN span |-> VarInt[span[i]]])))
<1> DEFINE parts == [i \in DOMAIN span |-> VarInt[span[i]]]
<1>1. DOMAIN span = 1 .. 6 /\ \A i \in 1 .. 6 : span[i] \in 0 .. U32Max /\ span[i] \in 0 .. U64Max
    BY Widths DEF Spans
<1>2. parts \in Seq(Strings) /\ Len(parts) = 6 /\ \A i \in 1 .. 6 : parts[i] = VarInt[span[i]]
    <2>1. \A i \in 1 .. 6 : VarInt[span[i]] \in Strings
        BY <1>1, VarInts
    <2> QED BY <1>1, <2>1
<1>3. FlattenSeq(parts) \in Strings /\ \E off : Placed(parts, off)
    <2> HIDE DEF parts
    <2> QED BY <1>2, Flattened DEF Strings
<1>4. PICK off : Placed(parts, off)
    BY <1>3
<1>5. Agree(bytes, FlattenSeq(parts))
    OBVIOUS
<1> HIDE DEF parts
<1> DEFINE C(m) == After(bytes, off, span, m)
<1>6. ASSUME NEW m \in 1 .. 6 PROVE C(m) = Then(C(m - 1), ReadU32)
    <2> DEFINE c == C(m - 1)
               read == ReadU32(c.rest)
    <2>1. ASSUME NEW b \in Strings, b = c.rest, Agree(b, parts[m])
          PROVE  Reads(read, span[m], b, Len(parts[m]))
        BY <1>1, <1>2, <2>1, U32IsRead
    <2>2. m \in 1 .. Len(parts) /\ parts \in Seq(Strings)
        BY <1>2
    <2> HIDE DEF read, c
    <2>3. \A b \in Strings : b = After(bytes, off, span, m - 1).rest /\ Agree(b, parts[m])
                                => Reads(read, span[m], b, Len(parts[m]))
        BY <2>1 DEF c
    <2>4. After(bytes, off, span, m) = Advance(After(bytes, off, span, m - 1), read)
        BY <1>4, <1>5, <2>2, <2>3, CursorGoesOn
    <2> QED BY <2>4 DEF Then, read, c
<1>7. C(0) = Cursor(bytes)
    BY <1>2, <1>4, CursorStarts
<1>8. Reads(C(6), [i \in 1 .. 6 |-> span[i]], bytes, Len(FlattenSeq(parts)))
    BY <1>2, <1>4, CursorEnds
<1>9. [i \in 1 .. 6 |-> span[i]] = span
    BY DEF Spans
<1>10. C(6) = Then(Then(Then(Then(Then(Then(Cursor(bytes), ReadU32), ReadU32), ReadU32), ReadU32), ReadU32), ReadU32)
    <2> HIDE DEF C
    <2>1. C(1) = Then(C(0), ReadU32) /\ C(2) = Then(C(1), ReadU32) /\ C(3) = Then(C(2), ReadU32)
        <3>1. 1 \in 1 .. 6 /\ 1 - 1 = 0 /\ 2 \in 1 .. 6 /\ 2 - 1 = 1 /\ 3 \in 1 .. 6 /\ 3 - 1 = 2
            OBVIOUS
        <3> QED BY <1>6, <3>1
    <2>2. C(4) = Then(C(3), ReadU32) /\ C(5) = Then(C(4), ReadU32) /\ C(6) = Then(C(5), ReadU32)
        <3>1. 4 \in 1 .. 6 /\ 4 - 1 = 3 /\ 5 \in 1 .. 6 /\ 5 - 1 = 4 /\ 6 \in 1 .. 6 /\ 6 - 1 = 5
            OBVIOUS
        <3> QED BY <1>6, <3>1
    <2> QED BY <1>7, <2>1, <2>2
<1>11. QED
    BY <1>3, <1>8, <1>9, <1>10 DEF parts

\* A span, or none.
LEMMA SpanField == \A span \in Optional(Spans) : Encodes("span", OptSpan(span), span)
<1>0. 0 \in 0 .. U8Max /\ 1 \in 0 .. U8Max /\ U8Max \in Nat
    BY Widths
<1>1. ASSUME NEW bytes \in Strings, bytes # <<>>
      PROVE  Len(bytes) \in Nat /\ Len(bytes) >= 1 /\ Head(bytes) = bytes[1] /\ Tail(bytes) = Drop(bytes, 1)
    BY <1>1 DEF Strings, Drop
<1>2. ASSUME NEW bytes \in Strings, NEW b \in 0 .. U8Max, NEW s \in Strings, bytes # <<>>, Agree(bytes, <<b>> \o s)
      PROVE  Head(bytes) = b /\ Agree(Tail(bytes), s) /\ Tail(bytes) \in Strings /\ Len(Tail(bytes)) = Len(bytes) - 1
    <2>1. <<b>> \in Strings /\ Len(<<b>>) = 1 /\ <<b>>[1] = b
        BY DEF Strings
    <2> DEFINE t == <<b>>
    <2> HIDE DEF t
    <2>2. t \in Strings /\ Len(t) = 1 /\ t[1] = b /\ Agree(bytes, t \o s)
        BY <1>2, <2>1 DEF t
    <2>3. Agree(bytes, t) /\ Agree(Drop(bytes, 1), s)
        <3>1. Agree(bytes, t) /\ (Len(t) <= Len(bytes) => Agree(Drop(bytes, Len(t)), s))
            BY <2>2, AgreeInTurn
        <3> QED BY <1>1, <1>2, <2>2, <3>1
    <2>4. bytes[1] = b
        <3>1. 1 \in 1 .. Len(t) /\ 1 <= Len(bytes)
            BY <1>1, <1>2, <2>2
        <3> QED BY <2>2, <2>3, <3>1 DEF Agree
    <2>5. 1 \in 0 .. Len(bytes)
        BY <1>1, <1>2
    <2>6. Drop(bytes, 1) \in Strings /\ Len(Drop(bytes, 1)) = Len(bytes) - 1
        BY <2>5, Dropped
    <2> QED BY <1>1, <1>2, <2>3, <2>4, <2>6
<1>3. Encodes("span", OptSpan(None), None)
    <2>1. OptSpan(None) = <<0>> /\ <<0>> \in Strings /\ Len(<<0>>) = 1
        BY <1>0 DEF OptSpan, Strings
    <2>2. ASSUME NEW bytes \in Strings, Agree(bytes, OptSpan(None)) PROVE Reads(ReadOptSpan(bytes), None, bytes, 1)
        <3>1. CASE bytes = <<>>
            <4>1. Len(bytes) = 0
                BY <3>1
            <4> QED BY <3>1, <4>1 DEF ReadOptSpan, Reads
        <3>2. CASE bytes # <<>>
            <4>1. Len(bytes) \in Nat /\ Len(bytes) >= 1 /\ Head(bytes) = bytes[1] /\ Tail(bytes) = Drop(bytes, 1)
                BY <1>1, <3>2
            <4>2. bytes[1] = 0
                <5>1. 1 \in 1 .. Len(<<0>>) /\ 1 <= Len(bytes) /\ <<0>>[1] = 0
                    BY <4>1
                <5> QED BY <2>1, <2>2, <5>1 DEF Agree
            <4>3. ReadOptSpan(bytes) = Got(None, Tail(bytes))
                BY <3>2, <4>1, <4>2 DEF ReadOptSpan
            <4> QED BY <4>1, <4>3 DEF Reads
        <3> QED BY <3>1, <3>2
    <2> QED BY <2>1, <2>2, Readers DEF Encodes
<1>4. ASSUME NEW span \in Spans, span # None PROVE Encodes("span", OptSpan(span), span)
    <2> DEFINE six == FlattenSeq([i \in DOMAIN span |-> VarInt[span[i]]])
    <2>1. six \in Strings
        <3>1. <<>> \in Strings /\ Agree(<<>>, six)
            <4>1. <<>> \in Strings /\ Len(<<>>) = 0
                BY DEF Strings
            <4>2. ASSUME NEW j \in 1 .. Len(six), j <= 0 PROVE FALSE
                <5>1. j \in Int /\ 1 <= j
                    OBVIOUS
                <5> QED BY <4>2, <5>1
            <4> QED BY <4>1, <4>2 DEF Agree
        <3> QED BY <3>1, SpanIsRead
    <2>2. ASSUME NEW bytes \in Strings, Agree(bytes, six)
          PROVE  Reads(Then(Then(Then(Then(Then(Then(Cursor(bytes),
                        ReadU32), ReadU32), ReadU32), ReadU32), ReadU32), ReadU32), span, bytes, Len(six))
        BY <2>2, SpanIsRead
    <2> HIDE DEF six
    <2>3. OptSpan(span) = <<1>> \o six
        BY <1>4 DEF OptSpan, six
    <2>4. <<1>> \o six \in Strings /\ Len(<<1>> \o six) = 1 + Len(six) /\ Len(six) \in Nat
        BY <1>0, <2>1 DEF Strings
    <2>5. ASSUME NEW bytes \in Strings, Agree(bytes, OptSpan(span))
          PROVE  Reads(ReadOptSpan(bytes), span, bytes, 1 + Len(six))
        <3>1. CASE bytes = <<>>
            <4>1. Len(bytes) = 0 /\ ~(1 + Len(six) <= 0)
                <5> DEFINE l == Len(six)
                <5>1. l \in Nat
                    BY <2>4
                <5> HIDE DEF l
                <5>2. ~(1 + l <= 0)
                    BY <5>1
                <5> QED BY <3>1, <5>2 DEF l
            <4> QED BY <3>1, <4>1 DEF ReadOptSpan, Reads
        <3>2. CASE bytes # <<>>
            <4> DEFINE t == Tail(bytes)
                       r == Then(Then(Then(Then(Then(Then(Cursor(t),
                                ReadU32), ReadU32), ReadU32), ReadU32), ReadU32), ReadU32)
                       l == Len(six)
                       n == Len(bytes)
            <4>1. Head(bytes) = 1 /\ Agree(t, six) /\ t \in Strings /\ Len(t) = n - 1
                BY <1>0, <1>2, <2>1, <2>3, <2>5, <3>2
            <4>2. Reads(r, span, t, l)
                <5> HIDE DEF t
                <5> QED BY <2>2, <4>1
            <4>3. ReadOptSpan(bytes) = r
                BY <3>2, <4>1 DEF ReadOptSpan
            <4>4. t = Drop(bytes, 1) /\ n \in Nat /\ n >= 1 /\ l \in Nat
                BY <1>1, <2>4, <3>2
            <4> HIDE DEF r, t
            <4>5. 1 + l <= n <=> l <= Len(t)
                <5> HIDE DEF l, n
                <5> QED BY <4>1, <4>4
            <4>6. 1 + l <= n => Drop(t, l) = Drop(bytes, 1 + l)
                <5> HIDE DEF l
                <5> QED BY <4>4, DroppedTwice
            <4> HIDE DEF l
            <4> QED BY <4>2, <4>3, <4>5, <4>6 DEF Reads, l
        <3> QED BY <3>1, <3>2
    <2> QED BY <2>3, <2>4, <2>5, Readers DEF Encodes
<1>5. QED
    BY <1>3, <1>4 DEF Optional

-----------------------------------------------------------------------------
(* Rows.                                                                   *)

\* The fields of a row are read one after the other.
LEMMA RowIsRead ==
    ASSUME NEW fields, NEW k \in Nat, Len(fields) = k, NEW parts \in Seq(Strings), Len(parts) = k, NEW w,
           \A i \in 1 .. k : Encodes(fields[i], parts[i], w[i]),
           NEW bytes \in Strings, Agree(bytes, FlattenSeq(parts))
    PROVE  Reads(ReadRow(bytes, fields), [i \in 1 .. k |-> w[i]], bytes, Len(FlattenSeq(parts)))
<1>1. PICK off : Placed(parts, off)
    BY Flattened DEF Strings
<1> DEFINE Step(h, n) == IF n = 0 THEN Cursor(bytes)
                         ELSE Advance(h[n - 1], ReadValue(h[n - 1].rest, fields[n]))
           Is(h) == h = [n \in 0 .. k |-> Step(h, n)]
           f == [m \in 0 .. k |-> After(bytes, off, w, m)]
           g == CHOOSE h : Is(h)
<1>2. ReadRow(bytes, fields) = g[k]
    BY DEF ReadRow, Then
<1>3. ASSUME NEW n \in 0 .. k PROVE f[n] = Step(f, n)
    <2>1. CASE n = 0
        <3>1. f[0] = After(bytes, off, w, 0)
            OBVIOUS
        <3>2. After(bytes, off, w, 0) = Cursor(bytes)
            BY <1>1, CursorStarts
        <3> QED BY <2>1, <3>1, <3>2
    <2>2. CASE n # 0
        <3>1. n \in 1 .. k /\ n - 1 \in 0 .. k
            BY <2>2
        <3>2. f[n] = After(bytes, off, w, n) /\ f[n - 1] = After(bytes, off, w, n - 1)
            BY <3>1
        <3> DEFINE c == After(bytes, off, w, n - 1)
                   read == ReadValue(c.rest, fields[n])
        <3>3. ASSUME NEW b \in Strings, b = c.rest, Agree(b, parts[n])
              PROVE  Reads(read, w[n], b, Len(parts[n]))
            <4>1. Encodes(fields[n], parts[n], w[n])
                BY <3>1
            <4> QED BY <3>3, <4>1 DEF Encodes
        <3> HIDE DEF read, c
        <3>4. \A b \in Strings : b = After(bytes, off, w, n - 1).rest /\ Agree(b, parts[n])
                                    => Reads(read, w[n], b, Len(parts[n]))
            BY <3>3 DEF c
        <3>5. n \in 1 .. Len(parts)
            BY <3>1
        <3>6. After(bytes, off, w, n) = Advance(After(bytes, off, w, n - 1), read)
            BY <1>1, <3>4, <3>5, CursorGoesOn
        <3> HIDE DEF f
        <3> QED BY <2>2, <3>2, <3>6 DEF c, read
    <2> QED BY <2>1, <2>2
<1>4. Is(f)
    <2> HIDE DEF Step
    <2> QED BY <1>3
<1>5. Is(g)
    <2> HIDE DEF Is, f
    <2> QED BY <1>4
<1>6. \A n \in 0 .. k : g[n] = Step(g, n)
    <2> HIDE DEF g, Step
    <2> QED BY <1>5
<1> HIDE DEF f, g, Is
<1> DEFINE I == {n \in 0 .. k : g[n] = f[n]}
<1>7. \A n \in 0 .. k : n \in I
    <2>1. 0 \in I
        <3>1. 0 \in 0 .. k
            OBVIOUS
        <3> QED BY <1>3, <1>6, <3>1
    <2>2. ASSUME NEW n \in 1 .. k, n - 1 \in I PROVE n \in I
        <3>1. n \in 0 .. k /\ n # 0
            OBVIOUS
        <3>2. g[n - 1] = f[n - 1]
            BY <2>2
        <3>3. g[n] = f[n]
            BY <1>3, <1>6, <3>1, <3>2
        <3> QED BY <3>1, <3>3
    <2> HIDE DEF I
    <2> QED BY <2>1, <2>2, Upward
<1>8. g[k] = After(bytes, off, w, k)
    <2>1. k \in 0 .. k
        OBVIOUS
    <2> QED BY <1>7, <2>1 DEF f
<1>9. QED
    BY <1>1, <1>2, <1>8, CursorEnds

\* A number of rows, then each of them.
LEMMA RowsAreRead ==
    ASSUME NEW fields, NEW parts \in Seq(Strings), Len(parts) <= U32Max, NEW w,
           \A i \in 1 .. Len(parts) : \A b \in Strings :
                Agree(b, parts[i]) => Reads(ReadRow(b, fields), w[i], b, Len(parts[i]))
    PROVE  /\ Rows(parts) \in Strings
           /\ \A bytes \in Strings : Agree(bytes, Rows(parts)) =>
                Reads(ReadRows(bytes, fields), [i \in 1 .. Len(parts) |-> w[i]], bytes, Len(Rows(parts)))
<1> DEFINE k == Len(parts)
           e == VarInt[k]
           all == FlattenSeq(parts)
<1>0. k \in Nat /\ k \in 0 .. U32Max /\ k \in 0 .. U64Max
    BY Widths
<1>1. all \in Strings /\ \E off : Placed(parts, off)
    BY Flattened DEF Strings
<1>2. e \in Strings
    BY <1>0, VarInts
<1>3. Rows(parts) = e \o all
    BY DEF Rows
<1>4. e \o all \in Strings
    <2> HIDE DEF e, all
    <2> QED BY <1>1, <1>2 DEF Strings
<1>5. ASSUME NEW bytes \in Strings, Agree(bytes, e \o all)
      PROVE  Reads(ReadRows(bytes, fields), [i \in 1 .. k |-> w[i]], bytes, Len(e \o all))
    <2> DEFINE a == Len(e)
               l == Len(all)
               n == Len(bytes)
               tail == Drop(bytes, a)
               count == ReadU32(bytes)
    <2> HIDE DEF e, all
    <2>1. /\ Agree(bytes, e) /\ (a <= n => Agree(tail, all)) /\ Len(e \o all) = a + l
          /\ a \in Nat /\ l \in Nat /\ n \in Nat
        BY <1>1, <1>2, <1>5, AgreeInTurn
    <2>2. count = IF a <= n THEN Got(k, tail) ELSE Failed
        <3>1. Reads(ReadU32(bytes), k, bytes, Len(VarInt[k]))
            <4> HIDE DEF k
            <4> QED BY <1>0, <2>1, U32IsRead DEF e
        <3> QED BY <3>1 DEF Reads, e
    <2>3. ReadRows(bytes, fields) = RowsOf(count, fields)
        BY DEF ReadRows
    <2> HIDE DEF count
    <2>4. CASE ~(a <= n)
        <3>1. RowsOf(count, fields) = Failed
            BY <2>2, <2>4 DEF RowsOf, Failed
        <3>2. ~(a + l <= n)
            <4> HIDE DEF a, l, n
            <4> QED BY <2>1, <2>4
        <3> QED BY <2>1, <2>3, <3>1, <3>2 DEF Reads
    <2>5. CASE a <= n
        <3>1. count.ok /\ count.value = k /\ count.rest = tail
            BY <2>2, <2>5 DEF Got
        <3>2. tail \in Strings /\ Len(tail) = n - a
            <4>1. a \in 0 .. n
                BY <2>1, <2>5
            <4> HIDE DEF a
            <4> QED BY <4>1, Dropped
        <3>3. Agree(tail, all)
            BY <2>1, <2>5
        <3>4. PICK off : Placed(parts, off)
            BY <1>1
        <3> DEFINE Step(h, m) == IF m = 0 THEN Cursor(tail) ELSE Advance(h[m - 1], ReadRow(h[m - 1].rest, fields))
                   Is(h) == h = [m \in 0 .. k |-> Step(h, m)]
                   f == [m \in 0 .. k |-> After(tail, off, w, m)]
                   g == CHOOSE h : Is(h)
        <3>5. RowsOf(count, fields) = g[k]
            <4> HIDE DEF k, tail
            <4> QED BY <3>1 DEF RowsOf, Then
        <3>6. ASSUME NEW m \in 0 .. k PROVE f[m] = Step(f, m)
            <4> HIDE DEF tail, k
            <4>1. CASE m = 0
                <5>1. f[0] = After(tail, off, w, 0)
                    BY <1>0
                <5>2. After(tail, off, w, 0) = Cursor(tail)
                    BY <3>2, <3>4, CursorStarts
                <5> QED BY <4>1, <5>1, <5>2
            <4>2. CASE m # 0
                <5>1. m \in 1 .. k /\ m - 1 \in 0 .. k /\ m \in 1 .. Len(parts)
                    BY <1>0, <4>2 DEF k
                <5>2. f[m] = After(tail, off, w, m) /\ f[m - 1] = After(tail, off, w, m - 1)
                    BY <5>1
                <5> DEFINE c == After(tail, off, w, m - 1)
                           read == ReadRow(c.rest, fields)
                <5>3. ASSUME NEW b \in Strings, b = c.rest, Agree(b, parts[m])
                      PROVE  Reads(read, w[m], b, Len(parts[m]))
                    BY <5>1, <5>3
                <5> HIDE DEF read, c
                <5>4. \A b \in Strings : b = After(tail, off, w, m - 1).rest /\ Agree(b, parts[m])
                                            => Reads(read, w[m], b, Len(parts[m]))
                    BY <5>3 DEF c
                <5>5. After(tail, off, w, m) = Advance(After(tail, off, w, m - 1), read)
                    BY <3>2, <3>3, <3>4, <5>1, <5>4, CursorGoesOn DEF all
                <5> HIDE DEF f
                <5> QED BY <4>2, <5>2, <5>5 DEF c, read
            <4> QED BY <4>1, <4>2
        <3>7. Is(f)
            <4> HIDE DEF Step
            <4> QED BY <3>6
        <3>8. Is(g)
            <4> HIDE DEF Is, f
            <4> QED BY <3>7
        <3>9. \A m \in 0 .. k : g[m] = Step(g, m)
            <4> HIDE DEF g, Step
            <4> QED BY <3>8
        <3> HIDE DEF f, g, Is
        <3> DEFINE I == {m \in 0 .. k : g[m] = f[m]}
        <3>10. \A m \in 0 .. k : m \in I
            <4> HIDE DEF tail, k
            <4>1. 0 \in I
                <5>1. 0 \in 0 .. k
                    BY <1>0
                <5> QED BY <3>6, <3>9, <5>1
            <4>2. ASSUME NEW m \in 1 .. k, m - 1 \in I PROVE m \in I
                <5>1. m \in 0 .. k /\ m # 0
                    BY <1>0
                <5>2. g[m - 1] = f[m - 1]
                    BY <4>2
                <5>3. g[m] = f[m]
                    BY <3>6, <3>9, <5>1, <5>2
                <5> QED BY <5>1, <5>3
            <4> HIDE DEF I
            <4> QED BY <1>0, <4>1, <4>2, Upward
        <3>11. g[k] = After(tail, off, w, k)
            <4>1. k \in 0 .. k
                BY <1>0
            <4> QED BY <3>10, <4>1 DEF f
        <3>12. Reads(g[k], [i \in 1 .. k |-> w[i]], tail, l)
            <4> HIDE DEF tail
            <4> QED BY <3>2, <3>4, <3>11, CursorEnds DEF all
        <3> HIDE DEF g, tail
        <3>13. a + l <= n <=> l <= Len(tail)
            <4> HIDE DEF a, l, n
            <4> QED BY <2>1, <2>5, <3>2
        <3>14. a + l <= n => Drop(tail, l) = Drop(bytes, a + l)
            <4> HIDE DEF a, l
            <4> QED BY <2>1, DroppedTwice DEF tail
        <3> HIDE DEF a, l, k
        <3> QED BY <2>1, <2>3, <3>5, <3>12, <3>13, <3>14 DEF Reads
    <2> QED BY <2>4, <2>5
<1>6. QED
    BY <1>3, <1>4, <1>5

-----------------------------------------------------------------------------
(* Tables.                                                                 *)

\* What occurs in one of two lists occurs in both together.
LEMMA JoinKeeps ==
    ASSUME NEW T, NEW s \in Seq(T), NEW t \in Seq(T)
    PROVE  s \o t \in Seq(T) /\ Range(s) \subseteq Range(s \o t) /\ Range(t) \subseteq Range(s \o t)
<1>1. Joins(s \o t, s, t) /\ s \o t \in Seq(T)
    BY Joined
<1>2. DOMAIN s = 1 .. Len(s) /\ DOMAIN t = 1 .. Len(t) /\ DOMAIN (s \o t) = 1 .. Len(s \o t)
    OBVIOUS
<1>3. \A i \in DOMAIN s : i \in DOMAIN (s \o t) /\ (s \o t)[i] = s[i]
    <2> DEFINE u == s \o t
               a == Len(s)
               b == Len(t)
               c == Len(u)
    <2>1. a \in Nat /\ b \in Nat /\ c = a + b /\ \A i \in 1 .. a : u[i] = s[i]
        BY <1>1 DEF Joins
    <2>2. DOMAIN s = 1 .. a /\ DOMAIN u = 1 .. c
        BY <1>2
    <2> HIDE DEF u, a, b, c
    <2>3. \A i \in DOMAIN s : i \in DOMAIN u /\ u[i] = s[i]
        BY <2>1, <2>2
    <2> QED BY <2>3 DEF u
<1>4. \A i \in DOMAIN t : Len(s) + i \in DOMAIN (s \o t) /\ (s \o t)[Len(s) + i] = t[i]
    BY <1>1, <1>2 DEF Joins
<1> HIDE DEF Joins
<1>5. QED
    BY <1>1, <1>3, <1>4 DEF Range

\* What occurs in one of many lists occurs in all of them together.
LEMMA FlatteningKeeps ==
    ASSUME NEW T, NEW seqs \in Seq(Seq(T)), NEW i \in DOMAIN seqs
    PROVE  FlattenSeq(seqs) \in Seq(T) /\ Range(seqs[i]) \subseteq Range(FlattenSeq(seqs))
<1> DEFINE n == Len(seqs)
           all == FlattenSeq(seqs)
           l == Len(seqs[i])
<1>1. n \in Nat /\ i \in 1 .. n /\ seqs[i] \in Seq(T) /\ DOMAIN seqs[i] = 1 .. l /\ l \in Nat
    OBVIOUS
<1>2. all \in Seq(T)
    BY Flattened
<1>3. PICK off : Placed(seqs, off)
    BY Flattened
<1>4. /\ off[i] \in Nat /\ off[i + 1] = off[i] + l /\ off[i + 1] <= Len(all) /\ Len(all) \in Nat
      /\ \A j \in 1 .. l : all[off[i] + j] = seqs[i][j]
    <2>1. i \in 1 .. n + 1 /\ i + 1 \in 1 .. n + 1 /\ n + 1 \in 1 .. n + 1 /\ i + 1 <= n + 1
        BY <1>1
    <2> HIDE DEF all
    <2>2. off[i] \in Nat /\ off[n + 1] \in Nat /\ off[i + 1] <= off[n + 1]
        BY <1>3, <2>1 DEF Placed
    <2>3. off[i + 1] = off[i] + l /\ Len(all) = off[n + 1] /\ \A j \in 1 .. l : all[off[i] + j] = seqs[i][j]
        BY <1>1, <1>3 DEF Placed, all
    <2> QED BY <2>2, <2>3
<1>5. DOMAIN all = 1 .. Len(all)
    BY <1>2
<1>6. \A j \in 1 .. l : off[i] + j \in DOMAIN all /\ all[off[i] + j] = seqs[i][j]
    <2> DEFINE a == off[i]
               b == Len(all)
    <2>1. a \in Nat /\ b \in Nat /\ a + l <= b /\ l \in Nat
        BY <1>1, <1>4
    <2> HIDE DEF a, b, l
    <2>2. \A j \in 1 .. l : a + j \in 1 .. b
        BY <2>1
    <2> QED BY <1>4, <1>5, <2>2 DEF a, b
<1> HIDE DEF all, l
<1>7. Range(seqs[i]) \subseteq Range(all)
    BY <1>1, <1>6 DEF Range
<1>8. QED
    BY <1>2, <1>7 DEF all

\* Where a value is found in a table that has it.
LEMMA Found ==
    ASSUME NEW T, NEW table \in Seq(T), NEW s \in Range(table)
    PROVE  /\ Len(table) \in Nat /\ DOMAIN table = 1 .. Len(table)
           /\ SelectInSeq(table, LAMBDA x : x = s) \in 1 .. Len(table)
           /\ table[SelectInSeq(table, LAMBDA x : x = s)] = s
<1> DEFINE I == {i \in 1 .. Len(table) : table[i] = s}
<1>0. Len(table) \in Nat /\ DOMAIN table = 1 .. Len(table)
    OBVIOUS
<1>1. SelectInSeq(table, LAMBDA x : x = s) = IF I # {} THEN Min(I) ELSE 0
    BY DEF SelectInSeq
<1>2. I # {} /\ I \in SUBSET (1 .. Len(table))
    BY DEF Range
<1>3. PICK m \in I : \A i \in I : m <= i
    <2> HIDE DEF I
    <2> QED BY <1>0, <1>2, FirstPlace
<1>4. Min(I) \in I
    <2> HIDE DEF I
    <2> QED BY <1>3 DEF Min
<1>5. SelectInSeq(table, LAMBDA x : x = s) \in I
    <2> HIDE DEF I
    <2> QED BY <1>1, <1>2, <1>4
<1>6. QED
    BY <1>0, <1>5

\* An index that fits leads back to the string it was made from.
LEMMA IndexLeadsBack ==
    ASSUME NEW table \in Seq(Strings), Len(table) <= U32Max, NEW s \in Range(table)
    PROVE  IndexOf(table, s) \in 0 .. U32Max - 1 /\ Lookup(table, IndexOf(table, s)) = s
<1> DEFINE i == SelectInSeq(table, LAMBDA x : x = s)
           n == Len(table)
<1>1. n \in Nat /\ i \in 1 .. n /\ table[i] = s /\ DOMAIN table = 1 .. n
    BY Found
<1>2. IndexOf(table, s) = (i - 1) % (U32Max + 1)
    BY DEF IndexOf
<1> HIDE DEF i, n
<1>3. U32Max \in Nat /\ n <= U32Max /\ None \notin Nat
    BY Widths, AbsenceAssumption DEF n
<1>4. IndexOf(table, s) = i - 1
    <2>1. \A m, x \in Nat : x <= m => x % (m + 1) = x
        OBVIOUS
    <2>2. i - 1 \in Nat /\ i - 1 <= U32Max
        BY <1>1, <1>3
    <2> QED BY <1>2, <1>3, <2>1, <2>2
<1>5. i - 1 \in 0 .. U32Max - 1 /\ i - 1 # None /\ (i - 1) + 1 = i
    BY <1>1, <1>3
<1>6. QED
    BY <1>1, <1>4, <1>5 DEF Lookup

\* So does a tag.
LEMMA TagLeadsBack ==
    ASSUME NEW T, NEW table \in Seq(T), Len(table) <= U8Max, NEW value \in Range(table)
    PROVE  Encode(table, value) \in 0 .. U8Max - 1 /\ Lookup(table, Encode(table, value)) = value
<1> DEFINE i == SelectInSeq(table, LAMBDA x : x = value)
           n == Len(table)
<1>1. n \in Nat /\ i \in 1 .. n /\ table[i] = value /\ DOMAIN table = 1 .. n
    BY Found
<1>2. Encode(table, value) = i - 1
    BY DEF Encode
<1> HIDE DEF i, n
<1>3. U8Max \in Nat /\ n <= U8Max /\ None \notin Nat
    BY Widths, AbsenceAssumption DEF n
<1>4. i - 1 \in 0 .. U8Max - 1 /\ i - 1 # None /\ (i - 1) + 1 = i
    BY <1>1, <1>3
<1>5. QED
    BY <1>1, <1>2, <1>4 DEF Lookup

\* What is written for a kind is what is read for it.
LEMMA TagsAgree ==
    /\ DecodedLanguage = EncodedLanguage /\ DecodedSymbolKind = EncodedSymbolKind
    /\ DecodedNodeKind = EncodedNodeKind /\ DecodedEdgeKind = EncodedEdgeKind
    /\ DecodedProvenance = EncodedProvenance /\ DecodedConfidence = EncodedConfidence
    /\ DecodedSeverity = EncodedSeverity
<1>1. DecodedLanguage = EncodedLanguage /\ DecodedSymbolKind = EncodedSymbolKind
    BY DEF DecodedLanguage, EncodedLanguage, DecodedSymbolKind, EncodedSymbolKind
<1>2. DecodedNodeKind = EncodedNodeKind /\ DecodedEdgeKind = EncodedEdgeKind
    BY DEF DecodedNodeKind, EncodedNodeKind, DecodedEdgeKind, EncodedEdgeKind
<1>3. DecodedProvenance = EncodedProvenance /\ DecodedConfidence = EncodedConfidence
    BY DEF DecodedProvenance, EncodedProvenance, DecodedConfidence, EncodedConfidence
<1>4. DecodedSeverity = EncodedSeverity
    BY DEF DecodedSeverity, EncodedSeverity
<1>5. QED
    BY <1>1, <1>2, <1>3, <1>4

\* A table is a list of what it holds.
LEMMA OwnList ==
    ASSUME NEW T, NEW table \in Seq(T)
    PROVE  table \in Seq(Range(table))
BY DEF Range

\* The kinds are in tables, with fewer entries than a byte can tell apart.
LEMMA TagTables ==
    \A table \in {EncodedLanguage, EncodedSymbolKind, EncodedNodeKind, EncodedEdgeKind,
                  EncodedProvenance, EncodedConfidence, EncodedSeverity} :
        table \in Seq(Range(table)) /\ Len(table) <= U8Max
<1>1. EncodedLanguage \in Seq(Range(EncodedLanguage))
    <2> DEFINE T == {"c", "cpp", "go", "javascript", "json", "java", "objective-c",
              "typescript", "python", "rust", "unknown"}
    <2>1. EncodedLanguage \in Seq(T)
        BY DEF EncodedLanguage
    <2> HIDE DEF T
    <2> QED BY <2>1, OwnList
<1>2. EncodedSymbolKind \in Seq(Range(EncodedSymbolKind))
    <2> DEFINE T == {"function", "method", "class", "interface", "type-alias", "enum", "variable",
              "module", "field", "unknown"}
    <2>1. EncodedSymbolKind \in Seq(T)
        BY DEF EncodedSymbolKind
    <2> HIDE DEF T
    <2> QED BY <2>1, OwnList
<1>3. EncodedNodeKind \in Seq(Range(EncodedNodeKind))
    <2> DEFINE T == {"repository", "directory", "file", "module", "symbol", "import", "export",
              "package", "external-symbol", "span", "chunk"}
    <2>1. EncodedNodeKind \in Seq(T)
        BY DEF EncodedNodeKind
    <2> HIDE DEF T
    <2> QED BY <2>1, OwnList
<1>4. EncodedEdgeKind \in Seq(Range(EncodedEdgeKind))
    <2> DEFINE T == {"contains", "defines", "imports", "exports", "calls", "references", "extends",
              "implements", "overrides", "depends-on", "tests"}
    <2>1. EncodedEdgeKind \in Seq(T)
        BY DEF EncodedEdgeKind
    <2> HIDE DEF T
    <2> QED BY <2>1, OwnList
<1>5. EncodedProvenance \in Seq(Range(EncodedProvenance))
    <2> DEFINE T == {"structural-scanner", "tree-sitter", "scip", "lsp", "compiler", "manual"}
    <2>1. EncodedProvenance \in Seq(T)
        BY DEF EncodedProvenance
    <2> HIDE DEF T
    <2> QED BY <2>1, OwnList
<1>6. EncodedConfidence \in Seq(Range(EncodedConfidence))
    <2> DEFINE T == {"medium", "low", "high", "exact"}
    <2>1. EncodedConfidence \in Seq(T)
        BY DEF EncodedConfidence
    <2> HIDE DEF T
    <2> QED BY <2>1, OwnList
<1>7. EncodedSeverity \in Seq(Range(EncodedSeverity))
    <2> DEFINE T == {"info", "warning", "error"}
    <2>1. EncodedSeverity \in Seq(T)
        BY DEF EncodedSeverity
    <2> HIDE DEF T
    <2> QED BY <2>1, OwnList
<1>8. QED
    BY <1>1, <1>2, <1>3, <1>4, <1>5, <1>6, <1>7, TagsAssumption

\* The table of some mentions holds every one of them.
LEMMA TableHolds ==
    ASSUME NEW T, NEW mentions \in Seq(T)
    PROVE  TableOf(mentions) \in Seq(T) /\ Range(mentions) \subseteq Range(TableOf(mentions))
<1> DEFINE k == Len(mentions)
           Is(h, m) == h[0] = <<>> /\ \A n \in 1 .. m : h[n] = Intern(h[n - 1], mentions[n])
           I == {m \in 0 .. k : \E h \in [0 .. m -> Seq(T)] : Is(h, m)}
<1>0. k \in Nat /\ DOMAIN mentions = 1 .. k /\ \A n \in 1 .. k : mentions[n] \in T
    OBVIOUS
<1>1. ASSUME NEW t \in Seq(T), NEW x \in T
      PROVE  /\ Intern(t, x) \in Seq(T) /\ Contains(Intern(t, x), x)
             /\ \A y : Contains(t, y) => Contains(Intern(t, x), y)
    <2>1. CASE Contains(t, x)
        BY <2>1 DEF Intern
    <2>2. CASE ~Contains(t, x)
        <3> DEFINE l == Len(t)
                   u == Append(t, x)
        <3>1. /\ Intern(t, x) = u /\ u \in Seq(T) /\ Len(u) = l + 1 /\ u[l + 1] = x /\ l \in Nat
              /\ \A i \in 1 .. l : u[i] = t[i]
            BY <2>2 DEF Intern
        <3> HIDE DEF u
        <3>2. Contains(u, x)
            <4>1. l + 1 \in 1 .. Len(u)
                BY <3>1
            <4> QED BY <3>1, <4>1 DEF Contains
        <3>3. ASSUME NEW y, Contains(t, y) PROVE Contains(u, y)
            <4>1. PICK i \in 1 .. l : t[i] = y
                BY <3>3 DEF Contains
            <4>2. i \in 1 .. Len(u) /\ u[i] = y
                BY <3>1, <4>1
            <4> QED BY <4>2 DEF Contains
        <3> QED BY <3>1, <3>2, <3>3
    <2> QED BY <2>1, <2>2
<1>2. 0 \in I
    <2> DEFINE h == [n \in 0 .. 0 |-> <<>>]
    <2>1. h \in [0 .. 0 -> Seq(T)] /\ Is(h, 0)
        OBVIOUS
    <2> HIDE DEF h, Is
    <2> QED BY <1>0, <2>1
<1>3. ASSUME NEW m \in 1 .. k, m - 1 \in I PROVE m \in I
    <2>1. PICK h \in [0 .. m - 1 -> Seq(T)] : Is(h, m - 1)
        BY <1>3
    <2> DEFINE x == Intern(h[m - 1], mentions[m])
               g == [n \in 0 .. m |-> IF n = m THEN x ELSE h[n]]
    <2>2. x \in Seq(T)
        <3>1. h[m - 1] \in Seq(T) /\ mentions[m] \in T
            BY <1>0, <2>1
        <3> QED BY <1>1, <3>1
    <2>3. g \in [0 .. m -> Seq(T)]
        <3> HIDE DEF x
        <3> QED BY <2>1, <2>2
    <2>4. Is(g, m)
        <3>1. g[0] = <<>>
            BY <2>1
        <3>2. ASSUME NEW n \in 1 .. m PROVE g[n] = Intern(g[n - 1], mentions[n])
            <4>1. g[n - 1] = h[n - 1]
                OBVIOUS
            <4>2. CASE n = m
                BY <4>1, <4>2
            <4>3. CASE n # m
                <5>1. n \in 1 .. m - 1 /\ g[n] = h[n]
                    BY <4>3
                <5> QED BY <2>1, <4>1, <5>1
            <4> QED BY <4>2, <4>3
        <3> QED BY <3>1, <3>2
    <2> HIDE DEF g, Is
    <2> QED BY <2>3, <2>4
<1>4. PICK h \in [0 .. k -> Seq(T)] : Is(h, k)
    <2>1. k \in I
        <3> HIDE DEF I, k
        <3> QED BY <1>0, <1>2, <1>3, Upward
    <2> QED BY <2>1
<1> HIDE DEF I
<1> DEFINE Defines(h0) == h0 = [n \in 0 .. k |-> IF n = 0 THEN <<>> ELSE Intern(h0[n - 1], mentions[n])]
           g == CHOOSE h0 : Defines(h0)
<1>5. TableOf(mentions) = g[k]
    BY DEF TableOf
<1>6. Defines(h)
    BY <1>4
<1>7. Defines(g)
    <2> HIDE DEF Defines
    <2> QED BY <1>6
<1> HIDE DEF g, k
<1>8. g[0] = <<>> /\ \A n \in 1 .. k : g[n] = Intern(g[n - 1], mentions[n])
    <2>1. \A n \in 0 .. k : g[n] = IF n = 0 THEN <<>> ELSE Intern(g[n - 1], mentions[n])
        BY <1>7
    <2> QED BY <1>0, <2>1
<1> DEFINE J == {n \in 0 .. k : g[n] \in Seq(T) /\ \A i \in 1 .. n : Contains(g[n], mentions[i])}
<1>9. \A n \in 0 .. k : n \in J
    <2>1. 0 \in J
        <3>1. g[0] \in Seq(T) /\ 0 \in 0 .. k
            BY <1>0, <1>8
        <3>2. \A i \in 1 .. 0 : FALSE
            OBVIOUS
        <3> QED BY <3>1, <3>2
    <2>2. ASSUME NEW n \in 1 .. k, n - 1 \in J PROVE n \in J
        <3>1. g[n - 1] \in Seq(T) /\ mentions[n] \in T /\ g[n] = Intern(g[n - 1], mentions[n])
            BY <1>0, <1>8, <2>2
        <3>2. \A i \in 1 .. n - 1 : Contains(g[n - 1], mentions[i])
            BY <2>2
        <3>3. g[n] \in Seq(T) /\ \A i \in 1 .. n : Contains(g[n], mentions[i])
            <4>1. g[n] \in Seq(T) /\ Contains(g[n], mentions[n])
                BY <1>1, <3>1
            <4>2. ASSUME NEW i \in 1 .. n, i # n PROVE Contains(g[n], mentions[i])
                <5>1. i \in 1 .. n - 1
                    BY <1>0, <4>2
                <5> QED BY <1>1, <3>1, <3>2, <5>1
            <4> QED BY <4>1, <4>2
        <3>4. n \in 0 .. k
            OBVIOUS
        <3> QED BY <3>3, <3>4
    <2> HIDE DEF J
    <2> QED BY <1>0, <2>1, <2>2, Upward
<1>10. g[k] \in Seq(T) /\ \A i \in 1 .. k : Contains(g[k], mentions[i])
    <2>1. k \in J
        BY <1>0, <1>9
    <2> QED BY <2>1
<1>11. Range(mentions) \subseteq Range(g[k])
    <2>1. ASSUME NEW i \in 1 .. k PROVE mentions[i] \in Range(g[k])
        <3>1. PICK j \in 1 .. Len(g[k]) : g[k][j] = mentions[i]
            BY <1>10 DEF Contains
        <3>2. j \in DOMAIN g[k]
            BY <1>10
        <3> QED BY <3>1, <3>2 DEF Range
    <2> QED BY <1>0, <2>1 DEF Range
<1>12. QED
    BY <1>5, <1>10, <1>11

\* The strings that are looked up later.
Named(values) == values \ {None}

\* A string that may be absent, as a list.
LEMMA OptionHolds ==
    ASSUME NEW v \in Optional(Strings)
    PROVE  Option(v) \in Seq(Strings) /\ Named({v}) \subseteq Range(Option(v))
<1>1. CASE v = None
    <2>1. Option(v) = <<>> /\ Option(v) \in Seq(Strings) /\ Named({v}) = {}
        BY <1>1 DEF Option, Named
    <2> QED BY <2>1
<1>2. CASE v # None
    <2>1. Option(v) = <<v>> /\ v \in Strings /\ Named({v}) = {v}
        BY <1>2 DEF Option, Named, Optional
    <2>2. 1 \in DOMAIN <<v>> /\ <<v>>[1] = v /\ <<v>> \in Seq(Strings)
        BY <2>1
    <2>3. v \in Range(<<v>>)
        BY <2>2 DEF Range
    <2> QED BY <2>1, <2>2, <2>3
<1>3. QED
    BY <1>1, <1>2

\* A list stays one when some of its elements are replaced.
LEMMA Replaced ==
    ASSUME NEW T, NEW s \in Seq(T), NEW old, NEW new \in T
    PROVE  ReplaceAll(s, old, new) \in Seq(T)
BY DEF ReplaceAll

\* The path that is written is a string.
LEMMA LossyIsString == \A path \in Strings : Lossy(path) \in Strings
BY Replaced, Widths DEF Strings, Lossy

\* What a node, an edge and a diagnostic mention.
NodeMentions(n) == <<n.id>> \o Option(n.name) \o Option(n.qualified_name) \o Option(n.file_id)
EdgeMentions(e) == <<e.id, e.from, e.to>>
DiagnosticMentions(d) == <<d.message>> \o Option(d.file_id)

\* And that these are lists of strings with what is looked up later.
LEMMA FactMentions ==
    /\ \A n \in Nodes : /\ NodeMentions(n) \in Seq(Strings)
                        /\ Named({n.name, n.qualified_name, n.file_id}) \cup {n.id} \subseteq Range(NodeMentions(n))
    /\ \A e \in Edges : EdgeMentions(e) \in Seq(Strings) /\ {e.id, e.from, e.to} \subseteq Range(EdgeMentions(e))
    /\ \A d \in Diagnostics : /\ DiagnosticMentions(d) \in Seq(Strings)
                              /\ d.message \in Range(DiagnosticMentions(d))
                              /\ Named({d.file_id}) \subseteq Range(DiagnosticMentions(d))
<1>1. ASSUME NEW s \in Strings PROVE <<s>> \in Seq(Strings) /\ s \in Range(<<s>>)
    <2>1. 1 \in DOMAIN <<s>> /\ <<s>>[1] = s /\ <<s>> \in Seq(Strings)
        OBVIOUS
    <2> QED BY <2>1 DEF Range
<1>2. ASSUME NEW n \in Nodes
      PROVE  /\ NodeMentions(n) \in Seq(Strings)
             /\ Named({n.name, n.qualified_name, n.file_id}) \cup {n.id} \subseteq Range(NodeMentions(n))
    <2> DEFINE a == <<n.id>>
               b == Option(n.name)
               c == Option(n.qualified_name)
               d == Option(n.file_id)
    <2>1. a \in Seq(Strings) /\ n.id \in Range(a)
        BY <1>1 DEF Nodes
    <2>2. b \in Seq(Strings) /\ Named({n.name}) \subseteq Range(b)
        BY OptionHolds DEF Nodes
    <2>3. c \in Seq(Strings) /\ Named({n.qualified_name}) \subseteq Range(c)
        BY OptionHolds DEF Nodes
    <2>4. d \in Seq(Strings) /\ Named({n.file_id}) \subseteq Range(d)
        BY OptionHolds DEF Nodes
    <2>5. NodeMentions(n) = a \o b \o c \o d
        BY DEF NodeMentions
    <2> HIDE DEF a, b, c, d
    <2>6. a \o b \in Seq(Strings) /\ Range(a) \subseteq Range(a \o b) /\ Range(b) \subseteq Range(a \o b)
        BY <2>1, <2>2, JoinKeeps
    <2> DEFINE ab == a \o b
    <2> HIDE DEF ab
    <2>7. ab \o c \in Seq(Strings) /\ Range(ab) \subseteq Range(ab \o c) /\ Range(c) \subseteq Range(ab \o c)
        BY <2>3, <2>6, JoinKeeps DEF ab
    <2> DEFINE abc == ab \o c
    <2> HIDE DEF abc
    <2>8. abc \o d \in Seq(Strings) /\ Range(abc) \subseteq Range(abc \o d) /\ Range(d) \subseteq Range(abc \o d)
        BY <2>4, <2>7, JoinKeeps DEF abc
    <2>9. NodeMentions(n) = abc \o d
        BY <2>5 DEF ab, abc
    <2>10. /\ Range(a) \subseteq Range(abc \o d) /\ Range(b) \subseteq Range(abc \o d)
           /\ Range(c) \subseteq Range(abc \o d)
        BY <2>6, <2>7, <2>8 DEF ab, abc
    <2> HIDE DEF NodeMentions
    <2> QED BY <2>1, <2>2, <2>3, <2>4, <2>8, <2>9, <2>10 DEF Named
<1>3. ASSUME NEW e \in Edges
      PROVE  EdgeMentions(e) \in Seq(Strings) /\ {e.id, e.from, e.to} \subseteq Range(EdgeMentions(e))
    <2>1. e.id \in Strings /\ e.from \in Strings /\ e.to \in Strings
        BY DEF Edges
    <2> DEFINE t == <<e.id, e.from, e.to>>
    <2>2. /\ t \in Seq(Strings) /\ {1, 2, 3} \subseteq DOMAIN t
          /\ t[1] = e.id /\ t[2] = e.from /\ t[3] = e.to
        BY <2>1
    <2> HIDE DEF t
    <2>3. {e.id, e.from, e.to} \subseteq Range(t)
        BY <2>2 DEF Range
    <2> QED BY <2>2, <2>3 DEF EdgeMentions, t
<1>4. ASSUME NEW d \in Diagnostics
      PROVE  /\ DiagnosticMentions(d) \in Seq(Strings)
             /\ d.message \in Range(DiagnosticMentions(d))
             /\ Named({d.file_id}) \subseteq Range(DiagnosticMentions(d))
    <2> DEFINE a == <<d.message>>
               b == Option(d.file_id)
    <2>1. a \in Seq(Strings) /\ d.message \in Range(a)
        BY <1>1 DEF Diagnostics
    <2>2. b \in Seq(Strings) /\ Named({d.file_id}) \subseteq Range(b)
        BY OptionHolds DEF Diagnostics
    <2> HIDE DEF a, b
    <2>3. a \o b \in Seq(Strings) /\ Range(a) \subseteq Range(a \o b) /\ Range(b) \subseteq Range(a \o b)
        BY <2>1, <2>2, JoinKeeps
    <2>4. DiagnosticMentions(d) = a \o b
        BY DEF DiagnosticMentions, a, b
    <2> HIDE DEF DiagnosticMentions
    <2> QED BY <2>1, <2>2, <2>3, <2>4
<1>5. QED
    BY <1>2, <1>3, <1>4

\* A table has every string a partition looks up in it.
Covers(table, p) ==
    /\ {p.file_id, Lossy(p.path), p.fingerprint} \subseteq Range(table)
    /\ \A i \in DOMAIN p.nodes :
            Named({p.nodes[i].name, p.nodes[i].qualified_name, p.nodes[i].file_id}) \cup {p.nodes[i].id}
                \subseteq Range(table)
    /\ \A i \in DOMAIN p.edges : {p.edges[i].id, p.edges[i].from, p.edges[i].to} \subseteq Range(table)
    /\ \A i \in DOMAIN p.diagnostics :
            Named({p.diagnostics[i].file_id}) \cup {p.diagnostics[i].message} \subseteq Range(table)

\* The string table of a partition does.
LEMMA StringTableCovers ==
    ASSUME NEW p \in Partitions
    PROVE  StringTable(p) \in Seq(Strings) /\ Covers(StringTable(p), p)
<1> DEFINE A == <<p.file_id, Lossy(p.path), p.fingerprint>>
           N == [i \in DOMAIN p.nodes |-> NodeMentions(p.nodes[i])]
           E == [i \in DOMAIN p.edges |-> EdgeMentions(p.edges[i])]
           D == [i \in DOMAIN p.diagnostics |-> DiagnosticMentions(p.diagnostics[i])]
           all == A \o FlattenSeq(N) \o FlattenSeq(E) \o FlattenSeq(D)
<1>1. Mentions(p) = all
    BY DEF Mentions, NodeMentions, EdgeMentions, DiagnosticMentions
<1>2. A \in Seq(Strings) /\ {p.file_id, Lossy(p.path), p.fingerprint} \subseteq Range(A)
    <2>1. p.file_id \in Strings /\ p.path \in Strings /\ p.fingerprint \in Strings
        BY DEF Partitions
    <2>2. Lossy(p.path) \in Strings
        BY <2>1, LossyIsString
    <2>3. /\ A \in Seq(Strings) /\ {1, 2, 3} \subseteq DOMAIN A
          /\ A[1] = p.file_id /\ A[2] = Lossy(p.path) /\ A[3] = p.fingerprint
        BY <2>1, <2>2
    <2> HIDE DEF A
    <2> QED BY <2>3 DEF Range
<1>3. /\ p.nodes \in Seq(Nodes) /\ p.edges \in Seq(Edges) /\ p.diagnostics \in Seq(Diagnostics)
      /\ \A i \in DOMAIN p.nodes : p.nodes[i] \in Nodes
      /\ \A i \in DOMAIN p.edges : p.edges[i] \in Edges
      /\ \A i \in DOMAIN p.diagnostics : p.diagnostics[i] \in Diagnostics
    <2>1. p.nodes \in Seq(Nodes) /\ p.edges \in Seq(Edges) /\ p.diagnostics \in Seq(Diagnostics)
        BY DEF Partitions
    <2> HIDE DEF Nodes, Edges, Diagnostics
    <2> QED BY <2>1
<1>4. N \in Seq(Seq(Strings)) /\ DOMAIN N = DOMAIN p.nodes
    <2>1. DOMAIN p.nodes = 1 .. Len(p.nodes) /\ Len(p.nodes) \in Nat
        BY <1>3
    <2>2. \A i \in 1 .. Len(p.nodes) : NodeMentions(p.nodes[i]) \in Seq(Strings)
        BY <1>3, <2>1, FactMentions
    <2> QED BY <2>1, <2>2
<1>5. E \in Seq(Seq(Strings)) /\ DOMAIN E = DOMAIN p.edges
    <2>1. DOMAIN p.edges = 1 .. Len(p.edges) /\ Len(p.edges) \in Nat
        BY <1>3
    <2>2. \A i \in 1 .. Len(p.edges) : EdgeMentions(p.edges[i]) \in Seq(Strings)
        BY <1>3, <2>1, FactMentions
    <2> QED BY <2>1, <2>2
<1>6. D \in Seq(Seq(Strings)) /\ DOMAIN D = DOMAIN p.diagnostics
    <2>1. DOMAIN p.diagnostics = 1 .. Len(p.diagnostics) /\ Len(p.diagnostics) \in Nat
        BY <1>3
    <2>2. \A i \in 1 .. Len(p.diagnostics) : DiagnosticMentions(p.diagnostics[i]) \in Seq(Strings)
        BY <1>3, <2>1, FactMentions
    <2> QED BY <2>1, <2>2
<1>7. /\ \A i \in DOMAIN p.nodes : N[i] = NodeMentions(p.nodes[i])
      /\ \A i \in DOMAIN p.edges : E[i] = EdgeMentions(p.edges[i])
      /\ \A i \in DOMAIN p.diagnostics : D[i] = DiagnosticMentions(p.diagnostics[i])
    OBVIOUS
<1> HIDE DEF A, N, E, D
<1>8. /\ FlattenSeq(N) \in Seq(Strings) /\ FlattenSeq(E) \in Seq(Strings) /\ FlattenSeq(D) \in Seq(Strings)
    BY <1>4, <1>5, <1>6, Flattened
<1> DEFINE n == FlattenSeq(N)
           e == FlattenSeq(E)
           d == FlattenSeq(D)
<1>9. /\ \A i \in DOMAIN p.nodes : Range(NodeMentions(p.nodes[i])) \subseteq Range(n)
      /\ \A i \in DOMAIN p.edges : Range(EdgeMentions(p.edges[i])) \subseteq Range(e)
      /\ \A i \in DOMAIN p.diagnostics : Range(DiagnosticMentions(p.diagnostics[i])) \subseteq Range(d)
    <2>1. \A i \in DOMAIN N : Range(N[i]) \subseteq Range(n)
        BY <1>4, FlatteningKeeps
    <2>2. \A i \in DOMAIN E : Range(E[i]) \subseteq Range(e)
        BY <1>5, FlatteningKeeps
    <2>3. \A i \in DOMAIN D : Range(D[i]) \subseteq Range(d)
        BY <1>6, FlatteningKeeps
    <2> HIDE DEF n, e, d
    <2> QED BY <1>4, <1>5, <1>6, <1>7, <2>1, <2>2, <2>3
<1> HIDE DEF n, e, d
<1>10. n \in Seq(Strings) /\ e \in Seq(Strings) /\ d \in Seq(Strings)
    BY <1>8 DEF n, e, d
<1> DEFINE an == A \o n
           ane == an \o e
<1>11. an \in Seq(Strings) /\ Range(A) \subseteq Range(an) /\ Range(n) \subseteq Range(an)
    BY <1>2, <1>10, JoinKeeps
<1> HIDE DEF an
<1>12. ane \in Seq(Strings) /\ Range(an) \subseteq Range(ane) /\ Range(e) \subseteq Range(ane)
    BY <1>10, <1>11, JoinKeeps
<1> HIDE DEF ane
<1>13. ane \o d \in Seq(Strings) /\ Range(ane) \subseteq Range(ane \o d) /\ Range(d) \subseteq Range(ane \o d)
    BY <1>10, <1>12, JoinKeeps
<1>14. all = ane \o d
    BY DEF an, ane, n, e, d
<1> HIDE DEF all
<1>15. StringTable(p) \in Seq(Strings) /\ Range(all) \subseteq Range(StringTable(p))
    <2>1. all \in Seq(Strings)
        BY <1>13, <1>14
    <2> QED BY <1>1, <2>1, TableHolds DEF StringTable
<1> DEFINE R == Range(StringTable(p))
<1>16. Range(A) \subseteq R /\ Range(n) \subseteq R /\ Range(e) \subseteq R /\ Range(d) \subseteq R
    BY <1>11, <1>12, <1>13, <1>14, <1>15
<1> HIDE DEF R
<1>17. {p.file_id, Lossy(p.path), p.fingerprint} \subseteq R
    BY <1>2, <1>16
<1>18. ASSUME NEW i \in DOMAIN p.nodes
       PROVE  Named({p.nodes[i].name, p.nodes[i].qualified_name, p.nodes[i].file_id}) \cup {p.nodes[i].id} \subseteq R
    <2>1. Named({p.nodes[i].name, p.nodes[i].qualified_name, p.nodes[i].file_id}) \cup {p.nodes[i].id}
            \subseteq Range(NodeMentions(p.nodes[i]))
        BY <1>3, FactMentions
    <2>2. Range(NodeMentions(p.nodes[i])) \subseteq R
        BY <1>9, <1>16
    <2> QED BY <2>1, <2>2
<1>19. ASSUME NEW i \in DOMAIN p.edges PROVE {p.edges[i].id, p.edges[i].from, p.edges[i].to} \subseteq R
    <2>1. {p.edges[i].id, p.edges[i].from, p.edges[i].to} \subseteq Range(EdgeMentions(p.edges[i]))
        BY <1>3, FactMentions
    <2> HIDE DEF EdgeMentions
    <2> QED BY <1>9, <1>16, <2>1
<1>20. ASSUME NEW i \in DOMAIN p.diagnostics
       PROVE  Named({p.diagnostics[i].file_id}) \cup {p.diagnostics[i].message} \subseteq R
    <2>1. /\ p.diagnostics[i].message \in Range(DiagnosticMentions(p.diagnostics[i]))
          /\ Named({p.diagnostics[i].file_id}) \subseteq Range(DiagnosticMentions(p.diagnostics[i]))
        BY <1>3, FactMentions
    <2> QED BY <1>9, <1>16, <2>1
<1>21. QED
    BY <1>15, <1>17, <1>18, <1>19, <1>20 DEF Covers, R

-----------------------------------------------------------------------------
(* Facts.                                                                  *)

\* An index into the string table is a field that leads back to the string.
LEMMA IndexFields ==
    ASSUME NEW table \in Seq(Strings), Len(table) <= U32Max
    PROVE  /\ \A s \in Range(table) : /\ Encodes("u32", VarInt[IndexOf(table, s)], IndexOf(table, s))
                                      /\ Lookup(table, IndexOf(table, s)) = s
           /\ \A s : Named({s}) \subseteq Range(table) =>
                        /\ Encodes("opt u32", OptU32(OptIndexOf(table, s)), OptIndexOf(table, s))
                        /\ Lookup(table, OptIndexOf(table, s)) = s
<1>1. ASSUME NEW s \in Range(table)
      PROVE  /\ Encodes("u32", VarInt[IndexOf(table, s)], IndexOf(table, s))
             /\ Encodes("opt u32", OptU32(IndexOf(table, s)), IndexOf(table, s))
             /\ Lookup(table, IndexOf(table, s)) = s
    <2> DEFINE i == IndexOf(table, s)
    <2>1. i \in 0 .. U32Max - 1 /\ Lookup(table, i) = s
        BY IndexLeadsBack
    <2> HIDE DEF i
    <2>2. i \in 0 .. U32Max /\ i \in 0 .. U32Max - 1 \cup {None}
        BY <2>1, Widths
    <2>3. Encodes("u32", VarInt[i], i) /\ Encodes("opt u32", OptU32(i), i)
        BY <2>2, NumberFields, OptNumberField
    <2> QED BY <2>1, <2>3 DEF i
<1>2. ASSUME NEW s, Named({s}) \subseteq Range(table)
      PROVE  /\ Encodes("opt u32", OptU32(OptIndexOf(table, s)), OptIndexOf(table, s))
             /\ Lookup(table, OptIndexOf(table, s)) = s
    <2>1. CASE s = None
        <3>1. OptIndexOf(table, s) = None /\ Lookup(table, None) = None
            BY <2>1 DEF OptIndexOf, Lookup
        <3>2. Encodes("opt u32", OptU32(None), None)
            BY OptNumberField
        <3> QED BY <2>1, <3>1, <3>2
    <2>2. CASE s # None
        <3>1. s \in Range(table) /\ OptIndexOf(table, s) = IndexOf(table, s)
            BY <1>2, <2>2 DEF Named, OptIndexOf
        <3> QED BY <1>1, <3>1
    <2> QED BY <2>1, <2>2
<1>3. QED
    BY <1>1, <1>2

\* A tag is a field that leads back to the kind.
LEMMA TagFields ==
    ASSUME NEW T, NEW table \in Seq(T), Len(table) <= U8Max
    PROVE  /\ \A v \in Range(table) : /\ Encodes("u8", U8(Encode(table, v)), Encode(table, v))
                                      /\ Encodes("opt u8", OptU8(Encode(table, v)), Encode(table, v))
                                      /\ Encode(table, v) # None
                                      /\ Lookup(table, Encode(table, v)) = v
           /\ \A v \in Optional(Range(table)) :
                    /\ Encodes("opt u8", OptU8(EncodeOption(table, v)), EncodeOption(table, v))
                    /\ Lookup(table, EncodeOption(table, v)) = v
           /\ Encodes("opt u8", OptU8(None), None)
<1>0. Encodes("opt u8", OptU8(None), None)
    BY OptByteField
<1>1. ASSUME NEW v \in Range(table)
      PROVE  /\ Encodes("u8", U8(Encode(table, v)), Encode(table, v))
             /\ Encodes("opt u8", OptU8(Encode(table, v)), Encode(table, v))
             /\ Encode(table, v) # None
             /\ Lookup(table, Encode(table, v)) = v
    <2> DEFINE i == Encode(table, v)
    <2>1. i \in 0 .. U8Max - 1 /\ Lookup(table, i) = v
        BY TagLeadsBack
    <2> HIDE DEF i
    <2>2. i \in 0 .. U8Max /\ i \in 0 .. U8Max - 1 \cup {None} /\ i # None
        BY <2>1, Widths, AbsenceAssumption
    <2>3. Encodes("u8", U8(i), i) /\ Encodes("opt u8", OptU8(i), i)
        BY <2>2, ByteField, OptByteField
    <2> QED BY <2>1, <2>2, <2>3 DEF i
<1>2. ASSUME NEW v \in Optional(Range(table))
      PROVE  /\ Encodes("opt u8", OptU8(EncodeOption(table, v)), EncodeOption(table, v))
             /\ Lookup(table, EncodeOption(table, v)) = v
    <2>1. CASE v = None
        <3>1. EncodeOption(table, v) = None /\ Lookup(table, None) = None
            BY <2>1 DEF EncodeOption, Lookup
        <3> QED BY <1>0, <2>1, <3>1
    <2>2. CASE v # None
        <3>1. v \in Range(table) /\ EncodeOption(table, v) = Encode(table, v)
            BY <2>2 DEF Optional, EncodeOption
        <3> QED BY <1>1, <3>1
    <2> QED BY <2>1, <2>2
<1>3. QED
    BY <1>0, <1>1, <1>2

\* The numbers a node is stored as.
NodeRow(n, table, language) ==
    <<IndexOf(table, n.id), Encode(EncodedNodeKind, n.kind),
      IF n.language = language THEN None ELSE Encode(EncodedLanguage, n.language),
      OptIndexOf(table, n.name), OptIndexOf(table, n.qualified_name),
      EncodeOption(EncodedSymbolKind, n.symbol_kind), OptIndexOf(table, n.file_id),
      n.span, Encode(EncodedProvenance, n.provenance), Encode(EncodedConfidence, n.confidence)>>
EdgeRow(e, table) ==
    <<IndexOf(table, e.id), Encode(EncodedEdgeKind, e.kind), IndexOf(table, e.from), IndexOf(table, e.to),
      e.span, Encode(EncodedProvenance, e.provenance), Encode(EncodedConfidence, e.confidence)>>
DiagnosticRow(d, table) ==
    <<Encode(EncodedSeverity, d.severity), IndexOf(table, d.message), OptIndexOf(table, d.file_id), d.span>>
HeaderRow(p, table) ==
    <<IndexOf(table, p.file_id), IndexOf(table, Lossy(p.path)), Encode(EncodedLanguage, p.language),
      IndexOf(table, p.fingerprint), p.parse_time, p.extraction_time, 0>>

\* Some bytes are read as a row of values, or found to be torn.
IsRow(fields, part, row) ==
    /\ part \in Strings
    /\ \A bytes \in Strings : Agree(bytes, part) => Reads(ReadRow(bytes, fields), row, bytes, Len(part))

\* A node goes into its row and comes back from it.
LEMMA NodeIsRead ==
    ASSUME NEW table \in Seq(Strings), Len(table) <= U32Max, NEW language, NEW n \in Nodes,
           Named({n.name, n.qualified_name, n.file_id}) \cup {n.id} \subseteq Range(table)
    PROVE  /\ IsRow(NodeFields, NodeBytes(n, table, language), NodeRow(n, table, language))
           /\ ExpandNode(NodeRow(n, table, language), table, language) = n
<1> DEFINE w == NodeRow(n, table, language)
           parts == <<VarInt[w[1]], U8(w[2]), OptU8(w[3]), OptU32(w[4]), OptU32(w[5]), OptU8(w[6]),
                      OptU32(w[7]), OptSpan(w[8]), U8(w[9]), U8(w[10])>>
<1>1. /\ n.kind \in Range(EncodedNodeKind) /\ n.language \in Range(EncodedLanguage)
      /\ n.symbol_kind \in Optional(Range(EncodedSymbolKind)) /\ n.span \in Optional(Spans)
      /\ n.provenance \in Range(EncodedProvenance) /\ n.confidence \in Range(EncodedConfidence)
    BY DEF Nodes
<1>2. Encodes("u32", VarInt[w[1]], w[1]) /\ Lookup(table, w[1]) = n.id
    BY IndexFields DEF NodeRow
<1>3. Encodes("u8", U8(w[2]), w[2]) /\ Lookup(DecodedNodeKind, w[2]) = n.kind
    BY <1>1, TagFields, TagTables, TagsAgree DEF NodeRow
<1>4. /\ Encodes("opt u8", OptU8(w[3]), w[3])
      /\ (IF w[3] = None THEN language ELSE Lookup(DecodedLanguage, w[3])) = n.language
    BY <1>1, TagFields, TagTables, TagsAgree DEF NodeRow
<1>5. Encodes("opt u32", OptU32(w[4]), w[4]) /\ Lookup(table, w[4]) = n.name
    BY IndexFields DEF NodeRow, Named
<1>6. Encodes("opt u32", OptU32(w[5]), w[5]) /\ Lookup(table, w[5]) = n.qualified_name
    BY IndexFields DEF NodeRow, Named
<1>7. Encodes("opt u8", OptU8(w[6]), w[6]) /\ Lookup(DecodedSymbolKind, w[6]) = n.symbol_kind
    BY <1>1, TagFields, TagTables, TagsAgree DEF NodeRow
<1>8. Encodes("opt u32", OptU32(w[7]), w[7]) /\ Lookup(table, w[7]) = n.file_id
    BY IndexFields DEF NodeRow, Named
<1>9. Encodes("span", OptSpan(w[8]), w[8]) /\ w[8] = n.span
    BY <1>1, SpanField DEF NodeRow
<1>10. Encodes("u8", U8(w[9]), w[9]) /\ Lookup(DecodedProvenance, w[9]) = n.provenance
    BY <1>1, TagFields, TagTables, TagsAgree DEF NodeRow
<1>11. Encodes("u8", U8(w[10]), w[10]) /\ Lookup(DecodedConfidence, w[10]) = n.confidence
    BY <1>1, TagFields, TagTables, TagsAgree DEF NodeRow
<1>12. NodeBytes(n, table, language) = FlattenSeq(parts)
    BY DEF NodeBytes, NodeRow
<1>13. w = [i \in 1 .. 10 |-> w[i]]
    BY DEF NodeRow
<1> HIDE DEF w
<1>14. \A i \in 1 .. 10 : Encodes(NodeFields[i], parts[i], w[i])
    <2> DEFINE f == NodeFields
    <2>1. /\ f[1] = "u32" /\ f[2] = "u8" /\ f[3] = "opt u8" /\ f[4] = "opt u32" /\ f[5] = "opt u32"
          /\ f[6] = "opt u8" /\ f[7] = "opt u32" /\ f[8] = "span" /\ f[9] = "u8" /\ f[10] = "u8"
        BY DEF NodeFields
    <2>2. /\ parts[1] = VarInt[w[1]] /\ parts[2] = U8(w[2]) /\ parts[3] = OptU8(w[3])
          /\ parts[4] = OptU32(w[4]) /\ parts[5] = OptU32(w[5]) /\ parts[6] = OptU8(w[6])
          /\ parts[7] = OptU32(w[7]) /\ parts[8] = OptSpan(w[8]) /\ parts[9] = U8(w[9]) /\ parts[10] = U8(w[10])
        OBVIOUS
    <2> HIDE DEF parts, f
    <2>3. /\ Encodes(f[1], parts[1], w[1]) /\ Encodes(f[2], parts[2], w[2]) /\ Encodes(f[3], parts[3], w[3])
          /\ Encodes(f[4], parts[4], w[4]) /\ Encodes(f[5], parts[5], w[5]) /\ Encodes(f[6], parts[6], w[6])
          /\ Encodes(f[7], parts[7], w[7]) /\ Encodes(f[8], parts[8], w[8]) /\ Encodes(f[9], parts[9], w[9])
          /\ Encodes(f[10], parts[10], w[10])
        BY <1>2, <1>3, <1>4, <1>5, <1>6, <1>7, <1>8, <1>9, <1>10, <1>11, <2>1, <2>2
    <2>4. \A i \in 1 .. 10 : i \in {1, 2, 3, 4, 5, 6, 7, 8, 9, 10}
        OBVIOUS
    <2>5. \A i \in {1, 2, 3, 4, 5, 6, 7, 8, 9, 10} : Encodes(f[i], parts[i], w[i])
        BY <2>3
    <2> QED BY <2>4, <2>5 DEF f
<1>15. parts \in Seq(Strings) /\ Len(parts) = 10 /\ Len(NodeFields) = 10
    <2>1. \A i \in 1 .. 10 : parts[i] \in Strings
        BY <1>14 DEF Encodes
    <2>2. parts = [i \in 1 .. 10 |-> parts[i]] /\ Len(NodeFields) = 10
        BY DEF NodeFields
    <2> HIDE DEF parts
    <2> QED BY <2>1, <2>2
<1> HIDE DEF parts
<1>16. FlattenSeq(parts) \in Strings
    BY <1>15, Flattened DEF Strings
<1>17. IsRow(NodeFields, FlattenSeq(parts), w)
    <2>1. ASSUME NEW bytes \in Strings, Agree(bytes, FlattenSeq(parts))
          PROVE  Reads(ReadRow(bytes, NodeFields), w, bytes, Len(FlattenSeq(parts)))
        <3>1. Reads(ReadRow(bytes, NodeFields), [i \in 1 .. 10 |-> w[i]], bytes, Len(FlattenSeq(parts)))
            <4> HIDE DEF NodeFields
            <4> QED BY <1>14, <1>15, <2>1, RowIsRead
        <3> QED BY <1>13, <3>1
    <2> QED BY <1>16, <2>1 DEF IsRow
<1>18. ExpandNode(w, table, language) = n
    <2>1. n = [id |-> n.id, kind |-> n.kind, language |-> n.language, name |-> n.name,
               qualified_name |-> n.qualified_name, symbol_kind |-> n.symbol_kind, file_id |-> n.file_id,
               span |-> n.span, provenance |-> n.provenance, confidence |-> n.confidence]
        BY DEF Nodes
    <2> QED BY <1>2, <1>3, <1>4, <1>5, <1>6, <1>7, <1>8, <1>9, <1>10, <1>11, <2>1 DEF ExpandNode
<1>19. QED
    BY <1>12, <1>17, <1>18 DEF w

\* An edge goes into its row and comes back from it.
LEMMA EdgeIsRead ==
    ASSUME NEW table \in Seq(Strings), Len(table) <= U32Max, NEW e \in Edges,
           {e.id, e.from, e.to} \subseteq Range(table)
    PROVE  /\ IsRow(EdgeFields, EdgeBytes(e, table), EdgeRow(e, table))
           /\ ExpandEdge(EdgeRow(e, table), table) = e
<1> DEFINE w == EdgeRow(e, table)
           parts == <<VarInt[w[1]], U8(w[2]), VarInt[w[3]], VarInt[w[4]], OptSpan(w[5]), U8(w[6]), U8(w[7])>>
<1>1. /\ e.kind \in Range(EncodedEdgeKind) /\ e.span \in Optional(Spans)
      /\ e.provenance \in Range(EncodedProvenance) /\ e.confidence \in Range(EncodedConfidence)
    BY DEF Edges
<1>2. Encodes("u32", VarInt[w[1]], w[1]) /\ Lookup(table, w[1]) = e.id
    BY IndexFields DEF EdgeRow
<1>3. Encodes("u8", U8(w[2]), w[2]) /\ Lookup(DecodedEdgeKind, w[2]) = e.kind
    BY <1>1, TagFields, TagTables, TagsAgree DEF EdgeRow
<1>4. Encodes("u32", VarInt[w[3]], w[3]) /\ Lookup(table, w[3]) = e.from
    BY IndexFields DEF EdgeRow
<1>5. Encodes("u32", VarInt[w[4]], w[4]) /\ Lookup(table, w[4]) = e.to
    BY IndexFields DEF EdgeRow
<1>6. Encodes("span", OptSpan(w[5]), w[5]) /\ w[5] = e.span
    BY <1>1, SpanField DEF EdgeRow
<1>7. Encodes("u8", U8(w[6]), w[6]) /\ Lookup(DecodedProvenance, w[6]) = e.provenance
    BY <1>1, TagFields, TagTables, TagsAgree DEF EdgeRow
<1>8. Encodes("u8", U8(w[7]), w[7]) /\ Lookup(DecodedConfidence, w[7]) = e.confidence
    BY <1>1, TagFields, TagTables, TagsAgree DEF EdgeRow
<1>9. EdgeBytes(e, table) = FlattenSeq(parts)
    BY DEF EdgeBytes, EdgeRow
<1>10. w = [i \in 1 .. 7 |-> w[i]]
    BY DEF EdgeRow
<1> HIDE DEF w
<1>11. \A i \in 1 .. 7 : Encodes(EdgeFields[i], parts[i], w[i])
    <2> DEFINE f == EdgeFields
    <2>1. /\ f[1] = "u32" /\ f[2] = "u8" /\ f[3] = "u32" /\ f[4] = "u32" /\ f[5] = "span"
          /\ f[6] = "u8" /\ f[7] = "u8"
        BY DEF EdgeFields
    <2>2. /\ parts[1] = VarInt[w[1]] /\ parts[2] = U8(w[2]) /\ parts[3] = VarInt[w[3]]
          /\ parts[4] = VarInt[w[4]] /\ parts[5] = OptSpan(w[5]) /\ parts[6] = U8(w[6])
          /\ parts[7] = U8(w[7])
        OBVIOUS
    <2> HIDE DEF parts, f
    <2>3. /\ Encodes(f[1], parts[1], w[1]) /\ Encodes(f[2], parts[2], w[2]) /\ Encodes(f[3], parts[3], w[3])
          /\ Encodes(f[4], parts[4], w[4]) /\ Encodes(f[5], parts[5], w[5]) /\ Encodes(f[6], parts[6], w[6])
          /\ Encodes(f[7], parts[7], w[7])
        BY <1>2, <1>3, <1>4, <1>5, <1>6, <1>7, <1>8, <2>1, <2>2
    <2>4. \A i \in 1 .. 7 : i \in {1, 2, 3, 4, 5, 6, 7}
        OBVIOUS
    <2>5. \A i \in {1, 2, 3, 4, 5, 6, 7} : Encodes(f[i], parts[i], w[i])
        BY <2>3
    <2> QED BY <2>4, <2>5 DEF f
<1>12. parts \in Seq(Strings) /\ Len(parts) = 7 /\ Len(EdgeFields) = 7
    <2>1. \A i \in 1 .. 7 : parts[i] \in Strings
        BY <1>11 DEF Encodes
    <2>2. parts = [i \in 1 .. 7 |-> parts[i]] /\ Len(EdgeFields) = 7
        BY DEF EdgeFields
    <2> HIDE DEF parts
    <2> QED BY <2>1, <2>2
<1> HIDE DEF parts
<1>13. FlattenSeq(parts) \in Strings
    BY <1>12, Flattened DEF Strings
<1>14. IsRow(EdgeFields, FlattenSeq(parts), w)
    <2>1. ASSUME NEW bytes \in Strings, Agree(bytes, FlattenSeq(parts))
          PROVE  Reads(ReadRow(bytes, EdgeFields), w, bytes, Len(FlattenSeq(parts)))
        <3>1. Reads(ReadRow(bytes, EdgeFields), [i \in 1 .. 7 |-> w[i]], bytes, Len(FlattenSeq(parts)))
            <4> HIDE DEF EdgeFields
            <4> QED BY <1>11, <1>12, <2>1, RowIsRead
        <3> QED BY <1>10, <3>1
    <2> QED BY <1>13, <2>1 DEF IsRow
<1>15. ExpandEdge(w, table) = e
    <2>1. e = [id |-> e.id, kind |-> e.kind, from |-> e.from, to |-> e.to, span |-> e.span,
               provenance |-> e.provenance, confidence |-> e.confidence]
        BY DEF Edges
    <2> QED BY <1>2, <1>3, <1>4, <1>5, <1>6, <1>7, <1>8, <2>1 DEF ExpandEdge
<1>16. QED
    BY <1>9, <1>14, <1>15 DEF w

\* A diagnostic goes into its row and comes back from it.
LEMMA DiagnosticIsRead ==
    ASSUME NEW table \in Seq(Strings), Len(table) <= U32Max, NEW d \in Diagnostics,
           Named({d.file_id}) \cup {d.message} \subseteq Range(table)
    PROVE  /\ IsRow(DiagnosticFields, DiagnosticBytes(d, table), DiagnosticRow(d, table))
           /\ ExpandDiagnostic(DiagnosticRow(d, table), table) = d
<1> DEFINE w == DiagnosticRow(d, table)
           parts == <<U8(w[1]), VarInt[w[2]], OptU32(w[3]), OptSpan(w[4])>>
<1>1. d.severity \in Range(EncodedSeverity) /\ d.span \in Optional(Spans)
    BY DEF Diagnostics
<1>2. Encodes("u8", U8(w[1]), w[1]) /\ Lookup(DecodedSeverity, w[1]) = d.severity
    BY <1>1, TagFields, TagTables, TagsAgree DEF DiagnosticRow
<1>3. Encodes("u32", VarInt[w[2]], w[2]) /\ Lookup(table, w[2]) = d.message
    BY IndexFields DEF DiagnosticRow
<1>4. Encodes("opt u32", OptU32(w[3]), w[3]) /\ Lookup(table, w[3]) = d.file_id
    BY IndexFields DEF DiagnosticRow, Named
<1>5. Encodes("span", OptSpan(w[4]), w[4]) /\ w[4] = d.span
    BY <1>1, SpanField DEF DiagnosticRow
<1>6. DiagnosticBytes(d, table) = FlattenSeq(parts)
    BY DEF DiagnosticBytes, DiagnosticRow
<1>7. w = [i \in 1 .. 4 |-> w[i]]
    BY DEF DiagnosticRow
<1> HIDE DEF w
<1>8. \A i \in 1 .. 4 : Encodes(DiagnosticFields[i], parts[i], w[i])
    <2> DEFINE f == DiagnosticFields
    <2>1. /\ f[1] = "u8" /\ f[2] = "u32" /\ f[3] = "opt u32" /\ f[4] = "span"
        BY DEF DiagnosticFields
    <2>2. /\ parts[1] = U8(w[1]) /\ parts[2] = VarInt[w[2]] /\ parts[3] = OptU32(w[3])
          /\ parts[4] = OptSpan(w[4])
        OBVIOUS
    <2> HIDE DEF parts, f
    <2>3. /\ Encodes(f[1], parts[1], w[1]) /\ Encodes(f[2], parts[2], w[2]) /\ Encodes(f[3], parts[3], w[3])
          /\ Encodes(f[4], parts[4], w[4])
        BY <1>2, <1>3, <1>4, <1>5, <2>1, <2>2
    <2>4. \A i \in 1 .. 4 : i \in {1, 2, 3, 4}
        OBVIOUS
    <2>5. \A i \in {1, 2, 3, 4} : Encodes(f[i], parts[i], w[i])
        BY <2>3
    <2> QED BY <2>4, <2>5 DEF f
<1>9. parts \in Seq(Strings) /\ Len(parts) = 4 /\ Len(DiagnosticFields) = 4
    <2>1. \A i \in 1 .. 4 : parts[i] \in Strings
        BY <1>8 DEF Encodes
    <2>2. parts = [i \in 1 .. 4 |-> parts[i]] /\ Len(DiagnosticFields) = 4
        BY DEF DiagnosticFields
    <2> HIDE DEF parts
    <2> QED BY <2>1, <2>2
<1> HIDE DEF parts
<1>10. FlattenSeq(parts) \in Strings
    BY <1>9, Flattened DEF Strings
<1>11. IsRow(DiagnosticFields, FlattenSeq(parts), w)
    <2>1. ASSUME NEW bytes \in Strings, Agree(bytes, FlattenSeq(parts))
          PROVE  Reads(ReadRow(bytes, DiagnosticFields), w, bytes, Len(FlattenSeq(parts)))
        <3>1. Reads(ReadRow(bytes, DiagnosticFields), [i \in 1 .. 4 |-> w[i]], bytes, Len(FlattenSeq(parts)))
            <4> HIDE DEF DiagnosticFields
            <4> QED BY <1>8, <1>9, <2>1, RowIsRead
        <3> QED BY <1>7, <3>1
    <2> QED BY <1>10, <2>1 DEF IsRow
<1>12. ExpandDiagnostic(w, table) = d
    <2>1. d = [severity |-> d.severity, message |-> d.message, file_id |-> d.file_id, span |-> d.span]
        BY DEF Diagnostics
    <2> QED BY <1>2, <1>3, <1>4, <1>5, <2>1 DEF ExpandDiagnostic
<1>13. QED
    BY <1>6, <1>11, <1>12 DEF w

\* A header leads back to what heads a partition.
HeadedBy(row, table, p) ==
    /\ Lookup(table, row[1]) = p.file_id /\ Lookup(table, row[2]) = Lossy(p.path)
    /\ Lookup(DecodedLanguage, row[3]) = p.language /\ Lookup(table, row[4]) = p.fingerprint
    /\ row[5] = p.parse_time /\ row[6] = p.extraction_time

\* The header of a partition goes into its row and comes back from it.
LEMMA HeaderIsRead ==
    ASSUME NEW table \in Seq(Strings), Len(table) <= U32Max, NEW p \in Partitions,
           {p.file_id, Lossy(p.path), p.fingerprint} \subseteq Range(table)
    PROVE  /\ IsRow(HeaderFields, HeaderBytes(p, table), HeaderRow(p, table))
           /\ HeadedBy(HeaderRow(p, table), table, p)
<1> DEFINE w == HeaderRow(p, table)
           parts == <<VarInt[w[1]], VarInt[w[2]], U8(w[3]), VarInt[w[4]], VarInt[w[5]], VarInt[w[6]], VarInt[w[7]]>>
<1>1. /\ p.language \in Range(EncodedLanguage) /\ 0 \in 0 .. U64Max
      /\ p.parse_time \in 0 .. U64Max /\ p.extraction_time \in 0 .. U64Max
    BY Widths DEF Partitions
<1>2. Encodes("u32", VarInt[w[1]], w[1]) /\ Lookup(table, w[1]) = p.file_id
    BY IndexFields DEF HeaderRow
<1>3. Encodes("u32", VarInt[w[2]], w[2]) /\ Lookup(table, w[2]) = Lossy(p.path)
    BY IndexFields DEF HeaderRow
<1>4. Encodes("u8", U8(w[3]), w[3]) /\ Lookup(DecodedLanguage, w[3]) = p.language
    BY <1>1, TagFields, TagTables, TagsAgree DEF HeaderRow
<1>5. Encodes("u32", VarInt[w[4]], w[4]) /\ Lookup(table, w[4]) = p.fingerprint
    BY IndexFields DEF HeaderRow
<1>6. Encodes("u64", VarInt[w[5]], w[5]) /\ w[5] = p.parse_time
    BY <1>1, NumberFields DEF HeaderRow
<1>7. Encodes("u64", VarInt[w[6]], w[6]) /\ w[6] = p.extraction_time
    BY <1>1, NumberFields DEF HeaderRow
<1>8. Encodes("u64", VarInt[w[7]], w[7]) /\ w[7] = 0
    BY <1>1, NumberFields DEF HeaderRow
<1>9. HeaderBytes(p, table) = FlattenSeq(parts)
    BY DEF HeaderBytes, HeaderRow
<1>10. w = [i \in 1 .. 7 |-> w[i]]
    BY DEF HeaderRow
<1> HIDE DEF w
<1>11. \A i \in 1 .. 7 : Encodes(HeaderFields[i], parts[i], w[i])
    <2> DEFINE f == HeaderFields
    <2>1. /\ f[1] = "u32" /\ f[2] = "u32" /\ f[3] = "u8" /\ f[4] = "u32" /\ f[5] = "u64"
          /\ f[6] = "u64" /\ f[7] = "u64"
        BY DEF HeaderFields
    <2>2. /\ parts[1] = VarInt[w[1]] /\ parts[2] = VarInt[w[2]] /\ parts[3] = U8(w[3])
          /\ parts[4] = VarInt[w[4]] /\ parts[5] = VarInt[w[5]] /\ parts[6] = VarInt[w[6]]
          /\ parts[7] = VarInt[w[7]]
        OBVIOUS
    <2> HIDE DEF parts, f
    <2>3. /\ Encodes(f[1], parts[1], w[1]) /\ Encodes(f[2], parts[2], w[2]) /\ Encodes(f[3], parts[3], w[3])
          /\ Encodes(f[4], parts[4], w[4]) /\ Encodes(f[5], parts[5], w[5]) /\ Encodes(f[6], parts[6], w[6])
          /\ Encodes(f[7], parts[7], w[7])
        BY <1>2, <1>3, <1>4, <1>5, <1>6, <1>7, <1>8, <2>1, <2>2
    <2>4. \A i \in 1 .. 7 : i \in {1, 2, 3, 4, 5, 6, 7}
        OBVIOUS
    <2>5. \A i \in {1, 2, 3, 4, 5, 6, 7} : Encodes(f[i], parts[i], w[i])
        BY <2>3
    <2> QED BY <2>4, <2>5 DEF f
<1>12. parts \in Seq(Strings) /\ Len(parts) = 7 /\ Len(HeaderFields) = 7
    <2>1. \A i \in 1 .. 7 : parts[i] \in Strings
        BY <1>11 DEF Encodes
    <2>2. parts = [i \in 1 .. 7 |-> parts[i]] /\ Len(HeaderFields) = 7
        BY DEF HeaderFields
    <2> HIDE DEF parts
    <2> QED BY <2>1, <2>2
<1> HIDE DEF parts
<1>13. FlattenSeq(parts) \in Strings
    BY <1>12, Flattened DEF Strings
<1>14. IsRow(HeaderFields, FlattenSeq(parts), w)
    <2>1. ASSUME NEW bytes \in Strings, Agree(bytes, FlattenSeq(parts))
          PROVE  Reads(ReadRow(bytes, HeaderFields), w, bytes, Len(FlattenSeq(parts)))
        <3>1. Reads(ReadRow(bytes, HeaderFields), [i \in 1 .. 7 |-> w[i]], bytes, Len(FlattenSeq(parts)))
            <4> HIDE DEF HeaderFields
            <4> QED BY <1>11, <1>12, <2>1, RowIsRead
        <3> QED BY <1>10, <3>1
    <2> QED BY <1>13, <2>1 DEF IsRow
<1>15. HeadedBy(w, table, p)
    BY <1>2, <1>3, <1>4, <1>5, <1>6, <1>7, <1>8 DEF HeadedBy
<1>16. QED
    BY <1>9, <1>14, <1>15 DEF w

\* One list, put together with nothing, is that list.
LEMMA FlattenedOne ==
    ASSUME NEW T, NEW s \in Seq(T)
    PROVE  FlattenSeq(<<s>>) = s
<1> DEFINE one == <<s>>
<1>1. one \in Seq(Seq(T)) /\ Len(one) = 1 /\ one[1] = s
    OBVIOUS
<1> HIDE DEF one
<1>2. PICK f \in [1 .. 1 -> Seq(T)] : Flattens(f, one) /\ FlattenSeq(one) = f[1]
    BY <1>1, FlatteningFlattens
<1>3. f[1] = one[1]
    <2>1. 1 \in DOMAIN f
        OBVIOUS
    <2> QED BY <1>2, <2>1 DEF Flattens
<1>4. QED
    BY <1>1, <1>2, <1>3 DEF one

\* A string of the table is a row of one field.
LEMMA TextIsRead ==
    ASSUME NEW s \in Strings, Len(s) <= U32Max
    PROVE  IsRow(<<"text">>, Text(s), <<s>>)
<1> DEFINE parts == <<Text(s)>>
           w == <<s>>
           fields == <<"text">>
<1>1. Encodes("text", Text(s), s)
    BY TextField
<1>2. Text(s) \in Strings
    BY <1>1 DEF Encodes
<1>3. parts \in Seq(Strings) /\ Len(parts) = 1 /\ FlattenSeq(parts) = Text(s)
    BY <1>2, FlattenedOne DEF Strings
<1>4. \A i \in 1 .. 1 : Encodes(fields[i], parts[i], w[i])
    BY <1>1
<1>5. Len(fields) = 1 /\ w = [i \in 1 .. 1 |-> w[i]]
    OBVIOUS
<1> HIDE DEF parts, w, fields
<1>6. ASSUME NEW bytes \in Strings, Agree(bytes, Text(s))
      PROVE  Reads(ReadRow(bytes, fields), w, bytes, Len(Text(s)))
    <2>1. Reads(ReadRow(bytes, fields), [i \in 1 .. 1 |-> w[i]], bytes, Len(FlattenSeq(parts)))
        BY <1>3, <1>4, <1>5, <1>6, RowIsRead
    <2> QED BY <1>3, <1>5, <2>1
<1>7. QED
    BY <1>2, <1>6 DEF IsRow, w, fields

\* Some bytes are read as a number of rows, or found to be torn.
AreRows(fields, part, rows) ==
    /\ part \in Strings
    /\ \A bytes \in Strings : Agree(bytes, part) => Reads(ReadRows(bytes, fields), rows, bytes, Len(part))

\* The rows of a list are read one after the other.
LEMMA ListIsRead ==
    ASSUME NEW fields, NEW n \in 0 .. U32Max, NEW parts, NEW rows,
           \A i \in 1 .. n : IsRow(fields, parts[i], rows[i])
    PROVE  AreRows(fields, Rows([i \in 1 .. n |-> parts[i]]), [i \in 1 .. n |-> rows[i]])
<1> DEFINE seqs == [i \in 1 .. n |-> parts[i]]
<1>1. n \in Nat /\ n <= U32Max
    BY Widths
<1>2. \A i \in 1 .. n : parts[i] \in Strings
    BY DEF IsRow
<1>3. seqs \in Seq(Strings) /\ Len(seqs) = n /\ \A i \in 1 .. n : seqs[i] = parts[i]
    BY <1>1, <1>2
<1> HIDE DEF seqs
<1>4. \A i \in 1 .. Len(seqs) : \A b \in Strings :
            Agree(b, seqs[i]) => Reads(ReadRow(b, fields), rows[i], b, Len(seqs[i]))
    BY <1>3 DEF IsRow
<1>5. /\ Rows(seqs) \in Strings
      /\ \A bytes \in Strings : Agree(bytes, Rows(seqs)) =>
            Reads(ReadRows(bytes, fields), [i \in 1 .. Len(seqs) |-> rows[i]], bytes, Len(Rows(seqs)))
    BY <1>1, <1>3, <1>4, RowsAreRead
<1>6. QED
    BY <1>3, <1>5 DEF AreRows, seqs

\* What the reader of a record finds in it.
Compact(p, table) ==
    <<[i \in DOMAIN table |-> <<table[i]>>], HeaderRow(p, table),
      [i \in DOMAIN p.nodes |-> NodeRow(p.nodes[i], table, p.language)],
      [i \in DOMAIN p.edges |-> EdgeRow(p.edges[i], table)],
      [i \in DOMAIN p.diagnostics |-> DiagnosticRow(p.diagnostics[i], table)]>>

\* A partition whose counts fit.
Countable(p) == Len(p.nodes) <= U32Max /\ Len(p.edges) <= U32Max /\ Len(p.diagnostics) <= U32Max

\* The lists of a partition.
LEMMA PartitionLists ==
    ASSUME NEW p \in Partitions
    PROVE  /\ p.nodes \in Seq(Nodes) /\ p.edges \in Seq(Edges) /\ p.diagnostics \in Seq(Diagnostics)
           /\ Len(p.nodes) \in Nat /\ DOMAIN p.nodes = 1 .. Len(p.nodes)
           /\ Len(p.edges) \in Nat /\ DOMAIN p.edges = 1 .. Len(p.edges)
           /\ Len(p.diagnostics) \in Nat /\ DOMAIN p.diagnostics = 1 .. Len(p.diagnostics)
           /\ \A i \in DOMAIN p.nodes : p.nodes[i] \in Nodes
           /\ \A i \in DOMAIN p.edges : p.edges[i] \in Edges
           /\ \A i \in DOMAIN p.diagnostics : p.diagnostics[i] \in Diagnostics
<1>1. p.nodes \in Seq(Nodes) /\ p.edges \in Seq(Edges) /\ p.diagnostics \in Seq(Diagnostics)
    BY DEF Partitions
<1> HIDE DEF Nodes, Edges, Diagnostics
<1>2. QED
    BY <1>1

\* The table and the facts of a partition are read row by row.
LEMMA FactsAreRead ==
    ASSUME NEW p \in Partitions, Countable(p), NEW table \in Seq(Strings), Covers(table, p), Short(table)
    PROVE  /\ AreRows(<<"text">>, Rows([i \in DOMAIN table |-> Text(table[i])]),
                      [i \in DOMAIN table |-> <<table[i]>>])
           /\ AreRows(NodeFields, Rows([i \in DOMAIN p.nodes |-> NodeBytes(p.nodes[i], table, p.language)]),
                      [i \in DOMAIN p.nodes |-> NodeRow(p.nodes[i], table, p.language)])
           /\ AreRows(EdgeFields, Rows([i \in DOMAIN p.edges |-> EdgeBytes(p.edges[i], table)]),
                      [i \in DOMAIN p.edges |-> EdgeRow(p.edges[i], table)])
           /\ AreRows(DiagnosticFields,
                      Rows([i \in DOMAIN p.diagnostics |-> DiagnosticBytes(p.diagnostics[i], table)]),
                      [i \in DOMAIN p.diagnostics |-> DiagnosticRow(p.diagnostics[i], table)])
<1>0. Len(table) <= U32Max /\ Len(table) \in Nat /\ U32Max \in Nat /\ DOMAIN table = 1 .. Len(table)
    BY Widths DEF Short
<1>1. AreRows(<<"text">>, Rows([i \in DOMAIN table |-> Text(table[i])]), [i \in DOMAIN table |-> <<table[i]>>])
    <2> DEFINE n == Len(table)
               parts == [i \in 1 .. n |-> Text(table[i])]
               rows == [i \in 1 .. n |-> <<table[i]>>]
    <2>1. n \in 0 .. U32Max
        BY <1>0
    <2>2. \A i \in 1 .. n : table[i] \in Strings /\ Len(table[i]) <= U32Max
        BY <1>0 DEF Short
    <2>3. \A i \in 1 .. n : IsRow(<<"text">>, Text(table[i]), <<table[i]>>)
        BY <2>2, TextIsRead
    <2>4. \A i \in 1 .. n : IsRow(<<"text">>, parts[i], rows[i])
        BY <2>3
    <2>5. parts = [i \in 1 .. n |-> parts[i]] /\ rows = [i \in 1 .. n |-> rows[i]]
        OBVIOUS
    <2> HIDE DEF parts, rows, n
    <2>6. AreRows(<<"text">>, Rows([i \in 1 .. n |-> parts[i]]), [i \in 1 .. n |-> rows[i]])
        BY <2>1, <2>4, ListIsRead
    <2> QED BY <1>0, <2>5, <2>6 DEF parts, rows, n
<1>2. AreRows(NodeFields, Rows([i \in DOMAIN p.nodes |-> NodeBytes(p.nodes[i], table, p.language)]),
              [i \in DOMAIN p.nodes |-> NodeRow(p.nodes[i], table, p.language)])
    <2> DEFINE n == Len(p.nodes)
               parts == [i \in 1 .. n |-> NodeBytes(p.nodes[i], table, p.language)]
               rows == [i \in 1 .. n |-> NodeRow(p.nodes[i], table, p.language)]
    <2>1. n \in 0 .. U32Max /\ DOMAIN p.nodes = 1 .. n
        BY <1>0, PartitionLists DEF Countable
    <2>2. \A i \in 1 .. n :
            IsRow(NodeFields, NodeBytes(p.nodes[i], table, p.language), NodeRow(p.nodes[i], table, p.language))
        <3>1. \A i \in 1 .. n : /\ p.nodes[i] \in Nodes
                                /\ Named({p.nodes[i].name, p.nodes[i].qualified_name, p.nodes[i].file_id})
                                        \cup {p.nodes[i].id} \subseteq Range(table)
            BY <2>1, PartitionLists DEF Covers
        <3> QED BY <1>0, <3>1, NodeIsRead
    <2>3. \A i \in 1 .. n : IsRow(NodeFields, parts[i], rows[i])
        BY <2>2
    <2>4. parts = [i \in 1 .. n |-> parts[i]] /\ rows = [i \in 1 .. n |-> rows[i]]
        OBVIOUS
    <2> HIDE DEF parts, rows, n
    <2>5. AreRows(NodeFields, Rows([i \in 1 .. n |-> parts[i]]), [i \in 1 .. n |-> rows[i]])
        BY <2>1, <2>3, ListIsRead, ZenonT(40)
    <2> QED BY <2>1, <2>4, <2>5 DEF parts, rows
<1>3. AreRows(EdgeFields, Rows([i \in DOMAIN p.edges |-> EdgeBytes(p.edges[i], table)]),
              [i \in DOMAIN p.edges |-> EdgeRow(p.edges[i], table)])
    <2> DEFINE n == Len(p.edges)
               parts == [i \in 1 .. n |-> EdgeBytes(p.edges[i], table)]
               rows == [i \in 1 .. n |-> EdgeRow(p.edges[i], table)]
    <2>1. n \in 0 .. U32Max /\ DOMAIN p.edges = 1 .. n
        BY <1>0, PartitionLists DEF Countable
    <2>2. \A i \in 1 .. n : IsRow(EdgeFields, EdgeBytes(p.edges[i], table), EdgeRow(p.edges[i], table))
        <3>1. \A i \in 1 .. n :
                p.edges[i] \in Edges /\ {p.edges[i].id, p.edges[i].from, p.edges[i].to} \subseteq Range(table)
            BY <2>1, PartitionLists DEF Covers
        <3> QED BY <1>0, <3>1, EdgeIsRead
    <2>3. \A i \in 1 .. n : IsRow(EdgeFields, parts[i], rows[i])
        BY <2>2
    <2>4. parts = [i \in 1 .. n |-> parts[i]] /\ rows = [i \in 1 .. n |-> rows[i]]
        OBVIOUS
    <2> HIDE DEF parts, rows, n
    <2>5. AreRows(EdgeFields, Rows([i \in 1 .. n |-> parts[i]]), [i \in 1 .. n |-> rows[i]])
        BY <2>1, <2>3, ListIsRead, ZenonT(40)
    <2> QED BY <2>1, <2>4, <2>5 DEF parts, rows
<1>4. AreRows(DiagnosticFields, Rows([i \in DOMAIN p.diagnostics |-> DiagnosticBytes(p.diagnostics[i], table)]),
              [i \in DOMAIN p.diagnostics |-> DiagnosticRow(p.diagnostics[i], table)])
    <2> DEFINE n == Len(p.diagnostics)
               parts == [i \in 1 .. n |-> DiagnosticBytes(p.diagnostics[i], table)]
               rows == [i \in 1 .. n |-> DiagnosticRow(p.diagnostics[i], table)]
    <2>1. n \in 0 .. U32Max /\ DOMAIN p.diagnostics = 1 .. n
        BY <1>0, PartitionLists DEF Countable
    <2>2. \A i \in 1 .. n :
            IsRow(DiagnosticFields, DiagnosticBytes(p.diagnostics[i], table),
                  DiagnosticRow(p.diagnostics[i], table))
        <3>1. \A i \in 1 .. n : /\ p.diagnostics[i] \in Diagnostics
                                /\ Named({p.diagnostics[i].file_id}) \cup {p.diagnostics[i].message}
                                     \subseteq Range(table)
            BY <2>1, PartitionLists DEF Covers
        <3> QED BY <1>0, <3>1, DiagnosticIsRead
    <2>3. \A i \in 1 .. n : IsRow(DiagnosticFields, parts[i], rows[i])
        BY <2>2
    <2>4. parts = [i \in 1 .. n |-> parts[i]] /\ rows = [i \in 1 .. n |-> rows[i]]
        OBVIOUS
    <2> HIDE DEF parts, rows, n
    <2>5. AreRows(DiagnosticFields, Rows([i \in 1 .. n |-> parts[i]]), [i \in 1 .. n |-> rows[i]])
        BY <2>1, <2>3, ListIsRead, ZenonT(40)
    <2> QED BY <2>1, <2>4, <2>5 DEF parts, rows
<1>5. QED
    BY <1>1, <1>2, <1>3, <1>4

-----------------------------------------------------------------------------
(* Records.                                                                *)

\* A record is read in its five parts, or found to be torn.
LEMMA RecordIsRead ==
    ASSUME NEW p \in Partitions, Countable(p), NEW table \in Seq(Strings), Covers(table, p), Short(table)
    PROVE  /\ RecordWith(p, table) \in Strings
           /\ \A bytes \in Strings : Agree(bytes, RecordWith(p, table)) =>
                Reads(ReadCompact(bytes), Compact(p, table), bytes, Len(RecordWith(p, table)))
<1> DEFINE A == Rows([i \in DOMAIN table |-> Text(table[i])])
           B == HeaderBytes(p, table)
           C == Rows([i \in DOMAIN p.nodes |-> NodeBytes(p.nodes[i], table, p.language)])
           D == Rows([i \in DOMAIN p.edges |-> EdgeBytes(p.edges[i], table)])
           E == Rows([i \in DOMAIN p.diagnostics |-> DiagnosticBytes(p.diagnostics[i], table)])
           parts == <<A, B, C, D, E>>
           w == Compact(p, table)
<1>1. RecordWith(p, table) = FlattenSeq(parts)
    BY DEF RecordWith
<1>2. /\ AreRows(<<"text">>, A, w[1]) /\ AreRows(NodeFields, C, w[3])
      /\ AreRows(EdgeFields, D, w[4]) /\ AreRows(DiagnosticFields, E, w[5])
    BY FactsAreRead DEF Compact
<1>3. IsRow(HeaderFields, B, w[2])
    <2>1. Len(table) <= U32Max /\ {p.file_id, Lossy(p.path), p.fingerprint} \subseteq Range(table)
        BY DEF Short, Covers
    <2> QED BY <2>1, HeaderIsRead DEF Compact
<1>4. w = [i \in 1 .. 5 |-> w[i]]
    BY DEF Compact
<1> HIDE DEF A, B, C, D, E, w
<1>5. A \in Strings /\ B \in Strings /\ C \in Strings /\ D \in Strings /\ E \in Strings
    BY <1>2, <1>3 DEF AreRows, IsRow
<1>6. parts \in Seq(Strings) /\ Len(parts) = 5
    BY <1>5
<1>7. parts[1] = A /\ parts[2] = B /\ parts[3] = C /\ parts[4] = D /\ parts[5] = E
    OBVIOUS
<1> HIDE DEF parts
<1>8. FlattenSeq(parts) \in Strings /\ \E off : Placed(parts, off)
    BY <1>6, Flattened DEF Strings
<1>9. PICK off : Placed(parts, off)
    BY <1>8
<1>10. ASSUME NEW bytes \in Strings, Agree(bytes, FlattenSeq(parts))
       PROVE  Reads(ReadCompact(bytes), w, bytes, Len(FlattenSeq(parts)))
    <2> DEFINE At(m) == After(bytes, off, w, m)
    <2>1. ASSUME NEW m \in 1 .. 5, NEW read,
                 \A b \in Strings : b = At(m - 1).rest /\ Agree(b, parts[m]) => Reads(read, w[m], b, Len(parts[m]))
          PROVE  At(m) = Advance(At(m - 1), read)
        <3>1. m \in 1 .. Len(parts)
            BY <1>6
        <3>2. \A b \in Strings : b = After(bytes, off, w, m - 1).rest /\ Agree(b, parts[m])
                                    => Reads(read, w[m], b, Len(parts[m]))
            BY <2>1
        <3>3. Agree(bytes, FlattenSeq(parts)) /\ parts \in Seq(Strings) /\ Placed(parts, off)
            BY <1>6, <1>9, <1>10
        <3> HIDE DEF At
        <3>4. After(bytes, off, w, m) = Advance(After(bytes, off, w, m - 1), read)
            BY <3>1, <3>2, <3>3, CursorGoesOn
        <3> QED BY <3>4 DEF At
    <2>2. At(0) = Cursor(bytes)
        BY <1>6, <1>9, CursorStarts
    <2>3. Reads(At(5), w, bytes, Len(FlattenSeq(parts)))
        <3>1. Reads(After(bytes, off, w, Len(parts)), [i \in 1 .. Len(parts) |-> w[i]], bytes, Len(FlattenSeq(parts)))
            BY <1>6, <1>9, CursorEnds
        <3> QED BY <1>4, <1>6, <3>1
    <2> HIDE DEF At
    <2>4. At(1) = Advance(At(0), ReadRows(At(0).rest, <<"text">>))
        <3> DEFINE read == ReadRows(At(0).rest, <<"text">>)
        <3>1. ASSUME NEW b \in Strings, b = At(0).rest, Agree(b, parts[1]) PROVE Reads(read, w[1], b, Len(parts[1]))
            BY <1>2, <1>7, <3>1 DEF AreRows
        <3> HIDE DEF read
        <3>2. 1 \in 1 .. 5 /\ 1 - 1 = 0
            OBVIOUS
        <3>3. At(1) = Advance(At(0), read)
            BY <2>1, <3>1, <3>2
        <3> QED BY <3>3 DEF read
    <2>5. At(2) = Advance(At(1), ReadRow(At(1).rest, HeaderFields))
        <3> DEFINE read == ReadRow(At(1).rest, HeaderFields)
        <3>1. ASSUME NEW b \in Strings, b = At(1).rest, Agree(b, parts[2]) PROVE Reads(read, w[2], b, Len(parts[2]))
            BY <1>3, <1>7, <3>1 DEF IsRow
        <3> HIDE DEF read
        <3>2. 2 \in 1 .. 5 /\ 2 - 1 = 1
            OBVIOUS
        <3>3. At(2) = Advance(At(1), read)
            BY <2>1, <3>1, <3>2
        <3> QED BY <3>3 DEF read
    <2>6. At(3) = Advance(At(2), ReadRows(At(2).rest, NodeFields))
        <3> DEFINE read == ReadRows(At(2).rest, NodeFields)
        <3>1. ASSUME NEW b \in Strings, b = At(2).rest, Agree(b, parts[3]) PROVE Reads(read, w[3], b, Len(parts[3]))
            BY <1>2, <1>7, <3>1 DEF AreRows
        <3> HIDE DEF read
        <3>2. 3 \in 1 .. 5 /\ 3 - 1 = 2
            OBVIOUS
        <3>3. At(3) = Advance(At(2), read)
            BY <2>1, <3>1, <3>2
        <3> QED BY <3>3 DEF read
    <2>7. At(4) = Advance(At(3), ReadRows(At(3).rest, EdgeFields))
        <3> DEFINE read == ReadRows(At(3).rest, EdgeFields)
        <3>1. ASSUME NEW b \in Strings, b = At(3).rest, Agree(b, parts[4]) PROVE Reads(read, w[4], b, Len(parts[4]))
            BY <1>2, <1>7, <3>1 DEF AreRows
        <3> HIDE DEF read
        <3>2. 4 \in 1 .. 5 /\ 4 - 1 = 3
            OBVIOUS
        <3>3. At(4) = Advance(At(3), read)
            BY <2>1, <3>1, <3>2
        <3> QED BY <3>3 DEF read
    <2>8. At(5) = Advance(At(4), ReadRows(At(4).rest, DiagnosticFields))
        <3> DEFINE read == ReadRows(At(4).rest, DiagnosticFields)
        <3>1. ASSUME NEW b \in Strings, b = At(4).rest, Agree(b, parts[5]) PROVE Reads(read, w[5], b, Len(parts[5]))
            BY <1>2, <1>7, <3>1 DEF AreRows
        <3> HIDE DEF read
        <3>2. 5 \in 1 .. 5 /\ 5 - 1 = 4
            OBVIOUS
        <3>3. At(5) = Advance(At(4), read)
            BY <2>1, <3>1, <3>2
        <3> QED BY <3>3 DEF read
    <2>9. ReadCompact(bytes) = At(5)
        <3> DEFINE c1 == Then(Cursor(bytes), LAMBDA rest : ReadRows(rest, <<"text">>))
                   c2 == Then(c1, LAMBDA rest : ReadRow(rest, HeaderFields))
                   c3 == Then(c2, LAMBDA rest : ReadRows(rest, NodeFields))
                   c4 == Then(c3, LAMBDA rest : ReadRows(rest, EdgeFields))
                   c5 == Then(c4, LAMBDA rest : ReadRows(rest, DiagnosticFields))
        <3>1. ReadCompact(bytes) = c5
            BY DEF ReadCompact
        <3>2. c1 = At(1)
            BY <2>2, <2>4 DEF Then
        <3> HIDE DEF c1
        <3>3. c2 = At(2)
            BY <2>5, <3>2 DEF Then
        <3> HIDE DEF c2
        <3>4. c3 = At(3)
            BY <2>6, <3>3 DEF Then
        <3> HIDE DEF c3
        <3>5. c4 = At(4)
            BY <2>7, <3>4 DEF Then
        <3> HIDE DEF c4
        <3>6. c5 = At(5)
            BY <2>8, <3>5 DEF Then
        <3> QED BY <3>1, <3>6
    <2> QED BY <2>3, <2>9
<1>11. QED
    BY <1>1, <1>8, <1>10 DEF w

\* What the reader finds in a record leads back to what was written.
LEMMA CompactLeadsBack ==
    ASSUME NEW p \in Partitions, NEW table \in Seq(Strings), Covers(table, p), Short(table)
    PROVE  Expand(Compact(p, table)) = Stored(p)
<1> DEFINE w == Compact(p, table)
           t == [i \in DOMAIN w[1] |-> w[1][i][1]]
           language == Lookup(DecodedLanguage, w[2][3])
<1>1. /\ w[1] = [i \in DOMAIN table |-> <<table[i]>>] /\ w[2] = HeaderRow(p, table)
      /\ w[3] = [i \in DOMAIN p.nodes |-> NodeRow(p.nodes[i], table, p.language)]
      /\ w[4] = [i \in DOMAIN p.edges |-> EdgeRow(p.edges[i], table)]
      /\ w[5] = [i \in DOMAIN p.diagnostics |-> DiagnosticRow(p.diagnostics[i], table)]
    BY DEF Compact
<1> HIDE DEF w
<1>2. Expand(w) = ExpandWith(w, t, w[2], language)
    BY DEF Expand
<1>3. t = table
    <2>1. DOMAIN w[1] = DOMAIN table /\ \A i \in DOMAIN table : w[1][i][1] = table[i]
        BY <1>1
    <2>2. table = [i \in DOMAIN table |-> table[i]]
        OBVIOUS
    <2> QED BY <2>1, <2>2
<1>4. Len(table) <= U32Max /\ {p.file_id, Lossy(p.path), p.fingerprint} \subseteq Range(table)
    BY DEF Short, Covers
<1>5. HeadedBy(w[2], table, p)
    BY <1>1, <1>4, HeaderIsRead
<1>6. language = p.language
    BY <1>5 DEF HeadedBy
<1> HIDE DEF t, language
<1>7. [i \in DOMAIN w[3] |-> ExpandNode(w[3][i], table, p.language)] = p.nodes
    <2>1. \A i \in DOMAIN p.nodes : ExpandNode(NodeRow(p.nodes[i], table, p.language), table, p.language) = p.nodes[i]
        <3>1. \A i \in DOMAIN p.nodes : /\ p.nodes[i] \in Nodes
                                        /\ Named({p.nodes[i].name, p.nodes[i].qualified_name, p.nodes[i].file_id})
                                                \cup {p.nodes[i].id} \subseteq Range(table)
            BY PartitionLists DEF Covers
        <3> QED BY <1>4, <3>1, NodeIsRead
    <2>2. p.nodes = [i \in DOMAIN p.nodes |-> p.nodes[i]]
        <3>1. p.nodes \in Seq(Nodes)
            BY PartitionLists
        <3> HIDE DEF Nodes
        <3> QED BY <3>1
    <2>3. DOMAIN w[3] = DOMAIN p.nodes /\ \A i \in DOMAIN p.nodes : w[3][i] = NodeRow(p.nodes[i], table, p.language)
        BY <1>1
    <2> QED BY <2>1, <2>2, <2>3
<1>8. [i \in DOMAIN w[4] |-> ExpandEdge(w[4][i], table)] = p.edges
    <2>1. \A i \in DOMAIN p.edges : ExpandEdge(EdgeRow(p.edges[i], table), table) = p.edges[i]
        <3>1. \A i \in DOMAIN p.edges :
                    p.edges[i] \in Edges /\ {p.edges[i].id, p.edges[i].from, p.edges[i].to} \subseteq Range(table)
            BY PartitionLists DEF Covers
        <3> QED BY <1>4, <3>1, EdgeIsRead
    <2>2. p.edges = [i \in DOMAIN p.edges |-> p.edges[i]]
        <3>1. p.edges \in Seq(Edges)
            BY PartitionLists
        <3> HIDE DEF Edges
        <3> QED BY <3>1
    <2>3. DOMAIN w[4] = DOMAIN p.edges /\ \A i \in DOMAIN p.edges : w[4][i] = EdgeRow(p.edges[i], table)
        BY <1>1
    <2> QED BY <2>1, <2>2, <2>3
<1>9. [i \in DOMAIN w[5] |-> ExpandDiagnostic(w[5][i], table)] = p.diagnostics
    <2>1. \A i \in DOMAIN p.diagnostics :
            ExpandDiagnostic(DiagnosticRow(p.diagnostics[i], table), table) = p.diagnostics[i]
        <3>1. \A i \in DOMAIN p.diagnostics :
                    /\ p.diagnostics[i] \in Diagnostics
                    /\ Named({p.diagnostics[i].file_id}) \cup {p.diagnostics[i].message} \subseteq Range(table)
            BY PartitionLists DEF Covers
        <3> QED BY <1>4, <3>1, DiagnosticIsRead
    <2>2. p.diagnostics = [i \in DOMAIN p.diagnostics |-> p.diagnostics[i]]
        <3>1. p.diagnostics \in Seq(Diagnostics)
            BY PartitionLists
        <3> HIDE DEF Diagnostics
        <3> QED BY <3>1
    <2>3. /\ DOMAIN w[5] = DOMAIN p.diagnostics
          /\ \A i \in DOMAIN p.diagnostics : w[5][i] = DiagnosticRow(p.diagnostics[i], table)
        BY <1>1
    <2> QED BY <2>1, <2>2, <2>3
<1>10. ExpandWith(w, table, w[2], p.language) =
        [file_id |-> p.file_id, path |-> Lossy(p.path), language |-> p.language, fingerprint |-> p.fingerprint,
         parse_time |-> p.parse_time, extraction_time |-> p.extraction_time,
         nodes |-> p.nodes, edges |-> p.edges, diagnostics |-> p.diagnostics]
    BY <1>5, <1>7, <1>8, <1>9 DEF ExpandWith, HeadedBy
<1>11. Stored(p) =
        [file_id |-> p.file_id, path |-> Lossy(p.path), language |-> p.language, fingerprint |-> p.fingerprint,
         parse_time |-> p.parse_time, extraction_time |-> p.extraction_time,
         nodes |-> p.nodes, edges |-> p.edges, diagnostics |-> p.diagnostics]
    <2> DEFINE N == Seq(Nodes)
               M == Seq(Edges)
               D == Seq(Diagnostics)
    <2>1. p \in [file_id : Strings, path : Strings, language : Range(EncodedLanguage), fingerprint : Strings,
                 parse_time : 0 .. U64Max, extraction_time : 0 .. U64Max, nodes : N, edges : M, diagnostics : D]
        BY DEF Partitions
    <2> HIDE DEF N, M, D
    <2> QED BY <2>1 DEF Stored
<1>12. QED
    BY <1>2, <1>3, <1>6, <1>10, <1>11 DEF w

\* What comes back from a record has no error in it.
LEMMA StoredIsValid == ASSUME NEW p \in Partitions PROVE Valid(Stored(p))
<1>1. /\ Invalid \notin Strings /\ Invalid \notin Optional(Strings) /\ Invalid \notin Optional(Spans)
      /\ Invalid \notin 0 .. U64Max
    <2>1. Invalid \notin Optional(Strings) /\ Invalid \notin Optional(Spans) /\ Invalid \notin Nat
        BY AbsenceAssumption
    <2>2. Strings \subseteq Optional(Strings)
        BY DEF Optional
    <2>3. 0 .. U64Max \subseteq Nat
        BY Widths
    <2> QED BY <2>1, <2>2, <2>3
<1>2. /\ Invalid \notin Range(EncodedLanguage) /\ Invalid \notin Range(EncodedNodeKind)
      /\ Invalid \notin Range(EncodedEdgeKind) /\ Invalid \notin Range(EncodedProvenance)
      /\ Invalid \notin Range(EncodedConfidence) /\ Invalid \notin Range(EncodedSeverity)
      /\ Invalid \notin Range(EncodedSymbolKind)
    BY AbsenceAssumption
<1>3. Invalid \notin Optional(Range(EncodedSymbolKind))
    <2>1. Invalid # None
        BY AbsenceAssumption DEF Optional
    <2> QED BY <1>2, <2>1 DEF Optional
<1>4. Invalid \notin Seq(Nodes) /\ Invalid \notin Seq(Edges) /\ Invalid \notin Seq(Diagnostics)
    BY AbsenceAssumption
<1>5. ASSUME NEW n \in Nodes PROVE Complete(n)
    <2>1. DOMAIN n = {"id", "kind", "language", "name", "qualified_name", "symbol_kind", "file_id", "span",
                      "provenance", "confidence"}
        BY DEF Nodes
    <2>2. /\ n.id # Invalid /\ n.kind # Invalid /\ n.language # Invalid /\ n.name # Invalid
          /\ n.qualified_name # Invalid /\ n.symbol_kind # Invalid /\ n.file_id # Invalid /\ n.span # Invalid
          /\ n.provenance # Invalid /\ n.confidence # Invalid
        <3>1. /\ n.id \in Strings /\ n.kind \in Range(EncodedNodeKind) /\ n.language \in Range(EncodedLanguage)
              /\ n.name \in Optional(Strings) /\ n.qualified_name \in Optional(Strings)
              /\ n.symbol_kind \in Optional(Range(EncodedSymbolKind)) /\ n.file_id \in Optional(Strings)
              /\ n.span \in Optional(Spans) /\ n.provenance \in Range(EncodedProvenance)
              /\ n.confidence \in Range(EncodedConfidence)
            BY DEF Nodes
        <3> QED BY <1>1, <1>2, <1>3, <3>1
    <2> QED BY <2>1, <2>2 DEF Complete
<1>6. ASSUME NEW e \in Edges PROVE Complete(e)
    <2>1. DOMAIN e = {"id", "kind", "from", "to", "span", "provenance", "confidence"}
        BY DEF Edges
    <2>2. /\ e.id # Invalid /\ e.kind # Invalid /\ e.from # Invalid /\ e.to # Invalid
          /\ e.span # Invalid /\ e.provenance # Invalid /\ e.confidence # Invalid
        BY <1>1, <1>2 DEF Edges
    <2> QED BY <2>1, <2>2 DEF Complete
<1>7. ASSUME NEW d \in Diagnostics PROVE Complete(d)
    <2>1. DOMAIN d = {"severity", "message", "file_id", "span"}
        BY DEF Diagnostics
    <2>2. d.severity # Invalid /\ d.message # Invalid /\ d.file_id # Invalid /\ d.span # Invalid
        <3>1. /\ d.severity \in Range(EncodedSeverity) /\ d.message \in Strings
              /\ d.file_id \in Optional(Strings) /\ d.span \in Optional(Spans)
            BY DEF Diagnostics
        <3> QED BY <1>1, <1>2, <3>1
    <2> QED BY <2>1, <2>2 DEF Complete
<1> DEFINE N == Seq(Nodes)
           M == Seq(Edges)
           D == Seq(Diagnostics)
           s == Stored(p)
<1>8. p \in [file_id : Strings, path : Strings, language : Range(EncodedLanguage), fingerprint : Strings,
             parse_time : 0 .. U64Max, extraction_time : 0 .. U64Max, nodes : N, edges : M, diagnostics : D]
    BY DEF Partitions
<1>9. Lossy(p.path) \in Strings
    BY <1>8, LossyIsString
<1>10. Invalid \notin N /\ Invalid \notin M /\ Invalid \notin D
    BY <1>4
<1>11. Complete(s) /\ s.nodes = p.nodes /\ s.edges = p.edges /\ s.diagnostics = p.diagnostics
    <2> HIDE DEF N, M, D
    <2>1. /\ s.file_id = p.file_id /\ s.path = Lossy(p.path) /\ s.language = p.language
          /\ s.fingerprint = p.fingerprint /\ s.parse_time = p.parse_time /\ s.extraction_time = p.extraction_time
          /\ s.nodes = p.nodes /\ s.edges = p.edges /\ s.diagnostics = p.diagnostics
        BY <1>8 DEF Stored
    <2>2. DOMAIN s = {"file_id", "path", "language", "fingerprint", "parse_time", "extraction_time", "nodes",
                      "edges", "diagnostics"}
        BY <1>8 DEF Stored
    <2> HIDE DEF s
    <2>3. /\ s.file_id # Invalid /\ s.path # Invalid /\ s.language # Invalid /\ s.fingerprint # Invalid
          /\ s.parse_time # Invalid /\ s.extraction_time # Invalid /\ s.nodes # Invalid /\ s.edges # Invalid
          /\ s.diagnostics # Invalid
        BY <1>1, <1>2, <1>8, <1>9, <1>10, <2>1
    <2> QED BY <2>1, <2>2, <2>3 DEF Complete
<1> HIDE DEF s
<1>12. /\ \A i \in DOMAIN p.nodes : Complete(p.nodes[i])
       /\ \A i \in DOMAIN p.edges : Complete(p.edges[i])
       /\ \A i \in DOMAIN p.diagnostics : Complete(p.diagnostics[i])
    BY <1>5, <1>6, <1>7, PartitionLists
<1>13. Valid(s)
    BY <1>11, <1>12 DEF Valid
<1>14. QED
    BY <1>13 DEF s

\* Nothing is not a record.
LEMMA NothingIsTorn == ~ReadCompact(<<>>).ok
<1>1. IntSize(<<>>) = 0
    BY DEF IntSize, SelectInSeq
<1>2. ReadVarInt(<<>>) = Failed
    BY <1>1 DEF ReadVarInt
<1>3. ReadRows(<<>>, <<"text">>) = Failed
    BY <1>2 DEF ReadRows, RowsOf, ReadU32, Require, Failed
<1> DEFINE c1 == Then(Cursor(<<>>), LAMBDA rest : ReadRows(rest, <<"text">>))
           c2 == Then(c1, LAMBDA rest : ReadRow(rest, HeaderFields))
           c3 == Then(c2, LAMBDA rest : ReadRows(rest, NodeFields))
           c4 == Then(c3, LAMBDA rest : ReadRows(rest, EdgeFields))
           c5 == Then(c4, LAMBDA rest : ReadRows(rest, DiagnosticFields))
<1>4. ReadCompact(<<>>) = c5
    BY DEF ReadCompact
<1>5. ~c1.ok
    BY <1>3 DEF Then, Advance, Cursor, Got, Failed
<1> HIDE DEF c1
<1>6. ~c2.ok
    BY <1>5 DEF Then, Advance, Failed
<1> HIDE DEF c2
<1>7. ~c3.ok
    BY <1>6 DEF Then, Advance, Failed
<1> HIDE DEF c3
<1>8. ~c4.ok
    BY <1>7 DEF Then, Advance, Failed
<1> HIDE DEF c4
<1>9. ~c5.ok
    BY <1>8 DEF Then, Advance, Failed
<1>10. QED
    BY <1>4, <1>9

\* A partition that the writer accepts is read back from its record, with only
\* its path made UTF-8; a record that has lost its end is an error, and where
\* there is nothing left there are no more records (write_partition_binary and
\* read_partition_binary).
THEOREM PartitionIsReadBack ==
    ASSUME NEW p \in Partitions, Fits(p)
    PROVE  /\ RecordBytes(p) \in Strings /\ Len(RecordBytes(p)) \in Nat \ {0}
           /\ \A bytes \in Strings : Agree(bytes, RecordBytes(p)) =>
                ReadPartition(bytes) =
                    IF bytes = <<>> THEN NoMore
                    ELSE IF Len(RecordBytes(p)) <= Len(bytes)
                         THEN [outcome |-> "partition", partition |-> Stored(p),
                               rest |-> Drop(bytes, Len(RecordBytes(p)))]
                         ELSE Unreadable
<1> DEFINE table == StringTable(p)
           r == RecordBytes(p)
<1>1. table \in Seq(Strings) /\ Covers(table, p) /\ Short(table) /\ Countable(p)
    BY StringTableCovers DEF Fits, Countable
<1>2. r = RecordWith(p, table)
    BY DEF RecordBytes
<1> HIDE DEF table, r
<1>3. /\ r \in Strings
      /\ \A bytes \in Strings : Agree(bytes, r) => Reads(ReadCompact(bytes), Compact(p, table), bytes, Len(r))
    BY <1>1, <1>2, RecordIsRead
<1>4. Expand(Compact(p, table)) = Stored(p) /\ Valid(Stored(p))
    BY <1>1, CompactLeadsBack, StoredIsValid
<1>5. Len(r) \in Nat \ {0}
    <2>1. Len(r) \in Nat
        BY <1>3 DEF Strings
    <2>2. ASSUME Len(r) = 0 PROVE FALSE
        <3>1. <<>> \in Strings /\ Agree(<<>>, r) /\ Len(<<>>) = 0
            <4>1. \A j \in 1 .. 0 : FALSE
                OBVIOUS
            <4> QED BY <2>2, <4>1 DEF Agree, Strings
        <3>2. Reads(ReadCompact(<<>>), Compact(p, table), <<>>, Len(r))
            BY <1>3, <3>1
        <3>3. ReadCompact(<<>>).ok
            BY <2>2, <3>1, <3>2 DEF Reads, Got
        <3> QED BY <3>3, NothingIsTorn
    <2> QED BY <2>1, <2>2
<1>6. ASSUME NEW bytes \in Strings, Agree(bytes, r)
      PROVE  ReadPartition(bytes) =
                IF bytes = <<>> THEN NoMore
                ELSE IF Len(r) <= Len(bytes)
                     THEN [outcome |-> "partition", partition |-> Stored(p), rest |-> Drop(bytes, Len(r))]
                     ELSE Unreadable
    <2>1. Reads(ReadCompact(bytes), Compact(p, table), bytes, Len(r))
        BY <1>3, <1>6
    <2>2. CASE bytes = <<>>
        BY <2>2 DEF ReadPartition
    <2>3. CASE bytes # <<>> /\ Len(r) <= Len(bytes)
        <3>1. ReadCompact(bytes) = Got(Compact(p, table), Drop(bytes, Len(r)))
            BY <2>1, <2>3 DEF Reads
        <3> DEFINE c == ReadCompact(bytes)
        <3> HIDE DEF c
        <3>2. c.ok /\ c.value = Compact(p, table) /\ c.rest = Drop(bytes, Len(r))
            BY <3>1 DEF c, Got
        <3>3. ReadAll(c) = [outcome |-> "partition", partition |-> Stored(p), rest |-> Drop(bytes, Len(r))]
            BY <1>4, <3>2 DEF ReadAll
        <3> QED BY <2>3, <3>3 DEF ReadPartition, c
    <2>4. CASE bytes # <<>> /\ ~(Len(r) <= Len(bytes))
        <3>1. ReadCompact(bytes) = Failed
            BY <2>1, <2>4 DEF Reads
        <3>2. ReadAll(Failed) = Unreadable
            BY DEF ReadAll, Failed
        <3> QED BY <2>4, <3>1, <3>2 DEF ReadPartition
    <2> QED BY <2>2, <2>3, <2>4
<1>7. QED
    BY <1>3, <1>5, <1>6 DEF r
=============================================================================
