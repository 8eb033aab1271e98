----------------------------- MODULE FoldProofs -----------------------------
(* Least and greatest elements, induction with a set for the property, and *)
(* folds over a sequence.  A fold is a CHOOSE of a function; that there is *)
(* one, and which values it goes through, is shown here once for the       *)
(* proofs about the components.                                            *)
EXTENDS Integers, FiniteSetsExt, WellFoundedInduction, TLAPS

\* A nonempty set of natural numbers has a least element, which is Min of it.
LEMMA MinIsLeast ==
    ASSUME NEW S \in SUBSET Nat, S # {}
    PROVE  Min(S) \in S /\ \A y \in S : Min(S) <= y
<1> DEFINE Less == OpToRel(<, Nat)
<1>1. ASSUME NEW x \in Nat, NEW y \in Nat, y < x
      PROVE  <<y, x>> \in Less
  <2>1. <<y, x>>[1] = y /\ <<y, x>>[2] = x /\ <<y, x>> \in Nat \X Nat
    OBVIOUS
  <2>2. QED
    BY <1>1, <2>1, Zenon DEF OpToRel
<1>2. IsWellFoundedOn(Less, Nat)
  BY NatLessThanWellFounded, Zenon
<1> HIDE DEF Less
<1>3. PICK x \in S : \A y \in S : ~(<<y, x>> \in Less)
  BY <1>2, WFMin, Zenon
<1>4. \A y \in S : x <= y
  <2> SUFFICES ASSUME NEW y \in S, y < x PROVE FALSE
    OBVIOUS
  <2>1. <<y, x>> \in Less
    BY <1>1
  <2>2. QED
    BY <1>3, <2>1, Zenon
<1>5. QED
  BY <1>3, <1>4, Zenon DEF Min

\* A nonempty bounded set of numbers has a greatest one, which is Max of it:
\* the least of its upper bounds.
LEMMA MaxOfBounded ==
    ASSUME NEW n \in Nat, NEW S \in SUBSET (0..n), S # {}
    PROVE  Max(S) \in S /\ \A y \in S : Max(S) >= y
<1> DEFINE U == {u \in Nat : \A y \in S : u >= y}
<1>1. U \in SUBSET Nat /\ n \in U
  OBVIOUS
<1>2. Min(U) \in U /\ \A u \in U : Min(U) <= u
  <2> HIDE DEF U
  <2>1. QED
    BY <1>1, MinIsLeast
<1>3. PICK m \in U : \A u \in U : m <= u
  <2> HIDE DEF U
  <2>1. QED
    BY <1>2
<1>4. m \in S
  <2> SUFFICES ASSUME m \notin S PROVE FALSE
    OBVIOUS
  <2>1. PICK y \in S : y \in 0..n
    OBVIOUS
  <2>2. m - 1 \in U
    <3>1. m \in Nat /\ m > 0 /\ \A z \in S : z \in Nat /\ z <= m /\ z # m
      BY <2>1
    <3>2. QED
      BY <3>1
  <2>3. QED
    BY <1>3, <2>2
<1>5. \A y \in S : m >= y
  OBVIOUS
<1>6. QED
  BY <1>4, <1>5, Zenon DEF Max

\* In particular a set of positions has a last one.
LEMMA MaxIsGreatest ==
    ASSUME NEW n \in Nat, NEW S \in SUBSET (1..n), S # {}
    PROVE  Max(S) \in S /\ \A y \in S : Max(S) >= y
<1>1. S \in SUBSET (0..n)
  OBVIOUS
<1>2. QED
  BY <1>1, MaxOfBounded

\* Induction up to n, with a set for the property.
LEMMA UpTo ==
    ASSUME NEW n \in Nat, NEW S, 0 \in S, \A k \in 1..n : k - 1 \in S => k \in S
    PROVE  \A k \in 0..n : k \in S
<1> DEFINE Bad == {k \in Nat : k <= n /\ k \notin S}
<1> SUFFICES ASSUME Bad # {} PROVE FALSE
  OBVIOUS
<1>1. Bad \in SUBSET Nat
  OBVIOUS
<1>2. PICK m \in Bad : \A y \in Bad : m <= y
  <2> HIDE DEF Bad
  <2>1. QED
    BY <1>1, MinIsLeast
<1>3. m \in 1..n /\ m - 1 \in Nat /\ m - 1 <= n
  OBVIOUS
<1>4. m - 1 \in S
  BY <1>2, <1>3
<1>5. QED
  BY <1>3, <1>4

\* The function a fold over 1..n iterates: op[<<x, k>>] is what it makes of the
\* value x and the element at position k.
Iterates(g, A, base, op, n) ==
    /\ g \in [SUBSET (1..n) -> A]
    /\ \A t \in SUBSET (1..n) :
          g[t] = IF t = {} THEN base ELSE op[<<g[t \ {Max(t)}], Max(t)>>]

\* It exists: it is built up one position at a time.
LEMMA IterExists ==
    ASSUME NEW A, NEW base \in A, NEW n \in Nat, NEW op \in [A \X (1..n) -> A]
    PROVE  \E g : Iterates(g, A, base, op, n)
<1> DEFINE S == {m \in 0..n : \E g : Iterates(g, A, base, op, m)}
<1>1. 0 \in S
  <2> DEFINE g == [t \in SUBSET (1..0) |-> base]
  <2>1. 1..0 = {}
    OBVIOUS
  <2>2. g \in [SUBSET (1..0) -> A]
    OBVIOUS
  <2>3. \A t \in SUBSET (1..0) : t = {} /\ g[t] = base
    BY <2>1
  <2> HIDE DEF g
  <2>4. \A t \in SUBSET (1..0) :
           g[t] = IF t = {} THEN base ELSE op[<<g[t \ {Max(t)}], Max(t)>>]
    BY <2>3, Zenon
  <2>5. 0 \in 0..n
    OBVIOUS
  <2>6. QED
    BY <2>2, <2>4, <2>5, Zenon DEF Iterates
<1>2. ASSUME NEW m \in 1..n, m - 1 \in S PROVE m \in S
  <2>1. PICK g \in [SUBSET (1..(m-1)) -> A] : \A t \in SUBSET (1..(m-1)) :
             g[t] = IF t = {} THEN base ELSE op[<<g[t \ {Max(t)}], Max(t)>>]
    BY <1>2, Zenon DEF Iterates
  <2> DEFINE h == [t \in SUBSET (1..m) |->
                     IF m \in t THEN op[<<g[t \ {m}], m>>] ELSE g[t]]
  <2>2. \A t \in SUBSET (1..m) : t \ {m} \in SUBSET (1..(m-1))
    BY <1>2
  <2>3. \A t \in SUBSET (1..m) : m \notin t => t \in SUBSET (1..(m-1))
    BY <2>2
  <2>4. h \in [SUBSET (1..m) -> A]
    <3> SUFFICES ASSUME NEW t \in SUBSET (1..m)
                 PROVE (IF m \in t THEN op[<<g[t \ {m}], m>>] ELSE g[t]) \in A
      BY Zenon
    <3>1. CASE m \in t
      <4>1. g[t \ {m}] \in A
        BY <2>2
      <4>2. <<g[t \ {m}], m>> \in A \X (1..n)
        BY <4>1
      <4>3. op[<<g[t \ {m}], m>>] \in A
        BY <4>2, Zenon
      <4>4. QED
        BY <3>1, <4>3, Zenon
    <3>2. CASE m \notin t
      BY <2>3, <3>2
    <3>3. QED
      BY <3>1, <3>2
  <2>5. ASSUME NEW t \in SUBSET (1..m)
        PROVE  h[t] = IF t = {} THEN base ELSE op[<<h[t \ {Max(t)}], Max(t)>>]
    <3>0. \A u \in SUBSET (1..m) : m \notin u => h[u] = g[u]
      BY Zenon
    <3>1. CASE m \in t
      <4>1. Max(t) = m
        <5>1. t # {} /\ m \in Nat /\ t \in SUBSET (1..m)
          BY <3>1
        <5>2. Max(t) \in t /\ Max(t) >= m
          BY <3>1, <5>1, MaxIsGreatest
        <5>3. Max(t) \in 1..m
          BY <5>2, Zenon
        <5>4. QED
          BY <5>1, <5>2, <5>3
      <4>2. h[t \ {m}] = g[t \ {m}]
        <5>1. m \notin t \ {m} /\ t \ {m} \in SUBSET (1..m)
          OBVIOUS
        <5>2. QED
          BY <3>0, <5>1, Zenon
      <4>3. h[t] = op[<<g[t \ {m}], m>>]
        BY <3>1, Zenon
      <4>4. t # {}
        BY <3>1
      <4> HIDE DEF h
      <4>5. QED
        BY <4>1, <4>2, <4>3, <4>4, Zenon
    <3>2. CASE m \notin t
      <4>1. h[t] = g[t] /\ t \in SUBSET (1..(m-1))
        BY <2>3, <3>0, <3>2, Zenon
      <4>2. m \notin t \ {Max(t)} /\ t \ {Max(t)} \in SUBSET (1..m)
        BY <3>2, Zenon
      <4>3. h[t \ {Max(t)}] = g[t \ {Max(t)}]
        BY <3>0, <4>2, Zenon
      <4> HIDE DEF h
      <4>4. QED
        BY <2>1, <4>1, <4>3, Zenon
    <3>3. QED
      BY <3>1, <3>2
  <2> HIDE DEF h
  <2>6. Iterates(h, A, base, op, m)
    BY <2>4, <2>5, Zenon DEF Iterates
  <2>7. m \in 0..n
    BY <1>2
  <2>8. QED
    BY <2>6, <2>7, Zenon
<1> HIDE DEF S
<1>3. n \in S
  BY <1>1, <1>2, UpTo
<1>4. QED
  BY <1>3, Zenon DEF S

\* The values a fold goes through, one per position.
Trace(a, A, base, op, n, end) ==
    /\ a \in [0..n -> A] /\ a[0] = base /\ a[n] = end
    /\ \A k \in 1..n : a[k] = op[<<a[k - 1], k>>]

LEMMA Prefix ==
    ASSUME NEW k \in Nat \ {0}
    PROVE  1..k # {} /\ Max(1..k) = k /\ (1..k) \ {k} = 1..(k - 1)
<1>1. k \in 1..k /\ 1..k \in SUBSET (1..k) /\ 1..k # {}
  OBVIOUS
<1>2. Max(1..k) \in 1..k /\ Max(1..k) >= k
  BY <1>1, MaxIsGreatest
<1>3. QED
  BY <1>1, <1>2

Follows(it, A, base, op, n) ==
    /\ it[{}] = base
    /\ \A k \in 1..n : it[1..(k - 1)] \in A =>
                         it[1..k] = op[<<it[1..(k - 1)], k>>]

\* The function of a fold, followed along the prefixes of the sequence.
LEMMA TraceOf ==
    ASSUME NEW A, NEW base \in A, NEW n \in Nat, NEW op \in [A \X (1..n) -> A],
           NEW it, Follows(it, A, base, op, n)
    PROVE  \E a : Trace(a, A, base, op, n, it[1..n])
<1> DEFINE S == {k \in 0..n : it[1..k] \in A}
           a == [k \in 0..n |-> it[1..k]]
<1>0. /\ it[{}] = base
      /\ \A k \in 1..n : it[1..(k - 1)] \in A =>
                           it[1..k] = op[<<it[1..(k - 1)], k>>]
  BY DEF Follows
<1>1. 1..0 = {}
  OBVIOUS
<1>2. 0 \in S
  BY <1>0, <1>1
<1>3. ASSUME NEW k \in 1..n, k - 1 \in S PROVE k \in S
  <2>1. it[1..(k - 1)] \in A
    BY <1>3
  <2>2. <<it[1..(k - 1)], k>> \in A \X (1..n)
    BY <2>1
  <2>3. it[1..k] \in A
    BY <1>0, <2>1, <2>2, Zenon
  <2>4. k \in 0..n
    OBVIOUS
  <2>5. QED
    BY <2>3, <2>4, Zenon
<1>4. \A k \in 0..n : k \in S
  <2> HIDE DEF S
  <2>1. QED
    BY <1>2, <1>3, UpTo
<1>5. a \in [0..n -> A]
  BY <1>4, Zenon
<1>6. a[0] = base /\ a[n] = it[1..n]
  BY <1>0, <1>1
<1>7. ASSUME NEW k \in 1..n PROVE a[k] = op[<<a[k - 1], k>>]
  <2>1. k \in 0..n /\ k - 1 \in 0..n
    OBVIOUS
  <2>2. a[k] = it[1..k] /\ a[k - 1] = it[1..(k - 1)] /\ it[1..(k - 1)] \in A
    BY <1>4, <2>1, Zenon
  <2>3. QED
    BY <1>0, <2>2, Zenon
<1> HIDE DEF a
<1>8. QED
  BY <1>5, <1>6, <1>7, Zenon DEF Trace

\* The function is applied to what it yields for smaller sets.
LEMMA IterInside ==
    ASSUME NEW A, NEW base \in A, NEW n \in Nat, NEW op \in [A \X (1..n) -> A],
           NEW g, Iterates(g, A, base, op, n)
    PROVE  \A t \in SUBSET (1..n) : t # {} =>
              g[t \ {Max(t)}] \in A /\ Max(t) \in 1..n
<1> SUFFICES ASSUME NEW t \in SUBSET (1..n), t # {}
             PROVE  g[t \ {Max(t)}] \in A /\ Max(t) \in 1..n
  OBVIOUS
<1>1. Max(t) \in t
  BY MaxIsGreatest
<1>2. t \ {Max(t)} \in SUBSET (1..n)
  OBVIOUS
<1>3. QED
  BY <1>1, <1>2, Zenon DEF Iterates

=============================================================================
