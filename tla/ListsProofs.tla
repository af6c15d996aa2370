----------------------------- MODULE ListsProofs -----------------------------
(***************************************************************************)
(* Facts about the lists of Lists, for the proofs about the components.    *)
(***************************************************************************)
EXTENDS Lists, FiniteSets, SequenceTheorems, FiniteSetTheorems, TLAPS

(* The elements of a list, by position. *)
LEMMA ElementsFacts ==
  ASSUME NEW S, NEW q \in Seq(S)
  PROVE  /\ DOMAIN q = 1..Len(q) /\ Len(q) \in Nat
         /\ Elements(q) \subseteq S
         /\ \A x : x \in Elements(q) <=> \E i \in 1..Len(q) : q[i] = x
         /\ Elements(q) = {} <=> q = << >>
BY EmptySeq, ElementOfSeq DEF Elements

(* The empty list. *)
LEMMA EmptyFacts ==
  /\ Elements(<< >>) = {} /\ Distinct(<< >>) /\ Len(<< >>) = 0
  /\ \A S : << >> \in Seq(S)
BY DEF Elements, Distinct

(* push_back. *)
LEMMA AppendFacts ==
  ASSUME NEW S, NEW q \in Seq(S), NEW x \in S
  PROVE  /\ Append(q, x) \in Seq(S) /\ Len(Append(q, x)) = Len(q) + 1
         /\ Elements(Append(q, x)) = Elements(q) \cup {x}
         /\ Distinct(Append(q, x)) <=> Distinct(q) /\ x \notin Elements(q)
<1> DEFINE r == Append(q, x)
<1>1. /\ r \in Seq(S) /\ Len(r) = Len(q) + 1 /\ r[Len(q) + 1] = x
      /\ \A i \in 1..Len(q) : r[i] = q[i]
      /\ DOMAIN r = 1..Len(q) + 1 /\ DOMAIN q = 1..Len(q) /\ Len(q) \in Nat
  OBVIOUS
<1> HIDE DEF r
<1>2. Elements(r) = Elements(q) \cup {x}
  BY <1>1, ElementsFacts DEF Elements
<1>3. Distinct(r) <=> Distinct(q) /\ x \notin Elements(q)
  BY <1>1 DEF Elements, Distinct
<1> QED
  BY <1>1, <1>2, <1>3 DEF r

(* front and pop_front. *)
LEMMA TailFacts ==
  ASSUME NEW S, NEW q \in Seq(S), q # << >>
  PROVE  /\ Head(q) \in S /\ Tail(q) \in Seq(S) /\ Len(Tail(q)) = Len(q) - 1
         /\ Head(q) = q[1] /\ Len(q) >= 1
         /\ Elements(q) = {Head(q)} \cup Elements(Tail(q))
         /\ Distinct(q) <=> Distinct(Tail(q)) /\ Head(q) \notin Elements(Tail(q))
<1> DEFINE r == Tail(q)
<1>1. /\ r \in Seq(S) /\ Len(r) = Len(q) - 1 /\ Head(q) = q[1] /\ Head(q) \in S
      /\ \A i \in 1..Len(q) - 1 : r[i] = q[i + 1]
      /\ DOMAIN r = 1..Len(q) - 1 /\ DOMAIN q = 1..Len(q) /\ Len(q) \in Nat /\ Len(q) >= 1
  BY EmptySeq, HeadTailProperties, ElementOfSeq
<1> HIDE DEF r
<1>2. \A i \in 2..Len(q) : i - 1 \in 1..Len(q) - 1 /\ q[i] = r[i - 1]
  BY <1>1
<1>3. Elements(q) = {q[1]} \cup Elements(r)
  <2>1. Elements(r) \subseteq Elements(q) /\ q[1] \in Elements(q)
    BY <1>1 DEF Elements
  <2>2. ASSUME NEW i \in 1..Len(q) PROVE q[i] \in {q[1]} \cup Elements(r)
    <3>1. CASE i = 1
      BY <3>1
    <3>2. CASE i # 1
      <4>1. i - 1 \in DOMAIN r /\ q[i] = r[i - 1]
        BY <3>2, <1>1, <1>2
      <4> QED
        BY <4>1 DEF Elements
    <3> QED
      BY <3>1, <3>2
  <2> QED
    BY <2>1, <2>2, <1>1 DEF Elements
<1>4. ASSUME Distinct(q) PROVE Distinct(r) /\ q[1] \notin Elements(r)
  <2>1. ASSUME NEW i \in DOMAIN r, NEW j \in DOMAIN r, r[i] = r[j] PROVE i = j
    <3>1. i + 1 \in DOMAIN q /\ j + 1 \in DOMAIN q /\ q[i + 1] = q[j + 1]
      BY <2>1, <1>1
    <3> QED
      BY <3>1, <1>1, <1>4 DEF Distinct
  <2>2. ASSUME NEW i \in DOMAIN r PROVE r[i] # q[1]
    <3>1. i + 1 \in DOMAIN q /\ 1 \in DOMAIN q /\ q[i + 1] = r[i] /\ i + 1 # 1
      BY <1>1
    <3> QED
      BY <3>1, <1>4 DEF Distinct
  <2> QED
    BY <2>1, <2>2 DEF Distinct, Elements
<1>5. ASSUME Distinct(r), q[1] \notin Elements(r) PROVE Distinct(q)
  <2> SUFFICES ASSUME NEW i \in 1..Len(q), NEW j \in 1..Len(q), q[i] = q[j], i < j
               PROVE  FALSE
    BY <1>1 DEF Distinct
  <2>1. CASE i = 1
    BY <2>1, <1>1, <1>2, <1>5 DEF Elements
  <2>2. CASE i # 1
    <3>1. /\ i - 1 \in DOMAIN r /\ j - 1 \in DOMAIN r /\ i - 1 # j - 1
          /\ r[i - 1] = q[i] /\ r[j - 1] = q[j]
      BY <2>2, <1>1, <1>2
    <3> QED
      BY <3>1, <1>5 DEF Distinct
  <2> QED
    BY <2>1, <2>2
<1> QED
  BY <1>1, <1>3, <1>4, <1>5 DEF r

(* One list after the other. *)
LEMMA ConcatFacts ==
  ASSUME NEW S, NEW p \in Seq(S), NEW q \in Seq(S)
  PROVE  /\ p \o q \in Seq(S) /\ Len(p \o q) = Len(p) + Len(q)
         /\ Elements(p \o q) = Elements(p) \cup Elements(q)
         /\ Distinct(p \o q) <=>
              Distinct(p) /\ Distinct(q) /\ Elements(p) \cap Elements(q) = {}
<1> DEFINE r == p \o q
<1>1. /\ r \in Seq(S) /\ Len(r) = Len(p) + Len(q) /\ DOMAIN r = 1..Len(p) + Len(q)
      /\ \A i \in 1..Len(p) : r[i] = p[i]
      /\ DOMAIN p = 1..Len(p) /\ DOMAIN q = 1..Len(q) /\ Len(p) \in Nat /\ Len(q) \in Nat
  BY ConcatProperties
<1>2. \A i \in 1..Len(q) : r[Len(p) + i] = q[i] /\ Len(p) + i \in DOMAIN r
  <2> SUFFICES ASSUME NEW i \in 1..Len(q)
               PROVE  r[Len(p) + i] = q[i] /\ Len(p) + i \in DOMAIN r
    OBVIOUS
  <2>1. Len(p) + i \in 1..Len(p) + Len(q) /\ Len(p) + i > Len(p) /\ (Len(p) + i) - Len(p) = i
    BY <1>1
  <2>2. r[Len(p) + i] = q[(Len(p) + i) - Len(p)]
    BY <2>1, <1>1, ConcatProperties
  <2> QED
    BY <2>1, <2>2, <1>1
<1> HIDE DEF r
<1>3. \A i \in Len(p) + 1..Len(p) + Len(q) : i - Len(p) \in 1..Len(q) /\ r[i] = q[i - Len(p)]
  <2> TAKE i \in Len(p) + 1..Len(p) + Len(q)
  <2>1. i - Len(p) \in 1..Len(q) /\ Len(p) + (i - Len(p)) = i
    BY <1>1
  <2> QED
    BY <2>1, <1>2
<1>4. Elements(r) = Elements(p) \cup Elements(q)
  <2>1. Elements(p) \subseteq Elements(r)
    BY <1>1 DEF Elements
  <2>3. Elements(q) \subseteq Elements(r)
    <3>1. ASSUME NEW i \in DOMAIN q PROVE q[i] \in Elements(r)
      <4>1. Len(p) + i \in DOMAIN r /\ q[i] = r[Len(p) + i]
        BY <1>1, <1>2
      <4> QED
        BY <4>1 DEF Elements
    <3> QED
      BY <3>1 DEF Elements
  <2>2. ASSUME NEW i \in DOMAIN r PROVE r[i] \in Elements(p) \cup Elements(q)
    <3>1. CASE i \in 1..Len(p)
      BY <3>1, <1>1 DEF Elements
    <3>2. CASE i \in Len(p) + 1..Len(p) + Len(q)
      BY <3>2, <1>1, <1>3 DEF Elements
    <3> QED
      BY <3>1, <3>2, <1>1
  <2> QED
    BY <2>1, <2>2, <2>3 DEF Elements
<1>5. ASSUME Distinct(r)
      PROVE  Distinct(p) /\ Distinct(q) /\ Elements(p) \cap Elements(q) = {}
  <2>1. Distinct(p)
    BY <1>1, <1>5 DEF Distinct
  <2>2. ASSUME NEW i \in 1..Len(q), NEW j \in 1..Len(q), q[i] = q[j] PROVE i = j
    <3>1. Len(p) + i = Len(p) + j
      BY <2>2, <1>2, <1>5 DEF Distinct
    <3> QED
      BY <3>1, <1>1
  <2>3. ASSUME NEW i \in 1..Len(p), NEW j \in 1..Len(q), p[i] = q[j] PROVE FALSE
    <3>1. i \in DOMAIN r /\ r[i] = r[Len(p) + j] /\ i # Len(p) + j
      BY <2>3, <1>1, <1>2
    <3> QED
      BY <3>1, <1>2, <1>5 DEF Distinct
  <2> QED
    BY <2>1, <2>2, <2>3, <1>1 DEF Distinct, Elements
<1>6. ASSUME Distinct(p), Distinct(q), Elements(p) \cap Elements(q) = {}
      PROVE  Distinct(r)
  <2> SUFFICES ASSUME NEW i \in DOMAIN r, NEW j \in DOMAIN r, r[i] = r[j], i < j
               PROVE  FALSE
    BY <1>1 DEF Distinct
  <2>1. CASE j <= Len(p)
    BY <2>1, <1>1, <1>6 DEF Distinct
  <2>2. CASE i > Len(p)
    <3>1. i - Len(p) \in 1..Len(q) /\ j - Len(p) \in 1..Len(q) /\ i - Len(p) # j - Len(p)
      BY <2>2, <1>1
    <3>2. q[i - Len(p)] = q[j - Len(p)]
      BY <2>2, <1>1, <1>3, SMTT(30)
    <3> QED
      BY <3>1, <3>2, <1>1, <1>6 DEF Distinct
  <2>3. CASE i <= Len(p) /\ j > Len(p)
    <3>1. r[i] \in Elements(p)
      BY <2>3, <1>1 DEF Elements
    <3>2. r[j] \in Elements(q)
      <4>1. j \in Len(p) + 1..Len(p) + Len(q)
        BY <2>3, <1>1
      <4>2. j - Len(p) \in DOMAIN q /\ r[j] = q[j - Len(p)]
        BY <4>1, <1>1, <1>3
      <4> QED
        BY <4>2 DEF Elements
    <3> QED
      BY <3>1, <3>2, <1>6
  <2> QED
    BY <2>1, <2>2, <2>3, <1>1
<1> QED
  BY <1>1, <1>4, <1>5, <1>6 DEF r

(* erase of the element at position p. *)
LEMMA RemoveAtFacts ==
  ASSUME NEW S, NEW q \in Seq(S), NEW p \in 1..Len(q)
  PROVE  LET r == SeqExt!RemoveAt(q, p)
         IN  /\ r \in Seq(S) /\ Len(r) = Len(q) - 1 /\ DOMAIN r = 1..Len(q) - 1
             /\ \A i \in 1..Len(q) - 1 : r[i] = IF i < p THEN q[i] ELSE q[i + 1]
<1> DEFINE a == SubSeq(q, 1, p - 1)
           b == SubSeq(q, p + 1, Len(q))
           r == a \o b
<1>0. Len(q) \in Nat /\ p \in Nat /\ p >= 1 /\ p <= Len(q)
  OBVIOUS
<1>1. a \in Seq(S) /\ Len(a) = p - 1 /\ \A i \in 1..p - 1 : a[i] = q[i]
  BY <1>0, SubSeqProperties
<1>2. b \in Seq(S) /\ Len(b) = Len(q) - p /\ \A i \in 1..Len(q) - p : b[i] = q[p + i]
  <2>1. b \in Seq(S) /\ Len(b) = Len(q) - p
    BY <1>0, SubSeqProperties
  <2>2. ASSUME NEW i \in 1..Len(q) - p PROVE b[i] = q[p + i]
    <3>1. b[i] = q[(p + 1) + i - 1] /\ (p + 1) + i - 1 = p + i
      BY <1>0, SubSeqProperties
    <3> QED BY <3>1
  <2> QED
    BY <2>1, <2>2
<1> HIDE DEF a, b
<1>3. /\ r \in Seq(S) /\ Len(r) = Len(q) - 1 /\ DOMAIN r = 1..Len(q) - 1
      /\ \A i \in 1..Len(q) - 1 : r[i] = IF i <= p - 1 THEN a[i] ELSE b[i - (p - 1)]
  <2>1. r \in Seq(S) /\ Len(r) = Len(a) + Len(b)
    BY <1>1, <1>2, ConcatProperties
  <2>3. Len(a) + Len(b) = Len(q) - 1
    BY <1>0, <1>1, <1>2
  <2>2. ASSUME NEW i \in 1..Len(q) - 1
        PROVE  r[i] = IF i <= p - 1 THEN a[i] ELSE b[i - (p - 1)]
    <3>1. i \in 1..Len(a) + Len(b) /\ Len(a) = p - 1
      BY <1>0, <1>1, <1>2
    <3> QED
      BY <3>1, <1>1, <1>2, ConcatProperties
  <2>4. Len(r) = Len(q) - 1 /\ DOMAIN r = 1..Len(q) - 1
    BY <2>1, <2>3
  <2> QED
    BY <2>1, <2>2, <2>4
<1>4. ASSUME NEW i \in 1..Len(q) - 1
      PROVE  r[i] = IF i < p THEN q[i] ELSE q[i + 1]
  <2>1. CASE i < p
    BY <2>1, <1>0, <1>1, <1>3
  <2>2. CASE ~(i < p)
    <3>1. i - (p - 1) \in 1..Len(q) - p /\ p + (i - (p - 1)) = i + 1
      BY <2>2, <1>0
    <3>2. r[i] = b[i - (p - 1)]
      BY <2>2, <1>0, <1>3
    <3> QED
      BY <2>2, <3>1, <3>2, <1>2
  <2> QED
    BY <2>1, <2>2
<1>5. SeqExt!RemoveAt(q, p) = r
  BY DEF SeqExt!RemoveAt, a, b
<1> HIDE DEF r
<1> QED
  BY <1>3, <1>4, <1>5

(* A list of distinct elements, without one of them. *)
LEMMA WithoutFacts ==
  ASSUME NEW S, NEW q \in Seq(S), Distinct(q), NEW x
  PROVE  /\ Without(q, x) \in Seq(S) /\ Distinct(Without(q, x))
         /\ Elements(Without(q, x)) = Elements(q) \ {x}
         /\ Len(Without(q, x)) = IF x \in Elements(q) THEN Len(q) - 1 ELSE Len(q)
<1>1. CASE x \notin Elements(q)
  BY <1>1 DEF Without
<1>2. CASE x \in Elements(q)
  <2> DEFINE p == Position(q, x)
             r == SeqExt!RemoveAt(q, p)
  <2>1. DOMAIN q = 1..Len(q) /\ p \in 1..Len(q) /\ q[p] = x /\ Len(q) \in Nat
    BY <1>2, ElementsFacts DEF Position
  <2> HIDE DEF p
  <2>2. /\ r \in Seq(S) /\ Len(r) = Len(q) - 1 /\ DOMAIN r = 1..Len(q) - 1
        /\ \A i \in 1..Len(q) - 1 : r[i] = IF i < p THEN q[i] ELSE q[i + 1]
    BY <2>1, RemoveAtFacts
  <2> HIDE DEF r
  <2>3. Distinct(r)
    <3> SUFFICES ASSUME NEW i \in 1..Len(q) - 1, NEW j \in 1..Len(q) - 1, r[i] = r[j]
                 PROVE  i = j
      BY <2>2 DEF Distinct
    <3> DEFINE f(n) == IF n < p THEN n ELSE n + 1
    <3>1. q[f(i)] = q[f(j)] /\ f(i) \in DOMAIN q /\ f(j) \in DOMAIN q
      BY <2>1, <2>2
    <3>2. f(i) = f(j)
      BY <3>1 DEF Distinct
    <3> QED
      BY <2>1, <3>2
  <2>4. ASSUME NEW i \in 1..Len(q) - 1 PROVE r[i] \in Elements(q) \ {x}
    <3> DEFINE f == IF i < p THEN i ELSE i + 1
    <3>1. f \in DOMAIN q /\ f # p /\ r[i] = q[f] /\ p \in DOMAIN q
      BY <2>1, <2>2
    <3> QED
      BY <3>1, <2>1 DEF Elements, Distinct
  <2>5. ASSUME NEW i \in 1..Len(q), q[i] # x PROVE q[i] \in Elements(r)
    <3>1. CASE i < p
      BY <3>1, <2>1, <2>2 DEF Elements
    <3>2. CASE i > p
      <4>1. i - 1 \in 1..Len(q) - 1 /\ ~(i - 1 < p) /\ (i - 1) + 1 = i
        BY <3>2, <2>1
      <4> QED
        BY <4>1, <2>2 DEF Elements
    <3> QED
      BY <3>1, <3>2, <2>1, <2>5
  <2>6. Elements(r) = Elements(q) \ {x}
    BY <2>1, <2>2, <2>4, <2>5 DEF Elements
  <2> QED
    BY <1>2, <2>2, <2>3, <2>6 DEF Without, r, p
<1> QED
  BY <1>1, <1>2

(* A list has as many elements as positions when it holds each once. *)
LEMMA DistinctCount ==
  ASSUME NEW S, NEW q \in Seq(S)
  PROVE  /\ IsFiniteSet(Elements(q))
         /\ Cardinality(Elements(q)) = Len(q) <=> Distinct(q)
<1> DEFINE D == 1..Len(q)
           E == Elements(q)
<1>1. DOMAIN q = D /\ Len(q) \in Nat /\ q \in [D -> E]
  BY DEF Elements
<1>2. q \in Surjection(D, E)
  BY <1>1 DEF Surjection, Elements
<1>3. IsFiniteSet(D) /\ Cardinality(D) = Len(q)
  BY <1>1, FS_Interval
<1>4. /\ IsFiniteSet(E)
      /\ Cardinality(E) = Cardinality(D) <=> q \in Injection(D, E)
  BY <1>2, <1>3, FS_Surjection
<1>5. q \in Injection(D, E) <=> Distinct(q)
  BY <1>1 DEF Injection, IsInjective, Distinct
<1> QED
  BY <1>3, <1>4, <1>5

(* A set of naturals that is not empty has a least element.  The intervals  *)
(* 0..n are finite sets, which strict inclusion orders without an infinite  *)
(* descent: the induction that the proofs on lists need.                    *)
LEMMA LeastNatural ==
  ASSUME NEW T \in SUBSET Nat, T # {}
  PROVE  \E n \in T : \A m \in T : ~(m < n)
<1> DEFINE U == {0..n : n \in T}
           R == StrictSubsetOrdering(Nat)
<1>1. IsWellFoundedOn(R, FiniteSubsetsOf(Nat))
  BY FS_StrictSubsetOrderingWellFounded
<1>2. U \subseteq FiniteSubsetsOf(Nat) /\ U # {}
  <2>1. ASSUME NEW n \in T PROVE 0..n \in FiniteSubsetsOf(Nat)
    <3>1. 0..n \subseteq Nat /\ IsFiniteSet(0..n)
      BY FS_Interval
    <3> QED
      BY <3>1 DEF FiniteSubsetsOf
  <2> QED
    BY <2>1
<1>3. PICK X \in U : \A Y \in U : ~(<<Y, X>> \in R)
  <2> HIDE DEF U, R
  <2> QED
    BY <1>1, <1>2, WFMin
<1>4. PICK n \in T : X = 0..n
  OBVIOUS
<1>5. ASSUME NEW m \in T, m < n PROVE FALSE
  <2>1. 0..m \subseteq 0..n /\ 0..m # 0..n /\ 0..m \subseteq Nat /\ 0..n \subseteq Nat
    <3>1. n \in 0..n /\ n \notin 0..m
      BY <1>5
    <3> QED
      BY <1>5, <3>1
  <2>2. <<0..m, 0..n>> \in R
    BY <2>1 DEF StrictSubsetOrdering
  <2>3. 0..m \in U
    OBVIOUS
  <2> HIDE DEF U, R
  <2> QED
    BY <1>3, <1>4, <2>2, <2>3
<1> QED
  BY <1>5

(* A set that contains 0 and the successor of each of its naturals.        *)
LEMMA SetInduction ==
  ASSUME NEW T, 0 \in T, \A n \in Nat : n \in T => n + 1 \in T
  PROVE  Nat \subseteq T
<1> SUFFICES ASSUME Nat \ T # {} PROVE FALSE
  OBVIOUS
<1>1. PICK n \in Nat \ T : \A m \in Nat \ T : ~(m < n)
  BY LeastNatural
<1>2. n # 0
  BY <1>1
<1>3. n - 1 \in Nat /\ n - 1 < n
  BY <1>1, <1>2
<1>4. n - 1 \in T
  BY <1>1, <1>3
<1> QED
  BY <1>1, <1>3, <1>4

(* The recursion of WithoutAll: it defines a function. *)
KeptStep(q, S, f, n) ==
  IF n = 0 THEN << >> ELSE IF q[n] \in S THEN f[n - 1] ELSE Append(f[n - 1], q[n])

LEMMA KeptExists ==
  ASSUME NEW q, NEW S
  PROVE  \A m \in Nat : \E f : f = [n \in 0..m |-> KeptStep(q, S, f, n)]
<1> DEFINE T == {m \in Nat : \E f : f = [n \in 0..m |-> KeptStep(q, S, f, n)]}
<1>1. 0 \in T
  <2>1. [n \in 0..0 |-> << >>] = [n \in 0..0 |-> KeptStep(q, S, [i \in 0..0 |-> << >>], n)]
    BY DEF KeptStep
  <2> QED BY <2>1
<1>2. ASSUME NEW m \in Nat, m \in T PROVE m + 1 \in T
  <2>1. PICK f : f = [n \in 0..m |-> KeptStep(q, S, f, n)]
    BY <1>2
  <2> DEFINE g == [n \in 0..m + 1 |-> IF n = m + 1 THEN KeptStep(q, S, f, n) ELSE f[n]]
  <2>2. ASSUME NEW n \in 0..m + 1 PROVE g[n] = KeptStep(q, S, g, n)
    <3>1. n # 0 => n - 1 \in 0..m /\ n - 1 \in 0..m + 1 /\ n - 1 # m + 1
      BY <2>2
    <3>2. n # 0 => g[n - 1] = f[n - 1]
      BY <3>1
    <3>3. KeptStep(q, S, g, n) = KeptStep(q, S, f, n)
      <4> HIDE DEF g
      <4> QED BY <3>2 DEF KeptStep
    <3>4. g[n] = KeptStep(q, S, f, n)
      <4>1. n # m + 1 => n \in 0..m
        BY <2>2
      <4>2. n # m + 1 => f[n] = KeptStep(q, S, f, n)
        BY <2>1, <4>1
      <4> QED BY <4>2
    <3> QED BY <3>3, <3>4
  <2>3. g = [n \in 0..m + 1 |-> KeptStep(q, S, g, n)]
    <3>1. g = [n \in 0..m + 1 |-> g[n]]
      OBVIOUS
    <3> HIDE DEF g
    <3> QED BY <2>2, <3>1
  <2> HIDE DEF g
  <2> QED BY <2>3
<1> HIDE DEF T
<1>3. Nat \subseteq T
  BY <1>1, <1>2, SetInduction
<1> QED
  BY <1>3 DEF T

LEMMA WithoutAllDef ==
  ASSUME NEW A, NEW q \in Seq(A), NEW S
  PROVE  \E f : /\ f = [n \in 0..Len(q) |-> KeptStep(q, S, f, n)]
                /\ WithoutAll(q, S) = f[Len(q)]
<1>0. Len(q) \in Nat
  OBVIOUS
<1>1. \E f : f = [n \in 0..Len(q) |-> KeptStep(q, S, f, n)]
  BY <1>0, KeptExists
<1> DEFINE g == CHOOSE f : f = [n \in 0..Len(q) |-> KeptStep(q, S, f, n)]
<1>2. g = [n \in 0..Len(q) |-> KeptStep(q, S, g, n)]
  BY <1>1
<1>3. WithoutAll(q, S) = g[Len(q)]
  BY Zenon DEF WithoutAll, KeptStep
<1> HIDE DEF g
<1> QED BY <1>2, <1>3

(* A list without the elements of a set. *)
LEMMA WithoutAllFacts ==
  ASSUME NEW A, NEW q \in Seq(A), NEW S
  PROVE  /\ WithoutAll(q, S) \in Seq(A)
         /\ Elements(WithoutAll(q, S)) = Elements(q) \ S
         /\ Distinct(q) => Distinct(WithoutAll(q, S))
<1>0. Len(q) \in Nat /\ DOMAIN q = 1..Len(q) /\ \A i \in 1..Len(q) : q[i] \in A
  BY ElementOfSeq
<1>1. PICK f : f = [n \in 0..Len(q) |-> KeptStep(q, S, f, n)]
               /\ WithoutAll(q, S) = f[Len(q)]
  BY WithoutAllDef
<1> DEFINE Upto(n) == {q[i] : i \in 1..n}
           Good(n) == /\ f[n] \in Seq(A)
                      /\ Elements(f[n]) = Upto(n) \ S
                      /\ Distinct(q) => Distinct(f[n])
           T == {n \in Nat : n <= Len(q) => Good(n)}
<1>2. 0 \in T
  <2>1. f[0] = << >>
    BY <1>0, <1>1 DEF KeptStep
  <2>2. Upto(0) = {}
    OBVIOUS
  <2> HIDE DEF Upto
  <2> QED
    BY <2>1, <2>2, EmptyFacts
<1>3. ASSUME NEW n \in Nat, n \in T PROVE n + 1 \in T
  <2> SUFFICES ASSUME n + 1 <= Len(q) PROVE Good(n + 1)
    OBVIOUS
  <2>1. Good(n) /\ n + 1 \in 1..Len(q) /\ n + 1 \in 0..Len(q) /\ n + 1 # 0 /\ (n + 1) - 1 = n
    BY <1>0, <1>3
  <2>2. f[n + 1] = IF q[n + 1] \in S THEN f[n] ELSE Append(f[n], q[n + 1])
    <3>1. f[n + 1] = KeptStep(q, S, f, n + 1)
      BY <1>1, <2>1
    <3> QED
      BY <2>1, <3>1 DEF KeptStep
  <2>3. Upto(n + 1) = Upto(n) \cup {q[n + 1]}
    OBVIOUS
  <2>4. Distinct(q) => q[n + 1] \notin Upto(n)
    BY <1>0, <2>1 DEF Distinct
  <2> HIDE DEF Upto
  <2>5. CASE q[n + 1] \in S
    BY <2>1, <2>2, <2>3, <2>5
  <2>6. CASE q[n + 1] \notin S
    <3>1. q[n + 1] \in A /\ f[n] \in Seq(A)
      BY <1>0, <2>1
    <3>2. /\ f[n + 1] \in Seq(A) /\ Elements(f[n + 1]) = Elements(f[n]) \cup {q[n + 1]}
          /\ Distinct(f[n + 1]) <=> Distinct(f[n]) /\ q[n + 1] \notin Elements(f[n])
      BY <2>2, <2>6, <3>1, AppendFacts
    <3> QED
      BY <2>1, <2>3, <2>4, <2>6, <3>2
  <2> QED
    BY <2>5, <2>6
<1> HIDE DEF T
<1>4. Nat \subseteq T
  BY <1>2, <1>3, SetInduction
<1>5. Good(Len(q))
  <2> HIDE DEF Good
  <2>1. Len(q) \in T
    BY <1>0, <1>4
  <2> QED
    BY <1>0, <2>1 DEF T
<1>6. Upto(Len(q)) = Elements(q)
  BY <1>0 DEF Elements
<1> QED
  BY <1>1, <1>5, <1>6

(* The cardinal that SetToSeq uses. *)
LEMMA SeqExtCardinality == \A S : SeqExt!Cardinality(S) = Cardinality(S)
BY DEF SeqExt!Cardinality, Cardinality

(* A set of one element at most, as a sequence. *)
LEMMA SmallSetToSeq ==
  /\ SeqExt!SetToSeq({}) = << >>
  /\ \A k : SeqExt!SetToSeq({k}) = <<k>>
<1>1. SeqExt!SetToSeq({}) = << >>
  <2>1. Cardinality({}) = 0 /\ 1..0 = {}
    BY FS_EmptySet
  <2> DEFINE P(f) == f \in [1..0 -> {}] /\ SeqExt!IsInjective(f)
  <2>2. P(<< >>) /\ \A f \in [1..0 -> {}] : f = << >>
    BY <2>1 DEF SeqExt!IsInjective
  <2>3. (CHOOSE f \in [1..0 -> {}] : SeqExt!IsInjective(f)) = << >>
    BY <2>2
  <2> QED
    BY <2>1, <2>3, SeqExtCardinality DEF SeqExt!SetToSeq
<1>2. ASSUME NEW k PROVE SeqExt!SetToSeq({k}) = <<k>>
  <2>1. Cardinality({k}) = 1 /\ 1..1 = {1}
    BY FS_Singleton
  <2>2. <<k>> \in [1..1 -> {k}] /\ SeqExt!IsInjective(<<k>>)
    BY <2>1 DEF SeqExt!IsInjective
  <2>3. \A f \in [1..1 -> {k}] : f = <<k>>
    BY <2>1
  <2>4. (CHOOSE f \in [1..1 -> {k}] : SeqExt!IsInjective(f)) = <<k>>
    BY <2>2, <2>3
  <2> QED
    BY <2>1, <2>4, SeqExtCardinality DEF SeqExt!SetToSeq
<1> QED
  BY <1>1, <1>2
=============================================================================
