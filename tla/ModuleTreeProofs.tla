-------------------------- MODULE ModuleTreeProofs --------------------------
(***************************************************************************)
(* Proofs about ModuleTree for every set of ids, types and requests.       *)
(*                                                                         *)
(* Keep is a recursive function.  That such a function exists and what it  *)
(* computes are proved by induction over a set of numbers.                 *)
(***************************************************************************)
EXTENDS ModuleTree, SequenceTheorems, FiniteSetTheorems, NaturalsInduction,
        WellFoundedInduction, TLAPS

Injective(s) == \A i, j \in DOMAIN s : s[i] = s[j] => i = j

(* Every non-empty set of numbers has a least element. *)
LEMMA NatMin ==
  ASSUME NEW T, T \subseteq Nat, T # {}
  PROVE  \E x \in T : \A y \in T : x <= y
<1>1. \E x \in T : \A y \in T : ~ (<<y, x>> \in OpToRel(<, Nat))
  BY NatLessThanWellFounded, WFMin
<1>2. \A x, y \in Nat : <<y, x>> \in OpToRel(<, Nat) <=> y < x
  BY Zenon DEF OpToRel
<1>3. \E x \in T : \A y \in T : ~ (y < x)
  BY <1>1, <1>2, Zenon
<1> QED BY <1>3

(* Induction over a set of numbers. *)
LEMMA NatSetInduction ==
  ASSUME NEW T, 0 \in T, \A n \in Nat : n \in T => n + 1 \in T
  PROVE  Nat \subseteq T
<1> DEFINE U == Nat \ T
<1>1. SUFFICES ASSUME U # {} PROVE FALSE
  OBVIOUS
<1>2. U \subseteq Nat
  OBVIOUS
<1>3. \E x \in U : \A y \in U : x <= y
  BY <1>1, <1>2, NatMin
<1>4. PICK x \in U : \A y \in U : x <= y
  BY <1>3
<1>5. x - 1 \in Nat /\ x - 1 \notin U
  BY <1>4
<1> QED BY <1>4, <1>5
-----------------------------------------------------------------------------
LEMMA SeqWithin ==
  ASSUME NEW S, NEW T, NEW s \in Seq(S), Range(s) \subseteq T
  PROVE  s \in Seq(T)
<1>1. Len(s) \in Nat /\ DOMAIN s = 1 .. Len(s) /\ s \in [1 .. Len(s) -> S]
  OBVIOUS
<1>2. s \in [1 .. Len(s) -> T]
  BY <1>1 DEF Range
<1> QED BY <1>1, <1>2, SeqDef

LEMMA AppendElements ==
  ASSUME NEW S, NEW s \in Seq(S), NEW x \in S
  PROVE  /\ Append(s, x) \in Seq(S)
         /\ Range(Append(s, x)) = Range(s) \cup {x}
         /\ Injective(s) /\ x \notin Range(s) => Injective(Append(s, x))
<1> DEFINE t == Append(s, x)
           n == Len(s)
<1>1. n \in Nat /\ DOMAIN s = 1 .. n /\ DOMAIN t = 1 .. n + 1 /\ t \in Seq(S)
  OBVIOUS
<1>2. t[n + 1] = x /\ \A i \in 1 .. n : t[i] = s[i]
  OBVIOUS
<1> HIDE DEF t, n
<1>3. Range(t) = Range(s) \cup {x}
  BY <1>1, <1>2 DEF Range
<1>4. Injective(s) /\ x \notin Range(s) => Injective(t)
  <2> SUFFICES ASSUME Injective(s), x \notin Range(s), NEW i \in 1 .. n + 1,
                      NEW j \in 1 .. n + 1, t[i] = t[j]
               PROVE  i = j
    BY <1>1 DEF Injective
  <2>1. CASE i \in 1 .. n /\ j \in 1 .. n
    BY <1>1, <1>2, <2>1 DEF Injective
  <2>2. CASE ~ (i \in 1 .. n /\ j \in 1 .. n)
    BY <1>1, <1>2, <2>2 DEF Range
  <2> QED BY <2>1, <2>2
<1> QED BY <1>1, <1>3, <1>4 DEF t

LEMMA ConcatElements ==
  ASSUME NEW S, NEW s \in Seq(S), NEW t \in Seq(S)
  PROVE  /\ s \o t \in Seq(S)
         /\ Range(s \o t) = Range(s) \cup Range(t)
         /\ Injective(s) /\ Injective(t) /\ Range(s) \cap Range(t) = {}
              => Injective(s \o t)
<1> DEFINE u == s \o t
           n == Len(s)
           k == Len(t)
<1>1. /\ n \in Nat /\ k \in Nat /\ u \in Seq(S)
      /\ DOMAIN s = 1 .. n /\ DOMAIN t = 1 .. k /\ DOMAIN u = 1 .. n + k
  OBVIOUS
<1>2. /\ \A i \in 1 .. n : u[i] = s[i]
      /\ \A i \in 1 .. n + k : i > n => i - n \in 1 .. k /\ u[i] = t[i - n]
      /\ \A i \in 1 .. k : u[n + i] = t[i]
  OBVIOUS
<1> HIDE DEF u, n, k
<1>3. Range(u) \subseteq Range(s) \cup Range(t)
  <2> SUFFICES ASSUME NEW i \in 1 .. n + k PROVE u[i] \in Range(s) \cup Range(t)
    BY <1>1 DEF Range
  <2>1. i \in 1 .. n \/ i > n
    BY <1>1
  <2> QED BY <1>1, <1>2, <2>1 DEF Range
<1>4. Range(s) \subseteq Range(u)
  BY <1>1, <1>2 DEF Range
<1>5. Range(t) \subseteq Range(u)
  <2> SUFFICES ASSUME NEW i \in 1 .. k PROVE t[i] \in Range(u)
    BY <1>1 DEF Range
  <2>1. n + i \in 1 .. n + k /\ u[n + i] = t[i]
    BY <1>1, <1>2
  <2> QED BY <1>1, <2>1 DEF Range
<1>6. Injective(s) /\ Injective(t) /\ Range(s) \cap Range(t) = {} => Injective(u)
  <2> SUFFICES ASSUME Injective(s), Injective(t), Range(s) \cap Range(t) = {},
                      NEW i \in 1 .. n + k, NEW j \in 1 .. n + k, u[i] = u[j]
               PROVE  i = j
    BY <1>1 DEF Injective
  <2>1. (i \in 1 .. n \/ i > n) /\ (j \in 1 .. n \/ j > n)
    BY <1>1
  <2>2. CASE i \in 1 .. n /\ j \in 1 .. n
    BY <1>1, <1>2, <2>2 DEF Injective
  <2>3. CASE i > n /\ j > n
    <3>1. i - n \in 1 .. k /\ j - n \in 1 .. k /\ t[i - n] = t[j - n]
      BY <1>1, <1>2, <2>3
    <3>2. i - n = j - n
      BY <1>1, <3>1 DEF Injective
    <3> QED BY <1>1, <3>2
  <2>4. CASE i \in 1 .. n /\ j > n
    <3>1. u[i] \in Range(s) /\ u[j] \in Range(t)
      BY <1>1, <1>2, <2>4 DEF Range
    <3> QED BY <3>1
  <2>5. CASE i > n /\ j \in 1 .. n
    <3>1. u[j] \in Range(s) /\ u[i] \in Range(t)
      BY <1>1, <1>2, <2>5 DEF Range
    <3> QED BY <3>1
  <2> QED BY <2>1, <2>2, <2>3, <2>4, <2>5
<1> QED BY <1>1, <1>3, <1>4, <1>5, <1>6 DEF u

LEMMA TailElements ==
  ASSUME NEW S, NEW s \in Seq(S), s # <<>>
  PROVE  /\ Head(s) \in S /\ Tail(s) \in Seq(S)
         /\ Range(s) = {Head(s)} \cup Range(Tail(s))
         /\ Injective(s) => Injective(Tail(s)) /\ Head(s) \notin Range(Tail(s))
<1> DEFINE t == Tail(s)
           n == Len(s) - 1
<1>1. /\ n \in Nat /\ Head(s) \in S /\ t \in Seq(S) /\ Head(s) = s[1]
      /\ DOMAIN s = 1 .. n + 1 /\ DOMAIN t = 1 .. n
  BY EmptySeq
<1>2. \A i \in 1 .. n : t[i] = s[i + 1]
  BY <1>1
<1> HIDE DEF t, n
<1>3. Range(s) \subseteq {Head(s)} \cup Range(t)
  <2> SUFFICES ASSUME NEW i \in 1 .. n + 1 PROVE s[i] = s[1] \/ s[i] \in Range(t)
    BY <1>1 DEF Range
  <2>1. i = 1 \/ (i - 1 \in 1 .. n /\ i = (i - 1) + 1)
    BY <1>1
  <2> QED BY <1>1, <1>2, <2>1 DEF Range
<1>4. {Head(s)} \cup Range(t) \subseteq Range(s)
  <2>1. 1 \in 1 .. n + 1 /\ \A i \in 1 .. n : i + 1 \in 1 .. n + 1
    BY <1>1
  <2> QED BY <1>1, <1>2, <2>1 DEF Range
<1>5. Injective(s) => Injective(t) /\ Head(s) \notin Range(t)
  <2> SUFFICES ASSUME Injective(s) PROVE Injective(t) /\ Head(s) \notin Range(t)
    OBVIOUS
  <2>1. 1 \in 1 .. n + 1 /\ \A i \in 1 .. n : i + 1 \in 1 .. n + 1 /\ i + 1 # 1
    BY <1>1
  <2>2. ASSUME NEW i \in 1 .. n, NEW j \in 1 .. n, t[i] = t[j] PROVE i = j
    <3>1. i + 1 = j + 1
      BY <1>1, <1>2, <2>1, <2>2 DEF Injective
    <3> QED BY <1>1, <3>1
  <2>3. Head(s) \notin Range(t)
    BY <1>1, <1>2, <2>1 DEF Range, Injective
  <2> QED BY <1>1, <2>2, <2>3 DEF Injective
<1> QED BY <1>1, <1>3, <1>4, <1>5 DEF t

LEMMA HeadThenTail ==
  ASSUME NEW S, NEW s \in Seq(S), s # <<>>
  PROVE  <<Head(s)>> \in Seq(S) /\ s = <<Head(s)>> \o Tail(s)
<1> DEFINE t == Tail(s)
           h == <<Head(s)>>
<1>1. /\ t \in Seq(S) /\ Len(t) = Len(s) - 1 /\ Len(s) \in Nat
      /\ \A i \in 1 .. Len(t) : t[i] = s[i + 1]
  BY HeadTailProperties
<1>2. h \in Seq(S) /\ Len(h) = 1 /\ h[1] = s[1]
  BY HeadTailProperties
<1> HIDE DEF t, h
<1>3. /\ h \o t \in Seq(S) /\ Len(h \o t) = Len(h) + Len(t)
      /\ \A i \in 1 .. Len(h) + Len(t) :
            (h \o t)[i] = IF i <= Len(h) THEN h[i] ELSE t[i - Len(h)]
  <2>1. h \in Seq(S) /\ t \in Seq(S)
    BY <1>1, <1>2
  <2> QED BY <2>1, ConcatProperties, Zenon
<1>4. ASSUME NEW i \in 1 .. Len(s) PROVE (h \o t)[i] = s[i]
  <2>1. i \in 1 .. Len(h) + Len(t) /\ (i <= Len(h) <=> i = 1)
    BY <1>1, <1>2
  <2>2. (h \o t)[i] = IF i = 1 THEN h[i] ELSE t[i - Len(h)]
    BY <1>3, <2>1
  <2>3. CASE i = 1
    BY <1>2, <2>2, <2>3
  <2>4. CASE i # 1
    <3>1. i - 1 \in 1 .. Len(t) /\ (i - 1) + 1 = i
      BY <1>1, <2>4
    <3>2. t[i - 1] = s[(i - 1) + 1]
      BY <1>1, <3>1
    <3> QED BY <1>2, <2>2, <2>4, <3>1, <3>2
  <2> QED BY <2>3, <2>4
<1>5. Len(h \o t) = Len(s)
  BY <1>1, <1>2, <1>3
<1>6. s = h \o t
  BY <1>3, <1>4, <1>5, SeqEqual
<1> QED BY <1>2, <1>6 DEF h, t

(* What precedes what in a concatenation. *)
LEMMA BeforeConcat ==
  ASSUME NEW S, NEW s \in Seq(S), NEW t \in Seq(S), NEW a, NEW b
  PROVE  Before(s \o t, a, b) <=> \/ Before(s, a, b)
                                  \/ Before(t, a, b)
                                  \/ a \in Range(s) /\ b \in Range(t)
<1> DEFINE u == s \o t
           n == Len(s)
           k == Len(t)
<1>1. /\ n \in Nat /\ k \in Nat
      /\ DOMAIN s = 1 .. n /\ DOMAIN t = 1 .. k /\ DOMAIN u = 1 .. n + k
  OBVIOUS
<1>2. /\ \A i \in 1 .. n : u[i] = s[i]
      /\ \A i \in 1 .. k : u[n + i] = t[i]
  OBVIOUS
<1> HIDE DEF u, n, k
<1>3. ASSUME Before(u, a, b)
      PROVE  \/ Before(s, a, b) \/ Before(t, a, b)
             \/ a \in Range(s) /\ b \in Range(t)
  <2>1. PICK i \in 1 .. n + k, j \in 1 .. n + k : i < j /\ u[i] = a /\ u[j] = b
    BY <1>1, <1>3 DEF Before
  <2>2. CASE j <= n
    <3>1. i \in 1 .. n /\ j \in 1 .. n
      BY <1>1, <2>1, <2>2
    <3> QED BY <1>1, <1>2, <2>1, <3>1 DEF Before
  <2>3. CASE i <= n /\ j > n
    <3>1. i \in 1 .. n /\ j - n \in 1 .. k /\ j = n + (j - n)
      BY <1>1, <2>1, <2>3
    <3>2. u[i] = s[i] /\ u[j] = t[j - n]
      BY <1>2, <3>1
    <3> QED BY <1>1, <2>1, <3>1, <3>2 DEF Range
  <2>4. CASE i > n
    <3>1. /\ i - n \in 1 .. k /\ j - n \in 1 .. k /\ i - n < j - n
          /\ i = n + (i - n) /\ j = n + (j - n)
      BY <1>1, <2>1, <2>4
    <3>2. u[i] = t[i - n] /\ u[j] = t[j - n]
      BY <1>2, <3>1
    <3> QED BY <1>1, <2>1, <3>1, <3>2 DEF Before
  <2> QED BY <1>1, <2>1, <2>2, <2>3, <2>4
<1>4. ASSUME Before(s, a, b) PROVE Before(u, a, b)
  <2>1. PICK i \in 1 .. n, j \in 1 .. n : i < j /\ s[i] = a /\ s[j] = b
    BY <1>1, <1>4 DEF Before
  <2>2. i \in 1 .. n + k /\ j \in 1 .. n + k
    BY <1>1
  <2> QED BY <1>1, <1>2, <2>1, <2>2 DEF Before
<1>5. ASSUME Before(t, a, b) PROVE Before(u, a, b)
  <2>1. PICK i \in 1 .. k, j \in 1 .. k : i < j /\ t[i] = a /\ t[j] = b
    BY <1>1, <1>5 DEF Before
  <2>2. n + i \in 1 .. n + k /\ n + j \in 1 .. n + k /\ n + i < n + j
    BY <1>1, <2>1
  <2> QED BY <1>1, <1>2, <2>1, <2>2 DEF Before
<1>6. ASSUME a \in Range(s), b \in Range(t) PROVE Before(u, a, b)
  <2>1. PICK i \in 1 .. n, j \in 1 .. k : s[i] = a /\ t[j] = b
    BY <1>1, <1>6 DEF Range
  <2>2. i \in 1 .. n + k /\ n + j \in 1 .. n + k /\ i < n + j
    BY <1>1, <2>1
  <2> QED BY <1>1, <1>2, <2>1, <2>2 DEF Before
<1> QED BY <1>3, <1>4, <1>5, <1>6 DEF u

(* What is appended stands behind all that was there.                      *)
LEMMA BeforeAppend ==
  ASSUME NEW S, NEW s \in Seq(S), NEW x \in S, NEW a, NEW b
  PROVE  Before(Append(s, x), a, b) <=> Before(s, a, b) \/ (a \in Range(s) /\ b = x)
<1>1. /\ <<x>> \in Seq(S) /\ Append(s, x) = s \o <<x>>
      /\ Range(<<x>>) = {x} /\ ~ Before(<<x>>, a, b)
  BY AppendIsConcat DEF Range, Before
<1>2. Before(s \o <<x>>, a, b) <=> \/ Before(s, a, b) \/ Before(<<x>>, a, b)
                                   \/ a \in Range(s) /\ b \in Range(<<x>>)
  BY <1>1, BeforeConcat
<1> QED BY <1>1, <1>2

(* In a list without repetitions precedence is a strict order. *)
LEMMA BeforeOrders ==
  ASSUME NEW S, NEW s \in Seq(S), Injective(s)
  PROVE  /\ \A a, b \in Range(s) : a = b \/ Before(s, a, b) \/ Before(s, b, a)
         /\ \A a, b : Before(s, a, b) => ~ Before(s, b, a) /\ a # b
         /\ \A a, b, c : Before(s, a, b) /\ Before(s, b, c) => Before(s, a, c)
         /\ \A a, b : Before(s, a, b) => a \in Range(s) /\ b \in Range(s)
<1> DEFINE n == Len(s)
<1>1. n \in Nat /\ DOMAIN s = 1 .. n
  OBVIOUS
<1> HIDE DEF n
<1>2. \A i, j \in 1 .. n : s[i] = s[j] => i = j
  BY <1>1 DEF Injective
<1>3. \A a, b : Before(s, a, b) <=> \E i, j \in 1 .. n : i < j /\ s[i] = a /\ s[j] = b
  BY <1>1 DEF Before
<1>4. \A a, b \in Range(s) : a = b \/ Before(s, a, b) \/ Before(s, b, a)
  <2> SUFFICES ASSUME NEW i \in 1 .. n, NEW j \in 1 .. n
               PROVE  s[i] = s[j] \/ Before(s, s[i], s[j]) \/ Before(s, s[j], s[i])
    BY <1>1 DEF Range
  <2>1. i = j \/ i < j \/ j < i
    OBVIOUS
  <2> QED BY <1>3, <2>1
<1>5. ASSUME NEW a, NEW b, Before(s, a, b) PROVE ~ Before(s, b, a) /\ a # b
  <2>1. PICK i \in 1 .. n, j \in 1 .. n : i < j /\ s[i] = a /\ s[j] = b
    BY <1>3, <1>5
  <2>2. a # b
    BY <1>2, <2>1
  <2>3. ASSUME NEW k \in 1 .. n, NEW l \in 1 .. n, k < l, s[k] = b, s[l] = a PROVE FALSE
    <3>1. k = j /\ l = i
      BY <1>2, <2>1, <2>3
    <3> QED BY <2>1, <2>3, <3>1
  <2> QED BY <1>3, <2>2, <2>3
<1>6. ASSUME NEW a, NEW b, NEW c, Before(s, a, b), Before(s, b, c) PROVE Before(s, a, c)
  <2>1. PICK i \in 1 .. n, j \in 1 .. n : i < j /\ s[i] = a /\ s[j] = b
    BY <1>3, <1>6
  <2>2. PICK k \in 1 .. n, l \in 1 .. n : k < l /\ s[k] = b /\ s[l] = c
    BY <1>3, <1>6
  <2>3. j = k
    BY <1>2, <2>1, <2>2
  <2>4. i < l
    BY <2>1, <2>2, <2>3
  <2> QED BY <1>3, <2>1, <2>2, <2>4
<1>7. ASSUME NEW a, NEW b, Before(s, a, b) PROVE a \in Range(s) /\ b \in Range(s)
  BY <1>1, <1>3, <1>7 DEF Range
<1> QED BY <1>4, <1>5, <1>6, <1>7
(* A list that names each member of a set once is as long as the set. *)
LEMMA LengthIsCardinality ==
  ASSUME NEW s \in Seq(Id), Injective(s)
  PROVE  IsFiniteSet(Range(s)) /\ Len(s) = Cardinality(Range(s))
<1> DEFINE n == Len(s)
           R == Range(s)
<1>1. n \in Nat /\ DOMAIN s = 1 .. n /\ s = [i \in 1 .. n |-> s[i]]
  BY SeqDef
<1>2. IsFiniteSet(1 .. n) /\ Cardinality(1 .. n) = n
  <2>1. 1 \in Int /\ n \in Int
    BY <1>1
  <2>2. IsFiniteSet(1 .. n) /\ Cardinality(1 .. n) = IF 1 > n THEN 0 ELSE n - 1 + 1
    BY <2>1, FS_Interval
  <2> QED BY <1>1, <2>2
<1> HIDE DEF n
<1>3. s \in Bijection(1 .. n, R)
  BY <1>1 DEF Bijection, Injection, Surjection, IsInjective, Injective, Range
<1>4. ExistsBijection(1 .. n, R)
  BY <1>3 DEF ExistsBijection
<1> HIDE DEF R
<1>5. IsFiniteSet(R) /\ Cardinality(R) = Cardinality(1 .. n)
  BY <1>2, <1>4, FS_Bijection
<1> QED BY <1>2, <1>5 DEF n, R

-----------------------------------------------------------------------------
(* kept[i] in Keep: the elements of S among the first i of s. *)
IsKept(f, s, S, n) ==
  f = [i \in 0 .. n |-> IF i = 0 THEN <<>>
                        ELSE IF s[i] \in S THEN Append(f[i - 1], s[i])
                        ELSE f[i - 1]]

(* The recursive definition of Keep has a function that satisfies it.      *)
LEMMA KeptExists ==
  ASSUME NEW s, NEW S, NEW n \in Nat
  PROVE  \E f : IsKept(f, s, S, n)
<1> DEFINE T == {k \in Nat : \E f : IsKept(f, s, S, k)}
<1>1. 0 \in T
  <2>1. IsKept([i \in 0 .. 0 |-> <<>>], s, S, 0)
    BY DEF IsKept
  <2> QED BY <2>1
<1>2. ASSUME NEW k \in Nat, k \in T PROVE k + 1 \in T
  <2>1. PICK f : IsKept(f, s, S, k)
    BY <1>2
  <2> DEFINE last == IF s[k + 1] \in S THEN Append(f[k], s[k + 1]) ELSE f[k]
             g == [i \in 0 .. k + 1 |-> IF i = k + 1 THEN last ELSE f[i]]
  <2>2. \A i \in 0 .. k + 1 :
          g[i] = IF i = 0 THEN <<>>
                 ELSE IF s[i] \in S THEN Append(g[i - 1], s[i]) ELSE g[i - 1]
    <3> SUFFICES ASSUME NEW i \in 0 .. k + 1
                 PROVE  g[i] = IF i = 0 THEN <<>>
                               ELSE IF s[i] \in S THEN Append(g[i - 1], s[i]) ELSE g[i - 1]
      OBVIOUS
    <3>1. CASE i = k + 1
      <4>1. g[i - 1] = f[k] /\ i # 0
        BY <3>1
      <4> QED BY <3>1, <4>1
    <3>2. CASE i # k + 1 /\ i # 0
      <4>1. i \in 0 .. k /\ i - 1 \in 0 .. k /\ g[i] = f[i] /\ g[i - 1] = f[i - 1]
        BY <3>2
      <4> QED BY <2>1, <3>2, <4>1 DEF IsKept
    <3>3. CASE i = 0
      <4>1. g[i] = f[i] /\ i \in 0 .. k
        BY <3>3
      <4> QED BY <2>1, <3>3, <4>1 DEF IsKept
    <3> QED BY <3>1, <3>2, <3>3
  <2>3. IsKept(g, s, S, k + 1)
    <3>1. g = [i \in 0 .. k + 1 |-> g[i]]
      OBVIOUS
    <3> HIDE DEF g
    <3> QED BY <2>2, <3>1 DEF IsKept
  <2> QED BY <2>3
<1> HIDE DEF T
<1>3. n \in T
  BY <1>1, <1>2, NatSetInduction
<1> QED BY <1>3 DEF T

(* Keep keeps the elements of S in their order: a list without repetitions *)
(* stays one, and none gets longer.                                        *)
LEMMA KeepElements ==
  ASSUME NEW A, NEW s \in Seq(A), NEW S
  PROVE  /\ Keep(s, S) \in Seq(A)
         /\ Range(Keep(s, S)) = Range(s) \cap S
         /\ Injective(s) => Injective(Keep(s, S))
         /\ \A a, b : Before(Keep(s, S), a, b) <=> Before(s, a, b) /\ a \in S /\ b \in S
         /\ Len(Keep(s, S)) <= Len(s)
<1> DEFINE n == Len(s)
           f == CHOOSE g : IsKept(g, s, S, n)
           First(i) == {s[j] : j \in 1 .. i}
           Early(i, a, b) == \E j, k \in 1 .. i : j < k /\ s[j] = a /\ s[k] = b
           Good(i) == /\ f[i] \in Seq(A)
                      /\ Range(f[i]) = First(i) \cap S
                      /\ Injective(s) => Injective(f[i])
                      /\ \A a, b : Before(f[i], a, b) <=> Early(i, a, b) /\ a \in S /\ b \in S
                      /\ Len(f[i]) <= i
           T == {i \in Nat : i <= n => Good(i)}
<1>1. n \in Nat /\ DOMAIN s = 1 .. n /\ \A i \in 1 .. n : s[i] \in A
  OBVIOUS
<1>2. Keep(s, S) = f[n] /\ Len(s) = n
  BY DEF Keep, IsKept
<1> HIDE DEF n
<1>3. IsKept(f, s, S, n)
  BY <1>1, KeptExists
<1> HIDE DEF f
<1>4. f[0] = <<>> /\ \A i \in 1 .. n : f[i] = IF s[i] \in S THEN Append(f[i - 1], s[i])
                                               ELSE f[i - 1]
  <2> DEFINE step(i) == IF i = 0 THEN <<>>
                        ELSE IF s[i] \in S THEN Append(f[i - 1], s[i]) ELSE f[i - 1]
  <2>1. f = [i \in 0 .. n |-> step(i)]
    BY <1>3 DEF IsKept
  <2> HIDE DEF step
  <2>2. \A i \in 0 .. n : f[i] = step(i)
    BY <2>1
  <2>3. 0 \in 0 .. n /\ \A i \in 1 .. n : i \in 0 .. n /\ i # 0
    BY <1>1
  <2> QED BY <2>2, <2>3 DEF step
<1>5. 0 \in T
  <2>1. /\ Range(<<>>) = {} /\ Injective(<<>>) /\ <<>> \in Seq(A) /\ First(0) = {}
        /\ \A a, b : ~ Before(<<>>, a, b) /\ ~ Early(0, a, b)
        /\ Len(<<>>) <= 0
    BY DEF Range, Injective, Before
  <2> QED BY <1>4, <2>1
<1>6. ASSUME NEW k \in Nat, k \in T PROVE k + 1 \in T
  <2> SUFFICES ASSUME k + 1 <= n PROVE Good(k + 1)
    OBVIOUS
  <2>1. Good(k) /\ k + 1 \in 1 .. n /\ k \in 0 .. n
    BY <1>1, <1>6
  <2>2. First(k + 1) = First(k) \cup {s[k + 1]}
    <3>1. \A j : j \in 1 .. k + 1 <=> j \in 1 .. k \/ j = k + 1
      OBVIOUS
    <3> QED BY <3>1
  <2>3. Injective(s) => s[k + 1] \notin First(k)
    <3>1. \A j \in 1 .. k : j \in 1 .. n /\ j # k + 1
      BY <1>1, <2>1
    <3> QED BY <1>1, <2>1, <3>1 DEF Injective
  <2>4. f[k + 1] = IF s[k + 1] \in S THEN Append(f[k], s[k + 1]) ELSE f[k]
    BY <1>4, <2>1
  <2>5. ASSUME NEW a, NEW b
        PROVE  Early(k + 1, a, b) <=> Early(k, a, b) \/ (a \in First(k) /\ b = s[k + 1])
    <3>1. \A j : j \in 1 .. k + 1 <=> j \in 1 .. k \/ j = k + 1
      OBVIOUS
    <3>2. \A j \in 1 .. k : j < k + 1 /\ ~ (k + 1 < j)
      OBVIOUS
    <3> QED BY <3>1, <3>2
  <2>6. CASE s[k + 1] \in S
    <3> DEFINE x == s[k + 1]
    <3>1. x \in A /\ f[k] \in Seq(A)
      BY <1>1, <2>1
    <3> HIDE DEF First, Early, x
    <3>2. ASSUME NEW a, NEW b
          PROVE  Before(Append(f[k], x), a, b)
                   <=> Before(f[k], a, b) \/ (a \in Range(f[k]) /\ b = x)
      BY <3>1, BeforeAppend
    <3>3. /\ Append(f[k], x) \in Seq(A)
          /\ Range(Append(f[k], x)) = Range(f[k]) \cup {x}
          /\ Injective(f[k]) /\ x \notin Range(f[k]) => Injective(Append(f[k], x))
      BY <3>1, AppendElements
    <3>4. f[k + 1] = Append(f[k], x) /\ First(k + 1) = First(k) \cup {x} /\ x \in S
      BY <2>2, <2>4, <2>6 DEF x
    <3>5. Injective(s) => x \notin First(k)
      BY <2>3 DEF x
    <3>6. \A a, b : Before(f[k + 1], a, b) <=> Early(k + 1, a, b) /\ a \in S /\ b \in S
      BY <2>1, <2>5, <2>6, <3>2, <3>4 DEF x
    <3>7. Len(f[k + 1]) <= k + 1
      <4>1. Len(Append(f[k], x)) = Len(f[k]) + 1 /\ Len(f[k]) \in Nat
        BY <3>1
      <4> QED BY <1>6, <2>1, <3>4, <4>1
    <3> QED BY <2>1, <3>3, <3>4, <3>5, <3>6, <3>7
  <2>7. CASE s[k + 1] \notin S
    <3>1. f[k + 1] = f[k] /\ First(k + 1) \cap S = First(k) \cap S
      BY <2>2, <2>4, <2>7
    <3> HIDE DEF First, Early
    <3>2. \A a, b : Before(f[k + 1], a, b) <=> Early(k + 1, a, b) /\ a \in S /\ b \in S
      BY <2>1, <2>5, <2>7, <3>1
    <3>3. Len(f[k + 1]) <= k + 1
      <4>1. Len(f[k]) \in Nat
        BY <2>1
      <4> QED BY <1>6, <2>1, <3>1, <4>1
    <3> QED BY <2>1, <3>1, <3>2, <3>3
  <2> QED BY <2>6, <2>7
<1> HIDE DEF T
<1>7. n \in T
  BY <1>1, <1>5, <1>6, NatSetInduction
<1>8. Good(n)
  BY <1>1, <1>7 DEF T
<1>9. First(n) = Range(s)
  BY <1>1 DEF Range
<1>10. \A a, b : Early(n, a, b) <=> Before(s, a, b)
  BY <1>1 DEF Before
<1> HIDE DEF First, Early
<1> QED BY <1>2, <1>8, <1>9, <1>10

-----------------------------------------------------------------------------
(* removeChild keeps a list of children a list of children. *)
LEMMA WithoutType ==
  ASSUME NEW S, NEW s \in Seq(S), NEW c
  PROVE  Without(s, c) \in Seq(S)
<1>1. CASE \E i \in DOMAIN s : s[i] = c
  <2> DEFINE k == CHOOSE i \in DOMAIN s : s[i] = c
             t == [j \in 1 .. Len(s) - 1 |-> IF j < k THEN s[j] ELSE s[j + 1]]
  <2>1. k \in 1 .. Len(s)
    BY <1>1
  <2>2. Len(s) - 1 \in Nat
    BY <2>1
  <2>3. \A j \in 1 .. Len(s) - 1 : t[j] \in S
    BY <2>1, <2>2
  <2>4. t \in Seq(S)
    BY <2>2, <2>3
  <2> QED BY <1>1, <2>4 DEF Without
<1>2. CASE ~ \E i \in DOMAIN s : s[i] = c
  BY <1>2 DEF Without
<1> QED BY <1>1, <1>2

(* removeChild takes exactly the child out of a list without repetitions,  *)
(* and leaves it without repetitions.                                      *)
LEMMA WithoutElements ==
  ASSUME NEW S, NEW s \in Seq(S), NEW c, Injective(s)
  PROVE  /\ Range(Without(s, c)) = Range(s) \ {c}
         /\ Injective(Without(s, c))
<1>1. CASE \E i \in DOMAIN s : s[i] = c
  <2> DEFINE k == CHOOSE i \in DOMAIN s : s[i] = c
             n == Len(s) - 1
             t == [j \in 1 .. n |-> IF j < k THEN s[j] ELSE s[j + 1]]
  <2>0. k \in 1 .. Len(s) /\ s[k] = c
    BY <1>1
  <2>1. k \in 1 .. n + 1 /\ s[k] = c
    BY <2>0
  <2>2. n \in Nat /\ DOMAIN s = 1 .. n + 1 /\ DOMAIN t = 1 .. n
    BY <2>0
  <2>3. \A j \in 1 .. n : t[j] = IF j < k THEN s[j] ELSE s[j + 1]
    OBVIOUS
  <2> HIDE DEF t, n, k
  <2>4. Injective(t)
    <3> SUFFICES ASSUME NEW i \in 1 .. n, NEW j \in 1 .. n, t[i] = t[j]
                 PROVE  i = j
      BY <2>2 DEF Injective
    <3>1. PICK a \in 1 .. n + 1 : a = (IF i < k THEN i ELSE i + 1) /\ t[i] = s[a]
      BY <2>1, <2>2, <2>3
    <3>2. PICK b \in 1 .. n + 1 : b = (IF j < k THEN j ELSE j + 1) /\ t[j] = s[b]
      BY <2>1, <2>2, <2>3
    <3>3. a = b
      BY <2>2, <3>1, <3>2 DEF Injective
    <3> QED BY <2>1, <2>2, <3>1, <3>2, <3>3
  <2>5. Range(t) \subseteq Range(s) \ {c}
    BY <2>1, <2>2, <2>3 DEF Injective, Range
  <2>6. ASSUME NEW x \in Range(s) \ {c} PROVE x \in Range(t)
    <3>1. PICK i \in 1 .. n + 1 : s[i] = x
      BY <2>2 DEF Range
    <3>2. i # k
      BY <2>1, <2>6, <3>1
    <3>3. CASE i < k
      BY <2>1, <2>2, <2>3, <3>1, <3>3 DEF Range
    <3>4. CASE i > k
      <4>1. i - 1 \in 1 .. n /\ t[i - 1] = s[i]
        BY <2>1, <2>2, <2>3, <3>1, <3>4
      <4> QED BY <2>2, <3>1, <4>1 DEF Range
    <3> QED BY <2>1, <2>2, <3>1, <3>2, <3>3, <3>4
  <2>7. Without(s, c) = t
    BY <1>1 DEF Without, t, n, k
  <2> QED BY <2>4, <2>5, <2>6, <2>7
<1>2. CASE ~ \E i \in DOMAIN s : s[i] = c
  BY <1>2 DEF Without, Range
<1> QED BY <1>1, <1>2
-----------------------------------------------------------------------------
(* Detaching a module leaves every children_ a list of ids. *)
LEMMA DetachedType ==
  ASSUME TreeTypeOK, NEW m \in Id
  PROVE  Detached(m) \in [Id -> Seq(Id)]
<1>1. CASE parent[m] \in Live
  <2>1. parent[m] \in Id
    BY <1>1 DEF Live
  <2>2. Without(children[parent[m]], m) \in Seq(Id)
    BY <2>1, WithoutType DEF TreeTypeOK
  <2> QED BY <1>1, <2>1, <2>2 DEF Detached, TreeTypeOK
<1>2. CASE parent[m] \notin Live
  BY <1>2 DEF Detached, TreeTypeOK
<1> QED BY <1>1, <1>2

(* The input parent_input_idx_ finds is one of the child's inputs. *)
LEMMA ParentInputType ==
  ASSUME TreeTypeOK, NEW m \in Live, NEW p \in Live
  PROVE  ParentInput(m, p) \in InputsOf[kind[m]] \cup {NoInput}
BY DEF ParentInput

(* Destroying modules leaves the pointers and inputs well-typed. *)
LEMMA DestroyType ==
  ASSUME TreeTypeOK, NEW dead, NEW kids \in [Id -> Seq(Id)], Destroy(dead, kids),
         crashed' \in BOOLEAN
  PROVE  TreeTypeOK'
BY TreeAssumption DEF Destroy, TreeTypeOK

(* The array reorder() builds holds children of p, and those not listed    *)
(* once more than it should at most.                                       *)
LEMMA NewOrderType ==
  ASSUME TreeTypeOK, NEW p \in Id, NEW ids \in OrderRequest
  PROVE  NewOrder(p, ids) \in Seq(Id) /\ Range(NewOrder(p, ids)) = Kids(p)
<1> DEFINE listed == Keep(ids, Kids(p))
           others == Keep(children[p], Kids(p) \ Range(listed))
<1>1. ids \in Seq(Id) /\ children[p] \in Seq(Id) /\ Range(children[p]) = Kids(p)
  BY TreeAssumption DEF TreeTypeOK, Kids, Range
<1>2. listed \in Seq(Id) /\ Range(listed) = Range(ids) \cap Kids(p)
  BY <1>1, KeepElements
<1>3. others \in Seq(Id) /\ Range(others) = Range(children[p]) \cap (Kids(p) \ Range(listed))
  BY <1>1, KeepElements
<1> HIDE DEF listed, others
<1>4. listed \o others \in Seq(Id) /\ Range(listed \o others) = Range(listed) \cup Range(others)
  BY <1>2, <1>3, ConcatElements
<1> QED BY <1>1, <1>2, <1>3, <1>4 DEF NewOrder, listed, others

(* What reorderChildren copies. *)
Copied(p, ids) == [i \in DOMAIN children[p] |-> NewOrder(p, ids)[i]]

(* The low bits of a length are no more than the length: reorderChildren   *)
(* never reads past the end of the array.                                  *)
LEMMA LowBits ==
  ASSUME NEW n \in Nat, NEW W \in Nat, 0 < W
  PROVE  n % W <= n
<1>1. CASE n < W
  <2>1. n % W = n
    BY <1>1
  <2> QED BY <2>1
<1>2. CASE W <= n
  <2>1. n % W \in 0 .. W - 1
    OBVIOUS
  <2> QED BY <1>2, <2>1
<1> QED BY <1>1, <1>2

(* Less than one wrap above a remainder there is only that remainder.      *)
LEMMA SmallRemainder ==
  ASSUME NEW W \in Nat, NEW k \in 0 .. W - 1, NEW n \in Nat, k <= n, n < k + W, n % W = k
  PROVE  n = k
<1>1. CASE n < W
  <2>1. n % W = n
    BY <1>1
  <2> QED BY <2>1
<1>2. CASE W <= n
  <2> DEFINE d == n - W
  <2>1. d \in 0 .. W - 1 /\ n = d + W /\ d < k
    BY <1>2
  <2> HIDE DEF d
  <2>2. (d + W) % W = d
    BY <2>1
  <2> QED BY <2>1, <2>2
<1> QED BY <1>1, <1>2

LEMMA CopiedType ==
  ASSUME TreeTypeOK, NEW p \in Id, NEW ids \in OrderRequest,
         Len(NewOrder(p, ids)) % ChildWrap = Len(children[p])
  PROVE  /\ Copied(p, ids) \in Seq(Id)
         /\ Copied(p, ids) \in [DOMAIN children[p] -> Kids(p)]
<1> DEFINE new == NewOrder(p, ids)
           k == Len(children[p])
<1>1. new \in Seq(Id) /\ Range(new) = Kids(p)
  BY NewOrderType
<1>2. k \in Nat /\ DOMAIN children[p] = 1 .. k
  BY DEF TreeTypeOK
<1>3. Len(new) \in Nat /\ DOMAIN new = 1 .. Len(new)
  BY <1>1
<1>4. k <= Len(new)
  BY <1>3, LowBits, TreeAssumption
<1> HIDE DEF new, k
<1>5. \A i \in 1 .. k : new[i] \in Kids(p) /\ new[i] \in Id
  BY <1>1, <1>2, <1>3, <1>4 DEF Range
<1>6. Copied(p, ids) = [i \in 1 .. k |-> new[i]]
  BY <1>2 DEF Copied, new
<1> QED BY <1>2, <1>5, <1>6

(* Every pointer, list and input holds a value the C++ types admit,        *)
(* whatever requests arrive.                                               *)
LEMMA TypeStep == TreeTypeOK /\ [Next]_vars => TreeTypeOK'
<1> SUFFICES ASSUME TreeTypeOK, [Next]_vars
             PROVE  TreeTypeOK'
  OBVIOUS
<1>1. ASSUME NEW r \in AddRequest, AddModule(r[1], r[2])
      PROVE  TreeTypeOK'
  <2>1. r[1] \in Type
    BY TreeAssumption
  <2> QED BY <1>1, <2>1 DEF AddModule, TreeTypeOK
<1>2. ASSUME NEW m \in Id, RemoveModule(m)
      PROVE  TreeTypeOK'
  <2>1. CASE Crash
    BY <2>1 DEF Crash, tree, TreeTypeOK
  <2>2. CASE Destroy(Subtree(m), Detached(m)) /\ UNCHANGED crashed
    BY <2>2, DetachedType, DestroyType DEF TreeTypeOK
  <2> QED BY <1>2, <2>1, <2>2 DEF RemoveModule
<1>3. ASSUME NEW m \in Id, NEW p \in Id, Reparent(m, p)
      PROVE  TreeTypeOK'
  <2>1. CASE Crash
    BY <2>1 DEF Crash, tree, TreeTypeOK
  <2>2. CASE ~ Crash
    <3> DEFINE in == ParentInput(m, p)
    <3>1. m \in Live /\ p \in Live /\ in # NoInput
      BY <1>3 DEF Reparent
    <3>2. in \in Name
      BY <3>1, ParentInputType, TreeAssumption DEF TreeTypeOK, Live
    <3>3. /\ link' = [link EXCEPT ![m][in] = Stored[p]]
          /\ flag' = [flag EXCEPT ![m] = in]
          /\ parent' = [parent EXCEPT ![m] = p]
          /\ UNCHANGED <<kind, crashed>>
      BY <1>3, <2>2 DEF Reparent
    <3>4. children' \in [Id -> Seq(Id)]
      <4>1. children' = IF parent[m] = p THEN children
                        ELSE [Detached(m) EXCEPT ![p] = Append(@, m)]
        BY <1>3, <2>2 DEF Reparent
      <4> QED BY <4>1, DetachedType DEF TreeTypeOK
    <3>5. link' \in [Id -> [Name -> Id \cup {NoId}]]
      <4>1. Stored[p] \in Id \cup {NoId}
        BY TreeAssumption
      <4> QED BY <3>2, <3>3, <4>1 DEF TreeTypeOK
    <3> HIDE DEF in
    <3> QED BY <3>2, <3>3, <3>4, <3>5 DEF TreeTypeOK
  <2> QED BY <2>1, <2>2
<1>4. ASSUME NEW m \in Id, Promote(m)
      PROVE  TreeTypeOK'
  <2>1. CASE Crash
    BY <2>1 DEF Crash, tree, TreeTypeOK
  <2>2. CASE ~ Crash
    BY <1>4, <2>2, DetachedType DEF Promote, TreeTypeOK
  <2> QED BY <2>1, <2>2
<1>5. ASSUME NEW p \in Id, NEW ids \in OrderRequest, ReorderChildren(p, ids)
      PROVE  TreeTypeOK'
  <2> DEFINE accepted == Len(NewOrder(p, ids)) % ChildWrap = Len(children[p])
  <2>1. children' = IF accepted THEN [children EXCEPT ![p] = Copied(p, ids)] ELSE children
    BY <1>5 DEF ReorderChildren, Copied
  <2>2. accepted => Copied(p, ids) \in Seq(Id)
    BY CopiedType
  <2>3. crashed' \in BOOLEAN /\ UNCHANGED <<kind, parent, link, flag>>
    BY <1>5 DEF ReorderChildren
  <2> HIDE DEF accepted
  <2> QED BY <2>1, <2>2, <2>3 DEF TreeTypeOK
<1>6. ASSUME NEW ids \in OrderRequest, ReorderRoots(ids)
      PROVE  TreeTypeOK'
  BY <1>6, DestroyType DEF ReorderRoots, TreeTypeOK
<1>7. ASSUME NEW m \in Id, NEW v \in InputValue, NEW in \in Name, SetInput(m, in, v)
      PROVE  TreeTypeOK'
  <2>1. v \in Id \cup {NoId}
    BY TreeAssumption
  <2> QED BY <1>7, <2>1 DEF SetInput, TreeTypeOK
<1>8. CASE UNCHANGED vars
  BY <1>8 DEF vars, TreeTypeOK
<1> QED BY <1>1, <1>2, <1>3, <1>4, <1>5, <1>6, <1>7, <1>8 DEF Next, CommonNext

(* The empty module manager is well-typed. *)
LEMMA TreeTypeInit == Init => TreeTypeOK
<1> SUFFICES ASSUME Init PROVE TreeTypeOK
  OBVIOUS
<1>1. <<>> \in Seq(Id)
  OBVIOUS
<1>2. children \in [Id -> Seq(Id)]
  BY <1>1 DEF Init
<1>3. link \in [Id -> [Name -> Id \cup {NoId}]]
  BY TreeAssumption DEF Init
<1>4. crashed \in BOOLEAN
  BY DEF Init
<1> QED BY <1>2, <1>3, <1>4 DEF Init, TreeTypeOK

(* Every pointer, list and input keeps its type in every run. *)
THEOREM TreeTypeCorrect == Spec => []TreeTypeOK
BY TreeTypeInit, TypeStep, PTL DEF Spec
-----------------------------------------------------------------------------
(* ChildListsAgree as a relation between the live set, parents and lists.  *)
Agree(live, par, kids) ==
  /\ \A p \in Id : Injective(kids[p])
  /\ \A p \in Id : \A c \in Range(kids[p]) : p \in live /\ c \in live /\ par[c] = p
  /\ \A m \in live : par[m] \in live \cup {NoId, Freed}
  /\ \A m \in live : par[m] \in live => m \in Range(kids[par[m]])
  /\ \A m \in Id \ live : par[m] = NoId

(* ChildListsAgree as a statement about any tree, to follow it in steps.   *)
LEMMA AgreeIff ==
  TreeTypeOK => (ChildListsAgree <=> Agree(Live, parent, children))
<1> SUFFICES ASSUME TreeTypeOK
             PROVE  ChildListsAgree <=> Agree(Live, parent, children)
  OBVIOUS
<1>1. \A p \in Id : children[p] \in Seq(Id)
  BY DEF TreeTypeOK
<1>2. \A p \in Id : Range(children[p]) = Kids(p)
  BY DEF Range, Kids
<1>3. ASSUME NEW p \in Id PROVE children[p] = <<>> <=> Kids(p) = {}
  <2>1. children[p] = <<>> <=> Len(children[p]) = 0
    BY <1>1, EmptySeq
  <2>2. Len(children[p]) \in Nat /\ DOMAIN children[p] = 1 .. Len(children[p])
    BY <1>1
  <2>3. Len(children[p]) = 0 <=> Kids(p) = {}
    <3>1. ASSUME Len(children[p]) # 0 PROVE children[p][1] \in Kids(p)
      BY <2>2, <3>1 DEF Kids
    <3>2. ASSUME Len(children[p]) = 0 PROVE Kids(p) = {}
      BY <2>2, <3>2 DEF Kids
    <3> QED BY <3>1, <3>2
  <2> QED BY <2>1, <2>3
<1>4. Live \subseteq Id
  BY DEF Live
<1>5. ASSUME ChildListsAgree PROVE Agree(Live, parent, children)
  <2>1. \A p \in Id \ Live : children[p] = <<>> /\ parent[p] = NoId
    BY <1>5 DEF ChildListsAgree, NewIdsAreClean
  <2>2. \A p \in Id : Injective(children[p])
    BY <1>5, <2>1 DEF ChildListsAgree, ListedOnce, Injective
  <2>3. ASSUME NEW p \in Id, NEW c \in Kids(p)
        PROVE  p \in Live /\ c \in Live /\ parent[c] = p
    <3>1. p \in Live
      BY <1>3, <2>1, <2>3
    <3> QED BY <1>5, <3>1 DEF ChildListsAgree, ListedChildrenPointBack, Kids
  <2>4. \A m \in Live : /\ parent[m] \in Live \cup {NoId, Freed}
                        /\ parent[m] \in Live => m \in Kids(parent[m])
    BY <1>5 DEF ChildListsAgree, ParentsKnown, ParentListsChild
  <2> QED BY <1>2, <1>4, <2>1, <2>2, <2>3, <2>4 DEF Agree
<1>6. ASSUME Agree(Live, parent, children) PROVE ChildListsAgree
  <2>1. \A p \in Id : \A c \in Kids(p) : p \in Live /\ c \in Live /\ parent[c] = p
    BY <1>2, <1>6 DEF Agree
  <2>2. ListedChildrenPointBack
    BY <1>4, <2>1 DEF ListedChildrenPointBack, Kids
  <2>3. ListedOnce
    BY <1>4, <1>6 DEF ListedOnce, Agree, Injective
  <2>4. ParentListsChild
    BY <1>2, <1>4, <1>6 DEF ParentListsChild, Agree
  <2>5. NewIdsAreClean
    BY <1>3, <1>6, <2>1 DEF NewIdsAreClean, Agree
  <2> QED BY <1>6, <2>2, <2>3, <2>4, <2>5 DEF ChildListsAgree, ParentsKnown, Agree
<1> QED BY <1>5, <1>6

(* Detaching m takes m, and nothing else, out of every child list. *)
LEMMA DetachedElements ==
  ASSUME TreeTypeOK, ChildListsAgree, NEW m \in Id, NEW p \in Id
  PROVE  /\ Range(Detached(m)[p]) = Kids(p) \ {m}
         /\ Injective(Detached(m)[p])
<1>1. Agree(Live, parent, children)
  BY AgreeIff
<1>2. children[p] \in Seq(Id) /\ Injective(children[p])
  BY <1>1 DEF TreeTypeOK, Agree
<1>3. Range(children[p]) = Kids(p)
  BY DEF Range, Kids
<1>4. CASE parent[m] \in Live /\ p = parent[m]
  <2>1. Detached(m)[p] = Without(children[p], m)
    BY <1>4 DEF Detached, TreeTypeOK
  <2> QED BY <1>2, <1>3, <2>1, WithoutElements
<1>5. CASE ~ (parent[m] \in Live /\ p = parent[m])
  <2>1. Detached(m)[p] = children[p]
    BY <1>5 DEF Detached, TreeTypeOK
  <2>2. m \notin Kids(p)
    BY <1>1, <1>3, <1>5 DEF Agree
  <2> QED BY <1>2, <1>3, <2>1, <2>2
<1> QED BY <1>4, <1>5

(* Subtree(m) holds m, and the children of what it holds. *)
LEMMA SubtreeClosed ==
  ASSUME NEW m \in Id, \A y \in Id : Kids(y) \subseteq Id
  PROVE  /\ m \in Subtree(m)
         /\ \A y \in Subtree(m) : Kids(y) \subseteq Subtree(m)
BY DEF Subtree

(* A member of Subtree(m) other than m has its parent in Subtree(m). *)
LEMMA SubtreeParent ==
  ASSUME TreeTypeOK, ChildListsAgree, NEW m \in Id, NEW p \in Id \ Subtree(m),
         NEW c \in Kids(p), c # m
  PROVE  c \notin Subtree(m)
<1>1. Agree(Live, parent, children)
  BY AgreeIff
<1>2. \A y \in Id : Kids(y) = Range(children[y])
  BY DEF Kids, Range
<1>3. \A y \in Id : Kids(y) \subseteq Id
  BY DEF Kids, TreeTypeOK
<1> DEFINE S == Subtree(m) \ {c}
<1>4. S \in SUBSET Id /\ m \in S
  BY <1>3, SubtreeClosed DEF Subtree
<1>5. ASSUME NEW y \in S PROVE Kids(y) \subseteq S
  <2>1. y \in Id /\ y # p
    BY <1>5 DEF Subtree
  <2>2. c \notin Kids(y)
    BY <1>1, <1>2, <2>1 DEF Agree
  <2> QED BY <1>3, <1>5, <2>2, SubtreeClosed
<1> QED BY <1>4, <1>5 DEF Subtree

-----------------------------------------------------------------------------
(* What Destroy leaves, for a set dead such that no child list of a        *)
(* survivor names one of its members.                                      *)
LEMMA DestroyAgrees ==
  ASSUME TreeTypeOK, ChildListsAgree, NEW dead \in SUBSET Id,
         NEW kids \in [Id -> Seq(Id)], Destroy(dead, kids),
         \A p \in Id \ dead :
           /\ Injective(kids[p])
           /\ Kids(p) \ dead \subseteq Range(kids[p])
           /\ Range(kids[p]) \subseteq Kids(p) \ dead
  PROVE  Agree(Live', parent', children')
<1>1. Agree(Live, parent, children)
  BY AgreeIff
<1>2. \A p \in Id : Kids(p) = Range(children[p])
  BY DEF Kids, Range
<1>3. Live' = Live \ dead
  BY DEF Destroy, Live
<1>4. \A p \in dead : Injective(children'[p]) /\ Range(children'[p]) = {}
  BY DEF Destroy, Injective, Range
<1>5. \A p \in Id \ dead : children'[p] = kids[p]
  BY DEF Destroy
<1>6. \A m \in Id : parent'[m] = IF m \in dead THEN NoId
                                ELSE IF parent[m] \in dead THEN Freed
                                ELSE parent[m]
  BY DEF Destroy
<1>7. Live \subseteq Id /\ Freed \notin Id /\ NoId \notin Id /\ Freed # NoId
  BY TreeAssumption DEF Live
<1>8. \A p \in Id : Injective(children'[p])
  BY <1>4, <1>5
<1>9. ASSUME NEW p \in Id, NEW c \in Range(children'[p])
      PROVE  p \in Live' /\ c \in Live' /\ parent'[c] = p
  <2>1. p \notin dead /\ c \in Kids(p) \ dead
    BY <1>4, <1>5, <1>9
  <2>2. p \in Live /\ c \in Live /\ parent[c] = p
    BY <1>1, <1>2, <2>1 DEF Agree
  <2> QED BY <1>3, <1>6, <1>7, <2>1, <2>2
<1>10. \A m \in Live' : parent'[m] \in Live' \cup {NoId, Freed}
  BY <1>1, <1>3, <1>6, <1>7 DEF Agree
<1>11. ASSUME NEW m \in Live', parent'[m] \in Live'
       PROVE  m \in Range(children'[parent'[m]])
  <2>1. m \in Live /\ m \notin dead /\ parent'[m] = parent[m] /\ parent[m] \in Live \ dead
    BY <1>3, <1>6, <1>7, <1>11
  <2>2. m \in Kids(parent[m])
    BY <1>1, <1>2, <1>7, <2>1 DEF Agree
  <2> QED BY <1>5, <1>7, <2>1, <2>2
<1>12. \A m \in Id \ Live' : parent'[m] = NoId
  BY <1>1, <1>3, <1>6, <1>7 DEF Agree
<1> QED BY <1>8, <1>9, <1>10, <1>11, <1>12 DEF Agree

(* reparent's relink: m moves from its parent's list to the end of p's. *)
LEMMA RelinkAgrees ==
  ASSUME TreeTypeOK, ChildListsAgree, NEW m \in Live, NEW p \in Live, parent[m] # p,
         parent' = [parent EXCEPT ![m] = p],
         children' = [Detached(m) EXCEPT ![p] = Append(@, m)],
         UNCHANGED kind
  PROVE  Agree(Live', parent', children')
<1>1. Agree(Live, parent, children)
  BY AgreeIff
<1>2. \A q \in Id : Kids(q) = Range(children[q])
  BY DEF Kids, Range
<1>3. m \in Id /\ p \in Id /\ Live' = Live /\ Live \subseteq Id
  BY DEF Live
<1>4. \A q \in Id : Range(Detached(m)[q]) = Kids(q) \ {m} /\ Injective(Detached(m)[q])
  BY <1>3, DetachedElements
<1>5. Detached(m) \in [Id -> Seq(Id)]
  BY <1>3, DetachedType
<1>6. \A q \in Id : children'[q] = IF q = p THEN Append(Detached(m)[p], m)
                                  ELSE Detached(m)[q]
  BY <1>3, <1>5
<1>7. /\ Range(children'[p]) = (Kids(p) \ {m}) \cup {m}
      /\ Injective(children'[p])
  <2> DEFINE s == Detached(m)[p]
             n == Len(s)
  <2>1. s \in Seq(Id) /\ n \in Nat /\ DOMAIN s = 1 .. n
    BY <1>3, <1>5
  <2>2. /\ DOMAIN Append(s, m) = 1 .. n + 1
        /\ \A i \in 1 .. n : Append(s, m)[i] = s[i]
        /\ Append(s, m)[n + 1] = m
    BY <1>3, <2>1
  <2>3. m \notin Range(s) /\ Injective(s) /\ Range(s) = Kids(p) \ {m}
    BY <1>3, <1>4
  <2> HIDE DEF n, s
  <2>4. Range(Append(s, m)) = Range(s) \cup {m}
    <3>1. \A i \in 1 .. n + 1 : i \in 1 .. n \/ i = n + 1
      BY <2>1
    <3>2. n + 1 \in 1 .. n + 1 /\ 1 .. n \subseteq 1 .. n + 1
      BY <2>1
    <3> QED BY <2>1, <2>2, <3>1, <3>2 DEF Range
  <2>5. Injective(Append(s, m))
    BY <2>1, <2>2, <2>3 DEF Injective, Range
  <2> QED BY <1>3, <1>6, <2>3, <2>4, <2>5 DEF s
<1>8. ASSUME NEW q \in Id, NEW c
      PROVE  c \in Range(children'[q]) <=> \/ c \in Kids(q) /\ c # m
                                           \/ c = m /\ q = p
  BY <1>4, <1>6, <1>7
<1>9. \A q \in Id : Injective(children'[q])
  BY <1>4, <1>6, <1>7
<1>10. \A c \in Id : parent'[c] = IF c = m THEN p ELSE parent[c]
  BY DEF TreeTypeOK
<1> HIDE DEF Live
<1>11. ASSUME NEW q \in Id, NEW c \in Range(children'[q])
       PROVE  q \in Live /\ c \in Live /\ parent'[c] = q
  <2>1. CASE c = m
    BY <1>3, <1>8, <1>10, <1>11, <2>1
  <2>2. CASE c # m
    <3>1. c \in Range(children[q])
      BY <1>2, <1>3, <1>8, <1>11, <2>2
    <3>2. q \in Live /\ c \in Live /\ parent[c] = q
      BY <1>1, <3>1 DEF Agree
    <3> QED BY <1>3, <1>10, <2>2, <3>2
  <2> QED BY <2>1, <2>2
<1>12. ASSUME NEW c \in Live, parent'[c] \in Live
       PROVE  c \in Range(children'[parent'[c]])
  <2>1. CASE c = m
    BY <1>3, <1>8, <1>10, <2>1
  <2>2. CASE c # m
    <3>1. parent'[c] = parent[c] /\ parent[c] \in Live
      BY <1>3, <1>10, <1>12, <2>2
    <3>2. c \in Kids(parent[c])
      BY <1>1, <1>2, <1>3, <3>1 DEF Agree
    <3> QED BY <1>3, <1>8, <2>2, <3>1, <3>2
  <2> QED BY <2>1, <2>2
<1>13. \A c \in Live : parent'[c] \in Live \cup {NoId, Freed}
  BY <1>1, <1>3, <1>10 DEF Agree
<1>14. \A c \in Id \ Live : parent'[c] = NoId
  BY <1>1, <1>10 DEF Agree
<1> QED BY <1>3, <1>9, <1>11, <1>12, <1>13, <1>14 DEF Agree

(* Promote: m leaves its parent's list and has no parent. *)
LEMMA PromoteAgrees ==
  ASSUME TreeTypeOK, ChildListsAgree, NEW m \in Live,
         parent' = [parent EXCEPT ![m] = NoId],
         children' = Detached(m),
         UNCHANGED kind
  PROVE  Agree(Live', parent', children')
<1>1. Agree(Live, parent, children)
  BY AgreeIff
<1>2. \A q \in Id : Kids(q) = Range(children[q])
  BY DEF Kids, Range
<1>3. m \in Id /\ Live' = Live /\ Live \subseteq Id /\ NoId \notin Id
  BY TreeAssumption DEF Live
<1>4. \A q \in Id : Range(children'[q]) = Kids(q) \ {m} /\ Injective(children'[q])
  BY <1>3, DetachedElements
<1>5. \A c \in Id : parent'[c] = IF c = m THEN NoId ELSE parent[c]
  BY DEF TreeTypeOK
<1> HIDE DEF Live
<1>6. ASSUME NEW q \in Id, NEW c \in Range(children'[q])
      PROVE  q \in Live /\ c \in Live /\ parent'[c] = q
  <2>1. c \in Range(children[q]) /\ c # m
    BY <1>2, <1>4, <1>6
  <2>2. q \in Live /\ c \in Live /\ parent[c] = q
    BY <1>1, <2>1 DEF Agree
  <2> QED BY <1>3, <1>5, <2>1, <2>2
<1>7. ASSUME NEW c \in Live, parent'[c] \in Live
      PROVE  c \in Range(children'[parent'[c]])
  <2>1. c # m /\ parent'[c] = parent[c] /\ parent[c] \in Live
    BY <1>3, <1>5, <1>7
  <2>2. c \in Kids(parent[c])
    BY <1>1, <1>2, <1>3, <2>1 DEF Agree
  <2> QED BY <1>3, <1>4, <2>1, <2>2
<1>8. \A c \in Live : parent'[c] \in Live \cup {NoId, Freed}
  BY <1>1, <1>3, <1>5 DEF Agree
<1>9. \A c \in Id \ Live : parent'[c] = NoId
  BY <1>1, <1>5 DEF Agree
<1> QED BY <1>3, <1>4, <1>6, <1>7, <1>8, <1>9 DEF Agree

(* Sorting children: a list with the same members, each once, in place of  *)
(* the old one.                                                            *)
LEMMA SortedChildrenAgree ==
  ASSUME TreeTypeOK, ChildListsAgree, NEW p \in Live,
         NEW s \in [DOMAIN children[p] -> Kids(p)],
         Injective(s), Range(s) = Kids(p),
         children' = [children EXCEPT ![p] = s],
         UNCHANGED <<kind, parent>>
  PROVE  Agree(Live', parent', children')
<1>1. Agree(Live, parent, children)
  BY AgreeIff
<1>2. \A q \in Id : Kids(q) = Range(children[q])
  BY DEF Kids, Range
<1>3. p \in Id /\ Live' = Live /\ Live \subseteq Id
  BY DEF Live
<1>4. \A q \in Id : children'[q] = IF q = p THEN s ELSE children[q]
  BY <1>3 DEF TreeTypeOK
<1>5. \A q \in Id : Range(children'[q]) = Range(children[q]) /\ Injective(children'[q])
  BY <1>1, <1>2, <1>3, <1>4 DEF Agree
<1> QED BY <1>1, <1>3, <1>5 DEF Agree

-----------------------------------------------------------------------------
(* A list is as long as it has members, or longer when it repeats one.     *)
LEMMA LengthAndMembers ==
  ASSUME NEW s \in Seq(Id)
  PROVE  /\ IsFiniteSet(Range(s)) /\ Cardinality(Range(s)) \in Nat
         /\ Cardinality(Range(s)) <= Len(s)
         /\ Cardinality(Range(s)) = Len(s) => Injective(s)
         /\ Len(s) # 0 => Cardinality(Range(s)) # 0
<1> DEFINE n == Len(s)
           R == Range(s)
<1>1. n \in Nat /\ DOMAIN s = 1 .. n /\ s = [i \in 1 .. n |-> s[i]]
  BY SeqDef
<1>2. IsFiniteSet(1 .. n) /\ Cardinality(1 .. n) = n
  <2>1. 1 \in Int /\ n \in Int
    BY <1>1
  <2>2. IsFiniteSet(1 .. n) /\ Cardinality(1 .. n) = IF 1 > n THEN 0 ELSE n - 1 + 1
    BY <2>1, FS_Interval
  <2> QED BY <1>1, <2>2
<1> HIDE DEF n
<1>3. s \in Surjection(1 .. n, R)
  BY <1>1 DEF Surjection, Range
<1> HIDE DEF R
<1>4. /\ IsFiniteSet(R) /\ Cardinality(R) <= n
      /\ Cardinality(R) = n => s \in Injection(1 .. n, R)
  BY <1>2, <1>3, FS_Surjection
<1>5. Cardinality(R) \in Nat
  BY <1>4, FS_CardinalityType
<1>6. Cardinality(R) = n => Injective(s)
  BY <1>1, <1>4 DEF Injection, IsInjective, Injective
<1>7. n # 0 => Cardinality(R) # 0
  <2>1. n # 0 => R # {}
    BY <1>1 DEF R, Range
  <2> QED BY <1>4, <2>1, FS_EmptySet
<1> QED BY <1>4, <1>5, <1>6, <1>7 DEF n, R

(* The array reorder() builds is longer than the child list by as much as  *)
(* the request repeats children.                                           *)
LEMMA NewOrderLength ==
  ASSUME TreeTypeOK, NEW p \in Id, Injective(children[p]), NEW ids \in OrderRequest
  PROVE  /\ Len(NewOrder(p, ids)) \in Nat
         /\ NamesOnce(ids) => Injective(NewOrder(p, ids))
         /\ Len(NewOrder(p, ids)) = Len(children[p]) => Injective(NewOrder(p, ids))
         /\ Len(children[p]) <= Len(NewOrder(p, ids))
         /\ \/ Len(NewOrder(p, ids)) = Len(children[p])
            \/ Len(NewOrder(p, ids)) < Len(children[p]) + Len(ids)
<1> DEFINE listed == Keep(ids, Kids(p))
           others == Keep(children[p], Kids(p) \ Range(listed))
           new == listed \o others
           L == Range(listed)
           K == Kids(p)
<1>1. ids \in Seq(Id) /\ children[p] \in Seq(Id) /\ Range(children[p]) = Kids(p)
  BY TreeAssumption DEF TreeTypeOK, Kids, Range
<1>2. /\ listed \in Seq(Id) /\ L = Range(ids) \cap K
      /\ Injective(ids) => Injective(listed)
      /\ Len(listed) <= Len(ids)
  BY <1>1, KeepElements
<1>3. /\ others \in Seq(Id) /\ Range(others) = Range(children[p]) \cap (K \ L)
      /\ Injective(others)
  BY <1>1, KeepElements
<1> HIDE DEF listed, others, L, K
<1>4. L \subseteq K /\ Range(others) = K \ L /\ Range(listed) = L /\ Range(children[p]) = K
  BY <1>1, <1>2, <1>3 DEF K, L
<1>5. Injective(listed) => Injective(new)
  <2>1. L \cap (K \ L) = {}
    OBVIOUS
  <2> QED BY <1>2, <1>3, <1>4, <2>1, ConcatElements
<1>6. Len(new) = Len(listed) + Len(others)
  BY <1>2, <1>3
<1>7. IsFiniteSet(K) /\ Cardinality(K) = Len(children[p])
  BY <1>1, <1>4, LengthIsCardinality
<1>8. Len(others) = Cardinality(K \ L)
  BY <1>3, <1>4, LengthIsCardinality
<1>9. Cardinality(K \ L) = Cardinality(K) - Cardinality(L)
  <2>1. Cardinality(K \ L) = Cardinality(K) - Cardinality(K \cap L)
    BY <1>7, FS_Difference
  <2>2. K \cap L = L
    BY <1>4
  <2> QED BY <2>1, <2>2
<1>10. /\ Cardinality(L) \in Nat /\ Cardinality(L) <= Len(listed)
       /\ Cardinality(L) = Len(listed) => Injective(listed)
       /\ Len(listed) # 0 => Cardinality(L) # 0
  BY <1>2, <1>4, LengthAndMembers
<1>11. /\ Len(listed) \in Nat /\ Len(ids) \in Nat /\ Len(children[p]) \in Nat
       /\ Len(others) \in Nat
  BY <1>1, <1>2, <1>3
<1>12. NewOrder(p, ids) = new
  BY DEF NewOrder, listed, others, L, K
<1>13. NamesOnce(ids) => Injective(ids)
  BY DEF NamesOnce, Injective
<1>14. Len(new) = Len(children[p]) + Len(listed) - Cardinality(L)
  BY <1>6, <1>7, <1>8, <1>9, <1>10, <1>11
<1> HIDE DEF new
<1> QED BY <1>2, <1>5, <1>10, <1>11, <1>12, <1>13, <1>14

(* The orders the children of p can be put in. *)
Arrangements(p) ==
  {s \in [DOMAIN children[p] -> Kids(p)] : Injective(s) /\ Range(s) = Kids(p)}

(* What reorder() does to the children of p when it breaks no list. *)
RearrangeChildren(p) ==
  /\ ~crashed
  /\ p \in Live
  /\ \/ UNCHANGED children
     \/ \E s \in Arrangements(p) : children' = [children EXCEPT ![p] = s]
  /\ modules' = SortDepthFirst(modules, parent, children')
  /\ UNCHANGED <<kind, parent, link, flag, crashed>>

(* A reorder that leaves no module twice in a child list leaves every      *)
(* child in it.                                                            *)
LEMMA ReorderRearranges ==
  ASSUME TreeTypeOK, NEW p \in Id, Injective(children[p]), NEW ids \in OrderRequest,
         ReorderChildren(p, ids), ~crashed'
  PROVE  RearrangeChildren(p)
<1> DEFINE c == Copied(p, ids)
           accepted == Len(NewOrder(p, ids)) % ChildWrap = Len(children[p])
           broken == accepted /\ \E i, j \in DOMAIN c : i # j /\ c[i] = c[j]
           k == Len(children[p])
<1>0. /\ children' = IF accepted THEN [children EXCEPT ![p] = c] ELSE children
      /\ crashed' = broken
      /\ modules' = SortDepthFirst(modules, parent, IF broken THEN [children EXCEPT ![p] = FirstPlaces(c)]
                                                    ELSE children')
      /\ ~crashed /\ p \in Live /\ UNCHANGED <<kind, parent, link, flag>>
  BY DEF ReorderChildren, Copied
<1>1. /\ children' = IF accepted THEN [children EXCEPT ![p] = c] ELSE children
      /\ ~broken
      /\ modules' = SortDepthFirst(modules, parent, children')
      /\ ~crashed /\ p \in Live /\ UNCHANGED <<kind, parent, link, flag, crashed>>
  <2>1. ~broken
    BY <1>0
  <2>2. crashed = FALSE /\ crashed' = FALSE
    BY <1>0, <2>1 DEF TreeTypeOK
  <2> HIDE DEF broken
  <2> QED BY <1>0, <2>1, <2>2
<1>2. CASE accepted
  <2>1. c \in [DOMAIN children[p] -> Kids(p)]
    BY <1>2, CopiedType
  <2>2. Injective(c)
    BY <1>1, <1>2 DEF Injective
  <2>3. Range(c) = Kids(p)
    <3>1. children[p] \in Seq(Id) /\ Range(children[p]) = Kids(p)
      BY DEF TreeTypeOK, Kids, Range
    <3>2. k \in Nat /\ DOMAIN children[p] = 1 .. k
      BY <3>1
    <3>3. IsFiniteSet(Kids(p)) /\ Cardinality(Kids(p)) = k
      BY <3>1, LengthIsCardinality
    <3>4. IsFiniteSet(1 .. k) /\ Cardinality(1 .. k) = k
      <4>1. 1 \in Int /\ k \in Int
        BY <3>2
      <4>2. IsFiniteSet(1 .. k) /\ Cardinality(1 .. k) = IF 1 > k THEN 0 ELSE k - 1 + 1
        BY <4>1, FS_Interval
      <4> QED BY <3>2, <4>2
    <3> HIDE DEF c, k
    <3>5. c \in Injection(1 .. k, Kids(p))
      BY <2>1, <2>2, <3>2 DEF Injection, IsInjective, Injective
    <3>6. c \in Surjection(1 .. k, Kids(p))
      BY <3>3, <3>4, <3>5, FS_Injection
    <3> QED BY <2>1, <3>2, <3>6 DEF Surjection, Range
  <2> HIDE DEF c
  <2>4. c \in Arrangements(p)
    BY <2>1, <2>2, <2>3 DEF Arrangements
  <2> QED BY <1>1, <1>2, <2>4 DEF RearrangeChildren
<1>3. CASE ~accepted
  BY <1>1, <1>3 DEF RearrangeChildren
<1> QED BY <1>2, <1>3

(* A list that names no child twice, or is no longer than the count of     *)
(* children has values, leaves no module twice in a child list.            *)
LEMMA ReorderBreaksNothing ==
  ASSUME TreeTypeOK, NEW p \in Id, Injective(children[p]), NEW ids \in OrderRequest,
         ReorderChildren(p, ids), NamesOnce(ids) \/ Len(ids) <= ChildWrap
  PROVE  ~crashed'
<1> DEFINE c == Copied(p, ids)
           new == NewOrder(p, ids)
           k == Len(children[p])
           accepted == Len(new) % ChildWrap = k
           broken == accepted /\ \E i, j \in DOMAIN c : i # j /\ c[i] = c[j]
<1>1. crashed' = broken
  BY DEF ReorderChildren, Copied
<1>2. SUFFICES ASSUME accepted PROVE Injective(c)
  BY <1>1 DEF Injective
<1>3. new \in Seq(Id) /\ k \in Nat /\ DOMAIN children[p] = 1 .. k
  BY NewOrderType DEF TreeTypeOK
<1>4. /\ NamesOnce(ids) => Injective(new)
      /\ Len(new) = k => Injective(new)
      /\ k <= Len(new) /\ Len(new) \in Nat
      /\ Len(new) = k \/ Len(new) < k + Len(ids)
  BY NewOrderLength
<1>5. DOMAIN new = 1 .. Len(new) /\ c = [i \in 1 .. k |-> new[i]]
  BY <1>3 DEF Copied
<1>6. Len(ids) \in Nat /\ ChildWrap \in Nat /\ 0 < ChildWrap
  BY TreeAssumption
<1> HIDE DEF new, c, k
<1>7. CASE Len(ids) <= ChildWrap
  <2> DEFINE n == Len(new)
  <2>1. n = k \/ n < k + ChildWrap
    BY <1>3, <1>4, <1>6, <1>7
  <2>2. n % ChildWrap \in 0 .. ChildWrap - 1 /\ n % ChildWrap = k
    BY <1>2, <1>4, <1>6
  <2> HIDE DEF n
  <2>3. n \in Nat /\ k \in 0 .. ChildWrap - 1 /\ k <= n
    BY <1>3, <1>4, <2>2 DEF n
  <2>4. n = k
    BY <1>6, <2>1, <2>2, <2>3, SmallRemainder
  <2> QED BY <1>3, <1>4, <1>5, <2>4 DEF Injective, n
<1>8. CASE NamesOnce(ids)
  <2>1. \A i \in 1 .. k : i \in 1 .. Len(new)
    BY <1>3, <1>4
  <2> QED BY <1>4, <1>5, <1>8, <2>1 DEF Injective
<1> QED BY <1>7, <1>8

-----------------------------------------------------------------------------
TreeInv == TreeTypeOK /\ ChildListsAgree

(* The requests without a list so long that it breaks a child list. *)
TidyNext ==
  \/ CommonNext
  \/ \E m, p \in Id : Reparent(m, p)
  \/ \E p \in Id, ids \in OrderRequest : ReorderChildren(p, ids) /\ RearrangeChildren(p)
  \/ \E ids \in OrderRequest : ReorderRoots(ids)

LEMMA TidyIsNext == TidyNext => Next
BY DEF TidyNext, Next

(* In a tree whose lists are in order no list of that size breaks one.     *)
LEMMA ShortIsTidy ==
  ASSUME ShortLists, TreeInv, Next
  PROVE  TidyNext
<1>1. ASSUME NEW p \in Id, NEW ids \in OrderRequest, ReorderChildren(p, ids)
      PROVE  RearrangeChildren(p)
  <2>1. TreeTypeOK /\ Injective(children[p])
    BY AgreeIff DEF TreeInv, Agree
  <2>2. Len(ids) <= ChildWrap
    BY DEF ShortLists
  <2> QED BY <1>1, <2>1, <2>2, ReorderBreaksNothing, ReorderRearranges
<1> QED BY <1>1 DEF Next, TidyNext

(* The empty module manager is in order. *)
LEMMA TreeInvInit == Init => TreeInv
<1> SUFFICES ASSUME Init PROVE TreeInv
  OBVIOUS
<1>1. Live = {}
  BY DEF Init, Live
<1> QED BY <1>1, TreeTypeInit DEF Init, TreeInv, ChildListsAgree, ListedChildrenPointBack,
           ListedOnce, ParentListsChild, ParentsKnown, NewIdsAreClean

(* Each operation keeps parent_ and children_ in agreement. *)
LEMMA ChildListsStep == TreeInv /\ [TidyNext]_vars => ChildListsAgree'
<1> SUFFICES ASSUME TreeTypeOK, ChildListsAgree, [TidyNext]_vars
             PROVE  ChildListsAgree'
  BY DEF TreeInv
<1>0. TreeTypeOK' => (ChildListsAgree' <=> Agree(Live', parent', children'))
  <2>1. (TreeTypeOK => (ChildListsAgree <=> Agree(Live, parent, children)))'
    BY AgreeIff, PTL
  <2> QED BY <2>1 DEF Agree
<1>1. SUFFICES Agree(Live', parent', children')
  BY <1>0, TypeStep, TidyIsNext
<1>2. Agree(Live, parent, children)
  BY AgreeIff
<1>3. ASSUME UNCHANGED <<kind, parent, children>>
      PROVE  Agree(Live', parent', children')
  BY <1>2, <1>3 DEF Live
<1>4. ASSUME NEW r \in AddRequest, AddModule(r[1], r[2])
      PROVE  Agree(Live', parent', children')
  <2>1. r[1] \in Type /\ r[2] \in Id /\ NoType \notin Type
    BY TreeAssumption
  <2>2. Live' = Live \cup {r[2]} /\ UNCHANGED <<parent, children>>
    BY <1>4, <2>1 DEF AddModule, Live, TreeTypeOK
  <2>3. r[2] \in Id \ Live /\ NoId \notin Id /\ Freed \notin Id /\ Live \subseteq Id
    BY <1>4, <2>1, TreeAssumption DEF AddModule, Live
  <2>4. \A m \in Live : parent[m] # r[2]
    BY <1>2, <2>3 DEF Agree
  <2>5. parent[r[2]] = NoId
    BY <1>2, <2>3 DEF Agree
  <2> HIDE DEF Live
  <2> QED BY <1>2, <2>2, <2>3, <2>4, <2>5 DEF Agree
<1>5. ASSUME NEW m \in Id, RemoveModule(m)
      PROVE  Agree(Live', parent', children')
  <2>1. CASE Crash
    BY <1>3, <2>1 DEF Crash, tree
  <2>2. CASE Destroy(Subtree(m), Detached(m))
    <3>1. Detached(m) \in [Id -> Seq(Id)] /\ Subtree(m) \in SUBSET Id
      BY DetachedType DEF Subtree
    <3>2. m \in Subtree(m)
      BY SubtreeClosed DEF Kids, TreeTypeOK
    <3>3. ASSUME NEW p \in Id \ Subtree(m)
          PROVE  /\ Injective(Detached(m)[p])
                 /\ Range(Detached(m)[p]) = Kids(p) \ Subtree(m)
      BY <3>2, DetachedElements, SubtreeParent
    <3> QED BY <2>2, <3>1, <3>3, DestroyAgrees
  <2> QED BY <1>5, <2>1, <2>2 DEF RemoveModule
<1>6. ASSUME NEW m \in Id, NEW p \in Id, Reparent(m, p)
      PROVE  Agree(Live', parent', children')
  <2>1. CASE Crash
    BY <1>3, <2>1 DEF Crash, tree
  <2>2. CASE ~ Crash /\ parent[m] = p
    <3>1. UNCHANGED <<kind, children>> /\ parent' = [parent EXCEPT ![m] = p]
      BY <1>6, <2>2 DEF Reparent
    <3>2. UNCHANGED parent
      BY <2>2, <3>1 DEF TreeTypeOK
    <3> QED BY <1>3, <3>1, <3>2
  <2>3. CASE ~ Crash /\ parent[m] # p
    BY <1>6, <2>3, RelinkAgrees DEF Reparent
  <2> QED BY <2>1, <2>2, <2>3
<1>7. ASSUME NEW m \in Id, Promote(m)
      PROVE  Agree(Live', parent', children')
  <2>1. CASE Crash
    BY <1>3, <2>1 DEF Crash, tree
  <2>2. CASE ~ Crash
    BY <1>7, <2>2, PromoteAgrees DEF Promote
  <2> QED BY <2>1, <2>2
<1>8. ASSUME NEW p \in Id, RearrangeChildren(p)
      PROVE  Agree(Live', parent', children')
  <2>1. CASE UNCHANGED children
    BY <1>3, <1>8, <2>1 DEF RearrangeChildren
  <2>2. ASSUME NEW s \in Arrangements(p), children' = [children EXCEPT ![p] = s]
        PROVE  Agree(Live', parent', children')
    <3>1. s \in [DOMAIN children[p] -> Kids(p)] /\ Injective(s) /\ Range(s) = Kids(p)
      BY DEF Arrangements
    <3> QED BY <1>8, <2>2, <3>1, SortedChildrenAgree DEF RearrangeChildren
  <2> QED BY <1>8, <2>1, <2>2 DEF RearrangeChildren
<1>9. ASSUME NEW ids \in OrderRequest, ReorderRoots(ids)
      PROVE  Agree(Live', parent', children')
  <2>1. PICK dead \in SUBSET Roots : Destroy(dead, children)
    BY <1>9 DEF ReorderRoots
  <2>2. children \in [Id -> Seq(Id)] /\ dead \in SUBSET Id
    BY <2>1 DEF TreeTypeOK, Roots, Live
  <2>3. ASSUME NEW p \in Id
        PROVE  Injective(children[p]) /\ Range(children[p]) = Kids(p) \ dead
    <3>1. Range(children[p]) = Kids(p) /\ Injective(children[p])
      BY <1>2 DEF Kids, Range, Agree
    <3>2. \A c \in Kids(p) : parent[c] = p /\ p # NoId
      BY <1>2, <3>1, TreeAssumption DEF Agree
    <3> QED BY <2>1, <3>1, <3>2 DEF Roots
  <2> QED BY <2>1, <2>2, <2>3, DestroyAgrees
<1>10. ASSUME NEW m \in Id, NEW v \in InputValue, NEW in \in Name, SetInput(m, in, v)
       PROVE  Agree(Live', parent', children')
  BY <1>3, <1>10 DEF SetInput
<1>11. CASE UNCHANGED vars
  BY <1>3, <1>11 DEF vars
<1> QED
  BY <1>4, <1>5, <1>6, <1>7, <1>8, <1>9, <1>10, <1>11 DEF TidyNext, CommonNext

(* Whatever requests arrive, in whatever order, as long as no "ids" list   *)
(* has more than 256 entries: a live module is in the                      *)
(* child list of its parent, once, and in no other list: remove(),         *)
(* reparent() and reorder() never leave children_ pointing at a destroyed  *)
(* module or at one that has moved.  (A longer list can break one.)        *)
THEOREM ChildListsCorrect ==
  ASSUME ShortLists PROVE Spec => []ChildListsAgree
<1>1. Init => TreeInv
  BY TreeInvInit
<1>2. TreeInv /\ [Next]_vars => TreeInv'
  BY TypeStep, ShortIsTidy, TidyIsNext, ChildListsStep DEF TreeInv
<1>3. TreeInv => ChildListsAgree
  BY DEF TreeInv
<1> QED BY <1>1, <1>2, <1>3, PTL DEF Spec
-----------------------------------------------------------------------------
(* What the web UI's steps preserve. *)
UiInv == TreeInv /\ ParentsAlive /\ Acyclic

(* The requests of the page, which breaks no child list. *)
UiTidyNext ==
  \/ CommonNext
  \/ \E m, p \in Id : UiDrop(m, p) /\ Reparent(m, p)
  \/ \E p \in Id, ids \in OrderRequest : ReorderChildren(p, ids) /\ RearrangeChildren(p)

LEMMA UiIsTidy ==
  ASSUME TreeInv, UiNext
  PROVE  UiTidyNext
<1>1. ASSUME NEW p \in Id, NEW ids \in OrderRequest, NamesOnce(ids), ReorderChildren(p, ids)
      PROVE  RearrangeChildren(p)
  <2>1. TreeTypeOK /\ Injective(children[p])
    BY AgreeIff DEF TreeInv, Agree
  <2> QED BY <1>1, <2>1, ReorderBreaksNothing, ReorderRearranges
<1> QED BY <1>1 DEF UiNext, UiTidyNext

(* Every drop of the web UI is a request the REST API accepts. *)
LEMMA UiTidyIsTidy == UiTidyNext => TidyNext
BY DEF UiTidyNext, TidyNext

(* What the page does leaves pointers, lists and inputs in order. *)
LEMMA UiTreeStep == TreeInv /\ [UiNext]_vars => TreeInv'
<1> SUFFICES ASSUME TreeInv, [UiNext]_vars PROVE TreeInv'
  OBVIOUS
<1>1. [TidyNext]_vars
  BY UiIsTidy, UiTidyIsTidy
<1> QED BY <1>1, TidyIsNext, TypeStep, ChildListsStep DEF TreeInv

(* A destroyed module is nobody's parent when no parent_ dangles: the     *)
(* subtree that dies contains every child of each of its members.          *)
LEMMA RemoveKeepsParents ==
  ASSUME TreeInv, ParentsAlive, NEW m \in Live, Destroy(Subtree(m), Detached(m))
  PROVE  /\ Live' = Live \ Subtree(m)
         /\ \A x \in Live' : parent'[x] = parent[x] /\ parent[x] \notin Subtree(m)
<1>1. Live' = Live \ Subtree(m)
  BY TreeAssumption DEF Live, Destroy, TreeInv, TreeTypeOK
<1>2. m \in Id /\ Live \subseteq Id
  BY DEF Live
<1>3. \A y \in Id : Kids(y) \subseteq Id
  BY DEF Kids, TreeInv, TreeTypeOK
<1>4. ASSUME NEW x \in Live', parent[x] \in Subtree(m)
      PROVE  FALSE
  <2>1. x \in Live /\ x \notin Subtree(m)
    BY <1>1, <1>4
  <2>2. parent[x] \in Live
    <3>1. parent[x] \in Id
      BY <1>4 DEF Subtree
    <3> QED BY <2>1, <3>1, TreeAssumption DEF ParentsAlive
  <2>3. x \in Kids(parent[x])
    BY <2>1, <2>2 DEF TreeInv, ChildListsAgree, ParentListsChild
  <2> QED BY <1>2, <1>3, <1>4, <2>1, <2>3, SubtreeClosed
<1>5. \A x \in Live' : parent'[x] = parent[x]
  BY <1>1, <1>2, <1>4 DEF Destroy
<1> QED BY <1>1, <1>4, <1>5

LEMMA UiStep == UiInv /\ [UiNext]_vars => UiInv'
<1> SUFFICES ASSUME TreeInv, ParentsAlive, Acyclic, [UiNext]_vars
             PROVE  ParentsAlive' /\ Acyclic'
  BY UiTreeStep DEF UiInv
<1>0. Live \subseteq Id /\ parent \in [Id -> Id \cup {NoId, Freed}] /\ NoId \notin Live
  BY TreeAssumption DEF Live, TreeInv, TreeTypeOK
<1>1. ASSUME Live' \subseteq Live,
             \A x \in Live' : parent'[x] = NoId \/ parent'[x] = parent[x],
             \A x \in Live' : parent'[x] \in Live' \cup {NoId}
      PROVE  ParentsAlive' /\ Acyclic'
  <2>1. ASSUME NEW S \in SUBSET Live', S # {}
        PROVE  \E x \in S : parent'[x] \notin S
    <3>1. PICK x \in S : parent[x] \notin S
      BY <1>1, <2>1 DEF Acyclic
    <3> QED BY <1>0, <1>1, <3>1
  <2> QED BY <1>1, <2>1 DEF Acyclic, ParentsAlive
<1>2. ASSUME UNCHANGED <<kind, parent>>
      PROVE  ParentsAlive' /\ Acyclic'
  <2>1. Live' = Live
    BY <1>2 DEF Live
  <2> QED BY <1>1, <1>2, <2>1 DEF ParentsAlive
<1>3. \A x \in Live : parent[x] # Freed
  BY <1>0, TreeAssumption DEF ParentsAlive
<1>4. ASSUME NEW r \in AddRequest, AddModule(r[1], r[2])
      PROVE  ParentsAlive' /\ Acyclic'
  <2>1. r[1] \in Type /\ r[2] \in Id /\ NoType \notin Type
    BY TreeAssumption
  <2>2. Live' = Live \cup {r[2]} /\ UNCHANGED parent /\ parent[r[2]] = NoId
    BY <1>4, <2>1 DEF AddModule, Live, TreeInv, TreeTypeOK, ChildListsAgree, NewIdsAreClean
  <2>3. ASSUME NEW S \in SUBSET Live', S # {}
        PROVE  \E x \in S : parent'[x] \notin S
    <3>1. CASE r[2] \in S
      <4>1. NoId \notin S
        BY <1>0, <2>1, <2>2, TreeAssumption
      <4> QED BY <2>2, <3>1, <4>1
    <3>2. CASE r[2] \notin S
      BY <2>2, <2>3, <3>2 DEF Acyclic
    <3> QED BY <3>1, <3>2
  <2> QED BY <2>2, <2>3 DEF Acyclic, ParentsAlive
<1>5. ASSUME NEW m \in Id, RemoveModule(m)
      PROVE  ParentsAlive' /\ Acyclic'
  <2>1. m \in Live /\ Destroy(Subtree(m), Detached(m))
    BY <1>3, <1>5 DEF RemoveModule
  <2>2. Live' = Live \ Subtree(m)
    BY <2>1, RemoveKeepsParents
  <2>3. \A x \in Live' : parent'[x] = parent[x] /\ parent[x] \notin Subtree(m)
    BY <2>1, RemoveKeepsParents
  <2> QED BY <1>1, <2>2, <2>3 DEF ParentsAlive
<1>6. ASSUME NEW m \in Id, NEW p \in Id, UiDrop(m, p), Reparent(m, p)
      PROVE  ParentsAlive' /\ Acyclic'
  <2>0. CASE Crash
    BY <1>2, <2>0 DEF Crash, tree
  <2> SUFFICES ASSUME ~Crash PROVE ParentsAlive' /\ Acyclic'
    BY <2>0
  <2>1. m \in Live /\ p \in Live /\ m # p /\ parent[p] = NoId
    BY <1>6 DEF Reparent, UiDrop
  <2>2. parent' = [parent EXCEPT ![m] = p] /\ UNCHANGED kind
    BY <1>6 DEF Reparent
  <2>3. Live' = Live
    BY <2>2 DEF Live
  <2>4. parent'[m] = p /\ \A x \in Live \ {m} : parent'[x] = parent[x]
    BY <1>0, <2>1, <2>2
  <2>5. ASSUME NEW S \in SUBSET Live, S # {}
        PROVE  \E x \in S : parent'[x] \notin S
    <3>1. CASE p \in S
      BY <1>0, <2>1, <2>4, <3>1
    <3>2. CASE p \notin S /\ m \in S
      BY <2>4, <3>2
    <3>3. CASE m \notin S
      BY <2>4, <2>5, <3>3 DEF Acyclic
    <3> QED BY <3>1, <3>2, <3>3
  <2> QED BY <2>1, <2>3, <2>4, <2>5 DEF Acyclic, ParentsAlive
<1>7. ASSUME NEW m \in Id, Promote(m)
      PROVE  ParentsAlive' /\ Acyclic'
  <2>1. m \in Live /\ parent' = [parent EXCEPT ![m] = NoId] /\ UNCHANGED kind
    BY <1>3, <1>7 DEF Promote
  <2>2. Live' = Live
    BY <2>1 DEF Live
  <2> QED BY <1>0, <1>1, <2>1, <2>2 DEF ParentsAlive
<1>8. ASSUME NEW p \in Id, RearrangeChildren(p)
      PROVE  ParentsAlive' /\ Acyclic'
  BY <1>2, <1>8 DEF RearrangeChildren
<1>9. ASSUME NEW m \in Id, NEW v \in InputValue, NEW in \in Name, SetInput(m, in, v)
      PROVE  ParentsAlive' /\ Acyclic'
  BY <1>2, <1>9 DEF SetInput
<1>10. CASE UNCHANGED vars
  BY <1>2, <1>10 DEF vars
<1> QED
  BY <1>4, <1>5, <1>6, <1>7, <1>8, <1>9, <1>10, UiIsTidy DEF UiTidyNext, CommonNext

(* Of the requests the REST API accepts only a reorder of the roots can    *)
(* leave a parent_ dangling.                                               *)
NestingNext ==
  \/ CommonNext
  \/ \E m, p \in Id : Reparent(m, p)
  \/ \E p \in Id, ids \in OrderRequest : ReorderChildren(p, ids) /\ RearrangeChildren(p)

(* Of all requests only a reorder of the roots leaves a parent dangling.   *)
LEMMA ParentsStep ==
  ASSUME TreeInv, ParentsAlive, NestingNext
  PROVE  ParentsAlive'
<1>0. Live \subseteq Id /\ parent \in [Id -> Id \cup {NoId, Freed}]
  BY DEF Live, TreeInv, TreeTypeOK
<1>1. ASSUME UNCHANGED <<kind, parent>> PROVE ParentsAlive'
  BY <1>1 DEF Live, ParentsAlive
<1>2. \A x \in Live : parent[x] # Freed
  BY <1>0, TreeAssumption DEF ParentsAlive
<1>3. ASSUME NEW r \in AddRequest, AddModule(r[1], r[2]) PROVE ParentsAlive'
  <2>1. r[1] \in Type /\ r[2] \in Id /\ NoType \notin Type
    BY TreeAssumption
  <2>2. Live' = Live \cup {r[2]} /\ UNCHANGED parent /\ parent[r[2]] = NoId
    BY <1>3, <2>1 DEF AddModule, Live, TreeInv, TreeTypeOK, ChildListsAgree, NewIdsAreClean
  <2> QED BY <2>2 DEF ParentsAlive
<1>4. ASSUME NEW m \in Id, RemoveModule(m) PROVE ParentsAlive'
  <2>1. m \in Live /\ Destroy(Subtree(m), Detached(m))
    BY <1>2, <1>4 DEF RemoveModule
  <2>2. Live' = Live \ Subtree(m)
    BY <2>1, RemoveKeepsParents
  <2>3. \A x \in Live' : parent'[x] = parent[x] /\ parent[x] \notin Subtree(m)
    BY <2>1, RemoveKeepsParents
  <2> QED BY <2>2, <2>3 DEF ParentsAlive
<1>5. ASSUME NEW m \in Id, NEW p \in Id, Reparent(m, p) PROVE ParentsAlive'
  <2>0. CASE Crash
    BY <1>1, <2>0 DEF Crash, tree
  <2> SUFFICES ASSUME ~Crash PROVE ParentsAlive'
    BY <2>0
  <2>1. m \in Live /\ p \in Live
    BY <1>5 DEF Reparent
  <2>2. parent' = [parent EXCEPT ![m] = p] /\ UNCHANGED kind
    BY <1>5 DEF Reparent
  <2>3. Live' = Live
    BY <2>2 DEF Live
  <2> QED BY <1>0, <2>1, <2>2, <2>3 DEF ParentsAlive
<1>6. ASSUME NEW m \in Id, Promote(m) PROVE ParentsAlive'
  <2>1. m \in Live /\ parent' = [parent EXCEPT ![m] = NoId] /\ UNCHANGED kind
    BY <1>2, <1>6 DEF Promote
  <2>2. Live' = Live
    BY <2>1 DEF Live
  <2> QED BY <1>0, <2>1, <2>2 DEF ParentsAlive
<1>7. ASSUME NEW p \in Id, RearrangeChildren(p)
      PROVE  ParentsAlive'
  BY <1>1, <1>7 DEF RearrangeChildren
<1>8. ASSUME NEW m \in Id, NEW v \in InputValue, NEW in \in Name, SetInput(m, in, v)
      PROVE  ParentsAlive'
  BY <1>1, <1>8 DEF SetInput
<1> QED
  BY <1>3, <1>4, <1>5, <1>6, <1>7, <1>8 DEF NestingNext, CommonNext

(* From an up-to-date page of the web UI no sequence of drops, deletions   *)
(* and child sorting makes a module its own ancestor or leaves parent_     *)
(* pointing at a destroyed module: ModuleManager checks neither, the root- *)
(* only drop targets are what keeps the scheduler's recursion finite.      *)
THEOREM UiKeepsAForest == UiSpec => [](ParentsAlive /\ Acyclic)
<1>1. ASSUME Init PROVE UiInv
  <2>1. Live = {}
    BY <1>1 DEF Init, Live
  <2> QED BY <1>1, <2>1, TreeInvInit DEF UiInv, ParentsAlive, Acyclic
<1>2. UiInv => ParentsAlive /\ Acyclic
  BY DEF UiInv
<1> QED BY <1>1, <1>2, UiStep, PTL DEF UiSpec

(* A module the web UI nests is destroyed no later than its parent: no     *)
(* request made from the page leaves a parent_ pointing at freed memory,   *)
(* which remove() and reparent() would follow.                             *)
COROLLARY ParentsOutliveChildren == UiSpec => []ParentsAlive
BY UiKeepsAForest, PTL

-----------------------------------------------------------------------------
(* A destroyed module's input is not flagged: an id that is used again     *)
(* starts without one.                                                     *)
NewIdsHaveNoFlag == \A m \in Id \ Live : flag[m] = NoInput

FlagInv == TreeInv /\ NewIdsHaveNoFlag /\ FlagFitsParent

(* parent_input_idx_ as a function of the two types. *)
InputFor(child, above) ==
  LET inputs == InputsOf[child]
  IN IF above \in inputs THEN above
     ELSE IF CategoryOf[above] \in inputs THEN CategoryOf[above]
     ELSE IF Source \in inputs THEN Source
     ELSE NoInput

(* FlagFitsParent of one module, given the live set and its own pointers. *)
FlagFits(x, live, types, par, flg) ==
  /\ (flg[x] = NoInput) <=> (par[x] = NoId)
  /\ par[x] \in live => flg[x] = InputFor(types[x], types[par[x]])

LEMMA FlagFitsIff ==
  FlagFitsParent <=> \A x \in Live : FlagFits(x, Live, kind, parent, flag)
BY DEF FlagFitsParent, FlagFits, InputFor, ParentInput

LEMMA FlagFitsNext ==
  FlagFitsParent' <=> \A x \in Live' : FlagFits(x, Live', kind', parent', flag')
<1>1. (FlagFitsParent <=> \A x \in Live : FlagFits(x, Live, kind, parent, flag))'
  BY FlagFitsIff, PTL
<1> QED BY <1>1 DEF FlagFits, InputFor

(* A step that only shrinks the live set, and leaves each survivor's type, *)
(* flag and parent alone unless the parent dies, keeps the flags in place. *)
LEMMA SurvivorsKeepFlag ==
  ASSUME FlagInv, Live' \subseteq Live,
         \A x \in Id \ Live' : flag'[x] = NoInput,
         \A x \in Live' : /\ kind'[x] = kind[x]
                          /\ flag'[x] = flag[x]
                          /\ \/ parent'[x] = parent[x]
                             \/ parent'[x] = Freed /\ parent[x] \in Live
  PROVE  NewIdsHaveNoFlag' /\ FlagFitsParent'
<1>1. NewIdsHaveNoFlag'
  BY DEF NewIdsHaveNoFlag
<1>2. NoId \notin Id /\ Freed \notin Id /\ Freed # NoId /\ Live \subseteq Id
  BY TreeAssumption DEF Live
<1>3. ASSUME NEW x \in Live'
      PROVE  FlagFits(x, Live', kind', parent', flag')
  <2>1. x \in Live /\ kind'[x] = kind[x] /\ flag'[x] = flag[x]
    BY <1>3
  <2>2. FlagFits(x, Live, kind, parent, flag)
    BY <2>1, FlagFitsIff DEF FlagInv
  <2>3. (flag'[x] = NoInput) <=> (parent'[x] = NoId)
    BY <1>2, <1>3, <2>1, <2>2 DEF FlagFits
  <2>4. ASSUME parent'[x] \in Live'
        PROVE  flag'[x] = InputFor(kind'[x], kind'[parent'[x]])
    <3>1. parent'[x] = parent[x] /\ parent[x] \in Live
      BY <1>2, <1>3, <2>4
    <3>2. kind'[parent[x]] = kind[parent[x]]
      BY <2>4, <3>1
    <3> QED BY <2>1, <2>2, <3>1, <3>2 DEF FlagFits
  <2> QED BY <2>3, <2>4 DEF FlagFits
<1> QED BY <1>1, <1>3, FlagFitsNext

(* Survivors keep type, parent and flag; the ids set free have no flag.    *)
LEMMA DestroyKeepsFlags ==
  ASSUME FlagInv, NEW dead \in SUBSET Id, NEW kids, Destroy(dead, kids)
  PROVE  NewIdsHaveNoFlag' /\ FlagFitsParent'
<1>1. Live' = Live \ dead
  BY DEF Destroy, Live
<1>2. NoId \notin Id /\ Freed \notin Id /\ Live \subseteq Id
  BY TreeAssumption DEF Live
<1>3. \A x \in Id \ Live' : flag'[x] = NoInput
  BY <1>1 DEF Destroy, FlagInv, NewIdsHaveNoFlag
<1>4. ASSUME NEW x \in Live'
      PROVE  /\ kind'[x] = kind[x]
             /\ flag'[x] = flag[x]
             /\ \/ parent'[x] = parent[x]
                \/ parent'[x] = Freed /\ parent[x] \in Live
  <2>1. x \in Id /\ x \notin dead /\ x \in Live
    BY <1>1, <1>2
  <2>2. parent[x] \in Live \cup {NoId, Freed}
    BY <2>1 DEF FlagInv, TreeInv, ChildListsAgree, ParentsKnown
  <2> QED BY <1>2, <2>1, <2>2 DEF Destroy
<1> QED BY <1>1, <1>3, <1>4, SurvivorsKeepFlag

(* Each request keeps the flag of a module in step with its parent. *)
LEMMA FlagStep == FlagInv /\ [TidyNext]_vars => FlagInv'
<1> SUFFICES ASSUME FlagInv, [TidyNext]_vars
             PROVE  NewIdsHaveNoFlag' /\ FlagFitsParent'
  BY TidyIsNext, TypeStep, ChildListsStep DEF FlagInv, TreeInv
<1>0. /\ Live \subseteq Id /\ NoId \notin Id /\ Freed \notin Id /\ Freed # NoId
      /\ flag \in [Id -> Name \cup {NoInput}]
      /\ parent \in [Id -> Id \cup {NoId, Freed}]
      /\ kind \in [Id -> Type \cup {NoType}]
  BY TreeAssumption DEF Live, FlagInv, TreeInv, TreeTypeOK
<1>1. ASSUME UNCHANGED <<kind, parent, flag>>
      PROVE  NewIdsHaveNoFlag' /\ FlagFitsParent'
  <2>1. Live' = Live
    BY <1>1 DEF Live
  <2>2. \A x \in Id \ Live' : flag'[x] = NoInput
    BY <1>1, <2>1 DEF FlagInv, NewIdsHaveNoFlag
  <2> QED BY <1>1, <2>1, <2>2, SurvivorsKeepFlag
<1>2. ASSUME NEW r \in AddRequest, AddModule(r[1], r[2])
      PROVE  NewIdsHaveNoFlag' /\ FlagFitsParent'
  <2>1. r[1] \in Type /\ r[2] \in Id /\ NoType \notin Type
    BY TreeAssumption
  <2>2. /\ Live' = Live \cup {r[2]}
        /\ UNCHANGED <<parent, flag>>
        /\ r[2] \notin Live
        /\ \A x \in Live : kind'[x] = kind[x]
    BY <1>0, <1>2, <2>1 DEF AddModule, Live
  <2>3. parent[r[2]] = NoId /\ flag[r[2]] = NoInput
    BY <2>1, <2>2 DEF FlagInv, NewIdsHaveNoFlag, TreeInv, ChildListsAgree, NewIdsAreClean
  <2>4. NewIdsHaveNoFlag'
    BY <2>2 DEF FlagInv, NewIdsHaveNoFlag
  <2>5. ASSUME NEW x \in Live PROVE FlagFits(x, Live', kind', parent', flag')
    <3>1. FlagFits(x, Live, kind, parent, flag)
      BY FlagFitsIff DEF FlagInv
    <3>2. parent[x] \in Live \cup {NoId, Freed}
      BY DEF FlagInv, TreeInv, ChildListsAgree, ParentsKnown
    <3>3. parent[x] # r[2]
      BY <1>0, <2>1, <2>2, <3>2
    <3> QED BY <2>2, <3>1, <3>3 DEF FlagFits
  <2>6. FlagFits(r[2], Live', kind', parent', flag')
    BY <1>0, <2>1, <2>2, <2>3 DEF FlagFits
  <2> QED BY <2>2, <2>4, <2>5, <2>6, FlagFitsNext
<1>3. ASSUME NEW m \in Id, RemoveModule(m)
      PROVE  NewIdsHaveNoFlag' /\ FlagFitsParent'
  <2>1. CASE Crash
    BY <1>1, <2>1 DEF Crash, tree
  <2>2. CASE Destroy(Subtree(m), Detached(m))
    BY <2>2, DestroyKeepsFlags DEF Subtree
  <2> QED BY <1>3, <2>1, <2>2 DEF RemoveModule
<1>4. ASSUME NEW m \in Id, NEW p \in Id, Reparent(m, p)
      PROVE  NewIdsHaveNoFlag' /\ FlagFitsParent'
  <2>1. CASE Crash
    BY <1>1, <2>1 DEF Crash, tree
  <2>2. CASE ~ Crash
    <3> DEFINE in == ParentInput(m, p)
    <3>1. /\ m \in Live /\ p \in Live /\ in # NoInput
          /\ flag' = [flag EXCEPT ![m] = in]
          /\ parent' = [parent EXCEPT ![m] = p]
          /\ UNCHANGED kind
      BY <1>4, <2>2 DEF Reparent
    <3>2. Live' = Live
      BY <3>1 DEF Live
    <3>3. in = InputFor(kind[m], kind[p])
      BY DEF ParentInput, InputFor
    <3> HIDE DEF in
    <3>4. /\ flag'[m] = in /\ parent'[m] = p
          /\ \A x \in Live \ {m} : flag'[x] = flag[x] /\ parent'[x] = parent[x]
      BY <1>0, <3>1
    <3>5. \A x \in Live : FlagFits(x, Live', kind', parent', flag')
      <4>1. ASSUME NEW x \in Live \ {m}
            PROVE  FlagFits(x, Live', kind', parent', flag')
        <5>1. FlagFits(x, Live, kind, parent, flag)
          BY FlagFitsIff DEF FlagInv
        <5> QED BY <3>1, <3>2, <3>4, <5>1 DEF FlagFits
      <4>2. FlagFits(m, Live', kind', parent', flag')
        BY <1>0, <3>1, <3>2, <3>3, <3>4 DEF FlagFits
      <4> QED BY <4>1, <4>2
    <3>6. NewIdsHaveNoFlag'
      BY <1>0, <3>1, <3>2 DEF FlagInv, NewIdsHaveNoFlag
    <3> QED BY <3>2, <3>5, <3>6, FlagFitsNext
  <2> QED BY <2>1, <2>2
<1>5. ASSUME NEW m \in Id, Promote(m)
      PROVE  NewIdsHaveNoFlag' /\ FlagFitsParent'
  <2>1. CASE Crash
    BY <1>1, <2>1 DEF Crash, tree
  <2>2. CASE ~ Crash
    <3>1. /\ m \in Live
          /\ flag' = [flag EXCEPT ![m] = NoInput]
          /\ parent' = [parent EXCEPT ![m] = NoId]
          /\ UNCHANGED kind
      BY <1>5, <2>2 DEF Promote
    <3>2. Live' = Live
      BY <3>1 DEF Live
    <3>3. /\ flag'[m] = NoInput /\ parent'[m] = NoId
          /\ \A x \in Live \ {m} : flag'[x] = flag[x] /\ parent'[x] = parent[x]
      BY <1>0, <3>1
    <3>4. \A x \in Live : FlagFits(x, Live', kind', parent', flag')
      <4>1. ASSUME NEW x \in Live \ {m}
            PROVE  FlagFits(x, Live', kind', parent', flag')
        <5>1. FlagFits(x, Live, kind, parent, flag)
          BY FlagFitsIff DEF FlagInv
        <5> QED BY <3>1, <3>2, <3>3, <5>1 DEF FlagFits
      <4>2. FlagFits(m, Live', kind', parent', flag')
        BY <1>0, <3>1, <3>2, <3>3 DEF FlagFits
      <4> QED BY <4>1, <4>2
    <3>5. NewIdsHaveNoFlag'
      BY <1>0, <3>1, <3>2 DEF FlagInv, NewIdsHaveNoFlag
    <3> QED BY <3>2, <3>4, <3>5, FlagFitsNext
  <2> QED BY <2>1, <2>2
<1>6. ASSUME NEW p \in Id, RearrangeChildren(p)
      PROVE  NewIdsHaveNoFlag' /\ FlagFitsParent'
  BY <1>1, <1>6 DEF RearrangeChildren
<1>7. ASSUME NEW ids \in OrderRequest, ReorderRoots(ids)
      PROVE  NewIdsHaveNoFlag' /\ FlagFitsParent'
  <2>1. PICK dead \in SUBSET Roots : Destroy(dead, children)
    BY <1>7 DEF ReorderRoots
  <2>2. dead \in SUBSET Id
    BY <2>1 DEF Roots, Live
  <2> QED BY <2>1, <2>2, DestroyKeepsFlags
<1>8. ASSUME NEW m \in Id, NEW v \in InputValue, NEW in \in Name, SetInput(m, in, v)
      PROVE  NewIdsHaveNoFlag' /\ FlagFitsParent'
  BY <1>1, <1>8 DEF SetInput
<1>9. CASE UNCHANGED vars
  BY <1>1, <1>9 DEF vars
<1>10. TidyNext \/ UNCHANGED vars
  OBVIOUS
<1> QED
  BY <1>2, <1>3, <1>4, <1>5, <1>6, <1>7, <1>8, <1>9, <1>10 DEF TidyNext, CommonNext

(* reparent() sets the flag, the input and parent_ together, and promoting *)
(* clears the flag: whatever requests arrive, also ones that overwrite the *)
(* flagged input, a nested module is nested through the input its parent's *)
(* type selects, and a root has no flagged input.                          *)
THEOREM FlagCorrect ==
  ASSUME ShortLists PROVE Spec => []FlagFitsParent
<1>1. ASSUME Init PROVE FlagInv
  <2>1. Live = {}
    BY <1>1 DEF Init, Live
  <2> QED BY <1>1, <2>1, TreeInvInit DEF Init, FlagInv, NewIdsHaveNoFlag, FlagFitsParent
<1>2. FlagInv => FlagFitsParent
  BY DEF FlagInv
<1>3. FlagInv /\ [Next]_vars => FlagInv'
  BY ShortIsTidy, FlagStep DEF FlagInv
<1> QED BY <1>1, <1>2, <1>3, PTL DEF Spec

-----------------------------------------------------------------------------
(* A step of the web UI whose live set shrinks destroys one module and     *)
(* exactly what is nested in it.                                           *)
GroupGoes == Live \subseteq Live' \/ \E m \in Live : Live \ Live' = NestedIn(m)

(* The modules found through children_ are those whose parent_ chain leads *)
(* to m, and all of them are live.                                         *)
LEMMA SubtreeIsNested ==
  ASSUME TreeInv, NEW m \in Live
  PROVE  Subtree(m) \subseteq Live /\ Subtree(m) = NestedIn(m)
<1>1. Agree(Live, parent, children)
  BY AgreeIff DEF TreeInv
<1>2. \A y \in Id : Kids(y) = Range(children[y])
  BY DEF Kids, Range
<1>3. m \in Id /\ Live \subseteq Id
  BY DEF Live
<1>4. \A y \in Id : Kids(y) \subseteq Id
  BY DEF Kids, TreeInv, TreeTypeOK
<1>5. ASSUME NEW x \in Subtree(m) PROVE x \in NestedIn(m)
  <2>1. x \in Id
    BY DEF Subtree
  <2>2. ASSUME NEW S \in SUBSET Id, m \in S,
               \A y \in Live : parent[y] \in S => y \in S
        PROVE  x \in S \cap Live
    <3> DEFINE T == S \cap Live
    <3>1. m \in T /\ T \in SUBSET Id
      BY <1>3, <2>2
    <3>2. \A y \in T : Kids(y) \subseteq T
      BY <1>1, <1>2, <1>3, <2>2 DEF Agree
    <3> QED BY <3>1, <3>2 DEF Subtree
  <2>3. x \in Id \cap Live
    BY <1>3, <2>2
  <2> QED BY <2>2, <2>3 DEF NestedIn
<1>6. Subtree(m) \subseteq Live
  BY <1>5 DEF NestedIn
<1>7. ASSUME NEW x \in NestedIn(m) PROVE x \in Subtree(m)
  <2>1. m \in Subtree(m) /\ \A y \in Subtree(m) : Kids(y) \subseteq Subtree(m)
    BY <1>3, <1>4, SubtreeClosed
  <2>2. \A y \in Live : parent[y] \in Subtree(m) => y \in Subtree(m)
    BY <1>1, <1>2, <1>3, <1>6, <2>1 DEF Agree
  <2>3. Subtree(m) \in SUBSET Id
    BY DEF Subtree
  <2> QED BY <2>1, <2>2, <2>3 DEF NestedIn
<1> QED BY <1>5, <1>6, <1>7

(* A removal takes what dfs_ collects, which is what hangs on the module.  *)
LEMMA GroupStep == TreeInv /\ [UiNext]_vars => [GroupGoes]_vars
<1> SUFFICES ASSUME TreeInv, UiTidyNext PROVE GroupGoes
  BY UiIsTidy
<1>1. ASSUME UNCHANGED kind PROVE GroupGoes
  BY <1>1 DEF GroupGoes, Live
<1>2. ASSUME NEW r \in AddRequest, AddModule(r[1], r[2]) PROVE GroupGoes
  <2>1. r[1] \in Type /\ r[2] \in Id /\ NoType \notin Type
    BY TreeAssumption
  <2> QED BY <1>2, <2>1 DEF AddModule, GroupGoes, Live, TreeInv, TreeTypeOK
<1>3. ASSUME NEW m \in Id, RemoveModule(m) PROVE GroupGoes
  <2>1. m \in Live
    BY <1>3 DEF RemoveModule
  <2>2. CASE Crash
    BY <1>1, <2>2 DEF Crash, tree
  <2>3. CASE Destroy(Subtree(m), Detached(m))
    <3>1. Live' = Live \ Subtree(m)
      BY <2>3 DEF Destroy, Live
    <3>2. Subtree(m) \subseteq Live /\ Subtree(m) = NestedIn(m)
      BY <2>1, SubtreeIsNested
    <3>3. Live \ Live' = NestedIn(m)
      BY <3>1, <3>2
    <3> QED BY <2>1, <3>3 DEF GroupGoes
  <2> QED BY <1>3, <2>2, <2>3 DEF RemoveModule
<1>4. ASSUME NEW m \in Id, NEW p \in Id, Reparent(m, p) PROVE GroupGoes
  BY <1>1, <1>4 DEF Reparent, Crash, tree
<1>5. ASSUME NEW m \in Id, Promote(m) PROVE GroupGoes
  BY <1>1, <1>5 DEF Promote, Crash, tree
<1>6. ASSUME NEW p \in Id, RearrangeChildren(p) PROVE GroupGoes
  BY <1>1, <1>6 DEF RearrangeChildren
<1>7. ASSUME NEW m \in Id, NEW v \in InputValue, NEW in \in Name, SetInput(m, in, v)
      PROVE  GroupGoes
  BY <1>1, <1>7 DEF SetInput
<1> QED BY <1>2, <1>3, <1>4, <1>5, <1>6, <1>7 DEF UiTidyNext, CommonNext

(* The web UI's requests destroy modules by whole groups: a deletion takes *)
(* the module and everything nested in it, at any depth, and no other      *)
(* request destroys anything; no nested module outlives its parent.        *)
THEOREM GroupsGoTogether == UiSpec => DestroysExactlyAGroup
<1>1. Init => TreeInv
  BY TreeInvInit
<1>2. TreeInv /\ [UiNext]_vars => TreeInv'
  BY UiTreeStep
<1>3. DestroysExactlyAGroup <=> [][GroupGoes]_vars
  BY PTL DEF DestroysExactlyAGroup, GroupGoes
<1> QED BY <1>1, <1>2, <1>3, GroupStep, PTL DEF UiSpec
=============================================================================
