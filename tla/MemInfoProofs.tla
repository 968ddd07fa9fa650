---------------------------- MODULE MemInfoProofs ----------------------------
(***************************************************************************)
(* The queries of libmeminfo give back what they took, and the total is    *)
(* what was answered, for every number of processes and whatever the       *)
(* answers are.                                                            *)
(***************************************************************************)
EXTENDS MemInfo, SequenceTheorems, WellFoundedInduction, TLAPS

-----------------------------------------------------------------------------
(* Sums.                                                                     *)

\* A set of naturals has a least element.
LEMMA LeastElement ==
  ASSUME NEW T \in SUBSET Nat, T # {}
  PROVE  \E x \in T : \A y \in T : x <= y
<1>1. PICK x \in T : \A y \in T : ~(<<y, x>> \in OpToRel(<, Nat))
  BY NatLessThanWellFounded, WFMin, Zenon
<1>2. \A y \in T : ~(y < x)
  BY <1>1 DEF OpToRel
<1>. QED BY <1>2

\* Induction: a set of naturals with 0 and all successors is Nat.
LEMMA AllNaturals ==
  ASSUME NEW T \in SUBSET Nat, 0 \in T, \A k \in T : k + 1 \in T
  PROVE  T = Nat
<1>. SUFFICES ASSUME T # Nat PROVE FALSE
  OBVIOUS
<1>1. Nat \ T \in SUBSET Nat /\ Nat \ T # {}
  OBVIOUS
<1>2. PICK x \in Nat \ T : \A y \in Nat \ T : x <= y
  BY <1>1, LeastElement
<1>3. x # 0 /\ x - 1 \in Nat /\ x - 1 \in T
  BY <1>2
<1>4. (x - 1) + 1 = x
  BY <1>2
<1>. QED BY <1>2, <1>3, <1>4

\* The sums of f up to n.
PartialSums(f, n, g) ==
  /\ g = [k \in 0..n |-> g[k]] /\ g[0] = 0
  /\ \A k \in 1..n : g[k] = g[k - 1] + f[k]

\* They exist ...
LEMMA SumsExist ==
  ASSUME NEW f, NEW n \in Nat
  PROVE  \E g : PartialSums(f, n, g)
<1>. DEFINE T == {m \in Nat : \E g : PartialSums(f, m, g)}
<1>1. 0 \in T
  <2>. DEFINE g == [k \in 0..0 |-> 0]
  <2>1. PartialSums(f, 0, g)
    BY DEF PartialSums
  <2>. QED BY <2>1
<1>2. ASSUME NEW m \in T PROVE m + 1 \in T
  <2>1. PICK g : PartialSums(f, m, g)
    OBVIOUS
  <2>. DEFINE h == [k \in 0..(m + 1) |-> IF k = m + 1 THEN g[m] + f[m + 1] ELSE g[k]]
  <2>2. h = [k \in 0..(m + 1) |-> h[k]] /\ h[0] = 0
    BY <2>1 DEF PartialSums
  <2>3. ASSUME NEW k \in 1..(m + 1) PROVE h[k] = h[k - 1] + f[k]
    <3>1. CASE k = m + 1
      BY <3>1
    <3>2. CASE k # m + 1
      <4>1. k \in 1..m /\ k - 1 \in 0..m /\ k \in 0..(m + 1) /\ k - 1 # m + 1 /\ k - 1 \in 0..(m + 1)
        BY <3>2
      <4>2. h[k] = g[k] /\ h[k - 1] = g[k - 1]
        BY <3>2, <4>1
      <4>. QED BY <2>1, <4>1, <4>2 DEF PartialSums
    <3>. QED BY <3>1, <3>2
  <2>4. PartialSums(f, m + 1, h)
    BY <2>2, <2>3 DEF PartialSums
  <2>. QED BY <2>4
<1>. HIDE DEF T
<1>3. T \in SUBSET Nat
  BY DEF T
<1>4. T = Nat
  BY <1>1, <1>2, <1>3, AllNaturals
<1>. QED BY <1>4 DEF T

\* ... and are unique.
LEMMA SumsUnique ==
  ASSUME NEW f, NEW m \in Nat, NEW n \in Nat, NEW g, NEW h,
         PartialSums(f, m, g), PartialSums(f, n, h), NEW k \in 0..m, k <= n
  PROVE  g[k] = h[k]
<1>. DEFINE T == {i \in Nat : i <= m /\ i <= n => g[i] = h[i]}
<1>1. 0 \in T
  BY DEF PartialSums
<1>2. ASSUME NEW i \in T PROVE i + 1 \in T
  <2>. SUFFICES ASSUME i + 1 <= m, i + 1 <= n PROVE g[i + 1] = h[i + 1]
    OBVIOUS
  <2>1. g[i] = h[i] /\ i + 1 \in 1..m /\ i + 1 \in 1..n /\ (i + 1) - 1 = i
    OBVIOUS
  <2>2. g[i + 1] = g[(i + 1) - 1] + f[i + 1] /\ h[i + 1] = h[(i + 1) - 1] + f[i + 1]
    BY <2>1, Zenon DEF PartialSums
  <2>. QED BY <2>1, <2>2
<1>. HIDE DEF T
<1>3. T \in SUBSET Nat
  BY DEF T
<1>4. T = Nat
  BY <1>1, <1>2, <1>3, AllNaturals
<1>. QED BY <1>4 DEF T

\* Sum is what its recursion says.
LEMMA SumStep ==
  ASSUME NEW f
  PROVE  Sum(f, 0) = 0 /\ \A n \in Nat : Sum(f, n + 1) = Sum(f, n) + f[n + 1]
<1>. DEFINE s == [n \in Nat |-> (CHOOSE g : PartialSums(f, n, g))[n]]
           Rec(h) == h = [k \in Nat |-> IF k = 0 THEN 0 ELSE h[k - 1] + f[k]]
<1>1. \A n \in Nat : PartialSums(f, n, CHOOSE g : PartialSums(f, n, g))
  BY SumsExist
<1>2. s[0] = 0
  BY <1>1 DEF PartialSums
<1>3. ASSUME NEW k \in Nat, k # 0 PROVE s[k] = s[k - 1] + f[k]
  <2>1. k - 1 \in Nat /\ k \in 1..k /\ k - 1 \in 0..k /\ k - 1 \in 0..(k - 1)
    BY <1>3
  <2>2. PICK g : PartialSums(f, k, g) /\ s[k] = g[k]
    BY <1>1
  <2>3. PICK h : PartialSums(f, k - 1, h) /\ s[k - 1] = h[k - 1]
    BY <1>1, <2>1
  <2>4. h[k - 1] = g[k - 1]
    BY <2>1, <2>2, <2>3, SumsUnique
  <2>5. g[k] = g[k - 1] + f[k]
    BY <2>1, <2>2 DEF PartialSums
  <2>. QED BY <2>2, <2>3, <2>4, <2>5
<1>4. Rec(s)
  <2>1. s = [k \in Nat |-> s[k]]
    OBVIOUS
  <2>. HIDE DEF s
  <2>2. \A k \in Nat : s[k] = IF k = 0 THEN 0 ELSE s[k - 1] + f[k]
    BY <1>2, <1>3
  <2>. QED BY <2>1, <2>2
<1>. DEFINE r == CHOOSE h : Rec(h)
<1>5. Rec(r)
  BY <1>4
<1>6. \A n \in Nat : Sum(f, n) = r[n]
  BY DEF Sum
<1>7. r[0] = 0 /\ \A n \in Nat : r[n + 1] = r[n] + f[n + 1]
  <2>. HIDE DEF r
  <2>1. \A k \in Nat : r[k] = IF k = 0 THEN 0 ELSE r[k - 1] + f[k]
    BY <1>5
  <2>2. \A n \in Nat : n + 1 \in Nat /\ n + 1 # 0 /\ (n + 1) - 1 = n
    OBVIOUS
  <2>. QED BY <2>1, <2>2
<1>. QED BY <1>6, <1>7

\* A sum of integers is one.
LEMMA SumInt ==
  ASSUME NEW f, NEW n \in Nat, \A k \in 1..n : f[k] \in Int
  PROVE  Sum(f, n) \in Int
<1>. DEFINE T == {m \in Nat : m <= n => Sum(f, m) \in Int}
<1>1. 0 \in T
  BY SumStep
<1>2. ASSUME NEW m \in T PROVE m + 1 \in T
  <2>. SUFFICES ASSUME m + 1 <= n PROVE Sum(f, m + 1) \in Int
    OBVIOUS
  <2>1. Sum(f, m) \in Int /\ f[m + 1] \in Int /\ m \in Nat
    OBVIOUS
  <2>2. Sum(f, m + 1) = Sum(f, m) + f[m + 1]
    BY <2>1, SumStep
  <2>. QED BY <2>1, <2>2
<1>. HIDE DEF T
<1>3. T \in SUBSET Nat
  BY DEF T
<1>4. T = Nat
  BY <1>1, <1>2, <1>3, AllNaturals
<1>. QED BY <1>4 DEF T

\* It depends on the terms only ...
LEMMA SumSame ==
  ASSUME NEW f, NEW g, NEW n \in Nat, \A k \in 1..n : f[k] = g[k]
  PROVE  Sum(f, n) = Sum(g, n)
<1>. DEFINE T == {m \in Nat : m <= n => Sum(f, m) = Sum(g, m)}
<1>1. 0 \in T
  BY SumStep
<1>2. ASSUME NEW m \in T PROVE m + 1 \in T
  <2>. SUFFICES ASSUME m + 1 <= n PROVE Sum(f, m + 1) = Sum(g, m + 1)
    OBVIOUS
  <2>1. Sum(f, m) = Sum(g, m) /\ f[m + 1] = g[m + 1] /\ m \in Nat
    OBVIOUS
  <2>2. Sum(f, m + 1) = Sum(f, m) + f[m + 1] /\ Sum(g, m + 1) = Sum(g, m) + g[m + 1]
    BY <2>1, SumStep
  <2>. QED BY <2>1, <2>2
<1>. HIDE DEF T
<1>3. T \in SUBSET Nat
  BY DEF T
<1>4. T = Nat
  BY <1>1, <1>2, <1>3, AllNaturals
<1>. QED BY <1>4 DEF T

\* ... may be taken apart ...
LEMMA SumPlus ==
  ASSUME NEW f, NEW g, NEW h, NEW n \in Nat,
         \A k \in 1..n : f[k] \in Int /\ g[k] \in Int /\ h[k] = f[k] + g[k]
  PROVE  Sum(h, n) = Sum(f, n) + Sum(g, n)
<1>. DEFINE T == {m \in Nat : m <= n => Sum(h, m) = Sum(f, m) + Sum(g, m)}
<1>1. 0 \in T
  BY SumStep
<1>2. ASSUME NEW m \in T PROVE m + 1 \in T
  <2>. SUFFICES ASSUME m + 1 <= n PROVE Sum(h, m + 1) = Sum(f, m + 1) + Sum(g, m + 1)
    OBVIOUS
  <2>1. /\ Sum(h, m) = Sum(f, m) + Sum(g, m) /\ m \in Nat
        /\ h[m + 1] = f[m + 1] + g[m + 1] /\ f[m + 1] \in Int /\ g[m + 1] \in Int
    OBVIOUS
  <2>2. /\ Sum(f, m + 1) = Sum(f, m) + f[m + 1] /\ Sum(g, m + 1) = Sum(g, m) + g[m + 1]
        /\ Sum(h, m + 1) = Sum(h, m) + h[m + 1]
    BY <2>1, SumStep
  <2>3. Sum(f, m) \in Int /\ Sum(g, m) \in Int
    <3>1. \A k \in 1..m : f[k] \in Int /\ g[k] \in Int
      OBVIOUS
    <3>. QED BY <2>1, <3>1, SumInt
  <2>. QED BY <2>1, <2>2, <2>3
<1>. HIDE DEF T
<1>3. T \in SUBSET Nat
  BY DEF T
<1>4. T = Nat
  BY <1>1, <1>2, <1>3, AllNaturals
<1>. QED BY <1>4 DEF T

\* ... and is the only term that is not zero.
LEMMA SumSingle ==
  ASSUME NEW f, NEW n \in Nat, NEW i \in 0..n, i # 0 => f[i] \in Int,
         \A k \in 1..n : k # i => f[k] = 0
  PROVE  Sum(f, n) = IF i = 0 THEN 0 ELSE f[i]
<1>. DEFINE T == {m \in Nat : m <= n => Sum(f, m) = IF i \in 1..m THEN f[i] ELSE 0}
<1>1. 0 \in T
  BY SumStep
<1>2. ASSUME NEW m \in T PROVE m + 1 \in T
  <2>. SUFFICES ASSUME m + 1 <= n PROVE Sum(f, m + 1) = IF i \in 1..(m + 1) THEN f[i] ELSE 0
    OBVIOUS
  <2>1. Sum(f, m) = (IF i \in 1..m THEN f[i] ELSE 0) /\ m \in Nat
    OBVIOUS
  <2>2. Sum(f, m + 1) = Sum(f, m) + f[m + 1]
    BY <2>1, SumStep
  <2>3. CASE i = m + 1
    BY <2>1, <2>2, <2>3
  <2>4. CASE i # m + 1
    <3>1. f[m + 1] = 0 /\ (i \in 1..(m + 1) <=> i \in 1..m)
      BY <2>4
    <3>. QED BY <2>1, <2>2, <3>1
  <2>. QED BY <2>3, <2>4
<1>. HIDE DEF T
<1>3. T \in SUBSET Nat
  BY DEF T
<1>4. T = Nat
  BY <1>1, <1>2, <1>3, AllNaturals
<1>5. Sum(f, n) = IF i \in 1..n THEN f[i] ELSE 0
  BY <1>4 DEF T
<1>. QED BY <1>5

-----------------------------------------------------------------------------
(* The readers.                                                              *)

\* A line has a number, and a type no other line has; so has a record.
LEMMA Read ==
  /\ \A lines \in SmapsFiles :
       /\ Len(lines) \in Nat /\ \A i \in 1..Len(lines) : lines[i].kB \in Nat
       /\ \A i, j \in 1..Len(lines) : lines[i].type = lines[j].type => i = j
  /\ \A records \in DevRecords :
       Len(records) \in Nat /\ \A i \in 1..Len(records) : records[i].size \in Int
<1>. DEFINE L == [type : STRING, kB : Nat]  R == [unmapped : BOOLEAN, size : Int]
<1>1. SmapsFiles \subseteq Seq(L) /\ DevRecords \subseteq Seq(R)
  BY AnswersAssumption
<1>2. (\A l \in L : l.kB \in Nat) /\ (\A r \in R : r.size \in Int)
  OBVIOUS
<1>. HIDE DEF L, R
<1>3. ASSUME NEW lines \in SmapsFiles
      PROVE  Len(lines) \in Nat /\ \A i \in 1..Len(lines) : lines[i].kB \in Nat
  <2>1. lines \in Seq(L)
    BY <1>1
  <2>2. Len(lines) \in Nat /\ \A i \in 1..Len(lines) : lines[i] \in L
    BY <2>1
  <2>. QED BY <1>2, <2>2
<1>4. ASSUME NEW records \in DevRecords
      PROVE  Len(records) \in Nat /\ \A i \in 1..Len(records) : records[i].size \in Int
  <2>1. records \in Seq(R)
    BY <1>1
  <2>2. Len(records) \in Nat /\ \A i \in 1..Len(records) : records[i] \in R
    BY <2>1
  <2>. QED BY <1>2, <2>2
<1>. QED BY <1>3, <1>4, AnswersAssumption

\* Where a type has one line the first line of the type is their sum.
LEMMA FirstIsSum ==
  ASSUME NEW lines \in SmapsFiles, NEW type
  PROVE  FirstOf(lines, type) = SumOf(lines, {type}) /\ FirstOf(lines, type) \in Nat
<1>. DEFINE at == {i \in 1..Len(lines) : lines[i].type = type}
           f == [i \in 1..Len(lines) |-> IF lines[i].type \in {type} THEN lines[i].kB ELSE 0]
<1>1. Len(lines) \in Nat /\ \A i \in 1..Len(lines) : lines[i].kB \in Nat
  BY Read
<1>2. \A i, j \in 1..Len(lines) : lines[i].type = lines[j].type => i = j
  BY Read
<1>3. CASE at = {}
  <2>1. FirstOf(lines, type) = 0
    BY <1>3 DEF FirstOf
  <2>2. \A k \in 1..Len(lines) : f[k] = 0
    BY <1>3
  <2>3. 0 \in 0..Len(lines)
    BY <1>1
  <2>. HIDE DEF f
  <2>4. Sum(f, Len(lines)) = 0
    BY <1>1, <2>2, <2>3, SumSingle
  <2>. QED BY <2>1, <2>4 DEF SumOf, f
<1>4. CASE at # {}
  <2>1. PICK i \in at : TRUE
    BY <1>4
  <2>2. at = {i}
    BY <1>2
  <2>3. Min(at) = i
    <3>1. i \in Nat
      BY <1>1
    <3>. HIDE DEF at
    <3>. QED BY <2>2, <3>1 DEF Min
  <2>4. FirstOf(lines, type) = lines[i].kB
    BY <1>4, <2>3 DEF FirstOf
  <2>5. /\ i \in 0..Len(lines) /\ i # 0 /\ f[i] = lines[i].kB /\ f[i] \in Int
        /\ \A k \in 1..Len(lines) : k # i => f[k] = 0
    BY <1>1, <1>2
  <2>. HIDE DEF f
  <2>6. Sum(f, Len(lines)) = f[i]
    BY <1>1, <2>5, SumSingle
  <2>. QED BY <1>1, <2>4, <2>5, <2>6 DEF SumOf, f
<1>. QED BY <1>3, <1>4

\* GetPssAndSwapPssByPid reads what GetPssByPid and GetSwapPssByPid read.
LEMMA PssAndSwapPss ==
  ASSUME NEW lines \in SmapsFiles
  PROVE  GetPssAndSwapPssByPid(lines) = PssOf(lines) /\ PssOf(lines) \in Int
<1>. DEFINE n == Len(lines)
           f == [i \in 1..n |-> IF lines[i].type \in {"Pss"} THEN lines[i].kB ELSE 0]
           g == [i \in 1..n |-> IF lines[i].type \in {"SwapPss"} THEN lines[i].kB ELSE 0]
           h == [i \in 1..n |-> IF lines[i].type \in {"Pss", "SwapPss"} THEN lines[i].kB ELSE 0]
<1>1. n \in Nat /\ \A i \in 1..n : lines[i].kB \in Nat
  BY Read
<1>2. \A k \in 1..n : f[k] \in Int /\ g[k] \in Int /\ h[k] = f[k] + g[k]
  BY <1>1
<1>3. Sum(h, n) = Sum(f, n) + Sum(g, n)
  <2>. HIDE DEF f, g, h, n
  <2>. QED BY <1>1, <1>2, SumPlus
<1>4. SumOf(lines, {"Pss", "SwapPss"}) = SumOf(lines, {"Pss"}) + SumOf(lines, {"SwapPss"})
  BY <1>3 DEF SumOf
<1>5. /\ FirstOf(lines, "Pss") = SumOf(lines, {"Pss"}) /\ FirstOf(lines, "Pss") \in Nat
      /\ FirstOf(lines, "SwapPss") = SumOf(lines, {"SwapPss"}) /\ FirstOf(lines, "SwapPss") \in Nat
  BY FirstIsSum
<1>. QED BY <1>4, <1>5 DEF GetPssAndSwapPssByPid, PssOf, GetPssByPid, GetSwapPssByPid

\* Division of C++.
LEMMA Kilobytes ==
  /\ \A a \in Int : CDiv(a, BYTE_PER_KB) \in Int
  /\ CDiv(-1, BYTE_PER_KB) \in {0, -1}
<1>1. BYTE_PER_KB \in Nat \ {0}
  BY MemInfoAssumption
<1>2. \A a \in Nat : a \div BYTE_PER_KB \in Nat
  BY <1>1
<1>3. 1 \div BYTE_PER_KB \in {0, 1}
  BY <1>1
<1>4. ASSUME NEW a \in Int PROVE CDiv(a, BYTE_PER_KB) \in Int
  <2>1. CASE a >= 0
    BY <1>2, <2>1 DEF CDiv
  <2>2. CASE ~(a >= 0)
    <3>1. -a \in Nat
      BY <2>2
    <3>2. (-a) \div BYTE_PER_KB \in Nat
      BY <1>2, <3>1
    <3>. QED BY <2>2, <3>2 DEF CDiv
  <2>. QED BY <2>1, <2>2
<1>5. CDiv(-1, BYTE_PER_KB) = -(1 \div BYTE_PER_KB)
  BY DEF CDiv
<1>. QED BY <1>3, <1>4, <1>5

\* What GetGraphicsMemory takes is a number.
LEMMA DevMemInt ==
  ASSUME NEW records \in DevRecords
  PROVE  DevMemValue(records) \in Int
<1>. DEFINE at == {i \in 1..Len(records) : records[i].unmapped}
<1>1. Len(records) \in Nat /\ \A i \in 1..Len(records) : records[i].size \in Int
  BY Read
<1>2. CASE at = {}
  BY <1>2 DEF DevMemValue
<1>3. CASE at # {}
  <2>1. at \in SUBSET Nat /\ \A i \in at : i \in 1..Len(records)
    BY <1>1
  <2>2. PICK x \in at : \A y \in at : x <= y
    BY <1>3, <2>1, LeastElement
  <2>3. Min(at) \in at
    <3>. HIDE DEF at
    <3>. QED BY <2>2 DEF Min
  <2>4. CDiv(records[Min(at)].size, BYTE_PER_KB) \in Int
    <3>. HIDE DEF at
    <3>. QED BY <1>1, <2>1, <2>3, Kilobytes
  <2>. QED BY <1>3, <2>4 DEF DevMemValue
<1>. QED BY <1>2, <1>3

\* Of some answered queries one is the last.
LEMMA LastKnown ==
  ASSUME NEW k \in Nat, NEW K \in SUBSET (1..k), K # {}
  PROVE  Max(K) \in K /\ \A m \in K : m <= Max(K)
<1>. DEFINE T == {k - m : m \in K}
<1>1. T \in SUBSET Nat /\ T # {}
  OBVIOUS
<1>2. PICK x \in T : \A y \in T : x <= y
  BY <1>1, LeastElement
<1>3. PICK m \in K : x = k - m
  OBVIOUS
<1>4. \A j \in K : j <= m
  <2>1. \A j \in K : k - j \in T /\ j \in Int
    OBVIOUS
  <2>2. m \in Int
    OBVIOUS
  <2>3. \A j \in K : k - m <= k - j
    BY <1>2, <1>3, <2>1
  <2>. QED BY <2>1, <2>2, <2>3
<1>5. \A j \in K : m >= j
  BY <1>4
<1>. QED BY <1>3, <1>4, <1>5 DEF Max

\* The GL of the last process that answered: of the new one, if it did.
LEMMA NextGL ==
  ASSUME NEW s \in Seq(DevRecords \cup {NoAnswer}), NEW a \in DevRecords \cup {NoAnswer}
  PROVE  LET n == Len(s)  t == Append(s, a) IN
         /\ \A k \in 0..n : GLof(t, k) = GLof(s, k)
         /\ GLof(t, n + 1) = IF a = NoAnswer THEN GLof(s, n) ELSE DevMemValue(a)
<1>. DEFINE n == Len(s)  t == Append(s, a)
<1>1. n \in Nat /\ t[n + 1] = a /\ \A m \in 1..n : t[m] = s[m]
  OBVIOUS
<1>. HIDE DEF t, n
<1>. DEFINE K(u, k) == {m \in 1..k : u[m] # NoAnswer}
<1>2. ASSUME NEW k \in 0..n PROVE GLof(t, k) = GLof(s, k)
  <2>1. K(t, k) = K(s, k) /\ \A m \in K(s, k) : t[m] = s[m] /\ m \in Nat
    BY <1>1
  <2>2. K(s, k) # {} => Max(K(s, k)) \in K(s, k)
    <3>1. K(s, k) \in SUBSET (1..k) /\ k \in Nat
      BY <1>1
    <3>. HIDE DEF K
    <3>. QED BY <3>1, LastKnown
  <2>. QED BY <2>1, <2>2 DEF GLof
<1>3. CASE a = NoAnswer
  <2>1. K(t, n + 1) = K(t, n)
    BY <1>1, <1>3
  <2>2. GLof(t, n + 1) = GLof(t, n)
    BY <2>1 DEF GLof
  <2>3. n \in 0..n
    BY <1>1
  <2>. QED BY <1>2, <1>3, <2>2, <2>3 DEF n, t
<1>4. CASE a # NoAnswer
  <2>1. n + 1 \in K(t, n + 1) /\ \A m \in K(t, n + 1) : m <= n + 1 /\ m \in Nat
    BY <1>1, <1>4
  <2>2. Max(K(t, n + 1)) = n + 1
    <3>. HIDE DEF K
    <3>. QED BY <1>1, <2>1 DEF Max
  <2>3. GLof(t, n + 1) = DevMemValue(t[n + 1])
    BY <2>1, <2>2 DEF GLof
  <2>. QED BY <1>1, <1>2, <1>4, <2>3 DEF n, t
<1>. QED BY <1>2, <1>3, <1>4 DEF n, t

\* A value of GL is a number.
LEMMA GLInt ==
  ASSUME NEW s \in Seq(DevRecords \cup {NoAnswer}), NEW n \in 0..Len(s)
  PROVE  GLof(s, n) \in Int
<1>. DEFINE K == {m \in 1..n : s[m] # NoAnswer}
<1>1. \A m \in 1..Len(s) : s[m] \in DevRecords \cup {NoAnswer}
  OBVIOUS
<1>2. K \in SUBSET (1..n) /\ n \in Nat /\ \A m \in K : m \in 1..Len(s) /\ s[m] # NoAnswer
  OBVIOUS
<1>3. GLof(s, n) = IF K = {} THEN 0 ELSE DevMemValue(s[Max(K)])
  BY DEF GLof
<1>. HIDE DEF K
<1>4. K # {} => Max(K) \in K
  BY <1>2, LastKnown
<1>5. K # {} => s[Max(K)] \in DevRecords
  BY <1>1, <1>2, <1>4
<1>. QED BY <1>3, <1>5, DevMemInt

\* One more process in the sum of the Pss ...
LEMMA NextPss ==
  ASSUME NEW s \in Seq(SmapsFiles), NEW a \in SmapsFiles
  PROVE  LET t == Append(s, a) IN
         Sum([n \in 1..Len(t) |-> PssOf(t[n])], Len(t)) =
           Sum([n \in 1..Len(s) |-> PssOf(s[n])], Len(s)) + PssOf(a)
<1>. DEFINE t == Append(s, a)  l == Len(s)
           f == [n \in 1..l |-> PssOf(s[n])]  g == [n \in 1..(l + 1) |-> PssOf(t[n])]
<1>1. l \in Nat /\ Len(t) = l + 1 /\ t[l + 1] = a /\ \A n \in 1..l : t[n] = s[n]
  OBVIOUS
<1>. HIDE DEF t, l
<1>2. g[l + 1] = PssOf(a) /\ \A n \in 1..l : g[n] = f[n]
  BY <1>1
<1>3. Sum(g, l + 1) = Sum(f, l) + PssOf(a)
  <2>. HIDE DEF f, g
  <2>1. Sum(g, l + 1) = Sum(g, l) + g[l + 1]
    BY <1>1, SumStep
  <2>2. Sum(g, l) = Sum(f, l)
    BY <1>1, <1>2, SumSame
  <2>. QED BY <1>2, <2>1, <2>2
<1>4. Sum([n \in 1..Len(t) |-> PssOf(t[n])], Len(t)) = Sum(g, l + 1)
  BY <1>1
<1>. QED BY <1>3, <1>4 DEF t, l

\* ... and in the sum of the GL.
LEMMA NextGpu ==
  ASSUME NEW s \in Seq(DevRecords \cup {NoAnswer}), NEW a \in DevRecords \cup {NoAnswer}
  PROVE  LET t == Append(s, a)  l == Len(s) IN
         Sum([n \in 1..(l + 1) |-> GLof(t, n)], l + 1) =
           Sum([n \in 1..l |-> GLof(s, n)], l) + GLof(t, l + 1)
<1>. DEFINE t == Append(s, a)  l == Len(s)
           f == [n \in 1..l |-> GLof(s, n)]  g == [n \in 1..(l + 1) |-> GLof(t, n)]
<1>1. l \in Nat /\ \A n \in 0..l : GLof(t, n) = GLof(s, n)
  BY NextGL
<1>. HIDE DEF t, l
<1>2. g[l + 1] = GLof(t, l + 1) /\ \A n \in 1..l : g[n] = f[n]
  BY <1>1
<1>3. Sum(g, l + 1) = Sum(f, l) + GLof(t, l + 1)
  <2>. HIDE DEF f, g
  <2>1. Sum(g, l + 1) = Sum(g, l) + g[l + 1]
    BY <1>1, SumStep
  <2>2. Sum(g, l) = Sum(f, l)
    BY <1>1, <1>2, SumSame
  <2>. QED BY <1>2, <2>1, <2>2
<1>. QED BY <1>3 DEF t, l

-----------------------------------------------------------------------------
(* The steps.                                                                *)

\* A step that leaves the locals alone keeps what they are the sums of.
LEMMA SumsKept ==
  ASSUME SumsInv, UNCHANGED <<cur, sums, answered>>,
         pc' \in {"pss", "gl"} => pc \in {"pss", "gl"}
  PROVE  SumsInv'
BY DEF SumsInv, sums

\* At the start of a call nothing is answered.
LEMMA NoneYet ==
  /\ Len(<<>>) = 0 /\ GLof(<<>>, 0) = 0
  /\ \A f : Sum(f, 0) = 0
<1>1. GLof(<<>>, 0) = 0
  BY DEF GLof
<1>. QED BY <1>1, SumStep

\* A query of the loop adds its answer to the history of the call.
LEMMA Answers ==
  ASSUME NEW h \in History
  PROVE  /\ \A a \in DmaSums \cup {NoAnswer} :
              LET k == [h EXCEPT !.dma = a] IN k \in History /\ k.dma = a /\ k.pss = h.pss /\ k.gl = h.gl
         /\ \A a \in SmapsFiles :
              LET k == [h EXCEPT !.pss = Append(@, a)] IN
              k \in History /\ k.dma = h.dma /\ k.pss = Append(h.pss, a) /\ k.gl = h.gl
         /\ \A a \in DevRecords \cup {NoAnswer} :
              LET k == [h EXCEPT !.gl = Append(@, a)] IN
              k \in History /\ k.dma = h.dma /\ k.gl = Append(h.gl, a) /\ k.pss = h.pss
<1>1. /\ h = [dma |-> h.dma, pss |-> h.pss, gl |-> h.gl]
      /\ h.dma \in DmaSums \cup {NoAnswer} /\ h.pss \in Seq(SmapsFiles)
      /\ h.gl \in Seq(DevRecords \cup {NoAnswer})
  BY DEF History
<1>2. ASSUME NEW a \in DmaSums \cup {NoAnswer}, NEW k, k = [h EXCEPT !.dma = a]
      PROVE  k \in History /\ k.dma = a /\ k.pss = h.pss /\ k.gl = h.gl
  BY <1>2 DEF History
<1>3. ASSUME NEW a \in SmapsFiles, NEW k, k = [h EXCEPT !.pss = Append(@, a)]
      PROVE  k \in History /\ k.dma = h.dma /\ k.pss = Append(h.pss, a) /\ k.gl = h.gl
  <2>1. Append(h.pss, a) \in Seq(SmapsFiles) /\ Len(Append(h.pss, a)) = Len(h.pss) + 1
    BY <1>1
  <2>2. k = [dma |-> h.dma, pss |-> Append(h.pss, a), gl |-> h.gl]
    BY <1>1, <1>3
  <2>. QED BY <1>1, <2>1, <2>2 DEF History
<1>4. ASSUME NEW a \in DevRecords \cup {NoAnswer}, NEW k, k = [h EXCEPT !.gl = Append(@, a)]
      PROVE  k \in History /\ k.dma = h.dma /\ k.gl = Append(h.gl, a) /\ k.pss = h.pss
  <2>1. Append(h.gl, a) \in Seq(DevRecords \cup {NoAnswer}) /\ Len(Append(h.gl, a)) = Len(h.gl) + 1
    BY <1>1
  <2>2. k = [dma |-> h.dma, pss |-> h.pss, gl |-> Append(h.gl, a)]
    BY <1>1, <1>4
  <2>. QED BY <1>1, <2>1, <2>2 DEF History
<1>. QED BY <1>2, <1>3, <1>4

\* GetDmaValueByPidList has closed the library.
LEMMA DmaParts ==
  ASSUME InfoInv, pc \in {"dma_open", "dma_call"}, handles' = 0,
         NEW sum, NEW answer, DmaPart(sum, answer),
         \/ sum = ERROR_DMA_OPEN_SO /\ answer = NoAnswer
         \/ sum \in DmaSums /\ answer = sum,
         UNCHANGED <<arrays, nodes, pids, cur, pssAndSwapPssMem, gpuMem, gl>>
  PROVE  InfoInv'
<1>1. pc' \in {"idle", "pss"} /\ answered' = [answered EXCEPT !.dma = answer]
  BY DEF DmaPart
<1>2. /\ answered' \in History /\ answered'.dma = answer
      /\ answered'.pss = answered.pss /\ answered'.gl = answered.gl
  BY <1>1, Answers DEF InfoInv
<1>3. pc' = "pss" => dmaMem' = DmaOf(answer)
  <2>1. dmaMem' = CDiv(sum, BYTE_PER_KB) /\ (pc' = "pss" => dmaMem' # -1)
    BY DEF DmaPart, ERROR_DMA_OPEN_SO
  <2>2. CASE sum = ERROR_DMA_OPEN_SO /\ answer = NoAnswer
    BY <2>1, <2>2, Kilobytes DEF DmaOf, ERROR_DMA_OPEN_SO
  <2>3. CASE sum \in DmaSums /\ answer = sum
    BY <2>1, <2>3, AnswersAssumption DEF DmaOf
  <2>. QED BY <2>2, <2>3
<1>4. SumsInv'
  BY <1>1, <1>2, <1>3 DEF InfoInv, SumsInv
<1>. QED BY <1>1, <1>2, <1>4 DEF InfoInv

(***************************************************************************)
(* InfoInv holds along every path through GetDmaInfo, GetDmaValueByPidList *)
(* and GetAppsTotalMemory.                                                 *)
(***************************************************************************)
THEOREM InfoInvariant == InfoSpec => []InfoInv
<1>1. InfoInit => InfoInv
  <2>. SUFFICES ASSUME InfoInit PROVE InfoInv
    OBVIOUS
  <2>1. answered \in History /\ answered.pss = <<>> /\ answered.gl = <<>>
    BY DEF InfoInit, History
  <2>2. SumsInv
    BY <2>1, NoneYet DEF InfoInit, SumsInv
  <2>. QED BY <2>1, <2>2 DEF InfoInit, InfoInv
<1>2. InfoInv /\ [InfoNext]_infoVars => InfoInv'
  <2>. SUFFICES ASSUME InfoInv, [InfoNext]_infoVars
                PROVE  InfoInv'
    OBVIOUS
  <2>1. CASE DmaInfoOpen
    BY <2>1, SumsKept DEF DmaInfoOpen, local, sums, InfoInv
  <2>2. CASE DmaInfoSym
    BY <2>2, SumsKept DEF DmaInfoSym, local, sums, InfoInv
  <2>3. CASE DmaInfoCall
    BY <2>3, SumsKept, MemInfoAssumption DEF DmaInfoCall, sums, InfoInv
  <2>4. CASE DmaInfoReturn
    BY <2>4, SumsKept DEF DmaInfoReturn, sums, InfoInv
  <2>5. CASE GetAppsTotalMemory
    BY <2>5, SumsKept, MemInfoAssumption DEF GetAppsTotalMemory, sums, InfoInv
  <2>6. CASE GetDmaValueOpen
    <3>1. CASE DmaPart(ERROR_DMA_OPEN_SO, NoAnswer) /\ UNCHANGED handles
      <4>1. handles' = 0
        BY <2>6, <3>1 DEF GetDmaValueOpen, InfoInv
      <4>. QED BY <2>6, <3>1, <4>1, DmaParts DEF GetDmaValueOpen
    <3>2. CASE handles' = handles + 1 /\ pc' = "dma_call" /\ UNCHANGED <<dmaMem, result, answered>>
      BY <2>6, <3>2, SumsKept DEF GetDmaValueOpen, sums, InfoInv
    <3>. QED BY <2>6, <3>1, <3>2 DEF GetDmaValueOpen
  <2>7. CASE GetDmaValueByPidList
    <3>1. handles' = 0 /\ pc = "dma_call"
      BY <2>7 DEF GetDmaValueByPidList, InfoInv
    <3>2. CASE DmaPart(ERROR_DMA_OPEN_SO, NoAnswer)
      BY <2>7, <3>1, <3>2, DmaParts DEF GetDmaValueByPidList
    <3>3. CASE \E sum \in DmaSums : DmaPart(sum, sum)
      BY <2>7, <3>1, <3>3, DmaParts DEF GetDmaValueByPidList
    <3>. QED BY <2>7, <3>2, <3>3 DEF GetDmaValueByPidList
  <2>8. CASE ReadPss
    <3>1. PICK lines \in SmapsFiles :
            /\ pssAndSwapPssMem' = pssAndSwapPssMem + GetPssAndSwapPssByPid(lines)
            /\ answered' = [answered EXCEPT !.pss = Append(@, lines)]
      BY <2>8 DEF ReadPss
    <3>2. /\ answered' \in History /\ answered'.pss = Append(answered.pss, lines)
          /\ answered'.dma = answered.dma /\ answered'.gl = answered.gl
      BY <3>1, Answers DEF InfoInv
    <3>3. answered.pss \in Seq(SmapsFiles)
      BY DEF InfoInv, History
    <3>4. Len(answered'.pss) = Len(answered.pss) + 1
      BY <3>2, <3>3
    <3>5. SumsInv'
      <4>1. GetPssAndSwapPssByPid(lines) = PssOf(lines)
        BY PssAndSwapPss
      <4>2. pssAndSwapPssMem' =
              Sum([n \in 1..Len(answered'.pss) |-> PssOf(answered'.pss[n])], Len(answered'.pss))
        <5>1. pssAndSwapPssMem =
                Sum([n \in 1..Len(answered.pss) |-> PssOf(answered.pss[n])], Len(answered.pss))
          BY DEF InfoInv, SumsInv
        <5>2. Sum([n \in 1..Len(answered'.pss) |-> PssOf(answered'.pss[n])], Len(answered'.pss)) =
                Sum([n \in 1..Len(answered.pss) |-> PssOf(answered.pss[n])], Len(answered.pss))
                  + PssOf(lines)
          BY <3>2, <3>3, NextPss, ZenonT(30)
        <5>. QED BY <3>1, <4>1, <5>1, <5>2
      <4>. QED BY <2>8, <3>2, <4>2 DEF ReadPss, InfoInv, SumsInv
    <3>. QED BY <2>8, <3>2, <3>4, <3>5 DEF ReadPss, InfoInv
  <2>9. CASE GetGraphicsMemory
    <3>1. PICK records \in DevRecords \cup {NoAnswer} :
            /\ gl' = IF records = NoAnswer THEN gl ELSE DevMemValue(records)
            /\ answered' = [answered EXCEPT !.gl = Append(@, records)]
      BY <2>9 DEF GetGraphicsMemory
    <3>2. /\ answered' \in History /\ answered'.gl = Append(answered.gl, records)
          /\ answered'.dma = answered.dma /\ answered'.pss = answered.pss
      BY <3>1, Answers DEF InfoInv
    <3>3. answered.gl \in Seq(DevRecords \cup {NoAnswer}) /\ Len(answered.gl) = cur
      BY DEF InfoInv, History
    <3>4. Len(answered'.gl) = cur + 1
      BY <3>2, <3>3
    <3>5. SumsInv'
      <4>1. gl' = GLof(answered'.gl, cur + 1)
        BY <3>1, <3>2, <3>3, NextGL DEF InfoInv, SumsInv
      <4>2. gpuMem' = gpuMem + GLof(answered'.gl, cur + 1)
        BY <2>9, <4>1 DEF GetGraphicsMemory
      <4>3. gpuMem' = Sum([n \in 1..(cur + 1) |-> GLof(answered'.gl, n)], cur + 1)
        BY <3>2, <3>3, <4>2, NextGpu DEF InfoInv, SumsInv
      <4>. QED BY <2>9, <3>2, <4>1, <4>3 DEF GetGraphicsMemory, InfoInv, SumsInv
    <3>. QED BY <2>9, <3>2, <3>4, <3>5 DEF GetGraphicsMemory, InfoInv
  <2>10. CASE TotalReturn
    <3>1. answered' \in History /\ answered'.pss = <<>> /\ answered'.gl = <<>>
      BY <2>10 DEF TotalReturn, History
    <3>2. SumsInv'
      BY <2>10, <3>1, NoneYet DEF TotalReturn, SumsInv
    <3>. QED BY <2>10, <3>1, <3>2 DEF TotalReturn, InfoInv
  <2>11. CASE UNCHANGED infoVars
    BY <2>11, SumsKept DEF infoVars, local, sums, InfoInv
  <2>. QED BY <2>1, <2>2, <2>3, <2>4, <2>5, <2>6, <2>7, <2>8, <2>9, <2>10, <2>11 DEF InfoNext
<1>. QED BY <1>1, <1>2, PTL DEF InfoSpec

(* On every return path of GetDmaInfo, GetDmaValueByPidList and              *)
(* GetAppsTotalMemory the client library is closed and the array freed.      *)
THEOREM ClientReleasedCorrect == InfoSpec => []ClientReleased
<1>1. InfoInv => ClientReleased
  BY DEF InfoInv, ClientReleased
<1>. QED BY <1>1, InfoInvariant, PTL

\* What the locals are at the return of GetAppsTotalMemory.
LEMMA TotalAtReturn ==
  ASSUME InfoInv, TotalReturn
  PROVE  result' = DmaOf(answered.dma) +
                   Sum([n \in 1..pids |-> PssOf(answered.pss[n]) + GLof(answered.gl, n)], pids)
<1>. DEFINE f == [n \in 1..pids |-> PssOf(answered.pss[n])]
           g == [n \in 1..pids |-> GLof(answered.gl, n)]
           h == [n \in 1..pids |-> PssOf(answered.pss[n]) + GLof(answered.gl, n)]
<1>1. /\ pids \in Nat /\ cur = pids /\ Len(answered.pss) = pids /\ Len(answered.gl) = pids
      /\ pc = "pss" /\ result' = dmaMem + pssAndSwapPssMem + gpuMem
  BY DEF InfoInv, TotalReturn
<1>2. /\ answered.pss \in Seq(SmapsFiles) /\ answered.gl \in Seq(DevRecords \cup {NoAnswer})
      /\ answered.dma \in DmaSums \cup {NoAnswer}
  BY DEF InfoInv, History
<1>3. /\ dmaMem = DmaOf(answered.dma) /\ pssAndSwapPssMem = Sum(f, pids)
      /\ gpuMem = Sum(g, pids)
  BY <1>1 DEF InfoInv, SumsInv
<1>4. DmaOf(answered.dma) \in Int
  <2>1. CASE answered.dma = NoAnswer
    BY <2>1 DEF DmaOf
  <2>2. CASE answered.dma # NoAnswer
    <3>1. answered.dma \in Int
      BY <1>2, <2>2, AnswersAssumption
    <3>2. CDiv(answered.dma, BYTE_PER_KB) \in Int
      BY <3>1, Kilobytes
    <3>. QED BY <2>2, <3>2 DEF DmaOf
  <2>. QED BY <2>1, <2>2
<1>5. \A n \in 1..pids : f[n] \in Int /\ g[n] \in Int /\ h[n] = f[n] + g[n]
  <2>. SUFFICES ASSUME NEW n \in 1..pids
                PROVE  PssOf(answered.pss[n]) \in Int /\ GLof(answered.gl, n) \in Int
    OBVIOUS
  <2>1. answered.pss[n] \in SmapsFiles
    BY <1>1, <1>2
  <2>2. n \in 0..Len(answered.gl)
    BY <1>1
  <2>. QED BY <1>2, <2>1, <2>2, PssAndSwapPss, GLInt
<1>6. result' = DmaOf(answered.dma) + Sum(h, pids)
  <2>. HIDE DEF f, g, h
  <2>1. Sum(h, pids) = Sum(f, pids) + Sum(g, pids)
    BY <1>1, <1>5, SumPlus
  <2>2. Sum(f, pids) \in Int /\ Sum(g, pids) \in Int
    BY <1>1, <1>5, SumInt
  <2>. QED BY <1>1, <1>3, <1>4, <2>1, <2>2
<1>. QED BY <1>6

\* Where every query was answered the GL of a process is its own.
LEMMA OwnGL ==
  ASSUME NEW s, NEW n \in Nat \ {0}, s[n] # NoAnswer
  PROVE  GLof(s, n) = DevMemValue(s[n])
<1>. DEFINE K == {m \in 1..n : s[m] # NoAnswer}
<1>1. n \in K /\ \A m \in K : m <= n /\ m \in Nat
  OBVIOUS
<1>2. Max(K) = n
  <2>1. n \in Nat /\ \A m \in K : n >= m
    BY <1>1
  <2>. HIDE DEF K
  <2>2. Max(K) \in K /\ \A m \in K : Max(K) >= m
    BY <1>1, <2>1, Zenon DEF Max
  <2>3. Max(K) \in Nat /\ Max(K) <= n /\ Max(K) >= n
    BY <1>1, <2>2, Zenon
  <2>. QED BY <2>1, <2>3
<1>. QED BY <1>1, <1>2 DEF GLof

(***************************************************************************)
(* When the client library and the graphics service have answered every    *)
(* query GetAppsTotalMemory returns the DMA of the list and the Pss, the   *)
(* SwapPss and the GL of every process, for a list of any length and       *)
(* whichever processes exit between the queries.                           *)
(***************************************************************************)
THEOREM TotalWhenAnsweredCorrect == InfoSpec => TotalWhenAnswered
<1>1. ASSUME InfoInv, TotalReturn, AllAnswered PROVE result' = TotalMemory
  <2>. DEFINE f == [n \in 1..pids |-> PssOf(answered.pss[n]) + GLof(answered.gl, n)]
             g == [n \in 1..pids |-> PssOf(answered.pss[n]) +
                     (IF answered.gl[n] = NoAnswer THEN 0 ELSE DevMemValue(answered.gl[n]))]
  <2>1. pids \in Nat
    BY <1>1 DEF InfoInv
  <2>2. \A n \in 1..pids : g[n] = f[n]
    <3>. SUFFICES ASSUME NEW n \in 1..pids PROVE g[n] = f[n]
      OBVIOUS
    <3>1. n \in Nat \ {0} /\ answered.gl[n] # NoAnswer
      BY <1>1, <2>1 DEF AllAnswered
    <3>2. GLof(answered.gl, n) = DevMemValue(answered.gl[n])
      BY <3>1, OwnGL, Zenon
    <3>. QED BY <3>1, <3>2
  <2>3. result' = DmaOf(answered.dma) + Sum(f, pids)
    BY <1>1, TotalAtReturn
  <2>4. TotalMemory = DmaOf(answered.dma) + Sum(g, pids)
    BY DEF TotalMemory
  <2>5. Sum(g, pids) = Sum(f, pids)
    <3>. HIDE DEF f, g
    <3>. QED BY <2>1, <2>2, SumSame
  <2>. QED BY <2>3, <2>4, <2>5
<1>2. InfoInv /\ [InfoNext]_infoVars =>
        [pc = "pss" /\ pc' = "idle" /\ AllAnswered => result' = TotalMemory]_infoVars
  <2>. SUFFICES ASSUME InfoInv, InfoNext, pc = "pss", pc' = "idle", AllAnswered
                PROVE  result' = TotalMemory
    OBVIOUS
  <2>1. TotalReturn
    BY DEF InfoNext, DmaInfoOpen, DmaInfoSym, DmaInfoCall, DmaInfoReturn, GetAppsTotalMemory,
           GetDmaValueOpen, GetDmaValueByPidList, ReadPss, GetGraphicsMemory
  <2>. QED BY <1>1, <2>1
<1>. QED BY <1>2, InfoInvariant, PTL DEF InfoSpec, TotalWhenAnswered
==============================================================================
