----------------------------- MODULE UxAddrProofs -----------------------------
(***************************************************************************)
(* The address arithmetic of the table, for all sizes of page, word and    *)
(* address space.                                                          *)
(***************************************************************************)
EXTENDS UxAddr, Integers, TLAPS

\* Multiples and division, as the code's shifts and masks compute it.
LEMMA Times ==
  ASSUME NEW b \in Nat \ {0}, NEW p \in Int, NEW q \in Int
  PROVE  /\ b * p \in Int /\ b * (p + q) = b * p + b * q /\ b * (p - q) = b * p - b * q
         /\ p <= q <=> b * p <= b * q
         /\ p < q <=> b * p < b * q
         /\ p < q <=> b * p + b <= b * q
OBVIOUS

\* Division is the largest multiple below.
LEMMA DivGalois ==
  ASSUME NEW a \in Nat, NEW b \in Nat \ {0}, NEW p \in Nat
  PROVE  p <= a \div b <=> b * p <= a
OBVIOUS

\* Quotient and remainder are unique ...
LEMMA DivUnique ==
  ASSUME NEW a \in Nat, NEW b \in Nat \ {0}, NEW q \in Nat, NEW r \in Nat, r < b, a = b * q + r
  PROVE  a \div b = q /\ a % b = r
OBVIOUS

\* ... and exist.
LEMMA DivMod ==
  ASSUME NEW a \in Nat, NEW b \in Nat \ {0}
  PROVE  /\ a \div b \in Nat /\ a % b \in Nat /\ a % b < b
         /\ a = b * (a \div b) + (a % b)
OBVIOUS

\* A remainder of zero is a multiple.
LEMMA MultipleOf ==
  ASSUME NEW a \in Nat, NEW b \in Nat \ {0}
  PROVE  a % b = 0 <=> \E p \in Nat : a = b * p
<1>1. a % b = 0 => a = b * (a \div b) /\ a \div b \in Nat
  BY DivMod
<1>2. ASSUME NEW p \in Nat, a = b * p
      PROVE  a % b = 0
  BY <1>2, DivUnique
<1>. QED BY <1>1, <1>2

\* Division is monotonic.
LEMMA DivMonotonic ==
  ASSUME NEW a \in Nat, NEW c \in Nat, NEW b \in Nat \ {0}, a <= c
  PROVE  a \div b <= c \div b
<1>1. a \div b \in Nat /\ c \div b \in Nat /\ b * (a \div b) <= a
  BY DivMod
<1>. QED BY <1>1, DivGalois
-----------------------------------------------------------------------------
(* The constants.                                                            *)
LEMMA Sizes ==
  /\ PAGE_SIZE \in Nat \ {0} /\ UXPTE_SIZE \in Nat \ {0} /\ WordSpace \in Nat \ {0}
  /\ UXPTE_PER_PAGE \in Nat \ {0} /\ PAGE_SIZE = UXPTE_SIZE * UXPTE_PER_PAGE
  /\ \E n \in Nat \ {0} : WordSpace = PAGE_SIZE * n
<1>1. PAGE_SIZE \in Nat \ {0} /\ UXPTE_SIZE \in Nat \ {0} /\ WordSpace \in Nat \ {0}
  BY SizesAssumption
<1>2. UXPTE_PER_PAGE \in Nat /\ PAGE_SIZE = UXPTE_SIZE * UXPTE_PER_PAGE
  BY <1>1, SizesAssumption, DivMod DEF UXPTE_PER_PAGE
<1>3. UXPTE_PER_PAGE # 0
  BY <1>1, <1>2
<1>4. \E n \in Nat \ {0} : WordSpace = PAGE_SIZE * n
  <2>1. PICK n \in Nat : WordSpace = PAGE_SIZE * n
    BY <1>1, SizesAssumption, MultipleOf
  <2>. QED BY <1>1, <2>1
<1>. QED BY <1>1, <1>2, <1>3, <1>4

\* Addition and subtraction that do not wrap, and the test for one that does.
LEMMA Adding ==
  ASSUME NEW a \in Word, NEW b \in Word
  PROVE  /\ Plus(a, b) \in Word
         /\ a + b < WordSpace => Plus(a, b) = a + b
         /\ b <= a => Minus(a, b) = a - b
         /\ AddOverflows(a, b) <=> a + b >= WordSpace
<1>1. WordSpace \in Nat \ {0} /\ a \in Nat /\ b \in Nat /\ a < WordSpace /\ b < WordSpace
  BY Sizes DEF Word
<1>2. a + b < WordSpace => (a + b) % WordSpace = a + b
  <2>. SUFFICES ASSUME a + b < WordSpace
                PROVE  (a + b) % WordSpace = a + b
    OBVIOUS
  <2>1. a + b \in Nat /\ 0 \in Nat /\ a + b = WordSpace * 0 + (a + b)
    BY <1>1
  <2>. QED BY <1>1, <2>1, DivUnique
<1>3. a + b >= WordSpace => (a + b) % WordSpace = a + b - WordSpace
  <2>. SUFFICES ASSUME a + b >= WordSpace
                PROVE  (a + b) % WordSpace = a + b - WordSpace
    OBVIOUS
  <2>1. /\ a + b \in Nat /\ 1 \in Nat /\ a + b - WordSpace \in Nat /\ a + b - WordSpace < WordSpace
        /\ a + b = WordSpace * 1 + (a + b - WordSpace)
    BY <1>1
  <2>. QED BY <1>1, <2>1, DivUnique
<1>4. b <= a => (a + WordSpace - b) % WordSpace = a - b
  <2>. SUFFICES ASSUME b <= a
                PROVE  (a + WordSpace - b) % WordSpace = a - b
    OBVIOUS
  <2>1. /\ a + WordSpace - b \in Nat /\ 1 \in Nat /\ a - b \in Nat /\ a - b < WordSpace
        /\ a + WordSpace - b = WordSpace * 1 + (a - b)
    BY <1>1
  <2>. QED BY <1>1, <2>1, DivUnique
<1>. QED BY <1>1, <1>2, <1>3, <1>4 DEF Plus, Minus, AddOverflows, Word

-----------------------------------------------------------------------------
(* Rounding to pages.                                                        *)
LEMMA Pages ==
  ASSUME NEW a \in Nat, a % PAGE_SIZE = 0
  PROVE  /\ a = PAGE_SIZE * VirtPageNo(a) /\ (a + PAGE_SIZE) % PAGE_SIZE = 0
         /\ VirtPageNo(a + PAGE_SIZE) = VirtPageNo(a) + 1
         /\ \A c \in Nat : c % PAGE_SIZE = 0 =>
              /\ (a + c) % PAGE_SIZE = 0
              /\ a < c => a + PAGE_SIZE <= c /\ VirtPageNo(c - 1) = VirtPageNo(c) - 1
<1>1. PAGE_SIZE \in Nat \ {0}
  BY Sizes
<1>2. PICK p \in Nat : a = PAGE_SIZE * p
  BY <1>1, MultipleOf
<1>3. VirtPageNo(a) = p
  BY <1>1, <1>2, DivUnique DEF VirtPageNo
<1>4. a + PAGE_SIZE = PAGE_SIZE * (p + 1) + 0 /\ p + 1 \in Nat /\ a + PAGE_SIZE \in Nat
  BY <1>1, <1>2
<1>5. VirtPageNo(a + PAGE_SIZE) = p + 1 /\ (a + PAGE_SIZE) % PAGE_SIZE = 0
  <2>1. 0 \in Nat /\ 0 < PAGE_SIZE
    BY <1>1
  <2>. QED BY <1>1, <1>4, <2>1, DivUnique, Zenon DEF VirtPageNo
<1>6. ASSUME NEW c \in Nat, c % PAGE_SIZE = 0
      PROVE  /\ (a + c) % PAGE_SIZE = 0
             /\ a < c => a + PAGE_SIZE <= c /\ VirtPageNo(c - 1) = VirtPageNo(c) - 1
  <2>1. PICK k \in Nat : c = PAGE_SIZE * k
    BY <1>1, <1>6, MultipleOf
  <2>2. VirtPageNo(c) = k
    BY <1>1, <2>1, DivUnique DEF VirtPageNo
  <2>3. a + c = PAGE_SIZE * (p + k) /\ p + k \in Nat /\ a + c \in Nat
    BY <1>1, <1>2, <2>1
  <2>4. (a + c) % PAGE_SIZE = 0
    BY <1>1, <2>3, MultipleOf
  <2>5. ASSUME a < c
        PROVE  a + PAGE_SIZE <= c /\ VirtPageNo(c - 1) = k - 1
    <3>1. p < k
      BY <1>1, <1>2, <2>1, <2>5, Times
    <3>2. a + PAGE_SIZE <= c
      BY <1>1, <1>2, <2>1, <3>1, Times
    <3>3. /\ c - 1 \in Nat /\ k - 1 \in Nat /\ PAGE_SIZE - 1 \in Nat /\ PAGE_SIZE - 1 < PAGE_SIZE
          /\ c - 1 = PAGE_SIZE * (k - 1) + (PAGE_SIZE - 1)
      BY <1>1, <2>1, <3>1
    <3>4. VirtPageNo(c - 1) = k - 1
      BY <1>1, <3>3, DivUnique DEF VirtPageNo
    <3>. QED BY <3>2, <3>4
  <2>. QED BY <2>2, <2>4, <2>5
<1>. QED BY <1>2, <1>3, <1>5, <1>6

\* RoundDown is the start of the page.
LEMMA RoundingDown ==
  ASSUME NEW a \in Nat
  PROVE  LET r == RoundDown(a, PAGE_SIZE) IN
         /\ r \in Nat /\ r % PAGE_SIZE = 0 /\ r <= a /\ a < r + PAGE_SIZE
         /\ VirtPageNo(r) = VirtPageNo(a) /\ (a % PAGE_SIZE = 0 => r = a)
<1>. DEFINE r == RoundDown(a, PAGE_SIZE)
<1>1. PAGE_SIZE \in Nat \ {0}
  BY Sizes
<1>2. /\ a \div PAGE_SIZE \in Nat /\ a % PAGE_SIZE \in Nat /\ a % PAGE_SIZE < PAGE_SIZE
      /\ a = PAGE_SIZE * (a \div PAGE_SIZE) + (a % PAGE_SIZE)
  BY <1>1, DivMod
<1>3. r = PAGE_SIZE * (a \div PAGE_SIZE) /\ r \in Nat
  BY <1>1, <1>2 DEF RoundDown
<1>4. r \div PAGE_SIZE = a \div PAGE_SIZE /\ r % PAGE_SIZE = 0
  <2>. DEFINE q == a \div PAGE_SIZE
  <2>1. q \in Nat /\ r = PAGE_SIZE * q + 0 /\ 0 < PAGE_SIZE
    BY <1>1, <1>2, <1>3
  <2>. HIDE DEF q, r
  <2>2. r \div PAGE_SIZE = q /\ r % PAGE_SIZE = 0
    BY <1>1, <1>3, <2>1, DivUnique
  <2>. QED BY <2>2 DEF q
<1>5. r <= a /\ a < r + PAGE_SIZE /\ (a % PAGE_SIZE = 0 => r = a)
  BY <1>1, <1>2, <1>3
<1>. QED BY <1>3, <1>4, <1>5 DEF VirtPageNo

\* RoundUp is the end of the page, or nothing near the end of the space.
LEMMA RoundingUp ==
  ASSUME NEW a \in Word
  PROVE  LET r == RoundUp(a, PAGE_SIZE) IN
         /\ r \in Word /\ a <= r /\ r < a + PAGE_SIZE
         /\ r % PAGE_SIZE = 0 \/ (r = a /\ a + PAGE_SIZE >= WordSpace)
<1>. DEFINE r == RoundUp(a, PAGE_SIZE)
           q == (a + PAGE_SIZE - 1) \div PAGE_SIZE
<1>1. PAGE_SIZE \in Nat \ {0} /\ WordSpace \in Nat \ {0} /\ a \in Nat /\ a < WordSpace
  BY Sizes DEF Word
<1>2. PAGE_SIZE <= WordSpace
  BY Sizes
<1>3. a + PAGE_SIZE - 1 \in Nat
  BY <1>1
<1>4. PICK m \in Nat : q \in Nat /\ m < PAGE_SIZE /\ a + PAGE_SIZE - 1 = PAGE_SIZE * q + m
  BY <1>1, <1>3, DivMod
<1>. HIDE DEF q
<1>5. q * PAGE_SIZE = PAGE_SIZE * q /\ PAGE_SIZE * q \in Nat
  BY <1>1, <1>4
<1>6. a <= q * PAGE_SIZE /\ q * PAGE_SIZE < a + PAGE_SIZE
  BY <1>1, <1>4, <1>5
<1>7. (q * PAGE_SIZE) % PAGE_SIZE = 0
  BY <1>1, <1>4, <1>5, MultipleOf
<1>8. AddOverflows(a, PAGE_SIZE) <=> a + PAGE_SIZE >= WordSpace
  <2>1. CASE PAGE_SIZE < WordSpace
    <3>1. PAGE_SIZE \in Word
      BY <1>1, <2>1 DEF Word
    <3>. QED BY <3>1, Adding
  <2>2. CASE PAGE_SIZE = WordSpace
    <3>1. a + PAGE_SIZE \in Nat /\ a + PAGE_SIZE = WordSpace * 1 + a
      BY <1>1, <2>2
    <3>2. Plus(a, PAGE_SIZE) = a
      BY <1>1, <3>1, DivUnique DEF Plus
    <3>. QED BY <1>1, <2>2, <3>2 DEF AddOverflows
  <2>. QED BY <1>1, <1>2, <2>1, <2>2
<1>9. r = IF AddOverflows(a, PAGE_SIZE) THEN a ELSE q * PAGE_SIZE
  BY DEF RoundUp, q
<1>. QED BY <1>1, <1>5, <1>6, <1>7, <1>8, <1>9 DEF Word

\* A multiple of the page size below WordSpace leaves a page above it.  Rounding
\* up to at most such a multiple never meets the overflow.
LEMMA RoundingBelow ==
  ASSUME NEW a \in Word, NEW c \in Word, c % PAGE_SIZE = 0
  PROVE  LET r == RoundUp(a, PAGE_SIZE) IN
         /\ c + PAGE_SIZE <= WordSpace
         /\ a <= c <=> r <= c
         /\ r <= c => r % PAGE_SIZE = 0
<1>. DEFINE r == RoundUp(a, PAGE_SIZE)
<1>1. PAGE_SIZE \in Nat \ {0} /\ WordSpace \in Nat /\ a \in Nat /\ c \in Nat /\ c < WordSpace
  BY Sizes DEF Word
<1>2. WordSpace % PAGE_SIZE = 0
  BY SizesAssumption
<1>3. c + PAGE_SIZE <= WordSpace
  BY <1>1, <1>2, Pages
<1>4. /\ r \in Nat /\ a <= r /\ r < a + PAGE_SIZE
      /\ r % PAGE_SIZE = 0 \/ (r = a /\ a + PAGE_SIZE >= WordSpace)
  BY RoundingUp DEF Word
<1>5. r <= c => r % PAGE_SIZE = 0
  <2>1. r <= c /\ r = a /\ a + PAGE_SIZE >= WordSpace => r = c
    BY <1>1, <1>3, <1>4
  <2>. QED BY <1>4, <2>1
<1>6. a <= c => r <= c
  <2>. SUFFICES ASSUME a <= c, ~(r <= c)
                PROVE  FALSE
    OBVIOUS
  <2>1. r % PAGE_SIZE = 0 /\ c < r
    BY <1>1, <1>4
  <2>2. c + PAGE_SIZE <= r
    BY <1>1, <1>4, <2>1, Pages
  <2>. QED BY <1>1, <1>4, <2>2
<1>. QED BY <1>1, <1>3, <1>4, <1>5, <1>6

-----------------------------------------------------------------------------
(* The pages of a range, and the words of the table.                         *)
LEMMA PagesOfRange ==
  ASSUME NEW a \in Nat, NEW c \in Nat, a <= c
  PROVE  {VirtPageNo(x) : x \in a..c} = VirtPageNo(a)..VirtPageNo(c)
<1>1. PAGE_SIZE \in Nat \ {0}
  BY Sizes
<1>2. VirtPageNo(a) \in Nat /\ VirtPageNo(c) \in Nat
  BY <1>1, DivMod DEF VirtPageNo
<1>3. ASSUME NEW x \in a..c
      PROVE  VirtPageNo(x) \in VirtPageNo(a)..VirtPageNo(c)
  <2>1. x \in Nat /\ a <= x /\ x <= c
    OBVIOUS
  <2>2. VirtPageNo(x) \in Nat
    BY <1>1, <2>1, DivMod DEF VirtPageNo
  <2>3. VirtPageNo(a) <= VirtPageNo(x) /\ VirtPageNo(x) <= VirtPageNo(c)
    BY <1>1, <2>1, DivMonotonic DEF VirtPageNo
  <2>. QED BY <1>2, <2>2, <2>3
<1>4. ASSUME NEW p \in VirtPageNo(a)..VirtPageNo(c)
      PROVE  \E x \in a..c : VirtPageNo(x) = p
  <2>1. p \in Nat /\ VirtPageNo(a) <= p /\ p <= VirtPageNo(c)
    BY <1>2
  <2>2. CASE p = VirtPageNo(a)
    BY <2>2
  <2>3. CASE VirtPageNo(a) < p
    <3>1. PAGE_SIZE * p \in Nat /\ PAGE_SIZE * p <= c
      BY <1>1, <2>1, DivGalois DEF VirtPageNo
    <3>2. ~(PAGE_SIZE * p <= a)
      BY <1>1, <1>2, <2>1, <2>3, DivGalois DEF VirtPageNo
    <3>3. VirtPageNo(PAGE_SIZE * p) = p
      BY <1>1, <2>1, <3>1, DivUnique DEF VirtPageNo
    <3>4. PAGE_SIZE * p \in a..c
      BY <3>1, <3>2
    <3>. QED BY <3>3, <3>4
  <2>. QED BY <1>2, <2>1, <2>2, <2>3
<1>. QED BY <1>3, <1>4

\* A page of the process's table holds UXPTE_PER_PAGE words.
LEMMA TablePage ==
  ASSUME NEW a \in Nat
  PROVE  /\ UxptePageNo(a) \in Nat /\ VirtPageNo(a) \in Nat
         /\ VirtPageNo(a) = UXPTE_PER_PAGE * UxptePageNo(a) + UxpteOffset(a)
         /\ UxpteOffset(a) \in Nat /\ UxpteOffset(a) < UXPTE_PER_PAGE
<1>1. VirtPageNo(a) \in Nat
  BY Sizes, DivMod DEF VirtPageNo
<1>. QED BY <1>1, Sizes, DivMod DEF UxptePageNo, UxpteOffset

\* Whole pages of the table in words.
LEMMA TableWords ==
  ASSUME NEW n \in Nat
  PROVE  (n * PAGE_SIZE) \div UXPTE_SIZE = UXPTE_PER_PAGE * n
<1>1. UXPTE_PER_PAGE * n \in Nat
  BY Sizes
<1>2. n * PAGE_SIZE = UXPTE_SIZE * (UXPTE_PER_PAGE * n) /\ n * PAGE_SIZE \in Nat
  BY Sizes
<1>. QED BY <1>1, <1>2, Sizes, DivUnique

\* The word that UxpteOps touches for the page at b is that page's, and lies
\* in the mapping of the table of a range from a that ends at c.
LEMMA WordOfPage ==
  ASSUME NEW a \in Word, NEW b \in Word, NEW c \in Word, a <= b, b <= c
  PROVE  LET offset == UxptePageNo(a) * PAGE_SIZE
             size == (UxptePageNo(c) - UxptePageNo(a) + 1) * PAGE_SIZE
         IN  /\ offset \div UXPTE_SIZE + GetIndexInUxpte(a, b) = VirtPageNo(b)
             /\ VirtPageNo(b) \in (offset \div UXPTE_SIZE)..((offset + size) \div UXPTE_SIZE - 1)
<1>. DEFINE n == UxptePageNo(a)  m == UxptePageNo(c)  K == UXPTE_PER_PAGE
<1>1. /\ a \in Nat /\ b \in Nat /\ c \in Nat /\ PAGE_SIZE \in Nat \ {0} /\ K \in Nat \ {0}
      /\ WordSpace \in Nat \ {0} /\ b < WordSpace /\ a < WordSpace
  BY Sizes DEF Word
<1>2. /\ n \in Nat /\ VirtPageNo(a) \in Nat /\ VirtPageNo(a) = K * n + UxpteOffset(a)
      /\ UxpteOffset(a) \in Nat
  BY <1>1, TablePage
<1>3. /\ m \in Nat /\ VirtPageNo(c) \in Nat /\ VirtPageNo(c) = K * m + UxpteOffset(c)
      /\ UxpteOffset(c) \in Nat /\ UxpteOffset(c) < K
  BY <1>1, TablePage
<1>4. VirtPageNo(b) \in Nat /\ VirtPageNo(a) <= VirtPageNo(b) /\ VirtPageNo(b) <= VirtPageNo(c)
  BY <1>1, DivMonotonic, DivMod DEF VirtPageNo
<1>5. VirtPageNo(b) <= b
  BY <1>1, DivMod DEF VirtPageNo
<1>6. (n * PAGE_SIZE) \div UXPTE_SIZE = K * n
  BY <1>2, TableWords
<1>7. GetIndexInUxpte(a, b) = UxpteOffset(a) + (VirtPageNo(b) - VirtPageNo(a))
  <2>1. VirtPageNo(a) \in Word /\ VirtPageNo(b) \in Word
    BY <1>1, <1>2, <1>4, <1>5 DEF Word
  <2>. QED BY <1>4, <2>1, Adding DEF GetIndexInUxpte
<1>8. n <= m
  BY <1>1, <1>2, <1>3, <1>4, DivMonotonic DEF UxptePageNo
<1>. HIDE DEF n, m, K
<1>9. n * PAGE_SIZE + (m - n + 1) * PAGE_SIZE = (m + 1) * PAGE_SIZE /\ m + 1 \in Nat
  BY <1>1, <1>2, <1>3
<1>10. ((m + 1) * PAGE_SIZE) \div UXPTE_SIZE = K * (m + 1)
  BY <1>9, TableWords DEF K
<1>11. K * (m + 1) = K * m + K /\ K * m \in Nat /\ K * n \in Nat
  BY <1>1, <1>2, <1>3
<1>12. VirtPageNo(b) \in (K * n)..(K * (m + 1) - 1)
  BY <1>1, <1>2, <1>3, <1>4, <1>11
<1>13. (n * PAGE_SIZE) \div UXPTE_SIZE + GetIndexInUxpte(a, b) = VirtPageNo(b)
  BY <1>2, <1>4, <1>6, <1>7, <1>11
<1>14. VirtPageNo(b) \in ((n * PAGE_SIZE) \div UXPTE_SIZE)..
         ((n * PAGE_SIZE + (m - n + 1) * PAGE_SIZE) \div UXPTE_SIZE - 1)
  BY <1>6, <1>9, <1>10, <1>12, Zenon
<1>. QED BY <1>13, <1>14 DEF n, m

-----------------------------------------------------------------------------
(* The steps.                                                                *)
LEMMA ZeroWord == 0 \in Word /\ \A a \in Word : a \in Nat /\ a < WordSpace
BY Sizes DEF Word

\* UxpteOps on the table of a range inside the space either refuses or starts at
\* the first page, with nothing touched.
LEMMA OpsStart ==
  ASSUME NEW addr \in Word, NEW len \in Word, NEW dAddr \in Word, NEW dSize \in Word,
         dAddr + dSize < WordSpace, StartOps(addr, len, dAddr, dSize),
         mapSize' > 0, dataAddr' = dAddr, dataSize' = dSize
  PROVE  /\ {opAddr, opLen, off, end}' \subseteq Word /\ touched' = {}
         /\ res' \in {"running", "PM_UXPT_OUT_RANGE"} /\ OpsInv'
<1>1. Plus(dAddr, dSize) = dAddr + dSize /\ Plus(addr, len) \in Word
  BY Adding
<1>2. /\ opAddr' = addr /\ opLen' = len /\ off' = RoundDown(addr, PAGE_SIZE)
      /\ end' = RoundUp(Plus(addr, len), PAGE_SIZE) /\ touched' = {}
      /\ res' = IF off' < dAddr \/ end' > dAddr + dSize THEN "PM_UXPT_OUT_RANGE" ELSE "running"
  BY <1>1 DEF StartOps
<1>3. addr \in Nat /\ addr < WordSpace /\ WordSpace \in Nat /\ dAddr \in Nat /\ dSize \in Nat
  BY Sizes DEF Word
<1>4. off' \in Nat /\ off' % PAGE_SIZE = 0 /\ off' <= addr
  BY <1>2, <1>3, RoundingDown
<1>5. end' \in Word /\ end' \in Nat
  BY <1>1, <1>2, RoundingUp, ZeroWord
<1>6. off' \in Word
  BY <1>3, <1>4 DEF Word
<1>7. Start' = off' /\ Stop' = end'
  BY <1>2 DEF Start, Stop, RoundDown, RoundUp, Plus, AddOverflows
<1>8. VirtPageNo(off)' = off' \div PAGE_SIZE /\ off' \div PAGE_SIZE \in Nat
  BY <1>4, Sizes, DivMod DEF VirtPageNo
<1>9. (off' \div PAGE_SIZE)..((off' \div PAGE_SIZE) - 1) = {}
  BY <1>8
<1>10. VirtPageNo(Start)' = VirtPageNo(off)'
  BY <1>7 DEF VirtPageNo
<1>11. OpsInv'
  BY <1>2, <1>3, <1>4, <1>5, <1>7, <1>8, <1>9, <1>10 DEF OpsInv
<1>. QED BY <1>2, <1>5, <1>6, <1>11

\* The mapping of a table begins inside the whole table.
LEMMA TableStart ==
  ASSUME NEW addr \in Word
  PROVE  UxptePageNo(addr) * PAGE_SIZE \in 0..WordSpace
<1>. DEFINE n == UxptePageNo(addr)  K == UXPTE_PER_PAGE  p == VirtPageNo(addr)
<1>1. /\ PAGE_SIZE \in Nat \ {0} /\ WordSpace \in Nat \ {0} /\ addr \in Nat /\ addr < WordSpace
      /\ K \in Nat \ {0}
  BY Sizes, ZeroWord
<1>2. n \in Nat /\ p \in Nat /\ UxpteOffset(addr) \in Nat /\ p = K * n + UxpteOffset(addr)
  BY <1>1, TablePage
<1>3. PAGE_SIZE * p <= addr
  BY <1>1, <1>2, DivGalois DEF VirtPageNo
<1>. HIDE DEF n, K, p
<1>4. n <= K * n /\ K * n \in Nat
  BY <1>1, <1>2
<1>5. n <= p
  BY <1>2, <1>4
<1>6. PAGE_SIZE * n <= PAGE_SIZE * p
  BY <1>1, <1>2, <1>5, Times
<1>7. n * PAGE_SIZE = PAGE_SIZE * n /\ PAGE_SIZE * n \in Nat /\ PAGE_SIZE * p \in Nat
  BY <1>1, <1>2
<1>. QED BY <1>1, <1>3, <1>6, <1>7 DEF n

\* The table of an object: GetUxPageSize is 0 or the pages from its first to
\* its last, and the object then ends a page below the end of the space.
LEMMA TableOf ==
  ASSUME NEW addr \in Word, NEW input \in Word, input > 0, addr % PAGE_SIZE = 0, addr > 0,
         NEW size, size = RoundUp(input, PAGE_SIZE),
         addr + size <= WordSpace, GetUxPageSize(addr, size) # 0
  PROVE  /\ size \in Word /\ size % PAGE_SIZE = 0 /\ input <= size /\ size < input + PAGE_SIZE
         /\ addr + size < WordSpace
         /\ GetUxPageSize(addr, size) =
              (UxptePageNo(addr + size - 1) - UxptePageNo(addr) + 1) * PAGE_SIZE
         /\ GetUxPageSize(addr, size) \in 0..WordSpace /\ GetUxPageSize(addr, size) > 0
         /\ UxptePageNo(addr) * PAGE_SIZE \in 0..WordSpace
<1>. DEFINE n == UxptePageNo(addr)  m == UxptePageNo(addr + size - 1)
<1>1. /\ PAGE_SIZE \in Nat \ {0} /\ WordSpace \in Nat \ {0} /\ addr \in Nat /\ addr < WordSpace
      /\ input \in Nat
  BY Sizes DEF Word
<1>2. /\ size \in Word /\ size \in Nat /\ input <= size /\ size < input + PAGE_SIZE
      /\ size % PAGE_SIZE = 0 \/ (size = input /\ input + PAGE_SIZE >= WordSpace)
  BY RoundingUp, ZeroWord
<1>3. PAGE_SIZE <= addr
  <2>1. 0 \in Nat /\ 0 % PAGE_SIZE = 0
    BY <1>1
  <2>. QED BY <1>1, <2>1, Pages
<1>4. ~AddOverflows(addr, size)
  BY DEF GetUxPageSize
<1>5. addr + size < WordSpace
  BY <1>1, <1>2, <1>4, Adding
<1>6. size % PAGE_SIZE = 0
  BY <1>1, <1>2, <1>3, <1>5
<1>7. Minus(Plus(addr, size), 1) = addr + size - 1
  <2>1. Plus(addr, size) = addr + size /\ addr + size \in Word
    BY <1>1, <1>2, <1>5, Adding DEF Word
  <2>2. 1 \in Word /\ 1 <= addr + size
    BY <1>1, <1>2, <1>5 DEF Word
  <2>3. PICK x \in Word : x = addr + size
    BY <2>1
  <2>4. Minus(x, 1) = x - 1
    BY <2>2, <2>3, Adding
  <2>5. Minus(Plus(addr, size), 1) = Minus(x, 1)
    BY <2>1, <2>3, Zenon
  <2>. QED BY <1>1, <1>2, <2>3, <2>4, <2>5
<1>8. /\ GetUxPageSize(addr, size) = (m - n + 1) * PAGE_SIZE
      /\ ~(m < n) /\ ~(m - n + 1 > (WordSpace - 1) \div PAGE_SIZE)
  BY <1>7 DEF GetUxPageSize
<1>9. addr + size - 1 \in Nat
  BY <1>1, <1>2
<1>10. n \in Nat /\ m \in Nat
  BY <1>1, <1>9, TablePage
<1>11. n * PAGE_SIZE \in 0..WordSpace
  BY TableStart
<1>. HIDE DEF n, m
<1>12. (m - n + 1) * PAGE_SIZE \in 0..WordSpace /\ (m - n + 1) * PAGE_SIZE > 0
  <2>1. WordSpace - 1 \in Nat /\ m - n + 1 \in Nat /\ m - n + 1 > 0
    BY <1>1, <1>8, <1>10
  <2>2. (WordSpace - 1) \div PAGE_SIZE \in Nat
    BY <1>1, <2>1, DivMod
  <2>3. PAGE_SIZE * (m - n + 1) <= WordSpace - 1
    BY <1>1, <1>8, <2>1, <2>2, DivGalois
  <2>4. (m - n + 1) * PAGE_SIZE = PAGE_SIZE * (m - n + 1)
    BY <1>1, <2>1
  <2>5. PAGE_SIZE * (m - n + 1) > 0
    BY <1>1, <2>1
  <2>. QED BY <1>1, <2>1, <2>3, <2>4, <2>5
<1>. QED BY <1>2, <1>5, <1>6, <1>8, <1>11, <1>12 DEF n, m

\* InitUxPageTable makes the table and clears its words with UxpteOps.
LEMMA Inits ==
  ASSUME AddrInv, NEW addr \in Word, NEW input \in Word, InitUxPageTable(addr, input)
  PROVE  AddrInv'
<1>. DEFINE size == RoundUp(input, PAGE_SIZE)
<1>1. /\ mapSize = 0 /\ input > 0 /\ addr % PAGE_SIZE = 0 /\ addr > 0 /\ addr + size <= WordSpace
      /\ dataSizeInput' = input /\ dataAddr' = addr /\ dataSize' = size
      /\ mapSize' = GetUxPageSize(addr, size) /\ mapOffset' = UxptePageNo(addr) * PAGE_SIZE
      /\ IF GetUxPageSize(addr, size) = 0 THEN UNCHANGED opVars ELSE StartOps(addr, size, addr, size)
  BY DEF InitUxPageTable
<1>2. size \in Word
  BY RoundingUp
<1>3. res = "none" /\ touched = {}
  BY <1>1, Sizes DEF AddrInv, AddrTypeOK, OpsInv
<1>4. CASE GetUxPageSize(addr, size) = 0
  <2>1. UNCHANGED <<opAddr, opLen, off, end, res, touched>>
    BY <1>1, <1>4 DEF opVars
  <2>2. mapOffset' \in 0..WordSpace
    <3>1. addr \in Nat /\ addr < WordSpace /\ PAGE_SIZE \in Nat \ {0} /\ WordSpace \in Nat
      BY Sizes, ZeroWord
    <3>. QED BY <1>1, <3>1, TableStart
  <2>3. AddrTypeOK'
    BY <1>1, <1>2, <1>4, <2>1, <2>2, Sizes DEF AddrInv, AddrTypeOK
  <2>4. OpsInv' /\ RangeInv'
    BY <1>1, <1>3, <1>4, <2>1 DEF OpsInv, RangeInv
  <2>. QED BY <2>3, <2>4 DEF AddrInv
<1>5. CASE GetUxPageSize(addr, size) # 0
  <2>1. /\ size % PAGE_SIZE = 0 /\ input <= size /\ size < input + PAGE_SIZE
        /\ addr + size < WordSpace
        /\ mapSize' = (UxptePageNo(addr + size - 1) - UxptePageNo(addr) + 1) * PAGE_SIZE
        /\ mapSize' \in 0..WordSpace /\ mapSize' > 0 /\ mapOffset' \in 0..WordSpace
    BY <1>1, <1>5, TableOf
  <2>2. /\ {opAddr, opLen, off, end}' \subseteq Word /\ touched' = {}
        /\ res' \in {"running", "PM_UXPT_OUT_RANGE"} /\ OpsInv'
    BY <1>1, <1>2, <1>5, <2>1, OpsStart
  <2>3. AddrTypeOK'
    BY <1>1, <1>2, <2>1, <2>2 DEF AddrTypeOK
  <2>4. RangeInv'
    BY <1>1, <2>1 DEF RangeInv, UxptePageNo, VirtPageNo
  <2>. QED BY <2>2, <2>3, <2>4 DEF AddrInv
<1>. QED BY <1>4, <1>5

\* UxpteGet, UxptePut and UxpteIsPresent on any range.
LEMMA Calls ==
  ASSUME AddrInv, NEW addr \in Word, NEW len \in Word, UxpteCall(addr, len)
  PROVE  AddrInv'
<1>1. mapSize > 0 /\ StartOps(addr, len, dataAddr, dataSize)
  BY DEF UxpteCall
<1>2. UNCHANGED <<dataSizeInput, dataAddr, dataSize, mapOffset, mapSize>>
  BY DEF UxpteCall, rangeVars
<1>3. dataAddr \in Word /\ dataSize \in Word /\ dataAddr + dataSize < WordSpace
  BY <1>1 DEF AddrInv, AddrTypeOK, RangeInv
<1>4. /\ {opAddr, opLen, off, end}' \subseteq Word /\ touched' = {}
      /\ res' \in {"running", "PM_UXPT_OUT_RANGE"} /\ OpsInv'
  BY <1>1, <1>2, <1>3, OpsStart
<1>5. AddrTypeOK'
  BY <1>2, <1>4 DEF AddrInv, AddrTypeOK
<1>6. RangeInv'
  BY <1>2 DEF AddrInv, RangeInv, UxptePageNo, VirtPageNo
<1>. QED BY <1>4, <1>5, <1>6 DEF AddrInv

\* What the loop knows: it is at a page of the object, whose end is a page below
\* the end of the space.
LEMMA InLoop ==
  ASSUME AddrInv, res \in {"running", "PM_OK", "PM_UXPT_NO_PRESENT"}
  PROVE  /\ {dataAddr, dataSize, opAddr, off, end, Start, WordSpace} \subseteq Nat /\ PAGE_SIZE \in Nat \ {0}
         /\ mapSize > 0 /\ end = Stop /\ end % PAGE_SIZE = 0 /\ Start % PAGE_SIZE = 0
         /\ dataAddr <= Start /\ end <= dataAddr + dataSize
         /\ dataAddr + dataSize + PAGE_SIZE <= WordSpace
         /\ off % PAGE_SIZE = 0 /\ Start <= off /\ (off = Start \/ off <= end)
         /\ VirtPageNo(Start) = VirtPageNo(opAddr) /\ Start <= opAddr
         /\ VirtPageNo(Start) \in Nat /\ VirtPageNo(off) \in Nat /\ VirtPageNo(Start) <= VirtPageNo(off)
<1>1. /\ {dataAddr, dataSize, opAddr, opLen, off, end} \subseteq Word
      /\ PAGE_SIZE \in Nat \ {0} /\ WordSpace \in Nat \ {0}
  BY Sizes DEF AddrInv, AddrTypeOK
<1>2. {dataAddr, dataSize, opAddr, off, end, WordSpace} \subseteq Nat
  BY <1>1, ZeroWord
<1>3. /\ mapSize > 0 /\ end = Stop /\ dataAddr <= Start /\ Stop <= dataAddr + dataSize
      /\ off % PAGE_SIZE = 0 /\ Start <= off /\ (off = Start \/ off <= end)
  BY DEF AddrInv, OpsInv
<1>4. /\ dataAddr % PAGE_SIZE = 0 /\ dataSize % PAGE_SIZE = 0 /\ dataAddr + dataSize < WordSpace
  BY <1>3 DEF AddrInv, RangeInv
<1>5. dataAddr + dataSize \in Word /\ (dataAddr + dataSize) % PAGE_SIZE = 0
  <2>1. dataAddr \in Nat /\ dataSize \in Nat
    BY <1>2
  <2>2. (dataAddr + dataSize) % PAGE_SIZE = 0
    BY <1>4, <2>1, Pages, Zenon
  <2>. QED BY <1>1, <1>4, <2>1, <2>2 DEF Word
<1>6. Plus(opAddr, opLen) \in Word
  BY <1>1, Adding
<1>7. dataAddr + dataSize + PAGE_SIZE <= WordSpace /\ end % PAGE_SIZE = 0
  BY <1>3, <1>5, <1>6, RoundingBelow DEF Stop
<1>8. /\ Start \in Nat /\ Start % PAGE_SIZE = 0 /\ Start <= opAddr
      /\ VirtPageNo(Start) = VirtPageNo(opAddr)
  BY <1>2, RoundingDown DEF Start
<1>9. VirtPageNo(Start) \in Nat /\ VirtPageNo(off) \in Nat /\ VirtPageNo(Start) <= VirtPageNo(off)
  BY <1>1, <1>2, <1>3, <1>8, DivMod, DivMonotonic DEF VirtPageNo
<1>. QED BY <1>1, <1>2, <1>3, <1>7, <1>8, <1>9

\* A round touches the word of the page it is at, and goes on or stops there.
LEMMA Rounds ==
  ASSUME AddrInv, OpsRound
  PROVE  AddrInv'
<1>1. /\ res = "running" /\ off < end
      /\ touched' = touched \cup {mapOffset \div UXPTE_SIZE + GetIndexInUxpte(dataAddr, off)}
      /\ UNCHANGED <<dataSizeInput, dataAddr, dataSize, mapOffset, mapSize, opAddr, opLen, end>>
  BY DEF OpsRound, rangeVars
<1>2. /\ {dataAddr, dataSize, opAddr, off, end, Start, WordSpace} \subseteq Nat /\ PAGE_SIZE \in Nat \ {0}
      /\ mapSize > 0 /\ end = Stop /\ end % PAGE_SIZE = 0 /\ Start % PAGE_SIZE = 0
      /\ dataAddr <= Start /\ end <= dataAddr + dataSize
      /\ dataAddr + dataSize + PAGE_SIZE <= WordSpace
      /\ off % PAGE_SIZE = 0 /\ Start <= off
      /\ VirtPageNo(Start) \in Nat /\ VirtPageNo(off) \in Nat /\ VirtPageNo(Start) <= VirtPageNo(off)
  BY <1>1, InLoop
<1>3. mapOffset \div UXPTE_SIZE + GetIndexInUxpte(dataAddr, off) = VirtPageNo(off)
  <2>1. mapOffset = UxptePageNo(dataAddr) * PAGE_SIZE
    BY <1>2 DEF AddrInv, RangeInv
  <2>2. dataAddr \in Word /\ off \in Word
    BY DEF AddrInv, AddrTypeOK
  <2>3. off <= off /\ dataAddr <= off
    BY <1>2
  <2>. QED BY <2>1, <2>2, <2>3, WordOfPage
<1>4. touched' = VirtPageNo(Start)..VirtPageNo(off)
  <2>1. touched = VirtPageNo(Start)..(VirtPageNo(off) - 1)
    BY <1>1 DEF AddrInv, OpsInv
  <2>2. touched' = (VirtPageNo(Start)..(VirtPageNo(off) - 1)) \cup {VirtPageNo(off)}
    BY <1>1, <1>3, <2>1
  <2>3. VirtPageNo(Start) \in Nat /\ VirtPageNo(off) \in Nat /\ VirtPageNo(Start) <= VirtPageNo(off)
    BY <1>2
  <2>. QED BY <2>2, <2>3
<1>5. RangeInv' /\ Start' = Start /\ Stop' = Stop
  BY <1>1 DEF AddrInv, RangeInv, UxptePageNo, VirtPageNo, Start, Stop, RoundDown, RoundUp, Plus, AddOverflows
<1>6. touched' \subseteq 0..WordSpace
  <2>1. VirtPageNo(off) <= off /\ off <= WordSpace
    BY <1>1, <1>2, DivMod DEF VirtPageNo
  <2>. QED BY <1>2, <1>4, <2>1
<1>7. off + PAGE_SIZE <= end
  BY <1>1, <1>2, Pages
<1>8. CASE off' = Plus(off, PAGE_SIZE) /\ UNCHANGED res
  <2>1. off' = off + PAGE_SIZE /\ off' \in Word
    <3>1. PAGE_SIZE \in Word /\ off \in Word
      BY <1>1, <1>2, <1>7 DEF Word
    <3>2. off + PAGE_SIZE < WordSpace /\ off + PAGE_SIZE \in Word
      <4>1. end < WordSpace
        BY <1>2
      <4>. QED BY <1>2, <1>7, <4>1 DEF Word
    <3>3. Plus(off, PAGE_SIZE) = off + PAGE_SIZE
      BY <3>1, <3>2, Adding, Zenon
    <3>. QED BY <1>8, <3>2, <3>3
  <2>2. AddrTypeOK'
    BY <1>1, <1>6, <1>8, <2>1 DEF AddrInv, AddrTypeOK
  <2>3. off' % PAGE_SIZE = 0 /\ VirtPageNo(off') = VirtPageNo(off) + 1
    BY <1>2, <2>1, Pages
  <2>4. touched' = VirtPageNo(Start)..(VirtPageNo(off') - 1)
    BY <1>2, <1>4, <2>3
  <2>5. VirtPageNo(Start)' = VirtPageNo(Start) /\ VirtPageNo(off)' = VirtPageNo(off')
    BY <1>5 DEF VirtPageNo
  <2>6. Start <= off' /\ off' <= end
    BY <1>2, <1>7, <2>1
  <2>7. res' = "running" /\ end' = end /\ mapSize' = mapSize /\ dataAddr' = dataAddr /\ dataSize' = dataSize
    BY <1>1, <1>8
  <2>8. OpsInv'
    <3>1. (dataAddr <= Start /\ Stop <= dataAddr + dataSize)'
      BY <1>2, <1>5, <2>7
    <3>2. (off % PAGE_SIZE = 0 /\ Start <= off /\ (off = Start \/ off <= end))'
      BY <1>5, <2>3, <2>6, <2>7
    <3>3. (mapSize > 0 /\ end = Stop)'
      BY <1>2, <1>5, <2>7
    <3>4. (touched = VirtPageNo(Start)..(VirtPageNo(off) - 1))'
      BY <2>4, <2>5
    <3>. QED BY <2>7, <3>1, <3>2, <3>3, <3>4 DEF OpsInv
  <2>. QED BY <1>5, <2>2, <2>8 DEF AddrInv
<1>9. CASE res' = "PM_UXPT_NO_PRESENT" /\ UNCHANGED off
  <2>1. AddrTypeOK'
    BY <1>1, <1>6, <1>9 DEF AddrInv, AddrTypeOK
  <2>2. VirtPageNo(Start)' = VirtPageNo(Start) /\ VirtPageNo(off)' = VirtPageNo(off)
    BY <1>5, <1>9 DEF VirtPageNo
  <2>3. off <= end
    BY <1>1, <1>2
  <2>4. OpsInv'
    BY <1>1, <1>2, <1>4, <1>5, <1>9, <2>2, <2>3 DEF OpsInv
  <2>. QED BY <1>5, <2>1, <2>4 DEF AddrInv
<1>. QED BY <1>8, <1>9 DEF OpsRound

(***************************************************************************)
(* AddrInv holds for every size of page, word and address space: the loop  *)
(* of UxpteOps touches the words of consecutive pages of the object.       *)
(***************************************************************************)
THEOREM AddrInvariant == AddrSpec => []AddrInv
<1>1. AddrInit => AddrInv
  BY ZeroWord, Sizes DEF AddrInit, AddrInv, AddrTypeOK, RangeInv, OpsInv
<1>2. AddrInv /\ [AddrNext]_addrVars => AddrInv'
  <2>. SUFFICES ASSUME AddrInv, [AddrNext]_addrVars
                PROVE  AddrInv'
    OBVIOUS
  <2>1. CASE \E addr, input \in Word : InitUxPageTable(addr, input)
    BY <2>1, Inits
  <2>2. CASE \E addr, len \in Word : UxpteCall(addr, len)
    BY <2>2, Calls
  <2>3. CASE OpsRound
    BY <2>3, Rounds
  <2>4. CASE OpsReturn
    <3>1. /\ res = "running" /\ off >= end /\ res' = "PM_OK"
          /\ UNCHANGED <<dataSizeInput, dataAddr, dataSize, mapOffset, mapSize,
                         opAddr, opLen, off, end, touched>>
      BY <2>4 DEF OpsReturn, rangeVars
    <3>2. RangeInv' /\ Start' = Start /\ Stop' = Stop /\ AddrTypeOK'
      BY <3>1 DEF AddrInv, AddrTypeOK, RangeInv, UxptePageNo, VirtPageNo, Start, Stop, RoundDown,
                  RoundUp, Plus, AddOverflows
    <3>3. VirtPageNo(Start)' = VirtPageNo(Start) /\ VirtPageNo(off)' = VirtPageNo(off)
      BY <3>1, <3>2 DEF VirtPageNo
    <3>4. OpsInv'
      BY <3>1, <3>2, <3>3 DEF AddrInv, OpsInv
    <3>. QED BY <3>2, <3>4 DEF AddrInv
  <2>5. CASE CallerGoesOn
    BY <2>5, ZeroWord DEF CallerGoesOn, rangeVars, AddrInv, AddrTypeOK, RangeInv, OpsInv,
                          UxptePageNo, VirtPageNo
  <2>6. CASE DeinitUxPageTable
    BY <2>6, ZeroWord, Sizes DEF DeinitUxPageTable, opVars, AddrInv, AddrTypeOK, RangeInv, OpsInv
  <2>7. CASE UNCHANGED addrVars
    <3>1. UNCHANGED <<dataSizeInput, dataAddr, dataSize, mapOffset, mapSize,
                      opAddr, opLen, off, end, res, touched>>
      BY <2>7 DEF addrVars, rangeVars, opVars
    <3>2. RangeInv' /\ Start' = Start /\ Stop' = Stop /\ AddrTypeOK'
      BY <3>1 DEF AddrInv, AddrTypeOK, RangeInv, UxptePageNo, VirtPageNo, Start, Stop, RoundDown,
                  RoundUp, Plus, AddOverflows
    <3>3. VirtPageNo(Start)' = VirtPageNo(Start) /\ VirtPageNo(off)' = VirtPageNo(off)
      BY <3>1, <3>2 DEF VirtPageNo
    <3>4. OpsInv'
      BY <3>1, <3>2, <3>3 DEF AddrInv, OpsInv
    <3>. QED BY <3>2, <3>4 DEF AddrInv
  <2>. QED BY <2>1, <2>2, <2>3, <2>4, <2>5, <2>6, <2>7 DEF AddrNext
<1>. QED BY <1>1, <1>2, PTL DEF AddrSpec

(* UxpteOps touches only words of pages of its own object, and only such as  *)
(* its mapping of the process's table has.                                   *)
THEOREM TouchesOwnWordsCorrect == AddrSpec => []TouchesOwnWords
<1>1. AddrInv => TouchesOwnWords
  <2>. SUFFICES ASSUME AddrInv, NEW w \in touched
                PROVE  /\ w \in ObjectPages
                       /\ w \in (mapOffset \div UXPTE_SIZE)..((mapOffset + mapSize) \div UXPTE_SIZE - 1)
    BY DEF TouchesOwnWords
  <2>1. res \in {"running", "PM_OK", "PM_UXPT_NO_PRESENT"}
    BY DEF AddrInv, AddrTypeOK, OpsInv
  <2>2. /\ {dataAddr, dataSize, opAddr, off, end, Start, WordSpace} \subseteq Nat /\ PAGE_SIZE \in Nat \ {0}
        /\ mapSize > 0 /\ dataAddr <= Start /\ end <= dataAddr + dataSize
        /\ end % PAGE_SIZE = 0 /\ off % PAGE_SIZE = 0 /\ Start % PAGE_SIZE = 0
        /\ dataAddr + dataSize + PAGE_SIZE <= WordSpace /\ Start <= off /\ (off = Start \/ off <= end)
        /\ VirtPageNo(Start) \in Nat /\ VirtPageNo(off) \in Nat
    BY <2>1, InLoop
  <2>3. /\ mapOffset = UxptePageNo(dataAddr) * PAGE_SIZE
        /\ mapSize = (UxptePageNo(dataAddr + dataSize - 1) - UxptePageNo(dataAddr) + 1) * PAGE_SIZE
    BY <2>2 DEF AddrInv, RangeInv
  <2>4. PICK b \in Start..(end - 1) : w = VirtPageNo(b)
    <3>1. PICK c \in Nat : Start <= c /\ c < end /\ w \in VirtPageNo(Start)..VirtPageNo(c)
      <4>1. CASE res = "PM_UXPT_NO_PRESENT"
        BY <2>2, <4>1 DEF AddrInv, OpsInv
      <4>2. CASE res # "PM_UXPT_NO_PRESENT"
        <5>1. w \in VirtPageNo(Start)..(VirtPageNo(off) - 1)
          BY <2>1, <4>2 DEF AddrInv, OpsInv
        <5>2. off # Start
          BY <2>2, <5>1
        <5>3. Start < off /\ off <= end
          BY <2>2, <5>2
        <5>4. VirtPageNo(off - 1) = VirtPageNo(off) - 1 /\ off - 1 \in Nat
          BY <2>2, <5>3, Pages
        <5>. QED BY <2>2, <5>1, <5>3, <5>4
      <4>. QED BY <4>1, <4>2
    <3>2. w \in {VirtPageNo(x) : x \in Start..c}
      BY <2>2, <3>1, PagesOfRange
    <3>. QED BY <2>2, <3>1, <3>2
  <2>5. b \in dataAddr..(dataAddr + dataSize - 1)
    BY <2>2
  <2>6. w \in ObjectPages
    BY <2>4, <2>5 DEF ObjectPages
  <2>7. /\ dataAddr \in Word /\ b \in Word /\ dataAddr + dataSize - 1 \in Word
        /\ dataAddr <= b /\ b <= dataAddr + dataSize - 1
    BY <2>2, <2>5 DEF Word
  <2>8. w \in (mapOffset \div UXPTE_SIZE)..((mapOffset + mapSize) \div UXPTE_SIZE - 1)
    BY <2>3, <2>4, <2>7, WordOfPage
  <2>. QED BY <2>6, <2>8
<1>. QED BY <1>1, AddrInvariant, PTL

(* A UxpteGet, UxptePut or UxpteIsPresent that returns PM_OK has dealt with  *)
(* exactly the pages that have a byte of its range.                          *)
THEOREM CoversRangeCorrect == AddrSpec => []CoversRange
<1>1. AddrInv => CoversRange
  <2>. SUFFICES ASSUME AddrInv, res = "PM_OK", opLen > 0, opAddr + opLen < WordSpace
                PROVE  touched = {VirtPageNo(a) : a \in opAddr..(opAddr + opLen - 1)}
    BY DEF CoversRange
  <2>. DEFINE last == opAddr + opLen - 1
  <2>1. /\ {dataAddr, dataSize, opAddr, off, end, Start, WordSpace} \subseteq Nat /\ PAGE_SIZE \in Nat \ {0}
        /\ end = Stop /\ end % PAGE_SIZE = 0 /\ off % PAGE_SIZE = 0 /\ Start % PAGE_SIZE = 0
        /\ Start <= off /\ (off = Start \/ off <= end)
        /\ VirtPageNo(Start) = VirtPageNo(opAddr) /\ Start <= opAddr
    BY InLoop
  <2>2. opAddr \in Word /\ opLen \in Word /\ opLen \in Nat
    BY ZeroWord DEF AddrInv, AddrTypeOK
  <2>3. Plus(opAddr, opLen) = opAddr + opLen /\ opAddr + opLen \in Word
    BY <2>1, <2>2, Adding DEF Word
  <2>4. opAddr + opLen <= end /\ end < opAddr + opLen + PAGE_SIZE
    BY <2>1, <2>3, RoundingUp DEF Stop
  <2>5. off = end /\ Start < end
    <3>1. off >= end
      BY DEF AddrInv, OpsInv
    <3>. QED BY <2>1, <2>2, <2>4, <3>1
  <2>6. VirtPageNo(end - 1) = VirtPageNo(end) - 1
    BY <2>1, <2>5, Pages
  <2>7. last \in Nat /\ opAddr <= last /\ last <= end - 1 /\ end - 1 \in Nat /\ end - PAGE_SIZE <= last
    BY <2>1, <2>2, <2>4
  <2>8. VirtPageNo(last) = VirtPageNo(end - 1)
    <3>. DEFINE p == VirtPageNo(end) - 1
    <3>1. VirtPageNo(end) \in Nat /\ end = PAGE_SIZE * VirtPageNo(end)
      BY <2>1, Pages, DivMod DEF VirtPageNo
    <3>2. VirtPageNo(end) > 0
      BY <2>1, <2>5, <3>1
    <3>3. p \in Nat /\ PAGE_SIZE * p = end - PAGE_SIZE
      BY <2>1, <3>1, <3>2
    <3>4. PICK r \in Nat : r = last - (end - PAGE_SIZE) /\ r < PAGE_SIZE
      BY <2>1, <2>7
    <3>5. last = PAGE_SIZE * p + r
      BY <2>1, <2>7, <3>3, <3>4
    <3>6. last \div PAGE_SIZE = p
      <4>1. last \in Nat /\ PAGE_SIZE \in Nat \ {0} /\ p \in Nat
        BY <2>1, <2>7, <3>3
      <4>. HIDE DEF last, p
      <4>2. r \in Nat /\ r < PAGE_SIZE
        BY <3>4
      <4>. QED BY <3>5, <4>1, <4>2, DivUnique
    <3>. QED BY <2>6, <3>6 DEF VirtPageNo
  <2>9. touched = VirtPageNo(Start)..(VirtPageNo(off) - 1)
    BY DEF AddrInv, OpsInv
  <2>10. touched = VirtPageNo(opAddr)..VirtPageNo(last)
    BY <2>1, <2>5, <2>6, <2>8, <2>9
  <2>. QED BY <2>1, <2>7, <2>10, PagesOfRange
<1>. QED BY <1>1, AddrInvariant, PTL

(* The range that every caller passes is in range, although the table has    *)
(* the rounded size and the call the client's.                               *)
THEOREM CallersInRangeCorrect == AddrSpec => []CallersInRange
<1>1. AddrInv => CallersInRange
  <2>. SUFFICES ASSUME AddrInv, opAddr = dataAddr, opLen = dataSizeInput, res = "PM_UXPT_OUT_RANGE"
                PROVE  FALSE
    BY DEF CallersInRange
  <2>1. mapSize > 0 /\ (Start < dataAddr \/ Stop > dataAddr + dataSize)
    BY DEF AddrInv, OpsInv
  <2>2. /\ dataAddr % PAGE_SIZE = 0 /\ dataSize % PAGE_SIZE = 0 /\ dataAddr + dataSize < WordSpace
        /\ 0 < dataSizeInput /\ dataSizeInput <= dataSize
    BY <2>1 DEF AddrInv, RangeInv
  <2>3. /\ dataAddr \in Word /\ dataSizeInput \in Word
        /\ {dataAddr, dataSize, dataSizeInput, WordSpace} \subseteq Nat
    BY ZeroWord, Sizes DEF AddrInv, AddrTypeOK
  <2>4. Start = dataAddr
    BY <2>2, <2>3, RoundingDown DEF Start
  <2>5. dataAddr + dataSize \in Word /\ (dataAddr + dataSize) % PAGE_SIZE = 0
    <3>1. dataAddr \in Nat /\ dataSize \in Nat
      BY <2>3
    <3>2. (dataAddr + dataSize) % PAGE_SIZE = 0
      BY <2>2, <3>1, Pages, Zenon
    <3>. QED BY <2>2, <2>3, <3>1, <3>2 DEF Word
  <2>6. Plus(opAddr, opLen) = dataAddr + dataSizeInput /\ dataAddr + dataSizeInput \in Word
    <3>1. dataAddr + dataSizeInput < WordSpace /\ dataAddr + dataSizeInput \in Word
      BY <2>2, <2>3 DEF Word
    <3>. QED BY <2>3, <3>1, Adding, Zenon
  <2>7. dataAddr + dataSizeInput <= dataAddr + dataSize
    BY <2>2, <2>3
  <2>8. Stop <= dataAddr + dataSize
    BY <2>5, <2>6, <2>7, RoundingBelow DEF Stop
  <2>9. Stop \in Nat
    BY <2>6, RoundingUp, ZeroWord DEF Stop
  <2>. QED BY <2>1, <2>3, <2>4, <2>8, <2>9
<1>. QED BY <1>1, AddrInvariant, PTL
===============================================================================
