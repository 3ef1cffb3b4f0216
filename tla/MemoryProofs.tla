---------------------------- MODULE MemoryProofs -----------------------------
(* Theorems of GuestMemory, for every layout of the regions and every program     *)
(* that fits between them: the table, the tracker and the host's mappings, from   *)
(* the first call to the stack of a second thread.                                *)
EXTENDS GuestMemory, FiniteSetTheorems, WellFoundedInduction, TLAPS
------------------------------------------------------------------------------
(* Numbers. *)

\* A set of naturals has a least one.
LEMMA LeastNatural ==
    ASSUME NEW T \in SUBSET Nat, T # {}
    PROVE  \E x \in T : \A y \in T : x <= y
<1> DEFINE R == OpToRel(<, Nat)
<1>1. PICK x \in T : \A y \in T : ~(<<y, x>> \in R)
  <2> HIDE DEF R
  <2> QED BY NatLessThanWellFounded, WFMin DEF R
<1>2. \A y \in T : ~(y < x)
  BY <1>1 DEF OpToRel
<1> QED BY <1>2

\* Induction: a set of naturals with 0 and with the successors of its members
\* below a limit has all naturals up to the limit.
LEMMA UpTo ==
    ASSUME NEW n \in Nat, NEW S, 0 \in S,
           \A k \in 0 .. n : k \in S /\ k < n => k + 1 \in S
    PROVE  \A k \in 0 .. n : k \in S
<1> DEFINE T == {k \in 0 .. n : k \notin S}
<1>1. SUFFICES ASSUME T # {} PROVE FALSE
  OBVIOUS
<1>2. PICK x \in T : \A y \in T : x <= y
  <2>1. T \in SUBSET Nat
    OBVIOUS
  <2> QED BY <1>1, <2>1, LeastNatural
<1>3. x \in 0 .. n /\ x \notin S /\ x # 0
  BY <1>2
<1>4. x - 1 \in 0 .. n /\ x - 1 \notin T /\ x - 1 < n
  BY <1>2, <1>3
<1>5. (x - 1) + 1 \in S
  BY <1>4
<1> QED BY <1>3, <1>5

\* A member that bounds a set is its Max, and likewise its Min.
LEMMA MaxIs ==
    ASSUME NEW S \in SUBSET Nat, NEW m \in S, \A i \in S : i <= m
    PROVE  Max(S) = m
<1>1. Max(S) \in S /\ \A i \in S : i <= Max(S)
  BY DEF Max
<1>2. Max(S) \in Nat /\ m \in Nat /\ m <= Max(S) /\ Max(S) <= m
  BY <1>1
<1> QED BY <1>2

\* The same below.
LEMMA MinIs ==
    ASSUME NEW S \in SUBSET Nat, NEW m \in S, \A i \in S : m <= i
    PROVE  Min(S) = m
<1>1. Min(S) \in S /\ \A i \in S : Min(S) <= i
  BY DEF Min
<1>2. Min(S) \in Nat /\ m \in Nat /\ Min(S) <= m /\ m <= Min(S)
  BY <1>1
<1> QED BY <1>2

\* A set of naturals with a bound has its Max.
LEMMA MaxIn ==
    ASSUME NEW n \in Nat, NEW S \in SUBSET (0 .. n), S # {}
    PROVE  Max(S) \in S /\ \A i \in S : i <= Max(S)
<1> DEFINE T == {k \in 0 .. n : n - k \in S}
<1>1. T \in SUBSET Nat /\ T # {}
  <2>1. PICK m \in S : TRUE
    OBVIOUS
  <2>2. n - m \in 0 .. n /\ n - (n - m) = m
    OBVIOUS
  <2>3. n - m \in T
    BY <2>2
  <2>4. T \in SUBSET Nat
    OBVIOUS
  <2> QED BY <2>3, <2>4
<1>2. PICK k \in T : \A j \in T : k <= j
  BY <1>1, LeastNatural
<1>3. n - k \in S /\ \A i \in S : i <= n - k
  <2>1. ASSUME NEW i \in S PROVE i <= n - k
    <3>1. i \in 0 .. n /\ n - i \in 0 .. n /\ n - (n - i) = i
      OBVIOUS
    <3>2. k <= n - i
      BY <1>2, <3>1
    <3> QED BY <3>1, <3>2
  <2> QED BY <2>1
<1>4. S \in SUBSET Nat
  OBVIOUS
<1>5. PICK m \in S : m = n - k
  BY <1>3
<1>6. Max(S) = m
  BY <1>3, <1>4, <1>5, MaxIs
<1> QED BY <1>3, <1>5, <1>6

\* Where a number lies among the pages.
LEMMA Divides ==
    ASSUME NEW n \in Nat
    PROVE  /\ n \div PageSize \in Nat /\ PageSize * (n \div PageSize) <= n
           /\ n < PageSize * (n \div PageSize) + PageSize
BY MemoryAssumption

\* Rounding up does not go below, by less than a page.
LEMMA AlignAbove ==
    ASSUME NEW n \in Nat
    PROVE  Align(n) \in Nat /\ n <= Align(n) /\ Align(n) < n + PageSize
<1> USE MemoryAssumption
<1>1. n + PageSize - 1 \in Nat
  OBVIOUS
<1>2. PICK m \in Nat : m = n + PageSize - 1
  BY <1>1
<1>3. PICK d \in Nat : d = m \div PageSize
  BY Divides
<1>4. PageSize * d <= m /\ m < PageSize * d + PageSize
  BY <1>3, Divides
<1>5. PICK q \in Nat : q = PageSize * d
  OBVIOUS
<1>6. Align(n) = q
  BY <1>2, <1>3, <1>5 DEF Align
<1> QED BY <1>2, <1>4, <1>5, <1>6

\* Rounding up keeps the order.
LEMMA AlignOrder ==
    ASSUME NEW a \in Nat, NEW b \in Nat, a <= b
    PROVE  Align(a) <= Align(b)
<1> USE MemoryAssumption
<1>1. PICK m, k \in Nat : m = a + PageSize - 1 /\ k = b + PageSize - 1
  OBVIOUS
<1>2. PICK d \in Nat : d = m \div PageSize
  BY <1>1, Divides
<1>3. PICK e \in Nat : e = k \div PageSize
  BY <1>1, Divides
<1>4. PageSize * d <= m /\ k < PageSize * e + PageSize
  BY <1>1, <1>2, <1>3, Divides
<1>5. d <= e
  <2>1. SUFFICES ASSUME e + 1 <= d PROVE FALSE
    OBVIOUS
  <2>2. PageSize * (e + 1) <= PageSize * d
    BY <2>1
  <2>3. PageSize * (e + 1) = PageSize * e + PageSize
    OBVIOUS
  <2> QED BY <1>1, <1>4, <2>2, <2>3
<1>6. d * PageSize <= e * PageSize
  BY <1>5
<1> QED BY <1>1, <1>2, <1>3, <1>6 DEF Align

\* Whole pages can be rounded up apart from the rest.
LEMMA AlignAdds ==
    ASSUME NEW a \in Nat, NEW b \in Nat
    PROVE  Align(Align(a) + b) = Align(a) + Align(b)
<1> USE MemoryAssumption
<1>1. PICK d \in Nat : Align(a) = d * PageSize
  <2>1. PICK m \in Nat : m = a + PageSize - 1
    OBVIOUS
  <2> QED BY <2>1, Divides DEF Align
<1>2. PICK k \in Nat : k = b + PageSize - 1
  OBVIOUS
<1>3. PICK e \in Nat : e = k \div PageSize
  BY Divides
<1>4. PageSize * e <= k /\ k < PageSize * e + PageSize
  BY <1>3, Divides
<1>5. PICK q \in Nat : q = d * PageSize
  OBVIOUS
<1>6. PICK f \in Nat : f = (q + k) \div PageSize
  BY Divides
<1>7. PageSize * f <= q + k /\ q + k < PageSize * f + PageSize
  BY <1>6, Divides
<1>8. f = d + e
  <2>1. PageSize * (d + e) = PageSize * d + PageSize * e /\ PageSize * d = q
    BY <1>5
  <2>2. CASE f > d + e
    <3>1. PageSize * (d + e + 1) <= PageSize * f
      BY <2>2
    <3>2. PageSize * (d + e + 1) = PageSize * (d + e) + PageSize
      OBVIOUS
    <3> QED BY <1>4, <1>7, <2>1, <3>1, <3>2
  <2>3. CASE f < d + e
    <3>1. PageSize * (f + 1) <= PageSize * (d + e)
      BY <2>3
    <3>2. PageSize * (f + 1) = PageSize * f + PageSize
      OBVIOUS
    <3> QED BY <1>4, <1>7, <2>1, <3>1, <3>2
  <2> QED BY <2>2, <2>3
<1>9. f * PageSize = d * PageSize + e * PageSize
  BY <1>8
<1>10. q + b + PageSize - 1 = q + k
  BY <1>2
<1> QED BY <1>1, <1>2, <1>3, <1>5, <1>6, <1>9, <1>10 DEF Align

\* Nothing and what is aligned stay; less than a page, but not nothing, is a page.
LEMMA AlignStays ==
    /\ Align(0) = 0 /\ Align(PageSize) = PageSize
    /\ \A n \in Nat : Align(Align(n)) = Align(n)
    /\ \A n \in 1 .. PageSize : Align(n) = PageSize
<1> USE MemoryAssumption
<1>1. Align(0) = 0
  <2>1. PICK d \in Nat : d = (0 + PageSize - 1) \div PageSize
    BY Divides
  <2>2. PageSize * d <= PageSize - 1
    BY <2>1, Divides
  <2>3. d = 0
    <3>1. d # 0 => PageSize * d >= PageSize
      OBVIOUS
    <3> QED BY <2>2, <3>1
  <2> QED BY <2>1, <2>3 DEF Align
<1>2. \A n \in Nat : Align(Align(n)) = Align(n)
  <2> TAKE n \in Nat
  <2>1. Align(Align(n) + 0) = Align(n) + Align(0) /\ Align(n) \in Nat
    BY AlignAdds, AlignAbove
  <2> QED BY <1>1, <2>1
<1>3. ASSUME NEW n \in 1 .. PageSize PROVE Align(n) = PageSize
  <2>1. PICK m \in Nat : m = n + PageSize - 1
    OBVIOUS
  <2>2. PICK d \in Nat : d = m \div PageSize
    BY Divides
  <2>3. PageSize * d <= m /\ m < PageSize * d + PageSize
    BY <2>2, Divides
  <2>4. d = 1
    <3>1. CASE d = 0
      BY <2>1, <2>3, <3>1
    <3>2. CASE d >= 2
      <4>1. PageSize * d >= PageSize * 2
        BY <3>2
      <4> QED BY <2>1, <2>3, <4>1
    <3> QED BY <3>1, <3>2
  <2> QED BY <2>1, <2>2, <2>4 DEF Align
<1> QED BY <1>1, <1>2, <1>3

\* Arithmetic that does not wrap, and the sum of what wrapped with what it lacks.
LEMMA Wraps ==
    /\ \A a, b \in 0 .. Modulus - 1 : Minus(a, b) \in 0 .. Modulus - 1 /\ Plus(a, b) \in 0 .. Modulus - 1
    /\ \A a, b \in Nat : a < Modulus /\ b <= a => Minus(a, b) = a - b
    /\ \A a, b \in Nat : a + b < Modulus => Plus(a, b) = a + b
    /\ \A a, b, c \in Nat : a < b /\ b < Modulus /\ c < Modulus /\ b <= a + c
           => Plus(c, Minus(a, b)) = (a + c) - b
<1> USE MemoryAssumption
<1>0. Modulus \in Nat \ {0}
  OBVIOUS
<1>1. \A n \in 0 .. Modulus - 1 : n % Modulus = n /\ (n + Modulus) % Modulus = n
  BY <1>0
<1>2. \A n \in Nat : n % Modulus \in 0 .. Modulus - 1
  BY <1>0
<1>3. ASSUME NEW a \in 0 .. Modulus - 1, NEW b \in 0 .. Modulus - 1
      PROVE  Minus(a, b) \in 0 .. Modulus - 1 /\ Plus(a, b) \in 0 .. Modulus - 1
  BY <1>2 DEF Minus, Plus
<1>4. ASSUME NEW a \in Nat, NEW b \in Nat, a < Modulus, b <= a
      PROVE  Minus(a, b) = a - b
  <2>1. PICK n \in 0 .. Modulus - 1 : n = a - b
    BY <1>4
  <2>2. a + Modulus - b = n + Modulus
    BY <2>1
  <2> QED BY <1>1, <2>1, <2>2 DEF Minus
<1>5. ASSUME NEW a \in Nat, NEW b \in Nat, a + b < Modulus
      PROVE  Plus(a, b) = a + b
  BY <1>1, <1>5 DEF Plus
<1>6. ASSUME NEW a \in Nat, NEW b \in Nat, NEW c \in Nat, a < b, b < Modulus, c < Modulus, b <= a + c
      PROVE  Plus(c, Minus(a, b)) = (a + c) - b
  <2>1. PICK n \in 0 .. Modulus - 1 : n = a + Modulus - b
    BY <1>6
  <2>2. Minus(a, b) = n
    BY <1>1, <2>1 DEF Minus
  <2>3. PICK k \in 0 .. Modulus - 1 : k = (a + c) - b
    BY <1>6
  <2>4. c + n = k + Modulus
    BY <2>1, <2>3
  <2> QED BY <1>1, <2>2, <2>3, <2>4 DEF Plus
<1> QED BY <1>3, <1>4, <1>5, <1>6
\* A loop of n rounds: what it has after each.
Rounds(f, n, V, base, step) ==
    /\ f \in [0 .. n -> V] /\ f[0] = base
    /\ \A i \in 1 .. n : f[i] = step[i][f[i - 1]]

\* There is such a function for each loop.
LEMMA RoundsExist ==
    ASSUME NEW n \in Nat, NEW V, NEW base \in V, NEW step \in [1 .. n -> [V -> V]]
    PROVE  \E f : Rounds(f, n, V, base, step)
<1> DEFINE S == {k \in 0 .. n : \E f : Rounds(f, k, V, base, step)}
<1>1. 0 \in S
  <2>1. Rounds([i \in 0 .. 0 |-> base], 0, V, base, step)
    BY DEF Rounds
  <2> QED BY <2>1
<1>2. ASSUME NEW k \in 0 .. n, k \in S, k < n
      PROVE  k + 1 \in S
  <2>1. PICK h : Rounds(h, k, V, base, step)
    BY <1>2
  <2>2. h \in [0 .. k -> V] /\ h[0] = base /\ \A i \in 1 .. k : h[i] = step[i][h[i - 1]]
    BY <2>1 DEF Rounds
  <2>3. PICK v : v = step[k + 1][h[k]]
    OBVIOUS
  <2>4. v \in V
    <3>1. k + 1 \in 1 .. n /\ k \in 0 .. k
      BY <1>2
    <3>2. step[k + 1] \in [V -> V] /\ h[k] \in V
      BY <2>2, <3>1
    <3> QED BY <2>3, <3>2
  <2>5. PICK f : f = [i \in 0 .. k + 1 |-> IF i = k + 1 THEN v ELSE h[i]]
    OBVIOUS
  <2>6. \A i \in 0 .. k + 1 : i = k + 1 \/ i \in 0 .. k
    OBVIOUS
  <2>7. f \in [0 .. k + 1 -> V] /\ f[k + 1] = v /\ \A i \in 0 .. k : f[i] = h[i]
    <3>1. \A i \in 0 .. k : i \in 0 .. k + 1 /\ i # k + 1
      OBVIOUS
    <3>2. k + 1 \in 0 .. k + 1
      OBVIOUS
    <3> QED BY <2>2, <2>4, <2>5, <2>6, <3>1, <3>2
  <2>8. ASSUME NEW i \in 1 .. k + 1
        PROVE  f[i] = step[i][f[i - 1]]
    <3>1. i - 1 \in 0 .. k /\ f[i - 1] = h[i - 1]
      BY <2>7
    <3>2. CASE i = k + 1
      BY <2>3, <2>7, <3>1, <3>2
    <3>3. CASE i # k + 1
      <4>1. i \in 1 .. k /\ i \in 0 .. k
        BY <3>3
      <4> QED BY <2>2, <2>7, <3>1, <4>1
    <3> QED BY <3>2, <3>3
  <2>9. f[0] = base
    BY <2>2, <2>7
  <2>10. Rounds(f, k + 1, V, base, step)
    BY <2>7, <2>8, <2>9 DEF Rounds
  <2>11. k + 1 \in 0 .. n
    BY <1>2
  <2> QED BY <2>10, <2>11
<1>3. n \in S
  <2> HIDE DEF S
  <2>1. \A k \in 0 .. n : k \in S
    BY <1>1, <1>2, UpTo
  <2> QED BY <2>1
<1> QED BY <1>3
------------------------------------------------------------------------------
\* The layout, in numbers.
LEMMA Layout ==
    /\ {PageSize, SelfTest.guest, SelfTest.back, CodeAddr, Stack.guest, Stack.back, Stack.size,
         Tls.guest, Tls.back, GuestSize, BackSize, Modulus} \subseteq Nat
    /\ PageSize # 0 /\ SelfTest.back # 0 /\ Modulus # 0
    /\ Align(CodeAddr) = CodeAddr /\ Align(Stack.size) = Stack.size /\ Stack.size >= 2 * PageSize
    /\ PageSize < SelfTest.guest /\ SelfTest.guest + PageSize < CodeAddr
    /\ Stack.guest + Stack.size < Tls.guest /\ Tls.guest + PageSize < GuestSize
    /\ SelfTest.back + PageSize <= BackSize
    /\ CodeAddr < Tls.back /\ Tls.back < Stack.back /\ Stack.back + Stack.size <= BackSize
    /\ Modulus > 2 * (GuestSize + BackSize)
<1>1. {PageSize, GuestSize, BackSize, Modulus} \subseteq Nat /\ PageSize # 0 /\ Modulus > 2 * (GuestSize + BackSize)
  BY MemoryAssumption
<1>2. /\ {SelfTest.guest, SelfTest.back, CodeAddr, Stack.guest, Stack.back, Stack.size, Tls.guest, Tls.back}
           \subseteq Nat
      /\ Align(CodeAddr) = CodeAddr /\ Align(Stack.size) = Stack.size /\ Stack.size >= 2 * PageSize
      /\ PageSize < SelfTest.guest /\ SelfTest.guest + PageSize < CodeAddr
      /\ Stack.guest + Stack.size < Tls.guest /\ Tls.guest + PageSize < GuestSize
      /\ 0 < SelfTest.back /\ SelfTest.back + PageSize <= BackSize
      /\ CodeAddr < Tls.back /\ Tls.back < Stack.back /\ Stack.back + Stack.size <= BackSize
  BY LayoutAssumption
<1> QED BY <1>1, <1>2
------------------------------------------------------------------------------
(* The program image. *)

\* What a module's header says.
LEMMA ShapeIs ==
    ASSUME NEW s \in Shapes
    PROVE  /\ {s.text, s.ro, s.data} \subseteq Nat \ {0} /\ s.bss \in Nat /\ s.valid \in BOOLEAN
           /\ ProgramSize(s) \in Nat
<1>1. {s.text, s.ro, s.data} \subseteq Nat \ {0} /\ s.bss \in Nat /\ s.valid \in BOOLEAN
  BY MemoryAssumption
<1>2. Align(s.text) \in Nat /\ Align(s.ro) \in Nat
  BY <1>1, AlignAbove
<1>3. PICK file \in Nat : file = Align(s.text) + Align(s.ro) + s.data
  BY <1>1, <1>2
<1>4. Align(file + s.bss) \in Nat
  BY <1>1, AlignAbove
<1> QED BY <1>1, <1>3, <1>4 DEF ProgramSize

\* The size of a whole program: pages of text, of ro, and of data with bss.
LEMMA ProgramIs ==
    ASSUME NEW s \in Shapes, s.valid
    PROVE  ProgramSize(s) = Align(s.text) + Align(s.ro) + Align(s.data + s.bss)
<1>1. {s.text, s.ro, s.data} \subseteq Nat \ {0} /\ s.bss \in Nat
  BY ShapeIs
<1>2. PICK t, r, d \in Nat : t = Align(s.text) /\ r = Align(s.ro) /\ d = s.data + s.bss
  BY <1>1, AlignAbove
<1>3. Align(r + d) = r + Align(d) /\ Align(t + (r + d)) = t + Align(r + d) /\ Align(d) \in Nat
  <2>1. Align(Align(s.ro) + d) = Align(s.ro) + Align(d) /\ Align(d) \in Nat
    BY <1>1, AlignAdds, AlignAbove
  <2>2. Align(Align(s.text) + (r + d)) = Align(s.text) + Align(r + d)
    BY <1>1, AlignAdds
  <2> QED BY <1>2, <2>1, <2>2
<1>4. t + r + s.data + s.bss = t + (r + d)
  BY <1>1, <1>2
<1> QED BY <1>2, <1>3, <1>4 DEF ProgramSize

\* A module that is not skipped ends behind its start, at a page's begin.
LEMMA EndIs ==
    ASSUME NEW s \in Shapes, NEW v \in Nat, Align(v) = v
    PROVE  /\ EndOf(v, s) \in Nat /\ v <= EndOf(v, s) /\ Align(EndOf(v, s)) = EndOf(v, s)
           /\ RoAt(v, s) = v + Align(s.text) /\ DataAt(v, s) = v + Align(s.text) + Align(s.ro)
<1>1. {s.text, s.ro, s.data} \subseteq Nat \ {0} /\ s.bss \in Nat
  BY ShapeIs
<1>2. PICK t, r \in Nat : t = Align(s.text) /\ r = Align(s.ro)
  BY <1>1, AlignAbove
<1>3. RoAt(v, s) = v + t
  BY <1>1, <1>2, AlignAdds DEF RoAt
<1>4. DataAt(v, s) = v + t + r
  <2>1. Align(v + s.text) = v + t /\ v + s.text \in Nat
    BY <1>1, <1>2, AlignAdds
  <2>2. Align(Align(v + s.text) + s.ro) = Align(v + s.text) + Align(s.ro)
    BY <1>1, <2>1, AlignAdds
  <2> QED BY <1>2, <2>1, <2>2 DEF DataAt, RoAt
<1>5. CASE s.valid
  <2>1. PICK x, y \in Nat : x = Align(s.data) /\ y = Align(s.data + s.bss) /\ x <= y
    BY <1>1, AlignAbove, AlignOrder
  <2>2. ProgramSize(s) = t + r + y
    BY <1>2, <1>5, <2>1, ProgramIs
  <2>3. Minus(ProgramSize(s), t + r + x) \in Nat
    <3>1. PICK n \in Nat : n = t + r + y + Modulus - (t + r + x)
      BY <2>1, MemoryAssumption
    <3>2. n % Modulus \in Nat
      BY <3>1, MemoryAssumption
    <3> QED BY <2>2, <3>1, <3>2 DEF Minus
  <2>4. Plus(s.data, Minus(ProgramSize(s), t + r + x)) \in Nat
    <3>1. PICK n \in Nat : n = s.data + Minus(ProgramSize(s), t + r + x)
      BY <1>1, <2>3
    <3>2. n % Modulus \in Nat
      BY <3>1, MemoryAssumption
    <3> QED BY <3>1, <3>2 DEF Plus
  <2>5. PICK p \in Nat : p = Plus(s.data, Minus(ProgramSize(s), t + r + x))
    BY <2>4
  <2>6. PICK d \in Nat : d = Align(p) /\ DataSize(s) = d
    BY <1>2, <2>1, <2>5, AlignAbove DEF DataSize
  <2>7. EndOf(v, s) = v + t + r + d
    BY <1>4, <1>5, <2>6 DEF EndOf
  <2>8. Align(d) = d /\ Align(r + d) = r + d /\ Align(t + (r + d)) = t + (r + d)
    <3>1. Align(d) = d
      BY <2>5, <2>6, AlignStays
    <3>2. Align(r + d) = r + d
      BY <1>1, <1>2, <3>1, AlignAdds
    <3> QED BY <1>1, <1>2, <3>1, <3>2, AlignAdds
  <2>9. Align(v + (t + (r + d))) = v + (t + (r + d))
    <3>1. Align(Align(v) + (t + (r + d))) = Align(v) + Align(t + (r + d))
      BY AlignAdds
    <3> QED BY <2>8, <3>1
  <2> QED BY <1>2, <1>3, <1>4, <2>7, <2>9
<1>6. CASE ~s.valid
  BY <1>2, <1>3, <1>4, <1>6 DEF EndOf
<1> QED BY <1>5, <1>6, ShapeIs

\* The data section takes the pages of data and bss.
LEMMA DataIs ==
    ASSUME NEW s \in Shapes, s.valid, ProgramSize(s) < GuestSize
    PROVE  DataSize(s) = Align(s.data + s.bss)
<1>1. {s.text, s.ro, s.data} \subseteq Nat \ {0} /\ s.bss \in Nat
  BY ShapeIs
<1>2. PICK t, r \in Nat : t = Align(s.text) /\ r = Align(s.ro)
  BY <1>1, AlignAbove
<1>3. PICK x, y \in Nat : x = Align(s.data) /\ y = Align(s.data + s.bss) /\ x <= y
                          /\ s.data <= x /\ Align(y) = y
  BY <1>1, AlignAbove, AlignOrder, AlignStays
<1>4. PICK size \in Nat : size = ProgramSize(s) /\ size = t + r + y
  BY <1>2, <1>3, ProgramIs
<1>5. Minus(ProgramSize(s), t + r + x) = y - x
  <2>1. size < Modulus /\ t + r + x <= size
    BY <1>3, <1>4, MemoryAssumption
  <2>2. Minus(size, t + r + x) = size - (t + r + x)
    BY <2>1, Wraps
  <2> QED BY <1>4, <2>2
<1>6. PICK n \in Nat : n = y - x
  BY <1>3
<1>7. Plus(s.data, n) = n + s.data
  <2>1. s.data + n < Modulus
    BY <1>1, <1>3, <1>4, <1>6, MemoryAssumption
  <2> QED BY <1>1, <2>1, Wraps
<1>8. Align(n) = n
  <2>1. Align(x + n) = x + Align(n) /\ x + n = y /\ Align(n) \in Nat
    <3>1. Align(Align(s.data) + n) = Align(s.data) + Align(n) /\ Align(n) \in Nat
      BY <1>1, AlignAdds, AlignAbove
    <3> QED BY <1>3, <1>6, <3>1
  <2> QED BY <1>3, <1>6, <2>1
<1>9. Align(n + s.data) = n + x
  <2>1. Align(Align(n) + s.data) = Align(n) + Align(s.data)
    BY <1>1, AlignAdds
  <2> QED BY <1>3, <1>8, <2>1
<1>10. DataSize(s) = Align(Plus(s.data, n))
  BY <1>2, <1>3, <1>5, <1>6 DEF DataSize
<1> QED BY <1>3, <1>6, <1>7, <1>9, <1>10
------------------------------------------------------------------------------
\* The addresses of the first pass.
Addresses(a, modules) ==
    /\ a \in [1 .. Modules + 1 -> {v \in Nat : Align(v) = v}] /\ a[1] = CodeAddr
    /\ \A n \in 1 .. Modules : a[n + 1] = EndOf(a[n], modules[n])

\* Starts computes them.
LEMMA StartsAre ==
    ASSUME NEW modules \in [1 .. Modules -> Shapes]
    PROVE  Addresses(Starts(modules), modules)
<1> DEFINE V == {v \in Nat : Align(v) = v}
           step == [i \in 1 .. Modules |-> [v \in V |-> EndOf(v, modules[i])]]
           Is(at) == at = [i \in 1 .. Modules + 1 |->
                              IF i = 1 THEN CodeAddr ELSE EndOf(at[i - 1], modules[i - 1])]
<1>1. Modules \in Nat \ {0} /\ CodeAddr \in V
  BY MemoryAssumption, LayoutAssumption
<1>2. step \in [1 .. Modules -> [V -> V]]
  <2>1. ASSUME NEW i \in 1 .. Modules, NEW v \in V PROVE EndOf(v, modules[i]) \in V
    BY EndIs
  <2> QED BY <2>1
<1>3. PICK f : Rounds(f, Modules, V, CodeAddr, step)
  <2> HIDE DEF step, V
  <2> QED BY <1>1, <1>2, RoundsExist
<1>4. /\ f \in [0 .. Modules -> V] /\ f[0] = CodeAddr
      /\ \A i \in 1 .. Modules : f[i] = EndOf(f[i - 1], modules[i])
  <2>1. /\ f \in [0 .. Modules -> V] /\ f[0] = CodeAddr
        /\ \A i \in 1 .. Modules : f[i] = step[i][f[i - 1]]
    BY <1>3 DEF Rounds
  <2>2. \A i \in 1 .. Modules : f[i - 1] \in V
    <3>1. \A i \in 1 .. Modules : i - 1 \in 0 .. Modules
      BY <1>1
    <3> QED BY <2>1, <3>1
  <2> QED BY <2>1, <2>2
<1>5. PICK g : g = [i \in 1 .. Modules + 1 |-> f[i - 1]]
  OBVIOUS
<1>6. g \in [1 .. Modules + 1 -> V] /\ g[1] = CodeAddr
  <2>1. \A i \in 1 .. Modules + 1 : i - 1 \in 0 .. Modules
    BY <1>1
  <2>2. 1 \in 1 .. Modules + 1 /\ 1 - 1 = 0
    BY <1>1
  <2> QED BY <1>4, <1>5, <2>1, <2>2
<1>7. ASSUME NEW i \in 1 .. Modules PROVE g[i + 1] = EndOf(g[i], modules[i])
  <2>1. i \in 1 .. Modules + 1 /\ i + 1 \in 1 .. Modules + 1 /\ (i + 1) - 1 = i
    BY <1>1
  <2> QED BY <1>4, <1>5, <2>1
<1>8. Is(g)
  <2>1. ASSUME NEW i \in 1 .. Modules + 1
        PROVE  g[i] = IF i = 1 THEN CodeAddr ELSE EndOf(g[i - 1], modules[i - 1])
    <3>1. CASE i = 1
      BY <1>6, <3>1
    <3>2. CASE i # 1
      <4>1. i - 1 \in 1 .. Modules /\ (i - 1) + 1 = i
        BY <1>1, <3>2
      <4> QED BY <1>7, <3>2, <4>1
    <3> QED BY <3>1, <3>2
  <2> QED BY <1>6, <2>1
<1>9. ASSUME NEW h, Is(h) PROVE h = g
  <2> DEFINE S == {k \in 0 .. Modules : h[k + 1] = g[k + 1]}
  <2>1. \A i \in 1 .. Modules + 1 : h[i] = IF i = 1 THEN CodeAddr ELSE EndOf(h[i - 1], modules[i - 1])
    BY <1>9
  <2>2. 0 \in S
    <3>1. 1 \in 1 .. Modules + 1 /\ 0 \in 0 .. Modules
      BY <1>1
    <3> QED BY <1>6, <2>1, <3>1
  <2>3. ASSUME NEW k \in 0 .. Modules, k \in S, k < Modules PROVE k + 1 \in S
    <3>1. k + 1 \in 1 .. Modules /\ (k + 1) + 1 \in 1 .. Modules + 1 /\ (k + 1) + 1 # 1
          /\ ((k + 1) + 1) - 1 = k + 1
      BY <1>1, <2>3
    <3>2. h[(k + 1) + 1] = EndOf(h[k + 1], modules[k + 1])
      BY <2>1, <3>1
    <3>3. g[(k + 1) + 1] = EndOf(g[k + 1], modules[k + 1])
      BY <1>7, <3>1
    <3>4. k + 1 \in 0 .. Modules
      BY <1>1, <2>3
    <3> QED BY <2>3, <3>2, <3>3, <3>4
  <2>4. \A k \in 0 .. Modules : k \in S
    <3> HIDE DEF S
    <3> QED BY <1>1, <2>2, <2>3, UpTo
  <2>5. ASSUME NEW i \in 1 .. Modules + 1 PROVE h[i] = g[i]
    <3>1. i - 1 \in 0 .. Modules /\ (i - 1) + 1 = i
      BY <1>1
    <3> QED BY <2>4, <3>1
  <2>6. g = [i \in 1 .. Modules + 1 |-> g[i]] /\ h = [i \in 1 .. Modules + 1 |-> h[i]]
    <3>1. g = [i \in 1 .. Modules + 1 |-> g[i]]
      BY <1>6
    <3>2. h = [i \in 1 .. Modules + 1 |-> h[i]]
      BY <1>9
    <3> QED BY <3>1, <3>2
  <2> QED BY <2>5, <2>6
<1>10. Starts(modules) = CHOOSE at : Is(at)
  BY DEF Starts
<1>11. Starts(modules) = g
  <2> HIDE DEF Is
  <2> QED BY <1>8, <1>9, <1>10
<1> QED BY <1>6, <1>7, <1>11 DEF Addresses
------------------------------------------------------------------------------
\* The addresses of the first pass ascend.
LEMMA AddressesAscend ==
    ASSUME NEW modules \in [1 .. Modules -> Shapes], NEW a, Addresses(a, modules),
           NEW i \in 1 .. Modules + 1, NEW j \in 1 .. Modules + 1, i <= j
    PROVE  a[i] \in Nat /\ a[j] \in Nat /\ a[i] <= a[j]
<1> DEFINE S == {k \in 0 .. Modules : k + 1 >= i => a[i] <= a[k + 1]}
<1>1. Modules \in Nat
  BY MemoryAssumption
<1>2. \A n \in 1 .. Modules + 1 : a[n] \in Nat /\ Align(a[n]) = a[n]
  BY DEF Addresses
<1>3. 0 \in S
  BY <1>1, <1>2
<1>4. ASSUME NEW k \in 0 .. Modules, k \in S, k < Modules PROVE k + 1 \in S
  <2>1. k + 1 \in 0 .. Modules /\ k + 1 \in 1 .. Modules /\ (k + 1) + 1 \in 1 .. Modules + 1
        /\ k + 1 \in 1 .. Modules + 1
    BY <1>1, <1>4
  <2>2. SUFFICES ASSUME (k + 1) + 1 >= i PROVE a[i] <= a[(k + 1) + 1]
    BY <2>1
  <2>3. CASE i = (k + 1) + 1
    BY <1>2, <2>3
  <2>4. CASE i # (k + 1) + 1
    <3>1. a[i] <= a[k + 1]
      BY <1>1, <1>4, <2>2, <2>4
    <3>2. a[(k + 1) + 1] = EndOf(a[k + 1], modules[k + 1]) /\ modules[k + 1] \in Shapes
      BY <2>1 DEF Addresses
    <3>3. a[k + 1] <= a[(k + 1) + 1]
      BY <1>2, <2>1, <3>2, EndIs
    <3> QED BY <1>2, <2>1, <3>1, <3>3
  <2> QED BY <2>3, <2>4
<1>5. \A k \in 0 .. Modules : k \in S
  <2> HIDE DEF S
  <2> QED BY <1>1, <1>3, <1>4, UpTo
<1>6. j - 1 \in 0 .. Modules /\ (j - 1) + 1 = j
  BY <1>1
<1>7. a[i] <= a[j]
  BY <1>5, <1>6
<1> QED BY <1>2, <1>7

\* The last module at each address.
LastAt(plan, a, modules) ==
    /\ DOMAIN plan = {a[i] : i \in 1 .. Modules}
    /\ \A v \in DOMAIN plan :
          \E i \in 1 .. Modules : /\ v = a[i] /\ plan[v] = modules[i]
                                  /\ \A j \in 1 .. Modules : a[j] = v => j <= i

\* The plan has the last module at each address; what is reserved ends with the last of all.
LEMMA ModulesAre ==
    ASSUME NEW modules \in [1 .. Modules -> Shapes], NEW a, Addresses(a, modules)
    PROVE  /\ LastAt(ModulesOf(modules), a, modules)
           /\ ReserveSize(modules) = a[Modules] + ProgramSize(modules[Modules]) - CodeAddr
           /\ ReserveSize(modules) \in Nat
<1>1. Modules \in Nat \ {0} /\ Modules \in 1 .. Modules
  BY MemoryAssumption
<1>2. \A at : Addresses(at, modules) => at = a
  <2> SUFFICES ASSUME NEW at, Addresses(at, modules) PROVE at = a
    OBVIOUS
  <2> DEFINE S == {k \in 0 .. Modules : at[k + 1] = a[k + 1]}
  <2>1. 0 \in S
    BY <1>1 DEF Addresses
  <2>2. ASSUME NEW k \in 0 .. Modules, k \in S, k < Modules PROVE k + 1 \in S
    <3>1. k + 1 \in 1 .. Modules /\ k + 1 \in 0 .. Modules
      BY <1>1, <2>2
    <3>2. at[(k + 1) + 1] = EndOf(at[k + 1], modules[k + 1])
      BY <3>1 DEF Addresses
    <3>3. a[(k + 1) + 1] = EndOf(a[k + 1], modules[k + 1])
      BY <3>1 DEF Addresses
    <3> QED BY <2>2, <3>1, <3>2, <3>3
  <2>3. \A k \in 0 .. Modules : k \in S
    <3> HIDE DEF S
    <3> QED BY <1>1, <2>1, <2>2, UpTo
  <2>4. \A i \in 1 .. Modules + 1 : at[i] = a[i]
    <3> TAKE i \in 1 .. Modules + 1
    <3>1. i - 1 \in 0 .. Modules /\ (i - 1) + 1 = i
      BY <1>1
    <3> QED BY <2>3, <3>1
  <2>5. at = [i \in 1 .. Modules + 1 |-> at[i]] /\ a = [i \in 1 .. Modules + 1 |-> a[i]]
    BY DEF Addresses
  <2> QED BY <2>4, <2>5
<1>3. Starts(modules) = a
  BY <1>2, StartsAre
<1>4. PICK D : D = {a[i] : i \in 1 .. Modules}
  OBVIOUS
<1>5. PICK plan : plan = [v \in D |-> modules[Max({i \in 1 .. Modules : a[i] = v})]]
  OBVIOUS
<1>6. ModulesOf(modules) = plan
  BY <1>3, <1>4, <1>5 DEF ModulesOf
<1>7. ASSUME NEW v \in D
      PROVE  \E i \in 1 .. Modules : /\ v = a[i] /\ plan[v] = modules[i]
                                     /\ \A j \in 1 .. Modules : a[j] = v => j <= i
  <2>1. PICK S : S = {i \in 1 .. Modules : a[i] = v}
    OBVIOUS
  <2>2. S \in SUBSET (0 .. Modules) /\ S # {}
    BY <1>1, <1>4, <2>1
  <2>3. Max(S) \in S /\ \A i \in S : i <= Max(S)
    BY <1>1, <2>2, MaxIn
  <2>4. plan[v] = modules[Max(S)]
    BY <1>5, <2>1
  <2> QED BY <2>1, <2>3, <2>4
<1>8. \A i \in 1 .. Modules : a[i] \in Nat /\ a[i] <= a[Modules]
  <2> TAKE i \in 1 .. Modules
  <2>1. i \in 1 .. Modules + 1 /\ Modules \in 1 .. Modules + 1 /\ i <= Modules
    BY <1>1
  <2> QED BY <2>1, AddressesAscend
<1>9. Max(D) = a[Modules]
  <2>1. D \in SUBSET Nat /\ a[Modules] \in D
    BY <1>1, <1>4, <1>8
  <2>2. \A v \in D : v <= a[Modules]
    BY <1>4, <1>8
  <2> QED BY <2>1, <2>2, MaxIs
<1>10. plan[a[Modules]] = modules[Modules]
  <2>1. a[Modules] \in D
    BY <1>1, <1>4
  <2>2. PICK i \in 1 .. Modules : /\ plan[a[Modules]] = modules[i]
                                  /\ \A j \in 1 .. Modules : a[j] = a[Modules] => j <= i
    BY <1>7, <2>1
  <2>3. Modules <= i
    BY <1>1, <2>2
  <2>4. i = Modules
    BY <1>1, <2>3
  <2> QED BY <2>2, <2>4
<1>11. ReserveSize(modules) = a[Modules] + ProgramSize(modules[Modules]) - CodeAddr
  <2>1. DOMAIN plan = D
    BY <1>5
  <2> QED BY <1>6, <1>9, <1>10, <2>1 DEF ReserveSize
<1>12. ReserveSize(modules) \in Nat
  <2>1. CodeAddr <= a[Modules]
    BY <1>1, <1>8 DEF Addresses
  <2>2. ProgramSize(modules[Modules]) \in Nat
    BY <1>1, ShapeIs
  <2>3. PICK x, y, c \in Nat : x = a[Modules] /\ y = ProgramSize(modules[Modules]) /\ c = CodeAddr
    BY <1>1, <1>8, <2>2, Layout
  <2>4. c <= x /\ ReserveSize(modules) = x + y - c
    BY <1>11, <2>1, <2>3
  <2>5. x + y - c \in Nat
    BY <2>4
  <2> QED BY <2>4, <2>5
<1>13. DOMAIN plan = D
  BY <1>5
<1>14. LastAt(plan, a, modules)
  BY <1>4, <1>7, <1>13 DEF LastAt
<1> QED BY <1>6, <1>11, <1>12, <1>14

\* Every module is as small as a program that fits.
LEMMA ShapeFits ==
    ASSUME NEW s \in Shapes
    PROVE  ProgramSize(s) < GuestSize
<1>1. PICK modules : modules = [i \in 1 .. Modules |-> s]
  OBVIOUS
<1>2. modules \in [1 .. Modules -> Shapes]
  BY <1>1
<1>3. PICK a : Addresses(a, modules)
  BY <1>2, StartsAre
<1>4. Modules \in 1 .. Modules /\ Modules \in 1 .. Modules + 1 /\ 1 \in 1 .. Modules + 1 /\ 1 <= Modules
  BY MemoryAssumption
<1>5. ReserveSize(modules) = a[Modules] + ProgramSize(s) - CodeAddr /\ ReserveSize(modules) \in Nat
  BY <1>1, <1>2, <1>3, <1>4, ModulesAre
<1>6. a[Modules] \in Nat /\ CodeAddr <= a[Modules]
  <2>1. a[1] \in Nat /\ a[Modules] \in Nat /\ a[1] <= a[Modules]
    BY <1>2, <1>3, <1>4, AddressesAscend
  <2> QED BY <1>3, <2>1 DEF Addresses
<1>7. CodeAddr + Align(ReserveSize(modules)) < Stack.guest
  BY <1>2, LayoutAssumption
<1>8. ReserveSize(modules) <= Align(ReserveSize(modules)) /\ Align(ReserveSize(modules)) \in Nat
  BY <1>5, AlignAbove
<1>9. ProgramSize(s) \in Nat
  BY ShapeIs
<1> QED BY <1>5, <1>6, <1>7, <1>8, <1>9, Layout

\* Where the reserved code ends.
EndOfCode(modules) == CodeAddr + Align(ReserveSize(modules))

\* The code lies between the self test and the stacks, whole pages of it.
LEMMA CodeFits ==
    ASSUME NEW modules \in [1 .. Modules -> Shapes]
    PROVE  /\ EndOfCode(modules) \in Nat /\ CodeAddr <= EndOfCode(modules)
           /\ EndOfCode(modules) < Stack.guest /\ EndOfCode(modules) <= Stack.back
<1>1. ReserveSize(modules) \in Nat
  BY StartsAre, ModulesAre
<1>2. Align(ReserveSize(modules)) \in Nat
  BY <1>1, AlignAbove
<1> QED BY <1>2, LayoutAssumption DEF EndOfCode

\* The sections of the module at an address of the plan: they follow one another, and end
\* inside the code at the next address.
LEMMA ModuleFits ==
    ASSUME NEW modules \in [1 .. Modules -> Shapes], NEW a, Addresses(a, modules),
           NEW v \in DOMAIN ModulesOf(modules), NEW s, s = ModulesOf(modules)[v], s.valid
    PROVE  /\ s \in Shapes /\ {s.text, s.ro, DataSize(s)} \subseteq Nat \ {0}
           /\ v \in Nat /\ CodeAddr <= v
           /\ RoAt(v, s) = v + Align(s.text)
           /\ DataAt(v, s) = RoAt(v, s) + Align(s.ro)
           /\ EndOf(v, s) = DataAt(v, s) + Align(DataSize(s))
           /\ EndOf(v, s) <= EndOfCode(modules)
           /\ \E i \in 1 .. Modules + 1 : EndOf(v, s) = a[i]
<1>1. Modules \in Nat \ {0}
  BY MemoryAssumption
<1>2. PICK i \in 1 .. Modules : v = a[i] /\ s = modules[i]
  <2>1. LastAt(ModulesOf(modules), a, modules)
    BY ModulesAre
  <2> QED BY <2>1 DEF LastAt
<1>3. s \in Shapes /\ {s.text, s.ro, s.data} \subseteq Nat \ {0} /\ s.bss \in Nat
  BY <1>2, ShapeIs
<1>4. PICK t, r, d \in Nat : t = Align(s.text) /\ r = Align(s.ro) /\ d = Align(s.data + s.bss) /\ Align(d) = d
                             /\ s.data + s.bss <= d
  <2>1. s.data + s.bss \in Nat
    BY <1>3
  <2>2. Align(s.text) \in Nat /\ Align(s.ro) \in Nat /\ Align(s.data + s.bss) \in Nat
        /\ s.data + s.bss <= Align(s.data + s.bss)
    BY <1>3, <2>1, AlignAbove
  <2> QED BY <2>1, <2>2, AlignStays
<1>5. v \in Nat /\ Align(v) = v
  <2>1. i \in 1 .. Modules + 1
    BY <1>1
  <2> QED BY <1>2, <2>1 DEF Addresses
<1>6. RoAt(v, s) = v + t /\ DataAt(v, s) = v + t + r
  BY <1>3, <1>4, <1>5, EndIs
<1>7. DataSize(s) = d /\ ProgramSize(s) = t + r + d
  BY <1>3, <1>4, ShapeFits, DataIs, ProgramIs
<1>8. EndOf(v, s) = v + t + r + d
  BY <1>6, <1>7 DEF EndOf
<1>9. i + 1 \in 1 .. Modules + 1 /\ i \in 1 .. Modules + 1 /\ Modules \in 1 .. Modules + 1
      /\ 1 \in 1 .. Modules + 1 /\ Modules \in 1 .. Modules
  BY <1>1
<1>10. EndOf(v, s) = a[i + 1]
  BY <1>2 DEF Addresses
<1>11. CodeAddr <= v
  <2>1. a[1] <= a[i]
    BY <1>1, <1>9, AddressesAscend
  <2> QED BY <1>2, <2>1 DEF Addresses
<1>12. EndOf(v, s) <= EndOfCode(modules)
  <2>1. PICK size \in Nat : size = ReserveSize(modules)
    BY ModulesAre
  <2>2. a[Modules] + ProgramSize(modules[Modules]) - CodeAddr = size /\ a[Modules] \in Nat
    <3>1. a[Modules] \in Nat
      BY <1>9, AddressesAscend
    <3> QED BY <2>1, <3>1, ModulesAre
  <2>3. size <= Align(size) /\ Align(size) \in Nat
    BY <2>1, AlignAbove
  <2>4. PICK last \in Nat : last = ProgramSize(modules[Modules])
    BY <1>9, ShapeIs
  <2>5. a[Modules] + last <= EndOfCode(modules)
    <3>1. EndOfCode(modules) = CodeAddr + Align(size) /\ CodeAddr \in Nat
      BY <2>1, Layout DEF EndOfCode
    <3>2. a[Modules] + last - CodeAddr = size
      BY <2>2, <2>4
    <3> QED BY <2>2, <2>3, <2>4, <3>1, <3>2
  <2>6. CASE i = Modules
    <3>1. last = t + r + d /\ v = a[Modules]
      BY <1>2, <1>7, <2>4, <2>6
    <3>2. v + t + r + d = v + last
      <4>1. PICK x \in Nat : x = v
        BY <1>5
      <4>2. x + t + r + d = x + (t + r + d)
        OBVIOUS
      <4> QED BY <3>1, <4>1, <4>2
    <3>3. EndOf(v, s) = a[Modules] + last
      BY <1>8, <3>1, <3>2
    <3> QED BY <2>5, <3>3
  <2>7. CASE i # Modules
    <3>1. a[i + 1] <= a[Modules] /\ a[i + 1] \in Nat
      BY <1>1, <1>9, <2>7, AddressesAscend
    <3>2. EndOfCode(modules) \in Nat
      BY CodeFits
    <3> QED BY <1>10, <2>2, <2>4, <2>5, <3>1, <3>2
  <2> QED BY <2>6, <2>7
<1>13. \E j \in 1 .. Modules + 1 : EndOf(v, s) = a[j]
  BY <1>9, <1>10
<1>14. d \in Nat \ {0}
  BY <1>3, <1>4
<1>15. EndOf(v, s) = DataAt(v, s) + Align(DataSize(s)) /\ DataAt(v, s) = RoAt(v, s) + Align(s.ro)
  BY <1>4, <1>5, <1>6, <1>7, <1>8
<1>16. {s.text, s.ro, DataSize(s)} \subseteq Nat \ {0}
  BY <1>3, <1>7, <1>14
<1> QED BY <1>3, <1>4, <1>5, <1>6, <1>11, <1>12, <1>13, <1>15, <1>16

\* The second pass stops where the first one did.
LEMMA PassesAgree ==
    ASSUME NEW modules \in [1 .. Modules -> Shapes], NEW a, Addresses(a, modules),
           NEW v, \E i \in 1 .. Modules + 1 : v = a[i],
           ~(v \in DOMAIN ModulesOf(modules) /\ ModulesOf(modules)[v].valid)
    PROVE  v = a[Modules + 1]
<1>1. Modules \in Nat \ {0} /\ Modules \in 1 .. Modules
  BY MemoryAssumption
<1>2. CASE v \in DOMAIN ModulesOf(modules)
  <2>1. PICK i \in 1 .. Modules : /\ v = a[i] /\ ModulesOf(modules)[v] = modules[i]
                                  /\ \A j \in 1 .. Modules : a[j] = v => j <= i
    <3>1. LastAt(ModulesOf(modules), a, modules)
      BY ModulesAre
    <3> QED BY <1>2, <3>1 DEF LastAt
  <2>2. a[i + 1] = v
    BY <1>2, <2>1 DEF Addresses, EndOf
  <2>3. i = Modules
    <3>1. SUFFICES ASSUME i # Modules PROVE FALSE
      OBVIOUS
    <3>2. i + 1 \in 1 .. Modules
      BY <1>1, <3>1
    <3> QED BY <2>1, <2>2, <3>2
  <2> QED BY <2>2, <2>3
<1>3. CASE v \notin DOMAIN ModulesOf(modules)
  <2>1. PICK i \in 1 .. Modules + 1 : v = a[i]
    OBVIOUS
  <2>2. i \notin 1 .. Modules
    <3>1. LastAt(ModulesOf(modules), a, modules)
      BY ModulesAre
    <3> QED BY <1>3, <2>1, <3>1 DEF LastAt
  <2> QED BY <1>1, <2>1, <2>2
<1> QED BY <1>2, <1>3
------------------------------------------------------------------------------
(* The operations of MemoryNx. *)

BlockType == [base : Addr, size : Addr, state : States, old : States]
BlocksOK(b) == \A k \in DOMAIN b : k \in Addr /\ b[k] \in BlockType

\* A state of MemoryNx without cached pointers to erased blocks.
MemOK(m) ==
    /\ m = [blocks |-> m.blocks, flat |-> m.flat, stale |-> m.stale,
            tracker |-> m.tracker, host |-> m.host]
    /\ BlocksOK(m.blocks) /\ m.flat \subseteq Addr /\ m.stale = {}

\* The key that is last before an address.
LEMMA BelowIs ==
    ASSUME NEW map, DOMAIN map \subseteq Nat, NEW p \in Nat, NEW k \in DOMAIN map, k <= p,
           \A j \in DOMAIN map : j <= p => j <= k
    PROVE  Below(map, p) = k
<1>1. PICK S : S = {j \in DOMAIN map : j <= p}
  OBVIOUS
<1>2. S \in SUBSET Nat /\ k \in S /\ \A j \in S : j <= k
  BY <1>1
<1>3. Max(S) = k
  BY <1>2, MaxIs
<1> QED BY <1>1, <1>3 DEF Below

\* insert_or_assign.
LEMMA InsertIs ==
    ASSUME NEW map, NEW key, NEW value
    PROVE  /\ DOMAIN InsertOrAssign(map, key, value) = DOMAIN map \cup {key}
           /\ InsertOrAssign(map, key, value)[key] = value
           /\ \A k \in DOMAIN map : k # key => InsertOrAssign(map, key, value)[k] = map[k]
BY DEF InsertOrAssign

\* A block that starts at an address is found there, unless its end has wrapped.
LEMMA FoundIs ==
    ASSUME NEW m, DOMAIN m.blocks \subseteq Nat, NEW addr \in DOMAIN m.blocks,
           m.blocks[addr].size \in Nat, addr + m.blocks[addr].size < Modulus
    PROVE  /\ Found(m, addr) = addr /\ Found(m, addr) # None
           /\ Cached(m, addr) = [m EXCEPT !.flat = @ \cup {addr}]
<1>1. addr \in Nat
  OBVIOUS
<1>2. Below(m.blocks, addr) = addr
  BY <1>1, BelowIs
<1>3. Plus(addr, m.blocks[addr].size) = addr + m.blocks[addr].size
  BY <1>1, Wraps
<1>4. ~(Plus(addr, m.blocks[addr].size) < addr)
  BY <1>1, <1>3
<1>5. Found(m, addr) = addr
  BY <1>2, <1>4 DEF Found
<1>6. addr # None
  BY <1>1, Layout DEF None
<1> QED BY <1>5, <1>6 DEF Cached

\* No block is found behind the end of the last one.
LEMMA FoundNone ==
    ASSUME NEW m, DOMAIN m.blocks \subseteq Nat, NEW addr \in Nat, addr \notin m.flat,
           NEW k \in DOMAIN m.blocks, k <= addr, \A j \in DOMAIN m.blocks : j <= addr => j <= k,
           m.blocks[k].size \in Nat, k + m.blocks[k].size < addr, addr < Modulus
    PROVE  Found(m, addr) = None
<1>1. Below(m.blocks, addr) = k
  BY BelowIs
<1>2. PICK x, y, n \in Nat : x = k /\ y = m.blocks[k].size /\ n = Modulus
  BY Layout
<1>3. x + y < addr /\ addr < n
  BY <1>2
<1>4. x + y < Modulus
  BY <1>2, <1>3
<1>5. Plus(x, y) = x + y
  BY <1>2, <1>4, Wraps
<1>6. Plus(k, m.blocks[k].size) < addr
  BY <1>2, <1>3, <1>5
<1> QED BY <1>1, <1>6 DEF Found

\* A block split in one: what is before it, the new one, and what is left, at the place the
\* code gives it.
SplitOf(c, b, first, addr, phys, size, type) ==
    /\ DOMAIN c = DOMAIN b \cup {first + size, addr}
    /\ c[addr] = Block(phys, size, type)
    /\ first + size # addr =>
          c[first + size] = [b[first] EXCEPT !.size = Minus(Plus(first, @), addr + size)]
    /\ first \notin {addr, first + size} => c[first] = [b[first] EXCEPT !.size = addr - first]
    /\ \A k \in DOMAIN b \ {first, addr, first + size} : c[k] = b[k]

\* SplitBlocks does that.
LEMMA SplitIs ==
    ASSUME NEW b, BlocksOK(b), NEW first \in DOMAIN b, NEW addr \in Addr, first <= addr,
           NEW size \in Nat, addr + size \in Addr, NEW phys \in Addr, NEW type \in States
    PROVE  /\ SplitOf(SplitBlocks(b, first, addr, phys, size, type), b, first, addr, phys, size, type)
           /\ BlocksOK(SplitBlocks(b, first, addr, phys, size, type))
<1>1. first \in Addr /\ b[first] \in BlockType
  BY DEF BlocksOK
<1>2. PICK x \in Addr : x = Minus(Plus(first, b[first].size), addr + size)
  <2>1. b[first].size \in Addr
    BY <1>1 DEF BlockType
  <2>2. Plus(first, b[first].size) \in Addr
    BY <1>1, <2>1, Wraps DEF Addr
  <2> QED BY <2>2, Wraps DEF Addr
<1>3. PICK rest : rest = [b[first] EXCEPT !.size = Minus(Plus(first, @), addr + size)]
  OBVIOUS
<1>4. rest = [b[first] EXCEPT !.size = x] /\ rest \in BlockType
  BY <1>1, <1>2, <1>3 DEF BlockType
<1>5. PICK shrunk : shrunk = [b EXCEPT ![first].size = addr - first]
  OBVIOUS
<1>6. /\ DOMAIN shrunk = DOMAIN b /\ shrunk[first] = [b[first] EXCEPT !.size = addr - first]
      /\ \A k \in DOMAIN b : k # first => shrunk[k] = b[k]
  BY <1>5
<1>7. addr - first \in Addr
  BY <1>1, Layout DEF Addr
<1>8. BlocksOK(shrunk)
  <2>1. shrunk[first] \in BlockType
    BY <1>1, <1>6, <1>7 DEF BlockType
  <2> QED BY <1>6, <2>1 DEF BlocksOK
<1>9. PICK one : one = InsertOrAssign(shrunk, first + size, rest)
  OBVIOUS
<1>10. PICK c : c = InsertOrAssign(one, addr, Block(phys, size, type))
  OBVIOUS
<1>11. SplitBlocks(b, first, addr, phys, size, type) = c
  BY <1>3, <1>5, <1>9, <1>10 DEF SplitBlocks
<1>12. /\ DOMAIN one = DOMAIN b \cup {first + size} /\ one[first + size] = rest
       /\ \A k \in DOMAIN b : k # first + size => one[k] = shrunk[k]
  BY <1>6, <1>9 DEF InsertOrAssign
<1>13. /\ DOMAIN c = DOMAIN one \cup {addr} /\ c[addr] = Block(phys, size, type)
       /\ \A k \in DOMAIN one : k # addr => c[k] = one[k]
  BY <1>10 DEF InsertOrAssign
<1>14. SplitOf(c, b, first, addr, phys, size, type)
  BY <1>3, <1>6, <1>12, <1>13 DEF SplitOf
<1>15. first + size \in Addr /\ size \in Addr
  BY <1>1, Layout DEF Addr
<1>16. Block(phys, size, type) \in BlockType
  <2>1. "Free" \in States
    BY DEF States
  <2> QED BY <1>15, <2>1 DEF BlockType, Block
<1>17. BlocksOK(one)
  BY <1>4, <1>8, <1>6, <1>12, <1>15 DEF BlocksOK
<1>18. BlocksOK(c)
  BY <1>13, <1>16, <1>17 DEF BlocksOK
<1> QED BY <1>11, <1>14, <1>18

\* The end of Allocate: the block gets its type.
TypedAs(n, m, addr, type) ==
    /\ n.blocks = [m.blocks EXCEPT ![addr].state = type]
    /\ n.flat \subseteq m.flat \cup {addr}
    /\ n.tracker = m.tracker /\ n.host = m.host

\* The block at an address is found again, and stays valid.
LEMMA ReprotectedIs ==
    ASSUME NEW m, MemOK(m), NEW addr \in DOMAIN m.blocks,
           addr + m.blocks[addr].size < Modulus, NEW size, NEW type \in States,
           NEW changed \in BOOLEAN, changed
    PROVE  \E n : /\ Reprotected(m, addr, size, type, changed, addr) = [mem |-> n, fate |-> "ok", at |-> addr]
                  /\ MemOK(n) /\ TypedAs(n, m, addr, type)
<1>1. DOMAIN m.blocks \subseteq Nat /\ m.blocks[addr] \in BlockType /\ addr \in Addr
  BY DEF MemOK, BlocksOK, Addr
<1>2. m.blocks[addr].size \in Nat
  BY <1>1 DEF BlockType, Addr
<1>3. Found(m, addr) = addr /\ Cached(m, addr) = [m EXCEPT !.flat = @ \cup {addr}]
  BY <1>1, <1>2, FoundIs
<1>4. PICK flat : flat = m.flat \cup {addr}
  OBVIOUS
<1>5. PICK b : b = [m.blocks EXCEPT ![addr].state = type]
  OBVIOUS
<1>6. PICK typed : typed = [blocks |-> b, flat |-> flat, stale |-> {}, tracker |-> m.tracker, host |-> m.host]
  OBVIOUS
<1>7. [Cached(m, addr) EXCEPT !.blocks[addr].state = type] = typed
  <2>1. m = [blocks |-> m.blocks, flat |-> m.flat, stale |-> {}, tracker |-> m.tracker, host |-> m.host]
    BY DEF MemOK
  <2>2. PICK c : c = [m EXCEPT !.flat = @ \cup {addr}]
    OBVIOUS
  <2>3. c = [blocks |-> m.blocks, flat |-> flat, stale |-> {}, tracker |-> m.tracker, host |-> m.host]
    BY <1>4, <2>1, <2>2
  <2>4. [c EXCEPT !.blocks[addr].state = type] = [c EXCEPT !.blocks = [c.blocks EXCEPT ![addr].state = type]]
    OBVIOUS
  <2>5. c.blocks = m.blocks
    BY <2>3
  <2>6. [c EXCEPT !.blocks = b] = typed
    BY <1>6, <2>3
  <2> QED BY <1>3, <1>5, <2>2, <2>4, <2>5, <2>6
<1>8. PICK reset \in BOOLEAN : reset = (\E f \in flat : f + size < addr)
  OBVIOUS
<1>9. PICK n : n = [typed EXCEPT !.flat = IF reset THEN {} ELSE @, !.stale = IF reset THEN {} ELSE @]
  OBVIOUS
<1>10. Reprotected(m, addr, size, type, changed, addr) = [mem |-> n, fate |-> "ok", at |-> addr]
  <2>1. typed.flat = flat
    BY <1>6
  <2>2. (\E f \in typed.flat : f + size < addr) = reset
    BY <1>8, <2>1
  <2> QED BY <1>3, <1>7, <1>9, <2>2 DEF Reprotected
<1>11. n = [blocks |-> b, flat |-> IF reset THEN {} ELSE flat, stale |-> {}, tracker |-> m.tracker,
            host |-> m.host]
  BY <1>6, <1>9
<1>12. BlocksOK(b)
  <2>1. b[addr] \in BlockType
    BY <1>1, <1>5 DEF BlockType
  <2>2. DOMAIN b = DOMAIN m.blocks /\ \A k \in DOMAIN m.blocks : k # addr => b[k] = m.blocks[k]
    BY <1>5
  <2> QED BY <2>1, <2>2 DEF MemOK, BlocksOK
<1>13. n.flat \subseteq m.flat \cup {addr} /\ n.flat \subseteq Addr
  BY <1>1, <1>4, <1>11 DEF MemOK
<1>14. MemOK(n)
  BY <1>11, <1>12, <1>13 DEF MemOK
<1>15. TypedAs(n, m, addr, type)
  BY <1>5, <1>11, <1>13 DEF TypedAs
<1> QED BY <1>10, <1>14, <1>15

\* Other blocks that keep what the cache has.
LEMMA WithBlocks ==
    ASSUME NEW m, MemOK(m), NEW c, m.flat \subseteq DOMAIN c
    PROVE  [m EXCEPT !.blocks = c, !.stale = @ \cup (m.flat \ DOMAIN c)]
             = [blocks |-> c, flat |-> m.flat, stale |-> {}, tracker |-> m.tracker, host |-> m.host]
<1>1. PICK b, f, t, h : b = m.blocks /\ f = m.flat /\ t = m.tracker /\ h = m.host
  OBVIOUS
<1>2. m = [blocks |-> b, flat |-> f, stale |-> {}, tracker |-> t, host |-> h]
  BY <1>1 DEF MemOK
<1>3. PICK x : x = m.stale \cup (m.flat \ DOMAIN c)
  OBVIOUS
<1>4. x = {}
  BY <1>1, <1>2, <1>3
<1>5. [m EXCEPT !.blocks = c, !.stale = x] = [blocks |-> c, flat |-> f, stale |-> {}, tracker |-> t, host |-> h]
  <2>1. PICK n : n = [m EXCEPT !.blocks = c]
    OBVIOUS
  <2>2. n = [blocks |-> c, flat |-> f, stale |-> {}, tracker |-> t, host |-> h]
    BY <1>2, <2>1
  <2>3. PICK k : k = [n EXCEPT !.stale = x]
    OBVIOUS
  <2>4. k = [blocks |-> c, flat |-> f, stale |-> {}, tracker |-> t, host |-> h]
    BY <1>4, <2>2, <2>3
  <2>5. k = [m EXCEPT !.blocks = c, !.stale = x]
    BY <2>1, <2>3
  <2> QED BY <2>4, <2>5
<1>6. [m EXCEPT !.blocks = c, !.stale = @ \cup (m.flat \ DOMAIN c)] = [m EXCEPT !.blocks = c, !.stale = x]
  BY <1>2, <1>3
<1> QED BY <1>1, <1>5, <1>6

\* Blocks that are the same one by one are split the same.
LEMMA SplitSame ==
    ASSUME NEW c, NEW d, NEW b, NEW first \in DOMAIN b, NEW addr, NEW phys, NEW size, NEW type,
           SplitOf(c, b, first, addr, phys, size, type), DOMAIN d = DOMAIN c,
           d[addr] = Block(phys, size, type), \A k \in DOMAIN c : k # addr => d[k] = c[k]
    PROVE  SplitOf(d, b, first, addr, phys, size, type)
<1>1. DOMAIN d = DOMAIN b \cup {first + size, addr}
  BY DEF SplitOf
<1>2. first + size # addr =>
          d[first + size] = [b[first] EXCEPT !.size = Minus(Plus(first, @), addr + size)]
  BY DEF SplitOf
<1>3. first \notin {addr, first + size} => d[first] = [b[first] EXCEPT !.size = addr - first]
  BY DEF SplitOf
<1>4. \A k \in DOMAIN b \ {first, addr, first + size} : d[k] = b[k]
  BY DEF SplitOf
<1> QED BY <1>1, <1>2, <1>3, <1>4 DEF SplitOf

\* A block inside a reserved one: the reserved one is split, and nothing is mapped.
LEMMA AllocateWithin ==
    ASSUME NEW m, MemOK(m), m.flat \subseteq DOMAIN m.blocks, NEW addr \in Addr, NEW phys \in Addr,
           NEW asked \in Nat, addr + Align(asked) \in Addr, NEW type \in States, type # "Alias",
           NEW first \in DOMAIN m.blocks, first <= addr, Below(m.blocks, addr) = first,
           Below(m.blocks, addr + asked) = first, m.blocks[first].state = "Alias"
    PROVE  \E n : /\ Allocate(m, addr, phys, asked, type) = [mem |-> n, fate |-> "ok", at |-> addr]
                  /\ MemOK(n) /\ SplitOf(n.blocks, m.blocks, first, addr, phys, Align(asked), type)
                  /\ n.flat \subseteq m.flat \cup {addr} /\ n.tracker = m.tracker /\ n.host = m.host
<1>1. PICK size \in Nat : size = Align(asked)
  BY AlignAbove
<1>2. PICK b : b = m.blocks
  OBVIOUS
<1>3. PICK c : c = SplitBlocks(b, first, addr, phys, size, type)
  OBVIOUS
<1>4. SplitOf(c, b, first, addr, phys, size, type) /\ BlocksOK(c)
  BY <1>1, <1>2, <1>3, SplitIs DEF MemOK
<1>5. PICK split : split = [blocks |-> c, flat |-> m.flat, stale |-> {}, tracker |-> m.tracker, host |-> m.host]
  OBVIOUS
<1>6. [m EXCEPT !.blocks = c, !.stale = @ \cup (m.flat \ DOMAIN c)] = split
  <2>1. m.flat \subseteq DOMAIN c
    BY <1>2, <1>4 DEF SplitOf
  <2> QED BY <1>5, <2>1, WithBlocks
<1>7. MemOK(split)
  BY <1>4, <1>5 DEF MemOK
<1>8. PICK changed \in BOOLEAN : changed = (b[first].state # type)
  OBVIOUS
<1>9. changed
  BY <1>2, <1>8
<1>10. Allocate(m, addr, phys, asked, type) = Reprotected(split, addr, size, type, changed, addr)
  BY <1>1, <1>2, <1>3, <1>6, <1>8, <1>9 DEF Allocate
<1>11. addr \in DOMAIN split.blocks /\ split.blocks[addr].size = size
  BY <1>4, <1>5 DEF SplitOf, Block
<1>12. addr + split.blocks[addr].size < Modulus
  BY <1>1, <1>11, Layout DEF Addr
<1>13. PICK n : /\ Reprotected(split, addr, size, type, changed, addr) = [mem |-> n, fate |-> "ok", at |-> addr]
                /\ MemOK(n) /\ TypedAs(n, split, addr, type)
  BY <1>7, <1>9, <1>11, <1>12, ReprotectedIs
<1>14. n.blocks = [c EXCEPT ![addr].state = type]
  BY <1>5, <1>13 DEF TypedAs
<1>15. SplitOf(n.blocks, b, first, addr, phys, size, type)
  <2>1. c[addr] = Block(phys, size, type) /\ addr \in DOMAIN c
    BY <1>4 DEF SplitOf
  <2>2. n.blocks[addr] = [c[addr] EXCEPT !.state = type]
    BY <1>14, <2>1
  <2>3. n.blocks[addr] = Block(phys, size, type)
    BY <2>1, <2>2 DEF Block
  <2>4. DOMAIN n.blocks = DOMAIN c /\ \A k \in DOMAIN c : k # addr => n.blocks[k] = c[k]
    BY <1>14
  <2> QED BY <1>2, <1>4, <2>3, <2>4, SplitSame
<1>16. n.flat \subseteq m.flat \cup {addr} /\ n.tracker = m.tracker /\ n.host = m.host
  BY <1>5, <1>13 DEF TypedAs
<1> QED BY <1>1, <1>2, <1>10, <1>13, <1>15, <1>16
------------------------------------------------------------------------------
\* What a call gives back.
Gives(r, n, how) == \E at : r = [mem |-> n, fate |-> how, at |-> at]

\* What the blocks and pages are when a block was put in and mapped.
MappedAs(n, m, addr, phys, size, type) ==
    /\ DOMAIN n.blocks = DOMAIN m.blocks \cup {addr} /\ n.blocks[addr] = Block(phys, size, type)
    /\ \A k \in DOMAIN m.blocks : k # addr => n.blocks[k] = m.blocks[k]
    /\ n.flat \subseteq m.flat \cup {addr}
    /\ n.tracker = Commit(m.tracker, phys, size)
    /\ n.host = Backed(m.host, addr, phys, size)

\* A block is put in, or a limit is reached.
MapsOrFails(r, m, addr, phys, size, type) ==
    \E n : /\ MemOK(n)
           /\ \/ /\ Gives(r, n, "ok") /\ m.tracker.maps # image.barrier
                 /\ MappedAs(n, m, addr, phys, size, type)
              \/ /\ Gives(r, n, "bad_alloc")
                 /\ \/ m.tracker.maps = image.barrier /\ n.tracker = m.tracker
                    \/ /\ m.tracker.maps # image.barrier /\ image.resource # 0
                       /\ n.tracker = Commit(m.tracker, phys, size)

\* Mapped asks the tracker, which must not know the address, then puts the block in; it only
\* fails at a limit.
LEMMA MappedIs ==
    ASSUME NEW m, MemOK(m), NEW addr \in Addr, NEW phys \in Addr, NEW size \in Nat,
           addr + size \in Addr, NEW type \in States, NEW changed \in BOOLEAN, changed,
           ~Contains(m.tracker, phys), phys \notin DOMAIN m.tracker.map
    PROVE  MapsOrFails(Mapped(m, addr, phys, size, type, changed), m, addr, phys, size, type)
<1>1. PICK b, f, t, h : b = m.blocks /\ f = m.flat /\ t = m.tracker /\ h = m.host
  OBVIOUS
<1>2. m = [blocks |-> b, flat |-> f, stale |-> {}, tracker |-> t, host |-> h]
  BY <1>1 DEF MemOK
<1>3. PICK t1, h1, b1 : /\ t1 = Commit(t, phys, size) /\ h1 = Backed(h, addr, phys, size)
                        /\ b1 = InsertOrAssign(b, addr, Block(phys, size, type))
  OBVIOUS
<1>4. PICK new : new = [blocks |-> b1, flat |-> f, stale |-> {}, tracker |-> t1, host |-> h1]
  OBVIOUS
<1>5. Extended(m, addr, phys, size, type) = new
  <2>1. PICK x : x = [m EXCEPT !.tracker = t1]
    OBVIOUS
  <2>2. x = [blocks |-> b, flat |-> f, stale |-> {}, tracker |-> t1, host |-> h]
    BY <1>2, <2>1
  <2>3. PICK y : y = [x EXCEPT !.host = h1]
    OBVIOUS
  <2>4. y = [blocks |-> b, flat |-> f, stale |-> {}, tracker |-> t1, host |-> h1]
    BY <2>2, <2>3
  <2>5. PICK z : z = [y EXCEPT !.blocks = b1]
    OBVIOUS
  <2>6. z = new
    BY <1>4, <2>4, <2>5
  <2>7. z = [m EXCEPT !.tracker = t1, !.host = h1, !.blocks = b1]
    BY <2>1, <2>3, <2>5
  <2>8. [m EXCEPT !.tracker = t1, !.host = h1, !.blocks = b1]
          = [m EXCEPT !.tracker = Commit(@, phys, size), !.host = Backed(@, addr, phys, size),
                      !.blocks = InsertOrAssign(@, addr, Block(phys, size, type))]
    BY <1>2, <1>3
  <2> QED BY <2>6, <2>7, <2>8 DEF Extended
<1>6. /\ DOMAIN b1 = DOMAIN b \cup {addr} /\ b1[addr] = Block(phys, size, type)
      /\ \A k \in DOMAIN b : k # addr => b1[k] = b[k]
  BY <1>3 DEF InsertOrAssign
<1>7. MemOK(new)
  <2>1. Block(phys, size, type) \in BlockType
    <3>1. "Free" \in States /\ size \in Addr
      BY Layout DEF States, Addr
    <3> QED BY <3>1 DEF BlockType, Block
  <2>2. BlocksOK(b1)
    BY <1>1, <1>6, <2>1 DEF MemOK, BlocksOK
  <2>3. f \subseteq Addr
    BY <1>1 DEF MemOK
  <2> QED BY <1>4, <2>2, <2>3 DEF MemOK
<1>8. PICK old : old = [blocks |-> b, flat |-> f, stale |-> {}, tracker |-> t1, host |-> h1]
  OBVIOUS
<1>9. [Extended(m, addr, phys, size, type) EXCEPT !.blocks = m.blocks] = old
  <2>1. PICK x : x = [new EXCEPT !.blocks = b]
    OBVIOUS
  <2>3. x = [blocks |-> b, flat |-> f, stale |-> {}, tracker |-> t1, host |-> h1]
    BY <1>4, <2>1
  <2>2. x = old
    BY <1>8, <2>3
  <2> QED BY <1>1, <1>5, <2>1, <2>2
<1>10. MemOK(old)
  BY <1>1, <1>8 DEF MemOK
<1>11. PICK r : r = Mapped(m, addr, phys, size, type, changed)
  OBVIOUS
<1>12. r = IF m.tracker.maps = image.barrier THEN Failed(m, "bad_alloc")
           ELSE IF image.resource # 0 /\ Cardinality(DOMAIN m.blocks) > image.resource
                THEN Failed(old, "bad_alloc")
           ELSE Reprotected(new, addr, size, type, changed, addr)
  BY <1>5, <1>9, <1>11 DEF Mapped
<1>13. CASE m.tracker.maps = image.barrier
  <2>1. Gives(r, m, "bad_alloc")
    BY <1>12, <1>13 DEF Gives, Failed
  <2> QED BY <1>11, <1>13, <2>1 DEF MapsOrFails
<1>14. CASE m.tracker.maps # image.barrier /\ image.resource # 0 /\ Cardinality(DOMAIN m.blocks) > image.resource
  <2>1. Gives(r, old, "bad_alloc")
    BY <1>12, <1>14 DEF Gives, Failed
  <2>2. old.tracker = Commit(m.tracker, phys, size)
    BY <1>1, <1>3, <1>8
  <2> QED BY <1>10, <1>11, <1>14, <2>1, <2>2 DEF MapsOrFails
<1>15. CASE m.tracker.maps # image.barrier
            /\ ~(image.resource # 0 /\ Cardinality(DOMAIN m.blocks) > image.resource)
  <2>1. r = Reprotected(new, addr, size, type, changed, addr)
    BY <1>12, <1>15
  <2>2. addr \in DOMAIN new.blocks /\ new.blocks[addr] = Block(phys, size, type)
    BY <1>4, <1>6
  <2>3. addr + new.blocks[addr].size < Modulus
    BY <2>2, Layout DEF Addr, Block
  <2>4. PICK n : /\ Reprotected(new, addr, size, type, changed, addr) = [mem |-> n, fate |-> "ok", at |-> addr]
                 /\ MemOK(n) /\ TypedAs(n, new, addr, type)
    BY <1>7, <2>2, <2>3, ReprotectedIs
  <2>5. Gives(r, n, "ok")
    BY <2>1, <2>4 DEF Gives
  <2>6. n.blocks = [b1 EXCEPT ![addr].state = type]
    BY <1>4, <2>4 DEF TypedAs
  <2>7. n.blocks[addr] = Block(phys, size, type)
    <3>1. n.blocks[addr] = [b1[addr] EXCEPT !.state = type]
      BY <1>6, <2>6
    <3> QED BY <1>6, <3>1 DEF Block
  <2>8. DOMAIN n.blocks = DOMAIN b \cup {addr} /\ \A k \in DOMAIN b : k # addr => n.blocks[k] = b[k]
    <3>1. DOMAIN n.blocks = DOMAIN b1 /\ \A k \in DOMAIN b1 : k # addr => n.blocks[k] = b1[k]
      BY <2>6
    <3> QED BY <1>6, <3>1
  <2>9. n.flat \subseteq f \cup {addr} /\ n.tracker = t1 /\ n.host = h1
    BY <1>4, <2>4 DEF TypedAs
  <2>10. MappedAs(n, m, addr, phys, size, type)
    BY <1>1, <1>3, <2>7, <2>8, <2>9 DEF MappedAs
  <2> QED BY <1>11, <1>15, <2>4, <2>5, <2>10 DEF MapsOrFails
<1> QED BY <1>13, <1>14, <1>15

\* Reserve at an address that neither a block nor the tracker has.
LEMMA ReserveIs ==
    ASSUME NEW m, MemOK(m), NEW addr \in Addr, NEW phys \in Addr, NEW asked \in Nat,
           addr + Align(asked) \in Addr, addr \notin m.flat, addr \notin DOMAIN m.blocks,
           NEW first \in DOMAIN m.blocks, first <= addr, \A j \in DOMAIN m.blocks : j <= addr => j <= first,
           first + m.blocks[first].size < addr, m.blocks[first].state # "Alias",
           ~Contains(m.tracker, phys), phys \notin DOMAIN m.tracker.map
    PROVE  MapsOrFails(Reserve(m, addr, phys, asked), m, addr, phys, Align(asked), "Alias")
<1>1. PICK size \in Nat : size = Align(asked)
  BY AlignAbove
<1>2. DOMAIN m.blocks \subseteq Nat /\ addr \in Nat /\ addr < Modulus /\ m.blocks[first] \in BlockType
  BY Layout DEF MemOK, BlocksOK, Addr
<1>3. Found(m, addr) = None
  <2>1. m.blocks[first].size \in Nat
    BY <1>2 DEF BlockType, Addr
  <2> QED BY <1>2, <2>1, FoundNone
<1>4. Below(m.blocks, addr) = first
  BY <1>2, BelowIs
<1>5. PICK changed \in BOOLEAN : changed = (m.blocks[first].state # "Alias")
  OBVIOUS
<1>13. changed
  BY <1>5
<1>6. PICK r : r = Mapped(m, addr, phys, size, "Alias", changed)
  OBVIOUS
<1>7. Allocate(m, addr, phys, asked, "Alias") = r
  BY <1>1, <1>4, <1>5, <1>6 DEF Allocate
<1>8. "Alias" \in States
  BY DEF States
<1>9. PICK n : /\ MemOK(n)
               /\ \/ /\ Gives(r, n, "ok")
                     /\ m.tracker.maps # image.barrier
                     /\ MappedAs(n, m, addr, phys, size, "Alias")
                  \/ /\ Gives(r, n, "bad_alloc")
                     /\ \/ m.tracker.maps = image.barrier /\ n.tracker = m.tracker
                        \/ /\ m.tracker.maps # image.barrier /\ image.resource # 0
                           /\ n.tracker = Commit(m.tracker, phys, size)
  <2>1. addr + size \in Addr
    BY <1>1
  <2>2. MapsOrFails(Mapped(m, addr, phys, size, "Alias", changed), m, addr, phys, size, "Alias")
    BY <1>8, <1>13, <2>1, MappedIs
  <2> QED BY <1>6, <2>2 DEF MapsOrFails
<1>10. Reserve(m, addr, phys, asked) = IF r.fate = "ok" THEN [r EXCEPT !.mem = Cached(@, addr)] ELSE r
  BY <1>3, <1>7 DEF Reserve
<1>11. CASE Gives(r, n, "bad_alloc")
  <2>1. r.fate = "bad_alloc"
    BY <1>11 DEF Gives
  <2>2. Reserve(m, addr, phys, asked) = r /\ ~Gives(r, n, "ok")
    BY <1>10, <2>1 DEF Gives
  <2> QED BY <1>1, <1>9, <2>2 DEF MapsOrFails
<1>12. CASE Gives(r, n, "ok") /\ ~Gives(r, n, "bad_alloc")
  <2>1. PICK at : r = [mem |-> n, fate |-> "ok", at |-> at]
    BY <1>12 DEF Gives
  <2>2. MappedAs(n, m, addr, phys, size, "Alias") /\ m.tracker.maps # image.barrier
    BY <1>9, <1>12
  <2>3. addr \in DOMAIN n.blocks /\ n.blocks[addr].size = size
    BY <2>2 DEF MappedAs, Block
  <2>4. Cached(n, addr) = [n EXCEPT !.flat = @ \cup {addr}]
    <3>1. DOMAIN n.blocks \subseteq Nat
      BY <1>9 DEF MemOK, BlocksOK, Addr
    <3>2. addr + n.blocks[addr].size < Modulus
      BY <1>1, <2>3, Layout DEF Addr
    <3> QED BY <2>3, <3>1, <3>2, FoundIs
  <2>5. PICK b, f, t, h : b = n.blocks /\ f = n.flat /\ t = n.tracker /\ h = n.host
    OBVIOUS
  <2>6. n = [blocks |-> b, flat |-> f, stale |-> {}, tracker |-> t, host |-> h]
    BY <1>9, <2>5 DEF MemOK
  <2>7. PICK c : c = [blocks |-> b, flat |-> f \cup {addr}, stale |-> {}, tracker |-> t, host |-> h]
    OBVIOUS
  <2>8. Cached(n, addr) = c
    BY <2>4, <2>6, <2>7
  <2>9. MemOK(c)
    BY <1>9, <2>5, <2>7 DEF MemOK
  <2>10. MappedAs(c, m, addr, phys, size, "Alias")
    BY <2>2, <2>5, <2>7 DEF MappedAs
  <2>11. Reserve(m, addr, phys, asked) = [mem |-> c, fate |-> "ok", at |-> at]
    BY <1>10, <2>1, <2>8
  <2>12. Gives(Reserve(m, addr, phys, asked), c, "ok")
    BY <2>11 DEF Gives
  <2> QED BY <1>1, <2>2, <2>9, <2>10, <2>12 DEF MapsOrFails
<1> QED BY <1>9, <1>11, <1>12
------------------------------------------------------------------------------
(* The tracker. *)

\* A record that is held, and the first one with what is left.
One(p, s) ==
    [map |-> [k \in {0, p} |-> IF k = 0 THEN [size |-> BackSize - s, allocated |-> FALSE]
                               ELSE [size |-> s, allocated |-> TRUE]],
     commited |-> s, maps |-> 1]

\* The stacks and the code are held.
Two(c) ==
    [map |-> [k \in {0, CodeAddr, Stack.back} |->
                 IF k = 0 THEN [size |-> (BackSize - Stack.size) - c, allocated |-> FALSE]
                 ELSE IF k = CodeAddr THEN [size |-> c, allocated |-> TRUE]
                 ELSE [size |-> Stack.size, allocated |-> TRUE]],
     commited |-> Stack.size + c, maps |-> 2]

\* What it holds in the course of loading.
Tracked(t, c) == t \in {Fresh.tracker, One(SelfTest.back, PageSize), One(Stack.back, Stack.size), Two(c)}

\* The recursive function of a sum.
Sums(h, t, S) ==
    h = [s \in SUBSET S |-> IF s = {} THEN 0
                            ELSE t.map[CHOOSE x \in s : TRUE].size + h[s \ {CHOOSE x \in s : TRUE}]]

\* It determines the sum.
LEMMA SumIs ==
    ASSUME NEW t, NEW S, NEW v, \E h : Sums(h, t, S), \A h : Sums(h, t, S) => h[S] = v
    PROVE  MapThenSumSet(LAMBDA k : t.map[k].size, S) = v
<1>1. MapThenSumSet(LAMBDA k : t.map[k].size, S) = (CHOOSE h : Sums(h, t, S))[S]
  BY Zenon DEF MapThenSumSet, MapThenFoldSet, Sums
<1>2. Sums(CHOOSE h : Sums(h, t, S), t, S)
  BY Zenon
<1> QED BY <1>1, <1>2

\* The function is determined at no records: nothing.
LEMMA SumNone ==
    ASSUME NEW t
    PROVE  (\E h : Sums(h, t, {})) /\ \A h : Sums(h, t, {}) => h[{}] = 0
<1>1. \E h : Sums(h, t, {})
  <2>1. Sums([s \in {{}} |-> 0], t, {})
    BY DEF Sums
  <2> QED BY <2>1
<1>2. \A h : Sums(h, t, {}) => h[{}] = 0
  BY DEF Sums
<1> QED BY <1>1, <1>2

\* The sum over one record is its size.
LEMMA SumOne ==
    ASSUME NEW t, NEW p, t.map[p].size \in Nat
    PROVE  MapThenSumSet(LAMBDA k : t.map[k].size, {p}) = t.map[p].size
<1>1. SUBSET {p} = {{}, {p}} /\ (CHOOSE x \in {p} : TRUE) = p /\ {p} \ {p} = {}
  OBVIOUS
<1>2. PICK n \in Nat : n = t.map[p].size
  OBVIOUS
<1>3. \A h : h = [s \in {{}, {p}} |-> IF s = {} THEN 0 ELSE n] => Sums(h, t, {p})
  <2> SUFFICES ASSUME NEW h, h = [s \in {{}, {p}} |-> IF s = {} THEN 0 ELSE n] PROVE Sums(h, t, {p})
    OBVIOUS
  <2>1. h[{}] = 0 /\ h[{p}] = n + h[{}]
    OBVIOUS
  <2>2. \A s \in {{}, {p}} : h[s] = IF s = {} THEN 0
              ELSE t.map[CHOOSE x \in s : TRUE].size + h[s \ {CHOOSE x \in s : TRUE}]
    BY <1>1, <1>2, <2>1
  <2>3. h = [s \in {{}, {p}} |-> h[s]]
    OBVIOUS
  <2> QED BY <1>1, <2>2, <2>3 DEF Sums
<1>4. \E h : Sums(h, t, {p})
  BY <1>3
<1>5. ASSUME NEW h, Sums(h, t, {p}) PROVE h[{p}] = n
  <2>1. h[{}] = 0
    BY <1>5 DEF Sums
  <2>2. h[{p}] = t.map[p].size + h[{}]
    BY <1>1, <1>5 DEF Sums
  <2> QED BY <1>2, <2>1, <2>2
<1> QED BY <1>2, <1>4, <1>5, SumIs

\* The sum over two records is that of their sizes.
LEMMA SumTwo ==
    ASSUME NEW t, NEW p, NEW q, p # q, t.map[p].size \in Nat, t.map[q].size \in Nat
    PROVE  MapThenSumSet(LAMBDA k : t.map[k].size, {p, q}) = t.map[p].size + t.map[q].size
<1>1. PICK x : x = CHOOSE e \in {p, q} : TRUE
  OBVIOUS
<1>2. x \in {p, q}
  BY <1>1
<1>3. PICK y \in {p, q} : {p, q} \ {x} = {y} /\ x # y /\ {p, q} = {x, y}
  BY <1>2
<1>4. PICK a, b \in Nat : a = t.map[x].size /\ b = t.map[y].size
  BY <1>2, <1>3
<1>5. /\ SUBSET {p, q} = {{}, {x}, {y}, {p, q}}
      /\ \A z : (CHOOSE e \in {z} : TRUE) = z /\ {z} \ {z} = {}
  BY <1>3
<1>6. \A h : h = [s \in {{}, {x}, {y}, {p, q}} |->
                    IF s = {} THEN 0 ELSE IF s = {x} THEN a ELSE IF s = {y} THEN b ELSE a + b]
             => Sums(h, t, {p, q})
  <2> SUFFICES ASSUME NEW h, h = [s \in {{}, {x}, {y}, {p, q}} |->
                    IF s = {} THEN 0 ELSE IF s = {x} THEN a ELSE IF s = {y} THEN b ELSE a + b]
               PROVE  Sums(h, t, {p, q})
    OBVIOUS
  <2>1. {x} # {y} /\ {p, q} # {x} /\ {p, q} # {y} /\ {p, q} # {}
    BY <1>3
  <2>2. h[{}] = 0 /\ h[{x}] = a /\ h[{y}] = b /\ h[{p, q}] = a + b
    BY <2>1
  <2>3. \A s \in {{}, {x}, {y}, {p, q}} : h[s] = IF s = {} THEN 0
              ELSE t.map[CHOOSE e \in s : TRUE].size + h[s \ {CHOOSE e \in s : TRUE}]
    <3>1. h[{x}] = t.map[CHOOSE e \in {x} : TRUE].size + h[{x} \ {CHOOSE e \in {x} : TRUE}]
      <4>1. (CHOOSE e \in {x} : TRUE) = x /\ {x} \ {x} = {}
        BY <1>5
      <4>2. h[{x}] = t.map[x].size + h[{}]
        BY <1>4, <2>2
      <4> QED BY <4>1, <4>2
    <3>2. h[{y}] = t.map[CHOOSE e \in {y} : TRUE].size + h[{y} \ {CHOOSE e \in {y} : TRUE}]
      <4>1. (CHOOSE e \in {y} : TRUE) = y /\ {y} \ {y} = {}
        BY <1>5
      <4>2. h[{y}] = t.map[y].size + h[{}]
        BY <1>4, <2>2
      <4> QED BY <4>1, <4>2
    <3>3. h[{p, q}] = t.map[CHOOSE e \in {p, q} : TRUE].size + h[{p, q} \ {CHOOSE e \in {p, q} : TRUE}]
      BY <1>1, <1>3, <1>4, <2>2
    <3> QED BY <2>1, <2>2, <3>1, <3>2, <3>3
  <2>4. \A s \in SUBSET {p, q} : h[s] = IF s = {} THEN 0
              ELSE t.map[CHOOSE e \in s : TRUE].size + h[s \ {CHOOSE e \in s : TRUE}]
    BY <1>5, <2>3
  <2>5. h = [s \in SUBSET {p, q} |-> h[s]]
    BY <1>5
  <2> QED BY <2>4, <2>5 DEF Sums
<1>7. \E h : Sums(h, t, {p, q})
  BY <1>6
<1>8. ASSUME NEW h, Sums(h, t, {p, q}) PROVE h[{p, q}] = a + b
  <2>1. h[{}] = 0
    BY <1>8 DEF Sums
  <2>2. h[{y}] = t.map[y].size + h[{}]
    <3>1. {y} \in SUBSET {p, q} /\ {y} # {}
      BY <1>3
    <3>2. h[{y}] = t.map[CHOOSE e \in {y} : TRUE].size + h[{y} \ {CHOOSE e \in {y} : TRUE}]
      BY <1>8, <3>1 DEF Sums
    <3> QED BY <1>5, <3>2
  <2>3. h[{p, q}] = t.map[x].size + h[{y}]
    <3>1. h[{p, q}] = t.map[CHOOSE e \in {p, q} : TRUE].size + h[{p, q} \ {CHOOSE e \in {p, q} : TRUE}]
      BY <1>8 DEF Sums
    <3> QED BY <1>1, <1>3, <3>1
  <2> QED BY <1>4, <2>1, <2>2, <2>3
<1>9. t.map[p].size + t.map[q].size = a + b
  BY <1>2, <1>3, <1>4
<1>10. MapThenSumSet(LAMBDA k : t.map[k].size, {p, q}) = a + b
  BY <1>7, <1>8, SumIs
<1> QED BY <1>9, <1>10
\* A record of another size.
Resized(f, k, x) == [f EXCEPT ![k].size = x]

\* Only the size of the record changes.
LEMMA ResizedIs ==
    ASSUME NEW f, NEW k \in DOMAIN f, NEW a, f[k] = [size |-> a, allocated |-> FALSE], NEW x
    PROVE  /\ DOMAIN Resized(f, k, x) = DOMAIN f /\ Resized(f, k, x)[k] = [size |-> x, allocated |-> FALSE]
           /\ \A j \in DOMAIN f : j # k => Resized(f, k, x)[j] = f[j]
<1>1. Resized(f, k, x) = [f EXCEPT ![k] = [f[k] EXCEPT !.size = x]]
  BY DEF Resized
<1>2. PICK r, n : r = f[k] /\ n = [r EXCEPT !.size = x]
  OBVIOUS
<1>4. PICK b : b = FALSE
  OBVIOUS
<1>5. r = [size |-> a, allocated |-> b]
  BY <1>2, <1>4
<1>6. n = [size |-> x, allocated |-> b]
  <2>1. n = [r EXCEPT !.size = x]
    BY <1>2
  <2>2. DOMAIN r = {"size", "allocated"} /\ r.allocated = b
    BY <1>5
  <2>3. n = [i \in {"size", "allocated"} |-> IF i = "size" THEN x ELSE b]
    BY <2>1, <2>2
  <2>4. [size |-> x, allocated |-> b] = [i \in {"size", "allocated"} |-> IF i = "size" THEN x ELSE b]
    OBVIOUS
  <2> QED BY <2>3, <2>4
<1>3. n = [size |-> x, allocated |-> FALSE]
  BY <1>4, <1>6
<1> QED BY <1>1, <1>2, <1>3

\* The first commit.
LEMMA CommitFirst ==
    ASSUME NEW p \in Nat \ {0}, NEW s \in Nat, s <= BackSize
    PROVE  /\ Commit(Fresh.tracker, p, s) = One(p, s) /\ ~Contains(Fresh.tracker, p)
           /\ p \notin DOMAIN Fresh.tracker.map /\ Fresh.tracker.maps = 0
<1>1. PICK t : t = Fresh.tracker
  OBVIOUS
<1>2. PICK f : f = [k \in {0} |-> [size |-> BackSize, allocated |-> FALSE]]
  OBVIOUS
<1>3. t = [map |-> f, commited |-> 0, maps |-> 0]
  BY <1>1, <1>2 DEF Fresh
<1>4. DOMAIN f = {0} /\ f[0] = [size |-> BackSize, allocated |-> FALSE]
  BY <1>2
<1>5. Min({0}) = 0
  BY MinIs
<1>6. PICK x : x = BackSize - s /\ Minus(BackSize, s) = x
  BY Wraps, Layout
<1>7. PICK g : g = [f EXCEPT ![0].size = Minus(@, s)]
  OBVIOUS
<1>8. DOMAIN g = {0} /\ g[0] = [size |-> x, allocated |-> FALSE]
  <2>1. f[0] = [size |-> BackSize, allocated |-> FALSE] /\ 0 \in DOMAIN f /\ f[0].size = BackSize
    BY <1>4
  <2>2. g = Resized(f, 0, Minus(f[0].size, s))
    BY <1>7 DEF Resized
  <2>3. g = Resized(f, 0, x)
    BY <1>6, <2>1, <2>2
  <2> QED BY <1>4, <2>1, <2>3, ResizedIs
<1>9. PICK h : h = InsertOrAssign(g, p, [size |-> s, allocated |-> TRUE])
  OBVIOUS
<1>10. h = [k \in {0, p} |-> IF k = 0 THEN [size |-> x, allocated |-> FALSE]
                             ELSE [size |-> s, allocated |-> TRUE]]
  <2>1. h = [k \in {0, p} |-> IF k = p THEN [size |-> s, allocated |-> TRUE] ELSE g[k]]
    BY <1>8, <1>9 DEF InsertOrAssign
  <2> QED BY <1>8, <2>1
<1>11. Commit(t, p, s) = [map |-> h, commited |-> s, maps |-> 1]
  <2>1. Min(DOMAIN t.map) = 0 /\ t.map = f
    BY <1>3, <1>4, <1>5
  <2>2. t.commited + s = s /\ t.maps + 1 = 1
    BY <1>3
  <2>3. InsertOrAssign([t.map EXCEPT ![Min(DOMAIN t.map)].size = Minus(@, s)], p, [size |-> s, allocated |-> TRUE]) = h
    BY <1>7, <1>9, <2>1
  <2> QED BY <2>2, <2>3 DEF Commit
<1>12. Commit(t, p, s) = One(p, s)
  BY <1>6, <1>10, <1>11 DEF One
<1>13. ~Contains(t, p)
  <2>1. ~(\E k \in DOMAIN t.map : p <= k) /\ t.maps = 0
    BY <1>3, <1>4
  <2> QED BY <2>1 DEF Contains
<1> QED BY <1>1, <1>3, <1>4, <1>12, <1>13

\* The commit of the code, below the stacks.
LEMMA CommitSecond ==
    ASSUME NEW c \in Nat, CodeAddr + c <= Stack.back, NEW t, t = One(Stack.back, Stack.size)
    PROVE  /\ Commit(t, CodeAddr, c) = Two(c) /\ ~Contains(t, CodeAddr)
           /\ CodeAddr \notin DOMAIN t.map /\ t.maps = 1
<1>0. 0 < CodeAddr /\ CodeAddr < Stack.back /\ CodeAddr \in Nat /\ Stack.back \in Nat
  BY Layout
<1>2. PICK f : f = t.map
  OBVIOUS
<1>3. /\ t = [map |-> f, commited |-> Stack.size, maps |-> 1]
      /\ DOMAIN f = {0, Stack.back} /\ f[0] = [size |-> BackSize - Stack.size, allocated |-> FALSE]
      /\ f[Stack.back] = [size |-> Stack.size, allocated |-> TRUE]
  BY <1>0, <1>2 DEF One
<1>5. Min(DOMAIN f) = 0
  BY <1>0, <1>3, MinIs
<1>6. PICK n, x : n = BackSize - Stack.size /\ x = n - c /\ Minus(n, c) = x
  <2>1. PICK n \in Nat : n = BackSize - Stack.size /\ c <= n /\ n < Modulus
    BY Layout
  <2>2. Minus(n, c) = n - c
    BY <2>1, Wraps
  <2> QED BY <2>1, <2>2
<1>7. PICK g : g = [f EXCEPT ![0].size = Minus(@, c)]
  OBVIOUS
<1>8. /\ DOMAIN g = {0, Stack.back} /\ g[0] = [size |-> x, allocated |-> FALSE]
      /\ g[Stack.back] = [size |-> Stack.size, allocated |-> TRUE]
  <2>1. f[0] = [size |-> n, allocated |-> FALSE] /\ 0 \in DOMAIN f /\ f[0].size = n
    BY <1>3, <1>6
  <2>2. g = Resized(f, 0, Minus(f[0].size, c))
    BY <1>7 DEF Resized
  <2>3. g = Resized(f, 0, x)
    BY <1>6, <2>1, <2>2
  <2>4. DOMAIN g = DOMAIN f /\ g[0] = [size |-> x, allocated |-> FALSE] /\ \A j \in DOMAIN f : j # 0 => g[j] = f[j]
    BY <2>1, <2>3, ResizedIs
  <2> QED BY <1>0, <1>3, <2>4
<1>9. PICK h : h = InsertOrAssign(g, CodeAddr, [size |-> c, allocated |-> TRUE])
  OBVIOUS
<1>14. PICK first, code, stack : /\ first = [size |-> x, allocated |-> FALSE] /\ code = [size |-> c, allocated |-> TRUE]
                                 /\ stack = [size |-> Stack.size, allocated |-> TRUE]
  OBVIOUS
<1>10. h = [k \in {0, CodeAddr, Stack.back} |->
              IF k = 0 THEN first ELSE IF k = CodeAddr THEN code ELSE stack]
  <2>1. h = [k \in {0, CodeAddr, Stack.back} |-> IF k = CodeAddr THEN code ELSE g[k]]
    <3>1. {0, Stack.back} \cup {CodeAddr} = {0, CodeAddr, Stack.back}
      OBVIOUS
    <3> QED BY <1>8, <1>9, <1>14, <3>1 DEF InsertOrAssign
  <2>2. g[0] = first /\ g[Stack.back] = stack
    BY <1>8, <1>14
  <2>3. \A k \in {0, CodeAddr, Stack.back} :
          (IF k = CodeAddr THEN code ELSE g[k]) = IF k = 0 THEN first ELSE IF k = CodeAddr THEN code ELSE stack
    BY <1>0, <2>2
  <2> QED BY <2>1, <2>3
<1>11. Commit(t, CodeAddr, c) = [map |-> h, commited |-> Stack.size + c, maps |-> 2]
  <2>1. Min(DOMAIN t.map) = 0 /\ t.map = f
    BY <1>3, <1>5
  <2>2. t.commited + c = Stack.size + c /\ t.maps + 1 = 2
    BY <1>3
  <2>3. InsertOrAssign([t.map EXCEPT ![Min(DOMAIN t.map)].size = Minus(@, c)], CodeAddr,
                       [size |-> c, allocated |-> TRUE]) = h
    BY <1>7, <1>9, <2>1
  <2> QED BY <2>2, <2>3 DEF Commit
<1>12. Commit(t, CodeAddr, c) = Two(c)
  BY <1>6, <1>10, <1>11, <1>14 DEF Two
<1>13. ~Contains(t, CodeAddr)
  <2>1. \E k \in DOMAIN t.map : CodeAddr <= k
    BY <1>0, <1>3
  <2>2. Below(t.map, CodeAddr) = 0
    <3>1. DOMAIN f \subseteq Nat /\ 0 \in DOMAIN f /\ 0 <= CodeAddr /\ \A j \in DOMAIN f : j <= CodeAddr => j <= 0
      BY <1>0, <1>3
    <3> QED BY <1>0, <1>2, <3>1, BelowIs
  <2>3. t.map[Below(t.map, CodeAddr)].allocated = FALSE
    BY <1>2, <1>3, <2>2
  <2> QED BY <2>1, <2>3 DEF Contains
<1> QED BY <1>0, <1>3, <1>12, <1>13

\* Freed again.
LEMMA ReleaseFirst ==
    ASSUME NEW p \in Nat \ {0}, NEW s \in Nat, s <= BackSize
    PROVE  Release(One(p, s), p) = Fresh.tracker
<1>1. PICK t, f : t = One(p, s) /\ f = t.map
  OBVIOUS
<1>2. /\ t = [map |-> f, commited |-> s, maps |-> 1]
      /\ DOMAIN f = {0, p} /\ f[0] = [size |-> BackSize - s, allocated |-> FALSE]
      /\ f[p] = [size |-> s, allocated |-> TRUE]
  BY <1>1 DEF One
<1>3. Min(DOMAIN f) = 0
  BY <1>2, MinIs
<1>4. PICK n : n = BackSize - s /\ Plus(n, s) = BackSize
  <2>1. PICK n \in Nat : n = BackSize - s /\ n + s = BackSize
    BY Layout
  <2>2. n + s < Modulus
    BY <2>1, Layout
  <2> QED BY <2>1, <2>2, Wraps
<1>5. PICK g : g = [f EXCEPT ![0].size = Plus(@, s)]
  OBVIOUS
<1>6. DOMAIN g = {0, p} /\ g[0] = [size |-> BackSize, allocated |-> FALSE]
  <2>1. f[0] = [size |-> n, allocated |-> FALSE] /\ 0 \in DOMAIN f /\ f[0].size = n
    BY <1>2, <1>4
  <2>2. g = Resized(f, 0, Plus(f[0].size, s))
    BY <1>5 DEF Resized
  <2>3. g = Resized(f, 0, BackSize)
    BY <1>4, <2>1, <2>2
  <2> QED BY <1>2, <2>1, <2>3, ResizedIs
<1>7. PICK h : h = Restrict(g, {0, p} \ {p})
  OBVIOUS
<1>8. h = [k \in {0} |-> [size |-> BackSize, allocated |-> FALSE]]
  <2>1. {0, p} \ {p} = {0}
    OBVIOUS
  <2>2. h = [k \in {0} |-> g[k]]
    BY <1>7, <2>1 DEF Restrict
  <2> QED BY <1>6, <2>2
<1>9. Release(t, p) = [map |-> h, commited |-> 0, maps |-> 0]
  <2>1. p \in DOMAIN t.map /\ t.map[p].allocated /\ t.map[p].size = s /\ t.map = f
    BY <1>2
  <2>2. t.commited - s = 0 /\ t.maps - 1 = 0 /\ Min(DOMAIN t.map) = 0 /\ DOMAIN t.map \ {p} = {0, p} \ {p}
    BY <1>2, <1>3
  <2>3. Restrict([t.map EXCEPT ![Min(DOMAIN t.map)].size = Plus(@, s)], DOMAIN t.map \ {p}) = h
    BY <1>5, <1>7, <2>1, <2>2
  <2>4. Release(t, p) = [map |-> Restrict([t.map EXCEPT ![Min(DOMAIN t.map)].size = Plus(@, t.map[p].size)],
                                          DOMAIN t.map \ {p}),
                         commited |-> t.commited - t.map[p].size, maps |-> t.maps - 1]
    BY <2>1 DEF Release
  <2> QED BY <2>1, <2>2, <2>3, <2>4
<1> QED BY <1>1, <1>8, <1>9 DEF Fresh

\* With the code and the stacks held, it answers yes for the stacks, and for what is between
\* them and the code.
LEMMA TwoContains ==
    ASSUME NEW c
    PROVE  Contains(Two(c), Tls.back) /\ Contains(Two(c), Stack.back)
<1>0. CodeAddr < Tls.back /\ Tls.back < Stack.back /\ {CodeAddr, Tls.back, Stack.back} \subseteq Nat
      /\ 0 < CodeAddr
  BY Layout
<1>1. PICK t, f : t = Two(c) /\ f = t.map
  OBVIOUS
<1>2. DOMAIN f = {0, CodeAddr, Stack.back} /\ f[CodeAddr].allocated = TRUE /\ f[Stack.back].allocated = TRUE
  BY <1>0, <1>1 DEF Two
<1>3. DOMAIN f \subseteq Nat
  BY <1>0, <1>2
<1>4. Contains(t, Tls.back)
  <2>1. \E k \in DOMAIN f : Tls.back <= k
    BY <1>0, <1>2
  <2>2. Below(f, Tls.back) = CodeAddr
    BY <1>0, <1>2, <1>3, BelowIs
  <2> QED BY <1>1, <1>2, <2>1, <2>2 DEF Contains
<1>5. Contains(t, Stack.back)
  <2>1. \E k \in DOMAIN f : Stack.back <= k
    BY <1>0, <1>2
  <2>2. Below(f, Stack.back) = Stack.back
    BY <1>0, <1>2, <1>3, BelowIs
  <2> QED BY <1>1, <1>2, <2>1, <2>2 DEF Contains
<1> QED BY <1>1, <1>4, <1>5

\* A set of two different things has two members.
LEMMA PairHasTwo ==
    ASSUME NEW p, NEW q, p # q
    PROVE  Cardinality({p, q}) = 2
<1>1. IsFiniteSet({p}) /\ Cardinality({p}) = 1
  BY FS_Singleton
<1>2. Cardinality({p} \cup {q}) = Cardinality({p}) + 1
  BY <1>1, FS_AddElement
<1>3. {p} \cup {q} = {p, q}
  OBVIOUS
<1> QED BY <1>1, <1>2, <1>3

\* TrackerConserves, of one tracker.
Conserves(t) ==
    LET records == DOMAIN t.map \ {0}
    IN /\ t.map[0].size + t.commited = BackSize
       /\ t.commited = MapThenSumSet(LAMBDA k : t.map[k].size, records)
       /\ t.maps = Cardinality(records)

\* All that it holds in the course of loading adds up.
LEMMA TrackedConserves ==
    ASSUME NEW c \in Nat, CodeAddr + c <= Stack.back, NEW t, Tracked(t, c)
    PROVE  Conserves(t) /\ t.maps \in Nat
<1>1. CASE t = Fresh.tracker
  <2>1. DOMAIN t.map = {0} /\ t.map[0].size = BackSize /\ t.commited = 0 /\ t.maps = 0
    BY <1>1 DEF Fresh
  <2>2. PICK S : S = {} /\ S = DOMAIN t.map \ {0}
    BY <2>1
  <2>3. MapThenSumSet(LAMBDA k : t.map[k].size, S) = 0
    <3>1. (\E h : Sums(h, t, S)) /\ \A h : Sums(h, t, S) => h[S] = 0
      BY <2>2, SumNone
    <3> QED BY <3>1, SumIs
  <2>5. Cardinality({}) = 0
    BY FS_EmptySet
  <2>4. BackSize + 0 = BackSize
    BY Layout
  <2> QED BY <2>1, <2>2, <2>3, <2>4, <2>5 DEF Conserves
<1>2. ASSUME NEW p \in Nat \ {0}, NEW s \in Nat, s <= BackSize, t = One(p, s)
      PROVE  Conserves(t) /\ t.maps \in Nat
  <2>1. /\ DOMAIN t.map = {0, p} /\ t.map[0].size = BackSize - s /\ t.map[p].size = s
        /\ t.commited = s /\ t.maps = 1
    BY <1>2 DEF One
  <2>2. DOMAIN t.map \ {0} = {p}
    BY <2>1
  <2>3. MapThenSumSet(LAMBDA k : t.map[k].size, {p}) = s
    BY <2>1, SumOne
  <2>4. Cardinality({p}) = 1
    BY FS_Singleton
  <2>5. (BackSize - s) + s = BackSize
    BY Layout
  <2> QED BY <2>1, <2>2, <2>3, <2>4, <2>5 DEF Conserves
<1>3. CASE t = One(SelfTest.back, PageSize)
  <2>1. SelfTest.back \in Nat \ {0} /\ PageSize \in Nat /\ PageSize <= BackSize
    BY Layout
  <2> QED BY <1>2, <1>3, <2>1
<1>4. CASE t = One(Stack.back, Stack.size)
  <2>1. Stack.back \in Nat \ {0} /\ Stack.size \in Nat /\ Stack.size <= BackSize
    BY Layout
  <2> QED BY <1>2, <1>4, <2>1
<1>5. CASE t = Two(c)
  <2>0. CodeAddr # Stack.back /\ CodeAddr # 0 /\ Stack.back # 0 /\ Stack.size \in Nat
    BY Layout
  <2>1. /\ DOMAIN t.map = {0, CodeAddr, Stack.back} /\ t.map[0].size = (BackSize - Stack.size) - c
        /\ t.map[CodeAddr].size = c /\ t.map[Stack.back].size = Stack.size
        /\ t.commited = Stack.size + c /\ t.maps = 2
    BY <1>5, <2>0 DEF Two
  <2>2. DOMAIN t.map \ {0} = {CodeAddr, Stack.back}
    BY <2>0, <2>1
  <2>6. t.map[CodeAddr].size \in Nat /\ t.map[Stack.back].size \in Nat
    BY <2>0, <2>1
  <2>7. MapThenSumSet(LAMBDA k : t.map[k].size, {CodeAddr, Stack.back})
          = t.map[CodeAddr].size + t.map[Stack.back].size
    BY <2>0, <2>6, SumTwo
  <2>3. MapThenSumSet(LAMBDA k : t.map[k].size, {CodeAddr, Stack.back}) = c + Stack.size
    BY <2>1, <2>7
  <2>4. Cardinality({CodeAddr, Stack.back}) = 2
    BY <2>0, PairHasTwo
  <2>5. ((BackSize - Stack.size) - c) + (Stack.size + c) = BackSize /\ c + Stack.size = Stack.size + c
    BY Layout
  <2> QED BY <2>1, <2>2, <2>3, <2>4, <2>5 DEF Conserves
<1> QED BY <1>1, <1>3, <1>4, <1>5 DEF Tracked
------------------------------------------------------------------------------
(* The cases of Allocate that remain. *)

\* A block inside a free one: that one is split, and the new block is mapped.
LEMMA AllocateInFree ==
    ASSUME NEW m, MemOK(m), m.flat \subseteq DOMAIN m.blocks, NEW addr \in Addr, NEW phys \in Addr,
           NEW asked \in Nat, addr + Align(asked) \in Addr, NEW type \in States \ {"Alias", "Free"},
           NEW first \in DOMAIN m.blocks, first <= addr, Below(m.blocks, addr) = first,
           Below(m.blocks, addr + asked) = first, m.blocks[first].state = "Free",
           ~Contains(m.tracker, phys), phys \notin DOMAIN m.tracker.map
    PROVE  \E n : /\ MemOK(n) /\ SplitOf(n.blocks, m.blocks, first, addr, phys, Align(asked), type)
                  /\ n.flat = m.flat /\ n.tracker = m.tracker /\ n.host = m.host
                  /\ MapsOrFails(Allocate(m, addr, phys, asked, type), n, addr, phys, Align(asked), type)
<1>1. PICK size \in Nat : size = Align(asked)
  BY AlignAbove
<1>2. PICK b : b = m.blocks
  OBVIOUS
<1>3. PICK c : c = SplitBlocks(b, first, addr, phys, size, type)
  OBVIOUS
<1>4. SplitOf(c, b, first, addr, phys, size, type) /\ BlocksOK(c)
  BY <1>1, <1>2, <1>3, SplitIs DEF MemOK
<1>5. PICK split : split = [blocks |-> c, flat |-> m.flat, stale |-> {}, tracker |-> m.tracker, host |-> m.host]
  OBVIOUS
<1>6. [m EXCEPT !.blocks = c, !.stale = @ \cup (m.flat \ DOMAIN c)] = split
  <2>1. m.flat \subseteq DOMAIN c
    BY <1>2, <1>4 DEF SplitOf
  <2> QED BY <1>5, <2>1, WithBlocks
<1>7. MemOK(split)
  BY <1>4, <1>5 DEF MemOK
<1>8. PICK changed \in BOOLEAN : changed = (b[first].state # type)
  OBVIOUS
<1>9. changed
  BY <1>2, <1>8
<1>10. Allocate(m, addr, phys, asked, type) = Mapped(split, addr, phys, size, type, changed)
  BY <1>1, <1>2, <1>3, <1>6, <1>8, <1>9 DEF Allocate
<1>11. ~Contains(split.tracker, phys) /\ phys \notin DOMAIN split.tracker.map
  BY <1>5
<1>12. addr + size \in Addr /\ type \in States
  BY <1>1
<1>13. MapsOrFails(Mapped(split, addr, phys, size, type, changed), split, addr, phys, size, type)
  BY <1>7, <1>9, <1>11, <1>12, MappedIs
<1>14. MapsOrFails(Allocate(m, addr, phys, asked, type), split, addr, phys, size, type)
  BY <1>10, <1>13
<1>15. split.blocks = c /\ split.flat = m.flat /\ split.tracker = m.tracker /\ split.host = m.host
  BY <1>5
<1>16. SplitOf(split.blocks, m.blocks, first, addr, phys, size, type)
  BY <1>2, <1>4, <1>15
<1> QED BY <1>1, <1>7, <1>14, <1>15, <1>16

\* The blocks after one was merged into the one before it, which gets a type.
MergedAs(n, m, first, last, type) ==
    /\ DOMAIN n.blocks = DOMAIN m.blocks \ {last}
    /\ n.blocks[first] = [m.blocks[first] EXCEPT !.state = type]
    /\ \A k \in DOMAIN m.blocks \ {first, last} : n.blocks[k] = m.blocks[k]
    /\ n.flat \subseteq m.flat \cup {first}
    /\ n.tracker = m.tracker /\ n.host = m.host

\* A block that takes two: when they have room for it the last is forgotten, unless the first
\* ends there; when they do not, the tracker is asked, which has the address.
LEMMA AllocateOverTwo ==
    ASSUME NEW m, MemOK(m), m.flat \subseteq DOMAIN m.blocks, NEW phys, Contains(m.tracker, phys),
           NEW asked \in Nat, NEW type \in States, type # "Alias",
           NEW first \in DOMAIN m.blocks, NEW last \in DOMAIN m.blocks, first < last,
           Below(m.blocks, first) = first, Below(m.blocks, first + asked) = last,
           last <= first + Align(asked), m.blocks[first].state = "Alias",
           first + m.blocks[first].size < Modulus
    PROVE  \/ \E how \in {"bad_alloc", "aborted"} :
                 /\ Gives(Allocate(m, first, phys, asked, type), m, how)
                 /\ \/ Plus(m.blocks[first].size, m.blocks[last].size) < Align(asked)
                    \/ first + m.blocks[first].size = last
           \/ /\ Plus(m.blocks[first].size, m.blocks[last].size) >= Align(asked)
              /\ first + m.blocks[first].size # last
              /\ \/ \E k \in DOMAIN m.blocks : first < k /\ k < last
                 \/ last \in m.flat
                 \/ \E n : /\ MemOK(n) /\ MergedAs(n, m, first, last, type)
                           /\ Gives(Allocate(m, first, phys, asked, type), n, "ok")
<1>1. PICK size \in Nat : size = Align(asked)
  BY AlignAbove
<1>2. PICK b : b = m.blocks
  OBVIOUS
<1>3. first \in Nat /\ last \in Nat /\ b[first] \in BlockType /\ b[last] \in BlockType
  BY <1>2, Layout DEF MemOK, BlocksOK, Addr
<1>4. PICK room \in Nat : room = Plus(b[first].size, b[last].size)
  <2>1. b[first].size \in Addr /\ b[last].size \in Addr
    BY <1>3 DEF BlockType
  <2>2. Plus(b[first].size, b[last].size) \in Addr /\ Addr \subseteq Nat
    <3>1. \A x, y \in 0 .. Modulus - 1 : Plus(x, y) \in 0 .. Modulus - 1
      BY Wraps
    <3>2. Plus(b[first].size, b[last].size) \in 0 .. Modulus - 1
      BY <2>1, <3>1 DEF Addr
    <3>3. 0 .. Modulus - 1 \subseteq Nat
      BY Layout
    <3> QED BY <3>2, <3>3 DEF Addr
  <2> QED BY <2>2
<1>5. PICK changed \in BOOLEAN : changed = (b[first].state # type)
  OBVIOUS
<1>6. changed
  BY <1>2, <1>5
<1>7. PICK c : c = MergeBlocks(b, first, last)
  OBVIOUS
<1>8. PICK r : r = Allocate(m, first, phys, asked, type)
  OBVIOUS
<1>9. PICK merged : merged = [m EXCEPT !.blocks = c, !.stale = @ \cup (m.flat \ DOMAIN c)]
  OBVIOUS
<1>10. ~(first = last) /\ ~(first + size < last)
  BY <1>1, <1>3, <1>2
<1>11. r = IF room >= size
           THEN IF Plus(first, b[first].size) = last THEN Failed(m, "aborted")
                ELSE Reprotected(merged, first, size, type, changed, first)
           ELSE Mapped(m, first, phys, size, type, changed)
  BY <1>1, <1>2, <1>4, <1>5, <1>7, <1>8, <1>9, <1>10 DEF Allocate
<1>12. Plus(first, b[first].size) = first + b[first].size
  <2>1. b[first].size \in Nat /\ first \in Nat
    BY <1>3, Layout DEF BlockType, Addr
  <2> QED BY <1>2, <2>1, Wraps
<1>13. CASE room < size
  <2>1. r = Failed(m, "bad_alloc")
    <3>1. Mapped(m, first, phys, size, type, changed) = Failed(m, "bad_alloc")
      BY DEF Mapped
    <3> QED BY <1>11, <1>13, <3>1
  <2>2. Gives(r, m, "bad_alloc")
    BY <2>1 DEF Gives, Failed
  <2> QED BY <1>1, <1>2, <1>4, <1>8, <1>13, <2>2
<1>14. CASE room >= size /\ first + b[first].size = last
  <2>1. Gives(r, m, "aborted")
    BY <1>11, <1>12, <1>14 DEF Gives, Failed
  <2> QED BY <1>2, <1>8, <1>14, <2>1
<1>15. CASE room >= size /\ first + b[first].size # last
  <2>1. SUFFICES ASSUME ~(\E k \in DOMAIN b : first < k /\ k < last), last \notin m.flat
                 PROVE  \E n : MemOK(n) /\ MergedAs(n, m, first, last, type) /\ Gives(r, n, "ok")
    BY <1>1, <1>2, <1>4, <1>8, <1>15
  <2>2. c = [k \in DOMAIN b \ {last} |-> b[k]]
    <3>1. {k \in DOMAIN b : first < k /\ k < last} = {}
      BY <2>1
    <3>2. c = Restrict(b, DOMAIN b \ {last})
      BY <1>7, <3>1 DEF MergeBlocks
    <3> QED BY <3>2 DEF Restrict
  <2>3. DOMAIN c = DOMAIN b \ {last} /\ first \in DOMAIN c /\ \A k \in DOMAIN c : c[k] = b[k]
    BY <1>2, <1>10, <2>2
  <2>4. merged = [blocks |-> c, flat |-> m.flat, stale |-> {}, tracker |-> m.tracker, host |-> m.host]
    <3>1. m.flat \subseteq DOMAIN c
      BY <1>2, <2>1, <2>3
    <3> QED BY <1>9, <3>1, WithBlocks
  <2>5. MemOK(merged)
    BY <1>2, <2>3, <2>4 DEF MemOK, BlocksOK
  <2>6. first \in DOMAIN merged.blocks /\ first + merged.blocks[first].size < Modulus
    BY <1>2, <2>3, <2>4
  <2>7. PICK n : /\ Reprotected(merged, first, size, type, changed, first) = [mem |-> n, fate |-> "ok", at |-> first]
                 /\ MemOK(n) /\ TypedAs(n, merged, first, type)
    BY <1>6, <2>5, <2>6, ReprotectedIs
  <2>8. Gives(r, n, "ok")
    BY <1>11, <1>12, <1>15, <2>7 DEF Gives
  <2>9. n.blocks = [c EXCEPT ![first].state = type] /\ n.flat \subseteq m.flat \cup {first}
        /\ n.tracker = m.tracker /\ n.host = m.host
    BY <2>4, <2>7 DEF TypedAs
  <2>10. n.blocks[first] = [b[first] EXCEPT !.state = type]
    BY <2>3, <2>9
  <2>11. DOMAIN n.blocks = DOMAIN c /\ \A k \in DOMAIN c : k # first => n.blocks[k] = c[k]
    BY <2>9
  <2>12. MergedAs(n, m, first, last, type)
    BY <1>2, <2>3, <2>9, <2>10, <2>11 DEF MergedAs
  <2> QED BY <2>7, <2>8, <2>12
<1>16. room < size \/ room >= size
  OBVIOUS
<1> QED BY <1>13, <1>14, <1>15, <1>16
------------------------------------------------------------------------------
(* The inductive invariant: what the memory and what was given are, by how far    *)
(* the loader is.                                                                 *)

Nothing == [v \in {} |-> 0]

\* The blocks of the empty table and of the self test; the last one is empty.
Ground == {0, PageSize, SelfTest.guest, GuestSize}
Edge(m) == m.blocks[GuestSize].size = 0

\* The pages that are mapped.
SelfPages == SelfTest.guest .. SelfTest.guest + PageSize - 1
StackPages == Stack.guest .. Stack.guest + Stack.size - 1
CodePages(modules) == CodeAddr .. EndOfCode(modules) - 1
HostIs(host, code) ==
    /\ DOMAIN host = SelfPages \cup StackPages \cup code
    /\ \A g \in StackPages : host[g] = Stack.back + (g - Stack.guest)
    /\ \A g \in code : host[g] = g

\* After InitSelfTest's Allocate, and after its Free.
Tested(m, state) ==
    /\ MemOK(m) /\ DOMAIN m.blocks = Ground /\ m.flat \subseteq Ground /\ Edge(m)
    /\ m.blocks[SelfTest.guest].size = PageSize /\ m.blocks[SelfTest.guest].base = SelfTest.back
    /\ m.blocks[SelfTest.guest].state = state
    /\ DOMAIN m.host = SelfPages

\* The region of the stacks is reserved.
Reserved == Block(Stack.back, Stack.size, "Alias")
StackReserved(m) ==
    /\ MemOK(m) /\ DOMAIN m.blocks = Ground \cup {Stack.guest} /\ m.flat \subseteq DOMAIN m.blocks /\ Edge(m)
    /\ m.blocks[SelfTest.guest].size = PageSize /\ m.blocks[SelfTest.guest].state = "Free"
    /\ m.blocks[Stack.guest] = Reserved
    /\ m.tracker = One(Stack.back, Stack.size) /\ HostIs(m.host, {})

\* The sections mapped so far: each has its block, before a limit and before the next one.
Sections(u) == {v \in DOMAIN u : v < Stack.guest}
SectionsIn(m, u, limit) ==
    \A v \in Sections(u) :
        /\ v \in Nat /\ CodeAddr <= v /\ u[v] \in Nat \ {0} /\ v + Align(u[v]) <= limit
        /\ v \in DOMAIN m.blocks /\ m.blocks[v] = Block(v, Align(u[v]), "Code")
        /\ \A w \in Sections(u) : v < w => v + Align(u[v]) <= w

\* The second pass: a reserved block from the cursor to the end of the code.
Held(modules) == Two(EndOfCode(modules) - CodeAddr)
Mapping(m, u, cursor, modules) ==
    /\ MemOK(m) /\ DOMAIN m.blocks = Ground \cup {Stack.guest, cursor} \cup DOMAIN u
    /\ m.flat \subseteq DOMAIN m.blocks /\ Edge(m)
    /\ DOMAIN u = Sections(u) /\ SectionsIn(m, u, cursor)
    /\ cursor \in Nat /\ CodeAddr <= cursor /\ cursor <= EndOfCode(modules)
    /\ m.blocks[cursor].state = "Alias" /\ m.blocks[cursor].size = EndOfCode(modules) - cursor
    /\ m.blocks[Stack.guest] = Reserved
    /\ m.tracker = Held(modules) /\ HostIs(m.host, CodePages(modules))

\* The stacks and the TLS page that were given.
Second == Stack.guest + PageSize
Placed(u) ==
    /\ DOMAIN u \subseteq Sections(u) \cup {Stack.guest, Second, Tls.guest}
    /\ Tls.guest \in DOMAIN u /\ u[Tls.guest] = PageSize
    /\ \A v \in DOMAIN u : u[v] \in Nat \ {0}
    /\ Second \in DOMAIN u => Align(u[Second]) = PageSize
    /\ Stack.guest \in DOMAIN u => Align(u[Stack.guest]) <= IF Second \in DOMAIN u THEN PageSize ELSE Stack.size

\* The program is loaded; what follows is about the blocks of the stacks.
Behind(m) == {k \in DOMAIN m.blocks : k >= Stack.guest}
Loaded(m, u, modules) ==
    /\ MemOK(m) /\ m.flat \subseteq DOMAIN m.blocks /\ Edge(m)
    /\ SectionsIn(m, u, EndOfCode(modules)) /\ Placed(u)
    /\ m.tracker = Held(modules) /\ HostIs(m.host, CodePages(modules))

\* No thread yet: what is left of the stacks' block lies below the TLS page and, with a size
\* that has wrapped, a page after its start.
NoThread(m, u) ==
    /\ DOMAIN u = Sections(u) \cup {Tls.guest}
    /\ Behind(m) = {Stack.guest, Second, Tls.guest, GuestSize}
    /\ m.blocks[Stack.guest] = Block(Stack.back, Tls.guest - Stack.guest, "Alias")
    /\ m.blocks[Second].size = Minus(Stack.guest + Stack.size, Tls.guest + PageSize)
    /\ m.blocks[Tls.guest] = Block(Tls.back, PageSize, "ThreadLocal")
    /\ Second \notin m.flat

\* One thread, with a stack of less than a page or of more.
OneThread(m, u, stack) ==
    /\ DOMAIN u = Sections(u) \cup {Tls.guest, Stack.guest} /\ u[Stack.guest] = stack
    /\ {Stack.guest, Tls.guest} \subseteq DOMAIN m.blocks
    /\ m.blocks[Stack.guest].state = "Stack"
    /\ m.blocks[Tls.guest].state = "ThreadLocal" /\ m.blocks[Tls.guest].size = PageSize
    /\ \/ /\ stack < PageSize
          /\ Behind(m) = {Stack.guest, Second, Tls.guest, GuestSize}
          /\ m.blocks[Stack.guest].size = PageSize
          /\ m.blocks[Second].size = Tls.guest - Second /\ m.blocks[Second].state = "Alias"
       \/ /\ Behind(m) = {Stack.guest, Tls.guest, GuestSize}
          /\ m.blocks[Stack.guest].size = Tls.guest - Stack.guest

\* LoadSucceeds' program.
Fits ==
    /\ Cardinality(DOMAIN ModuleAt) > 2 /\ image.resource = 0
    /\ image.stack + PageSize <= Stack.size /\ image.barrier > 2

\* What the constants of a run may be.
ImageOK ==
    image \in [modules : [1 .. Modules -> Shapes], stack : StackSizes,
               resource : ResourceSizes, barrier : MapLimits]

\* Where the next section goes.
Cursor == IF pc = "ro" THEN RoAt(address, ModuleAt[address])
          ELSE IF pc = "data" THEN DataAt(address, ModuleAt[address])
          ELSE address

\* The phase, by pc.
Walking ==
    /\ Loaded(mem, used, image.modules)
    /\ \/ NoThread(mem, used) /\ address = Stack.guest
       \/ /\ OneThread(mem, used, image.stack)
          /\ address \in {Stack.guest, Second, Tls.guest} \cap DOMAIN mem.blocks

\* A program whose fate is open.
Phase ==
    /\ pc = "selftest" => mem = Fresh
    /\ pc = "selffree" => Tested(mem, "Shared") /\ mem.tracker = One(SelfTest.back, PageSize)
    /\ pc = "stack" => Tested(mem, "Free") /\ mem.tracker = Fresh.tracker
    /\ pc = "code" => StackReserved(mem)
    /\ pc \in {"selftest", "selffree", "stack", "code"} => used = Nothing /\ address = CodeAddr
    /\ pc \in {"text", "ro", "data", "tls"} =>
          /\ Mapping(mem, used, Cursor, image.modules)
          /\ \E i \in 1 .. Modules + 1 : address = Starts(image.modules)[i]
    /\ pc \in {"ro", "data"} => address \in DOMAIN ModuleAt /\ ModuleAt[address].valid
    /\ pc = "thread" => Walking
    /\ pc = "running" => Loaded(mem, used, image.modules) /\ OneThread(mem, used, image.stack)
    /\ pc = "done" => Loaded(mem, used, image.modules)

IInv ==
    /\ ImageOK /\ MemOK(mem)
    /\ Tracked(mem.tracker, EndOfCode(image.modules) - CodeAddr) /\ mem.tracker.maps <= image.barrier
    /\ pc \in {"selftest", "selffree", "stack", "code", "text", "ro", "data", "tls",
               "thread", "running", "done"}
    /\ fate \in {"ok", "bad_alloc", "aborted"}
    /\ fate = "ok" => Phase
    /\ Fits => fate = "ok"
------------------------------------------------------------------------------
(* The calls up to the second pass. *)

\* A call that ends the program: the tracker stays what it may be, and the program is not one
\* that fits.
Failing(r, c) ==
    \E n, how : /\ how \in {"bad_alloc", "aborted"} /\ Gives(r, n, how) /\ MemOK(n)
                /\ Tracked(n.tracker, c) /\ n.tracker.maps <= image.barrier /\ ~Fits

\* A call that maps a block, when the tracker has no more than one so far.
LEMMA MapsThen ==
    ASSUME ImageOK, NEW r, NEW m, NEW addr, NEW phys, NEW size, NEW type,
           MapsOrFails(r, m, addr, phys, size, type), NEW c,
           Tracked(m.tracker, c), m.tracker.maps \in {0, 1}, m.tracker.maps <= image.barrier,
           NEW t, t = Commit(m.tracker, phys, size), Tracked(t, c), t.maps = m.tracker.maps + 1
    PROVE  \/ Failing(r, c)
           \/ \E n : /\ MemOK(n) /\ Gives(r, n, "ok") /\ MappedAs(n, m, addr, phys, size, type)
                     /\ n.tracker = t /\ t.maps <= image.barrier
<1>1. PICK n : /\ MemOK(n)
               /\ \/ /\ Gives(r, n, "ok") /\ m.tracker.maps # image.barrier
                     /\ MappedAs(n, m, addr, phys, size, type)
                  \/ /\ Gives(r, n, "bad_alloc")
                     /\ \/ m.tracker.maps = image.barrier /\ n.tracker = m.tracker
                        \/ /\ m.tracker.maps # image.barrier /\ image.resource # 0
                           /\ n.tracker = Commit(m.tracker, phys, size)
  BY DEF MapsOrFails
<1>2. image.barrier \in Nat
  BY MemoryAssumption DEF ImageOK
<1>3. m.tracker.maps # image.barrier => t.maps <= image.barrier
  BY <1>2
<1>4. CASE Gives(r, n, "ok") /\ m.tracker.maps # image.barrier /\ MappedAs(n, m, addr, phys, size, type)
  BY <1>1, <1>3, <1>4 DEF MappedAs
<1>5. CASE Gives(r, n, "bad_alloc") /\ m.tracker.maps = image.barrier /\ n.tracker = m.tracker
  <2>1. ~Fits
    BY <1>5 DEF Fits
  <2> QED BY <1>1, <1>5, <2>1 DEF Failing
<1>6. CASE Gives(r, n, "bad_alloc") /\ m.tracker.maps # image.barrier /\ image.resource # 0
           /\ n.tracker = Commit(m.tracker, phys, size)
  <2>1. ~Fits
    BY <1>6 DEF Fits
  <2> QED BY <1>1, <1>3, <1>6, <2>1 DEF Failing
<1> QED BY <1>1, <1>4, <1>5, <1>6

\* The empty table.
LEMMA FreshOK ==
    MemOK(Fresh)
<1>2. PICK b : b = [k \in {0, GuestSize} |-> Block(0, GuestSize - k, "Free")]
  OBVIOUS
<1>3. BlocksOK(b)
  <2>1. \A k \in {0, GuestSize} : k \in Addr /\ GuestSize - k \in Addr
    BY Layout DEF Addr
  <2>2. 0 \in Addr /\ "Free" \in States
    BY Layout DEF Addr, States
  <2>3. \A k \in {0, GuestSize} : Block(0, GuestSize - k, "Free") \in BlockType
    BY <2>1, <2>2 DEF Block, BlockType
  <2> QED BY <1>2, <2>1, <2>3 DEF BlocksOK
<1> QED BY <1>2, <1>3 DEF MemOK, Fresh

\* InitSelfTest's Allocate.
LEMMA SelfTestAllocates ==
    ASSUME ImageOK, NEW c
    PROVE  LET r == Allocate(Fresh, SelfTest.guest, SelfTest.back, 1, "Shared")
           IN \/ Failing(r, c)
              \/ \E n : /\ Gives(r, n, "ok") /\ Tested(n, "Shared")
                        /\ n.tracker = One(SelfTest.back, PageSize) /\ n.tracker.maps <= image.barrier
<1> DEFINE g == SelfTest.guest
           p == SelfTest.back
<1>1. PICK m : m = Fresh
  OBVIOUS
<1>2. /\ DOMAIN m.blocks = {0, GuestSize} /\ m.blocks[0] = Block(0, GuestSize, "Free")
      /\ m.blocks[GuestSize].size = 0 /\ m.flat = {} /\ m.tracker = Fresh.tracker /\ DOMAIN m.host = {}
  <2>1. GuestSize - 0 = GuestSize /\ GuestSize - GuestSize = 0 /\ GuestSize # 0
    BY Layout
  <2> QED BY <1>1, <2>1 DEF Fresh, Block
<1>3. /\ g \in Nat /\ p \in Nat \ {0} /\ PageSize < g /\ g + PageSize < GuestSize /\ PageSize # 0
      /\ g \in Addr /\ p \in Addr /\ g + PageSize \in Addr /\ PageSize \in Nat /\ GuestSize \in Nat
      /\ PageSize <= BackSize
  <2>1. CodeAddr < Stack.guest
    <3>1. image.modules \in [1 .. Modules -> Shapes]
      BY DEF ImageOK
    <3>2. PICK e \in Nat : CodeAddr <= e /\ e < Stack.guest
      BY <3>1, CodeFits
    <3> QED BY <3>2, Layout
  <2>2. CodeAddr < GuestSize
    BY <2>1, Layout
  <2> QED BY <2>2, Layout DEF Addr
<1>4. Align(1) = PageSize
  BY <1>3, AlignStays
<1>5. Below(m.blocks, g) = 0 /\ Below(m.blocks, g + 1) = 0
  <2>1. DOMAIN m.blocks \subseteq Nat /\ 0 \in DOMAIN m.blocks
    BY <1>2, <1>3
  <2>2. \A j \in DOMAIN m.blocks : (j <= g => j <= 0) /\ (j <= g + 1 => j <= 0)
    BY <1>2, <1>3
  <2>3. g + 1 \in Nat /\ 0 <= g /\ 0 <= g + 1
    BY <1>3
  <2> QED BY <1>3, <2>1, <2>2, <2>3, BelowIs
<1>6. /\ Commit(m.tracker, p, PageSize) = One(p, PageSize) /\ ~Contains(m.tracker, p)
      /\ p \notin DOMAIN m.tracker.map /\ m.tracker.maps = 0
  BY <1>2, <1>3, CommitFirst
<1>7. "Shared" \in States \ {"Alias", "Free"}
  BY DEF States
<1>8. PICK r : r = Allocate(m, g, p, 1, "Shared")
  OBVIOUS
<1>9. PICK s : /\ MemOK(s) /\ SplitOf(s.blocks, m.blocks, 0, g, p, PageSize, "Shared")
               /\ s.flat = m.flat /\ s.tracker = m.tracker /\ s.host = m.host
               /\ MapsOrFails(r, s, g, p, PageSize, "Shared")
  <2>1. MemOK(m) /\ m.flat \subseteq DOMAIN m.blocks
    BY <1>1, <1>2, FreshOK
  <2>2. m.blocks[0].state = "Free" /\ 0 \in DOMAIN m.blocks /\ 0 <= g /\ 1 \in Nat
    BY <1>2, <1>3 DEF Block
  <2> HIDE DEF g, p
  <2> QED BY <1>3, <1>4, <1>5, <1>6, <1>7, <1>8, <2>1, <2>2, AllocateInFree
<1>10. PICK t : t = Commit(s.tracker, p, PageSize)
  OBVIOUS
<1>11. t = One(p, PageSize) /\ t.maps = 1 /\ s.tracker = Fresh.tracker /\ s.tracker.maps = 0
  BY <1>2, <1>6, <1>9, <1>10 DEF One
<1>12. s.tracker.maps <= image.barrier /\ Tracked(s.tracker, c) /\ Tracked(t, c)
       /\ s.tracker.maps \in {0, 1} /\ t.maps = s.tracker.maps + 1
  <2>1. image.barrier \in Nat
    BY MemoryAssumption DEF ImageOK
  <2> QED BY <1>11, <2>1 DEF Tracked
<1>13. \/ Failing(r, c)
       \/ \E n : /\ MemOK(n) /\ Gives(r, n, "ok") /\ MappedAs(n, s, g, p, PageSize, "Shared")
                 /\ n.tracker = t /\ t.maps <= image.barrier
  <2> HIDE DEF g, p
  <2> QED BY <1>9, <1>10, <1>12, MapsThen
<1>14. ASSUME NEW n, MemOK(n), MappedAs(n, s, g, p, PageSize, "Shared")
       PROVE  Tested(n, "Shared")
  <2>1. /\ DOMAIN n.blocks = DOMAIN s.blocks \cup {g} /\ n.blocks[g] = Block(p, PageSize, "Shared")
        /\ \A k \in DOMAIN s.blocks : k # g => n.blocks[k] = s.blocks[k]
        /\ n.flat \subseteq s.flat \cup {g} /\ n.host = Backed(s.host, g, p, PageSize)
    BY <1>14 DEF MappedAs
  <2>2. DOMAIN s.blocks = {0, GuestSize} \cup {0 + PageSize, g}
    BY <1>2, <1>9 DEF SplitOf
  <2>3. DOMAIN n.blocks = Ground
    BY <1>3, <2>1, <2>2 DEF Ground
  <2>4. n.flat \subseteq Ground
    BY <1>2, <1>9, <2>1 DEF Ground
  <2>5. s.blocks[GuestSize] = m.blocks[GuestSize]
    <3>1. GuestSize \in DOMAIN m.blocks \ {0, g, 0 + PageSize}
      BY <1>2, <1>3
    <3> QED BY <1>9, <3>1 DEF SplitOf
  <2>6. Edge(n)
    <3>1. GuestSize # g /\ GuestSize \in DOMAIN s.blocks
      BY <1>3, <2>2
    <3> QED BY <1>2, <2>1, <2>5, <3>1 DEF Edge
  <2>7. DOMAIN n.host = SelfPages
    <3>1. DOMAIN n.host = {} \cup (g .. g + PageSize - 1)
      BY <1>2, <1>9, <2>1 DEF Backed
    <3> QED BY <3>1 DEF SelfPages
  <2>8. n.blocks[g].size = PageSize /\ n.blocks[g].base = p /\ n.blocks[g].state = "Shared"
    BY <2>1 DEF Block
  <2> QED BY <1>14, <2>3, <2>4, <2>6, <2>7, <2>8 DEF Tested
<1>15. \/ Failing(r, c)
       \/ \E n : /\ Gives(r, n, "ok") /\ Tested(n, "Shared")
                 /\ n.tracker = One(p, PageSize) /\ n.tracker.maps <= image.barrier
  <2> HIDE DEF g, p
  <2> QED BY <1>11, <1>13, <1>14
<1> QED BY <1>1, <1>8, <1>15
\* The self test lies below the stacks.
LEMMA SelfBelow ==
    ASSUME ImageOK
    PROVE  CodeAddr < Stack.guest /\ SelfTest.guest + PageSize < Stack.guest
<1>1. image.modules \in [1 .. Modules -> Shapes]
  BY DEF ImageOK
<1>2. PICK e \in Nat : CodeAddr <= e /\ e < Stack.guest
  BY <1>1, CodeFits
<1> QED BY <1>2, Layout

\* InitSelfTest's Free.
LEMMA SelfTestFrees ==
    ASSUME ImageOK, NEW m, Tested(m, "Shared"), m.tracker = One(SelfTest.back, PageSize),
           NEW n, n = Free(m, SelfTest.guest, 1)
    PROVE  Tested(n, "Free") /\ n.tracker = Fresh.tracker
<1> DEFINE g == SelfTest.guest
<1>1. /\ MemOK(m) /\ DOMAIN m.blocks = Ground /\ m.flat \subseteq Ground
      /\ m.blocks[g].size = PageSize /\ m.blocks[g].base = SelfTest.back
  BY DEF Tested
<1>2. g \in Ground /\ g \in Nat /\ g # GuestSize /\ GuestSize \in Ground /\ g + PageSize < Modulus
      /\ PageSize \in Nat /\ PageSize <= BackSize /\ SelfTest.back \in Nat \ {0}
  <2>1. g \in Ground /\ GuestSize \in Ground
    BY DEF Ground
  <2> QED BY <2>1, Layout, SelfBelow
<1>3. DOMAIN m.blocks \subseteq Nat /\ m.blocks[g] \in BlockType
  BY <1>1, <1>2, Layout DEF MemOK, BlocksOK, Addr
<1>4. Found(m, g) = g /\ g # None /\ Cached(m, g) = [m EXCEPT !.flat = @ \cup {g}]
  <2>1. g \in DOMAIN m.blocks /\ m.blocks[g].size \in Nat /\ g + m.blocks[g].size < Modulus
    BY <1>1, <1>2
  <2> QED BY <1>3, <2>1, FoundIs
<1>5. Align(1) = PageSize
  BY AlignStays, Layout
<1>6. PICK freed : freed = [m.blocks EXCEPT ![g] = [@ EXCEPT !.size = PageSize, !.old = m.blocks[g].state,
                                                     !.state = "Free"]]
  OBVIOUS
<1>7. PICK block : block = freed[g]
  OBVIOUS
<1>8. block.size = PageSize /\ block.base = SelfTest.back /\ block.state = "Free" /\ block \in BlockType
  <2>1. block = [m.blocks[g] EXCEPT !.size = PageSize, !.old = m.blocks[g].state, !.state = "Free"]
    BY <1>1, <1>2, <1>6, <1>7
  <2>2. "Free" \in States
    BY DEF States
  <2>3. PageSize \in Addr
    BY <1>1, <1>3 DEF BlockType
  <2> QED BY <1>1, <1>3, <2>1, <2>2, <2>3 DEF BlockType
<1>9. DOMAIN freed = Ground /\ \A k \in Ground : k # g => freed[k] = m.blocks[k]
  BY <1>1, <1>6
<1>10. BlocksOK(freed)
  BY <1>1, <1>7, <1>8, <1>9 DEF MemOK, BlocksOK
<1>11. PICK t : t = Release(m.tracker, SelfTest.back)
  OBVIOUS
<1>12. t = Fresh.tracker
  BY <1>2, <1>11, ReleaseFirst
<1>13. n = [[m EXCEPT !.flat = @ \cup {g}] EXCEPT !.tracker = t, !.blocks = freed]
  <2>1. n = [Cached(m, g) EXCEPT !.tracker = Release(@, m.blocks[g].base), !.blocks = freed]
    BY <1>1, <1>4, <1>5, <1>6 DEF Free
  <2>2. Cached(m, g).tracker = m.tracker
    BY <1>1, <1>4 DEF MemOK
  <2>3. n = [Cached(m, g) EXCEPT !.tracker = Release(m.tracker, SelfTest.back), !.blocks = freed]
    BY <1>1, <2>1, <2>2
  <2> QED BY <1>4, <1>11, <2>3
<1>14. n = [blocks |-> freed, flat |-> m.flat \cup {g}, stale |-> {}, tracker |-> t, host |-> m.host]
  <2>1. PICK b, f, o, h : b = m.blocks /\ f = m.flat /\ o = m.tracker /\ h = m.host
    OBVIOUS
  <2>2. m = [blocks |-> b, flat |-> f, stale |-> {}, tracker |-> o, host |-> h]
    BY <1>1, <2>1 DEF MemOK
  <2>3. PICK x : x = [m EXCEPT !.flat = @ \cup {g}]
    OBVIOUS
  <2>4. x = [blocks |-> b, flat |-> f \cup {g}, stale |-> {}, tracker |-> o, host |-> h]
    BY <2>2, <2>3
  <2>5. PICK y : y = [x EXCEPT !.tracker = t]
    OBVIOUS
  <2>6. y = [blocks |-> b, flat |-> f \cup {g}, stale |-> {}, tracker |-> t, host |-> h]
    BY <2>4, <2>5
  <2>7. PICK z : z = [y EXCEPT !.blocks = freed]
    OBVIOUS
  <2>8. z = [blocks |-> freed, flat |-> f \cup {g}, stale |-> {}, tracker |-> t, host |-> h]
    BY <2>6, <2>7
  <2>9. n = z
    BY <1>13, <2>3, <2>5, <2>7
  <2> QED BY <2>1, <2>8, <2>9
<1>15. MemOK(n)
  <2>1. n.flat \subseteq Addr
    BY <1>1, <1>2, <1>14 DEF MemOK, BlocksOK
  <2> QED BY <1>10, <1>14, <2>1 DEF MemOK
<1>16. Edge(n)
  BY <1>2, <1>9, <1>14 DEF Edge, Tested
<1>17. DOMAIN n.host = SelfPages /\ n.tracker = t
  BY <1>14 DEF Tested
<1>18. DOMAIN n.blocks = Ground /\ n.flat \subseteq Ground /\ n.blocks[g] = block
  BY <1>1, <1>2, <1>7, <1>9, <1>14
<1> QED BY <1>8, <1>12, <1>15, <1>16, <1>17, <1>18 DEF Tested

\* The end of CreateProcessMemory.
LEMMA StackReserves ==
    ASSUME ImageOK, NEW c, NEW m, Tested(m, "Free"), m.tracker = Fresh.tracker,
           NEW r, r = Reserve(m, Stack.guest, Stack.back, Stack.size)
    PROVE  \/ Failing(r, c)
           \/ \E n : Gives(r, n, "ok") /\ StackReserved(n) /\ n.tracker.maps <= image.barrier
<1> DEFINE g == Stack.guest
           z == Stack.size
           s == SelfTest.guest
<1>1. /\ MemOK(m) /\ DOMAIN m.blocks = Ground /\ m.flat \subseteq Ground /\ m.blocks[GuestSize].size = 0
      /\ m.blocks[s].size = PageSize /\ m.blocks[s].state = "Free" /\ DOMAIN m.host = SelfPages
  BY DEF Tested, Edge
<1>2. /\ {PageSize, s, g, z, GuestSize} \subseteq Nat /\ PageSize < s /\ s + PageSize < g
      /\ g + z < GuestSize /\ {g, Stack.back, g + z} \subseteq Addr /\ z <= BackSize /\ Stack.back \in Nat \ {0}
      /\ Align(z) = z /\ z # 0 /\ PageSize # 0
  BY Layout, SelfBelow DEF Addr
<1>3. /\ Commit(m.tracker, Stack.back, z) = One(Stack.back, z) /\ ~Contains(m.tracker, Stack.back)
      /\ Stack.back \notin DOMAIN m.tracker.map /\ m.tracker.maps = 0
  BY <1>2, CommitFirst
<1>4. MapsOrFails(r, m, g, Stack.back, z, "Alias")
  <2>1. g \notin Ground /\ s \in Ground /\ s <= g /\ \A j \in Ground : j <= g => j <= s
    BY <1>2 DEF Ground
  <2>2. s + m.blocks[s].size < g /\ m.blocks[s].state # "Alias"
    BY <1>1, <1>2
  <2> HIDE DEF g, z, s
  <2> QED BY <1>1, <1>2, <1>3, <2>1, <2>2, ReserveIs DEF g, z
<1>5. PICK t : t = Commit(m.tracker, Stack.back, z)
  OBVIOUS
<1>6. t = One(Stack.back, z) /\ t.maps = 1
  BY <1>3, <1>5 DEF One
<1>7. m.tracker.maps <= image.barrier /\ Tracked(m.tracker, c) /\ Tracked(t, c)
      /\ m.tracker.maps \in {0, 1} /\ t.maps = m.tracker.maps + 1
  <2>1. image.barrier \in Nat
    BY MemoryAssumption DEF ImageOK
  <2> QED BY <1>3, <1>6, <2>1 DEF Tracked
<1>8. \/ Failing(r, c)
      \/ \E n : /\ MemOK(n) /\ Gives(r, n, "ok") /\ MappedAs(n, m, g, Stack.back, z, "Alias")
                /\ n.tracker = t /\ t.maps <= image.barrier
  <2> HIDE DEF g, z
  <2> QED BY <1>4, <1>5, <1>7, MapsThen
<1>9. ASSUME NEW n, MemOK(n), MappedAs(n, m, g, Stack.back, z, "Alias"), n.tracker = t
      PROVE  StackReserved(n)
  <2>1. /\ DOMAIN n.blocks = DOMAIN m.blocks \cup {g} /\ n.blocks[g] = Block(Stack.back, z, "Alias")
        /\ \A k \in DOMAIN m.blocks : k # g => n.blocks[k] = m.blocks[k]
        /\ n.flat \subseteq m.flat \cup {g} /\ n.host = Backed(m.host, g, Stack.back, z)
    BY <1>9 DEF MappedAs
  <2>2. DOMAIN n.blocks = Ground \cup {g} /\ n.flat \subseteq DOMAIN n.blocks
    BY <1>1, <2>1
  <2>3. n.blocks[GuestSize] = m.blocks[GuestSize] /\ n.blocks[s] = m.blocks[s]
    <3>1. GuestSize \in Ground /\ s \in Ground /\ GuestSize # g /\ s # g
      BY <1>2 DEF Ground
    <3> QED BY <1>1, <2>1, <3>1
  <2>4. HostIs(n.host, {})
    <3>1. PICK host, new : host = m.host /\ new = n.host
      OBVIOUS
    <3>2. /\ DOMAIN new = SelfPages \cup StackPages
          /\ \A p \in DOMAIN new : new[p] = IF p \in StackPages THEN Stack.back + (p - g) ELSE host[p]
      BY <1>1, <2>1, <3>1 DEF Backed, StackPages
    <3> QED BY <3>1, <3>2 DEF HostIs
  <2> QED BY <1>1, <1>6, <1>9, <2>1, <2>2, <2>3, <2>4 DEF StackReserved, Reserved, Edge
<1>10. \/ Failing(r, c)
       \/ \E n : Gives(r, n, "ok") /\ StackReserved(n) /\ n.tracker.maps <= image.barrier
  <2> HIDE DEF g, z
  <2> QED BY <1>8, <1>9
<1> QED BY <1>10
\* The regions' addresses, in order, with code that ends at e.
InOrder(e) ==
    /\ PageSize \in Nat /\ SelfTest.guest \in Nat /\ CodeAddr \in Nat /\ e \in Nat /\ Stack.guest \in Nat
    /\ Stack.size \in Nat /\ Second \in Nat /\ Tls.guest \in Nat /\ GuestSize \in Nat /\ Modulus \in Nat
    /\ Stack.back \in Nat /\ Tls.back \in Nat /\ BackSize \in Nat
    /\ 0 < PageSize /\ PageSize < SelfTest.guest /\ SelfTest.guest + PageSize < CodeAddr
    /\ CodeAddr <= e /\ e < Stack.guest /\ Second = Stack.guest + PageSize
    /\ PageSize + PageSize <= Stack.size /\ Stack.guest + Stack.size < Tls.guest
    /\ Tls.guest + PageSize < GuestSize /\ GuestSize < Modulus
    /\ e <= Stack.back /\ Stack.back + Stack.size <= BackSize /\ BackSize < Modulus
    /\ CodeAddr < Tls.back /\ Tls.back < Stack.back

\* The regions and the code are in that order.
LEMMA Regions ==
    ASSUME NEW modules \in [1 .. Modules -> Shapes], NEW e, e = EndOfCode(modules)
    PROVE  InOrder(e)
<1>1. e \in Nat /\ CodeAddr <= e /\ e < Stack.guest /\ e <= Stack.back
  BY CodeFits
<1>2. /\ PageSize \in Nat /\ SelfTest.guest \in Nat /\ CodeAddr \in Nat /\ Stack.guest \in Nat
      /\ Stack.size \in Nat /\ Tls.guest \in Nat /\ GuestSize \in Nat /\ Modulus \in Nat
      /\ Stack.back \in Nat /\ Tls.back \in Nat /\ BackSize \in Nat
  BY Layout
<1>3. PageSize # 0 /\ PageSize < SelfTest.guest /\ SelfTest.guest + PageSize < CodeAddr
  BY Layout
<1>4. Stack.size >= 2 * PageSize /\ Stack.guest + Stack.size < Tls.guest /\ Tls.guest + PageSize < GuestSize
  BY Layout
<1>5. Stack.back + Stack.size <= BackSize /\ CodeAddr < Tls.back /\ Tls.back < Stack.back
  BY Layout
<1>6. Modulus > 2 * (GuestSize + BackSize)
  BY Layout
<1>7. Second \in Nat /\ Second = Stack.guest + PageSize
  BY <1>2 DEF Second
<1>8. GuestSize < Modulus /\ BackSize < Modulus /\ PageSize + PageSize <= Stack.size /\ 0 < PageSize
  BY <1>2, <1>3, <1>4, <1>6
<1> QED BY <1>1, <1>2, <1>3, <1>4, <1>5, <1>7, <1>8 DEF InOrder

\* An address between others, of the blocks of the second pass.
LEMMA SectionBelow ==
    ASSUME NEW modules \in [1 .. Modules -> Shapes], NEW m, NEW u, NEW cursor, Mapping(m, u, cursor, modules),
           NEW k \in DOMAIN m.blocks
    PROVE  /\ k \in Nat
           /\ \/ k <= SelfTest.guest \/ k = cursor \/ k \in {Stack.guest, GuestSize}
              \/ k \in Sections(u) /\ k < cursor
<1>1. PICK e \in Nat : e = EndOfCode(modules)
  BY CodeFits
<1>6. InOrder(e)
  BY <1>1, Regions
<1>2. k \in Ground \cup {Stack.guest, cursor} \cup DOMAIN u
  BY DEF Mapping
<1>3. CASE k \in Ground
  <2>1. k = 0 \/ k = PageSize \/ k = SelfTest.guest \/ k = GuestSize
    BY <1>3 DEF Ground
  <2>2. PageSize \in Nat /\ SelfTest.guest \in Nat /\ GuestSize \in Nat /\ PageSize < SelfTest.guest
    BY <1>6 DEF InOrder
  <2>3. PICK s \in Nat : s = SelfTest.guest
    BY <2>2
  <2> QED BY <2>1, <2>2, <2>3
<1>4. CASE k \in {Stack.guest, cursor}
  BY <1>4, <1>6 DEF Mapping, InOrder
<1>5. CASE k \in DOMAIN u
  <2>1. k \in Sections(u) /\ cursor \in Nat
    BY <1>5 DEF Mapping
  <2>2. k \in Nat /\ u[k] \in Nat \ {0} /\ k + Align(u[k]) <= cursor
    BY <2>1 DEF Mapping, SectionsIn
  <2>3. PICK a \in Nat : a = Align(u[k]) /\ u[k] <= a
    BY <2>2, AlignAbove
  <2> QED BY <2>1, <2>2, <2>3
<1> QED BY <1>2, <1>3, <1>4, <1>5

\* LoadProgramImage's Reserve.
LEMMA CodeReserves ==
    ASSUME ImageOK, NEW modules, modules = image.modules, NEW m, StackReserved(m),
           m.tracker.maps <= image.barrier,
           NEW r, r = Reserve(m, CodeAddr, CodeAddr, ReserveSize(modules))
    PROVE  \/ Failing(r, EndOfCode(modules) - CodeAddr)
           \/ \E n : Gives(r, n, "ok") /\ Mapping(n, Nothing, CodeAddr, modules) /\ n.tracker.maps <= image.barrier
<1> DEFINE v == CodeAddr
           s == SelfTest.guest
<1>0. modules \in [1 .. Modules -> Shapes] /\ image.barrier \in Nat
  BY MemoryAssumption DEF ImageOK
<1>1. PICK e \in Nat : e = EndOfCode(modules)
  BY <1>0, CodeFits
<1>2. PICK z \in Nat : z = Align(ReserveSize(modules)) /\ e = v + z /\ z = e - v /\ ReserveSize(modules) \in Nat
  <2>1. ReserveSize(modules) \in Nat
    BY <1>0, StartsAre, ModulesAre
  <2>2. PICK z \in Nat : z = Align(ReserveSize(modules))
    BY <2>1, AlignAbove
  <2> QED BY <1>1, <2>1, <2>2, Layout DEF EndOfCode
<1>3. /\ {PageSize, s, v, Stack.guest, GuestSize, Stack.back} \subseteq Nat /\ 0 < PageSize /\ PageSize < s /\ s + PageSize < v
      /\ e < Stack.guest /\ Stack.guest < GuestSize /\ v \in Addr /\ v + z \in Addr /\ v + z <= Stack.back
  <2>1. InOrder(e)
    BY <1>0, <1>1, Regions
  <2> QED BY <1>1, <1>2, <2>1 DEF InOrder, Addr
<1>4. /\ MemOK(m) /\ DOMAIN m.blocks = Ground \cup {Stack.guest} /\ m.flat \subseteq DOMAIN m.blocks
      /\ m.blocks[GuestSize].size = 0 /\ m.blocks[s].size = PageSize /\ m.blocks[s].state = "Free"
      /\ m.blocks[Stack.guest] = Reserved /\ m.tracker = One(Stack.back, Stack.size) /\ HostIs(m.host, {})
  BY DEF StackReserved, Edge
<1>5. Commit(m.tracker, v, z) = Two(z) /\ ~Contains(m.tracker, v) /\ v \notin DOMAIN m.tracker.map /\ m.tracker.maps = 1
  BY <1>3, <1>4, CommitSecond
<1>6. MapsOrFails(r, m, v, v, z, "Alias")
  <2>1. v \notin DOMAIN m.blocks /\ s \in DOMAIN m.blocks /\ s <= v /\ \A j \in DOMAIN m.blocks : j <= v => j <= s
    BY <1>1, <1>2, <1>3, <1>4 DEF Ground
  <2>2. s + m.blocks[s].size < v /\ m.blocks[s].state # "Alias" /\ v \notin m.flat
    BY <1>3, <1>4, <2>1
  <2>3. v \in Addr /\ v + Align(ReserveSize(modules)) \in Addr /\ ReserveSize(modules) \in Nat
    BY <1>2, <1>3
  <2>4. MapsOrFails(r, m, v, v, Align(ReserveSize(modules)), "Alias")
    <3> HIDE DEF v, s
    <3> QED BY <1>4, <1>5, <2>1, <2>2, <2>3, ReserveIs DEF v
  <2> QED BY <1>2, <2>4
<1>7. PICK t : t = Commit(m.tracker, v, z)
  OBVIOUS
<1>8. t = Two(z) /\ t.maps = 2
  BY <1>5, <1>7 DEF Two
<1>9. PICK c : c = e - v
  OBVIOUS
<1>10. Tracked(m.tracker, c) /\ Tracked(t, c) /\ m.tracker.maps \in {0, 1} /\ t.maps = m.tracker.maps + 1
  BY <1>2, <1>4, <1>5, <1>8, <1>9 DEF Tracked
<1>11. \/ Failing(r, c)
       \/ m.tracker.maps > image.barrier
       \/ \E n : /\ MemOK(n) /\ Gives(r, n, "ok") /\ MappedAs(n, m, v, v, z, "Alias")
                 /\ n.tracker = t /\ t.maps <= image.barrier
  <2> HIDE DEF v
  <2>1. CASE m.tracker.maps <= image.barrier
    BY <1>6, <1>7, <1>10, <2>1, MapsThen
  <2> QED BY <1>0, <1>5, <2>1
<1>12. ASSUME NEW n, MemOK(n), MappedAs(n, m, v, v, z, "Alias"), n.tracker = t
       PROVE  Mapping(n, Nothing, v, modules)
  <2>1. /\ DOMAIN n.blocks = DOMAIN m.blocks \cup {v} /\ n.blocks[v] = Block(v, z, "Alias")
        /\ \A k \in DOMAIN m.blocks : k # v => n.blocks[k] = m.blocks[k]
        /\ n.flat \subseteq m.flat \cup {v} /\ n.host = Backed(m.host, v, v, z)
    BY <1>12 DEF MappedAs
  <2>2. DOMAIN n.blocks = Ground \cup {Stack.guest, v} \cup DOMAIN Nothing /\ n.flat \subseteq DOMAIN n.blocks
    BY <1>4, <2>1 DEF Nothing
  <2>3. n.blocks[GuestSize] = m.blocks[GuestSize] /\ n.blocks[Stack.guest] = m.blocks[Stack.guest]
    <3>1. GuestSize \in DOMAIN m.blocks /\ Stack.guest \in DOMAIN m.blocks /\ GuestSize # v /\ Stack.guest # v
      BY <1>1, <1>2, <1>3, <1>4 DEF Ground
    <3> QED BY <2>1, <3>1
  <2>4. HostIs(n.host, CodePages(modules))
    <3>1. PICK host, new : host = m.host /\ new = n.host
      OBVIOUS
    <3>2. CodePages(modules) = v .. v + z - 1
      <4>1. EndOfCode(modules) - 1 = v + z - 1
        BY <1>1, <1>2, <1>3
      <4> HIDE DEF v
      <4> QED BY <4>1 DEF CodePages, v
    <3>3. /\ DOMAIN new = DOMAIN host \cup CodePages(modules)
          /\ \A p \in DOMAIN new : new[p] = IF p \in CodePages(modules) THEN v + (p - v) ELSE host[p]
      BY <2>1, <3>1, <3>2 DEF Backed
    <3>4. \A p \in CodePages(modules) : new[p] = p
      BY <1>3, <3>2, <3>3
    <3>5. \A p \in StackPages : p \notin CodePages(modules)
      <4>1. \A p \in v .. v + z - 1 : p < Stack.guest
        BY <1>2, <1>3
      <4>2. \A p \in StackPages : p >= Stack.guest /\ p \in Int
        BY Layout DEF StackPages
      <4> QED BY <1>3, <3>2, <4>1, <4>2
    <3>6. DOMAIN host = SelfPages \cup StackPages \cup {} /\ \A p \in StackPages : host[p] = Stack.back + (p - Stack.guest)
      BY <1>4, <3>1 DEF HostIs
    <3> QED BY <3>1, <3>3, <3>4, <3>5, <3>6 DEF HostIs
  <2>5. n.blocks[v].state = "Alias" /\ n.blocks[v].size = EndOfCode(modules) - v
    BY <1>1, <1>2, <2>1 DEF Block
  <2>6. n.tracker = Held(modules)
    BY <1>1, <1>2, <1>8, <1>12 DEF Held
  <2>7. DOMAIN Nothing = Sections(Nothing) /\ SectionsIn(n, Nothing, v)
    BY DEF Nothing, Sections, SectionsIn
  <2>8. v \in Nat /\ v <= v /\ v <= EndOfCode(modules)
    BY <1>1, <1>2, <1>3
  <2> QED BY <1>4, <1>12, <2>2, <2>3, <2>4, <2>5, <2>6, <2>7, <2>8 DEF Mapping, Edge
<1>13. ASSUME m.tracker.maps <= image.barrier
       PROVE  \/ Failing(r, c)
              \/ \E n : Gives(r, n, "ok") /\ Mapping(n, Nothing, v, modules) /\ n.tracker.maps <= image.barrier
  <2> HIDE DEF v
  <2> QED BY <1>0, <1>5, <1>11, <1>12, <1>13
<1> QED BY <1>1, <1>9, <1>13
\* What follows from that order for two regions that are not neighbours.
LEMMA Orders ==
    ASSUME NEW e, InOrder(e)
    PROVE  /\ PageSize < CodeAddr /\ SelfTest.guest < CodeAddr /\ SelfTest.guest < e /\ SelfTest.guest < Stack.guest
           /\ CodeAddr < Stack.guest /\ Stack.guest < Second /\ Second < Tls.guest /\ Stack.guest < Tls.guest
           /\ Second + PageSize <= Stack.guest + Stack.size /\ Second + PageSize < Tls.guest
           /\ Tls.guest < GuestSize /\ Stack.guest < GuestSize /\ Second < GuestSize /\ e < GuestSize
           /\ e < Modulus /\ Stack.guest < Modulus /\ Tls.guest + PageSize < Modulus
           /\ Stack.guest + Stack.size < Modulus /\ Stack.guest \in Nat /\ GuestSize \in Nat
<1>1. PICK p, s, c, g, z, b, t, x, m \in Nat :
        p = PageSize /\ s = SelfTest.guest /\ c = CodeAddr /\ g = Stack.guest /\ z = Stack.size
        /\ b = Second /\ t = Tls.guest /\ x = GuestSize /\ m = Modulus
  BY DEF InOrder
<1>2. e \in Nat /\ 0 < p /\ p < s /\ s + p < c /\ c <= e /\ e < g /\ b = g + p
  BY <1>1 DEF InOrder
<1>3. p + p <= z /\ g + z < t /\ t + p < x /\ x < m
  BY <1>1 DEF InOrder
<1> QED BY <1>1, <1>2, <1>3

------------------------------------------------------------------------------
(* The second pass and the TLS page. *)

\* The cursor's block is the last one before where its section would end, and more.
LEMMA CursorIs ==
    ASSUME NEW modules \in [1 .. Modules -> Shapes], NEW m, NEW u, NEW cursor, Mapping(m, u, cursor, modules),
           NEW p \in Nat, cursor <= p, p < Stack.guest
    PROVE  Below(m.blocks, p) = cursor /\ cursor \in DOMAIN m.blocks
<1>1. PICK e \in Nat : e = EndOfCode(modules) /\ InOrder(e)
  BY CodeFits, Regions
<1>2. cursor \in Nat /\ CodeAddr <= cursor /\ cursor \in DOMAIN m.blocks
  BY DEF Mapping
<1>3. ASSUME NEW k \in DOMAIN m.blocks PROVE k \in Nat /\ (k <= p => k <= cursor)
  <2>1. /\ k \in Nat
        /\ \/ k <= SelfTest.guest \/ k = cursor \/ k \in {Stack.guest, GuestSize}
           \/ k \in Sections(u) /\ k < cursor
    BY SectionBelow
  <2>2. PICK s, g, t \in Nat : s = SelfTest.guest /\ g = Stack.guest /\ t = GuestSize /\ s <= cursor /\ g <= t
    <3>3. SelfTest.guest \in Nat /\ Stack.guest \in Nat /\ GuestSize \in Nat /\ CodeAddr \in Nat
      BY <1>1 DEF InOrder
    <3>1. SelfTest.guest \in Nat /\ Stack.guest \in Nat /\ GuestSize \in Nat /\ SelfTest.guest <= CodeAddr
          /\ Stack.guest <= GuestSize /\ CodeAddr \in Nat
      BY <1>1, <3>3, Orders
    <3>2. SelfTest.guest <= cursor
      BY <1>2, <3>1
    <3> QED BY <3>1, <3>2
  <2> QED BY <1>2, <2>1, <2>2
<1>4. DOMAIN m.blocks \subseteq Nat /\ \A k \in DOMAIN m.blocks : k <= p => k <= cursor
  BY <1>3
<1> QED BY <1>2, <1>4, BelowIs

\* One section: its block is split off the reserved one, which begins behind it then.
LEMMA SectionMaps ==
    ASSUME NEW modules \in [1 .. Modules -> Shapes], NEW m, NEW u, NEW cursor, Mapping(m, u, cursor, modules),
           NEW size \in Nat \ {0}, cursor + Align(size) <= EndOfCode(modules),
           NEW r, r = Allocate(m, cursor, cursor, size, "Code")
    PROVE  \E n : /\ r = [mem |-> n, fate |-> "ok", at |-> cursor]
                  /\ Mapping(n, InsertOrAssign(u, cursor, size), cursor + Align(size), modules)
<1>1. PICK e \in Nat : e = EndOfCode(modules) /\ InOrder(e)
  BY CodeFits, Regions
<1>2. PICK z \in Nat : z = Align(size) /\ size <= z
  BY AlignAbove
<1>3. z # 0 /\ size \in Nat /\ size # 0
  BY <1>2
<1>4. /\ MemOK(m) /\ DOMAIN m.blocks = Ground \cup {Stack.guest, cursor} \cup DOMAIN u
      /\ m.flat \subseteq DOMAIN m.blocks /\ m.blocks[GuestSize].size = 0
      /\ DOMAIN u = Sections(u) /\ SectionsIn(m, u, cursor)
      /\ cursor \in Nat /\ CodeAddr <= cursor /\ cursor <= e
      /\ m.blocks[cursor].state = "Alias" /\ m.blocks[cursor].size = e - cursor
      /\ m.blocks[Stack.guest] = Reserved
      /\ m.tracker = Held(modules) /\ HostIs(m.host, CodePages(modules))
  BY <1>1 DEF Mapping, Edge
<1>5. PICK to \in Nat : to = cursor + z
  BY <1>2, <1>4
<1>6. to <= e /\ cursor < to /\ cursor + size <= to
  BY <1>1, <1>2, <1>3, <1>4, <1>5
<1>7. /\ e < Stack.guest /\ Stack.guest \in Nat /\ Stack.guest < GuestSize /\ GuestSize \in Nat /\ GuestSize < Modulus
      /\ Modulus \in Nat /\ SelfTest.guest \in Nat /\ PageSize \in Nat /\ CodeAddr \in Nat
      /\ PageSize < CodeAddr /\ SelfTest.guest < CodeAddr /\ e < Modulus
  <2>1. /\ e < Stack.guest /\ Stack.guest \in Nat /\ GuestSize \in Nat /\ GuestSize < Modulus
        /\ Modulus \in Nat /\ SelfTest.guest \in Nat /\ PageSize \in Nat /\ CodeAddr \in Nat
    BY <1>1 DEF InOrder
  <2>2. Stack.guest < GuestSize /\ PageSize < CodeAddr /\ SelfTest.guest < CodeAddr /\ e < Modulus
    BY <1>1, Orders
  <2> QED BY <2>1, <2>2
<1>8. Below(m.blocks, cursor) = cursor /\ Below(m.blocks, cursor + size) = cursor /\ cursor \in DOMAIN m.blocks
  <2>1. cursor + size \in Nat /\ cursor <= cursor + size /\ cursor + size < Stack.guest /\ cursor < Stack.guest
    BY <1>1, <1>3, <1>4, <1>5, <1>6, <1>7
  <2> QED BY <1>4, <2>1, CursorIs
<1>9. cursor \in Addr /\ to \in Addr
  <2>1. cursor < Modulus /\ to < Modulus
    BY <1>1, <1>4, <1>5, <1>6, <1>7
  <2> QED BY <1>4, <1>5, <1>7, <2>1 DEF Addr
<1>10. PICK n : /\ r = [mem |-> n, fate |-> "ok", at |-> cursor] /\ MemOK(n)
                /\ SplitOf(n.blocks, m.blocks, cursor, cursor, cursor, z, "Code")
                /\ n.flat \subseteq m.flat \cup {cursor} /\ n.tracker = m.tracker /\ n.host = m.host
  <2>1. cursor <= cursor /\ "Code" \in States /\ "Code" # "Alias" /\ cursor + Align(size) \in Addr
    BY <1>2, <1>4, <1>5, <1>9 DEF States
  <2> QED BY <1>2, <1>3, <1>4, <1>8, <1>9, <2>1, AllocateWithin
<1>11. PICK w : w = InsertOrAssign(u, cursor, size)
  OBVIOUS
<1>12. DOMAIN w = DOMAIN u \cup {cursor} /\ w[cursor] = size /\ \A v \in DOMAIN u : v # cursor => w[v] = u[v]
  BY <1>11 DEF InsertOrAssign
<1>13. /\ DOMAIN n.blocks = DOMAIN m.blocks \cup {to, cursor}
       /\ n.blocks[cursor] = Block(cursor, z, "Code")
       /\ n.blocks[to] = [m.blocks[cursor] EXCEPT !.size = Minus(Plus(cursor, @), cursor + z)]
       /\ \A k \in DOMAIN m.blocks : k # cursor /\ k # to => n.blocks[k] = m.blocks[k]
  BY <1>5, <1>6, <1>10 DEF SplitOf
<1>14. n.blocks[to].state = "Alias" /\ n.blocks[to].size = e - to
  <2>1. m.blocks[cursor] \in BlockType
    BY <1>4, <1>8 DEF MemOK, BlocksOK
  <2>2. PICK x \in Nat : x = e - cursor /\ cursor + x = e
    BY <1>1, <1>4
  <2>3. Plus(cursor, x) = e
    BY <1>4, <1>7, <2>2, Wraps
  <2>4. Minus(e, to) = e - to
    BY <1>1, <1>5, <1>6, <1>7, Wraps
  <2>5. n.blocks[to].size = Minus(Plus(cursor, x), to) /\ n.blocks[to].state = m.blocks[cursor].state
    BY <1>4, <1>5, <1>13, <2>1, <2>2 DEF BlockType
  <2> QED BY <1>4, <2>3, <2>4, <2>5
<1>15. ASSUME NEW v \in Sections(u)
       PROVE  /\ v \in Nat /\ CodeAddr <= v /\ u[v] \in Nat \ {0} /\ v + Align(u[v]) <= cursor /\ v < cursor
              /\ v \in DOMAIN m.blocks /\ m.blocks[v] = Block(v, Align(u[v]), "Code") /\ w[v] = u[v]
              /\ \A x \in Sections(u) : v < x => v + Align(u[v]) <= x
  <2>1. /\ v \in Nat /\ CodeAddr <= v /\ u[v] \in Nat \ {0} /\ v + Align(u[v]) <= cursor
        /\ v \in DOMAIN m.blocks /\ m.blocks[v] = Block(v, Align(u[v]), "Code")
        /\ \A x \in Sections(u) : v < x => v + Align(u[v]) <= x
    BY <1>4 DEF SectionsIn
  <2>2. PICK a \in Nat : a = Align(u[v]) /\ u[v] <= a
    BY <2>1, AlignAbove
  <2>3. v < cursor
    BY <1>4, <2>1, <2>2
  <2>4. w[v] = u[v]
    BY <1>12, <2>1, <2>3 DEF Sections
  <2> QED BY <2>1, <2>3, <2>4
<1>16. Sections(w) = Sections(u) \cup {cursor} /\ DOMAIN w = Sections(w)
  <2>1. cursor < Stack.guest
    BY <1>1, <1>4, <1>7
  <2> QED BY <1>4, <1>12, <2>1 DEF Sections
<1>17. SectionsIn(n, w, to)
  <2>1. ASSUME NEW v \in Sections(w)
        PROVE  /\ v \in Nat /\ CodeAddr <= v /\ w[v] \in Nat \ {0} /\ v + Align(w[v]) <= to
               /\ v \in DOMAIN n.blocks /\ n.blocks[v] = Block(v, Align(w[v]), "Code")
               /\ \A x \in Sections(w) : v < x => v + Align(w[v]) <= x
    <3>1. CASE v = cursor
      <4>1. \A x \in Sections(w) : ~(cursor < x)
        BY <1>4, <1>15, <1>16
      <4>2. cursor + z <= to /\ z = Align(w[cursor])
        BY <1>2, <1>5, <1>12
      <4> QED BY <1>3, <1>4, <1>12, <1>13, <3>1, <4>1, <4>2
    <3>2. CASE v \in Sections(u)
      <4>1. n.blocks[v] = m.blocks[v] /\ v \in DOMAIN n.blocks
        <5>1. v # cursor /\ v # to
          BY <1>4, <1>6, <1>15, <3>2
        <5> QED BY <1>13, <1>15, <3>2, <5>1
      <4>2. PICK a \in Nat : a = Align(u[v])
        BY <1>15, <3>2, AlignAbove
      <4>3. v + a <= to
        BY <1>4, <1>6, <1>15, <3>2, <4>2
      <4>4. \A x \in Sections(w) : v < x => v + a <= x
        BY <1>15, <1>16, <3>2, <4>2
      <4>5. w[v] = u[v]
        BY <1>15, <3>2
      <4> QED BY <1>15, <3>2, <4>1, <4>2, <4>3, <4>4, <4>5
    <3> QED BY <1>16, <3>1, <3>2
  <2> QED BY <2>1 DEF SectionsIn
<1>18. DOMAIN n.blocks = Ground \cup {Stack.guest, to} \cup DOMAIN w
  BY <1>4, <1>12, <1>13
<1>19. n.flat \subseteq DOMAIN n.blocks
  BY <1>4, <1>8, <1>10, <1>13
<1>20. n.blocks[GuestSize] = m.blocks[GuestSize] /\ n.blocks[Stack.guest] = m.blocks[Stack.guest]
  <2>1. GuestSize # cursor /\ GuestSize # to /\ Stack.guest # cursor /\ Stack.guest # to
    BY <1>1, <1>4, <1>5, <1>6, <1>7
  <2>2. GuestSize \in DOMAIN m.blocks /\ Stack.guest \in DOMAIN m.blocks
    BY <1>4 DEF Ground
  <2> QED BY <1>13, <2>1, <2>2
<1>21. CodeAddr <= to
  BY <1>4, <1>5, <1>6, <1>7
<1>22. Mapping(n, w, to, modules)
  BY <1>1, <1>4, <1>5, <1>6, <1>10, <1>14, <1>16, <1>17, <1>18, <1>19, <1>20, <1>21 DEF Mapping, Edge
<1> QED BY <1>2, <1>5, <1>10, <1>11, <1>22

\* What is done behind the sections keeps them.
LEMMA SectionsKept ==
    ASSUME NEW m, NEW u, NEW limit \in Nat, SectionsIn(m, u, limit), NEW e \in Nat, limit <= e, NEW n, NEW w,
           Sections(w) = Sections(u),
           \A v \in Sections(u) : w[v] = u[v] /\ v \in DOMAIN n.blocks /\ n.blocks[v] = m.blocks[v]
    PROVE  SectionsIn(n, w, e)
<1>1. ASSUME NEW v \in Sections(w)
      PROVE  /\ v \in Nat /\ CodeAddr <= v /\ w[v] \in Nat \ {0} /\ v + Align(w[v]) <= e
             /\ v \in DOMAIN n.blocks /\ n.blocks[v] = Block(v, Align(w[v]), "Code")
             /\ \A x \in Sections(w) : v < x => v + Align(w[v]) <= x
  <2>1. /\ v \in Nat /\ CodeAddr <= v /\ u[v] \in Nat \ {0} /\ v + Align(u[v]) <= limit
        /\ m.blocks[v] = Block(v, Align(u[v]), "Code")
        /\ \A x \in Sections(u) : v < x => v + Align(u[v]) <= x
    BY DEF SectionsIn
  <2>2. PICK a \in Nat : a = Align(u[v])
    BY <2>1, AlignAbove
  <2>3. v + a <= e
    BY <2>1, <2>2
  <2> QED BY <2>1, <2>2, <2>3
<1> QED BY <1>1 DEF SectionsIn

\* KSlabHeap's page: nothing is reserved for it, and it is split off the block of the stacks.
LEMMA TlsGiven ==
    ASSUME NEW modules \in [1 .. Modules -> Shapes], NEW m, NEW u, NEW cursor, Mapping(m, u, cursor, modules),
           NEW r, r = Allocate(m, Tls.guest, Tls.back, PageSize, "ThreadLocal"),
           NEW w, w = InsertOrAssign(u, Tls.guest, PageSize)
    PROVE  /\ Reserve(m, Tls.guest, Tls.back, Tls.size) = [mem |-> m, fate |-> "ok", at |-> None]
           /\ \E n : Gives(r, n, "ok") /\ Loaded(n, w, modules) /\ NoThread(n, w)
<1> DEFINE g == Stack.guest
           t == Tls.guest
<1>1. PICK e \in Nat : e = EndOfCode(modules) /\ InOrder(e)
  BY CodeFits, Regions
<1>2. /\ MemOK(m) /\ DOMAIN m.blocks = Ground \cup {g, cursor} \cup DOMAIN u
      /\ m.flat \subseteq DOMAIN m.blocks /\ m.blocks[GuestSize].size = 0
      /\ DOMAIN u = Sections(u) /\ SectionsIn(m, u, cursor)
      /\ cursor \in Nat /\ cursor <= e
      /\ m.blocks[g] = Reserved
      /\ m.tracker = Held(modules) /\ HostIs(m.host, CodePages(modules))
  BY <1>1 DEF Mapping, Edge
<1>3. /\ g \in Nat /\ t \in Nat /\ e < g /\ g < Second /\ Second < t /\ t < GuestSize /\ GuestSize \in Nat
      /\ Second \in Nat /\ Second = g + PageSize /\ PageSize \in Nat /\ PageSize # 0 /\ Stack.size \in Nat
      /\ Stack.guest + Stack.size < t /\ SelfTest.guest < g /\ SelfTest.guest \in Nat
      /\ t + PageSize < GuestSize /\ GuestSize < Modulus /\ Modulus \in Nat
  <2>1. /\ g \in Nat /\ t \in Nat /\ e < g /\ Second \in Nat /\ Second = g + PageSize /\ PageSize \in Nat
        /\ 0 < PageSize /\ Stack.size \in Nat /\ Stack.guest + Stack.size < t /\ SelfTest.guest \in Nat
        /\ GuestSize \in Nat /\ t + PageSize < GuestSize /\ GuestSize < Modulus /\ Modulus \in Nat
    BY <1>1 DEF InOrder
  <2>2. g < Second /\ Second < t /\ t < GuestSize /\ SelfTest.guest < g
    BY <1>1, Orders
  <2> QED BY <2>1, <2>2
<1>4. \A k \in DOMAIN m.blocks : k \in Nat /\ (k < g \/ k \in {g, GuestSize})
  <2> TAKE k \in DOMAIN m.blocks
  <2>1. /\ k \in Nat
        /\ \/ k <= SelfTest.guest \/ k = cursor \/ k \in {Stack.guest, GuestSize}
           \/ k \in Sections(u) /\ k < cursor
    BY SectionBelow
  <2>2. PICK s \in Nat : s = SelfTest.guest /\ s < g
    BY <1>3
  <2>3. PICK n, a \in Nat : n = cursor /\ a = Stack.guest /\ n < a
    <3>1. PICK n, a \in Nat : n = cursor /\ a = Stack.guest
      BY <1>2, <1>3
    <3>2. n <= e /\ e < a
      BY <1>2, <1>3, <3>1
    <3>3. n < a
      BY <1>1, <3>2
    <3> QED BY <3>1, <3>3
  <2>4. k < a \/ k = a \/ k = GuestSize
    BY <2>1, <2>2, <2>3
  <2> QED BY <2>1, <2>3, <2>4
<1>5. g \in DOMAIN m.blocks /\ GuestSize \in DOMAIN m.blocks /\ t \notin DOMAIN m.blocks /\ Second \notin DOMAIN m.blocks
  <2>1. g \in DOMAIN m.blocks /\ GuestSize \in DOMAIN m.blocks
    BY <1>2 DEF Ground
  <2>2. t \notin DOMAIN m.blocks /\ Second \notin DOMAIN m.blocks
    <3> HIDE DEF g, t
    <3> QED BY <1>3, <1>4
  <2> QED BY <2>1, <2>2
<1>6. DOMAIN m.blocks \subseteq Nat /\ \A p \in Nat : p < GuestSize => \A k \in DOMAIN m.blocks : k <= p => k <= g
  <2> HIDE DEF g, t
  <2> QED BY <1>3, <1>4
<1>7. Below(m.blocks, t) = g /\ Below(m.blocks, t + PageSize) = g
  <2>1. PICK x, a, y \in Nat : x = Stack.guest /\ a = Tls.guest /\ y = a + PageSize
    BY <1>3
  <2>2. a < GuestSize /\ y < GuestSize /\ x <= a /\ x <= y
    BY <1>3, <2>1
  <2>3. x \in DOMAIN m.blocks
    BY <1>5, <2>1
  <2>4. \A p \in Nat : p < GuestSize => \A k \in DOMAIN m.blocks : k <= p => k <= x
    BY <1>6, <2>1
  <2>5. Below(m.blocks, a) = x
    BY <1>6, <2>2, <2>3, <2>4, BelowIs
  <2>6. Below(m.blocks, y) = x
    BY <1>6, <2>2, <2>3, <2>4, BelowIs
  <2> QED BY <2>1, <2>5, <2>6
<1>8. Reserve(m, t, Tls.back, Tls.size) = [mem |-> m, fate |-> "ok", at |-> None]
  <2>1. Found(m, t) = None
    <3>1. t \notin m.flat /\ t < Modulus
      <4> HIDE DEF g, t
      <4> QED BY <1>2, <1>3, <1>5
    <3>2. m.blocks[g].size = Stack.size
      BY <1>2 DEF Reserved, Block
    <3>3. m.blocks[g].size \in Nat /\ g + m.blocks[g].size < t /\ g <= t
      BY <1>3, <3>2
    <3>4. \A j \in DOMAIN m.blocks : j <= t => j <= g
      BY <1>3, <1>6
    <3> HIDE DEF g, t
    <3> QED BY <1>3, <1>5, <1>6, <3>1, <3>3, <3>4, FoundNone
  <2>2. Contains(m.tracker, Tls.back)
    BY <1>2, TwoContains DEF Held
  <2> QED BY <2>1, <2>2 DEF Reserve, Cached
<1>9. t \in Addr /\ t + PageSize \in Addr /\ Tls.back \in Addr
  <2>1. PICK x, y, z, n, k \in Nat : x = Tls.back /\ y = Stack.back /\ z = Stack.size /\ n = BackSize /\ k = Modulus
    BY <1>1 DEF InOrder
  <2>2. x < y /\ y + z <= n /\ n < k
    BY <1>1, <2>1 DEF InOrder
  <2>3. x < k
    BY <2>1, <2>2
  <2>4. Tls.back \in Addr
    BY <2>1, <2>3 DEF Addr
  <2>5. t \in Addr /\ t + PageSize \in Addr
    <3> HIDE DEF g, t
    <3> QED BY <1>3 DEF Addr
  <2> QED BY <2>4, <2>5
<1>10. Align(PageSize) = PageSize
  BY AlignStays
<1>11. PICK n : /\ r = [mem |-> n, fate |-> "ok", at |-> t] /\ MemOK(n)
                /\ SplitOf(n.blocks, m.blocks, g, t, Tls.back, PageSize, "ThreadLocal")
                /\ n.flat \subseteq m.flat \cup {t} /\ n.tracker = m.tracker /\ n.host = m.host
  <2>1. PICK type : type = "ThreadLocal"
    OBVIOUS
  <2>2. PICK phys : phys = Tls.back
    OBVIOUS
  <2>3. type \in States /\ type # "Alias" /\ m.blocks[g].state = "Alias"
    BY <1>2, <2>1 DEF States, Reserved, Block
  <2>4. t + Align(PageSize) \in Addr /\ g <= t /\ phys \in Addr /\ r = Allocate(m, t, phys, PageSize, type)
    BY <1>3, <1>9, <1>10, <2>1, <2>2
  <2>5. /\ MemOK(m) /\ m.flat \subseteq DOMAIN m.blocks /\ t \in Addr /\ PageSize \in Nat
        /\ g \in DOMAIN m.blocks /\ Below(m.blocks, t) = g /\ Below(m.blocks, t + PageSize) = g
    BY <1>2, <1>3, <1>5, <1>7, <1>9
  <2> HIDE DEF g, t
  <2>6. \E n : /\ Allocate(m, t, phys, PageSize, type) = [mem |-> n, fate |-> "ok", at |-> t]
               /\ MemOK(n) /\ SplitOf(n.blocks, m.blocks, g, t, phys, Align(PageSize), type)
               /\ n.flat \subseteq m.flat \cup {t} /\ n.tracker = m.tracker /\ n.host = m.host
    BY <2>3, <2>4, <2>5, AllocateWithin
  <2> QED BY <1>10, <2>1, <2>2, <2>4, <2>6
<1>12. /\ DOMAIN n.blocks = DOMAIN m.blocks \cup {Second, t}
       /\ n.blocks[t] = Block(Tls.back, PageSize, "ThreadLocal")
       /\ n.blocks[Second] = [m.blocks[g] EXCEPT !.size = Minus(Plus(g, @), t + PageSize)]
       /\ n.blocks[g] = [m.blocks[g] EXCEPT !.size = t - g]
       /\ \A k \in DOMAIN m.blocks : k \notin {g, t, Second} => n.blocks[k] = m.blocks[k]
  <2>1. Second # t /\ g # t /\ g # Second
    BY <1>3
  <2> QED BY <1>3, <1>11, <2>1 DEF SplitOf
<1>13. n.blocks[g] = Block(Stack.back, t - g, "Alias")
  BY <1>2, <1>12 DEF Reserved, Block
<1>14. n.blocks[Second].size = Minus(Stack.guest + Stack.size, t + PageSize)
  <2>1. Plus(g, Stack.size) = g + Stack.size
    <3>1. PICK x, z \in Nat : x = Stack.guest /\ z = Stack.size /\ x + z < Modulus
      BY <1>1, <1>3, Orders
    <3> QED BY <3>1, Wraps
  <2>2. n.blocks[Second].size = Minus(Plus(g, Stack.size), t + PageSize)
    BY <1>2, <1>12 DEF Reserved, Block
  <2> QED BY <2>1, <2>2
<1>15. DOMAIN w = DOMAIN u \cup {t} /\ w[t] = PageSize /\ \A v \in DOMAIN u : v # t => w[v] = u[v]
  BY DEF InsertOrAssign
<1>16. Sections(w) = Sections(u) /\ \A v \in Sections(u) : w[v] = u[v] /\ v < g /\ v \in DOMAIN u
  BY <1>2, <1>3, <1>15 DEF Sections
<1>17. SectionsIn(n, w, e)
  <2>1. \A v \in Sections(u) : v \in DOMAIN m.blocks /\ v \notin {g, t, Second} /\ v \in Nat
    <3>1. \A v \in Sections(u) : v \in DOMAIN m.blocks /\ v \in Nat
      BY <1>2 DEF SectionsIn
    <3> HIDE DEF g, t
    <3> QED BY <1>3, <1>16, <3>1
  <2>2. \A v \in Sections(u) : v \in DOMAIN n.blocks /\ n.blocks[v] = m.blocks[v]
    BY <1>12, <2>1
  <2> QED BY <1>1, <1>2, <1>16, <2>2, SectionsKept
<1>18. Placed(w)
  <2>1. DOMAIN w = Sections(w) \cup {t} /\ g \notin DOMAIN w /\ Second \notin DOMAIN w
    <3> HIDE DEF g, t
    <3> QED BY <1>2, <1>3, <1>5, <1>15, <1>16
  <2>2. \A v \in DOMAIN w : w[v] \in Nat \ {0}
    <3>1. \A v \in Sections(u) : u[v] \in Nat \ {0}
      BY <1>2 DEF SectionsIn
    <3> QED BY <1>3, <1>15, <1>16, <2>1, <3>1
  <2> QED BY <1>15, <2>1, <2>2 DEF Placed
<1>19. n.flat \subseteq DOMAIN n.blocks /\ Second \notin n.flat
  <2> HIDE DEF g, t
  <2> QED BY <1>2, <1>3, <1>5, <1>11, <1>12
<1>20. Edge(n)
  <2>1. GuestSize \notin {g, t, Second}
    <3> HIDE DEF g, t
    <3> QED BY <1>3
  <2> QED BY <1>2, <1>5, <1>12, <2>1 DEF Edge
<1>21. Behind(n) = {g, Second, t, GuestSize}
  <2>1. g >= g /\ Second >= g /\ t >= g /\ GuestSize >= g
    BY <1>3
  <2>2. \A k \in DOMAIN m.blocks : k >= g => k \in {g, GuestSize}
    <3> HIDE DEF g, t
    <3> QED BY <1>3, <1>4
  <2> QED BY <1>5, <1>12, <2>1, <2>2 DEF Behind
<1>22. Loaded(n, w, modules)
  BY <1>1, <1>2, <1>11, <1>17, <1>18, <1>19, <1>20 DEF Loaded
<1>23. NoThread(n, w)
  <2>1. DOMAIN w = Sections(w) \cup {t}
    BY <1>2, <1>15, <1>16
  <2> QED BY <1>12, <1>13, <1>14, <1>19, <1>21, <2>1 DEF NoThread
<1>24. Gives(r, n, "ok")
  BY <1>11 DEF Gives
<1> QED BY <1>8, <1>22, <1>23, <1>24
------------------------------------------------------------------------------
(* The stacks of the threads. *)

\* The stacks' region in numbers.
LEMMA Spots ==
    ASSUME ImageOK
    PROVE  /\ Stack.guest \in Nat /\ PageSize \in Nat /\ Stack.size \in Nat /\ Second \in Nat
           /\ Tls.guest \in Nat /\ GuestSize \in Nat /\ Modulus \in Nat
           /\ 0 < PageSize /\ Second = Stack.guest + PageSize /\ PageSize + PageSize <= Stack.size
           /\ Stack.guest + Stack.size < Tls.guest /\ Tls.guest + PageSize < GuestSize /\ GuestSize < Modulus
<1>1. image.modules \in [1 .. Modules -> Shapes]
  BY DEF ImageOK
<1>2. PICK e \in Nat : InOrder(e)
  BY <1>1, CodeFits, Regions
<1> QED BY <1>2 DEF InOrder

\* A table with the same blocks, and with one of them in the cache.
Same(n, m, addr) ==
    /\ n.blocks = m.blocks /\ n.flat = m.flat \cup {addr}
    /\ n.tracker = m.tracker /\ n.host = m.host

\* SearchBlock finds the block that starts at an address, and puts it into the cache.
LEMMA CachedIs ==
    ASSUME NEW m, MemOK(m), NEW addr \in DOMAIN m.blocks, addr + m.blocks[addr].size < Modulus
    PROVE  Found(m, addr) = addr /\ MemOK(Cached(m, addr)) /\ Same(Cached(m, addr), m, addr)
<1>1. DOMAIN m.blocks \subseteq Addr /\ m.blocks[addr] \in BlockType /\ Addr \subseteq Nat
  BY Layout DEF MemOK, BlocksOK, Addr
<1>2. DOMAIN m.blocks \subseteq Nat /\ m.blocks[addr].size \in Nat
  BY <1>1 DEF BlockType
<1>3. Found(m, addr) = addr /\ Cached(m, addr) = [m EXCEPT !.flat = @ \cup {addr}]
  BY <1>2, FoundIs
<1>4. PICK b, f, o, h : b = m.blocks /\ f = m.flat /\ o = m.tracker /\ h = m.host
  OBVIOUS
<1>5. m = [blocks |-> b, flat |-> f, stale |-> {}, tracker |-> o, host |-> h]
  BY <1>4 DEF MemOK
<1>6. PICK n : n = Cached(m, addr)
  OBVIOUS
<1>7. n = [blocks |-> b, flat |-> f \cup {addr}, stale |-> {}, tracker |-> o, host |-> h]
  BY <1>3, <1>5, <1>6
<1>8. MemOK(n) /\ Same(n, m, addr)
  <2>1. n.flat \subseteq Addr
    BY <1>1, <1>4, <1>7 DEF MemOK
  <2>2. Same(n, m, addr)
    BY <1>4, <1>7 DEF Same
  <2> QED BY <1>4, <1>7, <2>1, <2>2 DEF MemOK
<1> QED BY <1>3, <1>6, <1>8

\* What was loaded stays so, in the cache too.
LEMMA CachedLoaded ==
    ASSUME NEW modules, NEW m, NEW u, Loaded(m, u, modules), NEW addr \in DOMAIN m.blocks,
           NEW n, MemOK(n), Same(n, m, addr)
    PROVE  /\ Loaded(n, u, modules)
           /\ NoThread(m, u) /\ addr # Second => NoThread(n, u)
           /\ \A stack : OneThread(m, u, stack) => OneThread(n, u, stack)
<1>1. Loaded(n, u, modules)
  BY DEF Loaded, Same, Edge, SectionsIn
<1>2. NoThread(m, u) /\ addr # Second => NoThread(n, u)
  BY DEF Same, NoThread, Behind
<1>3. \A stack : OneThread(m, u, stack) => OneThread(n, u, stack)
  BY DEF Same, OneThread, Behind
<1> QED BY <1>1, <1>2, <1>3

\* The block before an address behind the start of the stacks.
LEMMA StackBelow ==
    ASSUME ImageOK, NEW m, MemOK(m), NEW k \in Behind(m), NEW q \in Nat, k <= q,
           \A j \in Behind(m) : j <= q => j <= k
    PROVE  Below(m.blocks, q) = k
<1>1. DOMAIN m.blocks \subseteq Nat /\ k \in DOMAIN m.blocks /\ k >= Stack.guest /\ Stack.guest \in Nat
  BY Layout DEF MemOK, BlocksOK, Addr, Behind
<1>2. \A j \in DOMAIN m.blocks : j <= q => j <= k
  BY <1>1 DEF Behind
<1> QED BY <1>1, <1>2, BelowIs

\* A stack that was given leaves the sections, the tracker and the host alone.
LEMMA StackLoaded ==
    ASSUME ImageOK, NEW m, NEW u, Loaded(m, u, image.modules), NEW v \in Nat, Stack.guest <= v, NEW size,
           NEW w, w = InsertOrAssign(u, v, size), Placed(w),
           NEW n, MemOK(n), n.flat \subseteq DOMAIN n.blocks, n.blocks[GuestSize].size = 0,
           \A k \in DOMAIN m.blocks : k < Stack.guest => k \in DOMAIN n.blocks /\ n.blocks[k] = m.blocks[k],
           n.tracker = m.tracker, n.host = m.host
    PROVE  Loaded(n, w, image.modules) /\ Sections(w) = Sections(u)
<1>1. PICK e \in Nat : e = EndOfCode(image.modules)
  BY CodeFits DEF ImageOK
<1>2. DOMAIN w = DOMAIN u \cup {v} /\ \A k \in DOMAIN u : k # v => w[k] = u[k]
  BY DEF InsertOrAssign
<1>3. ~(v < Stack.guest) /\ Stack.guest \in Nat
  BY Spots
<1>4. Sections(w) = Sections(u) /\ \A k \in Sections(u) : w[k] = u[k] /\ k < Stack.guest
  BY <1>2, <1>3 DEF Sections
<1>5. SectionsIn(m, u, e)
  BY <1>1 DEF Loaded
<1>6. \A k \in Sections(u) : k \in DOMAIN m.blocks
  BY <1>5 DEF SectionsIn
<1>7. SectionsIn(n, w, e)
  <2>1. e <= e
    OBVIOUS
  <2> QED BY <1>4, <1>5, <1>6, <2>1, SectionsKept
<1> QED BY <1>1, <1>4, <1>7 DEF Loaded, Edge
\* What a program that fits leaves of the stacks is enough for its stack.
LEMMA StackFits ==
    ASSUME ImageOK, NEW a \in Nat, a + PageSize <= Stack.size
    PROVE  Align(a) + PageSize <= Stack.size
<1>1. PICK p, z \in Nat : p = PageSize /\ z = Stack.size /\ a + p <= z
  BY Spots
<1>2. PICK c \in Nat : c = z - p
  BY <1>1
<1>3. Align(a) \in Nat /\ Align(c) \in Nat /\ Align(a) <= Align(c)
  <2>1. a <= c
    BY <1>1, <1>2
  <2> QED BY <1>2, <2>1, AlignAbove, AlignOrder
<1>4. Align(c) = c
  <2>1. Align(Align(p) + c) = Align(p) + Align(c) /\ Align(p) = p
    BY <1>1, <1>2, AlignAdds, AlignStays
  <2>2. Align(z) = z
    BY <1>1, Layout
  <2>3. p + c = z
    BY <1>1, <1>2
  <2> QED BY <1>1, <1>2, <1>3, <2>1, <2>2, <2>3
<1> QED BY <1>1, <1>2, <1>3, <1>4

\* How a thread's stack ends a program that is not one that fits.
LEMMA StackFails ==
    ASSUME ImageOK, NEW m, MemOK(m), NEW c, m.tracker = Two(c), m.tracker.maps <= image.barrier,
           NEW r, NEW how \in {"bad_alloc", "aborted"}, Gives(r, m, how), ~Fits
    PROVE  Failing(r, c)
<1>1. Tracked(m.tracker, c)
  BY DEF Tracked
<1> QED BY <1>1 DEF Failing

\* The first thread's stack of less than a page: the block is split.
LEMMA SmallStack ==
    ASSUME ImageOK, NEW m, NEW u, Loaded(m, u, image.modules), NoThread(m, u),
           NEW a \in Nat \ {0}, a < PageSize,
           NEW r, r = Allocate(m, Stack.guest, Stack.back, a, "Stack"),
           NEW w, w = InsertOrAssign(u, Stack.guest, a)
    PROVE  \E n : Gives(r, n, "ok") /\ Loaded(n, w, image.modules) /\ OneThread(n, w, a)
<1>1. PICK g, p, b, t, x, k \in Nat : /\ g = Stack.guest /\ p = PageSize /\ b = Second /\ t = Tls.guest
                                      /\ x = GuestSize /\ k = Modulus
                                      /\ b = g + p /\ b + p < t /\ t < x /\ x < k /\ 0 < p
  <2>1. PICK g, p, z, b, t, x, k \in Nat : /\ g = Stack.guest /\ p = PageSize /\ z = Stack.size /\ b = Second
                                           /\ t = Tls.guest /\ x = GuestSize /\ k = Modulus
    BY Spots
  <2>2. b = g + p /\ p + p <= z /\ g + z < t /\ t + p < x /\ x < k /\ 0 < p
    BY <2>1, Spots
  <2>3. b + p < t /\ t < x
    BY <2>2
  <2> QED BY <2>1, <2>2, <2>3
<1>2. /\ MemOK(m) /\ m.flat \subseteq DOMAIN m.blocks /\ Behind(m) = {g, b, t, x}
      /\ m.blocks[g] = Block(Stack.back, t - g, "Alias") /\ m.blocks[x].size = 0
      /\ m.blocks[t] = Block(Tls.back, PageSize, "ThreadLocal") /\ DOMAIN u = Sections(u) \cup {t}
  BY <1>1 DEF Loaded, NoThread, Edge
<1>3. {g, b, t, x} \subseteq DOMAIN m.blocks
  BY <1>2 DEF Behind
<1>4. Below(m.blocks, g) = g /\ Below(m.blocks, g + a) = g
  <2>1. /\ g \in Behind(m) /\ g <= g /\ g <= g + a /\ g + a \in Nat
        /\ \A j \in Behind(m) : j <= g + a => j <= g
    BY <1>1, <1>2
  <2>2. \A j \in Behind(m) : j <= g => j <= g
    OBVIOUS
  <2>3. Below(m.blocks, g) = g
    BY <1>2, <2>1, <2>2, StackBelow
  <2>4. PICK q \in Nat : q = g + a
    BY <2>1
  <2>5. Below(m.blocks, q) = g
    BY <1>2, <2>1, <2>4, StackBelow
  <2> QED BY <2>3, <2>4, <2>5
<1>5. Align(a) = p
  BY <1>1, AlignStays
<1>6. g \in Addr /\ b \in Addr /\ Stack.back \in Addr
  <2>1. g \in Addr /\ b \in Addr
    BY <1>1 DEF Addr
  <2>2. m.blocks[g] \in BlockType /\ m.blocks[g].base = Stack.back
    BY <1>2, <1>3 DEF MemOK, BlocksOK, Block
  <2> QED BY <2>1, <2>2 DEF BlockType
<1>7. PICK n : /\ r = [mem |-> n, fate |-> "ok", at |-> g] /\ MemOK(n)
               /\ SplitOf(n.blocks, m.blocks, g, g, Stack.back, p, "Stack")
               /\ n.flat \subseteq m.flat \cup {g} /\ n.tracker = m.tracker /\ n.host = m.host
  <2>1. PICK type : type = "Stack"
    OBVIOUS
  <2>2. PICK phys : phys = Stack.back
    OBVIOUS
  <2>3. type \in States /\ type # "Alias" /\ m.blocks[g].state = "Alias"
    BY <1>2, <2>1 DEF States, Block
  <2>4. g + Align(a) \in Addr /\ g <= g /\ phys \in Addr /\ r = Allocate(m, g, phys, a, type)
    BY <1>1, <1>5, <1>6, <2>1, <2>2
  <2>5. \E n : /\ Allocate(m, g, phys, a, type) = [mem |-> n, fate |-> "ok", at |-> g]
               /\ MemOK(n) /\ SplitOf(n.blocks, m.blocks, g, g, phys, Align(a), type)
               /\ n.flat \subseteq m.flat \cup {g} /\ n.tracker = m.tracker /\ n.host = m.host
    BY <1>2, <1>3, <1>4, <1>6, <2>3, <2>4, AllocateWithin
  <2> QED BY <1>5, <2>1, <2>2, <2>4, <2>5
<1>8. /\ DOMAIN n.blocks = DOMAIN m.blocks /\ n.blocks[g] = Block(Stack.back, p, "Stack")
      /\ n.blocks[b] = [m.blocks[g] EXCEPT !.size = Minus(Plus(g, @), g + p)]
      /\ \A j \in DOMAIN m.blocks : j # g /\ j # b => n.blocks[j] = m.blocks[j]
  <2>1. g + p = b /\ g + p # g
    BY <1>1
  <2> QED BY <1>3, <1>7, <2>1 DEF SplitOf
<1>9. n.blocks[b].size = t - b /\ n.blocks[b].state = "Alias"
  <2>1. PICK y \in Nat : y = t - g /\ g + y = t
    BY <1>1
  <2>2. n.blocks[b] = [Block(Stack.back, y, "Alias") EXCEPT !.size = Minus(Plus(g, @), b)]
    BY <1>1, <1>2, <1>8, <2>1
  <2>3. n.blocks[b].size = Minus(Plus(g, y), b) /\ n.blocks[b].state = "Alias"
    BY <2>2 DEF Block
  <2>4. Plus(g, y) = t
    <3>1. g + y < Modulus
      BY <1>1, <2>1
    <3> QED BY <2>1, <3>1, Wraps
  <2>5. Minus(t, b) = t - b
    <3>1. t < Modulus /\ b <= t
      BY <1>1
    <3> QED BY <3>1, Wraps
  <2> QED BY <2>3, <2>4, <2>5
<1>10. Behind(n) = {g, b, t, x}
  BY <1>2, <1>8 DEF Behind
<1>11. n.blocks[t] = m.blocks[t] /\ n.blocks[x] = m.blocks[x]
       /\ \A j \in DOMAIN m.blocks : j < g => j \in DOMAIN n.blocks /\ n.blocks[j] = m.blocks[j]
  <2>1. t # g /\ t # b /\ x # g /\ x # b /\ \A j \in Nat : j < g => j # g /\ j # b
    BY <1>1
  <2>2. DOMAIN m.blocks \subseteq Nat
    BY <1>2, Layout DEF MemOK, BlocksOK, Addr
  <2> QED BY <1>3, <1>8, <2>1, <2>2
<1>12. DOMAIN w = DOMAIN u \cup {g} /\ w[g] = a /\ \A v \in DOMAIN u : v # g => w[v] = u[v]
  BY <1>1 DEF InsertOrAssign
<1>13. Sections(w) = Sections(u) /\ g \notin DOMAIN u
  <2>1. t # g /\ ~(g < g)
    BY <1>1
  <2> QED BY <1>1, <1>2, <1>12, <2>1 DEF Sections
<1>14. Placed(w)
  <2>1. Placed(u) /\ t \in DOMAIN u /\ t # g /\ b # g /\ b \notin Sections(u) /\ b # t
    BY <1>1, <1>2 DEF Loaded, Sections
  <2>2. DOMAIN w \subseteq Sections(w) \cup {g, b, t} /\ t \in DOMAIN w /\ w[t] = PageSize
        /\ b \notin DOMAIN w /\ Align(w[g]) <= Stack.size
    <3>1. u[t] = PageSize
      BY <1>1, <2>1 DEF Placed
    <3>2. Align(a) <= Stack.size
      BY <1>5, <1>1, Spots
    <3> QED BY <1>2, <1>12, <1>13, <2>1, <3>1, <3>2
  <2>3. \A v \in DOMAIN w : w[v] \in Nat \ {0}
    BY <1>12, <2>1 DEF Placed
  <2> QED BY <1>1, <2>2, <2>3 DEF Placed
<1>15. Loaded(n, w, image.modules)
  <2>1. n.flat \subseteq DOMAIN n.blocks /\ n.blocks[GuestSize].size = 0 /\ Stack.guest \in Nat /\ Stack.guest <= Stack.guest
    BY <1>1, <1>2, <1>3, <1>7, <1>8, <1>11
  <2> QED BY <1>1, <1>7, <1>11, <1>14, <2>1, StackLoaded
<1>16. OneThread(n, w, a)
  <2>1. DOMAIN w = Sections(w) \cup {t, g}
    BY <1>2, <1>12, <1>13
  <2>2. n.blocks[g].state = "Stack" /\ n.blocks[g].size = p
    BY <1>8 DEF Block
  <2>3. n.blocks[t].state = "ThreadLocal" /\ n.blocks[t].size = PageSize
    BY <1>2, <1>11 DEF Block
  <2>4. {g, t} \subseteq DOMAIN n.blocks
    BY <1>3, <1>8
  <2> QED BY <1>1, <1>9, <1>10, <1>12, <2>1, <2>2, <2>3, <2>4 DEF OneThread
<1> QED BY <1>7, <1>15, <1>16 DEF Gives

\* The first thread's stack of a page or more: the blocks are merged, or the program ends.
LEMMA BigStack ==
    ASSUME ImageOK, NEW m, NEW u, Loaded(m, u, image.modules), NoThread(m, u),
           m.tracker.maps <= image.barrier,
           NEW a \in Nat \ {0}, a = image.stack, PageSize <= a,
           NEW r, r = Allocate(m, Stack.guest, Stack.back, a, "Stack"),
           NEW w, w = InsertOrAssign(u, Stack.guest, a)
    PROVE  \/ Failing(r, EndOfCode(image.modules) - CodeAddr)
           \/ \E n : Gives(r, n, "ok") /\ Loaded(n, w, image.modules) /\ OneThread(n, w, a)
<1>1. PICK g, p, z, b, t, x, k \in Nat : /\ g = Stack.guest /\ p = PageSize /\ z = Stack.size /\ b = Second
                                         /\ t = Tls.guest /\ x = GuestSize /\ k = Modulus
  BY Spots
<1>2. b = g + p /\ p + p <= z /\ g + z < t /\ t + p < x /\ x < k /\ 0 < p /\ p <= a
  BY <1>1, Spots
<1>3. g < b /\ b + p < t /\ t < x /\ t < k
  BY <1>2
<1>4. /\ MemOK(m) /\ m.flat \subseteq DOMAIN m.blocks /\ Behind(m) = {g, b, t, x}
      /\ m.blocks[g] = Block(Stack.back, t - g, "Alias") /\ m.blocks[x].size = 0
      /\ m.blocks[b].size = Minus(g + z, t + p)
      /\ m.blocks[t] = Block(Tls.back, PageSize, "ThreadLocal") /\ DOMAIN u = Sections(u) \cup {t}
      /\ b \notin m.flat /\ m.tracker = Held(image.modules)
  BY <1>1 DEF Loaded, NoThread, Edge
<1>5. {g, b, t, x} \subseteq DOMAIN m.blocks /\ \A j \in DOMAIN m.blocks : j < g \/ j \in {g, b, t, x}
  <2>1. DOMAIN m.blocks \subseteq Nat
    BY <1>4, Layout DEF MemOK, BlocksOK, Addr
  <2> QED BY <1>1, <1>4, <2>1 DEF Behind
<1>6. PICK y \in Nat : y = t - g /\ g + y = t /\ z < y
  BY <1>2, <1>3
<1>7. PICK s \in Nat : s = Align(a) /\ a <= s
  BY AlignAbove
<1>8. m.blocks[g].size = y /\ m.blocks[g].state = "Alias" /\ m.blocks[t].size = p
  BY <1>1, <1>4, <1>6 DEF Block
<1>9. Plus(y, m.blocks[b].size) = z - p
  <2>1. g + z \in Nat /\ t + p \in Nat /\ g + z < t + p /\ t + p < Modulus /\ y < Modulus /\ t + p <= (g + z) + y
    BY <1>1, <1>2, <1>6
  <2>2. Plus(y, Minus(g + z, t + p)) = ((g + z) + y) - (t + p)
    BY <1>6, <2>1, Wraps
  <2>3. ((g + z) + y) - (t + p) = z - p
    BY <1>6
  <2> QED BY <1>4, <2>2, <2>3
<1>10. Contains(m.tracker, Stack.back)
  BY <1>4, TwoContains DEF Held
<1>11. Below(m.blocks, g) = g
  <2>1. g \in Behind(m) /\ g <= g /\ \A j \in Behind(m) : j <= g => j <= g
    BY <1>4
  <2> QED BY <1>4, <2>1, StackBelow
<1>12. PICK l \in {b, t, x} : l <= g + a /\ \A j \in {b, t, x} : j <= g + a => j <= l
  <2>1. CASE g + a < t
    BY <1>2, <1>3, <2>1
  <2>2. CASE t <= g + a /\ g + a < x
    BY <1>2, <1>3, <2>2
  <2>3. CASE x <= g + a
    BY <1>2, <1>3, <2>3
  <2> QED BY <2>1, <2>2, <2>3
<1>13. g < l /\ l \in DOMAIN m.blocks /\ l \in Nat
  BY <1>3, <1>5, <1>12
<1>14. Below(m.blocks, g + a) = l
  <2>1. PICK q \in Nat : q = g + a
    OBVIOUS
  <2>2. l \in Behind(m) /\ l <= q /\ \A j \in Behind(m) : j <= q => j <= l
    BY <1>4, <1>12, <1>13, <2>1
  <2>3. Below(m.blocks, q) = l
    BY <1>4, <2>1, <2>2, StackBelow
  <2> QED BY <2>1, <2>3
<1>15. /\ \/ \E how \in {"bad_alloc", "aborted"} :
               /\ Gives(r, m, how)
               /\ \/ Plus(y, m.blocks[l].size) < s
                  \/ g + y = l
          \/ /\ Plus(y, m.blocks[l].size) >= s /\ g + y # l
             /\ \/ \E j \in DOMAIN m.blocks : g < j /\ j < l
                \/ l \in m.flat
                \/ \E n : /\ MemOK(n) /\ MergedAs(n, m, g, l, "Stack") /\ Gives(r, n, "ok")
  <2>1. PICK type : type = "Stack"
    OBVIOUS
  <2>2. PICK phys : phys = Stack.back
    OBVIOUS
  <2>3. type \in States /\ type # "Alias"
    BY <2>1 DEF States
  <2>4. /\ l <= g + Align(a) /\ g + m.blocks[g].size < Modulus /\ Contains(m.tracker, phys)
        /\ r = Allocate(m, g, phys, a, type) /\ g \in DOMAIN m.blocks
    BY <1>1, <1>3, <1>5, <1>6, <1>7, <1>8, <1>10, <1>12, <1>13, <2>1, <2>2
  <2>5. \/ \E how \in {"bad_alloc", "aborted"} :
              /\ Gives(Allocate(m, g, phys, a, type), m, how)
              /\ \/ Plus(m.blocks[g].size, m.blocks[l].size) < Align(a)
                 \/ g + m.blocks[g].size = l
        \/ /\ Plus(m.blocks[g].size, m.blocks[l].size) >= Align(a)
           /\ g + m.blocks[g].size # l
           /\ \/ \E j \in DOMAIN m.blocks : g < j /\ j < l
              \/ l \in m.flat
              \/ \E n : /\ MemOK(n) /\ MergedAs(n, m, g, l, type)
                        /\ Gives(Allocate(m, g, phys, a, type), n, "ok")
    BY <1>4, <1>8, <1>11, <1>13, <1>14, <2>3, <2>4, AllocateOverTwo
  <2> QED BY <1>7, <1>8, <2>1, <2>2, <2>4, <2>5
<1>16. ASSUME a + p > z PROVE ~Fits
  BY <1>1, <1>16 DEF Fits
<1>17. ASSUME z - p < s PROVE ~Fits
  <2>1. SUFFICES ASSUME a + PageSize <= Stack.size PROVE FALSE
    BY DEF Fits
  <2>2. s + p <= z
    BY <1>1, <1>7, <2>1, StackFits
  <2> QED BY <1>17, <2>2
<1>18. ASSUME NEW how \in {"bad_alloc", "aborted"}, Gives(r, m, how), ~Fits
       PROVE  Failing(r, EndOfCode(image.modules) - CodeAddr)
  <2>1. m.tracker = Two(EndOfCode(image.modules) - CodeAddr)
    BY <1>4 DEF Held
  <2> QED BY <1>4, <1>18, <2>1, StackFails
<1>19. CASE l # b
  <2>1. t <= g + a /\ g < b /\ b < l
    BY <1>3, <1>12, <1>19
  <2>2. a + p > z
    BY <1>2, <1>6, <2>1
  <2>3. ~(Plus(y, m.blocks[l].size) >= s /\ g + y # l)
    <3>1. CASE l = t
      BY <1>6, <3>1
    <3>2. CASE l = x
      <4>1. y + 0 = y /\ y < Modulus /\ 0 \in Nat
        BY <1>1, <1>6, <1>3
      <4>2. Plus(y, 0) = y
        BY <1>6, <4>1, Wraps
      <4>3. y < s
        BY <1>3, <1>6, <1>7, <1>12, <3>2
      <4>4. m.blocks[l].size = 0
        BY <1>4, <3>2
      <4>5. ~(y >= s)
        BY <1>6, <1>7, <4>3
      <4> QED BY <4>2, <4>4, <4>5
    <3> QED BY <1>12, <1>19, <3>1, <3>2
  <2> QED BY <1>15, <1>16, <1>18, <2>2, <2>3
<1>20. CASE l = b
  <2>1. g + y # b /\ ~(\E j \in DOMAIN m.blocks : g < j /\ j < b) /\ ~(b \in m.flat)
    <3>1. g + y # b
      BY <1>3, <1>6
    <3>2. ASSUME NEW j \in DOMAIN m.blocks, g < j, j < b PROVE FALSE
      <4>1. j \in Nat
        BY <1>4, Layout DEF MemOK, BlocksOK, Addr
      <4> QED BY <1>3, <1>5, <3>2, <4>1
    <3> QED BY <1>4, <3>1, <3>2
  <2>2. CASE z - p < s
    <3>1. PICK v \in Nat : v = z - p
      BY <1>2
    <3>2. ~(Plus(y, m.blocks[l].size) >= s)
      BY <1>7, <1>9, <1>20, <2>2, <3>1
    <3> QED BY <1>15, <1>17, <1>18, <2>2, <3>2
  <2>3. CASE ~(z - p < s)
    <3>1. ~(Plus(y, m.blocks[l].size) < s)
      BY <1>9, <1>20, <2>3
    <3>2. PICK n : MemOK(n) /\ MergedAs(n, m, g, b, "Stack") /\ Gives(r, n, "ok")
      BY <1>15, <1>20, <2>1, <3>1
    <3>3. /\ DOMAIN n.blocks = DOMAIN m.blocks \ {b}
          /\ n.blocks[g] = [m.blocks[g] EXCEPT !.state = "Stack"]
          /\ \A j \in DOMAIN m.blocks \ {g, b} : n.blocks[j] = m.blocks[j]
          /\ n.flat \subseteq m.flat \cup {g} /\ n.tracker = m.tracker /\ n.host = m.host
      BY <3>2 DEF MergedAs
    <3>4. n.blocks[g].state = "Stack" /\ n.blocks[g].size = t - g
      BY <1>4, <3>3 DEF Block
    <3>5. g # b /\ t \notin {g, b} /\ x \notin {g, b} /\ \A j \in Nat : j < g => j \notin {g, b}
      BY <1>3
    <3>6. n.blocks[t] = m.blocks[t] /\ n.blocks[x] = m.blocks[x]
          /\ \A j \in DOMAIN m.blocks : j < g => j \in DOMAIN n.blocks /\ n.blocks[j] = m.blocks[j]
      <4>1. DOMAIN m.blocks \subseteq Nat
        BY <1>4, Layout DEF MemOK, BlocksOK, Addr
      <4> QED BY <1>5, <3>3, <3>5, <4>1
    <3>7. {g, t, x} \subseteq DOMAIN n.blocks /\ b \notin DOMAIN n.blocks
      BY <1>5, <3>3, <3>5
    <3>8. Behind(n) = {g, t, x}
      <4>1. Behind(n) = Behind(m) \ {b}
        BY <3>3 DEF Behind
      <4> QED BY <1>4, <3>5, <4>1
    <3>9. DOMAIN w = DOMAIN u \cup {g} /\ w[g] = a /\ \A v \in DOMAIN u : v # g => w[v] = u[v]
      BY <1>1 DEF InsertOrAssign
    <3>10. Sections(w) = Sections(u)
      <4>1. ~(g < g)
        OBVIOUS
      <4> QED BY <1>1, <3>9, <4>1 DEF Sections
    <3>11. Placed(w)
      <4>1. Placed(u) /\ t \in DOMAIN u /\ t # g /\ b # g /\ b \notin Sections(u) /\ b # t
        BY <1>1, <1>3, <1>4 DEF Loaded, Sections
      <4>2. u[t] = PageSize /\ \A v \in DOMAIN u : u[v] \in Nat \ {0}
        BY <1>1, <4>1 DEF Placed
      <4>3. Align(w[g]) <= Stack.size
        BY <1>1, <1>2, <1>7, <2>3, <3>9
      <4>4. DOMAIN w \subseteq Sections(w) \cup {g, b, t} /\ t \in DOMAIN w /\ w[t] = PageSize /\ b \notin DOMAIN w
        BY <1>4, <3>9, <3>10, <4>1, <4>2
      <4>5. \A v \in DOMAIN w : w[v] \in Nat \ {0}
        BY <3>9, <4>2
      <4> QED BY <1>1, <4>3, <4>4, <4>5 DEF Placed
    <3>12. Loaded(n, w, image.modules)
      <4>1. n.flat \subseteq DOMAIN n.blocks
        BY <1>4, <3>3, <3>7
      <4>2. n.blocks[GuestSize].size = 0 /\ Stack.guest \in Nat /\ Stack.guest <= Stack.guest
        BY <1>1, <1>4, <3>6
      <4> QED BY <1>1, <3>2, <3>3, <3>6, <3>11, <4>1, <4>2, StackLoaded
    <3>13. OneThread(n, w, a)
      <4>1. DOMAIN w = Sections(w) \cup {t, g}
        BY <1>4, <3>9, <3>10
      <4>2. n.blocks[t].state = "ThreadLocal" /\ n.blocks[t].size = PageSize
        BY <1>4, <3>6 DEF Block
      <4> QED BY <1>1, <3>4, <3>7, <3>8, <3>9, <4>1, <4>2 DEF OneThread
    <3> QED BY <3>2, <3>12, <3>13
  <2> QED BY <2>2, <2>3
<1> QED BY <1>19, <1>20

\* The second thread's stack, behind a first one of less than a page.
LEMMA SecondStack ==
    ASSUME ImageOK, NEW m, NEW u, Loaded(m, u, image.modules), NEW a \in Nat \ {0}, OneThread(m, u, a),
           Second \in DOMAIN m.blocks, NEW phys \in Addr,
           NEW r, r = Allocate(m, Second, phys, a, "Stack"),
           NEW w, w = InsertOrAssign(u, Second, a)
    PROVE  \E n : Gives(r, n, "ok") /\ Loaded(n, w, image.modules)
<1>1. PICK g, p, z, b, t, x, k \in Nat : /\ g = Stack.guest /\ p = PageSize /\ z = Stack.size /\ b = Second
                                         /\ t = Tls.guest /\ x = GuestSize /\ k = Modulus
  BY Spots
<1>2. b = g + p /\ p + p <= z /\ g + z < t /\ t + p < x /\ x < k /\ 0 < p
  BY <1>1, Spots
<1>3. g < b /\ b + p < t /\ t < x /\ t < k
  BY <1>2
<1>4. /\ MemOK(m) /\ m.flat \subseteq DOMAIN m.blocks /\ DOMAIN u = Sections(u) \cup {t, g}
      /\ {g, t} \subseteq DOMAIN m.blocks /\ m.blocks[x].size = 0
  BY <1>1 DEF Loaded, OneThread, Edge
<1>5. b \in Behind(m)
  <2>1. b >= Stack.guest
    BY <1>1, <1>3
  <2> QED BY <1>1, <2>1 DEF Behind
<1>6. /\ a < p /\ Behind(m) = {g, b, t, x} /\ m.blocks[b].state = "Alias"
  <2>1. b \notin {g, t, x}
    BY <1>3
  <2> QED BY <1>1, <1>5, <2>1 DEF OneThread
<1>7. {g, b, t, x} \subseteq DOMAIN m.blocks
  BY <1>6 DEF Behind
<1>8. Below(m.blocks, b) = b /\ Below(m.blocks, b + a) = b
  <2>1. PICK q \in Nat : q = b + a /\ b <= q /\ q < t
    BY <1>3, <1>6
  <2>2. b \in Behind(m) /\ b <= b /\ \A j \in Behind(m) : j <= b => j <= b
    BY <1>6
  <2>3. \A j \in Behind(m) : j <= q => j <= b
    BY <1>3, <1>6, <2>1
  <2>4. Below(m.blocks, b) = b
    BY <1>4, <2>2, StackBelow
  <2>5. Below(m.blocks, q) = b
    BY <1>4, <2>1, <2>2, <2>3, StackBelow
  <2> QED BY <2>1, <2>4, <2>5
<1>9. Align(a) = p
  BY <1>1, <1>6, AlignStays
<1>10. b \in Addr /\ b + p \in Addr
  BY <1>1, <1>2, <1>3 DEF Addr
<1>11. PICK n : /\ r = [mem |-> n, fate |-> "ok", at |-> b] /\ MemOK(n)
                /\ SplitOf(n.blocks, m.blocks, b, b, phys, p, "Stack")
                /\ n.flat \subseteq m.flat \cup {b} /\ n.tracker = m.tracker /\ n.host = m.host
  <2>1. PICK type : type = "Stack"
    OBVIOUS
  <2>2. type \in States /\ type # "Alias"
    BY <2>1 DEF States
  <2>3. b + Align(a) \in Addr /\ b <= b /\ r = Allocate(m, b, phys, a, type)
    BY <1>1, <1>9, <1>10, <2>1
  <2>4. \E n : /\ Allocate(m, b, phys, a, type) = [mem |-> n, fate |-> "ok", at |-> b]
               /\ MemOK(n) /\ SplitOf(n.blocks, m.blocks, b, b, phys, Align(a), type)
               /\ n.flat \subseteq m.flat \cup {b} /\ n.tracker = m.tracker /\ n.host = m.host
    BY <1>4, <1>6, <1>7, <1>8, <1>10, <2>2, <2>3, AllocateWithin
  <2> QED BY <1>9, <2>1, <2>3, <2>4
<1>12. /\ DOMAIN n.blocks = DOMAIN m.blocks \cup {b + p}
       /\ \A j \in DOMAIN m.blocks : j # b /\ j # b + p => n.blocks[j] = m.blocks[j]
  <2>1. b + p # b
    BY <1>2
  <2> QED BY <1>7, <1>11, <2>1 DEF SplitOf
<1>13. n.blocks[x] = m.blocks[x]
       /\ \A j \in DOMAIN m.blocks : j < g => j \in DOMAIN n.blocks /\ n.blocks[j] = m.blocks[j]
  <2>1. x # b /\ x # b + p /\ \A j \in Nat : j < g => j # b /\ j # b + p
    BY <1>2, <1>3
  <2>2. DOMAIN m.blocks \subseteq Nat
    BY <1>4, Layout DEF MemOK, BlocksOK, Addr
  <2> QED BY <1>7, <1>12, <2>1, <2>2
<1>14. DOMAIN w = DOMAIN u \cup {b} /\ w[b] = a /\ \A v \in DOMAIN u : v # b => w[v] = u[v]
  BY <1>1 DEF InsertOrAssign
<1>15. Sections(w) = Sections(u)
  <2>1. ~(b < g)
    BY <1>3
  <2> QED BY <1>1, <1>14, <2>1 DEF Sections
<1>16. Placed(w)
  <2>1. Placed(u) /\ t \in DOMAIN u /\ g \in DOMAIN u /\ t # b /\ g # b /\ u[g] = a
    BY <1>1, <1>3, <1>4 DEF Loaded, OneThread
  <2>2. u[t] = PageSize /\ \A v \in DOMAIN u : u[v] \in Nat \ {0}
    BY <1>1, <2>1 DEF Placed
  <2>3. DOMAIN w \subseteq Sections(w) \cup {g, b, t} /\ t \in DOMAIN w /\ w[t] = PageSize /\ b \in DOMAIN w
    BY <1>4, <1>14, <1>15, <2>1, <2>2
  <2>4. Align(w[b]) = PageSize /\ Align(w[g]) = PageSize
    BY <1>1, <1>9, <1>14, <2>1
  <2>5. \A v \in DOMAIN w : w[v] \in Nat \ {0}
    BY <1>14, <2>2
  <2>6. PageSize <= PageSize
    BY Spots
  <2> QED BY <1>1, <2>3, <2>4, <2>5, <2>6 DEF Placed
<1>17. Loaded(n, w, image.modules)
  <2>1. n.flat \subseteq DOMAIN n.blocks
    BY <1>4, <1>7, <1>11, <1>12
  <2>2. n.blocks[GuestSize].size = 0 /\ Second \in Nat /\ Stack.guest <= Second
    BY <1>1, <1>3, <1>4, <1>13
  <2> QED BY <1>1, <1>11, <1>13, <1>16, <2>1, <2>2, StackLoaded
<1> QED BY <1>11, <1>17 DEF Gives
------------------------------------------------------------------------------
(* The steps. *)

\* What the code takes.
CodeSize == EndOfCode(image.modules) - CodeAddr

\* It is at least nothing, and ends below the stacks' backing memory.
LEMMA CodeSizeIs ==
    ASSUME ImageOK
    PROVE  CodeSize \in Nat /\ CodeAddr + CodeSize <= Stack.back
<1>1. PICK e, c \in Nat : e = EndOfCode(image.modules) /\ c = CodeAddr /\ c <= e /\ e <= Stack.back
  BY CodeFits, Layout DEF ImageOK
<1> QED BY <1>1, Layout DEF CodeSize

\* A call that fails ends the program, which was none that fits.
LEMMA StepFails ==
    ASSUME IInv, NEW r, Failing(r, CodeSize), mem' = r.mem, fate' = r.fate, UNCHANGED image,
           pc' \in {"selftest", "selffree", "stack", "code", "text", "ro", "data", "tls",
                    "thread", "running", "done"}
    PROVE  IInv'
<1>1. PICK n, how : /\ how \in {"bad_alloc", "aborted"} /\ Gives(r, n, how) /\ MemOK(n)
                    /\ Tracked(n.tracker, CodeSize) /\ n.tracker.maps <= image.barrier /\ ~Fits
  BY DEF Failing
<1>2. mem' = n /\ fate' = how
  BY <1>1 DEF Gives
<1>3. ImageOK' /\ ~Fits'
  BY <1>1 DEF IInv, ImageOK, Fits, ModuleAt
<1>4. fate' \in {"ok", "bad_alloc", "aborted"} /\ fate' # "ok"
  BY <1>1, <1>2
<1>5. /\ (MemOK(mem))' /\ (Tracked(mem.tracker, EndOfCode(image.modules) - CodeAddr))'
      /\ (mem.tracker.maps <= image.barrier)'
  BY <1>1, <1>2 DEF CodeSize
<1> QED BY <1>3, <1>4, <1>5 DEF IInv

\* A call that does not fail leads to the next phase.
LEMMA StepGoes ==
    ASSUME IInv, NEW r, NEW n, Gives(r, n, "ok"), mem' = r.mem, fate' = r.fate, UNCHANGED image,
           MemOK(n), Tracked(n.tracker, CodeSize), n.tracker.maps <= image.barrier,
           pc' \in {"selftest", "selffree", "stack", "code", "text", "ro", "data", "tls",
                    "thread", "running", "done"}, mem' = n => Phase'
    PROVE  IInv'
<1>1. mem' = n /\ fate' = "ok"
  BY DEF Gives
<1>2. ImageOK'
  BY DEF IInv, ImageOK
<1>3. /\ (MemOK(mem))' /\ (Tracked(mem.tracker, EndOfCode(image.modules) - CodeAddr))'
      /\ (mem.tracker.maps <= image.barrier)'
  BY <1>1 DEF CodeSize
<1> QED BY <1>1, <1>2, <1>3 DEF IInv

\* The first state.
LEMMA InitInv ==
    Init => IInv
<1>1. SUFFICES ASSUME Init PROVE IInv
  OBVIOUS
<1>2. ImageOK /\ image.barrier \in Nat
  BY <1>1, MemoryAssumption DEF Init, ImageOK
<1>3. MemOK(mem) /\ mem = Fresh /\ pc = "selftest" /\ fate = "ok"
  BY <1>1, FreshOK DEF Init
<1>4. Tracked(mem.tracker, EndOfCode(image.modules) - CodeAddr) /\ mem.tracker.maps = 0
  BY <1>3 DEF Tracked, Fresh
<1>5. mem.tracker.maps <= image.barrier
  BY <1>2, <1>4
<1>6. Phase
  BY <1>1, <1>3 DEF Init, Phase, Nothing
<1> QED BY <1>2, <1>3, <1>4, <1>5, <1>6 DEF IInv

\* InitSelfTest's Allocate.
LEMMA SelfTestAllocateStep ==
    ASSUME IInv, SelfTestAllocate
    PROVE  IInv'
<1>1. /\ fate = "ok" /\ pc = "selftest" /\ pc' = "selffree" /\ UNCHANGED <<image, address, used>>
      /\ mem = Fresh /\ used = Nothing /\ address = CodeAddr
  BY DEF SelfTestAllocate, Call, IInv, Phase
<1>2. PICK r : r = Allocate(Fresh, SelfTest.guest, SelfTest.back, 1, "Shared")
  OBVIOUS
<1>3. mem' = r.mem /\ fate' = r.fate
  BY <1>1, <1>2 DEF SelfTestAllocate, Call
<1>4. \/ Failing(r, CodeSize)
      \/ \E n : /\ Gives(r, n, "ok") /\ Tested(n, "Shared")
                /\ n.tracker = One(SelfTest.back, PageSize) /\ n.tracker.maps <= image.barrier
  BY <1>2, SelfTestAllocates DEF IInv
<1>5. CASE Failing(r, CodeSize)
  BY <1>1, <1>3, <1>5, StepFails
<1>6. ASSUME NEW n, Gives(r, n, "ok"), Tested(n, "Shared"),
             n.tracker = One(SelfTest.back, PageSize), n.tracker.maps <= image.barrier
      PROVE  IInv'
  <2>1. MemOK(n) /\ Tracked(n.tracker, CodeSize)
    BY <1>6 DEF Tested, Tracked
  <2>2. mem' = n => Phase'
    BY <1>1, <1>6 DEF Phase
  <2> QED BY <1>1, <1>3, <1>6, <2>1, <2>2, StepGoes
<1> QED BY <1>4, <1>5, <1>6

\* InitSelfTest's Free.
LEMMA SelfTestFreeStep ==
    ASSUME IInv, SelfTestFree
    PROVE  IInv'
<1>1. /\ fate = "ok" /\ pc = "selffree" /\ pc' = "stack" /\ UNCHANGED <<image, address, used>>
      /\ Tested(mem, "Shared") /\ mem.tracker = One(SelfTest.back, PageSize) /\ used = Nothing /\ address = CodeAddr
  BY DEF SelfTestFree, Call, IInv, Phase
<1>2. PICK n : n = Free(mem, SelfTest.guest, 1)
  OBVIOUS
<1>3. mem' = n /\ fate' = "ok"
  BY <1>2 DEF SelfTestFree, Call
<1>4. Tested(n, "Free") /\ n.tracker = Fresh.tracker
  BY <1>1, <1>2, SelfTestFrees DEF IInv
<1>5. PICK r : r = [mem |-> n, fate |-> "ok", at |-> None]
  OBVIOUS
<1>6. Gives(r, n, "ok") /\ mem' = r.mem /\ fate' = r.fate
  BY <1>3, <1>5 DEF Gives
<1>7. MemOK(n) /\ Tracked(n.tracker, CodeSize) /\ n.tracker.maps <= image.barrier
  <2>1. image.barrier \in Nat
    BY MemoryAssumption DEF IInv, ImageOK
  <2>2. n.tracker.maps = 0
    BY <1>4 DEF Fresh
  <2> QED BY <1>4, <2>1, <2>2 DEF Tested, Tracked
<1>8. mem' = n => Phase'
  BY <1>1, <1>4 DEF Phase
<1> QED BY <1>1, <1>6, <1>7, <1>8, StepGoes

\* The end of CreateProcessMemory.
LEMMA ReserveStackStep ==
    ASSUME IInv, ReserveStack
    PROVE  IInv'
<1>1. /\ fate = "ok" /\ pc = "stack" /\ pc' = "code" /\ UNCHANGED <<image, address, used>>
      /\ Tested(mem, "Free") /\ mem.tracker = Fresh.tracker /\ used = Nothing /\ address = CodeAddr
  BY DEF ReserveStack, Call, IInv, Phase
<1>2. PICK r : r = Reserve(mem, Stack.guest, Stack.back, Stack.size)
  OBVIOUS
<1>3. mem' = r.mem /\ fate' = r.fate
  BY <1>2 DEF ReserveStack, Call
<1>4. \/ Failing(r, CodeSize)
      \/ \E n : Gives(r, n, "ok") /\ StackReserved(n) /\ n.tracker.maps <= image.barrier
  BY <1>1, <1>2, StackReserves DEF IInv
<1>5. CASE Failing(r, CodeSize)
  BY <1>1, <1>3, <1>5, StepFails
<1>6. ASSUME NEW n, Gives(r, n, "ok"), StackReserved(n), n.tracker.maps <= image.barrier
      PROVE  IInv'
  <2>1. MemOK(n) /\ Tracked(n.tracker, CodeSize)
    BY <1>6 DEF StackReserved, Tracked
  <2>2. mem' = n => Phase'
    BY <1>1, <1>6 DEF Phase
  <2> QED BY <1>1, <1>3, <1>6, <2>1, <2>2, StepGoes
<1> QED BY <1>4, <1>5, <1>6

\* There are finitely many modules.
LEMMA ModulesCount ==
    ASSUME ImageOK
    PROVE  Cardinality(DOMAIN ModuleAt) \in Nat
<1>1. PICK modules \in [1 .. Modules -> Shapes] : modules = image.modules
  BY DEF ImageOK
<1>2. PICK a : a = Starts(modules) /\ Addresses(a, modules)
  BY StartsAre
<1>3. DOMAIN ModuleAt = {a[i] : i \in 1 .. Modules}
  <2>1. LastAt(ModulesOf(modules), a, modules)
    BY <1>2, ModulesAre
  <2> QED BY <1>1, <2>1 DEF LastAt, ModuleAt
<1>4. Modules \in Nat
  BY MemoryAssumption
<1>5. \A i \in 1 .. Modules : a[i] \in 0 .. a[Modules + 1]
  <2> TAKE i \in 1 .. Modules
  <2>1. Modules + 1 \in 1 .. Modules + 1 /\ i \in 1 .. Modules + 1 /\ i <= Modules + 1
    BY <1>4
  <2>2. a[i] \in Nat /\ a[Modules + 1] \in Nat /\ a[i] <= a[Modules + 1]
    BY <1>2, <2>1, AddressesAscend
  <2> QED BY <2>2
<1>6. a[Modules + 1] \in Int
  BY <1>2, <1>4 DEF Addresses
<1>7. IsFiniteSet(DOMAIN ModuleAt)
  <2>1. DOMAIN ModuleAt \subseteq 0 .. a[Modules + 1]
    BY <1>3, <1>5
  <2>2. IsFiniteSet(0 .. a[Modules + 1])
    BY <1>6, FS_Interval
  <2> QED BY <2>1, <2>2, FS_Subset
<1> QED BY <1>7, FS_CardinalityType

\* LoadProgramImage's assertion and Reserve.
LEMMA ReserveCodeStep ==
    ASSUME IInv, ReserveCode
    PROVE  IInv'
<1>1. /\ fate = "ok" /\ pc = "code" /\ pc' = "text" /\ UNCHANGED <<image, address, used>>
      /\ StackReserved(mem) /\ used = Nothing /\ address = CodeAddr
  BY DEF ReserveCode, Call, IInv, Phase
<1>2. ImageOK /\ MemOK(mem) /\ Tracked(mem.tracker, CodeSize) /\ mem.tracker.maps <= image.barrier
  BY DEF IInv, CodeSize
<1>3. CASE Cardinality(DOMAIN ModuleAt) <= 2
  <2>1. PICK r : r = Failed(mem, "aborted")
    OBVIOUS
  <2>2. mem' = r.mem /\ fate' = r.fate
    BY <1>3, <2>1 DEF ReserveCode, Call
  <2>3. ~Fits
    <3>1. ModuleAt = ModulesOf(image.modules)
      BY DEF ModuleAt
    <3>2. ~(Cardinality(DOMAIN ModuleAt) > 2)
      <4>1. PICK s : s = DOMAIN ModuleAt
        OBVIOUS
      <4>2. Cardinality(s) \in Nat
        BY <1>2, <4>1, ModulesCount
      <4> QED BY <1>3, <4>1, <4>2
    <3> QED BY <3>2 DEF Fits
  <2>4. Failing(r, CodeSize)
    <3>1. Gives(r, mem, "aborted")
      BY <2>1 DEF Gives, Failed
    <3> QED BY <1>2, <2>3, <3>1 DEF Failing
  <2> QED BY <1>1, <2>2, <2>4, StepFails
<1>4. CASE ~(Cardinality(DOMAIN ModuleAt) <= 2)
  <2>1. PICK r : r = Reserve(mem, CodeAddr, CodeAddr, ReserveSize(image.modules))
    OBVIOUS
  <2>2. mem' = r.mem /\ fate' = r.fate
    BY <1>4, <2>1 DEF ReserveCode, Call
  <2>3. \/ Failing(r, CodeSize)
        \/ \E n : /\ Gives(r, n, "ok") /\ Mapping(n, Nothing, CodeAddr, image.modules)
                  /\ n.tracker.maps <= image.barrier
    BY <1>1, <1>2, <2>1, CodeReserves DEF CodeSize
  <2>4. CASE Failing(r, CodeSize)
    BY <1>1, <2>2, <2>4, StepFails
  <2>5. ASSUME NEW n, Gives(r, n, "ok"), Mapping(n, Nothing, CodeAddr, image.modules),
               n.tracker.maps <= image.barrier
        PROVE  IInv'
    <3>1. MemOK(n) /\ Tracked(n.tracker, CodeSize)
      BY <2>5 DEF Mapping, Held, Tracked, CodeSize
    <3>2. \E i \in 1 .. Modules + 1 : CodeAddr = Starts(image.modules)[i]
      <4>1. Starts(image.modules)[1] = CodeAddr
        BY <1>2, StartsAre DEF Addresses, ImageOK
      <4>2. 1 \in 1 .. Modules + 1
        BY MemoryAssumption
      <4> QED BY <4>1, <4>2
    <3>3. mem' = n => Phase'
      <4> SUFFICES ASSUME mem' = n PROVE Phase'
        OBVIOUS
      <4>1. Cursor' = CodeAddr
        BY <1>1 DEF Cursor
      <4>2. (Mapping(mem, used, Cursor, image.modules))'
        BY <1>1, <2>5, <4>1
      <4>3. (\E i \in 1 .. Modules + 1 : address = Starts(image.modules)[i])'
        BY <1>1, <3>2
      <4> QED BY <1>1, <4>2, <4>3 DEF Phase
    <3> QED BY <1>1, <2>2, <2>5, <3>1, <3>3, StepGoes
  <2> QED BY <2>3, <2>4, <2>5
<1> QED BY <1>3, <1>4

\* What a section is mapped at, by the step.
LEMMA SectionStep ==
    ASSUME IInv, fate = "ok", pc \in {"text", "ro", "data"}, NEW size \in Nat \ {0}, NEW v, v = Cursor,
           v + Align(size) <= EndOfCode(image.modules), NEW to \in {"ro", "data", "text"},
           MapProgramCode(pc, v, size, to),
           \E i \in 1 .. Modules + 1 : address' = Starts(image.modules)[i],
           to \in {"ro", "data"} => address' = address /\ address \in DOMAIN ModuleAt /\ ModuleAt[address].valid,
           Cursor' = v + Align(size)
    PROVE  IInv'
<1>1. UNCHANGED image /\ pc' = to /\ used' = InsertOrAssign(used, v, size)
  BY DEF MapProgramCode, Call
<1>2. Mapping(mem, used, v, image.modules)
  BY DEF IInv, Phase
<1>3. PICK a : a = Allocate(mem, v, v, size, "Code")
  OBVIOUS
<1>5. image.modules \in [1 .. Modules -> Shapes] /\ mem.tracker.maps <= image.barrier
  BY DEF IInv, ImageOK
<1>9. PICK m : /\ a = [mem |-> m, fate |-> "ok", at |-> v]
               /\ Mapping(m, InsertOrAssign(used, v, size), v + Align(size), image.modules)
  BY <1>2, <1>3, <1>5, SectionMaps
<1>10. PICK n : n = Cached(m, v)
  OBVIOUS
<1>11. PICK r : r = [mem |-> n, fate |-> "ok", at |-> v]
  OBVIOUS
<1>12. [a EXCEPT !.mem = Cached(@, a.at)] = r
  BY <1>9, <1>10, <1>11
<1>4. mem' = r.mem /\ fate' = r.fate
  BY <1>3, <1>9, <1>12 DEF MapProgramCode, Call
<1>13. MemOK(n) /\ Same(n, m, v) /\ v \in DOMAIN m.blocks
  <2>1. PICK e \in Nat : e = EndOfCode(image.modules) /\ e < Modulus
    BY <1>5, CodeFits, Regions, Orders
  <2>2. PICK z \in Nat : z = Align(size) /\ size <= z /\ z # 0
    BY AlignAbove
  <2>3. v \in Nat /\ v < Stack.guest
    <3>1. v \in Nat /\ v <= EndOfCode(image.modules)
      BY <1>2 DEF Mapping
    <3>2. EndOfCode(image.modules) \in Nat /\ EndOfCode(image.modules) < Stack.guest
      BY <1>5, CodeFits
    <3>3. Stack.guest \in Nat
      BY Layout
    <3> QED BY <3>1, <3>2, <3>3
  <2>4. InsertOrAssign(used, v, size)[v] = size /\ v \in Sections(InsertOrAssign(used, v, size))
    BY <2>3 DEF InsertOrAssign, Sections
  <2>5. v \in DOMAIN m.blocks /\ m.blocks[v] = Block(v, z, "Code")
    BY <1>9, <2>2, <2>4 DEF Mapping, SectionsIn
  <2>6. m.blocks[v].size = z
    BY <2>5 DEF Block
  <2>7. v + z < Modulus /\ MemOK(m)
    BY <1>9, <2>1, <2>2, <2>3, Layout DEF Mapping
  <2> QED BY <1>10, <2>5, <2>6, <2>7, CachedIs
<1>6. Gives(r, n, "ok") /\ Mapping(n, InsertOrAssign(used, v, size), v + Align(size), image.modules)
  <2>1. Gives(r, n, "ok")
    BY <1>11 DEF Gives
  <2>2. n.flat \subseteq DOMAIN n.blocks
    BY <1>9, <1>13 DEF Mapping, Same
  <2> QED BY <1>9, <1>13, <2>1, <2>2 DEF Mapping, Same, Edge, SectionsIn
<1>7. MemOK(n) /\ Tracked(n.tracker, CodeSize) /\ n.tracker = mem.tracker
  BY <1>2, <1>6 DEF Mapping, Held, Tracked, CodeSize
<1>8. ASSUME mem' = n PROVE Phase'
  <2>1. (Mapping(mem, used, Cursor, image.modules))'
    BY <1>1, <1>6, <1>8
  <2>2. (\E i \in 1 .. Modules + 1 : address = Starts(image.modules)[i])'
    BY <1>1
  <2>3. pc' \in {"ro", "data"} => (address \in DOMAIN ModuleAt /\ ModuleAt[address].valid)'
    BY <1>1 DEF ModuleAt
  <2> QED BY <1>1, <2>1, <2>2, <2>3 DEF Phase
<1> QED BY <1>1, <1>4, <1>5, <1>6, <1>7, <1>8, StepGoes

\* The module that is being mapped.
LEMMA ModuleStep ==
    ASSUME IInv, address \in DOMAIN ModuleAt, NEW s, s = ModuleAt[address], s.valid
    PROVE  /\ s.text \in Nat \ {0} /\ s.ro \in Nat \ {0} /\ DataSize(s) \in Nat \ {0}
           /\ RoAt(address, s) = address + Align(s.text)
           /\ DataAt(address, s) = RoAt(address, s) + Align(s.ro)
           /\ EndOf(address, s) = DataAt(address, s) + Align(DataSize(s))
           /\ address + Align(s.text) <= EndOfCode(image.modules)
           /\ RoAt(address, s) + Align(s.ro) <= EndOfCode(image.modules)
           /\ DataAt(address, s) + Align(DataSize(s)) <= EndOfCode(image.modules)
           /\ \E i \in 1 .. Modules + 1 : EndOf(address, s) = Starts(image.modules)[i]
<1>1. PICK modules \in [1 .. Modules -> Shapes] : modules = image.modules
  BY DEF IInv, ImageOK
<1>2. PICK a : a = Starts(modules) /\ Addresses(a, modules)
  BY StartsAre
<1>3. /\ {s.text, s.ro, DataSize(s)} \subseteq Nat \ {0} /\ address \in Nat
      /\ RoAt(address, s) = address + Align(s.text)
      /\ DataAt(address, s) = RoAt(address, s) + Align(s.ro)
      /\ EndOf(address, s) = DataAt(address, s) + Align(DataSize(s))
      /\ EndOf(address, s) <= EndOfCode(modules)
      /\ \E i \in 1 .. Modules + 1 : EndOf(address, s) = a[i]
  <2>1. address \in DOMAIN ModulesOf(modules) /\ s = ModulesOf(modules)[address]
    BY <1>1 DEF ModuleAt
  <2> QED BY <1>2, <2>1, ModuleFits
<1>4. PICK t, r, d \in Nat : t = Align(s.text) /\ r = Align(s.ro) /\ d = Align(DataSize(s))
  BY <1>3, AlignAbove
<1>5. PICK e, v \in Nat : e = EndOfCode(modules) /\ v = address
  BY <1>3, CodeFits
<1>6. ((v + t) + r) + d <= e
  BY <1>3, <1>4, <1>5
<1>7. v + t <= e /\ (v + t) + r <= e
  BY <1>6
<1>8. /\ address + Align(s.text) <= EndOfCode(image.modules)
      /\ RoAt(address, s) + Align(s.ro) <= EndOfCode(image.modules)
      /\ DataAt(address, s) + Align(DataSize(s)) <= EndOfCode(image.modules)
  BY <1>1, <1>3, <1>4, <1>5, <1>6, <1>7
<1> QED BY <1>1, <1>2, <1>3, <1>8

\* SetProgramImage's MapProgramCode of the text...
LEMMA MapTextStep ==
    ASSUME IInv, MapText
    PROVE  IInv'
<1>1. PICK s : s = ModuleAt[address]
  OBVIOUS
<1>2. /\ address \in DOMAIN ModuleAt /\ s.valid /\ MapProgramCode("text", address, s.text, "ro")
      /\ address' = address
  BY <1>1 DEF MapText
<1>3. fate = "ok" /\ pc = "text" /\ pc' = "ro" /\ UNCHANGED image
  BY <1>2 DEF MapProgramCode, Call
<1>4. /\ s.text \in Nat \ {0} /\ RoAt(address, s) = address + Align(s.text)
      /\ address + Align(s.text) <= EndOfCode(image.modules)
  BY <1>1, <1>2, ModuleStep
<1>5. Cursor = address /\ Cursor' = address + Align(s.text)
  BY <1>1, <1>2, <1>3, <1>4 DEF Cursor, ModuleAt
<1>6. \E i \in 1 .. Modules + 1 : address' = Starts(image.modules)[i]
  BY <1>2, <1>3 DEF IInv, Phase
<1> QED BY <1>1, <1>2, <1>3, <1>4, <1>5, <1>6, SectionStep

\* ... of the constants...
LEMMA MapRoStep ==
    ASSUME IInv, MapRo
    PROVE  IInv'
<1>1. PICK s : s = ModuleAt[address]
  OBVIOUS
<1>2. MapProgramCode("ro", RoAt(address, s), s.ro, "data") /\ address' = address
  BY <1>1 DEF MapRo
<1>3. fate = "ok" /\ pc = "ro" /\ pc' = "data" /\ UNCHANGED image
  BY <1>2 DEF MapProgramCode, Call
<1>4. address \in DOMAIN ModuleAt /\ s.valid
  BY <1>1, <1>3 DEF IInv, Phase
<1>5. /\ s.ro \in Nat \ {0} /\ DataAt(address, s) = RoAt(address, s) + Align(s.ro)
      /\ RoAt(address, s) + Align(s.ro) <= EndOfCode(image.modules)
  BY <1>1, <1>4, ModuleStep
<1>6. Cursor = RoAt(address, s) /\ Cursor' = RoAt(address, s) + Align(s.ro)
  BY <1>1, <1>2, <1>3, <1>5 DEF Cursor, ModuleAt
<1>7. \E i \in 1 .. Modules + 1 : address' = Starts(image.modules)[i]
  BY <1>2, <1>3 DEF IInv, Phase
<1> QED BY <1>1, <1>2, <1>3, <1>4, <1>5, <1>6, <1>7, SectionStep

\* ... and of the data.
LEMMA MapDataStep ==
    ASSUME IInv, MapData
    PROVE  IInv'
<1>1. PICK s : s = ModuleAt[address]
  OBVIOUS
<1>2. MapProgramCode("data", DataAt(address, s), DataSize(s), "text") /\ address' = EndOf(address, s)
  BY <1>1 DEF MapData
<1>3. fate = "ok" /\ pc = "data" /\ pc' = "text" /\ UNCHANGED image
  BY <1>2 DEF MapProgramCode, Call
<1>4. address \in DOMAIN ModuleAt /\ s.valid
  BY <1>1, <1>3 DEF IInv, Phase
<1>5. /\ DataSize(s) \in Nat \ {0} /\ EndOf(address, s) = DataAt(address, s) + Align(DataSize(s))
      /\ DataAt(address, s) + Align(DataSize(s)) <= EndOfCode(image.modules)
      /\ \E i \in 1 .. Modules + 1 : EndOf(address, s) = Starts(image.modules)[i]
  BY <1>1, <1>4, ModuleStep
<1>6. Cursor = DataAt(address, s) /\ Cursor' = DataAt(address, s) + Align(DataSize(s))
  BY <1>1, <1>2, <1>3, <1>5 DEF Cursor, ModuleAt
<1> QED BY <1>1, <1>2, <1>3, <1>4, <1>5, <1>6, SectionStep

\* EShopTitle::Load's assertion holds.
LEMMA FinishImageStep ==
    ASSUME IInv, FinishImage
    PROVE  IInv'
<1>1. /\ fate = "ok" /\ pc = "text" /\ pc' = "tls" /\ UNCHANGED <<mem, image, address, used>>
      /\ ~(address \in DOMAIN ModuleAt /\ ModuleAt[address].valid)
      /\ fate' = IF address - CodeAddr = Planned THEN "ok" ELSE "aborted"
  BY DEF FinishImage
<1>2. /\ MemOK(mem) /\ Tracked(mem.tracker, CodeSize) /\ mem.tracker.maps <= image.barrier
      /\ Mapping(mem, used, Cursor, image.modules) /\ Cursor = address
      /\ \E i \in 1 .. Modules + 1 : address = Starts(image.modules)[i]
  BY <1>1 DEF IInv, Phase, Cursor, CodeSize
<1>3. fate' = "ok"
  <2>1. PICK modules \in [1 .. Modules -> Shapes] : modules = image.modules
    BY DEF IInv, ImageOK
  <2>2. PICK a : a = Starts(modules) /\ Addresses(a, modules)
    BY StartsAre
  <2>3. ~(address \in DOMAIN ModulesOf(modules) /\ ModulesOf(modules)[address].valid)
    BY <1>1, <2>1 DEF ModuleAt
  <2>4. address = a[Modules + 1]
    BY <1>2, <2>1, <2>2, <2>3, PassesAgree
  <2>5. address - CodeAddr = Planned
    BY <2>1, <2>2, <2>4 DEF Planned
  <2> QED BY <1>1, <2>5
<1>4. PICK r : r = [mem |-> mem, fate |-> "ok", at |-> None]
  OBVIOUS
<1>5. Gives(r, mem, "ok") /\ mem' = r.mem /\ fate' = r.fate
  BY <1>1, <1>3, <1>4 DEF Gives
<1>6. Phase'
  <2>1. Cursor' = address
    BY <1>1 DEF Cursor
  <2>2. (Mapping(mem, used, Cursor, image.modules))'
    BY <1>1, <1>2, <2>1
  <2>3. (\E i \in 1 .. Modules + 1 : address = Starts(image.modules)[i])'
    BY <1>1, <1>2
  <2> QED BY <1>1, <2>2, <2>3 DEF Phase
<1> QED BY <1>1, <1>2, <1>5, <1>6, StepGoes

\* KSlabHeap::Allocate.
LEMMA AllocateTlsStep ==
    ASSUME IInv, AllocateTls
    PROVE  IInv'
<1>1. PICK r : r = Reserve(mem, Tls.guest, Tls.back, Tls.size)
  OBVIOUS
<1>2. PICK o : o = IF r.fate # "ok" THEN r ELSE Allocate(r.mem, Tls.guest, Tls.back, PageSize, "ThreadLocal")
  OBVIOUS
<1>3. /\ fate = "ok" /\ pc = "tls" /\ pc' = "thread" /\ UNCHANGED image
      /\ mem' = o.mem /\ fate' = o.fate
      /\ used' = InsertOrAssign(used, Tls.guest, PageSize) /\ address' = Stack.guest
  BY <1>1, <1>2 DEF AllocateTls, Call
<1>4. Mapping(mem, used, address, image.modules) /\ mem.tracker.maps <= image.barrier
      /\ image.modules \in [1 .. Modules -> Shapes]
  BY <1>3 DEF IInv, Phase, Cursor, ImageOK
<1>5. PICK d : d = Allocate(mem, Tls.guest, Tls.back, PageSize, "ThreadLocal")
  OBVIOUS
<1>6. r = [mem |-> mem, fate |-> "ok", at |-> None]
      /\ \E n : Gives(d, n, "ok") /\ Loaded(n, used', image.modules) /\ NoThread(n, used')
  BY <1>1, <1>3, <1>4, <1>5, TlsGiven
<1>7. o = d
  BY <1>2, <1>5, <1>6
<1>8. PICK n : Gives(o, n, "ok") /\ Loaded(n, used', image.modules) /\ NoThread(n, used')
  BY <1>6, <1>7
<1>9. MemOK(n) /\ Tracked(n.tracker, CodeSize) /\ n.tracker = mem.tracker
  BY <1>4, <1>8 DEF Loaded, Mapping, Held, Tracked, CodeSize
<1>10. ASSUME mem' = n PROVE Phase'
  <2>1. Walking'
    BY <1>3, <1>8, <1>10 DEF Walking
  <2> QED BY <1>3, <2>1 DEF Phase
<1> QED BY <1>3, <1>4, <1>8, <1>9, <1>10, StepGoes

\* The blocks of the stacks in the walk, and what is found.
LEMMA WalkIs ==
    ASSUME IInv, fate = "ok", pc = "thread"
    PROVE  /\ Found(mem, address) = address /\ address \in DOMAIN mem.blocks
           /\ MemOK(Cached(mem, address)) /\ Same(Cached(mem, address), mem, address)
           /\ Loaded(mem, used, image.modules)
           /\ \/ /\ NoThread(mem, used) /\ address = Stack.guest /\ Walked = "Alias"
              \/ /\ OneThread(mem, used, image.stack) /\ Walked = "Stack" /\ address = Stack.guest
                 /\ address + mem.blocks[address].size \in {Second, Tls.guest} \cap DOMAIN mem.blocks
              \/ OneThread(mem, used, image.stack) /\ Walked = "Alias" /\ address = Second
              \/ OneThread(mem, used, image.stack) /\ Walked = "ThreadLocal" /\ address = Tls.guest
<1>1. ImageOK /\ Walking
  BY DEF IInv, Phase
<1>2. Loaded(mem, used, image.modules) /\ MemOK(mem)
  BY <1>1 DEF Walking, Loaded
<1>3. PICK g, p, z, b, t, x, k \in Nat : /\ g = Stack.guest /\ p = PageSize /\ z = Stack.size /\ b = Second
                                         /\ t = Tls.guest /\ x = GuestSize /\ k = Modulus
  BY <1>1, Spots
<1>4. b = g + p /\ p + p <= z /\ g + z < t /\ t + p < x /\ x < k /\ 0 < p
  BY <1>1, <1>3, Spots
<1>5. g < b /\ b < t /\ t < k /\ b < k /\ t + p < k
  BY <1>4
<1>6. ASSUME address \in DOMAIN mem.blocks, address + mem.blocks[address].size < k
      PROVE  Found(mem, address) = address /\ MemOK(Cached(mem, address)) /\ Same(Cached(mem, address), mem, address)
  BY <1>2, <1>3, <1>6, CachedIs
<1>7. CASE NoThread(mem, used) /\ address = g
  <2>1. mem.blocks[g] = Block(Stack.back, t - g, "Alias") /\ g \in Behind(mem)
    BY <1>3, <1>7 DEF NoThread
  <2>2. g \in DOMAIN mem.blocks /\ mem.blocks[g].size = t - g /\ mem.blocks[g].state = "Alias"
    BY <2>1 DEF Behind, Block
  <2>3. g + (t - g) = t
    OBVIOUS
  <2>4. Found(mem, address) = address /\ MemOK(Cached(mem, address)) /\ Same(Cached(mem, address), mem, address)
    BY <1>5, <1>6, <1>7, <2>2, <2>3
  <2>5. Walked = "Alias"
    BY <1>7, <2>2, <2>4 DEF Walked
  <2> QED BY <1>2, <1>3, <1>7, <2>2, <2>4, <2>5
<1>8. CASE OneThread(mem, used, image.stack) /\ address \in {g, b, t} \cap DOMAIN mem.blocks
  <2>1. /\ g \in DOMAIN mem.blocks /\ t \in DOMAIN mem.blocks /\ mem.blocks[g].state = "Stack"
        /\ mem.blocks[t].state = "ThreadLocal" /\ mem.blocks[t].size = p
        /\ \/ /\ b \in Behind(mem) /\ mem.blocks[g].size = p
              /\ mem.blocks[b].size = t - b /\ mem.blocks[b].state = "Alias"
           \/ /\ Behind(mem) = {g, t, x} /\ mem.blocks[g].size = t - g
    BY <1>3, <1>8 DEF OneThread
  <2>2. CASE address = g
    <3>1. g + mem.blocks[g].size \in {b, t} /\ g + mem.blocks[g].size \in DOMAIN mem.blocks
      <4>1. g + (t - g) = t
        OBVIOUS
      <4>2. b \in Behind(mem) => b \in DOMAIN mem.blocks
        BY DEF Behind
      <4> QED BY <1>4, <2>1, <4>1, <4>2
    <3>2. g + mem.blocks[g].size < k
      BY <1>5, <3>1
    <3>3. Found(mem, address) = address /\ MemOK(Cached(mem, address)) /\ Same(Cached(mem, address), mem, address)
      BY <1>6, <2>1, <2>2, <3>2
    <3>4. Walked = "Stack"
      BY <2>1, <2>2, <3>3 DEF Walked
    <3> QED BY <1>2, <1>3, <1>8, <2>1, <2>2, <3>1, <3>3, <3>4
  <2>3. CASE address = b
    <3>1. b \in Behind(mem)
      BY <1>3, <1>5, <1>8, <2>3 DEF Behind
    <3>2. b \notin {g, t, x}
      BY <1>4
    <3>3. mem.blocks[b].size = t - b /\ mem.blocks[b].state = "Alias"
      BY <2>1, <3>1, <3>2
    <3>4. b + (t - b) = t
      OBVIOUS
    <3>5. Found(mem, address) = address /\ MemOK(Cached(mem, address)) /\ Same(Cached(mem, address), mem, address)
      BY <1>5, <1>6, <1>8, <2>3, <3>3, <3>4
    <3>6. Walked = "Alias"
      BY <2>3, <3>3, <3>5 DEF Walked
    <3> QED BY <1>2, <1>3, <1>8, <2>3, <3>5, <3>6
  <2>4. CASE address = t
    <3>1. Found(mem, address) = address /\ MemOK(Cached(mem, address)) /\ Same(Cached(mem, address), mem, address)
      BY <1>5, <1>6, <2>1, <2>4
    <3>2. Walked = "ThreadLocal"
      BY <2>1, <2>4, <3>1 DEF Walked
    <3> QED BY <1>2, <1>3, <1>8, <2>1, <2>4, <3>1, <3>2
  <2> QED BY <1>8, <2>2, <2>3, <2>4
<1> QED BY <1>1, <1>3, <1>7, <1>8 DEF Walking

\* CreateThread's loop.
LEMMA WalkStackStep ==
    ASSUME IInv, WalkStack
    PROVE  IInv'
<1>1. /\ fate = "ok" /\ pc = "thread" /\ Walked = "Stack" /\ mem' = Cached(mem, address)
      /\ UNCHANGED <<image, pc, used, fate>>
      /\ address' = address + mem.blocks[Found(mem, address)].size
  BY DEF WalkStack
<1>2. /\ Found(mem, address) = address /\ address \in DOMAIN mem.blocks
      /\ MemOK(mem') /\ Same(mem', mem, address) /\ Loaded(mem, used, image.modules)
      /\ OneThread(mem, used, image.stack)
      /\ address + mem.blocks[address].size \in {Second, Tls.guest} \cap DOMAIN mem.blocks
  BY <1>1, WalkIs
<1>3. Loaded(mem', used, image.modules) /\ OneThread(mem', used, image.stack)
  BY <1>2, CachedLoaded
<1>4. Walking'
  <2>1. mem'.blocks = mem.blocks
    BY <1>2 DEF Same
  <2> QED BY <1>1, <1>2, <1>3, <2>1 DEF Walking
<1>5. Phase'
  BY <1>1, <1>4 DEF Phase
<1>6. PICK r : r = [mem |-> mem', fate |-> "ok", at |-> None]
  OBVIOUS
<1>7. Gives(r, mem', "ok") /\ mem' = r.mem /\ fate' = r.fate
  BY <1>1, <1>6 DEF Gives
<1>8. Tracked(mem'.tracker, CodeSize) /\ mem'.tracker.maps <= image.barrier
  BY <1>2 DEF Same, IInv, CodeSize
<1> QED BY <1>1, <1>2, <1>5, <1>7, <1>8, StepGoes

\* CreateThread takes the stack.
LEMMA CreateThreadStep ==
    ASSUME IInv, CreateThread
    PROVE  IInv'
<1>1. PICK m : m = Cached(mem, address)
  OBVIOUS
<1>2. PICK phys : phys = mem.blocks[Found(mem, address)].base
  OBVIOUS
<1>3. PICK r : r = Allocate(m, address, phys, image.stack, "Stack")
  OBVIOUS
<1>4. PICK w : w = InsertOrAssign(used, address, image.stack)
  OBVIOUS
<1>5. /\ fate = "ok" /\ pc = "thread" /\ Walked = "Alias" /\ mem' = r.mem /\ fate' = r.fate
      /\ pc' = (IF Stack.guest \in DOMAIN used THEN "done" ELSE "running")
      /\ used' = w /\ UNCHANGED <<image, address>>
  BY <1>1, <1>2, <1>3, <1>4 DEF CreateThread, Call
<1>6. /\ Found(mem, address) = address /\ address \in DOMAIN mem.blocks
      /\ MemOK(m) /\ Same(m, mem, address) /\ Loaded(mem, used, image.modules)
      /\ \/ NoThread(mem, used) /\ address = Stack.guest
         \/ OneThread(mem, used, image.stack) /\ address = Second
  BY <1>1, <1>5, WalkIs
<1>7. ImageOK /\ image.stack \in Nat \ {0} /\ Loaded(m, used, image.modules)
      /\ m.tracker = mem.tracker /\ m.blocks = mem.blocks /\ mem.tracker.maps <= image.barrier
  <2>1. Loaded(m, used, image.modules)
    BY <1>6, CachedLoaded
  <2> QED BY <1>6, <2>1, MemoryAssumption DEF IInv, ImageOK, Same
<1>8. \A n : Loaded(n, w, image.modules) => /\ MemOK(n) /\ Tracked(n.tracker, CodeSize)
                                            /\ n.tracker = mem.tracker
  BY <1>6 DEF Loaded, Held, Tracked, CodeSize
<1>9. CASE NoThread(mem, used) /\ address = Stack.guest
  <2>1. NoThread(m, used)
    <3>1. Stack.guest # Second
      BY <1>7, Spots
    <3> QED BY <1>6, <1>9, <3>1, CachedLoaded
  <2>2. phys = Stack.back
    BY <1>2, <1>6, <1>9 DEF NoThread, Block
  <2>3. PICK a \in Nat \ {0} : a = image.stack
    BY <1>7
  <2>4. r = Allocate(m, Stack.guest, Stack.back, a, "Stack") /\ w = InsertOrAssign(used, Stack.guest, a)
    BY <1>3, <1>4, <1>9, <2>2, <2>3
  <2>5. \/ Failing(r, CodeSize)
        \/ \E n : Gives(r, n, "ok") /\ Loaded(n, w, image.modules) /\ OneThread(n, w, a)
    <3>1. CASE a < PageSize
      BY <1>7, <2>1, <2>4, <3>1, SmallStack
    <3>2. CASE PageSize <= a
      BY <1>7, <2>1, <2>3, <2>4, <3>2, BigStack DEF CodeSize
    <3> QED BY <1>7, <3>1, <3>2, Spots
  <2>6. Stack.guest \notin DOMAIN used /\ pc' = "running"
    <3>1. Stack.guest # Tls.guest /\ ~(Stack.guest < Stack.guest)
      BY <1>7, Spots
    <3> QED BY <1>5, <1>9, <3>1 DEF NoThread, Sections
  <2>7. CASE Failing(r, CodeSize)
    BY <1>5, <2>6, <2>7, StepFails
  <2>8. ASSUME NEW n, Gives(r, n, "ok"), Loaded(n, w, image.modules), OneThread(n, w, a)
        PROVE  IInv'
    <3>1. mem' = n => Phase'
      BY <1>5, <2>3, <2>6, <2>8 DEF Phase
    <3> QED BY <1>5, <1>7, <1>8, <2>6, <2>8, <3>1, StepGoes
  <2> QED BY <2>5, <2>7, <2>8
<1>10. CASE OneThread(mem, used, image.stack) /\ address = Second
  <2>1. OneThread(m, used, image.stack) /\ Second \in DOMAIN m.blocks
    BY <1>6, <1>7, <1>10, CachedLoaded
  <2>2. phys \in Addr
    BY <1>2, <1>6 DEF Loaded, MemOK, BlocksOK, BlockType
  <2>3. PICK a \in Nat \ {0} : a = image.stack
    BY <1>7
  <2>4. r = Allocate(m, Second, phys, a, "Stack") /\ w = InsertOrAssign(used, Second, a) /\ OneThread(m, used, a)
    BY <1>3, <1>4, <1>10, <2>1, <2>3
  <2>5. PICK n : Gives(r, n, "ok") /\ Loaded(n, w, image.modules)
    BY <1>7, <2>1, <2>2, <2>4, SecondStack
  <2>6. pc' = "done"
    BY <1>5, <1>10 DEF OneThread
  <2>7. mem' = n => Phase'
    BY <1>5, <2>5, <2>6 DEF Phase
  <2> QED BY <1>5, <1>7, <1>8, <2>5, <2>6, <2>7, StepGoes
<1> QED BY <1>6, <1>9, <1>10

\* The application creates a thread again.
LEMMA CreateLateThreadStep ==
    ASSUME IInv, CreateLateThread
    PROVE  IInv'
<1>1. /\ fate = "ok" /\ pc = "running" /\ pc' = "thread" /\ address' = Stack.guest
      /\ UNCHANGED <<mem, image, used, fate>>
  BY DEF CreateLateThread
<1>2. /\ Loaded(mem, used, image.modules) /\ OneThread(mem, used, image.stack)
      /\ MemOK(mem) /\ Tracked(mem.tracker, CodeSize) /\ mem.tracker.maps <= image.barrier
  BY <1>1 DEF IInv, Phase, CodeSize
<1>3. Walking'
  BY <1>1, <1>2 DEF Walking, OneThread
<1>4. Phase'
  BY <1>1, <1>3 DEF Phase
<1>5. PICK r : r = [mem |-> mem, fate |-> "ok", at |-> None]
  OBVIOUS
<1>6. Gives(r, mem, "ok") /\ mem' = r.mem /\ fate' = r.fate
  BY <1>1, <1>5 DEF Gives
<1> QED BY <1>1, <1>2, <1>4, <1>6, StepGoes
------------------------------------------------------------------------------
(* What the program was given. *)

\* What was given lies apart, and inside the pages it is to be in.
Apart(u) ==
    \A v \in DOMAIN u :
        /\ v \in Nat /\ Align(u[v]) \in Nat
        /\ \A w \in DOMAIN u : v < w => v + Align(u[v]) <= w
Inside(u, e) ==
    \A v \in DOMAIN u :
        \/ v < Stack.guest /\ CodeAddr <= v /\ v + Align(u[v]) <= e
        \/ Stack.guest <= v /\ v < Tls.guest /\ v + Align(u[v]) <= Stack.guest + Stack.size
        \/ v = Tls.guest /\ Align(u[v]) = PageSize

\* Everything but a thread's stack is as big as it should be, and a stack is too.
LEMMA GivenApart ==
    ASSUME ImageOK, NEW m, NEW u, NEW e, e = EndOfCode(image.modules), SectionsIn(m, u, e),
           DOMAIN u = Sections(u) \/ Placed(u)
    PROVE  Apart(u) /\ Inside(u, e)
<1>1. PICK g, p, z, b, t, c, n \in Nat : /\ g = Stack.guest /\ p = PageSize /\ z = Stack.size /\ b = Second
                                         /\ t = Tls.guest /\ c = CodeAddr /\ n = e
  <2>1. e \in Nat /\ CodeAddr \in Nat
    BY CodeFits, Layout DEF ImageOK
  <2> QED BY <2>1, Spots
<1>2. b = g + p /\ p + p <= z /\ g + z < t /\ 0 < p /\ c <= n /\ n < g
  <2>1. c <= n /\ n < g
    BY <1>1, CodeFits DEF ImageOK
  <2> QED BY <1>1, <2>1, Spots
<1>3. g < b /\ b + p <= g + z /\ b < t
  BY <1>2
<1>4. ASSUME NEW v \in Sections(u)
      PROVE  /\ v \in DOMAIN u /\ v \in Nat /\ c <= v /\ v < g /\ Align(u[v]) \in Nat /\ v + Align(u[v]) <= n
             /\ \A w \in Sections(u) : v < w => v + Align(u[v]) <= w
  <2>1. /\ v \in Nat /\ c <= v /\ u[v] \in Nat /\ v + Align(u[v]) <= n /\ v < g /\ v \in DOMAIN u
        /\ \A w \in Sections(u) : v < w => v + Align(u[v]) <= w
    BY <1>1 DEF SectionsIn, Sections
  <2> QED BY <2>1, AlignAbove
<1>5. CASE DOMAIN u = Sections(u)
  BY <1>1, <1>4, <1>5 DEF Apart, Inside
<1>6. CASE Placed(u)
  <2>1. /\ DOMAIN u \subseteq Sections(u) \cup {g, b, t} /\ t \in DOMAIN u /\ u[t] = p
        /\ b \in DOMAIN u => Align(u[b]) = p
        /\ g \in DOMAIN u => Align(u[g]) <= (IF b \in DOMAIN u THEN p ELSE z)
        /\ \A v \in DOMAIN u : u[v] \in Nat
    BY <1>1, <1>6 DEF Placed
  <2>2. Align(u[t]) = p
    BY <1>1, <2>1, AlignStays
  <2>3. \A v \in DOMAIN u : Align(u[v]) \in Nat
    BY <2>1, AlignAbove
  <2>4. g \in DOMAIN u => g + Align(u[g]) <= g + z /\ (b \in DOMAIN u => g + Align(u[g]) <= b)
    BY <1>2, <2>1, <2>3
  <2>5. b \in DOMAIN u => b + Align(u[b]) <= g + z
    BY <1>3, <2>1
  <2>6. ASSUME NEW v \in DOMAIN u, NEW w \in DOMAIN u, v < w PROVE v + Align(u[v]) <= w
    <3>1. CASE v \in Sections(u)
      <4>1. CASE w \in Sections(u)
        BY <1>4, <2>6, <3>1, <4>1
      <4>2. CASE w \in {g, b, t}
        <5>1. v + Align(u[v]) <= n /\ v \in Nat /\ Align(u[v]) \in Nat
          BY <1>4, <3>1
        <5>2. n < w /\ w \in Nat
          BY <1>2, <1>3, <4>2
        <5> QED BY <5>1, <5>2
      <4> QED BY <2>1, <4>1, <4>2
    <3>2. CASE v \in {g, b, t}
      <4>1. w \in {g, b, t}
        <5>1. w \in Sections(u) => w \in Nat /\ w < g
          BY <1>4
        <5>2. g <= v /\ v \in Nat
          BY <1>3, <3>2
        <5> QED BY <2>1, <2>6, <5>1, <5>2
      <4>2. CASE v = g
        BY <1>2, <2>3, <2>4, <2>6, <4>1, <4>2
      <4>3. CASE v = b
        BY <1>2, <1>3, <2>3, <2>5, <2>6, <4>1, <4>3
      <4>4. CASE v = t
        BY <1>3, <2>6, <4>1, <4>4
      <4> QED BY <3>2, <4>2, <4>3, <4>4
    <3> QED BY <2>1, <3>1, <3>2
  <2>7. \A v \in DOMAIN u : v \in Nat
    BY <1>4, <2>1
  <2>8. Apart(u)
    BY <2>3, <2>6, <2>7 DEF Apart
  <2>9. ASSUME NEW v \in DOMAIN u
        PROVE  \/ v < g /\ c <= v /\ v + Align(u[v]) <= n
               \/ g <= v /\ v < t /\ v + Align(u[v]) <= g + z
               \/ v = t /\ Align(u[v]) = p
    <3>1. CASE v \in Sections(u)
      BY <1>4, <3>1
    <3>2. CASE v = g
      BY <1>2, <1>3, <2>4, <3>2
    <3>3. CASE v = b
      BY <1>3, <2>5, <3>3
    <3>4. CASE v = t
      BY <2>2, <3>4
    <3> QED BY <2>1, <3>1, <3>2, <3>3, <3>4
  <2> QED BY <1>1, <2>8, <2>9 DEF Inside
<1> QED BY <1>5, <1>6

\* In which phases.
LEMMA GivenIs ==
    ASSUME IInv, fate = "ok", used # Nothing, NEW e, e = EndOfCode(image.modules)
    PROVE  SectionsIn(mem, used, e) /\ HostIs(mem.host, CodePages(image.modules)) /\ Apart(used) /\ Inside(used, e)
<1>1. e \in Nat /\ ImageOK /\ Phase
  BY CodeFits DEF IInv, ImageOK
<1>2. CASE pc \in {"text", "ro", "data", "tls"}
  <2>1. Mapping(mem, used, Cursor, image.modules)
    BY <1>1, <1>2 DEF Phase
  <2>2. PICK v : v = Cursor
    OBVIOUS
  <2>3. /\ SectionsIn(mem, used, v) /\ v \in Nat /\ v <= e /\ DOMAIN used = Sections(used)
        /\ HostIs(mem.host, CodePages(image.modules))
    BY <2>1, <2>2 DEF Mapping
  <2>4. \A k \in Sections(used) : k \in DOMAIN mem.blocks
    BY <2>3 DEF SectionsIn
  <2>5. SectionsIn(mem, used, e)
    BY <1>1, <2>3, <2>4, SectionsKept
  <2> QED BY <1>1, <2>3, <2>5, GivenApart
<1>3. CASE pc \in {"thread", "running", "done"}
  <2>1. Loaded(mem, used, image.modules)
    BY <1>1, <1>3 DEF Phase, Walking
  <2>2. SectionsIn(mem, used, e) /\ HostIs(mem.host, CodePages(image.modules)) /\ Placed(used)
    BY <2>1 DEF Loaded
  <2> QED BY <1>1, <2>2, GivenApart
<1>4. pc \in {"text", "ro", "data", "tls", "thread", "running", "done"}
  BY <1>1 DEF IInv, Phase
<1> QED BY <1>2, <1>3, <1>4

\* The host has what is inside the code and the stacks at one place each, and nothing of the TLS page.
LEMMA HostGives ==
    ASSUME ImageOK, NEW host, HostIs(host, CodePages(image.modules)), NEW u, NEW e, e = EndOfCode(image.modules),
           Inside(u, e), Apart(u), NEW v \in DOMAIN u, NEW g \in v .. v + Align(u[v]) - 1
    PROVE  \/ v < Stack.guest /\ g \in DOMAIN host /\ host[g] = g /\ g \in Nat /\ g < Stack.back
           \/ /\ v >= Stack.guest /\ v < Tls.guest /\ g \in DOMAIN host /\ g \in Nat /\ g >= Stack.guest
              /\ host[g] = Stack.back + (g - Stack.guest)
           \/ v = Tls.guest /\ g \notin DOMAIN host
<1>1. PICK a, p, z, t, c, n, k, s \in Nat :
         /\ a = Stack.guest /\ p = PageSize /\ z = Stack.size /\ t = Tls.guest /\ c = CodeAddr /\ n = e
         /\ k = Stack.back /\ s = SelfTest.guest
  <2>1. e \in Nat /\ CodeAddr \in Nat /\ Stack.back \in Nat /\ SelfTest.guest \in Nat
    BY CodeFits, Layout DEF ImageOK
  <2> QED BY <2>1, Spots
<1>2. a + z < t /\ n < a /\ n <= k /\ s + p < a
  <2>1. n < a /\ n <= k
    BY <1>1, CodeFits DEF ImageOK
  <2>2. s + p < a
    BY <1>1, SelfBelow
  <2>3. a + z < t
    BY <1>1, Spots
  <2> QED BY <2>1, <2>2, <2>3
<1>3. PICK o \in Nat : o = Align(u[v]) /\ v \in Nat
  BY DEF Apart
<1>4. v \in Nat /\ g \in Nat /\ v <= g /\ g < v + o
  BY <1>3
<1>5. \/ v < a /\ c <= v /\ v + o <= n
      \/ a <= v /\ v < t /\ v + o <= a + z
      \/ v = t /\ o = p
  BY <1>1, <1>3 DEF Inside
<1>6. /\ DOMAIN host = (s .. s + p - 1) \cup (a .. a + z - 1) \cup (c .. n - 1)
      /\ \A h \in a .. a + z - 1 : host[h] = k + (h - a)
      /\ \A h \in c .. n - 1 : host[h] = h
  BY <1>1 DEF HostIs, SelfPages, StackPages, CodePages
<1>7. CASE v < a /\ c <= v /\ v + o <= n
  <2>1. g \in c .. n - 1 /\ g < k
    BY <1>2, <1>4, <1>7
  <2> QED BY <1>1, <1>4, <1>6, <1>7, <2>1
<1>8. CASE a <= v /\ v < t /\ v + o <= a + z
  <2>1. g \in a .. a + z - 1
    BY <1>4, <1>8
  <2> QED BY <1>1, <1>4, <1>6, <1>8, <2>1
<1>9. CASE v = t /\ o = p
  <2>1. g \notin s .. s + p - 1 /\ g \notin a .. a + z - 1 /\ g \notin c .. n - 1
    BY <1>2, <1>4, <1>9
  <2> QED BY <1>1, <1>6, <1>9, <2>1
<1> QED BY <1>5, <1>7, <1>8, <1>9

------------------------------------------------------------------------------
(* The theorems. *)

\* Every step keeps the invariant, and so does a stutter.
LEMMA NextInv ==
    IInv /\ [Next]_vars => IInv'
<1> SUFFICES ASSUME IInv, [Next]_vars PROVE IInv'
  OBVIOUS
<1>1. CASE UNCHANGED vars
  <2>1. mem' = mem /\ image' = image /\ pc' = pc /\ address' = address /\ used' = used /\ fate' = fate
    BY <1>1 DEF vars
  <2>2. /\ ImageOK' /\ (MemOK(mem))' /\ (Tracked(mem.tracker, EndOfCode(image.modules) - CodeAddr))'
        /\ (mem.tracker.maps <= image.barrier)'
    BY <2>1 DEF IInv, ImageOK
  <2>3. Fits' = Fits
    BY <2>1 DEF Fits, ModuleAt
  <2>4. Cursor' = Cursor /\ Walking' = Walking
    BY <2>1 DEF Cursor, Walking, ModuleAt
  <2>5. Phase' = Phase
    BY <2>1, <2>4 DEF Phase, ModuleAt
  <2> QED BY <2>1, <2>2, <2>3, <2>5 DEF IInv
<1> QED
  BY <1>1, SelfTestAllocateStep, SelfTestFreeStep, ReserveStackStep, ReserveCodeStep, MapTextStep, MapRoStep,
     MapDataStep, FinishImageStep, AllocateTlsStep, WalkStackStep, CreateThreadStep, CreateLateThreadStep
  DEF Next

\* The table, the tracker and what was given are always what the phase of the loader says.
THEOREM PhaseAlways ==
    Spec => []IInv
<1> QED BY InitInv, NextInv, PTL DEF Spec

\* TableOK: the blocks, the cache and the tracker keep their types, no pointer to an erased
\* block stays in the cache, and the host's limit on mappings is never passed.
THEOREM TableOKAlways ==
    Spec => []TableOK
<1>1. ASSUME IInv PROVE TableOK
  <2>1. /\ ImageOK /\ MemOK(mem) /\ Tracked(mem.tracker, CodeSize) /\ mem.tracker.maps <= image.barrier
        /\ pc \in {"selftest", "selffree", "stack", "code", "text", "ro", "data", "tls",
                   "thread", "running", "done"}
        /\ fate \in {"ok", "bad_alloc", "aborted"}
    BY <1>1 DEF IInv, CodeSize
  <2>2. PICK maps, barrier \in Nat : maps = mem.tracker.maps /\ barrier = image.barrier
    <3>1. image.barrier \in Nat
      BY <2>1, MemoryAssumption DEF ImageOK
    <3>2. mem.tracker.maps \in Nat
      BY <2>1, CodeSizeIs, TrackedConserves
    <3> QED BY <3>1, <3>2
  <2>3. mem.tracker.maps \in 0 .. image.barrier
    BY <2>1, <2>2
  <2>4. \A k \in DOMAIN mem.blocks :
           k \in Addr /\ mem.blocks[k] \in [base : Addr, size : Addr, state : States, old : States]
    BY <2>1 DEF MemOK, BlocksOK, BlockType
  <2>5. mem.flat \subseteq Addr /\ mem.stale = {}
    BY <2>1 DEF MemOK
  <2> QED BY <2>1, <2>3, <2>4, <2>5 DEF TableOK, TypeOK, CacheFresh
<1> QED BY <1>1, PhaseAlways, PTL

\* TrackerConserves: what the Tracker committed is what its records hold and what the first
\* record has lost, over every Allocate, Free and failure.
THEOREM TrackerConservesAlways ==
    Spec => []TrackerConserves
<1>1. ASSUME IInv PROVE TrackerConserves
  <2>1. ImageOK /\ Tracked(mem.tracker, CodeSize)
    BY <1>1 DEF IInv, CodeSize
  <2>2. Conserves(mem.tracker)
    BY <2>1, CodeSizeIs, TrackedConserves
  <2> QED BY <2>2 DEF Conserves, TrackerConserves
<1> QED BY <1>1, PhaseAlways, PTL

\* SectionsMapped: every section of every module stays a block of its own, over the backing
\* pages at its own offset, whatever was allocated after it.
THEOREM SectionsMappedAlways ==
    Spec => []SectionsMapped
<1>1. ASSUME IInv PROVE SectionsMapped
  <2>1. SUFFICES ASSUME fate = "ok", NEW v \in DOMAIN used, v < Stack.guest
                 PROVE  /\ v \in DOMAIN mem.blocks
                        /\ [mem.blocks[v] EXCEPT !.old = "Free"] = Block(v, Align(used[v]), "Code")
                        /\ \A g \in Pages(v) : g \in DOMAIN mem.host /\ mem.host[g] = g
    BY DEF SectionsMapped
  <2>2. PICK e : e = EndOfCode(image.modules)
    OBVIOUS
  <2>3. used # Nothing
    BY DEF Nothing
  <2>4. /\ SectionsIn(mem, used, e) /\ HostIs(mem.host, CodePages(image.modules))
        /\ Apart(used) /\ Inside(used, e) /\ ImageOK
    BY <1>1, <2>1, <2>2, <2>3, GivenIs DEF IInv
  <2>5. v \in DOMAIN mem.blocks /\ mem.blocks[v] = Block(v, Align(used[v]), "Code")
    BY <2>1, <2>4 DEF SectionsIn, Sections
  <2>6. [mem.blocks[v] EXCEPT !.old = "Free"] = Block(v, Align(used[v]), "Code")
    BY <2>5 DEF Block
  <2>7. ASSUME NEW g \in Pages(v) PROVE g \in DOMAIN mem.host /\ mem.host[g] = g
    <3>1. g \in v .. v + Align(used[v]) - 1
      BY <2>7 DEF Pages
    <3>2. \/ v < Stack.guest /\ g \in DOMAIN mem.host /\ mem.host[g] = g
          \/ v >= Stack.guest
          \/ v = Tls.guest
      BY <2>2, <2>4, <3>1, HostGives
    <3>3. v \in Nat /\ Stack.guest \in Nat /\ Stack.guest < Tls.guest
      BY <2>4, Spots DEF Apart
    <3> QED BY <2>1, <3>2, <3>3
  <2> QED BY <2>5, <2>6, <2>7
<1> QED BY <1>1, PhaseAlways, PTL

\* GivenPagesKept: sections, stacks and the TLS page lie apart in the guest and in the backing
\* memory, and a stack has the backing pages of its place in the region.
THEOREM GivenPagesKeptAlways ==
    Spec => []GivenPagesKept
<1>1. ASSUME IInv PROVE GivenPagesKept
  <2>1. SUFFICES ASSUME fate = "ok", used # Nothing PROVE GivenPagesKept
    BY DEF GivenPagesKept, GivenPagesDisjoint, StackBacked, Nothing
  <2>2. PICK e : e = EndOfCode(image.modules)
    OBVIOUS
  <2>3. HostIs(mem.host, CodePages(image.modules)) /\ Apart(used) /\ Inside(used, e) /\ ImageOK
    BY <1>1, <2>1, <2>2, GivenIs DEF IInv
  <2>4. PICK a, k, t \in Nat : a = Stack.guest /\ k = Stack.back /\ t = Tls.guest /\ a < t
    <3>1. Stack.guest \in Nat /\ Tls.guest \in Nat /\ Stack.guest < Tls.guest
      BY <2>3, Spots
    <3>2. Stack.back \in Nat
      BY Layout
    <3> QED BY <3>1, <3>2
  <2>5. ASSUME NEW v \in DOMAIN used, NEW g \in Pages(v)
        PROVE  /\ v \in Nat /\ g \in Nat /\ v <= g /\ g < v + Align(used[v])
               /\ \/ v < a /\ g \in DOMAIN mem.host /\ mem.host[g] = g /\ g < k
                  \/ v >= a /\ v < t /\ g \in DOMAIN mem.host /\ g >= a /\ mem.host[g] = k + (g - a)
                  \/ v = t /\ g \notin DOMAIN mem.host
    <3>1. g \in v .. v + Align(used[v]) - 1 /\ v \in Nat /\ Align(used[v]) \in Nat
      BY <2>3, <2>5 DEF Pages, Apart
    <3>2. \/ v < a /\ g \in DOMAIN mem.host /\ mem.host[g] = g /\ g < k
          \/ v >= a /\ v < t /\ g \in DOMAIN mem.host /\ g >= a /\ mem.host[g] = k + (g - a)
          \/ v = t /\ g \notin DOMAIN mem.host
      BY <2>2, <2>3, <2>4, <3>1, HostGives
    <3>3. v \in Nat /\ g \in Nat /\ v <= g /\ g < v + Align(used[v])
      BY <3>1
    <3> QED BY <3>2, <3>3
  <2>6. ASSUME NEW v \in DOMAIN used, NEW w \in DOMAIN used, v # w
        PROVE  Pages(v) \cap Pages(w) = {}
    <3>1. SUFFICES ASSUME NEW g \in Pages(v), g \in Pages(w) PROVE FALSE
      OBVIOUS
    <3>2. g \in Nat /\ v <= g /\ g < v + Align(used[v]) /\ w <= g /\ g < w + Align(used[w])
      BY <2>5, <3>1
    <3>3. /\ v \in Nat /\ w \in Nat /\ Align(used[v]) \in Nat /\ Align(used[w]) \in Nat
          /\ v < w => v + Align(used[v]) <= w
          /\ w < v => w + Align(used[w]) <= v
      BY <2>3 DEF Apart
    <3> QED BY <2>6, <3>2, <3>3
  <2>7. ASSUME NEW v \in DOMAIN used, NEW w \in DOMAIN used, v # w,
               NEW g \in Pages(v) \cap DOMAIN mem.host, NEW h \in Pages(w) \cap DOMAIN mem.host
        PROVE  mem.host[g] # mem.host[h]
    <3>1. g # h
      BY <2>6, <2>7
    <3>2. g \in Nat /\ ((mem.host[g] = g /\ g < k) \/ (g >= a /\ mem.host[g] = k + (g - a)))
      <4>1. g \in Pages(v) /\ g \in DOMAIN mem.host
        BY <2>7
      <4>2. /\ g \in Nat
            /\ \/ v < a /\ g \in DOMAIN mem.host /\ mem.host[g] = g /\ g < k
               \/ v >= a /\ v < t /\ g \in DOMAIN mem.host /\ g >= a /\ mem.host[g] = k + (g - a)
               \/ v = t /\ g \notin DOMAIN mem.host
        BY <2>5, <4>1
      <4> QED BY <4>1, <4>2
    <3>3. h \in Nat /\ ((mem.host[h] = h /\ h < k) \/ (h >= a /\ mem.host[h] = k + (h - a)))
      <4>1. h \in Pages(w) /\ h \in DOMAIN mem.host
        BY <2>7
      <4>2. /\ h \in Nat
            /\ \/ w < a /\ h \in DOMAIN mem.host /\ mem.host[h] = h /\ h < k
               \/ w >= a /\ w < t /\ h \in DOMAIN mem.host /\ h >= a /\ mem.host[h] = k + (h - a)
               \/ w = t /\ h \notin DOMAIN mem.host
        BY <2>5, <4>1
      <4> QED BY <4>1, <4>2
    <3> QED BY <3>1, <3>2, <3>3
  <2>8. GivenPagesDisjoint
    BY <2>6, <2>7 DEF GivenPagesDisjoint
  <2>9. ASSUME NEW v \in DOMAIN used, v \in Stack.guest .. Tls.guest - 1, NEW g \in Pages(v)
        PROVE  g \in DOMAIN mem.host /\ mem.host[g] - Stack.back = g - Stack.guest
    <3>1. v \in Nat /\ a <= v /\ v < t
      BY <2>4, <2>9
    <3>2. g \in Nat /\ g \in DOMAIN mem.host /\ mem.host[g] = k + (g - a)
      BY <2>5, <3>1
    <3> QED BY <2>4, <3>2
  <2>10. StackBacked
    BY <2>9 DEF StackBacked
  <2> QED BY <2>8, <2>10 DEF GivenPagesKept
<1> QED BY <1>1, PhaseAlways, PTL

\* LoadSucceeds: a program that fits is loaded, and its first thread finds its stack.
THEOREM LoadSucceedsAlways ==
    Spec => []LoadSucceeds
<1>1. ASSUME IInv PROVE LoadSucceeds
  <2>1. SUFFICES ASSUME Fits
                 PROVE  fate = "ok" /\ (pc = "thread" /\ Stack.guest \notin DOMAIN used => Walked = "Alias")
    BY DEF LoadSucceeds, Fits
  <2>2. fate = "ok"
    BY <1>1, <2>1 DEF IInv
  <2>3. ASSUME pc = "thread", Stack.guest \notin DOMAIN used PROVE Walked = "Alias"
    <3>1. ~OneThread(mem, used, image.stack)
      BY <2>3 DEF OneThread
    <3> QED BY <1>1, <2>2, <2>3, <3>1, WalkIs
  <2> QED BY <2>2, <2>3
<1> QED BY <1>1, PhaseAlways, PTL
=============================================================================
