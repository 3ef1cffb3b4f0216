---------------------------- MODULE LaunchProofs -----------------------------
(***************************************************************************)
(* Proofs about Launch, for all collections of games and any number of     *)
(* files that are replaced or removed: which version of a file is loaded,  *)
(* and that a process has what its file says.  The loops that decode the   *)
(* metadata, go through a cartridge's archives and place a program's       *)
(* modules are reasoned about first.                                       *)
(***************************************************************************)
EXTENDS Launch, SequenceTheorems, NaturalsInduction, WellFoundedInduction, TLAPS
-----------------------------------------------------------------------------
(* Loops. *)

\* A set of naturals has a least one.
LEMMA LeastNatural ==
    ASSUME NEW T \in SUBSET Nat, T # {}
    PROVE  \E x \in T : \A y \in T : x <= y
<1> DEFINE R == OpToRel(<, Nat)
<1>1. PICK x \in T : \A y \in T : ~(<<y, x>> \in R)
  <2> HIDE DEF R
  <2> QED BY NatLessThanWellFounded, WFMin DEF R
<1>2. \A y \in T : ~(y < x)
  BY <1>1 DEF OpToRel
<1> QED BY <1>2

\* Induction: a set of naturals with 0 and with the successors of its members
\* below a limit has all naturals up to the limit.
LEMMA UpTo ==
    ASSUME NEW n \in Nat, NEW S, 0 \in S,
           \A k \in 0 .. n : k \in S /\ k < n => k + 1 \in S
    PROVE  \A k \in 0 .. n : k \in S
<1> DEFINE T == {k \in 0 .. n : k \notin S}
<1>1. SUFFICES ASSUME T # {} PROVE FALSE
  OBVIOUS
<1>2. PICK x \in T : \A y \in T : x <= y
  <2>1. T \in SUBSET Nat
    OBVIOUS
  <2> QED BY <1>1, <2>1, LeastNatural
<1>3. x \in 0 .. n /\ x \notin S /\ x # 0
  BY <1>2
<1>4. x - 1 \in 0 .. n /\ x - 1 \notin T /\ x - 1 < n
  BY <1>2, <1>3
<1>5. (x - 1) + 1 \in S
  BY <1>4
<1> QED BY <1>3, <1>5

\* A loop of n rounds: what it has after each.
Rounds(f, n, V, base, step) ==
    /\ f \in [0 .. n -> V] /\ f[0] = base
    /\ \A i \in 1 .. n : f[i] = step[i][f[i - 1]]

\* There is such a function for each loop.
LEMMA RoundsExist ==
    ASSUME NEW n \in Nat, NEW V, NEW base \in V, NEW step \in [1 .. n -> [V -> V]]
    PROVE  \E f : Rounds(f, n, V, base, step)
<1> DEFINE S == {k \in 0 .. n : \E f : Rounds(f, k, V, base, step)}
<1>1. 0 \in S
  <2>1. Rounds([i \in 0 .. 0 |-> base], 0, V, base, step)
    BY DEF Rounds
  <2> QED BY <2>1
<1>2. ASSUME NEW k \in 0 .. n, k \in S, k < n
      PROVE  k + 1 \in S
  <2>1. PICK h : Rounds(h, k, V, base, step)
    BY <1>2
  <2>2. h \in [0 .. k -> V] /\ h[0] = base /\ \A i \in 1 .. k : h[i] = step[i][h[i - 1]]
    BY <2>1 DEF Rounds
  <2>3. PICK v : v = step[k + 1][h[k]]
    OBVIOUS
  <2>4. v \in V
    <3>1. k + 1 \in 1 .. n /\ k \in 0 .. k
      BY <1>2
    <3>2. step[k + 1] \in [V -> V] /\ h[k] \in V
      BY <2>2, <3>1
    <3> QED BY <2>3, <3>2
  <2>5. PICK f : f = [i \in 0 .. k + 1 |-> IF i = k + 1 THEN v ELSE h[i]]
    OBVIOUS
  <2>6. \A i \in 0 .. k + 1 : i = k + 1 \/ i \in 0 .. k
    OBVIOUS
  <2>7. f \in [0 .. k + 1 -> V] /\ f[k + 1] = v /\ \A i \in 0 .. k : f[i] = h[i]
    <3>1. \A i \in 0 .. k : i \in 0 .. k + 1 /\ i # k + 1
      OBVIOUS
    <3>2. k + 1 \in 0 .. k + 1
      OBVIOUS
    <3> QED BY <2>2, <2>4, <2>5, <2>6, <3>1, <3>2
  <2>8. ASSUME NEW i \in 1 .. k + 1
        PROVE  f[i] = step[i][f[i - 1]]
    <3>1. i - 1 \in 0 .. k /\ f[i - 1] = h[i - 1]
      BY <2>7
    <3>2. CASE i = k + 1
      BY <2>3, <2>7, <3>1, <3>2
    <3>3. CASE i # k + 1
      <4>1. i \in 1 .. k /\ i \in 0 .. k
        BY <3>3
      <4> QED BY <2>2, <2>7, <3>1, <4>1
    <3> QED BY <3>2, <3>3
  <2>9. f[0] = base
    BY <2>2, <2>7
  <2>10. Rounds(f, k + 1, V, base, step)
    BY <2>7, <2>8, <2>9 DEF Rounds
  <2>11. k + 1 \in 0 .. n
    BY <1>2
  <2> QED BY <2>10, <2>11
<1>3. n \in S
  <2> HIDE DEF S
  <2>1. \A k \in 0 .. n : k \in S
    BY <1>1, <1>2, UpTo
  <2> QED BY <2>1
<1> QED BY <1>3
-----------------------------------------------------------------------------
\* The states of SetKac's loop.
KacOf(words) == [allowed : UNION {[S -> BOOLEAN] : S \in SUBSET (0 .. Calls - 1)},
                 priorities : {NoKac.priorities} \cup {PrioritiesOf(words[i]) : i \in DOMAIN words},
                 ended : BOOLEAN, fate : {"running", "assertion"}]

\* What a word for calls makes of the map of them.
LEMMA PutKeeps ==
    ASSUME NEW words, NEW kac \in KacOf(words), NEW word
    PROVE  /\ Put(kac, word) \in KacOf(words)
           /\ \A field \in {"priorities", "ended", "fate"} : Put(kac, word)[field] = kac[field]
           /\ DOMAIN Put(kac, word).allowed = DOMAIN kac.allowed \cup DOMAIN CallsIn(word)
           /\ \A c \in DOMAIN kac.allowed : Put(kac, word).allowed[c] = kac.allowed[c]
           /\ \A c \in DOMAIN CallsIn(word) :
                 c \notin DOMAIN kac.allowed => (Put(kac, word).allowed[c] <=> CallBit(c) \in word)
<1>1. PICK S \in SUBSET (0 .. Calls - 1) : kac.allowed \in [S -> BOOLEAN]
  BY DEF KacOf
<1>2. PICK calls : calls = CallsIn(word)
  OBVIOUS
<1>3. PICK D : D = {m \in 0 .. Calls - 1 : m \div CallsOfWord = GroupOf(word)}
  OBVIOUS
<1>4. D \subseteq 0 .. Calls - 1
  BY <1>3
<1>5. calls = [n \in D |-> CallBit(n) \in word]
  BY <1>2, <1>3 DEF CallsIn
<1>6. calls \in [D -> BOOLEAN] /\ \A c \in D : calls[c] = (CallBit(c) \in word)
  <2>1. ASSUME NEW c \in D PROVE calls[c] = (CallBit(c) \in word)
    BY <1>5, Zenon
  <2>2. \A c \in D : (CallBit(c) \in word) \in BOOLEAN
    OBVIOUS
  <2>3. calls \in [D -> BOOLEAN]
    BY <1>5, <2>2, Zenon
  <2> QED BY <2>1, <2>3, Zenon
<1>7. PICK f : f = [n \in S \cup D |-> IF n \in S THEN kac.allowed[n] ELSE calls[n]]
  OBVIOUS
<1>8. Put(kac, word) = [kac EXCEPT !.allowed = f]
  BY <1>1, <1>2, <1>6, <1>7 DEF Put
<1>9. f \in [S \cup D -> BOOLEAN] /\ S \cup D \in SUBSET (0 .. Calls - 1)
  BY <1>1, <1>4, <1>6, <1>7
<1>10. f \in UNION {[T -> BOOLEAN] : T \in SUBSET (0 .. Calls - 1)}
  BY <1>9
<1>11. Put(kac, word) \in KacOf(words) /\ Put(kac, word).allowed = f
       /\ \A field \in {"priorities", "ended", "fate"} : Put(kac, word)[field] = kac[field]
  BY <1>8, <1>10 DEF KacOf
<1>12. \A c \in S : f[c] = kac.allowed[c]
  BY <1>7
<1>13. \A c \in D : c \notin S => f[c] = calls[c]
  BY <1>7
<1>14. DOMAIN calls = D /\ DOMAIN f = S \cup D /\ DOMAIN kac.allowed = S
  BY <1>1, <1>5, <1>7
<1> QED BY <1>2, <1>6, <1>11, <1>12, <1>13, <1>14, Zenon

\* Of the first n words: whether one ends the list, which say what of each call, and
\* which is the last one for priorities.
Starts(words, c) == {i \in OfPattern(words, 4) : GroupOf(words[i]) = c \div CallsOfWord}
EndedBy(kac, words, n) == kac.ended <=> \E j \in 1 .. n : words[j] = AllOnes
AllowsBy(kac, words, n) ==
    \A c \in 0 .. Calls - 1 :
       IF c \in DOMAIN kac.allowed
       THEN \E m \in Starts(words, c) :
               /\ m <= n /\ \A i \in Starts(words, c) : m <= i
               /\ kac.allowed[c] <=> CallBit(c) \in words[m]
       ELSE \A i \in Starts(words, c) : i > n
PrioritiesBy(kac, words, n) ==
    \/ \A i \in OfPattern(words, 3) : i > n
    \/ \E m \in OfPattern(words, 3) :
          /\ m <= n /\ \A i \in OfPattern(words, 3) : i <= n => i <= m
          /\ kac.priorities = PrioritiesOf(words[m])
DecodedBy(kac, words, n) == EndedBy(kac, words, n) /\ AllowsBy(kac, words, n) /\ PrioritiesBy(kac, words, n)

\* The next word is in force if the list did not end before or with it; a word
\* that is not of a pattern changes nothing for the pattern.
LEMMA NextWord ==
    ASSUME NEW X, NEW words \in Seq(X), NEW n \in Nat, n + 1 <= Len(words),
           NEW kac, EndedBy(kac, words, n)
    PROVE  /\ n + 1 \in InForce(words) <=> ~kac.ended /\ words[n + 1] # AllOnes
           /\ \A p : \A i \in OfPattern(words, p) :
                 /\ i \in Nat
                 /\ i <= n + 1 => i <= n \/ (i = n + 1 /\ ~kac.ended /\ words[n + 1] # AllOnes
                                                     /\ TrailingOnes(words[n + 1]) = p)
           /\ \A p : ~kac.ended /\ words[n + 1] # AllOnes /\ TrailingOnes(words[n + 1]) = p
                     => n + 1 \in OfPattern(words, p)
<1>1. DOMAIN words = 1 .. Len(words) /\ Len(words) \in Nat
  OBVIOUS
<1>2. n + 1 \in 1 .. Len(words)
  BY <1>1
<1>3. \A j \in 1 .. n + 1 : j \in 1 .. n \/ j = n + 1
  OBVIOUS
<1>4. n + 1 \in InForce(words) <=> \A j \in 1 .. n + 1 : words[j] # AllOnes
  BY <1>1, <1>2 DEF InForce
<1>5. (\A j \in 1 .. n + 1 : words[j] # AllOnes) <=> ~kac.ended /\ words[n + 1] # AllOnes
  <2>1. n + 1 \in 1 .. n + 1 /\ \A j \in 1 .. n : j \in 1 .. n + 1
    OBVIOUS
  <2> QED BY <1>3, <2>1 DEF EndedBy
<1>6. \A i \in InForce(words) : i \in Nat /\ (i <= n + 1 => i <= n \/ i = n + 1)
  BY <1>1 DEF InForce
<1>7. n + 1 \in InForce(words) <=> ~kac.ended /\ words[n + 1] # AllOnes
  BY <1>4, <1>5
<1> QED BY <1>6, <1>7 DEF OfPattern

\* What does not change is still right, if the next word is of no pattern.
LEMMA AllowsStays ==
    ASSUME NEW words, NEW n \in Nat, NEW kac, NEW next, next.allowed = kac.allowed, AllowsBy(kac, words, n),
           \A i \in OfPattern(words, 4) : i \in Nat /\ (i <= n + 1 => i <= n)
    PROVE  AllowsBy(next, words, n + 1)
<1> SUFFICES ASSUME NEW c \in 0 .. Calls - 1
             PROVE  IF c \in DOMAIN next.allowed
                    THEN \E m \in Starts(words, c) :
                            /\ m <= n + 1 /\ \A i \in Starts(words, c) : m <= i
                            /\ next.allowed[c] <=> CallBit(c) \in words[m]
                    ELSE \A i \in Starts(words, c) : i > n + 1
  BY DEF AllowsBy
<1>1. \A i \in Starts(words, c) : i \in Nat /\ (i <= n + 1 => i <= n) /\ (i <= n => i <= n + 1)
  BY DEF Starts
<1>2. CASE c \in DOMAIN kac.allowed
  <2>1. PICK m \in Starts(words, c) : /\ m <= n /\ \A i \in Starts(words, c) : m <= i
                                      /\ kac.allowed[c] <=> CallBit(c) \in words[m]
    BY <1>2 DEF AllowsBy
  <2>2. m <= n + 1
    BY <1>1, <2>1
  <2> QED BY <1>2, <2>1, <2>2
<1>3. CASE c \notin DOMAIN kac.allowed
  <2>1. \A i \in Starts(words, c) : i > n
    BY <1>3 DEF AllowsBy
  <2> QED BY <1>1, <1>3, <2>1
<1> QED BY <1>2, <1>3

\* Priorities stay as they were, if the next word is not one for them.
LEMMA PrioritiesStay ==
    ASSUME NEW words, NEW n \in Nat, NEW kac, NEW next, next.priorities = kac.priorities,
           PrioritiesBy(kac, words, n),
           \A i \in OfPattern(words, 3) : i \in Nat /\ (i <= n + 1 => i <= n)
    PROVE  PrioritiesBy(next, words, n + 1)
<1>1. CASE \A i \in OfPattern(words, 3) : i > n
  BY <1>1 DEF PrioritiesBy
<1>2. CASE \E m \in OfPattern(words, 3) :
              /\ m <= n /\ \A i \in OfPattern(words, 3) : i <= n => i <= m
              /\ kac.priorities = PrioritiesOf(words[m])
  <2>1. PICK m \in OfPattern(words, 3) :
              /\ m <= n /\ \A i \in OfPattern(words, 3) : i <= n => i <= m
              /\ kac.priorities = PrioritiesOf(words[m])
    BY <1>2
  <2>2. m <= n + 1 /\ \A i \in OfPattern(words, 3) : i <= n + 1 => i <= m
    BY <2>1
  <2> QED BY <2>1, <2>2 DEF PrioritiesBy
<1> QED BY <1>1, <1>2 DEF PrioritiesBy

\* A word for calls: it says something of those of which no word before did.
LEMMA CallsStep ==
    ASSUME NEW words, NEW n \in Nat, NEW kac \in KacOf(words), NEW next, AllowsBy(kac, words, n),
           next = Put(kac, words[n + 1]), n + 1 \in OfPattern(words, 4),
           \A i \in OfPattern(words, 4) : i \in Nat /\ (i <= n + 1 => i <= n \/ i = n + 1)
    PROVE  AllowsBy(next, words, n + 1)
<1> SUFFICES ASSUME NEW c \in 0 .. Calls - 1
             PROVE  IF c \in DOMAIN next.allowed
                    THEN \E m \in Starts(words, c) :
                            /\ m <= n + 1 /\ \A i \in Starts(words, c) : m <= i
                            /\ next.allowed[c] <=> CallBit(c) \in words[m]
                    ELSE \A i \in Starts(words, c) : i > n + 1
  BY DEF AllowsBy
<1>1. /\ DOMAIN next.allowed = DOMAIN kac.allowed \cup DOMAIN CallsIn(words[n + 1])
      /\ \A d \in DOMAIN kac.allowed : next.allowed[d] = kac.allowed[d]
      /\ \A d \in DOMAIN CallsIn(words[n + 1]) :
            d \notin DOMAIN kac.allowed => (next.allowed[d] <=> CallBit(d) \in words[n + 1])
  BY PutKeeps
<1>2. \A i \in Starts(words, c) : i \in Nat /\ (i <= n + 1 => i <= n \/ i = n + 1)
  BY DEF Starts
<1>3. c \in DOMAIN CallsIn(words[n + 1]) <=> n + 1 \in Starts(words, c)
  BY DEF CallsIn, Starts
<1>4. CASE c \in DOMAIN kac.allowed
  <2>1. PICK m \in Starts(words, c) : /\ m <= n /\ \A i \in Starts(words, c) : m <= i
                                      /\ kac.allowed[c] <=> CallBit(c) \in words[m]
    BY <1>4 DEF AllowsBy
  <2>2. m <= n + 1
    BY <1>2, <2>1
  <2>3. next.allowed[c] <=> CallBit(c) \in words[m]
    BY <1>1, <1>4, <2>1
  <2> QED BY <1>1, <1>4, <2>1, <2>2, <2>3
<1>5. CASE c \notin DOMAIN kac.allowed
  <2>1. \A i \in Starts(words, c) : i > n
    BY <1>5 DEF AllowsBy
  <2>2. \A i \in Starts(words, c) : n + 1 <= i
    BY <1>2, <2>1
  <2>3. CASE n + 1 \in Starts(words, c)
    <3>1. c \in DOMAIN next.allowed /\ (next.allowed[c] <=> CallBit(c) \in words[n + 1])
      BY <1>1, <1>3, <1>5, <2>3
    <3>2. n + 1 <= n + 1
      OBVIOUS
    <3> QED BY <2>2, <2>3, <3>1, <3>2
  <2>4. CASE n + 1 \notin Starts(words, c)
    <3>1. c \notin DOMAIN next.allowed
      BY <1>1, <1>3, <1>5, <2>4
    <3>2. \A i \in Starts(words, c) : i > n + 1
      BY <1>2, <2>1, <2>4
    <3> QED BY <3>1, <3>2
  <2> QED BY <2>3, <2>4
<1> QED BY <1>4, <1>5

\* The loop's body.
LEMMA DecodeKeeps ==
    ASSUME NEW words, NEW i \in DOMAIN words, NEW kac \in KacOf(words)
    PROVE  Decode(kac, words[i]) \in KacOf(words)
<1>1. PICK word : word = words[i]
  OBVIOUS
<1>2. PrioritiesOf(word) \in {PrioritiesOf(words[j]) : j \in DOMAIN words}
  BY <1>1
<1>3. Put(kac, word) \in KacOf(words)
  BY PutKeeps
<1>4. [kac EXCEPT !.fate = "assertion"] \in KacOf(words) /\ [kac EXCEPT !.ended = TRUE] \in KacOf(words)
  BY DEF KacOf
<1>5. [kac EXCEPT !.priorities = PrioritiesOf(word)] \in KacOf(words)
  BY <1>2 DEF KacOf
<1> QED BY <1>1, <1>3, <1>4, <1>5, SMT DEF Decode

\* As long as no word asserts, what was decoded is right of all
\* words so far.
LEMMA DecodeStep ==
    ASSUME NEW X, NEW words \in Seq(X), NEW n \in Nat, n + 1 <= Len(words), NEW kac \in KacOf(words),
           kac.fate = "running" => DecodedBy(kac, words, n)
    PROVE  Decode(kac, words[n + 1]).fate = "running" =>
              DecodedBy(Decode(kac, words[n + 1]), words, n + 1)
<1>1. PICK word : word = words[n + 1]
  OBVIOUS
<1>2. PICK next : next = Decode(kac, word)
  OBVIOUS
<1>5. next \in KacOf(words)
  <2>1. n + 1 \in DOMAIN words
    OBVIOUS
  <2> QED BY <1>1, <1>2, <2>1, DecodeKeeps
<1>6. SUFFICES ASSUME next.fate = "running" PROVE DecodedBy(next, words, n + 1)
  BY <1>1, <1>2, <1>5
<1>7. CASE kac.fate # "running"
  BY <1>2, <1>6, <1>7 DEF Decode
<1>8. CASE kac.fate = "running"
  <2>1. DecodedBy(kac, words, n)
    BY <1>8
  <2>2. EndedBy(kac, words, n) /\ AllowsBy(kac, words, n) /\ PrioritiesBy(kac, words, n)
    BY <2>1 DEF DecodedBy
  <2>3. /\ \A p : \A i \in OfPattern(words, p) :
              /\ i \in Nat
              /\ i <= n + 1 => i <= n \/ (i = n + 1 /\ ~kac.ended /\ word # AllOnes /\ TrailingOnes(word) = p)
        /\ \A p : ~kac.ended /\ word # AllOnes /\ TrailingOnes(word) = p => n + 1 \in OfPattern(words, p)
    BY <1>1, <2>2, NextWord
  <2>4. \A j : j \in 1 .. n + 1 <=> j \in 1 .. n \/ j = n + 1
    OBVIOUS
  <2>5. ASSUME NEW k, k.ended <=> kac.ended \/ word = AllOnes
        PROVE  EndedBy(k, words, n + 1)
    BY <1>1, <2>2, <2>4, <2>5 DEF EndedBy
  <2>6. ASSUME kac.ended \/ word = AllOnes \/ TrailingOnes(word) # 4
        PROVE  \A i \in OfPattern(words, 4) : i \in Nat /\ (i <= n + 1 => i <= n)
    BY <2>3, <2>6
  <2>7. ASSUME kac.ended \/ word = AllOnes \/ TrailingOnes(word) # 3
        PROVE  \A i \in OfPattern(words, 3) : i \in Nat /\ (i <= n + 1 => i <= n)
    BY <2>3, <2>7
  <2>8. CASE kac.ended
    <3>1. next = kac
      BY <1>2, <2>8 DEF Decode
    <3> QED BY <2>2, <2>5, <2>6, <2>7, <2>8, <3>1, AllowsStays, PrioritiesStay DEF DecodedBy
  <2>9. CASE ~kac.ended /\ word = AllOnes
    <3>1. next = [kac EXCEPT !.ended = TRUE]
      BY <1>2, <1>8, <2>9 DEF Decode
    <3>2. next.ended /\ next.allowed = kac.allowed /\ next.priorities = kac.priorities
      BY <3>1 DEF KacOf
    <3> QED BY <2>2, <2>5, <2>6, <2>7, <2>9, <3>2, AllowsStays, PrioritiesStay DEF DecodedBy
  <2>10. CASE ~kac.ended /\ word # AllOnes /\ TrailingOnes(word) = 4
    <3>1. next = Put(kac, word)
      BY <1>2, <1>8, <2>10 DEF Decode
    <3>2. next.ended = kac.ended /\ next.priorities = kac.priorities
      BY <3>1, PutKeeps
    <3>3. n + 1 \in OfPattern(words, 4)
      BY <2>3, <2>10
    <3>4. \A i \in OfPattern(words, 4) : i \in Nat /\ (i <= n + 1 => i <= n \/ i = n + 1)
      BY <2>3
    <3>5. AllowsBy(next, words, n + 1)
      BY <1>1, <2>2, <3>1, <3>3, <3>4, CallsStep
    <3>6. PrioritiesBy(next, words, n + 1)
      BY <2>2, <2>7, <2>10, <3>2, PrioritiesStay
    <3>7. EndedBy(next, words, n + 1)
      BY <2>5, <2>10, <3>2
    <3> QED BY <3>5, <3>6, <3>7 DEF DecodedBy
  <2>11. CASE ~kac.ended /\ word # AllOnes /\ TrailingOnes(word) = 3
    <3>1. next = IF RangeAsserts(word) THEN [kac EXCEPT !.fate = "assertion"]
                 ELSE [kac EXCEPT !.priorities = PrioritiesOf(word)]
      BY <1>2, <1>8, <2>11 DEF Decode
    <3>2. next = [kac EXCEPT !.priorities = PrioritiesOf(word)]
      BY <1>6, <3>1 DEF KacOf
    <3>3. next.ended = kac.ended /\ next.allowed = kac.allowed /\ next.priorities = PrioritiesOf(word)
      BY <3>2 DEF KacOf
    <3>4. n + 1 \in OfPattern(words, 3) /\ \A i \in OfPattern(words, 3) : i \in Nat
      BY <2>3, <2>11
    <3>5. PrioritiesBy(next, words, n + 1)
      BY <1>1, <3>3, <3>4 DEF PrioritiesBy
    <3>6. AllowsBy(next, words, n + 1)
      BY <2>2, <2>6, <2>11, <3>3, AllowsStays
    <3>7. EndedBy(next, words, n + 1)
      BY <2>5, <2>11, <3>3
    <3> QED BY <3>5, <3>6, <3>7 DEF DecodedBy
  <2>12. CASE ~kac.ended /\ word # AllOnes /\ TrailingOnes(word) # 4 /\ TrailingOnes(word) # 3
    <3>1. next = kac
      BY <1>2, <1>8, <2>12 DEF Decode
    <3> QED BY <2>2, <2>5, <2>6, <2>7, <2>12, <3>1, AllowsStays, PrioritiesStay DEF DecodedBy
  <2> QED BY <2>8, <2>9, <2>10, <2>11, <2>12
<1> QED BY <1>7, <1>8

\* All words.
LEMMA SetKacDecodes ==
    ASSUME NEW X, NEW words \in Seq(X), SetKac(words).fate = "running"
    PROVE  DecodedBy(SetKac(words), words, Len(words))
<1> DEFINE n == Len(words)
           V == KacOf(words)
           step == [i \in 1 .. n |-> [k \in V |-> Decode(k, words[i])]]
           Turn(f, i) == IF i = 0 THEN NoKac ELSE Decode(f[i - 1], words[i])
<1>1. n \in Nat /\ DOMAIN words = 1 .. n
  OBVIOUS
<1>2. NoKac \in V /\ DecodedBy(NoKac, words, 0)
  <2>1. PICK none : none = NoKac.allowed
    OBVIOUS
  <2>2. none \in [{} -> BOOLEAN] /\ DOMAIN none = {}
    BY <2>1 DEF NoKac
  <2>3. none \in UNION {[S -> BOOLEAN] : S \in SUBSET (0 .. Calls - 1)}
    BY <2>2
  <2>4. NoKac \in V
    BY <2>1, <2>3 DEF KacOf, NoKac
  <2>5. \A p : \A i \in OfPattern(words, p) : i > 0
    BY DEF OfPattern, InForce
  <2>6. EndedBy(NoKac, words, 0)
    BY DEF EndedBy, NoKac
  <2>7. AllowsBy(NoKac, words, 0)
    BY <2>1, <2>2, <2>5 DEF AllowsBy, Starts
  <2> QED BY <2>4, <2>5, <2>6, <2>7 DEF DecodedBy, PrioritiesBy
<1>3. step \in [1 .. n -> [V -> V]]
  <2>1. \A i \in 1 .. n : \A k \in V : Decode(k, words[i]) \in V
    BY <1>1, DecodeKeeps
  <2> HIDE DEF V
  <2> QED BY <2>1
<1>4. PICK h : Rounds(h, n, V, NoKac, step)
  <2> HIDE DEF V, step
  <2> QED BY <1>1, <1>2, <1>3, RoundsExist
<1>5. /\ h \in [0 .. n -> V] /\ h[0] = NoKac
      /\ \A i \in 1 .. n : h[i] = Decode(h[i - 1], words[i])
  <2>1. /\ h \in [0 .. n -> V] /\ h[0] = NoKac
        /\ \A i \in 1 .. n : h[i] = step[i][h[i - 1]]
    BY <1>4 DEF Rounds
  <2>2. \A i \in 1 .. n : i - 1 \in 0 .. n
    BY <1>1
  <2> HIDE DEF V
  <2> QED BY <2>1, <2>2
<1> HIDE DEF V, step
<1>6. \A i \in 0 .. n : h[i] = Turn(h, i)
  <2>1. \A i \in 0 .. n : i = 0 \/ i \in 1 .. n
    BY <1>1
  <2> QED BY <1>5, <2>1
<1> DEFINE g == CHOOSE f : f = [i \in 0 .. Len(words) |-> Turn(f, i)]
<1>7. SetKac(words) = g[Len(words)]
  BY DEF SetKac
<1> HIDE DEF Turn
<1>8. h = [i \in 0 .. n |-> Turn(h, i)]
  BY <1>5, <1>6
<1>9. g = [i \in 0 .. n |-> Turn(g, i)]
  BY <1>8
<1> HIDE DEF g
<1> USE DEF Turn
<1>10. DEFINE S == {k \in 0 .. n : g[k] \in V /\ (g[k].fate = "running" => DecodedBy(g[k], words, k))}
<1>11. 0 \in S
  <2>1. g[0] = NoKac
    BY <1>1, <1>9
  <2> QED BY <1>1, <1>2, <2>1
<1>12. ASSUME NEW k \in 0 .. n, k \in S, k < n
       PROVE  k + 1 \in S
  <2>1. k + 1 \in 1 .. n /\ k + 1 \in 0 .. n /\ k + 1 # 0 /\ (k + 1) - 1 = k /\ k \in Nat
    BY <1>1, <1>12
  <2>2. g[k + 1] = Decode(g[k], words[k + 1])
    BY <1>9, <2>1
  <2>3. g[k] \in KacOf(words) /\ (g[k].fate = "running" => DecodedBy(g[k], words, k))
    BY <1>12 DEF V
  <2>4. Decode(g[k], words[k + 1]) \in V
    BY <1>1, <2>1, <2>3, DecodeKeeps DEF V
  <2>5. k + 1 <= Len(words)
    BY <2>1
  <2>6. Decode(g[k], words[k + 1]).fate = "running" => DecodedBy(Decode(g[k], words[k + 1]), words, k + 1)
    BY <2>1, <2>3, <2>5, DecodeStep
  <2> QED BY <2>1, <2>2, <2>4, <2>6
<1>13. n \in S
  <2> HIDE DEF S
  <2>1. \A k \in 0 .. n : k \in S
    BY <1>1, <1>11, <1>12, UpTo
  <2> QED BY <1>1, <2>1
<1> QED BY <1>7, <1>13

\* What is decoded of a file without an assertion is what the reference says.
LEMMA MetaDecodes ==
    ASSUME NEW npdm, NpdmFile(npdm), SetKac(Capabilities(npdm)).fate = "running"
    PROVE  MetaIsDecoded(npdm, MetaOf(npdm))
<1>1. ASSUME NEW at, NEW section \in KacSection
      PROVE  \E X : WordsOf(npdm, at, section) \in Seq(X)
  <2>1. section.size \in Nat
    BY DEF KacSection
  <2>2. section.size \div 4 \in Nat
    BY <2>1
  <2>3. PICK n \in Nat : n = section.size \div 4
    BY <2>2
  <2>4. PICK w : w = WordsOf(npdm, at, section)
    OBVIOUS
  <2>5. w = <<>> \/ w = [i \in 1 .. n |-> w[i]]
    BY <2>3, <2>4 DEF WordsOf
  <2>8. PICK X : X = {w[i] : i \in 1 .. n}
    OBVIOUS
  <2>6. w = <<>> \/ w \in [1 .. n -> X]
    BY <2>5, <2>8
  <2>9. <<>> \in Seq(X) /\ [1 .. n -> X] \subseteq Seq(X)
    OBVIOUS
  <2>7. w \in Seq(X)
    BY <2>6, <2>9
  <2> QED BY <2>4, <2>7
<1>2. PICK a, b : a = WordsOf(npdm, AcidEnd, npdm.acid) /\ b = WordsOf(npdm, AciEnd(npdm), npdm.aci)
  OBVIOUS
<1>3. PICK A : a \in Seq(A)
  BY <1>1, <1>2 DEF NpdmFile
<1>4. PICK B : b \in Seq(B)
  BY <1>1, <1>2 DEF NpdmFile
<1>5. PICK words : words = a \o b
  OBVIOUS
<1>6. words \in Seq(A \cup B)
  <2>1. a \in Seq(A \cup B) /\ b \in Seq(A \cup B)
    BY <1>3, <1>4
  <2> QED BY <1>5, <2>1
<1>7. words = Capabilities(npdm)
  BY <1>2, <1>5 DEF Capabilities
<1>8. PICK kac : kac = SetKac(words)
  OBVIOUS
<1>9. DecodedBy(kac, words, Len(words))
  BY <1>6, <1>7, <1>8, SetKacDecodes
<1>10. PICK meta : meta = [allowed |-> kac.allowed, priorities |-> kac.priorities]
  OBVIOUS
<1>11. MetaOf(npdm) = meta
  BY <1>7, <1>8, <1>10 DEF MetaOf
<1>12. \A p : \A i \in OfPattern(words, p) : i \in Nat /\ i <= Len(words)
  BY <1>6 DEF OfPattern, InForce
<1>13. ASSUME NEW c \in 0 .. Calls - 1
       PROVE  /\ c \in DOMAIN meta.allowed <=> Starts(words, c) # {}
              /\ Starts(words, c) # {} => (meta.allowed[c] <=> CallBit(c) \in words[Min(Starts(words, c))])
  <2>1. Starts(words, c) \subseteq Nat /\ \A i \in Starts(words, c) : i <= Len(words)
    BY <1>12 DEF Starts
  <2>2. CASE c \in DOMAIN kac.allowed
    <3>1. PICK m \in Starts(words, c) :
             /\ \A i \in Starts(words, c) : m <= i
             /\ kac.allowed[c] <=> CallBit(c) \in words[m]
      BY <1>9, <2>2 DEF DecodedBy, AllowsBy
    <3>2. Min(Starts(words, c)) = m
      BY <2>1, <3>1 DEF Min
    <3> QED BY <1>10, <2>2, <3>1, <3>2
  <2>3. CASE c \notin DOMAIN kac.allowed
    <3>1. \A i \in Starts(words, c) : i > Len(words)
      BY <1>9, <2>3 DEF DecodedBy, AllowsBy
    <3>2. Len(words) \in Nat
      BY <1>6
    <3>3. Starts(words, c) = {}
      BY <2>1, <3>1, <3>2
    <3> QED BY <1>10, <2>3, <3>3
  <2> QED BY <2>2, <2>3
<1>14. ASSUME OfPattern(words, 3) # {}
       PROVE  meta.priorities = PrioritiesOf(words[Max(OfPattern(words, 3))])
  <2>1. Len(words) \in Nat /\ \A i \in OfPattern(words, 3) : i \in Nat /\ i <= Len(words) /\ ~(i > Len(words))
    BY <1>6, <1>12
  <2>2. PICK m \in OfPattern(words, 3) : /\ \A i \in OfPattern(words, 3) : i <= m
                                         /\ kac.priorities = PrioritiesOf(words[m])
    BY <1>9, <1>14, <2>1 DEF DecodedBy, PrioritiesBy
  <2>3. Max(OfPattern(words, 3)) = m
    BY <2>1, <2>2 DEF Max
  <2> QED BY <1>10, <2>2, <2>3
<1> QED BY <1>2, <1>5, <1>11, <1>13, <1>14 DEF MetaIsDecoded, Starts
-----------------------------------------------------------------------------
(* The archives of a cartridge. *)

\* What the constructor can have found: a view's number is the least or the
\* greatest of some.
Places == {Min(S) : S \in SUBSET Nat} \cup {Max(S) : S \in SUBSET Nat}
Views(archives) == {NoView} \cup (DOMAIN archives) \X Places
FoundOf(archives) ==
    [exefs : Views(archives), logo : Views(archives), romfs : Views(archives), control : Views(archives),
     metas : Nat, fate : {"running", "exception", "assertion", "null pointer"}]

\* A view that is kept is of the first archive in T, of the first n.
IsFirst(view, T, n) ==
    IF view = NoView THEN \A i \in T : i > n
    ELSE \E m \in T : m <= n /\ view[1] = m /\ \A i \in T : m <= i

OfType(archives, type) == {i \in DOMAIN archives : archives[i].type = type}
WithExefs(archives) == {i \in OfType(archives, "Program") : HasExefs(archives[i])}
WithRomFs(archives, type) == {i \in OfType(archives, type) : HasRomFs(archives[i])}

\* The constructor's loop after n archives.
FoundBy(found, archives, n) ==
    /\ IsFirst(found.exefs, WithExefs(archives), n)
    /\ IsFirst(found.romfs, WithRomFs(archives, "Program"), n)
    /\ IsFirst(found.control, WithRomFs(archives, "Control"), n)
    /\ found.logo # NoView => found.logo # found.exefs /\ found.logo[1] <= n

\* One archive more: the view stays, or is of that archive if it is in T.
LEMMA FirstStep ==
    ASSUME NEW T \in SUBSET Nat, NEW n \in Nat, NEW view, NEW next, IsFirst(view, T, n),
           view # NoView => next = view,
           view = NoView => IF n + 1 \in T THEN next # NoView /\ next[1] = n + 1 ELSE next = NoView
    PROVE  IsFirst(next, T, n + 1)
<1>1. CASE view # NoView
  <2>1. PICK m \in T : m <= n /\ view[1] = m /\ \A i \in T : m <= i
    BY <1>1 DEF IsFirst
  <2>2. m <= n + 1
    BY <2>1
  <2> QED BY <1>1, <2>1, <2>2 DEF IsFirst
<1>2. CASE view = NoView
  <2>1. \A i \in T : i \in Nat /\ i > n
    BY <1>2 DEF IsFirst
  <2>2. CASE n + 1 \in T
    <3>1. \A i \in T : n + 1 <= i
      BY <2>1
    <3>2. n + 1 <= n + 1
      OBVIOUS
    <3> QED BY <1>2, <2>2, <3>1, <3>2 DEF IsFirst
  <2>3. CASE n + 1 \notin T
    <3>1. \A i \in T : i > n + 1
      BY <2>1, <2>3
    <3> QED BY <1>2, <2>3, <3>1 DEF IsFirst
  <2> QED BY <2>2, <2>3
<1> QED BY <1>1, <1>2

\* The views of an archive.
LEMMA ArchiveViews ==
    ASSUME NEW archive \in CardArchive
    PROVE  /\ \A fs : Numbers(archive, fs) \subseteq Nat
           /\ HasExefs(archive) <=> \E i \in Partitions(archive) : archive.views[i].exefs
<1>1. archive.views \in Seq(ViewRecord)
  BY DEF CardArchive
<1>2. DOMAIN archive.views \subseteq Nat /\ \A i \in DOMAIN archive.views : archive.views[i] \in ViewRecord
  BY <1>1
<1>3. \A i \in DOMAIN archive.views : archive.views[i].exefs => archive.views[i].fs = "PartitionFs"
  BY <1>2 DEF ViewRecord
<1> QED BY <1>2, <1>3 DEF Numbers, Partitions, HasExefs

\* A set of naturals has its Min.
LEMMA MinIn ==
    ASSUME NEW S \in SUBSET Nat, S # {}
    PROVE  Min(S) \in S
<1>1. \E x \in S : \A y \in S : x <= y
  BY LeastNatural
<1> QED BY <1>1 DEF Min

\* A member that is no greater than another is the Min.
LEMMA MinIs ==
    ASSUME NEW S \in SUBSET Nat, NEW m \in S, \A i \in S : m <= i
    PROVE  Min(S) = m
<1>1. Min(S) \in S /\ \A i \in S : Min(S) <= i
  BY DEF Min
<1>2. Min(S) \in Nat /\ m \in Nat /\ m <= Min(S) /\ Min(S) <= m
  BY <1>1
<1> QED BY <1>2

\* What is taken of a program's archive.
LEMMA ExefsTaken ==
    ASSUME NEW archive \in CardArchive, NEW n \in Nat \ {0}, NEW found
    PROVE  /\ found.exefs # NoView => ExefsOf(found, archive, n) = found.exefs
           /\ found.exefs = NoView =>
                 IF HasExefs(archive) THEN ExefsOf(found, archive, n) \in {n} \X Places ELSE ExefsOf(found, archive, n) = NoView
<1>1. PICK fit : fit = {i \in Partitions(archive) : archive.views[i].exefs}
  OBVIOUS
<1>2. fit \in SUBSET Nat /\ (HasExefs(archive) <=> fit # {})
  BY <1>1, ArchiveViews DEF Partitions
<1>3. Min(fit) \in Places
  BY <1>2 DEF Places
<1>4. ExefsOf(found, archive, n) = IF found.exefs # NoView \/ fit = {} THEN found.exefs ELSE <<n, Min(fit)>>
  BY <1>1 DEF ExefsOf
<1>5. <<n, Min(fit)>> \in {n} \X Places
  BY <1>3
<1>6. CASE found.exefs # NoView
  BY <1>4, <1>6
<1>7. CASE found.exefs = NoView
  BY <1>2, <1>4, <1>5, <1>7
<1> QED BY <1>6, <1>7

\* The logo is of a partition that did not become the program's file system.
LEMMA LogoTaken ==
    ASSUME NEW archive \in CardArchive, NEW n \in Nat \ {0}, NEW found
    PROVE  \/ LogoOf(found, archive, n) = NoView
           \/ /\ LogoOf(found, archive, n) \in {n} \X Places
              /\ found.exefs = NoView => LogoOf(found, archive, n) # ExefsOf(found, archive, n)
<1>1. PICK left : left = {i \in Partitions(archive) : found.exefs # NoView \/ ExefsOf(found, archive, n) # <<n, i>>}
  OBVIOUS
<1>2. left \in SUBSET Nat
  BY <1>1, ArchiveViews DEF Partitions
<1>3. LogoOf(found, archive, n) = IF left = {} THEN NoView ELSE <<n, Min(left)>>
  BY <1>1 DEF LogoOf
<1>4. Min(left) \in Places
  BY <1>2 DEF Places
<1>5. left # {} => Min(left) \in left
  BY <1>2, MinIn
<1> QED BY <1>1, <1>3, <1>4, <1>5

\* The RomFS that comes last, if there is one.
LEMMA RomFsTaken ==
    ASSUME NEW archive \in CardArchive, NEW n
    PROVE  IF HasRomFs(archive) THEN RomFsOf(archive, n) \in {n} \X Places ELSE RomFsOf(archive, n) = NoView
<1>1. Max(Numbers(archive, "RomFs")) \in Places
  BY ArchiveViews DEF Places
<1> QED BY <1>1 DEF RomFsOf, HasRomFs

\* A place in an archive is none that was not found.
LEMMA PlaceIsView ==
    ASSUME NEW archives, NEW n \in DOMAIN archives, n \in Nat \ {0}, NEW view \in {n} \X Places
    PROVE  view \in Views(archives) /\ view # NoView /\ view[1] = n
BY DEF Views, NoView

\* The loop's body keeps the types.
LEMMA ListNcaKeeps ==
    ASSUME NEW archives \in Seq(CardArchive), NEW n \in DOMAIN archives, NEW found \in FoundOf(archives)
    PROVE  ListNca(found, archives[n], n) \in FoundOf(archives)
<1>1. PICK archive : archive = archives[n]
  OBVIOUS
<1>2. archive \in CardArchive /\ n \in Nat \ {0}
  BY <1>1
<1>3. PICK V : V = Views(archives)
  OBVIOUS
<1>4. /\ found.exefs \in V /\ found.logo \in V /\ found.romfs \in V /\ found.control \in V /\ NoView \in V
      /\ found.metas \in Nat
  BY <1>3 DEF FoundOf, Views
<1>5. \A view \in {n} \X Places : view \in V
  BY <1>2, <1>3, PlaceIsView
<1>6. ExefsOf(found, archive, n) \in V
  BY <1>2, <1>4, <1>5, ExefsTaken
<1>7. LogoOf(found, archive, n) \in V /\ RomFsOf(archive, n) \in V
  BY <1>2, <1>4, <1>5, LogoTaken, RomFsTaken
<1>8. [found EXCEPT !.fate = ArchiveFate(archive)] \in FoundOf(archives)
  <2>1. ArchiveFate(archive) \in {"running", "exception", "assertion", "null pointer"}
    BY DEF ArchiveFate
  <2> QED BY <2>1 DEF FoundOf
<1>9. ASSUME NEW e \in V, NEW l \in V, NEW r \in V
      PROVE  [found EXCEPT !.exefs = e, !.logo = l, !.romfs = r] \in FoundOf(archives)
  BY <1>3 DEF FoundOf
<1>10. \A a, b \in V : First(a, b) \in V
  BY DEF First
<1>11. [found EXCEPT !.exefs = ExefsOf(found, archive, n), !.logo = First(@, LogoOf(found, archive, n)),
                     !.romfs = First(@, RomFsOf(archive, n))] \in FoundOf(archives)
  BY <1>4, <1>6, <1>7, <1>9, <1>10
<1>12. [found EXCEPT !.control = First(@, RomFsOf(archive, n))] \in FoundOf(archives)
  <2>1. First(found.control, RomFsOf(archive, n)) \in V
    BY <1>4, <1>7, <1>10
  <2> QED BY <1>3, <2>1 DEF FoundOf
<1>13. [found EXCEPT !.metas = @ + 1] \in FoundOf(archives)
  <2>1. PICK m \in Nat : m = found.metas + 1
    BY <1>4
  <2>2. [found EXCEPT !.metas = m] \in FoundOf(archives)
    BY DEF FoundOf
  <2> QED BY <2>1, <2>2
<1> QED BY <1>1, <1>8, <1>11, <1>12, <1>13, Zenon DEF ListNca

\* The loop's body: what is found is still the first of its kind.
LEMMA ListNcaStep ==
    ASSUME NEW archives \in Seq(CardArchive), NEW n \in Nat, n + 1 \in DOMAIN archives,
           NEW found \in FoundOf(archives), found.fate = "running" => FoundBy(found, archives, n)
    PROVE  ListNca(found, archives[n + 1], n + 1).fate = "running" =>
              FoundBy(ListNca(found, archives[n + 1], n + 1), archives, n + 1)
<1>1. PICK archive : archive = archives[n + 1]
  OBVIOUS
<1>2. PICK next : next = ListNca(found, archive, n + 1)
  OBVIOUS
<1>3. archive \in CardArchive /\ n + 1 \in Nat \ {0}
  BY <1>1
<1>4. SUFFICES ASSUME next.fate = "running" PROVE FoundBy(next, archives, n + 1)
  BY <1>1, <1>2
<1>5. PICK E, R, C : /\ E = WithExefs(archives) /\ R = WithRomFs(archives, "Program")
                     /\ C = WithRomFs(archives, "Control")
  OBVIOUS
<1>6. /\ E \in SUBSET Nat /\ R \in SUBSET Nat /\ C \in SUBSET Nat
      /\ n + 1 \in E <=> archive.type = "Program" /\ HasExefs(archive)
      /\ n + 1 \in R <=> archive.type = "Program" /\ HasRomFs(archive)
      /\ n + 1 \in C <=> archive.type = "Control" /\ HasRomFs(archive)
  <2>1. DOMAIN archives \subseteq Nat
    OBVIOUS
  <2> QED BY <1>1, <1>5, <2>1 DEF WithExefs, WithRomFs, OfType
<1>7. CASE found.fate # "running"
  <2>1. next = found
    BY <1>2, <1>7 DEF ListNca
  <2> QED BY <1>4, <1>7, <2>1
<1>8. CASE found.fate = "running"
  <2>1. /\ IsFirst(found.exefs, E, n) /\ IsFirst(found.romfs, R, n) /\ IsFirst(found.control, C, n)
        /\ found.logo # NoView => found.logo # found.exefs /\ found.logo[1] <= n
    BY <1>5, <1>8 DEF FoundBy
  <2>2. found.logo \in Views(archives)
    BY DEF FoundOf
  <2>3. found.logo # NoView => found.logo[1] \in Nat
    BY <2>2 DEF Views, NoView
  <2>4. found.logo # NoView => found.logo[1] <= n + 1
    BY <2>1, <2>3
  <2>5. ASSUME ~(archive.type = "Program" /\ HasExefs(archive)) \/ found.exefs # NoView
        PROVE  IsFirst(found.exefs, E, n + 1)
    BY <1>6, <2>1, <2>5, FirstStep
  <2>6. ASSUME ~(archive.type = "Program" /\ HasRomFs(archive)) \/ found.romfs # NoView
        PROVE  IsFirst(found.romfs, R, n + 1)
    BY <1>6, <2>1, <2>6, FirstStep
  <2>7. ASSUME ~(archive.type = "Control" /\ HasRomFs(archive)) \/ found.control # NoView
        PROVE  IsFirst(found.control, C, n + 1)
    BY <1>6, <2>1, <2>7, FirstStep
  <2>8. CASE Complete(found)
    <3>1. next = found
      BY <1>2, <2>8 DEF ListNca
    <3>2. found.exefs # NoView /\ found.romfs # NoView /\ found.control # NoView
      BY <2>8 DEF Complete
    <3> QED BY <1>5, <2>1, <2>4, <2>5, <2>6, <2>7, <3>1, <3>2 DEF FoundBy
  <2>9. CASE ~Complete(found)
    <3>1. ArchiveFate(archive) = "running"
      <4>1. SUFFICES ASSUME ArchiveFate(archive) # "running" PROVE FALSE
        OBVIOUS
      <4>2. next = [found EXCEPT !.fate = ArchiveFate(archive)]
        BY <1>2, <1>8, <2>9, <4>1 DEF ListNca
      <4> QED BY <1>4, <4>1, <4>2 DEF FoundOf
    <3>2. CASE archive.type = "Program"
      <4>1. PICK e, l, r : /\ e = ExefsOf(found, archive, n + 1)
                           /\ l = First(found.logo, LogoOf(found, archive, n + 1))
                           /\ r = First(found.romfs, RomFsOf(archive, n + 1))
        OBVIOUS
      <4>2. next = [found EXCEPT !.exefs = e, !.logo = l, !.romfs = r]
        BY <1>2, <1>8, <2>9, <3>1, <3>2, <4>1 DEF ListNca
      <4>3. /\ next.exefs = e /\ next.logo = l /\ next.romfs = r /\ next.control = found.control
        BY <4>2 DEF FoundOf
      <4>4. \A view \in {n + 1} \X Places : view # NoView /\ view[1] = n + 1
        BY DEF NoView
      <4>5. IsFirst(e, E, n + 1)
        <5>1. /\ found.exefs # NoView => e = found.exefs
              /\ found.exefs = NoView => IF n + 1 \in E THEN e # NoView /\ e[1] = n + 1 ELSE e = NoView
          BY <1>3, <1>6, <3>2, <4>1, <4>4, ExefsTaken
        <5> QED BY <1>6, <2>1, <5>1, FirstStep
      <4>6. IsFirst(r, R, n + 1)
        <5>1. /\ found.romfs # NoView => r = found.romfs
              /\ found.romfs = NoView => IF n + 1 \in R THEN r # NoView /\ r[1] = n + 1 ELSE r = NoView
          BY <1>3, <1>6, <3>2, <4>1, <4>4, RomFsTaken DEF First
        <5> QED BY <1>6, <2>1, <5>1, FirstStep
      <4>7. IsFirst(found.control, C, n + 1)
        BY <2>7, <3>2
      <4>8. found.exefs # NoView => e = found.exefs /\ e[1] \in Nat /\ e[1] <= n
        <5>1. found.exefs # NoView => e = found.exefs
          BY <1>3, <4>1, ExefsTaken
        <5>2. found.exefs # NoView => \E m \in E : m <= n /\ found.exefs[1] = m
          BY <2>1 DEF IsFirst
        <5> QED BY <1>6, <5>1, <5>2
      <4>9. l # NoView => l # e /\ l[1] <= n + 1
        <5>1. CASE found.logo # NoView
          <6>1. l = found.logo
            BY <4>1, <5>1 DEF First
          <6>2. found.exefs = NoView => e = NoView \/ e[1] = n + 1
            BY <1>3, <4>1, <4>4, ExefsTaken
          <6>3. l # e
            <7>1. CASE found.exefs # NoView
              BY <2>1, <4>8, <5>1, <6>1, <7>1
            <7>2. CASE found.exefs = NoView
              <8>1. l[1] \in Nat /\ l[1] <= n
                BY <2>1, <2>3, <5>1, <6>1
              <8>2. l[1] # n + 1
                BY <8>1
              <8> QED BY <5>1, <6>1, <6>2, <7>2, <8>2
            <7> QED BY <7>1, <7>2
          <6> QED BY <2>4, <5>1, <6>1, <6>3
        <5>2. CASE found.logo = NoView
          <6>1. l = LogoOf(found, archive, n + 1)
            BY <4>1, <5>2 DEF First
          <6>2. l = NoView \/ (l \in {n + 1} \X Places /\ (found.exefs = NoView => l # e))
            BY <1>3, <4>1, <6>1, LogoTaken
          <6>3. n + 1 <= n + 1 /\ \A x \in Nat : x <= n => x # n + 1
            OBVIOUS
          <6>4. l # NoView => l[1] = n + 1
            BY <4>4, <6>2
          <6> QED BY <4>8, <6>2, <6>3, <6>4
        <5> QED BY <5>1, <5>2
      <4> QED BY <1>5, <4>3, <4>5, <4>6, <4>7, <4>9 DEF FoundBy
    <3>3. CASE archive.type = "Control"
      <4>1. PICK c : c = First(found.control, RomFsOf(archive, n + 1))
        OBVIOUS
      <4>2. next = [found EXCEPT !.control = c]
        BY <1>2, <1>8, <2>9, <3>1, <3>3, <4>1 DEF ListNca
      <4>3. /\ next.exefs = found.exefs /\ next.logo = found.logo /\ next.romfs = found.romfs
            /\ next.control = c
        BY <4>2 DEF FoundOf
      <4>4. IsFirst(c, C, n + 1)
        <5>1. /\ found.control # NoView => c = found.control
              /\ found.control = NoView => IF n + 1 \in C THEN c # NoView /\ c[1] = n + 1 ELSE c = NoView
          <6>1. \A view \in {n + 1} \X Places : view # NoView /\ view[1] = n + 1
            BY DEF NoView
          <6> QED BY <1>3, <1>6, <3>3, <4>1, <6>1, RomFsTaken DEF First
        <5> QED BY <1>6, <2>1, <5>1, FirstStep
      <4> QED BY <1>5, <2>1, <2>4, <2>5, <2>6, <3>3, <4>3, <4>4 DEF FoundBy
    <3>4. CASE archive.type \notin {"Program", "Control"}
      <4>1. next \in {found, [found EXCEPT !.metas = @ + 1]}
        BY <1>2, <1>8, <2>9, <3>1, <3>4 DEF ListNca
      <4>2. /\ next.exefs = found.exefs /\ next.logo = found.logo /\ next.romfs = found.romfs
            /\ next.control = found.control
        BY <4>1 DEF FoundOf
      <4> QED BY <1>5, <2>1, <2>4, <2>5, <2>6, <2>7, <3>4, <4>2 DEF FoundBy
    <3> QED BY <3>2, <3>3, <3>4
  <2> QED BY <2>8, <2>9
<1> QED BY <1>7, <1>8

\* The archives of all partitions are archives.
LEMMA FlattenIn ==
    ASSUME NEW S, NEW seqs \in Seq(Seq(S))
    PROVE  FlattenSeq(seqs) \in Seq(S)
<1> DEFINE n == Len(seqs)
           step == [i \in 1 .. n |-> [s \in Seq(S) |-> s \o seqs[i]]]
           Turn(f, i) == IF i = 1 THEN seqs[i] ELSE f[i - 1] \o seqs[i]
           g == CHOOSE f : f = [i \in 1 .. Len(seqs) |-> Turn(f, i)]
<1>1. n \in Nat /\ \A i \in 1 .. n : seqs[i] \in Seq(S)
  BY ElementOfSeq
<1>2. CASE n = 0
  <2>1. FlattenSeq(seqs) = seqs /\ seqs = <<>>
    BY <1>2 DEF FlattenSeq
  <2> QED BY <2>1
<1>3. CASE n # 0
  <2>1. FlattenSeq(seqs) = g[n]
    BY <1>3 DEF FlattenSeq
  <2>2. step \in [1 .. n -> [Seq(S) -> Seq(S)]]
    <3>1. \A i \in 1 .. n : \A s \in Seq(S) : s \o seqs[i] \in Seq(S)
      BY <1>1
    <3> QED BY <3>1
  <2>3. PICK h : Rounds(h, n, Seq(S), <<>>, step)
    <3>1. <<>> \in Seq(S)
      OBVIOUS
    <3> HIDE DEF step, n
    <3> QED BY <1>1, <2>2, <3>1, RoundsExist
  <2>4. /\ h \in [0 .. n -> Seq(S)] /\ h[0] = <<>>
        /\ \A i \in 1 .. n : h[i] = step[i][h[i - 1]]
    BY <2>3 DEF Rounds
  <2>5. \A i \in 1 .. n : i - 1 \in 0 .. n /\ i \in 0 .. n /\ (i # 1 => i - 1 \in 1 .. n)
    BY <1>1
  <2>6. \A i \in 1 .. n : h[i] = h[i - 1] \o seqs[i] /\ h[i] \in Seq(S)
    BY <2>4, <2>5
  <2>7. PICK k : k = [i \in 1 .. n |-> h[i]]
    OBVIOUS
  <2>8. \A i \in 1 .. n : k[i] = Turn(k, i)
    <3> SUFFICES ASSUME NEW i \in 1 .. n PROVE k[i] = Turn(k, i)
      OBVIOUS
    <3>1. CASE i = 1
      <4>1. <<>> \o seqs[i] = seqs[i]
        BY <1>1, ConcatEmptySeq
      <4>2. i - 1 = 0
        BY <3>1
      <4>3. h[i] = seqs[i]
        BY <2>4, <2>6, <4>1, <4>2
      <4> QED BY <2>7, <3>1, <4>3
    <3>2. CASE i # 1
      BY <2>5, <2>6, <2>7, <3>2
    <3> QED BY <3>1, <3>2
  <2>9. k = [i \in 1 .. Len(seqs) |-> Turn(k, i)]
    <3> HIDE DEF Turn
    <3> QED BY <2>7, <2>8
  <2>10. g = [i \in 1 .. n |-> Turn(g, i)]
    <3> HIDE DEF Turn
    <3> QED BY <2>9
  <2> HIDE DEF g
  <2>11. DEFINE T == {i \in 0 .. n : i = 0 \/ g[i] = h[i]}
  <2>12. 0 \in T
    BY <1>1
  <2>13. ASSUME NEW i \in 0 .. n, i \in T, i < n
         PROVE  i + 1 \in T
    <3>1. i + 1 \in 1 .. n /\ i + 1 \in 0 .. n /\ (i + 1) - 1 = i /\ (i + 1 = 1 <=> i = 0)
      BY <1>1, <2>13
    <3>2. g[i + 1] = IF i + 1 = 1 THEN seqs[i + 1] ELSE g[i] \o seqs[i + 1]
      BY <2>10, <3>1
    <3>3. h[i + 1] = h[i] \o seqs[i + 1]
      BY <2>6, <3>1
    <3>4. CASE i = 0
      <4>1. <<>> \o seqs[i + 1] = seqs[i + 1]
        BY <1>1, <3>1, ConcatEmptySeq
      <4> QED BY <2>4, <3>1, <3>2, <3>3, <3>4, <4>1
    <3>5. CASE i # 0
      BY <2>13, <3>1, <3>2, <3>3, <3>5
    <3> QED BY <3>4, <3>5
  <2>14. n \in T
    <3> HIDE DEF T
    <3>1. \A i \in 0 .. n : i \in T
      BY <1>1, <2>12, <2>13, UpTo
    <3> QED BY <1>1, <3>1
  <2>15. n \in 1 .. n
    BY <1>1, <1>3
  <2> QED BY <1>3, <2>1, <2>6, <2>14, <2>15
<1> QED BY <1>2, <1>3

\* What the constructor finds in the archives.
LEMMA CardFinds ==
    ASSUME NEW card \in CardFile, CardOf(card).fate = "running"
    PROVE  /\ ArchivesOf(card) \in Seq(CardArchive) /\ CardOf(card) \in FoundOf(ArchivesOf(card))
           /\ FoundBy(CardOf(card), ArchivesOf(card), Len(ArchivesOf(card)))
<1> DEFINE archives == ArchivesOf(card)
           n == Len(archives)
           V == FoundOf(archives)
           step == [i \in 1 .. n |-> [k \in V |-> ListNca(k, archives[i], i)]]
           Turn(f, i) == IF i = 0 THEN NothingFound ELSE ListNca(f[i - 1], archives[i], i)
<1>0. archives \in Seq(CardArchive)
  <2>1. card.partitions \in Seq(Seq(CardArchive))
    BY DEF CardFile
  <2> QED BY <2>1, FlattenIn DEF ArchivesOf
<1>1. n \in Nat /\ DOMAIN archives = 1 .. n
  BY <1>0
<1>2. NothingFound \in V /\ FoundBy(NothingFound, archives, 0)
  <2>1. NothingFound \in V
    BY DEF FoundOf, NothingFound, Views
  <2>2. ASSUME NEW T, T \subseteq DOMAIN archives
        PROVE  IsFirst(NoView, T, 0)
    BY <1>1, <2>2 DEF IsFirst
  <2>3. /\ WithExefs(archives) \subseteq DOMAIN archives
        /\ \A type : WithRomFs(archives, type) \subseteq DOMAIN archives
    BY DEF WithExefs, WithRomFs, OfType
  <2> QED BY <2>1, <2>2, <2>3 DEF FoundBy, NothingFound
<1>3. step \in [1 .. n -> [V -> V]]
  <2>1. \A i \in 1 .. n : \A k \in V : ListNca(k, archives[i], i) \in V
    BY <1>0, <1>1, ListNcaKeeps
  <2> HIDE DEF V
  <2> QED BY <2>1
<1>4. PICK h : Rounds(h, n, V, NothingFound, step)
  <2> HIDE DEF V, step
  <2> QED BY <1>1, <1>2, <1>3, RoundsExist
<1>5. /\ h \in [0 .. n -> V] /\ h[0] = NothingFound
      /\ \A i \in 1 .. n : h[i] = ListNca(h[i - 1], archives[i], i)
  <2>1. /\ h \in [0 .. n -> V] /\ h[0] = NothingFound
        /\ \A i \in 1 .. n : h[i] = step[i][h[i - 1]]
    BY <1>4 DEF Rounds
  <2>2. \A i \in 1 .. n : i - 1 \in 0 .. n
    BY <1>1
  <2> HIDE DEF V
  <2> QED BY <2>1, <2>2
<1> HIDE DEF V, step
<1>6. \A i \in 0 .. n : h[i] = Turn(h, i)
  <2>1. \A i \in 0 .. n : i = 0 \/ i \in 1 .. n
    BY <1>1
  <2> QED BY <1>5, <2>1
<1> DEFINE g == CHOOSE f : f = [i \in 0 .. Len(archives) |-> Turn(f, i)]
<1>7. CardOf(card) = g[Len(archives)]
  <2>1. HeaderFate(card) = "running"
    <3>1. SUFFICES ASSUME HeaderFate(card) # "running" PROVE FALSE
      OBVIOUS
    <3>2. CardOf(card) = [NothingFound EXCEPT !.fate = HeaderFate(card)]
      BY <3>1 DEF CardOf
    <3> QED BY <3>1, <3>2 DEF NothingFound
  <2> QED BY <2>1 DEF CardOf
<1> HIDE DEF Turn
<1>8. h = [i \in 0 .. n |-> Turn(h, i)]
  BY <1>5, <1>6
<1>9. g = [i \in 0 .. n |-> Turn(g, i)]
  BY <1>8
<1> HIDE DEF g
<1> USE DEF Turn
<1>10. DEFINE S == {k \in 0 .. n : g[k] \in V /\ (g[k].fate = "running" => FoundBy(g[k], archives, k))}
<1>11. 0 \in S
  <2>1. g[0] = NothingFound
    BY <1>1, <1>9
  <2> QED BY <1>1, <1>2, <2>1
<1>12. ASSUME NEW k \in 0 .. n, k \in S, k < n
       PROVE  k + 1 \in S
  <2>1. k + 1 \in 1 .. n /\ k + 1 \in 0 .. n /\ k + 1 # 0 /\ (k + 1) - 1 = k /\ k \in Nat
    BY <1>1, <1>12
  <2>2. g[k + 1] = ListNca(g[k], archives[k + 1], k + 1)
    BY <1>9, <2>1
  <2>3. g[k] \in FoundOf(archives) /\ (g[k].fate = "running" => FoundBy(g[k], archives, k))
    BY <1>12 DEF V
  <2>4. ListNca(g[k], archives[k + 1], k + 1) \in V
    BY <1>0, <1>1, <2>1, <2>3, ListNcaKeeps DEF V
  <2>5. k + 1 \in DOMAIN archives
    BY <1>1, <2>1
  <2> HIDE DEF archives
  <2>6. ListNca(g[k], archives[k + 1], k + 1).fate = "running" =>
           FoundBy(ListNca(g[k], archives[k + 1], k + 1), archives, k + 1)
    BY <1>0, <2>1, <2>3, <2>5, ListNcaStep
  <2> QED BY <2>1, <2>2, <2>4, <2>6
<1>13. n \in S
  <2> HIDE DEF S
  <2>1. \A k \in 0 .. n : k \in S
    BY <1>1, <1>11, <1>12, UpTo
  <2> QED BY <1>1, <2>1
<1> QED BY <1>0, <1>7, <1>13 DEF V

\* A view that is the first is of the least member, or there is none.
LEMMA FirstIsMin ==
    ASSUME NEW n \in Nat, NEW T \in SUBSET (1 .. n), NEW view, IsFirst(view, T, n)
    PROVE  view[1] = IF T = {} THEN 0 ELSE Min(T)
<1>1. CASE view = NoView
  <2>1. T = {}
    BY <1>1 DEF IsFirst
  <2> QED BY <1>1, <2>1 DEF NoView
<1>2. CASE view # NoView
  <2>1. PICK m \in T : view[1] = m /\ \A i \in T : m <= i
    BY <1>2 DEF IsFirst
  <2>2. T \subseteq Nat
    OBVIOUS
  <2>3. Min(T) = m
    BY <2>1, <2>2, MinIs
  <2> QED BY <2>1, <2>3
<1> QED BY <1>1, <1>2

\* The program, its name and its icon are of the first archives that have them.
LEMMA CardFindsFirst ==
    ASSUME NEW card \in CardFile, CardOf(card).fate = "running"
    PROVE  /\ CardIsFirst(card, CardOf(card))
           /\ CardOf(card).exefs # NoView => CardOf(card).exefs[1] \in DOMAIN ArchivesOf(card)
<1>1. PICK archives : archives = ArchivesOf(card)
  OBVIOUS
<1>2. PICK found : found = CardOf(card)
  OBVIOUS
<1>3. archives \in Seq(CardArchive) /\ FoundBy(found, archives, Len(archives))
  BY <1>1, <1>2, CardFinds
<1>4. Len(archives) \in Nat /\ DOMAIN archives = 1 .. Len(archives)
  BY <1>3
<1>5. /\ WithExefs(archives) \in SUBSET (1 .. Len(archives))
      /\ \A type : WithRomFs(archives, type) \in SUBSET (1 .. Len(archives))
  BY <1>4 DEF WithExefs, WithRomFs, OfType
<1>6. /\ found.exefs[1] = (IF WithExefs(archives) = {} THEN 0 ELSE Min(WithExefs(archives)))
      /\ \A type : IsFirst(found.romfs, WithRomFs(archives, type), Len(archives)) =>
            found.romfs[1] = (IF WithRomFs(archives, type) = {} THEN 0 ELSE Min(WithRomFs(archives, type)))
      /\ \A type : IsFirst(found.control, WithRomFs(archives, type), Len(archives)) =>
            found.control[1] = (IF WithRomFs(archives, type) = {} THEN 0 ELSE Min(WithRomFs(archives, type)))
  BY <1>3, <1>4, <1>5, FirstIsMin DEF FoundBy
<1>7. FirstArchive(card, "Program", HasExefs) = IF WithExefs(archives) = {} THEN 0 ELSE Min(WithExefs(archives))
  <2>1. WithExefs(archives) = {n \in DOMAIN archives : archives[n].type = "Program" /\ HasExefs(archives[n])}
    BY DEF WithExefs, OfType
  <2> QED BY <1>1, <2>1 DEF FirstArchive
<1>8. \A type : FirstArchive(card, type, HasRomFs)
                = IF WithRomFs(archives, type) = {} THEN 0 ELSE Min(WithRomFs(archives, type))
  <2>1. \A type : WithRomFs(archives, type)
                  = {n \in DOMAIN archives : archives[n].type = type /\ HasRomFs(archives[n])}
    BY DEF WithRomFs, OfType
  <2> QED BY <1>1, <2>1 DEF FirstArchive
<1>9. CardIsFirst(card, found)
  BY <1>3, <1>6, <1>7, <1>8 DEF CardIsFirst, FoundBy
<1>10. found.exefs # NoView => found.exefs[1] \in DOMAIN archives
  <2>1. found.exefs # NoView => \E m \in WithExefs(archives) : found.exefs[1] = m
    BY <1>3 DEF FoundBy, IsFirst
  <2> QED BY <1>4, <1>5, <2>1
<1> QED BY <1>1, <1>2, <1>9, <1>10
-----------------------------------------------------------------------------
(* The modules of a program. *)

\* Division of naturals.
LEMMA Divides ==
    ASSUME NEW n \in Nat
    PROVE  /\ n \div NsoPage \in Nat /\ NsoPage * (n \div NsoPage) <= n
           /\ n < NsoPage * (n \div NsoPage) + NsoPage
BY NsoPageAssumption

\* Rounding up to pages does not go below.
LEMMA PageUpAbove ==
    ASSUME NEW n \in Nat
    PROVE  PageUp(n) \in Nat /\ n <= PageUp(n)
<1>1. n + NsoPage - 1 \in Nat
  BY NsoPageAssumption
<1>2. PICK m \in Nat : m = n + NsoPage - 1
  BY <1>1
<1>3. PICK d \in Nat : d = m \div NsoPage
  BY Divides
<1>4. m < NsoPage * d + NsoPage
  BY <1>3, Divides
<1>5. PICK q \in Nat : q = NsoPage * d
  BY NsoPageAssumption
<1>6. PageUp(n) = q
  BY <1>2, <1>3, <1>5, NsoPageAssumption DEF PageUp
<1> QED BY <1>2, <1>4, <1>5, <1>6, NsoPageAssumption

\* Rounding up keeps the order.
LEMMA PageUpOrder ==
    ASSUME NEW a \in Nat, NEW b \in Nat, a <= b
    PROVE  PageUp(a) <= PageUp(b)
<1> USE NsoPageAssumption
<1>1. PICK m, k \in Nat : m = a + NsoPage - 1 /\ k = b + NsoPage - 1
  OBVIOUS
<1>2. PICK d \in Nat : d = m \div NsoPage
  BY <1>1, Divides
<1>3. PICK e \in Nat : e = k \div NsoPage
  BY <1>1, Divides
<1>4. NsoPage * d <= m /\ k < NsoPage * e + NsoPage
  BY <1>1, <1>2, <1>3, Divides
<1>5. d <= e
  <2>1. SUFFICES ASSUME e + 1 <= d PROVE FALSE
    OBVIOUS
  <2>2. NsoPage * (e + 1) <= NsoPage * d
    BY <2>1
  <2>3. NsoPage * (e + 1) = NsoPage * e + NsoPage
    OBVIOUS
  <2> QED BY <1>1, <1>4, <2>2, <2>3
<1>6. d * NsoPage <= e * NsoPage
  BY <1>5
<1> QED BY <1>1, <1>2, <1>3, <1>6 DEF PageUp

\* Whole pages can be rounded up apart from the rest.
LEMMA PageUpAdds ==
    ASSUME NEW a \in Nat, NEW b \in Nat
    PROVE  PageUp(PageUp(a) + b) = PageUp(a) + PageUp(b)
<1> USE NsoPageAssumption
<1>1. PICK d \in Nat : PageUp(a) = d * NsoPage
  <2>1. PICK m \in Nat : m = a + NsoPage - 1
    OBVIOUS
  <2> QED BY <2>1, Divides DEF PageUp
<1>2. PICK k \in Nat : k = b + NsoPage - 1
  OBVIOUS
<1>3. PICK e \in Nat : e = k \div NsoPage
  BY Divides
<1>4. NsoPage * e <= k /\ k < NsoPage * e + NsoPage
  BY <1>3, Divides
<1>5. PICK q \in Nat : q = d * NsoPage
  OBVIOUS
<1>6. PICK f \in Nat : f = (q + k) \div NsoPage
  BY Divides
<1>7. NsoPage * f <= q + k /\ q + k < NsoPage * f + NsoPage
  BY <1>6, Divides
<1>8. f = d + e
  <2>1. NsoPage * (d + e) = NsoPage * d + NsoPage * e /\ NsoPage * d = q
    BY <1>5
  <2>2. CASE f > d + e
    <3>1. NsoPage * (d + e + 1) <= NsoPage * f
      BY <2>2
    <3>2. NsoPage * (d + e + 1) = NsoPage * (d + e) + NsoPage
      OBVIOUS
    <3> QED BY <1>4, <1>7, <2>1, <3>1, <3>2
  <2>3. CASE f < d + e
    <3>1. NsoPage * (f + 1) <= NsoPage * (d + e)
      BY <2>3
    <3>2. NsoPage * (f + 1) = NsoPage * f + NsoPage
      OBVIOUS
    <3> QED BY <1>4, <1>7, <2>1, <3>1, <3>2
  <2> QED BY <2>2, <2>3
<1>9. f * NsoPage = d * NsoPage + e * NsoPage
  BY <1>8
<1>10. q + b + NsoPage - 1 = q + k
  BY <1>2
<1> QED BY <1>1, <1>2, <1>3, <1>5, <1>6, <1>9, <1>10 DEF PageUp
-----------------------------------------------------------------------------
\* Sizes are naturals, and data follows the pages of the others.
LEMMA SizesIn ==
    ASSUME NEW nso, NsoAssumption(nso)
    PROVE  /\ \A i \in NsoSections : SizeOf(nso, i) \in Nat \ {0}
           /\ nso.sections[3].offset \in Nat /\ nso.bss \in Nat
           /\ nso.sections[3].offset >= PageUp(SizeOf(nso, 1)) + PageUp(SizeOf(nso, 2))
<1>1. \A i \in NsoSections : nso.sections[i] \in SectionRecord
  BY DEF NsoAssumption, NsoFile
<1>2. 3 \in NsoSections
  BY DEF NsoSections
<1> QED BY <1>1, <1>2 DEF NsoAssumption, NsoFile, SectionRecord, SizeOf

\* The data's pages hold the data.
LEMMA InitializedHolds ==
    ASSUME NEW nso, NsoAssumption(nso)
    PROVE  Initialized(nso) \in Nat /\ SizeOf(nso, 3) <= Initialized(nso)
<1>1. PICK s1, s2, s3 \in Nat : s1 = SizeOf(nso, 1) /\ s2 = SizeOf(nso, 2) /\ s3 = SizeOf(nso, 3)
  BY SizesIn DEF NsoSections
<1>2. PICK offset, bss \in Nat : offset = nso.sections[3].offset /\ bss = nso.bss
  BY SizesIn
<1>3. PICK p1, p2, p3 \in Nat : p1 = PageUp(s1) /\ p2 = PageUp(s2) /\ p3 = PageUp(s3)
  BY PageUpAbove
<1>4. offset >= p1 + p2
  BY <1>1, <1>2, <1>3, SizesIn
<1>5. PICK whole \in Nat : whole = PageUp(offset + s3 + bss)
  BY PageUpAbove
<1>6. p1 + p2 + p3 <= whole
  <2>1. PageUp(p2 + s3) = p2 + p3
    BY <1>3, PageUpAdds
  <2>2. PageUp(p1 + (p2 + s3)) = p1 + (p2 + p3)
    BY <1>3, <2>1, PageUpAdds
  <2>3. PageUp(p1 + (p2 + s3)) <= PageUp(offset + s3 + bss)
    BY <1>4, PageUpOrder
  <2> QED BY <1>5, <2>2, <2>3
<1>7. PICK rest \in Nat : rest = s3 + whole - p1 - p2 - p3
  BY <1>6
<1>8. s3 <= rest
  BY <1>6, <1>7
<1>9. Initialized(nso) = PageUp(rest)
  BY <1>1, <1>2, <1>3, <1>5, <1>7 DEF Initialized, CompleteImageSize, FileSize
<1> QED BY <1>1, <1>8, <1>9, PageUpAbove

\* The sections follow one another from the module's address to its end.
LEMMA SectionsFollow ==
    ASSUME NEW nso, NsoAssumption(nso), NEW v \in Nat
    PROVE  /\ \A i \in NsoSections : GuestAt(nso, v, i) \in Nat
           /\ GuestAt(nso, v, 1) = v
           /\ GuestAt(nso, v, 1) + SizeOf(nso, 1) <= GuestAt(nso, v, 2)
           /\ GuestAt(nso, v, 2) + SizeOf(nso, 2) <= GuestAt(nso, v, 3)
           /\ NsoEnd(nso, v) = IF NsoAccepted(nso) THEN GuestAt(nso, v, 3) + Initialized(nso) ELSE v
           /\ NsoEnd(nso, v) \in Nat /\ v <= NsoEnd(nso, v) /\ (NsoAccepted(nso) => v < NsoEnd(nso, v))
<1>1. PICK s1, s2 \in Nat \ {0} : s1 = SizeOf(nso, 1) /\ s2 = SizeOf(nso, 2)
  BY SizesIn DEF NsoSections
<1>2. PICK ro \in Nat : ro = PageUp(v + s1)
  BY PageUpAbove
<1>3. PICK data \in Nat : data = PageUp(ro + s2)
  BY PageUpAbove
<1>4. v + s1 <= ro /\ ro + s2 <= data
  BY <1>2, <1>3, PageUpAbove
<1>5. GuestAt(nso, v, 1) = v /\ GuestAt(nso, v, 2) = ro /\ GuestAt(nso, v, 3) = data
  BY <1>1, <1>2, <1>3 DEF GuestAt
<1>6. Initialized(nso) \in Nat
  BY InitializedHolds
<1>7. NsoEnd(nso, v) = IF NsoAccepted(nso) THEN data + Initialized(nso) ELSE v
  BY <1>5 DEF NsoEnd
<1>8. \A i \in NsoSections : i = 1 \/ i = 2 \/ i = 3
  BY DEF NsoSections
<1> QED BY <1>1, <1>4, <1>5, <1>6, <1>7, <1>8

\* What an accepted module copies lies between its address and its end, and an
\* address is in one of the sections only.
LEMMA SpansApart ==
    ASSUME NEW nso, NsoAssumption(nso), NEW v \in Nat, NsoAccepted(nso)
    PROVE  /\ \A i \in NsoSections : \A g \in Span(nso, v, i) : g \in Nat /\ v <= g /\ g < NsoEnd(nso, v)
           /\ \A i, j \in NsoSections : \A g \in Span(nso, v, i) : g \in Span(nso, v, j) => i = j
           /\ \A i \in NsoSections : \A k \in 0 .. SizeOf(nso, i) - 1 : GuestAt(nso, v, i) + k \in Span(nso, v, i)
<1>1. PICK s1, s2, s3 \in Nat \ {0} : s1 = SizeOf(nso, 1) /\ s2 = SizeOf(nso, 2) /\ s3 = SizeOf(nso, 3)
  BY SizesIn DEF NsoSections
<1>2. PICK ro, data \in Nat : ro = GuestAt(nso, v, 2) /\ data = GuestAt(nso, v, 3)
  BY SectionsFollow DEF NsoSections
<1>3. PICK rest \in Nat : rest = Initialized(nso)
  BY InitializedHolds
<1>4. v + s1 <= ro /\ ro + s2 <= data /\ s3 <= rest /\ GuestAt(nso, v, 1) = v /\ NsoEnd(nso, v) = data + rest
  BY <1>1, <1>2, <1>3, SectionsFollow, InitializedHolds
<1>5. /\ Span(nso, v, 1) = v .. v + s1 - 1 /\ Span(nso, v, 2) = ro .. ro + s2 - 1
      /\ Span(nso, v, 3) = data .. data + rest - 1
  BY <1>1, <1>2, <1>3, <1>4 DEF Span
<1>6. \A i \in NsoSections : i = 1 \/ i = 2 \/ i = 3
  BY DEF NsoSections
<1>7. \A i \in NsoSections : \A g \in Span(nso, v, i) : g \in Nat /\ v <= g /\ g < NsoEnd(nso, v)
  BY <1>4, <1>5, <1>6
<1>8. /\ \A g \in Span(nso, v, 1) : g < ro /\ g < data
      /\ \A g \in Span(nso, v, 2) : ro <= g /\ g < data
      /\ \A g \in Span(nso, v, 3) : data <= g /\ ro <= g
  BY <1>4, <1>5
<1>9. \A i, j \in NsoSections : \A g \in Span(nso, v, i) : g \in Span(nso, v, j) => i = j
  BY <1>6, <1>7, <1>8
<1>10. \A i \in NsoSections : \A k \in 0 .. SizeOf(nso, i) - 1 : GuestAt(nso, v, i) + k \in Span(nso, v, i)
  <2>1. \A k \in 0 .. s1 - 1 : v + k \in v .. v + s1 - 1
    OBVIOUS
  <2>2. \A k \in 0 .. s2 - 1 : ro + k \in ro .. ro + s2 - 1
    OBVIOUS
  <2>3. \A k \in 0 .. s3 - 1 : data + k \in data .. data + rest - 1
    BY <1>4
  <2> QED BY <1>1, <1>2, <1>4, <1>5, <1>6, <2>1, <2>2, <2>3
<1> QED BY <1>7, <1>9, <1>10

\* The byte at an offset into a section is the section's, of the data if the program
\* did not have to grow.
LEMMA ByteOfSection ==
    ASSUME NEW nso, NsoAssumption(nso), NEW n, NEW i \in NsoSections, i = 3 => ~Grows(nso),
           NEW k \in 0 .. SizeOf(nso, i) - 1
    PROVE  ProgramByte(nso, n, StartIn(nso, i) + k) = <<n, i, k>>
<1>1. PICK s1, s2, s3 \in Nat \ {0} : s1 = SizeOf(nso, 1) /\ s2 = SizeOf(nso, 2) /\ s3 = SizeOf(nso, 3)
  BY SizesIn DEF NsoSections
<1>2. CASE i = 1
  <2>1. StartIn(nso, i) = 0 /\ k \in 0 .. s1 - 1
    BY <1>1, <1>2 DEF StartIn
  <2>2. 0 + k = k /\ k < s1 /\ k - 0 = k
    BY <2>1
  <2> QED BY <1>1, <1>2, <2>1, <2>2 DEF ProgramByte
<1>3. CASE i = 2
  <2>1. StartIn(nso, i) = s1 /\ k \in 0 .. s2 - 1
    BY <1>1, <1>3 DEF StartIn
  <2>2. ~(s1 + k < s1) /\ s1 + k < s1 + s2 /\ (s1 + k) - s1 = k
    BY <2>1
  <2> QED BY <1>1, <1>3, <2>1, <2>2 DEF ProgramByte
<1>4. CASE i = 3
  <2>1. StartIn(nso, i) = s1 + s2 /\ k \in 0 .. s3 - 1
    BY <1>1, <1>4 DEF StartIn
  <2>2. ~(s1 + s2 + k < s1) /\ ~(s1 + s2 + k < s1 + s2) /\ s1 + s2 + k < s1 + s2 + s3 /\ (s1 + s2 + k) - (s1 + s2) = k
    BY <2>1
  <2> QED BY <1>1, <1>4, <2>1, <2>2 DEF ProgramByte
<1> QED BY <1>2, <1>3, <1>4 DEF NsoSections
-----------------------------------------------------------------------------
\* The greatest of a set.
LEMMA MaxIs ==
    ASSUME NEW S \in SUBSET Nat, NEW m \in S, \A i \in S : i <= m
    PROVE  Max(S) = m
<1>1. Max(S) \in S /\ \A i \in S : i <= Max(S)
  BY DEF Max
<1>2. Max(S) \in Nat /\ m \in Nat /\ m <= Max(S) /\ Max(S) <= m
  BY <1>1
<1> QED BY <1>2

\* A set with a bound has its Max.
LEMMA MaxIn ==
    ASSUME NEW n \in Nat, NEW S \in SUBSET (1 .. n), S # {}
    PROVE  Max(S) \in S
<1> DEFINE T == {k \in 0 .. n : n - k \in S}
<1>1. T \in SUBSET Nat /\ T # {}
  <2>1. PICK m \in S : TRUE
    OBVIOUS
  <2>2. n - m \in 0 .. n /\ n - (n - m) = m
    OBVIOUS
  <2>3. n - m \in T
    BY <2>2
  <2>4. T \in SUBSET Nat
    OBVIOUS
  <2> QED BY <2>3, <2>4
<1>2. PICK k \in T : \A j \in T : k <= j
  BY <1>1, LeastNatural
<1>3. n - k \in S /\ \A i \in S : i <= n - k
  <2>1. ASSUME NEW i \in S PROVE i <= n - k
    <3>1. i \in 1 .. n /\ n - i \in 0 .. n /\ n - (n - i) = i
      OBVIOUS
    <3>2. k <= n - i
      BY <1>2, <3>1
    <3> QED BY <3>1, <3>2
  <2> QED BY <2>1
<1>4. S \in SUBSET Nat
  OBVIOUS
<1>5. PICK m \in S : m = n - k
  BY <1>3
<1>6. Max(S) = m
  BY <1>3, <1>4, <1>5, MaxIs
<1> QED BY <1>6
-----------------------------------------------------------------------------
\* The modules one may be given, and the addresses of the loader's rounds.
AreModules(nsos) == nsos \in Seq(NsoFile) /\ \A n \in DOMAIN nsos : NsoAssumption(nsos[n])
Addresses(a, nsos, codeAddr) ==
    /\ a \in [1 .. Len(nsos) + 1 -> Nat] /\ a[1] = codeAddr
    /\ \A n \in DOMAIN nsos : a[n + 1] = NsoEnd(nsos[n], a[n])

\* The last module at each address.
PlanOf(a, nsos) == [v \in {a[n] : n \in DOMAIN nsos} |-> Max({n \in DOMAIN nsos : a[n] = v})]

\* ModulesAt has the last module at each of such addresses.
LEMMA ModulesAtIs ==
    ASSUME NEW nsos, AreModules(nsos), NEW codeAddr \in Nat
    PROVE  \E a : Addresses(a, nsos, codeAddr) /\ ModulesAt(nsos, codeAddr) = PlanOf(a, nsos)
<1> DEFINE l == Len(nsos)
           step == [i \in 1 .. l |-> [v \in Nat |-> NsoEnd(nsos[i], v)]]
           Turn(f, n) == IF n = 1 THEN codeAddr ELSE NsoEnd(nsos[n - 1], f[n - 1])
           g == CHOOSE f : f = [n \in 1 .. Len(nsos) + 1 |-> Turn(f, n)]
<1>1. l \in Nat /\ DOMAIN nsos = 1 .. l
  BY DEF AreModules
<1>2. \A i \in 1 .. l : \A v \in Nat : NsoEnd(nsos[i], v) \in Nat
  BY <1>1, SectionsFollow DEF AreModules
<1>3. step \in [1 .. l -> [Nat -> Nat]]
  BY <1>2
<1>4. PICK h : Rounds(h, l, Nat, codeAddr, step)
  <2> HIDE DEF step
  <2> QED BY <1>1, <1>3, RoundsExist
<1>5. /\ h \in [0 .. l -> Nat] /\ h[0] = codeAddr
      /\ \A i \in 1 .. l : h[i] = NsoEnd(nsos[i], h[i - 1])
  <2>1. /\ h \in [0 .. l -> Nat] /\ h[0] = codeAddr
        /\ \A i \in 1 .. l : h[i] = step[i][h[i - 1]]
    BY <1>4 DEF Rounds
  <2>2. \A i \in 1 .. l : i - 1 \in 0 .. l
    BY <1>1
  <2> QED BY <2>1, <2>2
<1>6. PICK k : k = [n \in 1 .. l + 1 |-> h[n - 1]]
  OBVIOUS
<1>7. \A n \in 1 .. l + 1 : k[n] = Turn(k, n)
  <2> SUFFICES ASSUME NEW n \in 1 .. l + 1 PROVE k[n] = Turn(k, n)
    OBVIOUS
  <2>1. CASE n = 1
    <3>1. n - 1 = 0
      BY <2>1
    <3> QED BY <1>5, <1>6, <2>1, <3>1
  <2>2. CASE n # 1
    <3>1. n - 1 \in 1 .. l /\ n - 1 \in 1 .. l + 1
      BY <1>1, <2>2
    <3>2. h[n - 1] = NsoEnd(nsos[n - 1], h[(n - 1) - 1])
      BY <1>5, <3>1
    <3> QED BY <1>6, <2>2, <3>1, <3>2
  <2> QED BY <2>1, <2>2
<1> HIDE DEF step
<1>8. g = [n \in 1 .. l + 1 |-> Turn(g, n)]
  <2> HIDE DEF Turn
  <2>1. k = [n \in 1 .. Len(nsos) + 1 |-> Turn(k, n)]
    BY <1>6, <1>7
  <2> QED BY <2>1
<1>9. ModulesAt(nsos, codeAddr) = PlanOf(g, nsos)
  BY DEF ModulesAt, PlanOf
<1> HIDE DEF g
<1>10. DEFINE S == {i \in 0 .. l : g[i + 1] \in Nat}
<1>11. 0 \in S
  <2>1. 0 + 1 \in 1 .. l + 1 /\ 0 + 1 = 1 /\ 0 \in 0 .. l
    BY <1>1
  <2>2. g[0 + 1] = codeAddr
    BY <1>8, <2>1
  <2> QED BY <2>1, <2>2
<1>12. ASSUME NEW i \in 0 .. l, i \in S, i < l
       PROVE  i + 1 \in S
  <2>1. i + 1 \in 0 .. l /\ i + 1 \in 1 .. l /\ (i + 1) + 1 \in 1 .. l + 1 /\ ((i + 1) + 1) - 1 = i + 1 /\ (i + 1) + 1 # 1
    BY <1>1, <1>12
  <2>2. g[(i + 1) + 1] = NsoEnd(nsos[i + 1], g[i + 1])
    BY <1>8, <2>1
  <2> QED BY <1>2, <1>12, <2>1, <2>2
<1>13. \A i \in 0 .. l : g[i + 1] \in Nat
  <2> HIDE DEF S
  <2>1. \A i \in 0 .. l : i \in S
    BY <1>1, <1>11, <1>12, UpTo
  <2> QED BY <2>1 DEF S
<1>14. g \in [1 .. l + 1 -> Nat]
  <2>1. \A n \in 1 .. l + 1 : n - 1 \in 0 .. l /\ (n - 1) + 1 = n
    BY <1>1
  <2>2. \A n \in 1 .. l + 1 : g[n] \in Nat
    BY <1>13, <2>1
  <2> HIDE DEF Turn
  <2> QED BY <1>8, <2>2
<1>15. g[1] = codeAddr
  <2>1. 1 \in 1 .. l + 1
    BY <1>1
  <2> QED BY <1>8, <2>1
<1>16. \A n \in DOMAIN nsos : g[n + 1] = NsoEnd(nsos[n], g[n])
  <2>1. \A n \in 1 .. l : n + 1 \in 1 .. l + 1 /\ n + 1 # 1 /\ (n + 1) - 1 = n
    BY <1>1
  <2> QED BY <1>1, <1>8, <2>1
<1> QED BY <1>9, <1>14, <1>15, <1>16 DEF Addresses

\* A module starts behind the ends of those before it.
LEMMA AddressesAscend ==
    ASSUME NEW nsos, AreModules(nsos), NEW codeAddr, NEW a, Addresses(a, nsos, codeAddr),
           NEW m \in DOMAIN nsos, NEW n \in DOMAIN nsos, m < n
    PROVE  NsoEnd(nsos[m], a[m]) <= a[n]
<1> DEFINE l == Len(nsos)
           S == {i \in 0 .. l : i > m => a[m + 1] <= a[i]}
<1>1. l \in Nat /\ DOMAIN nsos = 1 .. l
  BY DEF AreModules
<1>2. /\ \A i \in 1 .. l + 1 : a[i] \in Nat
      /\ \A i \in 1 .. l : a[i + 1] = NsoEnd(nsos[i], a[i])
  BY <1>1 DEF Addresses
<1>3. m \in 1 .. l /\ m + 1 \in 1 .. l + 1
  BY <1>1
<1>4. 0 \in S
  BY <1>1, <1>3
<1>5. ASSUME NEW i \in 0 .. l, i \in S, i < l
      PROVE  i + 1 \in S
  <2>1. i + 1 \in 0 .. l
    BY <1>1, <1>5
  <2>2. SUFFICES ASSUME i + 1 > m PROVE a[m + 1] <= a[i + 1]
    BY <2>1
  <2>3. CASE i = m
    <3>1. a[m + 1] \in Nat
      BY <1>2, <1>3
    <3> QED BY <2>3, <3>1
  <2>4. CASE i # m
    <3>1. i > m /\ i \in 1 .. l /\ i \in 1 .. l + 1
      BY <1>3, <2>2, <2>4
    <3>2. a[m + 1] <= a[i] /\ a[i] \in Nat
      BY <1>2, <1>5, <3>1
    <3>3. a[i] <= NsoEnd(nsos[i], a[i]) /\ NsoEnd(nsos[i], a[i]) \in Nat
      BY <1>1, <3>1, <3>2, SectionsFollow DEF AreModules
    <3>4. a[i + 1] = NsoEnd(nsos[i], a[i]) /\ a[m + 1] \in Nat
      BY <1>2, <1>3, <3>1
    <3> QED BY <3>2, <3>3, <3>4
  <2> QED BY <2>3, <2>4
<1>6. \A i \in 0 .. l : i \in S
  <2> HIDE DEF S
  <2> QED BY <1>1, <1>4, <1>5, UpTo
<1>7. n \in 0 .. l /\ n > m
  BY <1>1
<1>8. a[m + 1] <= a[n]
  BY <1>6, <1>7
<1> QED BY <1>1, <1>2, <1>3, <1>8

\* An address in a module's image is the module's own.
LEMMA ImageApart ==
    ASSUME NEW nso, NsoAssumption(nso), NEW n, NEW v \in Nat
    PROVE  /\ \A g \in DOMAIN ModuleImage(nso, n, v) : NsoAccepted(nso) /\ g \in Nat /\ v <= g /\ g < NsoEnd(nso, v)
           /\ NsoAccepted(nso) =>
                 \A i \in NsoSections : (i = 3 => ~Grows(nso)) =>
                    \A k \in 0 .. SizeOf(nso, i) - 1 :
                       /\ GuestAt(nso, v, i) + k \in DOMAIN ModuleImage(nso, n, v)
                       /\ ModuleImage(nso, n, v)[GuestAt(nso, v, i) + k] = <<n, i, k>>
<1> DEFINE At(g) == Max({j \in NsoSections : g \in Span(nso, v, j)})
<1>1. ModuleImage(nso, n, v) =
        [g \in UNION {Span(nso, v, i) : i \in IF NsoAccepted(nso) THEN NsoSections ELSE {}} |->
           ProgramByte(nso, n, StartIn(nso, At(g)) + (g - GuestAt(nso, v, At(g))))]
  BY DEF ModuleImage
<1> HIDE DEF At
<1>2. \A g \in DOMAIN ModuleImage(nso, n, v) : NsoAccepted(nso) /\ \E i \in NsoSections : g \in Span(nso, v, i)
  BY <1>1
<1>3. \A g \in DOMAIN ModuleImage(nso, n, v) : NsoAccepted(nso) /\ g \in Nat /\ v <= g /\ g < NsoEnd(nso, v)
  BY <1>2, SpansApart
<1>4. ASSUME NsoAccepted(nso), NEW i \in NsoSections, i = 3 => ~Grows(nso), NEW k \in 0 .. SizeOf(nso, i) - 1
      PROVE  /\ GuestAt(nso, v, i) + k \in DOMAIN ModuleImage(nso, n, v)
             /\ ModuleImage(nso, n, v)[GuestAt(nso, v, i) + k] = <<n, i, k>>
  <2>1. PICK at \in Nat : at = GuestAt(nso, v, i)
    BY SectionsFollow
  <2>2. k \in Nat
    <3>1. SizeOf(nso, i) \in Nat
      BY SizesIn
    <3> QED BY <3>1
  <2>3. PICK g \in Nat : g = at + k
    BY <2>2
  <2>4. g \in Span(nso, v, i)
    BY <1>4, <2>1, <2>3, SpansApart
  <2>5. g \in UNION {Span(nso, v, j) : j \in IF NsoAccepted(nso) THEN NsoSections ELSE {}}
    BY <1>4, <2>4
  <2>6. At(g) = i
    <3>1. PICK T : T = {j \in NsoSections : g \in Span(nso, v, j)}
      OBVIOUS
    <3>2. \A j \in T : j = i
      BY <1>4, <2>4, <3>1, SpansApart
    <3>3. T \in SUBSET Nat /\ i \in T
      BY <2>4, <3>1 DEF NsoSections
    <3>4. i \in Nat /\ i <= i
      BY DEF NsoSections
    <3>5. Max(T) = i
      BY <3>2, <3>3, <3>4, MaxIs
    <3> QED BY <3>1, <3>5 DEF At
  <2>7. ModuleImage(nso, n, v)[g] = ProgramByte(nso, n, StartIn(nso, i) + (g - at))
    BY <1>1, <2>1, <2>5, <2>6
  <2>8. g - at = k
    BY <2>2, <2>3
  <2>9. ProgramByte(nso, n, StartIn(nso, i) + k) = <<n, i, k>>
    BY <1>4, ByteOfSection
  <2> QED BY <1>1, <2>1, <2>3, <2>5, <2>7, <2>8, <2>9
<1> QED BY <1>3, <1>4

\* The guest sees each module that was accepted, whole, at its place.
LEMMA ImageWhole ==
    ASSUME NEW nsos, AreModules(nsos), NEW codeAddr \in Nat
    PROVE  ImageIsWhole(nsos, codeAddr, GuestImage(nsos, codeAddr))
<1>1. PICK plan : plan = ModulesAt(nsos, codeAddr)
  OBVIOUS
<1>2. PICK a : Addresses(a, nsos, codeAddr) /\ plan = PlanOf(a, nsos)
  BY <1>1, ModulesAtIs
<1>3. Len(nsos) \in Nat /\ DOMAIN nsos = 1 .. Len(nsos)
  BY DEF AreModules
<1>4. \A n \in DOMAIN nsos : a[n] \in Nat /\ NsoAssumption(nsos[n])
  <2>1. \A n \in DOMAIN nsos : n \in 1 .. Len(nsos) + 1
    BY <1>3
  <2> QED BY <1>2, <2>1 DEF Addresses, AreModules
<1>5. \A v \in DOMAIN plan : plan[v] \in DOMAIN nsos /\ a[plan[v]] = v /\ v \in Nat
  <2> SUFFICES ASSUME NEW v \in DOMAIN plan
               PROVE  plan[v] \in DOMAIN nsos /\ a[plan[v]] = v /\ v \in Nat
    OBVIOUS
  <2>1. PICK T : T = {n \in DOMAIN nsos : a[n] = v}
    OBVIOUS
  <2>2. plan[v] = Max(T) /\ T # {} /\ T \in SUBSET (1 .. Len(nsos))
    BY <1>2, <1>3, <2>1 DEF PlanOf
  <2>3. Max(T) \in T
    BY <1>3, <2>2, MaxIn
  <2> QED BY <1>4, <2>1, <2>2, <2>3
<1> DEFINE At(v) == ModuleImage(nsos[plan[v]], plan[v], v)
           Of(g) == Max({v \in DOMAIN plan : g \in DOMAIN At(v)})
<1>6. PICK image : image = GuestImage(nsos, codeAddr)
  OBVIOUS
<1>7. image = [g \in UNION {DOMAIN At(v) : v \in DOMAIN plan} |-> At(Of(g))[g]]
  BY <1>1, <1>6 DEF GuestImage
<1> HIDE DEF Of
<1>8. ASSUME NEW v \in DOMAIN plan, NEW w \in DOMAIN plan, NEW g, g \in DOMAIN At(v), g \in DOMAIN At(w)
      PROVE  v = w
  <2>1. PICK m, n \in DOMAIN nsos : m = plan[v] /\ n = plan[w]
    BY <1>5
  <2>2. a[m] = v /\ a[n] = w /\ v \in Nat /\ w \in Nat /\ NsoAssumption(nsos[m]) /\ NsoAssumption(nsos[n])
    BY <1>4, <1>5, <2>1
  <2>3. g \in Nat /\ v <= g /\ g < NsoEnd(nsos[m], v) /\ w <= g /\ g < NsoEnd(nsos[n], w)
    BY <1>8, <2>1, <2>2, ImageApart
  <2>4. NsoEnd(nsos[m], v) \in Nat /\ NsoEnd(nsos[n], w) \in Nat
    BY <2>2, SectionsFollow
  <2>5. ~(m < n)
    <3>1. SUFFICES ASSUME m < n PROVE FALSE
      OBVIOUS
    <3>2. NsoEnd(nsos[m], v) <= w
      BY <1>2, <2>2, <3>1, AddressesAscend
    <3> QED BY <2>2, <2>3, <2>4, <3>2
  <2>6. ~(n < m)
    <3>1. SUFFICES ASSUME n < m PROVE FALSE
      OBVIOUS
    <3>2. NsoEnd(nsos[n], w) <= v
      BY <1>2, <2>2, <3>1, AddressesAscend
    <3> QED BY <2>2, <2>3, <2>4, <3>2
  <2>7. m = n
    BY <1>3, <2>5, <2>6
  <2> QED BY <2>2, <2>7
<1>9. ASSUME NEW v \in DOMAIN plan, NEW g \in DOMAIN At(v)
      PROVE  g \in DOMAIN image /\ image[g] = At(v)[g]
  <2>1. PICK T : T = {w \in DOMAIN plan : g \in DOMAIN At(w)}
    OBVIOUS
  <2>2. v \in T /\ \A w \in T : w = v
    BY <1>8, <2>1
  <2>3. v \in Nat /\ v <= v
    BY <1>5
  <2>4. T \in SUBSET Nat
    BY <2>2, <2>3
  <2>5. Max(T) = v
    BY <2>2, <2>3, <2>4, MaxIs
  <2>6. Of(g) = v
    BY <2>1, <2>5 DEF Of
  <2> HIDE DEF At
  <2> QED BY <1>7, <2>6
<1> HIDE DEF At
<1>10. ASSUME NEW v \in DOMAIN plan, NsoAccepted(nsos[plan[v]]), NEW i \in NsoSections,
              i = 3 => ~Grows(nsos[plan[v]]), NEW k \in 0 .. SizeOf(nsos[plan[v]], i) - 1
       PROVE  LET g == GuestAt(nsos[plan[v]], v, i) + k
              IN g \in DOMAIN image /\ image[g] = <<plan[v], i, k>>
  <2>1. v \in Nat /\ NsoAssumption(nsos[plan[v]])
    BY <1>4, <1>5
  <2>2. PICK g : g = GuestAt(nsos[plan[v]], v, i) + k
    OBVIOUS
  <2>3. g \in DOMAIN At(v) /\ At(v)[g] = <<plan[v], i, k>>
    BY <1>10, <2>1, <2>2, ImageApart DEF At
  <2>4. g \in DOMAIN image /\ image[g] = <<plan[v], i, k>>
    BY <1>9, <2>3
  <2> QED BY <2>2, <2>4
<1> QED BY <1>1, <1>6, <1>10 DEF ImageIsWhole
-----------------------------------------------------------------------------
(* The versions that are there and those that are open. *)

\* The types of what a load looks at.
FilesType == version \in [DOMAIN disk -> Nat] /\ cached \in [DOMAIN disk -> Nat]

\* A call to the provider opens a version that is not 0.
LEMMA OpenStep ==
    ASSUME FilesType, NEW i \in DOMAIN disk, version[i] > 0, cached' = Cached(i)
    PROVE  /\ OpenSystemFile(i) \in Nat \ {0}
           /\ cached' \in [DOMAIN disk -> Nat]
<1>1. version[i] \in Nat /\ cached[i] \in Nat /\ version[i] # 0
  BY DEF FilesType
<1>2. OpenSystemFile(i) \in Nat \ {0}
  BY <1>1 DEF OpenSystemFile
<1> QED BY <1>2 DEF Cached, FilesType

\* The types hold after every step.
THEOREM Inductive == Spec => []FilesType
<1>1. Init => FilesType
  BY DEF Init, FilesType
<1>2. FilesType /\ [Next]_vars => FilesType'
  <2> SUFFICES ASSUME FilesType, [Next]_vars PROVE FilesType'
    OBVIOUS
  <2> USE DEF files, lists
  <2>1. CASE Open \/ OpenOther
    <3>1. /\ first \in DOMAIN disk /\ version[first] > 0 /\ cached' = Cached(first)
          /\ UNCHANGED <<disk, version>>
      BY <2>1 DEF Open, OpenOther, Existing
    <3> QED BY <3>1, OpenStep DEF FilesType
  <2>2. ASSUME NEW i \in DOMAIN disk, ReplaceFile(i) \/ RemoveFile(i)
        PROVE  FilesType'
    BY <2>2 DEF ReplaceFile, RemoveFile, FilesType
  <2>3. CASE UNCHANGED <<disk, version, cached>>
    BY <2>3 DEF FilesType
  <2>4. OpenFails \/ Prepare \/ Initialize \/ Finish => UNCHANGED <<disk, version, cached>>
    BY DEF OpenFails, Prepare, Initialize, Finish
  <2>5. \/ \E matches \in SUBSET Existing : PickByName(matches)
        \/ ExtractIntoGameFs \/ SaveUserInformation \/ StartApplication \/ CreateThread
        => UNCHANGED <<disk, version, cached>>
    BY DEF PickByName, ExtractIntoGameFs, SaveUserInformation, StartApplication, CreateThread
  <2>6. CASE UNCHANGED vars
    BY <2>3, <2>6 DEF vars
  <2> QED BY <2>1, <2>2, <2>3, <2>4, <2>5, <2>6 DEF Next, LoadAGameByIndex, Existing
<1> QED BY <1>1, <1>2, PTL DEF Spec
-----------------------------------------------------------------------------
(* What a process has. *)

Opened == pc \in {"opened", "prepared", "mapped"}

\* Versions exist, and what is loaded is a file's version.
VersionsIn ==
    \A i \in DOMAIN disk : version[i] <= Len(disk[i].versions) /\ cached[i] <= Len(disk[i].versions)
BackingIn == Opened => backing.file \in DOMAIN disk /\ backing.version \in DOMAIN disk[backing.file].versions

\* The loader and the decoding ended well, and the process has what they gave.
LoaderRan == fate = "running" /\ Opened => LoaderFate(backing.file, backing.version) = "running"
ProcessFilled ==
    fate = "running" /\ pc \in {"prepared", "mapped"} =>
        LET i == backing.file
            v == backing.version
        IN /\ HasExeFs(i, v) /\ MetaFate(NpdmOf(i, v)) = "running" /\ process.meta = MetaOf(NpdmOf(i, v))
           /\ disk[i].ext = "xci" => process.found = CardOf(Content(i, v).card)
           /\ disk[i].ext = "nsp" /\ pc = "mapped" =>
                 process.image = GuestImage(Content(i, v).modules, CodeStart)
ProcessShape == DOMAIN process = {"meta", "image", "found"} /\ process = [x \in {"meta", "image", "found"} |-> process[x]]

FitInv == disk \in Disks /\ VersionsIn /\ BackingIn /\ LoaderRan /\ ProcessFilled /\ ProcessShape

\* A game of a collection, and its versions.
LEMMA GameIs ==
    ASSUME disk \in Disks, NEW i \in DOMAIN disk
    PROVE  /\ Game(disk[i]) /\ Len(disk[i].versions) \in Nat \ {0}
           /\ DOMAIN disk[i].versions = 1 .. Len(disk[i].versions)
           /\ \A v \in DOMAIN disk[i].versions : Content(i, v) \in Range(disk[i].versions)
<1>1. Game(disk[i])
  BY LaunchAssumption
<1>2. PICK s : s = disk[i].versions
  OBVIOUS
<1>3. s # <<>> /\ s \in Seq(Range(s))
  BY <1>1, <1>2 DEF Game
<1>4. Len(s) \in Nat /\ DOMAIN s = 1 .. Len(s) /\ Len(s) # 0
  BY <1>3, EmptySeq, LenProperties
<1> QED BY <1>1, <1>2, <1>4 DEF Content, Range

\* Metadata that was read whole had no word that asserts.
LEMMA FateOfWords ==
    ASSUME NEW npdm, MetaFate(npdm) = "running"
    PROVE  SetKac(Capabilities(npdm)).fate = "running"
<1> DEFINE steps == << IF Within(npdm, 0, HeaderSize) THEN "running" ELSE "exception",
                    IF "META" \in npdm.magic THEN "running" ELSE "assertion",
                    IF Within(npdm, HeaderSize, AcidSize) THEN "running" ELSE "exception",
                    IF "ACID" \in npdm.magic THEN "running" ELSE "assertion",
                    KacFate(npdm, AcidEnd, npdm.acid),
                    IF Within(npdm, npdm.aci0, Aci0Size) THEN "running" ELSE "exception",
                    IF "ACI0" \in npdm.magic THEN "running" ELSE "assertion",
                    KacFate(npdm, AciEnd(npdm), npdm.aci),
                    SetKac(Capabilities(npdm)).fate,
                    IF npdm.resources THEN "running" ELSE "assertion" >>
           ends == {i \in DOMAIN steps : steps[i] # "running"}
<1>1. MetaFate(npdm) = IF ends = {} THEN "running" ELSE steps[Min(ends)]
  BY DEF MetaFate
<1>2. DOMAIN steps = 1 .. 10 /\ steps[9] = SetKac(Capabilities(npdm)).fate
  OBVIOUS
<1> HIDE DEF steps
<1>3. ends \in SUBSET Nat
  BY <1>2
<1>4. ends = {}
  <2>1. SUFFICES ASSUME ends # {} PROVE FALSE
    OBVIOUS
  <2>2. Min(ends) \in ends
    BY <1>3, <2>1, MinIn
  <2> QED BY <1>1, <2>1, <2>2
<1>5. 9 \in DOMAIN steps
  BY <1>2
<1> QED BY <1>2, <1>4, <1>5

\* A program with metadata is a title's or a cartridge's; the metadata is a file's.
LEMMA MetaIsAFile ==
    ASSUME disk \in Disks, NEW i \in DOMAIN disk, NEW v \in DOMAIN disk[i].versions,
           HasExeFs(i, v), LoaderFate(i, v) = "running"
    PROVE  /\ disk[i].ext \in {"nsp", "xci"} /\ NpdmFile(NpdmOf(i, v))
           /\ disk[i].ext = "xci" => Content(i, v).card \in CardFile /\ CardOf(Content(i, v).card).fate = "running"
           /\ disk[i].ext = "nsp" => AreModules(Content(i, v).modules)
<1>1. PICK t \in Range(disk[i].versions) : t = Content(i, v)
  BY GameIs
<1>2. Game(disk[i])
  BY GameIs
<1>3. disk[i].ext \in {"nsp", "xci"}
  BY DEF HasExeFs
<1>4. CASE disk[i].ext = "nsp"
  <2>1. NpdmFile(t.npdm) /\ AreModules(t.modules)
    BY <1>2, <1>4 DEF Game, AreModules
  <2> QED BY <1>1, <1>4, <2>1 DEF NpdmOf
<1>5. CASE disk[i].ext = "xci"
  <2>1. CardOf(t.card).fate = "running" /\ CardOf(t.card).exefs # NoView
    BY <1>1, <1>5 DEF LoaderFate, HasExeFs
  <2>2. t.card \in CardFile /\ \A n \in DOMAIN ArchivesOf(t.card) : NpdmFile(t.npdms[n])
    BY <1>2, <1>5 DEF Game
  <2>3. CardOf(t.card).exefs[1] \in DOMAIN ArchivesOf(t.card)
    BY <2>1, <2>2, CardFindsFirst
  <2>4. NpdmOf(i, v) = t.npdms[CardOf(t.card).exefs[1]]
    BY <1>1, <1>5 DEF NpdmOf
  <2> QED BY <1>1, <1>5, <2>1, <2>2, <2>3, <2>4
<1> QED BY <1>3, <1>4, <1>5

\* Opening a file.
LEMMA OpenFits ==
    ASSUME FilesType, FitInv, Open
    PROVE  FitInv'
<1> DEFINE v == OpenSystemFile(first)
<1>1. /\ first \in DOMAIN disk /\ version[first] > 0 /\ cached' = Cached(first) /\ pc' = "opened"
      /\ backing' = [file |-> first, version |-> v] /\ fate' = LoaderFate(first, v)
      /\ UNCHANGED <<disk, version, process>>
  BY DEF Open, Existing, files
<1>2. v \in Nat \ {0} /\ v <= Len(disk[first].versions)
  <2>1. v \in Nat \ {0}
    BY <1>1, OpenStep
  <2>2. v = cached[first] \/ v = version[first]
    BY DEF OpenSystemFile
  <2> QED BY <1>1, <2>1, <2>2 DEF FitInv, VersionsIn
<1>3. v \in DOMAIN disk[first].versions
  BY <1>1, <1>2, GameIs DEF FitInv
<1>4. VersionsIn'
  <2>1. \A i \in DOMAIN disk : cached'[i] = cached[i] \/ (i = first /\ cached'[i] = v)
    BY <1>1 DEF Cached, FilesType
  <2> QED BY <1>1, <1>2, <2>1 DEF FitInv, VersionsIn
<1>5. backing'.file = first /\ backing'.version = v
  BY <1>1
<1>6. LoaderRan'
  <2>2. disk' = disk => (fate' = LoaderFate(backing'.file, backing'.version) => LoaderRan')
    BY DEF LoaderRan, LoaderFate, Content
  <2> QED BY <1>1, <1>5, <2>2
<1>7. ProcessFilled'
  BY <1>1 DEF ProcessFilled
<1>8. BackingIn'
  BY <1>1, <1>3, <1>5 DEF BackingIn
<1> QED BY <1>1, <1>4, <1>6, <1>7, <1>8 DEF FitInv, ProcessShape

\* What a step leaves of what was loaded, if it changes nothing of that.
LEMMA StaysFilled ==
    ASSUME FitInv, UNCHANGED <<disk, backing, process, pc>>, fate' = "running" => fate = "running", VersionsIn'
    PROVE  FitInv'
<1>1. BackingIn'
  BY DEF FitInv, BackingIn, Opened
<1>2. LoaderRan'
  BY DEF FitInv, LoaderRan, Opened, LoaderFate, Content
<1>3. ProcessFilled'
  BY DEF FitInv, ProcessFilled, HasExeFs, NpdmOf, Content
<1>4. ProcessShape'
  BY DEF FitInv, ProcessShape
<1> QED BY <1>1, <1>2, <1>3, <1>4 DEF FitInv

\* When a load has ended, nothing is said of it.
LEMMA IdleFits ==
    ASSUME FitInv, UNCHANGED <<disk, process>>, pc' = "idle", VersionsIn'
    PROVE  FitInv'
BY DEF FitInv, BackingIn, LoaderRan, ProcessFilled, ProcessShape, Opened

\* Reading the metadata.
LEMMA PrepareFits ==
    ASSUME FitInv, Prepare
    PROVE  FitInv'
<1> DEFINE i == backing.file
           v == backing.version
<1>1. /\ fate = "running" /\ pc = "opened" /\ pc' = "prepared"
      /\ UNCHANGED <<disk, version, cached, backing>>
  BY DEF Prepare, files
<1>2. VersionsIn' /\ BackingIn'
  BY <1>1 DEF FitInv, VersionsIn, BackingIn, Opened
<1>3. LoaderFate(i, v) = "running"
  BY <1>1 DEF FitInv, LoaderRan, Opened
<1>4. LoaderFate(i, v)' = LoaderFate(i, v)
  BY <1>1 DEF LoaderFate, Content
<1>5. LoaderRan'
  BY <1>3, <1>4 DEF LoaderRan
<1>6. CASE ~HasExeFs(i, v)
  <2>1. fate' # "running" /\ UNCHANGED process
    BY <1>6 DEF Prepare, WithoutNpdm
  <2>2. ProcessFilled'
    BY <2>1 DEF ProcessFilled
  <2> QED BY <1>1, <1>2, <1>5, <2>1, <2>2 DEF FitInv, ProcessShape
<1>7. CASE HasExeFs(i, v)
  <2>1. PICK npdm : npdm = NpdmOf(i, v)
    OBVIOUS
  <2>2. PICK found : found = IF disk[i].ext = "xci" THEN CardOf(Content(i, v).card) ELSE NothingFound
    OBVIOUS
  <2>3. /\ fate' = "running" => MetaFate(npdm) = "running"
        /\ process' = [NoProgram EXCEPT !.meta = MetaOf(npdm), !.found = found]
    BY <1>7, <2>1, <2>2 DEF Prepare
  <2>4. process'.meta = MetaOf(npdm) /\ process'.found = found
    BY <2>3 DEF NoProgram
  <2>5. ProcessShape'
    BY <2>3 DEF ProcessShape, NoProgram
  <2>6. (disk[i].ext = "xci")' <=> disk[i].ext = "xci"
    BY <1>1
  <2>7. NpdmOf(i, v)' = npdm /\ HasExeFs(i, v)' /\ Content(i, v)' = Content(i, v)
    BY <1>1, <1>7, <2>1 DEF NpdmOf, HasExeFs, Content
  <2>8. ProcessFilled'
    BY <1>1, <2>2, <2>3, <2>4, <2>6, <2>7 DEF ProcessFilled
  <2> QED BY <1>1, <1>2, <1>5, <2>5, <2>8 DEF FitInv
<1> QED BY <1>6, <1>7

\* Copying the modules.
LEMMA InitializeFits ==
    ASSUME FitInv, Initialize
    PROVE  FitInv'
<1> DEFINE i == backing.file
           v == backing.version
<1>1. /\ fate = "running" /\ pc = "prepared" /\ pc' = "mapped"
      /\ UNCHANGED <<disk, version, cached, backing>>
  BY DEF Initialize, files
<1>2. VersionsIn' /\ BackingIn'
  BY <1>1 DEF FitInv, VersionsIn, BackingIn, Opened
<1>3. LoaderFate(i, v) = "running"
  BY <1>1 DEF FitInv, LoaderRan, Opened
<1>4. LoaderFate(i, v)' = LoaderFate(i, v)
  BY <1>1 DEF LoaderFate, Content
<1>5. LoaderRan'
  BY <1>3, <1>4 DEF LoaderRan
<1>6. /\ HasExeFs(i, v) /\ MetaFate(NpdmOf(i, v)) = "running" /\ process.meta = MetaOf(NpdmOf(i, v))
      /\ disk[i].ext = "xci" => process.found = CardOf(Content(i, v).card)
  BY <1>1 DEF FitInv, ProcessFilled
<1>7. IF fate' = "running" /\ disk[i].ext = "nsp"
      THEN process' = [process EXCEPT !.image = GuestImage(Content(i, v).modules, CodeStart)]
      ELSE UNCHANGED process
  BY DEF Initialize
<1>8. process'.meta = process.meta /\ process'.found = process.found
  BY <1>7 DEF FitInv, ProcessShape
<1>9. fate' = "running" /\ disk[i].ext = "nsp" => process'.image = GuestImage(Content(i, v).modules, CodeStart)
  BY <1>7 DEF FitInv, ProcessShape
<1>10. ProcessShape'
  BY <1>7 DEF FitInv, ProcessShape
<1>11. /\ NpdmOf(i, v)' = NpdmOf(i, v) /\ (HasExeFs(i, v)' <=> HasExeFs(i, v)) /\ Content(i, v)' = Content(i, v)
       /\ disk[i].ext' = disk[i].ext
  BY <1>1 DEF NpdmOf, HasExeFs, Content
<1>12. ProcessFilled'
  BY <1>1, <1>6, <1>8, <1>9, <1>11 DEF ProcessFilled
<1> QED BY <1>1, <1>2, <1>5, <1>10, <1>12 DEF FitInv

\* The versions stay those of the files.
LEMMA FitInductive ==
    ASSUME FilesType, FitInv, [Next]_vars
    PROVE  FitInv'
<1> USE DEF files, lists
<1>1. CASE Open
  BY <1>1, OpenFits
<1>2. CASE Prepare
  BY <1>2, PrepareFits
<1>3. CASE Initialize
  BY <1>3, InitializeFits
<1>4. CASE OpenOther
  <2>1. first \in DOMAIN disk /\ cached' = Cached(first) /\ UNCHANGED <<disk, version, process, pc>> /\ pc = "idle"
    BY <1>4 DEF OpenOther, Existing, Idle
  <2>2. OpenSystemFile(first) <= Len(disk[first].versions)
    BY <2>1 DEF OpenSystemFile, FitInv, VersionsIn
  <2>3. \A i \in DOMAIN disk : cached'[i] = cached[i] \/ (i = first /\ cached'[i] = OpenSystemFile(first))
    BY <2>1 DEF Cached, FilesType
  <2>4. VersionsIn'
    BY <2>1, <2>2, <2>3 DEF FitInv, VersionsIn
  <2> QED BY <2>1, <2>4, IdleFits
<1>5. ASSUME NEW i \in DOMAIN disk, ReplaceFile(i) \/ RemoveFile(i)
      PROVE  FitInv'
  <2>1. UNCHANGED <<disk, cached, backing, process, pc, fate>>
    BY <1>5 DEF ReplaceFile, RemoveFile
  <2>2. Len(disk[i].versions) \in Nat /\ version \in [DOMAIN disk -> Nat]
    BY GameIs DEF FitInv, FilesType
  <2>3. PICK n : n <= Len(disk[i].versions) /\ version' = [version EXCEPT ![i] = n]
    <3>1. CASE ReplaceFile(i)
      <4>1. version[i] + 1 <= Len(disk[i].versions)
        BY <2>2, <3>1 DEF ReplaceFile
      <4> QED BY <3>1, <4>1 DEF ReplaceFile
    <3>2. CASE RemoveFile(i)
      <4>1. 0 <= Len(disk[i].versions)
        BY <2>2
      <4>2. version' = [version EXCEPT ![i] = 0]
        BY <3>2 DEF RemoveFile
      <4> QED BY <4>1, <4>2
    <3> QED BY <1>5, <3>1, <3>2
  <2>4. VersionsIn'
    BY <2>1, <2>2, <2>3 DEF FitInv, VersionsIn
  <2> QED BY <2>1, <2>4, StaysFilled
<1>6. CASE UNCHANGED <<disk, version, cached, backing, process, pc>> /\ (fate' = "running" => fate = "running")
  <2>1. VersionsIn'
    BY <1>6 DEF FitInv, VersionsIn
  <2> QED BY <1>6, <2>1, StaysFilled
<1>7. CASE Finish
  <2>1. UNCHANGED <<disk, version, cached, process>> /\ pc' = "idle"
    BY <1>7 DEF Finish
  <2>2. VersionsIn'
    BY <2>1 DEF FitInv, VersionsIn
  <2> QED BY <2>1, <2>2, IdleFits
<1>8. \/ OpenFails \/ (\E matches \in SUBSET Existing : PickByName(matches))
      \/ ExtractIntoGameFs \/ SaveUserInformation \/ StartApplication \/ CreateThread \/ UNCHANGED vars
      => UNCHANGED <<disk, version, cached, backing, process, pc>> /\ (fate' = "running" => fate = "running")
  BY DEF OpenFails, PickByName, ExtractIntoGameFs, SaveUserInformation, StartApplication, CreateThread, Idle, vars
<1> QED BY <1>1, <1>2, <1>3, <1>4, <1>5, <1>6, <1>7, <1>8 DEF Next, LoadAGameByIndex, Existing

\* What was loaded is its file's, after every step.
THEOREM ProcessFilledAlways == Spec => [](FilesType /\ FitInv)
<1>1. Init => FitInv
  <2> SUFFICES ASSUME Init PROVE FitInv
    OBVIOUS
  <2>1. disk \in Disks /\ pc = "idle" /\ process = NoProgram
        /\ version = [i \in DOMAIN disk |-> 1] /\ cached = [i \in DOMAIN disk |-> 0]
    BY DEF Init
  <2>2. VersionsIn
    <3>1. \A i \in DOMAIN disk : 1 <= Len(disk[i].versions) /\ 0 <= Len(disk[i].versions)
      BY <2>1, GameIs
    <3> QED BY <2>1, <3>1 DEF VersionsIn
  <2> QED BY <2>1, <2>2 DEF FitInv, BackingIn, LoaderRan, ProcessFilled, ProcessShape, Opened, NoProgram
<1>2. FilesType /\ FitInv /\ [Next]_vars => FitInv'
  BY FitInductive
<1> QED BY <1>1, <1>2, Inductive, PTL DEF Spec

\* The system calls and priorities of a process are those that its metadata allows, a
\* cartridge's program, name and icon are the first ones, and the guest sees each section of
\* each module that can arrive whole, at its place and undisturbed by the modules that are
\* copied after it: whatever the metadata's words, the cartridge's archives and the modules'
\* sizes are (MetaProgram::SetKac, Cartridge::ListAllNca, NsoModules::LoadProgramImage).
THEOREM ProcessFitsTitleAlways == Spec => []ProcessFitsTitle
<1>1. FilesType /\ FitInv => ProcessFitsTitle
  <2> SUFFICES ASSUME FitInv, fate = "running", pc \in {"prepared", "mapped"}
               PROVE  LET i == backing.file
                          c == Content(i, backing.version)
                      IN /\ MetaIsDecoded(NpdmOf(i, backing.version), process.meta)
                         /\ disk[i].ext = "xci" => CardIsFirst(c.card, process.found)
                         /\ disk[i].ext = "nsp" /\ pc = "mapped" => ImageIsWhole(c.modules, CodeStart, process.image)
    BY DEF ProcessFitsTitle
  <2>1. PICK i, v, c : i = backing.file /\ v = backing.version /\ c = Content(backing.file, backing.version)
    OBVIOUS
  <2>2. Opened /\ disk \in Disks /\ i \in DOMAIN disk /\ v \in DOMAIN disk[i].versions /\ c = Content(i, v)
    BY <2>1 DEF FitInv, BackingIn, Opened
  <2>3. LoaderFate(i, v) = "running"
    BY <2>1, <2>2 DEF FitInv, LoaderRan
  <2>4. /\ HasExeFs(i, v) /\ MetaFate(NpdmOf(i, v)) = "running" /\ process.meta = MetaOf(NpdmOf(i, v))
        /\ disk[i].ext = "xci" => process.found = CardOf(c.card)
        /\ disk[i].ext = "nsp" /\ pc = "mapped" => process.image = GuestImage(c.modules, CodeStart)
    BY <2>1, <2>2 DEF FitInv, ProcessFilled
  <2>5. /\ NpdmFile(NpdmOf(i, v))
        /\ disk[i].ext = "xci" => c.card \in CardFile /\ CardOf(c.card).fate = "running"
        /\ disk[i].ext = "nsp" => AreModules(c.modules)
    BY <2>2, <2>3, <2>4, MetaIsAFile
  <2>6. MetaIsDecoded(NpdmOf(i, v), process.meta)
    BY <2>4, <2>5, FateOfWords, MetaDecodes
  <2>7. disk[i].ext = "xci" => CardIsFirst(c.card, process.found)
    BY <2>4, <2>5, CardFindsFirst
  <2>8. disk[i].ext = "nsp" /\ pc = "mapped" => ImageIsWhole(c.modules, CodeStart, process.image)
    BY <2>4, <2>5, ImageWhole, LaunchAssumption
  <2> QED BY <2>1, <2>6, <2>7, <2>8
<1> QED BY <1>1, ProcessFilledAlways, PTL
=============================================================================
