----------------------------- MODULE TitleProofs ------------------------------
(* Theorems about titles and the files they are read from.                        *)
(* FileReads and CounterReads, for every file, page size, integer width and       *)
(* cipher block: what a read gives, where it lies inside its file and where it    *)
(* reaches over the end.  The walk of RomFs, for every image: the invariant of    *)
(* the visitors and the tree that they leave.  TitleIntegrity, for all sizes of   *)
(* pages, buffer, tables and archives: what the checksum holds when it is         *)
(* compared, and that no verdict is wrong while every archive can be read.        *)
(* Archives, for all packages and keys: what was opened can be read, what is      *)
(* whole opens, and the mounted trees are those of their images.                  *)
EXTENDS TitleIntegrity, Archives, FiniteSetTheorems, SequenceTheorems,
        WellFoundedInduction, TLAPS

\* Every non-empty set of naturals has a least element.
LEMMA LeastNatural ==
    ASSUME NEW T \in SUBSET Nat, T # {}
    PROVE  \E x \in T : \A y \in T : x <= y
<1> DEFINE R == OpToRel(<, Nat)
<1>1. PICK x \in T : \A y \in T : ~(<<y, x>> \in R)
  <2> HIDE DEF R
  <2> QED BY NatLessThanWellFounded, WFMin DEF R
<1>2. \A y \in T : ~(y < x)
  BY <1>1 DEF OpToRel
<1> QED BY <1>2

\* Induction: a set of naturals with 0 and with the successors of its members
\* below a limit has all naturals up to the limit.
LEMMA UpTo ==
    ASSUME NEW n \in Nat, NEW S, 0 \in S,
           \A k \in 0 .. n : k \in S /\ k < n => k + 1 \in S
    PROVE  \A k \in 0 .. n : k \in S
<1> DEFINE T == {k \in 0 .. n : k \notin S}
<1>1. SUFFICES ASSUME T # {} PROVE FALSE
  OBVIOUS
<1>2. PICK x \in T : \A y \in T : x <= y
  <2>1. T \in SUBSET Nat
    OBVIOUS
  <2> QED BY <1>1, <2>1, LeastNatural
<1>3. x \in 0 .. n /\ x \notin S /\ x # 0
  BY <1>2
<1>4. x - 1 \in 0 .. n /\ x - 1 \notin T /\ x - 1 < n
  BY <1>2, <1>3
<1>5. (x - 1) + 1 \in S
  BY <1>4
<1> QED BY <1>3, <1>5

\* A loop over the indexes up to n: it stops at some with a value, and goes from the
\* others to a higher one.
Ascends(n, V, stops, end, goes) ==
    /\ n \in Nat
    /\ \A c \in 0 .. n : IF c \in stops THEN end[c] \in V ELSE goes[c] \in 0 .. n /\ c < goes[c]

\* A function gives at each index the value with which the loop ends from there.
Computes(g, n, V, stops, end, goes) ==
    /\ g \in [0 .. n -> V]
    /\ \A c \in 0 .. n : g[c] = IF c \in stops THEN end[c] ELSE g[goes[c]]

\* There is such a function.
LEMMA LoopExists ==
    ASSUME NEW n, NEW V, NEW stops, NEW end, NEW goes, Ascends(n, V, stops, end, goes)
    PROVE  \E g : Computes(g, n, V, stops, end, goes)
<1> USE DEF Ascends
<1> DEFINE Turn(g, c) == IF c \in stops THEN end[c] ELSE g[goes[c]]
           Good(k) == \E g \in [n - k .. n -> V] : \A c \in n - k .. n : g[c] = Turn(g, c)
           S == {k \in 0 .. n : Good(k)}
<1>1. 0 \in S
  <2>1. n \in 0 .. n /\ n \in stops
    OBVIOUS
  <2>2. end[n] \in V
    BY <2>1
  <2> DEFINE g == [c \in n - 0 .. n |-> end[n]]
  <2>3. g \in [n - 0 .. n -> V]
    BY <2>2
  <2>4. \A c \in n - 0 .. n : c = n
    OBVIOUS
  <2>5. \A c \in n - 0 .. n : g[c] = Turn(g, c)
    BY <2>1, <2>4
  <2>6. Good(0)
    BY <2>3, <2>5
  <2> QED BY <2>6
<1>2. ASSUME NEW k \in 0 .. n, k \in S, k < n
      PROVE  k + 1 \in S
  <2>1. PICK h \in [n - k .. n -> V] : \A c \in n - k .. n : h[c] = Turn(h, c)
    BY <1>2
  <2> DEFINE d == n - (k + 1)
             g == [c \in n - (k + 1) .. n |-> IF c = d THEN Turn(h, d) ELSE h[c]]
  <2>2. d \in 0 .. n /\ d + 1 = n - k
    BY <1>2
  <2>3. Turn(h, d) \in V
    <3>1. CASE d \in stops
      BY <2>2, <3>1
    <3>2. CASE d \notin stops
      <4>1. goes[d] \in n - k .. n
        BY <2>2, <3>2
      <4> QED BY <2>1, <3>2, <4>1
    <3> QED BY <3>1, <3>2
  <2>4. \A c \in n - (k + 1) .. n : c = d \/ c \in n - k .. n
    BY <2>2
  <2>5. \A c \in n - k .. n : c # d /\ c \in n - (k + 1) .. n
    BY <2>2
  <2>6. g \in [n - (k + 1) .. n -> V]
    BY <2>1, <2>3, <2>4
  <2>7. \A c \in n - (k + 1) .. n : g[c] = Turn(g, c)
    <3> SUFFICES ASSUME NEW c \in n - (k + 1) .. n PROVE g[c] = Turn(g, c)
      OBVIOUS
    <3>1. Turn(g, c) = Turn(h, c)
      <4>1. CASE c \in stops
        BY <4>1
      <4>2. CASE c \notin stops
        <5>1. c \in 0 .. n
          BY <2>2
        <5>2. goes[c] \in n - k .. n
          BY <2>2, <4>2, <5>1
        <5>3. g[goes[c]] = h[goes[c]]
          BY <2>5, <5>2
        <5> QED BY <4>2, <5>3
      <4> QED BY <4>1, <4>2
    <3>2. CASE c = d
      BY <3>1, <3>2
    <3>3. CASE c # d
      <4>1. c \in n - k .. n
        BY <2>4, <3>3
      <4>2. g[c] = h[c]
        BY <3>3
      <4> QED BY <2>1, <3>1, <4>1, <4>2
    <3> QED BY <3>2, <3>3
  <2>8. Good(k + 1)
    BY <2>6, <2>7
  <2> QED BY <1>2, <2>8
<1>3. n \in S
  <2> HIDE DEF S
  <2>1. \A k \in 0 .. n : k \in S
    BY <1>1, <1>2, UpTo
  <2>2. n \in 0 .. n
    OBVIOUS
  <2> QED BY <2>1, <2>2
<1>4. PICK g \in [n - n .. n -> V] : \A c \in n - n .. n : g[c] = Turn(g, c)
  BY <1>3
<1>5. n - n = 0
  OBVIOUS
<1>6. Computes(g, n, V, stops, end, goes)
  BY <1>4, <1>5 DEF Computes
<1> QED BY <1>6
-----------------------------------------------------------------------------
\* What a read comes to: no more than was asked for, and what was copied is inside
\* the file.
Fits(read, file, size, offset) ==
    /\ read \in [count : 0 .. size, valid : 0 .. size]
    /\ \A i \in 1 .. read.count : i <= read.valid => offset + i <= Len(file)

\* One page of a read: it asks for something while something is left, and what is
\* found of it is inside the file.
LEMMA PageFits ==
    ASSUME NEW S, NEW file \in Seq(S), NEW size \in Nat, NEW offset \in Nat, NEW c \in 0 .. size
    PROVE  LET stride == Least(Page, size - c)
               found == Found(file, stride, offset + c)
           IN /\ stride \in Nat /\ stride <= size - c /\ (c # size => stride > 0)
              /\ found \in Nat /\ found <= stride
              /\ found > 0 => offset + c + found <= Len(file)
              /\ offset + c + stride <= Len(file) => found = stride
<1> DEFINE stride == Least(Page, size - c)
           found == Found(file, stride, offset + c)
<1>1. Page \in Nat /\ Page > 0 /\ Len(file) \in Nat /\ size - c \in Nat
  BY ReadAssumption, LenProperties
<1>2. stride \in Nat /\ stride <= size - c /\ (c # size => stride > 0)
  BY <1>1 DEF Least
<1> HIDE DEF stride
<1>3. CASE offset + c >= Len(file)
  <2>1. found = 0
    BY <1>3 DEF Found
  <2> QED BY <1>1, <1>2, <1>3, <2>1 DEF stride
<1>4. CASE ~(offset + c >= Len(file))
  <2>1. found = Least(stride, Len(file) - (offset + c))
    BY <1>4 DEF Found
  <2>2. found \in Nat /\ found <= stride /\ found <= Len(file) - (offset + c)
    BY <1>1, <1>2, <1>4, <2>1 DEF Least
  <2>3. offset + c + stride <= Len(file) => found = stride
    BY <1>1, <1>2, <1>4, <2>1 DEF Least
  <2> HIDE DEF found
  <2>4. found > 0 => offset + c + found <= Len(file)
    BY <1>1, <2>2
  <2> QED BY <1>2, <2>2, <2>3, <2>4 DEF stride, found
<1> QED BY <1>3, <1>4

\* The loop of ReadImpl ends, with a number and bytes that fit, wherever it begins;
\* and if all that was asked for is inside the file, with all of it.
LEMMA ReadLoopFits ==
    ASSUME NEW S, NEW file \in Seq(S), NEW size \in Nat, NEW offset \in Nat,
           Len(file) < Wide, offset < Wide
    PROVE  /\ Fits(ReadLoop(file, size, offset), file, size, offset)
           /\ offset + size <= Len(file) =>
                 ReadLoop(file, size, offset) = [count |-> size, valid |-> size]
<1> DEFINE left == (Len(file) + Wide - offset) % Wide
           stride(c) == Least(Page, size - c)
           found(c) == Found(file, stride(c), offset + c)
           Turn(f, c) ==
               IF c = size THEN [count |-> size, valid |-> size]
               ELSE IF c + stride(c) > left THEN [count |-> stride(c), valid |-> c]
               ELSE IF found(c) < stride(c) THEN [count |-> c + found(c), valid |-> c + found(c)]
               ELSE f[c + stride(c)]
           stops == {c \in 0 .. size : c = size \/ c + stride(c) > left \/ found(c) < stride(c)}
           end == [c \in 0 .. size |->
                     IF c = size THEN [count |-> size, valid |-> size]
                     ELSE IF c + stride(c) > left THEN [count |-> stride(c), valid |-> c]
                     ELSE [count |-> c + found(c), valid |-> c + found(c)]]
           goes == [c \in 0 .. size |-> c + stride(c)]
           V == [count : 0 .. size, valid : 0 .. size]
<1>1. /\ Page \in Nat \ {0} /\ Wide \in Nat \ {0} /\ Len(file) \in Nat
  BY ReadAssumption, LenProperties
<1>2. left \in Nat
  BY <1>1
<1>3. \A c \in 0 .. size :
         /\ stride(c) \in 0 .. size - c /\ (c # size => stride(c) > 0)
         /\ found(c) \in 0 .. stride(c)
         /\ found(c) > 0 => offset + c + found(c) <= Len(file)
         /\ offset + c + stride(c) <= Len(file) => found(c) = stride(c)
  <2> SUFFICES ASSUME NEW c \in 0 .. size
               PROVE  /\ stride(c) \in 0 .. size - c /\ (c # size => stride(c) > 0)
                      /\ found(c) \in 0 .. stride(c)
                      /\ found(c) > 0 => offset + c + found(c) <= Len(file)
                      /\ offset + c + stride(c) <= Len(file) => found(c) = stride(c)
    OBVIOUS
  <2>1. /\ stride(c) \in Nat /\ stride(c) <= size - c /\ (c # size => stride(c) > 0)
        /\ found(c) \in Nat /\ found(c) <= stride(c)
        /\ found(c) > 0 => offset + c + found(c) <= Len(file)
        /\ offset + c + stride(c) <= Len(file) => found(c) = stride(c)
    BY PageFits
  <2> HIDE DEF stride, found
  <2> QED BY <2>1
<1>4. (CHOOSE f : f = [c \in 0 .. size |-> Turn(f, c)])[0] = ReadLoop(file, size, offset)
  BY DEF ReadLoop
<1>5. \E f : f = [c \in 0 .. size |-> Turn(f, c)]
  <2>1. \A c \in 0 .. size : c \in stops => end[c] \in V
    BY <1>3
  <2>2. \A c \in 0 .. size : c \notin stops => goes[c] \in 0 .. size /\ c < goes[c]
    <3> SUFFICES ASSUME NEW c \in 0 .. size, c \notin stops PROVE goes[c] \in 0 .. size /\ c < goes[c]
      OBVIOUS
    <3>1. c # size /\ goes[c] = c + stride(c)
      OBVIOUS
    <3>2. stride(c) \in 0 .. size - c /\ stride(c) > 0
      BY <1>3, <3>1
    <3> HIDE DEF stride, goes, stops
    <3> QED BY <3>1, <3>2
  <2>3. \A f, c : c \in 0 .. size =>
           Turn(f, c) = IF c \in stops THEN end[c] ELSE f[goes[c]]
    OBVIOUS
  <2> HIDE DEF stops, end, goes, V, Turn
  <2>4. Ascends(size, V, stops, end, goes)
    BY <2>1, <2>2 DEF Ascends
  <2>6. PICK g : Computes(g, size, V, stops, end, goes)
    BY <2>4, LoopExists
  <2>7. g \in [0 .. size -> V] /\ \A c \in 0 .. size : g[c] = IF c \in stops THEN end[c] ELSE g[goes[c]]
    BY <2>6 DEF Computes
  <2>5. g = [c \in 0 .. size |-> Turn(g, c)]
    BY <2>3, <2>7
  <2> QED BY <2>5
<1>6. PICK f : /\ f = [c \in 0 .. size |-> Turn(f, c)]
               /\ f[0] = ReadLoop(file, size, offset)
  <2> HIDE DEF Turn
  <2> QED BY <1>4, <1>5
<1>7. \A c \in 0 .. size : f[c] = Turn(f, c)
  <2> HIDE DEF Turn
  <2> QED BY <1>6
\* From wherever all bytes before are inside the file, what follows fits.
<1> DEFINE Good(c) == (c = 0 \/ offset + c <= Len(file)) => Fits(f[c], file, size, offset)
           Steps == {k \in 0 .. size : \A c \in size - k .. size : Good(c)}
<1>8. ASSUME NEW c \in 0 .. size, c # size => \A d \in c + 1 .. size : Good(d)
      PROVE  Good(c)
  <2> SUFFICES ASSUME c = 0 \/ offset + c <= Len(file)
               PROVE  Fits(f[c], file, size, offset)
    OBVIOUS
  <2>1. CASE c = size
    <3>1. Turn(f, c) = [count |-> size, valid |-> size]
      <4> HIDE DEF stride, found, left
      <4> QED BY <2>1
    <3>2. f[c] = Turn(f, c)
      <4> HIDE DEF Turn
      <4> QED BY <1>7
    <3> HIDE DEF Turn, left, stride, found, stops, end, goes, V
    <3>3. f[c] = [count |-> size, valid |-> size]
      BY <3>1, <3>2
    <3> QED BY <1>1, <2>1, <3>3 DEF Fits
  <2> USE <1>3
  <2>2. CASE c # size /\ c + stride(c) > left
    <3>1. f[c] = [count |-> stride(c), valid |-> c]
      BY <1>7, <2>2
    <3>2. stride(c) \in 0 .. size - c
      OBVIOUS
    <3> HIDE DEF stride, left
    <3>3. [count |-> stride(c), valid |-> c] \in [count : 0 .. size, valid : 0 .. size]
      BY <3>2
    <3>4. \A i \in 1 .. stride(c) : i <= c => offset + i <= Len(file)
      BY <1>1, <3>2
    <3> QED BY <3>1, <3>3, <3>4 DEF Fits
  <2>3. CASE c # size /\ ~(c + stride(c) > left) /\ found(c) < stride(c)
    <3>1. f[c] = [count |-> c + found(c), valid |-> c + found(c)]
      BY <1>7, <2>3
    <3>2. /\ found(c) \in Nat /\ c + found(c) \in 0 .. size
          /\ found(c) > 0 => offset + c + found(c) <= Len(file)
      OBVIOUS
    <3> HIDE DEF stride, found, left
    <3>3. PICK n \in Nat : n = found(c)
      BY <3>2
    <3>4. \A i \in 1 .. c + n : offset + i <= Len(file)
      <4>1. CASE n = 0
        BY <1>1, <4>1
      <4>2. CASE n # 0
        <5>1. offset + c + n <= Len(file)
          BY <3>2, <3>3, <4>2
        <5>2. \A i \in 1 .. c + n : i \in Nat /\ i <= c + n
          OBVIOUS
        <5> QED BY <1>1, <5>1, <5>2
      <4> QED BY <4>1, <4>2
    <3> QED BY <3>1, <3>2, <3>3, <3>4 DEF Fits
  <2>4. CASE c # size /\ ~(c + stride(c) > left) /\ ~(found(c) < stride(c))
    <3>1. f[c] = f[c + stride(c)]
      BY <1>7, <2>4
    <3>2. /\ stride(c) \in 0 .. size - c /\ stride(c) > 0
          /\ found(c) \in 0 .. stride(c)
          /\ found(c) > 0 => offset + c + found(c) <= Len(file)
      BY <2>4
    <3> HIDE DEF stride, found, left
    <3>4. PICK n \in Nat : n = stride(c)
      BY <3>2
    <3>5. n > 0 /\ n <= size - c /\ offset + c + n <= Len(file)
      BY <2>4, <3>2, <3>4
    <3>6. c + n \in c + 1 .. size /\ offset + (c + n) <= Len(file)
      BY <1>1, <3>5
    <3>3. c + stride(c) \in c + 1 .. size /\ offset + (c + stride(c)) <= Len(file)
      BY <3>4, <3>6
    <3> QED BY <1>8, <2>4, <3>1, <3>3
  <2> QED BY <2>1, <2>2, <2>3, <2>4
<1> HIDE DEF Turn
<1>9. size \in Steps
  <2>1. 0 \in Steps
    <3>1. \A c \in size - 0 .. size : c = size /\ c \in 0 .. size
      OBVIOUS
    <3> HIDE DEF Good
    <3> QED BY <1>8, <3>1
  <2>2. ASSUME NEW k \in 0 .. size, k \in Steps, k < size
        PROVE  k + 1 \in Steps
    <3>1. \A c \in size - k .. size : Good(c)
      BY <2>2
    <3>2. \A c \in size - (k + 1) .. size : c \in 0 .. size /\ (c \in size - k .. size \/ c + 1 = size - k)
      BY <2>2
    <3> HIDE DEF Good
    <3>3. \A c \in size - (k + 1) .. size : Good(c)
      BY <1>8, <3>1, <3>2
    <3> QED BY <2>2, <3>3
  <2> HIDE DEF Steps
  <2>3. \A k \in 0 .. size : k \in Steps
    BY <2>1, <2>2, UpTo
  <2>4. size \in 0 .. size
    OBVIOUS
  <2> QED BY <2>3, <2>4
<1>10. Fits(f[0], file, size, offset)
  <2>1. 0 \in size - size .. size
    OBVIOUS
  <2> QED BY <1>9, <2>1
\* Inside the file no turn ends early.
<1>11. ASSUME offset + size <= Len(file)
       PROVE  f[0] = [count |-> size, valid |-> size]
  <2> DEFINE Full(c) == f[c] = [count |-> size, valid |-> size]
             Turns == {k \in 0 .. size : \A c \in size - k .. size : Full(c)}
  <2>1. left = Len(file) - offset
    <3>1. Len(file) + Wide - offset = (Len(file) - offset) + Wide /\ Len(file) - offset \in 0 .. Wide - 1
      BY <1>1, <1>11
    <3> QED BY <1>1, <3>1
  <2>2. ASSUME NEW c \in 0 .. size, c # size => \A d \in c + 1 .. size : Full(d)
        PROVE  Full(c)
    <3>1. CASE c = size
      BY <1>7, <3>1 DEF Turn
    <3>2. CASE c # size
      <4>1. stride(c) \in 0 .. size - c /\ stride(c) > 0 /\ (offset + c + stride(c) <= Len(file) => found(c) = stride(c))
        BY <1>3, <3>2
      <4>2. PICK n \in Nat : n = stride(c)
        BY <4>1
      <4>3. n > 0 /\ n <= size - c /\ offset + c + n <= Len(file)
        BY <1>1, <1>11, <4>1, <4>2
      <4>4. found(c) = n /\ ~(c + n > left)
        BY <1>1, <2>1, <4>1, <4>2, <4>3
      <4>5. f[c] = f[c + n]
        <5> HIDE DEF left, stride, found
        <5>1. ~(c + stride(c) > left) /\ ~(found(c) < stride(c))
          BY <4>2, <4>4
        <5>2. Turn(f, c) = f[c + stride(c)]
          BY <3>2, <5>1, Zenon DEF Turn
        <5> QED BY <1>7, <4>2, <5>2
      <4>6. c + n \in c + 1 .. size
        BY <4>3
      <4> HIDE DEF left, stride, found
      <4> QED BY <2>2, <3>2, <4>5, <4>6
    <3> QED BY <3>1, <3>2
  <2>3. 0 \in Turns
    <3>1. \A c \in size - 0 .. size : c = size /\ c \in 0 .. size
      OBVIOUS
    <3> HIDE DEF Full
    <3> QED BY <2>2, <3>1
  <2>4. ASSUME NEW k \in 0 .. size, k \in Turns, k < size
        PROVE  k + 1 \in Turns
    <3>1. \A c \in size - k .. size : Full(c)
      BY <2>4
    <3>2. \A c \in size - (k + 1) .. size : c \in 0 .. size /\ (c \in size - k .. size \/ c + 1 = size - k)
      BY <2>4
    <3> HIDE DEF Full
    <3>3. \A c \in size - (k + 1) .. size : Full(c)
      BY <2>2, <3>1, <3>2
    <3> QED BY <2>4, <3>3
  <2>5. \A k \in 0 .. size : k \in Turns
    <3> HIDE DEF Turns
    <3> QED BY <2>3, <2>4, UpTo
  <2>6. 0 \in size - size .. size /\ size \in 0 .. size
    OBVIOUS
  <2> QED BY <2>5, <2>6
<1> QED BY <1>6, <1>10, <1>11

\* What a caller gets: bytes of the file from the offset on, then zeros for what is
\* beyond the end; and what is all inside the file as it is.
IsRead(bytes, file, size, offset) ==
    /\ Len(bytes) \in 0 .. size
    /\ \A i \in 1 .. Len(bytes) :
          bytes[i] # 0 => offset + i <= Len(file) /\ bytes[i] = file[offset + i]
    /\ offset + size <= Len(file) =>
          Len(bytes) = size /\ \A i \in 1 .. size : bytes[i] = file[offset + i]

\* A read that lies in its file gives the bytes that are there.
LEMMA RegularReadFits ==
    ASSUME NEW S, NEW file \in Seq(S), NEW size \in Nat, NEW offset \in Nat,
           Len(file) < Wide, offset < Wide
    PROVE  /\ RegularRead(file, size, offset) \in Seq(S \cup {0})
           /\ IsRead(RegularRead(file, size, offset), file, size, offset)
<1> DEFINE read == ReadLoop(file, size, offset)
           bytes == RegularRead(file, size, offset)
<1>1. /\ Fits(read, file, size, offset)
      /\ offset + size <= Len(file) => read = [count |-> size, valid |-> size]
  BY ReadLoopFits
<1>2. bytes = [i \in 1 .. read.count |-> IF i <= read.valid THEN file[offset + i] ELSE 0]
  BY DEF RegularRead
<1> HIDE DEF read, bytes
<1>3. read.count \in 0 .. size /\ read.valid \in 0 .. size
  BY <1>1 DEF Fits
<1>4. \A i \in 1 .. read.count : i <= read.valid => offset + i \in 1 .. Len(file)
  <2>1. \A i \in 1 .. read.count : i <= read.valid => offset + i <= Len(file)
    BY <1>1 DEF Fits
  <2> QED BY <1>3, <2>1, LenProperties
<1>5. \A i \in 1 .. Len(file) : file[i] \in S
  BY ElementOfSeq
<1>6. \A i \in 1 .. read.count : bytes[i] = IF i <= read.valid THEN file[offset + i] ELSE 0
  BY <1>2
<1>7. \A i \in 1 .. read.count : bytes[i] \in S \cup {0}
  BY <1>4, <1>5, <1>6
<1>8. bytes \in Seq(S \cup {0}) /\ Len(bytes) = read.count
  <2>1. bytes \in [1 .. read.count -> S \cup {0}]
    BY <1>2, <1>7
  <2> QED BY <1>3, <2>1
<1>9. offset + size <= Len(file) => \A i \in 1 .. size : bytes[i] = file[offset + i]
  BY <1>1, <1>3, <1>6
<1>10. offset + size <= Len(file) => read.count = size
  BY <1>1
<1>11. IsRead(bytes, file, size, offset)
  BY <1>3, <1>4, <1>6, <1>8, <1>9, <1>10 DEF IsRead
<1> QED BY <1>8, <1>11 DEF bytes
-----------------------------------------------------------------------------
\* Division of naturals.
LEMMA Division ==
    ASSUME NEW b \in Nat \ {0}, NEW n \in Nat
    PROVE  \E q \in Nat, r \in 0 .. b - 1 : n = (q * b) + r /\ n % b = r /\ n \div b = q
<1>1. n \div b \in Nat /\ n % b \in 0 .. b - 1
  OBVIOUS
<1>2. n = (b * (n \div b)) + (n % b)
  OBVIOUS
<1>3. n = ((n \div b) * b) + (n % b)
  BY <1>1, <1>2
<1> QED BY <1>1, <1>3

\* A number below the modulus is its own remainder.
LEMMA OwnRemainder ==
    ASSUME NEW b \in Nat \ {0}, NEW n \in Nat, n < b
    PROVE  n % b = n
<1>1. PICK q \in Nat, r \in 0 .. b - 1 : n = (q * b) + r /\ n % b = r
  BY Division
<1>2. q = 0
  <2>1. SUFFICES ASSUME q # 0 PROVE FALSE
    OBVIOUS
  <2>2. PICK k \in Nat : q = k + 1
    <3>1. q - 1 \in Nat /\ q = (q - 1) + 1
      BY <2>1
    <3> QED BY <3>1
  <2>3. q * b = (k * b) + b /\ k * b \in Nat
    BY <2>2
  <2> QED BY <1>1, <2>3
<1> QED BY <1>1, <1>2

\* Multiples of a block.
LEMMA Multiples ==
    ASSUME NEW b \in Nat \ {0}
    PROVE  /\ \A n \in Nat : n - (n % b) \in Nat /\ (n - (n % b)) % b = 0 /\ n % b \in 0 .. b - 1
           /\ \A n \in Nat : n % b = 0 => (n \div b) * b = n
           /\ \A m, n \in Nat : m % b = 0 /\ n % b = 0 => (m + n) % b = 0
<1>1. ASSUME NEW n \in Nat
      PROVE  /\ n % b \in 0 .. b - 1 /\ n % b <= n /\ (n - (n % b)) % b = 0
             /\ n % b = 0 => (n \div b) * b = n
             /\ n \div b \in Nat
  <2>1. PICK q \in Nat, r \in 0 .. b - 1 : n = (q * b) + r /\ n % b = r /\ n \div b = q
    BY Division
  <2>2. n - r = q * b /\ q * b \in Nat
    BY <2>1
  <2>3. (q * b) % b = 0
    OBVIOUS
  <2>4. (n - (n % b)) % b = 0
    BY <2>1, <2>2, <2>3
  <2>5. r <= n /\ (r = 0 => n = q * b)
    BY <2>1, <2>2
  <2> QED BY <2>1, <2>4, <2>5
<1>2. ASSUME NEW m \in Nat, NEW n \in Nat, m % b = 0, n % b = 0
      PROVE  (m + n) % b = 0
  <2>1. PICK p \in Nat : m = p * b
    BY <1>1, <1>2
  <2>2. PICK q \in Nat : n = q * b
    BY <1>1, <1>2
  <2>3. m + n = (p + q) * b
    BY <2>1, <2>2
  <2>4. \A k \in Nat : (k * b) % b = 0
    OBVIOUS
  <2>5. p + q \in Nat
    OBVIOUS
  <2> QED BY <2>3, <2>4, <2>5
<1>3. \A n \in Nat : n % b \in 0 .. b - 1 /\ n % b <= n
  BY <1>1
<1>4. \A n \in Nat : n - (n % b) \in Nat
  BY <1>3
<1> QED BY <1>1, <1>2, <1>3, <1>4

\* What is masked twice at the same place is what it was.
LEMMA MaskTwice ==
    ASSUME NEW byte, NEW key, NEW offset
    PROVE  Mask(Mask(byte, key, offset), key, offset) = byte
BY DEF Mask

\* A read of a section decrypts what is stored from the offset on with the number of
\* its block and its place in it, although only whole blocks have a counter: for
\* every offset in the section, which starts with a block of the archive.
THEOREM CounterReadDecrypts ==
    ASSUME NEW S, NEW file \in Seq(S), Len(file) < Wide,
           NEW part, part.starts \in Nat,
           NEW section, section.starts \in Nat, section.starts % CtrBlock = 0,
           NEW size \in Nat \ {0}, NEW offset \in Nat,
           part.starts + section.starts + offset + size <= Len(file)
    PROVE  CounterRead(file, part, section, size, offset) =
               [i \in 1 .. size |->
                   Mask(file[part.starts + section.starts + offset + i], section.key,
                        section.starts + offset + i - 1)]
<1> DEFINE padding == offset % CtrBlock
           start == offset - padding + section.starts
           bytes == LayeredRead(file, part, size + padding, start)
<1>1. CtrBlock \in Nat \ {0} /\ Wide \in Nat /\ Len(file) \in Nat
  BY CounterAssumption, ReadAssumption, LenProperties
<1>2. /\ padding \in Nat /\ offset - padding \in Nat
      /\ start \in Nat /\ (start \div CtrBlock) * CtrBlock = start
  <2>1. padding \in Nat /\ offset - padding \in Nat /\ (offset - padding) % CtrBlock = 0
    <3>1. \A n \in Nat : /\ n - (n % CtrBlock) \in Nat /\ (n - (n % CtrBlock)) % CtrBlock = 0
                         /\ n % CtrBlock \in 0 .. CtrBlock - 1
      BY <1>1, Multiples
    <3>2. /\ offset - (offset % CtrBlock) \in Nat /\ (offset - (offset % CtrBlock)) % CtrBlock = 0
          /\ offset % CtrBlock \in 0 .. CtrBlock - 1
      BY <3>1, Zenon
    <3>3. padding = offset % CtrBlock
      OBVIOUS
    <3> HIDE DEF padding
    <3>4. padding \in 0 .. CtrBlock - 1
      BY <3>2, <3>3
    <3>5. offset - padding \in Nat
      BY <3>2, <3>3
    <3>6. (offset - padding) % CtrBlock = 0
      BY <3>2, <3>3
    <3> QED BY <3>4, <3>5, <3>6
  <2> HIDE DEF padding
  <2>2. ((offset - padding) + section.starts) % CtrBlock = 0
    BY <1>1, <2>1, Multiples
  <2>3. start \in Nat
    BY <2>1
  <2> QED BY <1>1, <2>1, <2>2, <2>3, Multiples
<1>3. CounterRead(file, part, section, size, offset) =
          [i \in 1 .. Len(bytes) - padding |->
              Mask(bytes[padding + i], section.key, (start \div CtrBlock) * CtrBlock + (padding + i - 1))]
  BY DEF CounterRead
<1>4. bytes = RegularRead(file, size + padding, part.starts + start)
  BY DEF LayeredRead
<1> HIDE DEF padding, bytes
<1>6. /\ size + padding \in Nat /\ part.starts + start \in Nat /\ part.starts + start < Wide
      /\ part.starts + start + (size + padding) <= Len(file)
  <2>1. start + (size + padding) = section.starts + offset + size
    BY <1>2
  <2> HIDE DEF start
  <2>2. part.starts + start + (size + padding) = part.starts + section.starts + offset + size
    <3>1. PICK p, q, n, o \in Nat : p = part.starts /\ q = section.starts /\ n = size + padding /\ o = start
      BY <1>2
    <3>2. o + n = q + offset + size
      BY <2>1, <3>1
    <3>3. p + o + n = p + q + offset + size
      BY <3>2
    <3> QED BY <3>1, <3>3
  <2> QED BY <1>1, <1>2, <2>2
<1>7. /\ Len(bytes) = size + padding
      /\ \A i \in 1 .. size + padding : bytes[i] = file[part.starts + start + i]
  <2> HIDE DEF start
  <2>1. PICK n, o \in Nat : n = size + padding /\ o = part.starts + start
    BY <1>6
  <2>2. o < Wide /\ o + n <= Len(file)
    BY <1>6, <2>1
  <2>3. IsRead(RegularRead(file, n, o), file, n, o)
    BY <1>1, <2>2, RegularReadFits
  <2>4. /\ Len(RegularRead(file, n, o)) = n
        /\ \A i \in 1 .. n : RegularRead(file, n, o)[i] = file[o + i]
    BY <2>2, <2>3 DEF IsRead
  <2> QED BY <1>4, <2>1, <2>4
<1>8. Len(bytes) - padding = size
  BY <1>2, <1>7
<1>9. \A i \in 1 .. size :
         /\ bytes[padding + i] = file[part.starts + section.starts + offset + i]
         /\ (start \div CtrBlock) * CtrBlock + (padding + i - 1) = section.starts + offset + i - 1
  <2> SUFFICES ASSUME NEW i \in 1 .. size
               PROVE  /\ bytes[padding + i] = file[part.starts + section.starts + offset + i]
                      /\ (start \div CtrBlock) * CtrBlock + (padding + i - 1) = section.starts + offset + i - 1
    OBVIOUS
  <2>1. padding + i \in 1 .. size + padding
    BY <1>2
  <2>2. part.starts + start + (padding + i) = part.starts + section.starts + offset + i
    BY <1>2
  <2>3. start + (padding + i - 1) = section.starts + offset + i - 1
    BY <1>2
  <2> QED BY <1>2, <1>7, <2>1, <2>2, <2>3
<1> QED BY <1>3, <1>8, <1>9
-----------------------------------------------------------------------------
\* The function by which FlattenSeq joins the sequences up to the n-th.
Joins(f, seqs, n) ==
    f = [i \in 1 .. n |-> IF i = 1 THEN seqs[i] ELSE f[i - 1] \o seqs[i]]

\* There is one, and its values are sequences.
LEMMA JoinExists ==
    ASSUME NEW S, NEW n \in Nat \ {0}, NEW seqs \in [1 .. n -> Seq(S)]
    PROVE  \E f \in [1 .. n -> Seq(S)] : Joins(f, seqs, n)
<1> DEFINE Turn(f, i) == IF i = 1 THEN seqs[i] ELSE f[i - 1] \o seqs[i]
           Good(k) == \E f \in [1 .. k -> Seq(S)] : \A i \in 1 .. k : f[i] = Turn(f, i)
           Ks == {k \in 0 .. n : Good(k)}
<1>1. 0 \in Ks
  <2>1. [i \in 1 .. 0 |-> <<>>] \in [1 .. 0 -> Seq(S)] /\ \A i \in 1 .. 0 : FALSE
    OBVIOUS
  <2>2. Good(0)
    BY <2>1
  <2>3. 0 \in 0 .. n
    OBVIOUS
  <2> HIDE DEF Good
  <2> QED BY <2>2, <2>3
<1>2. ASSUME NEW k \in 0 .. n, k \in Ks, k < n
      PROVE  k + 1 \in Ks
  <2>1. PICK h \in [1 .. k -> Seq(S)] : \A i \in 1 .. k : h[i] = Turn(h, i)
    BY <1>2
  <2> DEFINE f == [i \in 1 .. k + 1 |-> IF i = k + 1 THEN Turn(h, k + 1) ELSE h[i]]
  <2>2. \A i \in 1 .. k + 1 : i = k + 1 \/ i \in 1 .. k
    OBVIOUS
  <2>3. Turn(h, k + 1) \in Seq(S)
    <3>1. CASE k = 0
      BY <1>2, <3>1
    <3>2. CASE k # 0
      <4>1. k + 1 # 1 /\ (k + 1) - 1 = k /\ k \in 1 .. k /\ k + 1 \in 1 .. n
        BY <1>2, <3>2
      <4>2. h[k] \in Seq(S) /\ seqs[k + 1] \in Seq(S)
        BY <2>1, <4>1
      <4>3. h[k] \o seqs[k + 1] \in Seq(S)
        BY <4>2
      <4> QED BY <4>1, <4>3
    <3> QED BY <3>1, <3>2
  <2>4. f \in [1 .. k + 1 -> Seq(S)]
    <3> HIDE DEF Turn
    <3> QED BY <2>1, <2>2, <2>3
  <2>5. \A i \in 1 .. k + 1 : f[i] = Turn(f, i)
    <3> SUFFICES ASSUME NEW i \in 1 .. k + 1 PROVE f[i] = Turn(f, i)
      OBVIOUS
    <3>1. i # 1 => i - 1 \in 1 .. k
      OBVIOUS
    <3>2. i # 1 => f[i - 1] = h[i - 1]
      BY <3>1
    <3>3. Turn(f, i) = Turn(h, i)
      BY <3>2
    <3>4. f[i] = Turn(h, i)
      <4>1. CASE i = k + 1
        BY <4>1
      <4>2. CASE i # k + 1
        <5>1. i \in 1 .. k
          BY <2>2, <4>2
        <5> QED BY <2>1, <4>2, <5>1
      <4> QED BY <4>1, <4>2
    <3> QED BY <3>3, <3>4
  <2>6. Good(k + 1)
    BY <2>4, <2>5
  <2>7. k + 1 \in 0 .. n
    BY <1>2
  <2> HIDE DEF Good
  <2> QED BY <2>6, <2>7
<1>3. n \in Ks
  <2> HIDE DEF Ks
  <2>1. \A k \in 0 .. n : k \in Ks
    BY <1>1, <1>2, UpTo
  <2> QED BY <2>1
<1>4. PICK f \in [1 .. n -> Seq(S)] : \A i \in 1 .. n : f[i] = Turn(f, i)
  BY <1>3
<1>5. Joins(f, seqs, n)
  BY <1>4 DEF Joins
<1> QED BY <1>5

\* Two functions are the same up to n.
Agree(f, g, n) == \A i \in 1 .. n : f[i] = g[i]

\* What is joined depends on the sequences joined only.
LEMMA JoinsAgree ==
    ASSUME NEW f, NEW g, NEW few, NEW many, NEW n \in Nat, NEW m \in 0 .. n,
           Joins(f, few, m), Joins(g, many, n), Agree(few, many, m)
    PROVE  Agree(f, g, m)
<1> DEFINE Ks == {k \in 0 .. m : k # 0 => f[k] = g[k]}
<1>1. /\ \A i \in 1 .. m : f[i] = IF i = 1 THEN few[i] ELSE f[i - 1] \o few[i]
      /\ \A i \in 1 .. n : g[i] = IF i = 1 THEN many[i] ELSE g[i - 1] \o many[i]
  BY DEF Joins
<1>2. 0 \in Ks /\ \A i \in 1 .. m : few[i] = many[i]
  BY DEF Agree
<1>3. ASSUME NEW k \in 0 .. m, k \in Ks, k < m
      PROVE  k + 1 \in Ks
  <2>1. k + 1 \in 1 .. m /\ k + 1 \in 1 .. n /\ (k + 1) - 1 = k /\ (k # 0 => k + 1 # 1)
    BY <1>3
  <2>2. f[k + 1] = g[k + 1]
    <3>1. CASE k = 0
      BY <1>1, <1>2, <2>1, <3>1
    <3>2. CASE k # 0
      BY <1>1, <1>2, <1>3, <2>1, <3>2
    <3> QED BY <3>1, <3>2
  <2> QED BY <2>1, <2>2
<1>4. \A k \in 0 .. m : k \in Ks
  <2> HIDE DEF Ks
  <2> QED BY <1>2, <1>3, UpTo
<1> QED BY <1>4 DEF Agree

\* FlattenSeq is the value of such a function.
LEMMA FlattenJoins ==
    ASSUME NEW S, NEW m \in Nat \ {0}, NEW seqs \in [1 .. m -> Seq(S)]
    PROVE  \E f \in [1 .. m -> Seq(S)] : Joins(f, seqs, m) /\ FlattenSeq(seqs) = f[m]
<1>1. Len(seqs) = m /\ Len(seqs) # 0
  OBVIOUS
<1> DEFINE g == CHOOSE f : f = [i \in 1 .. Len(seqs) |-> IF i = 1 THEN seqs[i] ELSE f[i - 1] \o seqs[i]]
<1>2. FlattenSeq(seqs) = g[Len(seqs)]
  BY <1>1 DEF FlattenSeq
<1>3. PICK h \in [1 .. m -> Seq(S)] : Joins(h, seqs, m)
  BY JoinExists
<1>4. Joins(g, seqs, m)
  BY <1>1, <1>3 DEF Joins
<1>5. Agree(g, h, m)
  <2>1. Agree(seqs, seqs, m) /\ m \in 0 .. m
    BY DEF Agree
  <2> HIDE DEF g
  <2> QED BY <1>3, <1>4, <2>1, JoinsAgree
<1> HIDE DEF g
<1>6. FlattenSeq(seqs) = h[m]
  BY <1>1, <1>2, <1>5 DEF Agree
<1> QED BY <1>3, <1>6

\* FlattenSeq joins all but the last sequence with the last one.
LEMMA FlattenExtends ==
    ASSUME NEW S, NEW n \in Nat \ {0}, NEW few \in [1 .. n - 1 -> Seq(S)],
           NEW many \in [1 .. n -> Seq(S)], Agree(few, many, n - 1)
    PROVE  FlattenSeq(many) \in Seq(S) /\ FlattenSeq(many) = FlattenSeq(few) \o many[n]
<1>1. ASSUME NEW m \in Nat \ {0}, NEW seqs \in [1 .. m -> Seq(S)]
      PROVE  \E f \in [1 .. m -> Seq(S)] : Joins(f, seqs, m) /\ FlattenSeq(seqs) = f[m]
  BY FlattenJoins
<1>2. PICK g \in [1 .. n -> Seq(S)] : Joins(g, many, n) /\ FlattenSeq(many) = g[n]
  BY <1>1
<1>3. g[n] = IF n = 1 THEN many[n] ELSE g[n - 1] \o many[n]
  <2>1. n \in 1 .. n
    OBVIOUS
  <2> QED BY <1>2, <2>1 DEF Joins
<1>4. CASE n = 1
  <2>1. few = <<>> /\ Len(few) = 0
    BY <1>4
  <2>2. FlattenSeq(few) = <<>>
    BY <2>1 DEF FlattenSeq
  <2>3. many[n] \in Seq(S)
    OBVIOUS
  <2> QED BY <1>2, <1>3, <1>4, <2>2, <2>3, ConcatEmptySeq
<1>5. CASE n # 1
  <2>1. n - 1 \in Nat \ {0} /\ n - 1 \in 1 .. n - 1 /\ n - 1 \in 0 .. n
    BY <1>5
  <2>2. PICK f \in [1 .. n - 1 -> Seq(S)] : Joins(f, few, n - 1) /\ FlattenSeq(few) = f[n - 1]
    BY <1>1, <2>1
  <2>3. Agree(f, g, n - 1)
    BY <1>2, <2>1, <2>2, JoinsAgree
  <2>4. f[n - 1] = g[n - 1]
    BY <2>1, <2>3 DEF Agree
  <2>5. FlattenSeq(many) = FlattenSeq(few) \o many[n]
    BY <1>2, <1>3, <1>5, <2>2, <2>4
  <2>6. g[n] \in Seq(S)
    OBVIOUS
  <2> QED BY <1>2, <2>5, <2>6
<1> QED BY <1>4, <1>5

\* What sequences that are joined have is what one of them has.
Holds(seqs, n, v) == \E k \in 1 .. n : \E i \in 1 .. Len(seqs[k]) : seqs[k][i] = v
Has(s, v) == \E i \in 1 .. Len(s) : s[i] = v

\* The elements of two sequences are those of one and the other joined.
LEMMA ConcatHas ==
    ASSUME NEW T, NEW s \in Seq(T), NEW t \in Seq(T), NEW v
    PROVE  s \o t \in Seq(T) /\ (Has(s \o t, v) <=> Has(s, v) \/ Has(t, v))
<1>1. PICK q : q = s \o t
  OBVIOUS
<1>2. /\ q \in Seq(T) /\ Len(q) = Len(s) + Len(t) /\ Len(s) \in Nat /\ Len(t) \in Nat
      /\ \A i \in 1 .. Len(q) : q[i] = IF i <= Len(s) THEN s[i] ELSE t[i - Len(s)]
  BY <1>1, ConcatProperties, LenProperties
<1>3. ASSUME NEW i \in 1 .. Len(q), q[i] = v
      PROVE  Has(s, v) \/ Has(t, v)
  <2>1. CASE i <= Len(s)
    BY <1>2, <1>3, <2>1 DEF Has
  <2>2. CASE ~(i <= Len(s))
    <3>1. i - Len(s) \in 1 .. Len(t)
      BY <1>2, <2>2
    <3> QED BY <1>2, <1>3, <2>2, <3>1 DEF Has
  <2> QED BY <2>1, <2>2
<1>4. ASSUME NEW i \in 1 .. Len(s), s[i] = v
      PROVE  Has(q, v)
  <2>1. i \in 1 .. Len(q) /\ i <= Len(s)
    BY <1>2
  <2> QED BY <1>2, <1>4, <2>1 DEF Has
<1>5. ASSUME NEW i \in 1 .. Len(t), t[i] = v
      PROVE  Has(q, v)
  <2>1. Len(s) + i \in 1 .. Len(q) /\ ~(Len(s) + i <= Len(s)) /\ (Len(s) + i) - Len(s) = i
    BY <1>2
  <2>2. q[Len(s) + i] = v
    BY <1>2, <1>5, <2>1
  <2> QED BY <2>1, <2>2 DEF Has
<1>6. Has(q, v) <=> Has(s, v) \/ Has(t, v)
  BY <1>3, <1>4, <1>5 DEF Has
<1> QED BY <1>1, <1>2, <1>6

\* The elements of many sequences are those of all of them joined.
LEMMA FlattenHas ==
    ASSUME NEW T, NEW n \in Nat, NEW seqs \in [1 .. n -> Seq(T)]
    PROVE  FlattenSeq(seqs) \in Seq(T) /\ \A v : Has(FlattenSeq(seqs), v) <=> Holds(seqs, n, v)
<1>1. CASE n = 0
  <2>1. Len(seqs) = 0 /\ seqs = <<>>
    BY <1>1
  <2>2. FlattenSeq(seqs) = <<>>
    BY <2>1 DEF FlattenSeq
  <2> QED BY <1>1, <2>2 DEF Has, Holds
<1>2. CASE n # 0
  <2>1. PICK f \in [1 .. n -> Seq(T)] : Joins(f, seqs, n) /\ FlattenSeq(seqs) = f[n]
    BY <1>2, FlattenJoins
  <2>2. \A i \in 1 .. n : f[i] = IF i = 1 THEN seqs[i] ELSE f[i - 1] \o seqs[i]
    BY <2>1 DEF Joins
  <2> DEFINE Ks == {k \in 0 .. n : k # 0 => \A v : Has(f[k], v) <=> Holds(seqs, k, v)}
  <2>3. 0 \in Ks
    OBVIOUS
  <2>4. ASSUME NEW k \in 0 .. n, k \in Ks, k < n
        PROVE  k + 1 \in Ks
    <3>1. k + 1 \in 1 .. n /\ k + 1 \in 0 .. n /\ (k + 1) - 1 = k /\ (k # 0 => k + 1 # 1 /\ k \in 1 .. n)
      BY <2>4
    <3>2. ASSUME NEW v
          PROVE  Holds(seqs, k + 1, v) <=> Holds(seqs, k, v) \/ Has(seqs[k + 1], v)
      <4>1. \A j \in 1 .. k + 1 : j = k + 1 \/ j \in 1 .. k
        OBVIOUS
      <4>2. k + 1 \in 1 .. k + 1 /\ \A j \in 1 .. k : j \in 1 .. k + 1
        OBVIOUS
      <4> QED BY <4>1, <4>2 DEF Holds, Has
    <3>3. ASSUME NEW v
          PROVE  Has(f[k + 1], v) <=> Holds(seqs, k + 1, v)
      <4>1. CASE k = 0
        <5>1. f[k + 1] = seqs[k + 1]
          BY <2>2, <3>1, <4>1
        <5>2. ~Holds(seqs, k, v)
          BY <4>1 DEF Holds
        <5> QED BY <3>2, <5>1, <5>2
      <4>2. CASE k # 0
        <5>1. f[k + 1] = f[k] \o seqs[k + 1] /\ f[k] \in Seq(T) /\ seqs[k + 1] \in Seq(T)
          BY <2>2, <3>1, <4>2
        <5>2. Has(f[k], v) <=> Holds(seqs, k, v)
          BY <2>4, <4>2
        <5>3. Has(f[k] \o seqs[k + 1], v) <=> Has(f[k], v) \/ Has(seqs[k + 1], v)
          BY <5>1, ConcatHas
        <5> QED BY <3>2, <5>1, <5>2, <5>3
      <4> QED BY <4>1, <4>2
    <3> QED BY <3>1, <3>3
  <2>5. n \in Ks
    <3> HIDE DEF Ks
    <3>1. \A k \in 0 .. n : k \in Ks
      BY <2>3, <2>4, UpTo
    <3> QED BY <3>1
  <2>6. n \in 1 .. n
    BY <1>2
  <2> QED BY <1>2, <2>1, <2>5, <2>6
<1> QED BY <1>1, <1>2
-----------------------------------------------------------------------------
\* A link leads to the first of some entries, or nowhere when there are none.
Leads(link, entries) ==
    IF entries = {} THEN link = Nothing
    ELSE link \in entries /\ \A e \in entries : link <= e

\* FirstOf gives such a link.
LEMMA FirstLeads ==
    ASSUME NEW entries \in SUBSET Nat
    PROVE  Leads(FirstOf(entries), entries)
<1>1. CASE entries = {}
  BY <1>1 DEF FirstOf, Leads
<1>2. CASE entries # {}
  <2>1. FirstOf(entries) = CHOOSE x \in entries : \A y \in entries : x <= y
    BY <1>2 DEF FirstOf, Min
  <2>2. \E x \in entries : \A y \in entries : x <= y
    BY <1>2, LeastNatural
  <2>3. FirstOf(entries) \in entries /\ \A y \in entries : FirstOf(entries) <= y
    BY <2>1, <2>2
  <2> QED BY <1>2, <2>3 DEF Leads
<1> QED BY <1>1, <1>2

\* The tables of an image: each entry is below a directory with a lower offset, the
\* entries below one directory have different names, and the links go through them in
\* the order of their offsets.
WellFormed(tables, n, m) ==
    LET dirs == tables.dirs
        files == tables.files
    IN /\ n \in Nat /\ m \in Nat /\ DOMAIN dirs = 0 .. n /\ DOMAIN files = 1 .. m
       /\ dirs[0].parent = 0 /\ dirs[0].name = <<>> /\ dirs[0].sibling = Nothing
       /\ \A d \in 1 .. n : /\ dirs[d].parent \in 0 .. d - 1
                            /\ \E name \in EntryName : dirs[d].name = <<name>>
                            /\ Leads(dirs[d].sibling, {e \in d + 1 .. n : dirs[e].parent = dirs[d].parent})
       /\ \A d, e \in 1 .. n : dirs[d].parent = dirs[e].parent /\ dirs[d].name = dirs[e].name => d = e
       /\ \A d \in 0 .. n : /\ Leads(dirs[d].child, {e \in 1 .. n : dirs[e].parent = d})
                            /\ Leads(dirs[d].file, {f \in 1 .. m : files[f].parent = d})
       /\ \A f \in 1 .. m : /\ files[f].parent \in 0 .. n
                            /\ \E name \in EntryName : files[f].name = <<name>>
                            /\ Leads(files[f].sibling, {e \in f + 1 .. m : files[e].parent = files[f].parent})
       /\ \A f, e \in 1 .. m : files[f].parent = files[e].parent /\ files[f].name = files[e].name => f = e

\* Every image of Images is well formed.
LEMMA ImageIs ==
    ASSUME NEW tables \in Images
    PROVE  \E n, m \in Nat : WellFormed(tables, n, m)
<1>1. PICK n \in 0 .. MaxDirectories, m \in 0 .. MaxFiles :
          \E dirs \in {e \in Entries(n, 0 .. n) : \A d \in 1 .. n : e[d].parent < d} :
             \E files \in Entries(m, 0 .. n) : tables = Tables(dirs, files)
  BY DEF Images
<1>2. PICK dirs \in Entries(n, 0 .. n), files \in Entries(m, 0 .. n) :
          tables = Tables(dirs, files) /\ \A d \in 1 .. n : dirs[d].parent < d
  BY <1>1
<1>3. n \in Nat /\ m \in Nat
  BY RomFsAssumption
<1>4. /\ dirs \in [1 .. n -> [parent : 0 .. n, name : EntryName]]
      /\ files \in [1 .. m -> [parent : 0 .. n, name : EntryName]]
      /\ \A i, j \in 1 .. n : i # j => dirs[i] # dirs[j]
      /\ \A i, j \in 1 .. m : i # j => files[i] # files[j]
  BY DEF Entries
<1>5. Len(dirs) = n /\ Len(files) = m
  BY <1>3, <1>4
<1> DEFINE Below(entries, d) == {i \in DOMAIN entries : entries[i].parent = d}
           After(entries, i) == FirstOf({j \in Below(entries, entries[i].parent) : j > i})
<1>6. /\ tables.dirs = [d \in 0 .. n |->
                           [parent  |-> IF d = 0 THEN 0 ELSE dirs[d].parent,
                            name    |-> IF d = 0 THEN <<>> ELSE <<dirs[d].name>>,
                            sibling |-> IF d = 0 THEN Nothing ELSE After(dirs, d),
                            child   |-> FirstOf(Below(dirs, d)),
                            file    |-> FirstOf(Below(files, d))]]
      /\ tables.files = [f \in 1 .. m |->
                           [parent  |-> files[f].parent,
                            name    |-> <<files[f].name>>,
                            sibling |-> After(files, f)]]
  BY <1>2, <1>5 DEF Tables
<1>7. ASSUME NEW d \in 1 .. n
      PROVE  /\ tables.dirs[d].parent = dirs[d].parent /\ tables.dirs[d].name = <<dirs[d].name>>
             /\ tables.dirs[d].sibling = After(dirs, d)
  BY <1>3, <1>6
<1>8. ASSUME NEW d \in 0 .. n
      PROVE  tables.dirs[d].child = FirstOf(Below(dirs, d)) /\ tables.dirs[d].file = FirstOf(Below(files, d))
  BY <1>6
<1>9. ASSUME NEW f \in 1 .. m
      PROVE  /\ tables.files[f].parent = files[f].parent /\ tables.files[f].name = <<files[f].name>>
             /\ tables.files[f].sibling = After(files, f)
  BY <1>6
<1>10. /\ DOMAIN tables.dirs = 0 .. n /\ DOMAIN tables.files = 1 .. m
       /\ tables.dirs[0].parent = 0 /\ tables.dirs[0].name = <<>> /\ tables.dirs[0].sibling = Nothing
  BY <1>3, <1>6
<1>11. ASSUME NEW d \in 1 .. n
       PROVE  /\ tables.dirs[d].parent \in 0 .. d - 1
              /\ \E name \in EntryName : tables.dirs[d].name = <<name>>
              /\ Leads(tables.dirs[d].sibling,
                       {e \in d + 1 .. n : tables.dirs[e].parent = tables.dirs[d].parent})
  <2>1. dirs[d].parent \in 0 .. n /\ dirs[d].parent < d /\ dirs[d].name \in EntryName
    BY <1>2, <1>4
  <2>2. {j \in Below(dirs, dirs[d].parent) : j > d} = {e \in d + 1 .. n : tables.dirs[e].parent = tables.dirs[d].parent}
    <3>1. \A e \in 1 .. n : e > d <=> e \in d + 1 .. n
      BY <1>3
    <3>2. DOMAIN dirs = 1 .. n /\ d + 1 .. n \subseteq 1 .. n
      BY <1>3, <1>4
    <3>3. \A e \in 1 .. n : tables.dirs[e].parent = dirs[e].parent
      BY <1>7
    <3> QED BY <3>1, <3>2, <3>3
  <2>3. Leads(After(dirs, d), {j \in Below(dirs, dirs[d].parent) : j > d})
    <3>1. {j \in Below(dirs, dirs[d].parent) : j > d} \in SUBSET Nat
      BY <1>3, <1>4
    <3> QED BY <3>1, FirstLeads
  <2>4. dirs[d].parent \in 0 .. d - 1
    BY <1>3, <2>1
  <2> HIDE DEF Below, After
  <2> QED BY <1>7, <2>1, <2>2, <2>3, <2>4
<1>12. ASSUME NEW d \in 1 .. n, NEW e \in 1 .. n, tables.dirs[d].parent = tables.dirs[e].parent,
              tables.dirs[d].name = tables.dirs[e].name
       PROVE  d = e
  <2>1. dirs[d].parent = dirs[e].parent /\ <<dirs[d].name>> = <<dirs[e].name>>
    BY <1>7, <1>12
  <2>2. dirs[d] = dirs[e]
    <3>1. dirs[d].name = dirs[e].name
      BY <2>1
    <3>2. PICK a, b : a = dirs[d] /\ b = dirs[e]
      OBVIOUS
    <3>3. /\ a \in [parent : 0 .. n, name : EntryName] /\ b \in [parent : 0 .. n, name : EntryName]
          /\ a.parent = b.parent /\ a.name = b.name
      BY <1>4, <2>1, <3>1, <3>2
    <3>4. a = b
      BY <3>3
    <3> QED BY <3>2, <3>4
  <2> QED BY <1>4, <2>2
<1>13. ASSUME NEW d \in 0 .. n
       PROVE  /\ Leads(tables.dirs[d].child, {e \in 1 .. n : tables.dirs[e].parent = d})
              /\ Leads(tables.dirs[d].file, {f \in 1 .. m : tables.files[f].parent = d})
  <2>1. Below(dirs, d) = {e \in 1 .. n : tables.dirs[e].parent = d}
    BY <1>4, <1>7
  <2>2. Below(files, d) = {f \in 1 .. m : tables.files[f].parent = d}
    BY <1>4, <1>9
  <2>3. Below(dirs, d) \in SUBSET Nat /\ Below(files, d) \in SUBSET Nat
    BY <1>3, <1>4
  <2> HIDE DEF Below
  <2> QED BY <1>8, <2>1, <2>2, <2>3, FirstLeads
<1>14. ASSUME NEW f \in 1 .. m
       PROVE  /\ tables.files[f].parent \in 0 .. n
              /\ \E name \in EntryName : tables.files[f].name = <<name>>
              /\ Leads(tables.files[f].sibling,
                       {e \in f + 1 .. m : tables.files[e].parent = tables.files[f].parent})
  <2>1. files[f].parent \in 0 .. n /\ files[f].name \in EntryName
    BY <1>4
  <2>2. {j \in Below(files, files[f].parent) : j > f} = {e \in f + 1 .. m : tables.files[e].parent = tables.files[f].parent}
    <3>1. \A e \in 1 .. m : e > f <=> e \in f + 1 .. m
      BY <1>3
    <3>2. DOMAIN files = 1 .. m /\ f + 1 .. m \subseteq 1 .. m
      BY <1>3, <1>4
    <3>3. \A e \in 1 .. m : tables.files[e].parent = files[e].parent
      BY <1>9
    <3> QED BY <3>1, <3>2, <3>3
  <2>3. Leads(After(files, f), {j \in Below(files, files[f].parent) : j > f})
    <3>1. {j \in Below(files, files[f].parent) : j > f} \in SUBSET Nat
      BY <1>3, <1>4
    <3> QED BY <3>1, FirstLeads
  <2> HIDE DEF Below, After
  <2> QED BY <1>9, <2>1, <2>2, <2>3
<1>15. ASSUME NEW f \in 1 .. m, NEW e \in 1 .. m, tables.files[f].parent = tables.files[e].parent,
              tables.files[f].name = tables.files[e].name
       PROVE  f = e
  <2>1. files[f].parent = files[e].parent /\ <<files[f].name>> = <<files[e].name>>
    BY <1>9, <1>15
  <2>2. files[f] = files[e]
    BY <1>4, <2>1
  <2> QED BY <1>4, <2>2
<1>16. WellFormed(tables, n, m)
  BY <1>3, <1>10, <1>11, <1>12, <1>13, <1>14, <1>15, Zenon DEF WellFormed
<1> QED BY <1>3, <1>16
-----------------------------------------------------------------------------
\* What the recursive definition of Paths says.
PathsAre(above, tables, n) ==
    /\ above \in [0 .. n -> Seq(EntryName)]
    /\ \A d \in 0 .. n : above[d] = IF d = 0 THEN <<>> ELSE above[tables.dirs[d].parent] \o tables.dirs[d].name

\* Parents come before their children, so each directory has a path.
LEMMA PathsExist ==
    ASSUME NEW tables, NEW n, NEW m, WellFormed(tables, n, m)
    PROVE  \E above : PathsAre(above, tables, n)
<1> DEFINE dirs == tables.dirs
           Turn(f, d) == IF d = 0 THEN <<>> ELSE f[dirs[d].parent] \o dirs[d].name
           Good(k) == \E f \in [0 .. k -> Seq(EntryName)] : \A d \in 0 .. k : f[d] = Turn(f, d)
           Ks == {k \in 0 .. n : Good(k)}
<1>1. n \in Nat /\ \A d \in 1 .. n : dirs[d].parent \in 0 .. d - 1 /\ \E name \in EntryName : dirs[d].name = <<name>>
  BY DEF WellFormed
<1> HIDE DEF dirs
<1>2. 0 \in Ks
  <2>1. [d \in 0 .. 0 |-> <<>>] \in [0 .. 0 -> Seq(EntryName)]
    OBVIOUS
  <2>2. \A d \in 0 .. 0 : [e \in 0 .. 0 |-> <<>>][d] = Turn([e \in 0 .. 0 |-> <<>>], d)
    OBVIOUS
  <2>3. Good(0)
    BY <2>1, <2>2
  <2>4. 0 \in 0 .. n
    BY <1>1
  <2> HIDE DEF Good
  <2> QED BY <2>3, <2>4
<1>3. ASSUME NEW k \in 0 .. n, k \in Ks, k < n
      PROVE  k + 1 \in Ks
  <2>1. PICK h \in [0 .. k -> Seq(EntryName)] : \A d \in 0 .. k : h[d] = Turn(h, d)
    BY <1>3
  <2> DEFINE f == [d \in 0 .. k + 1 |-> IF d = k + 1 THEN Turn(h, k + 1) ELSE h[d]]
  <2>2. k + 1 \in 1 .. n /\ k + 1 \in 0 .. n /\ k + 1 # 0 /\ \A d \in 0 .. k + 1 : d = k + 1 \/ d \in 0 .. k
    BY <1>1, <1>3
  <2>3. Turn(h, k + 1) \in Seq(EntryName)
    <3>1. dirs[k + 1].parent \in 0 .. k
      BY <1>1, <2>2
    <3>2. dirs[k + 1].name \in Seq(EntryName)
      <4>1. PICK name \in EntryName : dirs[k + 1].name = <<name>>
        BY <1>1, <2>2
      <4> QED BY <4>1
    <3>3. h[dirs[k + 1].parent] \in Seq(EntryName)
      BY <2>1, <3>1
    <3> QED BY <2>2, <3>2, <3>3
  <2>4. f \in [0 .. k + 1 -> Seq(EntryName)]
    <3> HIDE DEF Turn
    <3> QED BY <2>1, <2>2, <2>3
  <2>5. \A d \in 0 .. k + 1 : f[d] = Turn(f, d)
    <3> SUFFICES ASSUME NEW d \in 0 .. k + 1 PROVE f[d] = Turn(f, d)
      OBVIOUS
    <3>1. d # 0 => dirs[d].parent \in 0 .. k
      <4>1. d # 0 => d \in 1 .. n /\ d - 1 <= k
        BY <1>1, <1>3
      <4> QED BY <1>1, <4>1
    <3>2. d # 0 => f[dirs[d].parent] = h[dirs[d].parent]
      BY <3>1
    <3>3. Turn(f, d) = Turn(h, d)
      <4> HIDE DEF f
      <4> QED BY <3>2
    <3>4. f[d] = Turn(h, d)
      <4>1. CASE d = k + 1
        BY <4>1
      <4>2. CASE d # k + 1
        <5>1. d \in 0 .. k
          BY <2>2, <4>2
        <5> QED BY <2>1, <4>2, <5>1
      <4> QED BY <4>1, <4>2
    <3> QED BY <3>3, <3>4
  <2>6. Good(k + 1)
    BY <2>4, <2>5
  <2> HIDE DEF Good
  <2> QED BY <2>2, <2>6
<1>4. n \in Ks
  <2> HIDE DEF Ks
  <2>1. \A k \in 0 .. n : k \in Ks
    BY <1>1, <1>2, <1>3, UpTo
  <2> QED BY <1>1, <2>1
<1>5. PICK f \in [0 .. n -> Seq(EntryName)] : \A d \in 0 .. n : f[d] = Turn(f, d)
  BY <1>4
<1>6. PathsAre(f, tables, n)
  BY <1>5 DEF PathsAre, dirs
<1> QED BY <1>6

\* The path of a directory is that of the one above and its name.
LEMMA PathsIs ==
    ASSUME NEW tables, NEW n, NEW m, WellFormed(tables, n, m)
    PROVE  /\ Paths(tables) \in [0 .. n -> Seq(EntryName)]
           /\ Paths(tables)[0] = <<>>
           /\ \A d \in 1 .. n : Paths(tables)[d] = Paths(tables)[tables.dirs[d].parent] \o tables.dirs[d].name
<1> DEFINE g == CHOOSE f : f = [d \in DOMAIN tables.dirs |->
                                 IF d = 0 THEN <<>> ELSE f[tables.dirs[d].parent] \o tables.dirs[d].name]
<1>1. Paths(tables) = g
  BY DEF Paths
<1>2. DOMAIN tables.dirs = 0 .. n /\ n \in Nat
  BY DEF WellFormed
<1>3. PICK h : PathsAre(h, tables, n)
  BY PathsExist
<1>4. h = [d \in DOMAIN tables.dirs |->
              IF d = 0 THEN <<>> ELSE h[tables.dirs[d].parent] \o tables.dirs[d].name]
  BY <1>2, <1>3 DEF PathsAre
<1>5. g = [d \in 0 .. n |-> IF d = 0 THEN <<>> ELSE g[tables.dirs[d].parent] \o tables.dirs[d].name]
  BY <1>2, <1>4
<1> HIDE DEF g
\* There is one such function only.
<1> DEFINE Ks == {k \in 0 .. n : \A d \in 0 .. k : g[d] = h[d]}
<1>6. 0 \in Ks
  <2>1. 0 \in 0 .. n /\ \A d \in 0 .. 0 : d = 0
    BY <1>2
  <2>2. g[0] = <<>> /\ h[0] = <<>>
    BY <1>3, <1>5, <2>1 DEF PathsAre
  <2> QED BY <2>1, <2>2
<1>7. ASSUME NEW k \in 0 .. n, k \in Ks, k < n
      PROVE  k + 1 \in Ks
  <2>1. k + 1 \in 1 .. n /\ k + 1 \in 0 .. n /\ k + 1 # 0
    BY <1>2, <1>7
  <2>2. tables.dirs[k + 1].parent \in 0 .. k
    <3>1. tables.dirs[k + 1].parent \in 0 .. (k + 1) - 1
      BY <2>1 DEF WellFormed
    <3>2. (k + 1) - 1 = k
      BY <1>2
    <3> QED BY <3>1, <3>2
  <2>3. g[k + 1] = h[k + 1]
    BY <1>3, <1>5, <1>7, <2>1, <2>2 DEF PathsAre
  <2>4. \A d \in 0 .. k + 1 : d = k + 1 \/ d \in 0 .. k
    OBVIOUS
  <2> QED BY <1>7, <2>1, <2>3, <2>4
<1>8. \A d \in 0 .. n : g[d] = h[d]
  <2> HIDE DEF Ks
  <2>1. \A k \in 0 .. n : k \in Ks
    BY <1>2, <1>6, <1>7, UpTo
  <2> QED BY <1>2, <2>1 DEF Ks
<1>9. g \in [0 .. n -> Seq(EntryName)]
  <2>1. \A d \in 0 .. n : g[d] \in Seq(EntryName)
    BY <1>3, <1>8 DEF PathsAre
  <2>2. DOMAIN g = 0 .. n /\ g = [d \in DOMAIN g |-> g[d]]
    BY <1>5
  <2> QED BY <2>1, <2>2
<1>10. 0 \in 0 .. n /\ \A d \in 1 .. n : d \in 0 .. n /\ d # 0
  BY <1>2
<1>11. g[0] = <<>>
  BY <1>5, <1>10
<1>12. \A d \in 1 .. n : g[d] = g[tables.dirs[d].parent] \o tables.dirs[d].name
  BY <1>5, <1>10
<1> QED BY <1>1, <1>9, <1>11, <1>12
-----------------------------------------------------------------------------
\* A path ends with its last name, and what is before that is the parent's.
LEMMA LongerPath ==
    ASSUME NEW S, NEW p \in Seq(S), NEW e \in S
    PROVE  /\ p \o <<e>> \in Seq(S) /\ p \o <<e>> # <<>>
           /\ Front(p \o <<e>>) = p /\ Last(p \o <<e>>) = e
<1> DEFINE q == p \o <<e>>
<1>1. q \in Seq(S) /\ Len(q) = Len(p) + 1 /\ q[Len(p) + 1] = e /\ \A i \in 1 .. Len(p) : q[i] = p[i]
  OBVIOUS
<1> HIDE DEF q
<1>2. q # <<>> /\ Last(q) = e
  BY <1>1 DEF Last
<1>3. Front(q) = p
  <2>1. Len(q) - 1 = Len(p) /\ \A i \in 1 .. Len(p) : 1 <= i /\ i <= Len(q)
    BY <1>1
  <2>2. PICK f : f = SubSeq(q, 1, Len(p))
    OBVIOUS
  <2>3. \A i \in 1 .. Len(p) : q[i] \in S
    BY <1>1, ElementOfSeq
  <2>4. f \in Seq(S) /\ Len(f) = Len(p) /\ \A i \in 1 .. Len(p) : f[i] = q[i]
    BY <2>1, <2>2, <2>3, SubSeqProperties
  <2>5. f = p
    BY <1>1, <2>4, SeqEqual
  <2> QED BY <2>1, <2>2, <2>5 DEF Front
<1> QED BY <1>1, <1>2, <1>3 DEF q

\* Different entries have different paths, and the path of each is its name after that
\* of the directory it is in.
PathOf(tables, f) == Paths(tables)[tables.files[f].parent] \o tables.files[f].name

PathsDiffer(tables, n, m) ==
    /\ Paths(tables) \in [0 .. n -> Seq(EntryName)] /\ Paths(tables)[0] = <<>>
    /\ \A d \in 1 .. n : /\ tables.dirs[d].parent \in 0 .. n /\ Paths(tables)[d] # <<>>
                         /\ Paths(tables)[d] = Paths(tables)[tables.dirs[d].parent] \o tables.dirs[d].name
                         /\ ParentPath(Paths(tables)[d]) = Paths(tables)[tables.dirs[d].parent]
    /\ \A d, e \in 0 .. n : Paths(tables)[d] = Paths(tables)[e] => d = e
    /\ \A f \in 1 .. m : /\ tables.files[f].parent \in 0 .. n
                         /\ PathOf(tables, f) \in Seq(EntryName)
                         /\ ParentPath(PathOf(tables, f)) = Paths(tables)[tables.files[f].parent]
    /\ \A f, e \in 1 .. m : PathOf(tables, f) = PathOf(tables, e) => f = e

\* Different directories have different paths, and so have different files.
LEMMA PathsOfEntries ==
    ASSUME NEW tables, NEW n, NEW m, WellFormed(tables, n, m)
    PROVE  PathsDiffer(tables, n, m)
<1>1. PICK P : P = Paths(tables)
  OBVIOUS
<1>2. /\ P \in [0 .. n -> Seq(EntryName)] /\ P[0] = <<>>
      /\ \A d \in 1 .. n : P[d] = P[tables.dirs[d].parent] \o tables.dirs[d].name
  BY <1>1, PathsIs
<1>3. n \in Nat /\ m \in Nat
  BY DEF WellFormed
<1>4. ASSUME NEW d \in 1 .. n
      PROVE  /\ tables.dirs[d].parent \in 0 .. n /\ tables.dirs[d].parent < d
             /\ \E name \in EntryName : tables.dirs[d].name = <<name>> /\ Last(P[d]) = name
             /\ P[d] # <<>> /\ Front(P[d]) = P[tables.dirs[d].parent]
  <2>1. tables.dirs[d].parent \in 0 .. d - 1
    BY DEF WellFormed
  <2>2. PICK name \in EntryName : tables.dirs[d].name = <<name>>
    BY DEF WellFormed
  <2>3. PICK k \in 0 .. n : k = tables.dirs[d].parent /\ k < d
    BY <1>3, <2>1
  <2>4. P[k] \in Seq(EntryName) /\ P[d] = P[k] \o <<name>>
    BY <1>2, <2>2, <2>3
  <2>5. P[d] # <<>> /\ Front(P[d]) = P[k] /\ Last(P[d]) = name
    BY <2>4, LongerPath
  <2> QED BY <2>2, <2>3, <2>5
<1>5. ASSUME NEW f \in 1 .. m
      PROVE  /\ tables.files[f].parent \in 0 .. n
             /\ PathOf(tables, f) \in Seq(EntryName) /\ PathOf(tables, f) # <<>>
             /\ Front(PathOf(tables, f)) = P[tables.files[f].parent]
             /\ \E name \in EntryName : tables.files[f].name = <<name>> /\ Last(PathOf(tables, f)) = name
  <2>1. PICK k \in 0 .. n : k = tables.files[f].parent
    BY DEF WellFormed
  <2>2. PICK name \in EntryName : tables.files[f].name = <<name>>
    BY DEF WellFormed
  <2>3. P[k] \in Seq(EntryName) /\ PathOf(tables, f) = P[k] \o <<name>>
    BY <1>1, <1>2, <2>1, <2>2 DEF PathOf
  <2>4. P[k] \o <<name>> \in Seq(EntryName) /\ P[k] \o <<name>> # <<>>
        /\ Front(P[k] \o <<name>>) = P[k] /\ Last(P[k] \o <<name>>) = name
    BY <2>3, LongerPath
  <2> QED BY <2>1, <2>2, <2>3, <2>4
\* By induction: the entries before have different paths.
<1> DEFINE Ks == {k \in 0 .. n : \A d, e \in 0 .. k : P[d] = P[e] => d = e}
<1>6. 0 \in Ks
  BY <1>3
<1>7. ASSUME NEW k \in 0 .. n, k \in Ks, k < n
      PROVE  k + 1 \in Ks
  <2>1. k + 1 \in 1 .. n /\ k + 1 \in 0 .. n
    BY <1>3, <1>7
  <2>2. ASSUME NEW d \in 0 .. k, P[d] = P[k + 1]
        PROVE  FALSE
    <3>1. P[k + 1] # <<>> /\ d # 0 /\ d \in 1 .. n
      BY <1>2, <1>3, <1>4, <2>1, <2>2
    <3>2. PICK a, b : a = tables.dirs[d].parent /\ b = tables.dirs[k + 1].parent
      OBVIOUS
    <3>3. a \in 0 .. n /\ b \in 0 .. n /\ a < d /\ b < k + 1 /\ P[a] = P[b]
      BY <1>4, <2>1, <2>2, <3>1, <3>2
    <3>4. a \in 0 .. k /\ b \in 0 .. k
      BY <1>3, <3>3
    <3>5. a = b
      BY <1>7, <3>3, <3>4
    <3>6. tables.dirs[d].name = tables.dirs[k + 1].name
      <4>1. PICK name : tables.dirs[d].name = <<name>> /\ Last(P[d]) = name
        BY <1>4, <3>1
      <4>2. PICK other : tables.dirs[k + 1].name = <<other>> /\ Last(P[k + 1]) = other
        BY <1>4, <2>1
      <4> QED BY <2>2, <4>1, <4>2
    <3>7. d = k + 1
      BY <2>1, <3>1, <3>2, <3>5, <3>6 DEF WellFormed
    <3> QED BY <1>3, <3>7
  <2>3. \A d \in 0 .. k + 1 : d = k + 1 \/ d \in 0 .. k
    BY <1>3
  <2>4. \A d, e \in 0 .. k + 1 : P[d] = P[e] => d = e
    BY <1>7, <2>2, <2>3
  <2> QED BY <2>1, <2>4
<1>8. \A d, e \in 0 .. n : P[d] = P[e] => d = e
  <2> HIDE DEF Ks
  <2>1. \A k \in 0 .. n : k \in Ks
    BY <1>3, <1>6, <1>7, UpTo
  <2> QED BY <1>3, <2>1 DEF Ks
<1>9. ASSUME NEW f \in 1 .. m, NEW e \in 1 .. m, PathOf(tables, f) = PathOf(tables, e)
      PROVE  f = e
  <2>1. PICK a \in 0 .. n, b \in 0 .. n : a = tables.files[f].parent /\ b = tables.files[e].parent
    BY <1>5
  <2>2. P[a] = P[b]
    BY <1>5, <1>9, <2>1
  <2>3. a = b
    BY <1>8, <2>2
  <2>4. tables.files[f].name = tables.files[e].name
    <3>1. PICK name : tables.files[f].name = <<name>> /\ Last(PathOf(tables, f)) = name
      BY <1>5
    <3>2. PICK other : tables.files[e].name = <<other>> /\ Last(PathOf(tables, e)) = other
      BY <1>5
    <3> QED BY <1>9, <3>1, <3>2
  <2> QED BY <2>1, <2>3, <2>4 DEF WellFormed
<1>10. \A d \in 1 .. n : ParentPath(P[d]) = P[tables.dirs[d].parent]
  BY <1>4 DEF ParentPath
<1>11. \A f \in 1 .. m : ParentPath(PathOf(tables, f)) = P[tables.files[f].parent]
  BY <1>5 DEF ParentPath
<1> QED BY <1>1, <1>2, <1>4, <1>5, <1>8, <1>9, <1>10, <1>11 DEF PathsDiffer
-----------------------------------------------------------------------------
\* A directory of the image was added; a file was added, under its own path.
Reached(d) == Above[d] \in tree.dirs
Added(f) == FilePath(f) \in DOMAIN tree.files /\ tree.files[FilePath(f)] = f

\* The calls will still come to a directory, which is below that of one of them: it
\* has not been descended into, or the next call has not gone past.
Awaited(c) ==
    \E k \in DOMAIN calls :
        /\ calls[k].dir = image.dirs[c].parent
        /\ IF k = Len(calls) THEN calls[k].at # "leave" ELSE calls[k + 1].dir <= c

\* The innermost call will still come to a file of its directory.
Pending(f) ==
    /\ calls # <<>> /\ Top.dir = image.files[f].parent
    /\ Top.at = "directory" \/ (Top.at = "files" /\ Top.file # Nothing /\ Top.file <= f)

CallType ==
    [dir : DOMAIN image.dirs, at : {"directory", "files", "leave"}, file : DOMAIN image.files \cup {Nothing}]

\* The calls are a path down from the root.
CallsOK ==
    /\ calls \in Seq(CallType)
    /\ calls # <<>> =>
          /\ calls[1].dir = 0
          /\ Top.at = "directory" \/ Reached(Top.dir)
          /\ Top.at = "files" => Top.file = Nothing \/ image.files[Top.file].parent = Top.dir
    /\ \A k \in 1 .. Len(calls) - 1 :
          /\ calls[k].at = "leave" /\ Reached(calls[k].dir)
          /\ calls[k + 1].dir # 0 /\ image.dirs[calls[k + 1].dir].parent = calls[k].dir

\* The path they share is that of the innermost one's directory, once it was read.
PathOK ==
    calls # <<>> => path = IF Top.at = "directory" THEN ParentPath(Above[Top.dir]) ELSE Above[Top.dir]

\* Nothing is in the tree that the image does not have.
TreeOK ==
    /\ tree = [dirs |-> tree.dirs, files |-> tree.files]
    /\ <<>> \in tree.dirs /\ tree.dirs \subseteq TrueDirectories
    /\ \A p \in DOMAIN tree.files : \E f \in DOMAIN image.files : p = FilePath(f) /\ tree.files[p] = f

\* Nothing is passed over below a directory that was added.
DirectoriesCovered ==
    \A c \in DOMAIN image.dirs \ {0} : Reached(image.dirs[c].parent) => Reached(c) \/ Awaited(c)
FilesCovered ==
    \A f \in DOMAIN image.files : Reached(image.files[f].parent) => Added(f) \/ Pending(f)

\* Of an image with tables that do not end below 4 GiB nothing is known.
WalkInv ==
    \/ image = Nothing /\ calls = <<>>
    \/ image \in Images /\ layout \in Layout /\ ~Near
    \/ /\ image \in Images /\ layout \in Layout /\ Near
       /\ CallsOK /\ PathOK /\ TreeOK /\ DirectoriesCovered /\ FilesCovered
-----------------------------------------------------------------------------
\* What the calls become.
LEMMA ShorterCalls ==
    ASSUME NEW S, NEW s \in Seq(S), s # <<>>
    PROVE  /\ Len(s) \in Nat \ {0} /\ Last(s) = s[Len(s)] /\ Last(s) \in S
           /\ Front(s) \in Seq(S) /\ Len(Front(s)) = Len(s) - 1
           /\ \A k \in 1 .. Len(s) - 1 : Front(s)[k] = s[k] /\ s[k] \in S
<1>1. Len(s) \in Nat \ {0}
  OBVIOUS
<1>2. Last(s) = s[Len(s)] /\ \A k \in 1 .. Len(s) : s[k] \in S
  BY <1>1, ElementOfSeq DEF Last
<1>3. PICK f : f = SubSeq(s, 1, Len(s) - 1)
  OBVIOUS
<1>4. f \in Seq(S) /\ Len(f) = Len(s) - 1 /\ \A k \in 1 .. Len(s) - 1 : f[k] = s[k]
  <2>1. PICK l : l = Len(s) - 1
    OBVIOUS
  <2>3. l \in Nat /\ l <= Len(s)
    BY <1>1, <2>1
  <2>2. \A k \in 1 .. l : s[k] \in S
    BY <1>2, <2>1, <2>3
  <2> QED BY <1>3, <2>1, <2>2, <2>3, SubSeqProperties
<1>5. Len(s) \in 1 .. Len(s) /\ \A k \in 1 .. Len(s) - 1 : k \in 1 .. Len(s)
  BY <1>1
<1>6. Front(s) = f
  BY <1>3 DEF Front
<1> QED BY <1>1, <1>2, <1>4, <1>5, <1>6

\* What the calls are when the last of them goes on.
LEMMA OtherTop ==
    ASSUME NEW S, NEW s \in Seq(S), s # <<>>, NEW c \in S
    PROVE  LET t == Append(Front(s), c)
           IN /\ t \in Seq(S) /\ t # <<>> /\ Len(t) = Len(s) /\ t[Len(s)] = c /\ Last(t) = c
              /\ \A k \in 1 .. Len(s) - 1 : t[k] = s[k]
<1>1. PICK f : f = Front(s)
  OBVIOUS
<1>2. f \in Seq(S) /\ Len(f) = Len(s) - 1 /\ Len(s) \in Nat \ {0} /\ \A k \in 1 .. Len(s) - 1 : f[k] = s[k]
  BY <1>1, ShorterCalls
<1>3. PICK t : t = Append(f, c)
  OBVIOUS
<1>4. t \in Seq(S) /\ Len(t) = Len(s) /\ t[Len(s)] = c /\ \A k \in 1 .. Len(s) - 1 : t[k] = s[k]
  BY <1>2, <1>3
<1>5. t # <<>> /\ Last(t) = c
  BY <1>2, <1>4 DEF Last
<1> QED BY <1>1, <1>3, <1>4, <1>5

\* What the calls are when one more follows.
LEMMA DeeperCalls ==
    ASSUME NEW S, NEW s \in Seq(S), s # <<>>, NEW c \in S, NEW e \in S
    PROVE  LET t == Append(Front(s), c) \o <<e>>
           IN /\ t \in Seq(S) /\ t # <<>> /\ Len(t) = Len(s) + 1 /\ t[Len(s)] = c /\ t[Len(s) + 1] = e
              /\ Last(t) = e /\ \A k \in 1 .. Len(s) - 1 : t[k] = s[k]
<1>1. PICK f : f = Append(Front(s), c)
  OBVIOUS
<1>2. /\ f \in Seq(S) /\ Len(f) = Len(s) /\ Len(s) \in Nat \ {0} /\ f[Len(s)] = c
      /\ \A k \in 1 .. Len(s) - 1 : f[k] = s[k]
  BY <1>1, ShorterCalls, OtherTop
<1>3. PICK t : t = f \o <<e>>
  OBVIOUS
<1>4. /\ t \in Seq(S) /\ Len(t) = Len(s) + 1 /\ t[Len(s)] = c /\ t[Len(s) + 1] = e
      /\ \A k \in 1 .. Len(s) - 1 : t[k] = s[k]
  <2>1. PICK n : n = Len(s)
    OBVIOUS
  <2>2. /\ n \in Nat \ {0} /\ Len(f) = n /\ f[n] = c /\ f \in Seq(S)
        /\ \A k \in 1 .. n - 1 : f[k] = s[k]
    BY <1>2, <2>1
  <2>3. t \in Seq(S) /\ Len(t) = n + 1
    BY <1>3, <2>2
  <2>4. t[n + 1] = e /\ \A k \in 1 .. n : t[k] = f[k]
    BY <1>3, <2>2
  <2>5. n \in 1 .. n /\ \A k \in 1 .. n - 1 : k \in 1 .. n
    BY <2>2
  <2> QED BY <2>1, <2>2, <2>3, <2>4, <2>5
<1>5. t # <<>> /\ Last(t) = e
  BY <1>2, <1>4 DEF Last
<1> QED BY <1>1, <1>3, <1>4, <1>5

Walking == /\ image \in Images /\ layout \in Layout /\ Near
           /\ CallsOK /\ PathOK /\ TreeOK /\ DirectoriesCovered /\ FilesCovered

\* Where a walk stands, in terms of the image.
LEMMA Stands ==
    ASSUME Walking, calls # <<>>
    PROVE  /\ Len(calls) \in Nat \ {0} /\ Top = calls[Len(calls)] /\ Top \in CallType
           /\ Top.dir # 0 => /\ Len(calls) > 1
                             /\ calls[Len(calls) - 1].dir = image.dirs[Top.dir].parent
                             /\ Reached(image.dirs[Top.dir].parent)
<1>1. calls \in Seq(CallType)
  BY DEF Walking, CallsOK
<1>2. Len(calls) \in Nat \ {0} /\ Top = calls[Len(calls)] /\ Top \in CallType
  BY <1>1, ShorterCalls DEF Top
<1>3. ASSUME Top.dir # 0
      PROVE  /\ Len(calls) > 1
             /\ calls[Len(calls) - 1].dir = image.dirs[Top.dir].parent
             /\ Reached(image.dirs[Top.dir].parent)
  <2>1. PICK k : k = Len(calls) - 1
    OBVIOUS
  <2>2. Len(calls) # 1
    BY <1>2, <1>3 DEF Walking, CallsOK
  <2>3. k \in 1 .. Len(calls) - 1 /\ k + 1 = Len(calls) /\ Len(calls) > 1
    BY <1>2, <2>1, <2>2
  <2>4. Reached(calls[k].dir) /\ image.dirs[calls[k + 1].dir].parent = calls[k].dir
    BY <2>3 DEF Walking, CallsOK
  <2> QED BY <1>2, <2>1, <2>3, <2>4
<1> QED BY <1>2, <1>3

\* What is read of tables below 4 GiB are their own entries.
LEMMA OwnEntry ==
    ASSUME NEW n \in Nat, NEW a \in Nat, NEW entries, NEW begins \in Nat, NEW offset \in DOMAIN entries, NEW stray,
           DOMAIN entries = a .. n, \A e \in DOMAIN entries : begins + e < Narrow
    PROVE  Entry(entries, begins, offset, stray) = entries[offset]
<1>1. offset \in Nat /\ begins + offset \in Nat /\ begins + offset < Narrow /\ Narrow \in Nat
  BY RomFsAssumption
<1>2. (begins + offset) % Narrow = begins + offset
  BY <1>1, OwnRemainder, RomFsAssumption
<1>3. (begins + offset) - begins = offset
  BY <1>1
<1> QED BY <1>2, <1>3 DEF Entry

LEMMA ReadsTables ==
    ASSUME Walking, calls # <<>>
    PROVE  /\ ReadDirectory = image.dirs[Top.dir]
           /\ Top.file # Nothing => ReadFile = image.files[Top.file]
<1>1. PICK n, m \in Nat : WellFormed(image, n, m)
  BY ImageIs DEF Walking
<1>2. DOMAIN image.dirs = 0 .. n /\ DOMAIN image.files = 1 .. m
  BY <1>1 DEF WellFormed
<1>3. Top.dir \in DOMAIN image.dirs /\ Top.file \in DOMAIN image.files \cup {Nothing}
  BY Stands DEF CallType
<1>4. layout.dirs \in Nat /\ layout.files \in Nat
  BY DEF Walking, Layout
<1>5. /\ \A d \in DOMAIN image.dirs : layout.dirs + d < Narrow
      /\ \A f \in DOMAIN image.files : layout.files + f < Narrow
  BY DEF Walking, Near, Below4GiB
<1>6. ReadDirectory = image.dirs[Top.dir]
  <2>1. DOMAIN image.dirs = 0 .. n /\ 0 \in Nat
    BY <1>2
  <2>2. Entry(image.dirs, layout.dirs, Top.dir, layout.directory) = image.dirs[Top.dir]
    BY <1>3, <1>4, <1>5, <2>1, OwnEntry
  <2> QED BY <2>2 DEF ReadDirectory
<1>7. ASSUME Top.file # Nothing PROVE ReadFile = image.files[Top.file]
  <2>1. DOMAIN image.files = 1 .. m /\ 1 \in Nat /\ Top.file \in DOMAIN image.files
    BY <1>2, <1>3, <1>7
  <2>2. Entry(image.files, layout.files, Top.file, layout.file) = image.files[Top.file]
    BY <1>4, <1>5, <2>1, OwnEntry
  <2> QED BY <2>2 DEF ReadFile
<1> QED BY <1>6, <1>7

\* A directory is read: its path is the one the image gives it.
LEMMA Entered ==
    ASSUME Walking, EnterDirectory
    PROVE  /\ path' = Above[Top.dir]
           /\ tree' = [tree EXCEPT !.dirs = @ \cup {Above[Top.dir]}]
           /\ calls' = Append(Front(calls), [Top EXCEPT !.at = "files", !.file = ReadDirectory.file])
<1>1. PICK n, m \in Nat : WellFormed(image, n, m) /\ PathsDiffer(image, n, m)
  BY ImageIs, PathsOfEntries DEF Walking
<1>2. calls # <<>> /\ Top.at = "directory" /\ path' = path \o ReadDirectory.name
  BY DEF EnterDirectory
<1>3. PICK d : d = Top.dir
  OBVIOUS
<1>4. d \in 0 .. n
  BY <1>1, <1>2, <1>3, Stands DEF CallType, WellFormed
<1>5. path = ParentPath(Above[d])
  BY <1>2, <1>3 DEF Walking, PathOK
<1>6. path' = Above[d] /\ ParentPath(Above[d]) \in tree.dirs
  <2>1. CASE d = 0
    <3>1. Above[d] = <<>> /\ ReadDirectory.name = <<>>
      BY <1>1, <1>2, <1>3, <2>1, ReadsTables DEF PathsDiffer, WellFormed, Above
    <3>2. path = <<>> /\ <<>> \o <<>> = <<>>
      BY <1>5, <3>1 DEF ParentPath
    <3>3. <<>> \in tree.dirs
      BY DEF Walking, TreeOK
    <3> QED BY <1>2, <3>1, <3>2, <3>3, <1>5
  <2>2. CASE d # 0
    <3>1. d \in 1 .. n
      BY <1>1, <1>4, <2>2
    <3>2. ParentPath(Above[d]) = Above[image.dirs[d].parent] /\ Above[d] = Above[image.dirs[d].parent] \o image.dirs[d].name
      BY <1>1, <3>1 DEF PathsDiffer, Above
    <3>3. Reached(image.dirs[d].parent)
      BY <1>2, <1>3, <2>2, Stands
    <3>4. ReadDirectory.name = image.dirs[d].name
      BY <1>2, <1>3, ReadsTables
    <3> QED BY <1>2, <1>5, <3>2, <3>3, <3>4 DEF Reached
  <2> QED BY <2>1, <2>2
<1>7. tree' = [tree EXCEPT !.dirs = @ \cup {Above[d]}]
  <2>1. CASE ReadDirectory.name = <<>>
    <3>1. d = 0
      <4>1. d # 0 => d \in 1 .. n
        BY <1>1, <1>4
      <4>2. image.dirs[d].name = <<>>
        BY <1>2, <1>3, <2>1, ReadsTables
      <4>3. \A name : <<name>> # <<>>
        OBVIOUS
      <4>4. d \in 1 .. n => \E name \in EntryName : image.dirs[d].name = <<name>>
        BY <1>1 DEF WellFormed
      <4> QED BY <4>1, <4>2, <4>3, <4>4
    <3>2. Above[d] \in tree.dirs /\ tree = [dirs |-> tree.dirs, files |-> tree.files]
      BY <1>1, <3>1 DEF Walking, TreeOK, PathsDiffer, Above
    <3>3. tree' = tree
      BY <2>1 DEF EnterDirectory
    <3> QED BY <3>2, <3>3
  <2>2. CASE ReadDirectory.name # <<>>
    BY <1>6, <2>2 DEF EnterDirectory
  <2> QED BY <2>1, <2>2
<1> QED BY <1>3, <1>6, <1>7 DEF EnterDirectory, Put

\* VisitDirectory goes from its directory's links to the files.
LEMMA EnterKeeps ==
    ASSUME Walking, EnterDirectory
    PROVE  Walking'
<1>1. PICK n, m \in Nat : WellFormed(image, n, m) /\ PathsDiffer(image, n, m)
  BY ImageIs, PathsOfEntries DEF Walking
<1>2. /\ calls # <<>> /\ Top.at = "directory" /\ image' = image /\ Above' = Above
      /\ DOMAIN image.dirs = 0 .. n /\ DOMAIN image.files = 1 .. m
  BY <1>1 DEF EnterDirectory, Above, WellFormed
<1>3. PICK d, call, last : d = Top.dir /\ call = [Top EXCEPT !.at = "files", !.file = ReadDirectory.file] /\ last = Len(calls)
  OBVIOUS
<1>4. /\ d \in 0 .. n /\ last \in Nat \ {0} /\ Top = calls[last] /\ CallType' = CallType
      /\ Top \in CallType
  BY <1>2, <1>3, Stands DEF CallType
<1>5. Leads(image.dirs[d].file, {f \in 1 .. m : image.files[f].parent = d})
  BY <1>1, <1>4 DEF WellFormed
<1>6. /\ call \in CallType /\ call.dir = d /\ call.at = "files" /\ call.file = image.dirs[d].file
      /\ call.file = Nothing \/ image.files[call.file].parent = d
  <2>1. call = [dir |-> d, at |-> "files", file |-> image.dirs[d].file]
    BY <1>2, <1>3, <1>4, ReadsTables DEF CallType
  <2>2. image.dirs[d].file = Nothing \/ (image.dirs[d].file \in 1 .. m /\ image.files[image.dirs[d].file].parent = d)
    BY <1>5 DEF Leads
  <2> QED BY <1>2, <1>4, <2>1, <2>2 DEF CallType
<1>7. calls' = Append(Front(calls), call) /\ path' = Above[d] /\ tree' = [tree EXCEPT !.dirs = @ \cup {Above[d]}]
  BY <1>3, Entered
<1>8. calls \in Seq(CallType)
  BY DEF Walking, CallsOK
<1>9. /\ calls' \in Seq(CallType) /\ calls' # <<>> /\ Len(calls') = last /\ calls'[last] = call /\ Top' = call
      /\ \A k \in 1 .. last - 1 : calls'[k] = calls[k]
  BY <1>2, <1>3, <1>6, <1>7, <1>8, OtherTop DEF Top
<1>18. ASSUME NEW k \in 1 .. last - 1
       PROVE  /\ calls'[k] = calls[k] /\ calls'[k + 1].dir = calls[k + 1].dir
              /\ calls[k].dir \in 0 .. n /\ calls'[1].dir = calls[1].dir
  <2>1. k + 1 \in 1 .. last /\ k \in 1 .. last /\ 1 \in 1 .. last /\ \A i \in 1 .. last : i = last \/ i \in 1 .. last - 1
    BY <1>4
  <2>2. \A i \in 1 .. last : calls'[i].dir = calls[i].dir
    BY <1>3, <1>4, <1>6, <1>9, <2>1
  <2>3. calls[k] \in CallType
    BY <1>3, <1>8, <2>1, ElementOfSeq
  <2> QED BY <1>2, <1>9, <2>1, <2>2, <2>3 DEF CallType
<1>10. tree'.dirs = tree.dirs \cup {Above[d]} /\ tree'.files = tree.files /\ tree' = [dirs |-> tree'.dirs, files |-> tree'.files]
  BY <1>7 DEF Walking, TreeOK
<1>11. \A e \in 0 .. n : Reached(e)' <=> Reached(e) \/ e = d
  BY <1>1, <1>2, <1>4, <1>10 DEF Reached, PathsDiffer, Above
<1>12. \A f \in 1 .. m : Added(f)' <=> Added(f)
  BY <1>2, <1>10 DEF Added, FilePath
<1>13. CallsOK'
  <2>1. calls'[1].dir = 0
    <3>1. calls[1].dir = 0
      BY <1>2 DEF Walking, CallsOK
    <3>2. CASE last = 1
      BY <1>3, <1>4, <1>6, <1>9, <3>1, <3>2
    <3>3. CASE last # 1
      <4>1. 1 \in 1 .. last - 1
        BY <1>4, <3>3
      <4> QED BY <1>18, <3>1, <4>1
    <3> QED BY <3>2, <3>3
  <2>2. Reached(d)'
    BY <1>4, <1>11
  <2>3. ASSUME NEW k \in 1 .. last - 1
        PROVE  /\ calls'[k].at = "leave" /\ Reached(calls[k].dir)'
               /\ calls'[k + 1].dir # 0 /\ image.dirs[calls'[k + 1].dir].parent = calls'[k].dir
    <3>1. /\ calls[k].at = "leave" /\ Reached(calls[k].dir)
          /\ calls[k + 1].dir # 0 /\ image.dirs[calls[k + 1].dir].parent = calls[k].dir
      BY <1>3 DEF Walking, CallsOK
    <3>2. PICK e \in 0 .. n : e = calls[k].dir /\ e = calls'[k].dir
      BY <1>18
    <3>3. Reached(e)'
      BY <1>11, <3>1, <3>2
    <3>4. Reached(calls[k].dir)'
      BY <3>2, <3>3 DEF Reached
    <3> QED BY <1>18, <3>1, <3>4
  <2> QED BY <1>2, <1>4, <1>6, <1>9, <2>1, <2>2, <2>3 DEF CallsOK
<1>14. PathOK'
  BY <1>2, <1>6, <1>7, <1>9 DEF PathOK
<1>15. TreeOK'
  <2>1. Above[d] \in TrueDirectories
    BY <1>2, <1>4 DEF TrueDirectories
  <2>2. TrueDirectories' = TrueDirectories /\ \A f : FilePath(f)' = FilePath(f)
    BY <1>2 DEF TrueDirectories, FilePath
  <2> QED BY <1>2, <1>10, <2>1, <2>2 DEF Walking, TreeOK
<1>16. DirectoriesCovered'
  <2> SUFFICES ASSUME NEW c \in 1 .. n, Reached(image.dirs[c].parent)'
               PROVE  Reached(c)' \/ Awaited(c)'
    BY <1>1, <1>2 DEF DirectoriesCovered
  <2>1. PICK p \in 0 .. n : p = image.dirs[c].parent
    BY <1>1 DEF PathsDiffer
  <2>2. CASE p = d
    BY <1>2, <1>4, <1>6, <1>9, <2>1, <2>2 DEF Awaited
  <2>3. CASE p # d
    <3>1. Reached(c) \/ Awaited(c)
      BY <1>2, <1>11, <2>1, <2>3 DEF Walking, DirectoriesCovered
    <3>2. ASSUME Awaited(c) PROVE Awaited(c)'
      <4>1. PICK k \in 1 .. last : /\ calls[k].dir = p
                                   /\ IF k = last THEN calls[k].at # "leave" ELSE calls[k + 1].dir <= c
        BY <1>3, <1>8, <2>1, <3>2 DEF Awaited
      <4>2. k # last
        BY <1>3, <1>4, <2>3, <4>1
      <4>5. k \in 1 .. last - 1
        BY <1>4, <4>2
      <4>3. calls'[k + 1].dir = calls[k + 1].dir /\ calls'[k] = calls[k]
        BY <1>18, <4>5
      <4>4. k \in DOMAIN calls' /\ k # Len(calls')
        BY <1>9, <4>2
      <4> QED BY <1>2, <2>1, <4>1, <4>2, <4>3, <4>4 DEF Awaited
    <3> QED BY <1>2, <1>11, <3>1, <3>2
  <2> QED BY <2>2, <2>3
<1>17. FilesCovered'
  <2> SUFFICES ASSUME NEW f \in 1 .. m, Reached(image.files[f].parent)'
               PROVE  Added(f)' \/ Pending(f)'
    BY <1>1, <1>2 DEF FilesCovered
  <2>1. PICK p \in 0 .. n : p = image.files[f].parent
    BY <1>1 DEF PathsDiffer
  <2>2. CASE p = d
    <3>1. f \in {h \in 1 .. m : image.files[h].parent = d}
      BY <2>1, <2>2
    <3>2. call.file # Nothing /\ call.file <= f
      BY <1>5, <1>6, <3>1, RomFsAssumption DEF Leads
    <3> QED BY <1>2, <1>6, <1>9, <2>1, <2>2, <3>2 DEF Pending
  <2>3. CASE p # d
    <3>1. Reached(p)
      BY <1>2, <1>11, <2>1, <2>3
    <3>2. ~Pending(f)
      BY <1>3, <2>1, <2>3 DEF Pending
    <3>3. Added(f)
      BY <1>2, <2>1, <3>1, <3>2 DEF Walking, FilesCovered
    <3> QED BY <1>12, <3>3
  <2> QED BY <2>2, <2>3
<1>25. layout' = layout /\ Near'
  BY <1>2 DEF Walking, EnterDirectory, Near
<1> QED BY <1>2, <1>13, <1>14, <1>15, <1>16, <1>17, <1>25 DEF Walking
-----------------------------------------------------------------------------
\* What WithFile leaves: a path that is taken keeps its file.
LEMMA WithFileIs ==
    ASSUME NEW files, NEW p, NEW f
    PROVE  /\ DOMAIN WithFile(files, p, f) = DOMAIN files \cup {p}
           /\ \A q \in DOMAIN files : WithFile(files, p, f)[q] = files[q]
           /\ p \notin DOMAIN files => WithFile(files, p, f)[p] = f
BY DEF WithFile

\* A file is added under its own path.
LEMMA Visited ==
    ASSUME Walking, VisitFile
    PROVE  /\ Top.file \in DOMAIN image.files /\ image.files[Top.file].parent = Top.dir
           /\ path' = Above[Top.dir]
           /\ tree' = [tree EXCEPT !.files = WithFile(@, FilePath(Top.file), Top.file)]
           /\ calls' = Append(Front(calls), [Top EXCEPT !.file = image.files[Top.file].sibling])
<1>1. PICK n, m \in Nat : WellFormed(image, n, m) /\ PathsDiffer(image, n, m)
  BY ImageIs, PathsOfEntries DEF Walking
<1>2. calls # <<>> /\ Top.at = "files" /\ Top.file # Nothing
  BY DEF VisitFile
<1>3. PICK f : f = Top.file
  OBVIOUS
<1>4. f \in DOMAIN image.files /\ image.files[f].parent = Top.dir /\ Reached(Top.dir)
  BY <1>2, <1>3, Stands DEF CallType, Walking, CallsOK
<1>5. f \in 1 .. m
  BY <1>1, <1>4 DEF WellFormed
<1>6. path = Above[Top.dir]
  BY <1>2 DEF Walking, PathOK
<1>7. path \o image.files[f].name = FilePath(f)
  BY <1>4, <1>6 DEF FilePath
<1>8. ParentPath(FilePath(f)) = Above[Top.dir]
  <2>1. FilePath(f) = PathOf(image, f) /\ Above = Paths(image)
    BY DEF FilePath, PathOf, Above
  <2>2. ParentPath(PathOf(image, f)) = Paths(image)[image.files[f].parent]
    BY <1>1, <1>5 DEF PathsDiffer
  <2> QED BY <1>4, <2>1, <2>2
<1>9. ReadFile = image.files[f]
  BY <1>2, <1>3, ReadsTables
<1> QED BY <1>3, <1>4, <1>7, <1>8, <1>9 DEF VisitFile, Put

\* A visited file is added under its own path, and its sibling follows.
LEMMA VisitKeeps ==
    ASSUME Walking, VisitFile
    PROVE  Walking'
<1>1. PICK n, m \in Nat : WellFormed(image, n, m) /\ PathsDiffer(image, n, m)
  BY ImageIs, PathsOfEntries DEF Walking
<1>2. /\ calls # <<>> /\ Top.at = "files" /\ image' = image /\ Above' = Above
      /\ DOMAIN image.dirs = 0 .. n /\ DOMAIN image.files = 1 .. m
  BY <1>1 DEF VisitFile, Above, WellFormed
<1>3. PICK d, call, last, g : /\ d = Top.dir /\ call = [Top EXCEPT !.file = image.files[Top.file].sibling]
                              /\ last = Len(calls) /\ g = Top.file
  OBVIOUS
<1>4. /\ d \in 0 .. n /\ last \in Nat \ {0} /\ Top = calls[last] /\ CallType' = CallType
      /\ Top \in CallType /\ Reached(d)
      /\ g \in 1 .. m /\ image.files[g].parent = d
  BY <1>2, <1>3, Stands, Visited DEF CallType, Walking, CallsOK
<1>5. Leads(image.files[g].sibling, {f \in g + 1 .. m : image.files[f].parent = d})
  BY <1>1, <1>4 DEF WellFormed
<1>6. /\ call \in CallType /\ call.dir = d /\ call.at = "files" /\ call.file = image.files[g].sibling
      /\ call.file = Nothing \/ image.files[call.file].parent = d
  <2>1. call = [dir |-> d, at |-> "files", file |-> image.files[g].sibling]
    BY <1>2, <1>3, <1>4 DEF CallType
  <2>2. image.files[g].sibling = Nothing \/ (image.files[g].sibling \in 1 .. m /\ image.files[image.files[g].sibling].parent = d)
    BY <1>4, <1>5 DEF Leads
  <2> QED BY <1>2, <1>4, <2>1, <2>2 DEF CallType
<1>7. calls' = Append(Front(calls), call) /\ path' = Above[d] /\ tree' = [tree EXCEPT !.files = WithFile(@, FilePath(g), g)]
  BY <1>3, Visited
<1>8. calls \in Seq(CallType)
  BY DEF Walking, CallsOK
<1>9. /\ calls' \in Seq(CallType) /\ calls' # <<>> /\ Len(calls') = last /\ calls'[last] = call /\ Top' = call
      /\ \A k \in 1 .. last - 1 : calls'[k] = calls[k]
  BY <1>2, <1>3, <1>6, <1>7, <1>8, OtherTop DEF Top
<1>18. ASSUME NEW k \in 1 .. last - 1
       PROVE  /\ calls'[k] = calls[k] /\ calls'[k + 1].dir = calls[k + 1].dir
              /\ calls[k].dir \in 0 .. n /\ calls'[1].dir = calls[1].dir
  <2>1. k + 1 \in 1 .. last /\ k \in 1 .. last /\ 1 \in 1 .. last /\ \A i \in 1 .. last : i = last \/ i \in 1 .. last - 1
    BY <1>4
  <2>2. \A i \in 1 .. last : calls'[i].dir = calls[i].dir
    BY <1>3, <1>4, <1>6, <1>9, <2>1
  <2>3. calls[k] \in CallType
    BY <1>3, <1>8, <2>1, ElementOfSeq
  <2> QED BY <1>2, <1>9, <2>1, <2>2, <2>3 DEF CallType
<1>10. /\ tree'.dirs = tree.dirs /\ tree'.files = WithFile(tree.files, FilePath(g), g)
       /\ tree' = [dirs |-> tree'.dirs, files |-> tree'.files]
  BY <1>7 DEF Walking, TreeOK
<1>11. \A e : Reached(e)' <=> Reached(e)
  BY <1>2, <1>10 DEF Reached
<1>12. TrueDirectories' = TrueDirectories /\ \A f : FilePath(f)' = FilePath(f)
  BY <1>2 DEF TrueDirectories, FilePath
<1>19. \A p \in DOMAIN tree.files : \E f \in 1 .. m : p = FilePath(f) /\ tree.files[p] = f
  BY <1>2 DEF Walking, TreeOK
<1>20. \A f \in 1 .. m : FilePath(f) = FilePath(g) => f = g
  <2>1. \A f : FilePath(f) = PathOf(image, f)
    BY DEF FilePath, PathOf, Above
  <2> QED BY <1>1, <1>4, <2>1 DEF PathsDiffer
<1>21. FilePath(g) \in DOMAIN tree.files => tree.files[FilePath(g)] = g
  BY <1>19, <1>20
<1>22. PICK T, t, p : T = tree'.files /\ t = tree.files /\ p = FilePath(g)
  OBVIOUS
<1>23. DOMAIN T = DOMAIN t \cup {p} /\ T[p] = g /\ \A q \in DOMAIN t : T[q] = t[q]
  <2>1. /\ DOMAIN T = DOMAIN t \cup {p} /\ \A q \in DOMAIN t : T[q] = t[q]
        /\ p \notin DOMAIN t => T[p] = g
    <3>1. T = WithFile(t, p, g)
      BY <1>10, <1>22
    <3>2. /\ DOMAIN WithFile(t, p, g) = DOMAIN t \cup {p}
          /\ \A q \in DOMAIN t : WithFile(t, p, g)[q] = t[q]
          /\ p \notin DOMAIN t => WithFile(t, p, g)[p] = g
      BY WithFileIs, Zenon
    <3> QED BY <3>1, <3>2
  <2> QED BY <1>21, <1>22, <2>1
<1>24. \A f \in 1 .. m : Added(f) \/ f = g => Added(f)'
  BY <1>12, <1>22, <1>23 DEF Added
<1>13. CallsOK'
  <2>1. calls'[1].dir = 0
    <3>1. calls[1].dir = 0
      BY <1>2 DEF Walking, CallsOK
    <3>2. CASE last = 1
      BY <1>3, <1>4, <1>6, <1>9, <3>1, <3>2
    <3>3. CASE last # 1
      <4>1. 1 \in 1 .. last - 1
        BY <1>4, <3>3
      <4> QED BY <1>18, <3>1, <4>1
    <3> QED BY <3>2, <3>3
  <2>2. Reached(d)'
    BY <1>4, <1>11
  <2>3. ASSUME NEW k \in 1 .. last - 1
        PROVE  /\ calls'[k].at = "leave" /\ Reached(calls[k].dir)'
               /\ calls'[k + 1].dir # 0 /\ image.dirs[calls'[k + 1].dir].parent = calls'[k].dir
    <3>1. /\ calls[k].at = "leave" /\ Reached(calls[k].dir)
          /\ calls[k + 1].dir # 0 /\ image.dirs[calls[k + 1].dir].parent = calls[k].dir
      BY <1>3 DEF Walking, CallsOK
    <3>2. Reached(calls[k].dir)'
      BY <1>2, <1>10, <1>18, <3>1 DEF Reached
    <3> QED BY <1>18, <3>1, <3>2
  <2> QED BY <1>2, <1>4, <1>6, <1>9, <2>1, <2>2, <2>3 DEF CallsOK
<1>14. PathOK'
  BY <1>2, <1>6, <1>7, <1>9 DEF PathOK
<1>15. TreeOK'
  <2>1. <<>> \in tree.dirs /\ tree.dirs \subseteq TrueDirectories
    BY DEF Walking, TreeOK
  <2>2. \A q \in DOMAIN T : \E f \in 1 .. m : q = FilePath(f) /\ T[q] = f
    BY <1>4, <1>19, <1>22, <1>23
  <2> QED BY <1>2, <1>10, <1>12, <1>22, <2>1, <2>2 DEF TreeOK
<1>16. DirectoriesCovered'
  <2> SUFFICES ASSUME NEW c \in 1 .. n, Reached(image.dirs[c].parent)'
               PROVE  Reached(c)' \/ Awaited(c)'
    BY <1>1, <1>2 DEF DirectoriesCovered
  <2>1. PICK p0 \in 0 .. n : p0 = image.dirs[c].parent
    BY <1>1 DEF PathsDiffer
  <2>2. Reached(c) \/ Awaited(c)
    BY <1>2, <1>11, <2>1 DEF Walking, DirectoriesCovered
  <2>3. ASSUME Awaited(c) PROVE Awaited(c)'
    <3>1. PICK k \in 1 .. last : /\ calls[k].dir = p0
                                 /\ IF k = last THEN calls[k].at # "leave" ELSE calls[k + 1].dir <= c
      BY <1>3, <1>8, <2>1, <2>3 DEF Awaited
    <3>2. k \in DOMAIN calls' /\ (k = Len(calls') <=> k = last)
      BY <1>9
    <3>3. CASE k = last
      BY <1>2, <1>3, <1>4, <1>6, <1>9, <2>1, <3>1, <3>2, <3>3 DEF Awaited
    <3>4. CASE k # last
      <4>1. k \in 1 .. last - 1
        BY <1>4, <3>4
      <4> QED BY <1>2, <1>18, <2>1, <3>1, <3>2, <3>4, <4>1 DEF Awaited
    <3> QED BY <3>3, <3>4
  <2> QED BY <1>11, <2>2, <2>3
<1>17. FilesCovered'
  <2> SUFFICES ASSUME NEW f \in 1 .. m, Reached(image.files[f].parent)'
               PROVE  Added(f)' \/ Pending(f)'
    BY <1>1, <1>2 DEF FilesCovered
  <2>1. PICK p0 \in 0 .. n : p0 = image.files[f].parent
    BY <1>1 DEF PathsDiffer
  <2>2. Reached(p0)
    BY <1>2, <1>11, <2>1
  <2>3. Added(f) \/ Pending(f)
    BY <1>2, <2>1, <2>2 DEF Walking, FilesCovered
  <2>4. ASSUME Pending(f), f # g PROVE Pending(f)'
    <3>1. p0 = d /\ g <= f
      BY <1>2, <1>3, <2>1, <2>4 DEF Pending
    <3>2. f \in {h \in g + 1 .. m : image.files[h].parent = d}
      <4>1. f \in g + 1 .. m
        BY <1>1, <1>4, <2>4, <3>1
      <4> QED BY <2>1, <3>1, <4>1
    <3>3. call.file # Nothing /\ call.file <= f
      BY <1>4, <1>5, <1>6, <3>2, RomFsAssumption DEF Leads
    <3> QED BY <1>2, <1>6, <1>9, <2>1, <3>1, <3>3 DEF Pending
  <2> QED BY <1>24, <2>3, <2>4
<1>25. layout' = layout /\ Near'
  BY <1>2 DEF Walking, VisitFile, Near
<1> QED BY <1>2, <1>13, <1>14, <1>15, <1>16, <1>17, <1>25 DEF Walking
-----------------------------------------------------------------------------
\* No file is left when the calls go on to other directories.
LEMMA NoFileLeft ==
    ASSUME Walking, calls # <<>>, Top.at = "leave" \/ (Top.at = "files" /\ Top.file = Nothing),
           image' = image, tree' = tree
    PROVE  /\ FilesCovered' /\ TreeOK' /\ Above' = Above /\ CallType' = CallType
           /\ \A e : Reached(e)' <=> Reached(e)
<1>1. Above' = Above /\ CallType' = CallType
  BY DEF Above, CallType
<1>2. \A e : Reached(e)' <=> Reached(e)
  BY <1>1 DEF Reached
<1>3. \A f : FilePath(f)' = FilePath(f)
  BY <1>1 DEF FilePath
<1>4. \A f : Added(f)' <=> Added(f)
  BY <1>3 DEF Added
<1>5. \A f : ~Pending(f)
  BY DEF Pending
<1>6. \A f \in DOMAIN image.files : Reached(image.files[f].parent) => Added(f)
  BY <1>5 DEF Walking, FilesCovered
<1>7. FilesCovered'
  BY <1>2, <1>4, <1>6 DEF FilesCovered
<1>8. TreeOK'
  BY <1>1, <1>3 DEF Walking, TreeOK, TrueDirectories
<1> QED BY <1>1, <1>2, <1>7, <1>8

\* The call for the first child begins with the child's path.
LEMMA DescendKeeps ==
    ASSUME Walking, Descend
    PROVE  Walking'
<1>1. PICK n, m \in Nat : WellFormed(image, n, m) /\ PathsDiffer(image, n, m)
  BY ImageIs, PathsOfEntries DEF Walking
<1>2. /\ calls # <<>> /\ Top.at = "files" /\ Top.file = Nothing
      /\ image' = image /\ path' = path /\ tree' = tree
      /\ DOMAIN image.dirs = 0 .. n /\ DOMAIN image.files = 1 .. m
  BY <1>1 DEF Descend, WellFormed
<1>3. PICK d, call, last, child : /\ d = Top.dir /\ call = [Top EXCEPT !.at = "leave"]
                                  /\ last = Len(calls) /\ child = ReadDirectory.child
  OBVIOUS
<1>4. /\ d \in 0 .. n /\ last \in Nat \ {0} /\ Top = calls[last] /\ Top \in CallType /\ Reached(d)
      /\ path = Above[d] /\ child = image.dirs[d].child
  BY <1>2, <1>3, Stands, ReadsTables DEF CallType, Walking, CallsOK, PathOK
<1>5. /\ FilesCovered' /\ TreeOK' /\ Above' = Above /\ CallType' = CallType
      /\ \A e : Reached(e)' <=> Reached(e)
  BY <1>2, NoFileLeft
<1>6. call \in CallType /\ call.dir = d /\ call.at = "leave"
  <2>1. call = [dir |-> d, at |-> "leave", file |-> Nothing]
    BY <1>2, <1>3, <1>4 DEF CallType
  <2> QED BY <1>2, <1>4, <2>1 DEF CallType
<1>7. Leads(child, {e \in 1 .. n : image.dirs[e].parent = d})
  BY <1>1, <1>4 DEF WellFormed
<1>8. calls \in Seq(CallType)
  BY DEF Walking, CallsOK
<1>9. /\ calls[1].dir = 0
      /\ \A k \in 1 .. last - 1 :
            /\ calls[k].at = "leave" /\ Reached(calls[k].dir)
            /\ calls[k + 1].dir # 0 /\ image.dirs[calls[k + 1].dir].parent = calls[k].dir
  BY <1>2, <1>3 DEF Walking, CallsOK
<1>10. \A c \in 1 .. n : Reached(image.dirs[c].parent) =>
          \/ Reached(c) \/ image.dirs[c].parent = d
          \/ \E k \in 1 .. last - 1 : calls[k].dir = image.dirs[c].parent /\ calls[k + 1].dir <= c
  <2> SUFFICES ASSUME NEW c \in 1 .. n, Awaited(c)
               PROVE  \/ image.dirs[c].parent = d
                      \/ \E k \in 1 .. last - 1 : calls[k].dir = image.dirs[c].parent /\ calls[k + 1].dir <= c
    BY <1>2 DEF Walking, DirectoriesCovered
  <2>1. PICK k \in 1 .. last : /\ calls[k].dir = image.dirs[c].parent
                               /\ IF k = last THEN calls[k].at # "leave" ELSE calls[k + 1].dir <= c
    BY <1>3, <1>8 DEF Awaited
  <2>2. k = last \/ k \in 1 .. last - 1
    BY <1>4
  <2> QED BY <1>3, <1>4, <2>1, <2>2
<1>11. 1 \in 1 .. last /\ \A k \in 1 .. last : k = last \/ (k \in 1 .. last - 1 /\ k + 1 \in 1 .. last)
  BY <1>4
<1>25. layout' = layout /\ Near'
  BY <1>2 DEF Walking, Descend, Near
<1>12. CASE child = Nothing
  <2>1. calls' = Append(Front(calls), call)
    <3>1. Append(Front(calls), call) \in Seq(CallType)
      BY <1>2, <1>6, <1>8, OtherTop
    <3>2. calls' = Append(Front(calls), call) \o <<>>
      BY <1>3, <1>12 DEF Descend
    <3> QED BY <3>1, <3>2
  <2>2. /\ calls' \in Seq(CallType) /\ calls' # <<>> /\ Len(calls') = last /\ calls'[last] = call /\ Top' = call
        /\ \A k \in 1 .. last - 1 : calls'[k] = calls[k]
    BY <1>2, <1>3, <1>6, <1>8, <2>1, OtherTop DEF Top
  <2>3. \A k \in 1 .. last : calls'[k].dir = calls[k].dir
    BY <1>3, <1>4, <1>6, <1>11, <2>2
  <2>4. CallsOK'
    <3>1. calls'[1].dir = 0
      BY <1>9, <1>11, <2>3
    <3>2. Reached(d)'
      BY <1>4, <1>5
    <3>3. ASSUME NEW k \in 1 .. last - 1
          PROVE  /\ calls'[k].at = "leave" /\ Reached(calls[k].dir)'
                 /\ calls'[k + 1].dir # 0 /\ image.dirs[calls'[k + 1].dir].parent = calls'[k].dir
      <4>1. k \in 1 .. last /\ k + 1 \in 1 .. last
        BY <1>4
      <4>2. Reached(calls[k].dir)'
        BY <1>2, <1>5, <1>9, <2>2 DEF Reached
      <4> QED BY <1>9, <2>2, <2>3, <4>1, <4>2
    <3> QED BY <1>2, <1>5, <1>6, <2>2, <3>1, <3>2, <3>3 DEF CallsOK
  <2>5. DirectoriesCovered'
    <3> SUFFICES ASSUME NEW c \in 1 .. n, Reached(image.dirs[c].parent)', ~Reached(c)'
                 PROVE  Awaited(c)'
      BY <1>1, <1>2 DEF DirectoriesCovered
    <3>1. Reached(image.dirs[c].parent) /\ ~Reached(c)
      BY <1>2, <1>5 DEF Reached
    <3>2. image.dirs[c].parent # d
      BY <1>7, <1>12, RomFsAssumption DEF Leads
    <3>3. PICK k \in 1 .. last - 1 : calls[k].dir = image.dirs[c].parent /\ calls[k + 1].dir <= c
      BY <1>10, <3>1, <3>2
    <3>4. k \in DOMAIN calls' /\ k # Len(calls') /\ k \in 1 .. last /\ k + 1 \in 1 .. last
      BY <1>4, <2>2
    <3> QED BY <1>2, <2>2, <2>3, <3>3, <3>4 DEF Awaited
  <2>6. PathOK'
    BY <1>2, <1>4, <1>5, <1>6, <2>2 DEF PathOK
  <2> QED BY <1>2, <1>5, <2>4, <2>5, <2>6, <1>25 DEF Walking
<1>13. CASE child # Nothing
  <2>1. PICK e \in 1 .. n : /\ e = child /\ image.dirs[e].parent = d
                            /\ \A c \in 1 .. n : image.dirs[c].parent = d => e <= c
    BY <1>7, <1>13 DEF Leads
  <2>2. Call(e) \in CallType /\ Call(e).dir = e /\ Call(e).at = "directory"
    BY <1>1, <1>2 DEF Call, CallType
  <2>3. calls' = Append(Front(calls), call) \o <<Call(e)>>
    BY <1>3, <1>13, <2>1 DEF Descend
  <2>4. /\ calls' \in Seq(CallType) /\ calls' # <<>> /\ Len(calls') = last + 1 /\ calls'[last] = call
        /\ calls'[last + 1] = Call(e) /\ Top' = Call(e) /\ \A k \in 1 .. last - 1 : calls'[k] = calls[k]
    BY <1>2, <1>3, <1>6, <1>8, <2>2, <2>3, DeeperCalls DEF Top
  <2>5. \A k \in 1 .. last : calls'[k].dir = calls[k].dir
    BY <1>3, <1>4, <1>6, <1>11, <2>4
  <2>6. CallsOK'
    <3>1. calls'[1].dir = 0
      BY <1>9, <1>11, <2>5
    <3>3. ASSUME NEW k \in 1 .. last
          PROVE  /\ calls'[k].at = "leave" /\ Reached(calls[k].dir)'
                 /\ calls'[k + 1].dir # 0 /\ image.dirs[calls'[k + 1].dir].parent = calls'[k].dir
      <4>1. CASE k = last
        <5>1. Reached(calls[k].dir)'
          BY <1>3, <1>4, <1>5, <1>6, <2>4, <4>1 DEF Reached
        <5> QED BY <1>6, <2>1, <2>2, <2>4, <4>1, <5>1
      <4>2. CASE k # last
        <5>1. k \in 1 .. last - 1 /\ k + 1 \in 1 .. last
          BY <1>11, <4>2
        <5>2. Reached(calls[k].dir)'
          BY <1>2, <1>5, <1>9, <2>4, <5>1 DEF Reached
        <5> QED BY <1>9, <2>4, <2>5, <5>1, <5>2
      <4> QED BY <4>1, <4>2
    <3>4. (last + 1) - 1 = last
      BY <1>4
    <3> QED BY <1>2, <1>5, <2>2, <2>4, <3>1, <3>3, <3>4 DEF CallsOK
  <2>7. DirectoriesCovered'
    <3> SUFFICES ASSUME NEW c \in 1 .. n, Reached(image.dirs[c].parent)', ~Reached(c)'
                 PROVE  Awaited(c)'
      BY <1>1, <1>2 DEF DirectoriesCovered
    <3>1. Reached(image.dirs[c].parent) /\ ~Reached(c)
      BY <1>2, <1>5 DEF Reached
    <3>2. PICK k \in 1 .. last : calls'[k].dir = image.dirs[c].parent /\ calls'[k + 1].dir <= c
      <4>1. CASE image.dirs[c].parent = d
        BY <1>4, <1>6, <1>11, <2>1, <2>2, <2>4, <4>1
      <4>2. CASE image.dirs[c].parent # d
        <5>1. PICK k \in 1 .. last - 1 : calls[k].dir = image.dirs[c].parent /\ calls[k + 1].dir <= c
          BY <1>10, <3>1, <4>2
        <5>2. k \in 1 .. last /\ k + 1 \in 1 .. last
          BY <1>4
        <5> QED BY <2>5, <5>1, <5>2
      <4> QED BY <4>1, <4>2
    <3>3. k \in DOMAIN calls' /\ k # Len(calls')
      BY <1>4, <2>4
    <3> QED BY <1>2, <3>2, <3>3 DEF Awaited
  <2>8. PathOK'
    <3>1. ParentPath(Above[e]) = Above[d]
      BY <1>1, <2>1 DEF PathsDiffer, Above
    <3> QED BY <1>2, <1>4, <1>5, <2>2, <2>4, <3>1 DEF PathOK
  <2> QED BY <1>2, <1>5, <2>6, <2>7, <2>8, <1>25 DEF Walking
<1> QED BY <1>12, <1>13
-----------------------------------------------------------------------------
\* A call that ends goes on with the sibling, or gives the path back to its caller.
LEMMA LeaveKeeps ==
    ASSUME Walking, LeaveDirectory
    PROVE  Walking'
<1>1. PICK n, m \in Nat : WellFormed(image, n, m) /\ PathsDiffer(image, n, m)
  BY ImageIs, PathsOfEntries DEF Walking
<1>2. /\ calls # <<>> /\ Top.at = "leave" /\ image' = image /\ tree' = tree
      /\ DOMAIN image.dirs = 0 .. n /\ DOMAIN image.files = 1 .. m
  BY <1>1 DEF LeaveDirectory, WellFormed
<1>3. PICK d, last, sibling : d = Top.dir /\ last = Len(calls) /\ sibling = ReadDirectory.sibling
  OBVIOUS
<1>4. /\ d \in 0 .. n /\ last \in Nat \ {0} /\ Top = calls[last] /\ Top \in CallType /\ Reached(d)
      /\ path' = ParentPath(Above[d]) /\ sibling = image.dirs[d].sibling
  BY <1>2, <1>3, Stands, ReadsTables DEF CallType, Walking, CallsOK, PathOK, LeaveDirectory
<1>5. /\ FilesCovered' /\ TreeOK' /\ Above' = Above /\ CallType' = CallType
      /\ \A e : Reached(e)' <=> Reached(e)
  BY <1>2, NoFileLeft
<1>6. d # 0 => /\ last > 1 /\ calls[last - 1].dir = image.dirs[d].parent
               /\ ParentPath(Above[d]) = Above[image.dirs[d].parent]
  <2> SUFFICES ASSUME d # 0
               PROVE  /\ last > 1 /\ calls[last - 1].dir = image.dirs[d].parent
                      /\ ParentPath(Above[d]) = Above[image.dirs[d].parent]
    OBVIOUS
  <2>1. d \in 1 .. n
    BY <1>1, <1>4
  <2>2. ParentPath(Above[d]) = Above[image.dirs[d].parent]
    BY <1>1, <2>1 DEF PathsDiffer, Above
  <2> QED BY <1>2, <1>3, <2>2, Stands
<1>7. d # 0 => Leads(sibling, {e \in d + 1 .. n : image.dirs[e].parent = image.dirs[d].parent})
  <2>1. d # 0 => d \in 1 .. n
    BY <1>1, <1>4
  <2> QED BY <1>1, <1>4, <2>1 DEF WellFormed
<1>8. calls \in Seq(CallType)
  BY DEF Walking, CallsOK
<1>9. /\ calls[1].dir = 0
      /\ \A k \in 1 .. last - 1 :
            /\ calls[k].at = "leave" /\ Reached(calls[k].dir)
            /\ calls[k + 1].dir # 0 /\ image.dirs[calls[k + 1].dir].parent = calls[k].dir
  BY <1>2, <1>3 DEF Walking, CallsOK
<1>10. \A c \in 1 .. n : Reached(image.dirs[c].parent) =>
          \/ Reached(c)
          \/ \E k \in 1 .. last - 1 : calls[k].dir = image.dirs[c].parent /\ calls[k + 1].dir <= c
  <2> SUFFICES ASSUME NEW c \in 1 .. n, Awaited(c)
               PROVE  \E k \in 1 .. last - 1 : calls[k].dir = image.dirs[c].parent /\ calls[k + 1].dir <= c
    BY <1>2 DEF Walking, DirectoriesCovered
  <2>1. PICK k \in 1 .. last : /\ calls[k].dir = image.dirs[c].parent
                               /\ IF k = last THEN calls[k].at # "leave" ELSE calls[k + 1].dir <= c
    BY <1>3, <1>8 DEF Awaited
  <2>2. k \in 1 .. last - 1 /\ k # last
    BY <1>2, <1>4, <2>1
  <2> QED BY <2>1, <2>2
<1>11. \A k \in 1 .. last - 1 : k \in 1 .. last /\ k # last /\ (k = last - 1 \/ (k \in 1 .. last - 2 /\ k + 1 \in 1 .. last - 1 /\ k # last - 1))
  BY <1>4
\* What is below the innermost call's parent and was not reached comes later.
<1>12. ASSUME NEW c \in 1 .. n, ~Reached(c), d # 0, calls[last - 1].dir = image.dirs[c].parent, d <= c
       PROVE  sibling # Nothing /\ sibling <= c
  <2>1. d # c
    BY <1>4, <1>12
  <2>2. c \in d + 1 .. n
    BY <1>1, <1>4, <1>12, <2>1
  <2>3. c \in {e \in d + 1 .. n : image.dirs[e].parent = image.dirs[d].parent}
    BY <1>6, <1>12, <2>2
  <2>4. sibling \in {e \in d + 1 .. n : image.dirs[e].parent = image.dirs[d].parent} /\ sibling <= c
    BY <1>7, <1>12, <2>3 DEF Leads
  <2> QED BY <1>1, <1>4, <2>4, RomFsAssumption
<1>25. layout' = layout /\ Near'
  BY <1>2 DEF Walking, LeaveDirectory, Near
<1>13. CASE sibling = Nothing
  <2>1. calls' = Front(calls)
    BY <1>3, <1>13 DEF LeaveDirectory
  <2>2. /\ calls' \in Seq(CallType) /\ Len(calls') = last - 1
        /\ \A k \in 1 .. last - 1 : calls'[k] = calls[k] /\ calls[k] \in CallType
    BY <1>2, <1>3, <1>8, <2>1, ShorterCalls
  <2>3. ASSUME calls' # <<>>
        PROVE  /\ last - 1 \in 1 .. last - 1 /\ last - 2 \in Nat /\ Top' = calls[last - 1]
               /\ calls[last - 1].at = "leave" /\ Reached(calls[last - 1].dir)
               /\ 1 \in 1 .. last - 1 /\ d # 0
    <3>1. last - 1 # 0
      BY <2>2, <2>3
    <3>2. last - 1 \in 1 .. last - 1 /\ last - 2 \in Nat /\ 1 \in 1 .. last - 1 /\ (last - 1) + 1 = last
      BY <1>4, <3>1
    <3>3. Top' = calls'[last - 1]
      BY <2>2 DEF Top, Last
    <3>4. d # 0
      <4>1. calls[(last - 1) + 1].dir # 0
        BY <1>9, <3>2
      <4> QED BY <1>3, <1>4, <3>2, <4>1
    <3> QED BY <1>9, <2>2, <3>2, <3>3, <3>4
  <2>4. CallsOK'
    <3>1. calls' # <<>> => calls'[1].dir = 0 /\ Top'.at = "leave" /\ Reached(Top.dir)'
      <4>1. SUFFICES ASSUME calls' # <<>> PROVE calls'[1].dir = 0 /\ Top'.at = "leave" /\ Reached(Top.dir)'
        OBVIOUS
      <4>2. Reached(Top.dir)'
        BY <1>5, <2>3, <4>1 DEF Reached
      <4> QED BY <1>9, <2>2, <2>3, <4>1, <4>2
    <3>2. ASSUME NEW k \in 1 .. (last - 1) - 1
          PROVE  /\ calls'[k].at = "leave" /\ Reached(calls[k].dir)'
                 /\ calls'[k + 1].dir # 0 /\ image.dirs[calls'[k + 1].dir].parent = calls'[k].dir
      <4>1. k \in 1 .. last - 1 /\ k + 1 \in 1 .. last - 1
        BY <1>4
      <4>2. Reached(calls[k].dir)'
        BY <1>5, <1>9, <2>2, <4>1 DEF Reached
      <4> QED BY <1>9, <2>2, <4>1, <4>2
    <3> QED BY <1>2, <1>5, <2>2, <3>1, <3>2 DEF CallsOK
  <2>5. DirectoriesCovered'
    <3> SUFFICES ASSUME NEW c \in 1 .. n, Reached(image.dirs[c].parent)', ~Reached(c)'
                 PROVE  Awaited(c)'
      BY <1>1, <1>2 DEF DirectoriesCovered
    <3>1. Reached(image.dirs[c].parent) /\ ~Reached(c)
      BY <1>2, <1>5 DEF Reached
    <3>2. PICK k \in 1 .. last - 1 : calls[k].dir = image.dirs[c].parent /\ calls[k + 1].dir <= c
      BY <1>10, <3>1
    <3>3. k # last - 1
      <4>1. SUFFICES ASSUME k = last - 1 PROVE FALSE
        OBVIOUS
      <4>2. calls' # <<>> /\ k + 1 = last
        BY <1>4, <2>2, <4>1
      <4> QED BY <1>3, <1>4, <1>12, <1>13, <2>3, <3>1, <3>2, <4>1, <4>2
    <3>4. k \in 1 .. last - 1 /\ k + 1 \in 1 .. last - 1 /\ k \in DOMAIN calls' /\ k # Len(calls')
      BY <1>11, <2>2, <3>3
    <3> QED BY <1>2, <2>2, <3>2, <3>4 DEF Awaited
  <2>6. PathOK'
    <3> SUFFICES ASSUME calls' # <<>> PROVE path' = Above[calls[last - 1].dir] /\ Top'.at = "leave" /\ Top'.dir = calls[last - 1].dir
      BY <1>5 DEF PathOK
    <3> QED BY <1>4, <1>6, <2>3
  <2> QED BY <1>2, <1>5, <2>4, <2>5, <2>6, <1>25 DEF Walking
<1>14. CASE sibling # Nothing
  <2>1. d # 0
    BY <1>1, <1>4, <1>14 DEF WellFormed
  <2>2. PICK e \in 1 .. n : e = sibling /\ image.dirs[e].parent = image.dirs[d].parent
    <3>1. \A e \in d + 1 .. n : e \in 1 .. n
      BY <1>1, <1>4
    <3> QED BY <1>7, <1>14, <2>1, <3>1 DEF Leads
  <2>3. Call(e) \in CallType /\ Call(e).dir = e /\ Call(e).at = "directory"
    BY <1>1, <1>2 DEF Call, CallType
  <2>4. calls' = Append(Front(calls), Call(e))
    BY <1>3, <1>14, <2>2 DEF LeaveDirectory, Put
  <2>5. /\ calls' \in Seq(CallType) /\ calls' # <<>> /\ Len(calls') = last /\ calls'[last] = Call(e)
        /\ Top' = Call(e) /\ \A k \in 1 .. last - 1 : calls'[k] = calls[k]
    BY <1>2, <1>3, <1>8, <2>3, <2>4, OtherTop DEF Top
  <2>6. last - 1 \in 1 .. last - 1 /\ 1 \in 1 .. last - 1 /\ (last - 1) + 1 = last
    BY <1>4, <1>6, <2>1
  <2>7. CallsOK'
    <3>1. calls'[1].dir = 0
      BY <1>9, <2>5, <2>6
    <3>2. ASSUME NEW k \in 1 .. last - 1
          PROVE  /\ calls'[k].at = "leave" /\ Reached(calls[k].dir)'
                 /\ calls'[k + 1].dir # 0 /\ image.dirs[calls'[k + 1].dir].parent = calls'[k].dir
      <4>1. Reached(calls[k].dir)'
        BY <1>5, <1>9, <2>5 DEF Reached
      <4>2. CASE k = last - 1
        BY <1>1, <1>6, <1>9, <2>1, <2>2, <2>3, <2>5, <2>6, <4>1, <4>2
      <4>3. CASE k # last - 1
        <5>1. k + 1 \in 1 .. last - 1
          BY <1>4, <4>3
        <5> QED BY <1>9, <2>5, <4>1, <5>1
      <4> QED BY <4>2, <4>3
    <3> QED BY <1>2, <1>5, <2>3, <2>5, <3>1, <3>2 DEF CallsOK
  <2>8. DirectoriesCovered'
    <3> SUFFICES ASSUME NEW c \in 1 .. n, Reached(image.dirs[c].parent)', ~Reached(c)'
                 PROVE  Awaited(c)'
      BY <1>1, <1>2 DEF DirectoriesCovered
    <3>1. Reached(image.dirs[c].parent) /\ ~Reached(c)
      BY <1>2, <1>5 DEF Reached
    <3>2. PICK k \in 1 .. last - 1 : calls[k].dir = image.dirs[c].parent /\ calls[k + 1].dir <= c
      BY <1>10, <3>1
    <3>3. calls'[k + 1].dir <= c
      <4>1. CASE k = last - 1
        BY <1>3, <1>4, <1>12, <2>1, <2>2, <2>3, <2>5, <2>6, <3>1, <3>2, <4>1
      <4>2. CASE k # last - 1
        <5>1. k + 1 \in 1 .. last - 1
          BY <1>4, <4>2
        <5> QED BY <2>5, <3>2, <5>1
      <4> QED BY <4>1, <4>2
    <3>4. k \in DOMAIN calls' /\ k # Len(calls')
      BY <1>4, <2>5
    <3> QED BY <1>2, <2>5, <3>2, <3>3, <3>4 DEF Awaited
  <2>9. PathOK'
    <3>1. ParentPath(Above[e]) = Above[image.dirs[e].parent]
      BY <1>1 DEF PathsDiffer, Above
    <3> QED BY <1>4, <1>5, <1>6, <2>1, <2>2, <2>3, <2>5, <3>1 DEF PathOK
  <2> QED BY <1>2, <1>5, <2>7, <2>8, <2>9, <1>25 DEF Walking
<1> QED BY <1>13, <1>14

\* The walk begins with the root.
LEMMA MountKeeps ==
    ASSUME NEW tables \in Images, NEW places \in Layout, Below4GiB(tables, places), Mount(tables, places)
    PROVE  Walking'
<1>1. PICK n, m \in Nat : WellFormed(tables, n, m) /\ PathsDiffer(tables, n, m)
  BY ImageIs, PathsOfEntries
<1>2. /\ image' = tables /\ calls' = <<Call(0)>> /\ path' = <<>> /\ tree' = [dirs |-> {<<>>}, files |-> <<>>]
      /\ DOMAIN tables.dirs = 0 .. n /\ DOMAIN tables.files = 1 .. m
  BY <1>1 DEF Mount, WellFormed
<1>3. Above' = Paths(tables)
  BY <1>2 DEF Above
<1>4. PICK P : P = Paths(tables)
  OBVIOUS
<1>5. P[0] = <<>> /\ 0 \in 0 .. n /\ \A d \in 0 .. n : P[d] = <<>> => d = 0
  BY <1>1, <1>4 DEF PathsDiffer
<1>6. \A d \in 0 .. n : Reached(d)' <=> d = 0
  BY <1>2, <1>3, <1>4, <1>5 DEF Reached
<1>7. PICK c : c = Call(0)
  OBVIOUS
<1>8. c.dir = 0 /\ c.at = "directory" /\ c \in CallType'
  BY <1>2, <1>5, <1>7 DEF Call, CallType
<1>9. calls' = <<c>> /\ calls' # <<>> /\ Len(calls') = 1 /\ calls'[1] = c /\ Top' = c /\ DOMAIN calls' = 1 .. 1
  BY <1>2, <1>7 DEF Top, Last
<1>10. CallsOK'
  <2>1. calls' \in Seq(CallType')
    BY <1>8, <1>9
  <2>2. \A k \in 1 .. 1 - 1 : FALSE
    OBVIOUS
  <2> QED BY <1>8, <1>9, <2>1, <2>2 DEF CallsOK
<1>11. PathOK'
  BY <1>2, <1>3, <1>4, <1>5, <1>8, <1>9 DEF PathOK, ParentPath
<1>12. TreeOK'
  <2>1. <<>> \in TrueDirectories'
    BY <1>2, <1>3, <1>4, <1>5 DEF TrueDirectories
  <2> QED BY <1>2, <2>1 DEF TreeOK
<1>13. DirectoriesCovered'
  <2> SUFFICES ASSUME NEW e \in 1 .. n, Reached(tables.dirs[e].parent)'
               PROVE  Awaited(e)'
    BY <1>1, <1>2 DEF DirectoriesCovered
  <2>1. tables.dirs[e].parent = 0
    BY <1>1, <1>6 DEF PathsDiffer
  <2> QED BY <1>2, <1>8, <1>9, <2>1 DEF Awaited
<1>14. FilesCovered'
  <2> SUFFICES ASSUME NEW f \in 1 .. m, Reached(tables.files[f].parent)'
               PROVE  Pending(f)'
    BY <1>1, <1>2 DEF FilesCovered
  <2>1. tables.files[f].parent = 0
    BY <1>1, <1>6 DEF PathsDiffer
  <2> QED BY <1>2, <1>8, <1>9, <2>1 DEF Pending
<1>15. layout' = places /\ Near'
  BY <1>2 DEF Mount, Near
<1> QED BY <1>2, <1>10, <1>11, <1>12, <1>13, <1>14, <1>15 DEF Walking

\* No exception and no stray entry ends the walk of tables below 4 GiB.
LEMMA NothingStray ==
    ASSUME Walking
    PROVE  ~AddFails /\ ~PassFile
<1> SUFFICES ASSUME calls # <<>> PROVE ~AddFails /\ ~PassFile
  BY DEF AddFails, PassFile
<1>1. PICK n, m \in Nat : WellFormed(image, n, m) /\ PathsDiffer(image, n, m)
  BY ImageIs, PathsOfEntries DEF Walking
<1>2. PICK d : d = Top.dir
  OBVIOUS
<1>3. d \in 0 .. n /\ ReadDirectory = image.dirs[d]
  BY <1>1, <1>2, Stands, ReadsTables DEF CallType, WellFormed
<1>4. ASSUME Top.at = "directory", ReadDirectory.name # <<>>
      PROVE  Emplaces(path \o ReadDirectory.name)
  <2>1. d \in 1 .. n
    BY <1>1, <1>3, <1>4 DEF WellFormed
  <2>2. /\ ParentPath(Above[d]) = Above[image.dirs[d].parent]
        /\ Above[d] = Above[image.dirs[d].parent] \o image.dirs[d].name
    BY <1>1, <2>1 DEF PathsDiffer, Above
  <2>3. Reached(image.dirs[d].parent)
    BY <1>1, <1>2, <2>1, Stands
  <2>4. path = ParentPath(Above[d])
    BY <1>2, <1>4 DEF Walking, PathOK
  <2> QED BY <1>3, <2>2, <2>3, <2>4 DEF Emplaces, Reached
<1>5. ASSUME Top.at = "files", Top.file # Nothing
      PROVE  ReadFile.name \notin {<<>>, Nothing} /\ Emplaces(path \o ReadFile.name)
  <2>1. PICK f : f = Top.file
    OBVIOUS
  <2>2. f \in DOMAIN image.files /\ image.files[f].parent = d /\ Reached(d)
    BY <1>2, <1>5, <2>1, Stands DEF CallType, Walking, CallsOK
  <2>3. f \in 1 .. m /\ ReadFile = image.files[f]
    BY <1>1, <1>5, <2>1, <2>2, ReadsTables DEF WellFormed
  <2>4. path = Above[d]
    BY <1>2, <1>5 DEF Walking, PathOK
  <2>5. path \o ReadFile.name = FilePath(f) /\ ParentPath(FilePath(f)) = Above[d]
    <3>1. FilePath(f) = PathOf(image, f) /\ Above = Paths(image)
      BY DEF FilePath, PathOf, Above
    <3>2. ParentPath(PathOf(image, f)) = Paths(image)[image.files[f].parent]
      BY <1>1, <2>3 DEF PathsDiffer
    <3>3. path \o ReadFile.name = FilePath(f)
      BY <2>2, <2>3, <2>4 DEF FilePath
    <3> QED BY <2>2, <3>1, <3>2, <3>3
  <2>6. PICK name \in EntryName : ReadFile.name = <<name>>
    BY <1>1, <2>3 DEF WellFormed
  <2>7. ReadFile.name # <<>> /\ ReadFile.name # Nothing
    <3>1. <<name>> \in Seq(EntryName) /\ <<name>> # <<>>
      OBVIOUS
    <3> QED BY <2>6, <3>1, RomFsAssumption
  <2> QED BY <2>2, <2>5, <2>7 DEF Emplaces, Reached
<1> QED BY <1>4, <1>5 DEF AddFails, PassFile

\* The walk has met everything when the calls have returned.
LEMMA WalkMeetsAll ==
    ASSUME Walking
    PROVE  TreeIsWhole
<1> SUFFICES ASSUME calls = <<>>
             PROVE  /\ tree.dirs = TrueDirectories
                    /\ {<<p, tree.files[p]>> : p \in DOMAIN tree.files} = TrueFiles
  BY DEF TreeIsWhole
<1>1. PICK n, m \in Nat : WellFormed(image, n, m) /\ PathsDiffer(image, n, m)
  BY ImageIs, PathsOfEntries DEF Walking
<1>2. DOMAIN image.dirs = 0 .. n /\ DOMAIN image.files = 1 .. m
  BY <1>1 DEF WellFormed
<1>3. \A c \in 1 .. n : Reached(image.dirs[c].parent) => Reached(c)
  <2>1. \A c : ~Awaited(c)
    BY DEF Awaited
  <2> QED BY <1>2, <2>1 DEF Walking, DirectoriesCovered
<1> DEFINE Ks == {k \in 0 .. n : \A d \in 0 .. k : Reached(d)}
<1>4. 0 \in Ks
  <2>1. Reached(0)
    BY <1>1 DEF Walking, TreeOK, Reached, PathsDiffer, Above
  <2> QED BY <1>1, <2>1
<1>5. ASSUME NEW k \in 0 .. n, k \in Ks, k < n
      PROVE  k + 1 \in Ks
  <2>1. k + 1 \in 1 .. n /\ k + 1 \in 0 .. n /\ (k + 1) - 1 = k
    BY <1>1, <1>5
  <2>2. image.dirs[k + 1].parent \in 0 .. (k + 1) - 1
    BY <1>1, <2>1 DEF WellFormed
  <2>3. Reached(k + 1)
    BY <1>3, <1>5, <2>1, <2>2
  <2>4. \A d \in 0 .. k + 1 : d = k + 1 \/ d \in 0 .. k
    OBVIOUS
  <2> QED BY <1>5, <2>1, <2>3, <2>4
<1>6. \A d \in 0 .. n : Reached(d)
  <2> HIDE DEF Ks
  <2>1. \A k \in 0 .. n : k \in Ks
    BY <1>1, <1>4, <1>5, UpTo
  <2> QED BY <1>1, <2>1 DEF Ks
<1>7. tree.dirs = TrueDirectories
  BY <1>2, <1>6 DEF Walking, TreeOK, TrueDirectories, Reached
<1>8. \A f \in 1 .. m : Added(f)
  <2>1. \A f : ~Pending(f)
    BY DEF Pending
  <2>2. \A f \in 1 .. m : Reached(image.files[f].parent)
    BY <1>1, <1>6 DEF PathsDiffer
  <2> QED BY <1>2, <2>1, <2>2 DEF Walking, FilesCovered
<1>9. ASSUME NEW f \in 1 .. m
      PROVE  <<FilePath(f), f>> \in {<<p, tree.files[p]>> : p \in DOMAIN tree.files}
  BY <1>8 DEF Added
<1>10. ASSUME NEW p \in DOMAIN tree.files
       PROVE  <<p, tree.files[p]>> \in {<<FilePath(f), f>> : f \in 1 .. m}
  <2>1. PICK f \in DOMAIN image.files : p = FilePath(f) /\ tree.files[p] = f
    BY DEF Walking, TreeOK
  <2> QED BY <1>2, <2>1
<1> QED BY <1>2, <1>7, <1>9, <1>10 DEF TrueFiles

\* The invariant of the walk, which holds before the first one too.
LEMMA WalkStep ==
    ASSUME WalkInv, Visit \/ AddFails \/ UNCHANGED walk
    PROVE  WalkInv'
<1>1. CASE UNCHANGED walk
  <2>1. image' = image /\ layout' = layout /\ calls' = calls /\ path' = path /\ tree' = tree
    BY <1>1 DEF walk
  <2>2. Above' = Above /\ Top' = Top /\ CallType' = CallType
    BY <2>1 DEF Above, Top, CallType
  <2>3. \A f : FilePath(f)' = FilePath(f)
    BY <2>1, <2>2 DEF FilePath
  <2>4. \A d : Reached(d)' <=> Reached(d)
    BY <2>1, <2>2 DEF Reached
  <2>5. \A f : Added(f)' <=> Added(f)
    BY <2>1, <2>3 DEF Added
  <2>6. \A c : Awaited(c)' <=> Awaited(c)
    BY <2>1 DEF Awaited
  <2>7. \A f : Pending(f)' <=> Pending(f)
    BY <2>1, <2>2 DEF Pending
  <2>8. CallsOK => CallsOK'
    BY <2>1, <2>2, <2>4 DEF CallsOK
  <2>9. PathOK => PathOK'
    BY <2>1, <2>2 DEF PathOK
  <2>10. TreeOK => TreeOK'
    BY <2>1, <2>2, <2>3 DEF TreeOK, TrueDirectories
  <2>11. DirectoriesCovered => DirectoriesCovered'
    BY <2>1, <2>4, <2>6 DEF DirectoriesCovered
  <2>12. FilesCovered => FilesCovered'
    BY <2>1, <2>4, <2>5, <2>7 DEF FilesCovered
  <2>13. Near' <=> Near
    BY <2>1 DEF Near
  <2> QED BY <2>1, <2>8, <2>9, <2>10, <2>11, <2>12, <2>13 DEF WalkInv
<1>2. CASE Visit \/ AddFails
  <2>1. calls # <<>> /\ image' = image /\ layout' = layout /\ (Near' <=> Near)
    BY <1>2 DEF Visit, EnterDirectory, VisitFile, PassFile, Descend, LeaveDirectory, AddFails, Near
  <2>2. CASE Walking
    <3>1. EnterDirectory \/ VisitFile \/ Descend \/ LeaveDirectory
      BY <1>2, <2>2, NothingStray DEF Visit
    <3>2. Walking'
      BY <2>2, <3>1, EnterKeeps, VisitKeeps, DescendKeeps, LeaveKeeps
    <3> QED BY <3>2 DEF WalkInv, Walking
  <2>3. CASE ~Walking
    <3>1. image \in Images /\ layout \in Layout /\ ~Near
      BY <2>1, <2>3 DEF WalkInv, Walking
    <3> QED BY <2>1, <3>1 DEF WalkInv
  <2> QED BY <2>2, <2>3
<1> QED BY <1>1, <1>2
----------------------------------------------------------------------
\* What an archive should contain and what it contains.
LEMMA StoredIs ==
    ASSUME NEW a \in Archive
    PROVE  /\ a.size \in Nat \ {0} /\ a.size \in Sizes /\ a.size - a.zeros \in 1 .. a.size
           /\ Original(a) \in Seq(Byte) /\ Len(Original(a)) = a.size
           /\ Stored(a) \in Seq(Byte) /\ Len(Stored(a)) = a.size
           /\ \A k \in 1 .. a.size - a.zeros : Original(a)[k] = 1
           /\ IF a.intact THEN Stored(a) = Original(a) ELSE Stored(a)[a.size - a.zeros] = 2
<1>1. /\ a.size \in Sizes /\ a.size \in Nat \ {0} /\ a.zeros \in 0 .. 2 /\ a.zeros + 2 <= a.size
      /\ a.intact \in BOOLEAN
  BY TitleAssumption DEF Archive
<1>2. a.size - a.zeros \in 1 .. a.size
  BY <1>1
<1>3. Original(a) \in [1 .. a.size -> Byte]
  BY <1>1 DEF Original, Byte
<1>4. Original(a) \in Seq(Byte) /\ Len(Original(a)) = a.size
  BY <1>1, <1>3
<1>5. \A k \in 1 .. a.size - a.zeros : Original(a)[k] = 1
  BY <1>1, <1>2 DEF Original
<1>6. CASE a.intact
  BY <1>1, <1>2, <1>4, <1>5, <1>6 DEF Stored
<1>7. CASE ~a.intact
  <2>1. Stored(a) = [Original(a) EXCEPT ![a.size - a.zeros] = 2]
    BY <1>7 DEF Stored
  <2>2. Stored(a) \in [1 .. a.size -> Byte] /\ Stored(a)[a.size - a.zeros] = 2
    BY <1>2, <1>3, <2>1 DEF Byte
  <2>3. Stored(a) \in Seq(Byte) /\ Len(Stored(a)) = a.size
    BY <1>1, <2>2
  <2> QED BY <1>1, <1>2, <1>4, <1>5, <1>7, <2>2, <2>3
<1> QED BY <1>6, <1>7

\* The archives of a title put together are bytes.
LEMMA ArchivesTogether ==
    ASSUME NEW a \in Seq(Archive)
    PROVE  /\ [p \in DOMAIN a |-> Stored(a[p])] \in [1 .. Len(a) -> Seq(Byte)]
           /\ FlattenSeq([p \in DOMAIN a |-> Stored(a[p])]) \in Seq(Byte)
           /\ Whole(a) \in Seq(Byte)
<1> DEFINE all == [p \in DOMAIN a |-> Stored(a[p])]
           table == [i \in 1 .. TableSize |-> 1]
<1>1. Len(a) \in Nat /\ DOMAIN a = 1 .. Len(a) /\ \A p \in 1 .. Len(a) : a[p] \in Archive
  BY LenProperties
<1>2. all \in [1 .. Len(a) -> Seq(Byte)]
  BY <1>1, StoredIs
<1>3. FlattenSeq(all) \in Seq(Byte)
  <2>1. CASE Len(a) = 0
    <3>1. all = <<>> /\ Len(all) = 0
      BY <1>2, <2>1
    <3> QED BY <3>1 DEF FlattenSeq
  <2>2. CASE Len(a) # 0
    <3> DEFINE few == [p \in 1 .. Len(a) - 1 |-> all[p]]
    <3>1. few \in [1 .. Len(a) - 1 -> Seq(Byte)]
      BY <1>1, <1>2
    <3>2. Agree(few, all, Len(a) - 1)
      BY DEF Agree
    <3> HIDE DEF few, all
    <3>3. Len(a) \in Nat \ {0}
      BY <1>1, <2>2
    <3> QED BY <1>2, <3>1, <3>2, <3>3, FlattenExtends
  <2> QED BY <2>1, <2>2
<1>4. table \in Seq(Byte)
  BY TitleAssumption DEF Byte
<1>5. Whole(a) = table \o FlattenSeq(all)
  BY DEF Whole
<1> HIDE DEF all, table
<1>6. Whole(a) \in Seq(Byte)
  BY <1>3, <1>4, <1>5
<1> QED BY <1>2, <1>3, <1>6 DEF all

\* The next archive is put behind the ones before it.
LEMMA WholeGrows ==
    ASSUME NEW a \in Seq(Archive), NEW p \in 1 .. Len(a)
    PROVE  /\ SubSeq(a, 1, p - 1) \in Seq(Archive) /\ SubSeq(a, 1, p) \in Seq(Archive)
           /\ Whole(SubSeq(a, 1, p)) = Whole(SubSeq(a, 1, p - 1)) \o Stored(a[p])
<1> DEFINE before == SubSeq(a, 1, p - 1)
           upTo == SubSeq(a, 1, p)
           few == [q \in DOMAIN before |-> Stored(before[q])]
           many == [q \in DOMAIN upTo |-> Stored(upTo[q])]
           table == [i \in 1 .. TableSize |-> 1]
<1>1. /\ before \in Seq(Archive) /\ Len(before) = p - 1 /\ DOMAIN before = 1 .. p - 1
      /\ upTo \in Seq(Archive) /\ Len(upTo) = p /\ DOMAIN upTo = 1 .. p
      /\ \A q \in 1 .. p - 1 : before[q] = upTo[q]
      /\ upTo[p] = a[p] /\ a[p] \in Archive
  OBVIOUS
<1> HIDE DEF before, upTo
<1>2. few \in [1 .. p - 1 -> Seq(Byte)] /\ many \in [1 .. p -> Seq(Byte)]
  BY <1>1, ArchivesTogether
<1>3. Agree(few, many, p - 1) /\ many[p] = Stored(a[p])
  BY <1>1 DEF Agree
<1>4. /\ Whole(before) = table \o FlattenSeq(few) /\ Whole(upTo) = table \o FlattenSeq(many)
      /\ FlattenSeq(few) \in Seq(Byte) /\ table \in Seq(Byte) /\ Stored(a[p]) \in Seq(Byte)
  <2>1. Whole(before) = table \o FlattenSeq(few) /\ Whole(upTo) = table \o FlattenSeq(many)
    BY DEF Whole
  <2>2. FlattenSeq(few) \in Seq(Byte)
    BY <1>1, ArchivesTogether
  <2>3. table \in Seq(Byte)
    BY TitleAssumption DEF Byte
  <2> QED BY <1>1, <2>1, <2>2, <2>3, StoredIs
<1> HIDE DEF few, many, table
<1>5. FlattenSeq(many) = FlattenSeq(few) \o Stored(a[p])
  <2>1. p \in Nat \ {0}
    OBVIOUS
  <2> QED BY <1>2, <1>3, <2>1, FlattenExtends
<1>6. Whole(upTo) = Whole(before) \o Stored(a[p])
  <2>1. PICK t \in Seq(Byte), f \in Seq(Byte), e \in Seq(Byte) :
            t = table /\ f = FlattenSeq(few) /\ e = Stored(a[p])
    BY <1>4
  <2>2. t \o (f \o e) = (t \o f) \o e
    BY ConcatAssociative
  <2> QED BY <1>4, <1>5, <2>1, <2>2
<1> QED BY <1>1, <1>6 DEF before, upTo

\* One sequence begins with another.
Begins(s, t) == Len(s) <= Len(t) /\ \A i \in 1 .. Len(s) : t[i] = s[i]

\* The archives up to one are the beginning of the archives up to a later one.
LEMMA WholeBegins ==
    ASSUME NEW a \in Seq(Archive), NEW p \in 0 .. Len(a), NEW q \in p .. Len(a)
    PROVE  Begins(Whole(SubSeq(a, 1, p)), Whole(SubSeq(a, 1, q)))
<1> DEFINE W(k) == Whole(SubSeq(a, 1, k))
           Ks == {k \in 0 .. Len(a) : p <= k => Begins(W(p), W(k))}
<1>1. Len(a) \in Nat
  BY LenProperties
<1>2. \A k \in 0 .. Len(a) : W(k) \in Seq(Byte)
  <2>1. \A k \in 0 .. Len(a) : SubSeq(a, 1, k) \in Seq(Archive)
    BY <1>1
  <2> QED BY <2>1, ArchivesTogether
<1>3. \A k \in 0 .. Len(a) : Begins(W(k), W(k))
  BY <1>2 DEF Begins
<1>4. 0 \in Ks
  <2>1. p <= 0 => p = 0
    OBVIOUS
  <2> HIDE DEF W
  <2> QED BY <1>1, <1>3, <2>1
<1>5. ASSUME NEW k \in 0 .. Len(a), k \in Ks, k < Len(a)
      PROVE  k + 1 \in Ks
  <2>1. k + 1 \in 1 .. Len(a) /\ k + 1 \in 0 .. Len(a) /\ (k + 1) - 1 = k
    BY <1>1, <1>5
  <2>2. W(k + 1) = W(k) \o Stored(a[k + 1])
    BY <2>1, WholeGrows
  <2>3. Stored(a[k + 1]) \in Seq(Byte) /\ W(k) \in Seq(Byte) /\ W(p) \in Seq(Byte)
    BY <1>2, <2>1, StoredIs
  <2> HIDE DEF W
  <2>4. CASE p <= k
    <3>1. Begins(W(p), W(k))
      BY <1>5, <2>4
    <3>2. Begins(W(p), W(k + 1))
      BY <2>2, <2>3, <3>1 DEF Begins
    <3> QED BY <2>1, <3>2
  <2>5. CASE ~(p <= k)
    <3>1. p <= k + 1 => p = k + 1
      BY <2>5
    <3> QED BY <1>3, <2>1, <3>1
  <2> QED BY <2>4, <2>5
<1>6. q \in 0 .. Len(a) /\ p <= q
  BY <1>1
<1>7. Begins(W(p), W(q))
  <2> HIDE DEF Ks
  <2>1. \A k \in 0 .. Len(a) : k \in Ks
    BY <1>1, <1>4, <1>5, UpTo
  <2> QED BY <1>6, <2>1 DEF Ks
<1> QED BY <1>7
-----------------------------------------------------------------------------
\* A title has archives, an order in which each is checked, and a file that is
\* shorter than them by less than the last.
LEMMA TitleIs ==
    ASSUME NEW t \in Title
    PROVE  \E n \in Nat \ {0} :
              /\ t.archives \in Seq(Archive) /\ t.archives \in [1 .. n -> Archive]
              /\ Len(t.archives) = n /\ DOMAIN t.archives = 1 .. n
              /\ t.order \in [1 .. n -> 1 .. n] /\ Len(t.order) = n
              /\ \A p \in 1 .. n : \E m \in 1 .. n : t.order[m] = p
              /\ t.cut \in Nat /\ t.cut < t.archives[n].size
              /\ Len(Whole(t.archives)) < Wide
<1>1. PICK n \in 1 .. MaxArchives :
          /\ t \in [archives : [1 .. n -> Archive], order : SetToSeqs(1 .. n), cut : 0 .. TableSize]
          /\ Opened(t)
  BY DEF Title
<1>2. n \in Nat \ {0} /\ TableSize \in Nat
  BY TitleAssumption
<1>3. /\ t.archives \in [1 .. n -> Archive] /\ t.archives \in Seq(Archive)
      /\ Len(t.archives) = n /\ DOMAIN t.archives = 1 .. n
  BY <1>1, <1>2
<1>4. t.cut \in Nat /\ t.cut < t.archives[n].size
  BY <1>1, <1>2, <1>3 DEF Opened
<1>5. IsFiniteSet(1 .. n) /\ Cardinality(1 .. n) = n
  <2>1. 1 \in Int /\ n \in Int /\ ~(1 > n) /\ n - 1 + 1 = n
    BY <1>2
  <2> QED BY <2>1, FS_Interval
<1>6. t.order \in [1 .. n -> 1 .. n] /\ \A i, j \in 1 .. n : i # j => t.order[i] # t.order[j]
  BY <1>1, <1>5 DEF SetToSeqs
<1>7. \A p \in 1 .. n : \E m \in 1 .. n : t.order[m] = p
  <2>1. t.order \in Injection(1 .. n, 1 .. n)
    BY <1>6 DEF Injection, IsInjective
  <2>2. t.order \in Surjection(1 .. n, 1 .. n)
    BY <1>5, <2>1, FS_Injection
  <2> QED BY <2>2 DEF Surjection
<1>8. Len(t.order) = n
  BY <1>2, <1>6
<1>9. Len(Whole(t.archives)) < Wide
  BY SizeAssumption
<1> QED BY <1>2, <1>3, <1>4, <1>6, <1>7, <1>8, <1>9

\* The file still has byte k of archive p.
Kept(p, k) == Part(p).starts + k <= Len(File)

\* Where an archive lies in the file: at the place of what is read through its part;
\* only the end of the last one was cut off.
LiesInFile(p) ==
    LET a == title.archives[p]
    IN /\ a \in Archive
       /\ Part(p).starts \in Nat /\ Part(p).ends = a.size /\ Part(p).starts + a.size < Wide
       /\ \A k \in 1 .. a.size : Kept(p, k) => File[Part(p).starts + k] = Stored(a)[k]
       /\ ~Truncated(p) => Kept(p, a.size)
       /\ Truncated(p) => \A k \in 1 .. a.size : Kept(p, k) => k <= a.size - title.cut

\* Where an archive lies in the title's file, and what is cut off of it.
LEMMA FileIs ==
    ASSUME title \in Title
    PROVE  /\ File \in Seq(Byte) /\ Len(File) < Wide
           /\ \A p \in 1 .. Len(title.archives) : LiesInFile(p)
<1> DEFINE a == title.archives
           n == Len(a)
           W(k) == Whole(SubSeq(a, 1, k))
           l == Len(Whole(a))
<1>1. /\ n \in Nat \ {0} /\ a \in Seq(Archive) /\ title.cut \in Nat /\ title.cut < a[n].size
      /\ \A p \in 1 .. n : a[p] \in Archive
  BY TitleIs
<1>2. l < Wide /\ Wide \in Nat
  BY TitleIs, ReadAssumption
<1> HIDE DEF a
<1>3. \A p \in 0 .. n : W(p) \in Seq(Byte) /\ Begins(W(p), W(n))
  <2>1. \A p \in 0 .. n : SubSeq(a, 1, p) \in Seq(Archive)
    BY <1>1
  <2>2. \A p \in 0 .. n : Begins(W(p), W(n))
    <3>1. \A p \in 0 .. n : n \in p .. n
      BY <1>1
    <3> QED BY <1>1, <3>1, WholeBegins
  <2> QED BY <2>1, <2>2, ArchivesTogether
<1>4. W(n) = Whole(a) /\ Whole(a) \in Seq(Byte) /\ l \in Nat
  <2>1. SubSeq(a, 1, n) = a /\ a \in Seq(Archive)
    BY <1>1, SubSeqFull
  <2>2. Whole(a) \in Seq(Byte)
    BY <2>1, ArchivesTogether
  <2> QED BY <2>1, <2>2, LenProperties
<1>5. \A p \in 1 .. n : Len(W(p)) = Len(W(p - 1)) + a[p].size
                        /\ \A k \in 1 .. a[p].size : W(p)[Len(W(p - 1)) + k] = Stored(a[p])[k]
  <2> SUFFICES ASSUME NEW p \in 1 .. n
               PROVE  /\ Len(W(p)) = Len(W(p - 1)) + a[p].size
                      /\ \A k \in 1 .. a[p].size : W(p)[Len(W(p - 1)) + k] = Stored(a[p])[k]
    OBVIOUS
  <2>1. W(p) = W(p - 1) \o Stored(a[p])
    BY <1>1, WholeGrows
  <2>2. p - 1 \in 0 .. n
    BY <1>1
  <2>3. W(p - 1) \in Seq(Byte)
    BY <1>3, <2>2
  <2>4. Stored(a[p]) \in Seq(Byte) /\ Len(Stored(a[p])) = a[p].size /\ a[p].size \in Nat
    BY <1>1, StoredIs
  <2>5. PICK s \in Seq(Byte), e \in Seq(Byte), m \in Nat :
           s = W(p - 1) /\ e = Stored(a[p]) /\ m = a[p].size
    BY <2>3, <2>4
  <2>6. W(p) = s \o e /\ Len(e) = m
    BY <2>1, <2>4, <2>5
  <2>7. Len(s \o e) = Len(s) + m /\ \A k \in 1 .. m : (s \o e)[Len(s) + k] = e[k]
    <3>1. /\ Len(s \o e) = Len(s) + Len(e) /\ Len(s) \in Nat
          /\ \A i \in 1 .. Len(s) + Len(e) :
                (s \o e)[i] = IF i <= Len(s) THEN s[i] ELSE e[i - Len(s)]
      BY ConcatProperties, LenProperties
    <3>2. \A k \in 1 .. m : /\ Len(s) + k \in 1 .. Len(s) + Len(e) /\ ~(Len(s) + k <= Len(s))
                          /\ (Len(s) + k) - Len(s) = k
      BY <2>6, <3>1
    <3> QED BY <2>6, <3>1, <3>2
  <2> QED BY <2>5, <2>6, <2>7
<1> HIDE DEF W
<1>6. l - title.cut \in 0 .. l /\ Len(W(n)) = l
  <2>1. Len(W(n)) = Len(W(n - 1)) + a[n].size
    BY <1>1, <1>5
  <2>2. Len(W(n - 1)) \in Nat
    <3>1. n - 1 \in 0 .. n
      BY <1>1
    <3> QED BY <1>3, <3>1, LenProperties
  <2>3. a[n].size \in Nat
    BY <1>1, StoredIs
  <2>4. l = Len(W(n - 1)) + a[n].size
    BY <1>4, <2>1
  <2> QED BY <1>1, <1>4, <2>2, <2>3, <2>4
<1>7. /\ File \in Seq(Byte) /\ Len(File) = l - title.cut
      /\ \A i \in 1 .. Len(File) : File[i] = Whole(a)[i]
  <2>1. File = SubSeq(Whole(a), 1, l - title.cut)
    BY DEF File, a
  <2>2. PICK w \in Seq(Byte), m \in Nat : w = Whole(a) /\ m = l - title.cut /\ m <= Len(w)
    BY <1>4, <1>6
  <2>3. File = SubSeq(w, 1, m)
    BY <2>1, <2>2
  <2> QED BY <2>2, <2>3
<1>8. ASSUME NEW p \in 1 .. n
      PROVE  LiesInFile(p)
  <2>1. /\ Part(p).starts = Len(W(p - 1)) /\ Part(p).ends = a[p].size
        /\ Truncated(p) <=> title.cut > 0 /\ p = n
    BY DEF Part, W, a, Truncated
  <2>2. /\ p - 1 \in 0 .. n /\ Len(W(p - 1)) \in Nat
        /\ a[p] \in Archive /\ a[p].size \in Nat \ {0}
    <3>1. p - 1 \in 0 .. n
      BY <1>1
    <3> QED BY <1>1, <1>3, <3>1, LenProperties, StoredIs
  <2>3. PICK o \in Nat, m \in Nat \ {0} : o = Len(W(p - 1)) /\ m = a[p].size
    BY <2>2
  <2>4. Len(W(p)) = o + m /\ \A k \in 1 .. m : W(p)[o + k] = Stored(a[p])[k]
    BY <1>5, <2>3
  <2>5. o + m <= l /\ \A k \in 1 .. m : Whole(a)[o + k] = W(p)[o + k]
    <3>1. p \in 0 .. n
      BY <1>1
    <3>2. Begins(W(p), Whole(a))
      BY <1>3, <1>4, <3>1
    <3> QED BY <2>3, <2>4, <3>2 DEF Begins
  <2>6. \A k \in 1 .. m : o + k <= Len(File) => File[o + k] = Stored(a[p])[k]
    <3> SUFFICES ASSUME NEW k \in 1 .. m, o + k <= Len(File)
                 PROVE  File[o + k] = Stored(a[p])[k]
      OBVIOUS
    <3>1. o + k \in 1 .. Len(File)
      BY <1>7, <2>3, LenProperties
    <3>2. File[o + k] = Whole(a)[o + k]
      BY <1>7, <3>1
    <3> QED BY <2>4, <2>5, <3>2
  <2>7. ~Truncated(p) => o + m <= Len(File)
    <3>1. CASE title.cut = 0
      BY <1>4, <1>7, <2>5, <3>1
    <3>2. CASE p # n
      <4>1. p \in 0 .. n - 1 /\ n - 1 \in p .. n /\ n - 1 \in 0 .. n
        BY <1>1, <3>2
      <4>2. Begins(W(p), W(n - 1))
        BY <1>1, <4>1, WholeBegins DEF W
      <4>3. Len(W(n)) = Len(W(n - 1)) + a[n].size
        BY <1>1, <1>5
      <4>4. Len(W(n - 1)) \in Nat /\ a[n].size \in Nat
        <5>1. a[n] \in Archive
          BY <1>1
        <5>2. W(n - 1) \in Seq(Byte)
          BY <1>3, <4>1
        <5> QED BY <5>1, <5>2, LenProperties, StoredIs
      <4>5. o + m <= Len(W(n - 1))
        BY <2>4, <4>2 DEF Begins
      <4>6. l = Len(W(n - 1)) + a[n].size
        BY <1>6, <4>3
      <4>7. PICK w \in Nat, z \in Nat, c \in Nat :
               w = Len(W(n - 1)) /\ z = a[n].size /\ c = title.cut
        BY <1>1, <4>4
      <4>8. Len(File) = (w + z) - c /\ c < z /\ o + m <= w
        BY <1>1, <1>7, <4>5, <4>6, <4>7
      <4>9. o + m <= (w + z) - c
        BY <2>3, <4>8
      <4> QED BY <4>8, <4>9
    <3> QED BY <1>1, <2>1, <3>1, <3>2
  <2>8. Truncated(p) => \A k \in 1 .. m : o + k <= Len(File) => k <= m - title.cut
    <3>1. Truncated(p) => o + m = l
      BY <1>6, <2>1, <2>4
    <3>2. PICK c \in Nat : c = title.cut
      BY <1>1
    <3>3. Truncated(p) => Len(File) = (o + m) - c
      BY <1>7, <3>1, <3>2
    <3>4. ASSUME Truncated(p), NEW k \in 1 .. m, o + k <= Len(File)
          PROVE  k <= m - c
      <4>1. o + k <= (o + m) - c
        BY <3>3, <3>4
      <4> QED BY <2>3, <3>2, <4>1
    <3> QED BY <3>2, <3>4
  <2> QED BY <1>2, <1>4, <2>1, <2>2, <2>3, <2>5, <2>6, <2>7, <2>8 DEF LiesInFile, Kept, a
<1>9. Len(File) < Wide
  BY <1>1, <1>2, <1>4, <1>7
<1> QED BY <1>7, <1>8, <1>9 DEF a

\* The loop of VerifyNca asks for no more than is left of the archive, and for
\* something while something is left.
LEMMA BlockIs ==
    ASSUME title \in Title, Current \in 1 .. Len(title.archives),
           cursor \in 0 .. CurrentArchive.size
    PROVE  /\ Block \in Nat /\ Block <= CurrentArchive.size - cursor
           /\ Block = 0 => cursor = CurrentArchive.size
           /\ Block > 0 => cursor < CurrentArchive.size
<1>1. /\ CurrentArchive.size \in Nat /\ Part(Current).ends = CurrentArchive.size
      /\ CurrentArchive.size < Wide
  <2>1. LiesInFile(Current)
    BY FileIs
  <2>2. PICK o \in Nat : o = Part(Current).starts
    BY <2>1 DEF LiesInFile
  <2>3. CurrentArchive.size \in Nat
    BY <2>1, StoredIs DEF LiesInFile, CurrentArchive
  <2>4. o + CurrentArchive.size < Wide /\ Part(Current).ends = CurrentArchive.size
    BY <2>1, <2>2 DEF LiesInFile, CurrentArchive
  <2> QED BY <2>2, <2>3, <2>4, ReadAssumption
<1>2. PICK z \in Nat, c \in Nat : z = CurrentArchive.size /\ c = cursor /\ c <= z
  BY <1>1
<1>3. RemainBytes(Part(Current), cursor) = z - c
  <2>1. RemainBytes(Part(Current), cursor) = (z + (Wide - c)) % Wide
    <3>1. Part(Current).ends = z /\ cursor = c
      BY <1>1, <1>2
    <3> QED BY <3>1, Zenon DEF RemainBytes
  <2>2. z + (Wide - c) = (z - c) + Wide /\ z - c \in 0 .. Wide - 1 /\ Wide \in Nat \ {0}
    BY <1>1, <1>2, ReadAssumption
  <2>3. ((z - c) + Wide) % Wide = z - c
    BY <2>2
  <2> QED BY <2>1, <2>2, <2>3
<1>4. BufferSize \in Nat \ {0}
  BY TitleAssumption
<1>5. Block = IF z - c <= BufferSize THEN z - c ELSE BufferSize
  BY <1>3 DEF Block, Least
<1> QED BY <1>2, <1>4, <1>5

\* What one turn of the loop reads: bytes of the archive from the cursor on, but
\* zeros for what was cut off; and all that was asked for, unless some was cut off.
LEMMA ReadIs ==
    ASSUME title \in Title, Current \in 1 .. Len(title.archives),
           cursor \in 0 .. CurrentArchive.size
    PROVE  LET bytes == StreamRead(File, Part(Current), Block, cursor)
               stored == Stored(CurrentArchive)
           IN /\ bytes \in Seq(Byte) /\ Len(bytes) \in 0 .. Block
              /\ \A i \in 1 .. Len(bytes) :
                    bytes[i] # 0 => Kept(Current, cursor + i) /\ bytes[i] = stored[cursor + i]
              /\ ~Truncated(Current) => \A i \in 1 .. Len(bytes) : bytes[i] = stored[cursor + i]
<1> DEFINE bytes == StreamRead(File, Part(Current), Block, cursor)
           stored == Stored(CurrentArchive)
<1>1. LiesInFile(Current) /\ File \in Seq(Byte) /\ Len(File) \in Nat /\ Len(File) < Wide
  BY FileIs, LenProperties
<1>2. Part(Current).starts \in Nat /\ CurrentArchive.size \in Nat
  BY <1>1, StoredIs DEF LiesInFile, CurrentArchive
<1>3. PICK o \in Nat, z \in Nat, c \in Nat, n \in Nat :
         /\ o = Part(Current).starts /\ z = CurrentArchive.size /\ c = cursor /\ n = Block
         /\ c <= z /\ n <= z - c
  <2>1. cursor \in Nat /\ cursor <= CurrentArchive.size
    BY <1>2
  <2>2. Block \in Nat /\ Block <= CurrentArchive.size - cursor
    BY BlockIs
  <2> QED BY <1>2, <2>1, <2>2
<1>4. /\ o + z < Wide
      /\ \A k \in 1 .. z : o + k <= Len(File) => File[o + k] = stored[k]
      /\ ~Truncated(Current) => o + z <= Len(File)
  BY <1>1, <1>3 DEF LiesInFile, Kept, CurrentArchive
<1>5. bytes = RegularRead(File, n, o + c)
  BY <1>3 DEF StreamRead, LayeredRead
<1>6. bytes \in Seq(Byte \cup {0}) /\ IsRead(bytes, File, n, o + c)
  <2>1. n \in Nat /\ o + c \in Nat /\ o + c < Wide
    BY <1>3, <1>4, ReadAssumption
  <2> QED BY <1>1, <1>5, <2>1, RegularReadFits
<1> HIDE DEF bytes, stored
<1>7. bytes \in Seq(Byte)
  <2>1. Byte \cup {0} = Byte
    BY DEF Byte
  <2> QED BY <1>6, <2>1
<1>8. Len(bytes) \in 0 .. n /\ \A i \in 1 .. Len(bytes) : c + i \in 1 .. z /\ (o + c) + i = o + (c + i)
  <2>1. PICK l : l = Len(bytes)
    OBVIOUS
  <2>2. l \in 0 .. n
    BY <1>6, <2>1 DEF IsRead
  <2>3. \A i \in 1 .. l : c + i \in 1 .. z /\ (o + c) + i = o + (c + i)
    BY <1>3, <2>2
  <2> QED BY <2>1, <2>2, <2>3
<1>9. ASSUME NEW i \in 1 .. Len(bytes), bytes[i] # 0
      PROVE  o + (c + i) <= Len(File) /\ bytes[i] = stored[c + i]
  <2>1. (o + c) + i <= Len(File) /\ bytes[i] = File[(o + c) + i]
    BY <1>6, <1>9 DEF IsRead
  <2> QED BY <1>4, <1>8, <2>1
<1>10. ASSUME ~Truncated(Current), NEW i \in 1 .. Len(bytes)
       PROVE  bytes[i] = stored[c + i]
  <2>1. (o + c) + n <= Len(File)
    BY <1>1, <1>3, <1>4, <1>10
  <2>2. bytes[i] = File[(o + c) + i] /\ i \in 1 .. n
    BY <1>6, <1>8, <2>1 DEF IsRead
  <2>3. o + (c + i) <= Len(File)
    BY <1>1, <1>3, <2>1, <2>2
  <2> QED BY <1>4, <1>8, <2>2, <2>3
<1> QED BY <1>3, <1>7, <1>8, <1>9, <1>10 DEF Kept, bytes, stored
-----------------------------------------------------------------------------
\* The last bytes that were hashed, as many as the cursor has passed, are those of the
\* archive, but zeros may stand for what was cut off.
Reading ==
    Checking =>
        /\ cursor \in 0 .. CurrentArchive.size
        /\ cursor # 0 => Eligible(CurrentArchive) /\ checksum.status = "Updating"
        /\ checksum.status = "Updating" =>
              /\ cursor <= Len(checksum.bytes)
              /\ \A k \in 1 .. cursor :
                    LET byte == checksum.bytes[(Len(checksum.bytes) - cursor) + k]
                    IN byte # 0 => Kept(Current, k) /\ byte = Stored(CurrentArchive)[k]

\* While no read has failed nothing else was hashed.
Undisturbed ==
    Checking /\ failed = {} /\ checksum.status = "Updating" =>
        /\ Eligible(CurrentArchive) /\ Len(checksum.bytes) = cursor
        /\ ~Truncated(Current) =>
              \A k \in 1 .. cursor : checksum.bytes[k] = Stored(CurrentArchive)[k]

\* An archive has all that its digest tells of.
IsWhole(p) ==
    /\ title.archives[p].intact
    /\ Truncated(p) => title.cut <= title.archives[p].zeros

\* The archives that were passed are whole.
Passed ==
    \A m \in 1 .. nca - 1 :
        title.order[m] \notin failed /\ Eligible(title.archives[title.order[m]]) =>
            IsWhole(title.order[m])

Ended == verdict = "accepted" => nca = Len(title.order) + 1

\* The inductive invariant.
TitleInv ==
    /\ title \in Title /\ TypeOK
    /\ Reading /\ Undisturbed /\ Passed /\ Ended /\ BlamedIsDamaged

\* The invariant holds at first, and is kept by each step.
LEMMA TitleInvInit == Init => TitleInv
<1> SUFFICES ASSUME Init PROVE TitleInv
  OBVIOUS
<1> USE DEF Init
<1>1. PICK n \in Nat \ {0} :
          /\ Len(title.archives) = n /\ DOMAIN title.archives = 1 .. n
          /\ title.archives \in [1 .. n -> Archive]
          /\ title.order \in [1 .. n -> 1 .. n] /\ Len(title.order) = n
  BY TitleIs
<1>2. title.archives[1] \in Archive /\ CurrentArchive \in Archive
  BY <1>1 DEF CurrentArchive, Current
<1>3. TypeOK
  <2>1. 0 \in UNION {0 .. s : s \in Sizes}
    <3>1. title.archives[1].size \in Sizes /\ title.archives[1].size \in Nat
      BY <1>2, StoredIs
    <3> QED BY <3>1
  <2> QED BY <1>1, <2>1 DEF TypeOK
<1>4. Reading
  <2>1. 0 \in 0 .. CurrentArchive.size
    BY <1>2, StoredIs
  <2> QED BY <2>1 DEF Reading
<1>5. Undisturbed /\ Ended /\ BlamedIsDamaged
  BY DEF Undisturbed, Ended, BlamedIsDamaged
<1>6. Passed
  <2>1. \A m \in 1 .. nca - 1 : FALSE
    OBVIOUS
  <2> QED BY <2>1 DEF Passed
<1> QED BY <1>3, <1>4, <1>5, <1>6 DEF TitleInv

\* What is checked is an archive of the title.
LEMMA CurrentIs ==
    ASSUME title \in Title, TypeOK, Checking
    PROVE  /\ Current \in 1 .. Len(title.archives) /\ Current \in DOMAIN title.archives
           /\ CurrentArchive \in Archive /\ nca \in 1 .. Len(title.order) /\ Len(title.order) \in Nat
<1>1. PICK n \in Nat \ {0} :
          /\ Len(title.archives) = n /\ DOMAIN title.archives = 1 .. n
          /\ title.archives \in [1 .. n -> Archive]
          /\ title.order \in [1 .. n -> 1 .. n] /\ Len(title.order) = n
  BY TitleIs
<1>2. nca \in 1 .. n
  BY <1>1 DEF TypeOK, Checking
<1> QED BY <1>1, <1>2 DEF Current, CurrentArchive

\* What the actions have in common: an archive of the title is checked, and the title
\* stays as it is.
Turning == Checking /\ title' = title

\* What stays when the next archive is looked at.
LEMMA TurningIs ==
    ASSUME TitleInv, Turning
    PROVE  /\ Current \in 1 .. Len(title.archives) /\ Current \in DOMAIN title.archives
           /\ CurrentArchive \in Archive /\ nca \in 1 .. Len(title.order) /\ Len(title.order) \in Nat
           /\ title' \in Title
           /\ \A m \in 1 .. Len(title.order) : title.order[m] \in 1 .. Len(title.archives)
           /\ \A m \in 1 .. Len(title.order) : title.archives[title.order[m]] \in Archive
           /\ \A p : /\ \A k : Kept(p, k)' <=> Kept(p, k)
                     /\ Truncated(p)' <=> Truncated(p)
                     /\ IsWhole(p)' <=> IsWhole(p)
<1>1. title \in Title /\ title' = title /\ Checking /\ TypeOK
  BY DEF TitleInv, Turning
<1>2. \A m \in 1 .. Len(title.order) : /\ title.order[m] \in 1 .. Len(title.archives)
                                       /\ title.archives[title.order[m]] \in Archive
  BY <1>1, TitleIs
<1>3. \A p : /\ \A k : Kept(p, k)' <=> Kept(p, k)
             /\ Truncated(p)' <=> Truncated(p)
             /\ IsWhole(p)' <=> IsWhole(p)
  BY <1>1 DEF Kept, Truncated, IsWhole, Part, File
<1> QED BY <1>1, <1>2, <1>3, CurrentIs

\* From one archive to the next: the one that is left was passed over or is whole, and
\* no byte of it waits in the checksum unless a read has failed.
LEMMA GoesOn ==
    ASSUME TitleInv, Turning, GoOn, verdict' = verdict,
           checksum' \in [status : {"Finished", "Updating"}, bytes : Seq(Byte)],
           result' \in Seq(Byte),
           failed \subseteq failed', failed' \subseteq DOMAIN title.archives,
           failed' = {} => checksum'.status = "Finished",
           Current \notin failed' /\ Eligible(CurrentArchive) => IsWhole(Current)
    PROVE  TitleInv'
<1>1. /\ nca' = nca + 1 /\ cursor' = 0 /\ title' = title /\ verdict' = "none"
      /\ nca \in 1 .. Len(title.order) /\ Len(title.order) \in Nat /\ title' \in Title
  BY TurningIs DEF GoOn, Turning, Checking
<1>2. nca' \in 1 .. Len(title.order) + 1
  BY <1>1
<1>3. TypeOK'
  <2>1. 0 \in UNION {0 .. s : s \in Sizes}
    <3>1. CurrentArchive.size \in Sizes /\ CurrentArchive.size \in Nat
      BY TurningIs, StoredIs
    <3> QED BY <3>1
  <2> QED BY <1>1, <1>2, <2>1 DEF TypeOK
<1>4. Reading'
  <2> SUFFICES ASSUME Checking' PROVE 0 \in 0 .. CurrentArchive'.size /\ 0 <= Len(checksum'.bytes)
    <3>1. \A k \in 1 .. 0 : FALSE
      OBVIOUS
    <3> QED BY <1>1, <3>1 DEF Reading
  <2>1. nca' \in 1 .. Len(title.order)
    BY <1>1, <1>2 DEF Checking
  <2>2. title.archives[title.order[nca']] \in Archive
    BY <2>1, TurningIs
  <2>3. CurrentArchive'.size \in Nat
    BY <1>1, <2>2, StoredIs DEF CurrentArchive, Current
  <2> QED BY <2>3, LenProperties
<1>5. Undisturbed' /\ Ended' /\ BlamedIsDamaged'
  BY <1>1 DEF Undisturbed, Ended, BlamedIsDamaged
<1>6. Passed'
  <2> SUFFICES ASSUME NEW m \in 1 .. nca' - 1, title.order[m] \notin failed',
                      Eligible(title.archives[title.order[m]])
               PROVE  IsWhole(title.order[m])'
    BY <1>1 DEF Passed
  <2>1. CASE m = nca
    <3>1. IsWhole(title.order[m])
      BY <2>1 DEF Current, CurrentArchive
    <3> QED BY <1>1, <3>1 DEF IsWhole, Truncated
  <2>2. CASE m # nca
    <3>1. m \in 1 .. nca - 1 /\ title.order[m] \notin failed
      BY <1>1, <2>2
    <3>2. IsWhole(title.order[m])
      BY <3>1 DEF TitleInv, Passed
    <3> QED BY <1>1, <3>2 DEF IsWhole, Truncated
  <2> QED BY <2>1, <2>2
<1> QED BY <1>1, <1>3, <1>4, <1>5, <1>6 DEF TitleInv

\* An archive that cannot be checked, or is too long, is passed over.
LEMMA SkipStep == TitleInv /\ Skip => TitleInv'
<1> SUFFICES ASSUME TitleInv, Skip PROVE TitleInv'
  OBVIOUS
<1>1. Turning /\ GoOn /\ verdict' = verdict /\ checksum' = checksum /\ result' = result /\ failed' = failed
  BY DEF Skip, Turning
<1>2. /\ checksum \in [status : {"Finished", "Updating"}, bytes : Seq(Byte)]
      /\ result \in Seq(Byte) /\ failed \subseteq DOMAIN title.archives
  BY DEF TitleInv, TypeOK
<1>3. ~Eligible(CurrentArchive) /\ Checking
  BY DEF Skip
<1>4. failed = {} => checksum.status = "Finished"
  BY <1>2, <1>3 DEF TitleInv, Undisturbed
<1> QED BY <1>1, <1>2, <1>3, <1>4, GoesOn

\* An exception ends the reading of an archive, whatever was hashed.
LEMMA ReadThrowsStep == TitleInv /\ ReadThrows => TitleInv'
<1> SUFFICES ASSUME TitleInv, ReadThrows PROVE TitleInv'
  OBVIOUS
<1>1. /\ Turning /\ GoOn /\ verdict' = verdict /\ checksum' = checksum /\ result' = result
      /\ failed' = failed \cup {Current}
  BY DEF ReadThrows, Turning
<1>2. /\ checksum \in [status : {"Finished", "Updating"}, bytes : Seq(Byte)]
      /\ result \in Seq(Byte) /\ failed \subseteq DOMAIN title.archives
  BY DEF TitleInv, TypeOK
<1>3. Current \in DOMAIN title.archives
  BY <1>1, TurningIs
<1> QED BY <1>1, <1>2, <1>3, GoesOn

\* At the end of an archive everything that is in it was hashed last.
LEMMA EndOfArchive ==
    ASSUME TitleInv, Checking, title' = title, Eligible(CurrentArchive), Block = 0
    PROVE  /\ cursor = CurrentArchive.size /\ Digest = checksum.bytes
           /\ Digest = Original(CurrentArchive) => IsWhole(Current)
           /\ failed = {} /\ CurrentArchive.intact /\ ~Truncated(Current) =>
                 Digest = Original(CurrentArchive)
<1> DEFINE a == CurrentArchive
           z == a.size
<1>1. Turning /\ Reading /\ Undisturbed /\ title \in Title
  BY DEF Turning, TitleInv
<1>2. /\ a \in Archive /\ Current \in 1 .. Len(title.archives) /\ cursor \in 0 .. z
  BY <1>1, TurningIs DEF Reading
<1>3. /\ z \in Nat \ {0} /\ z - a.zeros \in 1 .. z /\ a.zeros \in Nat
      /\ Original(a) \in Seq(Byte) /\ Len(Original(a)) = z /\ Stored(a) \in Seq(Byte) /\ Len(Stored(a)) = z
      /\ \A k \in 1 .. z - a.zeros : Original(a)[k] = 1
      /\ IF a.intact THEN Stored(a) = Original(a) ELSE Stored(a)[z - a.zeros] = 2
  BY <1>2, StoredIs DEF Archive
<1>4. cursor = z
  BY <1>1, <1>2, BlockIs
<1>5. checksum.status = "Updating" /\ Digest = checksum.bytes
  BY <1>1, <1>3, <1>4 DEF Reading, Digest
<1>6. checksum.bytes \in Seq(Byte)
  BY DEF TitleInv, TypeOK
<1>7. ASSUME Digest = Original(a)
      PROVE  IsWhole(Current)
  <2> DEFINE k == z - a.zeros
  <2>1. Len(checksum.bytes) = z /\ (Len(checksum.bytes) - cursor) + k = k
    BY <1>3, <1>4, <1>5, <1>7
  <2>2. checksum.bytes[k] = 1 /\ k \in 1 .. cursor
    BY <1>3, <1>4, <1>5, <1>7
  <2>3. Kept(Current, k) /\ Stored(a)[k] = 1
    <3> HIDE DEF k
    <3> QED BY <1>1, <1>5, <2>1, <2>2 DEF Reading
  <2>4. a.intact
    BY <1>3, <2>3
  <2>5. Truncated(Current) => title.cut <= a.zeros
    <3>1. LiesInFile(Current) /\ title.cut \in Nat
      BY <1>1, <1>2, FileIs, TitleIs
    <3>2. Truncated(Current) => k <= z - title.cut
      BY <1>3, <2>3, <3>1 DEF LiesInFile, CurrentArchive
    <3> QED BY <1>3, <3>1, <3>2
  <2> QED BY <2>4, <2>5 DEF IsWhole, CurrentArchive
<1>8. ASSUME failed = {}, a.intact, ~Truncated(Current)
      PROVE  Digest = Original(a)
  <2>1. Len(checksum.bytes) = z /\ \A k \in 1 .. z : checksum.bytes[k] = Original(a)[k]
    BY <1>1, <1>3, <1>4, <1>5, <1>8 DEF Undisturbed
  <2> QED BY <1>3, <1>5, <1>6, <2>1, SeqEqual
<1> QED BY <1>4, <1>5, <1>7, <1>8

\* The digest decides about the archive.
LEMMA CompareStep == TitleInv /\ Compare => TitleInv'
<1> SUFFICES ASSUME TitleInv, Compare PROVE TitleInv'
  OBVIOUS
<1>1. /\ Turning /\ Checking /\ title' = title /\ failed' = failed
      /\ Eligible(CurrentArchive) /\ Block = 0
      /\ result' = Digest /\ checksum' = [checksum EXCEPT !.status = "Finished"]
  BY DEF Compare, Turning
<1>2. /\ checksum \in [status : {"Finished", "Updating"}, bytes : Seq(Byte)]
      /\ result \in Seq(Byte) /\ failed \subseteq DOMAIN title.archives
  BY DEF TitleInv, TypeOK
<1>3. /\ checksum' \in [status : {"Finished", "Updating"}, bytes : Seq(Byte)]
      /\ checksum'.status = "Finished" /\ result' \in Seq(Byte)
  BY <1>1, <1>2 DEF Digest
<1>4. CASE Digest = Original(CurrentArchive)
  <2>1. GoOn /\ verdict' = verdict
    BY <1>4 DEF Compare
  <2>2. IsWhole(Current)
    BY <1>1, <1>4, EndOfArchive
  <2> QED BY <1>1, <1>2, <1>3, <2>1, <2>2, GoesOn
<1>5. CASE Digest # Original(CurrentArchive)
  <2>1. verdict' = "damaged" /\ nca' = nca /\ cursor' = cursor
    BY <1>5 DEF Compare
  <2>2. TypeOK' /\ title' \in Title
    BY <1>1, <1>2, <1>3, <2>1 DEF TitleInv, TypeOK
  <2>3. Reading' /\ Undisturbed' /\ Ended'
    BY <2>1 DEF Reading, Undisturbed, Ended, Checking
  <2>4. Passed'
    BY <1>1, <2>1 DEF TitleInv, Passed, IsWhole, Truncated
  <2>5. failed = {} => ~CurrentArchive.intact \/ Truncated(Current)
    BY <1>1, <1>5, EndOfArchive
  <2>6. BlamedIsDamaged'
    BY <1>1, <2>1, <2>5 DEF BlamedIsDamaged, CurrentArchive, Current, Truncated
  <2> QED BY <2>2, <2>3, <2>4, <2>6 DEF TitleInv
<1> QED BY <1>4, <1>5

\* After the last archive the title is accepted.
LEMMA AcceptStep == TitleInv /\ Accept => TitleInv'
<1> SUFFICES ASSUME TitleInv, Accept PROVE TitleInv'
  OBVIOUS
<1>1. /\ verdict' = "accepted" /\ nca' = nca /\ nca > Len(title.order)
      /\ UNCHANGED <<title, cursor, checksum, result, failed>>
  BY DEF Accept
<1>2. TypeOK' /\ title' \in Title
  BY <1>1 DEF TitleInv, TypeOK
<1>3. Reading' /\ Undisturbed' /\ BlamedIsDamaged'
  BY <1>1 DEF Reading, Undisturbed, BlamedIsDamaged, Checking
<1>4. Passed'
  BY <1>1 DEF TitleInv, Passed, IsWhole, Truncated
<1>5. Ended'
  <2>1. Len(title.order) \in Nat /\ nca \in 1 .. Len(title.order) + 1
    BY TitleIs DEF TitleInv, TypeOK
  <2> QED BY <1>1, <2>1 DEF Ended
<1> QED BY <1>2, <1>3, <1>4, <1>5 DEF TitleInv

\* A turn of the loop: what was read is put behind what was hashed, and the cursor
\* moves by it.
LEMMA ReadBlockStep == TitleInv /\ ReadBlock => TitleInv'
<1> SUFFICES ASSUME TitleInv, ReadBlock PROVE TitleInv'
  OBVIOUS
<1> DEFINE bytes == StreamRead(File, Part(Current), Block, cursor)
           old == IF checksum.status = "Finished" THEN <<>> ELSE checksum.bytes
           a == CurrentArchive
<1>1. /\ Turning /\ Checking /\ title' = title /\ nca' = nca /\ failed' = failed /\ result' = result
      /\ verdict' = verdict /\ Eligible(a)
      /\ checksum' = [status |-> "Updating", bytes |-> old \o bytes]
      /\ cursor' = cursor + Len(bytes)
  BY DEF ReadBlock, Turning, Update
<1>2. /\ checksum \in [status : {"Finished", "Updating"}, bytes : Seq(Byte)]
      /\ Reading /\ Undisturbed /\ title \in Title
  BY DEF TitleInv, TypeOK
<1>3. /\ a \in Archive /\ Current \in 1 .. Len(title.archives) /\ cursor \in 0 .. a.size
      /\ a.size \in Nat /\ a.size \in Sizes
  BY <1>1, <1>2, TurningIs, StoredIs DEF Reading
<1>4. /\ bytes \in Seq(Byte) /\ Len(bytes) \in 0 .. Block
      /\ \A i \in 1 .. Len(bytes) :
            bytes[i] # 0 => Kept(Current, cursor + i) /\ bytes[i] = Stored(a)[cursor + i]
      /\ ~Truncated(Current) => \A i \in 1 .. Len(bytes) : bytes[i] = Stored(a)[cursor + i]
  BY <1>2, <1>3, ReadIs
<1>5. /\ old \in Seq(Byte) /\ cursor <= Len(old)
      /\ \A k \in 1 .. cursor :
            old[(Len(old) - cursor) + k] # 0 =>
                /\ Kept(Current, k)
                /\ old[(Len(old) - cursor) + k] = Stored(a)[k]
  <2>1. CASE checksum.status = "Finished"
    <3>1. cursor = 0 /\ old = <<>>
      BY <1>1, <1>2, <2>1 DEF Reading
    <3>2. \A k \in 1 .. 0 : FALSE
      OBVIOUS
    <3> HIDE DEF old
    <3> QED BY <3>1, <3>2
  <2>2. CASE checksum.status # "Finished"
    <3>1. checksum.status = "Updating" /\ old = checksum.bytes
      BY <1>2, <2>2
    <3> HIDE DEF old
    <3> QED BY <1>1, <1>2, <3>1 DEF Reading
  <2> QED BY <2>1, <2>2
<1>6. failed = {} =>
         /\ Len(old) = cursor
         /\ ~Truncated(Current) => \A k \in 1 .. cursor : old[k] = Stored(a)[k]
  <2>1. CASE checksum.status = "Finished"
    <3>1. cursor = 0 /\ old = <<>>
      BY <1>1, <1>2, <2>1 DEF Reading
    <3>2. \A k \in 1 .. 0 : FALSE
      OBVIOUS
    <3> HIDE DEF old
    <3> QED BY <3>1, <3>2
  <2>2. CASE checksum.status # "Finished"
    <3>1. checksum.status = "Updating" /\ old = checksum.bytes
      BY <1>2, <2>2
    <3> HIDE DEF old
    <3> QED BY <1>1, <1>2, <3>1 DEF Undisturbed
  <2> QED BY <2>1, <2>2
<1> HIDE DEF old, bytes
<1>7. PICK c \in Nat, l \in Nat, m \in Nat :
         /\ c = cursor /\ l = Len(bytes) /\ m = Len(old)
         /\ c <= m /\ c + l <= a.size
  <2>1. Block \in Nat /\ Block <= a.size - cursor
    BY <1>2, <1>3, BlockIs
  <2>2. cursor \in Nat /\ Len(bytes) \in Nat /\ Len(old) \in Nat /\ Len(bytes) <= Block
    BY <1>3, <1>4, <1>5, <2>1, LenProperties
  <2>3. PICK z \in Nat, b \in Nat, c \in Nat, l \in Nat, m \in Nat :
           z = a.size /\ b = Block /\ c = cursor /\ l = Len(bytes) /\ m = Len(old)
    BY <1>3, <2>1, <2>2
  <2>4. c <= m /\ c + l <= z
    BY <1>5, <2>1, <2>2, <2>3
  <2> QED BY <2>3, <2>4
<1>8. /\ checksum'.status = "Updating" /\ checksum'.bytes = old \o bytes
      /\ old \o bytes \in Seq(Byte) /\ Len(old \o bytes) = m + l
      /\ \A i \in 1 .. m + l : (old \o bytes)[i] = IF i <= m THEN old[i] ELSE bytes[i - m]
      /\ cursor' = c + l
  BY <1>1, <1>4, <1>5, <1>7, ConcatProperties
<1>9. TypeOK' /\ title' \in Title
  <2>1. c + l \in 0 .. a.size
    BY <1>3, <1>7
  <2>2. cursor' \in UNION {0 .. s : s \in Sizes}
    BY <1>3, <1>8, <2>1
  <2> QED BY <1>1, <1>8, <2>2 DEF TitleInv, TypeOK
<1>10. Reading'
  <2>1. ASSUME NEW k \in 1 .. c + l, (old \o bytes)[((m + l) - (c + l)) + k] # 0
        PROVE  Kept(Current, k) /\ (old \o bytes)[((m + l) - (c + l)) + k] = Stored(a)[k]
    <3>1. ((m + l) - (c + l)) + k = (m - c) + k /\ (m - c) + k \in 1 .. m + l
      BY <1>7
    <3>2. CASE k <= c
      <4>1. (m - c) + k <= m /\ k \in 1 .. c
        BY <1>7, <3>2
      <4>2. (old \o bytes)[(m - c) + k] = old[(m - c) + k]
        BY <1>8, <3>1, <4>1
      <4> QED BY <1>5, <1>7, <2>1, <3>1, <4>1, <4>2
    <3>3. CASE ~(k <= c)
      <4>1. ~((m - c) + k <= m) /\ ((m - c) + k) - m = k - c /\ k - c \in 1 .. l /\ c + (k - c) = k
        BY <1>7, <3>3
      <4>2. (old \o bytes)[(m - c) + k] = bytes[k - c]
        BY <1>8, <3>1, <4>1
      <4> QED BY <1>4, <1>7, <2>1, <3>1, <4>1, <4>2
    <3> QED BY <3>2, <3>3
  <2>2. /\ Checking' /\ CurrentArchive' = a /\ Current' = Current
        /\ \A k : Kept(Current, k)' <=> Kept(Current, k)
    BY <1>1 DEF Checking, CurrentArchive, Current, Kept, Part, File
  <2>3. c + l \in 0 .. a.size /\ c + l <= m + l
    BY <1>3, <1>7
  <2> QED BY <1>1, <1>8, <2>1, <2>2, <2>3 DEF Reading
<1>11. Undisturbed'
  <2>1. CurrentArchive' = a /\ (Truncated(Current)' <=> Truncated(Current))
    BY <1>1 DEF CurrentArchive, Current, Truncated
  <2>2. ASSUME failed = {} PROVE Len(old \o bytes) = cursor'
    BY <1>6, <1>7, <1>8, <2>2
  <2>3. ASSUME failed = {}, ~Truncated(Current), NEW k \in 1 .. c + l
        PROVE  (old \o bytes)[k] = Stored(a)[k]
    <3>1. m = c /\ k \in 1 .. m + l
      BY <1>6, <1>7, <2>3
    <3>2. CASE k <= c
      <4>1. k \in 1 .. c
        BY <3>2
      <4> QED BY <1>6, <1>7, <1>8, <2>3, <3>1, <4>1
    <3>3. CASE ~(k <= c)
      <4>1. k - c \in 1 .. l /\ c + (k - c) = k
        BY <3>3
      <4> QED BY <1>4, <1>7, <1>8, <2>3, <3>1, <3>3, <4>1
    <3> QED BY <3>2, <3>3
  <2>4. ASSUME failed = {}
        PROVE  ~Truncated(Current) =>
                  \A k \in 1 .. cursor' : checksum'.bytes[k] = Stored(a)[k]
    BY <1>8, <2>3, <2>4
  <2> QED BY <1>1, <1>8, <2>1, <2>2, <2>4 DEF Undisturbed
<1>12. Passed' /\ Ended' /\ BlamedIsDamaged'
  BY <1>1 DEF TitleInv, Passed, Ended, BlamedIsDamaged, Checking, IsWhole, Truncated
<1> QED BY <1>9, <1>10, <1>11, <1>12 DEF TitleInv

\* Every step keeps the invariant.
LEMMA TitleInvStep == TitleInv /\ [Next]_vars => TitleInv'
<1> SUFFICES ASSUME TitleInv, [Next]_vars PROVE TitleInv'
  OBVIOUS
<1>1. CASE Skip
  BY <1>1, SkipStep
<1>2. CASE ReadBlock
  BY <1>2, ReadBlockStep
<1>3. CASE ReadThrows
  BY <1>3, ReadThrowsStep
<1>4. CASE Compare
  BY <1>4, CompareStep
<1>5. CASE Accept
  BY <1>5, AcceptStep
<1>6. CASE UNCHANGED vars
  BY <1>6 DEF vars, TitleInv, TypeOK, Reading, Undisturbed, Passed, Ended, BlamedIsDamaged,
              Checking, Current, CurrentArchive, Kept, Part, File, IsWhole, Truncated
<1> QED BY <1>1, <1>2, <1>3, <1>4, <1>5, <1>6 DEF Next

\* The bytes hashed last are the archive's up to the cursor, what was passed is whole.
THEOREM TitleInductive == Spec => []TitleInv
BY TitleInvInit, TitleInvStep, PTL DEF Spec

\* While a complete file is read and no read has failed, the checksum holds each byte
\* of the archive up to the cursor once and in order (nca_core.cpp:238-245).
THEOREM ChecksumAlwaysOK == Spec => []ChecksumOK
<1>1. ASSUME TitleInv PROVE ChecksumOK
  <2>1. ASSUME Checking, failed = {}, title.cut = 0
        PROVE  IF checksum.status = "Updating"
               THEN checksum.bytes = SubSeq(Stored(CurrentArchive), 1, cursor)
               ELSE cursor = 0
    <3>1. Reading /\ Undisturbed /\ title \in Title
      BY <1>1 DEF TitleInv
    <3>2. CASE checksum.status = "Updating"
      <4>1. /\ ~Truncated(Current) /\ Len(checksum.bytes) = cursor
            /\ \A k \in 1 .. cursor : checksum.bytes[k] = Stored(CurrentArchive)[k]
        BY <2>1, <3>1, <3>2 DEF Undisturbed, Truncated
      <4>2. checksum.bytes \in Seq(Byte)
        BY <1>1 DEF TitleInv, TypeOK
      <4>3. CurrentArchive \in Archive
        BY <1>1, <2>1, CurrentIs DEF TitleInv
      <4>4. Stored(CurrentArchive) \in Seq(Byte) /\ cursor \in 0 .. Len(Stored(CurrentArchive))
        BY <2>1, <3>1, <4>3, StoredIs DEF Reading
      <4>5. PICK s \in Seq(Byte), t \in Seq(Byte) : s = checksum.bytes /\ t = Stored(CurrentArchive)
        BY <4>2, <4>4
      <4>6. s = SubSeq(t, 1, cursor)
        BY <4>1, <4>4, <4>5
      <4> QED BY <3>2, <4>5, <4>6
    <3>3. CASE checksum.status # "Updating"
      BY <2>1, <3>1, <3>3 DEF Reading
    <3> QED BY <3>2, <3>3
  <2> QED BY <1>1, <2>1 DEF TitleInv, ChecksumOK, ReadsInOrder
<1> QED BY <1>1, TitleInductive, PTL

\* No title is accepted of which an archive is damaged, and no archive is blamed that
\* is not, while every archive can be read (eshop_title.cpp:116-127).
THEOREM VerdictIsAlwaysRight == Spec => []VerdictIsRight
<1>1. ASSUME TitleInv PROVE VerdictIsRight
  <2>1. ASSUME verdict = "accepted", NEW p \in DOMAIN title.archives \ failed,
               Eligible(title.archives[p])
        PROVE  IsWhole(p)
    <3>1. PICK n \in Nat \ {0} :
             /\ DOMAIN title.archives = 1 .. n /\ Len(title.order) = n
             /\ \A q \in 1 .. n : \E m \in 1 .. n : title.order[m] = q
      BY <1>1, TitleIs DEF TitleInv
    <3>2. PICK m \in 1 .. n : title.order[m] = p
      BY <3>1
    <3>3. m \in 1 .. nca - 1
      BY <1>1, <2>1, <3>1 DEF TitleInv, Ended
    <3> QED BY <1>1, <2>1, <3>2, <3>3 DEF TitleInv, Passed
  <2>2. AcceptedIsWhole
    BY <2>1 DEF AcceptedIsWhole, IsWhole
  <2> QED BY <1>1, <2>2 DEF TitleInv, VerdictIsRight
<1> QED BY <1>1, TitleInductive, PTL
-----------------------------------------------------------------------------
\* A sequence has the elements of another one that are in a set, and no others.
Picks(some, seq, S, n) ==
    /\ \A i \in 1 .. Len(some) : some[i] \in S /\ \E j \in 1 .. n : some[i] = seq[j]
    /\ \A j \in 1 .. n : seq[j] \in S => \E i \in 1 .. Len(some) : some[i] = seq[j]

\* Chosen gives the elements in the set and no others.
LEMMA ChosenIs ==
    ASSUME NEW T, NEW seq \in Seq(T), NEW S
    PROVE  Chosen(seq, S) \in Seq(T) /\ Picks(Chosen(seq, S), seq, S, Len(seq))
<1> DEFINE n == Len(seq)
           Turn(f, i) == IF i = 0 THEN <<>> ELSE IF seq[i] \in S THEN Append(f[i - 1], seq[i]) ELSE f[i - 1]
           Good(k) == \E f \in [0 .. k -> Seq(T)] : \A i \in 0 .. k : f[i] = Turn(f, i)
           Ks == {k \in 0 .. n : Good(k)}
<1>1. n \in Nat /\ \A i \in 1 .. n : seq[i] \in T
  BY ElementOfSeq
<1>2. 0 \in Ks
  <2>1. [i \in 0 .. 0 |-> <<>>] \in [0 .. 0 -> Seq(T)] /\ \A i \in 0 .. 0 : i = 0
    OBVIOUS
  <2>2. Good(0)
    BY <2>1
  <2>3. 0 \in 0 .. n
    BY <1>1
  <2> HIDE DEF Good
  <2> QED BY <2>2, <2>3
<1>3. ASSUME NEW k \in 0 .. n, k \in Ks, k < n
      PROVE  k + 1 \in Ks
  <2>1. PICK h \in [0 .. k -> Seq(T)] : \A i \in 0 .. k : h[i] = Turn(h, i)
    BY <1>3
  <2> DEFINE f == [i \in 0 .. k + 1 |-> IF i = k + 1 THEN Turn(h, k + 1) ELSE h[i]]
  <2>2. \A i \in 0 .. k + 1 : i = k + 1 \/ i \in 0 .. k
    OBVIOUS
  <2>3. Turn(h, k + 1) \in Seq(T)
    <3>1. k + 1 # 0 /\ (k + 1) - 1 = k /\ k \in 0 .. k /\ k + 1 \in 1 .. n
      BY <1>1, <1>3
    <3>2. h[k] \in Seq(T) /\ seq[k + 1] \in T
      BY <1>1, <2>1, <3>1
    <3>3. Append(h[k], seq[k + 1]) \in Seq(T)
      BY <3>2
    <3> QED BY <3>1, <3>2, <3>3
  <2>4. f \in [0 .. k + 1 -> Seq(T)]
    <3> HIDE DEF Turn
    <3> QED BY <2>1, <2>2, <2>3
  <2>5. \A i \in 0 .. k + 1 : f[i] = Turn(f, i)
    <3> SUFFICES ASSUME NEW i \in 0 .. k + 1 PROVE f[i] = Turn(f, i)
      OBVIOUS
    <3>1. i # 0 => i - 1 \in 0 .. k /\ i - 1 # k + 1
      OBVIOUS
    <3>2. i # 0 => f[i - 1] = h[i - 1]
      BY <3>1
    <3>3. Turn(f, i) = Turn(h, i)
      <4> HIDE DEF f
      <4> QED BY <3>2
    <3>4. f[i] = Turn(h, i)
      <4>1. CASE i = k + 1
        BY <4>1
      <4>2. CASE i # k + 1
        <5>1. i \in 0 .. k
          BY <2>2, <4>2
        <5> QED BY <2>1, <4>2, <5>1
      <4> QED BY <4>1, <4>2
    <3> QED BY <3>3, <3>4
  <2>6. Good(k + 1)
    BY <2>4, <2>5
  <2>7. k + 1 \in 0 .. n
    BY <1>1, <1>3
  <2> HIDE DEF Good
  <2> QED BY <2>6, <2>7
<1>4. n \in Ks
  <2> HIDE DEF Ks
  <2>1. \A k \in 0 .. n : k \in Ks
    BY <1>1, <1>2, <1>3, UpTo
  <2> QED BY <1>1, <2>1
<1>5. PICK h \in [0 .. n -> Seq(T)] : \A i \in 0 .. n : h[i] = Turn(h, i)
  BY <1>4
<1> DEFINE g == CHOOSE f : f = [i \in 0 .. Len(seq) |-> Turn(f, i)]
<1>6. Chosen(seq, S) = g[Len(seq)]
  BY DEF Chosen
<1>7. h = [i \in 0 .. Len(seq) |-> Turn(h, i)]
  <2> HIDE DEF Turn
  <2> QED BY <1>5
<1>8. g = [i \in 0 .. n |-> Turn(g, i)]
  <2> HIDE DEF Turn
  <2> QED BY <1>7
<1> HIDE DEF g
<1> DEFINE Ls == {k \in 0 .. n : g[k] \in Seq(T) /\ Picks(g[k], seq, S, k)}
<1>9. 0 \in Ls
  <2>1. 0 \in 0 .. n
    BY <1>1
  <2>2. g[0] = <<>>
    BY <1>8, <2>1
  <2>3. <<>> \in Seq(T) /\ Picks(<<>>, seq, S, 0)
    <3>1. Len(<<>>) = 0 /\ <<>> \in Seq(T)
      OBVIOUS
    <3> QED BY <3>1 DEF Picks
  <2> QED BY <2>1, <2>2, <2>3
<1>10. ASSUME NEW k \in 0 .. n, k \in Ls, k < n
       PROVE  k + 1 \in Ls
  <2>1. k + 1 \in 1 .. n /\ k + 1 \in 0 .. n /\ k + 1 # 0 /\ (k + 1) - 1 = k
    BY <1>1, <1>10
  <2>2. g[k + 1] = IF seq[k + 1] \in S THEN Append(g[k], seq[k + 1]) ELSE g[k]
    BY <1>8, <2>1
  <2>3. PICK p, q, e : p = g[k] /\ q = g[k + 1] /\ e = seq[k + 1]
    OBVIOUS
  <2>4. p \in Seq(T) /\ e \in T /\ Picks(p, seq, S, k) /\ q = IF e \in S THEN Append(p, e) ELSE p
    BY <1>1, <1>10, <2>1, <2>2, <2>3
  <2>5. \A j \in 1 .. k + 1 : j = k + 1 \/ j \in 1 .. k
    OBVIOUS
  <2>6. \A j \in 1 .. k : j \in 1 .. k + 1
    OBVIOUS
  <2>7. k + 1 \in 1 .. k + 1
    OBVIOUS
  <2>8. q \in Seq(T) /\ Picks(q, seq, S, k + 1)
    <3>1. CASE e \in S
      <4>1. /\ q \in Seq(T) /\ Len(q) = Len(p) + 1 /\ q[Len(p) + 1] = e /\ Len(p) \in Nat
            /\ \A i \in 1 .. Len(p) : q[i] = p[i]
        BY <2>4, <3>1
      <4>2. Len(p) + 1 \in 1 .. Len(q) /\ \A i \in 1 .. Len(q) : i = Len(p) + 1 \/ i \in 1 .. Len(p)
        BY <4>1
      <4>3. \A i \in 1 .. Len(p) : i \in 1 .. Len(q)
        BY <4>1
      <4>4. ASSUME NEW i \in 1 .. Len(q)
            PROVE  q[i] \in S /\ \E j \in 1 .. k + 1 : q[i] = seq[j]
        BY <2>3, <2>4, <2>6, <2>7, <3>1, <4>1, <4>2 DEF Picks
      <4>5. ASSUME NEW j \in 1 .. k + 1, seq[j] \in S
            PROVE  \E i \in 1 .. Len(q) : q[i] = seq[j]
        <5>1. CASE j = k + 1
          BY <2>3, <4>1, <4>2, <5>1
        <5>2. CASE j # k + 1
          <6>1. PICK i \in 1 .. Len(p) : p[i] = seq[j]
            BY <2>4, <2>5, <4>5, <5>2 DEF Picks
          <6> QED BY <4>1, <4>3, <6>1
        <5> QED BY <5>1, <5>2
      <4> QED BY <4>1, <4>4, <4>5 DEF Picks
    <3>2. CASE e \notin S
      BY <2>3, <2>4, <2>5, <2>6, <3>2 DEF Picks
    <3> QED BY <3>1, <3>2
  <2> QED BY <2>1, <2>3, <2>8
<1>11. n \in Ls
  <2> HIDE DEF Ls
  <2>1. \A k \in 0 .. n : k \in Ls
    BY <1>1, <1>9, <1>10, UpTo
  <2> QED BY <1>1, <2>1
<1> QED BY <1>6, <1>11
-----------------------------------------------------------------------------
\* The views of an archive are those of its sections that can be read.
ViewType ==
    [key : {"its", "other"}, fs : {"PartitionFs", "RomFs"}, crypto : {"None", "Ctr", "Other"}, exefs : BOOLEAN,
     block : Nat, within : Nat, starts : Nat, size : Nat \ {0}, image : Images \cup {Nothing}, layout : Layout]

ViewsOf(views, sections, key) ==
    /\ views \in Seq(ViewType)
    /\ \A i \in 1 .. Len(views) : \E j \in DOMAIN sections :
          views[i] = View(sections[j], key) /\ sections[j].crypto # "Other"
    /\ \A j \in DOMAIN sections : sections[j].crypto # "Other" =>
          \E i \in 1 .. Len(views) : views[i] = View(sections[j], key)

KeyOf(archive) == IF archive.rights = Free THEN "its" ELSE TitleKey(archive)

\* A view is of the section it was made for, and reads from where that begins if
\* its block begins below 4 GiB.
LEMMA ViewIs ==
    ASSUME NEW s \in SectionType, NEW key \in {"its", "other"}
    PROVE  /\ View(s, key) \in ViewType
           /\ BeginsAt(s) \in Nat /\ BeginsAt(View(s, key)) = BeginsAt(s) /\ (Low(View(s, key)) <=> Low(s))
           /\ Low(s) => View(s, key).starts = BeginsAt(s)
<1>1. PICK m \in Nat : m = Media * s.block
  BY ArchivesAssumption DEF SectionType
<1>2. Narrow \in Nat \ {0}
  BY RomFsAssumption
<1>3. m % Narrow \in Nat
  BY <1>2
<1>4. s.within \in Nat /\ BeginsAt(s) = m + s.within /\ View(s, key).starts = (m % Narrow) + s.within
  BY <1>1 DEF SectionType, BeginsAt, View
<1>5. View(s, key).starts \in Nat /\ BeginsAt(s) \in Nat
  BY <1>1, <1>3, <1>4
<1>6. View(s, key) \in ViewType
  <2>1. PICK starts \in Nat : starts = ((Media * s.block) % Narrow) + s.within
    BY <1>1, <1>3, <1>4
  <2>2. View(s, key) = [key |-> key, fs |-> s.fs, crypto |-> s.crypto, exefs |-> s.exefs,
                        block |-> s.block, within |-> s.within, starts |-> starts,
                        size |-> s.size, image |-> s.image, layout |-> s.layout]
    BY <2>1 DEF View
  <2> QED BY <2>2 DEF ViewType, SectionType
<1>7. View(s, key).block = s.block /\ View(s, key).within = s.within
  BY DEF View
<1>8. ASSUME Low(s) PROVE View(s, key).starts = BeginsAt(s)
  <2>1. m < Narrow
    BY <1>1, <1>8 DEF Low
  <2>2. m % Narrow = m
    BY <1>1, <1>2, <2>1, OwnRemainder
  <2> QED BY <1>4, <2>2
<1> QED BY <1>5, <1>6, <1>7, <1>8 DEF BeginsAt, Low

\* CreateBackingFile gives a view to each section that can be read.
LEMMA ViewsAre ==
    ASSUME NEW a \in ArchiveType
    PROVE  ViewsOf(Views(a), a.sections, KeyOf(a)) /\ KeyOf(a) \in {"its", "other"}
<1>1. PICK seq, key : seq = a.sections /\ key = KeyOf(a)
  OBVIOUS
<1>2. seq \in Seq(SectionType) /\ key \in {"its", "other"}
  BY <1>1 DEF ArchiveType, KeyOf, TitleKey
<1> DEFINE Taken(fs) == {s \in Range(seq) : s.fs = fs /\ s.crypto # "Other"}
<1>3. PICK p, r : p = Chosen(seq, Taken("PartitionFs")) /\ r = Chosen(seq, Taken("RomFs"))
  OBVIOUS
<1>4. /\ p \in Seq(SectionType) /\ Picks(p, seq, Taken("PartitionFs"), Len(seq))
      /\ r \in Seq(SectionType) /\ Picks(r, seq, Taken("RomFs"), Len(seq))
  BY <1>2, <1>3, ChosenIs
<1>5. PICK q : q = p \o r
  OBVIOUS
<1>6. q \in Seq(SectionType) /\ \A v : Has(q, v) <=> Has(p, v) \/ Has(r, v)
  BY <1>4, <1>5, ConcatHas
<1>7. Views(a) = [i \in DOMAIN q |-> View(q[i], key)]
  BY <1>1, <1>3, <1>5 DEF Views, KeyOf
<1>8. DOMAIN q = 1 .. Len(q) /\ Len(q) \in Nat /\ DOMAIN seq = 1 .. Len(seq) /\ \A i \in 1 .. Len(q) : q[i] \in SectionType
  BY <1>2, <1>6, ElementOfSeq
<1>9. PICK views : views = Views(a)
  OBVIOUS
<1>10. /\ views \in [1 .. Len(q) -> ViewType]
       /\ \A i \in 1 .. Len(q) : views[i] = View(q[i], key)
  <2>1. \A s \in SectionType : View(s, key) \in ViewType
    BY <1>2, ViewIs
  <2> QED BY <1>7, <1>8, <1>9, <2>1
<1>11. Len(views) = Len(q) /\ views \in Seq(ViewType)
  BY <1>8, <1>10
<1>12. ASSUME NEW i \in 1 .. Len(q)
       PROVE  \E j \in 1 .. Len(seq) : q[i] = seq[j] /\ seq[j].crypto # "Other"
  <2>1. Has(q, q[i])
    BY DEF Has
  <2>2. Has(p, q[i]) \/ Has(r, q[i])
    BY <1>6, <2>1
  <2> HIDE DEF Taken
  <2>3. ASSUME NEW fs, Picks(p, seq, Taken(fs), Len(seq)) \/ Picks(r, seq, Taken(fs), Len(seq))
        PROVE  \A x \in Taken(fs) : x.crypto # "Other"
    BY DEF Taken
  <2>4. CASE Has(p, q[i])
    <3>1. PICK k \in 1 .. Len(p) : p[k] = q[i]
      BY <2>4 DEF Has
    <3>2. p[k] \in Taken("PartitionFs") /\ \E j \in 1 .. Len(seq) : p[k] = seq[j]
      BY <1>4 DEF Picks
    <3> QED BY <1>4, <2>3, <3>1, <3>2
  <2>5. CASE Has(r, q[i])
    <3>1. PICK k \in 1 .. Len(r) : r[k] = q[i]
      BY <2>5 DEF Has
    <3>2. r[k] \in Taken("RomFs") /\ \E j \in 1 .. Len(seq) : r[k] = seq[j]
      BY <1>4 DEF Picks
    <3> QED BY <1>4, <2>3, <3>1, <3>2
  <2> QED BY <2>2, <2>4, <2>5
<1>13. ASSUME NEW j \in 1 .. Len(seq), seq[j].crypto # "Other"
       PROVE  \E i \in 1 .. Len(q) : q[i] = seq[j]
  <2>1. seq[j] \in SectionType /\ seq[j] \in Range(seq)
    BY <1>2, <1>8, ElementOfSeq DEF Range
  <2>2. seq[j].fs \in {"PartitionFs", "RomFs"}
    BY <2>1 DEF SectionType
  <2>3. seq[j] \in Taken("PartitionFs") \/ seq[j] \in Taken("RomFs")
    BY <1>13, <2>1, <2>2
  <2> HIDE DEF Taken
  <2>4. Has(p, seq[j]) \/ Has(r, seq[j])
    BY <1>4, <2>3 DEF Picks, Has
  <2>5. Has(q, seq[j])
    BY <1>6, <2>4
  <2> QED BY <2>5 DEF Has
<1>14. \A i \in 1 .. Len(views) : \E j \in DOMAIN seq : views[i] = View(seq[j], key) /\ seq[j].crypto # "Other"
  BY <1>8, <1>10, <1>11, <1>12
<1>15. \A j \in DOMAIN seq : seq[j].crypto # "Other" => \E i \in 1 .. Len(views) : views[i] = View(seq[j], key)
  BY <1>8, <1>10, <1>11, <1>13
<1> QED BY <1>1, <1>2, <1>9, <1>11, <1>14, <1>15 DEF ViewsOf
-----------------------------------------------------------------------------
\* A byte that another key masks is none of the plain ones.
LEMMA OtherMask ==
    ASSUME NEW x, NEW y, NEW offset
    PROVE  Mask(Mask(Plain(x), "its", offset), "other", offset) # Plain(y)
<1> DEFINE a == <<"its", offset \div CtrBlock, offset % CtrBlock>>
           b == <<"other", offset \div CtrBlock, offset % CtrBlock>>
<1>1. a # b
  OBVIOUS
<1>2. /\ Mask(Plain(x), "its", offset) = (Plain(x) \ {a}) \cup ({a} \ Plain(x))
      /\ Mask(Mask(Plain(x), "its", offset), "other", offset) =
            (Mask(Plain(x), "its", offset) \ {b}) \cup ({b} \ Mask(Plain(x), "its", offset))
  BY DEF Mask
<1>3. a \notin Plain(x) /\ a \notin Plain(y)
  BY DEF Plain
<1> HIDE DEF a, b
<1>4. a \in Mask(Mask(Plain(x), "its", offset), "other", offset)
  BY <1>1, <1>2, <1>3
<1> QED BY <1>3, <1>4

\* A view's place in the archive.
Covering(views, y) ==
    \E i \in DOMAIN views : views[i].crypto = "Ctr" /\ y \in BeginsAt(views[i]) .. BeginsAt(views[i]) + views[i].size - 1

\* The bytes of the file around an archive.
LEMMA ArchiveFileIs ==
    ASSUME NEW views
    PROVE  \E S : /\ FileOf(views) \in Seq(S) /\ Len(FileOf(views)) = Before + ArchiveSize
                  /\ \A y \in 0 .. ArchiveSize - 1 :
                        FileOf(views)[Before + y + 1] =
                            IF Covering(views, y) THEN Mask(Plain(y), "its", y) ELSE Plain(y)
<1> DEFINE Holding(y) == IF Covering(views, y) THEN Mask(Plain(y), "its", y) ELSE Plain(y)
           n == Before + ArchiveSize
<1>1. n \in Nat /\ Before \in Nat /\ ArchiveSize \in Nat
  BY ArchivesAssumption
<1>2. FileOf(views) = [i \in 1 .. n |-> IF i <= Before THEN {} ELSE Holding(i - Before - 1)]
  BY DEF FileOf, Covering
<1>3. PICK file : file = FileOf(views)
  OBVIOUS
<1> HIDE DEF Holding
<1>4. PICK S : S = {file[i] : i \in 1 .. n}
  OBVIOUS
<1>5. file \in [1 .. n -> S]
  BY <1>2, <1>3, <1>4
<1>6. file \in Seq(S) /\ Len(file) = n
  BY <1>1, <1>5
<1>7. ASSUME NEW y \in 0 .. ArchiveSize - 1
      PROVE  file[Before + y + 1] = Holding(y)
  <2>1. PICK i : i = Before + y + 1
    OBVIOUS
  <2>2. i \in 1 .. n /\ ~(i <= Before) /\ i - Before - 1 = y
    BY <1>1, <2>1
  <2>3. file[i] = Holding(i - Before - 1)
    BY <1>2, <1>3, <2>2
  <2> QED BY <2>1, <2>2, <2>3
<1>8. \A y \in 0 .. ArchiveSize - 1 :
          file[Before + y + 1] = IF Covering(views, y) THEN Mask(Plain(y), "its", y) ELSE Plain(y)
  BY <1>7 DEF Holding
<1> QED BY <1>3, <1>6, <1>8

\* What is read through a view: an encrypted section with its key or with another one,
\* and a section in plain.
Reads(views, n, key, size, offset) ==
    /\ BeginsAt(views[n]) \in Nat
    /\ views[n].crypto = "None" =>
          ViewRead(FileOf(views), views[n], size, offset) = PlainBytes(views[n], size, offset)
    /\ views[n].crypto # "None" =>
          /\ views[n].key = key
          /\ ViewRead(FileOf(views), views[n], size, offset) =
                [i \in 1 .. size |->
                    Mask(Mask(Plain(BeginsAt(views[n]) + offset + i - 1), "its", BeginsAt(views[n]) + offset + i - 1),
                         key, BeginsAt(views[n]) + offset + i - 1)]

Given(views, sections, key) == SectionsFit(sections) /\ ViewsOf(views, sections, key)
Within(view, offset, size) == offset + size <= view.size

\* Parts of which one ends before the other begins share no byte.
LEMMA NoCommonByte ==
    ASSUME NEW a \in Nat, NEW l \in Nat, NEW b \in Nat, NEW m \in Nat, b + m <= a \/ a + l <= b,
           NEW y \in a .. a + l - 1
    PROVE  y \notin b .. b + m - 1
OBVIOUS

\* What is read through each view whose block begins below 4 GiB, with the right key
\* or another one.
LEMMA ViewReadIs ==
    ASSUME NEW sections \in Seq(SectionType), NEW key \in {"its", "other"}, NEW views,
           Given(views, sections, key), NEW n \in 1 .. Len(views), Low(views[n]),
           NEW offset \in Nat, NEW size \in Nat \ {0}, Within(views[n], offset, size)
    PROVE  Reads(views, n, key, size, offset)
<1> SectionsFit(sections) /\ ViewsOf(views, sections, key) /\ offset + size <= views[n].size
  BY DEF Given, Within
<1>1. PICK v : v = views[n]
  OBVIOUS
<1>2. PICK j \in DOMAIN sections : v = View(sections[j], key) /\ sections[j].crypto # "Other"
  BY <1>1 DEF ViewsOf
<1>3. PICK s \in SectionType : s = sections[j]
  BY ElementOfSeq
<1>4. /\ v.key = key /\ v.crypto = s.crypto /\ v.starts = BeginsAt(s) /\ BeginsAt(v) = BeginsAt(s) /\ v.size = s.size
      /\ s.crypto \in {"None", "Ctr"} /\ BeginsAt(s) \in Nat /\ s.size \in Nat \ {0}
  <2>1. v.key = key /\ v.crypto = s.crypto /\ v.size = s.size /\ s.crypto \in {"None", "Ctr"} /\ s.size \in Nat \ {0}
    BY <1>2, <1>3 DEF View, SectionType
  <2>2. v.starts = BeginsAt(s) /\ BeginsAt(v) = BeginsAt(s) /\ BeginsAt(s) \in Nat
    BY <1>1, <1>2, <1>3, ViewIs
  <2> QED BY <2>1, <2>2
<1>5. BeginsAt(s) + s.size <= ArchiveSize /\ (s.crypto = "Ctr" => BeginsAt(s) % CtrBlock = 0)
  BY <1>3 DEF SectionsFit
<1>6. Before \in Nat /\ ArchiveSize \in Nat /\ Before + ArchiveSize < Wide
  BY ArchivesAssumption
<1>7. PICK file, S : /\ file = FileOf(views) /\ file \in Seq(S) /\ Len(file) = Before + ArchiveSize
                     /\ \A y \in 0 .. ArchiveSize - 1 :
                           file[Before + y + 1] = IF Covering(views, y) THEN Mask(Plain(y), "its", y) ELSE Plain(y)
  BY ArchiveFileIs
<1>8. DOMAIN views = 1 .. Len(views)
  BY DEF ViewsOf
<1>9. PICK a, l : a = BeginsAt(s) /\ l = s.size
  OBVIOUS
<1>13. a \in Nat /\ l \in Nat \ {0} /\ a + l <= ArchiveSize /\ offset + size <= l
  BY <1>1, <1>4, <1>5, <1>9
<1>10. ASSUME NEW i \in 1 .. size
       PROVE  /\ a + offset + i - 1 \in 0 .. ArchiveSize - 1
              /\ a + offset + i - 1 \in a .. a + l - 1
              /\ Before + (a + offset + i - 1) + 1 = Before + a + offset + i
  BY <1>6, <1>13
<1>11. CASE v.crypto = "None"
  <2>1. ASSUME NEW y \in a .. a + l - 1
        PROVE  ~Covering(views, y)
    <3> SUFFICES ASSUME NEW k \in DOMAIN views, views[k].crypto = "Ctr",
                        y \in BeginsAt(views[k]) .. BeginsAt(views[k]) + views[k].size - 1
                 PROVE  FALSE
      BY DEF Covering
    <3>1. PICK m \in DOMAIN sections : views[k] = View(sections[m], key)
      BY <1>8 DEF ViewsOf
    <3>2. PICK t \in SectionType : t = sections[m]
      BY ElementOfSeq
    <3>3. /\ views[k].crypto = t.crypto /\ BeginsAt(views[k]) = BeginsAt(t) /\ views[k].size = t.size
          /\ BeginsAt(t) \in Nat /\ t.size \in Nat
      <4>1. views[k].crypto = t.crypto /\ views[k].size = t.size /\ t.size \in Nat
        BY <3>1, <3>2 DEF View, SectionType
      <4>2. BeginsAt(views[k]) = BeginsAt(t) /\ BeginsAt(t) \in Nat
        BY <3>1, <3>2, ViewIs
      <4> QED BY <4>1, <4>2
    <3>4. Apart(t, s)
      BY <1>3, <1>4, <1>11, <3>2, <3>3 DEF SectionsFit
    <3>5. PICK b, m0 : b = BeginsAt(t) /\ m0 = t.size
      OBVIOUS
    <3>6. b \in Nat /\ m0 \in Nat /\ y \in b .. b + m0 - 1 /\ (b + m0 <= a \/ a + l <= b)
      BY <1>9, <3>3, <3>4, <3>5 DEF Apart
    <3> QED BY <1>13, <3>6, NoCommonByte
  <2>2. PICK bytes : bytes = ViewRead(FileOf(views), views[n], size, offset)
    OBVIOUS
  <2>9. PICK o : o = Before + a + offset
    OBVIOUS
  <2>3. o \in Nat /\ o = Before + a + offset /\ o < Wide /\ o + size <= Len(file)
    BY SMTT(30), <1>6, <1>7, <1>13, <2>9, ReadAssumption
  <2>4. bytes = RegularRead(file, size, o)
    BY <1>1, <1>4, <1>7, <1>9, <1>11, <2>2, <2>3 DEF ViewRead, LayeredRead
  <2>5. bytes \in Seq(S \cup {0}) /\ IsRead(bytes, file, size, o)
    BY <1>6, <1>7, <2>3, <2>4, RegularReadFits
  <2>6. Len(bytes) = size /\ \A i \in 1 .. size : bytes[i] = file[o + i]
    BY <2>3, <2>5 DEF IsRead
  <2>7. ASSUME NEW i \in 1 .. size
        PROVE  bytes[i] = Plain(a + offset + i - 1)
    <3>1. PICK y \in 0 .. ArchiveSize - 1 : y = a + offset + i - 1 /\ y \in a .. a + l - 1 /\ Before + y + 1 = Before + a + offset + i
      BY <1>10
    <3>2. o + i = Before + y + 1
      BY <2>3, <3>1
    <3> QED BY <1>7, <2>1, <2>6, <3>1, <3>2
  <2>8. bytes = [i \in 1 .. size |-> Plain(a + offset + i - 1)]
    <3>1. bytes = [i \in 1 .. size |-> bytes[i]]
      BY <2>5, <2>6
    <3> QED BY <2>7, <3>1
  <2> QED BY <1>1, <1>4, <1>9, <1>11, <2>2, <2>8 DEF PlainBytes, Reads
<1>12. CASE v.crypto # "None"
  <2>1. v.crypto = "Ctr"
    BY <1>4, <1>12
  <2>6. PICK part : part = ArchivePart
    OBVIOUS
  <2>7. part.starts = Before /\ Before + a + offset + size <= Len(file) /\ Len(file) < Wide
    BY <1>6, <1>7, <1>13, <2>6 DEF ArchivePart
  <2>2. /\ part.starts \in Nat /\ part.starts = Before /\ v.starts \in Nat /\ v.starts % CtrBlock = 0
        /\ part.starts + v.starts + offset + size <= Len(file) /\ Len(file) < Wide
    BY <1>4, <1>5, <1>6, <1>9, <2>1, <2>7
  <2>3. CounterRead(file, part, v, size, offset) =
            [i \in 1 .. size |-> Mask(file[part.starts + v.starts + offset + i], v.key, v.starts + offset + i - 1)]
    <3>1. file \in Seq(S)
      BY <1>7
    <3>2. part.starts \in Nat /\ v.starts \in Nat
      BY <2>2
    <3>3. v.starts % CtrBlock = 0
      BY <2>2
    <3>4. Len(file) < Wide
      BY <2>2
    <3>5. part.starts + v.starts + offset + size <= Len(file)
      BY <2>2
    <3> QED BY <3>1, <3>2, <3>3, <3>4, <3>5, CounterReadDecrypts, SMTT(60)
  <2>4. ASSUME NEW i \in 1 .. size
        PROVE  file[Before + a + offset + i] = Mask(Plain(a + offset + i - 1), "its", a + offset + i - 1)
    <3>1. PICK y \in 0 .. ArchiveSize - 1 : y = a + offset + i - 1 /\ y \in a .. a + l - 1 /\ Before + y + 1 = Before + a + offset + i
      BY <1>10
    <3>2. Covering(views, y)
      BY <1>1, <1>4, <1>8, <1>9, <2>1, <3>1 DEF Covering
    <3> QED BY <1>7, <3>1, <3>2
  <2>5. CounterRead(file, part, v, size, offset) =
            [i \in 1 .. size |-> Mask(Mask(Plain(a + offset + i - 1), "its", a + offset + i - 1), key, a + offset + i - 1)]
    <3>1. ASSUME NEW i \in 1 .. size
          PROVE  Mask(file[part.starts + v.starts + offset + i], v.key, v.starts + offset + i - 1) =
                    Mask(Mask(Plain(a + offset + i - 1), "its", a + offset + i - 1), key, a + offset + i - 1)
      <4>1. part.starts + v.starts + offset + i = Before + a + offset + i /\ v.starts + offset + i - 1 = a + offset + i - 1
        BY <1>4, <1>9, <2>2
      <4> QED BY <1>4, <2>4, <4>1
    <3> QED BY <2>3, <3>1
  <2> QED BY <1>1, <1>4, <1>7, <1>9, <2>1, <2>5, <2>6 DEF ViewRead, Reads
<1> QED BY <1>1, <1>4, <1>11, <1>12 DEF Reads
-----------------------------------------------------------------------------
\* A section that is longer than a block, begins low and passes the assertions can be read.
CanRead(views) ==
    \A i \in DOMAIN views : CtrBlock <= views[i].size /\ Low(views[i]) =>
        \A offset \in 0 .. views[i].size - 1 : \A size \in 1 .. views[i].size - offset :
            ViewRead(FileOf(views), views[i], size, offset) = PlainBytes(views[i], size, offset)

\* With the right key, or none, that is what the section has.
LEMMA ReadWithKey ==
    ASSUME NEW sections \in Seq(SectionType), NEW key \in {"its", "other"}, NEW views,
           Given(views, sections, key), NEW n \in 1 .. Len(views), Low(views[n]),
           NEW offset \in Nat, NEW size \in Nat \ {0}, Within(views[n], offset, size),
           views[n].crypto = "None" \/ key = "its"
    PROVE  ViewRead(FileOf(views), views[n], size, offset) = PlainBytes(views[n], size, offset)
<1>1. PICK v : v = views[n]
  OBVIOUS
<1>4. Reads(views, n, key, size, offset)
  BY ViewReadIs
<1>2. CASE v.crypto = "None"
  BY <1>1, <1>2, <1>4 DEF Reads
<1>3. CASE v.crypto # "None" /\ key = "its"
  <2>4. PICK a : a = BeginsAt(v)
    OBVIOUS
  <2>1. ViewRead(FileOf(views), v, size, offset) =
            [i \in 1 .. size |-> Mask(Mask(Plain(a + offset + i - 1), "its", a + offset + i - 1), "its", a + offset + i - 1)]
    BY <1>1, <1>3, <1>4, <2>4 DEF Reads
  <2>2. \A i \in 1 .. size :
            Mask(Mask(Plain(a + offset + i - 1), "its", a + offset + i - 1), "its", a + offset + i - 1) =
               Plain(a + offset + i - 1)
    BY MaskTwice
  <2>3. ViewRead(FileOf(views), v, size, offset) = [i \in 1 .. size |-> Plain(a + offset + i - 1)]
    BY <2>1, <2>2
  <2> QED BY <1>1, <2>3, <2>4 DEF PlainBytes
<1> QED BY <1>1, <1>2, <1>3

\* The assertions of NcaCore's constructor find a wrong key.
LEMMA Readable ==
    ASSUME NEW sections \in Seq(SectionType), NEW key \in {"its", "other"}, NEW views,
           Given(views, sections, key), ~FirstBytesWrong(views)
    PROVE  CanRead(views)
<1> SUFFICES ASSUME NEW n \in DOMAIN views, CtrBlock <= views[n].size, Low(views[n]),
                    NEW offset \in 0 .. views[n].size - 1, NEW size \in 1 .. views[n].size - offset
             PROVE  ViewRead(FileOf(views), views[n], size, offset) = PlainBytes(views[n], size, offset)
  BY DEF CanRead
<1>1. DOMAIN views = 1 .. Len(views) /\ views[n] \in ViewType
  BY ElementOfSeq DEF Given, ViewsOf
<1>2. PICK l \in Nat \ {0} : l = views[n].size
  BY <1>1 DEF ViewType
<1>3. offset \in Nat /\ size \in Nat \ {0} /\ Within(views[n], offset, size)
  BY <1>2 DEF Within
<1>4. CASE views[n].crypto = "None" \/ key = "its"
  BY <1>1, <1>3, <1>4, ReadWithKey
<1>5. CASE views[n].crypto # "None" /\ key # "its"
  <2>1. key = "other" /\ CtrBlock \in Nat \ {0} /\ 0 \in Nat /\ Within(views[n], 0, CtrBlock)
    BY <1>2, <1>5, CounterAssumption DEF Within
  <2>2. PICK a : a = BeginsAt(views[n])
    OBVIOUS
  <2>3. /\ a \in Nat
        /\ ViewRead(FileOf(views), views[n], CtrBlock, 0) =
              [i \in 1 .. CtrBlock |-> Mask(Mask(Plain(a + 0 + i - 1), "its", a + 0 + i - 1), "other", a + 0 + i - 1)]
    <3>1. Reads(views, n, key, CtrBlock, 0)
      BY <1>1, <2>1, ViewReadIs
    <3> QED BY <1>5, <2>1, <2>2, <3>1 DEF Reads
  <2>4. a + 0 + 1 - 1 = a /\ 1 \in 1 .. CtrBlock
    BY <2>1, <2>3
  <2>5. ViewRead(FileOf(views), views[n], CtrBlock, 0)[1] = Mask(Mask(Plain(a), "its", a), "other", a)
    BY <2>3, <2>4
  <2>6. \A j \in DOMAIN views : ViewRead(FileOf(views), views[n], CtrBlock, 0)[1] # Plain(BeginsAt(views[j]))
    BY <2>5, OtherMask
  <2> QED BY <2>6 DEF FirstBytesWrong
<1> QED BY <1>4, <1>5

\* With its key an archive passes the assertions.
LEMMA KeyFits ==
    ASSUME NEW sections \in Seq(SectionType), NEW key \in {"its", "other"}, NEW views,
           Given(views, sections, key),
           key = "its" \/ \A j \in DOMAIN sections : sections[j].crypto # "Ctr",
           \A j \in DOMAIN sections : sections[j].crypto # "Other" => Low(sections[j])
    PROVE  ~FirstBytesWrong(views)
<1> SUFFICES ASSUME NEW n \in DOMAIN views, CtrBlock <= views[n].size
             PROVE  ViewRead(FileOf(views), views[n], CtrBlock, 0)[1] = Plain(BeginsAt(views[n]))
  BY DEF FirstBytesWrong
<1>1. DOMAIN views = 1 .. Len(views) /\ views[n] \in ViewType
  BY ElementOfSeq DEF Given, ViewsOf
<1>2. PICK l \in Nat \ {0} : l = views[n].size
  BY <1>1 DEF ViewType
<1>3. 0 \in Nat /\ CtrBlock \in Nat \ {0} /\ Within(views[n], 0, CtrBlock)
  BY <1>2, CounterAssumption DEF Within
<1>4. (views[n].crypto = "None" \/ key = "its") /\ Low(views[n]) /\ BeginsAt(views[n]) \in Nat
  <2>1. PICK j \in DOMAIN sections : views[n] = View(sections[j], key) /\ sections[j].crypto # "Other"
    BY <1>1 DEF Given, ViewsOf
  <2>2. views[n].crypto = sections[j].crypto
    BY <2>1 DEF View
  <2>3. sections[j] \in SectionType
    BY ElementOfSeq
  <2>4. sections[j].crypto \in {"None", "Ctr", "Other"}
    BY <2>3 DEF SectionType
  <2>5. Low(views[n]) /\ BeginsAt(views[n]) \in Nat
    BY <2>1, <2>3, ViewIs
  <2> QED BY <2>1, <2>2, <2>4, <2>5
<1>5. ViewRead(FileOf(views), views[n], CtrBlock, 0) = PlainBytes(views[n], CtrBlock, 0)
  BY <1>1, <1>3, <1>4, ReadWithKey
<1>6. PICK a \in Nat : a = BeginsAt(views[n])
  BY <1>4
<1>7. a + 0 + 1 - 1 = a /\ 1 \in 1 .. CtrBlock
  BY <1>3
<1> QED BY <1>5, <1>6, <1>7 DEF PlainBytes
-----------------------------------------------------------------------------
\* How many tickets were looked at, and one that no other one stands in the way of.
Imported == IF pc = "import" THEN next - 1 ELSE Len(package.tickets)

Alone(i) ==
    \A j \in DOMAIN package.tickets \ {i} :
        package.tickets[j].id # package.tickets[i].id /\ package.tickets[j].rights # package.tickets[i].rights

\* The keys that were found: those of the file stay, and a ticket's key is there.
KeysInv ==
    /\ package \in Packages
    /\ pc \in {"import", "open", "mount", "loaded", "failed"}
    /\ next \in Nat \ {0} /\ (pc = "import" => next <= Len(package.tickets) + 1)
    /\ tickets = {package.tickets[i].id : i \in 1 .. Imported}
    /\ DOMAIN titles \subseteq Rights /\ \A r \in DOMAIN titles : titles[r] \in {"its", "other", "zero"}
    /\ \A r \in DOMAIN titles :
          r \in DOMAIN package.file \/ \E i \in 1 .. Imported : package.tickets[i].rights = r
    /\ \A r \in DOMAIN package.file : r \in DOMAIN titles /\ titles[r] = package.file[r]
    /\ \A i \in 1 .. Imported :
          LET ticket == package.tickets[i]
          IN ticket.common /\ ticket.rights \notin DOMAIN package.file /\ Alone(i) =>
                ticket.rights \in DOMAIN titles /\ titles[ticket.rights] = "its"

\* What was opened are the archives, and each of them was opened.
Opens(opened, archive) ==
    /\ opened.type = archive.type
    /\ \E key \in {"its", "other"} : ViewsOf(opened.views, archive.sections, key)
    /\ ~FirstBytesWrong(opened.views)

OpenedInv ==
    /\ pc = "import" => contents = <<>> /\ ~cnmt
    /\ pc \in {"open", "failed"} => next <= Len(package.archives) + 1
    /\ pc \in {"mount", "loaded"} => next = Len(package.archives) + 1
    /\ cnmt \in BOOLEAN
    /\ contents \in Seq([type : {"Program", "Control", "Meta"}, views : Seq(ViewType)])
    /\ contents = <<>> \/ Len(contents) < next
    /\ \A n \in DOMAIN contents : \E i \in DOMAIN package.archives : Opens(contents[n], package.archives[i])
    /\ pc \in {"open", "mount", "loaded"} =>
          \A i \in DOMAIN package.archives : i < next =>
             LET archive == package.archives[i]
             IN /\ archive.form = "Nca" => \E n \in DOMAIN contents : Opens(contents[n], archive)
                /\ archive.form = "Cnmt" /\ archive.type = "Meta" => cnmt

\* A title that has all it takes opens, and the program's partition is not passed over.
Complete == \A i \in DOMAIN package.archives : Fit(package.archives[i])

HasProgram ==
    /\ package.meta = "Application"
    /\ \E i \in DOMAIN package.archives : package.archives[i].form = "Cnmt" /\ package.archives[i].type = "Meta"
    /\ \E j \in DOMAIN package.archives :
          LET program == package.archives[j]
          IN /\ program.form = "Nca" /\ program.type = "Program"
             /\ \E s \in DOMAIN program.sections :
                   /\ program.sections[s].fs = "PartitionFs" /\ program.sections[s].exefs
                   /\ program.sections[s].crypto # "Other"

\* A RomFS has its tables, and those of a whole title lie where the walk finds them.
Mountable(v) == v.image \in Images /\ (Complete => Below4GiB(v.image, v.layout))

MountsInv ==
    /\ Complete => pc # "failed"
    /\ mounts \in Seq(ViewType)
    /\ \A k \in DOMAIN mounts : mounts[k].fs = "RomFs" => Mountable(mounts[k])
    /\ \A i \in DOMAIN exefs : exefs[i].fs = "PartitionFs" /\ exefs[i].exefs
    /\ pc \in {"import", "open", "loaded"} => mounts = <<>>
    /\ pc \in {"mount", "loaded"} /\ HasProgram =>
          exefs # <<>> \/ \E k \in DOMAIN mounts : mounts[k].fs = "PartitionFs" /\ mounts[k].exefs

NearInv == Complete => calls = <<>> \/ Near

ArchivesInv == KeysInv /\ OpenedInv /\ MountsInv /\ WalkInv /\ NearInv
-----------------------------------------------------------------------------
\* The parts of a package, from the assumption about the packages.
LEMMA PackageParts ==
    ASSUME KeysInv
    PROVE  /\ package.tickets \in Seq(Ticket) /\ package.archives \in Seq(ArchiveType)
           /\ package.indexed \subseteq KeyType \X Nat
           /\ DOMAIN package.file \subseteq Rights
           /\ \A r \in DOMAIN package.file : package.file[r] \in {"its", "other"}
           /\ \A i \in DOMAIN package.archives : SectionsFit(package.archives[i].sections)
           /\ Free \notin Rights
<1>1. package \in Package
  BY ArchivesAssumption DEF KeysInv
<1>2. package.tickets \in Seq(Ticket) /\ package.archives \in Seq(ArchiveType) /\ package.indexed \subseteq KeyType \X Nat
  BY <1>1 DEF Package
<1>3. package.file \in UNION {[rights -> {"its", "other"}] : rights \in SUBSET Rights}
  BY <1>1 DEF Package
<1>4. PICK rights \in SUBSET Rights : package.file \in [rights -> {"its", "other"}]
  BY <1>3
<1>5. \A i \in DOMAIN package.archives : SectionsFit(package.archives[i].sections)
  BY ArchivesAssumption DEF KeysInv
<1> QED BY <1>2, <1>4, <1>5, ArchivesAssumption

\* At first the keys are those of the key files.
LEMMA KeysBegin ==
    ASSUME ArchivesInit
    PROVE  KeysInv
<1>1. package.file \in UNION {[rights -> {"its", "other"}] : rights \in SUBSET Rights} /\ package \in Packages
  BY ArchivesAssumption DEF ArchivesInit, Package
<1>2. PICK rights \in SUBSET Rights : package.file \in [rights -> {"its", "other"}]
  BY <1>1
<1>3. package.tickets \in Seq(Ticket)
  BY ArchivesAssumption DEF ArchivesInit, Package
<1>4. next = 1 /\ pc = "import" /\ tickets = {} /\ titles = package.file /\ Len(package.tickets) \in Nat
  BY <1>3 DEF ArchivesInit
<1>5. Imported = 0
  BY <1>4 DEF Imported
<1>6. 1 .. Imported = {}
  BY <1>5
<1> QED BY <1>1, <1>2, <1>4, <1>6 DEF KeysInv

\* A ticket adds its number, and its key unless one is known.
LEMMA ImportKeeps ==
    ASSUME KeysInv, ImportTicket
    PROVE  KeysInv'
<1>1. package' = package /\ pc' = pc /\ pc = "import" /\ next' = next + 1 /\ next <= Len(package.tickets)
  BY DEF ImportTicket
<1>2. PICK k, t : k = next /\ t = package.tickets[k]
  OBVIOUS
<1>3. k \in Nat \ {0} /\ package.tickets \in Seq(Ticket)
  BY <1>2, PackageParts DEF KeysInv
<1>4. k \in 1 .. Len(package.tickets) /\ t \in Ticket /\ DOMAIN package.tickets = 1 .. Len(package.tickets)
  BY <1>1, <1>2, <1>3, ElementOfSeq
<1>5. Imported = k - 1 /\ Imported' = k
  BY <1>1, <1>2, <1>3 DEF Imported
<1>6. /\ \A i \in 1 .. k : i = k \/ i \in 1 .. Imported
      /\ \A i \in 1 .. Imported : i \in 1 .. k /\ i # k
      /\ k \in 1 .. k
  BY <1>3, <1>5
<1>7. tickets = {package.tickets[i].id : i \in 1 .. Imported}
  BY DEF KeysInv
<1>8. tickets' = tickets \cup {t.id}
  BY <1>2 DEF ImportTicket
<1>9. tickets' = {package.tickets[i].id : i \in 1 .. k}
  BY <1>2, <1>6, <1>7, <1>8
<1>10. t.id \notin tickets => titles' = [r \in DOMAIN titles \cup {t.rights} |->
             IF r \in DOMAIN titles THEN titles[r] ELSE IF t.common THEN "its" ELSE "zero"]
  BY <1>2 DEF ImportTicket, AddTitlePair
<1>11. t.id \in tickets => titles' = titles
  BY <1>2 DEF ImportTicket
<1>12. /\ DOMAIN titles \subseteq DOMAIN titles' /\ DOMAIN titles' \subseteq DOMAIN titles \cup {t.rights}
       /\ \A r \in DOMAIN titles : titles'[r] = titles[r]
       /\ \A r \in DOMAIN titles' : r \in DOMAIN titles \/ titles'[r] \in {"its", "zero"}
  BY <1>10, <1>11
<1>13. t.rights \in Rights \cup {Free} /\ t.rights \in Rights
  BY <1>4 DEF Ticket
<1>14. DOMAIN titles' \subseteq Rights /\ \A r \in DOMAIN titles' : titles'[r] \in {"its", "other", "zero"}
  BY <1>12, <1>13 DEF KeysInv
<1>15. ASSUME NEW r \in DOMAIN titles'
       PROVE  r \in DOMAIN package.file \/ \E i \in 1 .. k : package.tickets[i].rights = r
  <2>1. CASE r \in DOMAIN titles
    BY <1>6, <2>1 DEF KeysInv
  <2>2. CASE r \notin DOMAIN titles
    BY <1>2, <1>6, <1>12, <2>2
  <2> QED BY <2>1, <2>2
<1>16. \A r \in DOMAIN package.file : r \in DOMAIN titles' /\ titles'[r] = package.file[r]
  BY <1>12 DEF KeysInv
<1>17. ASSUME NEW i \in 1 .. k, package.tickets[i].common, package.tickets[i].rights \notin DOMAIN package.file, Alone(i)
       PROVE  package.tickets[i].rights \in DOMAIN titles' /\ titles'[package.tickets[i].rights] = "its"
  <2>1. CASE i # k
    <3>1. package.tickets[i].rights \in DOMAIN titles /\ titles[package.tickets[i].rights] = "its"
      BY <1>6, <1>17, <2>1 DEF KeysInv
    <3> QED BY <1>12, <3>1
  <2>2. CASE i = k
    <3>1. \A j \in 1 .. Imported : package.tickets[j].id # t.id /\ package.tickets[j].rights # t.rights
      <4>1. \A j \in 1 .. Imported : j \in DOMAIN package.tickets \ {i}
        BY <1>4, <1>6, <2>2
      <4> QED BY <1>2, <1>17, <2>2, <4>1 DEF Alone
    <3>2. t.id \notin tickets
      BY <1>7, <3>1
    <3>3. t.rights \notin DOMAIN titles
      BY <1>2, <1>17, <2>2, <3>1 DEF KeysInv
    <3> QED BY <1>2, <1>10, <1>17, <2>2, <3>2, <3>3
  <2> QED BY <2>1, <2>2
<1>18. \A i : Alone(i)' <=> Alone(i)
  BY <1>1 DEF Alone
<1>19. next' \in Nat \ {0} /\ next' <= Len(package.tickets) + 1
  BY <1>1, <1>2, <1>3, <1>4
<1> QED BY <1>1, <1>5, <1>9, <1>14, <1>15, <1>16, <1>17, <1>18, <1>19 DEF KeysInv

\* Nothing else changes the keys.
LEMMA KeysStay ==
    ASSUME KeysInv, UNCHANGED <<package, tickets, titles>>, Imported' = Imported,
           pc' \in {"open", "mount", "loaded", "failed"}, next' \in Nat \ {0}
    PROVE  KeysInv'
<1>1. \A i : Alone(i)' <=> Alone(i)
  BY DEF Alone
<1> QED BY <1>1 DEF KeysInv
-----------------------------------------------------------------------------
\* An archive that is whole and whose key is known opens.
LEMMA KeyFound ==
    ASSUME KeysInv, pc = "open", NEW archive \in ArchiveType, KeysKnown(archive)
    PROVE  KeyOf(archive) = "its" \/ \A i \in DOMAIN archive.sections : archive.sections[i].crypto # "Ctr"
<1> SUFFICES ASSUME \E i \in DOMAIN archive.sections : archive.sections[i].crypto = "Ctr", archive.rights # Free
             PROVE  KeyOf(archive) = "its"
  BY DEF KeyOf
<1>1. HasKey("KekTitle", archive) /\ TitleKeyKnown(archive.rights)
  BY DEF KeysKnown
<1>2. archive.rights \in DOMAIN titles /\ titles[archive.rights] = "its"
  <2>1. CASE archive.rights \in DOMAIN package.file
    BY <1>1, <2>1 DEF KeysInv, TitleKeyKnown
  <2>2. CASE archive.rights \notin DOMAIN package.file
    <3>1. PICK i \in DOMAIN package.tickets :
              /\ package.tickets[i].rights = archive.rights /\ package.tickets[i].common
              /\ \A j \in DOMAIN package.tickets \ {i} :
                    package.tickets[j].id # package.tickets[i].id /\ package.tickets[j].rights # archive.rights
      BY <1>1, <2>2 DEF TitleKeyKnown, TicketOf
    <3>2. Alone(i)
      BY <3>1 DEF Alone
    <3>3. i \in 1 .. Imported
      BY PackageParts, ElementOfSeq DEF Imported
    <3> QED BY <2>2, <3>1, <3>2, <3>3 DEF KeysInv
  <2> QED BY <2>1, <2>2
<1> QED BY <1>1, <1>2 DEF KeyOf, TitleKey

\* NcaCore's constructor does not throw for an archive that has all it takes.
LEMMA FitOpens ==
    ASSUME KeysInv, pc = "open", NEW i \in DOMAIN package.archives, Fit(package.archives[i])
    PROVE  /\ ~NcaThrows(package.archives[i])
           /\ package.archives[i].form = "Cnmt" /\ package.archives[i].type = "Meta" =>
                 \E j \in DOMAIN Views(package.archives[i]) : Views(package.archives[i])[j].fs = "PartitionFs"
<1>1. PICK archive : archive = package.archives[i]
  OBVIOUS
<1>2. archive \in ArchiveType /\ SectionsFit(archive.sections) /\ Fit(archive)
  BY <1>1, PackageParts, ElementOfSeq
<1>3. PICK views, key : views = Views(archive) /\ key = KeyOf(archive)
  OBVIOUS
<1>4. ViewsOf(views, archive.sections, key) /\ key \in {"its", "other"}
  BY <1>2, <1>3, ViewsAre
<1>5. archive.sections \in Seq(SectionType)
  BY <1>2 DEF ArchiveType
<1>6. key = "its" \/ \A j \in DOMAIN archive.sections : archive.sections[j].crypto # "Ctr"
  BY <1>2, <1>3, KeyFound DEF Fit
<1>7. Given(views, archive.sections, key)
  BY <1>2, <1>4 DEF Given
<1>8. ~FirstBytesWrong(views)
  <2>1. \A j \in DOMAIN archive.sections : archive.sections[j].crypto # "Other" => Low(archive.sections[j])
    BY <1>2 DEF Fit, InReach
  <2> QED BY <1>4, <1>5, <1>6, <1>7, <2>1, KeyFits
<1>9. ~AreaKeyMissing(archive)
  <2> SUFFICES ASSUME archive.rights = Free, \E j \in DOMAIN archive.sections : archive.sections[j].crypto = "Ctr"
               PROVE  archive.area # "Invalid" /\ HasKey(archive.area, archive)
    BY DEF AreaKeyMissing
  <2>1. HasKey(archive.area, archive)
    BY <1>2 DEF Fit, KeysKnown
  <2>2. <<archive.area, Revision(archive)>> \in KeyType \X Nat
    BY <2>1, PackageParts DEF HasKey
  <2>3. archive.area \in KeyType
    BY <2>2
  <2> QED BY <2>1, <2>3 DEF KeyType
<1>10. ~NcaThrows(archive)
  BY <1>2, <1>3, <1>8, <1>9 DEF NcaThrows, Fit
<1>11. archive.form = "Cnmt" /\ archive.type = "Meta" => \E j \in DOMAIN views : views[j].fs = "PartitionFs"
  <2> SUFFICES ASSUME archive.form = "Cnmt", archive.type = "Meta"
               PROVE  \E j \in DOMAIN views : views[j].fs = "PartitionFs"
    OBVIOUS
  <2>1. PICK s \in DOMAIN archive.sections : archive.sections[s].fs = "PartitionFs" /\ archive.sections[s].crypto # "Other"
    BY <1>2 DEF Fit
  <2>2. PICK j \in 1 .. Len(views) : views[j] = View(archive.sections[s], key)
    BY <1>4, <2>1 DEF ViewsOf
  <2>3. views[j].fs = "PartitionFs"
    BY <2>1, <2>2 DEF View
  <2>4. DOMAIN views = 1 .. Len(views)
    BY <1>4 DEF ViewsOf
  <2> QED BY <2>3, <2>4
<1> QED BY <1>1, <1>3, <1>10, <1>11

\* What an archive that does not throw gives.
LEMMA ArchiveOpens ==
    ASSUME KeysInv, NEW i \in DOMAIN package.archives, ~NcaThrows(package.archives[i])
    PROVE  Opens([type |-> package.archives[i].type, views |-> Views(package.archives[i])], package.archives[i])
<1>1. PICK archive : archive = package.archives[i]
  OBVIOUS
<1>2. archive \in ArchiveType
  BY <1>1, PackageParts, ElementOfSeq
<1>3. ViewsOf(Views(archive), archive.sections, KeyOf(archive)) /\ KeyOf(archive) \in {"its", "other"}
  BY <1>2, ViewsAre
<1>4. ~FirstBytesWrong(Views(archive))
  BY <1>1 DEF NcaThrows
<1> QED BY <1>1, <1>3, <1>4 DEF Opens
-----------------------------------------------------------------------------
\* Whether a title has all it takes, and a program, does not change.
LEMMA PackageStays ==
    ASSUME package' = package
    PROVE  (Complete' <=> Complete) /\ (HasProgram' <=> HasProgram) /\ \A v : Mountable(v)' <=> Mountable(v)
<1>1. \A a : TitleKeyKnown(a)' <=> TitleKeyKnown(a)
  BY DEF TitleKeyKnown, TicketOf
<1>2. \A a, t : HasKey(t, a)' <=> HasKey(t, a)
  BY DEF HasKey, Revision
<1>3. \A a : KeysKnown(a)' <=> KeysKnown(a)
  BY <1>1, <1>2 DEF KeysKnown
<1>4. \A a : Fit(a)' <=> Fit(a)
  BY <1>3 DEF Fit
<1>5. Complete' <=> Complete
  BY <1>4 DEF Complete
<1> QED BY <1>5 DEF HasProgram, Mountable

\* As long as nothing is mounted.
LEMMA NearStays ==
    ASSUME NearInv, UNCHANGED <<package, image, layout>>, calls # <<>> \/ calls' = calls
    PROVE  NearInv'
BY PackageStays DEF NearInv, Near

\* Before the first file system is mounted.
LEMMA MountsStay ==
    ASSUME MountsInv, UNCHANGED <<package, mounts, exefs>>, pc \in {"import", "open"},
           pc' \in {"import", "open", "failed"}, Complete => pc' # "failed"
    PROVE  MountsInv'
<1>1. mounts' = <<>> /\ mounts' \in Seq(ViewType)
  BY DEF MountsInv
<1>2. \A k \in DOMAIN mounts' : FALSE
  BY <1>1
<1>3. \A i \in DOMAIN exefs' : exefs'[i].fs = "PartitionFs" /\ exefs'[i].exefs
  BY DEF MountsInv
<1> QED BY <1>1, <1>2, <1>3, PackageStays DEF MountsInv

\* An opened archive joins the contents.
LEMMA OpenNcaKeeps ==
    ASSUME KeysInv, OpenedInv, MountsInv, OpenNca
    PROVE  KeysInv' /\ OpenedInv' /\ MountsInv'
<1>1. /\ package' = package /\ tickets' = tickets /\ titles' = titles /\ cnmt' = cnmt
      /\ mounts' = mounts /\ exefs' = exefs /\ pc' = pc /\ pc = "open"
      /\ next' = next + 1 /\ next <= Len(package.archives)
  BY DEF OpenNca, import, mounted
<1>2. PICK k, archive : k = next /\ archive = package.archives[k]
  OBVIOUS
<1>3. k \in Nat \ {0} /\ package.archives \in Seq(ArchiveType)
  BY <1>2, PackageParts DEF KeysInv
<1>4. DOMAIN package.archives = 1 .. Len(package.archives) /\ k \in DOMAIN package.archives /\ archive \in ArchiveType
  BY <1>1, <1>2, <1>3, ElementOfSeq
<1>5. PICK opened : opened = [type |-> archive.type, views |-> Views(archive)]
  OBVIOUS
<1>6. ~NcaThrows(archive) /\ archive.form = "Nca" /\ contents' = Append(contents, opened)
  BY <1>2, <1>5 DEF OpenNca
<1>7. Opens(opened, archive)
  BY <1>2, <1>4, <1>5, <1>6, ArchiveOpens
<1>8. opened \in [type : {"Program", "Control", "Meta"}, views : Seq(ViewType)]
  <2>1. Views(archive) \in Seq(ViewType)
    BY <1>4, ViewsAre DEF ViewsOf
  <2> QED BY <1>4, <1>5, <2>1 DEF ArchiveType
<1> DEFINE Contents == [type : {"Program", "Control", "Meta"}, views : Seq(ViewType)]
<1>9. contents \in Seq(Contents)
  BY DEF OpenedInv
<1> HIDE DEF Contents
<1>10. PICK old, new : old = contents /\ new = contents'
  OBVIOUS
<1>11. /\ new \in Seq(Contents) /\ Len(new) = Len(old) + 1 /\ Len(old) \in Nat
       /\ DOMAIN new = 1 .. Len(old) + 1 /\ DOMAIN old = 1 .. Len(old)
       /\ \A n \in 1 .. Len(old) : new[n] = old[n]
       /\ new[Len(old) + 1] = opened
  <2>1. opened \in Contents
    BY <1>8 DEF Contents
  <2> QED BY <1>6, <1>9, <1>10, <2>1
<1>12. \A n \in DOMAIN new : n = Len(old) + 1 \/ n \in DOMAIN old
  BY <1>11
<1>13. Len(old) + 1 \in DOMAIN new /\ \A n \in DOMAIN old : n \in DOMAIN new
  BY <1>11
<1>14. \A n \in DOMAIN new : \E i \in DOMAIN package.archives : Opens(new[n], package.archives[i])
  <2>1. \A n \in DOMAIN old : \E i \in DOMAIN package.archives : Opens(old[n], package.archives[i])
    BY <1>10 DEF OpenedInv
  <2> QED BY <1>2, <1>4, <1>7, <1>11, <1>12, <2>1
<1>15. ASSUME NEW i \in DOMAIN package.archives, i < k + 1
       PROVE  /\ package.archives[i].form = "Nca" => \E n \in DOMAIN new : Opens(new[n], package.archives[i])
              /\ package.archives[i].form = "Cnmt" /\ package.archives[i].type = "Meta" => cnmt
  <2>1. CASE i = k
    BY <1>2, <1>6, <1>7, <1>11, <1>13, <2>1
  <2>2. CASE i # k
    <3>1. i < next
      BY <1>2, <1>3, <1>4, <1>15, <2>2
    <3>2. /\ package.archives[i].form = "Nca" => \E n \in DOMAIN old : Opens(old[n], package.archives[i])
          /\ package.archives[i].form = "Cnmt" /\ package.archives[i].type = "Meta" => cnmt
      BY <1>1, <1>10, <3>1 DEF OpenedInv
    <3> QED BY <1>11, <1>13, <3>2
  <2> QED BY <2>1, <2>2
<1>16. new = <<>> \/ Len(new) < k + 1
  <2>1. old = <<>> \/ Len(old) < k
    BY <1>2, <1>10 DEF OpenedInv
  <2>2. old = <<>> => Len(old) = 0
    OBVIOUS
  <2> QED BY <1>3, <1>11, <2>1, <2>2
<1>17. OpenedInv'
  <2>1. next' <= Len(package.archives) + 1
    BY <1>1, <1>2, <1>3, <1>4
  <2>2. cnmt \in BOOLEAN
    BY DEF OpenedInv
  <2> QED BY <1>1, <1>2, <1>10, <1>11, <1>14, <1>15, <1>16, <2>1, <2>2 DEF OpenedInv, Contents
<1>18. KeysInv'
  <2>1. Imported' = Imported /\ next' \in Nat \ {0}
    BY <1>1, <1>2, <1>3 DEF Imported
  <2> QED BY <1>1, <2>1, KeysStay
<1>19. MountsInv'
  BY <1>1, MountsStay
<1> QED BY <1>17, <1>18, <1>19

\* The metadata is found, or its list of partitions is empty.
LEMMA OpenCnmtKeeps ==
    ASSUME KeysInv, OpenedInv, MountsInv, OpenCnmt
    PROVE  KeysInv' /\ OpenedInv' /\ MountsInv'
<1>1. /\ package' = package /\ tickets' = tickets /\ titles' = titles /\ contents' = contents
      /\ mounts' = mounts /\ exefs' = exefs /\ pc = "open" /\ pc' \in {"open", "failed"}
      /\ next' = next + 1 /\ next <= Len(package.archives)
  BY DEF OpenCnmt, import, mounted
<1>2. PICK k, archive : k = next /\ archive = package.archives[k]
  OBVIOUS
<1>3. k \in Nat \ {0} /\ package.archives \in Seq(ArchiveType)
  BY <1>2, PackageParts DEF KeysInv
<1>4. DOMAIN package.archives = 1 .. Len(package.archives) /\ k \in DOMAIN package.archives
  BY <1>1, <1>2, <1>3, ElementOfSeq
<1>5. archive.form = "Cnmt" /\ cnmt' \in BOOLEAN /\ (cnmt => cnmt')
  BY <1>2 DEF OpenCnmt, OpenedInv
<1>6. pc' = "open" /\ archive.type = "Meta" => cnmt'
  BY <1>1, <1>2 DEF OpenCnmt
<1>7. Complete => pc' # "failed"
  <2>1. Fit(archive) /\ archive.type = "Meta" => \E j \in DOMAIN Views(archive) : Views(archive)[j].fs = "PartitionFs"
    BY <1>1, <1>2, <1>4, <1>5, FitOpens
  <2>2. Complete => Fit(archive)
    BY <1>2, <1>4 DEF Complete
  <2> QED BY <1>1, <1>2, <2>1, <2>2 DEF OpenCnmt
<1>8. ASSUME pc' = "open", NEW i \in DOMAIN package.archives, i < k + 1
      PROVE  /\ package.archives[i].form = "Nca" => \E n \in DOMAIN contents : Opens(contents[n], package.archives[i])
             /\ package.archives[i].form = "Cnmt" /\ package.archives[i].type = "Meta" => cnmt'
  <2>1. CASE i = k
    BY <1>2, <1>5, <1>6, <1>8, <2>1
  <2>2. CASE i # k
    <3>1. i < next
      BY <1>2, <1>3, <1>4, <1>8, <2>2
    <3> QED BY <1>1, <1>5, <3>1 DEF OpenedInv
  <2> QED BY <2>1, <2>2
<1>9. OpenedInv'
  <2>1. next' <= Len(package.archives) + 1
    BY <1>1, <1>2, <1>3, <1>4
  <2>2. contents = <<>> \/ Len(contents) < k + 1
    <3>1. PICK l : l = Len(contents)
      OBVIOUS
    <3>2. contents = <<>> \/ l < k
      BY <1>2, <3>1 DEF OpenedInv
    <3>3. l \in Nat
      BY <3>1 DEF OpenedInv
    <3> QED BY <1>3, <3>1, <3>2, <3>3
  <2> QED BY <1>1, <1>2, <1>5, <1>8, <2>1, <2>2 DEF OpenedInv
<1>10. KeysInv'
  <2>1. Imported' = Imported /\ next' \in Nat \ {0}
    BY <1>1, <1>2, <1>3 DEF Imported
  <2> QED BY <1>1, <2>1, KeysStay
<1>11. MountsInv'
  BY <1>1, <1>7, MountsStay
<1> QED BY <1>9, <1>10, <1>11

\* Only an archive that lacks something makes a title fail.
LEMMA OpenFailsKeeps ==
    ASSUME KeysInv, OpenedInv, MountsInv, OpenFails
    PROVE  KeysInv' /\ OpenedInv' /\ MountsInv'
<1>1. /\ package' = package /\ tickets' = tickets /\ titles' = titles /\ contents' = contents /\ cnmt' = cnmt
      /\ mounts' = mounts /\ exefs' = exefs /\ pc = "open" /\ pc' = "failed"
      /\ next' = next /\ next <= Len(package.archives)
  BY DEF OpenFails, import, mounted
<1>2. next \in Nat \ {0} /\ next \in DOMAIN package.archives
  BY <1>1, PackageParts, ElementOfSeq DEF KeysInv
<1>3. ~Complete
  BY <1>1, <1>2, FitOpens DEF OpenFails, Complete
<1>4. OpenedInv'
  BY <1>1, <1>2 DEF OpenedInv
<1>5. KeysInv'
  <2>1. Imported' = Imported
    BY <1>1 DEF Imported
  <2> QED BY <1>1, <1>2, <2>1, KeysStay
<1>6. MountsInv'
  BY <1>1, <1>3, MountsStay
<1> QED BY <1>4, <1>5, <1>6

\* The metadata of a whole title can be read.
LEMMA MetadataFailsKeeps ==
    ASSUME KeysInv, OpenedInv, MountsInv, MetadataFails
    PROVE  KeysInv' /\ OpenedInv' /\ MountsInv'
<1>1. /\ package' = package /\ tickets' = tickets /\ titles' = titles /\ contents' = contents /\ cnmt' = cnmt
      /\ mounts' = mounts /\ exefs' = exefs /\ pc = "open" /\ pc' = "failed" /\ next' = next
  BY DEF MetadataFails, import, mounted
<1>2. PICK i \in DOMAIN package.archives :
          /\ package.archives[i].form = "Cnmt" /\ package.archives[i].type = "Meta"
          /\ ~package.archives[i].metadata
  BY DEF MetadataFails, MetadataMissing
<1>3. ~Complete
  BY <1>2 DEF Complete, Fit
<1>4. OpenedInv'
  BY <1>1 DEF OpenedInv
<1>5. KeysInv'
  <2>1. Imported' = Imported /\ next \in Nat \ {0}
    BY <1>1 DEF Imported, KeysInv
  <2> QED BY <1>1, <2>1, KeysStay
<1>6. MountsInv'
  BY <1>1, <1>3, MountsStay
<1> QED BY <1>4, <1>5, <1>6

\* A ticket changes nothing but the keys.
LEMMA ImportTicketKeeps ==
    ASSUME KeysInv, OpenedInv, MountsInv, ImportTicket
    PROVE  KeysInv' /\ OpenedInv' /\ MountsInv'
<1>1. /\ package' = package /\ contents' = contents /\ cnmt' = cnmt /\ mounts' = mounts /\ exefs' = exefs
      /\ pc = "import" /\ pc' = pc
  BY DEF ImportTicket, mounted
<1>2. OpenedInv'
  BY <1>1 DEF OpenedInv
<1>3. MountsInv'
  BY <1>1, MountsStay
<1> QED BY <1>2, <1>3, ImportKeeps

\* The first archive follows the last ticket.
LEMMA TicketsDoneKeeps ==
    ASSUME KeysInv, OpenedInv, MountsInv, TicketsDone
    PROVE  KeysInv' /\ OpenedInv' /\ MountsInv'
<1>1. /\ package' = package /\ tickets' = tickets /\ titles' = titles /\ contents' = contents /\ cnmt' = cnmt
      /\ mounts' = mounts /\ exefs' = exefs /\ pc = "import" /\ pc' = "open" /\ next' = 1
      /\ next > Len(package.tickets) /\ next <= Len(package.tickets) + 1
  BY DEF TicketsDone, mounted, KeysInv
<1>2. package.tickets \in Seq(Ticket) /\ package.archives \in Seq(ArchiveType)
  BY PackageParts
<1>3. PICK t, a : t = Len(package.tickets) /\ a = Len(package.archives)
  OBVIOUS
<1>4. t \in Nat /\ a \in Nat /\ next \in Nat /\ DOMAIN package.archives = 1 .. a
  BY <1>2, <1>3 DEF KeysInv
<1>5. next - 1 = t
  BY <1>1, <1>3, <1>4
<1>6. Imported' = Imported
  BY <1>1, <1>3, <1>5 DEF Imported
<1>7. KeysInv'
  BY <1>1, <1>6, KeysStay
<1>8. MountsInv'
  BY <1>1, MountsStay
<1>9. OpenedInv'
  <2>1. next' <= Len(package.archives) + 1 /\ \A i \in DOMAIN package.archives : ~(i < 1)
    BY <1>1, <1>3, <1>4
  <2> QED BY <1>1, <2>1 DEF OpenedInv
<1> QED BY <1>7, <1>8, <1>9
-----------------------------------------------------------------------------
\* The views of what was opened.
OfOpened(v) == \E n \in DOMAIN contents : \E i \in 1 .. Len(contents[n].views) : contents[n].views[i] = v

\* They have their types, and a RomFS has its tables.
LEMMA OpenedViews ==
    ASSUME KeysInv, OpenedInv, NEW v, OfOpened(v)
    PROVE  v \in ViewType /\ (v.fs = "RomFs" => Mountable(v))
<1>9. PICK n \in DOMAIN contents : \E i \in 1 .. Len(contents[n].views) : contents[n].views[i] = v
  BY DEF OfOpened
<1>1. PICK i \in 1 .. Len(contents[n].views) : contents[n].views[i] = v
  BY <1>9
<1>2. PICK a \in DOMAIN package.archives : Opens(contents[n], package.archives[a])
  BY DEF OpenedInv
<1>3. PICK archive : archive = package.archives[a]
  OBVIOUS
<1>4. archive \in ArchiveType /\ SectionsFit(archive.sections)
  BY <1>3, PackageParts, ElementOfSeq
<1>5. PICK key \in {"its", "other"} : ViewsOf(contents[n].views, archive.sections, key)
  BY <1>2, <1>3 DEF Opens
<1>6. v \in ViewType
  BY <1>1, <1>5, ElementOfSeq DEF ViewsOf
<1>7. PICK j \in DOMAIN archive.sections : v = View(archive.sections[j], key) /\ archive.sections[j].crypto # "Other"
  BY <1>1, <1>5 DEF ViewsOf
<1>10. PICK s : s = archive.sections[j]
  OBVIOUS
<1>11. v.fs = s.fs /\ v.image = s.image /\ v.layout = s.layout
  BY <1>7, <1>10 DEF View
<1>12. v.fs = "RomFs" => v.image \in Images
  BY <1>4, <1>10, <1>11 DEF SectionsFit
<1>13. Complete => InReach(s)
  BY <1>3, <1>7, <1>10 DEF Complete, Fit
<1>8. v.fs = "RomFs" => Mountable(v)
  BY <1>11, <1>12, <1>13 DEF Mountable, InReach
<1> QED BY <1>6, <1>8

\* The indexed archives of a type are opened ones, and all of them when the
\* metadata was found.
LEMMA IndexedAre ==
    ASSUME OpenedInv, NEW type
    PROVE  /\ Indexed(type) \in Seq([type : {"Program", "Control", "Meta"}, views : Seq(ViewType)])
           /\ \A i \in 1 .. Len(Indexed(type)) : \E n \in DOMAIN contents : Indexed(type)[i] = contents[n]
           /\ cnmt /\ package.meta = "Application" =>
                 \A n \in DOMAIN contents : contents[n].type = type =>
                    \E i \in 1 .. Len(Indexed(type)) : Indexed(type)[i] = contents[n]
<1> DEFINE Contents == [type : {"Program", "Control", "Meta"}, views : Seq(ViewType)]
           S == {opened \in Range(contents) : opened.type = type}
<1>1. PICK some : some = Chosen(contents, S)
  OBVIOUS
<1>2. contents \in Seq(Contents)
  BY DEF OpenedInv
<1> HIDE DEF Contents
<1>3. some \in Seq(Contents) /\ Picks(some, contents, S, Len(contents)) /\ DOMAIN contents = 1 .. Len(contents)
  <2> HIDE DEF S
  <2> QED BY <1>1, <1>2, ChosenIs
<1>4. CASE ~(cnmt /\ package.meta = "Application")
  <2>1. Indexed(type) = <<>>
    BY <1>4 DEF Indexed
  <2>2. <<>> \in Seq(Contents) /\ Len(<<>>) = 0
    OBVIOUS
  <2> QED BY <1>4, <2>1, <2>2 DEF Contents
<1>5. CASE cnmt /\ package.meta = "Application"
  <2>1. Indexed(type) = some
    BY <1>1, <1>5 DEF Indexed
  <2>2. \A i \in 1 .. Len(some) : \E n \in DOMAIN contents : some[i] = contents[n]
    BY <1>3 DEF Picks
  <2>3. \A n \in DOMAIN contents : contents[n].type = type => contents[n] \in S
    BY DEF Range
  <2>4. \A n \in DOMAIN contents : contents[n].type = type => \E i \in 1 .. Len(some) : some[i] = contents[n]
    <3> HIDE DEF S
    <3> QED BY <1>3, <2>3 DEF Picks
  <2> QED BY <1>3, <2>1, <2>2, <2>4 DEF Contents
<1> QED BY <1>4, <1>5

\* What GetAllContent goes through are views of what was opened, those of all
\* programs among them.
LEMMA MountsAre ==
    ASSUME KeysInv, OpenedInv, GetAllContent
    PROVE  /\ mounts' \in Seq(ViewType)
           /\ \A v : Has(mounts', v) => OfOpened(v)
           /\ cnmt /\ package.meta = "Application" =>
                 \A n \in DOMAIN contents : contents[n].type = "Program" =>
                    \A v : Has(contents[n].views, v) => Has(mounts', v)
<1>1. PICK programs, control : programs = Indexed("Program") /\ control = Indexed("Control")
  OBVIOUS
<1> DEFINE Contents == [type : {"Program", "Control", "Meta"}, views : Seq(ViewType)]
<1>2. /\ programs \in Seq(Contents) /\ control \in Seq(Contents)
      /\ \A i \in 1 .. Len(programs) : \E n \in DOMAIN contents : programs[i] = contents[n]
      /\ \A i \in 1 .. Len(control) : \E n \in DOMAIN contents : control[i] = contents[n]
  <2>1. programs \in Seq(Contents) /\ \A i \in 1 .. Len(programs) : \E n \in DOMAIN contents : programs[i] = contents[n]
    <3>1. PICK type : type = "Program"
      OBVIOUS
    <3>2. Indexed(type) \in Seq(Contents) /\ \A i \in 1 .. Len(Indexed(type)) : \E n \in DOMAIN contents : Indexed(type)[i] = contents[n]
      BY IndexedAre, Zenon
    <3> QED BY <1>1, <3>1, <3>2
  <2>2. control \in Seq(Contents) /\ \A i \in 1 .. Len(control) : \E n \in DOMAIN contents : control[i] = contents[n]
    <3>1. PICK type : type = "Control"
      OBVIOUS
    <3>2. Indexed(type) \in Seq(Contents) /\ \A i \in 1 .. Len(Indexed(type)) : \E n \in DOMAIN contents : Indexed(type)[i] = contents[n]
      BY IndexedAre, Zenon
    <3> QED BY <1>1, <3>1, <3>2
  <2> QED BY <2>1, <2>2
<1>3. PICK l : l = Len(programs)
  OBVIOUS
<1>4. /\ l \in Nat /\ DOMAIN programs = 1 .. l
      /\ \A i \in 1 .. l : programs[i] \in Contents
  <2> HIDE DEF Contents
  <2> QED BY <1>2, <1>3, ElementOfSeq
<1>5. PICK seqs : seqs = [i \in DOMAIN programs |-> programs[i].views]
  OBVIOUS
<1>6. seqs \in [1 .. l -> Seq(ViewType)]
  BY <1>4, <1>5
<1>7. PICK p : p = FlattenSeq(seqs)
  OBVIOUS
<1>8. p \in Seq(ViewType) /\ \A v : Has(p, v) <=> Holds(seqs, l, v)
  BY <1>4, <1>6, <1>7, FlattenHas
<1> DEFINE Rest == IF control = <<>> THEN <<>>
                   ELSE Chosen(Head(control).views, {v \in Range(Head(control).views) : v.fs = "RomFs"})
<1>9. PICK r : r = Rest
  OBVIOUS
<1>10. r \in Seq(ViewType) /\ \A v : Has(r, v) => OfOpened(v)
  <2>1. CASE control = <<>>
    <3>1. r = <<>> /\ r \in Seq(ViewType) /\ Len(r) = 0
      BY <1>9, <2>1
    <3> QED BY <3>1 DEF Has
  <2>2. CASE control # <<>>
    <3>1. PICK views, S : views = Head(control).views /\ S = {v \in Range(Head(control).views) : v.fs = "RomFs"}
      OBVIOUS
    <3>2. 1 \in 1 .. Len(control) /\ Head(control) = control[1]
      <4> HIDE DEF Contents
      <4> QED BY <1>2, <2>2
    <3>3. PICK n \in DOMAIN contents : control[1] = contents[n]
      BY <1>2, <3>2
    <3>4. views = contents[n].views
      BY <3>1, <3>2, <3>3
    <3>5. views \in Seq(ViewType)
      <4>1. control[1] \in Contents
        <5> HIDE DEF Contents
        <5> QED BY <1>2, <3>2, ElementOfSeq
      <4> QED BY <3>1, <3>2, <4>1
    <3>6. r = Chosen(views, S)
      BY <1>9, <2>2, <3>1
    <3>7. r \in Seq(ViewType) /\ Picks(r, views, S, Len(views))
      BY <3>5, <3>6, ChosenIs
    <3>8. ASSUME NEW v, Has(r, v)
          PROVE  OfOpened(v)
      <4>1. PICK i \in 1 .. Len(r) : r[i] = v
        BY <3>8 DEF Has
      <4>2. PICK j \in 1 .. Len(views) : r[i] = views[j]
        BY <3>7 DEF Picks
      <4> QED BY <3>4, <4>1, <4>2 DEF OfOpened
    <3> QED BY <3>7, <3>8
  <2> QED BY <2>1, <2>2
<1>11. mounts' = p \o r
  BY <1>1, <1>5, <1>7, <1>9 DEF GetAllContent
<1>12. PICK q : q = p \o r
  OBVIOUS
<1>13. q \in Seq(ViewType) /\ \A v : Has(q, v) <=> Has(p, v) \/ Has(r, v)
  BY <1>8, <1>10, <1>12, ConcatHas
<1>14. ASSUME NEW v, Has(p, v)
       PROVE  OfOpened(v)
  <2>1. Holds(seqs, l, v)
    BY <1>8, <1>14
  <2>2. PICK k \in 1 .. l : \E i \in 1 .. Len(seqs[k]) : seqs[k][i] = v
    BY <2>1 DEF Holds
  <2>3. PICK n \in DOMAIN contents : programs[k] = contents[n]
    BY <1>2, <1>3
  <2>4. seqs[k] = contents[n].views
    BY <1>4, <1>5, <2>3
  <2> QED BY <2>2, <2>4 DEF OfOpened
<1>15. ASSUME cnmt, package.meta = "Application", NEW n \in DOMAIN contents, contents[n].type = "Program",
              NEW v, Has(contents[n].views, v)
       PROVE  Has(p, v)
  <2>1. PICK k \in 1 .. l : programs[k] = contents[n]
    BY <1>1, <1>3, <1>15, IndexedAre
  <2>2. seqs[k] = contents[n].views
    BY <1>4, <1>5, <2>1
  <2>3. Holds(seqs, l, v)
    BY <1>15, <2>2 DEF Has, Holds
  <2> QED BY <1>8, <2>3
<1> QED BY <1>10, <1>11, <1>12, <1>13, <1>14, <1>15
-----------------------------------------------------------------------------
\* The program's partition is among the views to look at.
LEMMA GetAllContentKeeps ==
    ASSUME KeysInv, OpenedInv, MountsInv, GetAllContent
    PROVE  KeysInv' /\ OpenedInv' /\ MountsInv'
<1>1. /\ package' = package /\ tickets' = tickets /\ titles' = titles /\ contents' = contents /\ cnmt' = cnmt
      /\ next' = next /\ exefs' = exefs /\ pc = "open" /\ pc' = "mount" /\ next > Len(package.archives)
  BY DEF GetAllContent, import
<1>2. PICK k, l : k = next /\ l = Len(package.archives)
  OBVIOUS
<1>3. k \in Nat \ {0} /\ l \in Nat /\ DOMAIN package.archives = 1 .. l
  BY <1>2, PackageParts DEF KeysInv
<1>4. k = l + 1
  BY <1>1, <1>2, <1>3 DEF OpenedInv
<1>5. KeysInv'
  <2>1. Imported' = Imported /\ next' \in Nat \ {0}
    BY <1>1, <1>2, <1>3 DEF Imported
  <2> QED BY <1>1, <2>1, KeysStay
<1>6. OpenedInv'
  BY <1>1, <1>2, <1>4 DEF OpenedInv
<1>7. PICK new : new = mounts'
  OBVIOUS
<1>8. new \in Seq(ViewType) /\ DOMAIN new = 1 .. Len(new)
  BY <1>7, MountsAre, ElementOfSeq
<1>9. ASSUME NEW m \in DOMAIN new
      PROVE  new[m].fs = "RomFs" => Mountable(new[m])
  <2>1. PICK v : v = new[m]
    OBVIOUS
  <2>2. Has(mounts', v)
    BY <1>7, <1>8, <2>1 DEF Has
  <2>3. OfOpened(v)
    BY <2>2, MountsAre
  <2> QED BY <2>1, <2>3, OpenedViews
<1>10. ASSUME HasProgram
       PROVE  \E m \in DOMAIN new : new[m].fs = "PartitionFs" /\ new[m].exefs
  <2>1. PICK i \in DOMAIN package.archives : package.archives[i].form = "Cnmt" /\ package.archives[i].type = "Meta"
    BY <1>10 DEF HasProgram
  <2>2. PICK j \in DOMAIN package.archives :
            /\ package.archives[j].form = "Nca" /\ package.archives[j].type = "Program"
            /\ \E s \in DOMAIN package.archives[j].sections :
                  /\ package.archives[j].sections[s].fs = "PartitionFs" /\ package.archives[j].sections[s].exefs
                  /\ package.archives[j].sections[s].crypto # "Other"
    BY <1>10 DEF HasProgram
  <2>3. i < next /\ j < next
    BY <1>2, <1>3, <1>4
  <2>4. cnmt /\ package.meta = "Application"
    BY <1>1, <1>10, <2>1, <2>3 DEF OpenedInv, HasProgram
  <2>5. PICK n \in DOMAIN contents : Opens(contents[n], package.archives[j])
    BY <1>1, <2>2, <2>3 DEF OpenedInv
  <2>6. PICK s \in DOMAIN package.archives[j].sections :
            /\ package.archives[j].sections[s].fs = "PartitionFs" /\ package.archives[j].sections[s].exefs
            /\ package.archives[j].sections[s].crypto # "Other"
    BY <2>2
  <2>7. PICK key \in {"its", "other"} : ViewsOf(contents[n].views, package.archives[j].sections, key)
    BY <2>5 DEF Opens
  <2>8. PICK x \in 1 .. Len(contents[n].views) : contents[n].views[x] = View(package.archives[j].sections[s], key)
    BY <2>6, <2>7 DEF ViewsOf
  <2>9. PICK v : v = contents[n].views[x]
    OBVIOUS
  <2>10. v.fs = "PartitionFs" /\ v.exefs
    BY <2>6, <2>8, <2>9 DEF View
  <2>11. contents[n].type = "Program" /\ Has(contents[n].views, v)
    BY <2>2, <2>5, <2>9 DEF Opens, Has
  <2>12. Has(mounts', v)
    BY <2>4, <2>11, MountsAre
  <2> QED BY <1>7, <1>8, <2>10, <2>12 DEF Has
<1>11. MountsInv'
  <2>1. \A i \in DOMAIN exefs : exefs[i].fs = "PartitionFs" /\ exefs[i].exefs
    BY DEF MountsInv
  <2>2. (HasProgram' <=> HasProgram) /\ \A v : Mountable(v)' <=> Mountable(v)
    BY <1>1, PackageStays
  <2> QED BY <1>1, <1>7, <1>8, <1>9, <1>10, <2>1, <2>2 DEF MountsInv
<1> QED BY <1>5, <1>6, <1>11

\* What is left when a view was looked at.
LEMMA NextMount ==
    ASSUME NEW T, NEW seq \in Seq(T), seq # <<>>
    PROVE  /\ Head(seq) = seq[1] /\ 1 \in DOMAIN seq /\ Tail(seq) \in Seq(T)
           /\ \A k \in DOMAIN Tail(seq) : \E m \in DOMAIN seq : Tail(seq)[k] = seq[m]
           /\ \A m \in DOMAIN seq : m = 1 \/ \E k \in DOMAIN Tail(seq) : Tail(seq)[k] = seq[m]
<1>1. PICK n, rest : n = Len(seq) /\ rest = Tail(seq)
  OBVIOUS
<1>2. /\ n \in Nat \ {0} /\ DOMAIN seq = 1 .. n /\ Head(seq) = seq[1]
      /\ rest \in Seq(T) /\ DOMAIN rest = 1 .. n - 1 /\ \A k \in 1 .. n - 1 : rest[k] = seq[k + 1]
  BY <1>1
<1>3. \A k \in 1 .. n - 1 : k + 1 \in 1 .. n
  BY <1>2
<1>4. \A m \in 1 .. n : m = 1 \/ (m - 1 \in 1 .. n - 1 /\ (m - 1) + 1 = m)
  BY <1>2
<1>5. 1 \in 1 .. n
  BY <1>2
<1>6. \A k \in DOMAIN rest : \E m \in DOMAIN seq : rest[k] = seq[m]
  BY <1>2, <1>3
<1>7. \A m \in DOMAIN seq : m = 1 \/ \E k \in DOMAIN rest : rest[k] = seq[m]
  BY <1>2, <1>4
<1> QED BY <1>1, <1>2, <1>5, <1>6, <1>7

\* Everything stays but the views to look at and the program's partition.
LEMMA LookedAt ==
    ASSUME KeysInv, OpenedInv, MountsInv, pc = "mount", pc' = pc, mounts # <<>>, mounts' = Tail(mounts),
           UNCHANGED <<package, tickets, titles, next, contents, cnmt>>,
           exefs # <<>> => exefs' # <<>>,
           \A i \in DOMAIN exefs' : exefs'[i].fs = "PartitionFs" /\ exefs'[i].exefs,
           Head(mounts).fs = "PartitionFs" /\ Head(mounts).exefs => exefs' # <<>>
    PROVE  KeysInv' /\ OpenedInv' /\ MountsInv'
<1>1. KeysInv'
  <2>1. Imported' = Imported /\ next' \in Nat \ {0}
    BY DEF Imported, KeysInv
  <2> QED BY <2>1, KeysStay
<1>2. OpenedInv'
  BY DEF OpenedInv
<1>3. PICK old, new : old = mounts /\ new = mounts'
  OBVIOUS
<1>4. old \in Seq(ViewType) /\ old # <<>> /\ new = Tail(old)
  BY <1>3 DEF MountsInv
<1>5. /\ Head(old) = old[1] /\ 1 \in DOMAIN old /\ new \in Seq(ViewType)
      /\ \A k \in DOMAIN new : \E m \in DOMAIN old : new[k] = old[m]
      /\ \A m \in DOMAIN old : m = 1 \/ \E k \in DOMAIN new : new[k] = old[m]
  BY <1>4, NextMount
<1>6. \A k \in DOMAIN new : new[k].fs = "RomFs" => Mountable(new[k])
  BY <1>3, <1>5 DEF MountsInv
<1>7. HasProgram => exefs' # <<>> \/ \E k \in DOMAIN new : new[k].fs = "PartitionFs" /\ new[k].exefs
  BY <1>3, <1>5 DEF MountsInv
<1>8. (HasProgram' <=> HasProgram) /\ \A v : Mountable(v)' <=> Mountable(v)
  BY PackageStays
<1> QED BY <1>1, <1>2, <1>3, <1>5, <1>6, <1>7, <1>8 DEF MountsInv

\* IsAExeFsPartition keeps the program's partition when it comes.
LEMMA MountPartitionKeeps ==
    ASSUME KeysInv, OpenedInv, MountsInv, MountPartition
    PROVE  KeysInv' /\ OpenedInv' /\ MountsInv'
<1>1. /\ pc = "mount" /\ pc' = pc /\ mounts # <<>> /\ mounts' = Tail(mounts) /\ Head(mounts).fs = "PartitionFs"
      /\ UNCHANGED <<package, tickets, titles, next, contents, cnmt>>
      /\ exefs' = IF Head(mounts).exefs THEN <<Head(mounts)>> ELSE exefs
  BY DEF MountPartition, import
<1>2. PICK v : v = Head(mounts)
  OBVIOUS
<1>3. <<v>> # <<>> /\ \A i \in DOMAIN <<v>> : <<v>>[i] = v
  OBVIOUS
<1>4. \A i \in DOMAIN exefs : exefs[i].fs = "PartitionFs" /\ exefs[i].exefs
  BY DEF MountsInv
<1>5. CASE v.exefs
  <2>1. exefs' = <<v>>
    BY <1>1, <1>2, <1>5
  <2>2. \A i \in DOMAIN exefs' : exefs'[i].fs = "PartitionFs" /\ exefs'[i].exefs
    BY <1>1, <1>2, <1>3, <1>5, <2>1
  <2> QED BY <1>1, <1>3, <2>1, <2>2, LookedAt
<1>6. CASE ~v.exefs
  BY <1>1, <1>2, <1>4, <1>6, LookedAt
<1> QED BY <1>5, <1>6

\* A RomFS that is mounted begins a walk.
LEMMA MountRomFsKeeps ==
    ASSUME KeysInv, OpenedInv, MountsInv, MountRomFs
    PROVE  KeysInv' /\ OpenedInv' /\ MountsInv' /\ WalkInv' /\ NearInv'
<1>1. PICK v : v = Head(mounts)
  OBVIOUS
<1>2. /\ pc = "mount" /\ pc' = pc /\ mounts # <<>> /\ mounts' = Tail(mounts) /\ v.fs = "RomFs"
      /\ UNCHANGED <<package, tickets, titles, next, contents, cnmt>> /\ exefs' = exefs
      /\ Mount(v.image, v.layout)
  BY <1>1 DEF MountRomFs, import
<1>3. \A i \in DOMAIN exefs : exefs[i].fs = "PartitionFs" /\ exefs[i].exefs
  BY DEF MountsInv
<1>4. KeysInv' /\ OpenedInv' /\ MountsInv'
  BY <1>1, <1>2, <1>3, LookedAt
<1>5. v.image \in Images /\ v.layout \in Layout /\ (Complete => Below4GiB(v.image, v.layout))
  <2>1. mounts \in Seq(ViewType)
    BY DEF MountsInv
  <2>2. v = mounts[1] /\ 1 \in DOMAIN mounts
    BY <1>1, <1>2, <2>1, NextMount
  <2>3. v \in ViewType
    BY <2>1, <2>2, ElementOfSeq
  <2> QED BY <1>2, <2>2, <2>3 DEF MountsInv, Mountable, ViewType
<1>6. image' = v.image /\ layout' = v.layout
  BY <1>2 DEF Mount
<1>7. NearInv'
  BY <1>2, <1>5, <1>6, PackageStays DEF NearInv, Near
<1>8. CASE Below4GiB(v.image, v.layout)
  <2>1. Walking'
    BY <1>2, <1>5, <1>8, MountKeeps
  <2> QED BY <1>4, <1>7, <2>1 DEF WalkInv, Walking
<1>9. CASE ~Below4GiB(v.image, v.layout)
  <2>1. image' \in Images /\ layout' \in Layout /\ ~Near'
    BY <1>5, <1>6, <1>9 DEF Near
  <2> QED BY <1>4, <1>7, <2>1 DEF WalkInv
<1> QED BY <1>8, <1>9

\* A step of the walk changes nothing of the title.
LEMMA AllStay ==
    ASSUME KeysInv, OpenedInv, MountsInv, UNCHANGED <<package, tickets, titles, next, contents, cnmt, mounts, exefs, pc>>
    PROVE  KeysInv' /\ OpenedInv' /\ MountsInv'
<1>1. Imported' = Imported /\ \A i : Alone(i)' <=> Alone(i)
  BY DEF Imported, Alone
<1>2. KeysInv'
  BY <1>1 DEF KeysInv
<1>3. OpenedInv'
  BY DEF OpenedInv
<1>4. MountsInv'
  BY PackageStays DEF MountsInv
<1> QED BY <1>2, <1>3, <1>4

\* No exception ends the walk through a RomFS of a whole title.
LEMMA MountFailsKeeps ==
    ASSUME KeysInv, OpenedInv, MountsInv, WalkInv, NearInv, MountFails
    PROVE  KeysInv' /\ OpenedInv' /\ MountsInv'
<1>1. /\ pc = "mount" /\ pc' = "failed" /\ AddFails
      /\ UNCHANGED <<package, tickets, titles, next, contents, cnmt, mounts, exefs>>
  BY DEF MountFails, import, mounted
<1>2. ~Complete
  <2>1. calls # <<>> /\ ~Walking
    BY <1>1, NothingStray DEF AddFails
  <2>2. ~Near
    BY <2>1 DEF WalkInv, Walking
  <2> QED BY <2>1, <2>2 DEF NearInv
<1>3. KeysInv'
  <2>1. Imported' = Imported /\ next' \in Nat \ {0}
    BY <1>1 DEF Imported, KeysInv
  <2> QED BY <1>1, <2>1, KeysStay
<1>4. OpenedInv'
  BY <1>1, PackageParts DEF OpenedInv
<1>5. MountsInv'
  BY <1>1, <1>2, PackageStays DEF MountsInv
<1> QED BY <1>3, <1>4, <1>5

\* No view is left when a title is loaded.
LEMMA LoadedKeeps ==
    ASSUME KeysInv, OpenedInv, MountsInv, Loaded
    PROVE  KeysInv' /\ OpenedInv' /\ MountsInv'
<1>1. /\ pc = "mount" /\ pc' = "loaded" /\ mounts = <<>>
      /\ UNCHANGED <<package, tickets, titles, next, contents, cnmt, mounts, exefs>>
  BY DEF Loaded, import, mounted
<1>2. KeysInv'
  <2>1. Imported' = Imported /\ next' \in Nat \ {0}
    BY <1>1 DEF Imported, KeysInv
  <2> QED BY <1>1, <2>1, KeysStay
<1>3. OpenedInv'
  BY <1>1 DEF OpenedInv
<1>4. (HasProgram' <=> HasProgram) /\ \A v : Mountable(v)' <=> Mountable(v)
  BY <1>1, PackageStays
<1>5. HasProgram => exefs # <<>>
  BY <1>1 DEF MountsInv
<1>6. MountsInv'
  BY <1>1, <1>4, <1>5 DEF MountsInv
<1> QED BY <1>2, <1>3, <1>6
-----------------------------------------------------------------------------
\* The invariant is kept by every step of the import, the opening and the mounting
\* of a title.
THEOREM ArchivesInvHolds == ArchivesSpec => []ArchivesInv
<1>1. ArchivesInit => ArchivesInv
  <2> SUFFICES ASSUME ArchivesInit
               PROVE  ArchivesInv
    OBVIOUS
  <2>1. KeysInv
    BY KeysBegin
  <2>2. OpenedInv
    <3>1. contents = <<>> /\ pc = "import" /\ cnmt = FALSE /\ DOMAIN contents = {}
      BY DEF ArchivesInit
    <3>2. contents \in Seq([type : {"Program", "Control", "Meta"}, views : Seq(ViewType)])
      BY <3>1
    <3> QED BY <3>1, <3>2 DEF OpenedInv
  <2>3. MountsInv
    <3>1. mounts = <<>> /\ exefs = <<>> /\ pc = "import" /\ DOMAIN mounts = {} /\ DOMAIN exefs = {}
      BY DEF ArchivesInit
    <3>2. mounts \in Seq(ViewType)
      BY <3>1
    <3> QED BY <3>1, <3>2 DEF MountsInv
  <2>4. WalkInv /\ NearInv
    BY DEF ArchivesInit, NoWalk, WalkInv, NearInv
  <2> QED BY <2>1, <2>2, <2>3, <2>4 DEF ArchivesInv
<1>2. ArchivesInv /\ [ArchivesNext]_archivesVars => ArchivesInv'
  <2> SUFFICES ASSUME KeysInv, OpenedInv, MountsInv, WalkInv, NearInv, [ArchivesNext]_archivesVars
               PROVE  KeysInv' /\ OpenedInv' /\ MountsInv' /\ WalkInv' /\ NearInv'
    BY DEF ArchivesInv
  <2>1. ASSUME UNCHANGED walk, package' = package
        PROVE  WalkInv' /\ NearInv'
    BY <2>1, WalkStep, NearStays DEF walk
  <2>2. CASE ImportTicket
    BY <2>1, <2>2, ImportTicketKeeps DEF ImportTicket
  <2>3. CASE TicketsDone
    BY <2>1, <2>3, TicketsDoneKeeps DEF TicketsDone
  <2>4. CASE OpenFails
    BY <2>1, <2>4, OpenFailsKeeps DEF OpenFails, import
  <2>5. CASE OpenNca
    BY <2>1, <2>5, OpenNcaKeeps DEF OpenNca, import
  <2>6. CASE OpenCnmt
    BY <2>1, <2>6, OpenCnmtKeeps DEF OpenCnmt, import
  <2>7. CASE MetadataFails
    BY <2>1, <2>7, MetadataFailsKeeps DEF MetadataFails, import
  <2>8. CASE GetAllContent
    BY <2>1, <2>8, GetAllContentKeeps DEF GetAllContent, import
  <2>9. CASE MountRomFs
    BY <2>9, MountRomFsKeeps
  <2>10. CASE MountPartition
    BY <2>1, <2>10, MountPartitionKeeps DEF MountPartition, import
  <2>11. CASE VisitRomFs
    <3>1. UNCHANGED <<package, tickets, titles, next, contents, cnmt, mounts, exefs, pc>> /\ Visit
      BY <2>11 DEF VisitRomFs, import, mounted
    <3>2. image' = image /\ layout' = layout /\ calls # <<>>
      BY <3>1 DEF Visit, EnterDirectory, VisitFile, PassFile, Descend, LeaveDirectory
    <3> QED BY <3>1, <3>2, AllStay, WalkStep, NearStays
  <2>12. CASE MountFails
    <3>1. package' = package /\ image' = image /\ layout' = layout /\ calls # <<>> /\ AddFails
      BY <2>12 DEF MountFails, import, AddFails
    <3> QED BY <2>12, <3>1, MountFailsKeeps, WalkStep, NearStays
  <2>13. CASE Loaded
    BY <2>1, <2>13, LoadedKeeps DEF Loaded, import
  <2>14. CASE UNCHANGED archivesVars
    BY <2>1, <2>14, AllStay DEF archivesVars
  <2> QED BY <2>2, <2>3, <2>4, <2>5, <2>6, <2>7, <2>8, <2>9, <2>10, <2>11, <2>12, <2>13, <2>14 DEF ArchivesNext
<1> QED BY <1>1, <1>2, PTL DEF ArchivesSpec

\* The type invariant follows from the other parts.
LEMMA OpenedTyped ==
    ASSUME KeysInv, OpenedInv, MountsInv
    PROVE  ArchivesTypeOK
<1>1. PICK t, a : t = Len(package.tickets) /\ a = Len(package.archives)
  OBVIOUS
<1>2. t \in Nat /\ a \in Nat /\ DOMAIN package.tickets = 1 .. t /\ next \in Nat \ {0}
  BY <1>1, PackageParts DEF KeysInv
<1>3. next \in 1 .. a + t + 1
  <2>1. next <= t + 1 \/ next <= a + 1
    BY <1>1 DEF KeysInv, OpenedInv
  <2> QED BY <1>2, <2>1
<1>4. 1 .. Imported \subseteq DOMAIN package.tickets
  <2>1. pc = "import" => next - 1 <= t /\ next - 1 \in Nat
    BY <1>1, <1>2 DEF KeysInv
  <2> QED BY <1>1, <1>2, <2>1 DEF Imported
<1>5. tickets \subseteq {package.tickets[i].id : i \in DOMAIN package.tickets}
  BY <1>4 DEF KeysInv
<1>6. Len(contents) < next \/ contents = <<>>
  BY DEF OpenedInv
<1> QED BY <1>1, <1>3, <1>5, <1>6 DEF ArchivesTypeOK, KeysInv, OpenedInv, MountsInv

\* Whatever the keys, the tickets and the order of the archives, each view of what was
\* opened is read as the plain bytes of its section, at every offset and of every size.
THEOREM OpenedContentReads == ArchivesSpec => []ContentsOK
<1>1. ArchivesInv => ContentsOK
  <2> SUFFICES ASSUME ArchivesInv
               PROVE  ContentsOK
    OBVIOUS
  <2>1. KeysInv /\ OpenedInv /\ MountsInv
    BY DEF ArchivesInv
  <2>2. ASSUME NEW n \in DOMAIN contents
        PROVE  CanRead(contents[n].views)
    <3>1. PICK i \in DOMAIN package.archives : Opens(contents[n], package.archives[i])
      BY <2>1 DEF OpenedInv
    <3>2. PICK sections, views : sections = package.archives[i].sections /\ views = contents[n].views
      OBVIOUS
    <3>3. sections \in Seq(SectionType) /\ SectionsFit(sections)
      <4>1. package.archives[i] \in ArchiveType
        BY <2>1, PackageParts, ElementOfSeq
      <4> QED BY <2>1, <3>2, <4>1, PackageParts DEF ArchiveType
    <3>4. PICK key \in {"its", "other"} : ViewsOf(views, sections, key)
      BY <3>1, <3>2 DEF Opens
    <3>5. Given(views, sections, key) /\ ~FirstBytesWrong(views)
      BY <3>1, <3>2, <3>3, <3>4 DEF Given, Opens
    <3> QED BY <3>2, <3>3, <3>5, Readable
  <2>3. SectionsReadable
    BY <2>2 DEF SectionsReadable, CanRead
  <2> QED BY <2>1, <2>3, OpenedTyped DEF ContentsOK
<1> QED BY <1>1, ArchivesInvHolds, PTL

\* A title whose archives are whole and whose keys are known never fails to open, and
\* when it is loaded a program with an ExeFS has it.
THEOREM FitTitlesOpen == ArchivesSpec => []FitTitleOpens
<1>1. ArchivesInv => FitTitleOpens
  <2> SUFFICES ASSUME KeysInv, OpenedInv, MountsInv, \A i \in DOMAIN package.archives : Fit(package.archives[i])
               PROVE  /\ pc # "failed"
                      /\ pc = "loaded" /\ package.meta = "Application" =>
                            \A i, j \in DOMAIN package.archives :
                               LET meta == package.archives[i]
                                   program == package.archives[j]
                               IN /\ meta.form = "Cnmt" /\ meta.type = "Meta"
                                  /\ program.form = "Nca" /\ program.type = "Program"
                                  /\ \E s \in DOMAIN program.sections :
                                        /\ program.sections[s].fs = "PartitionFs" /\ program.sections[s].exefs
                                        /\ program.sections[s].crypto # "Other"
                                  => exefs # <<>>
    BY DEF ArchivesInv, FitTitleOpens
  <2>1. pc # "failed"
    BY DEF MountsInv, Complete
  <2>2. pc = "loaded" /\ HasProgram => exefs # <<>>
    <3>1. pc = "loaded" => \A k \in DOMAIN mounts : FALSE
      BY DEF MountsInv
    <3> QED BY <3>1 DEF MountsInv
  <2> QED BY <2>1, <2>2 DEF HasProgram
<1> QED BY <1>1, ArchivesInvHolds, PTL

\* The walk through every RomFS ends with the tree of the image.
THEOREM MountedTreesAreWhole == ArchivesSpec => []TreeIsWhole
<1>1. WalkInv => TreeIsWhole
  <2>1. CASE image = Nothing
    BY <2>1 DEF TreeIsWhole
  <2>2. CASE image # Nothing
    BY <2>2, WalkMeetsAll DEF WalkInv, Walking, TreeIsWhole
  <2> QED BY <2>1, <2>2
<1>2. ArchivesInv => TreeIsWhole
  BY <1>1 DEF ArchivesInv
<1> QED BY <1>2, ArchivesInvHolds, PTL
=============================================================================
