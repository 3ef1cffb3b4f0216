----------------------------- MODULE MetaProgram ------------------------------
(* The metadata of a program, main.npdm (sys_fs/meta_program.cpp): a header, ACID *)
(* and ACI0 are read through a StreamedFile, and the kernel capabilities of both   *)
(* become a map of system calls and a range of priorities.                         *)
EXTENDS Naturals, Sequences, FiniteSets, FiniteSetsExt

\* A capability is a word, the set of its bits that are 1.  A file has the words
\* that are not zero at their offsets; `kac` are the places that ACID and ACI0 name.
Bits == 0 .. 31
AllOnes == Bits
KacSection == [offset : Nat, size : Nat]
NpdmFile(npdm) ==
    /\ {npdm.size, npdm.aci0} \subseteq Nat /\ npdm.magic \subseteq {"META", "ACID", "ACI0"}
    /\ {npdm.acid, npdm.aci} \subseteq KacSection /\ {npdm.wide, npdm.resources} \subseteq BOOLEAN
    /\ \A x \in DOMAIN npdm.words : x \in Nat /\ npdm.words[x] \subseteq Bits

HeaderSize == 128
AcidSize == 576
Aci0Size == 64
Calls == 192      \* 0xC0
CallsOfWord == 24 \* 0x18

\* StreamedFile: an offset of 0 stays at the cursor, a read beyond the end throws.
Cursor(at, offset) == IF offset = 0 THEN at ELSE offset
Within(npdm, at, size) == at + size <= npdm.size

\* GetBytes<u32> compares a number of words with a size in bytes.
WordsOf(npdm, at, section) ==
    LET first == Cursor(at, section.offset)
    IN IF section.size \div 4 > npdm.size THEN <<>>
       ELSE [i \in 1 .. section.size \div 4 |->
                LET x == first + 4 * (i - 1) IN IF x \in DOMAIN npdm.words THEN npdm.words[x] ELSE {}]

\* How CaptureAllKacValues ends.
KacFate(npdm, at, section) ==
    IF section.size % 4 # 0 THEN "assertion"
    ELSE IF WordsOf(npdm, at, section) # <<>> /\ ~Within(npdm, Cursor(at, section.offset), section.size)
    THEN "exception" ELSE "running"

\* ACI0 is read at its offset, wherever ACID's capabilities left the cursor.
AcidEnd == HeaderSize + AcidSize
AciEnd(npdm) == npdm.aci0 + Aci0Size

Capabilities(npdm) == WordsOf(npdm, AcidEnd, npdm.acid) \o WordsOf(npdm, AciEnd(npdm), npdm.aci)
-----------------------------------------------------------------------------
\* A number out of the bits from a to b.
Field(word, a, b) == SumSet({2 ^ (i - a) : i \in {j \in word : a <= j /\ j <= b}})

\* countr_one.
TrailingOnes(word) == IF word = AllOnes THEN 32 ELSE Min(Bits \ word)

\* Pattern 4: 24 calls and the number of their group.
GroupOf(word) == Field(word, 29, 31)
CallBit(n) == 5 + (n % CallsOfWord)
CallsIn(word) == [n \in {m \in 0 .. Calls - 1 : m \div CallsOfWord = GroupOf(word)} |-> CallBit(n) \in word]

\* Pattern 3: CreateThreadInfoRange.  A Range asserts that it is not empty.
PrioritiesOf(word) == [lowest |-> Field(word, 10, 15), highest |-> Field(word, 4, 9)]
RangeAsserts(word) ==
    \/ PrioritiesOf(word).lowest >= PrioritiesOf(word).highest
    \/ Field(word, 16, 23) >= Field(word, 24, 31)

\* Mutant: a later word changes a call.
Put_Overwrites(kac, word) ==
    LET calls == CallsIn(word)
    IN [kac EXCEPT !.allowed = [n \in DOMAIN kac.allowed \cup DOMAIN calls |->
                                   IF n \in DOMAIN calls THEN calls[n] ELSE kac.allowed[n]]]

\* emplace: the first word for a call stays.
Put(kac, word) ==
    LET calls == CallsIn(word)
    IN [kac EXCEPT !.allowed = [n \in DOMAIN kac.allowed \cup DOMAIN calls |->
                                   IF n \in DOMAIN kac.allowed THEN kac.allowed[n] ELSE calls[n]]]

Decode(kac, word) ==
    IF kac.ended \/ kac.fate # "running" THEN kac
    ELSE IF word = AllOnes THEN [kac EXCEPT !.ended = TRUE]
    ELSE CASE TrailingOnes(word) = 4 -> Put(kac, word)
           [] TrailingOnes(word) = 3 -> IF RangeAsserts(word) THEN [kac EXCEPT !.fate = "assertion"]
                                        ELSE [kac EXCEPT !.priorities = PrioritiesOf(word)]
           [] OTHER -> kac

\* SetKac; priorities of a MetaProgram without the word are 0 to 0.
NoKac == [allowed |-> <<>>, priorities |-> [lowest |-> 0, highest |-> 0], ended |-> FALSE, fate |-> "running"]

SetKac(words) ==
    LET kac[n \in 0 .. Len(words)] == IF n = 0 THEN NoKac ELSE Decode(kac[n - 1], words[n])
    IN kac[Len(words)]

\* The constructor: what is short throws in the StreamedFile, what is not as
\* expected is an assertion, in the order of the code.
MetaFate(npdm) ==
    LET steps == << IF Within(npdm, 0, HeaderSize) THEN "running" ELSE "exception",
                    IF "META" \in npdm.magic THEN "running" ELSE "assertion",
                    IF Within(npdm, HeaderSize, AcidSize) THEN "running" ELSE "exception",
                    IF "ACID" \in npdm.magic THEN "running" ELSE "assertion",
                    KacFate(npdm, AcidEnd, npdm.acid),
                    IF Within(npdm, npdm.aci0, Aci0Size) THEN "running" ELSE "exception",
                    IF "ACI0" \in npdm.magic THEN "running" ELSE "assertion",
                    KacFate(npdm, AciEnd(npdm), npdm.aci),
                    SetKac(Capabilities(npdm)).fate,
                    IF npdm.resources THEN "running" ELSE "assertion" >>
        ends == {i \in DOMAIN steps : steps[i] # "running"}
    IN IF ends = {} THEN "running" ELSE steps[Min(ends)]

\* What the process keeps of it.
MetaOf(npdm) ==
    LET kac == SetKac(Capabilities(npdm)) IN [allowed |-> kac.allowed, priorities |-> kac.priorities]
-----------------------------------------------------------------------------
\* The reference: the capabilities in force are those before the first word of
\* ones, in ACID's list and then in ACI0's; the first word of a call's group says
\* whether it is allowed, the last word of priorities which they are.
InForce(words) == {i \in DOMAIN words : \A j \in 1 .. i : words[j] # AllOnes}
OfPattern(words, pattern) == {i \in InForce(words) : TrailingOnes(words[i]) = pattern}

MetaIsDecoded(npdm, meta) ==
    LET words  == WordsOf(npdm, AcidEnd, npdm.acid) \o WordsOf(npdm, AciEnd(npdm), npdm.aci)
        For(n) == {i \in OfPattern(words, 4) : GroupOf(words[i]) = n \div CallsOfWord}
    IN /\ \A n \in 0 .. Calls - 1 :
             /\ n \in DOMAIN meta.allowed <=> For(n) # {}
             /\ For(n) # {} => (meta.allowed[n] <=> CallBit(n) \in words[Min(For(n))])
       /\ OfPattern(words, 3) # {} =>
             meta.priorities = PrioritiesOf(words[Max(OfPattern(words, 3))])
=============================================================================
