------------------------------- MODULE NsoImage -------------------------------
(* The bytes of a program's modules (sys_fs/nx/nso_core.cpp): a constructor reads *)
(* three sections behind one another, the first pass of the loader grows the      *)
(* program to whole pages, the second copies the sections to the guest            *)
(* (KProcess::SetProgramImage).  GuestMemory has the blocks this takes.           *)
EXTENDS Naturals, FiniteSets, Sequences, FiniteSetsExt

CONSTANT NsoPage   \* SwitchPageSize, in units of data
ASSUME NsoPageAssumption == NsoPage \in Nat \ {0}

\* The header and what its sections hold, text, ro and data: `file` bytes are stored
\* at `at`, LZ4 `unpacks` them, and the checksum of the result compares to the
\* header's list as `hash`.  `packed` and `hashed` are the flags.
NsoSections == 1 .. 3
SectionRecord ==
    [at : Nat, offset : Nat, size : Nat \ {0}, file : Nat, unpacks : BOOLEAN, hash : {"equal", "zero", "other"}]
NsoFile == [whole : BOOLEAN, magic : BOOLEAN, sections : [NsoSections -> SectionRecord],
            packed : SUBSET NsoSections, hashed : SUBSET NsoSections, bss : Nat]

PageUp(n) == ((n + NsoPage - 1) \div NsoPage) * NsoPage
SizeOf(nso, i) == nso.sections[i].size

\* What no loader checks and the instance keeps: a section is not larger in the
\* file, and data follows the pages of the others.
NsoAssumption(nso) ==
    /\ nso \in NsoFile
    /\ \A i \in NsoSections : nso.sections[i].file <= SizeOf(nso, i)
    /\ nso.sections[3].offset >= PageUp(SizeOf(nso, 1)) + PageUp(SizeOf(nso, 2))
-----------------------------------------------------------------------------
\* GetSectionType: the first section whose header is the same.
KindOf(nso, i) ==
    LET Header(j) == <<nso.sections[j].at, nso.sections[j].offset, SizeOf(nso, j)>>
    IN Min({j \in 1 .. i : Header(j) = Header(i)})

\* ReadSection: one that does not unpack is not added to the map.
SectionRead(nso, i) ==
    LET s == nso.sections[i]
    IN nso.whole /\ (s.file < s.size \/ KindOf(nso, i) \in nso.packed => s.unpacks)

KindsRead(nso) == {KindOf(nso, i) : i \in {j \in NsoSections : SectionRead(nso, j)}}

\* A section that is not to be hashed counts as zeros.
HashFits(nso, i) == nso.sections[i].hash = IF i \in nso.hashed THEN "equal" ELSE "zero"

\* The assertions of the constructor and of Load.
NsoAsserts(nso) ==
    \/ nso.whole /\ ~nso.magic
    \/ KindsRead(nso) # NsoSections

\* Load returns when a hash is wrong.
NsoAccepted(nso) == \A i \in NsoSections : HashFits(nso, i)

\* program.size(), before and after Load grew it.
FileSize(nso) == nso.sections[3].offset + SizeOf(nso, 3)
CompleteImageSize(nso) == PageUp(FileSize(nso) + nso.bss)
Grows(nso) == FileSize(nso) < CompleteImageSize(nso)

\* Where the sections lie in the program: behind one another, but Load puts the
\* data's span where ro's size says when it grows the program.
StartIn(nso, i) ==
    CASE i = 1 -> 0
      [] i = 2 -> SizeOf(nso, 1)
      [] i = 3 -> IF Grows(nso) THEN SizeOf(nso, 2) ELSE SizeOf(nso, 1) + SizeOf(nso, 2)

\* The byte of the program of module n at x.
ProgramByte(nso, n, x) ==
    LET text == SizeOf(nso, 1)
        ro   == text + SizeOf(nso, 2)
        data == ro + SizeOf(nso, 3)
    IN IF x < text THEN <<n, 1, x>>
       ELSE IF x < ro THEN <<n, 2, x - text>>
       ELSE IF x < data THEN <<n, 3, x - ro>>
       ELSE <<0>>
-----------------------------------------------------------------------------
\* SetProgramImage: the sections' addresses, and the data's size with what the
\* pages of the three leave of the program.
GuestAt(nso, vaddr, i) ==
    LET ro == PageUp(vaddr + SizeOf(nso, 1))
    IN CASE i = 1 -> vaddr [] i = 2 -> ro [] i = 3 -> PageUp(ro + SizeOf(nso, 2))

Initialized(nso) ==
    PageUp(SizeOf(nso, 3) + CompleteImageSize(nso)
           - PageUp(SizeOf(nso, 1)) - PageUp(SizeOf(nso, 2)) - PageUp(SizeOf(nso, 3)))

NsoEnd(nso, vaddr) == IF NsoAccepted(nso) THEN GuestAt(nso, vaddr, 3) + Initialized(nso) ELSE vaddr

\* MapProgramCode's copies.
Span(nso, vaddr, i) ==
    GuestAt(nso, vaddr, i) .. GuestAt(nso, vaddr, i) + (IF i = 3 THEN Initialized(nso) ELSE SizeOf(nso, i)) - 1

\* What they leave of module n: the last copy over an address stays.
ModuleImage(nso, n, vaddr) ==
    [g \in UNION {Span(nso, vaddr, i) : i \in IF NsoAccepted(nso) THEN NsoSections ELSE {}} |->
        LET i == Max({j \in NsoSections : g \in Span(nso, vaddr, j)})
        IN ProgramByte(nso, n, StartIn(nso, i) + (g - GuestAt(nso, vaddr, i)))]

\* LoadModule of each file: a module that Load did not take is replaced in the
\* map of modules by the one that follows at its address.
ModulesAt(nsos, codeAddr) ==
    LET address[n \in 1 .. Len(nsos) + 1] ==
            IF n = 1 THEN codeAddr ELSE NsoEnd(nsos[n - 1], address[n - 1])
    IN [v \in {address[n] : n \in DOMAIN nsos} |-> Max({n \in DOMAIN nsos : address[n] = v})]

\* LoadProgramImage: the second pass asserts that there are more than two.
ImageAsserts(nsos, codeAddr) ==
    \/ \E n \in DOMAIN nsos : NsoAsserts(nsos[n])
    \/ nsos # <<>> /\ Cardinality(DOMAIN ModulesAt(nsos, codeAddr)) <= 2

\* The modules are copied in the order of their addresses.
GuestImage(nsos, codeAddr) ==
    LET plan == ModulesAt(nsos, codeAddr)
        At(v) == ModuleImage(nsos[plan[v]], plan[v], v)
    IN [g \in UNION {DOMAIN At(v) : v \in DOMAIN plan} |->
           At(Max({v \in DOMAIN plan : g \in DOMAIN At(v)}))[g]]
-----------------------------------------------------------------------------
\* What the guest should see: each module's text and ro, and its data where that
\* is possible (nso_core.cpp:87), at the module's place.
ImageIsWhole(nsos, codeAddr, image) ==
    LET plan == ModulesAt(nsos, codeAddr)
    IN \A v \in DOMAIN plan : LET nso == nsos[plan[v]] IN NsoAccepted(nso) =>
          \A i \in NsoSections : (i = 3 => ~Grows(nso)) =>
              \A k \in 0 .. SizeOf(nso, i) - 1 :
                  LET g == GuestAt(nso, v, i) + k
                  IN g \in DOMAIN image /\ image[g] = <<plan[v], i, k>>
=============================================================================
