---------------------------- MODULE TitleIntegrity ----------------------------
(* EShopTitle::VerifyTitleIntegrity and NcaCore::VerifyNca: the archives of a  *)
(* title are read through their streams and hashed, one after the other, by    *)
(* one Checksum, and compared with the digest that is their name.              *)
EXTENDS FileReads, FiniteSets, SequencesExt

CONSTANTS
    Sizes,          \* the sizes an archive may have
    MaxArchives,    \* how many archives a title has, at most
    BufferSize,     \* the buffer that VerifyTitleIntegrity lends (4 MiB)
    LongestArchive, \* longer archives are not checked (512 MiB)
    TableSize,      \* the partition's header, entries and string table
    MaxErrors       \* how many reads may fail, at most

ASSUME TitleAssumption ==
    /\ Sizes \subseteq Nat \ {0, 1} /\ IsFiniteSet(Sizes)
    /\ {MaxArchives, BufferSize, TableSize} \subseteq Nat \ {0}
    /\ LongestArchive \in Nat /\ MaxErrors \in Nat

VARIABLES
    title,      \* the file: its archives, how they are laid out, what was cut off
    nca,        \* the archive being checked
    cursor,     \* rdOff of its stream
    checksum,   \* Checksum: its status and the bytes it has taken
    result,     \* what Finish has last written
    failed,     \* the archives whose reading ended in an exception
    verdict     \* none yet, the title is accepted, or archive nca is damaged

vars == <<title, nca, cursor, checksum, result, failed, verdict>>

\* Byte 0 is what a cleared buffer holds, 1 any other byte, 2 a damaged one.
Byte == {0, 1, 2}

\* An archive: its last `zeros` bytes are zero; `hashed` tells whether its name
\* is the digest of what it should contain, `intact` whether it still does.
Archive == {a \in [size : Sizes, zeros : 0 .. 2, hashed : BOOLEAN, intact : BOOLEAN] :
              a.zeros + 2 <= a.size}

Original(a) == [i \in 1 .. a.size |-> IF i > a.size - a.zeros THEN 0 ELSE 1]

Stored(a) == IF a.intact THEN Original(a)
             ELSE [Original(a) EXCEPT ![a.size - a.zeros] = 2]

\* The partition's data starts after its tables and the archives follow one
\* another; they are checked in the order in which a hash map lists them.
Whole(archives) ==
    [i \in 1 .. TableSize |-> 1] \o FlattenSeq([p \in DOMAIN archives |-> Stored(archives[p])])

File == SubSeq(Whole(title.archives), 1, Len(Whole(title.archives)) - title.cut)

\* PartitionFilesystem::OpenFile.
Part(p) ==
    [starts |-> Len(Whole(SubSeq(title.archives, 1, p - 1))),
     ends   |-> title.archives[p].size]

\* What the constructors of the partition and of the archives let through: the
\* file is longer than all entries together, and the headers of the archives
\* (at least a byte each) are there.
Opened(t) ==
    LET data == Len(Whole(t.archives)) - TableSize
    IN /\ TableSize + data - t.cut > data
       /\ t.cut < t.archives[Len(t.archives)].size

Title ==
    UNION {{t \in [archives : [1 .. n -> Archive], order : SetToSeqs(1 .. n), cut : 0 .. TableSize] :
               Opened(t)} : n \in 1 .. MaxArchives}

\* The size of a file is a number of the integers it is read with (u64).
ASSUME SizeAssumption == \A t \in Title : Len(Whole(t.archives)) < Wide

Init ==
    /\ title \in Title
    /\ nca = 1 /\ cursor = 0
    /\ checksum = [status |-> "Finished", bytes |-> <<>>]
    /\ result = <<>> /\ failed = {} /\ verdict = "none"
-----------------------------------------------------------------------------
Checking == verdict = "none" /\ nca <= Len(title.order)

Current == title.order[nca]
CurrentArchive == title.archives[Current]

\* VerifyNca reads an archive that is named by a digest and is not too long.
Eligible(a) == a.hashed /\ a.size <= LongestArchive

GoOn == nca' = nca + 1 /\ cursor' = 0

\* Nothing is read of the other archives: no name to compare with, or the
\* exception for a file that is too long.
Skip ==
    /\ Checking /\ ~Eligible(CurrentArchive)
    /\ GoOn
    /\ UNCHANGED <<title, checksum, result, failed, verdict>>

\* Mutant: the digest of an archive goes on where the last one ended.
Update_Keeps(bytes) ==
    [status |-> "Updating", bytes |-> checksum.bytes \o bytes]

\* Checksum::Update: the first one after a Finish starts anew.
Update(bytes) ==
    [status |-> "Updating",
     bytes  |-> (IF checksum.status = "Finished" THEN <<>> ELSE checksum.bytes) \o bytes]

\* What is asked for by one turn of the loop.
Block == Least(RemainBytes(Part(Current), cursor), BufferSize)

\* One turn of VerifyNca's loop: it would throw outside of the bounds.
ReadBlock ==
    /\ Checking /\ Eligible(CurrentArchive) /\ Block > 0
    /\ LET bytes == StreamRead(File, Part(Current), Block, cursor)
       IN /\ InBounds(Part(Current), Block, cursor)
          /\ checksum' = Update(bytes)
          /\ cursor' = cursor + Len(bytes)
    /\ UNCHANGED <<title, nca, result, failed, verdict>>

\* The read throws: VerifyNca catches it and the archive is passed over; what
\* was hashed of it stays in the checksum.
ReadThrows ==
    /\ Checking /\ Eligible(CurrentArchive) /\ Block > 0
    /\ Cardinality(failed) < MaxErrors
    /\ failed' = failed \cup {Current}
    /\ GoOn
    /\ UNCHANGED <<title, checksum, result, verdict>>

\* Checksum::Finish writes nothing unless something was hashed.
Digest == IF checksum.status = "Updating" THEN checksum.bytes ELSE result

\* Mutant: a wrong digest ends the check of the archive, not of the title.
Compare_GoesOn ==
    /\ Checking /\ Eligible(CurrentArchive) /\ Block = 0
    /\ result' = Digest
    /\ checksum' = [checksum EXCEPT !.status = "Finished"]
    /\ GoOn
    /\ UNCHANGED <<title, failed, verdict>>

\* The end of an archive: its digest is compared with its name.
Compare ==
    /\ Checking /\ Eligible(CurrentArchive) /\ Block = 0
    /\ result' = Digest
    /\ checksum' = [checksum EXCEPT !.status = "Finished"]
    /\ IF Digest = Original(CurrentArchive) THEN GoOn /\ UNCHANGED verdict
       ELSE verdict' = "damaged" /\ UNCHANGED <<nca, cursor>>
    /\ UNCHANGED <<title, failed>>

\* All archives are done.
Accept ==
    /\ verdict = "none" /\ nca > Len(title.order)
    /\ verdict' = "accepted"
    /\ UNCHANGED <<title, nca, cursor, checksum, result, failed>>

Next == Skip \/ ReadBlock \/ ReadThrows \/ Compare \/ Accept

Spec == Init /\ [][Next]_vars

\* The loading thread runs.
FairSpec == Spec /\ WF_vars(Next)
-----------------------------------------------------------------------------
\* The title is one that can be opened; the rest has its type.
TypeOK ==
    /\ nca \in 1 .. Len(title.order) + 1
    /\ cursor \in UNION {0 .. s : s \in Sizes}
    /\ checksum \in [status : {"Finished", "Updating"}, bytes : Seq(Byte)]
    /\ result \in Seq(Byte)
    /\ failed \subseteq DOMAIN title.archives
    /\ verdict \in {"none", "accepted", "damaged"}

\* While an archive of a complete file is read and no other failed before, the
\* checksum holds each byte up to the cursor once and in order, whatever the
\* sizes of pages, buffer and archive (nca_core.cpp:238-245).
ReadsInOrder ==
    Checking /\ failed = {} /\ title.cut = 0 =>
        IF checksum.status = "Updating"
        THEN checksum.bytes = SubSeq(Stored(CurrentArchive), 1, cursor)
        ELSE cursor = 0

\* What a comparison relies on: the checksum is of this archive and of all of it.
ChecksumOK == TypeOK /\ ReadsInOrder

\* The archive at the end of the file, from which bytes were cut.
Truncated(p) == title.cut > 0 /\ p = Len(title.archives)

\* An accepted title is whole: each archive that names a digest and could be read
\* to its end has the bytes it was named after, but zeros may have been cut off
\* (eshop_title.cpp:116-127).
AcceptedIsWhole ==
    verdict = "accepted" =>
        \A p \in DOMAIN title.archives \ failed :
            Eligible(title.archives[p]) =>
                /\ title.archives[p].intact
                /\ Truncated(p) => title.cut <= title.archives[p].zeros

\* An archive is called damaged only if it is, unless the reading of another one
\* ended in an exception (eshop_title.cpp:125).
BlamedIsDamaged ==
    verdict = "damaged" /\ failed = {} => ~CurrentArchive.intact \/ Truncated(Current)

\* Neither verdict is wrong while every archive can be read.
VerdictIsRight == AcceptedIsWhole /\ BlamedIsDamaged

\* A complete file gets a verdict, errors included (eshop_title.cpp:104-131).
CompleteTitleIsJudged == (title.cut = 0) => <>(verdict # "none")

\* Every file gets a verdict, a truncated one, too: it is corrupted
\* (eshop_title.cpp:23-24).
TitleIsJudged == <>(verdict # "none")
=============================================================================
