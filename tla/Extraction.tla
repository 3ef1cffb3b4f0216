------------------------------ MODULE Extraction ------------------------------
(* EShopTitle::ExtractFilesInto: the file systems of a title are copied into   *)
(* directories, file by file and block by block (RoDirectoryBacking::          *)
(* ExtractAllFiles).  The disk may run full, and the program may be killed and *)
(* started again over what it has left.  Reading gives what was asked for:     *)
(* TitleIntegrity is about that.                                               *)
EXTENDS Naturals, Sequences, FiniteSets, SequencesExt

CONSTANTS
    Parts,      \* the file systems that are extracted, in this order
    Files,      \* the files of each
    Size,       \* the size of a file
    Overlaps,   \* <<f, g>>: the path of f is a piece of the path g is extracted to
    BufferSize, \* the block that is copied at once (8 MiB)
    Wide,       \* offsets are unsigned and wrap here
    MaxStarts,  \* how often the program is started, at most
    MaxFaults   \* how many writes fail or fall short, at most

Name == UNION {Files[p] : p \in DOMAIN Files}

\* Where files are extracted to.
Place == UNION {{p} \X Files[p] : p \in DOMAIN Files}

\* Offsets wrap far above the size of any file.
ASSUME ExtractionAssumption ==
    /\ Parts \in Seq(DOMAIN Files) /\ DOMAIN Files \subseteq Range(Parts)
    /\ Size \in [Name -> Nat]
    /\ \A p \in DOMAIN Files : IsFiniteSet(Files[p])
    /\ Overlaps \subseteq Name \X Name
    /\ {BufferSize, Wide, MaxStarts} \subseteq Nat \ {0} /\ MaxFaults \in Nat
    /\ \A f \in Name : 2 * Size[f] < Wide

VARIABLES
    made,       \* the directories for the parts exist
    order,      \* how each file system lists its files
    output,     \* what is on the disk for each file
    index,      \* the files that gamefs.txt lists
    pc,         \* what the extraction does
    part, file, \* the part and the file it is at
    cursors,    \* of the two streams
    starts, faults

vars == <<made, order, output, index, pc, part, file, cursors, starts, faults>>

\* A byte is the number of its place in the file it comes from.
Source(f) == [i \in 1 .. Size[f] |-> i]

Init ==
    /\ made \in BOOLEAN
    /\ order \in [DOMAIN Files -> UNION {SetToSeqs(Files[p]) : p \in DOMAIN Files}]
    /\ \A p \in DOMAIN Files : order[p] \in SetToSeqs(Files[p])
    /\ output = [place \in Place |-> [there |-> FALSE, bytes |-> <<>>]]
    /\ index = {}
    /\ pc = "start" /\ part = 1 /\ file = 1 /\ cursors = [read |-> 0, write |-> 0]
    /\ starts = 1 /\ faults = 0
-----------------------------------------------------------------------------
\* CreateSubDirectory returns nothing for a directory that is not there yet, and
\* the extraction throws.
Start ==
    /\ pc = "start"
    /\ pc' = IF made THEN "next" ELSE "thrown"
    /\ UNCHANGED <<made, order, output, index, part, file, cursors, starts, faults>>

InPart == part <= Len(Parts)
Listed == order[Parts[part]]
Current == Listed[file]
Here == <<Parts[part], Current>>
There(p) == {g \in Files[p] : output[<<p, g>>].there}

\* Mutants: the directory is not looked at; any file of it will do.
Exists_Never(f) == FALSE
Exists_Any(f) == There(Parts[part]) # {}

\* RoDirectoryBacking::Exists, relative: some file of the directory, or of one
\* below, has the path in its own.
Exists(f) == \E g \in There(Parts[part]) : f = g \/ <<f, g>> \in Overlaps

\* ExtractAllFiles returns when it has copied all, or meets a file it finds.
LeavePart ==
    /\ pc = "next" /\ InPart
    /\ file <= Len(Listed) => Exists(Current)
    /\ part' = part + 1 /\ file' = 1
    /\ UNCHANGED <<made, order, output, index, pc, cursors, starts, faults>>

\* Mutant: a file is there only when it has been closed.
CreateFile_Unseen ==
    /\ pc = "next" /\ InPart /\ file <= Len(Listed) /\ ~Exists(Current)
    /\ cursors' = [read |-> 0, write |-> 0]
    /\ pc' = "copy"
    /\ UNCHANGED <<made, order, output, index, part, file, starts, faults>>

\* CreateFile: the directories above it are made, too.
CreateFile ==
    /\ pc = "next" /\ InPart /\ file <= Len(Listed) /\ ~Exists(Current)
    /\ output' = [output EXCEPT ![Here].there = TRUE]
    /\ cursors' = [read |-> 0, write |-> 0]
    /\ pc' = "copy"
    /\ UNCHANGED <<made, order, index, part, file, starts, faults>>

Remain == Size[Current] - cursors.read
Stride == IF Remain < BufferSize THEN Remain ELSE BufferSize

\* pwrite64 of bytes at an offset inside the file or at its end.
Overwrite(old, bytes, at) ==
    SubSeq(old, 1, at) \o bytes \o SubSeq(old, at + Len(bytes) + 1, Len(old))

\* Mutant: the cursor of the copy stays where it was.
CopyBlock_Still(written) ==
    /\ pc = "copy" /\ Remain > 0 /\ written = Stride
    /\ output' = [output EXCEPT ![Here].bytes =
          Overwrite(@, SubSeq(Source(Current), cursors.read + 1, cursors.read + written),
                    cursors.write)]
    /\ cursors' = [cursors EXCEPT !.read = @ + written]
    /\ UNCHANGED <<made, order, index, pc, part, file, starts, faults>>

\* One turn of the loop.  The whole block counts as copied; the cursor of the
\* copy moves by what was written, or back by one when the write failed (-1).
CopyBlock(written) ==
    /\ pc = "copy" /\ Remain > 0 /\ written \in 0 .. Stride
    /\ cursors.write <= Size[Current]
    /\ output' = [output EXCEPT ![Here].bytes =
          Overwrite(@, SubSeq(Source(Current), cursors.read + 1, cursors.read + written),
                    cursors.write)]
    /\ cursors' = [read |-> cursors.read + Stride, write |-> cursors.write + written]
    /\ faults' = IF written < Stride THEN faults + 1 ELSE faults
    /\ faults' <= MaxFaults
    /\ UNCHANGED <<made, order, index, pc, part, file, starts>>

\* Mutant: the error is taken for the cursor and the block is tried again.
CopyFails_Again ==
    /\ pc = "copy" /\ Remain > 0
    /\ \/ cursors.write > Size[Current] /\ faults' = faults
       \/ faults < MaxFaults /\ faults' = faults + 1
    /\ cursors' = [cursors EXCEPT !.write = Wide - 1]
    /\ UNCHANGED <<made, order, output, index, pc, part, file, starts>>

\* A failed write: at a cursor before the file's begin it always fails.
CopyFails ==
    /\ pc = "copy" /\ Remain > 0
    /\ \/ cursors.write > Size[Current] /\ faults' = faults
       \/ faults < MaxFaults /\ faults' = faults + 1
    /\ cursors' = [read  |-> cursors.read + Stride,
                   write |-> IF cursors.write = 0 THEN Wide - 1 ELSE cursors.write - 1]
    /\ UNCHANGED <<made, order, output, index, pc, part, file, starts>>

\* The streams of a file are closed.
EndFile ==
    /\ pc = "copy" /\ Remain = 0
    /\ pc' = "next" /\ file' = file + 1
    /\ UNCHANGED <<made, order, output, index, part, cursors, starts, faults>>

\* RegenerateGfs lists what is on the disk, and ExtractFilesInto returns true.
Return ==
    /\ pc = "next" /\ ~InPart
    /\ pc' = "returned"
    /\ index' = {place \in Place : output[place].there}
    /\ UNCHANGED <<made, order, output, part, file, cursors, starts, faults>>

\* The program is started again, after it was killed at any point or had ended;
\* in the meantime the user may have made the directories.
Restart ==
    /\ starts < MaxStarts
    /\ starts' = starts + 1 /\ made' \in {made, TRUE}
    /\ pc' = "start" /\ part' = 1 /\ file' = 1 /\ cursors' = [read |-> 0, write |-> 0]
    /\ UNCHANGED <<order, output, index, faults>>

Step ==
    \/ Start \/ LeavePart \/ CreateFile \/ CopyFails \/ EndFile \/ Return
    \/ \E written \in 0 .. BufferSize : CopyBlock(written)

Next == Step \/ Restart

Spec == Init /\ [][Next]_vars

\* A started extraction goes on; nobody has to start it again.
FairSpec == Spec /\ WF_vars(Step)
-----------------------------------------------------------------------------
\* What is on the disk are bytes of the files; the loop is inside its bounds.
TypeOK ==
    /\ \A place \in Place :
          /\ output[place].bytes \in Seq(1 .. Size[place[2]])
          /\ Len(output[place].bytes) <= Size[place[2]]
          /\ ~output[place].there => output[place].bytes = <<>>
    /\ pc \in {"start", "next", "copy", "returned", "thrown"}
    /\ part \in 1 .. Len(Parts) + 1 /\ (InPart => file \in 1 .. Len(Listed) + 1)
    /\ starts \in 1 .. MaxStarts /\ faults \in 0 .. MaxFaults

Complete(place) == output[place].there /\ output[place].bytes = Source(place[2])

\* While no write has failed, a file's copy has each byte up to the two cursors,
\* which move together (fs_types.cpp:90-97, streamed_file.cpp:54-62).
CopiedInOrder ==
    pc = "copy" /\ faults = 0 =>
        /\ cursors.write = cursors.read
        /\ output[Here].bytes = SubSeq(Source(Current), 1, cursors.read)

\* A complete copy stays so, whatever is extracted, killed and started after it
\* (fs_types.cpp:85-86).
CompleteStays ==
    [][\A place \in Place : Complete(place) => Complete(place)']_vars

\* An extraction that was not killed and had no failed write returns with each
\* file of a part, and in the index, if no path of the part is a piece of the
\* path of another (fs_types.cpp:104-110).
LossHasCause ==
    pc = "returned" /\ starts = 1 /\ faults = 0 =>
        \A p \in DOMAIN Files :
            (\A f, g \in Files[p] : f # g => <<f, g>> \notin Overlaps) =>
                \A f \in Files[p] : Complete(<<p, f>>) /\ <<p, f>> \in index

\* Each started extraction ends, although failed writes move one of the cursors
\* back (fs_types.cpp:91).
ExtractionEnds == <>[](pc \in {"returned", "thrown"})

\* An extraction that returned has the content of the game (main.cpp:44).
ContentExtracted ==
    pc = "returned" => \A place \in Place : Complete(place)
=============================================================================
