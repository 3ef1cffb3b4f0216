------------------------------ MODULE FileReads ------------------------------
(* Reading through the nested views of a file (sys_fs): RegularFile, the part  *)
(* of a file that FileLayered shows, and the cursor of StreamedFile.  A file   *)
(* is the sequence of its bytes.                                               *)
EXTENDS Naturals, Sequences

CONSTANTS
    Page,       \* the host's page size: one pread64 asks for no more
    Wide        \* integers are unsigned and wrap here

ASSUME ReadAssumption == {Page, Wide} \subseteq Nat \ {0}

Least(a, b) == IF a <= b THEN a ELSE b
-----------------------------------------------------------------------------
\* What pread64 finds: less at the end of the file, nothing beyond it.
Found(file, stride, falling) ==
    IF falling >= Len(file) THEN 0 ELSE Least(stride, Len(file) - falling)

\* The loop of RegularFile::ReadImpl: the number it returns, and how many bytes it has
\* put in the buffer.  When a page reaches over the end the loop returns the
\* length of that page, not what it copied; behind the end the distance to it
\* has wrapped and pread64 decides.
ReadLoop(file, size, offset) ==
    LET left == (Len(file) + Wide - offset) % Wide
        From[copied \in 0 .. size] ==
            LET stride == Least(Page, size - copied)
                found  == Found(file, stride, offset + copied)
            IN IF copied = size THEN [count |-> size, valid |-> size]
               ELSE IF copied + stride > left THEN [count |-> stride, valid |-> copied]
               ELSE IF found < stride THEN [count |-> copied + found, valid |-> copied + found]
               ELSE From[copied + stride]
    IN From[0]

\* RegularFile::ReadImpl: the bytes the caller takes for read.  The buffer was
\* cleared, so what was not copied is zero.
RegularRead(file, size, offset) ==
    LET read == ReadLoop(file, size, offset)
    IN [i \in 1 .. read.count |-> IF i <= read.valid THEN file[offset + i] ELSE 0]

\* FileLayered and StreamedFile throw for what is not inside their bounds.
InBounds(part, size, offset) == offset + size <= part.ends

\* Mutant: the start of the part is added by both views.
LayeredRead_Twice(file, part, size, offset) ==
    RegularRead(file, size, part.starts + part.starts + offset)

\* FileLayered::ReadImpl.
LayeredRead(file, part, size, offset) == RegularRead(file, size, part.starts + offset)

\* StreamedFile::ReadImpl, offset 0: what is read is where the cursor stands.
StreamRead(file, part, size, cursor) == LayeredRead(file, part, size, cursor)

\* What is left for a StreamedFile's cursor over the part.
RemainBytes(part, cursor) == (part.ends + Wide - cursor) % Wide
=============================================================================
