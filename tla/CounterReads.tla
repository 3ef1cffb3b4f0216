----------------------------- MODULE CounterReads -----------------------------
(* CtrBacking: a section of an archive is decrypted while it is read, from any *)
(* offset on.                                                                  *)
EXTENDS FileReads

CONSTANT CtrBlock   \* the block of the cipher (16 bytes)

ASSUME CounterAssumption == CtrBlock \in Nat \ {0}

\* Counter mode: the byte at an offset is masked by the key, the number of its
\* block and its place in the block.  A byte is the set of what it is made of, so
\* that masking it twice gives it back.
Mask(byte, key, offset) ==
    LET mask == {<<key, offset \div CtrBlock, offset % CtrBlock>>}
    IN (byte \ mask) \cup (mask \ byte)

\* Mutant: what is read begins where the caller wants it, not with a block.
CounterRead_Unaligned(file, part, section, size, offset) ==
    LET start   == offset + section.starts
        bytes   == LayeredRead(file, part, size, start)
        counter == start \div CtrBlock
    IN [i \in 1 .. Len(bytes) |-> Mask(bytes[i], section.key, counter * CtrBlock + (i - 1))]

\* CtrBacking::ReadImpl, of a section of an archive that is a part of a file: it
\* reads from a block's begin, sets the counter to that block of the archive,
\* decrypts, and leaves out what came before.
CounterRead(file, part, section, size, offset) ==
    LET padding == offset % CtrBlock
        start   == offset - padding + section.starts
        bytes   == LayeredRead(file, part, size + padding, start)
        counter == start \div CtrBlock
    IN [i \in 1 .. Len(bytes) - padding |->
           Mask(bytes[padding + i], section.key, counter * CtrBlock + (padding + i - 1))]
=============================================================================
