----------------------------- MODULE MCRecompiler -----------------------------
EXTENDS Recompiler

\* SUB SP, SP, #0x10; B.LE; NOP; RET and a zero word, as sets of bits.
Sub == {0, 1, 2, 3, 4, 5, 6, 7, 8, 9, 14, 24, 28, 30, 31}
Ble == {0, 2, 3, 6, 9, 10, 11, 12, 13, 14, 15, 16, 17, 18, 19, 20, 21, 22, 23, 26, 28, 30}
Nop == Pattern
Ret == {6, 7, 8, 9, 16, 17, 18, 19, 20, 22, 25, 26, 28, 30, 31}
Zero == {}

MCPrograms == {<<Sub, Ble, Nop, Ret>>, <<Ret, Ret, Ret, Ret>>, <<Nop, Zero, Ret>>}

\* Reading what lies before an empty deque faults, or gives null, the beginning of
\* the translation, or an address outside of it.
MCStrays == {Fault, Null, 0, 100}
=============================================================================
