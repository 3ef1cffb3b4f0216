---------------------------- MODULE MCGuestMemory ---------------------------
(* An instance of GuestMemory for TLC, with the regions in the order that the  *)
(* code's constants give them in the guest and in the backing memory.          *)
EXTENDS GuestMemory

MCSelfTest == [guest |-> 4, back |-> 6]
MCStack == [guest |-> 140, back |-> 112, size |-> 8]
MCTls == [guest |-> 160, back |-> 100, size |-> 7]
MCShapes == {[text |-> 3, ro |-> 1, data |-> 1, bss |-> 3, valid |-> TRUE],
             [text |-> 4, ro |-> 3, data |-> 5, bss |-> 1, valid |-> TRUE],
             [text |-> 2, ro |-> 2, data |-> 3, bss |-> 2, valid |-> FALSE]}
=============================================================================
