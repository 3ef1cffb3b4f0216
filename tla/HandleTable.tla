---------------------------- MODULE HandleTable -----------------------------
(***************************************************************************)
(* KProcessHandleTable (nxk/base/k_process_handle_table.h and .cpp): a     *)
(* list of entries, a head iterator that says where the next entry goes, a *)
(* list of iterators and a 16-bit handle counter.  The list is a sequence  *)
(* of nodes; an iterator is the identity of its node, or End.  An entry    *)
(* with handle 0 is empty.  An object is its handle plus one, 0 for null.  *)
(***************************************************************************)
EXTENDS Naturals, Sequences, SequencesExt

CONSTANTS
    Size,         \* entries of the table; 1024 in the code
    CounterMod,   \* the counter's modulus; 2^16 in the code
    MaxNodes,     \* bound: nodes ever made
    MaxRefs       \* bound: references counted on one object

ASSUME HandleAssumption ==
    /\ Size \in Nat \ {0} /\ CounterMod \in Nat /\ CounterMod > Size
    /\ MaxNodes \in Nat /\ MaxNodes > Size /\ MaxRefs \in Nat \ {0}

VARIABLES
    slots,     \* handles, a sequence of [node, handle, object, refs]
    head,      \* handleHead
    freeList,
    counter,
    wrapped,   \* the counter has been through 0
    fate       \* "ok", "crashed" on a null object, or "assertion"

vars == <<slots, head, freeList, counter, wrapped, fate>>

End == 0
Empty(n) == [node |-> n, handle |-> 0, object |-> 0, refs |-> 0]

Init ==
    /\ slots = [n \in 1 .. Size |-> Empty(n)]
    /\ head = 1 /\ freeList = <<>> /\ counter = 1
    /\ wrapped = FALSE /\ fate = "ok"

\* The position of an iterator, one past the last for End.
Position(n) == CHOOSE i \in 1 .. Len(slots) + 1 :
                   IF n = End THEN i = Len(slots) + 1
                   ELSE i <= Len(slots) /\ slots[i].node = n

\* The iterator at a position: End is one past the last entry, and a step over
\* End goes on to the first.
IteratorAt(list, i) == CASE i <= Len(list) -> list[i].node
                         [] i = Len(list) + 1 -> End
                         [] OTHER -> list[1].node

\* The handle an iterator reads.  At End that is the list's own node, whose
\* element count lies where an entry keeps its handle.
HandleAt(n) == IF n = End THEN Len(slots) % CounterMod ELSE slots[Position(n)].handle

\* The first entry with a handle, 0 if there is none: GetHandle's and Destroy's loop.
Find(list, h) == SelectInSeq(list, LAMBDA s : s.handle = h)

Live == {slots[i].handle : i \in DOMAIN slots} \ {0}

\* Create's early returns consume a handle.
CreateFails ==
    /\ fate = "ok"
    /\ \/ (counter + 1) % CounterMod = 0
       \/ counter = Size
       \/ HandleAt(head) # 0 /\ freeList = <<>>
    /\ counter' = (counter + 1) % CounterMod
    /\ wrapped' = (wrapped \/ (counter + 1) % CounterMod = 0)
    /\ UNCHANGED <<slots, head, freeList, fate>>

\* Where the entry goes: the head, or the last of the free list.
Target == IF HandleAt(head) # 0 THEN Last(freeList) ELSE head

\* The handle a Create gets may be looked up at once and that may crash: the
\* handle 0, after a wrap, is first found in an empty entry.
Created(list, at) ==
    /\ slots' = list
    /\ head' = IteratorAt(list, at + 2)
    /\ fate' = IF list[Find(list, counter)].object = 0 THEN "crashed" ELSE "ok"

\* emplace before the target, step over it, and look the handle up.
CreateAt(at) ==
    Created(InsertAt(slots, at, [node |-> Len(slots) + 1, handle |-> counter,
                                 object |-> counter + 1, refs |-> 2]), at)

Proceeds ==
    /\ fate = "ok" /\ Len(slots) < MaxNodes
    /\ (counter + 1) % CounterMod # 0 /\ counter # Size
    /\ HandleAt(head) # 0 => freeList # <<>>

Create ==
    /\ Proceeds /\ HandleAt(Target) = 0
    /\ CreateAt(Position(Target))
    /\ freeList' = IF HandleAt(head) # 0 THEN Front(freeList) ELSE freeList
    /\ counter' = (counter + 1) % CounterMod
    /\ UNCHANGED wrapped

\* The head was on an entry in use when a Destroy put it on the free list.
CreateAsserts ==
    /\ Proceeds /\ HandleAt(Target) # 0
    /\ fate' = "assertion"
    /\ UNCHANGED <<slots, head, freeList, counter, wrapped>>

\* GetHandle asserts when it finds an object that was not asked for as a thread, and
\* Create looks up what it made: the table takes no object of another type.
CreateOther ==
    /\ Proceeds /\ HandleAt(Target) = 0
    /\ fate' = "assertion"
    /\ UNCHANGED <<slots, head, freeList, counter, wrapped>>

\* GetHandle of a live handle counts a reference that nobody gives back.
GetHandle(h) ==
    /\ fate = "ok" /\ h \in Live
    /\ slots[Find(slots, h)].refs < MaxRefs
    /\ slots' = [slots EXCEPT ![Find(slots, h)].refs = @ + 1]
    /\ UNCHANGED <<head, freeList, counter, wrapped, fate>>

\* Mutant: the entry keeps its handle.
Destroy_KeepsHandle(h) ==
    /\ fate = "ok" /\ h \in Live
    /\ slots' = [slots EXCEPT ![Find(slots, h)].object = 0]
    /\ head' = slots[Find(slots, h)].node
    /\ freeList' = IF head # End THEN Append(freeList, head) ELSE freeList
    /\ UNCHANGED <<counter, wrapped, fate>>

\* Mutant: what the head is at is emptied.
Destroy_AtHead(h) ==
    /\ fate = "ok" /\ h \in Live
    /\ slots' = [slots EXCEPT ![Find(slots, h)] = Empty(@.node), ![Position(head)] = Empty(@.node)]
    /\ head' = slots[Find(slots, h)].node
    /\ freeList' = IF head # End THEN Append(freeList, head) ELSE freeList
    /\ UNCHANGED <<counter, wrapped, fate>>

\* Destroy: drop the object, empty the entry, and make it the head.
Destroy(h) ==
    /\ fate = "ok" /\ h \in Live
    /\ slots' = [slots EXCEPT ![Find(slots, h)] = Empty(@.node)]
    /\ head' = slots[Find(slots, h)].node
    /\ freeList' = IF head # End THEN Append(freeList, head) ELSE freeList
    /\ UNCHANGED <<counter, wrapped, fate>>

Next ==
    \/ CreateFails \/ Create \/ CreateAsserts \/ CreateOther
    \/ \E h \in 1 .. CounterMod - 1 : GetHandle(h) \/ Destroy(h)

Spec == Init /\ [][Next]_vars
-----------------------------------------------------------------------------
\* Until the counter wraps, a handle names one entry, and that entry holds the
\* object the handle was given out for.
HandlesUnique ==
    ~wrapped =>
        /\ fate # "crashed"
        /\ \A i, j \in DOMAIN slots :
              slots[i].handle # 0 =>
                  /\ slots[i].object = slots[i].handle + 1
                  /\ slots[i].handle = slots[j].handle => i = j

\* No operation takes another handle's entry away, whatever node the head and the
\* free list stand for by then: only the Destroy of a handle ends it, wrap or not
\* (k_process_handle_table.cpp:19-36, k_process_handle_table.h:26-36).
HandlesStable ==
    [][\A h \in Live : h \in {slots'[i].handle : i \in DOMAIN slots'} \/ Destroy(h)]_vars
=============================================================================
