------------------------------- MODULE TlsSlots -------------------------------
(* Thread-local storage of the guest: the slab of pages (nxk/memory/             *)
(* k_slab_heap.cpp), the slots of a page (nxk/base/k_tls_page.cpp) and the lists *)
(* of pages of a process (KProcess::AllocateTlsHeapRegion, Destroy).             *)
EXTENDS Naturals, Sequences, FiniteSets, FiniteSetsExt, SequencesExt

CONSTANTS
    Objects,     \* pages of the slab; 990 in the code
    Slots        \* slots of a page, several; 8 in the code

ASSUME TlsAssumption == Objects \in Nat \ {0} /\ Slots \in Nat \ {0, 1}

VARIABLES
    free,      \* slotObjects
    allocated, \* the keys of KSlabHeap's map
    partial,   \* partialTlsSlots, with Moved where the pointer was moved out
    full,      \* fullTlsPages
    area,      \* exceptionTlsArea
    loads,     \* calls of AllocateTlsHeapRegion since the last Destroy
    made,      \* pages that were made in all
    heap       \* "ok", or how a call ended the program

tlsVars == <<free, allocated, partial, full, area, loads, made, heap>>

\* A page and the areas in it carry the number under which the page was made.
\* Object 0 is the null pointer.
Moved == [object |-> 0, open |-> {}, serial |-> 0]
NoArea == [object |-> 0, slot |-> 0, serial |-> 0]

TlsInit ==
    /\ free = [k \in 1 .. Objects |-> k] /\ allocated = {}
    /\ partial = <<>> /\ full = <<>> /\ area = NoArea
    /\ loads = 0 /\ made = 0 /\ heap = "ok"
-----------------------------------------------------------------------------
\* KTlsPage of an object.
NewPage(object) == [object |-> object, open |-> 1 .. Slots, serial |-> made + 1]

\* AllocateSlot, HasAvailableSlots: the first free slot is taken.
Slot(page) == [object |-> page.object, slot |-> Min(page.open), serial |-> page.serial]
Taken(page) == [page EXCEPT !.open = @ \ {Min(@)}]

\* KSlabHeap::Allocate: the front of the list, nothing if there is none.
FrontObject == IF free = <<>> THEN 0 ELSE Head(free)

\* AllocateTlsHeapRegion with a partly filled page.  When its last slot is taken
\* the pointer is moved to the full pages and its empty place stays in front.
FromPartial ==
    /\ heap = "ok" /\ partial # <<>> /\ Head(partial) # Moved
    /\ LET page == Taken(Head(partial))
       IN /\ area' = Slot(Head(partial))
          /\ partial' = [partial EXCEPT ![1] = IF page.open = {} THEN Moved ELSE page]
          /\ full' = IF page.open = {} THEN Append(full, page) ELSE full
    /\ loads' = loads + 1
    /\ UNCHANGED <<free, allocated, made, heap>>

\* The next call dereferences that empty place.
FromMoved ==
    /\ heap = "ok" /\ partial # <<>> /\ Head(partial) = Moved
    /\ heap' = "null page"
    /\ UNCHANGED <<free, allocated, partial, full, area, loads, made>>

\* The first page, and the first after a Destroy.
FromSlab ==
    /\ heap = "ok" /\ partial = <<>>
    /\ LET page == Taken(NewPage(FrontObject))
       IN /\ area' = Slot(NewPage(FrontObject))
          /\ partial' = IF page.open = {} THEN partial ELSE Append(partial, page)
          /\ full' = IF page.open = {} THEN Append(full, page) ELSE full
    /\ free' = IF free = <<>> THEN free ELSE Tail(free)
    /\ allocated' = IF free = <<>> THEN allocated ELSE allocated \cup {Head(free)}
    /\ loads' = loads + 1 /\ made' = made + 1
    /\ UNCHANGED <<heap>>

\* MemoryNx does not map the object, which was taken from the list already; no
\* caller catches the exception.
SlabThrows ==
    /\ heap = "ok" /\ partial = <<>> /\ free # <<>>
    /\ free' = Tail(free)
    /\ heap' = "exception"
    /\ UNCHANGED <<allocated, partial, full, area, loads, made>>

AllocateTlsHeapRegion == FromPartial \/ FromMoved \/ FromSlab \/ SlabThrows

\* The pages in the order in which their lists are cleared.  Only the front of
\* partial can be an empty place, no other page is ever touched there.
Pages == (IF partial # <<>> /\ Head(partial) = Moved THEN Tail(partial) ELSE partial) \o full
Held == {page.object : page \in ToSet(Pages)} \ {0}

\* Their objects: the slab, once empty, stays so until a Destroy, so that pages
\* that got none are the last.
Returned == [k \in 1 .. Cardinality(Held) |-> Pages[k].object]

\* Mutant: an object is put back in front.
Freed_InFront(objects) == objects \o free

\* Mutant: an object is lost.
Freed_Lost(objects) == free

\* KSlabHeap::Free of each: to the end of the list.
Freed(objects) == free \o objects

\* KProcess::Destroy of the pages; exceptionTlsArea stays as it is.  An object
\* that is not the slab's is an exception out of a destructor.
DestroyPages ==
    /\ heap = "ok"
    /\ free' = Freed(Returned)
    /\ heap' = IF Held \subseteq allocated THEN heap ELSE "exception"
    /\ allocated' = allocated \ Held
    /\ partial' = <<>> /\ full' = <<>> /\ loads' = 0
    /\ UNCHANGED <<area, made>>
-----------------------------------------------------------------------------
\* Every object of the slab is in the free list once, or is one page's of the
\* process, never both (Allocate, Free, ~KTlsPage); and after a load the process's
\* area is a taken slot of a page it holds.
SlotsOwned ==
    heap = "ok" =>
        /\ ToSet(free) = (1 .. Objects) \ allocated
        /\ Len(free) + Cardinality(allocated) = Objects
        /\ Cardinality({k \in DOMAIN Pages : Pages[k].object # 0}) = Cardinality(allocated)
        /\ Held = allocated
        /\ loads > 0 => \E page \in ToSet(Pages) :
                            /\ page.serial = area.serial /\ page.object = area.object
                            /\ area.slot \notin page.open
=============================================================================
