------------------------------- MODULE KProcess -------------------------------
(* A process's threads (nxk/types/kprocess.cpp, kthread.cpp): a thread is an       *)
(* object of the process's handle table (HandleTable) that was given the TLS area  *)
(* the process had then (TlsSlots), and it runs when a core gets to it.            *)
EXTENDS HandleTable, TlsSlots

CONSTANT Bounds   \* bounds: the list's nodes, pages made, threads that wait to run

ASSUME ProcessAssumption == Bounds \subseteq [nodes : Nat, pages : Nat, waiting : Nat]

VARIABLES
    threads,   \* the handles the process lists
    waiting,   \* the threads on a core's list: the handle each was created with, to its TLS area
    bound,     \* the bounds of this behaviour
    core       \* "ok", or what ended the program on the application's core

table == <<slots, head, freeList, counter, wrapped, fate>>
threadVars == <<threads, waiting, bound, core>>
processVars == <<table, tlsVars, threadVars>>

ProcessInit ==
    /\ Init /\ TlsInit
    /\ threads = {} /\ waiting = <<>> /\ bound \in Bounds /\ core = "ok"

Alive == fate = "ok" /\ heap = "ok" /\ core = "ok"
-----------------------------------------------------------------------------
\* CreateThread and what PreemptAndRun does with the thread: a core that finds none
\* listed creates one, with whatever exceptionTlsArea is then, and puts it on its
\* list; it looks the handle up for that.
CreateThread ==
    /\ Alive /\ Len(slots) < bound.nodes /\ threads = {} /\ Cardinality(DOMAIN waiting) < bound.waiting
    /\ Create
    /\ threads' = {counter}
    /\ waiting' = [h \in DOMAIN waiting \cup {counter} |-> IF h = counter THEN area ELSE waiting[h]]
    /\ UNCHANGED <<tlsVars, bound, core>>

\* Without a handle nothing is listed, and PreemptAndRun takes front() of it.
CreateThreadFails ==
    /\ Alive /\ threads = {}
    /\ CreateFails
    /\ core' = "no thread"
    /\ UNCHANGED <<tlsVars, threads, waiting, bound>>

\* KThread::Run writes to the thread's area.
Run(h) ==
    /\ Alive
    /\ IF waiting[h].object = 0 THEN core' = "null area" /\ UNCHANGED waiting
       ELSE waiting' = Restrict(waiting, DOMAIN waiting \ {h}) /\ UNCHANGED core
    /\ UNCHANGED <<table, tlsVars, threads, bound>>

\* KProcess::Destroy: each thread is looked up to be killed, which counts a
\* reference; the table keeps it.
DestroyProcess ==
    /\ Alive
    /\ IF threads \cap Live = {} THEN UNCHANGED table
       ELSE \E h \in threads \cap Live : GetHandle(h)
    /\ DestroyPages
    /\ threads' = {}
    /\ UNCHANGED <<waiting, bound, core>>

Load == Alive /\ made < bound.pages /\ AllocateTlsHeapRegion /\ UNCHANGED <<table, threadVars>>

\* What else the table's class offers, to no caller so far: handles of further
\* threads and their end, and objects that are no threads.  A Create that asserts
\* ends the program.
UseTable ==
    /\ Alive /\ Len(slots) < bound.nodes
    /\ \/ Create \/ CreateFails \/ CreateAsserts \/ CreateOther
       \/ \E h \in 1 .. CounterMod - 1 : Destroy(h)
    /\ UNCHANGED <<tlsVars, threadVars>>

ProcessNext ==
    \/ Load \/ CreateThread \/ CreateThreadFails \/ DestroyProcess \/ UseTable
    \/ \E h \in DOMAIN waiting : Run(h)

ProcessSpec == ProcessInit /\ [][ProcessNext]_processVars
-----------------------------------------------------------------------------
\* A thread that waits keeps its area after Destroy gave the page back
\* (kprocess.cpp:18, kthread.cpp:19), and so does exceptionTlsArea.  No page that is
\* made later is the same, until all objects of the slab were taken once more.
StaleAreaIsFar ==
    \A tls \in {waiting[h] : h \in DOMAIN waiting} \cup {area}, page \in ToSet(Pages) :
        page.object = tls.object /\ page.object # 0 /\ page.serial # tls.serial
        => page.serial >= tls.serial + Objects

\* The ends a process comes to by itself lie at its bounds: the place of a pointer
\* that was moved out (kprocess.cpp:61) is met after all slots of a page, no thread
\* is created (kernel_task.cpp:51) after as many as the table has entries, and a
\* thread lacks an area only if nothing was loaded before it: the slab has a page.
EndsAtBounds ==
    /\ heap = "null page" => loads >= Slots
    /\ core = "no thread" => counter >= Size \/ wrapped
    /\ core = "null area" => \E h \in DOMAIN waiting : waiting[h] = NoArea
=============================================================================
