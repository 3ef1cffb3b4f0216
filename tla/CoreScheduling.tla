--------------------------- MODULE CoreScheduling ---------------------------
(***************************************************************************)
(* The guest-thread scheduling of Plusnx: the main thread that builds the  *)
(* kernel, starts the application and tears everything down (main.cpp,     *)
(* core/application.cpp, nxk/kernel.cpp), and the host threads that play   *)
(* the emulated cores (cpu/core_blob.cpp, cpu/kernel_task.cpp) with the    *)
(* scheduler and the process they share (nxk/scheduler_preemptive.cpp,     *)
(* nxk/types/kprocess.cpp).  A core waits at a gate, a flag and a          *)
(* condition variable; it looks itself up in Kernel::corePid; when an      *)
(* application is mapped to it, it creates, queues and runs the guest      *)
(* thread.  The locks of the code protect one action each.                 *)
(***************************************************************************)
EXTENDS Naturals, Sequences, SequencesExt

CONSTANTS
    TotalCoresCount,    \* cpu/unit_types.h; 4 in the code
    DefaultCoreId       \* NpdmHeader::defaultCoreId of the loaded application

ASSUME CoreAssumption ==
    /\ TotalCoresCount \in Nat \ {0}
    /\ DefaultCoreId \in 0 .. TotalCoresCount - 1

Core == 0 .. TotalCoresCount - 1

VARIABLES
    main,     \* the main thread: its position, the core index of its loops
    process,  \* KProcess: pid, the npdm's core, stack reserved?, threads
    corePid,  \* the keys of Kernel::corePid
    thr,      \* KThreads: how many were created; which are running, were
              \* killed, were run.  Thread n is the n-th created.
    sched,    \* SchedulerPreemptive: threads, cores, and in debt how many
              \* pop_back calls found cores empty
    core,     \* each core's host thread: pc, TaskableCoreContext::running, the
              \* stop token, KernelTask::inserted, and two locals: the thread
              \* it holds and what DeactivateCore's loop has left
    spurious, \* does this host's condition variable ever wake unasked?
    fate      \* "ok", or "terminated": the program died

vars == <<main, process, corePid, thr, sched, core, spurious, fate>>

Init ==
    /\ main = [pc |-> "boot", core |-> 0]
    /\ process = [pid |-> 0, core |-> 0, loaded |-> FALSE, threads |-> <<>>]
    /\ corePid = {}
    /\ thr = [created |-> 0, running |-> {}, killed |-> {}, ran |-> {}]
    /\ sched = [threads |-> <<>>, cores |-> <<>>, debt |-> 0]
    /\ core = [c \in Core |-> [pc |-> "unborn", running |-> FALSE, stop |-> FALSE,
                               inserted |-> FALSE, thread |-> 0, todo |-> <<>>]]
    /\ spurious \in BOOLEAN
    /\ fate = "ok"

Main(from, to) ==
    /\ fate = "ok" /\ main.pc = from /\ main' = [main EXCEPT !.pc = to]
    /\ UNCHANGED <<spurious, fate>>

At(c, from) == fate = "ok" /\ core[c].pc = from /\ UNCHANGED <<main, spurious, fate>>

To(c, to) == core' = [core EXCEPT ![c].pc = to]

\* An exception leaves the core's thread, or it dereferences a null pointer.
Die(c, where) ==
    /\ fate = "ok" /\ core[c].pc = where /\ fate' = "terminated"
    /\ UNCHANGED <<main, process, corePid, thr, sched, core, spurious>>

\* Mutants: nobody is notified; only an enabling call notifies.
Enabled_Silent(c, enable) ==
    core' = [core EXCEPT ![c].running = @ /\ enable]
Enabled_NotifiesOnlyOn(c, enable) ==
    core' = [core EXCEPT ![c].running = @ /\ enable,
                           ![c].pc = IF @ = "blocked" /\ enable THEN "woken" ELSE @]

\* TaskableCoreContext::Enabled: lower the flag when disabling; notify in both
\* cases.  A notification with nobody waiting is lost.
Enabled(c, enable) ==
    core' = [core EXCEPT ![c].running = @ /\ enable,
                           ![c].pc = IF @ = "blocked" THEN "woken" ELSE @]

-----------------------------------------------------------------------------
(* The main thread. *)

\* Mutant: the loop runs once too often.
BootCore_OneTooMany ==
    /\ fate = "ok" /\ main.pc = "boot" /\ main.core <= TotalCoresCount
    /\ main' = [main EXCEPT !.core = @ + 1]
    /\ To(main.core, "top")
    /\ UNCHANGED <<process, corePid, thr, sched, spurious, fate>>

\* Kernel::Kernel, the loop: CoreBlob::Initialize starts a core's thread.
BootCore ==
    /\ fate = "ok" /\ main.pc = "boot" /\ main.core < TotalCoresCount
    /\ main' = [main EXCEPT !.core = @ + 1]
    /\ To(main.core, "top")
    /\ UNCHANGED <<process, corePid, thr, sched, spurious, fate>>

\* The rest of Kernel::Kernel: the cores already run when the scheduler is built.
BuildScheduler ==
    /\ main.core = TotalCoresCount
    /\ Main("boot", "process")
    /\ UNCHANGED <<process, corePid, thr, sched, core>>

\* Application::Initialize: CreateNewProcess and KProcess::Initialize.
CreateProcess ==
    /\ Main("process", "load")
    /\ process' = [process EXCEPT !.pid = 1]
    /\ UNCHANGED <<corePid, thr, sched, core>>

\* Application::LoadAGameByIndex: NxSys::LoadApplicationFile returns early when
\* it finds no loader; the process then has no memory and the npdm's defaults.
LoadGame ==
    /\ Main("load", "setup")
    /\ \E ok \in BOOLEAN : process' =
          [process EXCEPT !.loaded = ok, !.core = IF ok THEN DefaultCoreId ELSE 0]
    /\ UNCHANGED <<corePid, thr, sched, core>>

\* ... or it asserts or throws, which nobody on the main thread catches.
LoadGameDies ==
    /\ fate = "ok" /\ main.pc = "load" /\ fate' = "terminated"
    /\ UNCHANGED <<main, process, corePid, thr, sched, core, spurious>>

\* main returns when PickByName finds no game of the name: ~Kernel follows with
\* neither a start nor a stop before it, and the process keeps its pid.
ReturnEarly ==
    /\ fate = "ok" /\ main.pc = "load"
    /\ main' = [pc |-> "disable", core |-> 0]
    /\ UNCHANGED <<process, corePid, thr, sched, core, spurious, fate>>

\* Kernel::SetupApplicationProcess, up to corePid.emplace...
SetupApplicationProcess ==
    /\ Main("setup", "enable")
    /\ corePid' = corePid \cup {process.core}
    /\ UNCHANGED <<process, thr, sched, core>>

\* ... and its last call, Enabled(true).
EnableCore ==
    /\ Main("enable", "loop")
    /\ Enabled(process.core, TRUE)
    /\ UNCHANGED <<process, corePid, thr, sched>>

\* The frame loop ends; KProcess::Destroy kills the threads it finds...
DestroyKill ==
    /\ Main("loop", "clear")
    /\ thr' = [thr EXCEPT !.killed = @ \cup ToSet(process.threads)]
    /\ UNCHANGED <<process, corePid, sched, core>>

\* ... and forgets them, without threadsLock.
DestroyClear ==
    /\ fate = "ok" /\ main.pc = "clear"
    /\ main' = [pc |-> "disable", core |-> 0]
    /\ process' = [process EXCEPT !.threads = <<>>, !.pid = 0]
    /\ UNCHANGED <<corePid, thr, sched, core, spurious, fate>>

\* Kernel::~Kernel: CoreBlob::Destroy for each core, Enabled(false) first...
DisableCore ==
    /\ Main("disable", "request")
    /\ Enabled(main.core, FALSE)
    /\ UNCHANGED <<process, corePid, thr, sched>>

\* ... then request_stop, which does not touch the condition variable...
RequestStop ==
    /\ Main("request", "join")
    /\ core' = [core EXCEPT ![main.core].stop = TRUE]
    /\ UNCHANGED <<process, corePid, thr, sched>>

\* ... then join.
JoinCore ==
    /\ fate = "ok" /\ main.pc = "join" /\ core[main.core].pc = "done"
    /\ main' = [core |-> main.core + 1,
                pc |-> IF main.core + 1 = TotalCoresCount THEN "exit" ELSE "disable"]
    /\ UNCHANGED <<process, corePid, thr, sched, core, spurious, fate>>

\* Everything main does but leave the frame loop, which waits for a user.
MainStep ==
    \/ BootCore \/ BuildScheduler \/ CreateProcess
    \/ LoadGame \/ LoadGameDies \/ ReturnEarly
    \/ SetupApplicationProcess \/ EnableCore \/ DestroyClear
    \/ DisableCore \/ RequestStop \/ JoinCore

-----------------------------------------------------------------------------
(* A core: CoreBlob::RunThread and what it calls. *)

\* Mutant: the stop token is not looked at.
CheckStop_Ignored(c) ==
    /\ At(c, "top") /\ To(c, "gate")
    /\ UNCHANGED <<process, corePid, thr, sched>>

\* The loop head: leave when a stop was requested.
CheckStop(c) ==
    /\ At(c, "top") /\ To(c, IF core[c].stop THEN "deactivate" ELSE "gate")
    /\ UNCHANGED <<process, corePid, thr, sched>>

\* WaitForAvailability: one wait with no predicate, skipped when running.
EnterGate(c) ==
    /\ At(c, "gate") /\ To(c, IF core[c].running THEN "lookup" ELSE "blocked")
    /\ UNCHANGED <<process, corePid, thr, sched>>

\* The wait may return without a notification.
SpuriousWakeup(c) ==
    /\ spurious /\ At(c, "blocked") /\ To(c, "woken")
    /\ UNCHANGED <<process, corePid, thr, sched>>

\* The woken thread has the mutex again and sets running.
LeaveGate(c) ==
    /\ At(c, "woken")
    /\ core' = [core EXCEPT ![c].pc = "lookup", ![c].running = TRUE]
    /\ UNCHANGED <<process, corePid, thr, sched>>

\* Mutant: corePid is not looked at.
LookupCore_Unchecked(c) ==
    /\ At(c, "lookup") /\ To(c, "enter")
    /\ UNCHANGED <<process, corePid, thr, sched>>

\* CheckForActivation: is this core in corePid?
LookupCore(c) ==
    /\ At(c, "lookup") /\ To(c, IF c \in corePid THEN "enter" ELSE "top")
    /\ UNCHANGED <<process, corePid, thr, sched>>

\* ContainsValue(cores, c).  The vector whose end was popped below its begin
\* makes the search run out of bounds.
IsCoreEnabled(c) == c \in ToSet(sched.cores)
SearchFaults == sched.debt > 0

\* PreemptAndRun, its first conditions: is the core still queued, does the
\* process have a thread?
EnterTask(c) ==
    /\ ~(core[c].inserted /\ SearchFaults)
    /\ At(c, "enter")
    /\ To(c, IF core[c].inserted /\ ~IsCoreEnabled(c) THEN "deactivate"
             ELSE IF process.threads = <<>> THEN "create" ELSE "pick")
    /\ UNCHANGED <<process, corePid, thr, sched>>

EnterTaskFaults(c) == core[c].inserted /\ SearchFaults /\ Die(c, "enter")

\* KProcess::CreateThread, once the loader reserved the stack region...
CreateThread(c) ==
    /\ process.loaded
    /\ At(c, "create") /\ To(c, "add")
    /\ thr' = [thr EXCEPT !.created = @ + 1]
    /\ process' = [process EXCEPT !.threads = Append(@, thr.created + 1)]
    /\ UNCHANGED <<corePid, sched>>

\* ... or the search for a reserved block of it ends at the TLS page and spins
\* for ever, when a thread before has its stack there (GuestMemory's Walked)...
CreateThreadSpins(c) ==
    /\ process.loaded /\ thr.created > 0
    /\ At(c, "create") /\ To(c, "spin")
    /\ UNCHANGED <<process, corePid, thr, sched>>

\* ... and without it the search throws.
CreateThreadThrows(c) == ~process.loaded /\ Die(c, "create")

\* Mutant: the thread is queued, its core is not.
AddThread_NoCore(c) ==
    /\ process.threads # <<>>
    /\ At(c, "add")
    /\ thr' = [thr EXCEPT !.running = @ \cup {Head(process.threads)}]
    /\ sched' = [sched EXCEPT !.threads = Append(@, Head(process.threads))]
    /\ core' = [core EXCEPT ![c].pc = "top", ![c].inserted = TRUE]
    /\ UNCHANGED <<process, corePid>>

\* The host-main-thread branch: AddThread the process's first thread.  What is
\* pushed below the begin of cores is not seen.
AddThread(c) ==
    /\ process.threads # <<>>
    /\ At(c, "add")
    /\ thr' = [thr EXCEPT !.running = @ \cup {Head(process.threads)}]
    /\ sched' = [threads |-> Append(sched.threads, Head(process.threads)),
                 cores |-> IF SearchFaults THEN sched.cores ELSE Append(sched.cores, c),
                 debt |-> IF SearchFaults THEN sched.debt - 1 ELSE 0]
    /\ core' = [core EXCEPT ![c].pc = "top", ![c].inserted = TRUE]
    /\ UNCHANGED <<process, corePid>>

\* The list was cleared meanwhile: front() of an empty list reads the handle 0
\* and GetThread dereferences the empty slot that has it.
AddThreadFaults(c) == process.threads = <<>> /\ Die(c, "add")

\* PreemptForCore, and Run of the thread it returned...
PreemptForCore(c) ==
    /\ ~SearchFaults /\ IsCoreEnabled(c) /\ sched.threads # <<>>
    /\ At(c, "pick")
    /\ core' = [core EXCEPT ![c].pc = "run", ![c].thread = Head(sched.threads)]
    /\ thr' = [thr EXCEPT !.ran = @ \cup {Head(sched.threads)}]
    /\ UNCHANGED <<process, corePid, sched>>

\* ... or of the null it returned.
PreemptForCoreFaults(c) ==
    /\ SearchFaults \/ ~IsCoreEnabled(c) \/ sched.threads = <<>>
    /\ Die(c, "pick")

\* RemoveThread asserts that a thread it finds in the queue is running.
RemovesIdleThread(c) ==
    /\ core[c].pc \in {"run", "loopRemove"}
    /\ core[c].thread \in ToSet(sched.threads) \ thr.running

RemoveThreadAborts(c) == RemovesIdleThread(c) /\ Die(c, core[c].pc)

\* std::ranges::find and erase: the list without the first t in it.
WithoutFirst(list, t) ==
    LET first == CHOOSE i \in DOMAIN list :
                     list[i] = t /\ \A j \in 1 .. i - 1 : list[j] # t
    IN IF t \in ToSet(list) THEN RemoveAt(list, first) ELSE list

\* Mutant: the thread stays in the queue.
EraseThread_Kept(c) ==
    /\ \/ At(c, "run") /\ To(c, "pop")
       \/ At(c, "loopRemove") /\ To(c, "loopPop")
    /\ UNCHANGED <<process, corePid, thr, sched>>

\* RemoveThread, the part under thrOwnerLock, called after Run or by DeactivateCore.
EraseThread(c) ==
    /\ ~RemovesIdleThread(c)
    /\ \/ At(c, "run") /\ To(c, "pop")
       \/ At(c, "loopRemove") /\ To(c, "loopPop")
    /\ sched' = [sched EXCEPT !.threads = WithoutFirst(@, core[c].thread)]
    /\ UNCHANGED <<process, corePid, thr>>

\* Where RemoveThread returns to: out of the core's loop, or to DeactivateCore's.
AfterPop(c) ==
    \/ /\ At(c, "pop")
       /\ core' = [core EXCEPT ![c].pc = "deactivate", ![c].inserted = FALSE]
    \/ /\ At(c, "loopPop")
       /\ core' = [core EXCEPT ![c].pc = "loop", ![c].todo = Tail(@)]

\* Mutant: the core returns to its loop instead of leaving.
PopCore_Stays(c) ==
    /\ \/ At(c, "pop") /\ To(c, "top")
       \/ core[c].pc = "loopPop" /\ AfterPop(c)
    /\ thr' = [thr EXCEPT !.running = @ \ {core[c].thread}]
    /\ UNCHANGED <<process, corePid, sched>>

\* RemoveThread after the lock: running is lowered and cores loses its last
\* element whether or not the thread was in the queue.
PopCore(c) ==
    /\ AfterPop(c)
    /\ thr' = [thr EXCEPT !.running = @ \ {core[c].thread}]
    /\ sched' = IF sched.cores = <<>> THEN [sched EXCEPT !.debt = @ + 1]
                ELSE [sched EXCEPT !.cores = Front(@)]
    /\ UNCHANGED <<process, corePid>>

\* DeactivateCore begins to walk the process's threads.
DeactivateCore(c) ==
    /\ At(c, "deactivate")
    /\ core' = [core EXCEPT ![c].pc = "loop", ![c].todo = process.threads]
    /\ UNCHANGED <<process, corePid, thr, sched>>

\* One turn: Kill the thread, then RemoveThread it...
DeactivateThread(c) ==
    /\ At(c, "loop") /\ core[c].todo # <<>>
    /\ core' = [core EXCEPT ![c].pc = "loopRemove",
                             ![c].thread = Head(core[c].todo)]
    /\ thr' = [thr EXCEPT !.killed = @ \cup {Head(core[c].todo)}]
    /\ UNCHANGED <<process, corePid, sched>>

\* ... but the list was cleared under the walk: its freed nodes may fault.
DeactivateThreadFaults(c) ==
    core[c].todo # <<>> /\ process.threads = <<>> /\ Die(c, "loop")

\* After the loop, Enabled(false)...
LowerGate(c) ==
    /\ At(c, "loop") /\ core[c].todo = <<>>
    /\ core' = [core EXCEPT ![c].pc = "unmap", ![c].running = FALSE]
    /\ UNCHANGED <<process, corePid, thr, sched>>

\* Mutant: the core stays in corePid.
UnmapCore_StaysMapped(c) ==
    /\ At(c, "unmap") /\ To(c, "done")
    /\ UNCHANGED <<process, corePid, thr, sched>>

\* ... then the core leaves corePid and its thread returns.
UnmapCore(c) ==
    /\ At(c, "unmap")
    /\ core' = [core EXCEPT ![c].pc = "done", ![c].inserted = FALSE]
    /\ corePid' = corePid \ {c}
    /\ UNCHANGED <<process, thr, sched>>

\* Everything a core does of its own accord; a spurious wakeup is not.
CoreStep(c) ==
    \/ CheckStop(c) \/ EnterGate(c) \/ LeaveGate(c) \/ LookupCore(c)
    \/ EnterTask(c) \/ EnterTaskFaults(c)
    \/ CreateThread(c) \/ CreateThreadSpins(c) \/ CreateThreadThrows(c)
    \/ AddThread(c) \/ AddThreadFaults(c)
    \/ PreemptForCore(c) \/ PreemptForCoreFaults(c)
    \/ RemoveThreadAborts(c) \/ EraseThread(c) \/ PopCore(c) \/ DeactivateCore(c)
    \/ DeactivateThread(c) \/ DeactivateThreadFaults(c)
    \/ LowerGate(c) \/ UnmapCore(c)

Next == MainStep \/ DestroyKill \/ \E c \in Core : CoreStep(c) \/ SpuriousWakeup(c)

Spec == Init /\ [][Next]_vars

\* The host schedules the main thread and every core's thread; only the frame
\* loop, which a user ends, may go on for ever.
Fairness == WF_vars(MainStep) /\ \A c \in Core : WF_vars(CoreStep(c))

FairSpec == Spec /\ Fairness

-----------------------------------------------------------------------------
(* Correctness. *)

\* The positions from which the process and the scheduler are used, from which
\* a core leaves, and from which it waits.
Working == {"enter", "create", "spin", "add", "pick", "run", "pop"}
Leaving == {"deactivate", "loop", "loopRemove", "loopPop", "unmap", "done"}
Waiting == {"top", "gate", "blocked", "woken", "lookup"}

CorePosition == Working \cup Leaving \cup Waiting \cup {"unborn"}
MainPosition == {"boot", "process", "load", "setup", "enable", "loop",
                 "clear", "disable", "request", "join", "exit"}

Thread == 1 .. thr.created

CoreState == [pc : CorePosition, running : BOOLEAN, stop : BOOLEAN, inserted : BOOLEAN,
              thread : Thread \cup {0}, todo : Seq(Thread)]

\* Every variable has the type its declaration in the code gives it, and every
\* thread number that is stored anywhere is that of a created thread.
TypeOK ==
    /\ main \in [core : 0 .. TotalCoresCount, pc : MainPosition]
    /\ process \in [pid : {0, 1}, core : Core, loaded : BOOLEAN, threads : Seq(Thread)]
    /\ corePid \subseteq Core
    /\ thr \in [created : Nat, running : SUBSET Thread, killed : SUBSET Thread,
                ran : SUBSET Thread]
    /\ sched \in [threads : Seq(Thread), cores : Seq(Core), debt : Nat]
    /\ core \in [Core -> CoreState]
    /\ spurious \in BOOLEAN /\ fate \in {"ok", "terminated"}

\* The cores run before the kernel that started them is complete: a core that
\* wakes early, at any time, must not reach the scheduler or the process.  It
\* does so only as the application's core, mapped in corePid, after main has
\* built both (kernel.cpp:7-25, kernel_task.cpp:24-31).
OnlyMappedCoreWorks ==
    \A c \in Core : core[c].pc \in Working =>
        /\ c = process.core /\ c \in corePid
        /\ main.pc \notin {"boot", "process", "load", "setup"}

\* A thread was created on the process after StopApplication destroyed it.
LateThread == process.pid = 0 /\ process.threads # <<>>

\* SchedulerPreemptive keeps its threads and their cores in two containers
\* that are pushed together but popped apart, cores unconditionally and outside
\* the lock.  Outside RemoveThread they agree, and the pop of an empty cores
\* that ends a normal session (kernel_task.cpp:48 and 65 remove one thread
\* twice) is never seen by a core that still works.
SchedulerBalanced ==
    ~LateThread /\ (\A c \in Core : core[c].pc \notin {"pop", "loopPop"}) =>
        /\ Len(sched.threads) = Len(sched.cores)
        /\ sched.debt > 0 =>
              sched.threads = <<>> /\ \A c \in Core : core[c].pc \notin Working

\* SchedulerPreemptive::RemoveThread asserts that a thread it takes out of the
\* queue was running (scheduler_preemptive.cpp:29-30).
RemovedThreadWasRunning == \A c \in Core : ~RemovesIdleThread(c)

\* The scheduler's other assertions hold in every interleaving (a thread is
\* queued once and not while running, scheduler_preemptive.cpp:7; an
\* application is set up with no thread, kernel.cpp:59), and that one holds
\* when no thread is late.
AssertionsHold ==
    /\ \A c \in Core : core[c].pc = "add" /\ process.threads # <<>> =>
                          Head(process.threads) \notin thr.running
    /\ main.pc = "setup" => process.threads = <<>>
    /\ ~LateThread => RemovedThreadWasRunning

\* A core that decided to run a thread gets one: the lists it read to decide
\* and the lists it takes the thread from change in between, under other
\* locks or none, yet Run is never called on a null thread (kernel_task.cpp:37-47).
PickFindsThread ==
    \A c \in Core : core[c].pc = "pick" /\ ~LateThread =>
        IsCoreEnabled(c) /\ sched.threads # <<>> /\ ~SearchFaults

\* The host's threads catch nothing, so whatever goes wrong on a core ends the
\* program.  A program that was loaded meets no such end, in any order of its core
\* with main, before StopApplication gives its process back: a core that starts
\* without memory, for a load that failed, is the only other way to die
\* (kprocess.cpp:87, kernel_task.cpp:37-47).
DeathHasCause == fate = "terminated" => ~process.loaded \/ process.pid = 0

\* When the application's core has left after running the guest, nothing of
\* the session is left in the scheduler, whatever StopApplication did meanwhile.
SessionLeavesNothing ==
    core[process.core].pc = "done" /\ thr.ran # {} /\ fate = "ok" =>
        sched.threads = <<>> /\ sched.cores = <<>> /\ thr.running = {} /\ corePid = {}

\* The promised lifecycle: parked, active, executing, retired.
Phase(c) == CASE core[c].pc \in Leaving -> "retired"
              [] core[c].pc \in {"run", "pop"} -> "executing"
              [] core[c].pc \in Working \ {"run", "pop"} -> "active"
              [] core[c].inserted /\ core[c].pc \in Waiting -> "active"
              [] OTHER -> "parked"

Lifecycle == INSTANCE CoreLifecycle
    WITH phase <- [c \in Core |-> Phase(c)], owner <- process.core

\* Every behaviour of the cores is one CoreLifecycle allows.
ImplementsLifecycle == Lifecycle!Spec

\* An application whose core was already waiting when it was set up gets to
\* run: its notification is not lost and nothing after it can stall, as long as
\* main stays in its frame loop.
StartLeadsToRun ==
    (main.pc = "enable" /\ process.loaded /\ core[process.core].pc = "blocked")
        ~> (thr.ran # {} \/ main.pc \notin {"enable", "loop"})

\* Enabled(false) and request_stop are two steps and the stop token does not
\* wake a waiter (core_blob.cpp:54-59): once main waits in join, either all
\* cores finish, or the program died, or a core sleeps at its gate with its
\* stop requested, or the application's core, late, spins in search of a stack;
\* nothing else can keep main waiting.
JoinEndsOrCoreSleeps ==
    main.pc = "join" ~>
        \/ main.pc = "exit" \/ fate # "ok"
        \/ \E c \in Core : core[c].pc = "blocked" /\ core[c].stop
        \/ core[process.core].pc = "spin"

\* When every core waits (or is gone) as the shutdown begins and wakes only
\* when notified, the shutdown completes.
ShutdownCompletes ==
    (/\ main.pc = "disable" /\ main.core = 0 /\ ~spurious
     /\ \A c \in Core : core[c].pc \in {"blocked", "done"})
        ~> (main.pc = "exit" \/ fate # "ok")
=============================================================================
