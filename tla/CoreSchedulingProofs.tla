------------------------ MODULE CoreSchedulingProofs ------------------------
(***************************************************************************)
(* Proofs about CoreScheduling, for every number of cores and every core   *)
(* an application may ask for: its types, that no core but the             *)
(* application's reaches the scheduler and the process, and that it        *)
(* implements CoreLifecycle: that core alone leaves its parking place to   *)
(* work, it executes the guest once, and who has left never comes back.    *)
(* Then, for every interleaving of the teardown with the cores, that the   *)
(* scheduler and the process it serves agree: what is queued, what is      *)
(* counted and what is assumed when a core decides to run a thread.        *)
(***************************************************************************)
EXTENDS CoreScheduling, SequenceTheorems, WellFoundedInduction, TLAPS

\* Main's positions before SetupApplicationProcess, and those of ~Kernel's loop.
Early == {"boot", "process", "load", "setup"}
Ending == {"disable", "request", "join"}

\* While ~Kernel's loop runs, its index is that of a core.
MainIndex == main.pc \in Ending => main.core \in Core

\* Whoever is mapped is the application's core, once it was set up.
Mapping == \A c \in corePid : c = process.core /\ main.pc \notin Early

\* Whoever works is mapped.
WorkIsMapped == \A c \in Core : core[c].pc \in Working => c \in corePid

\* In the body of DeactivateCore's loop there is a thread left.
LoopHolds == \A c \in Core : core[c].pc \in {"loopRemove", "loopPop"} => core[c].todo # <<>>

\* The inductive invariant: types need the bound of main's index and that of the
\* loop, and what a core reaches needs what is mapped and when.
IInv == TypeOK /\ MainIndex /\ LoopHolds /\ Mapping /\ WorkIsMapped
-----------------------------------------------------------------------------
(* Lemmas about the operators. *)

\* Every non-empty set of naturals has a least element.
LEMMA LeastNatural ==
    ASSUME NEW T \in SUBSET Nat, T # {}
    PROVE  \E x \in T : \A y \in T : x <= y
<1> DEFINE R == OpToRel(<, Nat)
<1>1. PICK x \in T : \A y \in T : ~(<<y, x>> \in R)
  <2> HIDE DEF R
  <2> QED BY NatLessThanWellFounded, WFMin DEF R
<1>2. \A y \in T : ~(y < x)
  BY <1>1 DEF OpToRel
<1> QED BY <1>2

\* Erasing the first occurrence leaves a sequence of the same type.
LEMMA WithoutFirstType ==
    ASSUME NEW S, NEW list \in Seq(S), NEW t
    PROVE  WithoutFirst(list, t) \in Seq(S)
<1> DEFINE First(i) == list[i] = t /\ \A j \in 1 .. i - 1 : list[j] # t
           k == CHOOSE i \in DOMAIN list : First(i)
<1> SUFFICES ASSUME t \in ToSet(list)
             PROVE  RemoveAt(list, k) \in Seq(S)
  BY DEF WithoutFirst
<1>1. k \in 1 .. Len(list)
  <2> DEFINE T == {i \in DOMAIN list : list[i] = t}
  <2>1. T \in SUBSET Nat /\ T # {}
    BY DEF ToSet
  <2>2. PICK i \in T : \A j \in T : i <= j
    BY <2>1, LeastNatural
  <2>3. i \in DOMAIN list /\ First(i)
    BY <2>2
  <2> QED BY <2>3
<1>2. \A i \in 1 .. Len(list) : list[i] \in S
  BY ElementOfSeq
<1> HIDE DEF k
<1>3. SubSeq(list, 1, k - 1) \in Seq(S)
  BY <1>1, <1>2, SubSeqProperties
<1>4. SubSeq(list, k + 1, Len(list)) \in Seq(S)
  BY <1>1, <1>2, SubSeqProperties
<1> QED BY <1>3, <1>4, ConcatProperties DEF RemoveAt

\* A sequence without its last element has the same type.
LEMMA FrontType ==
    ASSUME NEW S, NEW list \in Seq(S)
    PROVE  Front(list) \in Seq(S)
<1>1. \A i \in 1 .. Len(list) - 1 : list[i] \in S
  BY ElementOfSeq
<1> QED BY <1>1, SubSeqProperties, LenProperties DEF Front

-----------------------------------------------------------------------------
(* The types. *)

LEMMA TypeInit == Init => TypeOK
BY CoreAssumption, EmptySeq
   DEF Init, TypeOK, Core, CoreState, Thread, MainPosition, CorePosition

\* Only CreateThread makes the set of threads grow.
LEMMA SameThreads ==
    thr'.created = thr.created => Thread' = Thread /\ CoreState' = CoreState
BY DEF Thread, CoreState

\* What the steps assign to a core keeps its type.
LEMMA CoreUpdates ==
    ASSUME core \in [Core -> CoreState], NEW c \in Core, NEW to \in CorePosition
    PROVE  /\ [core EXCEPT ![c].pc = to] \in [Core -> CoreState]
           /\ [core EXCEPT ![c].stop = TRUE] \in [Core -> CoreState]
           /\ \A b \in BOOLEAN :
                /\ [core EXCEPT ![c].pc = to, ![c].running = b] \in [Core -> CoreState]
                /\ [core EXCEPT ![c].pc = to, ![c].inserted = b] \in [Core -> CoreState]
           /\ \A t \in Thread :
                [core EXCEPT ![c].pc = to, ![c].thread = t] \in [Core -> CoreState]
           /\ \A l \in Seq(Thread) :
                [core EXCEPT ![c].pc = to, ![c].todo = l] \in [Core -> CoreState]
<1>1. /\ [core EXCEPT ![c].pc = to] \in [Core -> CoreState]
      /\ [core EXCEPT ![c].stop = TRUE] \in [Core -> CoreState]
  BY DEF CoreState
<1>2. ASSUME NEW b \in BOOLEAN
      PROVE  /\ [core EXCEPT ![c].pc = to, ![c].running = b] \in [Core -> CoreState]
             /\ [core EXCEPT ![c].pc = to, ![c].inserted = b] \in [Core -> CoreState]
  BY DEF CoreState
<1>3. ASSUME NEW t \in Thread
      PROVE  [core EXCEPT ![c].pc = to, ![c].thread = t] \in [Core -> CoreState]
  BY DEF CoreState
<1>4. ASSUME NEW l \in Seq(Thread)
      PROVE  [core EXCEPT ![c].pc = to, ![c].todo = l] \in [Core -> CoreState]
  BY DEF CoreState
<1> QED BY <1>1, <1>2, <1>3, <1>4

\* Enabled keeps the type of core.
LEMMA EnabledTypes ==
    ASSUME core \in [Core -> CoreState], NEW c \in Core, NEW enable \in BOOLEAN,
           Enabled(c, enable)
    PROVE  core' \in [Core -> CoreState]
<1>1. "woken" \in CorePosition
  BY DEF CorePosition, Waiting
<1>2. \A s \in CoreState :
        [s EXCEPT !.running = @ /\ enable, !.pc = IF @ = "blocked" THEN "woken" ELSE @]
            \in CoreState
  BY <1>1 DEF CoreState
<1> QED BY <1>2 DEF Enabled

\* What main does keeps the types.
LEMMA MainTypes ==
    ASSUME TypeOK, MainIndex, MainStep \/ DestroyKill
    PROVE  TypeOK'
<1>1. /\ core \in [Core -> CoreState] /\ process.core \in Core
      /\ main.core \in 0 .. TotalCoresCount /\ main.pc \in MainPosition
      /\ \A m \in 0 .. TotalCoresCount, pc \in MainPosition :
            [core |-> m, pc |-> pc] \in [core : 0 .. TotalCoresCount, pc : MainPosition]
  BY DEF TypeOK
<1>2. {"process", "load", "setup", "enable", "loop", "clear", "disable", "request",
       "join", "exit"} \subseteq MainPosition
  BY DEF MainPosition
<1>3. main.pc = "disable" \/ main.pc = "request" \/ main.pc = "join" => main.core \in Core
  BY DEF MainIndex, Ending
<1>4. CASE BootCore
  <2>1. main.core \in Core /\ main.core + 1 \in 0 .. TotalCoresCount
    BY <1>1, <1>4, CoreAssumption DEF BootCore, Core
  <2>2. "top" \in CorePosition
    BY DEF CorePosition, Waiting
  <2>3. core' \in [Core -> CoreState]
    BY <1>1, <1>4, <2>1, <2>2, CoreUpdates DEF BootCore, To
  <2> QED BY <1>4, <2>1, <2>3, SameThreads DEF BootCore, TypeOK
<1>5. CASE BuildScheduler \/ CreateProcess
  BY <1>2, <1>5, SameThreads DEF BuildScheduler, CreateProcess, Main, TypeOK
<1>6. CASE LoadGame
  <2>1. {0, DefaultCoreId} \subseteq Core
    BY CoreAssumption DEF Core
  <2> QED BY <1>2, <1>6, <2>1, SameThreads DEF LoadGame, Main, TypeOK
<1>7. CASE SetupApplicationProcess
  BY <1>1, <1>2, <1>7, SameThreads DEF SetupApplicationProcess, Main, TypeOK
<1>8. CASE EnableCore
  <2>1. core' \in [Core -> CoreState]
    BY <1>1, <1>8, EnabledTypes DEF EnableCore
  <2> QED BY <1>2, <1>8, <2>1, SameThreads DEF EnableCore, Main, TypeOK
<1>9. CASE DestroyKill
  <2>1. ToSet(process.threads) \subseteq Thread
    BY DEF ToSet, TypeOK
  <2>2. thr'.created = thr.created
        /\ thr' \in [created : Nat, running : SUBSET Thread, killed : SUBSET Thread,
                     ran : SUBSET Thread]
    BY <1>9, <2>1 DEF DestroyKill, TypeOK
  <2> QED BY <1>2, <1>9, <2>2, SameThreads DEF DestroyKill, Main, TypeOK
<1>10. CASE DestroyClear
  <2>1. <<>> \in Seq(Thread)
    BY EmptySeq
  <2>2. main' \in [core : 0 .. TotalCoresCount, pc : MainPosition]
    BY <1>2, <1>10, CoreAssumption DEF DestroyClear
  <2>3. process' \in [pid : {0, 1}, core : Core, loaded : BOOLEAN, threads : Seq(Thread)]
    BY <1>10, <2>1 DEF DestroyClear, TypeOK
  <2> QED BY <1>10, <2>2, <2>3, SameThreads DEF DestroyClear, TypeOK
<1>11. CASE DisableCore
  <2>1. core' \in [Core -> CoreState]
    BY <1>1, <1>3, <1>11, EnabledTypes DEF DisableCore, Main
  <2> QED BY <1>2, <1>11, <2>1, SameThreads DEF DisableCore, Main, TypeOK
<1>12. CASE RequestStop
  <2>1. core' \in [Core -> CoreState]
    BY <1>1, <1>3, <1>12, CoreUpdates DEF RequestStop, Main, CorePosition
  <2> QED BY <1>2, <1>12, <2>1, SameThreads DEF RequestStop, Main, TypeOK
<1>13. CASE JoinCore
  <2>1. main.core + 1 \in 0 .. TotalCoresCount
    BY <1>3, <1>13, CoreAssumption DEF JoinCore, Core
  <2> QED BY <1>2, <1>13, <2>1, SameThreads DEF JoinCore, TypeOK
<1>14. CASE LoadGameDies
  BY <1>14, SameThreads DEF LoadGameDies, TypeOK
<1>15. CASE ReturnEarly
  <2>1. main' \in [core : 0 .. TotalCoresCount, pc : MainPosition]
    BY <1>2, <1>15, CoreAssumption DEF ReturnEarly
  <2> QED BY <1>15, <2>1, SameThreads DEF ReturnEarly, TypeOK
<1> QED BY <1>4, <1>5, <1>6, <1>7, <1>8, <1>9, <1>10, <1>11, <1>12, <1>13, <1>14, <1>15
        DEF MainStep

\* What a core does keeps the types.
LEMMA CoreTypes ==
    ASSUME TypeOK, LoopHolds, NEW c \in Core, CoreStep(c) \/ SpuriousWakeup(c)
    PROVE  TypeOK'
<1>1. /\ core \in [Core -> CoreState] /\ core[c] \in CoreState
      /\ process.threads \in Seq(Thread) /\ sched.threads \in Seq(Thread)
      /\ sched.cores \in Seq(Core) /\ sched.debt \in Nat
      /\ core[c].thread \in Thread \cup {0} /\ core[c].todo \in Seq(Thread)
  BY DEF TypeOK, CoreState
<1>2. Working \cup Leaving \cup Waiting \subseteq CorePosition
  BY DEF CorePosition
<1>3. CASE CheckStop(c) \/ EnterGate(c) \/ SpuriousWakeup(c)
           \/ LookupCore(c) \/ EnterTask(c) \/ CreateThreadSpins(c)
  <2>1. PICK to \in CorePosition : To(c, to)
    BY <1>2, <1>3
    DEF CheckStop, EnterGate, SpuriousWakeup, LookupCore, EnterTask, CreateThreadSpins,
        Working, Leaving, Waiting
  <2>2. core' \in [Core -> CoreState]
    BY <1>1, <2>1, CoreUpdates DEF To
  <2> QED BY <1>3, <2>2, SameThreads
          DEF CheckStop, EnterGate, SpuriousWakeup, LookupCore, EnterTask,
              CreateThreadSpins, At, TypeOK
<1>4. CASE \/ LeaveGate(c) \/ DeactivateCore(c) \/ LowerGate(c) \/ UnmapCore(c)
  <2>1. {"lookup", "loop", "unmap", "done"} \subseteq CorePosition
    BY <1>2 DEF Leaving, Waiting
  <2>2. core' \in [Core -> CoreState]
    <3>1. CASE LeaveGate(c)
      BY <1>1, <2>1, <3>1, CoreUpdates DEF LeaveGate
    <3>2. CASE DeactivateCore(c)
      BY <1>1, <2>1, <3>2, CoreUpdates DEF DeactivateCore
    <3>3. CASE LowerGate(c)
      BY <1>1, <2>1, <3>3, CoreUpdates DEF LowerGate
    <3>4. CASE UnmapCore(c)
      BY <1>1, <2>1, <3>4, CoreUpdates DEF UnmapCore
    <3> QED BY <1>4, <3>1, <3>2, <3>3, <3>4
  <2> QED BY <1>4, <2>2, SameThreads
          DEF LeaveGate, DeactivateCore, LowerGate, UnmapCore, At, TypeOK
<1>5. CASE EnterTaskFaults(c) \/ CreateThreadThrows(c) \/ AddThreadFaults(c)
           \/ PreemptForCoreFaults(c) \/ RemoveThreadAborts(c) \/ DeactivateThreadFaults(c)
  BY <1>5, SameThreads
  DEF EnterTaskFaults, CreateThreadThrows, AddThreadFaults, PreemptForCoreFaults,
      RemoveThreadAborts, DeactivateThreadFaults, Die, TypeOK
<1>6. CASE CreateThread(c)
  <2>1. thr'.created = thr.created + 1
    BY <1>6 DEF CreateThread, TypeOK
  <2>2. Thread \subseteq Thread' /\ thr.created + 1 \in Thread'
    BY <2>1 DEF Thread, TypeOK
  <2>3. Seq(Thread) \subseteq Seq(Thread')
    BY <2>2, SeqMonotonic
  <2>4. thr' \in [created : Nat, running : SUBSET Thread', killed : SUBSET Thread',
                  ran : SUBSET Thread']
    <3>1. thr \in [created : Nat, running : SUBSET Thread', killed : SUBSET Thread',
                   ran : SUBSET Thread']
      BY <2>2 DEF TypeOK
    <3> QED BY <1>6, <3>1 DEF CreateThread
  <2>5. process' \in [pid : {0, 1}, core : Core, loaded : BOOLEAN, threads : Seq(Thread')]
    <3>1. Append(process.threads, thr.created + 1) \in Seq(Thread')
      BY <1>1, <2>2, <2>3, AppendProperties
    <3> QED BY <1>6, <3>1 DEF CreateThread, TypeOK
  <2>6. core' \in [Core -> CoreState']
    <3>1. "add" \in CorePosition
      BY <1>2 DEF Working
    <3>2. core' \in [Core -> CoreState]
      BY <1>1, <1>6, <3>1, CoreUpdates DEF CreateThread, To
    <3>3. CoreState \subseteq CoreState'
      BY <2>2, <2>3 DEF CoreState
    <3> QED BY <3>2, <3>3
  <2>7. sched' \in [threads : Seq(Thread'), cores : Seq(Core), debt : Nat]
    BY <1>6, <2>3 DEF CreateThread, TypeOK
  <2> QED BY <1>6, <2>4, <2>5, <2>6, <2>7 DEF CreateThread, At, TypeOK
<1>7. CASE AddThread(c)
  <2>1. Head(process.threads) \in Thread
    BY <1>1, <1>7, HeadTailProperties DEF AddThread
  <2>2. Append(sched.threads, Head(process.threads)) \in Seq(Thread)
        /\ Append(sched.cores, c) \in Seq(Core)
    BY <1>1, <2>1, AppendProperties
  <2>3. sched' \in [threads : Seq(Thread), cores : Seq(Core), debt : Nat]
    BY <1>1, <1>7, <2>2 DEF AddThread, SearchFaults
  <2>4. core' \in [Core -> CoreState]
    BY <1>1, <1>2, <1>7, CoreUpdates DEF AddThread, Waiting
  <2>5. thr'.created = thr.created
        /\ thr' \in [created : Nat, running : SUBSET Thread, killed : SUBSET Thread,
                     ran : SUBSET Thread]
    BY <1>7, <2>1 DEF AddThread, TypeOK
  <2> QED BY <1>7, <2>3, <2>4, <2>5, SameThreads DEF AddThread, At, TypeOK
<1>8. CASE PreemptForCore(c)
  <2>1. Head(sched.threads) \in Thread
    BY <1>1, <1>8, HeadTailProperties DEF PreemptForCore
  <2>2. core' \in [Core -> CoreState]
    BY <1>1, <1>2, <1>8, <2>1, CoreUpdates DEF PreemptForCore, Working
  <2>3. thr'.created = thr.created
        /\ thr' \in [created : Nat, running : SUBSET Thread, killed : SUBSET Thread,
                     ran : SUBSET Thread]
    BY <1>8, <2>1 DEF PreemptForCore, TypeOK
  <2> QED BY <1>8, <2>2, <2>3, SameThreads DEF PreemptForCore, At, TypeOK
<1>9. CASE EraseThread(c)
  <2>1. WithoutFirst(sched.threads, core[c].thread) \in Seq(Thread)
    BY <1>1, WithoutFirstType
  <2>2. sched' \in [threads : Seq(Thread), cores : Seq(Core), debt : Nat]
    BY <1>9, <2>1 DEF EraseThread, TypeOK
  <2>3. core' \in [Core -> CoreState]
    <3>1. {"pop", "loopPop"} \subseteq CorePosition
      BY <1>2 DEF Working, Leaving
    <3>2. PICK to \in CorePosition : To(c, to)
      BY <1>9, <3>1 DEF EraseThread
    <3> QED BY <1>1, <3>2, CoreUpdates DEF To
  <2> QED BY <1>9, <2>2, <2>3, SameThreads DEF EraseThread, At, TypeOK
<1>10. CASE PopCore(c)
  <2>1. sched' \in [threads : Seq(Thread), cores : Seq(Core), debt : Nat]
    <3>1. Front(sched.cores) \in Seq(Core)
      BY <1>1, FrontType
    <3>2. sched \in [threads : Seq(Thread), cores : Seq(Core), debt : Nat]
      BY DEF TypeOK
    <3> QED BY <1>10, <3>1, <3>2 DEF PopCore
  <2>2. core' \in [Core -> CoreState]
    <3>1. core[c].pc = "loopPop" => Tail(core[c].todo) \in Seq(Thread)
      BY <1>1, <1>10, HeadTailProperties DEF LoopHolds, PopCore, AfterPop, At
    <3>2. {"deactivate", "loop"} \subseteq CorePosition
      BY <1>2 DEF Leaving
    <3>3. CASE core[c].pc = "pop"
      <4>1. core' = [core EXCEPT ![c].pc = "deactivate", ![c].inserted = FALSE]
        BY <1>10, <3>3 DEF PopCore, AfterPop, At
      <4> QED BY <1>1, <3>2, <4>1, CoreUpdates
    <3>4. CASE core[c].pc = "loopPop"
      <4>1. core' = [core EXCEPT ![c].pc = "loop", ![c].todo = Tail(core[c].todo)]
        BY <1>10, <3>4 DEF PopCore, AfterPop, At
      <4> QED BY <1>1, <3>1, <3>2, <3>4, <4>1, CoreUpdates
    <3> QED BY <1>10, <3>3, <3>4 DEF PopCore, AfterPop, At
  <2>3. thr'.created = thr.created
        /\ thr' \in [created : Nat, running : SUBSET Thread, killed : SUBSET Thread,
                     ran : SUBSET Thread]
    BY <1>10 DEF PopCore, TypeOK
  <2> QED BY <1>10, <2>1, <2>2, <2>3, SameThreads DEF PopCore, AfterPop, At, TypeOK
<1>11. CASE DeactivateThread(c)
  <2>1. Head(core[c].todo) \in Thread
    BY <1>1, <1>11, HeadTailProperties DEF DeactivateThread
  <2>2. core' \in [Core -> CoreState]
    BY <1>1, <1>2, <1>11, <2>1, CoreUpdates DEF DeactivateThread, Leaving
  <2>3. thr'.created = thr.created
        /\ thr' \in [created : Nat, running : SUBSET Thread, killed : SUBSET Thread,
                     ran : SUBSET Thread]
    BY <1>11, <2>1 DEF DeactivateThread, TypeOK
  <2> QED BY <1>11, <2>2, <2>3, SameThreads DEF DeactivateThread, At, TypeOK
<1> QED BY <1>3, <1>4, <1>5, <1>6, <1>7, <1>8, <1>9, <1>10, <1>11 DEF CoreStep
-----------------------------------------------------------------------------
(* The mapping. *)

\* The rest of the invariant holds initially.
LEMMA OtherInit == Init => MainIndex /\ LoopHolds /\ Mapping /\ WorkIsMapped
BY DEF Init, MainIndex, Ending, LoopHolds, Mapping, WorkIsMapped, Working

\* What main does keeps the rest of the invariant: it maps only the process's core,
\* which it chooses before, and moves a core only to the top of its loop or past
\* its wait.
LEMMA MainKeeps ==
    ASSUME IInv, MainStep \/ DestroyKill
    PROVE  MainIndex' /\ LoopHolds' /\ Mapping' /\ WorkIsMapped'
<1> USE DEF IInv
<1>1. \A c \in Core : \/ UNCHANGED <<core[c].pc, core[c].todo>>
                      \/ core'[c].pc \in {"top", "woken"}
  <2>1. core \in [Core -> CoreState] /\ DOMAIN core = Core
    BY DEF TypeOK
  <2>2. \A c \in Core : core[c] \in CoreState
    BY <2>1
  <2>3. \A e \in Core, enable \in BOOLEAN : Enabled(e, enable) =>
            \A c \in Core : \/ UNCHANGED <<core[c].pc, core[c].todo>>
                            \/ core'[c].pc \in {"top", "woken"}
    BY <2>1, <2>2 DEF Enabled, CoreState
  <2>4. CASE BootCore
    BY <2>1, <2>2, <2>4 DEF BootCore, To, CoreState
  <2>5. CASE EnableCore
    <3>1. process.core \in Core /\ Enabled(process.core, TRUE)
      BY <2>5 DEF EnableCore, TypeOK
    <3> QED BY <2>3, <3>1
  <2>6. CASE DisableCore
    <3>1. main.core \in Core /\ Enabled(main.core, FALSE)
      BY <2>6 DEF DisableCore, Main, MainIndex, Ending
    <3> QED BY <2>3, <3>1
  <2>7. CASE RequestStop
    BY <2>1, <2>2, <2>7 DEF RequestStop, CoreState
  <2> QED BY <2>4, <2>5, <2>6, <2>7
          DEF MainStep, BuildScheduler, CreateProcess, LoadGame, LoadGameDies, ReturnEarly,
              SetupApplicationProcess, DestroyKill, DestroyClear, JoinCore
<1>2. LoopHolds'
  BY <1>1 DEF LoopHolds
<1>3. MainIndex'
  <2>1. main \in [core : 0 .. TotalCoresCount, pc : MainPosition]
    BY DEF TypeOK
  <2>2. CASE BootCore \/ BuildScheduler \/ CreateProcess \/ LoadGame
             \/ SetupApplicationProcess \/ EnableCore \/ DestroyKill \/ LoadGameDies
    BY <2>1, <2>2
    DEF BootCore, BuildScheduler, CreateProcess, LoadGame, LoadGameDies,
        SetupApplicationProcess, EnableCore, DestroyKill, Main, MainIndex, Ending
  <2>3. CASE DestroyClear \/ ReturnEarly
    BY <2>3, CoreAssumption DEF DestroyClear, ReturnEarly, MainIndex, Core
  <2>4. CASE DisableCore \/ RequestStop
    BY <2>1, <2>4 DEF DisableCore, RequestStop, Main, MainIndex, Ending
  <2>5. CASE JoinCore
    BY <2>5, CoreAssumption DEF JoinCore, MainIndex, Ending, Core
  <2> QED BY <2>2, <2>3, <2>4, <2>5 DEF MainStep
<1>4. Mapping'
  <2>1. main \in [core : 0 .. TotalCoresCount, pc : MainPosition]
    BY DEF TypeOK
  <2>2. process \in [pid : {0, 1}, core : Core, loaded : BOOLEAN, threads : Seq(Thread)]
    BY DEF TypeOK
  <2>3. CASE \/ BootCore \/ BuildScheduler \/ CreateProcess
             \/ LoadGame \/ LoadGameDies \/ ReturnEarly
    BY <2>1, <2>2, <2>3
    DEF BootCore, BuildScheduler, CreateProcess, LoadGame, LoadGameDies, ReturnEarly, Main,
        Mapping, Early
  <2>4. CASE SetupApplicationProcess
    BY <2>1, <2>4 DEF SetupApplicationProcess, Main, Mapping, Early
  <2>5. CASE EnableCore \/ DestroyKill \/ DisableCore \/ RequestStop
    BY <2>1, <2>5 DEF EnableCore, DestroyKill, DisableCore, RequestStop, Main, Mapping, Early
  <2>6. CASE DestroyClear
    BY <2>2, <2>6 DEF DestroyClear, Mapping, Early
  <2>7. CASE JoinCore
    <3>1. main'.pc \in {"exit", "disable"} /\ UNCHANGED <<process, corePid>>
      BY <2>7 DEF JoinCore
    <3> QED BY <3>1 DEF Mapping, Early
  <2> QED BY <2>3, <2>4, <2>5, <2>6, <2>7 DEF MainStep
<1>5. corePid \subseteq corePid'
  BY DEF MainStep, BootCore, BuildScheduler, CreateProcess, LoadGame, LoadGameDies,
         ReturnEarly, SetupApplicationProcess, EnableCore, DestroyKill, DestroyClear,
         DisableCore, RequestStop, JoinCore
<1>6. WorkIsMapped'
  BY <1>1, <1>5 DEF WorkIsMapped, Working
<1> QED BY <1>2, <1>3, <1>4, <1>6

\* What a core does keeps the rest: it enters its work only when it finds itself
\* mapped, and only it removes itself, having left.
LEMMA CoreKeeps ==
    ASSUME IInv, NEW c \in Core, CoreStep(c) \/ SpuriousWakeup(c)
    PROVE  MainIndex' /\ LoopHolds' /\ Mapping' /\ WorkIsMapped'
<1> USE DEF IInv
<1>1. /\ core \in [Core -> CoreState] /\ core[c] \in CoreState
      /\ \A d \in Core : core[d] \in CoreState
      /\ process \in [pid : {0, 1}, core : Core, loaded : BOOLEAN, threads : Seq(Thread)]
  BY DEF TypeOK
<1>2. UNCHANGED main /\ process'.core = process.core /\ corePid' \subseteq corePid
  BY <1>1
  DEF CoreStep, CheckStop, EnterGate, SpuriousWakeup, LeaveGate, LookupCore, EnterTask,
      EnterTaskFaults, CreateThread, CreateThreadSpins, CreateThreadThrows, AddThread,
      AddThreadFaults, PreemptForCore, PreemptForCoreFaults, RemoveThreadAborts,
      EraseThread, PopCore, AfterPop, DeactivateCore, DeactivateThread,
      DeactivateThreadFaults, LowerGate, UnmapCore, At, Die
<1>3. MainIndex' /\ Mapping'
  BY <1>2 DEF MainIndex, Mapping
<1>4. \A d \in Core \ {c} : core'[d] = core[d]
  BY <1>1
  DEF CoreStep, CheckStop, EnterGate, SpuriousWakeup, LeaveGate, LookupCore, EnterTask,
      EnterTaskFaults, CreateThread, CreateThreadSpins, CreateThreadThrows, AddThread,
      AddThreadFaults, PreemptForCore, PreemptForCoreFaults, RemoveThreadAborts,
      EraseThread, PopCore, AfterPop, DeactivateCore, DeactivateThread,
      DeactivateThreadFaults, LowerGate, UnmapCore, To, Die
<1>5. core'[c].pc \in {"loopRemove", "loopPop"} => core'[c].todo # <<>>
  BY <1>1
  DEF CoreStep, CheckStop, EnterGate, SpuriousWakeup, LeaveGate, LookupCore, EnterTask,
      EnterTaskFaults, CreateThread, CreateThreadSpins, CreateThreadThrows, AddThread,
      AddThreadFaults, PreemptForCore, PreemptForCoreFaults, RemoveThreadAborts,
      EraseThread, PopCore, AfterPop, DeactivateCore, DeactivateThread,
      DeactivateThreadFaults, LowerGate, UnmapCore, At, To, Die, CoreState, LoopHolds
<1>6. corePid' = corePid \/ (corePid' = corePid \ {c} /\ core'[c].pc = "done")
  BY <1>1
  DEF CoreStep, CheckStop, EnterGate, SpuriousWakeup, LeaveGate, LookupCore, EnterTask,
      EnterTaskFaults, CreateThread, CreateThreadSpins, CreateThreadThrows, AddThread,
      AddThreadFaults, PreemptForCore, PreemptForCoreFaults, RemoveThreadAborts,
      EraseThread, PopCore, AfterPop, DeactivateCore, DeactivateThread,
      DeactivateThreadFaults, LowerGate, UnmapCore, At, To, Die, CoreState
<1>7. core'[c].pc \in Working => core[c].pc \in Working \/ c \in corePid
  BY <1>1
  DEF CoreStep, CheckStop, EnterGate, SpuriousWakeup, LeaveGate, LookupCore, EnterTask,
      EnterTaskFaults, CreateThread, CreateThreadSpins, CreateThreadThrows, AddThread,
      AddThreadFaults, PreemptForCore, PreemptForCoreFaults, RemoveThreadAborts,
      EraseThread, PopCore, AfterPop, DeactivateCore, DeactivateThread,
      DeactivateThreadFaults, LowerGate, UnmapCore, At, To, Die, CoreState, Working
<1>8. LoopHolds'
  BY <1>4, <1>5 DEF LoopHolds
<1>9. WorkIsMapped'
  BY <1>4, <1>6, <1>7 DEF WorkIsMapped, Working
<1> QED BY <1>3, <1>8, <1>9

-----------------------------------------------------------------------------
(* The theorems. *)

\* The invariant is inductive.
THEOREM Inductive == Spec => []IInv
<1>1. Init => IInv
  BY TypeInit, OtherInit DEF IInv
<1>2. IInv /\ [Next]_vars => IInv'
  <2> SUFFICES ASSUME IInv, [Next]_vars PROVE IInv'
    OBVIOUS
  <2>1. CASE MainStep \/ DestroyKill
    BY <2>1, MainTypes, MainKeeps DEF IInv
  <2>2. ASSUME NEW c \in Core, CoreStep(c) \/ SpuriousWakeup(c)
        PROVE  IInv'
    BY <2>2, CoreTypes, CoreKeeps DEF IInv
  <2>3. CASE UNCHANGED vars
    BY <2>3 DEF vars, IInv, TypeOK, CoreState, Thread, MainIndex, LoopHolds, Mapping,
                WorkIsMapped
  <2> QED BY <2>1, <2>2, <2>3 DEF Next
<1> QED BY <1>1, <1>2, PTL DEF Spec

\* Every variable keeps its type, for any number of cores and threads.
THEOREM TypeCorrect == Spec => []TypeOK
<1>1. IInv => TypeOK
  BY DEF IInv
<1> QED BY <1>1, Inductive, PTL

\* Whatever the interleaving of main, which builds the kernel after it started the
\* cores, with cores that may wake at any time: only the core of the application
\* reaches the scheduler and the process, and only once both were set up.
THEOREM OnlyMappedCoreWorksAlways == Spec => []OnlyMappedCoreWorks
<1>1. IInv => OnlyMappedCoreWorks
  BY DEF IInv, Mapping, WorkIsMapped, OnlyMappedCoreWorks, Early
<1> QED BY <1>1, Inductive, PTL
-----------------------------------------------------------------------------
(* What the refinement needs of the states besides IInv. *)

\* A stop is requested, a core leaves or has queued a thread only after the
\* application was set up; and only its core queues one.
StopIsLate == \A c \in Core : core[c].stop => main.pc \notin Early
LeaveIsLate == \A c \in Core : core[c].pc \in Leaving => main.pc \notin Early
OwnerQueues == \A c \in Core : core[c].inserted => c = process.core /\ main.pc \notin Early

RInv == StopIsLate /\ LeaveIsLate /\ OwnerQueues

LEMMA RInvInit == Init => RInv
BY DEF Init, RInv, StopIsLate, LeaveIsLate, OwnerQueues, Leaving

\* Before the application is set up every core is parked.
LEMMA EarlyParked ==
    ASSUME IInv, RInv, main.pc \in Early
    PROVE  \A c \in Core : Phase(c) = "parked"
<1>1. \A c \in Core : core[c].pc \notin Working \cup Leaving /\ ~core[c].inserted
  BY DEF IInv, RInv, WorkIsMapped, Mapping, LeaveIsLate, OwnerQueues
<1> QED BY <1>1 DEF Phase, Working

\* Main goes on, and the application's core is chosen early.
LEMMA MainGoesOn ==
    ASSUME IInv, MainStep \/ DestroyKill
    PROVE  /\ main.pc \notin Early => main'.pc \notin Early
           /\ process'.core # process.core => main.pc \in Early /\ process'.core \in Core
<1>1. /\ main \in [core : 0 .. TotalCoresCount, pc : MainPosition]
      /\ process \in [pid : {0, 1}, core : Core, loaded : BOOLEAN, threads : Seq(Thread)]
  BY DEF IInv, TypeOK
<1>2. main.pc \notin Early => main'.pc \notin Early
  <2>1. CASE JoinCore \/ DestroyClear \/ ReturnEarly
    BY <2>1 DEF JoinCore, DestroyClear, ReturnEarly, Early
  <2> QED BY <1>1, <2>1
          DEF MainStep, BootCore, BuildScheduler, CreateProcess, LoadGame, LoadGameDies,
              SetupApplicationProcess, EnableCore, DestroyKill, DisableCore, RequestStop,
              Main, Early
<1>3. process'.core # process.core => main.pc \in Early /\ process'.core \in Core
  <2>1. {0, DefaultCoreId} \subseteq Core
    BY CoreAssumption DEF Core
  <2> QED BY <1>1, <2>1
          DEF MainStep, BootCore, BuildScheduler, CreateProcess, LoadGame, LoadGameDies,
              ReturnEarly, SetupApplicationProcess, EnableCore, DestroyKill, DestroyClear,
              DisableCore, RequestStop, JoinCore, Main, Early
<1> QED BY <1>2, <1>3

\* What main changes of a core: it starts it, wakes it, or requests its stop.
LEMMA MainMovesCores ==
    ASSUME IInv, MainStep \/ DestroyKill, NEW c \in Core
    PROVE  /\ core'[c].inserted = core[c].inserted
           /\ core'[c].stop = core[c].stop \/ (core'[c].stop /\ main.pc \notin Early)
           /\ \/ core'[c].pc = core[c].pc
              \/ core[c].pc = "blocked" /\ core'[c].pc = "woken"
              \/ core'[c].pc = "top" /\ main.pc \in Early
<1>1. /\ core \in [Core -> CoreState] /\ core[c] \in CoreState /\ DOMAIN core = Core
      /\ process.core \in Core
  BY DEF IInv, TypeOK
<1>2. ASSUME NEW e \in Core, NEW enable \in BOOLEAN, Enabled(e, enable)
      PROVE  /\ core'[c].inserted = core[c].inserted /\ core'[c].stop = core[c].stop
             /\ core'[c].pc = core[c].pc \/ (core[c].pc = "blocked" /\ core'[c].pc = "woken")
  BY <1>1, <1>2 DEF Enabled, CoreState
<1>3. CASE BootCore
  BY <1>1, <1>3 DEF BootCore, To, CoreState, Early
<1>4. CASE EnableCore
  <2>1. Enabled(process.core, TRUE)
    BY <1>4 DEF EnableCore
  <2> QED BY <1>1, <1>2, <2>1
<1>5. CASE DisableCore
  <2>1. main.core \in Core /\ Enabled(main.core, FALSE)
    BY <1>5 DEF DisableCore, Main, IInv, MainIndex, Ending
  <2> QED BY <1>2, <2>1
<1>6. CASE RequestStop
  BY <1>1, <1>6 DEF RequestStop, Main, CoreState, Early
<1> QED BY <1>3, <1>4, <1>5, <1>6
        DEF MainStep, BuildScheduler, CreateProcess, LoadGame, LoadGameDies, ReturnEarly,
            SetupApplicationProcess, DestroyKill, DestroyClear, JoinCore

LEMMA MainKeepsRInv ==
    ASSUME IInv, RInv, MainStep \/ DestroyKill
    PROVE  RInv'
<1>1. StopIsLate'
  BY MainGoesOn, MainMovesCores DEF RInv, StopIsLate
<1>2. LeaveIsLate'
  BY MainGoesOn, MainMovesCores DEF RInv, LeaveIsLate, Leaving
<1>3. OwnerQueues'
  BY MainGoesOn, MainMovesCores DEF RInv, OwnerQueues
<1> QED BY <1>1, <1>2, <1>3 DEF RInv

\* A core's steps.

\* A core changes nobody but itself, and neither main nor the choice of its core.
LEMMA CoreIsAlone ==
    ASSUME IInv, NEW c \in Core, CoreStep(c) \/ SpuriousWakeup(c)
    PROVE  /\ \A d \in Core \ {c} : core'[d] = core[d]
           /\ UNCHANGED main /\ process'.core = process.core
           /\ core'[c].stop = core[c].stop
<1>1. /\ core \in [Core -> CoreState] /\ core[c] \in CoreState
      /\ process \in [pid : {0, 1}, core : Core, loaded : BOOLEAN, threads : Seq(Thread)]
  BY DEF IInv, TypeOK
<1> QED BY <1>1
        DEF CoreStep, CheckStop, EnterGate, SpuriousWakeup, LeaveGate, LookupCore, EnterTask,
            EnterTaskFaults, CreateThread, CreateThreadSpins, CreateThreadThrows, AddThread,
            AddThreadFaults, PreemptForCore, PreemptForCoreFaults, RemoveThreadAborts,
            EraseThread, PopCore, AfterPop, DeactivateCore, DeactivateThread,
            DeactivateThreadFaults, LowerGate, UnmapCore, At, To, Die, CoreState

\* Where a core's steps lead, by the part of its loop it is in.
LEMMA CoreMoves ==
    ASSUME IInv, NEW c \in Core, CoreStep(c) \/ SpuriousWakeup(c)
    PROVE  LET from == core[c].pc
               to == core'[c].pc
               kept == core'[c].inserted = core[c].inserted
           IN \/ kept /\ from = to
              \/ kept /\ from \in Waiting /\ to \in Waiting
              \/ kept /\ from = "top" /\ to = "deactivate" /\ core[c].stop
              \/ kept /\ from = "lookup" /\ to = "enter" /\ c \in corePid
              \/ kept /\ from = "enter" /\ to \in {"deactivate", "create", "pick"}
              \/ kept /\ from = "create" /\ to \in {"add", "spin"}
              \/ from = "add" /\ to = "top" /\ core'[c].inserted
              \/ kept /\ from = "pick" /\ to = "run"
              \/ kept /\ from = "run" /\ to = "pop"
              \/ from = "pop" /\ to = "deactivate" /\ ~core'[c].inserted
              \/ from \in Leaving /\ to \in Leaving /\ (kept \/ ~core'[c].inserted)
<1>1. core \in [Core -> CoreState] /\ core[c] \in CoreState
  BY DEF IInv, TypeOK
<1> QED BY <1>1
        DEF CoreStep, CheckStop, EnterGate, SpuriousWakeup, LeaveGate, LookupCore, EnterTask,
            EnterTaskFaults, CreateThread, CreateThreadSpins, CreateThreadThrows, AddThread,
            AddThreadFaults, PreemptForCore, PreemptForCoreFaults, RemoveThreadAborts,
            EraseThread, PopCore, AfterPop, DeactivateCore, DeactivateThread,
            DeactivateThreadFaults, LowerGate, UnmapCore, At, To, Die, CoreState, Leaving,
            Waiting

LEMMA CoreKeepsRInv ==
    ASSUME IInv, RInv, NEW c \in Core, CoreStep(c) \/ SpuriousWakeup(c)
    PROVE  RInv'
<1>1. StopIsLate'
  BY CoreIsAlone DEF RInv, StopIsLate
<1>2. core[c].pc \in Working => c = process.core /\ main.pc \notin Early
  BY DEF IInv, WorkIsMapped, Mapping
<1>3. LeaveIsLate'
  <2>1. core'[c].pc \in Leaving => main.pc \notin Early
    BY <1>2, CoreMoves
    DEF RInv, LeaveIsLate, StopIsLate, Leaving, Working, Waiting
  <2> QED BY <2>1, CoreIsAlone DEF RInv, LeaveIsLate
<1>4. OwnerQueues'
  <2>1. core'[c].inserted => core[c].inserted \/ core[c].pc = "add"
    BY CoreMoves
  <2>2. core'[c].inserted => c = process.core /\ main.pc \notin Early
    BY <1>2, <2>1 DEF RInv, OwnerQueues, Working
  <2> QED BY <2>2, CoreIsAlone DEF RInv, OwnerQueues
<1> QED BY <1>1, <1>3, <1>4 DEF RInv

-----------------------------------------------------------------------------
(* The refinement. *)

\* Main's steps choose the application's core while all are parked, or stutter.
LEMMA MainRefines ==
    ASSUME IInv, RInv, MainStep \/ DestroyKill
    PROVE  [Lifecycle!Next]_(Lifecycle!vars)
<1>1. \A c \in Core : Phase(c)' = Phase(c)
  <2> SUFFICES ASSUME NEW c \in Core PROVE Phase(c)' = Phase(c)
    OBVIOUS
  <2>1. CASE main.pc \in Early
    <3>1. core[c].pc \notin Working \cup Leaving /\ ~core[c].inserted
      BY <2>1 DEF IInv, RInv, WorkIsMapped, Mapping, LeaveIsLate, OwnerQueues
    <3>2. core'[c].pc \notin Working \cup Leaving /\ ~core'[c].inserted
      BY <3>1, MainMovesCores DEF Working, Leaving
    <3> QED BY <3>1, <3>2 DEF Phase, Working
  <2>2. CASE main.pc \notin Early
    BY <2>2, MainMovesCores DEF Phase, Working, Leaving, Waiting
  <2> QED BY <2>1, <2>2
<1>2. CASE process'.core = process.core
  BY <1>1, <1>2 DEF Lifecycle!vars
<1>3. CASE process'.core # process.core
  <2>1. process'.core \in Core /\ \A c \in Core : Phase(c) = "parked"
    BY <1>3, MainGoesOn, EarlyParked
  <2>2. Lifecycle!Assign(process'.core)
    BY <1>1, <2>1 DEF Lifecycle!Assign
  <2> QED BY <2>1, <2>2 DEF Lifecycle!Next
<1> QED BY <1>2, <1>3

\* A core's steps move it along the lifecycle, or stutter.
LEMMA CoreRefines ==
    ASSUME IInv, RInv, NEW c \in Core, CoreStep(c) \/ SpuriousWakeup(c)
    PROVE  [Lifecycle!Next]_(Lifecycle!vars)
<1>1. /\ process'.core = process.core
      /\ \A d \in Core \ {c} : Phase(d)' = Phase(d)
  BY CoreIsAlone DEF Phase
<1>2. c \in corePid => c = process.core
  BY DEF IInv, Mapping
<1>3. \/ Phase(c)' = Phase(c)
      \/ Phase(c) = "parked" /\ Phase(c)' = "active" /\ c = process.core
      \/ Phase(c) = "active" /\ Phase(c)' = "executing"
      \/ Phase(c) \in {"parked", "active", "executing"} /\ Phase(c)' = "retired"
  BY <1>2, CoreMoves DEF Phase, Working, Leaving, Waiting
<1>4. ASSUME NEW from, NEW to, Phase(c) \in from, Phase(c)' = to
      PROVE  Lifecycle!Move(c, from, to)
  BY <1>1, <1>4 DEF Lifecycle!Move
<1>5. CASE Phase(c)' = Phase(c)
  BY <1>1, <1>5 DEF Lifecycle!vars
<1>6. CASE Phase(c) = "parked" /\ Phase(c)' = "active" /\ c = process.core
  <2>1. Lifecycle!Activate(c)
    BY <1>4, <1>6 DEF Lifecycle!Activate
  <2> QED BY <2>1 DEF Lifecycle!Next
<1>7. CASE Phase(c) = "active" /\ Phase(c)' = "executing"
  <2>1. Lifecycle!Execute(c)
    BY <1>4, <1>7 DEF Lifecycle!Execute
  <2> QED BY <2>1 DEF Lifecycle!Next
<1>8. CASE Phase(c) \in {"parked", "active", "executing"} /\ Phase(c)' = "retired"
  <2>1. Lifecycle!Retire(c)
    BY <1>4, <1>8 DEF Lifecycle!Retire
  <2> QED BY <2>1 DEF Lifecycle!Next
<1> QED BY <1>3, <1>5, <1>6, <1>7, <1>8

\* CoreScheduling implements CoreLifecycle: no order of the core's looking itself
\* up, main's notifications and the teardown activates a core that does not own
\* the application, runs the guest on a second occasion or revives a retired core.
THEOREM RefinesLifecycle == Spec => ImplementsLifecycle
<1>1. Init => RInv /\ Lifecycle!Init
  <2>1. Init => process.core \in Core /\ \A c \in Core : Phase(c) = "parked"
    BY CoreAssumption DEF Init, Phase, Core, Leaving, Working
  <2> QED BY <2>1, RInvInit DEF Lifecycle!Init
<1>2. IInv /\ RInv /\ [Next]_vars => RInv' /\ [Lifecycle!Next]_(Lifecycle!vars)
  <2> SUFFICES ASSUME IInv, RInv, [Next]_vars
               PROVE  RInv' /\ [Lifecycle!Next]_(Lifecycle!vars)
    OBVIOUS
  <2>1. CASE MainStep \/ DestroyKill
    BY <2>1, MainKeepsRInv, MainRefines
  <2>2. ASSUME NEW c \in Core, CoreStep(c) \/ SpuriousWakeup(c)
        PROVE  RInv' /\ [Lifecycle!Next]_(Lifecycle!vars)
    BY <2>2, CoreKeepsRInv, CoreRefines
  <2>3. CASE UNCHANGED vars
    BY <2>3 DEF vars, RInv, StopIsLate, LeaveIsLate, OwnerQueues, Lifecycle!vars, Phase
  <2> QED BY <2>1, <2>2, <2>3 DEF Next
<1> QED BY <1>1, <1>2, Inductive, PTL DEF Spec, ImplementsLifecycle, Lifecycle!Spec
-----------------------------------------------------------------------------
(* The scheduler and the process. *)

\* Main's positions once the process was destroyed.
Over == Ending \cup {"exit"}

\* The application's core, its positions before it first takes a thread out of
\* the queue, and whether it has.
Owner == core[process.core]
Before == Waiting \cup {"unborn", "enter", "create", "spin", "pick"}
Ran == thr.ran # {}

\* By how much the pushes on sched.cores outnumber the pops.
Balance == Len(sched.cores) - sched.debt

\* A stop is requested when it is over; the pid is given back then, unless main
\* returned before it set the application up: no core works for it and none will.
StopIsOver == \A c \in Core : core[c].stop => main.pc \in Over
NeverSetUp == thr.created = 0 /\ corePid = {}
PidIsUp ==
    /\ main.pc \notin {"boot", "process"} /\ process.pid = 0 => main.pc \in Over
    /\ main.pc \in Over => process.pid = 0 \/ NeverSetUp

\* The process lists its last thread or none: its first until it is destroyed,
\* and a second one only if that is late.
Listed ==
    /\ thr.created \in 0 .. 2 /\ process.threads \in {<<>>, <<thr.created>>}
    /\ thr.created = 0 => process.threads = <<>>
    /\ thr.created = 2 => process.threads = <<2>>
    /\ main.pc \in Early => thr.created = 0
    /\ thr.created # 0 /\ main.pc \notin Over => process.threads = <<1>>

\* What is left of DeactivateCore's walk: nothing unless the core leaves.
WalksWhileLeaving == \A c \in Core : core[c].pc \notin Leaving => core[c].todo = <<>>

\* Another core leaves only when stopped, and may walk a late thread.
OthersWalkLate ==
    \A d \in Core \ {process.core} :
        /\ core[d].pc \in Leaving => core[d].stop
        /\ core[d].todo \in {<<>>, process.threads}
        /\ core[d].pc \in {"loopRemove", "loopPop"} => core[d].thread = thr.created

\* What may be queued before and after the owner's turn, n threads being created.
QueuedBefore(n) == {q \in {<<>>, <<1>>, <<1, 2>>} : n - 1 <= Len(q) /\ Len(q) <= n}
QueuedAfter(n) == {q \in {<<>>, <<2>>} : Len(q) < n}

\* The owner goes to its turn: late or not, what it has pushed bounds what is queued.
OwnerBefore ==
    Owner.pc \in Before =>
        /\ ~Ran /\ Balance <= thr.created
        /\ sched.threads \in QueuedBefore(thr.created)
        /\ thr.created # 0 /\ process.threads = <<>> => sched.threads = <<1>>
        /\ Owner.inserted \/ Owner.pc = "pick" => thr.created # 0
        /\ Owner.pc = "create" => process.threads = <<>>

\* ... it is about to push the thread it created ...
OwnerAdds ==
    Owner.pc = "add" =>
        /\ ~Ran /\ thr.created # 0 /\ Balance < thr.created
        /\ thr.created \notin thr.running
        /\ sched.threads = (IF thr.created = 1 THEN <<>> ELSE <<1>>)

\* ... it runs the first thread and takes it out ...
OwnerTurn ==
    Owner.pc \in {"run", "pop"} =>
        /\ Ran /\ Owner.thread = 1 /\ thr.created # 0 /\ Balance <= thr.created
        /\ sched.threads \in (IF Owner.pc = "run" THEN QueuedBefore(thr.created)
                              ELSE QueuedAfter(thr.created))

\* ... and, leaving, removes what the process still lists.
OwnerAfter ==
    Owner.pc \in Leaving /\ Ran =>
        /\ thr.created # 0 /\ thr.running \subseteq {2}
        /\ sched.threads \in QueuedAfter(thr.created)
        /\ Owner.pc = "deactivate" => Balance < thr.created
        /\ Owner.pc # "deactivate" =>
              /\ Owner.todo \in {<<>>, <<thr.created>>} /\ Balance <= Len(Owner.todo)
              /\ Owner.todo = <<>> => sched.threads = <<>> /\ thr.running = {}
        /\ Owner.pc \in {"loopRemove", "loopPop"} => Owner.thread = thr.created
        /\ Owner.pc = "loopPop" => sched.threads = <<>>
        /\ Owner.pc \in {"unmap", "done"} => Owner.todo = <<>>

\* The end of cores goes below its begin only when it is empty.
DebtWhenEmpty == sched.debt > 0 => sched.cores = <<>>

\* Without a late thread the containers hold the first thread and its core, from
\* the owner's push to its removal.
Empty == sched = [threads |-> <<>>, cores |-> <<>>, debt |-> 0] /\ thr.running = {}
Full == /\ sched = [threads |-> <<1>>, cores |-> <<process.core>>, debt |-> 0]
        /\ thr.running = {1}

InStep ==
    ~LateThread =>
        /\ thr.created = 0 \/ Owner.pc = "add" => Empty
        /\ thr.created # 0 /\ Owner.pc \in Before \cup {"run"} => Full
        /\ Owner.pc = "pop" =>
              sched = [threads |-> <<>>, cores |-> <<process.core>>, debt |-> 0]
        /\ Owner.pc \in Leaving /\ Ran => sched.threads = <<>> /\ sched.cores = <<>>
        /\ Owner.pc \in Leaving /\ ~Ran =>
              Owner.stop /\ Owner.todo = <<>> /\ (thr.created # 0 => Full)

\* Who is done is no longer mapped.
DoneIsUnmapped == \A c \in Core : core[c].pc = "done" => c \notin corePid

SInv ==
    /\ StopIsOver /\ PidIsUp /\ Listed /\ WalksWhileLeaving /\ OthersWalkLate
    /\ OwnerBefore /\ OwnerAdds /\ OwnerTurn /\ OwnerAfter
    /\ DebtWhenEmpty /\ InStep /\ DoneIsUnmapped
-----------------------------------------------------------------------------
(* Lemmas about short sequences. *)

\* A sequence of one or two elements, written out.
LEMMA Short ==
    ASSUME NEW S, NEW list \in Seq(S)
    PROVE  /\ Len(list) = 0 => list = <<>>
           /\ Len(list) = 1 => list = <<list[1]>>
           /\ Len(list) = 2 => list = <<list[1], list[2]>>
<1>0. /\ list \in [1 .. Len(list) -> S] /\ Len(list) \in Nat
      /\ \A i \in 1 .. Len(list) : list[i] \in S
  BY LenProperties, ElementOfSeq
<1>1. Len(list) = 0 => list = <<>>
  BY EmptySeq
<1>2. ASSUME Len(list) = 1 PROVE list = <<list[1]>>
  <2>1. <<list[1]>> \in Seq(S) /\ Len(<<list[1]>>) = 1
    BY <1>0, <1>2
  <2> QED BY <1>2, <2>1, SeqEqual
<1>3. ASSUME Len(list) = 2 PROVE list = <<list[1], list[2]>>
  <2>1. <<list[1], list[2]>> \in Seq(S) /\ Len(<<list[1], list[2]>>) = 2
    BY <1>0, <1>3
  <2> QED BY <1>3, <2>1, SeqEqual
<1> QED BY <1>1, <1>2, <1>3

\* The ends of the sequences that occur.
LEMMA Ends ==
    /\ Append(<<>>, 1) = <<1>> /\ Append(<<1>>, 2) = <<1, 2>>
    /\ Head(<<1, 2>>) = 1
    /\ \A x : /\ Head(<<x>>) = x /\ Tail(<<x>>) = <<>> /\ Front(<<x>>) = <<>>
              /\ Append(<<>>, x) = <<x>> /\ ToSet(<<x>>) = {x} /\ <<x>> # <<>>
    /\ ToSet(<<>>) = {} /\ ToSet(<<1, 2>>) = {1, 2}
    /\ Len(<<>>) = 0 /\ Len(<<1, 2>>) = 2 /\ \A x : Len(<<x>>) = 1
    /\ <<1>> # <<2>> /\ <<1, 2>> # <<>>
<1>1. Append(<<>>, 1) = <<1>> /\ Append(<<1>>, 2) = <<1, 2>>
  <2>1. Append(<<>>, 1) = <<1>>
    OBVIOUS
  <2>2. <<1>> \in Seq(Nat) /\ Len(<<1>>) = 1 /\ <<1>>[1] = 1
    OBVIOUS
  <2>3. /\ Append(<<1>>, 2) \in Seq(Nat) /\ Len(Append(<<1>>, 2)) = 2
        /\ Append(<<1>>, 2)[1] = 1 /\ Append(<<1>>, 2)[2] = 2
    BY <2>2, AppendProperties
  <2>4. Append(<<1>>, 2) = <<1, 2>>
    BY <2>3, Short
  <2> QED BY <2>1, <2>4
<1>2. Head(<<1, 2>>) = 1
  OBVIOUS
<1>3. ASSUME NEW x
      PROVE  /\ Head(<<x>>) = x /\ Tail(<<x>>) = <<>> /\ Front(<<x>>) = <<>>
             /\ Append(<<>>, x) = <<x>> /\ ToSet(<<x>>) = {x} /\ <<x>> # <<>>
  <2>1. Head(<<x>>) = x /\ <<x>> # <<>> /\ Append(<<>>, x) = <<x>>
    OBVIOUS
  <2>2. Tail(<<x>>) = <<>>
    OBVIOUS
  <2>3. Front(<<x>>) = <<>>
    BY DEF Front
  <2>4. ToSet(<<x>>) = {x}
    BY DEF ToSet
  <2> QED BY <2>1, <2>2, <2>3, <2>4
<1>4. ToSet(<<>>) = {} /\ ToSet(<<1, 2>>) = {1, 2}
  BY DEF ToSet
<1>5. Len(<<>>) = 0 /\ Len(<<1, 2>>) = 2 /\ \A x : Len(<<x>>) = 1
  OBVIOUS
<1>6. <<1>> # <<2>> /\ <<1, 2>> # <<>>
  OBVIOUS
<1> QED BY <1>1, <1>2, <1>3, <1>4, <1>5, <1>6

\* A sequence without its last element is shorter by one.
LEMMA FrontShortens ==
    ASSUME NEW S, NEW list \in Seq(S), list # <<>>
    PROVE  Len(Front(list)) = Len(list) - 1
<1>1. Len(list) \in Nat \ {0} /\ \A i \in 1 .. Len(list) - 1 : list[i] \in S
  BY EmptySeq, ElementOfSeq
<1> DEFINE last == Len(list) - 1
<1>2. last \in Nat /\ \A i \in 1 .. last : list[i] \in S
  BY <1>1
<1> HIDE DEF last
<1>3. Len(SubSeq(list, 1, last)) = IF 1 <= last THEN last - 1 + 1 ELSE 0
  BY <1>2, SubSeqProperties
<1>4. Len(SubSeq(list, 1, last)) = last
  BY <1>2, <1>3
<1> QED BY <1>4 DEF Front, last

\* What erasing makes of the queues that occur.
LEMMA Erasing ==
    /\ \A t : WithoutFirst(<<>>, t) = <<>>
    /\ \A s, t : WithoutFirst(<<s>>, t) = (IF s = t THEN <<>> ELSE <<s>>)
    /\ WithoutFirst(<<1, 2>>, 1) = <<2>>
    /\ WithoutFirst(<<1, 2>>, 2) = <<1>>
<1>1. \A t : WithoutFirst(<<>>, t) = <<>>
  BY Ends DEF WithoutFirst
<1>2. ASSUME NEW s, NEW t
      PROVE  WithoutFirst(<<s>>, t) = (IF s = t THEN <<>> ELSE <<s>>)
  <2>1. CASE s # t
    BY <2>1, Ends DEF WithoutFirst
  <2>2. CASE s = t
    <3> DEFINE first == CHOOSE i \in DOMAIN <<s>> :
                           <<s>>[i] = t /\ \A j \in 1 .. i - 1 : <<s>>[j] # t
    <3>1. DOMAIN <<s>> = {1} /\ <<s>>[1] = s
      OBVIOUS
    <3>2. first = 1
      BY <2>2, <3>1
    <3> HIDE DEF first
    <3>3. RemoveAt(<<s>>, first) = <<>>
      BY <3>2 DEF RemoveAt
    <3> QED BY <2>2, <3>3, Ends DEF WithoutFirst, first
  <2> QED BY <2>1, <2>2
<1>3. WithoutFirst(<<1, 2>>, 1) = <<2>>
  <2> DEFINE first == CHOOSE i \in DOMAIN <<1, 2>> :
                         <<1, 2>>[i] = 1 /\ \A j \in 1 .. i - 1 : <<1, 2>>[j] # 1
  <2>1. DOMAIN <<1, 2>> = {1, 2} /\ <<1, 2>>[1] = 1 /\ <<1, 2>>[2] = 2
    OBVIOUS
  <2>2. first = 1
    BY <2>1
  <2> HIDE DEF first
  <2>3. RemoveAt(<<1, 2>>, first) = <<2>>
    <3>1. /\ \A i \in 1 .. 2 : <<1, 2>>[i] \in Nat
          /\ Len(<<1, 2>>) = 2
      BY <2>1
    <3>2. /\ SubSeq(<<1, 2>>, 1, 0) \in Seq(Nat) /\ Len(SubSeq(<<1, 2>>, 1, 0)) = 0
          /\ SubSeq(<<1, 2>>, 2, 2) \in Seq(Nat) /\ Len(SubSeq(<<1, 2>>, 2, 2)) = 1
          /\ SubSeq(<<1, 2>>, 2, 2)[1] = 2
      BY <2>1, <3>1, SubSeqProperties
    <3> DEFINE rest == SubSeq(<<1, 2>>, 1, 0) \o SubSeq(<<1, 2>>, 2, 2)
    <3>3. rest \in Seq(Nat) /\ Len(rest) = 1 /\ rest[1] = 2
      BY <3>2, ConcatProperties
    <3>4. rest = <<2>>
      BY <3>3, Short
    <3> QED BY <2>2, <3>1, <3>4 DEF RemoveAt
  <2> QED BY <2>3, Ends DEF WithoutFirst, first
<1>4. WithoutFirst(<<1, 2>>, 2) = <<1>>
  <2> DEFINE first == CHOOSE i \in DOMAIN <<1, 2>> :
                         <<1, 2>>[i] = 2 /\ \A j \in 1 .. i - 1 : <<1, 2>>[j] # 2
  <2>1. DOMAIN <<1, 2>> = {1, 2} /\ <<1, 2>>[1] = 1 /\ <<1, 2>>[2] = 2
    OBVIOUS
  <2>2. first = 2
    BY <2>1
  <2> HIDE DEF first
  <2>3. RemoveAt(<<1, 2>>, first) = <<1>>
    <3>1. /\ \A i \in 1 .. 2 : <<1, 2>>[i] \in Nat
          /\ Len(<<1, 2>>) = 2
      BY <2>1
    <3>2. /\ SubSeq(<<1, 2>>, 1, 1) \in Seq(Nat) /\ Len(SubSeq(<<1, 2>>, 1, 1)) = 1
          /\ SubSeq(<<1, 2>>, 3, 2) \in Seq(Nat) /\ Len(SubSeq(<<1, 2>>, 3, 2)) = 0
          /\ SubSeq(<<1, 2>>, 1, 1)[1] = 1
      BY <2>1, <3>1, SubSeqProperties
    <3> DEFINE rest == SubSeq(<<1, 2>>, 1, 1) \o SubSeq(<<1, 2>>, 3, 2)
    <3>3. rest \in Seq(Nat) /\ Len(rest) = 1 /\ rest[1] = 1
      BY <3>2, ConcatProperties
    <3>4. rest = <<1>>
      BY <3>3, Short
    <3> QED BY <2>2, <3>1, <3>4 DEF RemoveAt
  <2> QED BY <2>3, Ends DEF WithoutFirst, first
<1> QED BY <1>1, <1>2, <1>3, <1>4

-----------------------------------------------------------------------------
(* Main's steps. *)

\* What main leaves alone, and what only the end of the process changes.
LEMMA MainLeaves ==
    ASSUME IInv, MainStep \/ DestroyKill
    PROVE  /\ sched' = sched /\ thr'.created = thr.created
           /\ thr'.running = thr.running /\ thr'.ran = thr.ran
           /\ \A c \in Core : core'[c].todo = core[c].todo /\ core'[c].thread = core[c].thread
           /\ \A c \in Core : core'[c].stop => core[c].stop \/ main'.pc \in Over
           /\ main.pc \in Over => main'.pc \in Over
           /\ corePid' = corePid \/ (main.pc = "setup" /\ corePid' = corePid \cup {process.core})
<1>1. /\ core \in [Core -> CoreState] /\ DOMAIN core = Core /\ process.core \in Core
      /\ main \in [core : 0 .. TotalCoresCount, pc : MainPosition]
      /\ thr \in [created : Nat, running : SUBSET Thread, killed : SUBSET Thread,
                  ran : SUBSET Thread]
  BY DEF IInv, TypeOK
<1>2. ASSUME NEW e \in Core, NEW enable \in BOOLEAN, Enabled(e, enable), NEW c \in Core
      PROVE  /\ core'[c].todo = core[c].todo /\ core'[c].thread = core[c].thread
             /\ core'[c].stop = core[c].stop
  BY <1>1, <1>2 DEF Enabled, CoreState
<1>3. CASE BootCore
  BY <1>1, <1>3 DEF BootCore, To, CoreState, Over, Ending
<1>4. CASE EnableCore
  <2>1. Enabled(process.core, TRUE)
    BY <1>4 DEF EnableCore
  <2> QED BY <1>1, <1>2, <1>4, <2>1 DEF EnableCore, Main, Over, Ending
<1>5. CASE DisableCore
  <2>1. main.core \in Core /\ Enabled(main.core, FALSE)
    BY <1>5 DEF DisableCore, Main, IInv, MainIndex, Ending
  <2> QED BY <1>1, <1>2, <1>5, <2>1 DEF DisableCore, Main, Over, Ending
<1>6. CASE RequestStop
  BY <1>1, <1>6 DEF RequestStop, Main, CoreState, Over, Ending
<1>7. CASE JoinCore
  BY <1>1, <1>7 DEF JoinCore, Over, Ending
<1>8. CASE DestroyKill \/ DestroyClear
  BY <1>1, <1>8 DEF DestroyKill, DestroyClear, Main, Over, Ending
<1>9. CASE \/ BuildScheduler \/ CreateProcess \/ LoadGame \/ LoadGameDies \/ ReturnEarly
           \/ SetupApplicationProcess
  BY <1>1, <1>9
  DEF BuildScheduler, CreateProcess, LoadGame, LoadGameDies, ReturnEarly,
      SetupApplicationProcess, Main, Over, Ending
<1> QED BY <1>3, <1>4, <1>5, <1>6, <1>7, <1>8, <1>9 DEF MainStep

\* The process's pid and list change when it is made and when it is destroyed.
LEMMA MainKeepsProcess ==
    ASSUME IInv, PidIsUp, Listed, MainStep \/ DestroyKill
    PROVE  /\ PidIsUp'
           /\ \/ process'.threads = process.threads
              \/ main.pc = "clear" /\ process'.threads = <<>> /\ main'.pc \in Over
           /\ main.pc \notin Early /\ main.pc # "clear" =>
                 process'.pid = process.pid
<1>1. /\ main \in [core : 0 .. TotalCoresCount, pc : MainPosition]
      /\ process \in [pid : {0, 1}, core : Core, loaded : BOOLEAN, threads : Seq(Thread)]
  BY DEF IInv, TypeOK
<1>2. /\ main.pc \in Early => NeverSetUp
      /\ main.pc \in Over /\ NeverSetUp => NeverSetUp'
      /\ main.pc \in Early /\ main'.pc \in Over => NeverSetUp'
  <2>1. main.pc \in Early => NeverSetUp
    BY DEF Listed, NeverSetUp, IInv, Mapping
  <2>2. main.pc = "setup" => main'.pc \notin Over /\ main.pc \notin Over
    BY DEF MainStep, BootCore, BuildScheduler, CreateProcess, LoadGame, LoadGameDies,
           ReturnEarly, SetupApplicationProcess, EnableCore, DestroyKill, DestroyClear,
           DisableCore, RequestStop, JoinCore, Main, IInv, TypeOK, Over, Ending
  <2> QED BY <2>1, <2>2, MainLeaves DEF NeverSetUp
<1>3. CASE BootCore \/ BuildScheduler \/ LoadGameDies
  BY <1>1, <1>3 DEF BootCore, BuildScheduler, LoadGameDies, Main, PidIsUp, Over, Ending
<1>4. CASE CreateProcess
  BY <1>1, <1>4 DEF CreateProcess, Main, PidIsUp, Over, Ending, Early
<1>5. CASE LoadGame
  <2>1. /\ main.pc = "load" /\ main'.pc = "setup"
        /\ process'.threads = process.threads /\ process'.pid = process.pid
    BY <1>1, <1>5 DEF LoadGame, Main
  <2> QED BY <2>1 DEF PidIsUp, Over, Ending, Early
<1>6. CASE ReturnEarly
  <2>1. main.pc = "load" /\ main'.pc = "disable" /\ process' = process
    BY <1>6 DEF ReturnEarly
  <2>2. NeverSetUp'
    BY <1>2, <2>1 DEF Early, Over, Ending
  <2> QED BY <2>1, <2>2 DEF PidIsUp, Over, Ending, Early
<1>7. CASE SetupApplicationProcess \/ EnableCore \/ DestroyKill
  BY <1>1, <1>7 DEF SetupApplicationProcess, EnableCore, DestroyKill, Main, PidIsUp, Over, Ending
<1>8. CASE DestroyClear
  BY <1>1, <1>8 DEF DestroyClear, PidIsUp, Over, Ending
<1>9. CASE DisableCore \/ RequestStop \/ JoinCore
  <2>1. main.pc \in Over /\ main'.pc \in Over /\ process' = process
    <3>1. CASE DisableCore \/ RequestStop
      BY <1>1, <3>1 DEF DisableCore, RequestStop, Main, Over, Ending
    <3>2. CASE JoinCore
      BY <3>2 DEF JoinCore, Over, Ending
    <3> QED BY <1>9, <3>1, <3>2
  <2> QED BY <1>2, <2>1 DEF PidIsUp
<1> QED BY <1>3, <1>4, <1>5, <1>6, <1>7, <1>8, <1>9 DEF MainStep

\* Before the application is set up there is no session to speak of.
LEMMA EarlySession ==
    ASSUME IInv, RInv, SInv, main.pc \in Early
    PROVE  /\ thr.created = 0 /\ process.threads = <<>> /\ ~Ran /\ Empty
           /\ \A c \in Core : /\ core[c].pc \in Waiting \cup {"unborn"}
                              /\ core[c].todo = <<>> /\ ~core[c].inserted
<1>1. \A c \in Core : core[c].pc \notin Working \cup Leaving /\ ~core[c].inserted
  BY DEF IInv, RInv, WorkIsMapped, Mapping, LeaveIsLate, OwnerQueues
<1>2. process.core \in Core /\ \A c \in Core : core[c].pc \in CorePosition
  BY DEF IInv, TypeOK, CoreState
<1>3. \A c \in Core : /\ core[c].pc \in Waiting \cup {"unborn"}
                      /\ core[c].todo = <<>> /\ ~core[c].inserted
  BY <1>1, <1>2 DEF SInv, WalksWhileLeaving, CorePosition
<1>4. thr.created = 0 /\ process.threads = <<>>
  BY DEF SInv, Listed
<1>5. ~Ran /\ Owner.pc \in Before
  BY <1>2, <1>3 DEF SInv, OwnerBefore, Owner, Before
<1> QED BY <1>3, <1>4, <1>5 DEF SInv, InStep, LateThread

LEMMA MainKeepsSession ==
    ASSUME IInv, RInv, SInv, MainStep \/ DestroyKill
    PROVE  SInv'
<1>1. /\ process.core \in Core /\ process'.core \in Core
      /\ main.pc \notin Early => process'.core = process.core
  <2>1. process.core \in Core
    BY DEF IInv, TypeOK
  <2> QED BY <2>1, MainGoesOn
<1>2. StopIsOver'
  BY MainLeaves DEF SInv, StopIsOver
<1>3. PidIsUp'
  BY MainKeepsProcess DEF SInv
<1>4. Listed' /\ DebtWhenEmpty'
  <2>1. "clear" \notin Over
    BY DEF Over, Ending
  <2>2. main.pc \notin Over /\ thr.created # 0 => process.threads = <<1>> /\ thr.created = 1
    BY <2>1, Ends DEF SInv, Listed
  <2>3. /\ thr'.created = thr.created /\ sched' = sched
        /\ main.pc \in Over => main'.pc \in Over
        /\ main'.pc \in Early => main.pc \in Early
    BY MainLeaves, MainGoesOn
  <2>4. DebtWhenEmpty'
    BY <2>3 DEF SInv, DebtWhenEmpty
  <2>5. CASE process'.threads = process.threads
    BY <2>3, <2>4, <2>5 DEF SInv, Listed
  <2>6. CASE main.pc = "clear" /\ process'.threads = <<>> /\ main'.pc \in Over
    <3>1. main.pc \notin Over
      BY <2>1, <2>6
    <3>2. thr.created # 2 /\ thr.created \in 0 .. 2
      BY <2>2, <3>1 DEF SInv, Listed
    <3> QED BY <2>3, <2>4, <2>6, <3>2 DEF SInv, Listed
  <2> QED BY <2>4, <2>5, <2>6, MainKeepsProcess DEF SInv
<1>5. WalksWhileLeaving'
  <2> SUFFICES ASSUME NEW c \in Core, core'[c].pc \notin Leaving PROVE core'[c].todo = <<>>
    BY DEF WalksWhileLeaving
  <2>1. core[c].pc \notin Leaving
    BY MainMovesCores DEF RInv, LeaveIsLate, Leaving
  <2> QED BY <2>1, MainLeaves DEF SInv, WalksWhileLeaving
<1>6. DoneIsUnmapped'
  <2> SUFFICES ASSUME NEW c \in Core, core'[c].pc = "done" PROVE c \notin corePid'
    BY DEF DoneIsUnmapped
  <2>1. core[c].pc = "done" /\ main.pc \notin Early
    BY MainMovesCores DEF RInv, LeaveIsLate, Leaving
  <2> QED BY <2>1, MainLeaves DEF SInv, DoneIsUnmapped, Early
<1>7. CASE main.pc \in Early
  <2>1. /\ thr.created = 0 /\ process.threads = <<>> /\ ~Ran /\ Empty
        /\ \A c \in Core : core'[c].pc \in Waiting \cup {"unborn"}
                           /\ core'[c].todo = <<>> /\ ~core'[c].inserted
    BY <1>7, EarlySession, MainMovesCores, MainLeaves DEF Waiting
  <2>2. thr'.created = 0 /\ process'.threads = <<>> /\ ~Ran' /\ Empty'
    BY <2>1, MainLeaves, MainKeepsProcess DEF Ran, Empty, SInv
  <2>3. OthersWalkLate'
    BY <2>1 DEF OthersWalkLate, Waiting, Leaving
  <2>4. Owner'.pc \in Waiting \cup {"unborn"} /\ ~Owner'.inserted
    BY <1>1, <2>1 DEF Owner
  <2>5. OwnerBefore'
    BY <2>2, <2>4, Ends DEF OwnerBefore, Waiting, Balance, Empty, QueuedBefore
  <2>6. OwnerAdds' /\ OwnerTurn' /\ OwnerAfter' /\ InStep'
    BY <2>2, <2>4 DEF OwnerAdds, OwnerTurn, OwnerAfter, InStep, Waiting, Leaving
  <2> QED BY <1>2, <1>3, <1>4, <1>5, <1>6, <2>3, <2>5, <2>6 DEF SInv
<1>8. CASE main.pc \notin Early
  <2>1. /\ process'.core = process.core
        /\ Owner'.pc = Owner.pc \/ (Owner.pc \in Waiting /\ Owner'.pc \in Waiting)
        /\ Owner'.inserted = Owner.inserted /\ Owner'.todo = Owner.todo
        /\ Owner'.thread = Owner.thread
        /\ Owner.stop => Owner'.stop
    BY <1>1, <1>8, MainMovesCores, MainLeaves DEF Owner, Waiting
  <2>2. OthersWalkLate'
    <3> SUFFICES ASSUME NEW d \in Core \ {process.core}
                 PROVE  /\ core'[d].pc \in Leaving => core'[d].stop
                        /\ core'[d].todo \in {<<>>, process'.threads}
                        /\ core'[d].pc \in {"loopRemove", "loopPop"} =>
                              core'[d].thread = thr'.created
      BY <2>1 DEF OthersWalkLate
    <3>1. core[d].stop => core'[d].stop
      BY MainMovesCores
    <3>2. core'[d].pc \in Leaving => core[d].pc = core'[d].pc
      BY <1>8, MainMovesCores DEF Leaving
    <3>3. main.pc = "clear" => core[d].todo = <<>>
      BY DEF SInv, WalksWhileLeaving, OthersWalkLate, StopIsOver, Over, Ending
    <3> QED BY <3>1, <3>2, <3>3, MainLeaves, MainKeepsProcess
            DEF SInv, OthersWalkLate, Leaving
  <2>3. LateThread => LateThread'
    BY <1>8, MainKeepsProcess DEF SInv, PidIsUp, LateThread, Early, Over, Ending
  <2>4. main.pc = "clear" => ~LateThread
    BY DEF SInv, PidIsUp, LateThread, Over, Ending
  <2>5. OwnerBefore'
    <3>1. CASE process'.threads = process.threads
      BY <2>1, <3>1, MainLeaves
      DEF SInv, OwnerBefore, Before, Waiting, Balance, Ran
    <3>2. CASE main.pc = "clear" /\ process'.threads = <<>>
      BY <2>1, <2>4, <3>2, MainLeaves
      DEF SInv, OwnerBefore, Before, Waiting, Balance, Ran, InStep, Full
    <3> QED BY <3>1, <3>2, MainKeepsProcess DEF SInv
  <2>6. OwnerAdds' /\ OwnerTurn' /\ OwnerAfter'
    <3>1. /\ Balance' = Balance /\ Ran' = Ran /\ thr'.created = thr.created
          /\ thr'.running = thr.running /\ sched'.threads = sched.threads
      BY MainLeaves DEF Balance, Ran
    <3>2. OwnerAdds'
      BY <2>1, <3>1 DEF SInv, OwnerAdds, Waiting
    <3>3. OwnerTurn'
      BY <2>1, <3>1 DEF SInv, OwnerTurn, Waiting, QueuedBefore, QueuedAfter
    <3>4. OwnerAfter'
      BY <2>1, <3>1 DEF SInv, OwnerAfter, Waiting, Leaving, QueuedAfter
    <3> QED BY <3>2, <3>3, <3>4
  <2>7. InStep'
    <3>1. ~LateThread' => ~LateThread
      BY <2>3
    <3>2. /\ Ran' = Ran /\ thr'.created = thr.created /\ Empty' = Empty /\ Full' = Full
          /\ sched' = sched
      BY <2>1, MainLeaves DEF Ran, Empty, Full
    <3> HIDE DEF Empty, Full, Ran
    <3>3. /\ Owner'.pc \in Before => Owner.pc \in Before
          /\ Owner'.pc \notin Before => Owner'.pc = Owner.pc
      BY <2>1 DEF Before, Waiting
    <3> QED BY <2>1, <3>1, <3>2, <3>3 DEF SInv, InStep, Before, Waiting, Leaving
  <2> QED BY <1>2, <1>3, <1>4, <1>5, <1>6, <2>2, <2>5, <2>6, <2>7 DEF SInv
<1> QED BY <1>7, <1>8

-----------------------------------------------------------------------------
(* The steps of the other cores. *)

\* What any core leaves alone.
LEMMA CoreLeaves ==
    ASSUME IInv, NEW c \in Core, CoreStep(c) \/ SpuriousWakeup(c)
    PROVE  /\ process'.pid = process.pid
           /\ \/ corePid' = corePid /\ core'[c].pc # "done"
              \/ corePid' = corePid /\ core'[c].pc = core[c].pc
              \/ corePid' = corePid \ {c}
           /\ core'[c].pc \notin Leaving => core'[c].todo = core[c].todo
           /\ thr'.created = thr.created \/ core[c].pc = "create"
<1>1. /\ core \in [Core -> CoreState] /\ core[c] \in CoreState
      /\ process \in [pid : {0, 1}, core : Core, loaded : BOOLEAN, threads : Seq(Thread)]
      /\ thr \in [created : Nat, running : SUBSET Thread, killed : SUBSET Thread,
                  ran : SUBSET Thread]
  BY DEF IInv, TypeOK
<1> QED BY <1>1
        DEF CoreStep, CheckStop, EnterGate, SpuriousWakeup, LeaveGate, LookupCore, EnterTask,
            EnterTaskFaults, CreateThread, CreateThreadSpins, CreateThreadThrows, AddThread,
            AddThreadFaults, PreemptForCore, PreemptForCoreFaults, RemoveThreadAborts,
            EraseThread, PopCore, AfterPop, DeactivateCore, DeactivateThread,
            DeactivateThreadFaults, LowerGate, UnmapCore, At, To, Die, CoreState, Leaving

\* A core that does not work changes the scheduler only in RemoveThread.
LEMMA IdleSteps ==
    ASSUME IInv, NEW c \in Core, CoreStep(c) \/ SpuriousWakeup(c), core[c].pc \notin Working
    PROVE  /\ process' = process /\ thr'.created = thr.created /\ thr'.ran = thr.ran
           /\ \/ sched' = sched /\ thr'.running = thr.running
              \/ core[c].pc = "loopRemove" /\ EraseThread(c)
              \/ core[c].pc = "loopPop" /\ PopCore(c)
           /\ \/ UNCHANGED <<core[c].todo, core[c].thread>>
              \/ core[c].pc = "deactivate" /\ core'[c].pc = "loop"
                 /\ core'[c].todo = process.threads
              \/ core[c].pc = "loop" /\ core'[c].pc = "loopRemove" /\ core[c].todo # <<>>
                 /\ core'[c].todo = core[c].todo /\ core'[c].thread = Head(core[c].todo)
              \/ core[c].pc = "loopPop" /\ core'[c].pc = "loop"
                 /\ core'[c].todo = Tail(core[c].todo)
           /\ core[c].pc = "loop" /\ core'[c].pc = "unmap" => core[c].todo = <<>>
           /\ core'[c].pc = "loopPop" => core[c].pc \in {"loopRemove", "loopPop"}
           /\ core'[c].pc = "loopRemove" =>
                 \/ core[c].pc = "loopRemove"
                 \/ core[c].pc = "loop" /\ core[c].todo # <<>>
                    /\ core'[c].thread = Head(core[c].todo)
           /\ core'[c].pc = "unmap" => core[c].pc \in {"loop", "unmap"}
           /\ core'[c].pc = "done" => core[c].pc \in {"unmap", "done"}
           /\ core'[c].pc = "loop" => core[c].pc \in {"deactivate", "loop", "loopPop"}
<1>1. /\ core \in [Core -> CoreState] /\ core[c] \in CoreState
      /\ thr \in [created : Nat, running : SUBSET Thread, killed : SUBSET Thread,
                  ran : SUBSET Thread]
  BY DEF IInv, TypeOK
<1>2. CASE CheckStop(c) \/ EnterGate(c) \/ SpuriousWakeup(c) \/ LookupCore(c) \/ LeaveGate(c)
  BY <1>1, <1>2
  DEF CheckStop, EnterGate, SpuriousWakeup, LookupCore, LeaveGate, At, To, CoreState
<1>3. CASE LowerGate(c) \/ UnmapCore(c)
  BY <1>1, <1>3 DEF LowerGate, UnmapCore, At, CoreState
<1>4. CASE \/ RemoveThreadAborts(c) \/ DeactivateThreadFaults(c) \/ EnterTaskFaults(c)
           \/ CreateThreadThrows(c) \/ AddThreadFaults(c) \/ PreemptForCoreFaults(c)
  BY <1>1, <1>4
  DEF RemoveThreadAborts, DeactivateThreadFaults, EnterTaskFaults, CreateThreadThrows,
      AddThreadFaults, PreemptForCoreFaults, Die, Working
<1>5. CASE DeactivateCore(c)
  BY <1>1, <1>5 DEF DeactivateCore, At, CoreState
<1>6. CASE DeactivateThread(c)
  BY <1>1, <1>6 DEF DeactivateThread, At, CoreState
<1>7. CASE EraseThread(c)
  BY <1>1, <1>7 DEF EraseThread, At, To, CoreState, Working
<1>8. CASE PopCore(c)
  <2>1. core[c].pc = "loopPop"
    BY <1>8 DEF PopCore, AfterPop, At, Working
  <2> QED BY <1>1, <1>8, <2>1 DEF PopCore, AfterPop, At, CoreState
<1> QED BY <1>2, <1>3, <1>4, <1>5, <1>6, <1>7, <1>8
        DEF CoreStep, EnterTask, CreateThread, CreateThreadSpins, AddThread, PreemptForCore,
            At, Working

\* What RemoveThread's second part makes of the scheduler, whoever calls it.
LEMMA Popped ==
    ASSUME IInv, DebtWhenEmpty, NEW c \in Core, PopCore(c)
    PROVE  /\ sched'.threads = sched.threads /\ Balance' = Balance - 1
           /\ thr'.running = thr.running \ {core[c].thread}
           /\ DebtWhenEmpty'
<1>1. /\ sched \in [threads : Seq(Thread), cores : Seq(Core), debt : Nat]
      /\ sched.cores \in Seq(Core) /\ sched.debt \in Nat /\ Len(sched.cores) \in Nat
      /\ thr \in [created : Nat, running : SUBSET Thread, killed : SUBSET Thread,
                  ran : SUBSET Thread]
  BY LenProperties DEF IInv, TypeOK
<1>2. CASE sched.cores = <<>>
  BY <1>1, <1>2 DEF PopCore, Balance, DebtWhenEmpty
<1>3. CASE sched.cores # <<>>
  <2>1. Len(Front(sched.cores)) = Len(sched.cores) - 1
    BY <1>1, <1>3, FrontShortens
  <2> QED BY <1>1, <1>3, <2>1 DEF PopCore, Balance, DebtWhenEmpty
<1> QED BY <1>2, <1>3

\* A core's step keeps what does not depend on whose core it is.
LEMMA CoreKeepsCommon ==
    ASSUME IInv, RInv, SInv, NEW c \in Core, CoreStep(c) \/ SpuriousWakeup(c)
    PROVE  StopIsOver' /\ PidIsUp' /\ WalksWhileLeaving' /\ DoneIsUnmapped'
<1>1. StopIsOver' /\ PidIsUp'
  <2>1. NeverSetUp => NeverSetUp'
    <3>1. core[c].pc = "create" => c \in corePid
      BY DEF IInv, WorkIsMapped, Working
    <3> QED BY <3>1, CoreLeaves DEF NeverSetUp
  <2> QED BY <2>1, CoreIsAlone, CoreLeaves DEF SInv, StopIsOver, PidIsUp
<1>2. WalksWhileLeaving'
  <2> SUFFICES ASSUME NEW d \in Core, core'[d].pc \notin Leaving PROVE core'[d].todo = <<>>
    BY DEF WalksWhileLeaving
  <2>1. d = c => core[d].pc \notin Leaving
    BY CoreMoves DEF Leaving, Waiting
  <2> QED BY <2>1, CoreIsAlone, CoreLeaves DEF SInv, WalksWhileLeaving
<1>3. DoneIsUnmapped'
  BY CoreIsAlone, CoreLeaves DEF SInv, DoneIsUnmapped
<1> QED BY <1>1, <1>2, <1>3

\* Another core does not work; when it removes a thread, that is late.
LEMMA OthersAreIdle ==
    ASSUME IInv, RInv, SInv, NEW d \in Core \ {process.core}
    PROVE  /\ core[d].pc \notin Working /\ ~core[d].inserted
           /\ core[d].pc \in Leaving => main.pc \in Over
           /\ core[d].pc \in {"loopRemove", "loopPop"} =>
                 /\ LateThread /\ core[d].todo = process.threads
                 /\ process.threads = <<thr.created>> /\ core[d].thread = thr.created
<1>1. core[d].pc \notin Working /\ ~core[d].inserted
  BY DEF IInv, WorkIsMapped, Mapping, RInv, OwnerQueues
<1>2. core[d].pc \in Leaving => main.pc \in Over
  BY DEF SInv, OthersWalkLate, StopIsOver
<1>3. core[d].pc \in {"loopRemove", "loopPop"} => core[d].todo # <<>>
  BY DEF IInv, LoopHolds
<1>4. process.threads # <<>> /\ main.pc \in Over => process.pid = 0
  BY DEF SInv, Listed, PidIsUp, NeverSetUp
<1> QED BY <1>1, <1>2, <1>3, <1>4 DEF SInv, OthersWalkLate, Listed, LateThread, Leaving

LEMMA OtherKeepsSession ==
    ASSUME IInv, RInv, SInv, NEW c \in Core \ {process.core}, CoreStep(c) \/ SpuriousWakeup(c)
    PROVE  SInv'
<1>1. /\ process' = process /\ thr'.created = thr.created /\ thr'.ran = thr.ran
      /\ Owner' = Owner /\ Ran' = Ran /\ UNCHANGED main /\ process.core \in Core
      /\ \A d \in Core \ {c} : core'[d] = core[d]
  BY OthersAreIdle, IdleSteps, CoreIsAlone DEF Owner, Ran, IInv, TypeOK
<1>2. Listed'
  BY <1>1 DEF SInv, Listed, Owner
<1>3. OthersWalkLate'
  <2> SUFFICES ASSUME NEW d \in Core \ {process.core}
               PROVE  /\ core'[d].pc \in Leaving => core'[d].stop
                      /\ core'[d].todo \in {<<>>, process.threads}
                      /\ core'[d].pc \in {"loopRemove", "loopPop"} =>
                            core'[d].thread = thr.created
    BY <1>1 DEF OthersWalkLate
  <2>1. CASE d # c
    BY <1>1, <2>1 DEF SInv, OthersWalkLate
  <2>2. CASE d = c
    <3>0. core[c].pc \notin Working
      BY OthersAreIdle
    <3>1. core'[c].pc \in Leaving => core'[c].stop
      <4>1. core'[c].stop = core[c].stop /\ (core[c].pc \in Leaving => core[c].stop)
        BY CoreIsAlone DEF SInv, OthersWalkLate
      <4> QED BY <3>0, <4>1, CoreMoves DEF Leaving, Working, Waiting
    <3>2. /\ core[c].todo \in {<<>>, process.threads}
          /\ process.threads \in {<<>>, <<thr.created>>}
          /\ core[c].pc \in {"loopRemove", "loopPop"} => core[c].todo # <<>>
      BY DEF SInv, OthersWalkLate, Listed, IInv, LoopHolds
    <3> DEFINE n == thr.created
    <3>3. Head(<<n>>) = n /\ Tail(<<n>>) = <<>>
      BY Ends
    <3>4. core'[c].todo \in {<<>>, process.threads}
      BY <3>0, <3>2, <3>3, IdleSteps
    <3>5. core[c].pc \in {"loopRemove", "loopPop"} => core[c].thread = thr.created
      BY OthersAreIdle
    <3>6. core'[c].pc \in {"loopRemove", "loopPop"} => core'[c].thread = thr.created
      BY <3>0, <3>2, <3>3, <3>5, IdleSteps
    <3> QED BY <2>2, <3>1, <3>4, <3>6
  <2> QED BY <2>1, <2>2
<1>4. CASE sched' = sched /\ thr'.running = thr.running
  <2>1. Balance' = Balance /\ Empty' = Empty /\ Full' = Full /\ LateThread' = LateThread
    BY <1>1, <1>4 DEF Balance, Empty, Full, LateThread
  <2>2. OwnerBefore' /\ OwnerAdds' /\ OwnerTurn' /\ OwnerAfter' /\ DebtWhenEmpty'
    BY <1>1, <1>4, <2>1 DEF SInv, OwnerBefore, OwnerAdds, OwnerTurn, OwnerAfter, DebtWhenEmpty
  <2>3. InStep'
    <3> HIDE DEF Empty, Full, LateThread
    <3> QED BY <1>1, <1>4, <2>1 DEF SInv, InStep
  <2> QED BY <1>2, <1>3, <2>2, <2>3, CoreKeepsCommon DEF SInv
<1>5. ASSUME core[c].pc \in {"loopRemove", "loopPop"}
      PROVE  /\ LateThread /\ LateThread' /\ core[c].thread = thr.created
             /\ process.threads = <<thr.created>> /\ process.threads # <<>>
             /\ thr.created \in 1 .. 2 /\ thr.running \subseteq 1 .. thr.created
  BY <1>1, <1>5, Ends, OthersAreIdle DEF LateThread, SInv, Listed, IInv, TypeOK, Thread
<1>6. CASE core[c].pc = "loopRemove" /\ EraseThread(c)
  <2>1. /\ sched'.threads = WithoutFirst(sched.threads, thr.created)
        /\ sched'.cores = sched.cores /\ sched'.debt = sched.debt
        /\ thr'.running = thr.running
    BY <1>5, <1>6 DEF EraseThread, IInv, TypeOK
  <2>2. Balance' = Balance /\ DebtWhenEmpty'
    BY <2>1 DEF Balance, SInv, DebtWhenEmpty
  <2>3. /\ sched.threads \in QueuedBefore(thr.created) =>
              sched'.threads \in QueuedBefore(thr.created)
        /\ sched.threads \in QueuedAfter(thr.created) =>
              sched'.threads \in QueuedAfter(thr.created)
        /\ sched.threads = <<>> => sched'.threads = <<>>
        /\ thr.created = 2 /\ sched.threads = <<1>> => sched'.threads = <<1>>
    BY <1>5, <1>6, <2>1, Erasing, Ends DEF QueuedBefore, QueuedAfter
  <2>4. OwnerBefore' /\ OwnerAdds' /\ OwnerTurn'
    BY <1>1, <1>5, <1>6, <2>1, <2>2, <2>3 DEF SInv, OwnerBefore, OwnerAdds, OwnerTurn
  <2>5. OwnerAfter'
    BY <1>1, <1>5, <1>6, <2>1, <2>2, <2>3 DEF SInv, OwnerAfter
  <2>6. InStep'
    BY <1>5, <1>6 DEF InStep
  <2> QED BY <1>2, <1>3, <2>2, <2>4, <2>5, <2>6, CoreKeepsCommon DEF SInv
<1>7. CASE core[c].pc = "loopPop" /\ PopCore(c)
  <2>1. /\ sched'.threads = sched.threads /\ Balance' = Balance - 1
        /\ thr'.running \subseteq thr.running /\ DebtWhenEmpty' /\ Balance \in Int
    BY <1>7, Popped, LenProperties DEF SInv, Balance, IInv, TypeOK
  <2>2. OwnerBefore' /\ OwnerAdds' /\ OwnerTurn'
    BY <1>1, <1>5, <1>7, <2>1 DEF SInv, OwnerBefore, OwnerAdds, OwnerTurn
  <2>3. Owner.todo \in {<<>>, <<thr.created>>} => Len(Owner.todo) \in Nat
    BY Ends
  <2>4. OwnerAfter'
    BY <1>1, <1>5, <1>7, <2>1, <2>3 DEF SInv, OwnerAfter
  <2>5. InStep'
    BY <1>5, <1>7 DEF InStep
  <2> QED BY <1>2, <1>3, <2>1, <2>2, <2>4, <2>5, CoreKeepsCommon DEF SInv
<1> QED BY <1>4, <1>6, <1>7, OthersAreIdle, IdleSteps

-----------------------------------------------------------------------------
(* The steps of the application's core. *)

\* A step of the owner keeps what concerns the others as long as the list is kept.
LEMMA OwnerKeepsOthers ==
    ASSUME IInv, RInv, SInv, CoreStep(process.core) \/ SpuriousWakeup(process.core),
           process'.threads = process.threads, thr'.created = thr.created,
           Owner'.pc = "create" => process.threads = <<>>
    PROVE  Listed' /\ OthersWalkLate' /\ (LateThread' <=> LateThread)
<1>1. /\ process'.core = process.core /\ process.core \in Core /\ UNCHANGED main
      /\ \A d \in Core \ {process.core} : core'[d] = core[d]
  BY CoreIsAlone DEF IInv, TypeOK
<1>2. Listed'
  BY <1>1 DEF SInv, Listed
<1>3. OthersWalkLate'
  BY <1>1 DEF SInv, OthersWalkLate
<1>4. LateThread' <=> LateThread
  BY <1>1, CoreLeaves DEF LateThread
<1> QED BY <1>2, <1>3, <1>4

\* The owner's steps that change neither the lists nor the scheduler.
LEMMA OwnerMoves ==
    ASSUME IInv, RInv, SInv,
           NEW c \in Core, c = process.core, CoreStep(c) \/ SpuriousWakeup(c),
           UNCHANGED <<process, sched>>, thr'.created = thr.created,
           thr'.running = thr.running, thr'.ran = thr.ran,
           Owner'.inserted = Owner.inserted, Owner'.todo = Owner.todo,
           \/ Owner'.pc = Owner.pc /\ Owner'.thread = Owner.thread
           \/ Owner.pc \in Waiting \cup {"create"} /\ Owner'.pc \in Before \ {"create", "pick"}
           \/ Owner.pc = "enter" /\ Owner'.pc = "create" /\ process.threads = <<>>
           \/ Owner.pc = "enter" /\ Owner'.pc = "pick" /\ process.threads # <<>>
           \/ /\ Owner'.pc = "deactivate"
              /\ \/ Owner.pc = "enter" /\ Owner.inserted /\ ~IsCoreEnabled(c)
                 \/ Owner.pc = "top" /\ Owner.stop
    PROVE  SInv'
<1>1. /\ Listed' /\ OthersWalkLate' /\ (LateThread' <=> LateThread)
      /\ Ran' = Ran /\ Balance' = Balance /\ Empty' = Empty /\ Full' = Full
      /\ Owner'.stop = Owner.stop /\ process'.core = process.core
  <2>1. Owner'.pc = "create" => process.threads = <<>>
    BY DEF SInv, OwnerBefore, Before
  <2>2. Listed' /\ OthersWalkLate' /\ (LateThread' <=> LateThread)
    BY <2>1, OwnerKeepsOthers
  <2>3. Owner'.stop = Owner.stop
    BY CoreIsAlone DEF Owner
  <2> QED BY <2>2, <2>3 DEF Ran, Balance, Empty, Full
<1>2. process.threads # <<>> => thr.created # 0
  BY DEF SInv, Listed
<1>3. DebtWhenEmpty'
  BY DEF SInv, DebtWhenEmpty
<1> HIDE DEF Ran, Balance, Empty, Full, LateThread, Owner
<1>4. OwnerBefore'
  BY <1>1, <1>2 DEF SInv, OwnerBefore, Before, Waiting
<1>5. OwnerAdds' /\ OwnerTurn'
  BY <1>1 DEF SInv, OwnerAdds, OwnerTurn, Before, Waiting
<1>6. OwnerAfter'
  BY <1>1 DEF SInv, OwnerAfter, OwnerBefore, Before, Waiting, Leaving
<1>7. InStep'
  <2> SUFFICES ASSUME ~LateThread
               PROVE  /\ thr'.created = 0 \/ Owner'.pc = "add" => Empty
                      /\ thr'.created # 0 /\ Owner'.pc \in Before \cup {"run"} => Full
                      /\ Owner'.pc = "pop" =>
                           sched = [threads |-> <<>>, cores |-> <<process.core>>, debt |-> 0]
                      /\ Owner'.pc \in Leaving /\ Ran => sched.threads = <<>> /\ sched.cores = <<>>
                      /\ Owner'.pc \in Leaving /\ ~Ran =>
                           Owner.stop /\ Owner.todo = <<>> /\ (thr.created # 0 => Full)
    BY <1>1 DEF InStep
  <2>1. CASE Owner'.pc = Owner.pc
    BY <1>1, <2>1 DEF SInv, InStep
  <2>2. CASE Owner.pc \in Before /\ Owner'.pc \in Before
    BY <1>1, <2>2 DEF SInv, InStep, Before, Waiting, Leaving
  <2>3. ~(Owner.pc = "enter" /\ Owner.inserted /\ ~IsCoreEnabled(c))
    <3> SUFFICES ASSUME Owner.pc = "enter", Owner.inserted PROVE IsCoreEnabled(c)
      OBVIOUS
    <3>1. Full
      BY DEF SInv, InStep, OwnerBefore, Before
    <3>2. sched.cores = <<c>>
      BY <3>1 DEF Full
    <3> QED BY <3>2, Ends DEF IsCoreEnabled
  <2>4. CASE Owner.pc = "top" /\ Owner'.pc = "deactivate" /\ Owner.stop
    <3>1. Owner.todo = <<>>
      BY <2>4 DEF SInv, WalksWhileLeaving, Leaving, Owner
    <3>2. ~Ran /\ (thr.created # 0 => Full) /\ (thr.created = 0 => Empty)
      BY <2>4 DEF SInv, OwnerBefore, InStep, Before, Waiting
    <3> QED BY <2>4, <3>1, <3>2 DEF Before, Waiting, Leaving
  <2> QED BY <2>1, <2>2, <2>3, <2>4 DEF Before
<1> QED BY <1>1, <1>3, <1>4, <1>5, <1>6, <1>7, CoreKeepsCommon DEF SInv

\* What is known of the owner whatever it does.
LEMMA OwnerFacts ==
    ASSUME IInv, SInv
    PROVE  /\ core \in [Core -> CoreState] /\ process.core \in Core /\ Owner \in CoreState
           /\ process \in [pid : {0, 1}, core : Core, loaded : BOOLEAN, threads : Seq(Thread)]
           /\ sched \in [threads : Seq(Thread), cores : Seq(Core), debt : Nat]
           /\ thr \in [created : Nat, running : SUBSET Thread, killed : SUBSET Thread,
                       ran : SUBSET Thread]
           /\ thr.created \in 0 .. 2 /\ thr.running \subseteq 1 .. thr.created
           /\ Balance \in Int
           /\ thr.created = 2 => LateThread /\ process.threads = <<2>>
           /\ process.threads # <<>> =>
                 process.threads = <<thr.created>> /\ thr.created \in 1 .. 2
           /\ thr.created # 0 /\ process.threads = <<>> =>
                 thr.created = 1 /\ process.pid = 0 /\ main.pc \in Over
<1>1. /\ core \in [Core -> CoreState] /\ process.core \in Core /\ Owner \in CoreState
      /\ process \in [pid : {0, 1}, core : Core, loaded : BOOLEAN, threads : Seq(Thread)]
      /\ sched \in [threads : Seq(Thread), cores : Seq(Core), debt : Nat]
      /\ thr \in [created : Nat, running : SUBSET Thread, killed : SUBSET Thread,
                  ran : SUBSET Thread]
      /\ thr.running \subseteq 1 .. thr.created
  BY DEF IInv, TypeOK, Owner, Thread
<1>2. Balance \in Int
  BY <1>1, LenProperties DEF Balance
<1>3. Listed /\ PidIsUp
  BY DEF SInv
<1>4. <<1>> # <<2>> /\ <<1>> # <<>> /\ <<2>> # <<>>
  BY Ends
<1>5. thr.created \in 0 .. 2
  BY <1>3 DEF Listed
<1>6. main.pc \in Over /\ thr.created # 0 => process.pid = 0
  BY <1>3 DEF PidIsUp, NeverSetUp
<1>7. thr.created = 2 => LateThread /\ process.threads = <<2>>
  BY <1>3, <1>4, <1>6 DEF Listed, LateThread
<1>8. process.threads # <<>> => process.threads = <<thr.created>> /\ thr.created \in 1 .. 2
  BY <1>3, <1>5 DEF Listed
<1>9. thr.created # 0 /\ process.threads = <<>> =>
         thr.created = 1 /\ process.pid = 0 /\ main.pc \in Over
  BY <1>3, <1>4, <1>5, <1>6 DEF Listed
<1> QED BY <1>1, <1>2, <1>5, <1>7, <1>8, <1>9

\* The owner creates a thread: its first, or one that is late.
LEMMA OwnerCreates ==
    ASSUME IInv, RInv, SInv, CreateThread(process.core)
    PROVE  SInv'
<1> DEFINE n == thr.created
<1>1. /\ Owner.pc = "create" /\ process.threads = <<>> /\ n \in 0 .. 2 /\ n # 2
      /\ ~Ran /\ Balance <= n /\ sched.threads \in QueuedBefore(n)
      /\ n # 0 => sched.threads = <<1>>
  BY OwnerFacts, Ends DEF CreateThread, At, Owner, SInv, OwnerBefore, Before
<1>2. /\ CoreStep(process.core) /\ process.core \in Core
  BY OwnerFacts DEF CoreStep
<1>3. /\ Owner'.pc = "add" /\ process'.core = process.core /\ process'.pid = process.pid
      /\ process'.threads = <<n + 1>> /\ thr'.created = n + 1 /\ sched' = sched
      /\ thr'.running = thr.running /\ thr'.ran = thr.ran /\ UNCHANGED main
      /\ \A d \in Core \ {process.core} : core'[d] = core[d]
  <2>1. Append(<<>>, n + 1) = <<n + 1>>
    BY Ends
  <2> QED BY <1>1, <1>2, <2>1, OwnerFacts, CoreIsAlone
          DEF CreateThread, At, To, Owner, CoreState
<1>4. n # 0 => main.pc \in Over /\ process.pid = 0
  BY <1>1, OwnerFacts
<1>5. Listed'
  <2>1. main.pc \in Early => FALSE
    BY <1>1, <1>2 DEF IInv, WorkIsMapped, Mapping, Working, Owner
  <2> QED BY <1>1, <1>3, <1>4, <2>1 DEF Listed
<1>6. OthersWalkLate'
  <2>1. \A d \in Core \ {process.core} : core[d].pc \notin {"loopRemove", "loopPop"}
    BY <1>1, OthersAreIdle DEF LateThread
  <2> QED BY <1>1, <1>3, <2>1 DEF SInv, OthersWalkLate
<1>7. OwnerAdds'
  <2>1. thr.created + 1 \notin thr.running
    BY OwnerFacts
  <2> QED BY <1>1, <1>3, <2>1, OwnerFacts, Ends DEF OwnerAdds, QueuedBefore, Ran, Balance
<1>8. InStep'
  <2>1. ~LateThread' => n = 0 /\ ~LateThread
    BY <1>1, <1>3, <1>4, Ends DEF LateThread
  <2>2. ~LateThread' => Empty
    BY <2>1 DEF SInv, InStep
  <2>3. Empty' = Empty
    BY <1>3 DEF Empty
  <2> HIDE DEF Empty
  <2> QED BY <1>1, <1>3, <2>1, <2>2, <2>3 DEF InStep, Before, Waiting, Leaving
<1>9. OwnerBefore' /\ OwnerTurn' /\ OwnerAfter' /\ DebtWhenEmpty'
  BY <1>3 DEF OwnerBefore, OwnerTurn, OwnerAfter, SInv, DebtWhenEmpty, Before, Waiting, Leaving
<1> QED BY <1>2, <1>5, <1>6, <1>7, <1>8, <1>9, CoreKeepsCommon DEF SInv

\* The owner queues the thread it created.
LEMMA OwnerQueuesThread ==
    ASSUME IInv, RInv, SInv, AddThread(process.core)
    PROVE  SInv'
<1> DEFINE n == thr.created
<1>1. /\ Owner.pc = "add" /\ process.threads = <<n>> /\ n \in 1 .. 2
      /\ ~Ran /\ Balance < n /\ sched.threads = (IF n = 1 THEN <<>> ELSE <<1>>)
      /\ ~LateThread => Empty /\ n = 1
  BY OwnerFacts DEF AddThread, At, Owner, SInv, OwnerAdds, InStep
<1>2. /\ CoreStep(process.core) /\ process.core \in Core
  BY OwnerFacts DEF CoreStep
<1>3. Head(process.threads) = n
  BY <1>1, Ends
<1>4. /\ Owner'.pc = "top" /\ Owner'.inserted /\ process' = process
      /\ thr'.created = n /\ thr'.running = thr.running \cup {n} /\ thr'.ran = thr.ran
      /\ sched'.threads = Append(sched.threads, n)
      /\ SearchFaults => sched'.cores = sched.cores /\ sched'.debt = sched.debt - 1
      /\ ~SearchFaults => sched'.cores = Append(sched.cores, process.core) /\ sched'.debt = 0
      /\ sched' = [threads |-> sched'.threads, cores |-> sched'.cores, debt |-> sched'.debt]
  BY <1>2, <1>3, OwnerFacts DEF AddThread, Owner, CoreState
<1>5. sched'.threads = (IF n = 1 THEN <<1>> ELSE <<1, 2>>)
  BY <1>1, <1>4, Ends
<1>6. Balance' = Balance + 1 /\ DebtWhenEmpty'
  <2>1. CASE SearchFaults
    BY <1>4, <2>1, OwnerFacts DEF Balance, SearchFaults, SInv, DebtWhenEmpty
  <2>2. CASE ~SearchFaults
    <3>1. Len(Append(sched.cores, process.core)) = Len(sched.cores) + 1
      BY OwnerFacts, AppendProperties
    <3> QED BY <1>4, <2>2, <3>1, OwnerFacts
            DEF Balance, SearchFaults, SInv, DebtWhenEmpty
  <2> QED BY <2>1, <2>2
<1>7. Listed' /\ OthersWalkLate' /\ (LateThread' <=> LateThread)
  BY <1>2, <1>4, OwnerKeepsOthers
<1>8. OwnerBefore'
  <2>1. Balance' <= n /\ n # 0 /\ ~Ran' /\ process'.threads # <<>>
    BY <1>1, <1>4, <1>6, OwnerFacts, Ends DEF Ran
  <2>2. sched'.threads \in QueuedBefore(n)
    BY <1>1, <1>5, Ends DEF QueuedBefore
  <2> QED BY <1>4, <2>1, <2>2 DEF OwnerBefore
<1>9. InStep'
  <2>1. ~LateThread' => Full'
    <3> SUFFICES ASSUME ~LateThread PROVE Full'
      BY <1>7
    <3>1. n = 1 /\ sched.cores = <<>> /\ sched.debt = 0 /\ thr.running = {}
      BY <1>1 DEF Empty
    <3>2. sched'.cores = <<process.core>> /\ sched'.debt = 0
      BY <1>4, <3>1, Ends DEF SearchFaults
    <3> QED BY <1>4, <1>5, <3>1, <3>2 DEF Full
  <2> HIDE DEF Full, Empty
  <2> QED BY <1>1, <1>4, <2>1 DEF InStep, Leaving
<1>10. OwnerAdds' /\ OwnerTurn' /\ OwnerAfter'
  BY <1>4 DEF OwnerAdds, OwnerTurn, OwnerAfter, Leaving
<1> QED BY <1>2, <1>6, <1>7, <1>8, <1>9, <1>10, CoreKeepsCommon DEF SInv

\* The owner takes the first thread of the queue, which is the first created.
LEMMA OwnerPicks ==
    ASSUME IInv, RInv, SInv, PreemptForCore(process.core)
    PROVE  SInv'
<1> DEFINE n == thr.created
<1>1. /\ Owner.pc = "pick" /\ n \in 1 .. 2 /\ ~Ran /\ Balance <= n
      /\ sched.threads \in QueuedBefore(n) /\ sched.threads # <<>>
      /\ ~LateThread => Full
  BY OwnerFacts DEF PreemptForCore, At, Owner, SInv, OwnerBefore, InStep, Before
<1>2. /\ CoreStep(process.core) /\ process.core \in Core
  BY OwnerFacts DEF CoreStep
<1>3. Head(sched.threads) = 1
  BY <1>1, Ends DEF QueuedBefore
<1>4. /\ Owner'.pc = "run" /\ Owner'.thread = 1 /\ process' = process /\ sched' = sched
      /\ thr'.created = n /\ thr'.running = thr.running /\ Ran'
  BY <1>2, <1>3, OwnerFacts DEF PreemptForCore, Owner, CoreState, Ran
<1>5. Listed' /\ OthersWalkLate' /\ (LateThread' <=> LateThread)
  BY <1>2, <1>4, OwnerKeepsOthers
<1>6. OwnerTurn'
  BY <1>1, <1>4 DEF OwnerTurn, Balance
<1>7. InStep'
  <2>1. Full' = Full
    BY <1>4 DEF Full
  <2> HIDE DEF Full, Empty
  <2> QED BY <1>1, <1>4, <1>5, <2>1 DEF InStep, Leaving, Before, Waiting
<1>8. OwnerBefore' /\ OwnerAdds' /\ OwnerAfter' /\ DebtWhenEmpty'
  BY <1>4 DEF OwnerBefore, OwnerAdds, OwnerAfter, SInv, DebtWhenEmpty, Before, Waiting, Leaving
<1> QED BY <1>2, <1>5, <1>6, <1>7, <1>8, CoreKeepsCommon DEF SInv

\* The owner erases the thread it ran, or the one its walk is at.
LEMMA OwnerErases ==
    ASSUME IInv, RInv, SInv, EraseThread(process.core)
    PROVE  SInv'
<1> DEFINE n == thr.created
<1>1. CoreStep(process.core) /\ process.core \in Core
  BY OwnerFacts DEF CoreStep
<1>2. /\ \/ Owner.pc = "run" /\ Owner'.pc = "pop"
         \/ Owner.pc = "loopRemove" /\ Owner'.pc = "loopPop"
      /\ Owner'.todo = Owner.todo /\ Owner'.thread = Owner.thread /\ process' = process
      /\ thr' = thr /\ sched'.cores = sched.cores /\ sched'.debt = sched.debt
      /\ sched'.threads = WithoutFirst(sched.threads, Owner.thread)
      /\ sched' = [threads |-> sched'.threads, cores |-> sched.cores, debt |-> sched.debt]
  BY <1>1, OwnerFacts DEF EraseThread, At, To, Owner, CoreState
<1>3. Listed' /\ OthersWalkLate' /\ (LateThread' <=> LateThread)
  BY <1>1, <1>2, OwnerKeepsOthers
<1>4. Balance' = Balance /\ DebtWhenEmpty' /\ Ran' = Ran
  BY <1>2 DEF Balance, SInv, DebtWhenEmpty, Ran
<1>5. OwnerBefore' /\ OwnerAdds'
  BY <1>2 DEF OwnerBefore, OwnerAdds, Before, Waiting
<1>6. CASE Owner.pc = "run"
  <2>1. /\ Ran /\ Owner.thread = 1 /\ n \in 1 .. 2 /\ Balance <= n
        /\ sched.threads \in QueuedBefore(n) /\ Owner'.pc = "pop"
        /\ ~LateThread => Full
    BY <1>2, <1>6, OwnerFacts DEF SInv, OwnerTurn, InStep
  <2>2. sched'.threads \in QueuedAfter(n)
    BY <1>2, <2>1, Erasing, Ends DEF QueuedBefore, QueuedAfter
  <2>3. OwnerTurn' /\ OwnerAfter'
    BY <1>2, <1>4, <2>1, <2>2 DEF OwnerTurn, OwnerAfter, Leaving
  <2>4. Full => sched' = [threads |-> <<>>, cores |-> <<process.core>>, debt |-> 0]
    BY <1>2, <2>1, Erasing DEF Full
  <2>5. n # 0
    BY <2>1
  <2> HIDE DEF Full, Empty
  <2>6. InStep'
    BY <1>2, <1>3, <2>1, <2>4, <2>5 DEF InStep, Before, Waiting, Leaving
  <2> QED BY <1>1, <1>3, <1>4, <1>5, <2>3, <2>6, CoreKeepsCommon DEF SInv
<1>7. CASE Owner.pc = "loopRemove"
  <2>1. Owner'.pc = "loopPop" /\ Owner.todo # <<>>
    BY <1>1, <1>2, <1>7 DEF IInv, LoopHolds, Owner
  <2>2. ~LateThread => Ran /\ sched.threads = <<>> /\ sched.cores = <<>>
    BY <1>7, <2>1 DEF SInv, InStep, Leaving
  <2>3. Ran => /\ n \in 1 .. 2 /\ Owner.thread = n /\ sched.threads \in QueuedAfter(n)
               /\ thr.running \subseteq {2}
               /\ Owner.todo = <<n>> /\ Balance <= Len(Owner.todo)
    BY <1>7, <2>1, OwnerFacts DEF SInv, OwnerAfter, Leaving
  <2>4. Ran => sched'.threads = <<>>
    BY <1>2, <2>3, Erasing, Ends DEF QueuedAfter
  <2>5. sched'.threads = <<>> => sched'.threads \in QueuedAfter(n) \/ n \notin 1 .. 2
    BY Ends DEF QueuedAfter
  <2>6. OwnerAfter' /\ OwnerTurn'
    <3>1. /\ thr'.running = thr.running /\ thr'.created = n /\ Owner'.todo = Owner.todo
          /\ Owner'.thread = Owner.thread /\ Owner.todo # <<>>
      BY <1>2, <2>1
    <3>2. OwnerTurn'
      BY <2>1 DEF OwnerTurn
    <3>3. OwnerAfter'
      <4>1. Ran => /\ n # 0 /\ thr'.running \subseteq {2} /\ sched'.threads = <<>>
                   /\ sched'.threads \in QueuedAfter(n)
        BY <2>3, <2>4, <2>5, <3>1
      <4>2. Ran => /\ Owner'.todo = <<n>> /\ Owner'.thread = n
                   /\ Balance' <= Len(Owner'.todo)
        BY <1>4, <2>3, <3>1
      <4> HIDE DEF Ran
      <4> QED BY <1>4, <2>1, <3>1, <4>1, <4>2 DEF OwnerAfter
    <3> QED BY <3>2, <3>3
  <2>7. InStep'
    <3>1. ~LateThread' => Ran' /\ sched'.threads = <<>> /\ sched'.cores = <<>> /\ thr'.created # 0
      BY <1>2, <1>3, <1>4, <2>2, <2>3, <2>4
    <3> HIDE DEF Full, Empty
    <3> QED BY <2>1, <3>1 DEF InStep, Before, Waiting, Leaving
  <2> QED BY <1>1, <1>3, <1>4, <1>5, <2>6, <2>7, CoreKeepsCommon DEF SInv
<1> QED BY <1>2, <1>6, <1>7

\* The owner pops cores, after its turn or in its walk.
LEMMA OwnerPops ==
    ASSUME IInv, RInv, SInv, PopCore(process.core)
    PROVE  SInv'
<1> DEFINE n == thr.created
<1>1. CoreStep(process.core) /\ process.core \in Core
  BY OwnerFacts DEF CoreStep
<1>2. /\ \/ Owner.pc = "pop" /\ Owner'.pc = "deactivate" /\ Owner'.todo = Owner.todo
         \/ Owner.pc = "loopPop" /\ Owner'.pc = "loop" /\ Owner'.todo = Tail(Owner.todo)
      /\ process' = process /\ thr'.created = n /\ Ran' = Ran
  <2>1. process' = process /\ thr'.created = n /\ Ran' = Ran
    BY OwnerFacts DEF PopCore, Ran
  <2>2. CASE At(process.core, "pop") /\ core' = [core EXCEPT
                 ![process.core].pc = "deactivate", ![process.core].inserted = FALSE]
    BY <1>1, <2>1, <2>2, OwnerFacts DEF At, Owner, CoreState
  <2>3. CASE At(process.core, "loopPop") /\ core' = [core EXCEPT
                 ![process.core].pc = "loop", ![process.core].todo = Tail(@)]
    BY <1>1, <2>1, <2>3, OwnerFacts DEF At, Owner, CoreState
  <2> QED BY <2>1, <2>2, <2>3 DEF PopCore, AfterPop
<1>3. /\ sched'.threads = sched.threads /\ Balance' = Balance - 1
      /\ thr'.running = thr.running \ {Owner.thread} /\ DebtWhenEmpty'
  BY <1>1, Popped DEF SInv, Owner
<1>4. Listed' /\ OthersWalkLate' /\ (LateThread' <=> LateThread)
  BY <1>1, <1>2, OwnerKeepsOthers
<1>5. OwnerBefore' /\ OwnerAdds' /\ OwnerTurn'
  BY <1>2 DEF OwnerBefore, OwnerAdds, OwnerTurn, Before, Waiting
<1>6. sched.cores = <<>> \/ sched.cores = <<process.core>> => sched'.cores = <<>>
  BY Ends, OwnerFacts DEF PopCore
<1>7. CASE Owner.pc = "pop"
  <2>1. /\ Ran /\ Owner.thread = 1 /\ n \in 1 .. 2 /\ Balance <= n /\ Balance \in Int
        /\ sched.threads \in QueuedAfter(n) /\ Owner'.pc = "deactivate"
        /\ ~LateThread => sched.threads = <<>> /\ sched.cores = <<process.core>>
        /\ thr.running \subseteq 1 .. n
    BY <1>2, <1>7, OwnerFacts DEF SInv, OwnerTurn, InStep
  <2>2. OwnerAfter'
    <3>1. thr'.running \subseteq {2} /\ Balance' < n
      BY <1>3, <2>1
    <3> QED BY <1>2, <1>3, <2>1, <3>1 DEF OwnerAfter
  <2>3. InStep'
    <3>1. ~LateThread' => sched'.threads = <<>> /\ sched'.cores = <<>>
      BY <1>3, <1>4, <1>6, <2>1
    <3>2. Ran' /\ thr'.created # 0
      BY <1>2, <2>1
    <3> HIDE DEF Full, Empty
    <3> QED BY <2>1, <3>1, <3>2 DEF InStep, Before, Waiting
  <2> QED BY <1>1, <1>3, <1>4, <1>5, <2>2, <2>3, CoreKeepsCommon DEF SInv
<1>8. CASE Owner.pc = "loopPop"
  <2>1. Owner'.pc = "loop" /\ Owner.todo # <<>> /\ Owner'.todo = Tail(Owner.todo)
    BY <1>1, <1>2, <1>8 DEF IInv, LoopHolds, Owner
  <2>2. ~LateThread => Ran /\ sched.threads = <<>> /\ sched.cores = <<>>
    BY <1>8, <2>1 DEF SInv, InStep, Leaving
  <2>3. Ran => /\ n \in 1 .. 2 /\ Owner.thread = n /\ sched.threads = <<>>
               /\ sched.threads \in QueuedAfter(n)
               /\ thr.running \subseteq {2} /\ thr.running \subseteq 1 .. n
               /\ Owner.todo = <<n>> /\ Balance <= Len(Owner.todo) /\ Balance \in Int
    BY <1>8, <2>1, OwnerFacts DEF SInv, OwnerAfter, Leaving
  <2>4. Ran => Tail(Owner.todo) = <<>> /\ Len(Owner.todo) = 1
    BY <2>3, Ends
  <2>5. Ran => Balance' <= 0 /\ thr'.running = {}
    <3> SUFFICES ASSUME Ran PROVE Balance' <= 0 /\ thr'.running = {}
      OBVIOUS
    <3>1. /\ n = 1 \/ n = 2
          /\ thr'.running = thr.running \ {n} /\ thr.running \subseteq {2}
          /\ \A t \in thr.running : t <= n
      BY <1>3, <2>3
    <3>2. thr'.running = {}
      BY <3>1
    <3>3. Balance' <= 0
      <4>1. Balance \in Int /\ Balance <= 1
        BY <2>3, <2>4
      <4> QED BY <1>3, <4>1
    <3> QED BY <3>2, <3>3
  <2>6. OwnerAfter'
    BY <1>2, <1>3, <2>1, <2>3, <2>4, <2>5, Ends DEF OwnerAfter
  <2>7. InStep'
    <3>1. ~LateThread' => Ran' /\ sched'.threads = <<>> /\ sched'.cores = <<>> /\ thr'.created # 0
      BY <1>2, <1>3, <1>4, <1>6, <2>2, <2>3
    <3> HIDE DEF Full, Empty
    <3> QED BY <2>1, <3>1 DEF InStep, Before, Waiting
  <2> QED BY <1>1, <1>3, <1>4, <1>5, <2>6, <2>7, CoreKeepsCommon DEF SInv
<1> QED BY <1>2, <1>7, <1>8

\* The owner begins its walk of the process's list.
LEMMA OwnerDeactivates ==
    ASSUME IInv, RInv, SInv, DeactivateCore(process.core)
    PROVE  SInv'
<1> DEFINE n == thr.created
<1>1. CoreStep(process.core) /\ process.core \in Core
  BY OwnerFacts DEF CoreStep
<1>2. /\ Owner.pc = "deactivate" /\ Owner'.pc = "loop" /\ Owner'.todo = process.threads
      /\ process' = process /\ thr' = thr /\ sched' = sched /\ Owner'.stop = Owner.stop
  BY <1>1, OwnerFacts DEF DeactivateCore, At, Owner, CoreState
<1>3. Listed' /\ OthersWalkLate' /\ (LateThread' <=> LateThread)
  BY <1>1, <1>2, OwnerKeepsOthers
<1>4. Balance' = Balance /\ DebtWhenEmpty' /\ Ran' = Ran /\ Full' = Full
  BY <1>2 DEF Balance, SInv, DebtWhenEmpty, Ran, Full
<1>5. OwnerBefore' /\ OwnerAdds' /\ OwnerTurn'
  BY <1>2 DEF OwnerBefore, OwnerAdds, OwnerTurn, Before, Waiting
<1>6. OwnerAfter'
  <2> SUFFICES ASSUME Ran PROVE OwnerAfter'
    BY <1>4 DEF OwnerAfter
  <2>1. /\ n \in 1 .. 2 /\ thr.running \subseteq {2} /\ thr.running \subseteq 1 .. n
        /\ sched.threads \in QueuedAfter(n) /\ Balance < n /\ Balance \in Int
        /\ process.threads \in {<<>>, <<n>>}
        /\ n = 2 => process.threads = <<2>>
    BY <1>2, OwnerFacts DEF SInv, OwnerAfter, Leaving, Listed
  <2>2. Balance <= Len(process.threads)
    BY <2>1, Ends
  <2>3. process.threads = <<>> => sched.threads = <<>> /\ thr.running = {}
    <3>1. SUFFICES ASSUME n = 1 PROVE sched.threads = <<>> /\ thr.running = {}
      BY <2>1, Ends
    <3>2. thr.running = {}
      BY <2>1, <3>1
    <3>3. sched.threads = <<>>
      BY <2>1, <3>1, Ends DEF QueuedAfter
    <3> QED BY <3>2, <3>3
  <2> HIDE DEF Ran
  <2> QED BY <1>2, <1>4, <2>1, <2>2, <2>3 DEF OwnerAfter
<1>7. InStep'
  <2>1. ~LateThread /\ ~Ran => Owner.stop /\ process.threads = <<>> /\ (n # 0 => Full)
    BY <1>1, <1>2
    DEF SInv, InStep, Leaving, StopIsOver, PidIsUp, NeverSetUp, Listed, LateThread, Owner
  <2>2. ~LateThread /\ Ran => sched.threads = <<>> /\ sched.cores = <<>>
    BY <1>2 DEF SInv, InStep, Leaving
  <2>3. ~LateThread /\ n = 0 => Empty
    BY DEF SInv, InStep
  <2>4. Empty' = Empty
    BY <1>2 DEF Empty
  <2> HIDE DEF Full, Empty, Ran
  <2> QED BY <1>2, <1>3, <1>4, <2>1, <2>2, <2>3, <2>4 DEF InStep, Before, Waiting
<1> QED BY <1>1, <1>3, <1>4, <1>5, <1>6, <1>7, CoreKeepsCommon DEF SInv

\* The owner takes a turn of its walk, or ends it.
LEMMA OwnerWalks ==
    ASSUME IInv, RInv, SInv,
           DeactivateThread(process.core) \/ LowerGate(process.core) \/ UnmapCore(process.core)
    PROVE  SInv'
<1> DEFINE n == thr.created
<1>1. CoreStep(process.core) /\ process.core \in Core
  BY OwnerFacts DEF CoreStep
<1>2. /\ \/ /\ Owner.pc = "loop" /\ Owner'.pc = "loopRemove" /\ Owner.todo # <<>>
            /\ Owner'.thread = Head(Owner.todo)
         \/ Owner.pc = "loop" /\ Owner'.pc = "unmap" /\ Owner.todo = <<>>
         \/ Owner.pc = "unmap" /\ Owner'.pc = "done"
      /\ Owner'.todo = Owner.todo /\ process' = process /\ sched' = sched
      /\ thr'.created = n /\ thr'.running = thr.running /\ thr'.ran = thr.ran
      /\ Owner'.stop = Owner.stop
  <2>1. CASE DeactivateThread(process.core)
    BY <1>1, <2>1, OwnerFacts DEF DeactivateThread, At, Owner, CoreState
  <2>2. CASE LowerGate(process.core)
    BY <1>1, <2>2, OwnerFacts DEF LowerGate, At, Owner, CoreState
  <2>3. CASE UnmapCore(process.core)
    BY <1>1, <2>3, OwnerFacts DEF UnmapCore, At, Owner, CoreState
  <2> QED BY <2>1, <2>2, <2>3
<1>3. Listed' /\ OthersWalkLate' /\ (LateThread' <=> LateThread)
  BY <1>1, <1>2, OwnerKeepsOthers
<1>4. Balance' = Balance /\ DebtWhenEmpty' /\ Ran' = Ran /\ Full' = Full /\ Empty' = Empty
  BY <1>2 DEF Balance, SInv, DebtWhenEmpty, Ran, Full, Empty
<1>5. OwnerBefore' /\ OwnerAdds' /\ OwnerTurn'
  BY <1>2 DEF OwnerBefore, OwnerAdds, OwnerTurn, Before, Waiting
<1> HIDE DEF Ran, Full, Empty
<1>6. OwnerAfter'
  <2>1. Head(<<n>>) = n
    BY Ends
  <2>2. Owner.pc \in Leaving
    BY <1>2 DEF Leaving
  <2> QED BY <1>2, <1>4, <2>1, <2>2 DEF SInv, OwnerAfter
<1>7. InStep'
  <2>1. Owner.pc \in Leaving /\ Owner'.pc \in Leaving
    BY <1>2 DEF Leaving
  <2> QED BY <1>2, <1>3, <1>4, <2>1 DEF SInv, InStep, Before, Waiting
<1> QED BY <1>1, <1>3, <1>4, <1>5, <1>6, <1>7, CoreKeepsCommon DEF SInv

LEMMA OwnerKeepsSession ==
    ASSUME IInv, RInv, SInv, CoreStep(process.core) \/ SpuriousWakeup(process.core)
    PROVE  SInv'
<1> DEFINE c == process.core
<1>1. core \in [Core -> CoreState] /\ c \in Core /\ Owner \in CoreState
  BY OwnerFacts
<1>2. CASE \/ CheckStop(c) \/ EnterGate(c) \/ SpuriousWakeup(c) \/ LeaveGate(c)
           \/ LookupCore(c) \/ CreateThreadSpins(c) \/ EnterTask(c)
  <2>1. /\ UNCHANGED <<process, sched, thr>>
        /\ Owner'.inserted = Owner.inserted /\ Owner'.todo = Owner.todo
    BY <1>1, <1>2
    DEF CheckStop, EnterGate, SpuriousWakeup, LeaveGate, LookupCore, CreateThreadSpins,
        EnterTask, At, To, Owner, CoreState
  <2>2. \/ Owner.pc \in Waiting \cup {"create"} /\ Owner'.pc \in Before \ {"create", "pick"}
        \/ Owner.pc = "enter" /\ Owner'.pc = "create" /\ process.threads = <<>>
        \/ Owner.pc = "enter" /\ Owner'.pc = "pick" /\ process.threads # <<>>
        \/ /\ Owner'.pc = "deactivate"
           /\ \/ Owner.pc = "enter" /\ Owner.inserted /\ ~IsCoreEnabled(c)
              \/ Owner.pc = "top" /\ Owner.stop
    <3>1. CASE CheckStop(c) \/ EnterGate(c) \/ SpuriousWakeup(c) \/ LeaveGate(c)
      BY <1>1, <3>1
      DEF CheckStop, EnterGate, SpuriousWakeup, LeaveGate, At, To, Owner, CoreState,
          Before, Waiting
    <3>2. CASE LookupCore(c) \/ CreateThreadSpins(c)
      BY <1>1, <3>2
      DEF LookupCore, CreateThreadSpins, At, To, Owner, CoreState, Before, Waiting
    <3>3. CASE EnterTask(c)
      BY <1>1, <3>3 DEF EnterTask, At, To, Owner, CoreState
    <3> QED BY <1>2, <3>1, <3>2, <3>3
  <2> QED BY <1>1, <2>1, <2>2, OwnerMoves
<1>3. CASE \/ RemoveThreadAborts(c) \/ DeactivateThreadFaults(c) \/ EnterTaskFaults(c)
           \/ CreateThreadThrows(c) \/ AddThreadFaults(c) \/ PreemptForCoreFaults(c)
  <2>1. UNCHANGED <<process, sched, thr, core>>
    BY <1>3
    DEF RemoveThreadAborts, DeactivateThreadFaults, EnterTaskFaults, CreateThreadThrows,
        AddThreadFaults, PreemptForCoreFaults, Die
  <2>2. Owner' = Owner
    BY <2>1 DEF Owner
  <2> QED BY <1>1, <2>1, <2>2, OwnerMoves
<1> QED BY <1>2, <1>3, OwnerCreates, OwnerQueuesThread, OwnerPicks, OwnerErases, OwnerPops,
           OwnerDeactivates, OwnerWalks DEF CoreStep

-----------------------------------------------------------------------------
(* The theorems. *)

\* The refinement's invariant, for use here.
THEOREM RInvInductive == Spec => []RInv
<1>1. IInv /\ RInv /\ [Next]_vars => RInv'
  <2> SUFFICES ASSUME IInv, RInv, [Next]_vars PROVE RInv'
    OBVIOUS
  <2>1. CASE UNCHANGED vars
    BY <2>1 DEF vars, RInv, StopIsLate, LeaveIsLate, OwnerQueues
  <2> QED BY <2>1, MainKeepsRInv, CoreKeepsRInv DEF Next
<1> QED BY <1>1, RInvInit, Inductive, PTL DEF Spec

\* The session's invariant is inductive.
THEOREM SessionInductive == Spec => []SInv
<1>1. Init => SInv
  <2> SUFFICES ASSUME Init PROVE SInv
    OBVIOUS
  <2>1. /\ thr.created = 0 /\ process.threads = <<>> /\ ~Ran /\ Empty /\ main.pc = "boot"
        /\ Balance = 0 /\ thr.running = {} /\ corePid = {}
    BY Ends DEF Init, Ran, Empty, Balance
  <2>2. /\ process.core \in Core
        /\ \A c \in Core : /\ core[c].pc = "unborn" /\ core[c].todo = <<>>
                           /\ ~core[c].stop /\ ~core[c].inserted
    BY CoreAssumption DEF Init, Core
  <2>3. /\ StopIsOver /\ PidIsUp /\ Listed /\ WalksWhileLeaving /\ OthersWalkLate
        /\ DoneIsUnmapped
    BY <2>1, <2>2
    DEF StopIsOver, PidIsUp, Over, Ending, Listed, WalksWhileLeaving, OthersWalkLate,
        DoneIsUnmapped, Leaving, Early, Owner
  <2>4. Owner.pc = "unborn" /\ ~Owner.inserted
    BY <2>2 DEF Owner
  <2>5. OwnerBefore
    BY <2>1, <2>4, Ends DEF OwnerBefore, Empty, QueuedBefore
  <2>6. OwnerAdds /\ OwnerTurn /\ OwnerAfter /\ DebtWhenEmpty /\ InStep
    BY <2>1, <2>4 DEF OwnerAdds, OwnerTurn, OwnerAfter, DebtWhenEmpty, InStep, Empty, Leaving
  <2> QED BY <2>3, <2>5, <2>6 DEF SInv
<1>2. IInv /\ RInv /\ SInv /\ [Next]_vars => SInv'
  <2> SUFFICES ASSUME IInv, RInv, SInv, [Next]_vars PROVE SInv'
    OBVIOUS
  <2>1. CASE UNCHANGED vars
    BY <2>1
    DEF vars, SInv, StopIsOver, PidIsUp, NeverSetUp, Listed, WalksWhileLeaving, OthersWalkLate,
        OwnerBefore, OwnerAdds, OwnerTurn, OwnerAfter, DebtWhenEmpty, InStep, DoneIsUnmapped,
        Owner, Ran, Balance, Empty, Full, LateThread
  <2> QED BY <2>1, MainKeepsSession, OtherKeepsSession, OwnerKeepsSession DEF Next
<1> QED BY <1>1, <1>2, Inductive, RInvInductive, PTL DEF Spec

\* A core that works is the owner; so is one that walks a list, unless it is late.
LEMMA SessionFacts ==
    ASSUME IInv, RInv, SInv
    PROVE  /\ \A c \in Core : core[c].pc \in Working => c = process.core
           /\ process.core \in Core /\ Owner.pc \in CorePosition
           /\ \A c \in Core : ~LateThread /\ core[c].pc \in {"loopRemove", "loopPop"} =>
                                 c = process.core /\ Ran
<1>1. \A c \in Core : core[c].pc \in Working => c = process.core
  BY DEF IInv, WorkIsMapped, Mapping
<1>2. process.core \in Core /\ Owner.pc \in CorePosition
  BY OwnerFacts DEF CoreState
<1>3. ASSUME ~LateThread, NEW c \in Core, core[c].pc \in {"loopRemove", "loopPop"}
      PROVE  c = process.core /\ Ran
  <2>1. c = process.core
    BY <1>3, OthersAreIdle
  <2>2. core[c].todo # <<>>
    BY <1>3 DEF IInv, LoopHolds
  <2> QED BY <1>3, <2>1, <2>2 DEF SInv, InStep, Owner, Leaving
<1> QED BY <1>1, <1>2, <1>3

\* The queue of threads and the queue of their cores agree outside RemoveThread, in
\* every session without a late thread, although the one is popped under the lock
\* and the other outside of it, and once more than it was pushed.
THEOREM SchedulerBalancedAlways == Spec => []SchedulerBalanced
<1>1. IInv /\ RInv /\ SInv => SchedulerBalanced
  <2> SUFFICES ASSUME IInv, RInv, SInv, ~LateThread,
                      \A c \in Core : core[c].pc \notin {"pop", "loopPop"}
               PROVE  /\ Len(sched.threads) = Len(sched.cores)
                      /\ sched.debt > 0 => /\ sched.threads = <<>>
                                           /\ \A c \in Core : core[c].pc \notin Working
    BY DEF SchedulerBalanced
  <2>1. CASE Empty \/ Full
    BY <2>1, Ends DEF Empty, Full
  <2>2. CASE Owner.pc \in Leaving /\ Ran
    <3>1. sched.threads = <<>> /\ sched.cores = <<>>
      BY <2>2 DEF SInv, InStep
    <3>2. \A c \in Core : core[c].pc \notin Working
      BY <2>2, SessionFacts DEF Owner, Leaving, Working
    <3> QED BY <3>1, <3>2
  <2>3. Owner.pc # "pop"
    BY SessionFacts DEF Owner
  <2>4. Owner.pc \in Before \cup {"add", "run", "pop"} \cup Leaving
    BY SessionFacts DEF CorePosition, Working, Before
  <2> HIDE DEF Empty, Full, Ran
  <2> QED BY <2>1, <2>2, <2>3, <2>4 DEF SInv, InStep
<1> QED BY <1>1, Inductive, RInvInductive, SessionInductive, PTL

\* A core that decided to run a thread finds its core enabled and a thread queued.
THEOREM PickFindsThreadAlways == Spec => []PickFindsThread
<1>1. IInv /\ RInv /\ SInv => PickFindsThread
  <2> SUFFICES ASSUME IInv, RInv, SInv, ~LateThread, NEW c \in Core, core[c].pc = "pick"
               PROVE  IsCoreEnabled(c) /\ sched.threads # <<>> /\ ~SearchFaults
    BY DEF PickFindsThread
  <2>1. c = process.core /\ Owner.pc = "pick"
    BY SessionFacts DEF Working, Owner
  <2>2. Full
    BY <2>1 DEF SInv, OwnerBefore, InStep, Before
  <2> QED BY <2>1, <2>2, Ends DEF Full, IsCoreEnabled, SearchFaults
<1> QED BY <1>1, Inductive, RInvInductive, SessionInductive, PTL

\* What the scheduler and the kernel assert: no thread is queued while it runs, an
\* application is set up with no thread, and, unless a thread is late, what is taken
\* out of the queue was running.
THEOREM AssertionsHoldAlways == Spec => []AssertionsHold
<1>1. IInv /\ RInv /\ SInv => AssertionsHold
  <2> SUFFICES ASSUME IInv, RInv, SInv PROVE AssertionsHold
    OBVIOUS
  <2>1. ASSUME NEW c \in Core, core[c].pc = "add", process.threads # <<>>
        PROVE  Head(process.threads) \notin thr.running
    <3>1. Owner.pc = "add"
      BY <2>1, SessionFacts DEF Working, Owner
    <3>2. Head(process.threads) = thr.created
      BY <2>1, OwnerFacts, Ends
    <3> QED BY <3>1, <3>2 DEF SInv, OwnerAdds
  <2>2. main.pc = "setup" => process.threads = <<>>
    BY DEF SInv, Listed, Early
  <2>3. ASSUME ~LateThread, NEW c \in Core, RemovesIdleThread(c)
        PROVE  FALSE
    <3>1. c = process.core /\ (Owner.pc = "run" \/ (Owner.pc = "loopRemove" /\ Ran))
      BY <2>3, SessionFacts DEF RemovesIdleThread, Working, Owner
    <3>2. CASE Owner.pc = "run"
      <4>1. Full
        BY <2>3, <3>2 DEF SInv, InStep, OwnerTurn
      <4> QED BY <2>3, <4>1, Ends DEF Full, RemovesIdleThread
    <3>3. CASE Owner.pc = "loopRemove" /\ Ran
      <4>1. sched.threads = <<>>
        BY <2>3, <3>3 DEF SInv, InStep, Leaving
      <4> QED BY <2>3, <4>1, Ends DEF RemovesIdleThread
    <3> QED BY <3>1, <3>2, <3>3
  <2> QED BY <2>1, <2>2, <2>3 DEF AssertionsHold, RemovedThreadWasRunning
<1> QED BY <1>1, Inductive, RInvInductive, SessionInductive, PTL

\* A process is loaded by its load, and then nothing but its end makes it unloaded.
Unloaded == main.pc \in {"boot", "process", "load"} => ~process.loaded

\* Only a load that succeeds marks the process as loaded, and then main goes on.
LEMMA StepKeepsUnloaded ==
    ASSUME IInv, Unloaded, Next
    PROVE  Unloaded'
<1>1. /\ main \in [core : 0 .. TotalCoresCount, pc : MainPosition]
      /\ process \in [pid : {0, 1}, core : Core, loaded : BOOLEAN, threads : Seq(Thread)]
  BY DEF IInv, TypeOK
<1>2. CASE MainStep \/ DestroyKill
  <2>1. CASE \/ BootCore \/ BuildScheduler \/ CreateProcess \/ LoadGame \/ LoadGameDies
    BY <1>1, <2>1
    DEF BootCore, BuildScheduler, CreateProcess, LoadGame, LoadGameDies, Main, Unloaded
  <2>2. CASE SetupApplicationProcess \/ EnableCore \/ DestroyKill \/ DisableCore \/ RequestStop
    BY <1>1, <2>2
    DEF SetupApplicationProcess, EnableCore, DestroyKill, DisableCore, RequestStop, Main,
        Unloaded
  <2>3. CASE ReturnEarly \/ DestroyClear \/ JoinCore
    <3>1. main'.pc \in {"disable", "exit"}
      BY <2>3 DEF ReturnEarly, DestroyClear, JoinCore
    <3> QED BY <3>1 DEF Unloaded
  <2> QED BY <1>2, <2>1, <2>2, <2>3 DEF MainStep
<1>3. ASSUME NEW c \in Core, CoreStep(c) \/ SpuriousWakeup(c)
      PROVE  process'.loaded = process.loaded /\ main' = main
  BY <1>1, <1>3
  DEF CoreStep, CheckStop, EnterGate, SpuriousWakeup, LeaveGate, LookupCore, EnterTask,
      EnterTaskFaults, CreateThread, CreateThreadSpins, CreateThreadThrows, AddThread,
      AddThreadFaults, PreemptForCore, PreemptForCoreFaults, RemoveThreadAborts,
      EraseThread, PopCore, AfterPop, DeactivateCore, DeactivateThread,
      DeactivateThreadFaults, LowerGate, UnmapCore, At, Die
<1> QED BY <1>2, <1>3 DEF Next, Unloaded

\* What can end a core's thread: each of the faults needs a process without memory or
\* one that was given back.
LEMMA DeathNeedsCause ==
    ASSUME IInv, RInv, SInv, PickFindsThread, AssertionsHold, NEW c \in Core,
           \/ EnterTaskFaults(c) \/ CreateThreadThrows(c) \/ AddThreadFaults(c)
           \/ PreemptForCoreFaults(c) \/ RemoveThreadAborts(c) \/ DeactivateThreadFaults(c)
    PROVE  ~process.loaded \/ process.pid = 0
<1>1. core[c].pc \in Working => c = process.core
  BY SessionFacts
<1>2. LateThread => process.pid = 0
  BY DEF LateThread
<1>3. CASE EnterTaskFaults(c)
  <2>1. Owner.pc = "enter" /\ Owner.inserted /\ sched.debt > 0
    BY <1>1, <1>3 DEF EnterTaskFaults, Die, Working, Owner, SearchFaults
  <2>2. thr.created # 0
    BY <2>1 DEF SInv, OwnerBefore, Before
  <2>3. ~LateThread => sched.debt = 0
    BY <2>1, <2>2 DEF SInv, InStep, Before, Full
  <2> QED BY <1>2, <2>1, <2>3
<1>4. CASE CreateThreadThrows(c)
  BY <1>4 DEF CreateThreadThrows
<1>5. CASE AddThreadFaults(c)
  <2>1. Owner.pc = "add" /\ process.threads = <<>>
    BY <1>1, <1>5 DEF AddThreadFaults, Die, Working, Owner
  <2> QED BY <2>1, OwnerFacts DEF SInv, OwnerAdds
<1>6. CASE PreemptForCoreFaults(c)
  BY <1>2, <1>6 DEF PreemptForCoreFaults, Die, PickFindsThread
<1>7. CASE RemoveThreadAborts(c)
  BY <1>2, <1>7 DEF RemoveThreadAborts, AssertionsHold, RemovedThreadWasRunning
<1>8. CASE DeactivateThreadFaults(c)
  <2>1. core[c].pc = "loop" /\ core[c].todo # <<>> /\ process.threads = <<>>
    BY <1>8 DEF DeactivateThreadFaults, Die
  <2>2. c = process.core
    BY <2>1 DEF SInv, OthersWalkLate
  <2>3. Owner.pc = "loop" /\ Owner.pc \in Leaving /\ Owner.todo # <<>> /\ ~LateThread
    BY <2>1, <2>2 DEF Owner, Leaving, LateThread
  <2>4. Ran
    BY <2>3 DEF SInv, InStep
  <2> QED BY <2>1, <2>3, <2>4, OwnerFacts DEF SInv, OwnerAfter
<1> QED BY <1>3, <1>4, <1>5, <1>6, <1>7, <1>8

\* A program whose load succeeded dies on no core before StopApplication gives the
\* process back, whatever the order of its core, the others and main.
THEOREM DeathHasCauseAlways == Spec => []DeathHasCause
<1>1. Init => Unloaded /\ DeathHasCause
  BY DEF Init, Unloaded, DeathHasCause
<1>2. IInv /\ RInv /\ SInv /\ PickFindsThread /\ AssertionsHold /\ Unloaded
      /\ DeathHasCause /\ [Next]_vars => Unloaded' /\ DeathHasCause'
  <2> SUFFICES ASSUME IInv, RInv, SInv, PickFindsThread, AssertionsHold,
                      Unloaded, DeathHasCause, [Next]_vars
               PROVE  Unloaded' /\ DeathHasCause'
    OBVIOUS
  <2>1. ASSUME LoadGameDies PROVE DeathHasCause'
    BY <2>1 DEF LoadGameDies, Unloaded, DeathHasCause
  <2>2. ASSUME (MainStep /\ ~LoadGameDies) \/ DestroyKill PROVE DeathHasCause'
    <3>1. fate' = fate /\ fate = "ok"
      BY <2>2
      DEF MainStep, BootCore, BuildScheduler, CreateProcess, LoadGame, ReturnEarly,
          SetupApplicationProcess, EnableCore, DestroyKill, DestroyClear, DisableCore,
          RequestStop, JoinCore, Main
    <3> QED BY <3>1 DEF DeathHasCause
  <2>3. ASSUME NEW c \in Core, CoreStep(c) \/ SpuriousWakeup(c)
        PROVE  DeathHasCause'
    <3>1. CASE \/ EnterTaskFaults(c) \/ CreateThreadThrows(c) \/ AddThreadFaults(c)
               \/ PreemptForCoreFaults(c) \/ RemoveThreadAborts(c)
               \/ DeactivateThreadFaults(c)
      <4>1. process' = process
        BY <3>1
        DEF EnterTaskFaults, CreateThreadThrows, AddThreadFaults, PreemptForCoreFaults,
            RemoveThreadAborts, DeactivateThreadFaults, Die
      <4> QED BY <3>1, <4>1, DeathNeedsCause DEF DeathHasCause
    <3>2. CASE \/ CheckStop(c) \/ EnterGate(c) \/ LeaveGate(c) \/ LookupCore(c)
               \/ EnterTask(c) \/ CreateThread(c) \/ CreateThreadSpins(c) \/ AddThread(c)
               \/ PreemptForCore(c) \/ EraseThread(c) \/ PopCore(c) \/ DeactivateCore(c)
               \/ DeactivateThread(c) \/ LowerGate(c) \/ UnmapCore(c) \/ SpuriousWakeup(c)
      <4>1. fate' = fate /\ fate = "ok"
        BY <3>2
        DEF CheckStop, EnterGate, SpuriousWakeup, LeaveGate, LookupCore, EnterTask,
            CreateThread, CreateThreadSpins, AddThread, PreemptForCore, EraseThread,
            PopCore, AfterPop, DeactivateCore, DeactivateThread, LowerGate, UnmapCore, At
      <4> QED BY <4>1 DEF DeathHasCause
    <3> QED BY <2>3, <3>1, <3>2 DEF CoreStep
  <2>4. Next => Unloaded' /\ DeathHasCause'
    BY <2>1, <2>2, <2>3, StepKeepsUnloaded DEF Next
  <2>5. CASE UNCHANGED vars
    BY <2>5 DEF vars, Unloaded, DeathHasCause
  <2> QED BY <2>4, <2>5
<1> QED BY <1>1, <1>2, Inductive, RInvInductive, SessionInductive, PickFindsThreadAlways,
           AssertionsHoldAlways, PTL DEF Spec

\* Whatever the teardown did meanwhile, and with a late thread too: when the
\* application's core has left after running the guest, the scheduler is empty.
THEOREM SessionLeavesNothingAlways == Spec => []SessionLeavesNothing
<1>1. IInv /\ RInv /\ SInv => SessionLeavesNothing
  <2> SUFFICES ASSUME IInv, RInv, SInv, Owner.pc = "done", Ran
               PROVE  /\ sched.threads = <<>> /\ sched.cores = <<>>
                      /\ thr.running = {} /\ corePid = {}
    BY DEF SessionLeavesNothing, Owner, Ran
  <2>1. /\ Owner.todo = <<>> /\ sched.threads = <<>> /\ thr.running = {}
        /\ Balance <= Len(Owner.todo)
    BY DEF SInv, OwnerAfter, Leaving
  <2>2. sched.cores = <<>>
    <3>1. Len(sched.cores) - sched.debt <= 0 /\ (sched.debt > 0 => sched.cores = <<>>)
      BY <2>1, Ends DEF Balance, SInv, DebtWhenEmpty
    <3>2. sched.debt \in Nat /\ sched.cores \in Seq(Core) /\ Len(sched.cores) \in Nat
      BY OwnerFacts, LenProperties
    <3>3. Len(sched.cores) = 0 => sched.cores = <<>>
      BY <3>2, EmptySeq
    <3> QED BY <3>1, <3>2, <3>3
  <2>3. corePid = {}
    BY OwnerFacts DEF IInv, Mapping, TypeOK, SInv, DoneIsUnmapped, Owner
  <2> QED BY <2>1, <2>2, <2>3
<1> QED BY <1>1, Inductive, RInvInductive, SessionInductive, PTL
=============================================================================
