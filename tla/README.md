# A verification of Plusnx

Plusnx emulates the kernel of a games console on a Linux host: it loads a title, lays its program
out in a guest address space, and runs guest threads on host threads that play the cores. This
directory holds TLA+ modules that model its core logic, the TLC configurations that check them, and
proofs of some of their properties that TLAPS checks. Paths below are relative to `src/src/`.

## Inventory

| part | state | operations | what is hard |
|---|---|---|---|
| guest-thread scheduling (`cpu/core_blob`, `cpu/kernel_task`, `nxk/kernel`, `nxk/scheduler_preemptive`) | a flag, a condition variable and a stop token per core; `Kernel::corePid`; the queue of threads and the vector of cores | start a core, wait, look up, create/queue/run/remove a thread, deactivate, disable/stop/join | four host threads and main; lost notifications; containers that are pushed together and popped apart; a teardown that overlaps everything |
| process (`nxk/types/kprocess`, `core/application`) | pid, thread list, TLS pages, npdm | Initialize, SetProgramImage, AllocateTlsHeapRegion, CreateThread, Destroy | Destroy does not take the lock CreateThread takes |
| handle table (`nxk/base/k_process_handle_table`) | a list, a head iterator, a free list, a 16-bit counter | Create, GetHandle, Destroy | iterators that outlive what they stood for; wrap |
| guest memory (`nxk/memory_nx`, `nxk/tracker`, `nxk/user_space`) | the map of blocks, a cache of pointers into it, the tracker's records, the host's mappings | Allocate, Reserve, Free, Protect, SearchBlock | splitting and merging with u64 arithmetic; two tables that must agree; exceptions half-way |
| program image (`sys_fs/extra/nso_modules`, `sys_fs/nx/nso_core`) | modules by address | a sizing pass and a mapping pass | the passes must agree, also about modules that are skipped |
| TLS slab (`nxk/memory/k_slab_heap`, `nxk/base/k_tls_page`) | free and allocated objects; eight slots per page; partial and full pages | allocate/free an object or a slot | moved-out pages; slots freed at the wrong index |
| coroutines (`cpu/coroutine`) | a pool from random keys to coroutines, the current key | Create, Go, Yield, Finish, Destroy | reused slots, fairness of hand-over, nobody left to run |
| titles and archives (`loader`, `sys_fs/nx`, `security`, `os`) | tickets, key tables, archives, digests, a RomFS's tree | import, open, decrypt, mount, verify | keys from several sources in the order of a hash map; one digest object for many archives, one path for many recursive calls; exceptions in the middle |
| files (`sys_fs`) | open files, nested views of files | read, write, duplicate, cache | nested offsets; a cache that is never emptied |
| program metadata (`sys_fs/meta_program`) | the system calls and priorities of a program | constructor, SetKac | two lists of words in one order; offsets of the one stand in the other |
| cartridges, other executables (`loader/cartridge`, `nx_executable`, `sys_fs/nx`) | the file systems found | constructors | a choice among archives in several orders |
| recompiler (`armored`) | text blocks, emitter cursors, intermediate code | AddCpu, Run, Compile, Expand, Protect, destruction | a block that moves while it is written, contexts chosen in three ways; nothing but a test drives it |
| application (`core/application`, `core/games_lists`, `loader/qol_loader`, `sys_fs/provider`) | the list of games, a choice, the open files | LoadAGameByIndex, PickByName, ExtractIntoGameFs, StartApplication | files that change under a cache; loads that stop half-way |
| audio, video, input, services | libraries | | stubs or wrappers |

How they interact. `main` builds `Application`, which builds `Kernel`; the kernel starts the cores
*before* its scheduler, memory and process exist. Loading a game (`NxSys::LoadApplicationFile`)
fills the guest memory, sets the process's npdm and takes a TLS slot. `SetupApplicationProcess` maps
the process to a core in `corePid` and notifies that core. The core creates the first thread (stack
from guest memory, handle from the table), queues it, runs it and leaves. `StopApplication` and
`~Kernel` tear all this down on the main thread while the cores still run.

## Modules

| module | models |
|---|---|
| `CoreLifecycle` | the abstract specification of scheduling: cores are parked; the owner activates, executes, and all retire for good |
| `CoreScheduling` | `main`, `Kernel`, `CoreBlob`, `TaskableCoreContext`, `KernelTask`, `SchedulerPreemptive`, and `KProcess::CreateThread`/`Destroy` as far as the cores see them |
| `MCCoreScheduling` | its instances for TLC |
| `CoreSchedulingProofs` | its theorems |
| `HandleTable` | `KProcessHandleTable` |
| `TlsSlots` | `KSlabHeap`, `KTlsPage`, `KProcess::AllocateTlsHeapRegion` and what `Destroy` does to the pages |
| `KProcess`, `MCKProcess` | `KProcess` and `KThread::Run`; composes `HandleTable` and `TlsSlots` |
| `ProcessProofs` | theorems of `HandleTable` and of `KProcess` |
| `GuestMemory`, `MCGuestMemory` | `MemoryNx`, `Tracker`, `UserSpace`, both passes of `NsoModules`, the first TLS page, `KProcess::CreateThread`'s stack |
| `MemoryProofs` | its theorems |
| `Coroutines`, `MCCoroutines` | `Coroutine`, `CoroutinePool` |
| `CoroutineProofs` | its theorems |
| `FileReads` | reading through `RegularFile`, `FileLayered` and `StreamedFile`, as operators |
| `TitleIntegrity`, `MCTitleIntegrity` | `EShopTitle::VerifyTitleIntegrity`, `NcaCore::VerifyNca`, `Checksum`; extends `FileReads` |
| `Extraction`, `MCExtraction` | `EShopTitle::ExtractFilesInto`, `RoDirectoryBacking::ExtractAllFiles`, `Exists`, writing streams |
| `ExtractionProofs` | its theorems |
| `CounterReads` | reading an encrypted section through `CtrBacking`, as operators; extends `FileReads` |
| `RomFs` | `ReadOnlyFilesystem`: the walk through the tables of a RomFS |
| `Recompiler`, `MCRecompiler` | `JitContext`, `CpuContext`, the translator to intermediate code, the emitter and its text blocks |
| `RecompilerProofs` | theorems of `Recompiler` |
| `NsoImage` | `NsoCore` and `NsoModules`, byte by byte, as operators |
| `MetaProgram` | `MetaProgram`, as operators |
| `Cartridge` | `Cartridge::ListAllNca` and its constructor, as operators |
| `Launch`, `MCLaunch` | `Application`, `GamesLists`, `Provider`'s cache, `NxSys`, the five loaders; extends the last three |
| `LaunchProofs` | theorems of `Launch` |
| `Archives`, `MCArchives` | `SubmissionPackage`, `Keyring`, `Ticket`, `NcaCore`'s constructor, `EShopTitle::GetAllContent`; composes `CounterReads` and `RomFs` |
| `TitleProofs` | theorems of `TitleIntegrity` and of `Archives`; lemmas and a theorem about the operators of `FileReads` and `CounterReads`, and about the walk of `RomFs` |

### CoreScheduling

`main` is the main thread's program counter; each element of `core` is a host thread: its program
counter, `running`, the stop token, `inserted`, and two locals. A section under a lock is one
action; what the code does in steps that another thread can see between is several actions:
`DisableCore`/`RequestStop`/`JoinCore` for `CoreBlob::Destroy`, `EraseThread`/`PopCore` for
`RemoveThread`, `CreateThread`/`AddThread` and `PreemptForCore` for `PreemptAndRun`,
`DestroyKill`/`DestroyClear` for `KProcess::Destroy`. The condition variable is the positions
`blocked` and `woken`: a notification moves a blocked core, and is lost otherwise; `spurious` says
whether this host ever wakes a waiter unasked. `std::vector::pop_back` of an empty vector is
counted in `sched.debt` (libstdc++ moves the end below the begin; a search then runs out of bounds,
`SearchFaults`). Null dereferences, exceptions that leave a core's thread and failed assertions end
the program (`fate`), also when main's load meets one (`LoadGameDies`). `main` leaves before any load when no game
has the name it was given (`ReturnEarly`). The asserts are part of the program: no build type of `src/CMakeLists.txt`
defines `NDEBUG`. Data races on `std::map`/`std::list` are modelled only where a step can see the
container before or after another; a torn container is not. A late second thread makes
`CreateThread` spin, which the model gives as a choice (`CreateThreadSpins`): which of the two
happens is decided by the guest memory, and `GuestMemory` models it.

### HandleTable

The `std::list` is a sequence of nodes, an iterator is a node's number or `End`. `HandleAt(End)`
reads the list's own node, as libstdc++ lays it out: the element count. The module models the class,
with every order of its operations; `KProcess` drives it. `Create` has an end of its own for the failed
assertion on the free list (`CreateAsserts`), and one for an object that is not a thread, which `GetHandle`
asserts on (`CreateOther`). A head at the list's end moves on to its first node (`IteratorAt`), as libstdc++'s
circular list does. The program creates threads only, calls `Destroy` nowhere and does not create as many
as would wrap the counter: what is checked of those is the class's interface.

### TlsSlots and KProcess

`TlsSlots` is the memory of the guest's thread-local storage: `free` is the slab's list of objects in its
order, `allocated` the keys of its map, a page knows its object and which of its slots are open, and a
process has `partial` and `full` pages. A page carries the number under which it was made (`serial`), so
that an area can be told from a later one at the same address. `AllocateTlsHeapRegion` has four ends: a
slot of the first partly filled page (`FromPartial`); the null pointer that stays in front of the list when
a page's last slot was taken and the `unique_ptr` moved out (`FromMoved`); a new page, of object 0 if the slab is empty
(`FromSlab`); an exception because the object cannot be mapped (`SlabThrows`). `KTlsPage::FreeSlot` has
no caller in the program.

`KProcess` adds the threads: `CreateThread` takes a handle and remembers the area the process has at that
time (`waiting`), `Run` writes to that area, `DestroyProcess` looks every thread up, which counts a reference
that nobody gives back, and frees the pages. `UseTable` is what else the table's interface allows, which nothing in the program does yet. Whose thread
runs when is `CoreScheduling`'s question; here waiting threads run in any order, also after
the process was destroyed.

### GuestMemory

Addresses are offsets in units of half a page, so that unaligned sizes exist; u64 arithmetic is
modulo `Modulus`. `mem` holds the block map, the cache (`flat`; `stale` are cached addresses of
erased blocks), the tracker and the host's page table. The actions are the loader's calls in the
program's order; the module shapes, the stack size, the resource limit and `vm.max_map_count` are
chosen in `Init`. `Allocate` is the code's control: which two blocks it looks at, the three ways to
change them, then `Mapped` and `Reprotected`. `MapProgramCode` includes the lookup that `Protect` does, which
adds to the cache. The regions keep the order the code's constants give
them, both in the guest (code, stack, TLS) and in the backing memory (code, TLS, stack).

### Coroutines

`grths` maps keys to `[rng, state, yields]`. A slot's key and its coroutine's own key (`rng`) differ
after a reuse, which is the interesting part. The main context gets key 0. Callbacks are abstracted
to how often they yield and that they may create others. Keys are distinct and not 0. `Go` is
called once: a second call meets main's own running context first and swaps it with itself.

### FileReads and TitleIntegrity

A title's file is the sequence of its bytes: the partition's tables, then its archives, then perhaps
an end that is missing (`cut`). A byte is zero, not zero or damaged, since a cleared buffer is the only
content the code can invent. An archive is its size, its zero tail, whether its name is a digest and
whether it is intact; the digest of a text is the text (hashes are taken not to collide). `Opened` is
what the constructors' assertions and the reading of the headers let through: hence at least
one byte is there of every archive, and less is missing than the tables are long. `order` is the order
of the `unordered_map` in which archives are visited. Each turn of `VerifyNca`'s loop is one
`ReadBlock`; what it reads is `StreamRead`, down to `RegularFile::ReadImpl`'s loop over pages with its
unsigned arithmetic. `ReadThrows` is a failing read: the checksum keeps what it has.

### Recompiler

A block of text has a place, a size, and a first part that is executable (`sealed`); a cursor is a place
and an offset, so that it can point to where a block was before `mremap` moved it (`Expanded`).
`EmitNop` is one byte of the emitter: it writes, advances, and doubles the block at its end. Three choices of
a context are kept apart, as the code has them: by number in `Run` (or the last one), the first of the thread in
`GetThreadCtx`, and all of them in `IsCompiled`. A word of guest code is the set of its bits: `Matches`
compares a bit with a shifted mask, as `CompareBitsRange` does, and so never finds the NOP.
Translations start at null when a context has no memory. Reads of memory that was never
written (`scopes.back()` of an empty deque, an `end()` that is dereferenced) are choices: what lies before the deque
is one of `Strays`, a fault, null or any address, and is the key of the block of intermediate code that is moved
there; the next block begins as many words behind the translation's begin as were left over (`StartBlock`). So a
translation may have null as its first address with code in it, and `IsCompiled` takes it for one
without blocks (`FirstIsNull`). `~JitContext` crashes when a context is left that is not in its own
map, which an `AddCpu` whose `Expand` failed leaves behind (`DyingBlockThrows`). Contexts
belong to host threads, but no call overlaps another one: the classes take no lock, and nothing
in the program calls them from two threads at a time.

### NsoImage, MetaProgram, Cartridge and Launch

`Launch` is the way from a directory of games to a process. `disk` says what each file is, in each version
that takes its place; `version` is the present one, 0 if it was removed; `cached` is the version the
provider holds open. A load is four steps, `Open` (loader and its constructor), `Prepare` (npdm),
`Initialize` (nacp and modules) and `Finish` (the TLS page), each with its assertions, exceptions
and null pointers (`fate`). Files change between any two steps. How a title's archives open is `Archives`'
question and enters as a field of the file (`opens`); what they contain is computed.

`NsoImage` gives the bytes: `ProgramByte` is the program behind the constructor's reads, `StartIn` where
`Load` thinks the sections are, `Span` what a copy of the second pass covers in the guest, and `ModuleImage` what the
copies leave there. `ModulesAt` is what `LoadModule` makes of the files: a rejected module is replaced by the next at
its address.
`MetaProgram` reads ACID's and ACI0's capabilities through a cursor that an offset of zero leaves where it
is, and folds `Decode` over them; `MetaIsDecoded` is the reference, without a fold. `Cartridge` folds
`ListNca` over the archives in the order of the partitions; `CardIsFirst` is its reference.

### Extraction

A title is some file systems (`Parts`, in the order `ExtractFilesInto` names them), each lists its
files in some `order`. What is on the disk is, for each place, whether the file is there and its bytes;
a byte is the number of its place in its file, so that missing, repeated and moved bytes show. `Exists`
is the search for a piece of a path; `Overlaps` says whose path is a piece of whose. `CopyBlock` is one
turn of the copying loop, with a write that may be short; `CopyFails` is a write that returns -1, which
moves the cursor back, below zero if need be (it wraps at `Wide`). `Restart` is a new start of the
program after a kill at any point. `Start` throws unless the directories are there: `CreateSubDirectory`
gives nothing for a directory that does not exist, so the first extraction succeeds only if
someone else has made them (`made`).
Creating a file cannot fail in the model. `DumpControlContent` runs the same loop over one part.

### CounterReads, RomFs and Archives

`Archives` follows a title from its file to its file systems: `ImportTicket` for each ticket, one action
per archive that is opened (`OpenNca`, `OpenCnmt`, or `OpenFails` for an exception or an assertion), the end that
metadata without a file, or with one too short, makes (`MetadataFails`), then `GetAllContent` and the mounting of
each view. An archive's entry places a section in blocks of 0x200 bytes (`Media`). The section begins at `BeginsAt`, but the
code computes the product in 32 bits before it widens it: `View` starts at `Media * block % Narrow` plus what the
hashes cover before it, so that a section of a later block is looked for elsewhere. The constructors are sequential, so that what varies is
the title and the keys: the order of tickets and archives (a hash map's), which keys the key files hold,
what the headers say. A key fits (`its`) or not; a byte that is masked with the wrong key, or at the wrong
place in the key stream, is not the plain one: `Mask` is the symmetric difference with
`<<key, block, place>>`, so that two equal masks cancel as in counter mode. `FileOf` is the title's file with
the archive in it, and `ViewRead` reads it through the partition's layer and the section's view.
`CounterRead` is what `CtrBacking::ReadImpl` does about alignment.

`RomFs` gives the walk a stack of calls (`calls`) and the one `path` they share; `tree` is what
`AddDirectory` and `AddFile` have put into `filesystem`. An image's tables are made from a list of
directories and files with their parents (`Tables`), as the format has them: each directory leads to its
first child, first file and next sibling. The tables lie at two places of the image (`layout`), and the place of an entry,
table plus offset, is kept in 32 bits (`Entry`): above `Narrow` the walk reads whatever is there, another
entry of the tables or other data, which is chosen (`StrayDirectory`, `StrayFile`). What is read so has an empty
name, a name, a name of two parts, which finds no directory above it and throws (`AddFails`), or the length
that ends the loop (`PassFile`); in the run it leads to files and siblings but to no child, since a walk down
data that is its own child has no end. Hash tables and the data region are only read for messages.
The branch of `NcaCore`'s constructor for a header that is read short is left out: `FileLayered` throws
for an archive without room for one.

## Runs

| run | configuration | shows |
|---|---|---|
| `cores` | 3 cores, application on core 2 | see below; fairness `FairSpec` |
| `cores_removed` | 2 cores, application on core 1 | `RemoveThread`'s assertion fails (finding) |
| `process` | 2 entries, counter modulo 10, 3 references, and 9 nodes, or 6 nodes with 3 pages made and 2 waiting threads; slab of 2 pages of 2 slots | handles and pages have one owner; a stale area is not given out again soon; ends lie at the bounds |
| `memory` | 4 modules of 3 shapes, 3 stack sizes, 2 resource limits, 2 mapping limits | layout stays disjoint and backed, loads succeed |
| `coroutines` | 4 coroutines, 4 keys, up to 2 yields | one runs; Go returns; crashes need a reused slot |
| `title` | 1 or 2 archives of sizes 3, 5, 6; page 2, buffer 4, limit 5, tables of 3 bytes; 1 read error | digest in order; accepted titles are whole; blame has a cause |
| `title_truncated` | the same | the check of a truncated title need not end (finding) |
| `extraction` | 2 file systems with 2 files each, sizes 0 to 3; block 2; 3 starts, 2 failing writes | order of a copy, complete copies stay, losses have a cause, it ends |
| `extraction_whole` | 1 start, no failing write | an undisturbed extraction misses files (finding) |
| `archives` | cipher block 2, page 3, blocks of 2, 32 bits wrap at 8; archives of 14 bytes behind 3 others; up to 2 tickets; RomFS of 3 directories and 2 files | what was opened is readable; a fit title opens; a RomFS's tree is whole |
| `recompiler` | 2 threads, 2 CPUs, 3 programs of 3 or 4 words, 3 stray addresses and a fault, blocks of 4 bytes, 3 places, 2 runs, 1 failing system call | emitted code is sealed, cursors are inside, when emitting faults |
| `launch` | 53 disks: 24 titles, 12 cartridges, 12 other executables, and 5 with several files or none; pages of 2 bytes; 2 changes of files | a process gets what its file says, in the version that was opened |

Bounds. In `cores` one core owns the application and two only wait and shut down; the code's four
add one more of the latter kind, which the proofs cover. Counters of threads need no bound: a core
leaves after one session and can create at most one late thread. In `process` two entries
put a head in front and at the end, and the list's growth puts it in the middle; 9 nodes are the
fewest with which `Create`'s assertion fails, and the counter wraps at 10. Two families are united instead of multiplied: the long life
of the table alone, and shorter ones with threads and pages. Two objects of two slots let the free list rotate, be empty, and a page be
full; a third page is one that was made of an object a second time, which is when an old area would
be met again. In `memory` the code needs more than two modules, four let two of them share
an address (a module with a wrong hash takes no room); shapes have sections that are aligned and not,
with and without room for bss in the last page, and one invalid. In `coroutines` four coroutines let
two keep control between them while others wait, and let a slot be reused while others are stopped.
In `title` the sizes are one page and a rest, a buffer and a rest, and above the limit; two archives
are one before and one after another, and a cut of 0 to 2 ends inside the last page or takes a whole
one. In `extraction` one file takes two blocks, one is empty, and one path (`main`) is a piece of
another (`main.npdm`) as in every real ExeFS, while the second part has no such pair; three starts
leave a file behind twice; two failing writes take a cursor back past the file's begin; `Wide` is 64,
far above any offset, as 2^64 is. In `archives` two tickets can share a number, rights, or neither; a block of
2 and sections of 1 to 4 bytes give reads that begin inside a block, end inside one and span two, in
sections that begin at the archive's begin and not; a page of 3 splits them. Block 3 is the last below
the wrap, 4 and 5 are the first behind it, whose wrapped places are the first section's and the one after; tables lie below the wrap, across it and behind it. Five families
of titles are united (keys, shapes, high sections, images, far tables) instead of multiplied: which keys exist does not depend on
the tree of a RomFS. Three directories give a chain, siblings, and a sibling after a child.
In `recompiler` a block of 4 bytes is filled, sealed and doubled by runs of at most 4 words; the third
place is what a block moves to while two others stand; two runs let a second translation meet what the
first one compiled. In `launch` modules have sections with a rest and
without one, packed and not, with and without room for bss; capabilities come in every combination that
the fold tells apart (a group twice, priorities twice, an end of the list in the middle); each
way in which a loader ends has a file, and a file has two versions.
`CHECK_DEADLOCK FALSE` is in every configuration because every one of these systems may stop: the
program ends, the load is done, the main context is back, the table is full.

Properties of `cores`:
- `OnlyMappedCoreWorks`: a core reaches process and scheduler only as the application's core.
- `SchedulerBalanced`, `SessionLeavesNothing`: the two containers agree outside of `RemoveThread`,
  and nothing of a finished session is left, although one thread is removed twice.
- `AssertionsHold`, `PickFindsThread`: the other assertions, and never a null thread, unless a
  thread was created after the process was destroyed (`LateThread`, the finding's case).
- `DeathHasCause`: a program that was loaded is not ended by any of its cores, in any order with main, before
  `StopApplication` has given the process back. A load that failed starts its core all the same, whose
  `CreateThread` then throws on a host thread that catches nothing.
- `ImplementsLifecycle`: the refinement.
- `StartLeadsToRun`, `JoinEndsOrCoreSleeps`, `ShutdownCompletes`: a core that was already waiting
  runs the application; a join waits for ever only for a core that sleeps with its stop requested or
  spins for a stack; a shutdown that finds all cores waiting completes. The first and the
  last name the states in which a notification cannot be lost; outside of them it can be.

Properties of `process`: `HandlesUnique` and `HandlesStable` (until the counter wraps no two live objects
share a handle, and a handle keeps its object), `SlotsOwned` (each object of the slab is free once or one page's,
and the process's area is a taken slot of a page it holds), `StaleAreaIsFar` (a waiting thread's area, after
its page was given back, is not part of a page in use before the whole slab went round: `Free` appends),
`EndsAtBounds` (a null page needs as many loads as a page has slots, a missing thread a full table, a null area
a thread from before the first load).

Properties of `memory`: `TrackerConserves` (the tracker's sizes always add up), `SectionsMapped`,
`GivenPagesKept` (`GivenPagesDisjoint` and `StackBacked`: what the program was given is mapped where it
should be, whatever was allocated later), `TableOK` (types, and `CacheFresh`: no cached pointer to an
erased block), `LoadSucceeds`.

Properties of `coroutines`: `PoolOK` (types, `OneRuns`, and `CrashNeedsReuse`: a null or foreign context
is met only after a slot was used twice), `MainIsLast`, `FinishedStaysFinished`, `GoReturns`.

Properties of `title`: `ChecksumOK` (types, and `ReadsInOrder`: the digest is of each byte once and in order),
`VerdictIsRight` (`AcceptedIsWhole`, and `BlamedIsDamaged` with no read error), `CompleteTitleIsJudged`.

Properties of `extraction`: `CopiedInOrder`, `CompleteStays` (an action property over kills and
restarts), `LossHasCause` (without a kill, an error or overlapping paths nothing is missing),
`ExtractionEnds`.

Properties of `archives`: `ContentsOK` (types, and `SectionsReadable`: every read of an opened view gives plain bytes; views
shorter than a cipher block are opened unchecked and excluded, as are sections whose block begins at 4 GiB or later, `Low`), `FitTitleOpens` (a title whose archives are
whole, whose sections and RomFS tables are `InReach`, below 4 GiB, and whose keys are known opens and has its ExeFS; two tickets with one number, or two for the same
rights, are excluded since the keyring keeps only one, as is a stale entry of `title.keys`, which wins over the ticket),
`TreeIsWhole` (the tree is that of the tables, if these end below 4 GiB: `Near`).

Properties of `recompiler`: `CodeOK` (types; `CodeSealed`: between calls every emitted byte is executable and
not writable; `AloneIsCompiled`: with one CPU nothing whose first address is not null is taken for compiled that was not emitted),
`CursorInBlock` (unless the block was moved by the run that wrote it), `EmissionFaultHasCause` (emitting
faults only after such a move, or for the second CPU of a thread).

Properties of `launch`: `ProcessFitsTitle` (metadata, cartridge and image against their references; a
grown module's data is excluded, see below).

Findings. `cores_removed`: `RemoveThread`'s assertion fails after `StopApplication`. Main destroys the process while core 1,
the application's, has been notified but has created no thread; `corePid` still has it, so it creates one on the destroyed
process. Core 0, which main has told to stop, walks the thread list in `DeactivateCore` between core 1's `CreateThread`
and `AddThread`: it kills the thread and removes it from a queue that does not have it yet. Core 1 queues and
runs it, and core 0, now behind the lock, lowers `running` and pops core 1's entry of `cores`. When core 1 removes the thread
after its run, it is in the queue and not running. `title_truncated`: behind the end of the file
reads return nothing and the loop repeats. `extraction_whole`: `main` is taken for extracted because
`main.npdm` is there, and the extraction of the part ends.

What else the models show of the code, each a guard, an end or an exclusion in the module named, at the line
where it bites:

- `Archives`, `RomFs`: a section whose block begins at 4 GiB or later is read at its place modulo 2^32 (`sys_fs/nx/nca_core.cpp:91`), and
  the first-bytes assertions end the program; the walk of a RomFS reads its tables at their places modulo 2^32
  (`sys_fs/nx/readonly_filesystem.cpp:60` and `:75`).
- `CoreScheduling`: `PreemptAndRun` takes `front()` of the thread list also when no thread could be
  created (`cpu/kernel_task.cpp:51`; `KProcess.CreateThreadFails`).
- `HandleTable`: `Create`'s assertion on the free list fails, since the head may have stood at an entry in use when
  `Destroy` put it there (`nxk/base/k_process_handle_table.h:31`; `CreateAsserts`).
- `TlsSlots`: the moved-out pointer in front of `partialTlsSlots` (`nxk/types/kprocess.cpp:61`); a `static bool`
  says that the slab's memory is reserved and outlives the kernel (`nxk/memory/k_slab_heap.cpp:26`).
- `TitleIntegrity`: an intact archive is blamed after another one's read error, since one digest object
  serves all and an exception leaves bytes in it (`loader/eshop_title.cpp:119`); `BlamedIsDamaged` excludes it.
- `Launch`: a title below 200 MiB is left without content, and `GetNpdm` uses the null pointer; a cartridge
  ends at the TLS page, since its load makes no memory; NRO, NCA and NSO files always end
  without an npdm, although the list prefers an NRO (`core/games_lists.cpp:48`); an NRO without assets is an
  assertion; a second title's load is one too (`nxk/user_space.cpp:23`); an index in range but not 0 loads nothing
  (`core/application.cpp:57`); `CommitToFile` uses the pointer it moved (`core/telemetry_collector.cpp:47`);
  `RemoveCachedFile` does nothing (`sys_fs/provider.cpp:67`); `PickByName` keeps an old choice when nothing matches.
- `NsoImage`: a program that is grown to whole pages has its data's span put at ro's size
  (`sys_fs/nx/nso_core.cpp:87`), so that the guest gets other bytes there.
- `MetaProgram`: the capabilities' offsets, which count from ACID and ACI0, are used from the file's begin.
- `Recompiler`: `CompareBitsRange` never matches the NOP; `IsCompiled` counts translations without an
  address once for every context; `Expand` leaves the cursor at a moved block's old place; a second CPU of
  a thread is filled through the first one's cursor.

Fairness. `CoreScheduling`: weak fairness of the main thread outside its frame loop (which a user
ends) and of each core: the host schedules its threads. Nothing is assumed of spurious wakeups.
`TitleIntegrity` and `Extraction`: the loading thread runs; nobody has to restart the program.
`Coroutines`: weak fairness of the running callback's next call: user code that has control goes on.

## Proofs

In `CoreSchedulingProofs`, for every number of cores and any default core, from
`CoreAssumption` alone:

- `TypeCorrect`: `Spec => []TypeOK`.
- `OnlyMappedCoreWorksAlways`: `Spec => []OnlyMappedCoreWorks`.

Both follow from `IInv`, which `Inductive` proves to be invariant. `OnlyMappedCoreWorks` is not
inductive: a core that is in `lookup` when main maps the application would pass, so one needs that
`corePid` holds at most the process's core and only after main has set it up (`Mapping`), that
whoever works is mapped (`WorkIsMapped`), that main does not go back (`MainIndex`), that the body of
`DeactivateCore`'s loop has a thread left to remove (`LoopHolds`), and the types. Each step of main and of a core is one lemma's case; `SameThreads`,
`CoreUpdates` and `WithoutFirstType` are the facts on records and sequences they share. `WithoutFirst`
needs the least index of a thread in a sequence, which `LeastNatural` gets from the
well-foundedness of `<` on the naturals.

There too, `RefinesLifecycle`: `Spec => ImplementsLifecycle`. The mapping needs
`RInv`: while main still sets up (`Early`) no core was asked to stop (`StopIsLate`) and none has left
(`LeaveIsLate`); and only the owner is inserted in the queue, and not while main sets up
(`OwnerQueues`). Then every main step is a stutter or `Assign`, and every core step a
stutter, `Activate`, `Execute` or `Retire`.

There too, for every number of cores, `SchedulerBalancedAlways`, `PickFindsThreadAlways`,
`AssertionsHoldAlways` and `SessionLeavesNothingAlways`, from `SInv`, which `SessionInductive` proves, and `DeathHasCauseAlways` from
those and from when a process can be loaded (`DeathNeedsCause`: each of the six ways in which a core dies needs
a failed load or a process that was given back). None of the
first four is inductive: each needs where in its loop the application's core is when main destroys the process. The
argument has two cases.

- No thread is late. Then one thread is created, by main, and only the application's core reaches the
  scheduler. Its position tells what both containers hold (`InStep`): nothing before `OnCoreActivated` has pushed
  (`OwnerBefore`, `Empty`), the first thread and its core from then on (`OwnerTurn`, `Full`), nothing after its
  removal (`OwnerAfter`). The second removal of the same thread pops an empty `cores`, and that debt comes only when
  both are empty and the core leaves (`DebtWhenEmpty`).
- A thread is late: created on a process that was destroyed. That happens once, so at most two threads
  exist (`Listed`, `PidIsUp`, `StopIsOver`), and other cores than the application's only walk the list of the late one on
  their way out (`OthersWalkLate`, `WalksWhileLeaving`). The containers may disagree, but the pushes minus the pops
  that are still to come (`Balance`) are bounded, which leaves nothing at the end.

`MainKeepsSession` has the steps of main, `OtherKeepsSession` those of the other cores, and `OwnerKeepsSession`
those of the application's, with a lemma for each part of its way.

In `ExtractionProofs`, for every title, disk, buffer size, number of starts and of failing writes, from
`ExtractionAssumption` (files are finite, offsets wrap above twice the largest file, every file system with files
belongs to an extracted part):

- `TypeCorrect`: `Spec => []TypeOK`: copies hold bytes of their file, and no more than it has.
- `CompleteStaysAlways`: `Spec => CompleteStays`.
- `CopiedInOrderAlways`, `LossHasCauseAlways`: `Spec => []CopiedInOrder`, `Spec => []LossHasCause`.

`CompleteStays` needs that the copy being written is not complete, `CopyIsBehind`: it is shorter than
what was read of the file, which is less than the file while the loop goes on. That in turn needs where
the second cursor is: inside the copy, or, after errors, as far below zero as at most the blocks that
were read, so that the next write fails instead of landing in the file. `BlockIsWritten` and
`CursorAfterError` are the two turns of the loop, over `OverwriteType` (what `pwrite64` leaves);
`DiskStep`, `LoopStep` and `BehindStep` are the steps for the three parts of the invariant.

The other two rest on `CopyInv`, what holds on the disk while nothing was killed and no write failed: the file that is being
copied has its first bytes (`CopiedInOrder`), of the part the loop is at exactly the files it has begun are there
(`BegunIsThere`), every other file that is there is complete and all files of the parts behind the loop are
(`PartsAreWhole`), each file is listed once (`ListsAreWhole`), and what is returned indexes what is on the disk (`IndexIsWhole`).
That a finished list has passed every file of its part is `EachIsListed`: a list without repetitions that is as long as
a finite set holds each element of it.

In `CoroutineProofs`, for every number of keys, coroutines and yields: `PoolOKAlways`, `MainIsLastAlways` and
`FinishedStaysFinishedAlways`. `PoolInv` says that a slot has the coroutine of its own key or, when it was used again, one whose key is no
slot's (`KeysApart`), and, by position of main (`Positions`), which slots may be in which state: before `Go` all
wait, during it exactly the one of `local_gid` runs, and back in main at most one waits. `WalkEnds` shows that the walk of
`Yield` comes to somebody who can run; what is left is the slot that was given to a second coroutine (`CrashNeedsReuse`).

In `RecompilerProofs`, for every set of regions (of positive addresses: `mmap` never gives out zero), threads, CPUs and
sizes: `CodeOKAlways`, `CursorInBlockAlways` and `EmissionFaultHasCauseAlways`, from `CodeInv`.

- `Emission`: the block of the call in progress is `Filling` or `Open`. All others are `Closed`, what was emitted to
  them is sealed, and the cursor of each context is `Placed`: in its block, or, after `Compile` has moved that block, at
  its old place and at least two code sizes from the begin of it. No closed block can be written that far in, so the
  block that a cursor writes to is its own or none (`TargetOfCompile`, `TargetOfFill`).
- `Translations`: which of them have been emitted; with one CPU `IsCompiled` is then true only of no
  translations but those whose first address is null (`CompiledAlone`).
- `Shape`: the types, and what the call in progress is about.

There is one lemma per action.

In `LaunchProofs`, for every disk, order of loads and number of replaced files, from `LaunchAssumption` and
`NsoPageAssumption` (the games on a disk are of the shape `Game`, a page is not empty):
`ProcessFitsTitleAlways`. `FilesType` (`Inductive`) says that what is cached or open is a version of its file. `FitInv` says, at each position of a load, which
loader has run, and that the fields of the process are the functions of that very version (`ProcessFilledAlways`); files may
be replaced between any two steps. What those functions compute is a lemma each:

- `MetaDecodes`: the fold over the words of capabilities gives what `MetaIsDecoded` says without one. A number that is
  already in the map keeps its value (`PutKeeps`), the last word of priorities wins, and the end of the list stays where
  it was met.
- `CardFindsFirst`: the fold over the archives, in the order of the partitions, leaves the metadata and the content of
  the first archive that has them (`FirstStep`, `ListNcaStep`).
- `ImageWhole`: each byte of text and ro, and of the data where the program was not grown, is at its place.
  The pages that the first pass counts are at least the ones the data takes (`InitializedHolds`), so the spans of a module's
  sections follow one another (`SectionsFollow`), and those of a module are behind the ones before it
  (`AddressesAscend`, `ImageApart`): no later copy hides an earlier one. What `Game` asks of a module is what a linker
  does: a section is not larger packed than unpacked, and data comes after the pages of the others.

The loops are recursive functions of the model; as in `TitleProofs`, `RoundsExist` shows that there is
one for each loop that counts up, and the rest is induction over the rounds.

In `ProcessProofs`, for every size of the table and width of the counter, from `HandleAssumption` (the counter
is wider than the table) alone, `HandlesUniqueAlways` and `HandlesStableAlways`: `Spec => []HandlesUnique` and
`Spec => HandlesStable`. `HandlesUnique` needs that no entry has the handle which the counter gives out next,
`CounterIsFresh`, and that the head and the free list are iterators of the list's own nodes or its end (`TableType`),
since an entry is inserted before one of them. `InsertAtShifts` says what an insertion makes of a list, `FindIsEntry`
that a lookup of a live handle ends at it; `CreateStep`, `GetHandleStep`, `DestroyStep` and `CreateFailsStep` are the
four changes. `PlacesInductive` is about where entries go: of the nodes that the table began with, those from some
j-th on were never used, are the end of the list, and the j-th is the head's or on the free list
(`Frontier`, `Reached`). Each `Create` moves j on by one at most, so that `Create` has no place left only when
the counter is past the table's size (`CreateFailsLate`).

There too, for every table, slab, bound and page of more than one slot (`TlsAssumption`):

- `ProcessUsesTable`: `ProcessSpec => Spec`, a process only uses its table in the table's ways; hence
  `ProcessHandlesUnique` and `ProcessHandlesStable`. It needs that the handles `Destroy` looks up are in the
  counter's range.
- `SlotsOwnedAlways`, `StaleAreaIsFarAlways`, `EndsAtBoundsAlways`: the process's three invariants.

The latter follow from `PagesInv`. A process has one page at most, whose first `loads` slots are taken, because the
place of the moved-out pointer stops it before it asks for a second one (`PageShape`); the slab has each other
object once (`FreeShape`); and an area whose object was given back, if that is the k-th of the slab's list, is met
again by the k-th page that is made from now on (`AreasFar`). `EndsAtBounds` also needs `CreateFailsLate`. That the
slab hands out its front and takes back at its end is used in `SlabStep` and `DestroyPagesStep`.

In `MemoryProofs`, for every page size, layout of the regions, number and shape of modules, stack size and limit,
the five invariants of the run `memory`: `TableOKAlways`, `TrackerConservesAlways`, `SectionsMappedAlways`,
`GivenPagesKeptAlways`, `LoadSucceedsAlways`. `MemoryAssumption` is about numbers. `LayoutAssumption` is the order and
the sizes of the regions: code, stack, TLS in the guest and code, TLS, stack in the backing memory
(`user_space.cpp:27` and `:55`, `constants.h:11` and `:41`), the address of the code and the size of the stacks in whole
pages, and programs that end before the stacks. The code does not check it, and without it
the invariants are false, since blocks are split at the wrong address.

None of the five is inductive. `IInv` (proved in `PhaseAlways`, and checked before on all states of the run) says what the memory is at
each position of the loader (`Phase`):

- `Tested`, `StackReserved`: the table's blocks after the self test and after the stacks were reserved.
- `Mapping`: each section that was mapped is a block of its own, and one reserved block reaches from the place of the next section to
  the end of the code. `SectionMaps` is one section. That the second pass meets the addresses of the first is
  `PassesAgree` and `ModuleFits`; where modules start is a recursive function (`StartsAre`).
- `NoThread`: the TLS page was split off the stacks' block, and what is left behind it lies a page after
  the stacks' start, with a size that has wrapped. The first thread splits that block again or merges it
  (`SmallStack`, `BigStack`), a later one takes a page of it if the first has left one (`SecondStack`): the table describes the
  stacks wrongly, but what it gives out is inside their region (`OneThread`, `Placed`).
- `Tracked`: the tracker is one of four. Its sums are those of the folds' recursive function (`Sums`).
- `HostIs`: what the host maps. Only the self test and the two reservations map; a split leaves the host's pages alone, so sections and stacks
  keep theirs.
- `Fits => fate = "ok"`: each call that may fail shows that the program is not one that fits (`MapsOrFails`, `Failing`).

What a program was given lies apart by `GivenApart` and has its backing pages by `HostGives`. There is one lemma per action.

In `TitleProofs`, for every file, page size, width of integers and cipher block, from `ReadAssumption` and
`CounterAssumption`:

- `RegularReadFits`: what a read gives is no longer than was asked for; each byte that is not zero is the file's at its
  place; and a read that is inside the file gives all of it (`IsRead`).
- `CounterReadDecrypts`: a read of an encrypted section, from any offset in it, gives each byte with the mask of its own
  place in the archive, although the cipher's counter only tells whole blocks, if the section starts with a block.
  With `MaskTwice` this is the plain byte.

The loop of `ReadImpl` is a recursive function of the model. The provers know it as the `CHOOSE` of a function that
satisfies its equation, so one first needs that there is one: `LoopExists`, for every loop whose index ascends
(`Ascends`). What it computes follows by induction on what is left, which is done on sets of naturals (`UpTo`), since a
theorem with a predicate as its parameter cannot be used here.

There too, for every page, buffer, table and set of sizes, from `TitleAssumption` and `SizeAssumption`
(a title is shorter than what its integers count): `ChecksumAlwaysOK` and `VerdictIsAlwaysRight`. That a part of the file is
the archive it stands for is `FileIs`, by induction over the archives (`FlattenExtends`, `WholeBegins`); `ReadIs` says
what a turn of the loop reads. Neither property is inductive. `TitleInv` says that the last bytes which were hashed, as many as
the cursor has passed, are the archive's or zeros for what was cut off, also when an earlier archive has left
bytes behind in the checksum (`Reading`); that nothing else was hashed while no read has failed (`Undisturbed`); and that the archives
that were passed are whole (`Passed`). A digest that is right then has the length of the archive, so nothing was left before it
(`EndOfArchive`); and each archive is passed, since an order without repetitions has all of them (`TitleIs`).

There too, for every package, set of rights and names, number of directories and files, page and cipher block:
`OpenedContentReads`, `FitTitlesOpen` and `MountedTreesAreWhole`, the three invariants of the run `archives`. The
assumption is `ArchivesAssumption`: a title is shorter than what its integers count, the sections of an archive lie in
it, those in counter mode begin with a block and share no byte with those in plain, and one with a RomFS has the
tables of an image. All this is what a file of the format looks like; the code does not check it. Which keys there
are, what the headers say, where the blocks and tables lie, and what is damaged is free: that the sections begin and the
tables end below 4 GiB is a condition in the properties, on the title or the image they are about, and no assumption. `ArchivesInv` has four parts:

- `KeysInv`: the title keys are those of the key files, which stay, and those of the tickets that were looked at; a
  ticket with a number and rights of its own has left its key (`ImportKeeps`). So `KeyOf` gives the right key for an
  archive whose key is known (`KeyFound`), and `NcaCore`'s constructor does not throw (`FitOpens`).
- `OpenedInv`: each archive that was passed is among the contents with a view for each of its readable sections
  (`ViewsAre`), or was the metadata. That its views can be read (`Readable`) is an argument by cases: with the right key
  each byte is masked twice alike (`CounterReadDecrypts`, `MaskTwice`); with another key the first byte is never the
  plain one (`OtherMask`), so the assertions about the first bytes of a section have ended the program.
- `MountsInv`: while a title with a program is mounted, its partition is found or among the views still to be looked at.
- `WalkInv`, while the tables of the image end below 4 GiB: the visitors' calls are a path down the image, `path` belongs to the last of them, the tree has only
  entries of the image, and each directory or file is in the tree, or waits for a call that is under way: it comes
  after the link of a call (`Awaited`, `Pending`), or its parent waits. With no call left nothing waits, and an
  induction over the offsets shows the tree to be whole (`WalkMeetsAll`).

`FlattenHas` and `ChosenIs` say which views `GetAllContent` puts together, and `ImageIs` and `PathsOfEntries` that the
links of `Tables` lead through the entries below a directory in the order of their offsets, and that paths tell entries
apart.

The invariants of the theorems were model-checked before they were proved. Each safety invariant of the passing runs is
stated by a theorem. Only model-checked are the liveness properties, since the prover knows neither
fairness nor `ENABLED`, and the three disagreements with the code's own words, which are counterexamples.

## Not modelled

Ciphers, hashes, decompression, the text of key files, SDL, Vulkan and audio are libraries or pure I/O.
`PROJECT.json` lists every component with the reason. Torn reads of containers under a data race are
left out, as are memory exhaustion of the host other than its limit on
mappings, and files that someone else changes while the program reads them.

## Plan

Done: the core (`CoreScheduling`, with its refinement), memory, coroutines, titles and archives,
extraction, process and TLS, recompiler, launch, and the proofs of their invariants. Left are abstract
specifications: a title is accepted iff each of its eligible archives has its own digest; guest memory as a
map from pages to owners.
