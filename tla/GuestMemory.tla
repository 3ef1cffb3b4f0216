---------------------------- MODULE GuestMemory -----------------------------
(***************************************************************************)
(* The guest address space while an application is loaded: MemoryNx's      *)
(* table of blocks with its cache (nxk/memory_nx.cpp), the Tracker of the  *)
(* backing memory (nxk/tracker.cpp), the host's own page table, and the    *)
(* calls that use them, in the program's order: CreateProcessMemory, the   *)
(* two passes of NsoModules::LoadProgramImage, the TLS page, the stack of  *)
(* the first thread.  Addresses are offsets; the unit is half a page, so   *)
(* that a size may be unaligned.                                           *)
(***************************************************************************)
EXTENDS Naturals, FiniteSets, FiniteSetsExt, Functions

CONSTANTS
    PageSize,       \* SwitchPageSize, in units
    Modulus,        \* the modulus of u64 arithmetic
    GuestSize, BackSize,
    SelfTest,       \* [guest, back]: InitSelfTest's addresses
    Stack,          \* [guest, back, size]: the reserved stack region
    Tls,            \* [guest, back, size]: the first slab object and the size reserved with it
    CodeAddr,       \* CreateProcessParameter::codeAddr
    Shapes,         \* the NSO modules considered
    Modules,        \* how many of them exefs holds
    StackSizes,     \* mainThreadStackSize values considered
    ResourceSizes,  \* systemResourceSize values considered
    MapLimits       \* values of vm.max_map_count considered

Align(n) == ((n + PageSize - 1) \div PageSize) * PageSize
Minus(a, b) == (a + Modulus - b) % Modulus
Plus(a, b) == (a + b) % Modulus

\* std::map::insert_or_assign.
InsertOrAssign(map, key, value) ==
    [k \in DOMAIN map \cup {key} |-> IF k = key THEN value ELSE map[k]]

ASSUME MemoryAssumption ==
    /\ PageSize \in Nat \ {0} /\ Modulus \in Nat /\ Modulus > 2 * (GuestSize + BackSize)
    /\ GuestSize \in Nat /\ BackSize \in Nat /\ GuestSize > BackSize
    /\ Shapes \subseteq [text : Nat \ {0}, ro : Nat \ {0}, data : Nat \ {0},
                         bss : Nat, valid : BOOLEAN]
    /\ Modules \in Nat \ {0} /\ StackSizes \subseteq Nat \ {0}
    /\ ResourceSizes \subseteq Nat /\ MapLimits \subseteq Nat

VARIABLES
    mem,     \* MemoryNx: blocks, flat and its stale part, the tracker, host
    image,   \* what is loaded: the modules, the stack and the resource size; and
             \* the host's mapCountBarrier
    pc,      \* what the loader does next
    address, \* the second pass's address, then CreateThread's
    used,    \* what the program was given: guest addresses, with their sizes
    fate     \* "ok", "bad_alloc" or "aborted" by an assertion

vars == <<mem, image, pc, address, used, fate>>

None == Modulus    \* no address
States == {"Free", "Alias", "Shared", "Code", "ThreadLocal", "Stack"}

-----------------------------------------------------------------------------
(* Tracker. *)

\* The record of the last key not above p.
Below(map, p) == Max({k \in DOMAIN map : k <= p})

\* Tracker::Contains, its answers 1 and 2 as TRUE: is the record before p
\* allocated?  Above every key the iterator is the map's end.  What is read
\* there is undefined; with libstdc++, on whose span iterators the code depends
\* to compile, it is the low byte of residentMaps, two words behind the map.
Contains(t, p) ==
    IF \E k \in DOMAIN t.map : p <= k THEN t.map[Below(t.map, p)].allocated
    ELSE t.maps % 256 # 0

\* Tracker::Allocate of a pointer without a record.
Commit(t, p, size) ==
    [map |-> InsertOrAssign([t.map EXCEPT ![Min(DOMAIN t.map)].size = Minus(@, size)],
                            p, [size |-> size, allocated |-> TRUE]),
     commited |-> t.commited + size, maps |-> t.maps + 1]

\* Mutant: the size does not go back to the first record.
Release_LosesSize(t, p) ==
    IF p \notin DOMAIN t.map \/ ~t.map[p].allocated THEN t
    ELSE [map |-> Restrict(t.map, DOMAIN t.map \ {p}),
          commited |-> t.commited - t.map[p].size, maps |-> t.maps - 1]

\* Mutant: the record stays.
Release_KeepsRecord(t, p) == t

\* Tracker::Free.
Release(t, p) ==
    IF p \notin DOMAIN t.map \/ ~t.map[p].allocated THEN t
    ELSE LET size == t.map[p].size IN
         [map |-> Restrict([t.map EXCEPT ![Min(DOMAIN t.map)].size = Plus(@, size)],
                           DOMAIN t.map \ {p}),
          commited |-> t.commited - size, maps |-> t.maps - 1]

-----------------------------------------------------------------------------
(* MemoryNx. *)

Block(base, size, state) == [base |-> base, size |-> size, state |-> state, old |-> "Free"]

\* MemoryNx::Initialize and the Tracker's constructor.
Fresh ==
    [blocks |-> [k \in {0, GuestSize} |-> Block(0, GuestSize - k, "Free")],
     flat |-> {}, stale |-> {},
     tracker |-> [map |-> [k \in {0} |-> [size |-> BackSize, allocated |-> FALSE]],
                  commited |-> 0, maps |-> 0],
     host |-> [g \in {} |-> 0]]

\* SearchBlock: a cached address, or the block that starts last before it; the
\* end of a block counts as inside.
Found(m, addr) ==
    LET base == Below(m.blocks, addr)
    IN IF addr \in m.flat THEN addr
       ELSE IF Plus(base, m.blocks[base].size) < addr THEN None ELSE base

\* ... and the cache it leaves.
Cached(m, addr) ==
    IF Found(m, addr) = None THEN m ELSE [m EXCEPT !.flat = @ \cup {Found(m, addr)}]

\* Mutant: the block is shrunk after the new one was put in.
SplitBlocks_ShrinksLast(b, first, addr, phys, size, type) ==
    LET rest == [b[first] EXCEPT !.size = Minus(Plus(first, @), addr + size)]
        added == InsertOrAssign(InsertOrAssign(b, first + size, rest), addr, Block(phys, size, type))
    IN [added EXCEPT ![first] = [b[first] EXCEPT !.size = addr - first]]

\* Allocate within one block: shrink it, put what is left behind it at
\* first + size, then the new block at addr.
SplitBlocks(b, first, addr, phys, size, type) ==
    LET rest == [b[first] EXCEPT !.size = Minus(Plus(first, @), addr + size)]
        shrunk == [b EXCEPT ![first].size = addr - first]
    IN InsertOrAssign(InsertOrAssign(shrunk, first + size, rest), addr, Block(phys, size, type))

\* Allocate over two blocks, the first of which ends after the gap.
ShrinkBlocks(b, first, size) ==
    IF b[first].size <= size THEN b
    ELSE InsertOrAssign([b EXCEPT ![first].size = Minus(@, size)], first + size,
                        [b[first] EXCEPT !.size = Minus(@, size), !.base = @ + size])

\* Allocate over two blocks that have room for the size: the blocks from the
\* second to the last are forgotten, the last one itself when it is the second.
MergeBlocks(b, first, last) ==
    LET between == {k \in DOMAIN b : first < k /\ k < last}
    IN Restrict(b, DOMAIN b \ (IF between # {} THEN between ELSE {last}))

\* How Allocate ends when it throws or an assertion fails.
Failed(m, how) == [mem |-> m, fate |-> how, at |-> None]

\* The end of Allocate: SearchBlock must give the block back, it gets the type,
\* and the cache is dropped when an used of it lies far enough below.
Reprotected(m, addr, size, type, changed, result) ==
    LET c == IF changed THEN Cached(m, addr) ELSE m
        typed == IF changed THEN [c EXCEPT !.blocks[result].state = type] ELSE c
        reset == \E f \in typed.flat : f + size < addr
    IN IF changed /\ Found(m, addr) # result THEN Failed(c, "aborted")
       ELSE [mem |-> [typed EXCEPT !.flat = IF reset THEN {} ELSE @,
                                   !.stale = IF reset THEN {} ELSE @],
             fate |-> "ok", at |-> result]

\* mmap of the backing memory from phys on at addr.
Backed(host, addr, phys, size) ==
    [g \in DOMAIN host \cup (addr .. addr + size - 1) |->
        IF g \in addr .. addr + size - 1 THEN phys + (g - addr) ELSE host[g]]

\* The blocks and pages Allocate adds when it has no block to reuse.
Extended(m, addr, phys, size, type) ==
    [m EXCEPT !.tracker = Commit(@, phys, size),
              !.host = Backed(@, addr, phys, size),
              !.blocks = InsertOrAssign(@, addr, Block(phys, size, type))]

\* Mutant: every block is mapped from the start of the backing memory.
Mapped_NoOffset(m, addr, phys, size, type, changed) ==
    LET new == [Extended(m, addr, phys, size, type) EXCEPT
                    !.host = Backed(@, addr, 0, size)]
    IN Reprotected(new, addr, size, type, changed, addr)

\* Allocate without a block to reuse: ask the tracker, map the backing pages,
\* and check the process's limit on blocks.
Mapped(m, addr, phys, size, type, changed) ==
    IF Contains(m.tracker, phys) THEN Failed(m, "bad_alloc")
    ELSE IF phys \in DOMAIN m.tracker.map THEN Failed(m, "aborted")
    ELSE IF m.tracker.maps = image.barrier THEN Failed(m, "bad_alloc")
    ELSE IF image.resource # 0 /\ Cardinality(DOMAIN m.blocks) > image.resource
         THEN Failed([Extended(m, addr, phys, size, type) EXCEPT !.blocks = m.blocks],
                     "bad_alloc")
    ELSE Reprotected(Extended(m, addr, phys, size, type), addr, size, type, changed, addr)

\* MemoryNx::Allocate: [mem, fate, at].
Allocate(m, addr, phys, asked, type) ==
    LET b == m.blocks
        first == Below(b, addr)
        last == Below(b, addr + asked)
        size == Align(asked)
        changed == b[first].state # type
        usable == b[first].state \in {"Free", "Alias"} /\ type # "Alias"
        With(blocks) == [m EXCEPT !.blocks = blocks,
                                  !.stale = @ \cup (m.flat \ DOMAIN blocks)]
        Fresher(n) == Mapped(n, addr, phys, size, type, changed)
        Reuse(n, at) == Reprotected(n, addr, size, type, changed, at)
        split == With(SplitBlocks(b, first, addr, phys, size, type))
    IN IF first = last /\ type # "Alias"
       THEN IF first = addr /\ ~changed THEN [mem |-> m, fate |-> "ok", at |-> addr]
            ELSE IF b[first].state = "Free" THEN Fresher(split) ELSE Reuse(split, addr)
       ELSE IF first + size < last /\ usable
       THEN Reuse(With(ShrinkBlocks(b, first, size)), first)
       ELSE IF Plus(b[first].size, b[last].size) >= size /\ usable
       THEN IF Plus(first, b[first].size) = last THEN Failed(m, "aborted")
            ELSE Reuse(With(MergeBlocks(b, first, last)), first)
       ELSE Fresher(m)

\* MemoryNx::Reserve: nothing when a block or the tracker has the address.
Reserve(m, addr, phys, size) ==
    LET r == Allocate(m, addr, phys, size, "Alias")
    IN IF Found(m, addr) # None \/ Contains(m.tracker, phys)
       THEN [mem |-> Cached(m, addr), fate |-> "ok", at |-> None]
       ELSE IF r.fate = "ok" THEN [r EXCEPT !.mem = Cached(@, addr)] ELSE r

\* Mutant: the block is forgotten, but not by the cache.
Free_Erases(m, addr, asked) ==
    LET at == Found(m, addr)
    IN IF at = None THEN m
       ELSE [Cached(m, addr) EXCEPT !.tracker = Release(@, m.blocks[at].base),
                                    !.blocks = Restrict(@, DOMAIN @ \ {at}),
                                    !.stale = @ \cup {at}]

\* MemoryNx::Free of a block that SearchBlock finds: keep what lies above the
\* size as a block of its own, and tell the tracker.
Free(m, addr, asked) ==
    LET at == Found(m, addr)
        block == m.blocks[at]
        size == Align(asked)
        above == [block EXCEPT !.size = Minus(@, size), !.base = @ + size]
        freed == [m.blocks EXCEPT ![at] = [@ EXCEPT !.size = size, !.old = block.state,
                                                    !.state = "Free"]]
    IN IF at = None THEN m
       ELSE [Cached(m, addr) EXCEPT
                !.tracker = Release(@, block.base),
                !.blocks = IF size = block.size THEN freed
                           ELSE InsertOrAssign(freed, addr + size, above)]
-----------------------------------------------------------------------------
(* The program image: NsoCore::Load and KProcess::SetProgramImage. *)

\* NsoCore's program.size(), grown by the first pass when the hashes are right.
ProgramSize(s) ==
    LET file == Align(s.text) + Align(s.ro) + s.data
    IN IF s.valid THEN Align(file + s.bss) ELSE file

RoAt(v, s) == Align(v + s.text)
DataAt(v, s) == Align(RoAt(v, s) + s.ro)

\* The data section with what the other sections leave of the program.
DataSize(s) ==
    Align(Plus(s.data, Minus(ProgramSize(s), Align(s.text) + Align(s.ro) + Align(s.data))))

\* Where a module loaded at v ends; Load returns at once on a wrong hash.
EndOf(v, s) == IF s.valid THEN DataAt(v, s) + DataSize(s) ELSE v

\* The first pass: LoadModule for each file in order.
Starts(modules) ==
    LET at[i \in 1 .. Modules + 1] ==
            IF i = 1 THEN CodeAddr ELSE EndOf(at[i - 1], modules[i - 1])
    IN at

\* NsoModules::modules: insert_or_assign keeps the last module of an address.
ModulesOf(modules) ==
    LET start == Starts(modules)
    IN [v \in {start[i] : i \in 1 .. Modules} |->
           modules[Max({i \in 1 .. Modules : start[i] = v})]]

ModuleAt == ModulesOf(image.modules)
Planned == Starts(image.modules)[Modules + 1] - CodeAddr

\* The size LoadProgramImage reserves: to the end of the last module's program.
ReserveSize(modules) ==
    LET sdk == Max(DOMAIN ModulesOf(modules))
    IN sdk + ProgramSize(ModulesOf(modules)[sdk]) - CodeAddr

\* The regions' order and sizes, in the guest and in the backing memory: user_space.cpp:27
\* and :55, constants.h:11 and :41, and programs that end before the stacks' pages.
ASSUME LayoutAssumption ==
    /\ SelfTest \in [guest : Nat, back : Nat]
    /\ Stack \in [guest : Nat, back : Nat, size : Nat] /\ Tls \in [guest : Nat, back : Nat, size : Nat]
    /\ CodeAddr \in Nat /\ Align(CodeAddr) = CodeAddr
    /\ Align(Stack.size) = Stack.size /\ Stack.size >= 2 * PageSize
    /\ PageSize < SelfTest.guest /\ SelfTest.guest + PageSize < CodeAddr
    /\ Stack.guest + Stack.size < Tls.guest /\ Tls.guest + PageSize < GuestSize
    /\ 0 < SelfTest.back /\ SelfTest.back + PageSize <= BackSize
    /\ CodeAddr < Tls.back /\ Tls.back < Stack.back /\ Stack.back + Stack.size <= BackSize
    /\ \A modules \in [1 .. Modules -> Shapes] :
          LET end == CodeAddr + Align(ReserveSize(modules))
          IN end < Stack.guest /\ end <= Stack.back
-----------------------------------------------------------------------------
(* The loader's steps. *)

Init ==
    /\ mem = Fresh
    /\ image \in [modules : [1 .. Modules -> Shapes], stack : StackSizes,
                  resource : ResourceSizes, barrier : MapLimits]
    /\ pc = "selftest" /\ address = CodeAddr /\ used = [v \in {} |-> 0] /\ fate = "ok"

\* A call of MemoryNx that may end the program, and the pc after it.
Call(from, r, to) ==
    /\ fate = "ok" /\ pc = from
    /\ mem' = r.mem /\ fate' = r.fate
    /\ pc' = to /\ UNCHANGED image

\* UserSpace::InitSelfTest: Allocate 4 bytes...
SelfTestAllocate ==
    /\ Call("selftest", Allocate(mem, SelfTest.guest, SelfTest.back, 1, "Shared"), "selffree")
    /\ UNCHANGED <<address, used>>

\* ... and Free them.
SelfTestFree ==
    /\ Call("selffree", [mem |-> Free(mem, SelfTest.guest, 1), fate |-> "ok"], "stack")
    /\ UNCHANGED <<address, used>>

\* The end of CreateProcessMemory.
ReserveStack ==
    /\ Call("stack", Reserve(mem, Stack.guest, Stack.back, Stack.size), "code")
    /\ UNCHANGED <<address, used>>

\* The second pass: LoadProgramImage asserts there are more than two modules
\* and reserves the code.
ReserveCode ==
    /\ Call("code", IF Cardinality(DOMAIN ModuleAt) <= 2 THEN Failed(mem, "aborted")
                    ELSE Reserve(mem, CodeAddr, CodeAddr, ReserveSize(image.modules)),
            "text")
    /\ UNCHANGED <<address, used>>

\* UserSpace::MapProgramCode of one section; Protect looks the block up and no more,
\* since no MemoryType has the protect bit.
MapProgramCode(from, v, size, to) ==
    /\ LET r == Allocate(mem, v, v, size, "Code")
       IN Call(from, IF r.fate = "ok" THEN [r EXCEPT !.mem = Cached(@, r.at)] ELSE r, to)
    /\ used' = InsertOrAssign(used, v, size)

\* KProcess::SetProgramImage of the module at address.
MapText ==
    /\ address \in DOMAIN ModuleAt /\ ModuleAt[address].valid
    /\ MapProgramCode("text", address, ModuleAt[address].text, "ro")
    /\ UNCHANGED address

MapRo ==
    /\ MapProgramCode("ro", RoAt(address, ModuleAt[address]), ModuleAt[address].ro, "data")
    /\ UNCHANGED address

MapData ==
    /\ MapProgramCode("data", DataAt(address, ModuleAt[address]),
                      DataSize(ModuleAt[address]), "text")
    /\ address' = EndOf(address, ModuleAt[address])

\* The pass is over: EShopTitle::Load asserts that it gave what the first gave.
FinishImage ==
    /\ fate = "ok" /\ pc = "text"
    /\ ~(address \in DOMAIN ModuleAt /\ ModuleAt[address].valid)
    /\ fate' = IF address - CodeAddr = Planned THEN "ok" ELSE "aborted"
    /\ pc' = "tls" /\ UNCHANGED <<mem, image, address, used>>

\* KSlabHeap::Allocate for the first TLS page: Reserve, then Allocate, and
\* neither's result is looked at.
AllocateTls ==
    /\ LET r == Reserve(mem, Tls.guest, Tls.back, Tls.size)
       IN Call("tls", IF r.fate # "ok" THEN r
                      ELSE Allocate(r.mem, Tls.guest, Tls.back, PageSize, "ThreadLocal"),
               "thread")
    /\ used' = InsertOrAssign(used, Tls.guest, PageSize)
    /\ address' = Stack.guest

\* The state of the block KProcess::CreateThread looks at; there always is one
\* once the stack was reserved.
Walked == mem.blocks[Found(mem, address)].state

\* KProcess::CreateThread, its loop: from the region's start over the blocks in
\* use as stacks; it spins for ever on a block that is no stack and not reserved...
WalkStack ==
    /\ fate = "ok" /\ pc = "thread" /\ Walked = "Stack"
    /\ mem' = Cached(mem, address)
    /\ address' = address + mem.blocks[Found(mem, address)].size
    /\ UNCHANGED <<image, pc, used, fate>>

\* ... up to a reserved one, of which it takes the thread's stack.
CreateThread ==
    /\ pc = "thread" /\ Walked = "Alias"
    /\ Call("thread",
            Allocate(Cached(mem, address), address, mem.blocks[Found(mem, address)].base,
                     image.stack, "Stack"),
            IF Stack.guest \in DOMAIN used THEN "done" ELSE "running")
    /\ used' = InsertOrAssign(used, address, image.stack)
    /\ UNCHANGED address

\* The application's core may create a thread again (CoreScheduling's late thread).
CreateLateThread ==
    /\ fate = "ok" /\ pc = "running"
    /\ pc' = "thread" /\ address' = Stack.guest
    /\ UNCHANGED <<mem, image, used, fate>>

Next ==
    \/ SelfTestAllocate \/ SelfTestFree \/ ReserveStack \/ ReserveCode
    \/ MapText \/ MapRo \/ MapData \/ FinishImage \/ AllocateTls
    \/ WalkStack \/ CreateThread \/ CreateLateThread

Spec == Init /\ [][Next]_vars
-----------------------------------------------------------------------------
(* Correctness. *)

Addr == 0 .. Modulus - 1

\* The table, the cache and the tracker keep the types of their declarations,
\* and the host's limit on mappings is never passed (tracker.cpp:24).
TypeOK ==
    /\ \A k \in DOMAIN mem.blocks :
          k \in Addr /\ mem.blocks[k] \in [base : Addr, size : Addr, state : States, old : States]
    /\ mem.flat \subseteq Addr /\ mem.stale \subseteq Addr
    /\ mem.tracker.maps \in 0 .. image.barrier
    /\ pc \in {"selftest", "selffree", "stack", "code", "text", "ro", "data", "tls",
               "thread", "running", "done"}
    /\ fate \in {"ok", "bad_alloc", "aborted"}

\* Tracker: what was committed is exactly what the records hold and what the
\* first record has lost, over every Allocate, Free and failure.
TrackerConserves ==
    LET t == mem.tracker
        records == DOMAIN t.map \ {0}
    IN /\ t.map[0].size + t.commited = BackSize
       /\ t.commited = MapThenSumSet(LAMBDA k : t.map[k].size, records)
       /\ t.maps = Cardinality(records)

\* The guest pages of something the program was given.
Pages(v) == v .. v + Align(used[v]) - 1

\* What the program was given does not overlap, in the guest or in the backing
\* memory, although blocks are split at the wrong address (memory_nx.cpp:91) and
\* give a size modulo 2^64 (memory_nx.cpp:90).
GivenPagesDisjoint ==
    fate = "ok" =>
        \A v, w \in DOMAIN used : v # w =>
            /\ Pages(v) \cap Pages(w) = {}
            /\ \A g \in Pages(v) \cap DOMAIN mem.host, h \in Pages(w) \cap DOMAIN mem.host :
                  mem.host[g] # mem.host[h]

\* Every section of every module is a block of its own in the table, over
\* backing pages at the section's offset, after all that was allocated later.
SectionsMapped ==
    fate = "ok" =>
        \A v \in DOMAIN used : v < Stack.guest =>
            /\ v \in DOMAIN mem.blocks
            /\ [mem.blocks[v] EXCEPT !.old = "Free"] = Block(v, Align(used[v]), "Code")
            /\ \A g \in Pages(v) : g \in DOMAIN mem.host /\ mem.host[g] = g

\* A thread's stack lies in the backing pages reserved for stacks: the TLS page
\* was allocated in between, out of the block that describes them.
StackBacked ==
    fate = "ok" =>
        \A v \in DOMAIN used : v \in Stack.guest .. Tls.guest - 1 =>
            \A g \in Pages(v) :
                g \in DOMAIN mem.host /\ mem.host[g] - Stack.back = g - Stack.guest

\* Nobody else's pages, and the right ones for a stack, whatever the table says.
GivenPagesKept == GivenPagesDisjoint /\ StackBacked

\* The cache never holds a block the table has erased (memory_nx.cpp:274 asserts it).
CacheFresh == mem.stale = {}

\* What Allocate, Free and SearchBlock rely on: the table, the tracker and the cache.
TableOK == TypeOK /\ CacheFresh

\* An application of more than two modules whose hashes are right, on a host that
\* allows the mappings, without a limit on blocks and with a stack that leaves a
\* page of the region, is loaded: no allocation throws, no assertion fails (the two
\* passes agree, eshop_title.cpp:76), and the first thread finds its stack.
LoadSucceeds ==
    /\ Cardinality(DOMAIN ModuleAt) > 2 /\ image.resource = 0
    /\ image.stack + PageSize <= Stack.size /\ image.barrier > 2
    => /\ fate = "ok"
       /\ pc = "thread" /\ Stack.guest \notin DOMAIN used => Walked = "Alias"
=============================================================================
