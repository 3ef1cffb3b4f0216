------------------------------ MODULE Recompiler ------------------------------
(* JitContext, its translator to intermediate code and its emitter (armored/):   *)
(* a guest CPU is added with a block of text pages, a run translates the guest's *)
(* code, and what is not compiled yet is emitted to the block of the thread that *)
(* runs it.  A call is not overlapped by another one: the classes take no lock.  *)
EXTENDS Integers, Sequences, FiniteSets, SequencesExt

CONSTANTS
    Threads,      \* of the host
    Ids,          \* numbers that CpuContext draws for itself
    Programs,     \* the guest's memory: sequences of words
    CodeSize,     \* bytes of a block; 64 KiB in the code
    Regions,      \* addresses at which the host may map a block
    Strays,       \* addresses that may lie before an empty deque
    MaxRuns,      \* bound: runs that translate
    MaxFaults     \* bound: times the host refuses to enlarge a mapping

\* A word of guest code is the set of its bits that are 1.
Word == SUBSET (0 .. 31)

ASSUME RecompilerAssumption ==
    /\ Ids \subseteq Nat \ {0} /\ Regions \subseteq Nat \ {0}
    /\ CodeSize \in Nat /\ CodeSize > 0 /\ CodeSize % 4 = 0
    /\ \A p \in Programs : p \in Seq(Word) /\ Len(p) > 0
    /\ Strays \subseteq Int /\ MaxRuns \in Nat /\ MaxFaults \in Nat

VARIABLES
    memory,     \* vmainmap
    cpus,       \* the emitter's contexts by identifier: [owner, attached, next]
    blocks,     \* the identifiers in the JitContext's own map
    texts,      \* the block of each context: [at, size, sealed, used, moved]
    list,       \* irsList: the blocks of intermediate code of each translation
    emitted,    \* the translations that were compiled
    call,       \* the call that is going on
    runs, faults,
    fate        \* "ok", "crashed" or "destroyed"

vars == <<memory, cpus, blocks, texts, list, emitted, call, runs, faults, fate>>
bounded == <<memory, runs, faults>>

\* A text block has its first `sealed` bytes executable and the rest writable.
\* `used` is how far it was written, `moved` whether that moved it under a Compile.
Nowhere == [at |-> 0, offset |-> 0]
Idle == [op |-> "none"]

Init ==
    /\ memory \in Programs
    /\ cpus = <<>> /\ blocks = {} /\ texts = <<>>
    /\ list = <<>> /\ emitted = {}
    /\ call = Idle /\ runs = 0 /\ faults = 0 /\ fate = "ok"

Ready == fate = "ok" /\ call = Idle
Crash == fate' = "crashed" /\ call' = Idle
Put(f, x, v) == [y \in DOMAIN f \cup {x} |-> IF y = x THEN v ELSE f[y]]
FreeRegions == Regions \ {texts[i].at : i \in DOMAIN texts}

\* GetThreadCtx: the first context, by identifier, that this thread owns.
Mine(t) == {i \in DOMAIN cpus : cpus[i].owner = t}
ThreadCtx(t) == CHOOSE i \in Mine(t) : \A j \in Mine(t) : i <= j
-----------------------------------------------------------------------------
\* ~ReadableTextBlock looks for itself among the contexts: if there are any, it
\* asks a dying object for a shared pointer, which throws in a destructor.
DyingBlockThrows(others) == others # {}

\* Activate with a number that is there but not in `blocks`: the caller's own
\* context is erased first, another thread's is replaced, and its block dies.
ReplacingThrows(t, i, owner) ==
    i \in DOMAIN cpus /\ DyingBlockThrows(IF owner = t THEN DOMAIN cpus \ {i} ELSE DOMAIN cpus)

Context(owner, attached) == [owner |-> owner, attached |-> attached, next |-> Nowhere]
NewText(at) == [at |-> at, size |-> CodeSize, sealed |-> 0, used |-> 0, moved |-> FALSE]

\* Initialize gives a cursor to its thread's first context, if that has none.
WithCursor(added, i, at) ==
    IF added[i].next # Nowhere THEN added ELSE [added EXCEPT ![i].next = [at |-> at, offset |-> 0]]

\* AddCpu, to the loop of NOPs in Initialize.  A context that exists is an exception
\* and changes nothing.  If the thread has no context, the cursor of none is read.
AddCpu(t, i, owner, attached) ==
    /\ Ready /\ i \notin blocks
    /\ i \in DOMAIN cpus => cpus[i].owner = owner
    /\ \E at \in FreeRegions :
          LET added == Put(cpus, i, Context(owner, attached))
              mine  == {j \in DOMAIN added : added[j].owner = t}
          IN IF mine = {} \/ ReplacingThrows(t, i, owner) THEN Crash /\ UNCHANGED <<cpus, texts>>
             ELSE /\ cpus' = WithCursor(added, CHOOSE j \in mine : \A k \in mine : j <= k, at)
                  /\ texts' = Put(texts, i, NewText(at))
                  /\ call' = [op |-> "fill", thread |-> t, id |-> i, todo |-> CodeSize]
                  /\ UNCHANGED fate
    /\ UNCHANGED <<bounded, blocks, list, emitted>>

\* mmap fails: Expand leaves the block without memory, and Protect's assertion on
\* mprotect fails.
AddCpuUnmapped ==
    /\ Ready /\ faults < MaxFaults /\ Crash
    /\ faults' = faults + 1
    /\ UNCHANGED <<memory, runs, cpus, blocks, texts, list, emitted>>

\* mprotect to what Protect(Disable) or Protect(Enable) gives [0, upTo).
Seal(i, upTo) == [texts EXCEPT ![i].sealed = upTo]

\* ResetBuffer: back to where the block is now.
Begin(i) == [at |-> texts[i].at, offset |-> 0]

\* The end of Initialize and AddCpu.  ResetBuffer asserts that the cursor moves.
Initialized ==
    /\ fate = "ok" /\ call.op = "fill" /\ call.todo = 0
    /\ LET i     == call.id
           first == ThreadCtx(call.thread)
       IN /\ cpus' = [cpus EXCEPT ![first].next = Begin(first)]
          /\ fate' = IF cpus[first].next = Begin(first) THEN "crashed" ELSE "ok"
          /\ texts' = Seal(i, CodeSize)
          /\ blocks' = blocks \cup {i}
    /\ call' = Idle
    /\ UNCHANGED <<bounded, list, emitted>>
-----------------------------------------------------------------------------
\* The block that a cursor points into, if it may be written there.
Target(next) == {i \in DOMAIN texts : /\ texts[i].at = next.at
                                      /\ next.offset >= texts[i].sealed
                                      /\ next.offset < texts[i].size}

\* Mutant: the end is not noticed until it has been passed.
AtEnd_Passed(next, text) ==
    next.at > text.at \/ (next.at = text.at /\ next.offset > text.size)

\* Advance's comparison of the cursor with its block's end, as addresses.
AtEnd(next, text) ==
    next.at > text.at \/ (next.at = text.at /\ next.offset >= text.size)

\* Expand: the mapping doubles, in place or elsewhere.  The cursor is no part of it.
Expanded(text) ==
    {[text EXCEPT !.size = 2 * @]} \cup
    {[text EXCEPT !.size = 2 * @, !.at = at, !.moved = @ \/ call.op = "compile"] : at \in FreeRegions}

Past(next) == [next EXCEPT !.offset = @ + 1]
Wrote(next) == [j \in DOMAIN texts |->
                  IF j \in Target(next) /\ texts[j].used <= next.offset
                  THEN [texts[j] EXCEPT !.used = next.offset + 1] ELSE texts[j]]

\* EmitNop, WriteInstruction and Advance: one byte at the cursor of the thread's
\* context.  A cursor into memory that is not writable ends the program.
EmitNop ==
    /\ fate = "ok" /\ call.op \in {"fill", "compile"} /\ call.todo > 0
    /\ LET i     == ThreadCtx(call.thread)
           next  == cpus[i].next
           after == Past(next)
           wrote == Wrote(next)
       IN IF Target(next) = {} THEN Crash /\ UNCHANGED <<cpus, texts>>
          ELSE /\ cpus' = [cpus EXCEPT ![i].next = after]
               /\ IF AtEnd(after, texts[i])
                  THEN \E text \in Expanded(wrote[i]) : texts' = [wrote EXCEPT ![i] = text]
                  ELSE texts' = wrote
               /\ call' = [call EXCEPT !.todo = @ - 1]
               /\ UNCHANGED fate
    /\ UNCHANGED <<bounded, blocks, list, emitted>>

\* mremap fails in Expand: the exception leaves the call as it is, the context of
\* an AddCpu without its entry in `blocks`, the block of a Compile writable.
ExpandThrows ==
    /\ fate = "ok" /\ call.op \in {"fill", "compile"} /\ call.todo > 0
    /\ faults < MaxFaults
    /\ LET i    == ThreadCtx(call.thread)
           next == cpus[i].next
       IN /\ Target(next) # {} /\ AtEnd(Past(next), texts[i])
          /\ cpus' = [cpus EXCEPT ![i].next = Past(next)]
          /\ texts' = Wrote(next)
    /\ faults' = faults + 1
    /\ call' = Idle
    /\ UNCHANGED <<memory, runs, blocks, list, emitted, fate>>
-----------------------------------------------------------------------------
\* Arm64Format of NOP, 0xD503201F, 32 constant bits.
Pattern == {0, 1, 2, 3, 4, 13, 16, 17, 24, 26, 28, 30, 31}

\* CompareBitsRange compares a bit, 0 or 1, with the whole mask, shifted.
SameBit(word, b) ==
    {p + b : p \in Pattern} \cap (0 .. 31) = IF b \in word THEN {0} ELSE {}

Matches(word) == \A b \in 0 .. 31 : SameBit(word, b)

\* Decode: as many ones at the end as the pattern has, and a match.
Decoded(word) == {0, 1, 2, 3, 4} \subseteq word /\ Matches(word)

\* 0xD65F in the upper half.
IsArm64Ret(word) == {16, 17, 18, 19, 20, 22, 25, 26, 28, 30, 31} \subseteq word

\* Each of the masks, 0x54 << 24, 0x6B << 25, 0x5 << 26 and 0x25 << 26, has these two.
IrArm64BranchFlavour(word) == IsArm64Ret(word) \/ {26, 28} \subseteq word

\* A descriptor under translation: `scopes` addresses, `graph` the open block's
\* intermediate code, `irs` the finished blocks, address to code.  An address is the
\* words past the translation's own.  std::map::emplace of an address that is there
\* does not take the graph.
Emplace(cfg, key) ==
    IF key \in DOMAIN cfg.irs THEN cfg
    ELSE [cfg EXCEPT !.irs = Put(@, key, cfg.graph), !.graph = <<>>]

\* A null address, and no address: the read faults.
Null == -1
Fault == -2

\* StartBlock: a graph that EndBlock could not place is put at scopes.back() of an
\* empty deque, and the block begins as many words behind the translation's
\* beginning as the graph still has.
StartBlock(cfg, stray) ==
    LET placed == IF cfg.graph = <<>> THEN cfg ELSE Emplace(cfg, stray)
    IN IF cfg.graph # <<>> /\ stray = Fault THEN [cfg EXCEPT !.ok = FALSE]
       ELSE [placed EXCEPT !.scopes = Append(@, Len(placed.graph)), !.graph = <<>>]

\* EndBlock: only a block that returns ends.
EndBlock(cfg) ==
    IF Last(cfg.graph) # "IrReturn" THEN cfg
    ELSE [Emplace(cfg, Last(cfg.scopes)) EXCEPT !.scopes = Front(@)]

\* The body of Translate's loop; a zero word ended the loop.
Step(cfg, word, stray) ==
    LET started == IF cfg.scopes = <<>> THEN StartBlock(cfg, stray) ELSE cfg
        coded   == IF Decoded(word) THEN started
                   ELSE [started EXCEPT !.graph = Append(@, "IrNop")]
        left    == IF IsArm64Ret(word) THEN [coded EXCEPT !.graph = Append(@, "IrReturn")] ELSE coded
    IN IF ~cfg.ok \/ word = {} THEN [cfg EXCEPT !.ended = TRUE]
       ELSE IF ~started.ok THEN started
       ELSE IF IrArm64BranchFlavour(word) THEN EndBlock(left) ELSE left

Descriptor == [scopes |-> <<>>, graph |-> <<>>, irs |-> <<>>, ok |-> TRUE, ended |-> FALSE]

\* Translate's new descriptor.  A block that did not end is not moved into the list.
Translated(count, stray) ==
    FoldLeft(LAMBDA cfg, word : IF cfg.ended THEN cfg ELSE Step(cfg, word, stray),
             Descriptor, SubSeq(memory, 1, count))

\* Whether an earlier translation covers this one is read through the end of its
\* `flow`, a map that is always empty: either answer may come.
Covered(l) == IF l = <<>> THEN {FALSE} ELSE BOOLEAN

\* Foreach: the NOPs of all finished blocks; a return emits nothing.
NopsOf(irs) == LET Nops(key) == Len(SelectSeq(irs[key], LAMBDA c : c = "IrNop"))
               IN FoldLeft(LAMBDA n, key : n + Nops(key), 0, SetToSeq(DOMAIN irs))
AllNops(l) == FoldLeft(LAMBDA n, irs : n + NopsOf(irs), 0, l)

\* FirstPc and LastPc are null: without blocks, or where the key in question is.
FirstIsNull(irs) == DOMAIN irs = {} \/ Null \in DOMAIN irs
LastIsNull(irs) == DOMAIN irs \subseteq {Null}

\* IsCompiled: `reflect` is never set, so that each context matches the translations
\* whose first address is null, up to one whose last is null too.
IsCompiled(l) ==
    LET matched == {k \in DOMAIN l : FirstIsNull(l[k]) /\ \A j \in 1 .. k - 1 : ~LastIsNull(l[j])}
    IN Cardinality(DOMAIN cpus) * Cardinality(matched) = Len(l)

\* The context Run takes: by its number, or, for a thread that has one, the last.
Chosen(t, id) ==
    IF id # 0 THEN {i \in DOMAIN cpus : i = id}
    ELSE IF Mine(t) = {} THEN {} ELSE {i \in DOMAIN cpus : \A j \in DOMAIN cpus : j <= i}

\* Mutant: the block of the context that runs, not of the thread's own.
Unsealed_Chosen(t, i) == Seal(i, 0)

\* Compile opens the block of the thread's context, whichever context runs.
Unsealed(t, i) == Seal(ThreadCtx(t), 0)

\* Run, to Compile's loop.  A context with no memory attached has its code at null.
\* Compile of a thread without a context dereferences null.
Run(t, id, count) ==
    /\ Ready /\ runs < MaxRuns
    /\ \E i \in Chosen(t, id), covered \in Covered(list), stray \in Strays :
          LET cfg   == Translated(count, stray)
              after == IF covered THEN list ELSE Append(list, cfg.irs)
          IN \/ /\ ~covered /\ (~cfg.ok \/ (~cpus[i].attached /\ count > 0))
                /\ Crash /\ UNCHANGED <<list, texts>>
             \/ /\ covered \/ (cfg.ok /\ (cpus[i].attached \/ count = 0))
                /\ list' = after
                /\ IF IsCompiled(after) THEN UNCHANGED <<texts, call, fate>>
                   ELSE IF Mine(t) = {} THEN Crash /\ UNCHANGED texts
                   ELSE /\ texts' = Unsealed(t, i)
                        /\ call' = [op |-> "compile", thread |-> t, id |-> i, todo |-> AllNops(after)]
                        /\ UNCHANGED fate
    /\ runs' = runs + 1
    /\ UNCHANGED <<memory, faults, cpus, blocks, emitted>>

\* Mutant: the seal covers the size that Initialize knew.
Compiled_FirstSize ==
    /\ fate = "ok" /\ call.op = "compile" /\ call.todo = 0
    /\ texts' = Seal(ThreadCtx(call.thread), CodeSize)
    /\ emitted' = DOMAIN list
    /\ call' = Idle
    /\ UNCHANGED <<bounded, cpus, blocks, list, fate>>

\* The end of Compile: all that the block has now is sealed.
Compiled ==
    /\ fate = "ok" /\ call.op = "compile" /\ call.todo = 0
    /\ texts' = Seal(ThreadCtx(call.thread), texts[ThreadCtx(call.thread)].size)
    /\ emitted' = DOMAIN list
    /\ call' = Idle
    /\ UNCHANGED <<bounded, cpus, blocks, list, fate>>

\* ~JitContext: the contexts go before the blocks, whose destructors then find none.
\* A context that a failed AddCpu left takes its own block along, among contexts.
Destroy ==
    /\ Ready
    /\ cpus' = <<>> /\ blocks' = {} /\ texts' = <<>>
    /\ fate' = IF DyingBlockThrows(DOMAIN cpus \ blocks) THEN "crashed" ELSE "destroyed"
    /\ UNCHANGED <<bounded, list, emitted, call>>

Next ==
    \/ \E t, owner \in Threads, i \in Ids, attached \in BOOLEAN : AddCpu(t, i, owner, attached)
    \/ AddCpuUnmapped \/ Initialized
    \/ EmitNop \/ ExpandThrows
    \/ \E t \in Threads, id \in Ids \cup {0}, count \in 0 .. Len(memory) : Run(t, id, count)
    \/ Compiled \/ Destroy

Spec == Init /\ [][Next]_vars
-----------------------------------------------------------------------------
Whole == call = Idle /\ fate = "ok" /\ faults = 0

\* The block maps, the cursors and the translations stay in range.
TypeOK ==
    /\ DOMAIN cpus \subseteq Ids /\ DOMAIN texts = DOMAIN cpus /\ blocks \subseteq DOMAIN cpus
    /\ \A i \in DOMAIN texts : texts[i].at \in Regions /\ texts[i].sealed <= texts[i].size
    /\ \A i, j \in DOMAIN texts : texts[i].at = texts[j].at => i = j
    /\ emitted \subseteq DOMAIN list

\* Between calls, every byte that was emitted to a block, the filling and what
\* grew it included, is executable and cannot be written (Initialize, Compile).
CodeSealed ==
    Whole => \A i \in DOMAIN texts : texts[i].used <= texts[i].sealed

\* Between calls, the cursor of a context is inside its block, unless the block
\* was moved while it was compiled to: Expand leaves the cursor at the old place.
CursorInBlock ==
    Whole => \A i \in DOMAIN texts :
        texts[i].moved \/ (cpus[i].next.at = texts[i].at /\ cpus[i].next.offset < texts[i].size)

\* With one CPU, a run never takes translations that have blocks for compiled
\* before they were emitted (IsCompiled counts matches of null), unless a block was
\* put at the null that lay before the deque (StartBlock).
AloneIsCompiled ==
    Whole /\ Cardinality(DOMAIN cpus) = 1 =>
        \A k \in DOMAIN list : FirstIsNull(list[k]) \/ k \in emitted

\* What Run relies on: code that is complete and executable.
CodeOK == TypeOK /\ CodeSealed /\ AloneIsCompiled

\* Emitting code faults only in a block that a Compile has moved, or when the CPU
\* that is added is not its caller's first: the first one's block is written to.
EmissionFaultHasCause ==
    [][fate' = "crashed" /\ call.op # "none" /\ faults = 0 =>
         \/ call.op = "compile" /\ texts[ThreadCtx(call.thread)].moved
         \/ call.op = "fill" /\ ThreadCtx(call.thread) # call.id]_vars
=============================================================================
