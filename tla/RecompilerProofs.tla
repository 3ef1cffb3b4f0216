-------------------------- MODULE RecompilerProofs ---------------------------
(***************************************************************************)
(* Proofs about Recompiler, for every block size, set of addresses and     *)
(* number of contexts: what is emitted is sealed, the cursors stay in      *)
(* their blocks, and what an emission that faults has to have met.         *)
(***************************************************************************)
EXTENDS Recompiler, NaturalsInduction, WellFoundedInduction, FiniteSetTheorems,
        SequenceTheorems, TLAPS
-----------------------------------------------------------------------------
(* The inductive invariant. *)

Cursor == [at : Nat, offset : Nat]
Held == [owner : Threads, attached : BOOLEAN, next : Cursor]
Text == [at : Regions, size : Nat, sealed : Nat, used : Nat, moved : BOOLEAN]

\* What lasts through every fault of the host.
Shape ==
    /\ TypeOK
    /\ cpus \in [DOMAIN cpus -> Held]
    /\ texts \in [DOMAIN cpus -> Text]
    /\ \A i \in DOMAIN texts : CodeSize <= texts[i].size
    /\ IsFiniteSet(DOMAIN cpus)
    /\ call # Idle =>
          /\ call \in [op : {"fill", "compile"}, thread : Threads, id : Ids, todo : {call.todo}]
          /\ fate = "ok" /\ Mine(call.thread) # {}
          /\ call.op = "fill" => call.id \in DOMAIN cpus

\* Nothing is emitted to a closed block: it was filled and never compiled to, or all of
\* it is sealed.
Closed(i) ==
    /\ texts[i].used <= texts[i].sealed /\ 2 * CodeSize <= texts[i].size
    /\ \/ texts[i].sealed = texts[i].size
       \/ /\ texts[i].sealed = CodeSize /\ texts[i].size = 2 * CodeSize
          /\ cpus[i].next.offset = 0 /\ ~texts[i].moved

\* A cursor is inside its block; or Compile has moved the block, and the cursor is at
\* the old place and so far behind that no closed block can be written there.
Placed(i) ==
    IF texts[i].moved THEN cpus[i].next.at # texts[i].at /\ cpus[i].next.offset >= 2 * CodeSize
    ELSE cpus[i].next.at = texts[i].at /\ cpus[i].next.offset < texts[i].size

\* A block that is filled by the first context of its thread.
Filling(i) ==
    /\ texts[i].sealed = 0 /\ ~texts[i].moved
    /\ call.todo \in Nat /\ cpus[i].next.offset + call.todo = CodeSize
    /\ texts[i].used <= CodeSize
    /\ IF call.todo > 0 THEN cpus[i].next.at = texts[i].at /\ texts[i].size = CodeSize
       ELSE texts[i].size = 2 * CodeSize

\* A block that is compiled to.
Open(i) ==
    /\ texts[i].sealed = 0 /\ texts[i].used <= texts[i].size
    /\ 2 * CodeSize <= texts[i].size /\ Placed(i)

\* The contexts whose block is not the one that the call is about.
Others ==
    IF call = Idle THEN DOMAIN cpus
    ELSE DOMAIN cpus \ {IF call.op = "fill" THEN call.id ELSE ThreadCtx(call.thread)}

\* Where each block and each cursor is, while no mapping was refused.
Emission ==
    faults = 0 /\ fate = "ok" =>
        /\ blocks = IF call # Idle /\ call.op = "fill" THEN DOMAIN cpus \ {call.id} ELSE DOMAIN cpus
        /\ \A i \in Others : Closed(i) /\ Placed(i)
        /\ call # Idle /\ call.op = "fill" =>
              IF ThreadCtx(call.thread) = call.id THEN Filling(call.id)
              ELSE call.todo = CodeSize /\ texts[call.id].size = CodeSize
        /\ call # Idle /\ call.op = "compile" => Open(ThreadCtx(call.thread))

\* Translations of one CPU that have blocks were compiled, or are just now.
Translations ==
    /\ list \in Seq({list[k] : k \in DOMAIN list})
    /\ fate = "ok" /\ DOMAIN cpus = {} => list = <<>>
    /\ faults = 0 /\ fate = "ok" /\ (call # Idle => call.op = "fill") /\ Cardinality(DOMAIN cpus) = 1 =>
          \A k \in DOMAIN list : FirstIsNull(list[k]) \/ k \in emitted

CodeInv == Shape /\ Emission /\ Translations /\ faults \in Nat
-----------------------------------------------------------------------------
(* Lemmas about the operators. *)

\* A set of naturals has a least element.
LEMMA LeastNatural ==
    ASSUME NEW T \in SUBSET Nat, T # {}
    PROVE  \E x \in T : \A y \in T : x <= y
<1> DEFINE R == OpToRel(<, Nat)
<1>1. PICK x \in T : \A y \in T : ~(<<y, x>> \in R)
  <2> HIDE DEF R
  <2> QED BY NatLessThanWellFounded, WFMin DEF R
<1>2. \A y \in T : ~(y < x)
  BY <1>1 DEF OpToRel
<1> QED BY <1>2

\* The first of some contexts is one of them.
LEMMA FirstIsOne ==
    ASSUME NEW T \in SUBSET Ids, T # {}
    PROVE  (CHOOSE i \in T : \A j \in T : i <= j) \in T
<1>1. T \in SUBSET Nat
  BY RecompilerAssumption
<1>2. \E i \in T : \A j \in T : i <= j
  BY <1>1, LeastNatural
<1> QED BY <1>2

\* GetThreadCtx finds a context of the thread, if it has one.
LEMMA ThreadCtxIsMine ==
    ASSUME DOMAIN cpus \subseteq Ids, NEW t, Mine(t) # {}
    PROVE  ThreadCtx(t) \in Mine(t) /\ ThreadCtx(t) \in DOMAIN cpus
<1>1. Mine(t) \in SUBSET Ids
  BY DEF Mine
<1>2. ThreadCtx(t) \in Mine(t)
  BY <1>1, FirstIsOne DEF ThreadCtx
<1> QED BY <1>2 DEF Mine

\* Who owns what tells which context a thread has.
LEMMA SameOwners ==
    ASSUME DOMAIN cpus' = DOMAIN cpus, NEW t,
           \A i \in DOMAIN cpus : cpus'[i].owner = cpus[i].owner
    PROVE  Mine(t)' = Mine(t) /\ ThreadCtx(t)' = ThreadCtx(t)
<1>1. Mine(t)' = Mine(t)
  BY DEF Mine
<1> QED BY <1>1 DEF ThreadCtx

\* What a call is while it goes on.
LEMMA CallGoesOn ==
    ASSUME Shape, fate = "ok", call.op \in {"fill", "compile"}
    PROVE  /\ call # Idle /\ call.thread \in Threads /\ call.id \in Ids
           /\ call \in [op : {"fill", "compile"}, thread : Threads, id : Ids, todo : {call.todo}]
           /\ Mine(call.thread) # {} /\ ThreadCtx(call.thread) \in DOMAIN cpus
           /\ call.op = "fill" => call.id \in DOMAIN cpus
<1>1. call # Idle
  BY DEF Idle
<1>2. DOMAIN cpus \subseteq Ids
  BY DEF Shape, TypeOK
<1>3. /\ call \in [op : {"fill", "compile"}, thread : Threads, id : Ids, todo : {call.todo}]
      /\ Mine(call.thread) # {}
      /\ call.op = "fill" => call.id \in DOMAIN cpus
  BY <1>1 DEF Shape
<1>4. ThreadCtx(call.thread) \in DOMAIN cpus
  BY <1>2, <1>3, ThreadCtxIsMine
<1>5. call.thread \in Threads /\ call.id \in Ids
  BY <1>3
<1> QED BY <1>1, <1>3, <1>4, <1>5

\* What the parts of Shape say of one context.
LEMMA ShapeOfOne ==
    ASSUME Shape, NEW i \in DOMAIN cpus
    PROVE  /\ i \in Ids /\ i \in DOMAIN texts /\ DOMAIN texts = DOMAIN cpus
           /\ cpus[i] \in Held /\ cpus[i].next \in Cursor
           /\ cpus[i].next.at \in Nat /\ cpus[i].next.offset \in Nat
           /\ texts[i] \in Text
           /\ texts[i].at \in Regions /\ texts[i].at \in Nat /\ texts[i].at # 0
           /\ texts[i].size \in Nat /\ texts[i].sealed \in Nat /\ texts[i].used \in Nat
           /\ texts[i].moved \in BOOLEAN
           /\ texts[i].sealed <= texts[i].size /\ CodeSize <= texts[i].size
           /\ CodeSize \in Nat /\ 0 < CodeSize
<1>1. i \in Ids /\ DOMAIN texts = DOMAIN cpus /\ texts[i].sealed <= texts[i].size
  BY DEF Shape, TypeOK
<1>2. cpus[i] \in Held /\ texts[i] \in Text /\ CodeSize <= texts[i].size
  BY <1>1 DEF Shape
<1>3. cpus[i].next \in Cursor
  BY <1>2 DEF Held
<1>4. cpus[i].next.at \in Nat /\ cpus[i].next.offset \in Nat
  BY <1>3 DEF Cursor
<1>5. /\ texts[i].at \in Regions
      /\ texts[i].size \in Nat /\ texts[i].sealed \in Nat /\ texts[i].used \in Nat
      /\ texts[i].moved \in BOOLEAN
  BY <1>2 DEF Text
<1>6. texts[i].at \in Nat /\ texts[i].at # 0 /\ CodeSize \in Nat /\ 0 < CodeSize
  BY <1>5, RecompilerAssumption
<1> QED BY <1>1, <1>2, <1>3, <1>4, <1>5, <1>6

\* No two blocks are at one address.
LEMMA BlocksApart ==
    ASSUME Shape, NEW i \in DOMAIN cpus, NEW j \in DOMAIN cpus, texts[i].at = texts[j].at
    PROVE  i = j
<1>1. DOMAIN texts = DOMAIN cpus
  BY DEF Shape, TypeOK
<1> QED BY <1>1 DEF Shape, TypeOK
-----------------------------------------------------------------------------
(* Where an emission writes. *)

\* A cursor that is as far as two blocks reaches no closed block and no new one.
LEMMA FarIsNowhere ==
    ASSUME Shape, NEW i \in DOMAIN cpus, NEW next \in Cursor, 2 * CodeSize <= next.offset,
           Closed(i) \/ texts[i].size = CodeSize
    PROVE  i \notin Target(next)
<1> DEFINE o == next.offset
           s == texts[i].size
           e == texts[i].sealed
<1>1. /\ o \in Nat /\ s \in Nat /\ e \in Nat /\ CodeSize \in Nat
      /\ 2 * CodeSize <= o
  BY ShapeOfOne DEF Cursor
<1>2. e = s \/ s = 2 * CodeSize \/ s = CodeSize
  BY DEF Closed
<1>3. ~(o >= e /\ o < s)
  <2> HIDE DEF o, s, e
  <2> QED BY <1>1, <1>2
<1> QED BY <1>3 DEF Target

\* The cursor of a closed block is in what is sealed.
LEMMA ClosedIsNoTarget ==
    ASSUME Shape, NEW i \in DOMAIN cpus, Closed(i), Placed(i), ~texts[i].moved
    PROVE  i \notin Target(cpus[i].next)
<1> DEFINE o == cpus[i].next.offset
           s == texts[i].size
           e == texts[i].sealed
<1>1. o \in Nat /\ s \in Nat /\ e \in Nat /\ CodeSize \in Nat /\ 0 < CodeSize
  BY ShapeOfOne
<1>2. o < s /\ (e = s \/ (e = CodeSize /\ o = 0))
  BY DEF Closed, Placed
<1>3. ~(o >= e /\ o < s)
  <2> HIDE DEF o, s, e
  <2> QED BY <1>1, <1>2
<1> QED BY <1>3 DEF Target

\* Each block at the address of a cursor is the same one.
LEMMA OneTarget ==
    ASSUME Shape, NEW i \in DOMAIN cpus, NEW next, next.at = texts[i].at
    PROVE  Target(next) \subseteq {i}
<1>1. DOMAIN texts = DOMAIN cpus
  BY DEF Shape, TypeOK
<1> QED BY <1>1, BlocksApart DEF Target

\* Until a Compile moves its block, it writes there; then it writes nowhere.
LEMMA TargetOfCompile ==
    ASSUME Shape, Emission, fate = "ok", faults = 0, call.op = "compile",
           NEW f, f = ThreadCtx(call.thread)
    PROVE  /\ f \in DOMAIN cpus /\ Open(f)
           /\ ~texts[f].moved => Target(cpus[f].next) = {f}
           /\ texts[f].moved => Target(cpus[f].next) = {}
<1>1. /\ f \in DOMAIN cpus /\ call # Idle
      /\ DOMAIN texts = DOMAIN cpus
  BY CallGoesOn DEF Shape, TypeOK
<1>2. Open(f) /\ \A i \in DOMAIN cpus \ {f} : Closed(i)
  BY <1>1 DEF Emission, Others
<1>3. ASSUME ~texts[f].moved PROVE Target(cpus[f].next) = {f}
  <2>1. cpus[f].next.at = texts[f].at /\ cpus[f].next.offset < texts[f].size /\ texts[f].sealed = 0
    BY <1>2, <1>3 DEF Open, Placed
  <2>2. cpus[f].next.offset >= texts[f].sealed
    BY <2>1, <1>1, ShapeOfOne
  <2>3. f \in Target(cpus[f].next)
    BY <2>1, <2>2, <1>1 DEF Target
  <2> QED BY <2>1, <2>3, <1>1, OneTarget
<1>4. ASSUME texts[f].moved PROVE Target(cpus[f].next) = {}
  <2>1. cpus[f].next.at # texts[f].at /\ cpus[f].next.offset >= 2 * CodeSize
    BY <1>2, <1>4 DEF Open, Placed
  <2>2. cpus[f].next \in Cursor /\ 2 * CodeSize <= cpus[f].next.offset
    BY <2>1, <1>1, ShapeOfOne
  <2>3. \A i \in DOMAIN cpus \ {f} : i \notin Target(cpus[f].next)
    BY <2>2, <1>2, FarIsNowhere
  <2>4. f \notin Target(cpus[f].next)
    BY <2>1 DEF Target
  <2>5. Target(cpus[f].next) \subseteq DOMAIN cpus
    BY <1>1 DEF Target
  <2> QED BY <2>3, <2>4, <2>5
<1> QED BY <1>1, <1>2, <1>3, <1>4

\* The NOPs of Initialize go to the new block, if its context is the first of the thread;
\* otherwise the first one's block is closed and takes none.
LEMMA TargetOfFill ==
    ASSUME Shape, Emission, fate = "ok", faults = 0, call.op = "fill",
           NEW f, f = ThreadCtx(call.thread)
    PROVE  /\ f \in DOMAIN cpus /\ call.id \in DOMAIN cpus
           /\ f = call.id => Filling(f) /\ (call.todo > 0 => Target(cpus[f].next) = {f})
           /\ f # call.id => call.todo = CodeSize /\ Target(cpus[f].next) = {}
<1>1. /\ f \in DOMAIN cpus /\ call.id \in DOMAIN cpus /\ call # Idle
      /\ DOMAIN texts = DOMAIN cpus
  BY CallGoesOn DEF Shape, TypeOK
<1>2. \A i \in DOMAIN cpus \ {call.id} : Closed(i) /\ Placed(i)
  BY <1>1 DEF Emission, Others
<1>3. /\ f = call.id => Filling(call.id)
      /\ f # call.id => call.todo = CodeSize /\ texts[call.id].size = CodeSize
  BY <1>1 DEF Emission
<1>4. ASSUME f = call.id, call.todo > 0 PROVE Target(cpus[f].next) = {f}
  <2> DEFINE o == cpus[f].next.offset
             n == call.todo
  <2>1. /\ cpus[f].next.at = texts[f].at /\ texts[f].sealed = 0 /\ texts[f].size = CodeSize
        /\ n \in Nat /\ n > 0 /\ o + n = CodeSize
    BY <1>3, <1>4 DEF Filling
  <2>2. o \in Nat /\ CodeSize \in Nat
    BY <1>1, ShapeOfOne
  <2>3. o >= 0 /\ o < CodeSize
    <3> HIDE DEF o, n
    <3> QED BY <2>1, <2>2
  <2>4. f \in Target(cpus[f].next)
    BY <2>1, <2>3, <1>1 DEF Target
  <2> QED BY <2>1, <2>4, <1>1, OneTarget
<1>5. ASSUME f # call.id PROVE Target(cpus[f].next) = {}
  <2>1. Closed(f) /\ Placed(f)
    BY <1>1, <1>2, <1>5
  <2>2. CASE texts[f].moved
    <3>1. cpus[f].next.offset >= 2 * CodeSize
      BY <2>1, <2>2 DEF Placed
    <3>2. cpus[f].next \in Cursor /\ 2 * CodeSize <= cpus[f].next.offset
      BY <3>1, <1>1, ShapeOfOne
    <3>3. \A i \in DOMAIN cpus : i \notin Target(cpus[f].next)
      BY <3>2, <1>1, <1>2, <1>3, <1>5, FarIsNowhere
    <3> QED BY <3>3, <1>1 DEF Target
  <2>3. CASE ~texts[f].moved
    <3>1. cpus[f].next.at = texts[f].at
      BY <2>1, <2>3 DEF Placed
    <3>2. f \notin Target(cpus[f].next)
      BY <2>1, <2>3, <1>1, ClosedIsNoTarget
    <3> QED BY <3>1, <3>2, <1>1, OneTarget
  <2> QED BY <2>2, <2>3
<1> QED BY <1>1, <1>3, <1>4, <1>5
-----------------------------------------------------------------------------
(* What the steps have in common. *)

\* The call that goes on keeps to its contexts.
CallFits ==
    call # Idle =>
      /\ call \in [op : {"fill", "compile"}, thread : Threads, id : Ids, todo : {call.todo}]
      /\ fate = "ok" /\ Mine(call.thread) # {}
      /\ call.op = "fill" => call.id \in DOMAIN cpus

\* A step that adds no context keeps Shape if the blocks keep apart and in range.
LEMMA ShapeStep ==
    ASSUME Shape, DOMAIN cpus' = DOMAIN cpus, cpus' \in [DOMAIN cpus -> Held],
           texts' \in [DOMAIN cpus -> Text],
           \A i \in DOMAIN cpus : texts'[i].sealed <= texts'[i].size /\ CodeSize <= texts'[i].size,
           \A i, j \in DOMAIN cpus : texts'[i].at = texts'[j].at => i = j,
           blocks' \subseteq DOMAIN cpus, emitted' \subseteq DOMAIN list', CallFits'
    PROVE  Shape'
<1>1. DOMAIN texts' = DOMAIN cpus /\ DOMAIN cpus' \subseteq Ids
  BY DEF Shape, TypeOK
<1>2. \A i \in DOMAIN cpus : texts'[i].at \in Regions
  BY DEF Text
<1>3. TypeOK'
  BY <1>1, <1>2 DEF TypeOK
<1> QED BY <1>1, <1>3 DEF Shape, CallFits

\* So does one that changes only the call, or ends it.
LEMMA ShapeOfEnd ==
    ASSUME Shape, UNCHANGED <<cpus, texts, blocks, list, emitted>>, call' = Idle
    PROVE  Shape'
<1>1. DOMAIN texts = DOMAIN cpus
  BY DEF Shape, TypeOK
<1>2. /\ texts' \in [DOMAIN cpus -> Text]
      /\ \A i \in DOMAIN cpus : texts'[i].sealed <= texts'[i].size /\ CodeSize <= texts'[i].size
      /\ \A i, j \in DOMAIN cpus : texts'[i].at = texts'[j].at => i = j
  BY <1>1 DEF Shape, TypeOK
<1>3. cpus' \in [DOMAIN cpus -> Held] /\ blocks' \subseteq DOMAIN cpus /\ emitted' \subseteq DOMAIN list'
  BY DEF Shape, TypeOK
<1>4. CallFits'
  BY DEF CallFits, Idle
<1> QED BY <1>2, <1>3, <1>4, ShapeStep

\* A step that translates nothing leaves the translations as they are, unless it ends a
\* Compile.
LEMMA TranslationsLeft ==
    ASSUME Translations, UNCHANGED <<list, emitted>>, DOMAIN cpus' = DOMAIN cpus,
           faults' = 0 => faults = 0, fate' = "ok" => fate = "ok",
           fate' = "ok" /\ faults' = 0 /\ (call' # Idle => call'.op = "fill") =>
              (call # Idle => call.op = "fill")
    PROVE  Translations'
BY DEF Translations

\* Seal changes how far the one block is executable.
LEMMA SealStep ==
    ASSUME Shape, NEW f \in DOMAIN cpus, NEW n \in Nat, n <= texts[f].size,
           texts' = Seal(f, n)
    PROVE  /\ texts' \in [DOMAIN cpus -> Text]
           /\ texts'[f] = [texts[f] EXCEPT !.sealed = n]
           /\ texts'[f].sealed = n /\ texts'[f].size = texts[f].size
           /\ texts'[f].used = texts[f].used /\ texts'[f].moved = texts[f].moved
           /\ \A i \in DOMAIN cpus : texts'[i].at = texts[i].at
           /\ \A i \in DOMAIN cpus \ {f} : texts'[i] = texts[i]
           /\ \A i \in DOMAIN cpus : texts'[i].sealed <= texts'[i].size /\ CodeSize <= texts'[i].size
           /\ \A i, j \in DOMAIN cpus : texts'[i].at = texts'[j].at => i = j
<1>1. DOMAIN texts = DOMAIN cpus /\ texts \in [DOMAIN cpus -> Text]
  BY DEF Shape, TypeOK
<1>2. texts' = [texts EXCEPT ![f] = [texts[f] EXCEPT !.sealed = n]]
  BY <1>1 DEF Seal
<1>3. texts[f] \in Text
  BY <1>1
<1>4. /\ [texts[f] EXCEPT !.sealed = n] \in Text
      /\ [texts[f] EXCEPT !.sealed = n].sealed = n
      /\ [texts[f] EXCEPT !.sealed = n].at = texts[f].at
      /\ [texts[f] EXCEPT !.sealed = n].size = texts[f].size
      /\ [texts[f] EXCEPT !.sealed = n].used = texts[f].used
      /\ [texts[f] EXCEPT !.sealed = n].moved = texts[f].moved
  BY <1>3 DEF Text
<1>5. /\ texts' \in [DOMAIN cpus -> Text]
      /\ texts'[f] = [texts[f] EXCEPT !.sealed = n]
      /\ \A i \in DOMAIN cpus \ {f} : texts'[i] = texts[i]
  BY <1>1, <1>2, <1>4
<1>6. \A i \in DOMAIN cpus : texts'[i].at = texts[i].at
  BY <1>4, <1>5
<1>7. \A i \in DOMAIN cpus : texts'[i].sealed <= texts'[i].size /\ CodeSize <= texts'[i].size
  <2> TAKE i \in DOMAIN cpus
  <2>1. texts[i].sealed <= texts[i].size /\ CodeSize <= texts[i].size
    BY ShapeOfOne
  <2> QED BY <2>1, <1>4, <1>5
<1>8. \A i, j \in DOMAIN cpus : texts'[i].at = texts'[j].at => i = j
  BY <1>6, BlocksApart
<1> QED BY <1>4, <1>5, <1>6, <1>7, <1>8

\* Writing a byte changes how far blocks are written, the block of the cursor's at least
\* to the byte.
LEMMA WroteStep ==
    ASSUME Shape, NEW next \in Cursor
    PROVE  /\ Wrote(next) \in [DOMAIN cpus -> Text]
           /\ \A i \in DOMAIN cpus :
                 /\ Wrote(next)[i].at = texts[i].at /\ Wrote(next)[i].size = texts[i].size
                 /\ Wrote(next)[i].sealed = texts[i].sealed /\ Wrote(next)[i].moved = texts[i].moved
                 /\ i \notin Target(next) => Wrote(next)[i] = texts[i]
                 /\ Wrote(next)[i].used \in {texts[i].used, next.offset + 1}
<1>1. DOMAIN texts = DOMAIN cpus /\ texts \in [DOMAIN cpus -> Text] /\ next.offset + 1 \in Nat
  BY DEF Shape, TypeOK, Cursor
<1> DEFINE w(i) == [texts[i] EXCEPT !.used = next.offset + 1]
<1>2. ASSUME NEW i \in DOMAIN cpus
      PROVE  /\ w(i) \in Text /\ w(i).at = texts[i].at /\ w(i).size = texts[i].size
             /\ w(i).sealed = texts[i].sealed /\ w(i).moved = texts[i].moved
             /\ w(i).used = next.offset + 1
  <2>1. texts[i] \in Text
    BY <1>1
  <2> QED BY <2>1, <1>1 DEF Text
<1>3. Wrote(next) = [j \in DOMAIN cpus |->
          IF j \in Target(next) /\ texts[j].used <= next.offset THEN w(j) ELSE texts[j]]
  BY <1>1 DEF Wrote
<1> HIDE DEF w
<1>4. Wrote(next) \in [DOMAIN cpus -> Text]
  BY <1>1, <1>2, <1>3
<1>5. ASSUME NEW i \in DOMAIN cpus
      PROVE  /\ Wrote(next)[i] \in {w(i), texts[i]}
             /\ i \notin Target(next) => Wrote(next)[i] = texts[i]
  BY <1>3
<1>6. ASSUME NEW i \in DOMAIN cpus
      PROVE  /\ Wrote(next)[i].at = texts[i].at /\ Wrote(next)[i].size = texts[i].size
             /\ Wrote(next)[i].sealed = texts[i].sealed /\ Wrote(next)[i].moved = texts[i].moved
             /\ Wrote(next)[i].used \in {texts[i].used, next.offset + 1}
  <2>1. CASE Wrote(next)[i] = w(i)
    BY <2>1, <1>2
  <2>2. CASE Wrote(next)[i] = texts[i]
    BY <2>2
  <2> QED BY <2>1, <2>2, <1>5
<1> QED BY <1>4, <1>5, <1>6

\* Moving a cursor changes it and nothing else of the contexts.
LEMMA CursorStep ==
    ASSUME Shape, NEW f \in DOMAIN cpus, NEW n \in Cursor, cpus' = [cpus EXCEPT ![f].next = n]
    PROVE  /\ cpus' \in [DOMAIN cpus -> Held] /\ DOMAIN cpus' = DOMAIN cpus
           /\ cpus'[f].next = n /\ \A i \in DOMAIN cpus \ {f} : cpus'[i] = cpus[i]
           /\ \A i \in DOMAIN cpus : cpus'[i].owner = cpus[i].owner
<1>1. cpus \in [DOMAIN cpus -> Held] /\ cpus[f] \in Held
  BY ShapeOfOne DEF Shape
<1>2. cpus' = [cpus EXCEPT ![f] = [cpus[f] EXCEPT !.next = n]]
  OBVIOUS
<1>3. /\ [cpus[f] EXCEPT !.next = n] \in Held
      /\ [cpus[f] EXCEPT !.next = n].next = n
      /\ [cpus[f] EXCEPT !.next = n].owner = cpus[f].owner
  BY <1>1 DEF Held
<1> QED BY <1>1, <1>2, <1>3

\* Expand doubles a block, where it is or at a free address; only a Compile tells.
LEMMA ExpandedText ==
    ASSUME Shape, NEW b \in Text, NEW text \in Expanded(b)
    PROVE  /\ text \in Text /\ text.size = 2 * b.size /\ text.sealed = b.sealed
           /\ text.used = b.used
           /\ \/ text.at = b.at /\ text.moved = b.moved
              \/ text.at \in FreeRegions /\ text.moved = (b.moved \/ call.op = "compile")
<1>1. 2 * b.size \in Nat
  BY DEF Text
<1>2. CASE text = [b EXCEPT !.size = 2 * @]
  BY <1>1, <1>2 DEF Text
<1>3. ASSUME NEW at \in FreeRegions,
             text = [b EXCEPT !.size = 2 * @, !.at = at, !.moved = @ \/ call.op = "compile"]
      PROVE  /\ text \in Text /\ text.size = 2 * b.size /\ text.sealed = b.sealed
             /\ text.used = b.used
             /\ text.at \in FreeRegions /\ text.moved = (b.moved \/ call.op = "compile")
  <2>1. at \in Regions
    BY DEF FreeRegions
  <2> QED BY <1>1, <1>3, <2>1 DEF Text
<1> QED BY <1>2, <1>3 DEF Expanded

\* The end of a block, for the cursor that is in it.
LEMMA AtEndMeans ==
    ASSUME NEW next \in Cursor, NEW text \in Text, next.at = text.at
    PROVE  AtEnd(next, text) <=> next.offset >= text.size
<1>1. next.at \in Nat
  BY DEF Cursor
<1>2. ~(next.at > text.at)
  BY <1>1
<1> QED BY <1>2 DEF AtEnd

\* EmitNop without a fault: a byte at the cursor of the thread's context, and the block's
\* growth when that is its last one.
LEMMA EmitNopStep ==
    ASSUME Shape, EmitNop, fate' = "ok",
           NEW f, f = ThreadCtx(call.thread),
           NEW next, next = cpus[f].next
    PROVE  /\ fate = "ok" /\ call.op \in {"fill", "compile"} /\ Target(next) # {}
           /\ f \in DOMAIN cpus /\ next \in Cursor /\ Past(next) \in Cursor
           /\ Past(next).at = next.at /\ Past(next).offset = next.offset + 1
           /\ cpus' = [cpus EXCEPT ![f].next = Past(next)]
           /\ call' = [call EXCEPT !.todo = @ - 1]
           /\ texts' \in [DOMAIN cpus -> Text]
           /\ \A i \in DOMAIN cpus \ {f} :
                 texts'[i] = Wrote(next)[i]
           /\ texts'[f].sealed = texts[f].sealed
           /\ texts'[f].used \in {texts[f].used, next.offset + 1}
           /\ IF AtEnd(Past(next), texts[f])
              THEN /\ texts'[f].size = 2 * texts[f].size
                   /\ \/ texts'[f].at = texts[f].at /\ texts'[f].moved = texts[f].moved
                      \/ /\ texts'[f].at \in FreeRegions
                         /\ texts'[f].moved = (texts[f].moved \/ call.op = "compile")
              ELSE texts'[f].size = texts[f].size /\ texts'[f].at = texts[f].at
                   /\ texts'[f].moved = texts[f].moved
<1>1. /\ call.op \in {"fill", "compile"} /\ fate = "ok"
      /\ Target(next) # {}
      /\ cpus' = [cpus EXCEPT ![f].next = Past(next)]
      /\ call' = [call EXCEPT !.todo = @ - 1]
  BY DEF EmitNop, Crash
<1>2. \/ AtEnd(Past(next), texts[f]) /\ \E text \in Expanded(Wrote(next)[f]) : texts' = [Wrote(next) EXCEPT ![f] = text]
      \/ ~AtEnd(Past(next), texts[f]) /\ texts' = Wrote(next)
  BY DEF EmitNop, Crash
<1>3. f \in DOMAIN cpus
  BY <1>1, CallGoesOn
<1>4. next \in Cursor
  BY <1>3, ShapeOfOne
<1>5. Past(next) \in Cursor /\ Past(next).at = next.at /\ Past(next).offset = next.offset + 1
  <2>1. next.offset + 1 \in Nat
    BY <1>4 DEF Cursor
  <2> QED BY <1>4, <2>1 DEF Past, Cursor
<1>6. /\ Wrote(next) \in [DOMAIN cpus -> Text]
      /\ Wrote(next)[f].at = texts[f].at /\ Wrote(next)[f].size = texts[f].size
      /\ Wrote(next)[f].sealed = texts[f].sealed /\ Wrote(next)[f].moved = texts[f].moved
      /\ Wrote(next)[f].used \in {texts[f].used, next.offset + 1}
  BY <1>3, <1>4, WroteStep
<1>7. CASE AtEnd(Past(next), texts[f])
  <2>1. PICK text \in Expanded(Wrote(next)[f]) : texts' = [Wrote(next) EXCEPT ![f] = text]
    BY <1>2, <1>7
  <2>2. Wrote(next)[f] \in Text
    BY <1>3, <1>6
  <2>3. /\ text \in Text /\ text.size = 2 * texts[f].size /\ text.sealed = texts[f].sealed
        /\ text.used = Wrote(next)[f].used
        /\ \/ text.at = texts[f].at /\ text.moved = texts[f].moved
           \/ text.at \in FreeRegions /\ text.moved = (texts[f].moved \/ call.op = "compile")
    BY <1>6, <2>2, ExpandedText
  <2>4. texts' \in [DOMAIN cpus -> Text] /\ texts'[f] = text
        /\ \A i \in DOMAIN cpus \ {f} : texts'[i] = Wrote(next)[i]
    BY <1>3, <1>6, <2>1, <2>3
  <2> QED BY <1>1, <1>3, <1>4, <1>5, <1>6, <1>7, <2>3, <2>4
<1>8. CASE ~AtEnd(Past(next), texts[f])
  BY <1>1, <1>2, <1>3, <1>4, <1>5, <1>6, <1>8
<1> QED BY <1>7, <1>8

\* What a byte does to a call that is going on, and to whose context it is about.
LEMMA EmitNopCall ==
    ASSUME Shape, EmitNop, fate' = "ok"
    PROVE  /\ call # Idle /\ call' # Idle /\ CallFits'
           /\ call'.op = call.op /\ call'.thread = call.thread /\ call'.id = call.id
           /\ call'.todo = call.todo - 1 /\ DOMAIN cpus' = DOMAIN cpus
           /\ ThreadCtx(call.thread)' = ThreadCtx(call.thread)
<1> DEFINE f == ThreadCtx(call.thread)
<1>1. /\ fate = "ok" /\ call.op \in {"fill", "compile"} /\ f \in DOMAIN cpus
      /\ Past(cpus[f].next) \in Cursor
      /\ cpus' = [cpus EXCEPT ![f].next = Past(cpus[f].next)]
      /\ call' = [call EXCEPT !.todo = @ - 1]
  BY EmitNopStep
<1>2. /\ call # Idle /\ Mine(call.thread) # {}
      /\ call \in [op : {"fill", "compile"}, thread : Threads, id : Ids, todo : {call.todo}]
      /\ call.op = "fill" => call.id \in DOMAIN cpus
  BY <1>1, CallGoesOn
<1>3. /\ call'.op = call.op /\ call'.thread = call.thread /\ call'.id = call.id
      /\ call'.todo = call.todo - 1
      /\ call' \in [op : {"fill", "compile"}, thread : Threads, id : Ids, todo : {call'.todo}]
  BY <1>1, <1>2
<1>4. call' # Idle
  BY <1>1, <1>3 DEF Idle
<1>5. /\ DOMAIN cpus' = DOMAIN cpus
      /\ \A i \in DOMAIN cpus : cpus'[i].owner = cpus[i].owner
  <2> HIDE DEF f
  <2> QED BY <1>1, CursorStep
<1>6. Mine(call.thread)' = Mine(call.thread)
      /\ ThreadCtx(call.thread)' = ThreadCtx(call.thread)
  BY <1>3, <1>5 DEF Mine, ThreadCtx
<1>7. CallFits'
  BY <1>2, <1>3, <1>5, <1>6 DEF CallFits
<1> QED BY <1>2, <1>3, <1>4, <1>5, <1>6, <1>7

LEMMA EmitNopShape ==
    ASSUME Shape, EmitNop, fate' = "ok"
    PROVE  Shape'
<1> DEFINE f == ThreadCtx(call.thread)
           next == cpus[f].next
<1>1. /\ f \in DOMAIN cpus /\ next \in Cursor /\ Past(next) \in Cursor
      /\ cpus' = [cpus EXCEPT ![f].next = Past(next)]
      /\ texts' \in [DOMAIN cpus -> Text]
      /\ \A i \in DOMAIN cpus \ {f} : texts'[i] = Wrote(next)[i]
      /\ texts'[f].sealed = texts[f].sealed
      /\ texts'[f].size \in {texts[f].size, 2 * texts[f].size}
      /\ texts'[f].at = texts[f].at \/ texts'[f].at \in FreeRegions
  BY EmitNopStep
<1>2. UNCHANGED <<blocks, list, emitted>>
  BY DEF EmitNop
<1>3. CallFits'
  BY EmitNopCall
<1> HIDE DEF f, next
<1>4. cpus' \in [DOMAIN cpus -> Held] /\ DOMAIN cpus' = DOMAIN cpus
  BY <1>1, CursorStep
<1>5. \A i \in DOMAIN cpus \ {f} :
        texts'[i].at = texts[i].at /\ texts'[i].size = texts[i].size /\ texts'[i].sealed = texts[i].sealed
  BY <1>1, WroteStep
<1>6. \A i \in DOMAIN cpus : texts'[i].sealed <= texts'[i].size /\ CodeSize <= texts'[i].size
  <2> TAKE i \in DOMAIN cpus
  <2>1. /\ texts[i].sealed <= texts[i].size /\ CodeSize <= texts[i].size
        /\ texts[i].sealed \in Nat /\ texts[i].size \in Nat /\ CodeSize \in Nat
    BY ShapeOfOne
  <2>2. texts'[i].sealed = texts[i].sealed /\ texts'[i].size \in {texts[i].size, 2 * texts[i].size}
    BY <1>1, <1>5
  <2> QED BY <2>1, <2>2
<1>7. \A i, j \in DOMAIN cpus : texts'[i].at = texts'[j].at => i = j
  <2> SUFFICES ASSUME NEW i \in DOMAIN cpus, NEW j \in DOMAIN cpus, texts'[i].at = texts'[j].at, i # j
               PROVE  FALSE
    OBVIOUS
  <2>1. DOMAIN texts = DOMAIN cpus
    BY DEF Shape, TypeOK
  <2>2. \A k \in DOMAIN cpus : texts[k].at \notin FreeRegions
    BY <2>1 DEF FreeRegions
  <2>3. \A k \in DOMAIN cpus : texts'[k].at = texts[k].at \/ (k = f /\ texts'[k].at \in FreeRegions)
    BY <1>1, <1>5
  <2>4. texts[i].at = texts[j].at
    BY <2>2, <2>3
  <2> QED BY <2>4, BlocksApart
<1>8. blocks' \subseteq DOMAIN cpus /\ emitted' \subseteq DOMAIN list'
  BY <1>2 DEF Shape, TypeOK
<1> QED BY <1>1, <1>3, <1>4, <1>6, <1>7, <1>8, ShapeStep

LEMMA EmitNopEmission ==
    ASSUME Shape, Emission, EmitNop, fate' = "ok", faults = 0
    PROVE  Emission'
<1>0. PICK f : f = ThreadCtx(call.thread)
  OBVIOUS
<1> DEFINE next == cpus[f].next
<1>1. /\ fate = "ok" /\ call.op \in {"fill", "compile"} /\ Target(next) # {}
      /\ f \in DOMAIN cpus /\ next \in Cursor /\ Past(next) \in Cursor
      /\ Past(next).at = next.at /\ Past(next).offset = next.offset + 1
      /\ cpus' = [cpus EXCEPT ![f].next = Past(next)]
      /\ \A i \in DOMAIN cpus \ {f} : texts'[i] = Wrote(next)[i]
      /\ texts'[f].sealed = texts[f].sealed
      /\ texts'[f].used \in {texts[f].used, next.offset + 1}
      /\ IF AtEnd(Past(next), texts[f])
         THEN /\ texts'[f].size = 2 * texts[f].size
              /\ \/ texts'[f].at = texts[f].at /\ texts'[f].moved = texts[f].moved
                 \/ /\ texts'[f].at \in FreeRegions
                    /\ texts'[f].moved = (texts[f].moved \/ call.op = "compile")
         ELSE texts'[f].size = texts[f].size /\ texts'[f].at = texts[f].at
              /\ texts'[f].moved = texts[f].moved
  BY <1>0, EmitNopStep
<1>2. /\ call # Idle /\ call' # Idle
      /\ call'.op = call.op /\ call'.thread = call.thread /\ call'.id = call.id
      /\ call'.todo = call.todo - 1 /\ DOMAIN cpus' = DOMAIN cpus
      /\ (ThreadCtx(call.thread) = f)'
  BY <1>0, EmitNopCall
<1>3. UNCHANGED blocks /\ call.todo > 0 /\ DOMAIN texts = DOMAIN cpus
  BY DEF EmitNop, Shape, TypeOK
<1>4. Target(next) = {f} /\ (call.op = "fill" => f = call.id /\ Filling(f))
      /\ (call.op = "compile" => Open(f) /\ ~texts[f].moved)
  BY <1>0, <1>1, <1>3, TargetOfCompile, TargetOfFill
<1>5. blocks = IF call.op = "fill" THEN DOMAIN cpus \ {call.id} ELSE DOMAIN cpus
  BY <1>1, <1>2 DEF Emission
<1>6. \A i \in DOMAIN cpus \ {f} : Closed(i) /\ Placed(i)
  BY <1>0, <1>1, <1>2, <1>4 DEF Emission, Others
<1>12. next.offset \in Nat /\ texts[f].size \in Nat /\ texts[f].used \in Nat /\ CodeSize \in Nat
      /\ texts[f] \in Text /\ 0 < CodeSize
  BY <1>1, ShapeOfOne
<1>13. texts[f].at \notin FreeRegions
  BY <1>1, <1>3 DEF FreeRegions
<1>14. next = cpus[f].next
  OBVIOUS
<1> HIDE DEF next
<1>7. cpus'[f].next = Past(next) /\ \A i \in DOMAIN cpus \ {f} : cpus'[i] = cpus[i]
  BY <1>1, CursorStep
<1>8. \A i \in DOMAIN cpus \ {f} : texts'[i] = texts[i]
  BY <1>1, <1>4, WroteStep
<1>9. \A i \in DOMAIN cpus \ {f} : Closed(i)' /\ Placed(i)'
  BY <1>6, <1>7, <1>8 DEF Closed, Placed
<1>10. ASSUME call.op = "fill" PROVE Filling(f)'
  <2> DEFINE o == next.offset
             n == call.todo
  <2>1. /\ texts[f].sealed = 0 /\ ~texts[f].moved
        /\ n \in Nat /\ o + n = CodeSize
        /\ texts[f].used <= CodeSize
        /\ next.at = texts[f].at /\ texts[f].size = CodeSize
    BY <1>4, <1>3, <1>10, <1>14 DEF Filling
  <2>2. AtEnd(Past(next), texts[f]) <=> o + 1 >= CodeSize
    BY <1>1, <1>12, <2>1, AtEndMeans
  <2>3. o \in Nat /\ n > 0
    BY <1>3, <1>12
  <2>4. n - 1 \in Nat /\ (o + 1) + (n - 1) = CodeSize /\ o + 1 <= CodeSize
        /\ (n - 1 > 0 <=> ~(o + 1 >= CodeSize))
    <3> HIDE DEF o, n
    <3> QED BY <2>1, <2>3, <1>12
  <2>5. /\ call'.todo \in Nat /\ cpus'[f].next.offset + call'.todo = CodeSize
        /\ call'.todo > 0 <=> ~AtEnd(Past(next), texts[f])
    BY <2>2, <2>4, <1>1, <1>2, <1>7
  <2>6. texts'[f].sealed = 0 /\ ~texts'[f].moved /\ texts'[f].used <= CodeSize
    BY <2>1, <2>4, <1>1, <1>10
  <2>7. IF call'.todo > 0 THEN cpus'[f].next.at = texts'[f].at /\ texts'[f].size = CodeSize
        ELSE texts'[f].size = 2 * CodeSize
    BY <2>1, <2>5, <1>1, <1>7
  <2> QED BY <2>5, <2>6, <2>7 DEF Filling
<1>11. ASSUME call.op = "compile" PROVE Open(f)'
  <2> DEFINE o == next.offset
             s == texts[f].size
  <2>1. /\ texts[f].sealed = 0 /\ ~texts[f].moved /\ texts[f].used <= s
        /\ 2 * CodeSize <= s /\ next.at = texts[f].at /\ o < s
    BY <1>4, <1>11, <1>14 DEF Open, Placed
  <2>2. AtEnd(Past(next), texts[f]) <=> o + 1 >= s
    BY <1>1, <1>12, <2>1, AtEndMeans
  <2>3. /\ s <= 2 * s /\ o + 1 <= s /\ o + 1 < 2 * s /\ o + 1 <= 2 * s
        /\ texts[f].used <= 2 * s /\ 2 * CodeSize <= 2 * s
        /\ o + 1 >= s => o + 1 >= 2 * CodeSize
        /\ ~(o + 1 >= s) => o + 1 < s
    <3>1. o \in Nat /\ s \in Nat
      BY <1>12
    <3> HIDE DEF o, s
    <3> QED BY <2>1, <3>1, <1>12
  <2>4. CASE AtEnd(Past(next), texts[f])
    <3>1. texts'[f].size = 2 * s /\ texts'[f].sealed = 0 /\ texts'[f].used <= 2 * s
          /\ cpus'[f].next.offset = o + 1 /\ cpus'[f].next.at = texts[f].at
      BY <1>1, <1>7, <2>1, <2>3, <2>4
    <3>2. Placed(f)'
      <4>1. CASE texts'[f].at = texts[f].at /\ ~texts'[f].moved
        BY <4>1, <3>1, <2>3 DEF Placed
      <4>2. CASE texts'[f].at # texts[f].at /\ texts'[f].moved
        BY <4>2, <3>1, <2>2, <2>3, <2>4 DEF Placed
      <4> QED BY <4>1, <4>2, <1>1, <1>11, <1>13, <2>1, <2>4
    <3> QED BY <3>1, <3>2, <2>3 DEF Open
  <2>5. CASE ~AtEnd(Past(next), texts[f])
    <3>1. texts'[f].size = s /\ texts'[f].sealed = 0 /\ texts'[f].used <= s
          /\ cpus'[f].next.offset = o + 1 /\ cpus'[f].next.at = texts'[f].at
          /\ ~texts'[f].moved
      BY <1>1, <1>7, <2>1, <2>3, <2>5
    <3> QED BY <3>1, <2>1, <2>2, <2>3, <2>5 DEF Open, Placed
  <2> QED BY <2>4, <2>5
<1>15. Others' \subseteq DOMAIN cpus \ {f}
  BY <1>1, <1>2, <1>4 DEF Others
<1>16. blocks' = IF call' # Idle /\ call'.op = "fill" THEN DOMAIN cpus' \ {call'.id} ELSE DOMAIN cpus'
  BY <1>2, <1>3, <1>5
<1>17. ASSUME call.op = "fill" PROVE (ThreadCtx(call.thread) = call.id /\ Filling(call.id))'
  <2>1. (call.id = f)' /\ (ThreadCtx(call.thread) = f)'
    BY <1>2, <1>4, <1>17
  <2> QED BY <2>1, <1>10, <1>17 DEF Filling
<1>18. ASSUME call.op = "compile" PROVE Open(ThreadCtx(call.thread))'
  <2>1. (ThreadCtx(call.thread) = f)'
    BY <1>2
  <2> QED BY <2>1, <1>11, <1>18 DEF Open, Placed
<1> QED BY <1>9, <1>15, <1>16, <1>17, <1>18, <1>2 DEF Emission

LEMMA EmitNopKeeps ==
    ASSUME CodeInv, EmitNop
    PROVE  CodeInv'
<1>1. UNCHANGED <<faults, blocks, list, emitted>>
  BY DEF EmitNop, bounded
<1>2. CASE Crash /\ UNCHANGED <<cpus, texts>>
  <2>1. fate' = "crashed" /\ call' = Idle
    BY <1>2 DEF Crash
  <2>2. Shape'
    BY <1>1, <1>2, <2>1, ShapeOfEnd DEF CodeInv
  <2>3. Translations'
    BY <1>1, <1>2, <2>1, TranslationsLeft DEF CodeInv
  <2> QED BY <1>1, <2>1, <2>2, <2>3 DEF CodeInv, Emission
<1>3. CASE ~(Crash /\ UNCHANGED <<cpus, texts>>)
  <2>1. fate' = "ok" /\ fate = "ok"
    BY <1>3 DEF EmitNop
  <2>2. Shape'
    BY <2>1, EmitNopShape DEF CodeInv
  <2>3. Emission'
    <3>1. CASE faults = 0
      BY <3>1, <2>1, EmitNopEmission DEF CodeInv
    <3>2. CASE faults # 0
      BY <3>2, <1>1 DEF Emission
    <3> QED BY <3>1, <3>2
  <2>4. Translations'
    <3>1. DOMAIN cpus' = DOMAIN cpus /\ call # Idle /\ call' # Idle /\ call'.op = call.op
      BY <2>1, EmitNopCall DEF CodeInv
    <3> QED BY <1>1, <2>1, <3>1, TranslationsLeft DEF CodeInv
  <2> QED BY <1>1, <2>2, <2>3, <2>4 DEF CodeInv
<1> QED BY <1>2, <1>3

\* A refused mapping ends the call, and what is said of runs without one.
LEMMA ExpandThrowsKeeps ==
    ASSUME CodeInv, ExpandThrows
    PROVE  CodeInv'
<1> DEFINE f == ThreadCtx(call.thread)
           next == cpus[f].next
<1>1. /\ fate = "ok" /\ call.op \in {"fill", "compile"}
      /\ cpus' = [cpus EXCEPT ![f].next = Past(next)]
      /\ texts' = Wrote(next)
      /\ call' = Idle /\ faults' = faults + 1
      /\ UNCHANGED <<blocks, list, emitted, fate>>
  BY DEF ExpandThrows
<1>2. faults' \in Nat /\ faults' # 0
  BY <1>1 DEF CodeInv
<1>3. f \in DOMAIN cpus /\ next \in Cursor
  BY <1>1, CallGoesOn, ShapeOfOne DEF CodeInv
<1>4. Past(next) \in Cursor
  <2>1. next.offset + 1 \in Nat
    BY <1>3 DEF Cursor
  <2> QED BY <1>3, <2>1 DEF Past, Cursor
<1> HIDE DEF f, next
<1>5. cpus' \in [DOMAIN cpus -> Held] /\ DOMAIN cpus' = DOMAIN cpus
  BY <1>1, <1>3, <1>4, CursorStep DEF CodeInv
<1>6. /\ texts' \in [DOMAIN cpus -> Text]
      /\ \A i \in DOMAIN cpus :
            /\ texts'[i].at = texts[i].at /\ texts'[i].size = texts[i].size
            /\ texts'[i].sealed = texts[i].sealed
  BY <1>1, <1>3, WroteStep DEF CodeInv
<1>7. /\ \A i \in DOMAIN cpus : texts'[i].sealed <= texts'[i].size /\ CodeSize <= texts'[i].size
      /\ \A i, j \in DOMAIN cpus : texts'[i].at = texts'[j].at => i = j
  BY <1>6, ShapeOfOne, BlocksApart DEF CodeInv
<1>8. blocks' \subseteq DOMAIN cpus /\ emitted' \subseteq DOMAIN list'
  BY <1>1 DEF CodeInv, Shape, TypeOK
<1>9. CallFits'
  BY <1>1 DEF CallFits
<1>10. Shape'
  BY <1>5, <1>6, <1>7, <1>8, <1>9, ShapeStep DEF CodeInv
<1>11. Translations'
  BY <1>1, <1>2, <1>5, TranslationsLeft DEF CodeInv
<1> QED BY <1>2, <1>10, <1>11 DEF CodeInv, Emission

LEMMA AddCpuUnmappedKeeps ==
    ASSUME CodeInv, AddCpuUnmapped
    PROVE  CodeInv'
<1>1. /\ fate' = "crashed" /\ call' = Idle /\ faults' = faults + 1
      /\ UNCHANGED <<cpus, texts, blocks, list, emitted>>
  BY DEF AddCpuUnmapped, Crash
<1>2. faults' \in Nat /\ faults' # 0
  BY <1>1 DEF CodeInv
<1>3. Shape'
  BY <1>1, ShapeOfEnd DEF CodeInv
<1>4. Translations'
  BY <1>1, <1>2, TranslationsLeft DEF CodeInv
<1> QED BY <1>1, <1>2, <1>3, <1>4 DEF CodeInv, Emission

\* The end of AddCpu puts the cursor back to the block's beginning and seals what it was
\* filled with.
LEMMA InitializedKeeps ==
    ASSUME CodeInv, Initialized
    PROVE  CodeInv'
<1>0. PICK f : f = ThreadCtx(call.thread)
  OBVIOUS
<1>1. /\ fate = "ok" /\ call.op = "fill" /\ call.todo = 0
      /\ cpus' = [cpus EXCEPT ![f].next = Begin(f)]
      /\ fate' = IF cpus[f].next = Begin(f) THEN "crashed" ELSE "ok"
      /\ texts' = Seal(call.id, CodeSize)
      /\ blocks' = blocks \cup {call.id}
      /\ call' = Idle /\ UNCHANGED <<faults, list, emitted>>
  BY <1>0 DEF Initialized, bounded
<1>2. /\ f \in DOMAIN cpus /\ call.id \in DOMAIN cpus /\ call # Idle
      /\ DOMAIN texts = DOMAIN cpus
  BY <1>0, <1>1, CallGoesOn DEF CodeInv, Shape, TypeOK
<1>3. Begin(f) \in Cursor /\ Begin(f).at = texts[f].at /\ Begin(f).offset = 0
  <2>1. texts[f].at \in Nat
    BY <1>2, ShapeOfOne DEF CodeInv
  <2> QED BY <2>1 DEF Begin, Cursor
<1>4. /\ cpus' \in [DOMAIN cpus -> Held] /\ DOMAIN cpus' = DOMAIN cpus
      /\ cpus'[f].next = Begin(f) /\ \A i \in DOMAIN cpus \ {f} : cpus'[i] = cpus[i]
  BY <1>1, <1>2, <1>3, CursorStep DEF CodeInv
<1>5. CodeSize \in Nat /\ CodeSize <= texts[call.id].size
  BY <1>2, ShapeOfOne DEF CodeInv
<1>16. PICK id \in DOMAIN cpus : id = call.id
  BY <1>2
<1>6. /\ texts' \in [DOMAIN cpus -> Text]
      /\ texts'[id].sealed = CodeSize /\ texts'[id].size = texts[id].size
      /\ texts'[id].used = texts[id].used /\ texts'[id].moved = texts[id].moved
      /\ \A i \in DOMAIN cpus : texts'[i].at = texts[i].at
      /\ \A i \in DOMAIN cpus \ {id} : texts'[i] = texts[i]
      /\ \A i \in DOMAIN cpus : texts'[i].sealed <= texts'[i].size /\ CodeSize <= texts'[i].size
      /\ \A i, j \in DOMAIN cpus : texts'[i].at = texts'[j].at => i = j
  BY <1>1, <1>5, <1>16, SealStep DEF CodeInv
<1>7. blocks' \subseteq DOMAIN cpus /\ emitted' \subseteq DOMAIN list'
  BY <1>1, <1>2 DEF CodeInv, Shape, TypeOK
<1>8. CallFits'
  BY <1>1 DEF CallFits
<1>9. Shape'
  BY <1>4, <1>6, <1>7, <1>8, ShapeStep DEF CodeInv
<1>10. Translations'
  BY <1>1, <1>4, <1>2, TranslationsLeft DEF CodeInv
<1>11. ASSUME faults' = 0, fate' = "ok"
       PROVE  /\ blocks' = DOMAIN cpus'
              /\ \A i \in DOMAIN cpus : Closed(i)' /\ Placed(i)'
  <2>1. f = id /\ Filling(id)
    <3>1. f = call.id \/ call.todo = CodeSize
      BY <1>0, <1>1, <1>11, TargetOfFill DEF CodeInv
    <3>2. CodeSize # 0
      BY RecompilerAssumption
    <3>3. f = call.id
      BY <3>1, <3>2, <1>1
    <3> QED BY <1>0, <1>1, <1>11, <1>16, <3>3, TargetOfFill DEF CodeInv
  <2>2. blocks = DOMAIN cpus \ {id} /\ \A i \in DOMAIN cpus \ {id} : Closed(i) /\ Placed(i)
    BY <1>1, <1>2, <1>11, <1>16 DEF CodeInv, Emission, Others
  <2>3. \A i \in DOMAIN cpus \ {id} : Closed(i)' /\ Placed(i)'
    BY <2>1, <2>2, <1>4, <1>6 DEF Closed, Placed
  <2>4. /\ texts[id].used <= CodeSize /\ texts[id].size = 2 * CodeSize /\ ~texts[id].moved
    BY <2>1, <1>1 DEF Filling
  <2>5. /\ texts'[id].used <= texts'[id].sealed /\ 2 * CodeSize <= texts'[id].size
        /\ texts'[id].sealed = CodeSize /\ texts'[id].size = 2 * CodeSize
        /\ ~texts'[id].moved /\ cpus'[id].next.offset = 0
        /\ cpus'[id].next.at = texts'[id].at /\ 0 < 2 * CodeSize
    <3>1. 2 * CodeSize <= 2 * CodeSize /\ 0 < 2 * CodeSize
      BY RecompilerAssumption
    <3> QED BY <2>4, <3>1, <2>1, <1>3, <1>4, <1>6
  <2>6. Closed(id)' /\ Placed(id)'
    BY <2>5 DEF Closed, Placed
  <2> QED BY <2>2, <2>3, <2>6, <1>1, <1>2, <1>4, <1>16
<1>12. Emission'
  BY <1>1, <1>4, <1>11 DEF Emission, Others
<1> QED BY <1>1, <1>9, <1>10, <1>12 DEF CodeInv

\* The end of Compile seals the block as it is now.
LEMMA CompiledKeeps ==
    ASSUME CodeInv, Compiled
    PROVE  CodeInv'
<1>0. PICK f : f = ThreadCtx(call.thread)
  OBVIOUS
<1>1. /\ fate = "ok" /\ call.op = "compile"
      /\ texts' = Seal(f, texts[f].size) /\ emitted' = DOMAIN list
      /\ call' = Idle /\ UNCHANGED <<faults, cpus, blocks, list, fate>>
  BY <1>0 DEF Compiled, bounded
<1>2. f \in DOMAIN cpus /\ call # Idle /\ DOMAIN texts = DOMAIN cpus
  BY <1>0, <1>1, CallGoesOn DEF CodeInv, Shape, TypeOK
<1>5. texts[f].size \in Nat /\ texts[f].size <= texts[f].size
  BY <1>2, ShapeOfOne DEF CodeInv
<1>6. /\ texts' \in [DOMAIN cpus -> Text]
      /\ texts'[f].sealed = texts[f].size /\ texts'[f].size = texts[f].size
      /\ texts'[f].used = texts[f].used /\ texts'[f].moved = texts[f].moved
      /\ \A i \in DOMAIN cpus : texts'[i].at = texts[i].at
      /\ \A i \in DOMAIN cpus \ {f} : texts'[i] = texts[i]
      /\ \A i \in DOMAIN cpus : texts'[i].sealed <= texts'[i].size /\ CodeSize <= texts'[i].size
      /\ \A i, j \in DOMAIN cpus : texts'[i].at = texts'[j].at => i = j
  BY <1>1, <1>2, <1>5, SealStep DEF CodeInv
<1>7. /\ cpus' \in [DOMAIN cpus -> Held] /\ DOMAIN cpus' = DOMAIN cpus
      /\ blocks' \subseteq DOMAIN cpus /\ emitted' \subseteq DOMAIN list'
  BY <1>1 DEF CodeInv, Shape, TypeOK
<1>8. CallFits'
  BY <1>1 DEF CallFits
<1>9. Shape'
  BY <1>6, <1>7, <1>8, ShapeStep DEF CodeInv
<1>10. Translations'
  BY <1>1 DEF CodeInv, Translations
<1>11. ASSUME faults' = 0
       PROVE  /\ blocks' = DOMAIN cpus'
              /\ \A i \in DOMAIN cpus : Closed(i)' /\ Placed(i)'
  <2>1. blocks = DOMAIN cpus /\ \A i \in DOMAIN cpus \ {f} : Closed(i) /\ Placed(i)
    BY <1>0, <1>1, <1>2, <1>11 DEF CodeInv, Emission, Others
  <2>2. Open(f)
    BY <1>0, <1>1, <1>11, TargetOfCompile DEF CodeInv
  <2>3. \A i \in DOMAIN cpus \ {f} : Closed(i)' /\ Placed(i)'
    BY <2>1, <1>1, <1>6 DEF Closed, Placed
  <2>4. Closed(f)' /\ Placed(f)'
    BY <2>2, <1>1, <1>2, <1>6 DEF Open, Closed, Placed
  <2> QED BY <2>1, <2>3, <2>4, <1>1
<1>12. Emission'
  BY <1>1, <1>11 DEF Emission, Others
<1> QED BY <1>1, <1>9, <1>10, <1>12 DEF CodeInv

\* Adding an entry to a map keeps the type of its values.
LEMMA PutTyped ==
    ASSUME NEW S, NEW m, m \in [DOMAIN m -> S], NEW x, NEW v \in S
    PROVE  Put(m, x, v) \in [DOMAIN m \cup {x} -> S]
BY DEF Put

\* AddCpu to the loop of NOPs: the new context, and whose cursor Initialize sets.
LEMMA AddCpuKeeps ==
    ASSUME CodeInv, NEW t \in Threads, NEW owner \in Threads, NEW i \in Ids,
           NEW attached \in BOOLEAN, AddCpu(t, i, owner, attached)
    PROVE  CodeInv'
<1>1. /\ fate = "ok" /\ call = Idle /\ i \notin blocks
      /\ UNCHANGED <<faults, blocks, list, emitted>>
  BY DEF AddCpu, Ready, bounded
<1>2. CASE Crash /\ UNCHANGED <<cpus, texts>>
  <2>1. fate' = "crashed" /\ call' = Idle
    BY <1>2 DEF Crash
  <2>2. Shape'
    BY <1>1, <1>2, <2>1, ShapeOfEnd DEF CodeInv
  <2>3. Translations'
    BY <1>1, <1>2, <2>1, TranslationsLeft DEF CodeInv
  <2> QED BY <1>1, <2>1, <2>2, <2>3 DEF CodeInv, Emission
<1>3. CASE ~(Crash /\ UNCHANGED <<cpus, texts>>)
  <2>1. PICK at \in FreeRegions : \E added, mine :
          /\ added = Put(cpus, i, Context(owner, attached))
          /\ mine = {j \in DOMAIN added : added[j].owner = t}
          /\ mine # {}
          /\ cpus' = WithCursor(added, CHOOSE j \in mine : \A k \in mine : j <= k, at)
          /\ texts' = Put(texts, i, NewText(at))
          /\ call' = [op |-> "fill", thread |-> t, id |-> i, todo |-> CodeSize]
          /\ fate' = "ok"
    BY <1>1, <1>3 DEF AddCpu
  <2>11. PICK added, mine :
          /\ added = Put(cpus, i, Context(owner, attached))
          /\ mine = {j \in DOMAIN added : added[j].owner = t}
          /\ mine # {}
          /\ cpus' = WithCursor(added, CHOOSE j \in mine : \A k \in mine : j <= k, at)
          /\ texts' = Put(texts, i, NewText(at))
          /\ call' = [op |-> "fill", thread |-> t, id |-> i, todo |-> CodeSize]
          /\ fate' = "ok"
    BY <2>1
  <2>2. PICK f : f = CHOOSE j \in mine : \A k \in mine : j <= k
    OBVIOUS
  <2>3. /\ f \in mine /\ DOMAIN added = DOMAIN cpus \cup {i}
        /\ cpus' \in [DOMAIN cpus \cup {i} -> Held]
        /\ added[i] = Context(owner, attached)
        /\ \A j \in DOMAIN cpus \ {i} : added[j] = cpus[j]
        /\ \A j \in DOMAIN added \ {f} : cpus'[j] = added[j]
        /\ added[f].next # Nowhere => cpus'[f] = added[f]
        /\ added[f].next = Nowhere => cpus'[f].next = [at |-> at, offset |-> 0]
        /\ Mine(t)' = mine /\ ThreadCtx(t)' = f
    <3>0. /\ Shape /\ cpus' = WithCursor(added, f, at)
          /\ added = Put(cpus, i, Context(owner, attached))
          /\ mine = {j \in DOMAIN added : added[j].owner = t} /\ mine # {}
          /\ f = CHOOSE j \in mine : \A k \in mine : j <= k
      BY <2>11, <2>2 DEF CodeInv
    <3> USE <3>0
    <3>1. /\ DOMAIN added = DOMAIN cpus \cup {i} /\ added[i] = Context(owner, attached)
          /\ \A j \in DOMAIN cpus \ {i} : added[j] = cpus[j]
      BY DEF Put
    <3>2. Context(owner, attached) \in Held
      BY DEF Context, Held, Nowhere, Cursor
    <3>3. added \in [DOMAIN cpus \cup {i} -> Held]
      BY <3>2, PutTyped DEF Shape
    <3>4. f \in mine
      <4>1. mine \in SUBSET Ids
        BY <3>1 DEF Shape, TypeOK
      <4> QED BY <4>1, FirstIsOne
    <3>8. f \in DOMAIN cpus \cup {i}
      BY <3>1, <3>4
    <3>5. [at |-> at, offset |-> 0] \in Cursor
      BY RecompilerAssumption DEF FreeRegions, Cursor
    <3>6. CASE added[f].next # Nowhere
      <4>1. cpus' = added
        BY <3>6 DEF WithCursor
      <4>2. Mine(t)' = mine
        BY <4>1 DEF Mine
      <4>3. ThreadCtx(t)' = f
        BY <4>2 DEF ThreadCtx
      <4> QED BY <3>1, <3>3, <3>4, <3>6, <4>1, <4>2, <4>3
    <3>7. CASE added[f].next = Nowhere
      <4> DEFINE c == [added[f] EXCEPT !.next = [at |-> at, offset |-> 0]]
      <4>1. cpus' = [added EXCEPT ![f] = c]
        BY <3>7 DEF WithCursor
      <4>2. c \in Held /\ c.owner = added[f].owner /\ c.next = [at |-> at, offset |-> 0]
        <5>1. added[f] \in Held
          BY <3>3, <3>8
        <5> QED BY <5>1, <3>5 DEF Held
      <4> HIDE DEF c
      <4>3. /\ cpus' \in [DOMAIN cpus \cup {i} -> Held]
            /\ cpus'[f] = c /\ \A j \in DOMAIN added \ {f} : cpus'[j] = added[j]
        BY <3>1, <3>3, <3>8, <4>1, <4>2
      <4>4. DOMAIN cpus' = DOMAIN added /\ \A j \in DOMAIN added : cpus'[j].owner = added[j].owner
        BY <3>1, <4>2, <4>3
      <4>5. Mine(t)' = mine
        BY <4>4 DEF Mine
      <4>6. ThreadCtx(t)' = f
        BY <4>5 DEF ThreadCtx
      <4> QED BY <3>1, <3>4, <3>7, <4>2, <4>3, <4>5, <4>6
    <3> QED BY <3>6, <3>7
  <2>4. /\ DOMAIN texts = DOMAIN cpus /\ texts \in [DOMAIN cpus -> Text]
        /\ DOMAIN cpus' = DOMAIN cpus \cup {i}
    BY <2>3 DEF CodeInv, Shape, TypeOK
  <2>5. /\ NewText(at) \in Text /\ NewText(at).at = at /\ NewText(at).sealed = 0
        /\ NewText(at).size = CodeSize /\ NewText(at).used = 0 /\ ~NewText(at).moved
    BY RecompilerAssumption DEF NewText, Text, FreeRegions
  <2>6. /\ texts' \in [DOMAIN cpus \cup {i} -> Text] /\ texts'[i] = NewText(at)
        /\ \A j \in DOMAIN cpus \ {i} : texts'[j] = texts[j]
    <3>1. /\ DOMAIN texts' = DOMAIN cpus \cup {i} /\ texts'[i] = NewText(at)
          /\ \A j \in DOMAIN cpus \ {i} : texts'[j] = texts[j]
      BY <2>11, <2>4 DEF Put
    <3>2. Put(texts, i, NewText(at)) \in [DOMAIN texts \cup {i} -> Text]
      BY <2>4, <2>5, PutTyped
    <3> QED BY <2>11, <2>4, <3>1, <3>2
  <2>7. call' # Idle /\ call'.op = "fill" /\ call'.thread = t /\ call'.id = i /\ call'.todo = CodeSize
        /\ call' \in [op : {"fill", "compile"}, thread : Threads, id : Ids, todo : {call'.todo}]
    BY <2>11 DEF Idle
  <2>8. Shape'
    <3>1. \A j \in DOMAIN cpus \cup {i} :
            /\ texts'[j].at \in Regions /\ texts'[j].sealed <= texts'[j].size
            /\ CodeSize <= texts'[j].size
      <4>1. \A j \in DOMAIN cpus : /\ texts[j].at \in Regions /\ texts[j].sealed <= texts[j].size
                                   /\ CodeSize <= texts[j].size
        BY ShapeOfOne DEF CodeInv
      <4>2. at \in Regions /\ 0 <= CodeSize /\ CodeSize <= CodeSize
        BY RecompilerAssumption DEF FreeRegions
      <4> QED BY <4>1, <4>2, <2>5, <2>6
    <3>2. \A j, k \in DOMAIN cpus \cup {i} : texts'[j].at = texts'[k].at => j = k
      <4>1. \A j \in DOMAIN cpus : texts[j].at # at
        BY <2>4 DEF FreeRegions
      <4>2. \A j \in DOMAIN cpus \ {i} : texts'[j].at # texts'[i].at
        BY <4>1, <2>5, <2>6
      <4>3. \A j, k \in DOMAIN cpus \ {i} : texts'[j].at = texts'[k].at => j = k
        BY <2>6, BlocksApart DEF CodeInv
      <4> QED BY <4>2, <4>3
    <3>3. DOMAIN texts' = DOMAIN cpus'
      BY <2>4, <2>6
    <3>4. DOMAIN cpus' \subseteq Ids /\ blocks' \subseteq DOMAIN cpus' /\ emitted' \subseteq DOMAIN list'
      BY <1>1, <2>4 DEF CodeInv, Shape, TypeOK
    <3>5. TypeOK'
      BY <3>1, <3>2, <3>3, <3>4, <2>4 DEF TypeOK
    <3>6. IsFiniteSet(DOMAIN cpus')
      BY <2>4, FS_AddElement DEF CodeInv, Shape
    <3>7. CallFits'
      <4>1. Mine(call.thread)' # {}
        BY <2>11, <2>3, <2>7 DEF Mine
      <4> QED BY <4>1, <2>11, <2>4, <2>7 DEF CallFits
    <3> QED BY <2>3, <2>4, <2>6, <3>1, <3>3, <3>5, <3>6, <3>7 DEF Shape, CallFits
  <2>9. Emission'
    <3> SUFFICES ASSUME faults = 0
                 PROVE  Emission'
      BY <1>1 DEF Emission
    <3>1. /\ i \notin DOMAIN cpus /\ blocks' = DOMAIN cpus' \ {i}
          /\ \A j \in DOMAIN cpus : Closed(j) /\ Placed(j)
      BY <1>1, <2>4 DEF CodeInv, Emission, Others
    <3>2. \A j \in DOMAIN cpus : cpus[j].next # Nowhere
      <4> TAKE j \in DOMAIN cpus
      <4>1. /\ texts[j].at # 0 /\ texts[j].moved \in BOOLEAN
            /\ cpus[j].next.offset \in Nat /\ CodeSize \in Nat /\ 0 < CodeSize
        BY ShapeOfOne DEF CodeInv
      <4>2. cpus[j].next.at # 0 \/ cpus[j].next.offset # 0
        BY <3>1, <4>1 DEF Placed
      <4> QED BY <4>2 DEF Nowhere
    <3>3. \A j \in DOMAIN cpus : cpus'[j] = cpus[j] /\ texts'[j] = texts[j]
      BY <2>3, <2>6, <3>1, <3>2
    <3>4. \A j \in DOMAIN cpus : Closed(j)' /\ Placed(j)'
      BY <3>1, <3>3 DEF Closed, Placed
    <3>5. texts'[i].size = CodeSize
      BY <2>5, <2>6
    <3>6. ASSUME f = i PROVE Filling(i)'
      <4>1. cpus'[i].next.at = at /\ cpus'[i].next.offset = 0
        BY <2>3, <3>6 DEF Context
      <4>2. CodeSize \in Nat /\ CodeSize > 0 /\ 0 + CodeSize = CodeSize /\ 0 <= CodeSize
        BY RecompilerAssumption
      <4> QED BY <4>1, <4>2, <2>5, <2>6, <2>7 DEF Filling
    <3>7. (ThreadCtx(call.thread) = f)'
      BY <2>3, <2>7 DEF ThreadCtx, Mine
    <3>8. IF (ThreadCtx(call.thread) = call.id)' THEN Filling(call.id)'
          ELSE call'.todo = CodeSize /\ (texts[call.id].size = CodeSize)'
      <4>1. CASE f = i
        BY <4>1, <2>7, <3>6, <3>7 DEF Filling
      <4>2. CASE f # i
        BY <4>2, <2>7, <3>5, <3>7
      <4> QED BY <4>1, <4>2
    <3>9. Others' = DOMAIN cpus
      BY <2>4, <2>7, <3>1 DEF Others
    <3> QED BY <2>7, <3>1, <3>4, <3>8, <3>9 DEF Emission
  <2>10. Translations'
    <3>1. DOMAIN cpus' # {}
      BY <2>4
    <3>2. ASSUME faults = 0, Cardinality(DOMAIN cpus') = 1 PROVE list = <<>>
      <4>1. i \notin DOMAIN cpus
        BY <1>1, <3>2 DEF CodeInv, Emission
      <4>2. IsFiniteSet(DOMAIN cpus)
        BY DEF CodeInv, Shape
      <4>3. Cardinality(DOMAIN cpus) + 1 = 1 /\ Cardinality(DOMAIN cpus) \in Nat
        BY <2>4, <3>2, <4>1, <4>2, FS_AddElement, FS_CardinalityType
      <4>4. Cardinality(DOMAIN cpus) = 0
        BY <4>3
      <4>5. DOMAIN cpus = {}
        BY <4>2, <4>4, FS_EmptySet
      <4> QED BY <4>5, <1>1 DEF CodeInv, Translations
    <3>3. list = <<>> => DOMAIN list' = {}
      BY <1>1
    <3> QED BY <1>1, <3>1, <3>2, <3>3 DEF CodeInv, Translations
  <2> QED BY <1>1, <2>8, <2>9, <2>10 DEF CodeInv
<1> QED BY <1>2, <1>3

\* One more translation: the ones before keep their places.
LEMMA ListGrows ==
    ASSUME NEW l, l \in Seq({l[k] : k \in DOMAIN l}), NEW x, NEW m, m = Append(l, x)
    PROVE  m \in Seq({m[k] : k \in DOMAIN m}) /\ DOMAIN l \subseteq DOMAIN m
<1> DEFINE S == {l[k] : k \in DOMAIN l} \cup {x}
<1>1. l \in Seq(S)
  <2>1. \A k \in 1 .. Len(l) : l[k] \in S
    OBVIOUS
  <2> HIDE DEF S
  <2>2. l = [k \in 1 .. Len(l) |-> l[k]] /\ Len(l) \in Nat
    OBVIOUS
  <2>3. [k \in 1 .. Len(l) |-> l[k]] \in Seq(S)
    BY <2>1, <2>2, IsASeq
  <2> QED BY <2>2, <2>3
<1>2. x \in S
  OBVIOUS
<1> HIDE DEF S
<1>3. m \in Seq(S) /\ Len(m) = Len(l) + 1 /\ Len(l) \in Nat
  BY <1>1, <1>2
<1>4. DOMAIN m = 1 .. Len(m) /\ DOMAIN l = 1 .. Len(l)
  BY <1>1, <1>3
<1>5. DOMAIN l \subseteq DOMAIN m
  BY <1>3, <1>4
<1>6. m \in Seq({m[k] : k \in DOMAIN m})
  <2> DEFINE R == {m[k] : k \in DOMAIN m}
  <2>1. \A k \in 1 .. Len(m) : m[k] \in R
    BY <1>4
  <2> HIDE DEF R
  <2>2. m = [k \in 1 .. Len(m) |-> m[k]] /\ Len(m) \in Nat
    <3>1. m \in [1 .. Len(m) -> S] /\ Len(m) \in Nat
      BY <1>3, LenProperties
    <3> QED BY <3>1, Zenon
  <2>3. [k \in 1 .. Len(m) |-> m[k]] \in Seq(R)
    BY <2>1, <2>2, IsASeq
  <2>4. m \in Seq(R)
    BY <2>2, <2>3
  <2> QED BY <2>4 DEF R
<1> QED BY <1>5, <1>6

\* With one context, IsCompiled is true of no translations but those whose first
\* address is null: as many match as there are.
LEMMA CompiledAlone ==
    ASSUME NEW l, l \in Seq({l[k] : k \in DOMAIN l}), IsCompiled(l), Cardinality(DOMAIN cpus) = 1
    PROVE  \A k \in DOMAIN l : FirstIsNull(l[k])
<1>1. DOMAIN l = 1 .. Len(l) /\ Len(l) \in Nat
  OBVIOUS
<1> DEFINE Matched == {k \in DOMAIN l : FirstIsNull(l[k]) /\ \A j \in 1 .. k - 1 : ~LastIsNull(l[j])}
<1>2. Matched \subseteq DOMAIN l /\ IsFiniteSet(DOMAIN l) /\ Cardinality(DOMAIN l) = Len(l)
  <2>1. PICK n \in Nat : n = Len(l)
    BY <1>1
  <2>2. IsFiniteSet(1 .. n) /\ Cardinality(1 .. n) = IF 1 > n THEN 0 ELSE n - 1 + 1
    BY FS_Interval
  <2>3. (IF 1 > n THEN 0 ELSE n - 1 + 1) = n
    OBVIOUS
  <2> QED BY <1>1, <2>1, <2>2, <2>3
<1>3. Cardinality(Matched) \in Nat /\ 1 * Cardinality(Matched) = Len(l)
  BY <1>2, FS_Subset, FS_CardinalityType DEF IsCompiled
<1>4. Matched = DOMAIN l
  <2> HIDE DEF Matched
  <2> QED BY <1>2, <1>3, FS_Subset
<1> QED BY <1>4

\* Run adds at most one translation, and opens the block of its thread's first context
\* unless all of them are taken for compiled.
LEMMA RunKeeps ==
    ASSUME CodeInv, NEW t \in Threads, NEW id \in Ids \cup {0}, NEW count \in 0 .. Len(memory),
           Run(t, id, count)
    PROVE  CodeInv'
<1>1. /\ fate = "ok" /\ call = Idle
      /\ UNCHANGED <<faults, cpus, blocks, emitted>>
  BY DEF Run, Ready
<1>20. PICK i \in Chosen(t, id) : \E after :
        /\ after = list \/ \E x : after = Append(list, x)
        /\ \/ Crash /\ UNCHANGED <<list, texts>>
           \/ list' = after /\ IsCompiled(after) /\ UNCHANGED <<texts, call, fate>>
           \/ list' = after /\ Crash /\ UNCHANGED texts
           \/ /\ list' = after /\ ~IsCompiled(after) /\ Mine(t) # {}
              /\ texts' = Unsealed(t, i)
              /\ call' = [op |-> "compile", thread |-> t, id |-> i, todo |-> AllNops(after)]
              /\ UNCHANGED fate
  <2>1. PICK i \in Chosen(t, id), covered \in Covered(list), stray \in Strays : \E x, after :
          /\ x = Translated(count, stray).irs
          /\ after = IF covered THEN list ELSE Append(list, x)
          /\ \/ Crash /\ UNCHANGED <<list, texts>>
             \/ /\ list' = after
                /\ IF IsCompiled(after) THEN UNCHANGED <<texts, call, fate>>
                   ELSE IF Mine(t) = {} THEN Crash /\ UNCHANGED texts
                   ELSE /\ texts' = Unsealed(t, i)
                        /\ call' = [op |-> "compile", thread |-> t, id |-> i, todo |-> AllNops(after)]
                        /\ UNCHANGED fate
    BY DEF Run
  <2> QED BY <2>1
<1>2. PICK after :
        /\ after = list \/ \E x : after = Append(list, x)
        /\ \/ Crash /\ UNCHANGED <<list, texts>>
           \/ list' = after /\ IsCompiled(after) /\ UNCHANGED <<texts, call, fate>>
           \/ list' = after /\ Crash /\ UNCHANGED texts
           \/ /\ list' = after /\ ~IsCompiled(after) /\ Mine(t) # {}
              /\ texts' = Unsealed(t, i)
              /\ call' = [op |-> "compile", thread |-> t, id |-> i, todo |-> AllNops(after)]
              /\ UNCHANGED fate
  BY <1>20
<1>3. i \in DOMAIN cpus
  BY DEF Chosen, Mine
<1>4. /\ after \in Seq({after[k] : k \in DOMAIN after})
      /\ DOMAIN list \subseteq DOMAIN after
  BY <1>2, ListGrows DEF CodeInv, Translations
<1>5. CASE call' = Idle /\ UNCHANGED texts /\ list' \in {list, after}
           /\ (fate' = "crashed" \/ (list' = after /\ IsCompiled(after) /\ UNCHANGED fate))
  <2>1. emitted' \subseteq DOMAIN list'
    BY <1>1, <1>4, <1>5 DEF CodeInv, Shape, TypeOK
  <2>2. Shape'
    <3>1. /\ DOMAIN texts = DOMAIN cpus
          /\ cpus' \in [DOMAIN cpus -> Held] /\ texts' \in [DOMAIN cpus -> Text]
          /\ blocks' \subseteq DOMAIN cpus
      BY <1>1, <1>5 DEF CodeInv, Shape, TypeOK
    <3>2. \A j \in DOMAIN cpus : texts'[j].sealed <= texts'[j].size /\ CodeSize <= texts'[j].size
      BY <1>5, ShapeOfOne DEF CodeInv
    <3>3. \A j, k \in DOMAIN cpus : texts'[j].at = texts'[k].at => j = k
      BY <1>5, BlocksApart DEF CodeInv
    <3>4. CallFits'
      BY <1>5 DEF CallFits
    <3> QED BY <1>1, <2>1, <3>1, <3>2, <3>3, <3>4, ShapeStep DEF CodeInv
  <2>3. Emission'
    <3>1. CASE fate' = "crashed"
      BY <3>1 DEF Emission
    <3>2. CASE UNCHANGED fate
      BY <3>2, <1>1, <1>5 DEF CodeInv, Emission, Others, Closed, Placed
    <3> QED BY <3>1, <3>2, <1>5
  <2>4. Translations'
    <3>1. list' \in Seq({list'[k] : k \in DOMAIN list'})
      BY <1>4, <1>5 DEF CodeInv, Translations
    <3>2. ASSUME fate' = "ok", Cardinality(DOMAIN cpus') = 1
          PROVE  \A k \in DOMAIN list' : FirstIsNull(list'[k])
      BY <1>1, <1>4, <1>5, <3>2, CompiledAlone
    <3>3. DOMAIN cpus' # {}
      BY <1>1, <1>3
    <3> QED BY <3>1, <3>2, <3>3 DEF Translations
  <2> QED BY <1>1, <2>2, <2>3, <2>4 DEF CodeInv
<1>6. ASSUME /\ list' = after /\ Mine(t) # {}
             /\ texts' = Unsealed(t, i)
             /\ call' = [op |-> "compile", thread |-> t, id |-> i, todo |-> AllNops(after)]
             /\ UNCHANGED fate
      PROVE CodeInv'
  <2>0. PICK f : f = ThreadCtx(t)
    OBVIOUS
  <2>1. f \in DOMAIN cpus /\ i \in Ids /\ DOMAIN texts = DOMAIN cpus
    BY <1>3, <1>6, <2>0, ThreadCtxIsMine DEF CodeInv, Shape, TypeOK
  <2>2. texts' = Seal(f, 0) /\ 0 <= texts[f].size
    BY <1>6, <2>0, <2>1, ShapeOfOne DEF Unsealed, CodeInv
  <2>3. /\ texts' \in [DOMAIN cpus -> Text]
        /\ texts'[f].sealed = 0 /\ texts'[f].size = texts[f].size
        /\ texts'[f].used = texts[f].used /\ texts'[f].moved = texts[f].moved
        /\ \A j \in DOMAIN cpus : texts'[j].at = texts[j].at
        /\ \A j \in DOMAIN cpus \ {f} : texts'[j] = texts[j]
        /\ \A j \in DOMAIN cpus : texts'[j].sealed <= texts'[j].size /\ CodeSize <= texts'[j].size
        /\ \A j, k \in DOMAIN cpus : texts'[j].at = texts'[k].at => j = k
    BY <2>1, <2>2, SealStep DEF CodeInv
  <2>4. PICK n : n = AllNops(after)
    OBVIOUS
  <2>5. call' = [op |-> "compile", thread |-> t, id |-> i, todo |-> n]
    BY <1>6, <2>4
  <2>6. /\ call' # Idle /\ call'.op = "compile" /\ call'.thread = t
        /\ call' \in [op : {"fill", "compile"}, thread : Threads, id : Ids, todo : {call'.todo}]
    BY <2>1, <2>5 DEF Idle
  <2>7. Mine(call.thread)' = Mine(t) /\ ThreadCtx(call.thread)' = f
    BY <1>1, <2>0, <2>6 DEF Mine, ThreadCtx
  <2>8. CallFits'
    BY <1>1, <1>6, <2>6, <2>7 DEF CallFits
  <2>9. Shape'
    <3>1. /\ cpus' \in [DOMAIN cpus -> Held] /\ DOMAIN cpus' = DOMAIN cpus
          /\ blocks' \subseteq DOMAIN cpus /\ emitted' \subseteq DOMAIN list'
      BY <1>1, <1>4, <1>6 DEF CodeInv, Shape, TypeOK
    <3> QED BY <2>3, <2>8, <3>1, ShapeStep DEF CodeInv
  <2>10. ASSUME faults = 0 PROVE Emission'
    <3>1. blocks = DOMAIN cpus /\ \A j \in DOMAIN cpus : Closed(j) /\ Placed(j)
      BY <1>1, <2>10 DEF CodeInv, Emission, Others
    <3>2. \A j \in DOMAIN cpus \ {f} : Closed(j)' /\ Placed(j)'
      BY <1>1, <2>3, <3>1 DEF Closed, Placed
    <3>3. Open(f)'
      <4>1. /\ texts[f].used \in Nat /\ texts[f].sealed \in Nat /\ texts[f].size \in Nat
            /\ texts[f].sealed <= texts[f].size /\ texts[f].used <= texts[f].sealed
        BY <2>1, <3>1, ShapeOfOne DEF Closed, CodeInv
      <4>2. texts[f].used <= texts[f].size
        BY <4>1
      <4> QED BY <1>1, <2>1, <2>3, <3>1, <4>2 DEF Closed, Open, Placed
    <3>4. Open(ThreadCtx(call.thread))'
      <4>1. (ThreadCtx(call.thread) = f)'
        BY <2>7
      <4> QED BY <3>3, <4>1 DEF Open, Placed
    <3>5. Others' = DOMAIN cpus \ {f}
      <4>1. (ThreadCtx(call.thread) = f)'
        BY <2>7
      <4> QED BY <1>1, <2>6, <4>1 DEF Others
    <3> QED BY <1>1, <2>6, <3>1, <3>2, <3>4, <3>5 DEF Emission
  <2>11. Translations'
    BY <1>1, <1>3, <1>4, <1>6, <2>6 DEF Translations
  <2>12. Emission'
    BY <1>1, <2>10 DEF Emission
  <2> QED BY <1>1, <2>9, <2>11, <2>12 DEF CodeInv
<1> QED BY <1>1, <1>2, <1>5, <1>6 DEF Crash

LEMMA DestroyKeeps ==
    ASSUME CodeInv, Destroy
    PROVE  CodeInv'
<1>1. /\ call' = Idle /\ cpus' = <<>> /\ blocks' = {} /\ texts' = <<>> /\ fate' \in {"crashed", "destroyed"}
      /\ UNCHANGED <<faults, list, emitted>>
  BY DEF Destroy, Ready, bounded
<1>2. DOMAIN cpus' = {} /\ DOMAIN texts' = {}
  BY <1>1
<1>3. cpus' \in [DOMAIN cpus' -> Held] /\ texts' \in [DOMAIN cpus' -> Text]
  BY <1>1, <1>2
<1>4. Shape'
  <2>1. TypeOK'
    BY <1>1, <1>2 DEF TypeOK, CodeInv, Shape
  <2>2. IsFiniteSet(DOMAIN cpus')
    BY <1>2, FS_EmptySet
  <2> QED BY <1>1, <1>2, <1>3, <2>1, <2>2 DEF Shape
<1> QED BY <1>1, <1>4 DEF CodeInv, Emission, Translations
-----------------------------------------------------------------------------
(* The theorems. *)

\* Shape, Emission and Translations hold after every step.
THEOREM Inductive == Spec => []CodeInv
<1>1. Init => CodeInv
  <2> SUFFICES ASSUME Init PROVE CodeInv
    OBVIOUS
  <2>1. /\ call = Idle /\ cpus = <<>> /\ texts = <<>> /\ blocks = {} /\ list = <<>> /\ emitted = {}
        /\ faults = 0
    BY DEF Init
  <2>2. DOMAIN cpus = {} /\ DOMAIN texts = {} /\ DOMAIN list = {}
    BY <2>1
  <2>3. cpus \in [DOMAIN cpus -> Held] /\ texts \in [DOMAIN cpus -> Text]
    BY <2>1, <2>2
  <2>4. IsFiniteSet(DOMAIN cpus)
    BY <2>2, FS_EmptySet
  <2>5. Shape
    BY <2>1, <2>2, <2>3, <2>4 DEF Shape, TypeOK
  <2>6. Emission
    BY <2>1, <2>2 DEF Emission, Others
  <2>7. Translations
    BY <2>1, <2>2 DEF Translations
  <2> QED BY <2>1, <2>5, <2>6, <2>7 DEF CodeInv
<1>2. CodeInv /\ [Next]_vars => CodeInv'
  <2> SUFFICES ASSUME CodeInv, [Next]_vars PROVE CodeInv'
    OBVIOUS
  <2>1. CASE \E t, owner \in Threads, i \in Ids, attached \in BOOLEAN : AddCpu(t, i, owner, attached)
    BY <2>1, AddCpuKeeps
  <2>2. CASE AddCpuUnmapped
    BY <2>2, AddCpuUnmappedKeeps
  <2>3. CASE Initialized
    BY <2>3, InitializedKeeps
  <2>4. CASE EmitNop
    BY <2>4, EmitNopKeeps
  <2>5. CASE ExpandThrows
    BY <2>5, ExpandThrowsKeeps
  <2>6. CASE \E t \in Threads, id \in Ids \cup {0}, count \in 0 .. Len(memory) : Run(t, id, count)
    BY <2>6, RunKeeps
  <2>7. CASE Compiled
    BY <2>7, CompiledKeeps
  <2>8. CASE Destroy
    BY <2>8, DestroyKeeps
  <2>9. CASE UNCHANGED vars
    <3>1. UNCHANGED <<cpus, texts, blocks, list, emitted, call, fate, faults>>
      BY <2>9 DEF vars
    <3>2. UNCHANGED <<Shape, Translations, faults>>
      BY <3>1 DEF Shape, TypeOK, Translations, Mine
    <3>3. UNCHANGED <<Emission>>
      BY <3>1 DEF Emission, Others, Closed, Placed, Filling, Open, ThreadCtx, Mine
    <3> QED BY <3>2, <3>3 DEF CodeInv
  <2> QED BY <2>1, <2>2, <2>3, <2>4, <2>5, <2>6, <2>7, <2>8, <2>9 DEF Next
<1> QED BY <1>1, <1>2, PTL DEF Spec

\* Between calls all that was emitted is executable and cannot be written, and with one
\* CPU no translation with blocks is taken for compiled before it was emitted (Initialize,
\* Compile, IsCompiled).
THEOREM CodeOKAlways == Spec => []CodeOK
<1>1. CodeInv => CodeOK
  <2> SUFFICES ASSUME CodeInv PROVE CodeOK
    OBVIOUS
  <2>1. TypeOK
    BY DEF CodeInv, Shape
  <2>2. Whole => \A i \in DOMAIN cpus : Closed(i)
    BY DEF Whole, CodeInv, Emission, Others
  <2>3. CodeSealed
    BY <2>1, <2>2 DEF CodeSealed, TypeOK, Closed
  <2>4. AloneIsCompiled
    BY DEF AloneIsCompiled, Whole, CodeInv, Translations
  <2> QED BY <2>1, <2>3, <2>4 DEF CodeOK
<1> QED BY <1>1, Inductive, PTL

\* Between calls a cursor is inside its block, unless a Compile has moved the block
\* (Expand leaves the cursor at the old place).
THEOREM CursorInBlockAlways == Spec => []CursorInBlock
<1>1. CodeInv => CursorInBlock
  <2> SUFFICES ASSUME CodeInv PROVE CursorInBlock
    OBVIOUS
  <2>1. DOMAIN texts = DOMAIN cpus
    BY DEF CodeInv, Shape, TypeOK
  <2>2. Whole => \A i \in DOMAIN cpus : Placed(i)
    BY DEF Whole, CodeInv, Emission, Others
  <2> QED BY <2>1, <2>2 DEF CursorInBlock, Placed
<1> QED BY <1>1, Inductive, PTL

\* While no mapping is refused, code is emitted without a fault but in a block that a
\* Compile has moved and for a CPU that is not the first of the thread that adds it.
THEOREM EmissionFaultHasCauseAlways == Spec => EmissionFaultHasCause
<1> DEFINE Cause == fate' = "crashed" /\ call.op # "none" /\ faults = 0 =>
         \/ call.op = "compile" /\ texts[ThreadCtx(call.thread)].moved
         \/ call.op = "fill" /\ ThreadCtx(call.thread) # call.id
<1>1. CodeInv /\ [Next]_vars => [Cause]_vars
  <2> SUFFICES ASSUME CodeInv, Next, fate' = "crashed", call.op # "none", faults = 0
               PROVE  \/ call.op = "compile" /\ texts[ThreadCtx(call.thread)].moved
                      \/ call.op = "fill" /\ ThreadCtx(call.thread) # call.id
    OBVIOUS
  <2>1. call # Idle
    BY DEF Idle
  <2>2. fate = "ok"
    BY <2>1 DEF CodeInv, Shape
  <2>3. Initialized \/ EmitNop
    BY <2>1, <2>2 DEF Next, AddCpu, AddCpuUnmapped, ExpandThrows, Run, Compiled, Destroy, Ready
  <2>4. CASE Initialized
    <3>1. call.op = "fill" /\ call.todo = 0 /\ CodeSize # 0
      BY <2>4, RecompilerAssumption DEF Initialized
    <3>2. cpus[ThreadCtx(call.thread)].next = Begin(ThreadCtx(call.thread))
      BY <2>4 DEF Initialized
    <3>3. ASSUME ThreadCtx(call.thread) = call.id PROVE FALSE
      <4>1. Filling(call.id) /\ call.id \in DOMAIN cpus
        BY <2>2, <3>1, <3>3, TargetOfFill DEF CodeInv
      <4>2. cpus[call.id].next.offset + 0 = CodeSize
        BY <3>1, <4>1 DEF Filling
      <4>3. cpus[call.id].next.offset = 0
        BY <3>2, <3>3 DEF Begin
      <4> QED BY <3>1, <4>2, <4>3
    <3> QED BY <3>1, <3>3
  <2>5. CASE EmitNop
    <3>1. /\ call.op \in {"fill", "compile"} /\ call.todo > 0
          /\ Target(cpus[ThreadCtx(call.thread)].next) = {}
      BY <2>2, <2>5 DEF EmitNop
    <3> QED BY <2>2, <3>1, TargetOfCompile, TargetOfFill DEF CodeInv
  <2> QED BY <2>3, <2>4, <2>5
<1> QED BY <1>1, Inductive, PTL DEF Spec, EmissionFaultHasCause
=============================================================================
