---------------------------- MODULE ProcessProofs -----------------------------
(* Proofs about HandleTable and KProcess, for every size of the table, every      *)
(* width of the counter, every slab and all bounds.  The table alone: handles     *)
(* name one object until the counter wraps, only their own end takes them away,   *)
(* and a Create fails only after as many as the table has entries.  The process:  *)
(* it uses its table in these ways, owns the objects of its pages, and meets its  *)
(* bounds where it ends by itself.                                                *)
EXTENDS KProcess, SequenceTheorems, WellFoundedInduction, FiniteSetTheorems, TLAPS

Entry == [node : Nat \ {0}, handle : 0 .. CounterMod - 1, object : Nat, refs : Nat]
Nodes == {slots[i].node : i \in DOMAIN slots}

\* The list, and iterators of its nodes.
TableType ==
    /\ slots \in Seq(Entry)
    /\ counter \in 0 .. CounterMod - 1
    /\ head \in Nodes \cup {End}
    /\ freeList \in Seq(Nodes)

\* The entry that Create puts into the list.
NewEntry == [node |-> Len(slots) + 1, handle |-> counter, object |-> counter + 1, refs |-> 2]

\* Until the counter wraps it is above all handles that are there.
CounterIsFresh ==
    ~wrapped => counter # 0 /\ \A i \in DOMAIN slots : slots[i].handle < counter

TableInv == TableType /\ CounterIsFresh /\ HandlesUnique
-----------------------------------------------------------------------------
(* Lemmas about the operators. *)

\* Every non-empty set of naturals has a least element.
LEMMA LeastNatural ==
    ASSUME NEW T \in SUBSET Nat, T # {}
    PROVE  \E x \in T : \A y \in T : x <= y
<1> DEFINE R == OpToRel(<, Nat)
<1>1. PICK x \in T : \A y \in T : ~(<<y, x>> \in R)
  <2> HIDE DEF R
  <2> QED BY NatLessThanWellFounded, WFMin DEF R
<1>2. \A y \in T : ~(y < x)
  BY <1>1 DEF OpToRel
<1> QED BY <1>2

\* The loop of GetHandle and Destroy stops at an entry with the handle.
LEMMA FindIsEntry ==
    ASSUME NEW list \in Seq(Entry), NEW h, \E i \in 1 .. Len(list) : list[i].handle = h
    PROVE  Find(list, h) \in 1 .. Len(list) /\ list[Find(list, h)].handle = h
<1> DEFINE I == {i \in 1 .. Len(list) : list[i].handle = h}
<1>1. I \in SUBSET Nat /\ I # {}
  OBVIOUS
<1>2. PICK x \in I : \A y \in I : x =< y
  BY <1>1, LeastNatural
<1>3. Min(I) \in I
  BY <1>2 DEF Min
<1>4. Find(list, h) = Min(I)
  BY <1>1 DEF Find, SelectInSeq
<1> QED BY <1>3, <1>4

\* An iterator stands for a place to insert at.
LEMMA PositionIsPlace ==
    ASSUME TableType, NEW n \in Nodes \cup {End}
    PROVE  Position(n) \in 1 .. Len(slots) + 1
<1> DEFINE Here(i) == IF n = End THEN i = Len(slots) + 1
                      ELSE i <= Len(slots) /\ slots[i].node = n
<1>1. \E i \in 1 .. Len(slots) + 1 : Here(i)
  <2>1. Len(slots) \in Nat /\ DOMAIN slots = 1 .. Len(slots)
    BY LenProperties DEF TableType
  <2>2. CASE n = End
    BY <2>1, <2>2
  <2>3. CASE n # End
    <3>1. PICK i \in DOMAIN slots : slots[i].node = n
      BY <2>3 DEF Nodes
    <3>2. i \in 1 .. Len(slots) + 1 /\ i <= Len(slots)
      BY <2>1
    <3> QED BY <2>3, <3>1, <3>2
  <2> QED BY <2>2, <2>3
<1> QED BY <1>1 DEF Position

\* What emplace makes of a list.
LEMMA InsertAtShifts ==
    ASSUME NEW S, NEW list \in Seq(S), NEW e \in S, NEW at \in 1 .. Len(list) + 1
    PROVE  /\ InsertAt(list, at, e) \in Seq(S)
           /\ Len(InsertAt(list, at, e)) = Len(list) + 1
           /\ \A i \in 1 .. Len(list) + 1 :
                 InsertAt(list, at, e)[i] =
                     IF i < at THEN list[i] ELSE IF i = at THEN e ELSE list[i - 1]
<1> DEFINE a == SubSeq(list, 1, at - 1)
           b == SubSeq(list, at, Len(list))
<1>1. \A i \in 1 .. Len(list) : list[i] \in S
  BY ElementOfSeq
<1>2. /\ a \in Seq(S) /\ Len(a) = at - 1
      /\ \A i \in 1 .. at - 1 : a[i] = list[i]
  BY <1>1, SubSeqProperties
<1>3. /\ b \in Seq(S) /\ Len(b) = Len(list) - at + 1
      /\ \A i \in 1 .. Len(list) - at + 1 : b[i] = list[at + i - 1]
  BY <1>1, SubSeqProperties
<1>4. InsertAt(list, at, e) = a \o <<e>> \o b
  BY DEF InsertAt
<1> HIDE DEF a, b
<1>5. /\ a \o <<e>> \in Seq(S) /\ Len(a \o <<e>>) = at
      /\ \A i \in 1 .. at : (a \o <<e>>)[i] = IF i < at THEN list[i] ELSE e
  BY <1>2
<1> DEFINE c == a \o <<e>>
<1>6. c \in Seq(S) /\ Len(c) = at /\ \A i \in 1 .. at : c[i] = IF i < at THEN list[i] ELSE e
  BY <1>5
<1> HIDE DEF c
<1>7. /\ c \o b \in Seq(S) /\ Len(c \o b) = Len(list) + 1
      /\ \A i \in 1 .. Len(list) + 1 : (c \o b)[i] = IF i <= at THEN c[i] ELSE b[i - at]
  <2>1. Len(c) + Len(b) = Len(list) + 1
    BY <1>3, <1>6
  <2>2. /\ c \o b \in Seq(S) /\ Len(c \o b) = Len(c) + Len(b)
        /\ \A i \in 1 .. Len(c) + Len(b) : (c \o b)[i] = IF i <= Len(c) THEN c[i] ELSE b[i - Len(c)]
    BY <1>3, <1>6, ConcatProperties, Zenon
  <2>3. Len(c) = at
    BY <1>6
  <2> HIDE DEF c
  <2> QED BY <2>1, <2>2, <2>3, Zenon
<1>8. InsertAt(list, at, e) = c \o b
  BY <1>4 DEF c
<1>9. \A i \in 1 .. Len(list) + 1 :
         (c \o b)[i] = IF i < at THEN list[i] ELSE IF i = at THEN e ELSE list[i - 1]
  <2> SUFFICES ASSUME NEW i \in 1 .. Len(list) + 1
               PROVE  (c \o b)[i] = IF i < at THEN list[i] ELSE IF i = at THEN e ELSE list[i - 1]
    OBVIOUS
  <2>1. CASE i <= at
    BY <2>1, <1>6, <1>7
  <2>2. CASE i > at
    <3>1. i - at \in 1 .. Len(list) - at + 1 /\ at + (i - at) - 1 = i - 1 /\ ~(i <= at) /\ i # at /\ ~(i < at)
      BY <2>2
    <3>2. (c \o b)[i] = b[i - at]
      BY <3>1, <1>7
    <3>3. b[i - at] = list[at + (i - at) - 1]
      BY <3>1, <1>3, Zenon
    <3> QED BY <3>1, <3>2, <3>3
  <2>3. i <= at \/ i > at
    BY LenProperties
  <2> QED BY <2>1, <2>2, <2>3, Zenon
<1> QED BY <1>7, <1>8, <1>9

\* The counter's next value, if that is not 0.
LEMMA CounterSteps ==
    ASSUME NEW n \in 0 .. CounterMod - 1
    PROVE  /\ (n + 1) % CounterMod \in 0 .. CounterMod - 1
           /\ (n + 1) % CounterMod # 0 => (n + 1) % CounterMod = n + 1
<1>1. CounterMod \in Nat \ {0}
  BY HandleAssumption DEF HandleAssumption
<1>2. CASE n + 1 = CounterMod
  BY <1>1, <1>2
<1>3. CASE n + 1 # CounterMod
  BY <1>1, <1>3
<1> QED BY <1>2, <1>3
-----------------------------------------------------------------------------
(* One lemma for each change of the table. *)

\* A handle that is live is found.
LEMMA LiveIsFound ==
    ASSUME TableType, NEW h \in Live
    PROVE  Find(slots, h) \in DOMAIN slots /\ slots[Find(slots, h)].handle = h
BY FindIsEntry DEF TableType, Live

\* A change of one entry that keeps its node keeps the iterators.
LEMMA SameNodes ==
    ASSUME TableType, NEW k \in DOMAIN slots, NEW e \in Entry, e.node = slots[k].node,
           slots' = [slots EXCEPT ![k] = e]
    PROVE  slots' \in Seq(Entry) /\ Nodes' = Nodes /\ DOMAIN slots' = DOMAIN slots
<1>1. slots' \in Seq(Entry) /\ DOMAIN slots' = DOMAIN slots
  BY DEF TableType
<1>2. \A i \in DOMAIN slots : slots'[i].node = slots[i].node
  BY DEF TableType
<1> QED BY <1>1, <1>2 DEF Nodes

\* Create puts an entry where its target was, shifts the rest, and goes on after that.
LEMMA CreateInserts ==
    ASSUME TableType, Create
    PROVE  /\ Target \in Nodes \cup {End} /\ Position(Target) \in 1 .. Len(slots) + 1
           /\ slots' \in Seq(Entry) /\ Len(slots') = Len(slots) + 1
           /\ \A i \in 1 .. Len(slots) + 1 :
                 slots'[i] = IF i < Position(Target) THEN slots[i]
                             ELSE IF i = Position(Target) THEN NewEntry ELSE slots[i - 1]
           /\ head' = IteratorAt(slots', Position(Target) + 2)
           /\ fate' = IF slots'[Find(slots', counter)].object = 0 THEN "crashed" ELSE "ok"
<1>1. Target \in Nodes \cup {End} /\ Position(Target) \in 1 .. Len(slots) + 1
  <2>1. CASE HandleAt(head) # 0
    <3>1. Len(freeList) \in 1 .. Len(freeList) /\ Target = freeList[Len(freeList)]
      BY <2>1 DEF Create, Proceeds, Target, TableType, Last
    <3>2. Target \in Nodes
      BY <3>1, ElementOfSeq DEF TableType
    <3> QED BY <3>2, PositionIsPlace
  <2>2. CASE HandleAt(head) = 0
    BY <2>2, PositionIsPlace DEF Target, TableType
  <2> QED BY <2>1, <2>2
<1>2. NewEntry \in Entry /\ slots \in Seq(Entry)
  BY DEF TableType, Entry, NewEntry
<1>3. /\ slots' = InsertAt(slots, Position(Target), NewEntry)
      /\ head' = IteratorAt(slots', Position(Target) + 2)
      /\ fate' = IF slots'[Find(slots', counter)].object = 0 THEN "crashed" ELSE "ok"
  BY DEF Create, CreateAt, Created, NewEntry
<1>5. PICK at \in 1 .. Len(slots) + 1 : at = Position(Target)
  BY <1>1
<1>6. PICK e \in Entry : e = NewEntry
  BY <1>2
<1>7. slots' = InsertAt(slots, at, e)
  BY <1>3, <1>5, <1>6, Zenon
<1>8. /\ slots' \in Seq(Entry) /\ Len(slots') = Len(slots) + 1
      /\ \A i \in 1 .. Len(slots) + 1 :
            slots'[i] = IF i < at THEN slots[i] ELSE IF i = at THEN e ELSE slots[i - 1]
  <2>1. PICK S, s : S = Entry /\ s = slots
    OBVIOUS
  <2>2. s \in Seq(S) /\ at \in 1 .. Len(s) + 1 /\ e \in S
    BY <1>2, <2>1
  <2>3. PICK list : list = InsertAt(s, at, e)
    OBVIOUS
  <2>4. /\ InsertAt(s, at, e) \in Seq(S)
        /\ Len(InsertAt(s, at, e)) = Len(s) + 1
        /\ \A i \in 1 .. Len(s) + 1 :
              InsertAt(s, at, e)[i] = IF i < at THEN s[i] ELSE IF i = at THEN e ELSE s[i - 1]
    BY <2>2, InsertAtShifts
  <2>5. slots' = list
    BY <1>7, <2>1, <2>3
  <2> QED BY <2>1, <2>3, <2>4, <2>5
<1> QED BY <1>1, <1>3, <1>5, <1>6, <1>8

\* Create: the entry is where the target was, and the rest is shifted.
LEMMA CreateStep ==
    ASSUME TableInv, Create
    PROVE  TableInv' /\ Live \subseteq Live'
<1> DEFINE e == NewEntry
           at == Position(Target)
<1>13. e.handle = counter /\ e.object = counter + 1
  BY DEF NewEntry
<1>2. e \in Entry /\ slots \in Seq(Entry)
  BY DEF TableInv, TableType, Entry, NewEntry
<1>12. PICK list : list = slots'
  OBVIOUS
<1>3. /\ at \in 1 .. Len(slots) + 1
      /\ list \in Seq(Entry) /\ Len(list) = Len(slots) + 1
      /\ \A i \in 1 .. Len(slots) + 1 :
            list[i] = IF i < at THEN slots[i] ELSE IF i = at THEN e ELSE slots[i - 1]
  BY <1>12, CreateInserts, Zenon DEF TableInv
<1> HIDE DEF e, at
<1>1. at \in 1 .. Len(slots) + 1
  BY <1>3
<1>4. /\ slots' = list /\ head' = IteratorAt(list, at + 2)
      /\ fate' = IF list[Find(list, counter)].object = 0 THEN "crashed" ELSE "ok"
  BY <1>12, CreateInserts, Zenon DEF TableInv, at
<1>5. list[at] = e /\ at \in 1 .. Len(list)
  BY <1>1, <1>3
<1>6. \A i \in DOMAIN slots : \E j \in DOMAIN list : list[j] = slots[i]
  <2> SUFFICES ASSUME NEW i \in 1 .. Len(slots)
               PROVE  \E j \in 1 .. Len(list) : list[j] = slots[i]
    BY <1>2, <1>3
  <2>1. CASE i < at
    BY <2>1, <1>1, <1>3
  <2>2. CASE i >= at
    <3>1. i + 1 \in 1 .. Len(list) /\ list[i + 1] = slots[i]
      BY <2>2, <1>1, <1>3
    <3> QED BY <3>1
  <2> QED BY <2>1, <2>2, <1>1
<1>7. Nodes \subseteq Nodes'
  BY <1>4, <1>6 DEF Nodes
<1>8. TableType'
  <2>1. head' \in Nodes' \cup {End}
    <3>1. (at + 2 <= Len(list) => at + 2 \in DOMAIN slots') /\ 1 \in DOMAIN slots'
      BY <1>1, <1>3, <1>4
    <3> QED BY <3>1, <1>4 DEF IteratorAt, Nodes
  <2>2. freeList' \in Seq(Nodes)
    <3>1. freeList \in Seq(Nodes)
      BY DEF TableInv, TableType
    <3>2. \A i \in 1 .. Len(freeList) - 1 : freeList[i] \in Nodes
      BY <3>1, ElementOfSeq
    <3>3. Front(freeList) \in Seq(Nodes)
      BY <3>1, <3>2, SubSeqProperties, LenProperties DEF Front
    <3> QED BY <3>1, <3>3 DEF Create
  <2>3. freeList' \in Seq(Nodes')
    BY <2>2, <1>7
  <2>4. counter' \in 0 .. CounterMod - 1
    BY CounterSteps DEF TableInv, TableType, Create
  <2> QED BY <2>1, <2>3, <2>4, <1>3, <1>4 DEF TableType
<1>9. Live \subseteq Live'
  BY <1>4, <1>6 DEF Live
<1>10. ASSUME ~wrapped
       PROVE  CounterIsFresh' /\ HandlesUnique'
  <2>1. /\ counter # 0 /\ counter' = counter + 1
        /\ \A i \in DOMAIN slots : slots[i].handle < counter
    BY <1>10, CounterSteps DEF TableInv, TableType, CounterIsFresh, Create, Proceeds
  <2> DEFINE Old(x) == IF x < at THEN x ELSE x - 1
  <2>9. \A x \in DOMAIN list : x # at => Old(x) \in DOMAIN slots /\ list[x] = slots[Old(x)]
    BY <1>1, <1>2, <1>3
  <2>10. \A x, y \in DOMAIN list : x # at /\ y # at /\ Old(x) = Old(y) => x = y
    BY <1>1, <1>3
  <2>11. counter \in Nat /\ \A x \in DOMAIN slots : slots[x].handle \in Nat
    <3>1. CounterMod \in Nat
      BY HandleAssumption DEF HandleAssumption
    <3>2. \A x \in 1 .. Len(slots) : slots[x] \in Entry
      BY <1>2, ElementOfSeq
    <3>3. DOMAIN slots = 1 .. Len(slots)
      BY <1>2, LenProperties
    <3> QED BY <3>1, <3>2, <3>3 DEF TableInv, TableType, Entry
  <2> HIDE DEF Old
  <2>2. \A i \in DOMAIN list : list[i].handle = counter => i = at
    BY <2>1, <2>9, <2>11
  <2>3. Find(list, counter) = at
    <3>1. \E i \in 1 .. Len(list) : list[i].handle = counter
      BY <1>5, <1>13
    <3>2. Find(list, counter) \in 1 .. Len(list) /\ list[Find(list, counter)].handle = counter
      BY <3>1, <1>3, FindIsEntry, Zenon
    <3> QED BY <3>2, <2>2, <1>3
  <2>4. fate' = "ok"
    BY <2>3, <2>11, <1>4, <1>5, <1>13
  <2>5. \A i \in DOMAIN list : list[i].handle < counter'
    BY <2>1, <2>9, <2>11, <1>5, <1>13
  <2>6. CounterIsFresh'
    BY <2>1, <2>5, <1>4 DEF CounterIsFresh, TableInv, TableType
  <2>7. ASSUME NEW i \in DOMAIN list, NEW j \in DOMAIN list, list[i].handle # 0
        PROVE  /\ list[i].object = list[i].handle + 1
               /\ list[i].handle = list[j].handle => i = j
    <3>1. \A p, q \in DOMAIN slots :
             slots[p].handle # 0 => /\ slots[p].object = slots[p].handle + 1
                                    /\ slots[p].handle = slots[q].handle => p = q
      BY <1>10 DEF TableInv, HandlesUnique
    <3>2. CASE i = at
      BY <2>2, <3>2, <1>5, <1>13
    <3>5. ASSUME i # at
          PROVE  /\ Old(i) \in DOMAIN slots /\ list[i] = slots[Old(i)]
                 /\ list[i].object = list[i].handle + 1
      <4>1. Old(i) \in DOMAIN slots /\ list[i] = slots[Old(i)]
        BY <2>9, <3>5
      <4> QED BY <4>1, <3>1, <2>7
    <3>3. CASE i # at /\ j = at
      BY <2>2, <3>3, <3>5, <1>5, <1>13
    <3>4. CASE i # at /\ j # at
      <4>1. Old(j) \in DOMAIN slots /\ list[j] = slots[Old(j)]
        BY <2>9, <3>4
      <4>2. list[i].handle = list[j].handle => Old(i) = Old(j)
        BY <4>1, <3>1, <3>4, <3>5, <2>7
      <4> QED BY <4>2, <2>10, <3>4, <3>5
    <3> QED BY <3>2, <3>3, <3>4
  <2>8. HandlesUnique'
    BY <2>4, <2>7, <1>4 DEF HandlesUnique
  <2> QED BY <2>6, <2>8
<1>11. wrapped' = wrapped
  BY DEF Create
<1> QED BY <1>8, <1>9, <1>10, <1>11 DEF TableInv, CounterIsFresh, HandlesUnique

\* Entries that lose their handle, or keep it and the object, do no harm.
LEMMA HandlesShrink ==
    ASSUME TableInv, TableType', UNCHANGED <<counter, wrapped, fate>>,
           DOMAIN slots' = DOMAIN slots,
           \A i \in DOMAIN slots :
               slots'[i].handle = 0 \/ (/\ slots'[i].handle = slots[i].handle
                                        /\ slots'[i].object = slots[i].object)
    PROVE  TableInv'
<1> SUFFICES ASSUME ~wrapped
             PROVE  CounterIsFresh' /\ HandlesUnique'
  BY DEF TableInv, CounterIsFresh, HandlesUnique
<1>1. /\ counter # 0 /\ fate # "crashed"
      /\ \A i \in DOMAIN slots : slots[i].handle < counter
      /\ \A i, j \in DOMAIN slots :
            slots[i].handle # 0 => /\ slots[i].object = slots[i].handle + 1
                                   /\ slots[i].handle = slots[j].handle => i = j
  BY DEF TableInv, CounterIsFresh, HandlesUnique
<1>2. counter > 0
  BY <1>1, HandleAssumption DEF HandleAssumption, TableInv, TableType
<1>3. CounterIsFresh'
  BY <1>1, <1>2 DEF CounterIsFresh
<1>4. HandlesUnique'
  BY <1>1 DEF HandlesUnique
<1> QED BY <1>3, <1>4

\* GetHandle counts a reference in one entry.
LEMMA GetHandleStep ==
    ASSUME TableInv, NEW h \in Live, GetHandle(h)
    PROVE  TableInv' /\ Live' = Live
<1> DEFINE k == Find(slots, h)
           e == [slots[k] EXCEPT !.refs = @ + 1]
<1>1. k \in DOMAIN slots /\ slots \in Seq(Entry)
  BY LiveIsFound DEF TableInv, TableType
<1> HIDE DEF k
<1>2. slots[k] \in Entry
  BY <1>1, ElementOfSeq, LenProperties
<1>3. e \in Entry /\ e.node = slots[k].node /\ e.handle = slots[k].handle /\ e.object = slots[k].object
  BY <1>2 DEF Entry
<1>4. slots' = [slots EXCEPT ![k] = e]
  BY DEF GetHandle, k
<1> HIDE DEF e
<1>5. slots' \in Seq(Entry) /\ Nodes' = Nodes /\ DOMAIN slots' = DOMAIN slots
  BY <1>1, <1>3, <1>4, SameNodes DEF TableInv
<1>6. \A i \in DOMAIN slots : slots'[i].handle = slots[i].handle /\ slots'[i].object = slots[i].object
  BY <1>1, <1>3, <1>4
<1>7. TableType'
  BY <1>5 DEF TableInv, TableType, GetHandle
<1>8. TableInv'
  BY <1>5, <1>6, <1>7, HandlesShrink DEF GetHandle
<1> QED BY <1>5, <1>6, <1>8 DEF Live

\* Destroy empties one entry, makes it the head and remembers the old one.
LEMMA DestroyStep ==
    ASSUME TableInv, NEW h \in Live, Destroy(h)
    PROVE  TableInv' /\ Live \ {h} \subseteq Live'
<1> DEFINE k == Find(slots, h)
           e == Empty(slots[k].node)
<1>1. k \in DOMAIN slots /\ slots[k].handle = h /\ slots \in Seq(Entry)
  BY LiveIsFound DEF TableInv, TableType
<1>2. slots' = [slots EXCEPT ![k] = e] /\ head' = slots[k].node
  BY DEF Destroy
<1> HIDE DEF k
<1>3. slots[k] \in Entry
  BY <1>1, ElementOfSeq, LenProperties
<1>4. e \in Entry /\ e.node = slots[k].node /\ e.handle = 0
  BY <1>3, HandleAssumption DEF Entry, Empty, HandleAssumption
<1> HIDE DEF e
<1>5. slots' \in Seq(Entry) /\ Nodes' = Nodes /\ DOMAIN slots' = DOMAIN slots
  BY <1>1, <1>2, <1>4, SameNodes DEF TableInv
<1>6. \A i \in DOMAIN slots : IF i = k THEN slots'[i].handle = 0 ELSE slots'[i] = slots[i]
  BY <1>1, <1>2, <1>4
<1>7. TableType'
  <2>1. head' \in Nodes' \cup {End}
    BY <1>1, <1>2, <1>5 DEF Nodes
  <2>2. freeList' \in Seq(Nodes')
    <3>1. freeList \in Seq(Nodes) /\ (head # End => head \in Nodes)
      BY DEF TableInv, TableType
    <3>2. CASE head # End
      BY <3>1, <3>2, <1>5, AppendProperties DEF Destroy
    <3>3. CASE head = End
      BY <3>1, <3>3, <1>5 DEF Destroy
    <3> QED BY <3>2, <3>3
  <2>3. counter' \in 0 .. CounterMod - 1
    BY DEF TableInv, TableType, Destroy
  <2> QED BY <2>1, <2>2, <2>3, <1>5 DEF TableType
<1>8. TableInv'
  BY <1>5, <1>6, <1>7, HandlesShrink DEF Destroy
<1>9. Live \ {h} \subseteq Live'
  <2> SUFFICES ASSUME NEW i \in DOMAIN slots, slots[i].handle # h, slots[i].handle # 0
               PROVE  slots[i].handle \in Live'
    BY DEF Live
  <2>1. slots'[i] = slots[i] /\ i \in DOMAIN slots'
    BY <1>1, <1>5, <1>6
  <2> QED BY <2>1 DEF Live
<1> QED BY <1>8, <1>9

\* A Create that gives nothing uses a number up.
LEMMA CreateFailsStep ==
    ASSUME TableInv, CreateFails
    PROVE  TableInv' /\ Live' = Live
<1>1. counter' \in 0 .. CounterMod - 1
  BY CounterSteps DEF TableInv, TableType, CreateFails
<1>2. TableType'
  BY <1>1 DEF TableInv, TableType, CreateFails, Nodes
<1>3. ASSUME ~wrapped'
      PROVE  CounterIsFresh' /\ HandlesUnique'
  <2>1. ~wrapped /\ counter' = counter + 1 /\ counter \in Nat
    <3>1. wrapped' = (wrapped \/ (counter + 1) % CounterMod = 0)
      BY DEF CreateFails
    <3>2. ~wrapped /\ (counter + 1) % CounterMod # 0
      BY <1>3, <3>1, Zenon
    <3>3. counter \in 0 .. CounterMod - 1 /\ counter' = (counter + 1) % CounterMod
      BY DEF TableInv, TableType, CreateFails
    <3> QED BY <3>2, <3>3, CounterSteps, HandleAssumption DEF HandleAssumption
  <2>2. \A i \in DOMAIN slots : slots[i].handle \in Nat
    <3>1. \A i \in 1 .. Len(slots) : slots[i] \in Entry
      BY ElementOfSeq DEF TableInv, TableType
    <3>2. DOMAIN slots = 1 .. Len(slots)
      BY LenProperties DEF TableInv, TableType
    <3> QED BY <3>1, <3>2, HandleAssumption DEF Entry, HandleAssumption
  <2>3. CounterIsFresh'
    BY <2>1, <2>2 DEF TableInv, CounterIsFresh, CreateFails
  <2>4. HandlesUnique'
    BY <2>1 DEF TableInv, HandlesUnique, CreateFails
  <2> QED BY <2>3, <2>4
<1>4. TableInv'
  BY <1>2, <1>3 DEF TableInv, CounterIsFresh, HandlesUnique
<1> QED BY <1>4 DEF Live, CreateFails
-----------------------------------------------------------------------------
(* The table. *)

\* The table starts with empty entries.
LEMMA TableStarts ==
    ASSUME Init
    PROVE  TableInv
<1>1. Size \in Nat \ {0} /\ CounterMod \in Nat /\ CounterMod > Size
  BY HandleAssumption DEF HandleAssumption
<1>2. slots \in Seq(Entry) /\ DOMAIN slots = 1 .. Size
  BY <1>1 DEF Init, Empty, Entry
<1>3. head \in Nodes /\ freeList \in Seq(Nodes) /\ counter \in 0 .. CounterMod - 1
  BY <1>1, <1>2 DEF Init, Nodes, Empty
<1>4. \A i \in DOMAIN slots : slots[i].handle = 0
  BY <1>2 DEF Init, Empty
<1> QED BY <1>2, <1>3, <1>4 DEF Init, TableInv, TableType, CounterIsFresh, HandlesUnique

\* Each step of the table keeps it, and takes away at most the handle it destroys.
LEMMA TableStep ==
    ASSUME TableInv, [Next]_vars
    PROVE  /\ TableInv'
           /\ \A h \in Live : h \in Live' \/ Destroy(h)
<1>1. CASE CreateFails
  BY <1>1, CreateFailsStep
<1>2. CASE Create
  BY <1>2, CreateStep
<1>3. CASE CreateAsserts \/ CreateOther
  <2>1. UNCHANGED <<slots, head, freeList, counter, wrapped>> /\ fate' = "assertion"
    BY <1>3 DEF CreateAsserts, CreateOther
  <2>2. TableInv'
    BY <2>1 DEF TableInv, TableType, Nodes, CounterIsFresh, HandlesUnique
  <2> QED BY <2>1, <2>2 DEF Live
<1>4. ASSUME NEW h \in 1 .. CounterMod - 1, GetHandle(h)
      PROVE  TableInv' /\ Live' = Live
  <2>1. h \in Live
    BY <1>4 DEF GetHandle
  <2> QED BY <1>4, <2>1, GetHandleStep
<1>5. ASSUME NEW h \in 1 .. CounterMod - 1, Destroy(h)
      PROVE  TableInv' /\ Live \ {h} \subseteq Live'
  <2>1. h \in Live
    BY <1>5 DEF Destroy
  <2> QED BY <1>5, <2>1, DestroyStep
<1>6. CASE UNCHANGED vars
  BY <1>6 DEF vars, TableInv, TableType, Nodes, CounterIsFresh, HandlesUnique, Live
<1> QED BY <1>1, <1>2, <1>3, <1>4, <1>5, <1>6 DEF Next

\* The invariant of the table, for every use of it.
THEOREM TableInductive == Spec => []TableInv
<1>1. Init => TableInv
  BY TableStarts
<1>2. TableInv /\ [Next]_vars => TableInv'
  BY TableStep
<1> QED BY <1>1, <1>2, PTL DEF Spec

\* Until the counter wraps no handle names two objects, and no lookup meets a null
\* one, however the table is used (k_process_handle_table.h:17-63).
THEOREM HandlesUniqueAlways == Spec => []HandlesUnique
<1>1. TableInv => HandlesUnique
  BY DEF TableInv
<1> QED BY <1>1, TableInductive, PTL

\* Only the Destroy of a handle ends it, before and after the counter wraps
\* (k_process_handle_table.cpp:19-36).
THEOREM HandlesStableAlways == Spec => HandlesStable
<1>1. TableInv /\ [Next]_vars
      => [\A h \in Live : h \in {slots'[i].handle : i \in DOMAIN slots'} \/ Destroy(h)]_vars
  BY TableStep DEF Live
<1> QED BY <1>1, TableInductive, PTL DEF Spec, HandlesStable
-----------------------------------------------------------------------------
(* Where the table goes on. *)

\* The nodes of the list are different ones; no entry ever leaves it.
NodesApart ==
    /\ Size <= Len(slots)
    /\ \A i, j \in DOMAIN slots : slots[i].node = slots[j].node => i = j
    /\ \A i \in DOMAIN slots : slots[i].node <= Len(slots)

Iterators == {head} \cup {freeList[m] : m \in DOMAIN freeList}

\* Of the entries the table began with, those from the j-th on are as they were, at
\* the end of the list.  The j-th is the head's or on the free list, and no iterator
\* is beyond it.
Untouched(j) == \A k \in j .. Size : slots[Len(slots) - Size + k] = Empty(k)

Reached(j) ==
    /\ j <= counter /\ Untouched(j)
    /\ j <= Size =>
          /\ j \in Iterators
          /\ \A n \in Iterators : n # End /\ n \notin j + 1 .. Size

Frontier == ~wrapped => \E j \in 1 .. Size + 1 : Reached(j)

PlacesInv == TableInv /\ NodesApart /\ Frontier

\* An iterator of an entry stands for its place alone.
LEMMA PositionIsHere ==
    ASSUME TableType, NodesApart, NEW i \in DOMAIN slots
    PROVE  Position(slots[i].node) = i
<1> DEFINE n == slots[i].node
           Here(x) == IF n = End THEN x = Len(slots) + 1
                      ELSE x <= Len(slots) /\ slots[x].node = n
<1>1. n # End /\ DOMAIN slots = 1 .. Len(slots)
  <2>1. slots[i] \in Entry
    BY ElementOfSeq, LenProperties DEF TableType
  <2> QED BY <2>1, LenProperties DEF Entry, End, TableType
<1>2. \A x \in 1 .. Len(slots) + 1 : Here(x) <=> x = i
  BY <1>1 DEF NodesApart, TableType
<1>3. Position(n) = CHOOSE x \in 1 .. Len(slots) + 1 : Here(x)
  BY DEF Position
<1>4. i \in 1 .. Len(slots) + 1
  BY <1>1, LenProperties DEF TableType
<1> HIDE DEF n, Here
<1>5. Position(n) = i
  BY <1>2, <1>3, <1>4
<1> QED BY <1>5 DEF n

\* An original node from the j-th on is at its place, and empty.
LEMMA UntouchedNode ==
    ASSUME TableType, NodesApart, NEW j \in 1 .. Size + 1, Untouched(j),
           NEW i \in DOMAIN slots, slots[i].node \in j .. Size
    PROVE  i = Len(slots) - Size + slots[i].node /\ slots[i] = Empty(slots[i].node)
<1> DEFINE k == slots[i].node
           p == Len(slots) - Size + k
<1>1. k \in j .. Size /\ Size \in Nat /\ Len(slots) \in Nat /\ DOMAIN slots = 1 .. Len(slots) /\ Size <= Len(slots)
  BY HandleAssumption, LenProperties DEF HandleAssumption, TableType, NodesApart
<1>2. p \in DOMAIN slots /\ slots[p] = Empty(k)
  BY <1>1 DEF Untouched
<1>3. slots[p].node = k
  BY <1>2 DEF Empty
<1>4. p = i
  BY <1>2, <1>3 DEF NodesApart
<1> QED BY <1>2, <1>4

\* The j-th node is free to be used.
LEMMA FrontierIsEmpty ==
    ASSUME TableType, NodesApart, NEW j \in 1 .. Size, Untouched(j)
    PROVE  /\ Len(slots) - Size + j \in DOMAIN slots
           /\ Position(j) = Len(slots) - Size + j
           /\ HandleAt(j) = 0
<1> DEFINE p == Len(slots) - Size + j
<1>1. j \in j .. Size /\ Size \in Nat /\ Len(slots) \in Nat /\ DOMAIN slots = 1 .. Len(slots) /\ Size <= Len(slots)
  BY HandleAssumption, LenProperties DEF HandleAssumption, TableType, NodesApart
<1>2. p \in DOMAIN slots /\ slots[p] = Empty(j)
  BY <1>1 DEF Untouched
<1> HIDE DEF p
<1>3. slots[p].node = j /\ slots[p].handle = 0
  BY <1>2 DEF Empty
<1>4. Position(j) = p
  BY <1>2, <1>3, PositionIsHere
<1>5. HandleAt(j) = 0
  BY <1>3, <1>4 DEF HandleAt, End
<1> QED BY <1>2, <1>4, <1>5 DEF p

\* The nodes stay apart, and the j-th is still untouched or the next one is.
LEMMA CreatePlaces ==
    ASSUME PlacesInv, Create
    PROVE  NodesApart' /\ Frontier'
<1>1. PICK at : at = Position(Target)
  OBVIOUS
<1>2. /\ Size \in Nat \ {0} /\ Len(slots) \in Nat /\ Size <= Len(slots) /\ counter \in Nat
      /\ DOMAIN slots = 1 .. Len(slots) /\ DOMAIN slots' = 1 .. Len(slots) + 1
      /\ Target \in Nodes \cup {End} /\ at \in 1 .. Len(slots) + 1
      /\ Len(slots') = Len(slots) + 1
      /\ head' = IteratorAt(slots', at + 2)
  BY <1>1, CreateInserts, LenProperties, HandleAssumption
     DEF HandleAssumption, PlacesInv, TableInv, TableType, NodesApart
<1>3. \A i \in 1 .. Len(slots) + 1 :
         slots'[i] = IF i < at THEN slots[i] ELSE IF i = at THEN NewEntry ELSE slots[i - 1]
  BY <1>1, CreateInserts, Zenon DEF PlacesInv, TableInv
<1>4. \A i \in DOMAIN slots : slots[i].node \in 1 .. Len(slots)
  <2> SUFFICES ASSUME NEW i \in DOMAIN slots PROVE slots[i].node \in 1 .. Len(slots)
    OBVIOUS
  <2>1. slots[i] \in Entry
    BY <1>2, ElementOfSeq DEF PlacesInv, TableInv, TableType
  <2>2. slots[i].node \in Nat \ {0}
    BY <2>1 DEF Entry
  <2> QED BY <1>2, <2>2 DEF PlacesInv, NodesApart
<1>5. NodesApart'
  <2> DEFINE Old(x) == IF x < at THEN x ELSE x - 1
  <2>1. \A x \in 1 .. Len(slots) + 1 : x # at => Old(x) \in 1 .. Len(slots) /\ slots'[x] = slots[Old(x)]
    BY <1>2, <1>3
  <2>2. \A x, y \in 1 .. Len(slots) + 1 : x # at /\ y # at /\ Old(x) = Old(y) => x = y
    BY <1>2
  <2> HIDE DEF Old
  <2>3. slots'[at].node = Len(slots) + 1
    BY <1>2, <1>3 DEF NewEntry
  <2>4. \A x \in 1 .. Len(slots) + 1 : x # at => slots'[x].node \in 1 .. Len(slots)
    BY <1>2, <1>4, <2>1
  <2>5. ASSUME NEW x \in 1 .. Len(slots) + 1, NEW y \in 1 .. Len(slots) + 1,
               slots'[x].node = slots'[y].node
        PROVE  x = y
    <3>1. CASE x # at /\ y # at
      <4>1. Old(x) = Old(y)
        BY <1>2, <2>1, <2>5, <3>1 DEF PlacesInv, NodesApart
      <4> QED BY <2>2, <3>1, <4>1
    <3>2. x = at \/ y = at => x = y
      BY <1>2, <2>3, <2>4, <2>5
    <3> QED BY <3>1, <3>2
  <2>6. \A x \in 1 .. Len(slots) + 1 : slots'[x].node <= Len(slots) + 1
    BY <1>2, <2>3, <2>4
  <2> QED BY <1>2, <2>5, <2>6 DEF NodesApart
<1>6. ASSUME ~wrapped
      PROVE  \E j \in 1 .. Size + 1 : Reached(j)'
  <2>1. PICK j \in 1 .. Size + 1 : Reached(j)
    BY <1>6 DEF PlacesInv, Frontier
  <2>2. counter' = counter + 1 /\ j <= counter
    BY <2>1, CounterSteps DEF PlacesInv, TableInv, TableType, Create, Proceeds, Reached
  <2>3. freeList' = IF HandleAt(head) # 0 THEN Front(freeList) ELSE freeList
    BY DEF Create
  <2>10. freeList \in Seq(Nodes)
    BY DEF PlacesInv, TableInv, TableType
  <2>4. /\ DOMAIN freeList' \subseteq DOMAIN freeList
        /\ \A m \in DOMAIN freeList' : freeList'[m] = freeList[m]
    <3>1. CASE HandleAt(head) # 0
      <4>1. freeList # <<>> /\ freeList' = Front(freeList)
        BY <2>3, <3>1 DEF Create, Proceeds
      <4> QED BY <2>10, <4>1, LenProperties, SubSeqProperties DEF Front
    <3>2. CASE HandleAt(head) = 0
      BY <2>3, <3>2
    <3> QED BY <3>1, <3>2
  <2>5. CASE j = Size + 1
    <3>1. Reached(j)'
      BY <1>2, <2>2, <2>5 DEF Reached, Untouched
    <3> QED BY <3>1
  <2>6. CASE j \in 1 .. Size /\ Target = j
    <3>1. at = Len(slots) - Size + j
      BY <1>1, <2>1, <2>6, FrontierIsEmpty DEF PlacesInv, TableInv, Reached
    <3>2. Untouched(j + 1)'
      <4> SUFFICES ASSUME NEW k \in j + 1 .. Size
                   PROVE  slots'[Len(slots) + 1 - Size + k] = Empty(k)
        BY <1>2 DEF Untouched
      <4>1. /\ Len(slots) + 1 - Size + k \in 1 .. Len(slots) + 1
            /\ at < Len(slots) + 1 - Size + k
            /\ (Len(slots) + 1 - Size + k) - 1 = Len(slots) - Size + k
            /\ k \in j .. Size
        BY <1>2, <2>6, <3>1
      <4>2. slots'[Len(slots) + 1 - Size + k] = slots[Len(slots) - Size + k]
        BY <1>2, <1>3, <4>1
      <4> QED BY <2>1, <4>1, <4>2 DEF Reached, Untouched
    <3>3. j + 1 <= Size => head' = j + 1
      <4> SUFFICES ASSUME j + 1 \in j + 1 .. Size PROVE head' = j + 1
        BY <1>2, <2>6
      <4>1. Len(slots) + 1 - Size + (j + 1) = at + 2 /\ at + 2 <= Len(slots')
        BY <1>2, <2>6, <3>1
      <4>2. slots'[at + 2] = Empty(j + 1)
        BY <1>2, <3>2, <4>1 DEF Untouched, Empty
      <4> QED BY <1>2, <4>1, <4>2 DEF IteratorAt, Empty
    <3>4. j + 1 <= Size => \A n \in Iterators' : n # End /\ n \notin j + 2 .. Size
      <4> SUFFICES ASSUME j + 1 <= Size, NEW n \in Iterators'
                   PROVE  n # End /\ n \notin j + 2 .. Size
        OBVIOUS
      <4>1. CASE n = head'
        BY <3>3, <4>1, <2>6, <1>2 DEF End
      <4>2. CASE n \in Iterators
        BY <4>2, <2>1, <2>6, <1>2 DEF Reached
      <4> QED BY <2>4, <4>1, <4>2 DEF Iterators
    <3>5. j + 1 <= Size => j + 1 \in Iterators'
      BY <3>3 DEF Iterators
    <3>6. j + 1 \in 1 .. Size + 1 /\ (j + 1) + 1 = j + 2 /\ j + 1 <= counter'
      BY <1>2, <2>2, <2>6
    <3>7. Reached(j + 1)'
      BY <3>2, <3>4, <3>5, <3>6 DEF Reached
    <3> QED BY <3>6, <3>7
  <2>7. CASE j \in 1 .. Size /\ Target # j
    <3>1. /\ Target \in Iterators /\ Target # End /\ Target \notin j .. Size
          /\ j \in {freeList'[m] : m \in DOMAIN freeList'}
      <4>1. HandleAt(j) = 0
        BY <2>1, <2>7, FrontierIsEmpty DEF PlacesInv, TableInv, Reached
      <4>2. CASE HandleAt(head) # 0
        <5>1. freeList # <<>> /\ freeList' = Front(freeList) /\ Target = freeList[Len(freeList)]
          BY <2>3, <4>2 DEF Create, Proceeds, Target, Last
        <5>2. PICK m \in DOMAIN freeList : freeList[m] = j
          BY <2>1, <2>7, <4>1, <4>2 DEF Reached, Iterators
        <5>3. m # Len(freeList) /\ DOMAIN freeList = 1 .. Len(freeList) /\ Len(freeList) \in Nat
          BY <2>7, <2>10, <5>1, <5>2, LenProperties
        <5>4. m \in DOMAIN freeList' /\ freeList'[m] = j
          BY <2>10, <5>1, <5>2, <5>3, SubSeqProperties, LenProperties DEF Front
        <5>5. Target \in Iterators
          BY <5>1, <5>2, <5>3 DEF Iterators
        <5> QED BY <2>1, <2>7, <5>4, <5>5 DEF Reached
      <4>3. CASE HandleAt(head) = 0
        <5>1. Target = head /\ freeList' = freeList
          BY <2>3, <4>3 DEF Target
        <5> QED BY <2>1, <2>7, <5>1 DEF Reached, Iterators
      <4> QED BY <4>2, <4>3
    <3>2. at \in DOMAIN slots /\ slots[at].node = Target
      <4>1. PICK i \in DOMAIN slots : slots[i].node = Target
        BY <1>2, <3>1 DEF Nodes
      <4>2. at = i
        BY <1>1, <4>1, PositionIsHere DEF PlacesInv, TableInv
      <4> QED BY <4>1, <4>2
    <3>3. at < Len(slots) - Size + j
      <4>1. CASE at >= Len(slots) - Size + j
        <5>1. at - (Len(slots) - Size) \in j .. Size
              /\ Len(slots) - Size + (at - (Len(slots) - Size)) = at
          BY <1>2, <2>7, <3>2, <4>1
        <5>2. slots[at] = Empty(at - (Len(slots) - Size))
          BY <2>1, <5>1 DEF Reached, Untouched
        <5> QED BY <3>1, <3>2, <5>1, <5>2 DEF Empty
      <4> QED BY <1>2, <2>7, <4>1
    <3>4. Untouched(j)'
      <4> SUFFICES ASSUME NEW k \in j .. Size
                   PROVE  slots'[Len(slots) + 1 - Size + k] = Empty(k)
        BY <1>2 DEF Untouched
      <4>1. /\ Len(slots) + 1 - Size + k \in 1 .. Len(slots) + 1
            /\ at < Len(slots) + 1 - Size + k
            /\ (Len(slots) + 1 - Size + k) - 1 = Len(slots) - Size + k
        BY <1>2, <2>7, <3>3
      <4>2. slots'[Len(slots) + 1 - Size + k] = slots[Len(slots) - Size + k]
        BY <1>2, <1>3, <4>1
      <4> QED BY <2>1, <4>2 DEF Reached, Untouched
    <3>5. head' # End /\ head' \notin j + 1 .. Size
      <4>1. /\ at + 2 \in 1 .. Len(slots) + 1 /\ (at + 2) - 1 = at + 1 /\ ~(at + 2 < at) /\ at + 2 # at
            /\ at + 1 \in DOMAIN slots
        BY <1>2, <2>7, <3>3
      <4>2. slots'[at + 2] = slots[at + 1]
        BY <1>3, <4>1
      <4>3. head' = slots[at + 1].node
        BY <1>2, <4>1, <4>2 DEF IteratorAt
      <4>4. ASSUME head' \in j + 1 .. Size
            PROVE  FALSE
        <5>1. slots[at + 1].node \in j .. Size /\ slots[at + 1].node >= j + 1
          BY <2>7, <4>3, <4>4
        <5>2. at + 1 = Len(slots) - Size + slots[at + 1].node
          BY <2>1, <4>1, <5>1, UntouchedNode DEF Reached, PlacesInv, TableInv
        <5> QED BY <1>2, <2>7, <3>3, <5>1, <5>2
      <4>5. slots[at + 1].node # End
        BY <1>4, <4>1 DEF End
      <4> QED BY <4>3, <4>4, <4>5
    <3>6. \A n \in Iterators' : n = head' \/ n \in Iterators
      BY <2>4 DEF Iterators
    <3>7. \A n \in Iterators' : n # End /\ n \notin j + 1 .. Size
      BY <2>1, <2>7, <3>5, <3>6 DEF Reached
    <3>8. j \in Iterators'
      BY <3>1 DEF Iterators
    <3>9. j <= counter'
      BY <1>2, <2>2, <2>7
    <3>10. Reached(j)'
      BY <3>4, <3>7, <3>8, <3>9 DEF Reached
    <3> QED BY <2>7, <3>10
  <2> QED BY <1>2, <2>5, <2>6, <2>7
<1>7. wrapped' = wrapped
  BY DEF Create
<1> QED BY <1>5, <1>6, <1>7 DEF Frontier

\* An entry that was live is none of the untouched ones.
LEMMA ChangePlaces ==
    ASSUME PlacesInv, NEW k \in DOMAIN slots, slots[k].handle # 0,
           DOMAIN slots' = DOMAIN slots, Len(slots') = Len(slots),
           \A i \in DOMAIN slots : slots'[i].node = slots[i].node,
           \A i \in DOMAIN slots \ {k} : slots'[i] = slots[i],
           UNCHANGED <<counter, wrapped>>,
           \A n \in Iterators' : n \in Iterators \/ n = slots[k].node,
           \A n \in Iterators \ {End} : n \in Iterators'
    PROVE  NodesApart' /\ Frontier'
<1>1. NodesApart'
  BY DEF PlacesInv, NodesApart
<1>2. ASSUME ~wrapped, NEW j \in 1 .. Size + 1, Reached(j)
      PROVE  Reached(j)'
  <2>1. /\ Size \in Nat \ {0} /\ Len(slots) \in Nat /\ Size <= Len(slots)
        /\ DOMAIN slots = 1 .. Len(slots)
    BY LenProperties, HandleAssumption DEF HandleAssumption, PlacesInv, TableInv, TableType, NodesApart
  <2>2. slots[k].node \notin j .. Size
    <3>1. CASE slots[k].node \in j .. Size
      <4>1. slots[k] = Empty(slots[k].node)
        BY <1>2, <3>1, UntouchedNode DEF PlacesInv, TableInv, Reached
      <4> QED BY <4>1 DEF Empty
    <3> QED BY <3>1
  <2>3. slots[k].node # End
    <3>1. slots[k] \in Entry
      BY <2>1, ElementOfSeq DEF PlacesInv, TableInv, TableType
    <3> QED BY <3>1 DEF Entry, End
  <2>4. Untouched(j)'
    <3> SUFFICES ASSUME NEW i \in j .. Size
                 PROVE  slots'[Len(slots) - Size + i] = Empty(i)
      BY DEF Untouched, Empty
    <3>1. Len(slots) - Size + i \in DOMAIN slots
      BY <1>2, <2>1
    <3>2. slots[Len(slots) - Size + i] = Empty(i)
      BY <1>2 DEF Reached, Untouched
    <3>3. Len(slots) - Size + i # k
      BY <3>2 DEF Empty
    <3> QED BY <3>1, <3>2, <3>3
  <2>5. j <= Size => /\ j \in Iterators'
                     /\ \A n \in Iterators' : n # End /\ n \notin j + 1 .. Size
    BY <1>2, <2>1, <2>2, <2>3 DEF Reached, End
  <2> QED BY <1>2, <2>4, <2>5 DEF Reached
<1> QED BY <1>1, <1>2 DEF PlacesInv, Frontier

\* The table begins at its first entry.
LEMMA PlacesStart ==
    ASSUME Init
    PROVE  PlacesInv
<1>1. Size \in Nat \ {0} /\ slots = [n \in 1 .. Size |-> Empty(n)] /\ Len(slots) = Size
      /\ DOMAIN slots = 1 .. Size /\ head = 1 /\ freeList = <<>> /\ counter = 1
  BY HandleAssumption DEF HandleAssumption, Init
<1>2. NodesApart
  BY <1>1 DEF NodesApart, Empty
<1>3. Iterators = {1}
  BY <1>1 DEF Iterators
<1>4. \A k \in 1 .. Size : Len(slots) - Size + k = k
  BY <1>1
<1>5. Untouched(1)
  BY <1>1, <1>4 DEF Untouched
<1>6. Reached(1)
  BY <1>1, <1>3, <1>5 DEF Reached, End
<1> QED BY <1>1, <1>2, <1>6, TableStarts DEF PlacesInv, Frontier

\* Each step of the table keeps its places.
LEMMA PlacesStep ==
    ASSUME PlacesInv, [Next]_vars
    PROVE  PlacesInv'
<1>1. TableInv'
  BY TableStep DEF PlacesInv
<1>2. TableType
  BY DEF PlacesInv, TableInv
<1>3. CASE UNCHANGED <<slots, head, freeList>> /\ (UNCHANGED <<counter, wrapped>> \/ CreateFails)
  <2>1. NodesApart'
    BY <1>3 DEF PlacesInv, NodesApart
  <2>2. wrapped => wrapped'
    BY <1>3 DEF CreateFails
  <2>3. ASSUME ~wrapped', NEW j \in 1 .. Size + 1, Reached(j)
        PROVE  Reached(j)'
    <3>1. counter \in Nat /\ counter' \in {counter, counter + 1}
      <4>1. CASE CreateFails
        <5>1. wrapped' = (wrapped \/ (counter + 1) % CounterMod = 0)
          BY <4>1 DEF CreateFails
        <5>2. (counter + 1) % CounterMod # 0
          BY <2>3, <5>1, Zenon
        <5>3. counter \in 0 .. CounterMod - 1 /\ counter' = (counter + 1) % CounterMod
          BY <1>2, <4>1 DEF TableType, CreateFails
        <5> QED BY <5>2, <5>3, CounterSteps, HandleAssumption DEF HandleAssumption
      <4>2. CASE UNCHANGED counter
        BY <1>2, <4>2, HandleAssumption DEF TableType, HandleAssumption
      <4> QED BY <1>3, <4>1, <4>2
    <3>2. j <= counter'
      BY <2>3, <3>1, HandleAssumption DEF Reached, HandleAssumption
    <3> QED BY <1>3, <2>3, <3>2 DEF Reached, Untouched, Iterators
  <2>4. Frontier'
    BY <2>2, <2>3 DEF PlacesInv, Frontier
  <2> QED BY <1>1, <2>1, <2>4 DEF PlacesInv
<1>4. CASE Create
  BY <1>1, <1>4, CreatePlaces DEF PlacesInv
<1>5. ASSUME NEW h \in 1 .. CounterMod - 1, GetHandle(h) \/ Destroy(h)
      PROVE  PlacesInv'
  <2> DEFINE k == Find(slots, h)
  <2>1. k \in DOMAIN slots /\ slots[k].handle # 0 /\ slots[k] \in Entry
    <3>1. h \in Live /\ h # 0
      BY <1>5 DEF GetHandle, Destroy, Live
    <3>2. k \in DOMAIN slots /\ slots[k].handle = h
      BY <1>2, <3>1, LiveIsFound
    <3> QED BY <1>2, <3>1, <3>2, ElementOfSeq, LenProperties DEF TableType
  <2>2. slots' = [slots EXCEPT ![k].refs = @ + 1] \/ slots' = [slots EXCEPT ![k] = Empty(@.node)]
    BY <1>5 DEF GetHandle, Destroy
  <2>3. GetHandle(h) => UNCHANGED <<head, freeList>>
    BY DEF GetHandle
  <2>4. Destroy(h) => /\ head' = slots[k].node
                      /\ freeList' = IF head # End THEN Append(freeList, head) ELSE freeList
    BY DEF Destroy
  <2> HIDE DEF k
  <2>5. /\ DOMAIN slots' = DOMAIN slots
        /\ \A i \in DOMAIN slots \ {k} : slots'[i] = slots[i]
        /\ slots'[k].node = slots[k].node
    BY <2>1, <2>2 DEF Entry, Empty
  <2>6. Len(slots') = Len(slots)
    BY <1>1, <1>2, <2>5, LenProperties DEF TableInv, TableType
  <2>7. UNCHANGED <<counter, wrapped>>
    BY <1>5 DEF GetHandle, Destroy
  <2>8. /\ \A n \in Iterators' : n \in Iterators \/ n = slots[k].node
        /\ \A n \in Iterators \ {End} : n \in Iterators'
    <3>1. CASE GetHandle(h)
      BY <2>3, <3>1 DEF Iterators
    <3>2. CASE Destroy(h) /\ head # End
      <4>1. head' = slots[k].node /\ freeList' = Append(freeList, head) /\ freeList \in Seq(Nodes)
            /\ head \in Nodes
        BY <1>2, <2>4, <3>2 DEF TableType
      <4>2. /\ freeList \in Seq(Nodes) /\ Len(freeList') = Len(freeList) + 1
            /\ DOMAIN freeList = 1 .. Len(freeList) /\ DOMAIN freeList' = 1 .. Len(freeList) + 1
            /\ freeList'[Len(freeList) + 1] = head /\ Len(freeList) \in Nat
            /\ \A m \in 1 .. Len(freeList) : freeList'[m] = freeList[m]
        BY <4>1, AppendProperties, LenProperties
      <4>3. \A n \in Iterators' : n \in Iterators \/ n = slots[k].node
        BY <4>1, <4>2 DEF Iterators
      <4>4. head \in Iterators'
        BY <4>2 DEF Iterators
      <4>5. \A m \in DOMAIN freeList : freeList[m] \in Iterators'
        BY <4>2 DEF Iterators
      <4> QED BY <4>3, <4>4, <4>5 DEF Iterators
    <3>3. CASE Destroy(h) /\ head = End
      BY <2>4, <3>3 DEF Iterators
    <3> QED BY <1>5, <3>1, <3>2, <3>3
  <2>9. NodesApart' /\ Frontier'
    BY <2>1, <2>5, <2>6, <2>7, <2>8, ChangePlaces
  <2> QED BY <1>1, <2>9 DEF PlacesInv
<1>6. CASE CreateAsserts \/ CreateOther
  BY <1>3, <1>6 DEF CreateAsserts, CreateOther
<1>7. CASE CreateFails
  BY <1>3, <1>7 DEF CreateFails
<1>8. CASE UNCHANGED vars
  BY <1>3, <1>8 DEF vars
<1> QED BY <1>4, <1>5, <1>6, <1>7, <1>8 DEF Next

\* A Create that gives nothing comes after as many handles as the table has entries.
LEMMA CreateFailsLate ==
    ASSUME PlacesInv, CreateFails
    PROVE  counter' >= Size \/ wrapped'
<1>1. wrapped' = (wrapped \/ (counter + 1) % CounterMod = 0)
  BY DEF CreateFails
<1> SUFFICES ASSUME ~wrapped, (counter + 1) % CounterMod # 0
             PROVE  counter' >= Size
  BY <1>1
<1>2. counter' = counter + 1 /\ counter \in Nat /\ Size \in Nat
  BY CounterSteps, HandleAssumption
     DEF HandleAssumption, PlacesInv, TableInv, TableType, CreateFails
<1>3. CASE counter = Size
  BY <1>2, <1>3
<1>4. CASE HandleAt(head) # 0 /\ freeList = <<>>
  <2>1. PICK j \in 1 .. Size + 1 : Reached(j)
    BY DEF PlacesInv, Frontier
  <2>2. CASE j <= Size
    <3>1. head = j
      BY <1>4, <2>1, <2>2 DEF Reached, Iterators
    <3>2. HandleAt(j) = 0
      BY <1>2, <2>1, <2>2, FrontierIsEmpty DEF Reached, PlacesInv, TableInv
    <3> QED BY <1>4, <3>1, <3>2
  <2>3. CASE j > Size
    BY <1>2, <2>1, <2>3 DEF Reached
  <2> QED BY <1>2, <2>2, <2>3
<1> QED BY <1>3, <1>4 DEF CreateFails

\* The places of the table, for every use of it.
THEOREM PlacesInductive == Spec => []PlacesInv
<1>1. Init => PlacesInv
  BY PlacesStart
<1>2. PlacesInv /\ [Next]_vars => PlacesInv'
  BY PlacesStep
<1> QED BY <1>1, <1>2, PTL DEF Spec
-----------------------------------------------------------------------------
(* The process's table. *)

\* A process's steps are uses of its table, or leave it alone.
LEMMA ProcessStep ==
    ASSUME TableInv, [ProcessNext]_processVars
    PROVE  [Next]_vars
<1>1. CASE Load \/ UNCHANGED processVars
  BY <1>1 DEF Load, processVars, table, vars
<1>2. CASE CreateThread \/ CreateThreadFails
  BY <1>2 DEF CreateThread, CreateThreadFails, Next
<1>3. CASE DestroyProcess
  <2>1. CASE UNCHANGED table
    BY <2>1 DEF table, vars
  <2>2. ASSUME NEW h \in Live, GetHandle(h)
        PROVE  Next
    <3>1. \A i \in 1 .. Len(slots) : slots[i] \in Entry
      BY ElementOfSeq DEF TableInv, TableType
    <3>2. DOMAIN slots = 1 .. Len(slots)
      BY LenProperties DEF TableInv, TableType
    <3>3. h \in 0 .. CounterMod - 1 /\ h # 0
      BY <3>1, <3>2 DEF Entry, Live
    <3>4. h \in 1 .. CounterMod - 1
      BY <3>3, HandleAssumption DEF HandleAssumption
    <3> QED BY <2>2, <3>4 DEF Next
  <2> QED BY <1>3, <2>1, <2>2 DEF DestroyProcess
<1>4. CASE UseTable
  BY <1>4 DEF UseTable, Next
<1>5. CASE \E h \in DOMAIN waiting : Run(h)
  BY <1>5 DEF Run, table, vars
<1> QED BY <1>1, <1>2, <1>3, <1>4, <1>5 DEF ProcessNext

\* A process's table is a table: every behaviour of KProcess is one of HandleTable,
\* whatever its threads and pages do meanwhile (kprocess.cpp:12-23, 95-104).
THEOREM ProcessUsesTable == ProcessSpec => Spec
<1>1. ProcessInit => Init
  BY DEF ProcessInit
<1>2. ProcessInit => TableInv
  BY <1>1, TableStarts
<1>3. TableInv /\ [ProcessNext]_processVars => TableInv' /\ [Next]_vars
  BY ProcessStep, TableStep
<1> QED BY <1>1, <1>2, <1>3, PTL DEF ProcessSpec, Spec

\* So its handles are unique as well.
THEOREM ProcessHandlesUnique == ProcessSpec => []HandlesUnique
BY ProcessUsesTable, HandlesUniqueAlways, PTL

\* And none is lost but by its own Destroy.
THEOREM ProcessHandlesStable == ProcessSpec => HandlesStable
BY ProcessUsesTable, HandlesStableAlways, PTL
-----------------------------------------------------------------------------
(* The pages of a process, and the areas that threads have of them. *)

\* A page of object o, of which a slot was taken by each call since it was made.
PageOf(o) == [object |-> o, open |-> loads + 1 .. Slots, serial |-> made]

\* A process has one page at most: when its last slot is taken, the place of its
\* pointer stays in front and is met before the slab is asked for another one.
NoPage == partial = <<>> /\ full = <<>> /\ allocated = {} /\ loads = 0

OnePage(o) ==
    /\ allocated = {o} /\ loads \in 1 .. Slots
    /\ area = [object |-> o, slot |-> loads, serial |-> made]
    /\ IF loads < Slots THEN partial = <<PageOf(o)>> /\ full = <<>>
       ELSE partial = <<Moved>> /\ full = <<PageOf(o)>>

PageShape == NoPage \/ \E o \in 1 .. Objects : OnePage(o)

\* The slab has each object that is no page's, once.
FreeShape ==
    heap = "ok" =>
        /\ free \in Seq(1 .. Objects)
        /\ \A i, j \in DOMAIN free : free[i] = free[j] => i = j
        /\ {free[i] : i \in DOMAIN free} = (1 .. Objects) \ allocated
        /\ Len(free) = IF allocated = {} THEN Objects ELSE Objects - 1

\* An area's object, once it was given back, comes to the page that is made by the
\* k-th call from now if it is the k-th of the free list.
Areas == {waiting[h] : h \in DOMAIN waiting} \cup {area}

AreaFar(tls) ==
    /\ tls.object \in 1 .. Objects /\ tls.serial \in 1 .. made
    /\ tls.object \in allocated => tls.serial = made \/ tls.serial + Objects <= made
    /\ heap = "ok" =>
          \A k \in DOMAIN free : free[k] = tls.object => tls.serial + Objects <= made + k

AreasFar == \A tls \in Areas : tls # NoArea => AreaFar(tls)

PagesInv ==
    /\ made \in Nat /\ PageShape /\ FreeShape /\ AreasFar /\ EndsAtBounds
-----------------------------------------------------------------------------
\* The first free slot.
LEMMA MinOfRange ==
    ASSUME NEW m \in Nat, NEW n \in Nat, m <= n
    PROVE  Min(m .. n) = m /\ (m .. n) \ {m} = m + 1 .. n
<1>1. \A x \in m .. n : (\A y \in m .. n : x =< y) <=> x = m
  OBVIOUS
<1>2. m \in m .. n
  OBVIOUS
<1>3. Min(m .. n) = m
  BY <1>1, <1>2 DEF Min
<1> QED BY <1>3

\* A page loses its first free slot.
LEMMA TakenPage ==
    ASSUME NEW o, NEW S, NEW n
    PROVE  Taken([object |-> o, open |-> S, serial |-> n])
           = [object |-> o, open |-> S \ {Min(S)}, serial |-> n]
BY DEF Taken

\* What Destroy gives back of a process without a page ...
LEMMA PagesOfNone ==
    ASSUME NoPage
    PROVE  Pages = <<>> /\ Held = {} /\ Returned = <<>>
<1>1. Pages = <<>>
  BY DEF NoPage, Pages
<1>2. Held = {}
  BY <1>1 DEF Held, ToSet
<1>3. Returned = <<>>
  BY <1>2, FS_EmptySet DEF Returned
<1> QED BY <1>1, <1>2, <1>3

\* ... and of one with a page.
LEMMA PagesOfOne ==
    ASSUME NEW o \in 1 .. Objects, OnePage(o)
    PROVE  Pages = <<PageOf(o)>> /\ Held = {o} /\ Returned = <<o>>
<1>1. PageOf(o).object = o /\ o # 0 /\ PageOf(o) # Moved
  BY DEF PageOf, Moved
<1>2. Pages = <<PageOf(o)>>
  <2>1. PICK p : p = PageOf(o) /\ p # Moved
    BY <1>1
  <2>2. CASE partial = <<p>> /\ full = <<>>
    <3>1. Head(partial) = p /\ partial \o full = <<p>>
      BY <2>2
    <3> QED BY <2>1, <2>2, <3>1 DEF Pages
  <2>3. CASE partial = <<Moved>> /\ full = <<p>>
    <3>1. Head(partial) = Moved /\ partial # <<>> /\ Tail(partial) = <<>> /\ <<>> \o full = <<p>>
      BY <2>3
    <3> QED BY <2>1, <3>1 DEF Pages
  <2> QED BY <2>1, <2>2, <2>3 DEF OnePage
<1>3. Held = {o}
  BY <1>1, <1>2 DEF Held, ToSet
<1>4. Returned = <<o>>
  <2>1. Cardinality(Held) = 1
    BY <1>3, FS_Singleton
  <2>2. Returned = [k \in 1 .. 1 |-> Pages[k].object]
    BY <2>1 DEF Returned
  <2>3. Returned = [k \in 1 .. 1 |-> o]
    BY <1>1, <1>2, <2>2
  <2> QED BY <2>3
<1> QED BY <1>2, <1>3, <1>4

\* A page's area is taken from the page that is there.
LEMMA PartialStep ==
    ASSUME PagesInv, FromPartial, UNCHANGED <<table, threadVars>>
    PROVE  PagesInv'
<1>1. Objects \in Nat \ {0} /\ Slots \in Nat \ {0, 1}
  BY TlsAssumption DEF TlsAssumption
<1>2. PICK o \in 1 .. Objects : OnePage(o)
  BY DEF PagesInv, PageShape, NoPage, FromPartial
<1>3. loads \in Nat /\ loads < Slots /\ partial = <<PageOf(o)>> /\ full = <<>>
      /\ allocated = {o}
  BY <1>1, <1>2 DEF OnePage, FromPartial
<1>4. /\ Min(loads + 1 .. Slots) = loads + 1
      /\ (loads + 1 .. Slots) \ {loads + 1} = loads + 2 .. Slots
  <2>1. loads + 1 \in Nat /\ loads + 1 <= Slots /\ (loads + 1) + 1 = loads + 2 /\ Slots \in Nat
    BY <1>1, <1>3
  <2>2. Min(loads + 1 .. Slots) = loads + 1
        /\ (loads + 1 .. Slots) \ {loads + 1} = (loads + 1) + 1 .. Slots
    BY <2>1, MinOfRange
  <2> QED BY <2>1, <2>2
<1>5. /\ loads' = loads + 1 /\ UNCHANGED <<free, allocated, made, heap>> /\ heap = "ok"
      /\ area' = Slot(PageOf(o))
      /\ partial' = [partial EXCEPT ![1] = IF Taken(PageOf(o)).open = {} THEN Moved
                                           ELSE Taken(PageOf(o))]
      /\ full' = IF Taken(PageOf(o)).open = {} THEN Append(full, Taken(PageOf(o))) ELSE full
  BY <1>3 DEF FromPartial
<1>6. Slot(PageOf(o)) = [object |-> o, slot |-> loads + 1, serial |-> made]
  BY <1>4 DEF Slot, PageOf
<1>7. Taken(PageOf(o)) = [object |-> o, open |-> loads + 2 .. Slots, serial |-> made]
  <2>1. PICK S, n : S = loads + 1 .. Slots /\ n = made
    OBVIOUS
  <2>2. Taken([object |-> o, open |-> S, serial |-> n])
        = [object |-> o, open |-> S \ {Min(S)}, serial |-> n]
    BY TakenPage
  <2> QED BY <1>4, <2>1, <2>2 DEF PageOf
<1>8. (loads + 2 .. Slots = {}) <=> loads + 1 = Slots
  BY <1>1, <1>3
<1>9. OnePage(o)'
  <2>1. PageOf(o)' = [object |-> o, open |-> loads + 2 .. Slots, serial |-> made]
    <3>1. loads' + 1 = loads + 2
      BY <1>3, <1>5
    <3> QED BY <1>5, <3>1 DEF PageOf
  <2>2. allocated' = {o} /\ loads' \in 1 .. Slots
        /\ area' = [object |-> o, slot |-> loads', serial |-> made']
    BY <1>1, <1>3, <1>5, <1>6
  <2>3. IF loads' < Slots THEN partial' = <<PageOf(o)'>> /\ full' = <<>>
        ELSE partial' = <<Moved>> /\ full' = <<PageOf(o)'>>
    <3>1. CASE loads + 1 = Slots
      BY <1>3, <1>5, <1>7, <1>8, <2>1, <3>1
    <3>2. CASE loads + 1 # Slots
      BY <1>1, <1>3, <1>5, <1>7, <1>8, <2>1, <3>2
    <3> QED BY <3>1, <3>2
  <2> QED BY <2>2, <2>3 DEF OnePage
<1>10. FreeShape'
  BY <1>5 DEF PagesInv, FreeShape
<1>11. AreasFar'
  <2> SUFFICES ASSUME NEW tls \in Areas', tls # NoArea
               PROVE  AreaFar(tls)'
    BY DEF AreasFar
  <2>1. CASE tls \in Areas
    BY <1>5, <2>1 DEF PagesInv, AreasFar, AreaFar
  <2>2. CASE tls = area'
    <3>1. tls.object = o /\ tls.serial = made
      BY <1>5, <1>6, <2>2
    <3>2. made \in 1 .. made
      <4>1. area # NoArea /\ area.object = o /\ area.serial = made
        BY <1>2 DEF OnePage, NoArea
      <4> QED BY <4>1 DEF PagesInv, AreasFar, AreaFar, Areas
    <3>3. \A k \in DOMAIN free : free[k] # o
      BY <1>3, <1>5 DEF PagesInv, FreeShape
    <3> QED BY <1>5, <3>1, <3>2, <3>3 DEF AreaFar
  <2> QED BY <2>1, <2>2 DEF Areas, threadVars
<1>12. EndsAtBounds'
  BY <1>5 DEF PagesInv, EndsAtBounds, table, threadVars
<1> QED BY <1>5, <1>9, <1>10, <1>11, <1>12 DEF PagesInv, PageShape

\* The place of the pointer that was moved out is met when all slots are taken, and
\* only the slab's own exception ends the program otherwise.
LEMMA PagesEnd ==
    ASSUME PagesInv, FromMoved \/ SlabThrows, UNCHANGED <<table, threadVars>>
    PROVE  PagesInv'
<1>1. /\ UNCHANGED <<allocated, partial, full, area, loads, made>>
      /\ heap' \in {"null page", "exception"}
      /\ heap' = "null page" => partial # <<>> /\ Head(partial) = Moved
  BY DEF FromMoved, SlabThrows
<1>2. PageShape'
  BY <1>1 DEF PagesInv, PageShape, NoPage, OnePage, PageOf
<1>3. FreeShape' /\ AreasFar'
  BY <1>1 DEF PagesInv, FreeShape, AreasFar, AreaFar, Areas, threadVars
<1>4. heap' = "null page" => loads >= Slots
  <2> SUFFICES ASSUME partial # <<>>, Head(partial) = Moved
               PROVE  loads >= Slots
    BY <1>1
  <2>1. PICK o \in 1 .. Objects : OnePage(o)
    BY DEF PagesInv, PageShape, NoPage
  <2>2. CASE loads < Slots
    <3>1. Head(partial) = PageOf(o)
      BY <2>1, <2>2 DEF OnePage
    <3> QED BY <3>1 DEF PageOf, Moved
  <2> QED BY <2>1, <2>2, TlsAssumption DEF OnePage, TlsAssumption
<1>5. EndsAtBounds'
  BY <1>1, <1>4 DEF PagesInv, EndsAtBounds, table, threadVars
<1> QED BY <1>1, <1>2, <1>3, <1>5 DEF PagesInv

\* A page is made of the front object of the slab, which then is the first one again
\* after all others.
LEMMA SlabStep ==
    ASSUME PagesInv, FromSlab, UNCHANGED <<table, threadVars>>
    PROVE  PagesInv'
<1>1. Objects \in Nat \ {0} /\ Slots \in Nat \ {0, 1} /\ made \in Nat
  BY TlsAssumption DEF TlsAssumption, PagesInv
<1>2. NoPage /\ heap = "ok"
  BY DEF PagesInv, PageShape, OnePage, FromSlab
<1>3. /\ free \in Seq(1 .. Objects) /\ Len(free) = Objects
      /\ DOMAIN free = 1 .. Objects
      /\ \A i, j \in 1 .. Objects : free[i] = free[j] => i = j
      /\ {free[i] : i \in 1 .. Objects} = 1 .. Objects
  <2>1. /\ free \in Seq(1 .. Objects) /\ Len(free) = Objects
        /\ \A i, j \in DOMAIN free : free[i] = free[j] => i = j
        /\ {free[i] : i \in DOMAIN free} = (1 .. Objects) \ allocated /\ allocated = {}
    BY <1>2 DEF PagesInv, FreeShape, NoPage
  <2>2. DOMAIN free = 1 .. Objects
    BY <2>1, LenProperties
  <2> QED BY <2>1, <2>2
<1>4. PICK o \in 1 .. Objects : o = free[1]
  BY <1>1, <1>3
<1>5. free # <<>> /\ FrontObject = o /\ Head(free) = o
  BY <1>1, <1>3, <1>4 DEF FrontObject
<1>6. /\ Len(Tail(free)) = Objects - 1 /\ Tail(free) \in Seq(1 .. Objects)
      /\ DOMAIN Tail(free) = 1 .. Objects - 1
      /\ \A i \in 1 .. Objects - 1 : Tail(free)[i] = free[i + 1]
  BY <1>1, <1>3, <1>5, LenProperties
<1>7. Min(1 .. Slots) = 1 /\ (1 .. Slots) \ {1} = 2 .. Slots /\ 2 .. Slots # {}
  <2>1. Min(1 .. Slots) = 1 /\ (1 .. Slots) \ {1} = 1 + 1 .. Slots
    BY <1>1, MinOfRange
  <2>2. 2 \in 2 .. Slots /\ 1 + 1 = 2
    BY <1>1
  <2> QED BY <2>1, <2>2
<1>8. /\ Slot(NewPage(o)) = [object |-> o, slot |-> 1, serial |-> made + 1]
      /\ Taken(NewPage(o)) = [object |-> o, open |-> 2 .. Slots, serial |-> made + 1]
  <2>1. PICK S, n : S = 1 .. Slots /\ n = made + 1
    OBVIOUS
  <2>2. Taken([object |-> o, open |-> S, serial |-> n])
        = [object |-> o, open |-> S \ {Min(S)}, serial |-> n]
    BY TakenPage
  <2>3. NewPage(o) = [object |-> o, open |-> S, serial |-> n]
    BY <2>1 DEF NewPage
  <2>4. PICK page : page = NewPage(o)
    OBVIOUS
  <2>5. page.object = o /\ page.open = S /\ page.serial = n
    BY <2>3, <2>4
  <2>6. Slot(page) = [object |-> o, slot |-> Min(S), serial |-> n]
    BY <2>5 DEF Slot
  <2> QED BY <1>7, <2>1, <2>2, <2>3, <2>4, <2>6
<1>9. /\ area' = [object |-> o, slot |-> 1, serial |-> made + 1]
      /\ partial' = <<[object |-> o, open |-> 2 .. Slots, serial |-> made + 1]>>
      /\ full' = <<>> /\ loads' = 1 /\ made' = made + 1 /\ heap' = "ok"
      /\ allocated' = {o} /\ free' = Tail(free)
  BY <1>2, <1>5, <1>7, <1>8 DEF FromSlab, NoPage
<1>10. OnePage(o)'
  BY <1>1, <1>9 DEF OnePage, PageOf
<1>11. FreeShape'
  <2>4. PICK rest : rest = Tail(free)
    OBVIOUS
  <2>1. /\ rest \in Seq(1 .. Objects) /\ Len(rest) = Objects - 1 /\ DOMAIN rest = 1 .. Objects - 1
        /\ \A i \in 1 .. Objects - 1 : rest[i] = free[i + 1]
    BY <1>6, <2>4
  <2>2. \A i, j \in 1 .. Objects - 1 : rest[i] = rest[j] => i = j
    <3> SUFFICES ASSUME NEW i \in 1 .. Objects - 1, NEW j \in 1 .. Objects - 1, rest[i] = rest[j]
                 PROVE  i = j
      OBVIOUS
    <3>1. free[i + 1] = free[j + 1] /\ i + 1 \in 1 .. Objects /\ j + 1 \in 1 .. Objects
      BY <1>1, <2>1
    <3>2. i + 1 = j + 1
      BY <1>3, <3>1
    <3> QED BY <1>1, <3>2
  <2>3. {rest[i] : i \in 1 .. Objects - 1} = (1 .. Objects) \ {o}
    <3>1. ASSUME NEW i \in 1 .. Objects - 1
          PROVE  rest[i] \in (1 .. Objects) \ {o}
      <4>1. i + 1 \in 1 .. Objects /\ i + 1 # 1 /\ 1 \in 1 .. Objects
        BY <1>1
      <4> QED BY <1>3, <1>4, <2>1, <4>1
    <3>2. ASSUME NEW x \in (1 .. Objects) \ {o}
          PROVE  \E i \in 1 .. Objects - 1 : rest[i] = x
      <4>1. PICK m \in 1 .. Objects : free[m] = x
        BY <1>3
      <4>2. m - 1 \in 1 .. Objects - 1 /\ (m - 1) + 1 = m
        BY <1>1, <1>4, <4>1
      <4> QED BY <2>1, <4>1, <4>2
    <3> QED BY <3>1, <3>2
  <2>5. free' = rest /\ allocated' = {o} /\ {o} # {}
    BY <1>9, <2>4
  <2>6. DOMAIN rest = 1 .. Objects - 1 /\ {rest[i] : i \in DOMAIN rest} = (1 .. Objects) \ {o}
    BY <2>1, <2>3
  <2> QED BY <2>1, <2>2, <2>5, <2>6 DEF FreeShape
<1>12. AreasFar'
  <2> SUFFICES ASSUME NEW tls \in Areas', tls # NoArea
               PROVE  AreaFar(tls)'
    BY DEF AreasFar
  <2>1. CASE tls = area'
    <3>1. tls.object = o /\ tls.serial = made + 1
      BY <1>9, <2>1
    <3>2. \A k \in DOMAIN free' : free'[k] # o
      BY <1>9, <1>11 DEF FreeShape
    <3> QED BY <1>1, <1>9, <3>1, <3>2 DEF AreaFar
  <2>2. CASE tls \in Areas
    <3>1. /\ tls.object \in 1 .. Objects /\ tls.serial \in 1 .. made
          /\ \A k \in 1 .. Objects : free[k] = tls.object => tls.serial + Objects <= made + k
      BY <1>2, <1>3, <2>2 DEF PagesInv, AreasFar, AreaFar
    <3>2. tls.object = o => tls.serial + Objects <= made + 1
      BY <1>1, <1>4, <3>1
    <3>3. ASSUME NEW k \in 1 .. Objects - 1, free'[k] = tls.object
          PROVE  tls.serial + Objects <= made' + k
      <4>1. k + 1 \in 1 .. Objects /\ free[k + 1] = tls.object
        BY <1>1, <1>6, <1>9, <3>3
      <4>2. tls.serial + Objects <= made + (k + 1)
        BY <3>1, <4>1
      <4> QED BY <1>1, <1>9, <3>1, <4>2
    <3>4. tls.serial \in 1 .. made'
      BY <1>1, <1>9, <3>1
    <3>5. DOMAIN free' = 1 .. Objects - 1
      BY <1>6, <1>9
    <3> QED BY <1>9, <3>1, <3>2, <3>3, <3>4, <3>5 DEF AreaFar
  <2> QED BY <2>1, <2>2 DEF Areas, threadVars
<1>13. EndsAtBounds'
  BY <1>9 DEF PagesInv, EndsAtBounds, table, threadVars
<1>14. made' \in Nat
  BY <1>1, <1>9
<1> QED BY <1>10, <1>11, <1>12, <1>13, <1>14 DEF PagesInv, PageShape

\* Destroy gives the page's object back, to the end of the slab's list.
LEMMA DestroyPagesStep ==
    ASSUME PagesInv, DestroyPages, Areas' = Areas, UNCHANGED <<waiting, core>>, core = "ok"
    PROVE  PagesInv'
<1>1. Objects \in Nat \ {0} /\ made \in Nat
  BY TlsAssumption DEF TlsAssumption, PagesInv
<1>2. /\ heap = "ok" /\ UNCHANGED <<area, made>> /\ partial' = <<>> /\ full' = <<>> /\ loads' = 0
      /\ free' = free \o Returned /\ allocated' = allocated \ Held
      /\ heap' = IF Held \subseteq allocated THEN heap ELSE "exception"
  BY DEF DestroyPages, Freed
<1>3. EndsAtBounds'
  BY <1>2 DEF EndsAtBounds
<1>4. CASE NoPage
  <2>1. Returned = <<>> /\ Held = {} /\ allocated = {}
    BY <1>4, PagesOfNone DEF NoPage
  <2>2. free' = free /\ allocated' = allocated /\ heap' = heap
    <3>1. free \in Seq(1 .. Objects)
      BY <1>2 DEF PagesInv, FreeShape
    <3> QED BY <1>2, <2>1, <3>1
  <2>3. PageShape' /\ FreeShape'
    BY <1>2, <2>1, <2>2 DEF PagesInv, PageShape, NoPage, FreeShape
  <2>4. AreasFar'
    BY <1>2, <2>2 DEF PagesInv, AreasFar, AreaFar
  <2> QED BY <1>1, <1>2, <1>3, <2>3, <2>4 DEF PagesInv
<1>5. ASSUME NEW o \in 1 .. Objects, OnePage(o)
      PROVE  PagesInv'
  <2>1. Returned = <<o>> /\ Held = {o} /\ allocated = {o}
    BY <1>5, PagesOfOne DEF OnePage
  <2>2. free' = free \o <<o>> /\ allocated' = {} /\ heap' = "ok"
    BY <1>2, <2>1
  <2>3. /\ free \in Seq(1 .. Objects) /\ Len(free) = Objects - 1 /\ DOMAIN free = 1 .. Objects - 1
        /\ \A i, j \in 1 .. Objects - 1 : free[i] = free[j] => i = j
        /\ {free[i] : i \in 1 .. Objects - 1} = (1 .. Objects) \ {o}
    <3>1. /\ free \in Seq(1 .. Objects) /\ Len(free) = Objects - 1
          /\ \A i, j \in DOMAIN free : free[i] = free[j] => i = j
          /\ {free[i] : i \in DOMAIN free} = (1 .. Objects) \ {o}
      BY <1>2, <2>1 DEF PagesInv, FreeShape
    <3>2. DOMAIN free = 1 .. Objects - 1
      BY <3>1, LenProperties
    <3> QED BY <3>1, <3>2
  <2>4. PICK more : more = free \o <<o>>
    OBVIOUS
  <2>5. /\ more \in Seq(1 .. Objects) /\ Len(more) = Objects /\ DOMAIN more = 1 .. Objects
        /\ more[Objects] = o /\ \A i \in 1 .. Objects - 1 : more[i] = free[i]
    <3>1. <<o>> \in Seq(1 .. Objects) /\ Len(<<o>>) = 1 /\ <<o>>[1] = o
      OBVIOUS
    <3>2. /\ more \in Seq(1 .. Objects) /\ Len(more) = Objects
          /\ \A i \in 1 .. Objects : more[i] = IF i <= Objects - 1 THEN free[i] ELSE <<o>>[i - (Objects - 1)]
      <4>1. /\ free \o <<o>> \in Seq(1 .. Objects) /\ Len(free \o <<o>>) = Len(free) + 1
            /\ \A i \in 1 .. Len(free) + 1 :
                  (free \o <<o>>)[i] = IF i <= Len(free) THEN free[i] ELSE <<o>>[i - Len(free)]
        BY <2>3, <3>1, ConcatProperties
      <4>2. Len(free) + 1 = Objects
        BY <1>1, <2>3
      <4> QED BY <2>3, <2>4, <4>1, <4>2
    <3>3. DOMAIN more = 1 .. Objects
      BY <3>2, LenProperties
    <3>4. more[Objects] = o
      <4>1. Objects \in 1 .. Objects /\ ~(Objects <= Objects - 1) /\ Objects - (Objects - 1) = 1
        BY <1>1
      <4> QED BY <3>1, <3>2, <4>1
    <3>5. \A i \in 1 .. Objects - 1 : i \in 1 .. Objects /\ i <= Objects - 1
      BY <1>1
    <3> QED BY <3>2, <3>3, <3>4, <3>5
  <2>6. FreeShape'
    <3>1. \A i, j \in DOMAIN more : more[i] = more[j] => i = j
      <4> SUFFICES ASSUME NEW i \in 1 .. Objects, NEW j \in 1 .. Objects, more[i] = more[j]
                   PROVE  i = j
        BY <2>5
      <4>1. \A x \in 1 .. Objects : x = Objects \/ (x \in 1 .. Objects - 1 /\ more[x] # o)
        <5> SUFFICES ASSUME NEW x \in 1 .. Objects, x # Objects
                     PROVE  x \in 1 .. Objects - 1 /\ more[x] # o
          OBVIOUS
        <5>1. x \in 1 .. Objects - 1
          BY <1>1
        <5>2. free[x] \in (1 .. Objects) \ {o}
          BY <2>3, <5>1
        <5> QED BY <2>5, <5>1, <5>2
      <4> QED BY <2>3, <2>5, <4>1
    <3>2. {more[i] : i \in DOMAIN more} = 1 .. Objects
      <4>1. ASSUME NEW x \in 1 .. Objects
            PROVE  \E i \in 1 .. Objects : more[i] = x
        <5>1. CASE x = o
          BY <1>1, <2>5, <5>1
        <5>2. CASE x # o
          <6>1. PICK i \in 1 .. Objects - 1 : free[i] = x
            BY <2>3, <5>2
          <6> QED BY <1>1, <2>5, <6>1
        <5> QED BY <5>1, <5>2
      <4>2. \A i \in 1 .. Objects : more[i] \in 1 .. Objects
        BY <2>5, ElementOfSeq
      <4> QED BY <2>5, <4>1, <4>2
    <3>3. free' = more /\ allocated' = {}
      BY <2>2, <2>4
    <3> QED BY <2>5, <3>1, <3>2, <3>3 DEF FreeShape
  <2>7. AreasFar'
    <3> SUFFICES ASSUME NEW tls \in Areas, tls # NoArea
                 PROVE  AreaFar(tls)'
      BY DEF AreasFar
    <3>1. /\ tls.object \in 1 .. Objects /\ tls.serial \in 1 .. made
          /\ tls.object = o => tls.serial = made \/ tls.serial + Objects <= made
          /\ \A k \in 1 .. Objects - 1 : free[k] = tls.object => tls.serial + Objects <= made + k
      BY <1>2, <2>1, <2>3 DEF PagesInv, AreasFar, AreaFar
    <3>2. ASSUME NEW k \in 1 .. Objects, more[k] = tls.object
          PROVE  tls.serial + Objects <= made + k
      <4>1. CASE k = Objects
        BY <1>1, <2>5, <3>1, <3>2, <4>1
      <4>2. CASE k # Objects
        <5>1. k \in 1 .. Objects - 1
          BY <1>1, <4>2
        <5> QED BY <2>5, <3>1, <3>2, <5>1
      <4> QED BY <4>1, <4>2
    <3>3. free' = more /\ allocated' = {} /\ made' = made /\ DOMAIN more = 1 .. Objects
      BY <1>2, <2>2, <2>4, <2>5
    <3> QED BY <3>1, <3>2, <3>3 DEF AreaFar
  <2>8. PageShape'
    BY <1>2, <2>2 DEF PageShape, NoPage
  <2> QED BY <1>1, <1>2, <1>3, <2>6, <2>7, <2>8 DEF PagesInv
<1> QED BY <1>4, <1>5 DEF PagesInv, PageShape
-----------------------------------------------------------------------------
(* The process's steps and the theorems. *)

\* No page, and no area, at the beginning.
LEMMA PagesStart ==
    ASSUME ProcessInit
    PROVE  PagesInv
<1>1. Objects \in Nat \ {0}
  BY TlsAssumption DEF TlsAssumption
<1>2. /\ free = [k \in 1 .. Objects |-> k] /\ allocated = {} /\ partial = <<>> /\ full = <<>>
      /\ area = NoArea /\ loads = 0 /\ made = 0 /\ heap = "ok" /\ waiting = <<>> /\ core = "ok"
  BY DEF ProcessInit, TlsInit
<1>3. FreeShape
  BY <1>1, <1>2 DEF FreeShape
<1>4. Areas = {NoArea}
  BY <1>2 DEF Areas
<1> QED BY <1>2, <1>3, <1>4 DEF PagesInv, PageShape, NoPage, AreasFar, EndsAtBounds

\* What leaves the pages alone, and gives no thread another area than those there are.
LEMMA PagesStay ==
    ASSUME PagesInv, UNCHANGED tlsVars, \A tls \in Areas' : tls \in Areas, EndsAtBounds'
    PROVE  PagesInv'
<1>1. PageShape' /\ FreeShape' /\ made' \in Nat
  BY DEF PagesInv, PageShape, NoPage, OnePage, PageOf, FreeShape, tlsVars
<1>2. AreasFar'
  BY DEF PagesInv, AreasFar, AreaFar, tlsVars
<1> QED BY <1>1, <1>2 DEF PagesInv

\* Each step of a process keeps its pages, given the places of its table.
LEMMA PagesStep ==
    ASSUME PlacesInv, PagesInv, [ProcessNext]_processVars
    PROVE  PagesInv'
<1>1. CASE Load
  BY <1>1, PartialStep, PagesEnd, SlabStep DEF Load, AllocateTlsHeapRegion
<1>2. CASE CreateThread
  <2>1. PICK c : c = counter
    OBVIOUS
  <2>2. waiting' = [h \in DOMAIN waiting \cup {c} |-> IF h = c THEN area ELSE waiting[h]]
    BY <1>2, <2>1 DEF CreateThread
  <2>3. \A tls \in Areas' : tls \in Areas
    BY <1>2, <2>2 DEF CreateThread, Areas, tlsVars
  <2>4. EndsAtBounds'
    BY <1>2 DEF PagesInv, EndsAtBounds, CreateThread, Alive, tlsVars
  <2> QED BY <1>2, <2>3, <2>4, PagesStay DEF CreateThread
<1>3. CASE CreateThreadFails
  <2>1. counter' >= Size \/ wrapped'
    BY <1>3, CreateFailsLate DEF CreateThreadFails
  <2>2. EndsAtBounds'
    BY <1>3, <2>1 DEF EndsAtBounds, CreateThreadFails, Alive, tlsVars
  <2>3. \A tls \in Areas' : tls \in Areas
    BY <1>3 DEF CreateThreadFails, Areas, tlsVars
  <2> QED BY <1>3, <2>2, <2>3, PagesStay DEF CreateThreadFails
<1>4. CASE DestroyProcess
  <2>1. Areas' = Areas
    BY <1>4 DEF DestroyProcess, DestroyPages, Areas
  <2> QED BY <1>4, <2>1, DestroyPagesStep DEF DestroyProcess, Alive
<1>5. CASE UseTable
  <2>1. EndsAtBounds'
    BY <1>5 DEF EndsAtBounds, UseTable, Alive, tlsVars, threadVars
  <2>2. \A tls \in Areas' : tls \in Areas
    BY <1>5 DEF UseTable, Areas, tlsVars, threadVars
  <2> QED BY <1>5, <2>1, <2>2, PagesStay DEF UseTable
<1>6. ASSUME NEW h \in DOMAIN waiting, Run(h)
      PROVE  PagesInv'
  <2>1. UNCHANGED tlsVars /\ heap = "ok" /\ core = "ok"
    BY <1>6 DEF Run, Alive
  <2>2. CASE waiting[h].object = 0
    <3>1. waiting' = waiting /\ core' = "null area"
      BY <1>6, <2>2 DEF Run
    <3>2. waiting[h] = NoArea
      <4>1. waiting[h] \in Areas
        BY DEF Areas
      <4> QED BY <2>2, <4>1 DEF PagesInv, AreasFar, AreaFar
    <3>3. EndsAtBounds'
      BY <2>1, <3>1, <3>2 DEF EndsAtBounds, tlsVars
    <3>4. \A tls \in Areas' : tls \in Areas
      BY <2>1, <3>1 DEF Areas, tlsVars
    <3> QED BY <2>1, <3>3, <3>4, PagesStay
  <2>3. CASE waiting[h].object # 0
    <3>1. waiting' = [x \in DOMAIN waiting \ {h} |-> waiting[x]] /\ core' = core
      BY <1>6, <2>3 DEF Run, Restrict
    <3>2. EndsAtBounds'
      BY <2>1, <3>1 DEF EndsAtBounds, tlsVars
    <3>3. \A tls \in Areas' : tls \in Areas
      BY <2>1, <3>1 DEF Areas, tlsVars
    <3> QED BY <2>1, <3>2, <3>3, PagesStay
  <2> QED BY <2>2, <2>3
<1>7. CASE UNCHANGED processVars
  <2>1. \A tls \in Areas' : tls \in Areas
    BY <1>7 DEF processVars, threadVars, tlsVars, Areas
  <2>2. EndsAtBounds'
    BY <1>7 DEF processVars, threadVars, tlsVars, table, PagesInv, EndsAtBounds
  <2> QED BY <1>7, <2>1, <2>2, PagesStay DEF processVars
<1> QED BY <1>1, <1>2, <1>3, <1>4, <1>5, <1>6, <1>7 DEF ProcessNext

\* The places of the table and the pages of the process hold together.
THEOREM PagesInductive == ProcessSpec => [](PlacesInv /\ PagesInv)
<1>1. ProcessInit => PlacesInv /\ PagesInv
  BY PlacesStart, PagesStart DEF ProcessInit
<1>2. PlacesInv /\ PagesInv /\ [ProcessNext]_processVars => PlacesInv' /\ PagesInv'
  BY ProcessStep, PlacesStep, PagesStep DEF PlacesInv
<1> QED BY <1>1, <1>2, PTL DEF ProcessSpec

\* Each object of the slab is free once or is the one page's, and after a load the
\* process's area is a taken slot of that page (KSlabHeap::Allocate, Free).
THEOREM SlotsOwnedAlways == ProcessSpec => []SlotsOwned
<1>1. PagesInv => SlotsOwned
  <2> SUFFICES ASSUME PagesInv, heap = "ok"
               PROVE  SlotsOwned
    BY DEF SlotsOwned
  <2>1. ToSet(free) = (1 .. Objects) \ allocated
    BY DEF PagesInv, FreeShape, ToSet
  <2>2. Objects \in Nat \ {0} /\ Slots \in Nat
    BY TlsAssumption DEF TlsAssumption
  <2>3. CASE NoPage
    <3>1. Pages = <<>> /\ Held = {} /\ allocated = {} /\ loads = 0
      BY <2>3, PagesOfNone DEF NoPage
    <3>2. Cardinality({}) = 0 /\ {k \in DOMAIN Pages : Pages[k].object # 0} = {}
      BY <3>1, FS_EmptySet
    <3>3. Len(free) = Objects
      BY <3>1 DEF PagesInv, FreeShape
    <3> QED BY <2>1, <2>2, <3>1, <3>2, <3>3 DEF SlotsOwned
  <2>4. ASSUME NEW o \in 1 .. Objects, OnePage(o)
        PROVE  SlotsOwned
    <3>1. Pages = <<PageOf(o)>> /\ Held = {o} /\ allocated = {o}
      BY <2>4, PagesOfOne DEF OnePage
    <3>2. PICK p : p = PageOf(o)
      OBVIOUS
    <3>3. DOMAIN Pages = {1} /\ Pages[1] = p /\ p.object = o /\ p.serial = made
          /\ p.open = loads + 1 .. Slots
      BY <3>1, <3>2 DEF PageOf
    <3>4. {k \in DOMAIN Pages : Pages[k].object # 0} = {1}
      BY <3>3
    <3>5. Cardinality({1}) = 1 /\ Cardinality({o}) = 1
      BY FS_Singleton
    <3>6. Len(free) = Objects - 1
      BY <3>1 DEF PagesInv, FreeShape
    <3>7. /\ p \in ToSet(Pages) /\ p.serial = area.serial /\ p.object = area.object
          /\ area.slot \notin p.open
      BY <2>4, <3>3, <2>2 DEF ToSet, OnePage
    <3>8. Len(free) + Cardinality(allocated) = Objects
      BY <2>2, <3>1, <3>5, <3>6
    <3>9. Cardinality({k \in DOMAIN Pages : Pages[k].object # 0}) = Cardinality(allocated)
      BY <3>1, <3>4, <3>5
    <3>10. \E page \in ToSet(Pages) : /\ page.serial = area.serial /\ page.object = area.object
                                     /\ area.slot \notin page.open
      BY <3>7
    <3>11. Held = allocated
      BY <3>1
    <3> QED BY <2>1, <3>8, <3>9, <3>10, <3>11 DEF SlotsOwned
  <2> QED BY <2>3, <2>4 DEF PagesInv, PageShape
<1> QED BY <1>1, PagesInductive, PTL

\* An area that outlived its page is met again only after all other objects of the
\* slab were made a page of (kprocess.cpp:18, kthread.cpp:19).
THEOREM StaleAreaIsFarAlways == ProcessSpec => []StaleAreaIsFar
<1>1. PagesInv => StaleAreaIsFar
  <2> SUFFICES ASSUME PagesInv, NEW tls \in Areas, NEW page \in ToSet(Pages),
                      page.object = tls.object, page.object # 0, page.serial # tls.serial
               PROVE  page.serial >= tls.serial + Objects
    BY DEF StaleAreaIsFar, Areas
  <2>1. PICK o \in 1 .. Objects : OnePage(o)
    BY PagesOfNone DEF PagesInv, PageShape, ToSet
  <2>2. page = PageOf(o) /\ allocated = {o}
    BY <2>1, PagesOfOne DEF ToSet, OnePage
  <2>3. page.object = o /\ page.serial = made
    BY <2>2 DEF PageOf
  <2>4. tls # NoArea
    <3>1. NoArea.object = 0
      BY DEF NoArea
    <3> QED BY <3>1
  <2>5. tls.serial = made \/ tls.serial + Objects <= made
    BY <2>2, <2>3, <2>4 DEF PagesInv, AreasFar, AreaFar
  <2> QED BY <2>3, <2>4, <2>5, TlsAssumption DEF PagesInv, AreasFar, AreaFar, TlsAssumption
<1> QED BY <1>1, PagesInductive, PTL

\* A process ends by itself only at the bounds of its page and of its table, or when
\* nothing was loaded before a thread (kprocess.cpp:61, kernel_task.cpp:51).
THEOREM EndsAtBoundsAlways == ProcessSpec => []EndsAtBounds
<1>1. PagesInv => EndsAtBounds
  BY DEF PagesInv
<1> QED BY <1>1, PagesInductive, PTL
=============================================================================
