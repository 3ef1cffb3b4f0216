-------------------------- MODULE ExtractionProofs --------------------------
(***************************************************************************)
(* Proofs about Extraction, for all titles, disks and numbers of starts:   *)
(* its types, and that a complete copy is never damaged.                   *)
(***************************************************************************)
EXTENDS Extraction, SequenceTheorems, FiniteSetTheorems, TLAPS

\* What the types leave open.
Shape ==
    /\ output \in [Place -> [there : BOOLEAN, bytes : Seq(Nat)]]
    /\ cursors \in [read : Nat, write : Nat]
    /\ \A p \in DOMAIN Files : order[p] \in Seq(Files[p])
    /\ file \in Nat

\* While a file is copied, its copy is shorter than what was read, and the cursor of
\* the copy is inside of it or, after errors, before the file's begin: it has wrapped.
CopyIsBehind ==
    pc = "copy" =>
        /\ InPart /\ file <= Len(Listed)
        /\ output[Here].there
        /\ cursors.read <= Size[Current]
        /\ Len(output[Here].bytes) <= cursors.read
        /\ \/ cursors.write <= Len(output[Here].bytes)
           \/ cursors.write < Wide /\ Wide <= cursors.read + cursors.write

\* The inductive invariant: a copy that is written to is not complete yet, and the
\* bytes it gets stay inside the file.
IInv == TypeOK /\ Shape /\ CopyIsBehind
-----------------------------------------------------------------------------
(* Lemmas about the operators. *)

\* pwrite64 at an offset inside the file or at its end leaves no hole.
LEMMA OverwriteType ==
    ASSUME NEW S, NEW old \in Seq(S), NEW bytes \in Seq(S), NEW at \in 0 .. Len(old)
    PROVE  /\ Overwrite(old, bytes, at) \in Seq(S)
           /\ Len(Overwrite(old, bytes, at)) =
                IF at + Len(bytes) <= Len(old) THEN Len(old) ELSE at + Len(bytes)
<1>1. Len(old) \in Nat /\ Len(bytes) \in Nat
  BY LenProperties
<1>2. \A i \in 1 .. Len(old) : old[i] \in S
  BY ElementOfSeq
<1> DEFINE before == SubSeq(old, 1, at)
           after  == SubSeq(old, at + Len(bytes) + 1, Len(old))
<1>0. Overwrite(old, bytes, at) = (before \o bytes) \o after
  BY DEF Overwrite
<1>3. before \in Seq(S) /\ Len(before) = at
  BY <1>1, <1>2, SubSeqProperties
<1>4. /\ after \in Seq(S)
      /\ Len(after) = IF at + Len(bytes) + 1 <= Len(old)
                        THEN Len(old) - (at + Len(bytes) + 1) + 1 ELSE 0
  BY <1>1, <1>2, SubSeqProperties
<1> HIDE DEF before, after
<1>5. before \o bytes \in Seq(S) /\ Len(before \o bytes) = at + Len(bytes)
  BY <1>3, ConcatProperties
<1>6. /\ (before \o bytes) \o after \in Seq(S)
      /\ Len((before \o bytes) \o after) = at + Len(bytes) + Len(after)
  BY <1>4, <1>5, ConcatProperties
<1>7. CASE at + Len(bytes) <= Len(old)
  <2>1. Len(after) = Len(old) - (at + Len(bytes))
    BY <1>1, <1>4, <1>7
  <2> QED BY <1>0, <1>1, <1>6, <1>7, <2>1
<1>8. CASE ~(at + Len(bytes) <= Len(old))
  <2>1. Len(after) = 0
    BY <1>1, <1>4, <1>8
  <2> QED BY <1>0, <1>1, <1>6, <1>8, <2>1
<1> QED BY <1>7, <1>8

\* A file has as many bytes as its size says.
LEMMA SourceType ==
    ASSUME NEW f \in Name
    PROVE  /\ Source(f) \in Seq(1 .. Size[f]) /\ Len(Source(f)) = Size[f]
           /\ \A i \in 1 .. Size[f] : Source(f)[i] = i
<1>1. Size[f] \in Nat
  BY ExtractionAssumption
<1>2. Source(f) \in [1 .. Size[f] -> 1 .. Size[f]] /\ \A i \in 1 .. Size[f] : Source(f)[i] = i
  BY DEF Source
<1> QED BY <1>1, <1>2

\* A piece of a file has the bytes it was cut to.
LEMMA PieceType ==
    ASSUME NEW f \in Name, NEW m \in Nat, NEW n \in Nat, m + n <= Size[f]
    PROVE  /\ SubSeq(Source(f), m + 1, m + n) \in Seq(1 .. Size[f])
           /\ Len(SubSeq(Source(f), m + 1, m + n)) = n
<1>1. Size[f] \in Nat
  BY ExtractionAssumption
<1>2. \A i \in m + 1 .. m + n : Source(f)[i] \in 1 .. Size[f]
  BY <1>1, SourceType
<1> QED BY <1>2, SubSeqProperties

\* A place is a file of a file system.
LEMMA PlaceHasName == ASSUME NEW place \in Place PROVE place[2] \in Name
BY DEF Place, Name

\* Where the loop is, is a place.
LEMMA HereIsPlace ==
    ASSUME TypeOK, Shape, InPart, file <= Len(Listed)
    PROVE  /\ Parts[part] \in DOMAIN Files /\ Listed \in Seq(Files[Parts[part]])
           /\ Current \in Files[Parts[part]] /\ Current \in Name
           /\ Here \in Place /\ Here[1] = Parts[part] /\ Here[2] = Current
<1>1. part \in 1 .. Len(Parts)
  BY ExtractionAssumption DEF TypeOK, InPart
<1>2. Parts[part] \in DOMAIN Files
  BY <1>1, ExtractionAssumption, ElementOfSeq
<1>3. Listed \in Seq(Files[Parts[part]])
  BY <1>2 DEF Shape, Listed
<1>4. file \in 1 .. Len(Listed)
  BY <1>3 DEF TypeOK, Shape
<1>5. Current \in Files[Parts[part]]
  BY <1>3, <1>4, ElementOfSeq DEF Current
<1> QED BY <1>2, <1>3, <1>5 DEF Here, Place, Name
-----------------------------------------------------------------------------
LEMMA InvInit == Init => IInv
<1> SUFFICES ASSUME Init PROVE IInv
  OBVIOUS
<1>1. \A p \in DOMAIN Files : order[p] \in Seq(Files[p])
  <2> SUFFICES ASSUME NEW p \in DOMAIN Files PROVE order[p] \in Seq(Files[p])
    OBVIOUS
  <2>1. Cardinality(Files[p]) \in Nat
    BY ExtractionAssumption, FS_CardinalityType
  <2>2. order[p] \in [1 .. Cardinality(Files[p]) -> Files[p]]
    BY DEF Init, SetToSeqs
  <2> QED BY <2>1, <2>2
<1>2. Len(Parts) \in Nat
  BY ExtractionAssumption, LenProperties
<1>3. InPart => Len(Listed) \in Nat
  <2> SUFFICES ASSUME InPart PROVE Len(Listed) \in Nat
    OBVIOUS
  <2>1. part \in 1 .. Len(Parts)
    BY <1>2 DEF Init, InPart
  <2>2. Parts[part] \in DOMAIN Files
    BY <2>1, ExtractionAssumption, ElementOfSeq
  <2> QED BY <1>1, <2>2, LenProperties DEF Listed
<1>4. \A place \in Place : Size[place[2]] \in Nat
  BY PlaceHasName, ExtractionAssumption
<1>5. TypeOK
  <2>1. \A place \in Place :
          /\ output[place].bytes \in Seq(1 .. Size[place[2]])
          /\ Len(output[place].bytes) <= Size[place[2]]
          /\ ~output[place].there => output[place].bytes = <<>>
    <3> TAKE place \in Place
    <3>1. output[place].bytes = <<>> /\ output[place].there = FALSE
      BY DEF Init
    <3>2. <<>> \in Seq(1 .. Size[place[2]]) /\ Len(<<>>) = 0
      BY EmptySeq
    <3> QED BY <1>4, <3>1, <3>2
  <2>2. /\ part \in 1 .. Len(Parts) + 1 /\ (InPart => file \in 1 .. Len(Listed) + 1)
    BY <1>2, <1>3 DEF Init
  <2>3. starts \in 1 .. MaxStarts /\ faults \in 0 .. MaxFaults
    BY ExtractionAssumption DEF Init
  <2> QED BY <2>1, <2>2, <2>3 DEF Init, TypeOK
<1>6. Shape
  BY <1>1, EmptySeq DEF Init, Shape
<1>7. CopyIsBehind
  BY DEF Init, CopyIsBehind
<1> QED BY <1>5, <1>6, <1>7 DEF IInv
-----------------------------------------------------------------------------
(* The two turns of the loop that change a copy or its cursors. *)

\* A block that is written ends inside the file and leaves no hole.
LEMMA BlockIsWritten ==
    ASSUME IInv, NEW written \in 0 .. BufferSize, CopyBlock(written)
    PROVE  \E bytes \in Seq(1 .. Size[Current]) :
              /\ output' = [output EXCEPT ![Here].bytes = bytes]
              /\ Len(bytes) <= cursors'.read /\ cursors'.read <= Size[Current]
              /\ cursors'.write <= Len(bytes)
              /\ cursors' \in [read : Nat, write : Nat]
<1> USE DEF IInv
<1>1. Current \in Name /\ Here \in Place /\ Here[2] = Current
  BY HereIsPlace DEF CopyIsBehind, CopyBlock
<1>2. Size[Current] \in Nat /\ 2 * Size[Current] < Wide /\ BufferSize \in Nat /\ Wide \in Nat
  BY <1>1, ExtractionAssumption
<1> DEFINE old == output[Here].bytes
           new == SubSeq(Source(Current), cursors.read + 1, cursors.read + written)
<1>3. old \in Seq(1 .. Size[Current]) /\ Len(old) \in Nat
  BY <1>1, LenProperties DEF TypeOK
<1>4. /\ cursors.read \in Nat /\ cursors.write \in Nat
      /\ cursors.read < Size[Current] /\ Len(old) <= cursors.read
      /\ cursors.write <= Size[Current] /\ written \in 0 .. Stride
      /\ \/ cursors.write <= Len(old)
         \/ cursors.write < Wide /\ Wide <= cursors.read + cursors.write
  BY <1>2 DEF Shape, CopyIsBehind, CopyBlock, Remain
<1>5. Stride \in Nat /\ cursors.read + Stride <= Size[Current]
  BY <1>2, <1>4 DEF Stride, Remain
<1> HIDE DEF old, IInv
<1>6. cursors.write \in 0 .. Len(old)
  BY <1>2, <1>3, <1>4
<1>7. new \in Seq(1 .. Size[Current]) /\ Len(new) = written
  <2>1. written \in Nat /\ cursors.read + written <= Size[Current]
    BY <1>2, <1>4, <1>5
  <2> QED BY <1>1, <1>4, <2>1, PieceType
<1> HIDE DEF new
<1>8. /\ Overwrite(old, new, cursors.write) \in Seq(1 .. Size[Current])
      /\ Len(Overwrite(old, new, cursors.write)) =
           IF cursors.write + written <= Len(old) THEN Len(old) ELSE cursors.write + written
  BY <1>3, <1>6, <1>7, OverwriteType
<1>9. /\ output' = [output EXCEPT ![Here].bytes = Overwrite(old, new, cursors.write)]
      /\ cursors' = [read |-> cursors.read + Stride, write |-> cursors.write + written]
  BY DEF CopyBlock, old, new
<1>10. cursors' \in [read : Nat, write : Nat]
  BY <1>4, <1>5, <1>9
<1>11. /\ Len(Overwrite(old, new, cursors.write)) <= cursors.read + Stride
       /\ cursors.write + written <= Len(Overwrite(old, new, cursors.write))
  BY <1>3, <1>4, <1>5, <1>6, <1>8
<1>12. /\ cursors'.read = cursors.read + Stride
       /\ cursors'.write = cursors.write + written
  BY <1>9
<1> QED BY <1>5, <1>8, <1>9, <1>10, <1>11, <1>12

\* A write that failed leaves the cursor in the copy, or before the file's begin.
LEMMA CursorAfterError ==
    ASSUME IInv, CopyFails
    PROVE  /\ cursors' \in [read : Nat, write : Nat]
           /\ cursors.read <= cursors'.read /\ cursors'.read <= Size[Current]
           /\ \/ cursors'.write <= Len(output[Here].bytes)
              \/ cursors'.write < Wide /\ Wide <= cursors'.read + cursors'.write
<1> USE DEF IInv
<1>1. Current \in Name /\ Here \in Place
  BY HereIsPlace DEF CopyIsBehind, CopyFails
<1>2. Size[Current] \in Nat /\ BufferSize \in Nat \ {0} /\ Wide \in Nat \ {0}
  BY <1>1, ExtractionAssumption
<1> DEFINE old == output[Here].bytes
<1>3. Len(old) \in Nat
  BY <1>1, LenProperties DEF Shape
<1>4. /\ cursors.read \in Nat /\ cursors.write \in Nat /\ cursors.read < Size[Current]
      /\ \/ cursors.write <= Len(old)
         \/ cursors.write < Wide /\ Wide <= cursors.read + cursors.write
  BY <1>2 DEF Shape, CopyIsBehind, CopyFails, Remain
<1>5. Stride \in Nat \ {0} /\ cursors.read + Stride <= Size[Current]
  BY <1>2, <1>4 DEF Stride, Remain
<1>6. cursors' = [read  |-> cursors.read + Stride,
                  write |-> IF cursors.write = 0 THEN Wide - 1 ELSE cursors.write - 1]
  BY DEF CopyFails
<1> HIDE DEF old, IInv
<1>7. CASE cursors.write = 0
  BY <1>2, <1>4, <1>5, <1>6, <1>7
<1>8. CASE cursors.write # 0
  <2>1. cursors'.write = cursors.write - 1 /\ cursors'.read = cursors.read + Stride
    BY <1>6, <1>8
  <2>2. \/ cursors.write - 1 <= Len(old)
        \/ cursors.write - 1 < Wide /\ Wide <= cursors.read + Stride + (cursors.write - 1)
    BY <1>2, <1>3, <1>4, <1>5, <1>8
  <2> QED BY <1>4, <1>5, <1>6, <1>8, <2>1, <2>2 DEF old
<1> QED BY <1>7, <1>8
-----------------------------------------------------------------------------
\* What a place holds after its bytes, or whether it is there, was changed.
LEMMA PlaceUpdates ==
    ASSUME Shape, NEW here \in Place, NEW bytes \in Seq(Nat)
    PROVE  /\ [output EXCEPT ![here].bytes = bytes]
                 \in [Place -> [there : BOOLEAN, bytes : Seq(Nat)]]
           /\ [output EXCEPT ![here].there = TRUE]
                 \in [Place -> [there : BOOLEAN, bytes : Seq(Nat)]]
           /\ [output EXCEPT ![here].bytes = bytes][here]
                 = [there |-> output[here].there, bytes |-> bytes]
           /\ [output EXCEPT ![here].there = TRUE][here]
                 = [there |-> TRUE, bytes |-> output[here].bytes]
           /\ \A place \in Place : place # here =>
                 /\ [output EXCEPT ![here].bytes = bytes][place] = output[place]
                 /\ [output EXCEPT ![here].there = TRUE][place] = output[place]
BY DEF Shape

\* The type of a place's content.
Fits(place, held) ==
    /\ held.bytes \in Seq(1 .. Size[place[2]]) /\ Len(held.bytes) <= Size[place[2]]
    /\ ~held.there => held.bytes = <<>>

\* No step puts bytes on the disk that do not fit there, or changes a copy that is
\* complete.
LEMMA DiskStep ==
    ASSUME IInv, [Next]_vars
    PROVE  /\ output' \in [Place -> [there : BOOLEAN, bytes : Seq(Nat)]]
           /\ \A place \in Place : Fits(place, output'[place])
           /\ \A place \in Place : Complete(place) => Complete(place)'
<1>1. TypeOK /\ Shape /\ CopyIsBehind
  BY DEF IInv
<1>2. \A place \in Place : Fits(place, output[place])
  BY <1>1 DEF TypeOK, Fits
<1>3. ASSUME output' = output
      PROVE  /\ output' \in [Place -> [there : BOOLEAN, bytes : Seq(Nat)]]
             /\ \A place \in Place : Fits(place, output'[place])
             /\ \A place \in Place : Complete(place) => Complete(place)'
  BY <1>1, <1>2, <1>3 DEF Shape, Complete
<1>4. CASE CreateFile
  <2>1. Here \in Place
    BY <1>1, <1>4, HereIsPlace DEF CreateFile
  <2>2. output' = [output EXCEPT ![Here].there = TRUE]
    BY <1>4 DEF CreateFile
  <2>3. <<>> \in Seq(Nat)
    BY EmptySeq
  <2>4. /\ output' \in [Place -> [there : BOOLEAN, bytes : Seq(Nat)]]
        /\ output'[Here] = [there |-> TRUE, bytes |-> output[Here].bytes]
        /\ \A place \in Place : place # Here => output'[place] = output[place]
    BY <1>1, <2>1, <2>2, <2>3, PlaceUpdates
  <2>5. \A place \in Place :
           /\ output'[place].bytes = output[place].bytes
           /\ output[place].there => output'[place].there
    <3> TAKE place \in Place
    <3>1. CASE place = Here
      BY <2>4, <3>1
    <3>2. CASE place # Here
      BY <2>4, <3>2
    <3> QED BY <3>1, <3>2
  <2>6. \A place \in Place : Fits(place, output'[place])
    BY <1>2, <2>4, <2>5 DEF Fits
  <2>7. \A place \in Place : Complete(place) => Complete(place)'
    BY <2>5 DEF Complete
  <2> QED BY <2>4, <2>6, <2>7
<1>5. ASSUME NEW written \in 0 .. BufferSize, CopyBlock(written)
      PROVE  /\ output' \in [Place -> [there : BOOLEAN, bytes : Seq(Nat)]]
             /\ \A place \in Place : Fits(place, output'[place])
             /\ \A place \in Place : Complete(place) => Complete(place)'
  <2>1. /\ pc = "copy" /\ Here \in Place /\ Here[2] = Current /\ Current \in Name
    BY <1>1, <1>5, HereIsPlace DEF CopyBlock, CopyIsBehind
  <2>2. PICK bytes \in Seq(1 .. Size[Current]) :
           /\ output' = [output EXCEPT ![Here].bytes = bytes]
           /\ Len(bytes) <= cursors'.read /\ cursors'.read <= Size[Current]
           /\ cursors' \in [read : Nat, write : Nat]
    BY <1>5, BlockIsWritten
  <2>3. Size[Current] \in Nat /\ Len(bytes) \in Nat /\ bytes \in Seq(Nat)
    BY <2>1, <2>2, ExtractionAssumption, LenProperties, SeqMonotonic
  <2>4. /\ output' \in [Place -> [there : BOOLEAN, bytes : Seq(Nat)]]
        /\ output'[Here] = [there |-> output[Here].there, bytes |-> bytes]
        /\ \A place \in Place : place # Here => output'[place] = output[place]
    BY <1>1, <2>1, <2>2, <2>3, PlaceUpdates
  <2>5. output[Here].there
    BY <1>1, <1>5 DEF CopyIsBehind, CopyBlock
  <2>6. Len(bytes) <= Size[Current]
    BY <2>2, <2>3
  <2>7. \A place \in Place : Fits(place, output'[place])
    <3> TAKE place \in Place
    <3>1. CASE place = Here
      <4>1. output'[place].bytes = bytes /\ output'[place].there = output[Here].there
        BY <2>4, <3>1
      <4> QED BY <2>1, <2>5, <2>6, <3>1, <4>1 DEF Fits
    <3>2. CASE place # Here
      BY <1>2, <2>4, <3>2
    <3> QED BY <3>1, <3>2
  <2>8. ~Complete(Here)
    <3>1. Len(output[Here].bytes) <= cursors.read /\ cursors.read < Size[Current]
      BY <1>1, <1>5, <2>1, <2>3 DEF CopyIsBehind, CopyBlock, Remain, Shape
    <3>2. Len(Source(Current)) = Size[Current]
      BY <2>1, SourceType
    <3>3. Len(output[Here].bytes) \in Nat /\ cursors.read \in Nat
      BY <1>1, <2>1, LenProperties DEF Shape
    <3> QED BY <2>1, <2>3, <3>1, <3>2, <3>3 DEF Complete
  <2>9. \A place \in Place : Complete(place) => Complete(place)'
    BY <2>4, <2>8 DEF Complete
  <2> QED BY <2>4, <2>7, <2>9
<1>6. CASE Start \/ LeavePart \/ CopyFails \/ EndFile \/ Return \/ Restart \/ UNCHANGED vars
  BY <1>3, <1>6 DEF Start, LeavePart, CopyFails, EndFile, Return, Restart, vars
<1> QED BY <1>4, <1>5, <1>6 DEF Next, Step
-----------------------------------------------------------------------------
\* Where the extraction is.
Loop ==
    /\ pc \in {"start", "next", "copy", "returned", "thrown"}
    /\ part \in 1 .. Len(Parts) + 1 /\ (InPart => file \in 1 .. Len(Listed) + 1)
    /\ starts \in 1 .. MaxStarts /\ faults \in 0 .. MaxFaults
    /\ file \in Nat /\ cursors \in [read : Nat, write : Nat]
    /\ \A p \in DOMAIN Files : order[p] \in Seq(Files[p])

\* Each part has a list of files, and the first place in it.
LEMMA PartHasFiles ==
    ASSUME Loop, NEW p \in 1 .. Len(Parts)
    PROVE  Len(order[Parts[p]]) \in Nat /\ 1 \in 1 .. Len(order[Parts[p]]) + 1
<1>1. Parts[p] \in DOMAIN Files
  BY ExtractionAssumption, ElementOfSeq
<1>2. Len(order[Parts[p]]) \in Nat
  BY <1>1, LenProperties DEF Loop
<1> QED BY <1>2

\* No step leaves the parts, their files, or the bounds.
LEMMA LoopStep == ASSUME IInv, [Next]_vars PROVE Loop'
<1>1. Loop /\ TypeOK /\ Shape /\ CopyIsBehind
  BY DEF IInv, TypeOK, Shape, Loop
<1>2. Len(Parts) \in Nat /\ MaxStarts \in Nat \ {0} /\ MaxFaults \in Nat
  BY ExtractionAssumption, LenProperties
<1>3. CASE Start \/ Return \/ CreateFile \/ UNCHANGED vars
  BY <1>1, <1>3 DEF Start, Return, CreateFile, vars, Loop, InPart, Listed
<1>4. CASE LeavePart
  <2>1. part \in 1 .. Len(Parts) /\ part' = part + 1 /\ file' = 1
    BY <1>1, <1>2, <1>4 DEF Loop, LeavePart, InPart
  <2>2. part' \in 1 .. Len(Parts) + 1
    BY <1>2, <2>1
  <2>3. InPart' => file' \in 1 .. Len(Listed') + 1
    <3>1. SUFFICES ASSUME InPart' PROVE 1 \in 1 .. Len(order[Parts[part']]) + 1
      BY <1>4, <2>1 DEF LeavePart, Listed
    <3>2. part' \in 1 .. Len(Parts)
      BY <1>2, <2>2, <3>1 DEF InPart
    <3> QED BY <1>1, <3>2, PartHasFiles
  <2> QED BY <1>1, <1>4, <2>1, <2>2, <2>3 DEF LeavePart, Loop
<1>5. ASSUME NEW written \in 0 .. BufferSize, CopyBlock(written) PROVE Loop'
  <2>1. cursors' \in [read : Nat, write : Nat]
    BY <1>5, BlockIsWritten
  <2>2. faults' \in 0 .. MaxFaults
    BY <1>1, <1>2, <1>5 DEF CopyBlock, Loop
  <2> QED BY <1>1, <1>5, <2>1, <2>2 DEF CopyBlock, Loop, InPart, Listed
<1>6. CASE CopyFails
  <2>1. cursors' \in [read : Nat, write : Nat]
    BY <1>6, CursorAfterError
  <2>2. faults' \in 0 .. MaxFaults
    BY <1>1, <1>2, <1>6 DEF CopyFails, Loop
  <2> QED BY <1>1, <1>6, <2>1, <2>2 DEF CopyFails, Loop, InPart, Listed
<1>7. CASE EndFile
  <2>1. InPart /\ file <= Len(Listed) /\ part \in 1 .. Len(Parts)
    BY <1>1, <1>2, <1>7 DEF EndFile, CopyIsBehind, Loop, InPart
  <2>2. Len(Listed) \in Nat
    BY <1>1, <2>1, PartHasFiles DEF Listed
  <2>3. file + 1 \in 1 .. Len(Listed) + 1 /\ file + 1 \in Nat
    BY <1>1, <2>1, <2>2 DEF Loop
  <2> QED BY <1>1, <1>7, <2>3 DEF EndFile, Loop, InPart, Listed
<1>8. CASE Restart
  <2>1. InPart' => file' \in 1 .. Len(Listed') + 1
    <3>1. SUFFICES ASSUME InPart' PROVE 1 \in 1 .. Len(order[Parts[1]]) + 1
      BY <1>8 DEF Restart, Listed
    <3>2. 1 \in 1 .. Len(Parts)
      BY <1>2, <1>8, <3>1 DEF Restart, InPart
    <3> QED BY <1>1, <3>2, PartHasFiles
  <2>2. starts' \in 1 .. MaxStarts /\ 1 \in 1 .. Len(Parts) + 1
    BY <1>1, <1>2, <1>8 DEF Restart, Loop
  <2> QED BY <1>1, <1>8, <2>1, <2>2 DEF Restart, Loop
<1> QED BY <1>3, <1>4, <1>5, <1>6, <1>7, <1>8 DEF Next, Step

\* A copy is begun with nothing and grows with what was read.
LEMMA BehindStep == ASSUME IInv, [Next]_vars PROVE CopyIsBehind'
<1>1. TypeOK /\ Shape /\ CopyIsBehind
  BY DEF IInv
<1>2. CASE Start \/ LeavePart \/ EndFile \/ Return \/ Restart
  BY <1>1, <1>2 DEF Start, LeavePart, EndFile, Return, Restart, CopyIsBehind
<1>3. CASE CreateFile
  <2>1. /\ Here \in Place /\ Here = <<Parts[part], Current>>
        /\ Current \in Files[Parts[part]] /\ Current \in Name
    BY <1>1, <1>3, HereIsPlace DEF CreateFile, Here
  <2>2. ~output[Here].there
    BY <1>3, <2>1 DEF CreateFile, Exists, There
  <2>3. output[Here].bytes = <<>>
    BY <1>1, <2>1, <2>2 DEF TypeOK
  <2>4. output'[Here] = [there |-> TRUE, bytes |-> <<>>]
    <3>1. output' = [output EXCEPT ![Here].there = TRUE]
      BY <1>3 DEF CreateFile
    <3>2. <<>> \in Seq(Nat)
      BY EmptySeq
    <3> QED BY <1>1, <2>1, <2>3, <3>1, <3>2, PlaceUpdates
  <2>5. Size[Current] \in Nat /\ Len(<<>>) = 0
    BY <2>1, ExtractionAssumption
  <2>6. UNCHANGED <<InPart, Listed, Current, Here>> /\ cursors' = [read |-> 0, write |-> 0]
    BY <1>3 DEF CreateFile, InPart, Listed, Current, Here
  <2> QED BY <1>3, <2>4, <2>5, <2>6 DEF CreateFile, CopyIsBehind
<1>4. ASSUME NEW written \in 0 .. BufferSize, CopyBlock(written) PROVE CopyIsBehind'
  <2>1. InPart /\ file <= Len(Listed) /\ output[Here].there /\ Here \in Place
    BY <1>1, <1>4, HereIsPlace DEF CopyBlock, CopyIsBehind
  <2>2. PICK bytes \in Seq(1 .. Size[Current]) :
           /\ output' = [output EXCEPT ![Here].bytes = bytes]
           /\ Len(bytes) <= cursors'.read /\ cursors'.read <= Size[Current]
           /\ cursors'.write <= Len(bytes)
    BY <1>4, BlockIsWritten
  <2>3. bytes \in Seq(Nat)
    <3>1. Size[Current] \in Nat
      BY <1>1, <1>4, HereIsPlace, ExtractionAssumption DEF CopyBlock, CopyIsBehind
    <3> QED BY <2>2, <3>1, SeqMonotonic
  <2>4. output'[Here] = [there |-> output[Here].there, bytes |-> bytes]
    BY <1>1, <2>1, <2>2, <2>3, PlaceUpdates
  <2>5. UNCHANGED <<pc, file, InPart, Listed, Current, Here>>
    BY <1>4 DEF CopyBlock, InPart, Listed, Current, Here
  <2> QED BY <2>1, <2>2, <2>4, <2>5 DEF CopyIsBehind
<1>5. CASE CopyFails
  <2>1. UNCHANGED <<pc, file, output, InPart, Listed, Current, Here>>
    BY <1>5 DEF CopyFails, InPart, Listed, Current, Here
  <2>2. InPart /\ file <= Len(Listed) /\ output[Here].there
    BY <1>1, <1>5 DEF CopyFails, CopyIsBehind
  <2>3. Len(output[Here].bytes) <= cursors.read /\ cursors.read <= cursors'.read
    BY <1>1, <1>5, CursorAfterError DEF CopyFails, CopyIsBehind
  <2>4. /\ Len(output[Here].bytes) \in Nat /\ cursors.read \in Nat
        /\ cursors' \in [read : Nat, write : Nat]
    BY <1>1, <1>5, <2>2, HereIsPlace, LenProperties, CursorAfterError DEF Shape
  <2>5. Len(output[Here].bytes) <= cursors'.read
    BY <2>3, <2>4
  <2> QED BY <1>5, <2>1, <2>2, <2>5, CursorAfterError DEF CopyIsBehind
<1>6. CASE UNCHANGED vars
  BY <1>1, <1>6 DEF vars, CopyIsBehind, InPart, Listed, Current, Here
<1> QED BY <1>2, <1>3, <1>4, <1>5, <1>6 DEF Next, Step

\* The three lemmas together.
LEMMA InvNext == IInv /\ [Next]_vars => IInv'
<1> SUFFICES ASSUME IInv, [Next]_vars PROVE IInv'
  OBVIOUS
<1>1. Loop' /\ CopyIsBehind'
  BY LoopStep, BehindStep
<1>2. /\ output' \in [Place -> [there : BOOLEAN, bytes : Seq(Nat)]]
      /\ \A place \in Place : Fits(place, output'[place])
  BY DiskStep
<1>3. TypeOK'
  BY <1>1, <1>2 DEF Loop, Fits, TypeOK
<1>4. Shape'
  BY <1>1, <1>2 DEF Loop, Shape
<1> QED BY <1>1, <1>3, <1>4 DEF IInv
-----------------------------------------------------------------------------
\* The invariant holds, for all titles, disks and numbers of starts.
THEOREM Inductive == Spec => []IInv
BY InvInit, InvNext, PTL DEF Spec

\* What is on the disk are bytes of the files, never more than a file has, and the
\* loop is inside of its bounds (fs_types.cpp:82-98).
THEOREM TypeCorrect == Spec => []TypeOK
<1>1. IInv => TypeOK
  BY DEF IInv
<1> QED BY <1>1, Inductive, PTL

\* A complete copy stays so, whatever is extracted, killed and started after it: a
\* file that is written to was not there before this start (fs_types.cpp:85-86).
THEOREM CompleteStaysAlways == Spec => CompleteStays
<1>1. IInv /\ [Next]_vars =>
        [\A place \in Place : Complete(place) => Complete(place)']_vars
  BY DiskStep
<1> QED BY <1>1, Inductive, PTL DEF Spec, CompleteStays
-----------------------------------------------------------------------------
(* What is on the disk while nothing has gone wrong. *)

Undisturbed == starts = 1 /\ faults = 0

\* No path of the part is a piece of the path of another.
PathsApart(p) == \A f, g \in Files[p] : f # g => <<f, g>> \notin Overlaps

\* The loop has left the part, is at it for the first time, or has not come to it.
PartIsOver(p) == \E i \in 1 .. part - 1 : Parts[i] = p
PartIsAt(p) == ~PartIsOver(p) /\ InPart /\ Parts[part] = p

\* A file that is there is complete, but for the one the loop copies; all files of
\* a part that is over are there, and none of a part the loop has not come to.
PartsAreWhole ==
    Undisturbed =>
        \A p \in DOMAIN Files : PathsApart(p) =>
            \A f \in Files[p] :
                /\ output[<<p, f>>].there =>
                      Complete(<<p, f>>) \/ (pc = "copy" /\ Here = <<p, f>>)
                /\ PartIsOver(p) => output[<<p, f>>].there
                /\ output[<<p, f>>].there => PartIsOver(p) \/ PartIsAt(p)

\* Of the part the loop is at, the files it has begun are there.
BegunIsThere ==
    Undisturbed =>
        \A p \in DOMAIN Files : PathsApart(p) /\ PartIsAt(p) =>
            \A j \in DOMAIN order[p] :
                output[<<p, order[p][j]>>].there <=> (j < file \/ (j = file /\ pc = "copy"))

\* A file system lists each of its files once; the index has what is on the disk.
ListsAreWhole == \A p \in DOMAIN Files : order[p] \in SetToSeqs(Files[p])
IndexIsWhole ==
    pc = "returned" => ~InPart /\ index = {place \in Place : output[place].there}

CopyInv == CopiedInOrder /\ PartsAreWhole /\ BegunIsThere /\ ListsAreWhole /\ IndexIsWhole
-----------------------------------------------------------------------------
(* Copies that no write has disturbed. *)

\* The first bytes of a file.
LEMMA FirstBytes ==
    ASSUME NEW f \in Name, NEW r \in Nat, r <= Size[f]
    PROVE  /\ SubSeq(Source(f), 1, r) \in Seq(1 .. Size[f]) /\ SubSeq(Source(f), 1, r) \in Seq(Nat)
           /\ Len(SubSeq(Source(f), 1, r)) = r
<1>1. Size[f] \in Nat
  BY ExtractionAssumption
<1>2. \A i \in 1 .. r : Source(f)[i] \in 1 .. Size[f]
  BY <1>1, SourceType
<1>3. SubSeq(Source(f), 1, r) \in Seq(1 .. Size[f])
  BY <1>2, SubSeqProperties
<1>4. Len(SubSeq(Source(f), 1, r)) = IF 1 <= r THEN r - 1 + 1 ELSE 0
  BY <1>2, SubSeqProperties
<1>5. 1 .. Size[f] \subseteq Nat
  OBVIOUS
<1>6. SubSeq(Source(f), 1, r) \in Seq(Nat)
  BY <1>3, <1>5, SeqMonotonic
<1> QED BY <1>3, <1>4, <1>6

\* A block that continues a copy of the first bytes.
LEMMA BlockContinues ==
    ASSUME NEW f \in Name, NEW r \in Nat, NEW n \in Nat, r + n <= Size[f]
    PROVE  Overwrite(SubSeq(Source(f), 1, r), SubSeq(Source(f), r + 1, r + n), r)
             = SubSeq(Source(f), 1, r + n)
<1> DEFINE old == SubSeq(Source(f), 1, r)
           new == SubSeq(Source(f), r + 1, r + n)
<1>1. Size[f] \in Nat /\ Source(f) \in Seq(1 .. Size[f]) /\ Len(Source(f)) = Size[f]
  BY SourceType, ExtractionAssumption
<1>2. r <= Size[f]
  BY <1>1
<1>3. old \in Seq(1 .. Size[f]) /\ Len(old) = r
  BY <1>2, FirstBytes
<1>4. new \in Seq(1 .. Size[f]) /\ Len(new) = n
  BY PieceType
<1>5. old \o new = SubSeq(Source(f), 1, r + n)
  <2>1. 1 \in 1 .. Len(Source(f)) + 1 /\ r \in 1 - 1 .. Len(Source(f)) /\ r + n \in r .. Len(Source(f))
    BY <1>1, <1>2
  <2>2. SubSeq(Source(f), 1, r) \o SubSeq(Source(f), r + 1, r + n) = SubSeq(Source(f), 1, r + n)
    BY <1>1, <2>1, ConcatAdjacentSubSeq
  <2> QED BY <2>2
<1> HIDE DEF old, new
<1>6. SubSeq(old, 1, r) = old
  BY <1>3, SubSeqFull
<1>7. SubSeq(old, r + Len(new) + 1, Len(old)) = <<>>
  BY <1>3, <1>4, SubSeqEmpty
<1>8. old \o new \in Seq(1 .. Size[f])
  BY <1>3, <1>4, ConcatProperties
<1>9. (old \o new) \o <<>> = old \o new
  BY <1>8, ConcatEmptySeq
<1>10. Overwrite(old, new, r) = old \o new
  BY <1>6, <1>7, <1>9 DEF Overwrite
<1> QED BY <1>5, <1>10 DEF old, new

\* The first bytes of a file, as many as it has, are the file.
LEMMA AllBytes ==
    ASSUME NEW f \in Name
    PROVE  SubSeq(Source(f), 1, Size[f]) = Source(f) /\ SubSeq(Source(f), 1, 0) = <<>>
<1>1. Source(f) \in Seq(1 .. Size[f]) /\ Len(Source(f)) = Size[f]
  BY SourceType
<1>2. SubSeq(Source(f), 1, Len(Source(f))) = Source(f)
  BY <1>1, SubSeqFull
<1> QED BY <1>1, <1>2, SubSeqEmpty

\* A turn of the loop that writes all it read continues the copy; with one that
\* does not, a write has failed.
LEMMA OrderStep == ASSUME IInv, CopiedInOrder, [Next]_vars PROVE CopiedInOrder'
<1>1. TypeOK /\ Shape /\ CopyIsBehind
  BY DEF IInv
<1>2. CASE Start \/ LeavePart \/ EndFile \/ Return \/ Restart
  BY <1>2 DEF Start, LeavePart, EndFile, Return, Restart, CopiedInOrder
<1>3. CASE CreateFile
  <2>1. /\ Here \in Place /\ Here[2] = Current /\ Current \in Name
        /\ Here = <<Parts[part], Current>> /\ Current \in Files[Parts[part]]
    BY <1>1, <1>3, HereIsPlace DEF CreateFile, Here
  <2>2. ~output[Here].there
    BY <1>3, <2>1 DEF CreateFile, Exists, There
  <2>3. output[Here].bytes = <<>>
    BY <1>1, <2>1, <2>2 DEF TypeOK
  <2>4. output'[Here] = [there |-> TRUE, bytes |-> <<>>]
    <3>1. output' = [output EXCEPT ![Here].there = TRUE]
      BY <1>3 DEF CreateFile
    <3>2. <<>> \in Seq(Nat)
      BY EmptySeq
    <3> QED BY <1>1, <2>1, <2>3, <3>1, <3>2, PlaceUpdates
  <2>5. UNCHANGED <<Listed, Current, Here>> /\ cursors' = [read |-> 0, write |-> 0]
    BY <1>3 DEF CreateFile, Listed, Current, Here
  <2>6. SubSeq(Source(Current), 1, 0) = <<>>
    BY <2>1, AllBytes
  <2>7. cursors'.read = 0 /\ cursors'.write = 0 /\ output'[Here'].bytes = SubSeq(Source(Current'), 1, 0)
    <3>1. output'[Here].bytes = <<>> /\ cursors'.read = 0 /\ cursors'.write = 0
      BY <2>4, <2>5
    <3>2. Here' = Here /\ Current' = Current
      BY <2>5
    <3> QED BY <2>6, <3>1, <3>2, Zenon
  <2> QED BY <2>7 DEF CopiedInOrder
<1>4. ASSUME NEW written \in 0 .. BufferSize, CopyBlock(written) PROVE CopiedInOrder'
  <2>1. SUFFICES ASSUME faults' = 0 PROVE CopiedInOrder'
    BY DEF CopiedInOrder
  <2>2. InPart /\ file <= Len(Listed) /\ Here \in Place /\ Current \in Name
    BY <1>1, <1>4, HereIsPlace DEF CopyBlock, CopyIsBehind
  <2>3. Size[Current] \in Nat /\ BufferSize \in Nat
    BY <2>2, ExtractionAssumption
  <2>4. cursors.read \in Nat /\ cursors.write \in Nat /\ cursors.read < Size[Current]
    BY <1>1, <1>4, <2>3 DEF CopyBlock, Shape, Remain
  <2>5. Stride \in Nat /\ cursors.read + Stride <= Size[Current]
    BY <2>3, <2>4 DEF Stride, Remain
  <2>6. faults = 0 /\ written = Stride
    <3>1. faults \in Nat /\ written \in Nat /\ written <= Stride
      BY <1>1, <1>4, <2>5, ExtractionAssumption DEF TypeOK, CopyBlock
    <3>2. faults' = IF written < Stride THEN faults + 1 ELSE faults
      BY <1>4 DEF CopyBlock
    <3> QED BY <2>1, <2>5, <3>1, <3>2
  <2>7. /\ cursors.write = cursors.read
        /\ output[Here].bytes = SubSeq(Source(Current), 1, cursors.read)
    BY <1>4, <2>6 DEF CopyBlock, CopiedInOrder
  <2> DEFINE bytes == SubSeq(Source(Current), 1, cursors.read + Stride)
  <2>8. output' = [output EXCEPT ![Here].bytes = bytes]
    <3>1. output' = [output EXCEPT ![Here].bytes =
             Overwrite(output[Here].bytes,
                       SubSeq(Source(Current), cursors.read + 1, cursors.read + written),
                       cursors.write)]
      BY <1>4, <1>1 DEF CopyBlock, Shape
    <3>2. Overwrite(SubSeq(Source(Current), 1, cursors.read),
                    SubSeq(Source(Current), cursors.read + 1, cursors.read + Stride),
                    cursors.read) = bytes
      BY <2>2, <2>4, <2>5, BlockContinues
    <3> QED BY <2>6, <2>7, <3>1, <3>2
  <2>9. bytes \in Seq(Nat)
    <3>1. cursors.read + Stride \in Nat
      BY <2>4, <2>5
    <3> QED BY <2>2, <2>5, <3>1, FirstBytes
  <2> HIDE DEF bytes
  <2>10. output'[Here].bytes = bytes
    <3>1. output'[Here] = [there |-> output[Here].there, bytes |-> bytes]
      BY <1>1, <2>2, <2>8, <2>9, PlaceUpdates
    <3> QED BY <3>1
  <2>11. UNCHANGED <<Listed, Current, Here>>
    BY <1>4 DEF CopyBlock, Listed, Current, Here
  <2>12. cursors' = [read |-> cursors.read + Stride, write |-> cursors.read + Stride]
    BY <1>4, <2>6, <2>7 DEF CopyBlock
  <2> QED BY <2>10, <2>11, <2>12 DEF CopiedInOrder, bytes
<1>5. CASE CopyFails
  <2>1. SUFFICES ASSUME faults' = 0 PROVE CopiedInOrder'
    BY DEF CopiedInOrder
  <2>2. InPart /\ file <= Len(Listed) /\ Current \in Name /\ Size[Current] \in Nat
    BY <1>1, <1>5, HereIsPlace, ExtractionAssumption DEF CopyFails, CopyIsBehind
  <2>3. faults = 0 /\ cursors.write > Size[Current]
    BY <1>1, <1>5, <2>1, ExtractionAssumption DEF CopyFails, TypeOK
  <2>4. cursors.write = cursors.read /\ cursors.read <= Size[Current] /\ cursors.read \in Nat
    BY <1>1, <1>5, <2>3 DEF CopyFails, CopiedInOrder, CopyIsBehind, Shape
  <2> QED BY <2>2, <2>3, <2>4
<1>6. CASE UNCHANGED vars
  BY <1>6 DEF vars, CopiedInOrder, Listed, Current, Here
<1> QED BY <1>2, <1>3, <1>4, <1>5, <1>6 DEF Next, Step
-----------------------------------------------------------------------------
(* What no step changes of the lists, and what it leaves of the disk. *)

\* A list that has each file once has every file.
LEMMA EachIsListed ==
    ASSUME NEW p \in DOMAIN Files, NEW listed \in SetToSeqs(Files[p])
    PROVE  /\ listed \in Seq(Files[p]) /\ DOMAIN listed = 1 .. Len(listed)
           /\ \A i, j \in DOMAIN listed : listed[i] = listed[j] => i = j
           /\ \A f \in Files[p] : \E i \in DOMAIN listed : listed[i] = f
<1> DEFINE n == Cardinality(Files[p])
<1>1. IsFiniteSet(Files[p]) /\ n \in Nat
  BY ExtractionAssumption, FS_CardinalityType
<1>2. listed \in [1 .. n -> Files[p]] /\ \A i, j \in 1 .. n : i # j => listed[i] # listed[j]
  BY DEF SetToSeqs
<1>3. listed \in Seq(Files[p]) /\ Len(listed) = n
  BY <1>1, <1>2
<1>4. listed \in Injection(1 .. n, Files[p])
  BY <1>2 DEF Injection, IsInjective
<1>5. Cardinality(1 .. n) = n
  <2>1. 1 \in Int /\ n \in Int
    BY <1>1
  <2>2. Cardinality(1 .. n) = IF 1 > n THEN 0 ELSE n - 1 + 1
    BY <2>1, FS_Interval
  <2> QED BY <1>1, <2>2
<1>6. listed \in Surjection(1 .. n, Files[p])
  BY <1>1, <1>4, <1>5, FS_Injection
<1>7. \A f \in Files[p] : \E i \in 1 .. n : listed[i] = f
  BY <1>6 DEF Surjection
<1> QED BY <1>2, <1>3, <1>7

\* The file systems do not change; the index is made when the loop is done.
LEMMA ListsStep ==
    ASSUME IInv, ListsAreWhole, IndexIsWhole, [Next]_vars
    PROVE  ListsAreWhole' /\ IndexIsWhole'
<1>1. CASE Start \/ LeavePart \/ CreateFile \/ CopyFails \/ EndFile \/ Restart
  BY <1>1 DEF Start, LeavePart, CreateFile, CopyFails, EndFile, Restart, ListsAreWhole, IndexIsWhole
<1>2. ASSUME NEW written \in 0 .. BufferSize, CopyBlock(written)
      PROVE  ListsAreWhole' /\ IndexIsWhole'
  BY <1>2 DEF CopyBlock, ListsAreWhole, IndexIsWhole
<1>3. CASE Return
  BY <1>3 DEF Return, ListsAreWhole, IndexIsWhole, InPart
<1>4. CASE UNCHANGED vars
  BY <1>4 DEF vars, ListsAreWhole, IndexIsWhole, InPart
<1> QED BY <1>1, <1>2, <1>3, <1>4 DEF Next, Step

\* The part that is left was there as a whole, or has just been copied.
LEMMA LeftPartIsWhole ==
    ASSUME IInv, PartsAreWhole, BegunIsThere, ListsAreWhole, LeavePart, Undisturbed,
           PathsApart(Parts[part])
    PROVE  Parts[part] \in DOMAIN Files /\ \A f \in Files[Parts[part]] : output[<<Parts[part], f>>].there
<1> DEFINE p == Parts[part]
<1>1. TypeOK /\ Shape
  BY DEF IInv
<1>2. p \in DOMAIN Files
  <2>1. part \in 1 .. Len(Parts)
    BY <1>1, ExtractionAssumption DEF TypeOK, LeavePart, InPart
  <2> QED BY <2>1, ExtractionAssumption, ElementOfSeq
<1>3. Listed = order[p] /\ order[p] \in SetToSeqs(Files[p])
  BY <1>2 DEF Listed, ListsAreWhole
<1> HIDE DEF p
<1>4. CASE PartIsOver(p)
  BY <1>2, <1>4 DEF PartsAreWhole, p
<1>5. CASE ~PartIsOver(p)
  <2>1. PartIsAt(p)
    BY <1>5 DEF PartIsAt, LeavePart, p
  <2>2. \A j \in DOMAIN order[p] : output[<<p, order[p][j]>>].there <=> j < file
    BY <1>2, <2>1 DEF BegunIsThere, LeavePart, p
  <2>3. ~(file <= Len(Listed))
    <3>1. SUFFICES ASSUME file <= Len(Listed) PROVE FALSE
      OBVIOUS
    <3>2. /\ Current \in Files[p] /\ Current = order[p][file] /\ file \in DOMAIN order[p]
      <4>1. Current \in Files[Parts[part]]
        BY <1>1, <3>1, HereIsPlace DEF LeavePart
      <4>2. file \in 1 .. Len(order[p])
        BY <1>1, <1>3, <3>1 DEF TypeOK, LeavePart
      <4> QED BY <1>2, <1>3, <4>1, <4>2, EachIsListed DEF Current, p
    <3>3. PICK g \in There(p) : Current = g \/ <<Current, g>> \in Overlaps
      BY <3>1 DEF LeavePart, Exists, p
    <3>4. g \in Files[p] /\ output[<<p, g>>].there
      BY <3>3 DEF There
    <3>5. Current = g
      BY <3>2, <3>3, <3>4 DEF PathsApart, p
    <3>6. file \in Nat
      BY <1>1 DEF Shape
    <3>7. file < file
      BY <2>2, <3>2, <3>4, <3>5
    <3> QED BY <3>6, <3>7
  <2>4. \A j \in DOMAIN order[p] : output[<<p, order[p][j]>>].there
    <3>1. TAKE j \in DOMAIN order[p]
    <3>2. j \in 1 .. Len(order[p]) /\ Len(order[p]) \in Nat /\ file \in Nat
      <4>1. order[p] \in Seq(Files[p]) /\ DOMAIN order[p] = 1 .. Len(order[p])
        BY <1>2, <1>3, EachIsListed
      <4> QED BY <1>1, <4>1, LenProperties DEF Shape
    <3>3. j < file
      BY <1>3, <2>3, <3>2
    <3> QED BY <2>2, <3>3
  <2>5. \A f \in Files[p] : \E j \in DOMAIN order[p] : order[p][j] = f
    BY <1>2, <1>3, EachIsListed
  <2>6. \A f \in Files[p] : output[<<p, f>>].there
    BY <2>4, <2>5
  <2> QED BY <1>2, <2>6 DEF p
<1> QED BY <1>4, <1>5
\* Starting and returning leave all of it alone; a step after a restart or a failed
\* write is none of an undisturbed extraction.
LEMMA QuietSteps ==
    ASSUME IInv, CopyInv, Start \/ Return \/ Restart \/ CopyFails \/ UNCHANGED vars
    PROVE  PartsAreWhole' /\ BegunIsThere'
<1>1. TypeOK /\ Shape /\ CopyIsBehind /\ CopiedInOrder /\ PartsAreWhole /\ BegunIsThere
  BY DEF IInv, CopyInv
<1>2. CASE Start \/ Return \/ UNCHANGED vars
  <2>1. UNCHANGED <<Undisturbed, output, order, InPart, part, file, Here>>
    BY <1>2 DEF Start, Return, vars, Undisturbed, InPart, Here, Current, Listed
  <2>2. pc' = "copy" <=> pc = "copy"
    BY <1>2 DEF Start, Return, vars
  <2>3. \A p : (PartIsOver(p)' <=> PartIsOver(p)) /\ (PartIsAt(p)' <=> PartIsAt(p))
    BY <2>1 DEF PartIsOver, PartIsAt, InPart
  <2>4. \A place : Complete(place)' <=> Complete(place)
    BY <2>1 DEF Complete
  <2>5. PartsAreWhole'
    BY <1>1, <2>1, <2>2, <2>3, <2>4 DEF PartsAreWhole
  <2>6. BegunIsThere'
    BY <1>1, <2>1, <2>2, <2>3 DEF BegunIsThere
  <2> QED BY <2>5, <2>6
<1>3. CASE Restart
  <2>1. starts \in Nat \ {0}
    BY <1>1, ExtractionAssumption DEF TypeOK
  <2>2. ~Undisturbed'
    BY <1>3, <2>1 DEF Restart, Undisturbed
  <2> QED BY <2>2 DEF PartsAreWhole, BegunIsThere
<1>4. CASE CopyFails
  <2>1. SUFFICES ASSUME faults' = 0 PROVE FALSE
    BY DEF PartsAreWhole, BegunIsThere, Undisturbed
  <2>2. InPart /\ file <= Len(Listed) /\ Current \in Name /\ Size[Current] \in Nat
    BY <1>1, <1>4, HereIsPlace, ExtractionAssumption DEF CopyFails, CopyIsBehind
  <2>3. faults = 0 /\ cursors.write > Size[Current]
    BY <1>1, <1>4, <2>1, ExtractionAssumption DEF CopyFails, TypeOK
  <2>4. cursors.write = cursors.read /\ cursors.read <= Size[Current] /\ cursors.read \in Nat
    BY <1>1, <1>4, <2>3 DEF CopyFails, CopiedInOrder, CopyIsBehind, Shape
  <2> QED BY <2>2, <2>3, <2>4
<1> QED BY <1>2, <1>3, <1>4

\* Leaving a part: it is over, and of the next one nothing is there yet.
LEMMA LeavesWhole ==
    ASSUME IInv, CopyInv, LeavePart
    PROVE  PartsAreWhole' /\ BegunIsThere'
<1>1. TypeOK /\ Shape /\ PartsAreWhole /\ BegunIsThere /\ ListsAreWhole
  BY DEF IInv, CopyInv
<1>2. /\ part \in 1 .. Len(Parts) /\ part \in Nat \ {0} /\ part' = part + 1 /\ file' = 1
      /\ UNCHANGED <<Undisturbed, output, order, pc>> /\ pc = "next" /\ InPart
  BY <1>1, ExtractionAssumption DEF TypeOK, LeavePart, InPart, Undisturbed
<1>3. \A p : PartIsOver(p)' <=> PartIsOver(p) \/ p = Parts[part]
  <2> TAKE p
  <2>1. \A i : i \in 1 .. part' - 1 <=> i \in 1 .. part - 1 \/ i = part
    BY <1>2
  <2> QED BY <2>1 DEF PartIsOver
<1>4. \A p : PartIsAt(p)' => ~PartIsOver(p) /\ ~PartIsAt(p)
  BY <1>3 DEF PartIsAt
<1>5. \A p : PartIsAt(p) => p = Parts[part]
  BY DEF PartIsAt
<1>6. \A place : Complete(place)' <=> Complete(place)
  BY <1>2 DEF Complete
<1>7. PartsAreWhole'
  <2> SUFFICES ASSUME Undisturbed', NEW p \in DOMAIN Files, PathsApart(p), NEW f \in Files[p]
               PROVE  /\ output'[<<p, f>>].there => Complete(<<p, f>>)'
                      /\ PartIsOver(p)' => output'[<<p, f>>].there
                      /\ output'[<<p, f>>].there => PartIsOver(p)' \/ PartIsAt(p)'
    BY DEF PartsAreWhole
  <2>1. Undisturbed
    BY <1>2
  <2>2. /\ output[<<p, f>>].there => Complete(<<p, f>>)
        /\ PartIsOver(p) => output[<<p, f>>].there
        /\ output[<<p, f>>].there => PartIsOver(p) \/ PartIsAt(p)
    BY <1>1, <1>2, <2>1 DEF PartsAreWhole
  <2>3. p = Parts[part] => output[<<p, f>>].there
    BY <1>1, <2>1, LeftPartIsWhole
  <2> QED BY <1>2, <1>3, <1>5, <1>6, <2>2, <2>3
<1>8. BegunIsThere'
  <2> SUFFICES ASSUME Undisturbed', NEW p \in DOMAIN Files, PathsApart(p), PartIsAt(p)',
                      NEW j \in DOMAIN order[p]
               PROVE  output'[<<p, order[p][j]>>].there <=> j < 1
    BY <1>2 DEF BegunIsThere
  <2>1. order[p] \in Seq(Files[p]) /\ j \in 1 .. Len(order[p]) /\ Len(order[p]) \in Nat
    <3>1. order[p] \in Seq(Files[p]) /\ DOMAIN order[p] = 1 .. Len(order[p])
      BY <1>1, EachIsListed DEF ListsAreWhole
    <3> QED BY <3>1, LenProperties
  <2>2. order[p][j] \in Files[p] /\ ~(j < 1)
    BY <2>1, ElementOfSeq
  <2>3. ~PartIsOver(p) /\ ~PartIsAt(p)
    BY <1>4
  <2>4. ~output[<<p, order[p][j]>>].there
    BY <1>1, <1>2, <2>2, <2>3 DEF PartsAreWhole
  <2> QED BY <1>2, <2>2, <2>4
<1> QED BY <1>7, <1>8

\* A file that is copied, and the part it is of.
LEMMA CopiedFile ==
    ASSUME IInv, CopyInv, InPart, file <= Len(Listed)
    PROVE  /\ Parts[part] \in DOMAIN Files /\ Here = <<Parts[part], Current>> /\ Here \in Place
           /\ Current \in Files[Parts[part]] /\ Current = order[Parts[part]][file]
           /\ file \in DOMAIN order[Parts[part]] /\ file \in Nat
           /\ \A j \in DOMAIN order[Parts[part]] : order[Parts[part]][j] = Current => j = file
           /\ \A p \in DOMAIN Files : \A f \in Files[p] : <<p, f>> \in Place
<1>1. TypeOK /\ Shape /\ ListsAreWhole
  BY DEF IInv, CopyInv
<1>2. /\ Parts[part] \in DOMAIN Files /\ Current \in Files[Parts[part]] /\ Here \in Place
      /\ Here = <<Parts[part], Current>>
  BY <1>1, HereIsPlace DEF Here
<1>3. /\ DOMAIN order[Parts[part]] = 1 .. Len(order[Parts[part]])
      /\ \A i, j \in DOMAIN order[Parts[part]] :
            order[Parts[part]][i] = order[Parts[part]][j] => i = j
  BY <1>1, <1>2, EachIsListed DEF ListsAreWhole
<1>4. Listed = order[Parts[part]] /\ Current = order[Parts[part]][file]
  BY DEF Listed, Current
<1>5. file \in Nat /\ file \in 1 .. Len(order[Parts[part]])
  BY <1>1, <1>4 DEF TypeOK, Shape
<1>6. \A p \in DOMAIN Files : \A f \in Files[p] : <<p, f>> \in Place
  BY DEF Place
<1> QED BY <1>2, <1>3, <1>4, <1>5, <1>6

\* A file is begun in its turn, and only when it is not there.
LEMMA BeginsWhole ==
    ASSUME IInv, CopyInv, CreateFile
    PROVE  PartsAreWhole' /\ BegunIsThere'
<1>1. TypeOK /\ Shape /\ PartsAreWhole /\ BegunIsThere
  BY DEF IInv, CopyInv
<1> DEFINE q == Parts[part]
<1>2. /\ q \in DOMAIN Files /\ Here = <<q, Current>> /\ Here \in Place
      /\ Current \in Files[q] /\ Current = order[q][file]
      /\ file \in DOMAIN order[q] /\ file \in Nat
      /\ \A j \in DOMAIN order[q] : order[q][j] = Current => j = file
      /\ \A p \in DOMAIN Files : \A f \in Files[p] : <<p, f>> \in Place
  BY CopiedFile DEF CreateFile
<1>3. /\ UNCHANGED <<Undisturbed, order, part, file, Here, InPart>>
      /\ pc = "next" /\ pc' = "copy" /\ output' = [output EXCEPT ![Here].there = TRUE]
  BY DEF CreateFile, Undisturbed, Here, Current, Listed, InPart
<1>4. \A p : (PartIsOver(p)' <=> PartIsOver(p)) /\ (PartIsAt(p)' <=> PartIsAt(p))
  BY <1>3 DEF PartIsOver, PartIsAt
<1>5. \A p : PartIsAt(p) => p = q
  BY DEF PartIsAt
<1>6. ~output[Here].there
  BY <1>2 DEF CreateFile, Exists, There
<1>7. output'[Here].there /\ \A place \in Place : place # Here => output'[place] = output[place]
  <2>1. <<>> \in Seq(Nat)
    BY EmptySeq
  <2>2. /\ output'[Here] = [there |-> TRUE, bytes |-> output[Here].bytes]
        /\ \A place \in Place : place # Here => output'[place] = output[place]
    BY <1>1, <1>2, <1>3, <2>1, PlaceUpdates
  <2> QED BY <2>2
<1> HIDE DEF q
<1>8. Undisturbed /\ PathsApart(q) => PartIsAt(q)
  <2>1. Undisturbed /\ PathsApart(q) => ~PartIsOver(q)
    BY <1>1, <1>2, <1>6 DEF PartsAreWhole
  <2> QED BY <2>1 DEF PartIsAt, CreateFile, q
<1>9. PartsAreWhole'
  <2> SUFFICES ASSUME Undisturbed', NEW p \in DOMAIN Files, PathsApart(p), NEW f \in Files[p]
               PROVE  /\ output'[<<p, f>>].there => Complete(<<p, f>>)' \/ Here = <<p, f>>
                      /\ PartIsOver(p) => output'[<<p, f>>].there
                      /\ output'[<<p, f>>].there => PartIsOver(p) \/ PartIsAt(p)
    BY <1>3, <1>4 DEF PartsAreWhole
  <2>1. CASE Here = <<p, f>>
    <3>1. p = q
      BY <1>2, <2>1
    <3> QED BY <1>3, <1>7, <1>8, <2>1, <3>1
  <2>2. CASE Here # <<p, f>>
    <3>1. output'[<<p, f>>] = output[<<p, f>>]
      BY <1>2, <1>7, <2>2
    <3>2. Complete(<<p, f>>)' <=> Complete(<<p, f>>)
      BY <3>1 DEF Complete
    <3> QED BY <1>1, <1>3, <3>1, <3>2 DEF PartsAreWhole
  <2> QED BY <2>1, <2>2
<1>10. BegunIsThere'
  <2> SUFFICES ASSUME Undisturbed', NEW p \in DOMAIN Files, PathsApart(p), PartIsAt(p),
                      NEW j \in DOMAIN order[p]
               PROVE  output'[<<p, order[p][j]>>].there <=> j < file \/ j = file
    BY <1>3, <1>4 DEF BegunIsThere
  <2>1. p = q
    BY <1>5
  <2>2. CASE j = file
    BY <1>2, <1>7, <2>1, <2>2
  <2>3. CASE j # file
    <3>1. order[q][j] # Current
      BY <1>2, <2>1, <2>3
    <3>2. order[q][j] \in Files[q]
      <4>1. order[q] \in Seq(Files[q])
        BY <1>1, <1>2 DEF Shape
      <4> QED BY <2>1, <4>1, LenProperties, ElementOfSeq
    <3>3. output'[<<q, order[q][j]>>] = output[<<q, order[q][j]>>]
      BY <1>2, <1>7, <3>1, <3>2
    <3>4. output[<<p, order[p][j]>>].there <=> j < file
      BY <1>1, <1>3, <2>3 DEF BegunIsThere
    <3> QED BY <2>1, <2>3, <3>3, <3>4
  <2> QED BY <2>2, <2>3
<1> QED BY <1>9, <1>10

\* A block changes only the bytes of the copy.
LEMMA BlockLeavesWhole ==
    ASSUME IInv, CopyInv, NEW written \in 0 .. BufferSize, CopyBlock(written)
    PROVE  PartsAreWhole' /\ BegunIsThere'
<1>1. TypeOK /\ Shape /\ PartsAreWhole /\ BegunIsThere
  BY DEF IInv, CopyInv
<1>2. InPart /\ file <= Len(Listed) /\ Here \in Place
  BY <1>1, HereIsPlace DEF CopyBlock, CopyIsBehind, IInv
<1>3. /\ UNCHANGED <<starts, order, part, file, Here, InPart>> /\ pc = "copy" /\ pc' = "copy"
      /\ faults' = IF written < Stride THEN faults + 1 ELSE faults
  BY DEF CopyBlock, Here, Current, Listed, InPart
<1>4. \A p : (PartIsOver(p)' <=> PartIsOver(p)) /\ (PartIsAt(p)' <=> PartIsAt(p))
  BY <1>3 DEF PartIsOver, PartIsAt
<1>5. Undisturbed' => Undisturbed
  <2>1. faults \in Nat
    BY <1>1, ExtractionAssumption DEF TypeOK
  <2> QED BY <1>3, <2>1 DEF Undisturbed
<1>6. PICK bytes \in Seq(1 .. Size[Current]) : output' = [output EXCEPT ![Here].bytes = bytes]
  BY BlockIsWritten
<1>7. bytes \in Seq(Nat)
  <2>1. Size[Current] \in Nat
    BY <1>1, <1>2, HereIsPlace, ExtractionAssumption
  <2> QED BY <1>6, <2>1, SeqMonotonic
<1>8. /\ output'[Here] = [there |-> output[Here].there, bytes |-> bytes]
      /\ \A place \in Place : place # Here => output'[place] = output[place]
  BY <1>1, <1>2, <1>6, <1>7, PlaceUpdates
<1>9. \A place \in Place : output'[place].there <=> output[place].there
  <2> TAKE place \in Place
  <2>1. output'[Here].there = output[Here].there
    BY <1>8
  <2> QED BY <1>8, <2>1
<1>10. \A p \in DOMAIN Files : \A f \in Files[p] :
          /\ <<p, f>> \in Place
          /\ Here # <<p, f>> => (Complete(<<p, f>>)' <=> Complete(<<p, f>>))
  BY <1>8 DEF Complete, Place
<1>11. PartsAreWhole'
  <2> SUFFICES ASSUME Undisturbed', NEW p \in DOMAIN Files, PathsApart(p), NEW f \in Files[p]
               PROVE  /\ output'[<<p, f>>].there => Complete(<<p, f>>)' \/ Here = <<p, f>>
                      /\ PartIsOver(p) => output'[<<p, f>>].there
                      /\ output'[<<p, f>>].there => PartIsOver(p) \/ PartIsAt(p)
    BY <1>3, <1>4 DEF PartsAreWhole
  <2>1. /\ output[<<p, f>>].there => Complete(<<p, f>>) \/ Here = <<p, f>>
        /\ PartIsOver(p) => output[<<p, f>>].there
        /\ output[<<p, f>>].there => PartIsOver(p) \/ PartIsAt(p)
    BY <1>1, <1>5 DEF PartsAreWhole
  <2> QED BY <1>9, <1>10, <2>1
<1>12. BegunIsThere'
  <2> SUFFICES ASSUME Undisturbed', NEW p \in DOMAIN Files, PathsApart(p), PartIsAt(p),
                      NEW j \in DOMAIN order[p]
               PROVE  output'[<<p, order[p][j]>>].there <=> j < file \/ j = file
    BY <1>3, <1>4 DEF BegunIsThere
  <2>1. order[p][j] \in Files[p]
    <3>1. order[p] \in Seq(Files[p])
      BY <1>1 DEF Shape
    <3> QED BY <3>1, LenProperties, ElementOfSeq
  <2>2. output[<<p, order[p][j]>>].there <=> j < file \/ j = file
    BY <1>1, <1>3, <1>5 DEF BegunIsThere
  <2> QED BY <1>9, <1>10, <2>1, <2>2
<1> QED BY <1>11, <1>12

\* A copy that is closed is complete.
LEMMA EndsWhole ==
    ASSUME IInv, CopyInv, EndFile
    PROVE  PartsAreWhole' /\ BegunIsThere'
<1>1. TypeOK /\ Shape /\ CopyIsBehind /\ CopiedInOrder /\ PartsAreWhole /\ BegunIsThere
  BY DEF IInv, CopyInv
<1>2. /\ UNCHANGED <<Undisturbed, output, order, part, InPart>> /\ file' = file + 1
      /\ pc = "copy" /\ pc' = "next"
  BY DEF EndFile, Undisturbed, InPart
<1>3. /\ InPart /\ file <= Len(Listed) /\ file \in Nat /\ Here = <<Parts[part], Current>>
      /\ Here \in Place /\ Here[2] = Current /\ Current \in Name /\ output[Here].there
  BY <1>1, <1>2, HereIsPlace DEF CopyIsBehind, Here, Shape
<1>4. \A p : (PartIsOver(p)' <=> PartIsOver(p)) /\ (PartIsAt(p)' <=> PartIsAt(p))
  BY <1>2 DEF PartIsOver, PartIsAt
<1>5. \A place : Complete(place)' <=> Complete(place)
  BY <1>2 DEF Complete
<1>6. Undisturbed => Complete(Here)
  <2> SUFFICES ASSUME Undisturbed PROVE Complete(Here)
    OBVIOUS
  <2>1. cursors.read = Size[Current]
    <3>1. Size[Current] \in Nat /\ cursors.read \in Nat /\ Size[Current] - cursors.read = 0
      BY <1>1, <1>3, ExtractionAssumption DEF EndFile, Remain, Shape
    <3> QED BY <3>1
  <2>2. output[Here].bytes = SubSeq(Source(Current), 1, Size[Current])
    BY <1>1, <1>2, <2>1 DEF CopiedInOrder, Undisturbed
  <2> QED BY <1>3, <2>2, AllBytes DEF Complete
<1>7. PartsAreWhole'
  <2> SUFFICES ASSUME Undisturbed', NEW p \in DOMAIN Files, PathsApart(p), NEW f \in Files[p]
               PROVE  /\ output[<<p, f>>].there => Complete(<<p, f>>)
                      /\ PartIsOver(p) => output[<<p, f>>].there
                      /\ output[<<p, f>>].there => PartIsOver(p) \/ PartIsAt(p)
    BY <1>2, <1>4, <1>5 DEF PartsAreWhole
  <2>1. /\ output[<<p, f>>].there => Complete(<<p, f>>) \/ Here = <<p, f>>
        /\ PartIsOver(p) => output[<<p, f>>].there
        /\ output[<<p, f>>].there => PartIsOver(p) \/ PartIsAt(p)
    BY <1>1, <1>2 DEF PartsAreWhole
  <2> QED BY <1>2, <1>6, <2>1
<1>8. BegunIsThere'
  <2> SUFFICES ASSUME Undisturbed', NEW p \in DOMAIN Files, PathsApart(p), PartIsAt(p),
                      NEW j \in DOMAIN order[p]
               PROVE  output[<<p, order[p][j]>>].there <=> j < file + 1
    BY <1>2, <1>4 DEF BegunIsThere
  <2>1. j \in Nat
    <3>1. order[p] \in Seq(Files[p])
      BY <1>1 DEF Shape
    <3>2. DOMAIN order[p] = 1 .. Len(order[p]) /\ Len(order[p]) \in Nat
      BY <3>1, LenProperties
    <3> QED BY <3>2
  <2>2. output[<<p, order[p][j]>>].there <=> j < file \/ j = file
    BY <1>1, <1>2 DEF BegunIsThere
  <2>3. j < file + 1 <=> j < file \/ j = file
    BY <1>3, <2>1
  <2> QED BY <2>2, <2>3
<1> QED BY <1>7, <1>8

\* At the start nothing is there and the loop is at the first part.
LEMMA CopyInit == Init => CopyInv
<1> SUFFICES ASSUME Init PROVE CopyInv
  OBVIOUS
<1>1. \A p \in DOMAIN Files : \A f \in Files[p] : ~output[<<p, f>>].there
  BY DEF Init, Place
<1>2. \A p : ~PartIsOver(p)
  BY DEF Init, PartIsOver
<1>3. PartsAreWhole
  BY <1>1, <1>2 DEF PartsAreWhole
<1>4. BegunIsThere
  <2> SUFFICES ASSUME NEW p \in DOMAIN Files, NEW j \in DOMAIN order[p]
               PROVE  output[<<p, order[p][j]>>].there <=> j < 1
    BY DEF BegunIsThere, Init
  <2>1. order[p] \in Seq(Files[p]) /\ DOMAIN order[p] = 1 .. Len(order[p])
    BY EachIsListed DEF Init
  <2>2. order[p][j] \in Files[p] /\ ~(j < 1)
    BY <2>1, LenProperties, ElementOfSeq
  <2> QED BY <1>1, <2>2
<1>5. ListsAreWhole /\ IndexIsWhole /\ CopiedInOrder
  BY DEF Init, ListsAreWhole, IndexIsWhole, CopiedInOrder
<1> QED BY <1>3, <1>4, <1>5 DEF CopyInv

LEMMA CopyNext == IInv /\ CopyInv /\ [Next]_vars => CopyInv'
<1> SUFFICES ASSUME IInv, CopyInv, [Next]_vars PROVE CopyInv'
  OBVIOUS
<1>1. CopiedInOrder' /\ ListsAreWhole' /\ IndexIsWhole'
  BY OrderStep, ListsStep DEF CopyInv
<1>2. PartsAreWhole' /\ BegunIsThere'
  <2>1. CASE Start \/ Return \/ Restart \/ CopyFails \/ UNCHANGED vars
    BY <2>1, QuietSteps
  <2>2. CASE LeavePart
    BY <2>2, LeavesWhole
  <2>3. CASE CreateFile
    BY <2>3, BeginsWhole
  <2>4. CASE \E written \in 0 .. BufferSize : CopyBlock(written)
    BY <2>4, BlockLeavesWhole
  <2>5. CASE EndFile
    BY <2>5, EndsWhole
  <2> QED BY <2>1, <2>2, <2>3, <2>4, <2>5 DEF Next, Step
<1> QED BY <1>1, <1>2 DEF CopyInv

\* After the loop every part is over.
LEMMA AllPartsOver ==
    ASSUME IInv, CopyInv, ~InPart, NEW p \in DOMAIN Files
    PROVE  PartIsOver(p)
<1>1. PICK i \in DOMAIN Parts : Parts[i] = p
  BY ExtractionAssumption DEF Range
<1>2. i \in 1 .. Len(Parts) /\ Len(Parts) \in Nat
  BY ExtractionAssumption, LenProperties
<1>3. part \in 1 .. Len(Parts) + 1 /\ ~(part <= Len(Parts))
  BY DEF IInv, TypeOK, InPart
<1>4. i \in 1 .. part - 1
  BY <1>2, <1>3
<1> QED BY <1>1, <1>4 DEF PartIsOver

\* An extraction that returned undisturbed has each file of a part whose paths are
\* apart, complete and in the index.
LEMMA NoLoss == IInv /\ CopyInv => LossHasCause
<1> SUFFICES ASSUME IInv, CopyInv, pc = "returned", Undisturbed, NEW p \in DOMAIN Files,
                    PathsApart(p), NEW f \in Files[p]
             PROVE  Complete(<<p, f>>) /\ <<p, f>> \in index
  BY DEF LossHasCause, Undisturbed, PathsApart
<1>1. ~InPart /\ index = {place \in Place : output[place].there} /\ <<p, f>> \in Place
  BY DEF CopyInv, IndexIsWhole, Place
<1>2. PartIsOver(p)
  BY <1>1, AllPartsOver
<1>3. output[<<p, f>>].there /\ Complete(<<p, f>>)
  BY <1>2 DEF CopyInv, PartsAreWhole
<1> QED BY <1>1, <1>3
-----------------------------------------------------------------------------
\* The second invariant holds, for all titles, disks and numbers of starts.
THEOREM CopyInductive == Spec => []CopyInv
BY Inductive, CopyInit, CopyNext, PTL DEF Spec

\* Until a write fails, what the loop has copied of a file are its first bytes, up to
\* both cursors (fs_types.cpp:90-97).
THEOREM CopiedInOrderAlways == Spec => []CopiedInOrder
<1>1. CopyInv => CopiedInOrder
  BY DEF CopyInv
<1> QED BY <1>1, CopyInductive, PTL

\* When nothing was killed and no write failed, only paths that are pieces of others
\* cost a part its files (fs_types.cpp:82-110).
THEOREM LossHasCauseAlways == Spec => []LossHasCause
BY NoLoss, Inductive, CopyInductive, PTL
=============================================================================
