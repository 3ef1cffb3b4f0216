------------------------------ MODULE Cartridge -------------------------------
(* A cartridge image (loader/cartridge.cpp): the constructor goes through the      *)
(* archives of its partitions and keeps the file systems of the program it finds   *)
(* first, with the archive that holds the title's name and icon.                   *)
EXTENDS Naturals, Sequences, FiniteSets, FiniteSetsExt, SequencesExt

\* NcaCore of an archive: `opens` unless its constructor throws (Archives), its views
\* in the order of GetBackingFiles, partitions before RomFS.  A partition may have no
\* entry, and only a partition may be one that IsAExeFsPartition takes.
ViewRecord == [fs : {"PartitionFs"}, exefs : BOOLEAN, filled : BOOLEAN]
              \cup [fs : {"RomFs"}, exefs : {FALSE}, filled : BOOLEAN]
CardArchive == [opens : BOOLEAN, type : {"Program", "Control", "Meta", "PublicData", "Manual"},
                cnmt : BOOLEAN, views : Seq(ViewRecord)]

\* "normal" is a partition of its own, the others are in the order of the map of
\* entries; their archives are numbered through.
CardFile == [header : {"whole", "short", "magic", "capacity"},
             normal : Seq(CardArchive), partitions : Seq(Seq(CardArchive))]

Numbers(archive, fs) == {i \in DOMAIN archive.views : archive.views[i].fs = fs}

NoView == <<0, 0>>
NothingFound == [exefs |-> NoView, logo |-> NoView, romfs |-> NoView, control |-> NoView,
                 metas |-> 0, fate |-> "running"]
Complete(found) == NoView \notin {found.exefs, found.logo, found.romfs, found.control}
-----------------------------------------------------------------------------
\* The first and the second partition of an archive; a third is an assertion, and
\* so is a first one without an entry.
Partitions(archive) == Numbers(archive, "PartitionFs")

ArchiveFate(archive) ==
    IF ~archive.opens THEN "exception"
    ELSE IF archive.type \in {"PublicData", "Manual"} THEN "running"
    ELSE IF \/ Cardinality(Partitions(archive)) > 2
            \/ Partitions(archive) # {} /\ ~archive.views[Min(Partitions(archive))].filled THEN "assertion"
    ELSE IF archive.cnmt /\ archive.type = "Meta" /\ Partitions(archive) = {} THEN "null pointer"
    ELSE "running"

\* The RomFS that comes last.
RomFsOf(archive, n) ==
    IF Numbers(archive, "RomFs") = {} THEN NoView ELSE <<n, Max(Numbers(archive, "RomFs"))>>

First(old, new) == IF old = NoView THEN new ELSE old

\* The first of the two partitions that is an ExeFS, if none was found before.
ExefsOf(found, archive, n) ==
    LET fit == {i \in Partitions(archive) : archive.views[i].exefs}
    IN IF found.exefs # NoView \/ fit = {} THEN found.exefs ELSE <<n, Min(fit)>>

\* GetValidPfs: the first partition that was not moved to exefs.
LogoOf(found, archive, n) ==
    LET left == {i \in Partitions(archive) : found.exefs # NoView \/ ExefsOf(found, archive, n) # <<n, i>>}
    IN IF left = {} THEN NoView ELSE <<n, Min(left)>>

\* The body of ListAllNca's loop for archive n.  It breaks when all is found.
ListNca(found, archive, n) ==
    IF Complete(found) \/ found.fate # "running" THEN found
    ELSE IF ArchiveFate(archive) # "running" THEN [found EXCEPT !.fate = ArchiveFate(archive)]
    ELSE CASE archive.type = "Program" ->
                [found EXCEPT !.exefs = ExefsOf(found, archive, n),
                              !.logo = First(@, LogoOf(found, archive, n)),
                              !.romfs = First(@, RomFsOf(archive, n))]
           [] archive.type = "Control" -> [found EXCEPT !.control = First(@, RomFsOf(archive, n))]
           [] archive.type = "Meta" /\ archive.cnmt -> [found EXCEPT !.metas = @ + 1]
           [] OTHER -> found

\* The constructor.
ArchivesOf(card) == FlattenSeq(card.partitions)

HeaderFate(card) ==
    CASE card.header = "short" -> "assertion"
      [] card.header = "magic" -> "assertion"
      [] card.header = "capacity" -> "exception"
      [] OTHER -> "running"

CardOf(card) ==
    IF HeaderFate(card) # "running" THEN [NothingFound EXCEPT !.fate = HeaderFate(card)]
    ELSE LET archives == ArchivesOf(card)
             found[n \in 0 .. Len(archives)] ==
                 IF n = 0 THEN NothingFound ELSE ListNca(found[n - 1], archives[n], n)
         IN found[Len(archives)]
-----------------------------------------------------------------------------
\* The reference: the program is that of the first archive that has an ExeFS, and
\* the name and icon are from the first archive for them.
FirstArchive(card, type, Has(_)) ==
    LET fit == {n \in DOMAIN ArchivesOf(card) : ArchivesOf(card)[n].type = type /\ Has(ArchivesOf(card)[n])}
    IN IF fit = {} THEN 0 ELSE Min(fit)

HasExefs(archive) == \E i \in DOMAIN archive.views : archive.views[i].exefs
HasRomFs(archive) == Numbers(archive, "RomFs") # {}

\* What was kept is of the first such archive, over all partitions and orders.
CardIsFirst(card, found) ==
    /\ found.exefs[1] = FirstArchive(card, "Program", HasExefs)
    /\ found.romfs[1] = FirstArchive(card, "Program", HasRomFs)
    /\ found.control[1] = FirstArchive(card, "Control", HasRomFs)
    /\ found.logo # NoView => found.logo # found.exefs
=============================================================================
