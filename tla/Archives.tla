------------------------------- MODULE Archives -------------------------------
(* SubmissionPackage, NcaCore and EShopTitle::GetAllContent: the tickets of a    *)
(* title are imported, its archives opened with the keys found for them, and     *)
(* the file systems the program needs are mounted (RomFs).                       *)
EXTENDS CounterReads, RomFs

CONSTANTS
    Packages,       \* titles and the keys the user has, see Package
    Rights,         \* identifiers of rights
    Free,           \* the rights of an archive that needs no ticket
    Media,          \* the unit in which an archive places its sections (0x200)
    Before,         \* what comes before an archive in the title's file
    ArchiveSize     \* less comes after it than before

\* A ticket's title key opens the archives of its rights, unless it is personalized.
Ticket == [id : Nat, rights : Rights, common : BOOLEAN]

SectionType == [fs : {"PartitionFs", "RomFs"}, crypto : {"None", "Ctr", "Other"}, exefs : BOOLEAN,
                block : Nat, within : Nat, size : Nat \ {0}, image : Images \cup {Nothing}, layout : Layout]

ArchiveType == [form : {"Nca", "Cnmt"}, type : {"Program", "Control", "Meta"},
                header : {"plain", "encrypted", "short"}, intact : BOOLEAN,
                rights : Rights \cup {Free}, old : Nat, generation : Nat,
                area : {"Application", "Ocean", "System", "Invalid"}, sections : Seq(SectionType),
                metadata : BOOLEAN]

\* `metadata`: the first partition of an archive of metadata has a file with as
\* much as its header.  The key files have no key of an invalid area.
KeyType == {"KekTitle", "Application", "Ocean", "System"}

\* tickets and archives are in the order of the partition's hash map; `header`,
\* `indexed` and `file` are what prod.keys and title.keys have.
Package == [tickets : Seq(Ticket), archives : Seq(ArchiveType), meta : {"Application", "Patch"},
            header : BOOLEAN, indexed : SUBSET (KeyType \X Nat),
            file : UNION {[rights -> {"its", "other"}] : rights \in SUBSET Rights}]

\* Where a section begins: what its hashes cover, in the block its entry names.
BeginsAt(s) == Media * s.block + s.within

\* Sections of an archive that are stored in different ways share no byte, and a
\* section with a RomFS has its tables.
Apart(s, t) == BeginsAt(s) + s.size <= BeginsAt(t) \/ BeginsAt(t) + t.size <= BeginsAt(s)

SectionsFit(sections) ==
    \A i \in DOMAIN sections : LET s == sections[i] IN
        /\ BeginsAt(s) + s.size <= ArchiveSize
        /\ s.crypto = "Ctr" => BeginsAt(s) % CtrBlock = 0
        /\ s.fs = "RomFs" => s.image \in Images
        /\ \A j \in DOMAIN sections : s.crypto = "Ctr" /\ sections[j].crypto = "None" => Apart(s, sections[j])

ASSUME ArchivesAssumption ==
    /\ Free \notin Rights /\ {Media, Before, ArchiveSize} \subseteq Nat /\ Before + ArchiveSize < Wide
    /\ Packages \subseteq Package
    /\ \A p \in Packages : \A i \in DOMAIN p.archives : SectionsFit(p.archives[i].sections)

VARIABLES
    package,
    tickets,        \* the keyring's: numbers of those it has
    titles,         \* the keyring's title keys: its own, another one, or zero
    next,           \* the ticket or archive that follows
    contents,       \* the archives that were opened: [type, views]
    cnmt,           \* whether the metadata was found
    mounts,         \* the views that GetAllContent has yet to look at
    exefs,          \* the program's partition, when it was found
    pc

archivesVars == <<package, tickets, titles, next, contents, cnmt, mounts, exefs, pc, walk>>
import == <<package, tickets, titles>>
mounted == <<mounts, exefs>>

ArchivesInit ==
    /\ package \in Packages
    /\ tickets = {} /\ titles = package.file
    /\ next = 1 /\ contents = <<>> /\ cnmt = FALSE
    /\ mounts = <<>> /\ exefs = <<>>
    /\ pc = "import"
    /\ NoWalk
-----------------------------------------------------------------------------
\* AddTitlePair: the first key for some rights stays.
AddTitlePair(rights, key) ==
    titles' = [r \in DOMAIN titles \cup {rights} |-> IF r \in DOMAIN titles THEN titles[r] ELSE key]

\* Mutant: any ticket after the first counts as known.
ImportTicket_First ==
    /\ pc = "import" /\ next <= Len(package.tickets)
    /\ LET ticket == package.tickets[next]
       IN IF tickets # {} THEN UNCHANGED <<tickets, titles>>
          ELSE /\ tickets' = tickets \cup {ticket.id}
               /\ AddTitlePair(ticket.rights, IF ticket.common THEN "its" ELSE "zero")
    /\ next' = next + 1
    /\ UNCHANGED <<package, contents, cnmt, mounted, pc, walk>>

\* Keyring::AddTicket: a ticket with a known number is not looked at.  A
\* personalized one has no title key, zeros take its place.
ImportTicket ==
    /\ pc = "import" /\ next <= Len(package.tickets)
    /\ LET ticket == package.tickets[next]
       IN IF ticket.id \in tickets THEN UNCHANGED <<tickets, titles>>
          ELSE /\ tickets' = tickets \cup {ticket.id}
               /\ AddTitlePair(ticket.rights, IF ticket.common THEN "its" ELSE "zero")
    /\ next' = next + 1
    /\ UNCHANGED <<package, contents, cnmt, mounted, pc, walk>>

\* All tickets are imported before the first archive is opened.
TicketsDone ==
    /\ pc = "import" /\ next > Len(package.tickets)
    /\ pc' = "open" /\ next' = 1
    /\ UNCHANGED <<package, tickets, titles, contents, cnmt, mounted, walk>>

\* GetKeyRevision: unsigned, so that 0 stays 0.
Revision(archive) ==
    LET generation == IF archive.old > archive.generation THEN archive.old ELSE archive.generation
    IN IF generation = 0 THEN 0 ELSE generation - 1

HasKey(type, archive) == <<type, Revision(archive)>> \in package.indexed

\* GetTitleKey never fails: what is missing is zero, and the key another one.
TitleKey(archive) ==
    IF /\ HasKey("KekTitle", archive)
       /\ archive.rights \in DOMAIN titles /\ titles[archive.rights] = "its"
    THEN "its" ELSE "other"

\* The elements of a sequence that are in a set, in their order.
Chosen(seq, S) ==
    LET upTo[i \in 0 .. Len(seq)] ==
            IF i = 0 THEN <<>> ELSE IF seq[i] \in S THEN Append(upTo[i - 1], seq[i]) ELSE upTo[i - 1]
    IN upTo[Len(seq)]

\* What is read of a section: with the key of its archive, from a place that is
\* computed with 64 bits, but for the product of its block, which has 32.
View(section, key) ==
    [key |-> key, fs |-> section.fs, crypto |-> section.crypto, exefs |-> section.exefs,
     block |-> section.block, within |-> section.within,
     starts |-> ((Media * section.block) % Narrow) + section.within,
     size |-> section.size, image |-> section.image, layout |-> section.layout]

\* CreateBackingFile: the sections that get a view, partitions first, each with
\* the key of its archive.
Views(archive) ==
    LET Kept(fs) == {s \in Range(archive.sections) : s.fs = fs /\ s.crypto # "Other"}
        kept == Chosen(archive.sections, Kept("PartitionFs")) \o Chosen(archive.sections, Kept("RomFs"))
    IN [i \in DOMAIN kept |-> View(kept[i], IF archive.rights = Free THEN "its" ELSE TitleKey(archive))]

\* GetAreaType, GetAreaKey: the key is there, or the exception "Key not found".
AreaKeyMissing(archive) ==
    /\ archive.rights = Free
    /\ \E i \in DOMAIN archive.sections : archive.sections[i].crypto = "Ctr"
    /\ archive.area = "Invalid" \/ ~HasKey(archive.area, archive)
-----------------------------------------------------------------------------
\* The title's file around an archive whose sections are encrypted with its key.
Plain(y) == {<<"byte", y>>}

FileOf(views) ==
    LET Covers(v, y) == v.crypto = "Ctr" /\ y \in BeginsAt(v) .. BeginsAt(v) + v.size - 1
        Stored(y) == IF \E i \in DOMAIN views : Covers(views[i], y)
                     THEN Mask(Plain(y), "its", y) ELSE Plain(y)
    IN [i \in 1 .. Before + ArchiveSize |-> IF i <= Before THEN {} ELSE Stored(i - Before - 1)]

\* The PartitionFilesystem's view of the archive and, for a section in plain, the
\* archive's FileLayered over that.
ArchivePart == [starts |-> Before, ends |-> ArchiveSize]

ViewRead(file, view, size, offset) ==
    IF view.crypto = "Ctr" THEN CounterRead(file, ArchivePart, view, size, offset)
    ELSE LayeredRead(file, [starts |-> Before + view.starts, ends |-> view.size], size, offset)

PlainBytes(view, size, offset) == [i \in 1 .. size |-> Plain(BeginsAt(view) + offset + i - 1)]

\* The assertions of NcaCore's constructor: the first bytes of each view that has
\* as many are those of a PFS0 or a RomFS, its own or another one's.
FirstBytesWrong(views) ==
    \E i \in DOMAIN views :
        /\ CtrBlock <= views[i].size
        /\ \A j \in DOMAIN views : views[j].fs = views[i].fs =>
               ViewRead(FileOf(views), views[i], CtrBlock, 0)[1] # Plain(BeginsAt(views[j]))

\* NcaCore's constructor fails: FileLayered has no room for a header, the header is
\* garbage without its key, an entry is damaged, a key is missing or does not fit.
NcaThrows(archive) ==
    \/ archive.header = "short"
    \/ archive.header = "encrypted" /\ ~package.header
    \/ ~archive.intact
    \/ AreaKeyMissing(archive)
    \/ FirstBytesWrong(Views(archive))

\* SubmissionPackage's constructor opens the next archive.
OpenFails ==
    /\ pc = "open" /\ next <= Len(package.archives)
    /\ NcaThrows(package.archives[next])
    /\ pc' = "failed"
    /\ UNCHANGED <<import, next, contents, cnmt, mounted, walk>>

OpenNca ==
    /\ pc = "open" /\ next <= Len(package.archives)
    /\ LET archive == package.archives[next]
       IN /\ archive.form = "Nca" /\ ~NcaThrows(archive)
          /\ contents' = Append(contents, [type |-> archive.type, views |-> Views(archive)])
    /\ next' = next + 1
    /\ UNCHANGED <<import, cnmt, mounted, pc, walk>>

\* An archive named .cnmt.nca that is one of metadata: front() of its list of
\* partitions, which ends the program when that is empty.
OpenCnmt ==
    /\ pc = "open" /\ next <= Len(package.archives)
    /\ LET archive == package.archives[next]
       IN /\ archive.form = "Cnmt" /\ ~NcaThrows(archive)
          /\ IF archive.type # "Meta" THEN UNCHANGED <<cnmt, pc>>
             ELSE IF \E i \in DOMAIN Views(archive) : Views(archive)[i].fs = "PartitionFs"
             THEN cnmt' = TRUE /\ UNCHANGED pc
             ELSE pc' = "failed" /\ UNCHANGED cnmt
    /\ next' = next + 1
    /\ UNCHANGED <<import, contents, mounted, walk>>

\* The last metadata that was opened has no file, the assertion, or one too short to
\* be read, an exception.
MetadataMissing ==
    LET metas == {i \in DOMAIN package.archives :
                     package.archives[i].form = "Cnmt" /\ package.archives[i].type = "Meta"}
    IN \E i \in metas : ~package.archives[i].metadata /\ \A j \in metas : j <= i

MetadataFails ==
    /\ pc = "open" /\ next > Len(package.archives) /\ MetadataMissing
    /\ pc' = "failed"
    /\ UNCHANGED <<import, next, contents, cnmt, mounted, walk>>

\* GetIndexedNcas: those of a type, in the order they were opened.
Indexed(type) ==
    IF cnmt /\ package.meta = "Application"
    THEN Chosen(contents, {nca \in Range(contents) : nca.type = type})
    ELSE <<>>

\* All archives are open: GetAllContent goes through the views of the programs, and
\* the RomFS views of the first control archive.
GetAllContent ==
    /\ pc = "open" /\ next > Len(package.archives) /\ ~MetadataMissing
    /\ LET control == Indexed("Control")
       IN mounts' = FlattenSeq([i \in DOMAIN Indexed("Program") |-> Indexed("Program")[i].views])
                    \o (IF control = <<>> THEN <<>>
                        ELSE Chosen(Head(control).views, {v \in Range(Head(control).views) : v.fs = "RomFs"}))
    /\ pc' = "mount"
    /\ UNCHANGED <<import, next, contents, cnmt, exefs, walk>>

\* A view becomes a file system: the walk through a RomFS follows.
MountRomFs ==
    /\ pc = "mount" /\ calls = <<>> /\ mounts # <<>> /\ Head(mounts).fs = "RomFs"
    /\ Mount(Head(mounts).image, Head(mounts).layout)
    /\ mounts' = Tail(mounts)
    /\ UNCHANGED <<import, next, contents, cnmt, exefs, pc>>

\* IsAExeFsPartition decides for a partition.
MountPartition ==
    /\ pc = "mount" /\ calls = <<>> /\ mounts # <<>> /\ Head(mounts).fs = "PartitionFs"
    /\ exefs' = IF Head(mounts).exefs THEN <<Head(mounts)>> ELSE exefs
    /\ mounts' = Tail(mounts)
    /\ UNCHANGED <<import, next, contents, cnmt, pc, walk>>

VisitRomFs == Visit /\ UNCHANGED <<import, next, contents, cnmt, mounted, pc>>

\* An exception of the walk ends the title.
MountFails ==
    /\ pc = "mount" /\ AddFails
    /\ pc' = "failed"
    /\ UNCHANGED <<import, next, contents, cnmt, mounted>>

Loaded ==
    /\ pc = "mount" /\ calls = <<>> /\ mounts = <<>>
    /\ pc' = "loaded"
    /\ UNCHANGED <<import, next, contents, cnmt, mounted, walk>>

ArchivesNext ==
    \/ ImportTicket \/ TicketsDone
    \/ OpenFails \/ OpenNca \/ OpenCnmt \/ MetadataFails
    \/ GetAllContent \/ MountRomFs \/ MountPartition \/ VisitRomFs \/ MountFails
    \/ Loaded

ArchivesSpec == ArchivesInit /\ [][ArchivesNext]_archivesVars
-----------------------------------------------------------------------------
\* Tickets and title keys are of the package, each archive is visited once, and the
\* program's file system is a partition with an ExeFS.
ArchivesTypeOK ==
    /\ tickets \subseteq {package.tickets[i].id : i \in DOMAIN package.tickets}
    /\ DOMAIN titles \subseteq Rights /\ \A r \in DOMAIN titles : titles[r] \in {"its", "other", "zero"}
    /\ next \in 1 .. Len(package.archives) + Len(package.tickets) + 1
    /\ Len(contents) < next \/ contents = <<>>
    /\ cnmt \in BOOLEAN
    /\ \A i \in DOMAIN exefs : exefs[i].fs = "PartitionFs" /\ exefs[i].exefs
    /\ pc \in {"import", "open", "mount", "loaded", "failed"}

\* A section whose block begins below 4 GiB.
Low(s) == Media * s.block < Narrow

\* What was opened can be read: whoever reads any part of a view that is not tiny
\* and begins low gets the plain bytes of its section, whichever key, ticket and
\* offset that took (ctr_backing.cpp:24-44, nca_core.cpp:50-57, 90-128).
SectionsReadable ==
    \A n \in DOMAIN contents : LET views == contents[n].views IN
        \A i \in DOMAIN views : CtrBlock <= views[i].size /\ Low(views[i]) =>
            \A offset \in 0 .. views[i].size - 1 : \A size \in 1 .. views[i].size - offset :
                ViewRead(FileOf(views), views[i], size, offset) = PlainBytes(views[i], size, offset)

\* What the loaders rely on: kept contents have their types, keys and bytes.
ContentsOK == ArchivesTypeOK /\ SectionsReadable

\* The user has what an archive takes, and the archive is whole.
TicketOf(rights) ==
    \E i \in DOMAIN package.tickets :
        LET t == package.tickets[i]
         IN /\ t.rights = rights /\ t.common
           /\ \A j \in DOMAIN package.tickets \ {i} :
                 package.tickets[j].id # t.id /\ package.tickets[j].rights # rights

TitleKeyKnown(rights) ==
    IF rights \in DOMAIN package.file THEN package.file[rights] = "its" ELSE TicketOf(rights)

KeysKnown(archive) ==
    \/ \A i \in DOMAIN archive.sections : archive.sections[i].crypto # "Ctr"
    \/ IF archive.rights = Free THEN HasKey(archive.area, archive)
       ELSE HasKey("KekTitle", archive) /\ TitleKeyKnown(archive.rights)

\* What is kept of a section is where the code looks for it.
InReach(section) ==
    /\ Low(section)
    /\ section.fs = "RomFs" => Below4GiB(section.image, section.layout)

Fit(archive) ==
    /\ archive.intact
    /\ archive.header = "plain" \/ (archive.header = "encrypted" /\ package.header)
    /\ KeysKnown(archive)
    /\ \A i \in DOMAIN archive.sections : archive.sections[i].crypto # "Other" => InReach(archive.sections[i])
    /\ archive.form = "Cnmt" /\ archive.type = "Meta" =>
          /\ archive.metadata
          /\ \E i \in DOMAIN archive.sections :
                archive.sections[i].fs = "PartitionFs" /\ archive.sections[i].crypto # "Other"

\* A title opens when its archives are whole, the sections that are read and their
\* tables lie below 4 GiB, and the key of each archive is known: from the key
\* files, or from a ticket with a number and rights of its own, whichever order
\* the partition lists them in; a program with an ExeFS has it then
\* (submission_package.cpp:5-31, keyring.cpp:41-48, eshop_title.cpp:84-97).
FitTitleOpens ==
    (\A i \in DOMAIN package.archives : Fit(package.archives[i])) =>
        /\ pc # "failed"
        /\ pc = "loaded" /\ package.meta = "Application" =>
              \A i, j \in DOMAIN package.archives :
                 LET meta == package.archives[i]
                     program == package.archives[j]
                 IN /\ meta.form = "Cnmt" /\ meta.type = "Meta"
                    /\ program.form = "Nca" /\ program.type = "Program"
                    /\ \E s \in DOMAIN program.sections :
                          /\ program.sections[s].fs = "PartitionFs" /\ program.sections[s].exefs
                          /\ program.sections[s].crypto # "Other"
                    => exefs # <<>>
=============================================================================
