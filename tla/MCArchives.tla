------------------------------ MODULE MCArchives ------------------------------
EXTENDS Archives

OneFile == Tables(<<>>, <<[parent |-> 0, name |-> "a"]>>)

\* Some data of an image, read as an entry.
MCStrayDirectory == [parent : {0}, name : {<<>>, <<"a">>, <<"a", "b">>}, sibling : {1, Nothing},
                     child : {Nothing}, file : {1, Nothing}]
MCStrayFile == [parent : {0}, name : {<<>>, <<"a">>, <<"a", "b">>, Nothing}, sibling : {1, Nothing}]

SomeDirectory == CHOOSE d \in MCStrayDirectory : d.name = <<"a">> /\ d.sibling = Nothing
SomeFile == CHOOSE f \in MCStrayFile : f.name = <<"a">>

Places(dirs, files, d, f) == [dirs |-> dirs, files |-> files, directory |-> d, file |-> f]
NearPlaces == Places(0, 4, SomeDirectory, SomeFile)

\* A section in the block it begins in, and one that begins behind it.
PlacedSection(fs, crypto, block, within, size) ==
    [fs |-> fs, crypto |-> crypto, exefs |-> fs = "PartitionFs" /\ block = 0 /\ within = 0,
     block |-> block, within |-> within, size |-> size,
     image |-> IF fs = "RomFs" THEN OneFile ELSE Nothing, layout |-> NearPlaces]
Section(fs, crypto, starts, size) == PlacedSection(fs, crypto, starts \div Media, starts % Media, size)

Archive(form, type, rights, sections) ==
    [form |-> form, type |-> type, header |-> "encrypted", intact |-> TRUE, rights |-> rights,
     old |-> 2, generation |-> 0, area |-> "Ocean", sections |-> sections, metadata |-> TRUE]

MCMeta == Archive("Cnmt", "Meta", Free, <<Section("PartitionFs", "Ctr", 2, 3)>>)
MCProgram(rights) ==
    Archive("Nca", "Program", rights, <<Section("PartitionFs", "Ctr", 0, 3), Section("RomFs", "Ctr", 4, 4)>>)
MCControl(rights) == Archive("Nca", "Control", rights, <<Section("RomFs", "None", 1, 3), Section("RomFs", "Ctr", 4, 2)>>)

AllKeys == {"KekTitle", "Ocean"} \X {0, 1, 2}

Title(archives) ==
    [tickets |-> <<>>, archives |-> archives, meta |-> "Application", header |-> TRUE,
     indexed |-> AllKeys, file |-> <<>>]

\* Tickets in any number up to two and any order, keys that are missing or stale.
MCTickets == [id : {0, 1}, rights : Rights, common : BOOLEAN]

KeyTitles ==
    {[Title(<<MCControl(control), MCMeta, MCProgram(program)>>) EXCEPT
          !.tickets = t, !.file = f, !.indexed = k, !.archives[3].generation = g] :
        control \in {"r1", "r2"}, program \in {Free, "r1"},
        t \in UNION {[1 .. n -> MCTickets] : n \in 0 .. 2},
        f \in {<<>>, "r1" :> "other", "r1" :> "its"},
        k \in {AllKeys, AllKeys \ {<<"KekTitle", 1>>}, AllKeys \ {<<"Ocean", 2>>}},
        g \in {0, 3}}

\* Archives of other shapes and in other orders.
Shapes ==
    {[MCProgram(rights) EXCEPT !.sections = <<Section(fs1, crypto1, 0, n), Section(fs2, crypto2, 4, m)>>] :
        rights \in {Free, "r1"}, fs1, fs2 \in {"PartitionFs", "RomFs"}, crypto1, crypto2 \in {"None", "Ctr", "Other"},
        n \in 1 .. 3, m \in 1 .. 4}

Damaged ==
    {[a EXCEPT !.header = h, !.intact = i, !.old = o, !.area = area] :
        a \in {MCProgram(Free), MCMeta, MCControl(Free), [MCMeta EXCEPT !.sections = <<>>],
               [MCMeta EXCEPT !.type = "Control"], [MCMeta EXCEPT !.metadata = FALSE]},
        h \in {"plain", "encrypted", "short"}, i \in BOOLEAN, o \in {0, 2}, area \in {"Ocean", "Invalid"}}

ShapeTitles ==
    {[Title(<<MCMeta, s>>) EXCEPT !.file = "r1" :> "its"] : s \in Shapes} \cup
    {[Title(<<MCProgram(Free), d, MCControl(Free)>>) EXCEPT !.meta = m, !.header = h] :
        d \in Damaged, m \in {"Application", "Patch"}, h \in BOOLEAN} \cup
    {Title(<<MCMeta, MCProgram(Free), d>>) : d \in Damaged}

\* Sections on both sides of where 32 bits end, some where the other one seems to be.
HighShapes ==
    {[MCProgram(rights) EXCEPT !.sections = <<Section(fs1, "Ctr", 0, n), PlacedSection(fs2, crypto, block, within, m)>>] :
        rights \in {Free, "r1"}, fs1, fs2 \in {"PartitionFs", "RomFs"}, crypto \in {"None", "Ctr"},
        block \in {3, 4, 5}, within \in {0, 2}, n \in 2 .. 3, m \in 1 .. 2}
HighTitles == {[Title(<<MCMeta, s>>) EXCEPT !.file = "r1" :> "its"] : s \in HighShapes}

\* All tables of a RomFS.
WithImage(t, places) ==
    [Title(<<MCProgram(Free), MCMeta, MCControl(Free)>>) EXCEPT
        !.archives[1].sections[2].image = t, !.archives[1].sections[2].layout = places]
ImageTitles == {WithImage(t, NearPlaces) : t \in Images}

\* Tables on both sides of where 32 bits end, and some data where they seem to be.
FarPlaces ==
    {Places(7, 2, d, SomeFile) : d \in MCStrayDirectory} \cup
    {Places(0, 8, SomeDirectory, f) : f \in MCStrayFile} \cup
    {Places(9, 12, d, f) : d \in MCStrayDirectory, f \in MCStrayFile}

FarTitles ==
    {WithImage(t, p) :
        t \in {i \in Images : Cardinality(DOMAIN i.dirs) <= 2 /\ Cardinality(DOMAIN i.files) <= 1}, p \in FarPlaces}

MCPackages == KeyTitles \cup ShapeTitles \cup HighTitles \cup ImageTitles \cup FarTitles
=============================================================================
