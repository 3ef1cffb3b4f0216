--------------------------------- MODULE RomFs ---------------------------------
(* ReadOnlyFilesystem: the tables of a RomFS image are walked, directory by      *)
(* directory and file by file, with one path that every call appends to and      *)
(* shortens; what is met is put into a tree.                                     *)
EXTENDS Naturals, Sequences, FiniteSets, FiniteSetsExt, SequencesExt

CONSTANTS
    MaxDirectories, \* below the root
    MaxFiles,
    EntryName,      \* of files and directories
    Nothing,        \* the offset of no entry (0xFFFFFFFF)
    Narrow          \* where 32 bits wrap (4 GiB)

ASSUME RomFsAssumption ==
    /\ {MaxDirectories, MaxFiles} \subseteq Nat /\ Narrow \in Nat \ {0}
    /\ Nothing \notin Nat \cup Seq(EntryName) /\ IsFiniteSet(EntryName)

VARIABLES
    image,      \* the tables: directories and files by their offsets
    layout,     \* where the tables begin in the image, and other data of it
    calls,      \* VisitSubdirectories in progress, the innermost last
    path,       \* the one path they share: the names below "/"
    tree        \* the directories and the files that were added

walk == <<image, layout, calls, path, tree>>

\* Where a new entry of the table goes: after its siblings with a lower offset.
FirstOf(offsets) == IF offsets = {} THEN Nothing ELSE Min(offsets)

\* A directory's or a file's place and name.  Siblings have different names.
Entries(count, parents) ==
    {e \in [1 .. count -> [parent : parents, name : EntryName]] :
        \A i, j \in 1 .. count : i # j => e[i] # e[j]}

\* The tables of an image with these directories and files: the root has the
\* offset 0 and each entry leads to the next one below the same directory.
Tables(dirs, files) ==
    LET Below(entries, d) == {i \in DOMAIN entries : entries[i].parent = d}
        After(entries, i) == FirstOf({j \in Below(entries, entries[i].parent) : j > i})
    IN [dirs  |-> [d \in 0 .. Len(dirs) |->
                     [parent  |-> IF d = 0 THEN 0 ELSE dirs[d].parent,
                      name    |-> IF d = 0 THEN <<>> ELSE <<dirs[d].name>>,
                      sibling |-> IF d = 0 THEN Nothing ELSE After(dirs, d),
                      child   |-> FirstOf(Below(dirs, d)),
                      file    |-> FirstOf(Below(files, d))]],
        files |-> [f \in 1 .. Len(files) |->
                     [parent  |-> files[f].parent,
                      name    |-> <<files[f].name>>,
                      sibling |-> After(files, f)]]]

Images ==
    UNION {{Tables(dirs, files) : dirs  \in {e \in Entries(n, 0 .. n) : \A d \in 1 .. n : e[d].parent < d},
                                  files \in Entries(m, 0 .. n)} :
              n \in 0 .. MaxDirectories, m \in 0 .. MaxFiles}

\* Where no table is, some data of the image is read as a directory or a file.
Offset == Nat \cup {Nothing}
StrayDirectory == [parent : Offset, name : Seq(EntryName), sibling : Offset, child : Offset, file : Offset]
StrayFile == [parent : Offset, name : Seq(EntryName) \cup {Nothing}, sibling : Offset]

Layout == [dirs : Nat, files : Nat, directory : StrayDirectory, file : StrayFile]

\* The tables end below 4 GiB.
Below4GiB(tables, places) ==
    /\ \A d \in DOMAIN tables.dirs : places.dirs + d < Narrow
    /\ \A f \in DOMAIN tables.files : places.files + f < Narrow

\* Nothing is mounted.
NoWalk ==
    /\ image = Nothing /\ layout = Nothing /\ calls = <<>> /\ path = <<>>
    /\ tree = [dirs |-> {}, files |-> <<>>]

\* A call begins with the directory at an offset.
Call(offset) == [dir |-> offset, at |-> "directory", file |-> Nothing]

\* The constructor: the root is added and visited.
Mount(tables, places) ==
    /\ image' = tables /\ layout' = places
    /\ calls' = <<Call(0)>> /\ path' = <<>>
    /\ tree' = [dirs |-> {<<>>}, files |-> <<>>]
-----------------------------------------------------------------------------
Top == Last(calls)
Put(call) == calls' = Append(Front(calls), call)

\* Reading an entry: dirOffset and fileOffset have 32 bits, the tables' places and the
\* offsets in them 64.
Entry(entries, begins, offset, stray) ==
    LET place == (begins + offset) % Narrow
    IN IF \E e \in DOMAIN entries : begins + e = place THEN entries[place - begins] ELSE stray

ReadDirectory == Entry(image.dirs, layout.dirs, Top.dir, layout.directory)
ReadFile == Entry(image.files, layout.files, Top.file, layout.file)

\* path::parent_path: that of "/" is itself.
ParentPath(p) == IF p = <<>> THEN p ELSE Front(p)

\* EmplaceContent: WalkDirectories finds the directory above, if it was added.
Emplaces(p) == ParentPath(p) \in tree.dirs

\* VisitSubdirectories reads an entry: its name, if it has one, is appended and the
\* directory is added.
EnterDirectory ==
    /\ calls # <<>> /\ Top.at = "directory"
    /\ path' = path \o ReadDirectory.name
    /\ IF ReadDirectory.name = <<>> THEN UNCHANGED tree
       ELSE Emplaces(path') /\ tree' = [tree EXCEPT !.dirs = @ \cup {path'}]
    /\ Put([Top EXCEPT !.at = "files", !.file = ReadDirectory.file])
    /\ UNCHANGED <<image, layout>>

\* std::map::emplace: a file that is there already stays.
WithFile(files, p, f) == [q \in DOMAIN files \cup {p} |-> IF q \in DOMAIN files THEN files[q] ELSE f]

\* VisitFiles: the path is that of the file for as long as it is added.
VisitFile ==
    /\ calls # <<>> /\ Top.at = "files" /\ Top.file # Nothing
    /\ ReadFile.name \notin {<<>>, Nothing}
    /\ LET file == path \o ReadFile.name
       IN /\ Emplaces(file)
          /\ tree' = [tree EXCEPT !.files = WithFile(@, file, Top.file)]
          /\ path' = ParentPath(file)
    /\ Put([Top EXCEPT !.file = ReadFile.sibling])
    /\ UNCHANGED <<image, layout>>

\* An entry without a name is passed over, one with a name of the greatest length
\* ends the loop.
PassFile ==
    /\ calls # <<>> /\ Top.at = "files" /\ Top.file # Nothing
    /\ ReadFile.name \in {<<>>, Nothing}
    /\ Put([Top EXCEPT !.file = IF ReadFile.name = Nothing THEN Nothing ELSE ReadFile.sibling])
    /\ UNCHANGED <<image, layout, path, tree>>

\* EmplaceContent finds nothing above what is to be added: the exception ends all
\* calls.
AddFails ==
    /\ calls # <<>>
    /\ \/ Top.at = "directory" /\ ReadDirectory.name # <<>> /\ ~Emplaces(path \o ReadDirectory.name)
       \/ Top.at = "files" /\ Top.file # Nothing /\ ReadFile.name \notin {<<>>, Nothing} /\ ~Emplaces(path \o ReadFile.name)
    /\ calls' = <<>>
    /\ UNCHANGED <<image, layout, path, tree>>

\* All files were visited: the directories below follow.
Descend ==
    /\ calls # <<>> /\ Top.at = "files" /\ Top.file = Nothing
    /\ calls' = Append(Front(calls), [Top EXCEPT !.at = "leave"])
                \o (IF ReadDirectory.child = Nothing THEN <<>> ELSE <<Call(ReadDirectory.child)>>)
    /\ UNCHANGED <<image, layout, path, tree>>

\* Mutant: the path is shortened only when there is another sibling.
LeaveDirectory_Last ==
    /\ calls # <<>> /\ Top.at = "leave"
    /\ path' = IF ReadDirectory.sibling = Nothing THEN path ELSE ParentPath(path)
    /\ IF ReadDirectory.sibling = Nothing THEN calls' = Front(calls) ELSE Put(Call(ReadDirectory.sibling))
    /\ UNCHANGED <<image, layout, tree>>

\* The end of the loop's body: the path is shortened, and the next sibling
\* follows or the call returns.
LeaveDirectory ==
    /\ calls # <<>> /\ Top.at = "leave"
    /\ path' = ParentPath(path)
    /\ IF ReadDirectory.sibling = Nothing THEN calls' = Front(calls) ELSE Put(Call(ReadDirectory.sibling))
    /\ UNCHANGED <<image, layout, tree>>

Visit == EnterDirectory \/ VisitFile \/ PassFile \/ Descend \/ LeaveDirectory
-----------------------------------------------------------------------------
\* The paths of the directories by the parents their entries name, which the walk
\* never looks at.
Paths(tables) ==
    LET above[d \in DOMAIN tables.dirs] ==
            IF d = 0 THEN <<>> ELSE above[tables.dirs[d].parent] \o tables.dirs[d].name
    IN above

Above == Paths(image)
FilePath(f) == Above[image.files[f].parent] \o image.files[f].name

TrueDirectories == {Above[d] : d \in DOMAIN image.dirs}
TrueFiles == {<<FilePath(f), f>> : f \in DOMAIN image.files}

Near == Below4GiB(image, layout)

\* After the walk the tree is that of the image, when its tables end below 4 GiB:
\* each directory and each file is there once, under its own path
\* (readonly_filesystem.cpp:44-88).
TreeIsWhole ==
    calls = <<>> /\ image # Nothing /\ Near =>
        /\ tree.dirs = TrueDirectories
        /\ {<<p, tree.files[p]>> : p \in DOMAIN tree.files} = TrueFiles
=============================================================================
