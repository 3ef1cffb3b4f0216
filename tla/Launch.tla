-------------------------------- MODULE Launch --------------------------------
(* From a list of games to a process: the application's calls (core/application), *)
(* NxSys::LoadApplicationFile with the loaders, the provider's cache of open files, *)
(* and what the process keeps of the metadata (MetaProgram), the cartridge           *)
(* (Cartridge) and the modules (NsoImage).  Files on disk change meanwhile.          *)
EXTENDS NsoImage, MetaProgram, Cartridge, SequencesExt

CONSTANTS
    Disks,       \* collections: sequences of games, see Game
    CodeStart,   \* CreateProcessParameter::codeAddr
    MaxChanges   \* bound: files replaced or removed

\* A game's file has versions, of the kind its extension says; `sub` is in a
\* directory of the games' directory.
\* Nsp: what EShopTitle's constructor makes of it (TitleIntegrity, Archives), `small`
\* below MinimumAppSize::Nsp.  Nro: header, sizes and sections.
Control == {"none", "missing", "short", "whole"}
Game(g) ==
    /\ g.ext \in {"nsp", "xci", "nca", "nro", "nso", "other"} /\ g.sub \in BOOLEAN
    /\ g.versions # <<>> /\ g.versions \in Seq(Range(g.versions))
    /\ g.ext = "nsp" => \A t \in Range(g.versions) :
          /\ t.opens \in {"running", "exception"}
          /\ {t.small, t.exefs, t.romfs, t.folders} \subseteq BOOLEAN
          /\ t.control \in Control /\ NpdmFile(t.npdm)
          /\ t.modules \in Seq(NsoFile) /\ \A n \in DOMAIN t.modules : NsoAssumption(t.modules[n])
    /\ g.ext = "xci" => \A t \in Range(g.versions) :
          /\ t.card \in CardFile /\ t.control \in Control
          /\ \A n \in DOMAIN ArchivesOf(t.card) : n \in DOMAIN t.npdms /\ NpdmFile(t.npdms[n])

ASSUME LaunchAssumption ==
    /\ {CodeStart, MaxChanges} \subseteq Nat
    /\ \A disk \in Disks : \A i \in DOMAIN disk : Game(disk[i])

VARIABLES
    disk,      \* GetAllGames, as long as no file is removed
    version,   \* of each file; 0 when it was removed
    changes,
    first,     \* GamesLists::first, an index or 0
    chosen,    \* Application::chosen, an index or 0
    cached,    \* cachedFiles: the version that is open, 0 for none
    backing,   \* NxSys::backing: [file, version]
    process,   \* what the last load gave the process
    mapped,    \* CreateProcessMemory was called
    active,    \* the application's core is enabled
    pc,        \* what LoadApplicationFile does next
    fate       \* "running", or how the program ended

vars == <<disk, version, changes, first, chosen, cached, backing, process, mapped, active, pc, fate>>
files == <<disk, version, changes>>
lists == <<first, chosen>>

NoFile == [file |-> 0, version |-> 0]
NoProgram == [meta |-> [allowed |-> <<>>, priorities |-> [lowest |-> 0, highest |-> 0]],
              image |-> <<>>, found |-> NothingFound]

Existing == {i \in DOMAIN disk : version[i] > 0}

\* SortAGame: an .nro before an .nsp, else the front of the list.
SortAGame(games) ==
    LET Of(ext) == {i \in DOMAIN games : games[i].ext = ext}
    IN IF games = <<>> THEN 0
       ELSE IF Of("nro") # {} THEN Min(Of("nro"))
       ELSE IF Of("nsp") # {} THEN Min(Of("nsp")) ELSE 1

Init ==
    /\ disk \in Disks /\ version = [i \in DOMAIN disk |-> 1] /\ changes = 0
    /\ first = SortAGame(disk) /\ chosen = 0
    /\ cached = [i \in DOMAIN disk |-> 0]
    /\ backing = NoFile /\ process = NoProgram /\ mapped = FALSE /\ active = FALSE
    /\ pc = "idle" /\ fate = "running"

Idle == fate = "running" /\ pc = "idle"
-----------------------------------------------------------------------------
(* The loaders. *)

Content(i, v) == disk[i].versions[v]

\* NxExecutable's constructor.  A file that ends in its header or has no magic
\* value is left alone.
NroFate(nro) ==
    LET assets == IF nro.asset THEN nro.assets + 56 ELSE 0
    IN IF ~nro.header \/ ~nro.large \/ ~nro.magic THEN "running"
       ELSE IF nro.size <= nro.image THEN "assertion"
       ELSE IF nro.asset /\ ~nro.assetFits THEN "assertion"
       ELSE IF assets + nro.image # nro.size THEN "assertion"
       ELSE IF ~nro.sections THEN "exception" ELSE "running"

\* How the constructor of a file's loader ends.
LoaderFate(i, v) ==
    LET c == Content(i, v)
    IN CASE disk[i].ext = "nsp" -> c.opens
         [] disk[i].ext = "xci" -> CardOf(c.card).fate
         [] disk[i].ext = "nro" -> NroFate(c)
         [] disk[i].ext = "nso" -> IF c.whole /\ ~c.magic THEN "assertion" ELSE "running"
         [] disk[i].ext = "nca" -> c.opens

\* CheckHeader leaves a small title without its content.
HasExeFs(i, v) ==
    LET c == Content(i, v)
    IN CASE disk[i].ext = "nsp" -> ~c.small /\ c.exefs
         [] disk[i].ext = "xci" -> CardOf(c.card).exefs # NoView
         [] OTHER -> FALSE

\* GetNpdm: EShopTitle asks a null partition whether it is an ExeFS; a loader that
\* has none hands MetaProgram a null file.  Only a cartridge gets an exception.
WithoutNpdm(ext) == IF ext = "xci" THEN "exception" ELSE "null pointer"

NpdmOf(i, v) ==
    IF disk[i].ext = "nsp" THEN Content(i, v).npdm
    ELSE Content(i, v).npdms[CardOf(Content(i, v).card).exefs[1]]

\* GetRomFs(true), and the nacp of it.
ControlOf(i, v) ==
    LET c == Content(i, v)
    IN IF disk[i].ext = "xci" /\ CardOf(c.card).control = NoView THEN "none" ELSE c.control

NacpFate(control) ==
    CASE control = "missing" -> "null pointer" [] control = "short" -> "exception" [] OTHER -> "running"
-----------------------------------------------------------------------------
(* LoadAGameByIndex, which main calls with the index 0 only, and                    *)
(* NxSys::LoadApplicationFile. *)

\* Only what lies right in the games' directory.
IsFromSystemPath(i) == ~disk[i].sub

\* OpenSystemFile: the version that is open since the first call, which stays open.
OpenSystemFile(i) == IF IsFromSystemPath(i) /\ cached[i] # 0 THEN cached[i] ELSE version[i]

Cached(i) == IF IsFromSystemPath(i) THEN [cached EXCEPT ![i] = OpenSystemFile(i)] ELSE cached

\* *games->first: there is none, or it was removed.
OpenFails ==
    /\ Idle /\ first \notin Existing
    /\ fate' = IF first = 0 THEN "undefined" ELSE "assertion"
    /\ UNCHANGED <<files, lists, cached, backing, process, mapped, active, pc>>

\* A file of another kind has no loader, and nothing is loaded.
OpenOther ==
    /\ Idle /\ first \in Existing /\ disk[first].ext = "other"
    /\ cached' = Cached(first)
    /\ backing' = NoFile
    /\ UNCHANGED <<files, lists, process, mapped, active, pc, fate>>

Open ==
    /\ Idle /\ first \in Existing /\ disk[first].ext # "other"
    /\ LET v == OpenSystemFile(first)
       IN /\ backing' = [file |-> first, version |-> v]
          /\ cached' = Cached(first)
          /\ fate' = LoaderFate(first, v)
    /\ pc' = "opened"
    /\ UNCHANGED <<files, lists, process, mapped, active>>

\* CheckNpdmPresence, and MetaProgram from GetNpdm.
Prepare ==
    /\ fate = "running" /\ pc = "opened"
    /\ LET i == backing.file
           v == backing.version
       IN IF ~HasExeFs(i, v) THEN fate' = WithoutNpdm(disk[i].ext) /\ UNCHANGED process
          ELSE LET npdm == NpdmOf(i, v)
               IN /\ fate' = IF MetaFate(npdm) # "running" THEN MetaFate(npdm)
                             ELSE IF npdm.wide THEN "running" ELSE "assertion"
                  /\ process' = [NoProgram EXCEPT
                                    !.meta = MetaOf(npdm),
                                    !.found = IF disk[i].ext = "xci" THEN CardOf(Content(i, v).card) ELSE NothingFound]
    /\ pc' = "prepared"
    /\ UNCHANGED <<files, lists, cached, backing, mapped, active>>

\* ProcessCreator::Initialize.  Only a title is loaded: CreateProcessMemory asserts
\* that no memory is in use, which a title's is from then on.
Initialize ==
    /\ fate = "running" /\ pc = "prepared"
    /\ LET i == backing.file
           v == backing.version
           nacp == NacpFate(ControlOf(i, v))
           modules == Content(i, v).modules
       IN /\ fate' = IF nacp # "running" THEN nacp
                     ELSE IF disk[i].ext = "nsp" /\ (mapped \/ ImageAsserts(modules, CodeStart)) THEN "assertion"
                     ELSE "running"
          /\ IF fate' = "running" /\ disk[i].ext = "nsp"
             THEN mapped' = TRUE /\ process' = [process EXCEPT !.image = GuestImage(modules, CodeStart)]
             ELSE UNCHANGED <<mapped, process>>
    /\ pc' = "mapped"
    /\ UNCHANGED <<files, lists, cached, backing, active>>

\* AllocateTlsHeapRegion clears a page of memory that a cartridge's load never
\* made; GetQolGame's details are recorded.
Finish ==
    /\ fate = "running" /\ pc = "mapped"
    /\ fate' = IF mapped THEN "running" ELSE "null pointer"
    /\ pc' = "idle"
    /\ UNCHANGED <<files, lists, cached, backing, process, mapped, active>>

LoadAGameByIndex == OpenFails \/ OpenOther \/ Open \/ Prepare \/ Initialize \/ Finish
-----------------------------------------------------------------------------
(* The application's other calls, and what happens to the files. *)

\* PickByName: the first of the games that match, or the choice as it was.
PickByName(matches) ==
    /\ Idle
    /\ chosen' = IF matches = {} THEN chosen ELSE Min(matches)
    /\ UNCHANGED <<files, first, cached, backing, process, mapped, active, pc, fate>>

\* ExtractIntoGameFs opens a title for itself; a cartridge's files are not
\* extracted.  The directories must be there already, and the ExeFS and the RomFS,
\* whose pointers are not looked at; the control data may be missing.
ExtractIntoGameFs ==
    /\ Idle /\ chosen \in Existing
    /\ disk[chosen].ext \in {"nsp", "xci"}
    /\ LET c == Content(chosen, version[chosen])
       IN fate' = IF LoaderFate(chosen, version[chosen]) # "running" THEN LoaderFate(chosen, version[chosen])
                  ELSE IF disk[chosen].ext = "xci" THEN "running"
                  ELSE IF ~c.folders THEN "exception"
                  ELSE IF ~HasExeFs(chosen, version[chosen]) \/ ~c.romfs THEN "null pointer" ELSE "running"
    /\ UNCHANGED <<files, lists, cached, backing, process, mapped, active, pc>>

\* SaveUserInformation: CommitToFile uses the pointer that it moved.
SaveUserInformation ==
    /\ Idle /\ fate' = "null pointer"
    /\ UNCHANGED <<files, lists, cached, backing, process, mapped, active, pc>>

StartApplication ==
    /\ Idle /\ ~active /\ active' = TRUE
    /\ UNCHANGED <<files, lists, cached, backing, process, mapped, pc, fate>>

\* The core creates the first thread: without memory there is no stack for it.
\* What follows is CoreScheduling's.
CreateThread ==
    /\ fate = "running" /\ active
    /\ active' = FALSE
    /\ fate' = IF mapped THEN "running" ELSE "exception"
    /\ UNCHANGED <<files, lists, cached, backing, process, mapped, pc>>

\* Another file takes a game's place, or the game is removed.
ReplaceFile(i) ==
    /\ changes < MaxChanges /\ version[i] < Len(disk[i].versions)
    /\ version' = [version EXCEPT ![i] = @ + 1]
    /\ changes' = changes + 1
    /\ UNCHANGED <<disk, lists, cached, backing, process, mapped, active, pc, fate>>

RemoveFile(i) ==
    /\ changes < MaxChanges /\ version[i] > 0
    /\ version' = [version EXCEPT ![i] = 0]
    /\ changes' = changes + 1
    /\ UNCHANGED <<disk, lists, cached, backing, process, mapped, active, pc, fate>>

Next ==
    \/ LoadAGameByIndex
    \/ \E matches \in SUBSET Existing : PickByName(matches)
    \/ ExtractIntoGameFs \/ SaveUserInformation \/ StartApplication \/ CreateThread
    \/ \E i \in Existing : ReplaceFile(i) \/ RemoveFile(i)

Spec == Init /\ [][Next]_vars
-----------------------------------------------------------------------------
\* What a load gives the process is what its file says: the system calls and
\* priorities of the metadata, a cartridge's first program, and every byte of the
\* modules that can arrive (meta_program.cpp:282, cartridge.cpp:131, nso_core.cpp:87).
ProcessFitsTitle ==
    fate = "running" /\ pc \in {"prepared", "mapped"} =>
        LET i == backing.file
            c == Content(i, backing.version)
        IN /\ MetaIsDecoded(NpdmOf(i, backing.version), process.meta)
           /\ disk[i].ext = "xci" => CardIsFirst(c.card, process.found)
           /\ disk[i].ext = "nsp" /\ pc = "mapped" => ImageIsWhole(c.modules, CodeStart, process.image)
=============================================================================
