--------------------------- MODULE InstallerProofs --------------------------
(***************************************************************************)
(* For every set of app folders, versions, languages and settings, and any *)
(* number of operations and crashes: types, that no operation destroys the *)
(* settings saved last, that app files of two versions never mix, and that *)
(* setup implements the atomic folder.                                     *)
(***************************************************************************)
EXTENDS Installer, TLAPS

Maybe == Settings \union {Absent}

\* Trees with settings, or nothing, where the settings belong.
Folders == {t \in Tree : t[Config] \in Maybe}

LEMMA ContentFacts ==
  /\ Absent \in Content /\ Absent \in Maybe /\ Maybe \subseteq Content
  /\ \A v \in Version : File(v) \in Content /\ File(v) # Absent
  /\ \A s \in Settings : s # Absent /\ s \in Maybe
<1>1. \A v \in Version : File(v) \in Content
  BY DEF Content
<1>2. \A v \in Version : File(v).kind = "app" /\ Absent.kind = "none"
  BY DEF File, Absent
<1>3. \A s \in Settings : s.kind = "config" /\ Absent.kind = "none"
  BY DEF Settings, Absent
<1> QED BY <1>1, <1>2, <1>3 DEF Content, Maybe

LEMMA NameFacts == Config \in Name /\ Exe \in Name /\ Config \notin App /\ App \subseteq Name
BY TreeAssumption DEF Name

LEMMA EmptyTyped == Empty \in Folders /\ \A n \in Name : Empty[n] = Absent
BY ContentFacts, NameFacts DEF Folders, Tree, Empty

LEMMA FolderExcept ==
  ASSUME NEW t \in Folders, NEW n \in Name, NEW c \in Content, n = Config => c \in Maybe
  PROVE  /\ [t EXCEPT ![n] = c] \in Folders
         /\ \A m \in Name : [t EXCEPT ![n] = c][m] = IF m = n THEN c ELSE t[m]
BY NameFacts DEF Folders, Tree

LEMMA FolderEntries ==
  ASSUME NEW t \in Folders
  PROVE  t \in Tree /\ t[Config] \in Maybe /\ \A n \in Name : t[n] \in Content
BY DEF Folders, Tree

LEMMA WholeTyped ==
  ASSUME NEW v \in Version, NEW s \in Maybe
  PROVE  Whole(v, s) \in Folders /\ Whole(v, s)[Config] = s
<1>1. \A n \in Name : (CASE n = Config -> s [] n \in Payload[v] -> File(v) [] OTHER -> Absent) \in Content
  BY ContentFacts, NameFacts, TreeAssumption
<1>2. Config \notin Payload[v]
  BY NameFacts, TreeAssumption
<1> QED BY <1>1, <1>2, ContentFacts, NameFacts DEF Folders, Tree, Whole

LEMMA InLanguageTyped ==
  ASSUME NEW s \in Maybe, NEW l \in Language
  PROVE  InLanguage(s, l) \in Maybe
<1>1. CASE s = Absent
  BY <1>1, TreeAssumption, ContentFacts DEF InLanguage, Settings, Maybe
<1>2. CASE s \in Settings
  BY <1>2, TreeAssumption, ContentFacts DEF InLanguage, Settings, Maybe
<1> QED BY <1>1, <1>2 DEF Maybe

-----------------------------------------------------------------------------
(* Types *)

Swapping == {"out", "in", "undo", "back"}

\* The journal is on disk while entries move.
Phases ==
  /\ setup.pc = "journal" => work = "bare"
  /\ setup.pc \in Swapping => work = "open"
  /\ setup.pc = "keep" => work \in {"open", "committed"}
  /\ setup.kind = "install" /\ setup.pc \in {"backup", "copy"} => setup.version \in Version

DiskTyped ==
  /\ root \in Folders /\ previous \in Folders /\ stage \in Folders
  /\ backups \subseteq Folders /\ setup.chosen \in Folders
  /\ failed \subseteq Content /\ archive \subseteq Content
  /\ latest \in Maybe

FlagsTyped ==
  /\ present \in BOOLEAN /\ running \in BOOLEAN /\ removing \in BOOLEAN
  /\ ruined \in BOOLEAN
  /\ work \in {"none", "bare", "open", "committed"}
  /\ journal \in [before : SUBSET Name, after : SUBSET Name]
  /\ setup \in SetupRecord
  /\ edits \in Edit /\ starts \in Nat /\ crashes \in Nat

Voids ==
  /\ ~present => root = Empty
  /\ work \in {"none", "bare"} => previous = Empty /\ failed = {}

Sound == Phases /\ DiskTyped /\ FlagsTyped /\ Voids

LEMMA SoundTypes == Sound => TypeOK
BY FolderEntries DEF Sound, Phases, DiskTyped, FlagsTyped, Voids, TypeOK, Folders, Maybe

LEMMA SetupFacts ==
  /\ NoSetup \in SetupRecord
  /\ \A k \in Kind, v \in Version \union {0}, l \in Language, t \in Tree, p \in Pc, ns \in SUBSET Name :
       [pc |-> p, kind |-> k, version |-> v, language |-> l, chosen |-> t, left |-> ns,
        entry |-> Exe] \in SetupRecord
  /\ NoSetup.pc = "idle" /\ NoSetup.kind = "recover" /\ NoSetup.chosen = Empty
BY NameFacts, EmptyTyped, InstallerAssumption DEF SetupRecord, NoSetup, Pc, Kind, Folders

\* What a change of the program counter, and of what is left, keeps.
LEMMA SetupChanges ==
  ASSUME setup \in SetupRecord, NEW p \in Pc, NEW ns \in SUBSET Name, NEW e \in Name
  PROVE  /\ [setup EXCEPT !.pc = p] \in SetupRecord
         /\ [setup EXCEPT !.left = ns] \in SetupRecord
         /\ [setup EXCEPT !.pc = p, !.left = ns] \in SetupRecord
         /\ [setup EXCEPT !.pc = p, !.entry = e] \in SetupRecord
         /\ [setup EXCEPT !.pc = p, !.left = ns, !.entry = e] \in SetupRecord
BY DEF SetupRecord

LEMMA InitSound == Init => Sound
<1> SUFFICES ASSUME Init PROVE Sound
  OBVIOUS
<1>1. FirstSettings \in Settings
  BY TreeAssumption, InstallerAssumption DEF FirstSettings, Settings
<1>2. \A v \in Version : Whole(v, FirstSettings) \in Folders
  BY <1>1, WholeTyped, ContentFacts
<1>3. setup = NoSetup /\ setup.pc = "idle" /\ setup.kind = "recover" /\ setup.chosen = Empty
  BY SetupFacts DEF Init
<1>4. Phases
  BY <1>3 DEF Phases, Swapping
<1>5. root \in Folders /\ backups \subseteq Folders /\ previous \in Folders /\ stage \in Folders
  BY <1>2, EmptyTyped DEF Init
<1>6. DiskTyped
  BY <1>3, <1>5, EmptyTyped, FolderEntries DEF DiskTyped, Init
<1>7. FlagsTyped
  BY <1>3, SetupFacts, TreeAssumption DEF FlagsTyped, Init, NoJournal
<1> QED BY <1>4, <1>6, <1>7 DEF Sound, Voids, Init

\* What is removed, and what is not.
LEMMA Removal ==
  ASSUME Sound, RemoveFolder
  PROVE  /\ root' \in Folders /\ \A n \in Name : root'[n] \in {root[n], Absent}
         /\ latest' = Absent
         /\ ~ruined' => root' = Empty /\ present' = FALSE
         /\ removing /\ removing' = FALSE
         /\ UNCHANGED <<backups, work, journal, previous, failed, archive, running, setup, stage,
                        edits, starts, crashes>>
<1>1. PICK gone \in SUBSET Name :
        root' = [n \in Name |-> IF n \in gone THEN Absent ELSE root[n]]
  BY DEF RemoveFolder
<1>2. \A n \in Name : root[n] \in Content
  BY FolderEntries DEF Sound, DiskTyped
<1>3. root' \in Folders
  BY <1>1, <1>2, NameFacts, ContentFacts DEF Folders, Tree, Sound, DiskTyped
<1>4. ~ruined' => root' = Empty /\ present' = FALSE
  BY DEF RemoveFolder
<1>5. /\ latest' = Absent /\ removing /\ removing' = FALSE
      /\ UNCHANGED <<backups, work, journal, previous, failed, archive, running, setup, stage,
                     edits, starts, crashes>>
  BY DEF RemoveFolder
<1> QED BY <1>1, <1>3, <1>4, <1>5, NameFacts

\* Steps of the app, and those that only move setup on.
LEMMA QuietSound ==
  ASSUME Sound, Launch \/ Quit \/ Save \/ Check \/ Abort \/ OutDone \/ Fail \/ UndoDone \/ GiveUp
                \/ Uninstall
  PROVE  Sound'
<1> USE DEF Sound
<1>1. CASE Launch \/ Quit \/ Uninstall
  <2>1. /\ UNCHANGED <<disk, ruined, setup, stage, edits, latest, crashes>>
        /\ running' \in BOOLEAN /\ removing' \in BOOLEAN /\ starts' \in Nat
    <3>1. CASE Launch
      BY <3>1 DEF Launch, FlagsTyped
    <3>2. CASE Quit
      BY <3>2 DEF Quit, FlagsTyped
    <3>3. CASE Uninstall
      BY <3>3 DEF Uninstall, FlagsTyped
    <3> QED BY <1>1, <3>1, <3>2, <3>3
  <2> QED BY <2>1 DEF disk, Phases, DiskTyped, FlagsTyped, Voids
<1>2. CASE Save
  <2> DEFINE s == [kind |-> "config", edit |-> edits + 1, language |-> LanguageOf(root[Config])]
  <2>1. /\ root' = [root EXCEPT ![Config] = s] /\ latest' = s /\ edits' = edits + 1
        /\ edits + 1 \in Edit /\ present
    BY <1>2 DEF Save
  <2>2. root[Config] \in Maybe
    BY FolderEntries DEF DiskTyped
  <2>3. LanguageOf(root[Config]) \in Language
    BY <2>2, InstallerAssumption DEF LanguageOf, Maybe, Settings
  <2>4. s \in Settings
    BY <2>1, <2>3 DEF Settings
  <2> HIDE DEF s
  <2>5. root' \in Folders
    BY <2>1, <2>4, FolderExcept, ContentFacts, NameFacts DEF DiskTyped
  <2>6. UNCHANGED <<present, running, removing, ruined, backups, work, journal, previous, failed,
                    archive, setup, stage, starts, crashes>>
    BY <1>2 DEF Save
  <2>7. DiskTyped'
    BY <2>1, <2>4, <2>5, <2>6, ContentFacts DEF DiskTyped
  <2> QED BY <2>1, <2>6, <2>7 DEF Phases, FlagsTyped, Voids
<1>3. CASE Check \/ Abort \/ UndoDone \/ GiveUp
  <2>1. \E p \in {"discard", "open", "keep"} : setup' = [setup EXCEPT !.pc = p] /\ (p = "keep" => work = "open")
    BY <1>3 DEF Check, Abort, UndoDone, GiveUp, Goto, Phases, Swapping
  <2>2. PICK p \in {"discard", "open", "keep"} : setup' = [setup EXCEPT !.pc = p] /\ (p = "keep" => work = "open")
    BY <2>1
  <2>3. UNCHANGED <<disk, running, removing, ruined, stage, edits, latest, starts, crashes>>
    BY <1>3 DEF Check, Abort, UndoDone, GiveUp
  <2>4. setup' \in SetupRecord /\ setup'.pc = p /\ setup'.chosen = setup.chosen
    BY <2>2 DEF SetupRecord, FlagsTyped, Pc
  <2> QED BY <2>2, <2>3, <2>4 DEF disk, Phases, Swapping, DiskTyped, FlagsTyped, Voids
<1>4. CASE OutDone \/ Fail
  <2>1. PICK p \in {"in", "undo"}, ns \in SUBSET Name : setup' = [setup EXCEPT !.pc = p, !.left = ns]
    BY <1>4 DEF OutDone, Fail, FlagsTyped
  <2>2. UNCHANGED <<disk, running, removing, ruined, stage, edits, latest, starts, crashes>> /\ work = "open"
    BY <1>4 DEF OutDone, Fail, Phases, Swapping
  <2>3. setup' \in SetupRecord /\ setup'.pc = p /\ setup'.chosen = setup.chosen
    BY <2>1 DEF SetupRecord, FlagsTyped, Pc
  <2> QED BY <2>1, <2>2, <2>3 DEF disk, Phases, Swapping, DiskTyped, FlagsTyped, Voids
<1> QED BY <1>1, <1>2, <1>3, <1>4

\* An operation up to its replacement, and its end.
LEMMA StagingSound ==
  ASSUME Sound, Start \/ Backup \/ Copy \/ Discard \/ Crash
  PROVE  Sound'
<1> USE DEF Sound
<1>1. CASE Start
  <2>1. PICK kind \in Kind, v \in Version \union {0}, l \in Language, t \in backups \union {Empty} :
          Begin(kind, v, l, t) /\ (kind = "install" => v \in Version)
    BY <1>1, InstallerAssumption DEF Start, Kind
  <2> DEFINE ns == IF kind = "recover" THEN journal.before \union journal.after ELSE {}
  <2>2. /\ setup' = [pc |-> First(kind), kind |-> kind, version |-> v, language |-> l,
                     chosen |-> t, left |-> ns, entry |-> Exe]
        /\ starts' = starts + 1
        /\ UNCHANGED <<disk, running, removing, ruined, stage, edits, latest, crashes>>
    BY <2>1 DEF Begin
  <2>3. ns \subseteq Name
    BY DEF FlagsTyped
  <2>4. t \in Folders /\ t \in Tree
    BY EmptyTyped, FolderEntries DEF DiskTyped
  <2>5. First(kind) \in {"undo", "keep", "idle", "copy", "backup"}
    BY DEF First
  <2>6. (First(kind) = "undo" => work = "open") /\ (First(kind) = "keep" => work = "committed")
    BY DEF First
  <2> HIDE DEF ns
  <2>7. setup' \in SetupRecord
    BY <2>2, <2>3, <2>4, <2>5, SetupFacts DEF Pc
  <2>8. setup'.pc = First(kind) /\ setup'.kind = kind /\ setup'.version = v /\ setup'.chosen = t
    BY <2>2
  <2>9. Phases'
    BY <2>1, <2>2, <2>5, <2>6, <2>8 DEF Phases, Swapping, disk
  <2>10. DiskTyped'
    BY <2>2, <2>4, <2>8 DEF DiskTyped, disk
  <2> QED BY <2>2, <2>7, <2>9, <2>10 DEF FlagsTyped, Voids, disk
<1>2. CASE Backup
  <2>1. PICK p \in {"idle", "copy"} : setup' = [setup EXCEPT !.pc = p]
    BY <1>2 DEF Backup, Goto
  <2>2. UNCHANGED <<root, present, work, journal, previous, failed, archive,
                    running, removing, ruined, stage, edits, latest, starts, crashes>>
    BY <1>2 DEF Backup
  <2>3. backups' \subseteq Folders
    BY <1>2 DEF Backup, DiskTyped
  <2>4. /\ setup' \in SetupRecord /\ setup'.pc = p /\ setup'.chosen = setup.chosen
        /\ setup'.kind = setup.kind /\ setup'.version = setup.version
    BY <2>1 DEF SetupRecord, FlagsTyped, Pc
  <2>5. setup.pc = "backup"
    BY <1>2 DEF Backup
  <2> QED BY <2>2, <2>3, <2>4, <2>5 DEF Phases, Swapping, DiskTyped, FlagsTyped, Voids
<1>3. CASE Copy
  <2>1. PICK s \in Settings : stage' = Staged(s)
    BY <1>3 DEF Copy
  <2>2. stage' \in Folders
    <3>1. CASE setup.kind = "install"
      <4>1. setup.version \in Version /\ setup.language \in Language
        BY <1>3, <3>1 DEF Phases, Copy, FlagsTyped, SetupRecord
      <4>2. InLanguage(root[Config], setup.language) \in Maybe
        BY <4>1, InLanguageTyped, FolderEntries DEF DiskTyped
      <4> QED BY <2>1, <3>1, <4>1, <4>2, WholeTyped DEF Staged
    <3>2. CASE setup.kind = "restore"
      BY <2>1, <3>2 DEF Staged, DiskTyped
    <3>3. CASE setup.kind # "install" /\ setup.kind # "restore"
      <4>1. stage' = [root EXCEPT ![Config] = s]
        BY <2>1, <3>3 DEF Staged
      <4> QED BY <4>1, FolderExcept, ContentFacts, NameFacts DEF DiskTyped
    <3> QED BY <3>1, <3>2, <3>3
  <2>3. PICK p \in {"check", "open"} : setup' = [NoSetup EXCEPT !.kind = setup.kind, !.pc = p]
    BY <1>3 DEF Copy
  <2>4. setup' \in SetupRecord /\ setup'.pc = p /\ setup'.chosen = Empty
    BY <2>3, SetupFacts DEF SetupRecord, FlagsTyped, Pc
  <2>5. UNCHANGED <<disk, running, removing, ruined, edits, latest, starts, crashes>>
    BY <1>3 DEF Copy
  <2> QED BY <2>2, <2>4, <2>5, EmptyTyped DEF disk, Phases, Swapping, DiskTyped, FlagsTyped, Voids
<1>4. CASE Discard
  BY <1>4, SetupFacts, EmptyTyped DEF Discard, disk, Phases, Swapping, DiskTyped, FlagsTyped, Voids
<1>5. CASE Crash
  <2>1. running' \in BOOLEAN /\ crashes' = crashes + 1 /\ setup' = NoSetup /\ stage' = Empty
    BY <1>5 DEF Crash, FlagsTyped
  <2>2. UNCHANGED <<disk, removing, ruined, edits, latest, starts>>
    BY <1>5 DEF Crash
  <2> QED BY <2>1, <2>2, SetupFacts, EmptyTyped DEF disk, Phases, Swapping, DiskTyped, FlagsTyped, Voids
<1> QED BY <1>1, <1>2, <1>3, <1>4, <1>5

\* The journaled swap.
LEMMA SwapSound ==
  ASSUME Sound, \/ Open \/ WriteJournal \/ Commit
                \/ \E n \in Name : MoveOut(n) \/ MoveIn(n)
  PROVE  Sound'
<1> USE DEF Sound
<1>1. CASE Open
  <2>1. PICK p \in {"discard", "journal"} : setup' = [setup EXCEPT !.pc = p]
                                            /\ (p = "journal" => work' = "bare")
    BY <1>1 DEF Open, Goto
  <2>2. /\ setup' \in SetupRecord /\ setup'.pc = p /\ setup'.chosen = setup.chosen
    BY <2>1 DEF SetupRecord, FlagsTyped, Pc
  <2>3. UNCHANGED <<root, backups, archive, running, removing, ruined, stage, edits, latest, starts, crashes>>
    BY <1>1 DEF Open
  <2>4. present' = TRUE
    BY <1>1 DEF Open
  <2>5. \/ UNCHANGED <<work, journal, previous, failed>>
        \/ /\ work' = "bare" /\ previous' = Empty /\ failed' = {}
           /\ journal' = [before |-> Included(root), after |-> Included(stage)]
    BY <1>1 DEF Open
  <2>6. Included(root) \subseteq Name /\ Included(stage) \subseteq Name
    BY DEF Included, Top
  <2>7. DiskTyped'
    BY <2>2, <2>3, <2>5, EmptyTyped DEF DiskTyped
  <2>8. FlagsTyped'
    BY <2>2, <2>3, <2>4, <2>5, <2>6 DEF FlagsTyped
  <2> QED BY <2>1, <2>2, <2>4, <2>5, <2>7, <2>8 DEF Phases, Swapping, Voids
<1>2. CASE WriteJournal
  <2>1. PICK p \in {"discard", "out"}, ns \in SUBSET Name :
           /\ setup' \in {[setup EXCEPT !.pc = p], [setup EXCEPT !.pc = p, !.left = ns]}
           /\ IF p = "out" THEN work' = "open" ELSE work' = work
    BY <1>2 DEF WriteJournal, Goto, FlagsTyped
  <2>2. setup' \in SetupRecord /\ setup'.pc = p /\ setup'.chosen = setup.chosen
    BY <2>1 DEF SetupRecord, FlagsTyped, Pc
  <2>3. UNCHANGED <<root, present, backups, journal, previous, failed, archive, running, removing, ruined,
                    stage, edits, latest, starts, crashes>>
    BY <1>2 DEF WriteJournal
  <2> QED BY <2>1, <2>2, <2>3 DEF Phases, Swapping, DiskTyped, FlagsTyped, Voids
<1>3. CASE Commit
  <2>1. setup' = [setup EXCEPT !.pc = "keep"] /\ work' = "committed" /\ setup.pc = "in"
    BY <1>3 DEF Commit, Goto
  <2>2. setup' \in SetupRecord /\ setup'.pc = "keep" /\ setup'.chosen = setup.chosen
    BY <2>1 DEF SetupRecord, FlagsTyped, Pc
  <2>3. UNCHANGED <<root, present, backups, journal, previous, failed, archive, running, removing, ruined,
                    stage, edits, latest, starts, crashes>>
    BY <1>3 DEF Commit
  <2> QED BY <2>1, <2>2, <2>3 DEF Phases, Swapping, DiskTyped, FlagsTyped, Voids
<1>4. ASSUME NEW n \in Name, MoveOut(n) PROVE Sound'
  <2>1. /\ previous' = [previous EXCEPT ![n] = root[n]] /\ root' = [root EXCEPT ![n] = Absent]
        /\ setup' = [setup EXCEPT !.left = setup.left \ {n}]
        /\ UNCHANGED <<present, backups, work, journal, failed, archive, running, removing, ruined,
                       stage, edits, latest, starts, crashes>>
        /\ setup.pc = "out"
    BY <1>4 DEF MoveOut
  <2>2. previous' \in Folders /\ root' \in Folders
    BY <2>1, FolderExcept, FolderEntries, ContentFacts DEF DiskTyped
  <2>3. /\ setup' \in SetupRecord /\ setup'.pc = setup.pc /\ setup'.chosen = setup.chosen
    BY <2>1 DEF SetupRecord, FlagsTyped
  <2>4. root = Empty => root' = Empty
    BY <2>1 DEF Empty
  <2>5. work = "open"
    BY <2>1 DEF Phases, Swapping
  <2> QED BY <2>1, <2>2, <2>3, <2>4, <2>5 DEF Phases, Swapping, DiskTyped, FlagsTyped, Voids
<1>5. ASSUME NEW n \in Name, MoveIn(n) PROVE Sound'
  <2>1. /\ stage' = [stage EXCEPT ![n] = Absent] /\ root' = [root EXCEPT ![n] = stage[n]]
        /\ setup' = [setup EXCEPT !.left = setup.left \ {n}] /\ present
        /\ UNCHANGED <<present, backups, work, journal, previous, failed, archive, running,
                       removing, ruined, edits, latest, starts, crashes>>
        /\ setup.pc = "in"
    BY <1>5 DEF MoveIn
  <2>2. stage' \in Folders /\ root' \in Folders
    BY <2>1, FolderExcept, FolderEntries, ContentFacts DEF DiskTyped
  <2>3. /\ setup' \in SetupRecord /\ setup'.pc = setup.pc /\ setup'.chosen = setup.chosen
    BY <2>1 DEF SetupRecord, FlagsTyped
  <2> QED BY <2>1, <2>2, <2>3 DEF Phases, Swapping, DiskTyped, FlagsTyped, Voids
<1> QED BY <1>1, <1>2, <1>3, <1>4, <1>5

\* Recovery, and removal.
LEMMA UndoSound ==
  ASSUME Sound, \/ Back \/ Keep \/ RemoveFolder
                \/ \E n \in Name : Undo(n)
  PROVE  Sound'
<1> USE DEF Sound
<1>1. CASE Back
  <2> DEFINE n == setup.entry
  <2>1. /\ previous[n] # Absent => present /\ root[n] = Absent
        /\ root' = IF previous[n] = Absent THEN root ELSE [root EXCEPT ![n] = previous[n]]
        /\ previous' = [previous EXCEPT ![n] = Absent]
        /\ setup' = [setup EXCEPT !.pc = "undo", !.left = setup.left \ {n}, !.entry = Exe]
        /\ setup.pc = "back"
        /\ UNCHANGED <<present, backups, work, journal, failed, archive, running, removing, ruined,
                       stage, edits, latest, starts, crashes>>
    BY <1>1 DEF Back
  <2>2. n \in Name
    BY DEF FlagsTyped, SetupRecord
  <2>3. setup' \in SetupRecord /\ setup'.pc = "undo" /\ setup'.chosen = setup.chosen
    BY <2>1, NameFacts DEF SetupRecord, FlagsTyped, Pc
  <2> HIDE DEF n
  <2>4. previous' \in Folders /\ root' \in Folders
    BY <2>1, <2>2, FolderExcept, FolderEntries, ContentFacts DEF DiskTyped
  <2>5. work = "open"
    BY <2>1 DEF Phases, Swapping
  <2> QED BY <2>1, <2>3, <2>4, <2>5 DEF Phases, Swapping, DiskTyped, FlagsTyped, Voids
<1>2. CASE Keep
  <2>1. setup' = [setup EXCEPT !.pc = "discard"]
    BY <1>2 DEF Keep, Goto
  <2>2. setup' \in SetupRecord /\ setup'.pc = "discard" /\ setup'.chosen = setup.chosen
    BY <2>1 DEF SetupRecord, FlagsTyped, Pc
  <2>3. archive' \subseteq Content
    BY <1>2, FolderEntries DEF Keep, DiskTyped
  <2>4. /\ work' = "none" /\ journal' = NoJournal /\ previous' = Empty /\ failed' = {}
        /\ UNCHANGED <<root, present, backups, running, removing, ruined, stage, edits, latest,
                       starts, crashes>>
    BY <1>2 DEF Keep
  <2> QED BY <2>2, <2>3, <2>4, EmptyTyped DEF Phases, Swapping, DiskTyped, FlagsTyped, Voids, NoJournal
<1>3. CASE RemoveFolder
  <2>1. /\ root' \in Folders /\ latest' = Absent
        /\ UNCHANGED <<backups, work, journal, previous, failed, archive, running, setup, stage,
                       edits, starts, crashes>>
    BY <1>3, Removal
  <2>2. removing' = FALSE /\ present' \in BOOLEAN /\ (root' # Empty => present') /\ ruined' \in BOOLEAN
    BY <1>3 DEF RemoveFolder, FlagsTyped
  <2> QED BY <2>1, <2>2, ContentFacts DEF Phases, Swapping, DiskTyped, FlagsTyped, Voids
<1>4. ASSUME NEW n \in Name, Undo(n) PROVE Sound'
  <2>1. setup.pc = "undo" /\ work = "open"
    BY <1>4 DEF Undo, Phases, Swapping
  <2>2. \/ failed' = failed \union {root[n]} /\ root' = [root EXCEPT ![n] = Absent]
        \/ UNCHANGED <<failed, root>>
    BY <1>4 DEF Undo
  <2>3. \/ setup' = [setup EXCEPT !.pc = "back", !.entry = n]
        \/ setup' = [setup EXCEPT !.left = setup.left \ {n}]
    BY <1>4 DEF Undo
  <2>4. setup' \in SetupRecord /\ setup'.pc \in {"undo", "back"} /\ setup'.chosen = setup.chosen
    BY <2>1, <2>3 DEF SetupRecord, FlagsTyped, Pc
  <2>5. UNCHANGED <<present, backups, work, journal, previous, archive, running, removing, ruined,
                    stage, edits, latest, starts, crashes>>
    BY <1>4 DEF Undo
  <2>6. root' \in Folders /\ failed' \subseteq Content
    BY <2>2, FolderExcept, FolderEntries, ContentFacts DEF DiskTyped
  <2>7. root = Empty => root' = Empty
    BY <2>2 DEF Empty
  <2> QED BY <2>1, <2>4, <2>5, <2>6, <2>7 DEF Phases, Swapping, DiskTyped, FlagsTyped, Voids
<1> QED BY <1>1, <1>2, <1>3, <1>4

LEMMA StepSound == Sound /\ [Next]_vars => Sound'
<1> SUFFICES ASSUME Sound, [Next]_vars PROVE Sound'
  OBVIOUS
<1>1. CASE UNCHANGED vars
  BY <1>1 DEF vars, disk, Sound, Phases, DiskTyped, FlagsTyped, Voids
<1> QED BY <1>1, QuietSound, StagingSound, SwapSound, UndoSound DEF Next

\* Every variable keeps its type, an absent folder is empty and a work
\* directory holds nothing before its journal is written (Recovery.cs).
THEOREM TypeCorrect == Spec => []TypeOK
<1>1. Spec => []Sound
  BY InitSound, StepSound, PTL DEF Spec
<1> QED BY <1>1, SoundTypes, PTL

-----------------------------------------------------------------------------
(* The settings saved last *)

\* What is moved out goes where nothing lies.
OutFree == setup.pc = "out" => \A n \in setup.left : previous[n] = Absent

\* Where displaced entries can be found.
Places == Contents(root) \union Contents(previous) \union failed \union archive

LEMMA NothingLost ==
  ASSUME SettingsKept, latest' = latest,
         \A n \in Name : root[n] # Absent => root[n] \in Places',
         \A n \in Name : previous[n] # Absent => previous[n] \in Places',
         failed \union archive \subseteq Places'
  PROVE  SettingsKept'
<1>1. SettingsKept' <=> latest' = Absent \/ latest' \in Places'
  BY DEF SettingsKept, Places
<1>2. latest = Absent \/ latest \in Contents(root) \union Contents(previous) \union failed \union archive
  BY DEF SettingsKept
<1>3. CASE latest # Absent
  <2>1. latest \in failed \union archive \/ (\E n \in Name : latest = root[n] \/ latest = previous[n])
    BY <1>2, <1>3 DEF Contents
  <2>2. latest \in Places'
    BY <1>3, <2>1
  <2> QED BY <1>1, <2>2
<1> QED BY <1>1, <1>3

LEMMA PlacesOf ==
  /\ \A n \in Name : root'[n] \in Places' /\ previous'[n] \in Places'
  /\ failed' \subseteq Places' /\ archive' \subseteq Places'
<1>1. Places' = Contents(root') \union Contents(previous') \union failed' \union archive'
  BY DEF Places
<1> QED BY <1>1 DEF Contents

LEMMA InitKept == Init => OutFree /\ SettingsKept
<1> SUFFICES ASSUME Init PROVE OutFree /\ SettingsKept
  OBVIOUS
<1>1. latest = root[Config]
  BY DEF Init
<1> QED BY <1>1, NameFacts, SetupFacts DEF Init, OutFree, SettingsKept, Contents

\* Steps that move no entry.
LEMMA QuietKept ==
  ASSUME Sound, OutFree, SettingsKept,
         \/ Launch \/ Quit \/ Start \/ Backup \/ Copy \/ Check \/ Abort \/ WriteJournal
         \/ OutDone \/ Commit \/ Fail \/ UndoDone \/ GiveUp \/ Discard \/ Crash \/ Uninstall
  PROVE  OutFree' /\ SettingsKept'
<1>1. UNCHANGED <<root, previous, failed, archive, latest>>
  BY DEF Launch, Quit, Start, Begin, Backup, Copy, Check, Abort, WriteJournal, OutDone, Commit,
         Fail, UndoDone, GiveUp, Discard, Crash, Uninstall, disk
<1>2. SettingsKept'
  BY <1>1 DEF SettingsKept
<1>3. setup \in SetupRecord
  BY DEF Sound, FlagsTyped
<1>4. CASE Launch \/ Quit \/ Uninstall
  <2>1. UNCHANGED <<setup, previous>>
    BY <1>1, <1>4 DEF Launch, Quit, Uninstall
  <2> QED BY <1>2, <2>1 DEF OutFree
<1>5. CASE WriteJournal
  <2>1. \A n \in Name : previous[n] = Absent
    BY <1>5, EmptyTyped DEF WriteJournal, Sound, Phases, Voids
  <2>2. setup.left \subseteq Name /\ journal.before \subseteq Name
    BY <1>3 DEF SetupRecord, Sound, FlagsTyped
  <2>3. setup' = [setup EXCEPT !.pc = "out", !.left = journal.before]
        \/ setup' = [setup EXCEPT !.pc = "discard"]
    BY <1>5 DEF WriteJournal, Goto
  <2>4. setup'.left \subseteq Name
    BY <1>3, <2>2, <2>3 DEF SetupRecord
  <2> QED BY <1>1, <1>2, <2>1, <2>4 DEF OutFree
<1>6. CASE Start
  <2>1. PICK kind \in Kind, v \in Version \union {0}, l \in Language, t \in backups \union {Empty} :
          Begin(kind, v, l, t)
    BY <1>6, InstallerAssumption DEF Start, Kind
  <2>2. setup'.pc # "out"
    BY <2>1 DEF Begin, First
  <2> QED BY <1>2, <2>2 DEF OutFree
<1>7. CASE Backup \/ Copy \/ Check \/ Abort \/ OutDone \/ Commit \/ Fail \/ UndoDone \/ GiveUp
           \/ Discard \/ Crash
  <2>1. setup'.pc # "out"
    BY <1>3, <1>7, SetupFacts DEF Backup, Copy, Check, Abort, OutDone, Commit, Fail, UndoDone,
         GiveUp, Discard, Crash, Goto, SetupRecord, NoSetup
  <2> QED BY <1>2, <2>1 DEF OutFree
<1> QED BY <1>2, <1>4, <1>5, <1>6, <1>7

LEMMA MovingKept ==
  ASSUME Sound, OutFree, SettingsKept,
         \/ Save \/ Open \/ Back \/ Keep \/ RemoveFolder
         \/ \E n \in Name : MoveOut(n) \/ MoveIn(n) \/ Undo(n)
  PROVE  OutFree' /\ SettingsKept'
<1> USE DEF Sound
<1>s. setup \in SetupRecord
  BY DEF FlagsTyped
<1>d. root \in Folders /\ previous \in Folders
  BY DEF DiskTyped
<1>1. CASE Save
  <2>1. /\ root' = [root EXCEPT ![Config] = latest'] /\ UNCHANGED <<previous, setup>>
    BY <1>1 DEF Save
  <2>2. root'[Config] = latest'
    BY <1>d, <2>1, NameFacts DEF Folders, Tree
  <2> QED BY <2>1, <2>2, NameFacts DEF OutFree, SettingsKept, Contents
<1>2. CASE RemoveFolder
  BY <1>2, Removal DEF OutFree, SettingsKept
<1>3. CASE Open
  <2>1. setup'.pc # "out"
    BY <1>3, <1>s DEF Open, Goto, SetupRecord
  <2>2. UNCHANGED <<root, archive, latest>>
    BY <1>3 DEF Open
  <2>3. CASE work # "none"
    BY <1>3, <2>1, <2>2, <2>3 DEF Open, OutFree, SettingsKept
  <2>4. CASE work = "none"
    <3>1. previous' = previous /\ failed' = failed
      BY <1>3, <2>4 DEF Open, Voids
    <3> QED BY <2>1, <2>2, <3>1 DEF OutFree, SettingsKept
  <2> QED BY <2>3, <2>4
<1>4. CASE Back
  <2> DEFINE n == setup.entry
  <2>1. /\ previous[n] # Absent => root[n] = Absent
        /\ root' = IF previous[n] = Absent THEN root ELSE [root EXCEPT ![n] = previous[n]]
        /\ previous' = [previous EXCEPT ![n] = Absent]
        /\ setup' = [setup EXCEPT !.pc = "undo", !.left = setup.left \ {n}, !.entry = Exe]
        /\ UNCHANGED <<failed, archive, latest>>
    BY <1>4 DEF Back
  <2>2. n \in Name
    BY <1>s DEF SetupRecord
  <2>3. setup'.pc = "undo"
    BY <1>s, <2>1 DEF SetupRecord
  <2> HIDE DEF n
  <2>4. \A m \in Name : m # n => root'[m] = root[m] /\ previous'[m] = previous[m]
    BY <1>d, <2>1, <2>2 DEF Folders, Tree
  <2>5. previous[n] # Absent => root'[n] = previous[n]
    BY <1>d, <2>1, <2>2 DEF Folders, Tree
  <2>6. root[n] # Absent => root'[n] = root[n]
    BY <2>1
  <2>7. \A m \in Name : root[m] # Absent => root[m] \in Places'
    BY <2>4, <2>6, PlacesOf
  <2>8. \A m \in Name : previous[m] # Absent => previous[m] \in Places'
    BY <2>2, <2>4, <2>5, PlacesOf
  <2> QED BY <2>1, <2>3, <2>7, <2>8, NothingLost, PlacesOf DEF OutFree
<1>5. CASE Keep
  <2>1. setup'.pc = "discard"
    BY <1>5, <1>s DEF Keep, Goto, SetupRecord
  <2>2. /\ archive' = archive \union failed \union {previous[n] : n \in Name}
        /\ UNCHANGED <<root, latest>>
    BY <1>5 DEF Keep
  <2>3. \A n \in Name : root[n] \in Places' /\ previous[n] \in Places'
    BY <2>2, PlacesOf
  <2>4. failed \union archive \subseteq Places'
    BY <2>2, PlacesOf
  <2> QED BY <2>1, <2>2, <2>3, <2>4, NothingLost DEF OutFree
<1>6. ASSUME NEW n \in Name, MoveOut(n) PROVE OutFree' /\ SettingsKept'
  <2>1. /\ previous' = [previous EXCEPT ![n] = root[n]] /\ root' = [root EXCEPT ![n] = Absent]
        /\ setup' = [setup EXCEPT !.left = setup.left \ {n}]
        /\ UNCHANGED <<failed, archive, latest>>
        /\ setup.pc = "out" /\ n \in setup.left
    BY <1>6 DEF MoveOut
  <2>2. setup'.left = setup.left \ {n} /\ setup.left \subseteq Name
    BY <1>s, <2>1 DEF SetupRecord
  <2>3. \A m \in Name : m # n => root'[m] = root[m] /\ previous'[m] = previous[m]
    BY <1>d, <2>1 DEF Folders, Tree
  <2>4. previous[n] = Absent /\ previous'[n] = root[n]
    BY <1>d, <2>1 DEF Folders, Tree, OutFree
  <2>5. OutFree'
    BY <2>1, <2>2, <2>3 DEF OutFree
  <2>6. \A m \in Name : root[m] # Absent => root[m] \in Places'
    BY <2>3, <2>4, PlacesOf
  <2>7. \A m \in Name : previous[m] # Absent => previous[m] \in Places'
    BY <2>3, <2>4, PlacesOf
  <2> QED BY <2>1, <2>5, <2>6, <2>7, NothingLost, PlacesOf
<1>7. ASSUME NEW n \in Name, MoveIn(n) PROVE OutFree' /\ SettingsKept'
  <2>1. /\ root[n] = Absent /\ root' = [root EXCEPT ![n] = stage[n]]
        /\ setup' = [setup EXCEPT !.left = setup.left \ {n}]
        /\ UNCHANGED <<previous, failed, archive, latest>>
        /\ setup.pc = "in"
    BY <1>7 DEF MoveIn
  <2>2. setup'.pc = "in"
    BY <1>s, <2>1 DEF SetupRecord
  <2>3. \A m \in Name : root[m] # Absent => root'[m] = root[m]
    BY <1>d, <2>1 DEF Folders, Tree
  <2> QED BY <2>1, <2>2, <2>3, NothingLost, PlacesOf DEF OutFree
<1>8. ASSUME NEW n \in Name, Undo(n) PROVE OutFree' /\ SettingsKept'
  <2>1. /\ \/ failed' = failed \union {root[n]} /\ root' = [root EXCEPT ![n] = Absent]
           \/ UNCHANGED <<failed, root>>
        /\ \/ setup' = [setup EXCEPT !.pc = "back", !.entry = n]
           \/ setup' = [setup EXCEPT !.left = setup.left \ {n}]
        /\ UNCHANGED <<previous, archive, latest>> /\ setup.pc = "undo"
    BY <1>8 DEF Undo
  <2>2. setup'.pc # "out"
    BY <1>s, <2>1 DEF SetupRecord
  <2>3. \A m \in Name : root[m] # Absent => root'[m] = root[m] \/ root[m] \in failed'
    BY <1>d, <2>1 DEF Folders, Tree
  <2>4. failed \subseteq failed'
    BY <2>1
  <2> QED BY <2>1, <2>2, <2>3, <2>4, NothingLost, PlacesOf DEF OutFree
<1> QED BY <1>1, <1>2, <1>3, <1>4, <1>5, <1>6, <1>7, <1>8

LEMMA KeptStep ==
  Sound /\ OutFree /\ SettingsKept /\ [Next]_vars => (Sound /\ OutFree /\ SettingsKept)'
<1> SUFFICES ASSUME Sound, OutFree, SettingsKept, [Next]_vars
             PROVE  Sound' /\ OutFree' /\ SettingsKept'
  OBVIOUS
<1>1. Sound'
  BY StepSound
<1>2. CASE UNCHANGED vars
  <2>1. UNCHANGED <<setup, root, previous, failed, archive, latest>>
    BY <1>2 DEF vars, disk
  <2> QED BY <1>1, <2>1 DEF OutFree, SettingsKept
<1> QED BY <1>1, <1>2, QuietKept, MovingKept DEF Next

\* No move, undo, crash or later operation of setup destroys the settings the
\* app saved last; only uninstalling does (Recovery.cs, Replace and
\* RecoverInterrupted).
THEOREM SettingsAreKept == Spec => []SettingsKept
<1>1. Init => Sound /\ OutFree /\ SettingsKept
  BY InitSound, InitKept
<1> QED BY <1>1, KeptStep, PTL DEF Spec

-----------------------------------------------------------------------------
(* App files of one version *)

\* What counts of the folder and the work directory as they are on disk.
Counted ==
  [n \in Name |-> IF /\ work = "open"
                     /\ \/ n \in journal.before /\ previous[n] # Absent
                        \/ n \in journal.after \ journal.before
                  THEN previous[n] ELSE root[n]]

One(t) == \A m, n \in App : t[m] # Absent /\ t[n] # Absent => t[m] = t[n]

LEMMA LessIsOne ==
  ASSUME NEW t, NEW u, One(t), \A n \in App : u[n] = Absent \/ u[n] = t[n]
  PROVE  One(u)
BY DEF One

LEMMA WholeOne ==
  ASSUME NEW v \in Version, NEW s
  PROVE  One(Whole(v, s))
<1>1. \A n \in App : Whole(v, s)[n] \in {Absent, File(v)}
  BY NameFacts DEF Whole
<1> QED BY <1>1 DEF One

\* Undoing is done with n: recovery finds in root what counts.
Settled(n) ==
  /\ n \in journal.before => previous[n] = Absent
  /\ n \in journal.after \ journal.before => root[n] = Absent

\* What is to be put in place is of one version.
Staging ==
  /\ setup.pc \in {"backup", "copy"} => work # "open"
  /\ setup.pc \in {"backup", "copy"} /\ setup.kind = "restore" => One(setup.chosen)
  /\ setup.pc \in {"check", "open", "journal", "out", "in"} => One(stage)

\* The folder is emptied of its app files; unless it has been removed, each is
\* in root or in previous.
Emptying ==
  /\ setup.pc = "journal" => \A n \in App :
       /\ root[n] # Absent => n \in journal.before
       /\ present /\ n \in journal.before => root[n] # Absent
  /\ setup.pc = "out" =>
       /\ setup.left \subseteq journal.before
       /\ \A n \in App :
            /\ root[n] # Absent => n \in setup.left
            /\ present /\ n \in setup.left => root[n] # Absent
            /\ present /\ n \in journal.before \ setup.left => previous[n] # Absent
  /\ work = "open" => \A n \in App : previous[n] # Absent => n \in journal.before

\* It is filled with the new ones.
Filling ==
  setup.pc = "in" =>
    /\ setup.left \subseteq journal.after
    /\ One(root)
    /\ \A n \in App : present /\ n \in journal.before => previous[n] # Absent
    /\ \A m, n \in App : stage[m] # Absent /\ root[n] # Absent => stage[m] = root[n]

\* Recovery settles one name after the other.
Undoing ==
  /\ setup.pc \in {"undo", "back"} =>
       /\ setup.left \subseteq journal.before \union journal.after
       /\ \A n \in App \ setup.left : Settled(n)
  /\ setup.pc = "back" /\ setup.entry \in App => root[setup.entry] = Absent
  /\ setup.pc = "keep" /\ work = "open" => \A n \in App : Settled(n)

Unmixed == One(Counted) /\ \A t \in backups : One(t)

Swap == Staging /\ Emptying /\ Filling /\ Undoing /\ Unmixed

LEMMA CountedAt ==
  \A n \in Name : Counted[n] =
     IF /\ work = "open"
        /\ \/ n \in journal.before /\ previous[n] # Absent
           \/ n \in journal.after \ journal.before
     THEN previous[n] ELSE root[n]
BY DEF Counted

LEMMA CountedThen ==
  \A n \in Name : Counted'[n] =
     IF /\ work' = "open"
        /\ \/ n \in journal'.before /\ previous'[n] # Absent
           \/ n \in journal'.after \ journal'.before
     THEN previous'[n] ELSE root'[n]
BY DEF Counted

\* Without a journal what lies in the folder counts.
LEMMA RootCounts == work # "open" => \A n \in App : Counted[n] = root[n]
BY CountedAt, NameFacts

LEMMA RootIsOne == Swap /\ work # "open" => One(root)
BY RootCounts DEF Swap, Unmixed, One

LEMMA InitSwap == Init => Swap
<1> SUFFICES ASSUME Init PROVE Swap
  OBVIOUS
<1>1. setup.pc = "idle" /\ work = "none"
  BY SetupFacts DEF Init
<1>2. One(Empty)
  BY EmptyTyped, NameFacts DEF One
<1>3. One(root) /\ \A t \in backups : One(t)
  BY <1>2, WholeOne DEF Init
<1>4. One(Counted)
  BY <1>1, <1>3, RootCounts DEF One
<1> QED BY <1>1, <1>3, <1>4 DEF Swap, Staging, Emptying, Filling, Undoing, Unmixed

\* What the program counter's changes leave of the record.
LEMMA Fields ==
  ASSUME setup \in SetupRecord, NEW p \in Pc, NEW ns \in SUBSET Name, NEW e \in Name
  PROVE  /\ LET s == [setup EXCEPT !.pc = p] IN
              s.pc = p /\ s.left = setup.left /\ s.entry = setup.entry
              /\ s.kind = setup.kind /\ s.chosen = setup.chosen
         /\ LET s == [setup EXCEPT !.left = ns] IN
              s.pc = setup.pc /\ s.left = ns /\ s.entry = setup.entry
              /\ s.kind = setup.kind /\ s.chosen = setup.chosen
         /\ LET s == [setup EXCEPT !.pc = p, !.left = ns] IN
              s.pc = p /\ s.left = ns
         /\ LET s == [setup EXCEPT !.pc = p, !.entry = e] IN
              s.pc = p /\ s.left = setup.left /\ s.entry = e
         /\ LET s == [setup EXCEPT !.pc = p, !.left = ns, !.entry = e] IN
              s.pc = p /\ s.left = ns /\ s.entry = e
BY DEF SetupRecord

\* Steps that leave the folder and the work directory alone.
LEMMA StillSwap ==
  ASSUME Sound, Swap, UNCHANGED <<root, work, journal, previous>>,
         \A t \in backups' : One(t), Staging', Emptying', Filling', Undoing'
  PROVE  Swap'
<1>1. Counted' = Counted
  BY DEF Counted
<1> QED BY <1>1 DEF Swap, Unmixed, One

\* The same facts when setup has not moved either.
LEMMA AppSwap ==
  ASSUME Sound, Swap, ~ruined', Launch \/ Quit \/ Uninstall \/ Save \/ RemoveFolder
  PROVE  Swap'
<1>1. UNCHANGED <<work, journal, previous, setup, stage, backups>>
  BY Removal DEF Launch, Quit, Uninstall, Save, disk
<1>2. /\ \A n \in App : root'[n] = root[n] \/ root'[n] = Absent
      /\ present' => present /\ \A n \in App : root'[n] = root[n]
  <2>1. CASE Save
    <3>1. root' = [root EXCEPT ![Config] = latest'] /\ present' = present
      BY <2>1 DEF Save
    <3>2. \A n \in App : root'[n] = root[n]
      BY <3>1, NameFacts DEF Sound, DiskTyped, Folders, Tree
    <3> QED BY <3>1, <3>2
  <2>2. CASE RemoveFolder
    BY <2>2, Removal, EmptyTyped, NameFacts
  <2>3. CASE Launch \/ Quit \/ Uninstall
    BY <2>3 DEF Launch, Quit, Uninstall, disk
  <2> QED BY <2>1, <2>2, <2>3
<1>3. One(Counted')
  <2>1. \A n \in App : Counted'[n] = Absent \/ Counted'[n] = Counted[n]
    BY <1>1, <1>2, CountedAt, CountedThen, NameFacts
  <2> QED BY <2>1, LessIsOne DEF Swap, Unmixed
<1>4. Unmixed'
  BY <1>1, <1>3 DEF Swap, Unmixed, One
<1>5. Staging'
  BY <1>1 DEF Swap, Staging, One
<1>6. Emptying'
  BY <1>1, <1>2 DEF Swap, Emptying
<1>7. Filling'
  BY <1>1, <1>2 DEF Swap, Filling, One
<1>8. Undoing'
  <2>1. \A n \in App : Settled(n) => Settled(n)'
    BY <1>1, <1>2 DEF Settled
  <2> QED BY <1>1, <1>2, <2>1 DEF Swap, Undoing
<1> QED BY <1>4, <1>5, <1>6, <1>7, <1>8 DEF Swap

\* Steps of setup that move no entry and leave the work directory as it is.
LEMMA StepsSwap ==
  ASSUME Sound, Swap,
         \/ Start \/ Backup \/ Copy \/ Check \/ Abort \/ OutDone \/ Fail \/ UndoDone
         \/ GiveUp \/ Discard \/ Crash
  PROVE  Swap'
<1>r. setup \in SetupRecord /\ journal.before \subseteq Name /\ journal.after \subseteq Name
  BY DEF Sound, FlagsTyped
<1>u. UNCHANGED <<root, work, journal, previous>>
  BY DEF Start, Begin, Backup, Copy, Check, Abort, OutDone, Fail, UndoDone, GiveUp, Discard, Crash, disk
<1>o. work = "open" => \A n \in App : previous'[n] # Absent => n \in journal'.before
  BY <1>u DEF Swap, Emptying
<1>1. CASE Start
  <2>1. PICK kind \in Kind, v \in Version \union {0}, l \in Language, t \in backups \union {Empty} :
          Begin(kind, v, l, t) /\ (kind = "restore" => t \in backups)
    BY <1>1, InstallerAssumption DEF Start, Kind
  <2> DEFINE ns == IF kind = "recover" THEN journal.before \union journal.after ELSE {}
  <2>2. /\ setup' = [pc |-> First(kind), kind |-> kind, version |-> v, language |-> l,
                     chosen |-> t, left |-> ns, entry |-> Exe]
        /\ UNCHANGED <<disk, stage>>
        /\ kind # "recover" => work \notin {"open", "committed"}
    BY <2>1 DEF Begin, Refused, Pending
  <2>3. /\ First(kind) \in {"undo", "keep", "idle", "copy", "backup"}
        /\ First(kind) \in {"copy", "backup"} => kind # "recover"
        /\ First(kind) = "undo" => kind = "recover"
        /\ First(kind) = "keep" => work = "committed"
    BY DEF First
  <2> HIDE DEF ns
  <2>4. setup'.pc = First(kind) /\ setup'.kind = kind /\ setup'.chosen = t /\ setup'.left = ns
    BY <2>2
  <2>5. UNCHANGED <<backups, stage>>
    BY <2>2 DEF disk
  <2>6. Staging'
    BY <1>u, <2>1, <2>2, <2>3, <2>4 DEF Staging, Swap, Unmixed, One
  <2>7. Emptying' /\ Filling'
    BY <1>u, <1>o, <2>3, <2>4 DEF Emptying, Filling
  <2>8. Undoing'
    <3>1. First(kind) = "undo" => ns = journal'.before \union journal'.after
      BY <1>u, <2>3 DEF ns
    <3>2. First(kind) = "undo" => \A n \in App \ setup'.left : Settled(n)'
      BY <2>4, <3>1 DEF Settled
    <3> QED BY <1>u, <2>3, <2>4, <3>1, <3>2 DEF Undoing
  <2> QED BY <1>u, <2>5, <2>6, <2>7, <2>8, StillSwap DEF Swap, Unmixed, One
<1>2. CASE Backup
  <2>1. PICK q \in {"idle", "copy"} : setup' = [setup EXCEPT !.pc = q]
    BY <1>2 DEF Backup, Goto
  <2>2. setup'.pc = q /\ setup'.kind = setup.kind /\ setup'.chosen = setup.chosen
    BY <1>r, <2>1, Fields DEF Pc
  <2>3. setup.pc = "backup" /\ stage' = stage
    BY <1>2 DEF Backup
  <2>4. work # "open"
    BY <2>3 DEF Swap, Staging
  <2>5. \A t \in backups' : One(t)
    <3>1. \A t \in backups' : t \in backups \/ t = root
      BY <1>2 DEF Backup
    <3> QED BY <2>4, <3>1, RootIsOne DEF Swap, Unmixed
  <2>6. Staging'
    BY <1>u, <2>2, <2>3, <2>4 DEF Swap, Staging, One
  <2>7. Emptying' /\ Filling' /\ Undoing'
    BY <1>u, <1>o, <2>2 DEF Emptying, Filling, Undoing
  <2> QED BY <1>u, <2>5, <2>6, <2>7, StillSwap
<1>3. CASE Copy
  <2>1. PICK s \in Settings : stage' = Staged(s)
    BY <1>3 DEF Copy
  <2>2. setup.pc = "copy" /\ backups' = backups
    BY <1>3 DEF Copy, disk
  <2>3. work # "open"
    BY <2>2 DEF Swap, Staging
  <2>4. One(stage')
    <3>1. CASE setup.kind = "install"
      <4>1. setup.version \in Version
        BY <2>2, <3>1 DEF Sound, Phases
      <4> QED BY <2>1, <3>1, <4>1, WholeOne DEF Staged
    <3>2. CASE setup.kind = "restore"
      BY <2>1, <2>2, <3>2 DEF Staged, Swap, Staging
    <3>3. CASE setup.kind # "install" /\ setup.kind # "restore"
      <4>1. stage' = [root EXCEPT ![Config] = s]
        BY <2>1, <3>3 DEF Staged
      <4>2. \A n \in App : stage'[n] = root[n]
        BY <4>1, NameFacts DEF Sound, DiskTyped, Folders, Tree
      <4>3. One(root)
        BY <2>3, RootIsOne
      <4> QED BY <4>2, <4>3, LessIsOne
    <3> QED BY <3>1, <3>2, <3>3
  <2>5. PICK q \in {"check", "open"} : setup' = [NoSetup EXCEPT !.kind = setup.kind, !.pc = q]
    BY <1>3 DEF Copy
  <2>6. setup'.pc = q
    BY <2>5, SetupFacts DEF SetupRecord
  <2>7. Staging'
    BY <2>4, <2>6 DEF Staging, One
  <2>8. Emptying' /\ Filling' /\ Undoing'
    BY <1>u, <1>o, <2>6 DEF Emptying, Filling, Undoing
  <2> QED BY <1>u, <2>2, <2>7, <2>8, StillSwap DEF Swap, Unmixed
<1>4. CASE Check \/ Abort \/ GiveUp
  <2>1. PICK q \in {"discard", "open"} : setup' = [setup EXCEPT !.pc = q]
                                          /\ (q = "open" => setup.pc = "check")
    BY <1>4 DEF Check, Abort, GiveUp, Goto
  <2>2. setup'.pc = q
    BY <1>r, <2>1, Fields DEF Pc
  <2>3. backups' = backups /\ stage' = stage
    BY <1>4 DEF Check, Abort, GiveUp, disk
  <2>4. Staging'
    BY <2>1, <2>2, <2>3 DEF Swap, Staging, One
  <2>5. Emptying' /\ Filling' /\ Undoing'
    BY <1>u, <1>o, <2>2 DEF Emptying, Filling, Undoing
  <2> QED BY <1>u, <2>3, <2>4, <2>5, StillSwap DEF Swap, Unmixed
<1>5. CASE UndoDone
  <2>1. setup' = [setup EXCEPT !.pc = "keep"] /\ setup.pc = "undo" /\ setup.left = {}
    BY <1>5 DEF UndoDone, Goto
  <2>2. setup'.pc = "keep"
    BY <1>r, <2>1, Fields DEF Pc
  <2>3. backups' = backups
    BY <1>5 DEF UndoDone, disk
  <2>4. \A n \in App : Settled(n)'
    BY <1>u, <2>1 DEF Swap, Undoing, Settled
  <2>5. Undoing'
    BY <2>2, <2>4 DEF Undoing
  <2>6. Staging' /\ Emptying' /\ Filling'
    BY <1>u, <1>o, <2>2 DEF Staging, Emptying, Filling
  <2> QED BY <1>u, <2>3, <2>5, <2>6, StillSwap DEF Swap, Unmixed
<1>6. CASE OutDone
  <2>1. setup' = [setup EXCEPT !.pc = "in", !.left = journal.after] /\ setup.pc = "out" /\ setup.left = {}
    BY <1>6 DEF OutDone
  <2>2. setup'.pc = "in" /\ setup'.left = journal.after
    BY <1>r, <2>1, Fields DEF Pc
  <2>3. UNCHANGED <<backups, stage, present>>
    BY <1>6 DEF OutDone, disk
  <2>4. Staging'
    BY <2>1, <2>2, <2>3 DEF Swap, Staging, One
  <2>5. /\ \A n \in App : root[n] = Absent
        /\ \A n \in App : present /\ n \in journal.before => previous[n] # Absent
    BY <2>1 DEF Swap, Emptying
  <2>6. Filling'
    BY <1>u, <2>2, <2>3, <2>5 DEF Filling, One
  <2>7. Emptying' /\ Undoing'
    BY <1>u, <1>o, <2>2 DEF Emptying, Undoing
  <2> QED BY <1>u, <2>3, <2>4, <2>6, <2>7, StillSwap DEF Swap, Unmixed
<1>7. CASE Fail
  <2>1. setup' = [setup EXCEPT !.pc = "undo", !.left = journal.before \union journal.after]
    BY <1>7 DEF Fail
  <2>2. setup'.pc = "undo" /\ setup'.left = journal'.before \union journal'.after
    BY <1>r, <1>u, <2>1, Fields DEF Pc
  <2>3. UNCHANGED backups
    BY <1>7 DEF Fail, disk
  <2>4. \A n \in App \ setup'.left : Settled(n)'
    BY <2>2 DEF Settled
  <2>5. Undoing'
    BY <2>2, <2>4 DEF Undoing
  <2>6. Staging' /\ Emptying' /\ Filling'
    BY <1>u, <1>o, <2>2 DEF Staging, Emptying, Filling
  <2> QED BY <1>u, <2>3, <2>5, <2>6, StillSwap DEF Swap, Unmixed
<1>8. CASE Discard \/ Crash
  <2>1. setup'.pc = "idle" /\ UNCHANGED backups
    BY <1>8, SetupFacts DEF Discard, Crash, disk
  <2>2. Staging' /\ Emptying' /\ Filling' /\ Undoing'
    BY <1>u, <1>o, <2>1 DEF Staging, Emptying, Filling, Undoing
  <2> QED BY <1>u, <2>1, <2>2, StillSwap DEF Swap, Unmixed
<1> QED BY <1>1, <1>2, <1>3, <1>4, <1>5, <1>6, <1>7, <1>8

\* Steps of the swap and of its recovery that move no entry.
LEMMA MarkSwap ==
  ASSUME Sound, Swap, Open \/ WriteJournal \/ Commit \/ Keep
  PROVE  Swap'
<1>r. setup \in SetupRecord /\ journal.before \subseteq Name /\ journal.after \subseteq Name
  BY DEF Sound, FlagsTyped
<1>u. UNCHANGED <<root, stage, backups>>
  BY DEF Open, WriteJournal, Commit, Keep
<1>b. \A t \in backups' : One(t)
  BY <1>u DEF Swap, Unmixed
<1>1. CASE Open
  <2>1. CASE work # "none"
    <3>1. setup' = [setup EXCEPT !.pc = "discard"] /\ UNCHANGED <<work, journal, previous>>
      BY <1>1, <2>1 DEF Open, Goto
    <3>2. setup'.pc = "discard"
      BY <1>r, <3>1, Fields DEF Pc
    <3>3. Staging' /\ Emptying' /\ Filling' /\ Undoing'
      BY <3>1, <3>2 DEF Swap, Staging, Emptying, Filling, Undoing
    <3> QED BY <1>u, <1>b, <3>1, <3>3, StillSwap
  <2>2. CASE work = "none"
    <3>1. /\ work' = "bare" /\ journal' = [before |-> Included(root), after |-> Included(stage)]
          /\ setup' = [setup EXCEPT !.pc = "journal"] /\ setup.pc = "open"
      BY <1>1, <2>2 DEF Open, Goto
    <3>2. setup'.pc = "journal"
      BY <1>r, <3>1, Fields DEF Pc
    <3>3. journal'.before = Included(root)
      BY <3>1
    <3>4. \A n \in App : n \in Included(root) <=> root[n] # Absent
      BY NameFacts DEF Included, Top
    <3>5. Staging'
      BY <1>u, <3>1, <3>2 DEF Swap, Staging, One
    <3>6. Emptying'
      BY <1>u, <3>1, <3>2, <3>3, <3>4 DEF Emptying
    <3>7. Filling' /\ Undoing'
      BY <3>2 DEF Filling, Undoing
    <3>8. \A n \in App : Counted'[n] = root[n]
      BY <1>u, <3>1, CountedThen, NameFacts
    <3>9. One(Counted')
      BY <2>2, <3>8, RootIsOne, LessIsOne
    <3> QED BY <1>b, <3>5, <3>6, <3>7, <3>9 DEF Swap, Unmixed, One
  <2> QED BY <2>1, <2>2
<1>2. CASE WriteJournal
  <2>0. setup.pc = "journal" /\ work = "bare" /\ UNCHANGED <<journal, previous, present>>
    BY <1>2 DEF WriteJournal, Sound, Phases
  <2>1. CASE work' = work /\ Goto("discard")
    <3>1. setup'.pc = "discard"
      BY <1>r, <2>1, Fields DEF Goto, Pc
    <3>2. Staging' /\ Emptying' /\ Filling' /\ Undoing'
      BY <2>0, <2>1, <3>1 DEF Swap, Staging, Emptying, Filling, Undoing
    <3> QED BY <1>u, <1>b, <2>0, <2>1, <3>2, StillSwap
  <2>2. CASE work' = "open" /\ setup' = [setup EXCEPT !.pc = "out", !.left = journal.before]
    <3>1. setup'.pc = "out" /\ setup'.left = journal.before
      BY <1>r, <2>2, Fields DEF Pc
    <3>2. \A n \in App : previous'[n] = Absent
      BY <2>0, EmptyTyped, NameFacts DEF Sound, Voids
    <3>3. Staging'
      BY <1>u, <2>0, <3>1 DEF Swap, Staging, One
    <3>4. Emptying'
      BY <1>u, <2>0, <3>1, <3>2 DEF Swap, Emptying
    <3>5. Filling' /\ Undoing'
      BY <3>1 DEF Filling, Undoing
    <3>6. \A n \in App : Counted'[n] = Absent \/ Counted'[n] = root[n]
      BY <1>u, <3>2, CountedThen, NameFacts
    <3>7. One(Counted')
      BY <2>0, <3>6, RootIsOne, LessIsOne
    <3> QED BY <1>b, <3>3, <3>4, <3>5, <3>7 DEF Swap, Unmixed, One
  <2> QED BY <1>2, <2>1, <2>2 DEF WriteJournal
<1>3. CASE Commit
  <2>1. /\ setup.pc = "in" /\ work' = "committed" /\ setup' = [setup EXCEPT !.pc = "keep"]
        /\ UNCHANGED <<journal, previous, present>>
    BY <1>3 DEF Commit, Goto
  <2>2. setup'.pc = "keep"
    BY <1>r, <2>1, Fields DEF Pc
  <2>3. Staging' /\ Emptying' /\ Filling' /\ Undoing'
    BY <2>1, <2>2 DEF Staging, Emptying, Filling, Undoing
  <2>4. \A n \in App : Counted'[n] = root[n]
    BY <1>u, <2>1, CountedThen, NameFacts
  <2>5. One(Counted')
    BY <2>1, <2>4, LessIsOne DEF Swap, Filling
  <2> QED BY <1>b, <2>3, <2>5 DEF Swap, Unmixed, One
<1>4. CASE Keep
  <2>1. setup.pc = "keep" /\ work' = "none" /\ setup' = [setup EXCEPT !.pc = "discard"]
    BY <1>4 DEF Keep, Goto
  <2>2. setup'.pc = "discard"
    BY <1>r, <2>1, Fields DEF Pc
  <2>3. Staging' /\ Emptying' /\ Filling' /\ Undoing'
    BY <2>1, <2>2 DEF Staging, Emptying, Filling, Undoing
  <2>4. \A n \in App : Counted'[n] = root[n]
    BY <1>u, <2>1, CountedThen, NameFacts
  <2>5. \A n \in App : root[n] = Absent \/ root[n] = Counted[n]
    <3>1. CASE work = "open"
      <4>1. \A n \in App : Settled(n)
        BY <2>1, <3>1 DEF Swap, Undoing
      <4> QED BY <4>1, CountedAt, NameFacts DEF Settled
    <3>2. CASE work # "open"
      BY <3>2, RootCounts
    <3> QED BY <3>1, <3>2
  <2>6. One(Counted')
    BY <2>4, <2>5, LessIsOne DEF Swap, Unmixed
  <2> QED BY <1>b, <2>3, <2>6 DEF Swap, Unmixed, One
<1> QED BY <1>1, <1>2, <1>3, <1>4

\* Moves keep what counts of each name, and the order recovery relies on.
LEMMA MovesSwap ==
  ASSUME Sound, Swap, OutFree, NEW n \in Name, MoveOut(n) \/ MoveIn(n) \/ Undo(n) \/ Back
  PROVE  Swap'
<1>r. /\ setup \in SetupRecord /\ journal.before \subseteq Name /\ journal.after \subseteq Name
      /\ setup.left \subseteq Name
  BY DEF Sound, FlagsTyped, SetupRecord
<1>d. root \in Folders /\ previous \in Folders /\ stage \in Folders
  BY DEF Sound, DiskTyped
<1>u. UNCHANGED <<backups, work, journal, present>>
  BY DEF MoveOut, MoveIn, Undo, Back
<1>o. work = "open"
  BY DEF MoveOut, MoveIn, Undo, Back, Sound, Phases, Swapping
<1>m. (\A m \in App : Counted'[m] = Counted[m]) => Unmixed'
  BY <1>u, LessIsOne DEF Swap, Unmixed, One
<1>1. CASE MoveOut(n)
  <2>1. /\ setup.pc = "out" /\ n \in setup.left /\ stage' = stage
        /\ previous' = [previous EXCEPT ![n] = root[n]] /\ root' = [root EXCEPT ![n] = Absent]
        /\ setup' = [setup EXCEPT !.left = setup.left \ {n}]
    BY <1>1 DEF MoveOut
  <2>2. setup'.pc = "out" /\ setup'.left = setup.left \ {n}
    BY <1>r, <2>1, Fields DEF Pc
  <2>3. \A m \in Name : /\ root'[m] = IF m = n THEN Absent ELSE root[m]
                        /\ previous'[m] = IF m = n THEN root[n] ELSE previous[m]
    BY <1>d, <2>1 DEF Folders, Tree
  <2>4. previous[n] = Absent /\ n \in journal.before
    BY <2>1 DEF OutFree, Swap, Emptying
  <2>5. \A m \in App : Counted'[m] = Counted[m]
    BY <1>o, <1>u, <2>3, <2>4, CountedAt, CountedThen, NameFacts
  <2>6. Staging'
    BY <1>u, <2>1, <2>2 DEF Swap, Staging, One
  <2>7. Emptying'
    BY <1>u, <1>o, <2>1, <2>2, <2>3, <2>4, NameFacts DEF Swap, Emptying
  <2>8. Filling' /\ Undoing'
    BY <2>2 DEF Filling, Undoing
  <2> QED BY <1>m, <2>5, <2>6, <2>7, <2>8 DEF Swap
<1>2. CASE MoveIn(n)
  <2>1. /\ setup.pc = "in" /\ n \in setup.left /\ present /\ root[n] = Absent
        /\ root' = [root EXCEPT ![n] = stage[n]] /\ stage' = [stage EXCEPT ![n] = Absent]
        /\ setup' = [setup EXCEPT !.left = setup.left \ {n}] /\ previous' = previous
    BY <1>2 DEF MoveIn
  <2>2. setup'.pc = "in" /\ setup'.left = setup.left \ {n}
    BY <1>r, <2>1, Fields DEF Pc
  <2>3. \A m \in Name : /\ root'[m] = IF m = n THEN stage[n] ELSE root[m]
                        /\ stage'[m] = IF m = n THEN Absent ELSE stage[m]
    BY <1>d, <2>1 DEF Folders, Tree
  <2>4. /\ setup.left \subseteq journal.after /\ One(root) /\ One(stage)
        /\ \A m \in App : m \in journal.before => previous[m] # Absent
        /\ \A m, k \in App : stage[m] # Absent /\ root[k] # Absent => stage[m] = root[k]
    BY <2>1 DEF Swap, Filling, Staging
  <2>5. \A m \in App : Counted'[m] = Counted[m]
    BY <1>o, <1>u, <2>1, <2>3, <2>4, CountedAt, CountedThen, NameFacts
  <2>6. One(stage') /\ One(root')
    BY <2>3, <2>4, NameFacts DEF One
  <2>7. \A m, k \in App : stage'[m] # Absent /\ root'[k] # Absent => stage'[m] = root'[k]
    BY <2>3, <2>4, NameFacts DEF One
  <2>8. Staging'
    BY <2>2, <2>6 DEF Staging, One
  <2>9. Filling'
    BY <1>u, <2>1, <2>2, <2>4, <2>6, <2>7 DEF Filling, One
  <2>10. Emptying' /\ Undoing'
    BY <1>u, <2>1, <2>2 DEF Swap, Emptying, Undoing
  <2> QED BY <1>m, <2>5, <2>8, <2>9, <2>10 DEF Swap
<1>3. CASE Undo(n)
  <2>1. /\ setup.pc = "undo" /\ n \in setup.left /\ UNCHANGED previous
        /\ setup.left \subseteq journal.before \union journal.after
        /\ \A m \in App \ setup.left : Settled(m)
    BY <1>3 DEF Undo, Swap, Undoing
  <2>2. \A m \in App : previous[m] # Absent => m \in journal.before
    BY <1>o DEF Swap, Emptying
  <2>3. CASE Displaced(n)
    <3>1. setup' = [setup EXCEPT !.pc = "back", !.entry = n]
      BY <1>3, <2>3 DEF Undo
    <3>2. setup'.pc = "back" /\ setup'.left = setup.left /\ setup'.entry = n
      BY <1>r, <3>1, Fields DEF Pc
    <3>3. \A m \in Name : root'[m] = IF m = n THEN Absent ELSE root[m]
      BY <1>3, <1>d, <2>3 DEF Undo, Folders, Tree
    <3>4. \A m \in App : Counted'[m] = Counted[m]
      BY <1>o, <1>u, <2>1, <2>2, <2>3, <3>3, CountedAt, CountedThen, NameFacts DEF Displaced
    <3>5. \A m \in App \ setup'.left : Settled(m)'
      BY <1>u, <2>1, <3>2, <3>3, NameFacts DEF Settled
    <3>6. Undoing'
      BY <1>u, <2>1, <3>2, <3>3, <3>5 DEF Undoing
    <3>7. Staging' /\ Emptying' /\ Filling'
      BY <1>u, <2>1, <2>2, <3>2 DEF Staging, Emptying, Filling
    <3> QED BY <1>m, <3>4, <3>6, <3>7 DEF Swap
  <2>4. CASE ~Displaced(n)
    <3>1. setup' = [setup EXCEPT !.left = setup.left \ {n}] /\ root' = root
      BY <1>3, <2>4 DEF Undo
    <3>2. setup'.pc = "undo" /\ setup'.left = setup.left \ {n}
      BY <1>r, <2>1, <3>1, Fields DEF Pc
    <3>3. \A m \in App : Counted'[m] = Counted[m]
      BY <1>u, <2>1, <3>1, CountedAt, CountedThen, NameFacts
    <3>4. Settled(n)' /\ \A m \in App \ setup.left : Settled(m)'
      BY <1>u, <2>1, <2>4, <3>1 DEF Settled, Displaced
    <3>5. Undoing'
      BY <1>u, <2>1, <3>2, <3>4 DEF Undoing
    <3>6. Staging' /\ Emptying' /\ Filling'
      BY <1>u, <2>1, <2>2, <3>2 DEF Staging, Emptying, Filling
    <3> QED BY <1>m, <3>3, <3>5, <3>6 DEF Swap
  <2> QED BY <2>3, <2>4
<1>4. CASE Back
  <2> DEFINE e == setup.entry
  <2>0. e \in Name
    BY <1>r DEF SetupRecord
  <2>1. /\ setup.pc = "back" /\ previous' = [previous EXCEPT ![e] = Absent]
        /\ root' = IF previous[e] = Absent THEN root ELSE [root EXCEPT ![e] = previous[e]]
        /\ setup' = [setup EXCEPT !.pc = "undo", !.left = setup.left \ {e}, !.entry = Exe]
        /\ setup.left \subseteq journal.before \union journal.after
        /\ \A m \in App \ setup.left : Settled(m)
        /\ e \in App => root[e] = Absent
    BY <1>4 DEF Back, Swap, Undoing
  <2> HIDE DEF e
  <2>2. setup'.pc = "undo" /\ setup'.left = setup.left \ {e}
    BY <1>r, <2>1, Fields, NameFacts DEF Pc
  <2>3. \A m \in Name :
          /\ root'[m] = IF m = e /\ previous[e] # Absent THEN previous[e] ELSE root[m]
          /\ previous'[m] = IF m = e THEN Absent ELSE previous[m]
    BY <1>d, <2>1 DEF Folders, Tree
  <2>4. \A m \in App : previous[m] # Absent => m \in journal.before
    BY <1>o DEF Swap, Emptying
  <2>5. \A m \in App : Counted'[m] = Counted[m]
    BY <1>o, <1>u, <2>1, <2>3, <2>4, CountedAt, CountedThen, NameFacts
  <2>6. \A m \in App \ setup'.left : Settled(m)'
    BY <1>u, <2>1, <2>2, <2>3, <2>4, NameFacts DEF Settled
  <2>7. Undoing'
    BY <1>u, <2>1, <2>2, <2>6 DEF Undoing
  <2>8. Staging' /\ Emptying' /\ Filling'
    BY <1>u, <2>2, <2>3, <2>4, NameFacts DEF Staging, Emptying, Filling
  <2> QED BY <1>m, <2>5, <2>7, <2>8 DEF Swap
<1> QED BY <1>1, <1>2, <1>3, <1>4

\* A part left behind stays.
LEMMA RuinStays == Sound /\ [Next]_vars => (ruined => ruined') /\ (RemoveFolder \/ ruined' = ruined)
<1> SUFFICES ASSUME Sound, [Next]_vars PROVE (ruined => ruined') /\ (RemoveFolder \/ ruined' = ruined)
  OBVIOUS
<1>1. RemoveFolder => (ruined => ruined')
  BY DEF RemoveFolder, Sound, FlagsTyped
<1>2. UNCHANGED vars => ruined' = ruined
  BY DEF vars
<1>3. \A n \in Name : MoveOut(n) \/ MoveIn(n) \/ Undo(n) => ruined' = ruined
  BY DEF MoveOut, MoveIn, Undo
<1>4. Start => ruined' = ruined
  BY DEF Start, Begin
<1>5. Launch \/ Quit \/ Save \/ Uninstall \/ Crash => ruined' = ruined
  BY DEF Launch, Quit, Save, Uninstall, Crash
<1>6. Backup \/ Copy \/ Check \/ Abort \/ Open \/ WriteJournal => ruined' = ruined
  BY DEF Backup, Copy, Check, Abort, Open, WriteJournal
<1>7. OutDone \/ Commit \/ Fail \/ Back \/ UndoDone \/ Keep \/ GiveUp \/ Discard => ruined' = ruined
  BY DEF OutDone, Commit, Fail, Back, UndoDone, Keep, GiveUp, Discard
<1> QED BY <1>1, <1>2, <1>3, <1>4, <1>5, <1>6, <1>7 DEF Next

LEMMA SwapStep == Sound /\ OutFree /\ (ruined \/ Swap) /\ [Next]_vars => ruined' \/ Swap'
<1> SUFFICES ASSUME Sound, OutFree, Swap, ~ruined', [Next]_vars PROVE Swap'
  BY RuinStays
<1>1. CASE UNCHANGED vars
  <2>1. UNCHANGED <<root, present, work, journal, previous, setup, stage, backups>>
    BY <1>1 DEF vars, disk
  <2> QED BY <2>1 DEF Swap, Staging, Emptying, Filling, Undoing, Settled, Unmixed, One, Counted
<1>2. ASSUME NEW n \in Name, MoveOut(n) \/ MoveIn(n) \/ Undo(n) PROVE Swap'
  BY <1>2, MovesSwap
<1>3. CASE Back
  BY <1>3, MovesSwap, NameFacts
<1> QED BY <1>1, <1>2, <1>3, AppSwap, StepsSwap, MarkSwap DEF Next

\* Through every move, failure, crash and recovery, the app files that count
\* are of one version, and so are those of each backup: an update or a restore
\* is never half done (Recovery.cs, Replace and RecoverInterrupted).
THEOREM VersionsNeverMix == Spec => []Folder!NeverMixed
<1>1. Init => Sound /\ OutFree /\ SettingsKept /\ (ruined \/ Swap)
  BY InitSound, InitKept, InitSwap
<1>2. Swap => Folder!NeverMixed
  <2>1. \A n \in App : Installation[n] = Counted[n]
    BY NameFacts DEF Installation, Counted, Unlisted
  <2> QED BY <2>1 DEF Swap, Unmixed, One, Folder!NeverMixed, Folder!OneVersion, Folder!Absent, Absent
<1>3. ruined => Folder!NeverMixed
  BY DEF Folder!NeverMixed
<1> QED BY <1>1, <1>2, <1>3, SwapStep, KeptStep, PTL DEF Spec

-----------------------------------------------------------------------------
(* The atomic folder *)

\* A tree's app files: none, or all that a version ships.
Ships(t, v) == \A n \in App : t[n] = IF n \in Payload[v] THEN File(v) ELSE Absent
NoApp(t) == \A n \in App : t[n] = Absent
Complete(t) == NoApp(t) \/ \E v \in Version : Ships(t, v)

NotOlder(old, new) ==
  IF new[Exe] = Absent THEN NoApp(old)
  ELSE old[Exe] = Absent \/ old[Exe].version <= new[Exe].version

\* Nothing has been removed while a journal was open.
Intact == work # "open" \/ present

\* What the names of the app hold once the swap is done.
Final == [n \in Name |-> IF setup.pc = "in" /\ n \notin setup.left THEN root[n] ELSE stage[n]]

\* Settings that no backup has.
New(s) == s \in Settings /\ \A t \in backups : t[Config] # s
Loose == root[Config] = Absent \/ New(root[Config])

\* The swap puts backup t in place; once its settings are there, or could be, the app
\* may have saved others.
Restores(t) ==
  /\ \A n \in App : Final[n] = t[n]
  /\ IF setup.pc = "in" /\ Config \notin setup.left
     THEN root[Config] = t[Config] \/ New(root[Config]) ELSE stage[Config] = t[Config]

Aim == IF setup.kind = "restore" THEN \E t \in backups : Restores(t)
       ELSE /\ Complete(Final) /\ NotOlder(Counted, Final)
            /\ NoApp(Final) => setup.kind # "install" /\ Final[Config] # Absent

Wholes == (\A t \in backups : Complete(t)) /\ (Intact => Complete(Counted))

\* What the operation has been asked for.
Asked ==
  /\ setup.pc \in {"backup", "copy"} =>
       /\ setup.kind = "restore" => setup.chosen \in backups
       /\ setup.kind = "install" => root[Exe] = Absent \/ root[Exe].version <= setup.version
  /\ setup.pc \in {"backup", "copy", "check", "open"} => ~Pending

Aims == setup.pc \in {"check", "open", "journal", "out", "in"} /\ Intact => Aim

\* What the journal says of the stage, and of the settings.
Listed ==
  setup.pc \in {"journal", "out"} =>
    /\ \A n \in App : n \in journal.after <=> stage[n] # Absent
    /\ setup.kind # "install" => (Config \in journal.after <=> stage[Config] # Absent)

Marks ==
  /\ setup.pc = "journal" =>
       /\ present /\ Config \in journal.before => root[Config] # Absent
       /\ setup.kind = "restore" /\ Config \notin journal.before => Loose
  /\ setup.pc = "out" =>
       /\ present /\ Config \in setup.left => root[Config] # Absent
       /\ present /\ Config \in journal.before \ setup.left => previous[Config] # Absent
       /\ setup.kind = "restore" /\ Config \notin setup.left => Loose
  /\ setup.pc = "in" => (present /\ Config \in journal.before => previous[Config] # Absent)
  /\ work = "open" => (previous[Config] # Absent => Config \in journal.before)
  /\ setup.pc \in {"undo", "back"} => (Config \notin setup.left => previous[Config] = Absent)
  /\ setup.pc = "keep" /\ work = "open" => previous[Config] = Absent

\* No settings are newer than the app's last.
Dated(s, e) == s # Absent => s.edit <= e
Numbered ==
  /\ Dated(root[Config], edits) /\ Dated(previous[Config], edits) /\ Dated(stage[Config], edits)
  /\ \A t \in backups : Dated(t[Config], edits)

Plan == Wholes /\ Asked /\ Aims /\ Listed /\ Marks /\ Numbered

\* Completeness and age depend on the app files only.
LEMMA SameApp ==
  ASSUME NEW t, NEW u, \A n \in App : u[n] = t[n]
  PROVE  /\ Complete(t) => Complete(u)
         /\ \A o : NotOlder(o, t) => NotOlder(o, u)
         /\ \A o : NotOlder(t, o) => NotOlder(u, o)
<1>1. u[Exe] = t[Exe]
  BY TreeAssumption
<1>2. Complete(t) => Complete(u)
  BY DEF Complete, NoApp, Ships
<1>3. NoApp(t) => NoApp(u)
  BY Zenon DEF NoApp
<1> QED BY <1>1, <1>2, <1>3 DEF NotOlder

LEMMA CompleteFacts ==
  ASSUME NEW t, Complete(t)
  PROVE  /\ t[Exe] = Absent => NoApp(t)
         /\ t[Exe] # Absent => \E v \in Version : Ships(t, v) /\ t[Exe] = File(v)
         /\ NotOlder(t, t)
<1>1. CASE NoApp(t)
  <2>1. t[Exe] = Absent
    BY <1>1, TreeAssumption DEF NoApp
  <2> QED BY <1>1, <2>1 DEF NotOlder
<1>2. ASSUME NEW v \in Version, Ships(t, v) PROVE t[Exe] = File(v) /\ v \in Nat
  BY <1>2, TreeAssumption DEF Ships
<1>3. CASE \E v \in Version : Ships(t, v)
  <2>1. PICK v \in Version : Ships(t, v)
    BY <1>3
  <2>2. t[Exe] = File(v) /\ v \in Nat /\ t[Exe] # Absent
    BY <1>2, <2>1, ContentFacts
  <2>3. t[Exe].version <= t[Exe].version
    BY <2>2 DEF File
  <2> QED BY <2>1, <2>2, <2>3 DEF NotOlder
<1> QED BY <1>1, <1>3 DEF Complete

LEMMA WholeComplete ==
  ASSUME NEW v \in Version, NEW s
  PROVE  Ships(Whole(v, s), v)
BY NameFacts DEF Ships, Whole

LEMMA EmptyComplete == NoApp(Empty) /\ Complete(Empty)
BY EmptyTyped, NameFacts DEF NoApp, Complete

LEMMA FinalAt ==
  \A n \in Name : Final[n] = IF setup.pc = "in" /\ n \notin setup.left THEN root[n] ELSE stage[n]
BY DEF Final

LEMMA FinalThen ==
  \A n \in Name : Final'[n] = IF setup'.pc = "in" /\ n \notin setup'.left THEN root'[n] ELSE stage'[n]
BY DEF Final

\* Primed, the parts speak of the primed folder and stage.
LEMMA AimThen ==
  Aim' <=> IF setup'.kind = "restore" THEN \E t \in backups' : Restores(t)'
           ELSE /\ Complete(Final') /\ NotOlder(Counted', Final')
                /\ NoApp(Final') => setup'.kind # "install" /\ Final'[Config] # Absent
BY DEF Aim, Complete, NotOlder, NoApp, Ships

LEMMA WholesThen ==
  Wholes' <=> (\A t \in backups' : Complete(t)) /\ (Intact' => Complete(Counted'))
BY DEF Wholes, Complete, NoApp, Ships

LEMMA SameFolder ==
  (\A n \in Name : Counted'[n] = Counted[n]) => Counted' = Counted
BY DEF Counted

\* A swap keeps its aim while the app's files stay.
LEMMA AimStays ==
  ASSUME Aim, setup'.kind = setup.kind, backups' = backups,
         \A n \in App : Final'[n] = Final[n] /\ Counted'[n] = Counted[n],
         Final[Config] # Absent => Final'[Config] # Absent,
         \A t \in backups : Restores(t) => Restores(t)'
  PROVE  Aim'
<1>1. CASE setup.kind = "restore"
  BY <1>1, AimThen DEF Aim
<1>2. CASE setup.kind # "restore"
  <2>1. /\ Complete(Final) /\ NotOlder(Counted, Final)
        /\ NoApp(Final) => setup.kind # "install" /\ Final[Config] # Absent
    BY <1>2 DEF Aim
  <2>2. Complete(Final') /\ NotOlder(Counted, Final')
    BY <2>1, SameApp
  <2>3. NotOlder(Counted', Final')
    BY <2>2, SameApp
  <2>4. NoApp(Final') => setup'.kind # "install" /\ Final'[Config] # Absent
    BY <2>1 DEF NoApp
  <2> QED BY <1>2, <2>2, <2>3, <2>4, AimThen
<1> QED BY <1>1, <1>2

\* What has been moved out was in the folder.
WasThere == work = "open" => \A n \in Name : previous[n] # Absent => n \in journal.before

LEMMA JournalFacts == Swap /\ Plan => WasThere
BY DEF Swap, Emptying, Plan, Marks, WasThere, Name

\* Moves keep what counts of each name, the settings included.
LEMMA MovesKeep ==
  ASSUME Sound, OutFree, Swap, Plan, NEW n \in Name, MoveOut(n) \/ MoveIn(n) \/ Undo(n) \/ Back
  PROVE  Counted' = Counted
<1>r. setup \in SetupRecord /\ setup.left \subseteq Name
  BY DEF Sound, FlagsTyped, SetupRecord
<1>d. root \in Folders /\ previous \in Folders
  BY DEF Sound, DiskTyped
<1>u. UNCHANGED <<work, journal>>
  BY DEF MoveOut, MoveIn, Undo, Back
<1>o. work = "open"
  BY DEF MoveOut, MoveIn, Undo, Back, Sound, Phases, Swapping
<1>w. \A m \in Name : previous[m] # Absent => m \in journal.before
  BY <1>o, JournalFacts DEF WasThere
<1>1. CASE MoveOut(n)
  <2>1. /\ setup.pc = "out" /\ n \in setup.left
        /\ previous' = [previous EXCEPT ![n] = root[n]] /\ root' = [root EXCEPT ![n] = Absent]
    BY <1>1 DEF MoveOut
  <2>2. \A m \in Name : /\ root'[m] = IF m = n THEN Absent ELSE root[m]
                        /\ previous'[m] = IF m = n THEN root[n] ELSE previous[m]
    BY <1>d, <2>1 DEF Folders, Tree
  <2>3. previous[n] = Absent /\ n \in journal.before
    BY <2>1 DEF OutFree, Swap, Emptying
  <2>4. \A m \in Name : Counted'[m] = Counted[m]
    BY <1>o, <1>u, <2>2, <2>3, CountedAt, CountedThen
  <2> QED BY <2>4, SameFolder
<1>2. CASE MoveIn(n)
  <2>1. /\ setup.pc = "in" /\ n \in setup.left /\ present /\ root[n] = Absent
        /\ root' = [root EXCEPT ![n] = stage[n]] /\ previous' = previous
    BY <1>2 DEF MoveIn
  <2>2. \A m \in Name : root'[m] = IF m = n THEN stage[n] ELSE root[m]
    BY <1>d, <2>1 DEF Folders, Tree
  <2>3. setup.left \subseteq journal.after /\ (n \in journal.before => previous[n] # Absent)
    BY <2>1 DEF Swap, Filling, Plan, Marks, Name
  <2>4. \A m \in Name : Counted'[m] = Counted[m]
    BY <1>o, <1>u, <2>1, <2>2, <2>3, CountedAt, CountedThen
  <2> QED BY <2>4, SameFolder
<1>3. CASE Undo(n)
  <2>1. /\ n \in setup.left /\ previous' = previous
        /\ setup.left \subseteq journal.before \union journal.after
        /\ \/ root' = root
           \/ Displaced(n) /\ root' = [root EXCEPT ![n] = Absent]
    BY <1>3 DEF Undo, Swap, Undoing
  <2>2. \A m \in Name : root'[m] = root[m] \/ (m = n /\ Displaced(n))
    BY <1>d, <2>1 DEF Folders, Tree
  <2>3. \A m \in Name : Counted'[m] = Counted[m]
    BY <1>o, <1>u, <1>w, <2>1, <2>2, CountedAt, CountedThen DEF Displaced
  <2> QED BY <2>3, SameFolder
<1>4. CASE Back
  <2> DEFINE e == setup.entry
  <2>0. e \in Name
    BY <1>r DEF SetupRecord
  <2>1. /\ previous' = [previous EXCEPT ![e] = Absent]
        /\ root' = IF previous[e] = Absent THEN root ELSE [root EXCEPT ![e] = previous[e]]
    BY <1>4 DEF Back
  <2> HIDE DEF e
  <2>2. \A m \in Name :
          /\ root'[m] = IF m = e /\ previous[e] # Absent THEN previous[e] ELSE root[m]
          /\ previous'[m] = IF m = e THEN Absent ELSE previous[m]
    BY <1>d, <2>1 DEF Folders, Tree
  <2>3. \A m \in Name : Counted'[m] = Counted[m]
    BY <1>o, <1>u, <1>w, <2>0, <2>2, CountedAt, CountedThen
  <2> QED BY <2>3, SameFolder
<1> QED BY <1>1, <1>2, <1>3, <1>4

\* Initially there is no journal, and no older settings than the first.
LEMMA InitPlan == Init => Plan
<1> SUFFICES ASSUME Init PROVE Plan
  OBVIOUS
<1>1. setup.pc = "idle" /\ work = "none" /\ edits = 0 /\ previous = Empty /\ stage = Empty
  BY SetupFacts DEF Init
<1>2. \A v \in Version : Complete(Whole(v, FirstSettings)) /\ Whole(v, FirstSettings)[Config] = FirstSettings
  <2>1. FirstSettings \in Maybe
    BY TreeAssumption, InstallerAssumption DEF FirstSettings, Settings, Maybe
  <2> QED BY <2>1, WholeTyped, WholeComplete DEF Complete
<1>3. Complete(root) /\ \A t \in backups : Complete(t)
  BY <1>2, EmptyComplete DEF Init
<1>4. Complete(Counted)
  <2>0. work # "open"
    BY <1>1
  <2>1. \A n \in App : Counted[n] = root[n]
    BY <2>0, RootCounts
  <2> QED BY <1>3, <2>1, SameApp
<1>5. FirstSettings.edit = 0 /\ Empty[Config] = Absent
  BY EmptyTyped, NameFacts DEF FirstSettings
<1>6. /\ root[Config] = Absent \/ root[Config] = FirstSettings
      /\ \A t \in backups : t[Config] = FirstSettings
  BY <1>2, <1>5 DEF Init
<1>7. Numbered
  BY <1>1, <1>5, <1>6 DEF Numbered, Dated
<1> QED BY <1>1, <1>3, <1>4, <1>7 DEF Plan, Wholes, Asked, Aims, Listed, Marks

\* The app, and uninstalling.
LEMMA AppPlan ==
  ASSUME Sound, Swap, Plan, ~ruined', Launch \/ Quit \/ Uninstall \/ Save \/ RemoveFolder
  PROVE  Plan'
<1>u. UNCHANGED <<work, journal, previous, setup, stage, backups>>
  BY Removal DEF Launch, Quit, Uninstall, Save, disk
<1>1. CASE Launch \/ Quit \/ Uninstall
  <2>1. UNCHANGED <<root, present, edits>>
    BY <1>1 DEF Launch, Quit, Uninstall, disk
  <2>2. Counted' = Counted
    BY <1>u, <2>1 DEF Counted
  <2>3. Final' = Final
    BY <1>u, <2>1 DEF Final
  <2>4. Intact' = Intact /\ Wholes'
    BY <1>u, <2>1, <2>2, WholesThen DEF Plan, Wholes, Intact
  <2>5. Aim => Aim'
    BY <1>u, <2>1, <2>2, <2>3, AimStays DEF Restores, New
  <2> QED BY <1>u, <2>1, <2>4, <2>5
          DEF Plan, Asked, Aims, Listed, Marks, Numbered, Dated, Loose, New, Pending
<1>2. CASE Save
  <2>1. /\ root' = [root EXCEPT ![Config] = latest'] /\ present' = present /\ edits' = edits + 1
        /\ latest' = [kind |-> "config", edit |-> edits + 1, language |-> LanguageOf(root[Config])]
        /\ present /\ edits + 1 \in Edit
    BY <1>2 DEF Save
  <2>2. \A n \in Name : root'[n] = IF n = Config THEN latest' ELSE root[n]
    BY <2>1 DEF Sound, DiskTyped, Folders, Tree
  <2>3. latest'.edit = edits + 1 /\ latest' # Absent
    BY <2>1 DEF Absent
  <2>4. edits \in Nat
    BY TreeAssumption DEF Sound, FlagsTyped
  <2>5. LanguageOf(root[Config]) \in Language
    BY FolderEntries, InstallerAssumption DEF LanguageOf, Maybe, Settings, Sound, DiskTyped
  <2>6. latest' \in Settings
    BY <2>1, <2>5 DEF Settings
  <2>7. \A t \in backups : t[Config] # latest'
    <3> SUFFICES ASSUME NEW t \in backups, t[Config] = latest' PROVE FALSE
      OBVIOUS
    <3>1. latest'.edit <= edits
      BY <2>3 DEF Plan, Numbered, Dated
    <3> QED BY <2>3, <2>4, <3>1
  <2>8. New(root[Config])' /\ root'[Config] # Absent
    BY <1>u, <2>2, <2>3, <2>6, <2>7, NameFacts DEF New
  <2>9. \A n \in App : root'[n] = root[n] /\ Counted'[n] = Counted[n] /\ Final'[n] = Final[n]
    BY <1>u, <2>2, CountedAt, CountedThen, FinalAt, FinalThen, NameFacts
  <2>10. Intact' = Intact /\ Wholes'
    BY <1>u, <2>1, <2>9, SameApp, WholesThen DEF Plan, Wholes, Intact
  <2>11. Aim => Aim'
    <3>1. \A t \in backups : Restores(t) => Restores(t)'
      BY <1>u, <2>8, <2>9 DEF Restores
    <3>2. Final[Config] # Absent => Final'[Config] # Absent
      BY <1>u, <2>8, FinalAt, FinalThen, NameFacts
    <3> QED BY <1>u, <2>9, <3>1, <3>2, AimStays
  <2>12. Numbered'
    <3>1. \A s : Dated(s, edits) /\ s \in Maybe => Dated(s, edits')
      <4> SUFFICES ASSUME NEW s, s.edit <= edits, s \in Settings PROVE s.edit <= edits'
        BY DEF Dated, Maybe
      <4>1. s.edit \in Nat
        BY TreeAssumption DEF Settings
      <4> QED BY <2>1, <2>4, <4>1
    <3>2. Dated(root'[Config], edits')
      BY <2>1, <2>2, <2>3, <2>4, NameFacts DEF Dated
    <3>3. /\ previous[Config] \in Maybe /\ stage[Config] \in Maybe
          /\ \A t \in backups : t[Config] \in Maybe
      BY DEF Sound, DiskTyped, Folders
    <3>4. /\ Dated(previous[Config], edits') /\ Dated(stage[Config], edits')
          /\ \A t \in backups : Dated(t[Config], edits')
      BY <3>1, <3>3 DEF Plan, Numbered
    <3> QED BY <1>u, <3>2, <3>4 DEF Numbered, Dated
  <2>13. Exe \in App
    BY TreeAssumption
  <2> QED BY <1>u, <2>1, <2>8, <2>9, <2>10, <2>11, <2>12, <2>13
          DEF Plan, Asked, Aims, Listed, Marks, Loose, Pending
<1>3. CASE RemoveFolder
  <2>1. root' = Empty /\ present' = FALSE /\ edits' = edits
    BY <1>3, Removal
  <2>2. \A n \in Name : root'[n] = Absent
    BY <2>1, EmptyTyped
  <2>3. Intact' => work # "open" /\ Intact
    BY <1>u, <2>1 DEF Intact
  <2>4. Intact' => \A n \in App : Counted'[n] = Absent
    BY <1>u, <2>2, <2>3, CountedThen, NameFacts
  <2>5. Intact' => NoApp(Counted')
    BY <2>4 DEF NoApp
  <2>6. Wholes'
    BY <1>u, <2>5, WholesThen DEF Plan, Wholes, Complete
  <2>7. Aims'
    <3> SUFFICES ASSUME setup.pc \in {"check", "open", "journal", "out", "in"}, Intact' PROVE Aim'
      BY <1>u DEF Aims
    <3>1. setup.pc \notin {"out", "in"} /\ Aim
      BY <2>3 DEF Sound, Phases, Swapping, Plan, Aims
    <3>2. \A n \in Name : Final'[n] = Final[n]
      BY <1>u, <3>1, FinalAt, FinalThen
    <3>3. \A t \in backups : Restores(t) => Restores(t)'
      BY <1>u, <3>1, <3>2, NameFacts DEF Restores
    <3>4. CASE setup.kind = "restore"
      BY <1>u, <3>1, <3>3, <3>4, AimThen DEF Aim
    <3>5. CASE setup.kind # "restore"
      <4>1. Complete(Final')
        BY <3>1, <3>2, <3>5, SameApp, NameFacts DEF Aim
      <4>2. NotOlder(Counted', Final')
        BY <2>4, <2>5, TreeAssumption DEF NotOlder
      <4>3. NoApp(Final') => setup'.kind # "install" /\ Final'[Config] # Absent
        BY <1>u, <3>1, <3>2, <3>5, NameFacts DEF Aim, NoApp
      <4> QED BY <1>u, <3>5, <4>1, <4>2, <4>3, AimThen
    <3> QED BY <3>4, <3>5
  <2>8. Asked' /\ Listed'
    BY <1>u, <2>2, NameFacts DEF Plan, Asked, Listed, Pending
  <2>9. Marks' /\ Numbered'
    BY <1>u, <2>1, <2>2, NameFacts DEF Plan, Marks, Loose, Numbered, Dated
  <2> QED BY <2>6, <2>7, <2>8, <2>9 DEF Plan
<1> QED BY <1>1, <1>2, <1>3

\* The moves.
LEMMA MovesPlan ==
  ASSUME Sound, OutFree, Swap, Plan, NEW n \in Name, MoveOut(n) \/ MoveIn(n) \/ Undo(n) \/ Back
  PROVE  Plan'
<1>r. /\ setup \in SetupRecord /\ journal.before \subseteq Name /\ journal.after \subseteq Name
      /\ setup.left \subseteq Name
  BY DEF Sound, FlagsTyped, SetupRecord
<1>d. root \in Folders /\ previous \in Folders /\ stage \in Folders
  BY DEF Sound, DiskTyped
<1>u. UNCHANGED <<backups, work, journal, present, edits>>
  BY DEF MoveOut, MoveIn, Undo, Back
<1>o. work = "open"
  BY DEF MoveOut, MoveIn, Undo, Back, Sound, Phases, Swapping
<1>i. Counted' = Counted
  BY MovesKeep
<1>w. Wholes'
  BY <1>u, <1>i, WholesThen DEF Plan, Wholes, Intact
<1>j. /\ previous[Config] # Absent => Config \in journal.before
      /\ Numbered
  BY <1>o DEF Plan, Marks
<1>1. CASE MoveOut(n)
  <2>1. /\ setup.pc = "out" /\ n \in setup.left /\ stage' = stage
        /\ previous' = [previous EXCEPT ![n] = root[n]] /\ root' = [root EXCEPT ![n] = Absent]
        /\ setup' = [setup EXCEPT !.left = setup.left \ {n}]
    BY <1>1 DEF MoveOut
  <2>2. setup'.pc = "out" /\ setup'.left = setup.left \ {n} /\ setup'.kind = setup.kind
    BY <1>r, <2>1, Fields
  <2>3. \A m \in Name : /\ root'[m] = IF m = n THEN Absent ELSE root[m]
                        /\ previous'[m] = IF m = n THEN root[n] ELSE previous[m]
    BY <1>d, <2>1 DEF Folders, Tree
  <2>4. n \in journal.before
    BY <2>1 DEF Swap, Emptying
  <2>5. \A m \in Name : Final'[m] = Final[m]
    BY <2>1, <2>2, FinalAt, FinalThen
  <2>6. Aims'
    <3>1. \A t \in backups : Restores(t) => Restores(t)'
      BY <2>1, <2>2, <2>5, NameFacts DEF Restores
    <3>2. /\ \A m \in App : Final'[m] = Final[m] /\ Counted'[m] = Counted[m]
          /\ Final'[Config] = Final[Config]
      BY <1>i, <2>5, NameFacts
    <3>3. Aim => Aim'
      BY <1>u, <2>2, <3>1, <3>2, AimStays
    <3> QED BY <1>u, <2>1, <3>3 DEF Plan, Aims, Intact
  <2>7. Asked' /\ Listed'
    BY <1>u, <2>1, <2>2 DEF Plan, Asked, Listed
  <2>8. Marks'
    <3>1. Loose \/ n = Config => Loose'
      BY <1>u, <2>3, NameFacts DEF Loose, New
    <3> QED BY <1>u, <1>j, <2>1, <2>2, <2>3, <2>4, <3>1, NameFacts DEF Plan, Marks
  <2>9. Numbered'
    BY <1>u, <1>j, <2>1, <2>3, NameFacts DEF Numbered, Dated
  <2> QED BY <1>w, <2>6, <2>7, <2>8, <2>9 DEF Plan
<1>2. CASE MoveIn(n)
  <2>1. /\ setup.pc = "in" /\ n \in setup.left /\ present /\ previous' = previous
        /\ root' = [root EXCEPT ![n] = stage[n]] /\ stage' = [stage EXCEPT ![n] = Absent]
        /\ setup' = [setup EXCEPT !.left = setup.left \ {n}]
    BY <1>2 DEF MoveIn
  <2>2. setup'.pc = "in" /\ setup'.left = setup.left \ {n} /\ setup'.kind = setup.kind
    BY <1>r, <2>1, Fields
  <2>3. \A m \in Name : /\ root'[m] = IF m = n THEN stage[n] ELSE root[m]
                        /\ stage'[m] = IF m = n THEN Absent ELSE stage[m]
    BY <1>d, <2>1 DEF Folders, Tree
  <2>4. \A m \in Name : Final'[m] = Final[m]
    BY <2>1, <2>2, <2>3, FinalAt, FinalThen
  <2>5. Aims'
    <3>1. \A t \in backups : Restores(t) => Restores(t)'
      BY <1>u, <2>1, <2>2, <2>3, <2>4, NameFacts DEF Restores, New
    <3>2. /\ \A m \in App : Final'[m] = Final[m] /\ Counted'[m] = Counted[m]
          /\ Final'[Config] = Final[Config]
      BY <1>i, <2>4, NameFacts
    <3>3. Aim => Aim'
      BY <1>u, <2>2, <3>1, <3>2, AimStays
    <3> QED BY <1>u, <2>1, <3>3 DEF Plan, Aims, Intact
  <2>6. Asked' /\ Listed'
    BY <1>u, <2>1, <2>2 DEF Plan, Asked, Listed
  <2>7. Marks'
    BY <1>u, <1>j, <2>1, <2>2 DEF Plan, Marks
  <2>8. Numbered'
    BY <1>u, <1>j, <2>1, <2>3, NameFacts DEF Numbered, Dated
  <2> QED BY <1>w, <2>5, <2>6, <2>7, <2>8 DEF Plan
<1>3. CASE Undo(n)
  <2>1. /\ setup.pc = "undo" /\ UNCHANGED <<previous, stage>>
        /\ root' = root \/ root' = [root EXCEPT ![n] = Absent]
        /\ \/ setup' = [setup EXCEPT !.pc = "back", !.entry = n]
           \/ ~Displaced(n) /\ setup' = [setup EXCEPT !.left = setup.left \ {n}]
    BY <1>3 DEF Undo
  <2>2. /\ setup'.pc \in {"undo", "back"}
        /\ setup'.left = setup.left \/ (~Displaced(n) /\ setup'.left = setup.left \ {n})
    <3>1. CASE setup' = [setup EXCEPT !.pc = "back", !.entry = n]
      BY <1>r, <3>1, Fields DEF Pc
    <3>2. CASE ~Displaced(n) /\ setup' = [setup EXCEPT !.left = setup.left \ {n}]
      BY <1>r, <2>1, <3>2, Fields
    <3> QED BY <2>1, <3>1, <3>2
  <2>3. root'[Config] = root[Config] \/ root'[Config] = Absent
    BY <1>d, <2>1, NameFacts DEF Folders, Tree
  <2>4. Asked' /\ Aims' /\ Listed'
    BY <2>2 DEF Asked, Aims, Listed
  <2>5. Marks'
    BY <1>u, <1>j, <2>1, <2>2 DEF Plan, Marks, Displaced
  <2>6. Numbered'
    BY <1>u, <1>j, <2>1, <2>3 DEF Numbered, Dated
  <2> QED BY <1>w, <2>4, <2>5, <2>6 DEF Plan
<1>4. CASE Back
  <2> DEFINE e == setup.entry
  <2>0. e \in Name
    BY <1>r DEF SetupRecord
  <2>1. /\ setup.pc = "back" /\ previous' = [previous EXCEPT ![e] = Absent] /\ stage' = stage
        /\ root' = IF previous[e] = Absent THEN root ELSE [root EXCEPT ![e] = previous[e]]
        /\ setup' = [setup EXCEPT !.pc = "undo", !.left = setup.left \ {e}, !.entry = Exe]
    BY <1>4 DEF Back
  <2> HIDE DEF e
  <2>2. setup'.pc = "undo" /\ setup'.left = setup.left \ {e}
    BY <1>r, <2>1, Fields, NameFacts DEF Pc
  <2>3. \A m \in Name :
          /\ root'[m] = IF m = e /\ previous[e] # Absent THEN previous[e] ELSE root[m]
          /\ previous'[m] = IF m = e THEN Absent ELSE previous[m]
    BY <1>d, <2>1 DEF Folders, Tree
  <2>4. Asked' /\ Aims' /\ Listed'
    BY <2>2 DEF Asked, Aims, Listed
  <2>5. Marks'
    BY <1>u, <1>j, <2>0, <2>1, <2>2, <2>3, NameFacts DEF Plan, Marks
  <2>6. Numbered'
    BY <1>u, <1>j, <2>1, <2>3, NameFacts DEF Numbered, Dated
  <2> QED BY <1>w, <2>4, <2>5, <2>6 DEF Plan
<1> QED BY <1>1, <1>2, <1>3, <1>4

\* Steps that leave the folder and the work directory alone.
LEMMA StillPlan ==
  ASSUME Plan, UNCHANGED <<root, work, journal, previous, present>>
  PROVE  /\ Counted' = Counted /\ (Intact' <=> Intact)
         /\ backups' = backups => Wholes'
<1>1. Counted' = Counted /\ (Intact' <=> Intact)
  BY DEF Counted, Intact
<1> QED BY <1>1, WholesThen DEF Plan, Wholes

\* An operation that replaces nothing has no plan but the journal's marks.
LEMMA RestPlan ==
  ASSUME Sound, Plan, UNCHANGED <<root, work, journal, previous, present, backups, edits>>,
         stage' \in {stage, Empty},
         setup'.pc \in {"idle", "discard", "undo", "keep"},
         setup'.pc = "undo" => (Config \notin setup'.left => previous[Config] = Absent),
         setup'.pc = "keep" /\ work = "open" => previous[Config] = Absent
  PROVE  Plan'
<1>1. Wholes'
  BY StillPlan
<1>2. Asked' /\ Aims' /\ Listed'
  BY DEF Asked, Aims, Listed
<1>3. Marks'
  BY DEF Plan, Marks
<1>4. Numbered'
  BY EmptyTyped, NameFacts DEF Plan, Numbered, Dated
<1> QED BY <1>1, <1>2, <1>3, <1>4 DEF Plan

LEMMA EndPlan ==
  ASSUME Sound, Swap, Plan, Abort \/ Fail \/ UndoDone \/ GiveUp \/ Discard \/ Crash
  PROVE  Plan'
<1>r. setup \in SetupRecord /\ journal.before \subseteq Name /\ journal.after \subseteq Name
  BY DEF Sound, FlagsTyped
<1>u. UNCHANGED <<root, work, journal, previous, present, backups, edits>> /\ stage' \in {stage, Empty}
  BY DEF Abort, Fail, UndoDone, GiveUp, Discard, Crash, disk
<1>1. CASE Abort \/ GiveUp
  <2>1. setup' = [setup EXCEPT !.pc = "discard"]
    BY <1>1 DEF Abort, GiveUp, Goto
  <2>2. setup'.pc = "discard"
    BY <1>r, <2>1, Fields DEF Pc
  <2> QED BY <1>u, <2>2, RestPlan
<1>2. CASE Discard \/ Crash
  <2>1. setup'.pc = "idle"
    BY <1>2, SetupFacts DEF Discard, Crash
  <2> QED BY <1>u, <2>1, RestPlan
<1>3. CASE Fail
  <2>1. setup' = [setup EXCEPT !.pc = "undo", !.left = journal.before \union journal.after] /\ work = "open"
    BY <1>3 DEF Fail, Sound, Phases, Swapping
  <2>2. setup'.pc = "undo" /\ setup'.left = journal.before \union journal.after
    BY <1>r, <2>1, Fields DEF Pc
  <2>3. previous[Config] # Absent => Config \in journal.before
    BY <2>1 DEF Plan, Marks
  <2> QED BY <1>u, <2>2, <2>3, RestPlan
<1>4. CASE UndoDone
  <2>1. setup' = [setup EXCEPT !.pc = "keep"] /\ setup.pc = "undo" /\ setup.left = {}
    BY <1>4 DEF UndoDone, Goto
  <2>2. setup'.pc = "keep"
    BY <1>r, <2>1, Fields DEF Pc
  <2>3. previous[Config] = Absent
    BY <2>1 DEF Plan, Marks
  <2> QED BY <1>u, <2>2, <2>3, RestPlan
<1> QED BY <1>1, <1>2, <1>3, <1>4

\* An operation up to its replacement.
LEMMA StartPlan ==
  ASSUME Sound, Plan, Start
  PROVE  Plan'
<1>1. PICK kind \in Kind, v \in Version \union {0}, l \in Language, t \in backups \union {Empty} :
        /\ Begin(kind, v, l, t)
        /\ kind = "restore" => t \in backups
        /\ kind = "install" => v \in Version
  BY InstallerAssumption DEF Start, Kind
<1> DEFINE ns == IF kind = "recover" THEN journal.before \union journal.after ELSE {}
<1>2. /\ setup' = [pc |-> First(kind), kind |-> kind, version |-> v, language |-> l,
                   chosen |-> t, left |-> ns, entry |-> Exe]
      /\ UNCHANGED <<disk, stage, edits>>
      /\ kind # "recover" => ~Pending
      /\ kind = "install" => ~RequiresRestore(v)
  BY <1>1 DEF Begin, Refused
<1>3. /\ First(kind) \in {"undo", "keep", "idle", "copy", "backup"}
      /\ First(kind) \in {"copy", "backup"} => kind # "recover"
      /\ First(kind) = "undo" => kind = "recover" /\ work = "open"
      /\ First(kind) = "keep" => work = "committed"
  BY DEF First
<1>4. First(kind) = "undo" => ns = journal.before \union journal.after
  BY <1>3
<1> HIDE DEF ns
<1>5. /\ setup'.pc = First(kind) /\ setup'.kind = kind /\ setup'.chosen = t /\ setup'.left = ns
      /\ setup'.version = v
  BY <1>2
<1>6. UNCHANGED <<root, work, journal, previous, present, backups, edits, stage>>
  BY <1>2 DEF disk
<1>7. Wholes'
  BY <1>6, StillPlan
<1>8. kind = "install" => root[Exe] = Absent \/ root[Exe].version <= v
  <2> SUFFICES ASSUME kind = "install", root[Exe] # Absent PROVE root[Exe].version <= v
    OBVIOUS
  <2>1. work # "open" /\ ~(root[Exe].version > v)
    BY <1>2 DEF Pending, RequiresRestore
  <2>2. Complete(Counted) /\ \A n \in App : Counted[n] = root[n]
    BY <2>1, RootCounts DEF Plan, Wholes, Intact
  <2>3. Complete(root)
    BY <2>2, SameApp
  <2>4. PICK w \in Version : root[Exe] = File(w)
    BY <2>3, CompleteFacts
  <2>5. root[Exe].version = w /\ w \in Nat /\ v \in Nat
    BY <1>1, <2>4, TreeAssumption DEF File
  <2> QED BY <2>1, <2>5
<1>9. Asked'
  <2>1. Pending' = Pending
    BY <1>6 DEF Pending
  <2> QED BY <1>1, <1>2, <1>3, <1>5, <1>6, <1>8, <2>1 DEF Asked
<1>10. Aims' /\ Listed'
  BY <1>3, <1>5 DEF Aims, Listed
<1>11. Marks'
  BY <1>3, <1>4, <1>5, <1>6 DEF Plan, Marks
<1>12. Numbered'
  BY <1>6 DEF Plan, Numbered, Dated
<1> QED BY <1>7, <1>9, <1>10, <1>11, <1>12 DEF Plan

\* A backup is taken, and a stage filled, while no journal is open.
LEMMA RootComplete ==
  ASSUME Plan, setup.pc \in {"backup", "copy", "check", "open"}
  PROVE  /\ work \in {"open", "committed"} => FALSE
         /\ Complete(root) /\ Intact
         /\ \A n \in Name : Counted[n] = root[n]
<1>1. work # "open" /\ work # "committed"
  BY DEF Plan, Asked, Pending
<1>2. \A n \in Name : Counted[n] = root[n]
  BY <1>1, CountedAt
<1>3. Complete(Counted)
  BY <1>1 DEF Plan, Wholes, Intact
<1>4. Complete(root)
  BY <1>2, <1>3, SameApp, NameFacts
<1> QED BY <1>1, <1>2, <1>4 DEF Intact

LEMMA BackupPlan ==
  ASSUME Sound, Plan, Backup
  PROVE  Plan'
<1>1. /\ setup.pc = "backup" /\ stage' = stage /\ edits' = edits
      /\ backups' \in {backups, backups \union {root}}
      /\ UNCHANGED <<root, work, journal, previous, present>>
  BY DEF Backup
<1>2. PICK q \in {"idle", "copy"} : setup' = [setup EXCEPT !.pc = q]
  BY DEF Backup, Goto
<1>3. /\ setup'.pc = q /\ setup'.kind = setup.kind /\ setup'.chosen = setup.chosen
      /\ setup'.version = setup.version
  BY <1>2 DEF Sound, FlagsTyped, SetupRecord
<1>4. Complete(root) /\ work \notin {"open", "committed"}
  BY <1>1, RootComplete
<1>5. Wholes'
  <2>1. \A t \in backups' : Complete(t)
    BY <1>1, <1>4 DEF Plan, Wholes
  <2>2. Counted' = Counted /\ (Intact' <=> Intact)
    BY <1>1, StillPlan
  <2> QED BY <2>1, <2>2, WholesThen DEF Plan, Wholes
<1>6. Asked'
  BY <1>1, <1>3, <1>4 DEF Plan, Asked, Pending
<1>7. Aims' /\ Listed'
  BY <1>3 DEF Aims, Listed
<1>8. Marks'
  BY <1>1, <1>3, <1>4 DEF Plan, Marks
<1>9. Numbered'
  BY <1>1 DEF Plan, Numbered, Dated
<1> QED BY <1>5, <1>6, <1>7, <1>8, <1>9 DEF Plan

LEMMA CopyPlan ==
  ASSUME Sound, Plan, Copy
  PROVE  Plan'
<1>1. PICK s \in Settings : s.edit = 0 /\ stage' = Staged(s)
  BY DEF Copy
<1>2. setup.pc = "copy" /\ UNCHANGED <<root, work, journal, previous, present, backups, edits>>
  BY DEF Copy, disk
<1>3. PICK q \in {"check", "open"} : setup' = [NoSetup EXCEPT !.kind = setup.kind, !.pc = q]
  BY DEF Copy
<1>4. setup'.pc = q /\ setup'.kind = setup.kind
  BY <1>3, SetupFacts DEF SetupRecord
<1>5. Complete(root) /\ work \notin {"open", "committed"} /\ \A n \in Name : Counted[n] = root[n]
  BY <1>2, RootComplete
<1>6. Wholes' /\ Counted' = Counted
  BY <1>2, StillPlan
<1>7. \A n \in Name : Final'[n] = stage'[n]
  BY <1>4, FinalThen
<1>8. edits \in Nat /\ root[Config] \in Maybe /\ root \in Folders
  BY TreeAssumption, FolderEntries DEF Sound, FlagsTyped, DiskTyped
<1>9. Aim' /\ Dated(stage'[Config], edits)
  <2>1. CASE setup.kind = "install"
    <3> DEFINE c == InLanguage(root[Config], setup.language)
               v == setup.version
    <3>1. stage' = Whole(v, c)
      BY <1>1, <2>1 DEF Staged
    <3>2. v \in Version
      BY <1>2, <2>1 DEF Sound, Phases
    <3>3. c \in Maybe
      BY <1>8, InLanguageTyped DEF Sound, FlagsTyped, SetupRecord
    <3>4. Dated(c, edits)
      <4>1. root[Config] # Absent => root[Config].edit <= edits
        BY DEF Plan, Numbered, Dated
      <4>2. CASE c = root[Config]
        BY <4>1, <4>2 DEF Dated
      <4>3. CASE c # root[Config]
        <5>1. c.edit = IF root[Config] = Absent THEN 0 ELSE root[Config].edit
          BY <4>3 DEF InLanguage
        <5> QED BY <1>8, <4>1, <5>1 DEF Dated
      <4> QED BY <4>2, <4>3
    <3>5. root[Exe] = Absent \/ root[Exe].version <= v
      BY <1>2, <2>1 DEF Plan, Asked
    <3> HIDE DEF c, v
    <3>6. Ships(stage', v) /\ stage'[Config] = c
      BY <3>1, <3>2, <3>3, WholeComplete, WholeTyped
    <3>7. stage'[Exe] = File(v) /\ File(v) # Absent /\ File(v).version = v
      BY <3>2, <3>6, TreeAssumption, ContentFacts DEF Ships, File
    <3>8. Complete(stage')
      BY <3>2, <3>6 DEF Complete
    <3>9. Complete(Final')
      BY <1>7, <3>8, SameApp, NameFacts
    <3>10. Final'[Exe] = stage'[Exe] /\ Counted[Exe] = root[Exe]
      BY <1>5, <1>7, NameFacts
    <3>11. NotOlder(Counted, Final')
      BY <3>5, <3>7, <3>10 DEF NotOlder
    <3>12. setup'.kind # "restore"
      BY <1>4, <2>1
    <3>13. ~NoApp(Final')
      BY <3>7, <3>10, TreeAssumption DEF NoApp
    <3>14. Aim'
      BY <1>6, <3>9, <3>11, <3>12, <3>13, AimThen
    <3> QED BY <3>4, <3>6, <3>14
  <2>2. CASE setup.kind = "restore"
    <3>1. stage' = setup.chosen /\ setup.chosen \in backups
      BY <1>1, <1>2, <2>2 DEF Staged, Plan, Asked
    <3>2. \A n \in App : Final'[n] = stage'[n]
      BY <1>7, NameFacts
    <3>3. \A t \in backups' : t = stage' => Restores(t)'
      BY <1>4, <3>2 DEF Restores
    <3>4. Aim'
      BY <1>2, <1>4, <2>2, <3>1, <3>3, AimThen
    <3> QED BY <3>1, <3>4 DEF Plan, Numbered
  <2>3. CASE setup.kind # "install" /\ setup.kind # "restore"
    <3>1. stage' = [root EXCEPT ![Config] = s]
      BY <1>1, <2>3 DEF Staged
    <3>2. \A n \in Name : stage'[n] = IF n = Config THEN s ELSE root[n]
      BY <1>8, <3>1 DEF Folders, Tree
    <3>3. \A n \in App : Final'[n] = root[n] /\ Counted[n] = root[n]
      BY <1>5, <1>7, <3>2, NameFacts
    <3>4. Complete(Final') /\ NotOlder(root, root)
      BY <1>5, <3>3, SameApp, CompleteFacts
    <3>5. NotOlder(root, Final')
      BY <3>3, <3>4, SameApp
    <3>6. NotOlder(Counted, Final')
      BY <3>3, <3>5, SameApp
    <3>7. stage'[Config] = s
      BY <3>2, NameFacts
    <3>8. Final'[Config] # Absent
      BY <1>1, <1>7, <3>7, NameFacts, ContentFacts
    <3>9. Aim'
      BY <1>4, <1>6, <2>3, <3>4, <3>6, <3>8, AimThen
    <3> QED BY <1>1, <1>8, <3>7, <3>9 DEF Dated
  <2> QED BY <2>1, <2>2, <2>3
<1>10. Asked'
  BY <1>2, <1>4, <1>5 DEF Asked, Pending
<1>11. Aims' /\ Listed'
  BY <1>4, <1>9 DEF Aims, Listed
<1>12. Marks'
  BY <1>2, <1>4, <1>5 DEF Marks
<1>13. Numbered'
  BY <1>2, <1>9 DEF Plan, Numbered, Dated
<1> QED BY <1>6, <1>10, <1>11, <1>12, <1>13 DEF Plan

\* A step that changes neither the folder, the stage nor the aim.
LEMMA CheckPlan ==
  ASSUME Sound, Plan, Check
  PROVE  Plan'
<1>1. /\ setup.pc = "check" /\ UNCHANGED <<disk, stage, edits>>
      /\ setup' \in {[setup EXCEPT !.pc = "discard"], [setup EXCEPT !.pc = "open"]}
  BY DEF Check, Goto
<1>2. UNCHANGED <<root, work, journal, previous, present, backups, edits, stage>>
  BY <1>1 DEF disk
<1>3. setup'.pc \in {"discard", "open"} /\ setup'.kind = setup.kind
  <2>1. setup \in SetupRecord /\ {"discard", "open"} \subseteq Pc
    BY DEF Sound, FlagsTyped, Pc
  <2>2. PICK q \in {"discard", "open"} : setup' = [setup EXCEPT !.pc = q]
    BY <1>1
  <2> QED BY <2>1, <2>2, Fields
<1>4. Wholes' /\ Counted' = Counted /\ (Intact' <=> Intact)
  BY <1>2, StillPlan
<1>5. \A n \in Name : Final'[n] = Final[n]
  BY <1>1, <1>2, <1>3, FinalAt, FinalThen
<1>6. Aim => Aim'
  <2>1. \A t \in backups : Restores(t) => Restores(t)'
    BY <1>1, <1>2, <1>3, <1>5, NameFacts DEF Restores
  <2>2. /\ \A n \in App : Final'[n] = Final[n] /\ Counted'[n] = Counted[n]
        /\ Final'[Config] = Final[Config]
    BY <1>4, <1>5, NameFacts
  <2> QED BY <1>2, <1>3, <2>1, <2>2, AimStays
<1>7. Aims' /\ Listed'
  BY <1>1, <1>3, <1>4, <1>6 DEF Plan, Aims, Listed
<1>8. work \notin {"open", "committed"}
  BY <1>1, RootComplete
<1>9. Asked' /\ Marks' /\ Numbered'
  BY <1>2, <1>3, <1>8 DEF Plan, Asked, Pending, Marks, Numbered, Dated
<1> QED BY <1>4, <1>7, <1>9 DEF Plan

\* The folder is empty, and is filled from now on.
LEMMA OutDonePlan ==
  ASSUME Sound, Swap, Plan, OutDone
  PROVE  Plan'
<1>1. /\ setup.pc = "out" /\ setup.left = {} /\ UNCHANGED <<disk, stage, edits>>
      /\ setup' = [setup EXCEPT !.pc = "in", !.left = journal.after]
  BY DEF OutDone
<1>2. UNCHANGED <<root, work, journal, previous, present, backups, edits, stage>>
  BY <1>1 DEF disk
<1>3. setup'.pc = "in" /\ setup'.left = journal.after /\ setup'.kind = setup.kind
  BY <1>1 DEF Sound, FlagsTyped, SetupRecord
<1>4. Wholes' /\ Counted' = Counted /\ (Intact' <=> Intact)
  BY <1>2, StillPlan
<1>5. \A n \in App : Final'[n] = Final[n]
  <2>1. \A n \in App : n \in journal.after <=> stage[n] # Absent
    BY <1>1 DEF Plan, Listed
  <2>2. \A n \in App : root[n] = Absent
    BY <1>1 DEF Swap, Emptying
  <2> QED BY <1>1, <1>2, <1>3, <2>1, <2>2, FinalAt, FinalThen, NameFacts
<1>6. Aim => Aim'
  <2>1. ASSUME NEW t \in backups, Restores(t), setup.kind = "restore" PROVE Restores(t)'
    <3>1. stage[Config] = t[Config] /\ \A n \in App : Final[n] = t[n]
      BY <1>1, <2>1 DEF Restores
    <3>2. (Config \in journal.after <=> stage[Config] # Absent) /\ Loose
      BY <1>1, <2>1 DEF Plan, Listed, Marks
    <3>3. Config \notin journal.after => root[Config] = t[Config] \/ New(root[Config])
      BY <3>1, <3>2 DEF Loose
    <3>4. \A n \in App : Final'[n] = t[n]
      BY <1>5, <3>1
    <3> QED BY <1>2, <1>3, <3>1, <3>3, <3>4 DEF Restores, New
  <2>2. CASE setup.kind = "restore"
    BY <1>2, <1>3, <2>1, <2>2, AimThen DEF Aim
  <2>3. CASE setup.kind # "restore"
    <3>1. Complete(Final) /\ NotOlder(Counted, Final) => Complete(Final') /\ NotOlder(Counted, Final')
      BY <1>5, SameApp
    <3>2. setup.kind # "install" /\ Final[Config] # Absent => Final'[Config] # Absent
      BY <1>1, <1>2, <1>3, FinalAt, FinalThen, NameFacts DEF Plan, Listed
    <3>3. NoApp(Final') => NoApp(Final)
      BY <1>5 DEF NoApp
    <3> QED BY <1>3, <1>4, <2>3, <3>1, <3>2, <3>3, AimThen DEF Aim
  <2> QED BY <2>2, <2>3
<1>7. Aims' /\ Listed'
  BY <1>1, <1>3, <1>4, <1>6 DEF Plan, Aims, Listed
<1>8. Asked' /\ Marks' /\ Numbered'
  BY <1>1, <1>2, <1>3 DEF Plan, Asked, Marks, Numbered, Dated
<1> QED BY <1>4, <1>7, <1>8 DEF Plan

\* The recovery folder is made: nothing counts differently.
LEMMA OpenPlan ==
  ASSUME Sound, Plan, Open
  PROVE  Plan' /\ Counted' = Counted
<1>1. setup.pc = "open" /\ present' = TRUE /\ UNCHANGED <<root, backups, stage, edits>>
  BY DEF Open
<1>2. Complete(root) /\ Intact /\ work \notin {"open", "committed"} /\ \A n \in Name : Counted[n] = root[n]
  BY <1>1, RootComplete
<1>3. \/ work # "none" /\ setup' = [setup EXCEPT !.pc = "discard"] /\ UNCHANGED <<work, journal, previous>>
      \/ /\ work = "none" /\ work' = "bare" /\ previous' = Empty
         /\ journal' = [before |-> Included(root), after |-> Included(stage)]
         /\ setup' = [setup EXCEPT !.pc = "journal"]
  BY DEF Open, Goto
<1>4. work' # "open" /\ \A n \in Name : Counted'[n] = root[n]
  BY <1>1, <1>2, <1>3, CountedThen
<1>5. Counted' = Counted
  BY <1>2, <1>4, SameFolder
<1>6. Wholes'
  BY <1>1, <1>2, <1>5, WholesThen DEF Plan, Wholes
<1>7. CASE work # "none"
  <2>1. setup' = [setup EXCEPT !.pc = "discard"] /\ UNCHANGED <<work, journal, previous>>
    BY <1>3, <1>7
  <2>2. setup'.pc = "discard"
    BY <2>1, Fields DEF Sound, FlagsTyped, Pc
  <2>3. Asked' /\ Aims' /\ Listed' /\ Marks' /\ Numbered'
    BY <1>1, <1>2, <2>1, <2>2 DEF Plan, Asked, Aims, Listed, Marks, Numbered, Dated
  <2> QED BY <1>5, <1>6, <2>3 DEF Plan
<1>8. CASE work = "none"
  <2>1. /\ setup' = [setup EXCEPT !.pc = "journal"] /\ previous' = Empty
        /\ journal'.before = Included(root) /\ journal'.after = Included(stage)
    BY <1>3, <1>8
  <2>2. setup'.pc = "journal" /\ setup'.kind = setup.kind
    BY <2>1, Fields DEF Sound, FlagsTyped, Pc
  <2>3. \A n \in Name : Final'[n] = Final[n]
    BY <1>1, <2>2, FinalAt, FinalThen
  <2>4. Aim => Aim'
    <3>1. \A t \in backups : Restores(t) => Restores(t)'
      BY <1>1, <2>2, <2>3, NameFacts DEF Restores
    <3>2. /\ \A n \in App : Final'[n] = Final[n] /\ Counted'[n] = Counted[n]
          /\ Final'[Config] = Final[Config]
      BY <1>5, <2>3, NameFacts
    <3> QED BY <1>1, <2>2, <3>1, <3>2, AimStays
  <2>5. Aims'
    BY <1>1, <1>2, <2>4 DEF Plan, Aims
  <2>6. /\ \A n \in App : n \in Included(stage) <=> stage[n] # Absent
        /\ setup.kind # "install" =>
             /\ Config \in Included(stage) <=> stage[Config] # Absent
             /\ Config \in Included(root) <=> root[Config] # Absent
        /\ Config \in Included(root) => root[Config] # Absent
    BY NameFacts DEF Included, Top, KeepConfig
  <2>7. Listed' /\ Marks'
    BY <1>1, <1>4, <2>1, <2>2, <2>6 DEF Listed, Marks, Loose
  <2>8. Asked' /\ Numbered'
    BY <1>1, <2>1, <2>2, EmptyTyped, NameFacts DEF Plan, Asked, Numbered, Dated
  <2> QED BY <1>5, <1>6, <2>5, <2>7, <2>8 DEF Plan
<1> QED BY <1>7, <1>8

\* From the journal on, settings it lists as new do not count.
LEMMA WriteJournalPlan ==
  ASSUME Sound, Swap, Plan, WriteJournal
  PROVE  /\ Plan'
         /\ \A n \in App : Counted'[n] = Counted[n]
         /\ Counted'[Config] \in {Counted[Config], Absent}
<1>1. /\ setup.pc = "journal" /\ work = "bare"
      /\ UNCHANGED <<root, journal, previous, present, backups, stage, edits>>
  BY DEF WriteJournal, Sound, Phases
<1>2. \A n \in Name : previous[n] = Absent /\ Counted[n] = root[n]
  BY <1>1, EmptyTyped, CountedAt DEF Sound, Voids
<1>3. CASE work' = work /\ Goto("discard")
  <2>1. setup'.pc = "discard"
    BY <1>3, Fields DEF Goto, Sound, FlagsTyped, Pc
  <2>2. Plan'
    BY <1>1, <1>3, <2>1, RestPlan
  <2>3. Counted' = Counted
    BY <1>1, <1>3 DEF Counted
  <2> QED BY <2>2, <2>3
<1>4. CASE work' = "open" /\ setup' = [setup EXCEPT !.pc = "out", !.left = journal.before]
  <2>1. setup'.pc = "out" /\ setup'.left = journal.before /\ setup'.kind = setup.kind
    BY <1>4 DEF Sound, FlagsTyped, SetupRecord
  <2>2. \A n \in App : root[n] # Absent => n \in journal.before
    BY <1>1 DEF Swap, Emptying
  <2>3. \A n \in App : Counted'[n] = Counted[n]
    BY <1>1, <1>2, <2>2, CountedThen, NameFacts
  <2>4. Counted'[Config] \in {Counted[Config], Absent}
    BY <1>1, <1>2, CountedThen, NameFacts
  <2>5. Complete(Counted) /\ Intact
    BY <1>1 DEF Plan, Wholes, Intact
  <2>6. Wholes'
    BY <1>1, <2>3, <2>5, SameApp, WholesThen DEF Plan, Wholes
  <2>7. \A n \in Name : Final'[n] = Final[n]
    BY <1>1, <2>1, FinalAt, FinalThen
  <2>8. Aim => Aim'
    <3>1. \A t \in backups : Restores(t) => Restores(t)'
      BY <1>1, <2>1, <2>7, NameFacts DEF Restores
    <3>2. /\ \A n \in App : Final'[n] = Final[n] /\ Counted'[n] = Counted[n]
          /\ Final'[Config] = Final[Config]
      BY <2>3, <2>7, NameFacts
    <3> QED BY <1>1, <2>1, <3>1, <3>2, AimStays
  <2>9. Aims' /\ Listed' /\ Asked'
    BY <1>1, <2>1, <2>5, <2>8 DEF Plan, Aims, Listed, Asked
  <2>10. Loose' <=> Loose
    BY <1>1 DEF Loose, New
  <2>11. Marks'
    BY <1>1, <1>2, <1>4, <2>1, <2>10, NameFacts DEF Plan, Marks
  <2>12. Numbered'
    BY <1>1 DEF Plan, Numbered, Dated
  <2> QED BY <2>3, <2>4, <2>6, <2>9, <2>11, <2>12 DEF Plan
<1> QED BY <1>3, <1>4 DEF WriteJournal

\* What a committed swap has put in place.
LEMMA Outcome ==
  ASSUME Plan, setup.pc = "in", setup.left = {}, present
  PROVE  IF setup.kind = "restore"
         THEN \E t \in backups : /\ \A n \in App : root[n] = t[n]
                                 /\ root[Config] = t[Config] \/ New(root[Config])
         ELSE Complete(root) /\ NotOlder(Counted, root) /\ (NoApp(root) => root[Config] # Absent)
<1>1. \A n \in App : root[n] = Final[n]
  BY FinalAt, NameFacts
<1>2. Aim
  BY DEF Plan, Aims, Intact
<1>3. CASE setup.kind = "restore"
  BY <1>1, <1>2, <1>3 DEF Aim, Restores
<1>4. CASE setup.kind # "restore"
  <2>1. Final[Config] = root[Config]
    BY FinalAt, NameFacts
  <2>2. NoApp(root) => NoApp(Final)
    BY <1>1 DEF NoApp
  <2> QED BY <1>1, <1>2, <1>4, <2>1, <2>2, SameApp DEF Aim
<1> QED BY <1>3, <1>4

LEMMA CommitPlan ==
  ASSUME Sound, Plan, Commit
  PROVE  Plan'
<1>1. /\ setup.pc = "in" /\ setup.left = {} /\ work' = "committed"
      /\ setup' = [setup EXCEPT !.pc = "keep"]
      /\ UNCHANGED <<root, journal, previous, present, backups, stage, edits>>
  BY DEF Commit, Goto
<1>2. setup'.pc = "keep"
  BY <1>1, Fields DEF Sound, FlagsTyped, Pc
<1>3. Complete(root)
  <2>1. CASE present /\ setup.kind = "restore"
    <3>1. PICK t \in backups : \A n \in App : root[n] = t[n]
      BY <1>1, <2>1, Outcome
    <3>2. Complete(t)
      BY DEF Plan, Wholes
    <3> QED BY <3>1, <3>2, SameApp
  <2>2. CASE present /\ setup.kind # "restore"
    BY <1>1, <2>2, Outcome
  <2>3. CASE ~present
    BY <2>3, EmptyComplete DEF Sound, Voids
  <2> QED BY <2>1, <2>2, <2>3
<1>4. \A n \in App : Counted'[n] = root[n]
  BY <1>1, CountedThen, NameFacts
<1>5. Wholes'
  BY <1>1, <1>3, <1>4, SameApp, WholesThen DEF Plan, Wholes
<1>6. Asked' /\ Aims' /\ Listed' /\ Marks' /\ Numbered'
  BY <1>1, <1>2 DEF Plan, Asked, Aims, Listed, Marks, Numbered, Dated
<1> QED BY <1>5, <1>6 DEF Plan

\* Recovered names count in the folder, and settings that did not count do again.
LEMMA KeepPlan ==
  ASSUME Sound, Swap, Plan, Keep
  PROVE  /\ Plan'
         /\ \A n \in App : Counted'[n] = Counted[n]
         /\ Counted'[Config] = root[Config]
         /\ Counted[Config] \in {root[Config], Absent}
<1>1. /\ setup.pc = "keep" /\ work' = "none" /\ previous' = Empty
      /\ setup' = [setup EXCEPT !.pc = "discard"]
      /\ UNCHANGED <<root, present, backups, stage, edits>>
  BY DEF Keep, Goto
<1>2. setup'.pc = "discard"
  BY <1>1, Fields DEF Sound, FlagsTyped, Pc
<1>3. \A n \in Name : Counted'[n] = root[n]
  BY <1>1, CountedThen
<1>4. \A n \in App : Counted[n] = root[n]
  <2>1. CASE work = "open"
    <3>1. \A n \in App : Settled(n)
      BY <1>1, <2>1 DEF Swap, Undoing
    <3>2. \A n \in App : previous[n] # Absent => n \in journal.before
      BY <2>1 DEF Swap, Emptying
    <3> QED BY <3>1, <3>2, CountedAt, NameFacts DEF Settled
  <2>2. CASE work # "open"
    BY <2>2, RootCounts
  <2> QED BY <2>1, <2>2
<1>5. Counted[Config] \in {root[Config], Absent}
  BY <1>1, CountedAt, NameFacts DEF Plan, Marks
<1>6. Complete(root)
  <2>1. CASE Intact
    BY <1>4, <2>1, SameApp DEF Plan, Wholes
  <2>2. CASE ~Intact
    BY <2>2, EmptyComplete DEF Intact, Sound, Voids
  <2> QED BY <2>1, <2>2
<1>7. Complete(Counted')
  BY <1>3, <1>6, SameApp, NameFacts
<1>8. Wholes'
  BY <1>1, <1>7, WholesThen DEF Plan, Wholes
<1>9. Asked' /\ Aims' /\ Listed' /\ Marks' /\ Numbered'
  BY <1>1, <1>2, EmptyTyped, NameFacts DEF Plan, Asked, Aims, Listed, Marks, Numbered, Dated
<1> QED BY <1>3, <1>4, <1>5, <1>8, <1>9, NameFacts DEF Plan

LEMMA PlanStep ==
  Sound /\ OutFree /\ (ruined \/ (Swap /\ Plan)) /\ [Next]_vars => ruined' \/ Plan'
<1> SUFFICES ASSUME Sound, OutFree, Swap, Plan, ~ruined', [Next]_vars PROVE Plan'
  BY RuinStays
<1>1. CASE UNCHANGED vars
  <2>1. UNCHANGED <<root, work, journal, previous, present, backups, edits, stage, setup>>
    BY <1>1 DEF vars, disk
  <2>2. Wholes' /\ Counted' = Counted /\ (Intact' <=> Intact)
    BY <2>1, StillPlan
  <2>3. Final' = Final
    BY <2>1 DEF Final
  <2>4. Aim => Aim'
    BY <2>1, <2>2, <2>3, AimStays DEF Restores, New
  <2> QED BY <2>1, <2>2, <2>4
          DEF Plan, Asked, Aims, Listed, Marks, Numbered, Dated, Loose, New, Pending
<1>2. ASSUME NEW n \in Name, MoveOut(n) \/ MoveIn(n) \/ Undo(n) PROVE Plan'
  BY <1>2, MovesPlan
<1>3. CASE Back
  BY <1>3, MovesPlan, NameFacts
<1> QED BY <1>1, <1>2, <1>3, AppPlan, EndPlan, StartPlan, BackupPlan, CopyPlan, CheckPlan,
           OutDonePlan, OpenPlan, WriteJournalPlan, CommitPlan, KeepPlan DEF Next

-----------------------------------------------------------------------------
(* The steps of the atomic folder *)

LEMMA FolderNames ==
  /\ Folder!Name = Name /\ Folder!Absent = Absent /\ Folder!Empty = Empty
  /\ Folder!Settings = Settings
  /\ \A v, s : Folder!Whole(v, s) = Whole(v, s)
BY DEF Folder!Name, Name, Folder!Absent, Absent, Folder!Empty, Empty, Folder!Settings, Settings,
       Folder!Whole, Whole, Folder!File, File

\* The installation is a tree, equal to another with the same entries.
LEMMA FolderEqual ==
  ASSUME NEW t \in Folders
  PROVE  /\ (\A n \in Name : Installation[n] = t[n]) => Installation = t
         /\ (\A n \in Name : Installation'[n] = t[n]) => Installation' = t
BY DEF Installation, Folders, Tree

LEMMA SameInstallation ==
  (\A n \in Name : Installation'[n] = Installation[n]) => Installation' = Installation
BY DEF Installation

\* The installation is what counts on disk, but for settings that no journal lists yet.
LEMMA InstallationAt ==
  ASSUME Sound
  PROVE  /\ \A n \in App : Installation[n] = Counted[n]
         /\ Installation[Config] = IF Config \in Unlisted THEN Absent ELSE Counted[Config]
         /\ setup.pc # "journal" => \A n \in Name : Installation[n] = Counted[n]
<1>1. setup.pc = "journal" => work = "bare"
  BY DEF Sound, Phases
<1> QED BY <1>1, NameFacts DEF Installation, Counted, Unlisted

LEMMA InstallationThen ==
  ASSUME Sound'
  PROVE  /\ \A n \in App : Installation'[n] = Counted'[n]
         /\ Installation'[Config] = IF Config \in Unlisted' THEN Absent ELSE Counted'[Config]
         /\ setup'.pc # "journal" => \A n \in Name : Installation'[n] = Counted'[n]
<1>1. setup'.pc = "journal" => work' = "bare"
  BY DEF Sound, Phases
<1> QED BY <1>1, NameFacts DEF Installation, Counted, Unlisted

\* An uninstall goes on as long as the folder stays as it is.
LEMMA LeavingStays ==
  ASSUME removing' = removing, present' = present, present \/ Installation' = Installation
  PROVE  Leaving' = Leaving
BY DEF Leaving

\* Nothing that counts changes.
LEMMA StillStep ==
  ASSUME UNCHANGED <<backups, removing, ruined, present>>, Installation' = Installation
  PROVE  UNCHANGED Folder!vars
BY LeavingStays DEF Folder!vars

\* Settings are saved, or settings saved earlier count from now on.
LEMMA SettingsStep ==
  ASSUME UNCHANGED <<backups, removing, ruined, present>>,
         \A n \in App : Installation'[n] = Installation[n],
         Installation'[Config] \in Settings \union {Installation[Config]},
         ~present => Installation'[Config] = Installation[Config]
  PROVE  Folder!Next \/ UNCHANGED Folder!vars
<1>1. CASE Installation'[Config] = Installation[Config]
  <2>1. Installation' = Installation
    BY <1>1, SameInstallation DEF Name
  <2> QED BY <2>1, StillStep
<1>2. CASE Installation'[Config] # Installation[Config]
  <2>1. PICK s \in Settings : Installation'[Config] = s
    BY <1>2
  <2>2. Installation' = [Installation EXCEPT ![Config] = s]
    <3>1. \A n \in Name : Installation'[n] = IF n = Config THEN s ELSE Installation[n]
      BY <2>1 DEF Name
    <3> QED BY <3>1, NameFacts DEF Installation
  <2>3. Leaving' = Leaving
    BY <1>2, LeavingStays
  <2>4. Folder!Save(s)
    BY <2>2, <2>3 DEF Folder!Save
  <2> QED BY <2>4, FolderNames DEF Folder!Next
<1> QED BY <1>1, <1>2

\* An uninstall takes part of what counts, or all.
LEMMA RemoveStep ==
  ASSUME UNCHANGED <<backups, ruined>>, Leaving,
         \A n \in Name : Installation'[n] \in {Installation[n], Absent}
  PROVE  Folder!Next
<1> DEFINE gone == {n \in Name : Installation'[n] = Absent}
<1>1. \A n \in Name : Installation'[n] = IF n \in gone THEN Absent ELSE Installation[n]
  OBVIOUS
<1>2. Installation' = [n \in Name |-> IF n \in gone THEN Absent ELSE Installation[n]]
  BY <1>1 DEF Installation
<1>3. gone \in SUBSET Name /\ Leaving' \in BOOLEAN
  BY DEF Leaving
<1> HIDE DEF gone
<1>4. Folder!Remove(gone)
  BY <1>2, <1>3, FolderNames DEF Folder!Remove
<1> QED BY <1>3, <1>4, FolderNames DEF Folder!Next

\* Steps that move setup on, and its end: first settings count if there is no journal.
LEMMA SetupStep ==
  ASSUME Sound, Sound', UNCHANGED <<root, work, journal, previous>>,
         UNCHANGED <<backups, removing, ruined, present>>, setup'.pc # "journal"
  PROVE  Folder!Next \/ UNCHANGED Folder!vars
<1>1. Counted' = Counted
  BY DEF Counted
<1>2. \A n \in App : Installation'[n] = Installation[n]
  BY <1>1, InstallationAt, InstallationThen
<1>3. Installation'[Config] = Counted[Config]
  BY <1>1, InstallationThen, NameFacts
<1>4. CASE Config \notin Unlisted
  <2>1. Installation'[Config] = Installation[Config]
    BY <1>3, <1>4, InstallationAt
  <2> QED BY <1>2, <2>1, SettingsStep
<1>5. CASE Config \in Unlisted
  <2>1. work = "bare"
    BY <1>5 DEF Unlisted, Sound, Phases
  <2>2. Counted[Config] = root[Config]
    BY <2>1, CountedAt, NameFacts
  <2>3. Installation[Config] = Absent /\ root[Config] \in Settings \union {Absent}
    BY <1>5, InstallationAt, FolderEntries DEF Sound, DiskTyped, Maybe
  <2>4. ~present => root[Config] = Absent
    BY EmptyTyped, NameFacts DEF Sound, Voids
  <2> QED BY <1>2, <1>3, <2>2, <2>3, <2>4, SettingsStep
<1> QED BY <1>4, <1>5

LEMMA ProgressStep ==
  ASSUME Sound, Sound',
         Start \/ Copy \/ Check \/ Abort \/ OutDone \/ Fail \/ UndoDone \/ GiveUp \/ Discard \/ Crash
  PROVE  Folder!Next \/ UNCHANGED Folder!vars
<1>1. setup \in SetupRecord
  BY DEF Sound, FlagsTyped
<1>2. UNCHANGED <<root, work, journal, previous>> /\ UNCHANGED <<backups, removing, ruined, present>>
  BY DEF Start, Begin, Copy, Check, Abort, OutDone, Fail, UndoDone, GiveUp, Discard, Crash, disk
<1>3. CASE Start
  <2>1. PICK kind \in Kind, v \in Version \union {0}, l \in Language, t \in backups \union {Empty} :
          Begin(kind, v, l, t)
    BY <1>3, InstallerAssumption DEF Start, Kind
  <2>2. setup'.pc # "journal"
    BY <2>1 DEF Begin, First
  <2> QED BY <1>2, <2>2, SetupStep
<1>4. CASE Copy \/ Check \/ Abort \/ OutDone \/ Fail \/ UndoDone \/ GiveUp \/ Discard \/ Crash
  <2>1. setup'.pc # "journal"
    BY <1>1, <1>4, SetupFacts DEF Copy, Check, Abort, OutDone, Fail, UndoDone, GiveUp, Discard, Crash,
         Goto, SetupRecord, NoSetup
  <2> QED BY <1>2, <2>1, SetupStep
<1> QED BY <1>3, <1>4

LEMMA AppStep ==
  ASSUME Launch \/ Quit \/ Uninstall \/ UNCHANGED vars
  PROVE  Folder!Next \/ UNCHANGED Folder!vars
<1>1. UNCHANGED <<root, work, journal, previous, setup>> /\ UNCHANGED <<backups, ruined, present>>
  BY DEF Launch, Quit, Uninstall, vars, disk
<1>2. Installation' = Installation
  BY <1>1 DEF Installation, Unlisted
<1>3. CASE Launch \/ Quit \/ UNCHANGED vars
  <2>1. removing' = removing
    BY <1>3 DEF Launch, Quit, vars
  <2> QED BY <1>1, <1>2, <2>1, StillStep
<1>4. CASE Uninstall
  <2>1. Leaving' = TRUE
    BY <1>4 DEF Uninstall, Leaving
  <2>2. Folder!Uninstall
    BY <1>1, <1>2, <2>1 DEF Folder!Uninstall
  <2> QED BY <2>2 DEF Folder!Next
<1> QED BY <1>3, <1>4

LEMMA SaveStep ==
  ASSUME Sound, Sound', Save
  PROVE  Folder!Next \/ UNCHANGED Folder!vars
<1>1. /\ root' = [root EXCEPT ![Config] = latest'] /\ edits + 1 \in Edit /\ present
      /\ latest' = [kind |-> "config", edit |-> edits + 1, language |-> LanguageOf(root[Config])]
      /\ UNCHANGED <<work, journal, previous, setup>> /\ UNCHANGED <<backups, removing, ruined, present>>
  BY DEF Save
<1>2. LanguageOf(root[Config]) \in Language
  BY FolderEntries, InstallerAssumption DEF LanguageOf, Maybe, Settings, Sound, DiskTyped
<1>3. latest' \in Settings
  BY <1>1, <1>2 DEF Settings
<1>4. \A n \in Name : root'[n] = IF n = Config THEN latest' ELSE root[n]
  BY <1>1 DEF Sound, DiskTyped, Folders, Tree
<1>5. \A n \in App : Counted'[n] = Counted[n]
  BY <1>1, <1>4, CountedAt, CountedThen, NameFacts
<1>6. Counted'[Config] \in Settings \union {Counted[Config]}
  BY <1>1, <1>3, <1>4, CountedAt, CountedThen, NameFacts
<1>7. Unlisted' = Unlisted
  BY <1>1 DEF Unlisted
<1>8. /\ \A n \in App : Installation'[n] = Installation[n]
      /\ Installation'[Config] \in Settings \union {Installation[Config]}
  BY <1>5, <1>6, <1>7, InstallationAt, InstallationThen
<1> QED BY <1>1, <1>8, SettingsStep

LEMMA BackupStep ==
  ASSUME Sound, Sound', Plan, Backup
  PROVE  Folder!Next \/ UNCHANGED Folder!vars
<1>1. /\ setup.pc = "backup" /\ UNCHANGED <<root, work, journal, previous>>
      /\ backups' = IF Top(root) = {} THEN backups ELSE backups \union {root}
      /\ UNCHANGED <<removing, ruined, present>>
  BY DEF Backup
<1>2. setup'.pc # "journal"
  BY DEF Backup, Goto, Sound, FlagsTyped, SetupRecord
<1>3. Counted' = Counted
  BY <1>1 DEF Counted
<1>4. Installation' = Installation
  <2>1. \A n \in Name : Installation'[n] = Installation[n]
    BY <1>1, <1>2, <1>3, InstallationAt, InstallationThen
  <2> QED BY <2>1, SameInstallation
<1>5. Installation = root
  BY <1>1, RootComplete, InstallationAt, FolderEqual DEF Sound, DiskTyped
<1>6. Leaving' = Leaving
  BY <1>1, <1>4, LeavingStays
<1>7. CASE Top(root) = {}
  BY <1>1, <1>4, <1>6, <1>7 DEF Folder!vars
<1>8. CASE Top(root) # {}
  <2>1. root # Empty
    BY <1>8, EmptyTyped DEF Top
  <2>2. Folder!BackUp
    BY <1>1, <1>4, <1>5, <1>6, <1>8, <2>1, FolderNames DEF Folder!BackUp
  <2> QED BY <2>2 DEF Folder!Next
<1> QED BY <1>7, <1>8

\* The journal is prepared: what it will not list is not there.
LEMMA OpenStep ==
  ASSUME Sound, Sound', Plan, Open
  PROVE  UNCHANGED Folder!vars
<1>1. /\ setup.pc = "open" /\ present' = TRUE /\ UNCHANGED <<root, backups, removing, ruined>>
      /\ Counted' = Counted
  BY OpenPlan DEF Open
<1>2. work \notin {"open", "committed"} /\ \A n \in Name : Installation[n] = root[n] /\ Counted[n] = root[n]
  BY <1>1, RootComplete, InstallationAt
<1>3. Config \in Unlisted' => root[Config] = Absent
  <2>1. CASE work # "none"
    <3>1. setup' = [setup EXCEPT !.pc = "discard"]
      BY <2>1 DEF Open, Goto
    <3>2. setup'.pc = "discard"
      BY <3>1, Fields DEF Sound, FlagsTyped, Pc
    <3> QED BY <3>2 DEF Unlisted
  <2>2. CASE work = "none"
    <3>1. journal'.before = Included(root) /\ journal'.after = Included(stage)
      BY <2>2 DEF Open
    <3> QED BY <3>1, NameFacts DEF Unlisted, Included, Top
  <2> QED BY <2>1, <2>2
<1>4. Installation'[Config] = Installation[Config]
  BY <1>1, <1>2, <1>3, InstallationThen, NameFacts
<1>5. \A n \in App : Installation'[n] = Installation[n]
  BY <1>1, <1>2, InstallationThen, NameFacts
<1>6. Installation' = Installation
  BY <1>4, <1>5, SameInstallation DEF Name
<1>7. Leaving' = Leaving
  <2>1. CASE present
    BY <1>1, <2>1 DEF Leaving
  <2>2. CASE ~present
    <3>1. Installation = Empty
      BY <1>2, <2>2, EmptyTyped, FolderEqual DEF Sound, Voids
    <3> QED BY <1>1, <3>1 DEF Leaving
  <2> QED BY <2>1, <2>2
<1> QED BY <1>1, <1>6, <1>7 DEF Folder!vars

LEMMA WriteJournalStep ==
  ASSUME Sound, Sound', Swap, Plan, WriteJournal
  PROVE  Folder!Next \/ UNCHANGED Folder!vars
<1>1. /\ setup.pc = "journal" /\ work = "bare"
      /\ UNCHANGED <<root, journal, previous>> /\ UNCHANGED <<backups, removing, ruined, present>>
  BY DEF WriteJournal, Sound, Phases
<1>2. CASE work' = work /\ Goto("discard")
  <2>1. setup'.pc = "discard"
    BY <1>2, Fields DEF Goto, Sound, FlagsTyped, Pc
  <2> QED BY <1>1, <1>2, <2>1, SetupStep
<1>3. CASE work' = "open" /\ setup' = [setup EXCEPT !.pc = "out", !.left = journal.before]
  <2>1. setup'.pc = "out"
    BY <1>3 DEF Sound, FlagsTyped, SetupRecord
  <2>2. \A n \in App : Installation'[n] = Installation[n]
    BY WriteJournalPlan, InstallationAt, InstallationThen
  <2>3. previous[Config] = Absent
    BY <1>1, EmptyTyped, NameFacts DEF Sound, Voids
  <2>4. Installation[Config] = IF Config \in journal.after \ journal.before THEN Absent ELSE root[Config]
    BY <1>1, InstallationAt, CountedAt, NameFacts DEF Unlisted
  <2>5. Installation'[Config] = IF Config \in journal.after \ journal.before THEN Absent ELSE root[Config]
    BY <1>1, <1>3, <2>1, <2>3, InstallationThen, CountedThen, NameFacts
  <2>6. Installation' = Installation
    BY <2>2, <2>4, <2>5, SameInstallation DEF Name
  <2> QED BY <1>1, <2>6, StillStep
<1> QED BY <1>2, <1>3 DEF WriteJournal

LEMMA KeepStep ==
  ASSUME Sound, Sound', Swap, Plan, Keep
  PROVE  Folder!Next \/ UNCHANGED Folder!vars
<1>1. setup.pc = "keep" /\ UNCHANGED <<backups, removing, ruined, present>>
  BY DEF Keep
<1>2. setup'.pc = "discard"
  BY Fields DEF Keep, Goto, Sound, FlagsTyped, Pc
<1>3. /\ \A n \in App : Installation'[n] = Installation[n]
      /\ Installation'[Config] = root[Config]
      /\ Installation[Config] \in {root[Config], Absent}
  BY <1>1, <1>2, KeepPlan, InstallationAt, InstallationThen, NameFacts
<1>4. root[Config] \in Settings \union {Absent}
  BY FolderEntries DEF Sound, DiskTyped, Maybe
<1>5. ~present => root[Config] = Absent
  BY EmptyTyped, NameFacts DEF Sound, Voids
<1> QED BY <1>1, <1>3, <1>4, <1>5, SettingsStep

LEMMA MovesStep ==
  ASSUME Sound, Sound', OutFree, Swap, Plan, NEW n \in Name, MoveOut(n) \/ MoveIn(n) \/ Undo(n) \/ Back
  PROVE  UNCHANGED Folder!vars
<1>1. UNCHANGED <<backups, removing, ruined, present>> /\ work' = work
  BY DEF MoveOut, MoveIn, Undo, Back
<1>2. work = "open"
  BY DEF MoveOut, MoveIn, Undo, Back, Sound, Phases, Swapping
<1>3. setup.pc # "journal" /\ setup'.pc # "journal"
  BY <1>1, <1>2 DEF Sound, Phases
<1>4. Counted' = Counted
  BY MovesKeep
<1>5. \A m \in Name : Installation'[m] = Installation[m]
  BY <1>3, <1>4, InstallationAt, InstallationThen
<1> QED BY <1>1, <1>5, SameInstallation, StillStep

\* The swap takes effect at once when the journal says committed.
LEMMA CommitStep ==
  ASSUME Sound, Sound', Swap, Plan, Commit
  PROVE  Folder!Next \/ UNCHANGED Folder!vars
<1>1. /\ setup.pc = "in" /\ setup.left = {} /\ work' = "committed"
      /\ root' = root /\ UNCHANGED <<backups, removing, ruined, present>>
  BY DEF Commit
<1>d. root \in Folders /\ root[Config] \in Maybe
  BY FolderEntries DEF Sound, DiskTyped
<1>p. setup'.pc # "journal"
  BY <1>1 DEF Sound, Phases
<1>2. \A n \in Name : Installation'[n] = root[n] /\ Installation[n] = Counted[n]
  BY <1>1, <1>p, InstallationAt, InstallationThen, CountedThen
<1>3. Installation' = root
  BY <1>d, <1>2, FolderEqual
<1>4. CASE ~present
  <2>1. root = Empty
    BY <1>4 DEF Sound, Voids
  <2>2. CASE Installation = Empty
    BY <1>1, <1>3, <2>1, <2>2, StillStep
  <2>3. CASE Installation # Empty
    <3>1. Leaving
      BY <1>4, <2>3 DEF Leaving
    <3>2. \A n \in Name : Installation'[n] \in {Installation[n], Absent}
      BY <1>3, <2>1, EmptyTyped
    <3> QED BY <1>1, <3>1, <3>2, RemoveStep
  <2> QED BY <2>2, <2>3
<1>l. present => Leaving' = Leaving
  BY <1>1, LeavingStays
<1>5. CASE present /\ setup.kind = "restore"
  <2>1. PICK t \in backups : /\ \A n \in App : root[n] = t[n]
                             /\ root[Config] = t[Config] \/ New(root[Config])
    BY <1>1, <1>5, Outcome
  <2>2. root = [t EXCEPT ![Config] = root[Config]]
    <3>1. t \in Folders
      BY DEF Sound, DiskTyped
    <3>2. \A n \in Name : n # Config => root[n] = t[n]
      BY <2>1 DEF Name
    <3> QED BY <1>d, <3>1, <3>2 DEF Folders, Tree
  <2>3. root[Config] = t[Config] \/ root[Config] \in Settings \ Folder!OldSettings
    BY <2>1 DEF New, Folder!OldSettings
  <2>4. Folder!Restore(t, root[Config])
    BY <1>1, <1>3, <1>l, <1>5, <2>2, <2>3, FolderNames DEF Folder!Restore
  <2> QED BY <1>d, <2>4, FolderNames DEF Folder!Next, Maybe
<1>6. CASE present /\ setup.kind # "restore"
  <2>1. Complete(root) /\ NotOlder(Counted, root) /\ (NoApp(root) => root[Config] # Absent)
    BY <1>1, <1>6, Outcome
  <2>2. CASE NoApp(root)
    <3>1. root[Exe] = Absent
      BY <2>2, TreeAssumption DEF NoApp
    <3>2. \A n \in App : Installation'[n] = Installation[n]
      BY <1>2, <2>1, <2>2, <3>1, NameFacts DEF NoApp, NotOlder
    <3>3. Installation'[Config] \in Settings
      BY <1>d, <1>2, <2>1, <2>2, NameFacts DEF Maybe
    <3> QED BY <1>1, <1>6, <3>2, <3>3, SettingsStep
  <2>3. ASSUME NEW v \in Version, Ships(root, v) PROVE Folder!Next
    <3>1. root[Exe] = File(v) /\ File(v) # Absent /\ File(v).version = v
      BY <2>3, TreeAssumption, ContentFacts DEF Ships, File
    <3>2. Installation[Exe] = Absent \/ Installation[Exe].version <= v
      BY <1>2, <2>1, <3>1, NameFacts DEF NotOlder
    <3>3. root = Whole(v, root[Config])
      <4>1. Whole(v, root[Config]) \in Folders /\ Whole(v, root[Config])[Config] = root[Config]
        BY <1>d, WholeTyped
      <4>2. \A n \in Name : root[n] = Whole(v, root[Config])[n]
        BY <2>3, <4>1, WholeComplete DEF Ships, Name
      <4> QED BY <1>d, <4>1, <4>2 DEF Folders, Tree
    <3>4. Folder!Install(v, root[Config])
      BY <1>1, <1>3, <1>l, <1>6, <3>2, <3>3, FolderNames DEF Folder!Install
    <3> QED BY <1>d, <3>4, FolderNames DEF Folder!Next, Maybe
  <2> QED BY <2>1, <2>2, <2>3 DEF Complete
<1> QED BY <1>4, <1>5, <1>6

LEMMA UninstallStep ==
  ASSUME Sound, Sound', ~ruined', RemoveFolder
  PROVE  Folder!Next
<1>1. /\ removing /\ root' = Empty /\ UNCHANGED <<work, journal, previous, setup, backups>>
      /\ ruined' = ruined
  BY Removal DEF RemoveFolder, Sound, FlagsTyped
<1>2. Leaving
  BY <1>1 DEF Leaving
<1>3. \A n \in Name : Counted'[n] \in {Counted[n], Absent}
  BY <1>1, EmptyTyped, CountedAt, CountedThen
<1>4. Unlisted' = Unlisted
  BY <1>1 DEF Unlisted
<1>5. \A n \in Name : Installation'[n] \in {Installation[n], Absent}
  BY <1>3, <1>4, InstallationAt, InstallationThen DEF Name
<1> QED BY <1>1, <1>2, <1>5, RemoveStep

LEMMA FolderStep ==
  Sound /\ Sound' /\ OutFree /\ (ruined \/ (Swap /\ Plan)) /\ [Next]_vars
    => Folder!Next \/ UNCHANGED Folder!vars
<1> SUFFICES ASSUME Sound, Sound', OutFree, ruined \/ (Swap /\ Plan), [Next]_vars
             PROVE  Folder!Next \/ UNCHANGED Folder!vars
  OBVIOUS
<1>1. CASE ruined'
  <2>1. Leaving \/ ruined
    <3>1. CASE RemoveFolder
      BY <3>1, Removal DEF Leaving
    <3>2. CASE ~RemoveFolder
      BY <1>1, <3>2, RuinStays
    <3> QED BY <3>1, <3>2
  <2>2. Folder!Ruin
    BY <1>1, <2>1 DEF Folder!Ruin
  <2> QED BY <2>2 DEF Folder!Next
<1>2. CASE ~ruined'
  <2>1. Swap /\ Plan
    BY <1>2, RuinStays
  <2>2. ASSUME NEW n \in Name, MoveOut(n) \/ MoveIn(n) \/ Undo(n) PROVE UNCHANGED Folder!vars
    BY <2>1, <2>2, MovesStep
  <2>3. CASE Back
    BY <2>1, <2>3, MovesStep, NameFacts
  <2> QED BY <1>2, <2>1, <2>2, <2>3, UninstallStep, ProgressStep, AppStep, SaveStep, BackupStep,
             OpenStep, WriteJournalStep, KeepStep, CommitStep DEF Next
<1> QED BY <1>1, <1>2

LEMMA FolderInit == Init => Folder!Init
<1> SUFFICES ASSUME Init PROVE Folder!Init
  OBVIOUS
<1>1. FirstSettings \in Settings
  BY TreeAssumption, InstallerAssumption DEF FirstSettings, Settings
<1>2. work = "none" /\ root \in Folders /\ setup.pc = "idle"
  BY InitSound, SetupFacts DEF Init, Sound, DiskTyped
<1>3. Installation = root
  <2>1. \A n \in Name : Installation[n] = root[n]
    BY <1>2 DEF Installation, Unlisted
  <2> QED BY <1>2, <2>1, FolderEqual
<1>4. root \in {Empty} \union {Whole(v, s) : v \in Version, s \in Settings}
  BY <1>1 DEF Init
<1>5. backups \subseteq {Whole(v, s) : v \in Version, s \in Settings}
  BY <1>1 DEF Init
<1>6. Leaving = FALSE /\ ruined = FALSE
  BY <1>3 DEF Init, Leaving
<1> QED BY <1>3, <1>4, <1>5, <1>6, FolderNames DEF Folder!Init

\* An installation, a restored backup or an imported profile takes effect in one
\* step or not at all, whatever fails or is killed; an older version is put in place
\* only from a backup; and entries disappear only while an uninstall is under way
\* (Recovery.cs, Replace and RecoverInterrupted; Program.cs, Uninstall).  The promise
\* ends when an uninstall leaves a part of the folder behind.
THEOREM FolderIsAtomic == Spec => ImplementsFolder
<1>1. Init => Sound /\ OutFree /\ SettingsKept /\ (ruined \/ Swap) /\ (ruined \/ Plan)
  BY InitSound, InitKept, InitSwap, InitPlan
<1>2. Sound /\ OutFree /\ SettingsKept /\ (ruined \/ Swap) /\ (ruined \/ Plan) /\ [Next]_vars
        => (Sound /\ OutFree /\ SettingsKept /\ (ruined \/ Swap) /\ (ruined \/ Plan))'
  BY KeptStep, SwapStep, PlanStep, RuinStays
<1>3. Sound /\ Sound' /\ OutFree /\ (ruined \/ Swap) /\ (ruined \/ Plan) /\ [Next]_vars
        => Folder!Next \/ UNCHANGED Folder!vars
  BY FolderStep
<1> QED BY <1>1, <1>2, <1>3, FolderInit, PTL DEF Spec, ImplementsFolder, Folder!Spec

=============================================================================
