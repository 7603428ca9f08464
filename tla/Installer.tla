----------------------------- MODULE Installer -----------------------------
(***************************************************************************)
(* Setup's maintenance of the install folder: install, restore a backup,   *)
(* import a profile, back up, recover and uninstall, with the journal of   *)
(* Recovery.cs.  Any step of setup may fail, setup may be killed between   *)
(* any two, and the app may be started and save its settings whenever its  *)
(* program is there.                                                       *)
(***************************************************************************)
EXTENDS InstallTree

CONSTANTS Kinds,      \* what the operator asks setup for, of Kind
          DefaultLanguage,
          MaxStarts,  \* bound: operations begun
          MaxCrashes  \* bound: times setup is killed

Kind == {"install", "restore", "adopt", "backup", "recover"}

ASSUME InstallerAssumption ==
  /\ Kinds \subseteq Kind /\ DefaultLanguage \in Language
  /\ MaxStarts \in Nat /\ MaxCrashes \in Nat

VARIABLES
  root,       \* the install folder's entries, Excluded names left out
  present,    \* the install folder exists
  running,    \* the app runs
  removing,   \* cmd.exe has been started to remove the folder
  ruined,     \* history: it left a part of it behind
  backups,    \* the verified zips
  work,       \* the work directory: "none", "bare" (no journal), "open", "committed"
  journal,    \* the journal's Before and After
  previous,   \* work\previous
  failed,     \* contents put into work\failed
  archive,    \* contents kept in Backups\transactions
  setup,      \* the operation that holds maintenance.lock
  stage,      \* its stage-, restore- or adopt- directory
  edits,      \* settings saved so far
  latest,     \* history: the settings the app saved last, until an uninstall
  starts, crashes

disk == <<root, present, backups, work, journal, previous, failed, archive>>
vars == <<disk, running, removing, ruined, setup, stage, edits, latest, starts, crashes>>

NoJournal == [before |-> {}, after |-> {}]
NoSetup == [pc |-> "idle", kind |-> "recover", version |-> 0, language |-> DefaultLanguage,
            chosen |-> Empty, left |-> {}, entry |-> Exe]

Pc == {"idle", "backup", "copy", "check", "open", "journal", "out", "in",
       "commit", "undo", "back", "keep", "discard"}

SetupRecord == [pc : Pc, kind : Kind, version : Version \union {0}, language : Language,
                chosen : Tree, left : SUBSET Name, entry : Name]

FirstSettings == [kind |-> "config", edit |-> 0, language |-> DefaultLanguage]

\* There may be a backup from an earlier time.
Init == /\ root \in {Empty} \union {Whole(v, FirstSettings) : v \in Version}
        /\ present = (root # Empty)
        /\ running = FALSE /\ removing = FALSE /\ ruined = FALSE
        /\ backups \in {{}} \union {{Whole(v, FirstSettings)} : v \in Version}
        /\ work = "none" /\ journal = NoJournal
        /\ previous = Empty /\ failed = {} /\ archive = {}
        /\ setup = NoSetup /\ stage = Empty
        /\ edits = 0 /\ latest = root[Config]
        /\ starts = 0 /\ crashes = 0

Pending == work \in {"open", "committed"}
Goto(pc) == setup' = [setup EXCEPT !.pc = pc]

-----------------------------------------------------------------------------
(* The app *)

Launch == /\ ~running /\ root[Exe] # Absent
          /\ running' = TRUE
          /\ UNCHANGED <<disk, removing, ruined, setup, stage, edits, latest, starts, crashes>>

Quit == /\ running /\ running' = FALSE
        /\ UNCHANGED <<disk, removing, ruined, setup, stage, edits, latest, starts, crashes>>

LanguageOf(s) == IF s = Absent THEN DefaultLanguage ELSE s.language

\* The app saves its settings, and makes the config folder if there is none.
Save ==
  /\ running /\ present /\ edits + 1 \in Edit
  /\ LET s == [kind |-> "config", edit |-> edits + 1, language |-> LanguageOf(root[Config])]
     IN /\ root' = [root EXCEPT ![Config] = s]
        /\ latest' = s
  /\ edits' = edits + 1
  /\ UNCHANGED <<present, running, removing, ruined, backups, work, journal, previous, failed,
                 archive, setup, stage, starts, crashes>>

-----------------------------------------------------------------------------
(* An operation up to its replacement *)

\* An older version is installed only by restoring a backup.
RequiresRestore(v) == root[Exe] # Absent /\ root[Exe].version > v

Refused(kind, v) ==
  \/ running
  \/ kind # "recover" /\ Pending
  \/ kind = "install" /\ RequiresRestore(v)
  \/ kind = "adopt" /\ root[Exe] = Absent

\* What each operation does first, once it holds the lock.
First(kind) == CASE kind = "recover" -> IF work = "open" THEN "undo"
                                        ELSE IF work = "committed" THEN "keep" ELSE "idle"
                 [] Top(root) = {} -> IF kind \in {"install", "restore"} THEN "copy" ELSE "idle"
                 [] OTHER -> "backup"

Begin(kind, v, l, t) ==
  /\ setup.pc = "idle" /\ starts < MaxStarts
  /\ ~Refused(kind, v)
  /\ setup' = [pc |-> First(kind), kind |-> kind, version |-> v, language |-> l,
               chosen |-> t, left |-> IF kind = "recover" THEN journal.before \union journal.after
                                                           ELSE {}, entry |-> Exe]
  /\ starts' = starts + 1
  /\ UNCHANGED <<disk, running, removing, ruined, stage, edits, latest, crashes>>

Start == \/ \E v \in Version, l \in Language :
              "install" \in Kinds /\ Begin("install", v, l, Empty)
         \/ \E t \in backups : "restore" \in Kinds /\ Begin("restore", 0, DefaultLanguage, t)
         \/ \E kind \in Kinds \intersect {"adopt", "backup", "recover"} :
              Begin(kind, 0, DefaultLanguage, Empty)

\* The zip gets its name only after every byte of it has been verified.
Backup == /\ setup.pc = "backup"
          /\ backups' = IF Top(root) = {} THEN backups ELSE backups \union {root}
          /\ Goto(IF setup.kind = "backup" THEN "idle" ELSE "copy")
          /\ UNCHANGED <<root, present, work, journal, previous, failed, archive, running,
                         removing, ruined, stage, edits, latest, starts, crashes>>

\* WriteLanguage rewrites the staged settings only if their language differs.
InLanguage(s, l) ==
  IF LanguageOf(s) = l THEN s
  ELSE [kind |-> "config", edit |-> IF s = Absent THEN 0 ELSE s.edit, language |-> l]

Staged(s) == CASE setup.kind = "install" ->
                      Whole(setup.version, InLanguage(root[Config], setup.language))
               [] setup.kind = "restore" -> setup.chosen
               [] OTHER -> [root EXCEPT ![Config] = s]

\* s: the profile to import.
Copy == /\ setup.pc = "copy"
        /\ \E s \in {x \in Settings : x.edit = 0} : stage' = Staged(s)
        /\ setup.kind = "restore" => stage'[Exe] # Absent
        /\ setup' = [NoSetup EXCEPT !.kind = setup.kind,
                                    !.pc = IF setup.kind = "install" THEN "check" ELSE "open"]
        /\ UNCHANGED <<disk, running, removing, ruined, edits, latest, starts, crashes>>

Check == /\ setup.pc = "check"
         /\ Goto(IF running THEN "discard" ELSE "open")
         /\ UNCHANGED <<disk, running, removing, ruined, stage, edits, latest, starts, crashes>>

\* An exception before the replacement: only the stage is cleared.
Abort == /\ setup.pc \in {"backup", "copy", "check", "open"}
         /\ Goto("discard")
         /\ UNCHANGED <<disk, running, removing, ruined, stage, edits, latest, starts, crashes>>

-----------------------------------------------------------------------------
(* Replace: the journaled swap of root and stage *)

\* SameTree: a missing folder is not the same as another missing one.
KeepConfig == setup.kind = "install" /\ root[Config] # Absent /\ root[Config] = stage[Config]
Included(t) == Top(t) \ (IF KeepConfig THEN {Config} ELSE {})

\* The work directory is made; a left-over one is preserved for inspection.
Open == /\ setup.pc = "open"
        /\ present' = TRUE
        /\ IF work # "none"
           THEN Goto("discard") /\ UNCHANGED <<work, journal, previous, failed>>
           ELSE /\ work' = "bare"
                /\ journal' = [before |-> Included(root), after |-> Included(stage)]
                /\ previous' = Empty /\ failed' = {}
                /\ Goto("journal")
        /\ UNCHANGED <<root, backups, archive, running, removing, ruined, stage, edits, latest,
                       starts, crashes>>

\* The journal is written beside and renamed; this is outside the try block.
WriteJournal == /\ setup.pc = "journal"
                /\ \/ /\ work' = "open"
                      /\ setup' = [setup EXCEPT !.pc = "out", !.left = journal.before]
                   \/ work' = work /\ Goto("discard")
                /\ UNCHANGED <<root, present, backups, journal, previous, failed, archive,
                               running, removing, ruined, stage, edits, latest, starts, crashes>>

\* Windows does not rename a folder whose program runs.
Movable(n) == n = Exe => ~running

MoveOut(n) ==
  /\ setup.pc = "out" /\ n \in setup.left /\ Movable(n)
  /\ previous' = [previous EXCEPT ![n] = root[n]]
  /\ root' = [root EXCEPT ![n] = Absent]
  /\ setup' = [setup EXCEPT !.left = @ \ {n}]
  /\ UNCHANGED <<present, backups, work, journal, failed, archive, running, removing, ruined,
                 stage, edits, latest, starts, crashes>>

OutDone == /\ setup.pc = "out" /\ setup.left = {}
           /\ setup' = [setup EXCEPT !.pc = "in", !.left = journal.after]
           /\ UNCHANGED <<disk, running, removing, ruined, stage, edits, latest, starts,
                          crashes>>

\* A move fails if its target, or the target's folder, is in the way or gone.
MoveIn(n) ==
  /\ setup.pc = "in" /\ n \in setup.left
  /\ present /\ root[n] = Absent
  /\ root' = [root EXCEPT ![n] = stage[n]]
  /\ stage' = [stage EXCEPT ![n] = Absent]
  /\ setup' = [setup EXCEPT !.left = @ \ {n}]
  /\ UNCHANGED <<present, backups, work, journal, previous, failed, archive, running, removing,
                 ruined, edits, latest, starts, crashes>>

Commit == /\ setup.pc = "in" /\ setup.left = {}
          /\ work' = "committed"
          /\ Goto("keep")
          /\ UNCHANGED <<root, present, backups, journal, previous, failed, archive, running,
                         removing, ruined, stage, edits, latest, starts, crashes>>

\* A move or the second journal write throws: what was done is undone.
Fail == /\ setup.pc \in {"out", "in"}
        /\ setup' = [setup EXCEPT !.pc = "undo", !.left = journal.before \union journal.after]
        /\ UNCHANGED <<disk, running, removing, ruined, stage, edits, latest, starts, crashes>>

-----------------------------------------------------------------------------
(* RecoverInterrupted, by setup itself or in a later run of it *)

\* Fault: what was displaced is not put back.
AddedOnly(n) == n \notin journal.before

\* n has been displaced, or the installation before the swap did not have it.
Displaced(n) == previous[n] # Absent \/ n \notin journal.before

\* What is there instead of n is put aside.
Undo(n) ==
  /\ setup.pc = "undo" /\ n \in setup.left
  /\ IF Displaced(n) /\ root[n] # Absent
     THEN /\ Movable(n)
          /\ failed' = failed \union {root[n]}
          /\ root' = [root EXCEPT ![n] = Absent]
     ELSE UNCHANGED <<failed, root>>
  /\ setup' = IF Displaced(n) THEN [setup EXCEPT !.pc = "back", !.entry = n]
                              ELSE [setup EXCEPT !.left = @ \ {n}]
  /\ UNCHANGED <<present, backups, work, journal, previous, archive, running, removing, ruined,
                 stage, edits, latest, starts, crashes>>

\* The old n returns, if there was one.
Back == /\ setup.pc = "back"
        /\ LET n == setup.entry
           IN /\ previous[n] # Absent => present /\ root[n] = Absent
              /\ root' = IF previous[n] = Absent THEN root ELSE [root EXCEPT ![n] = previous[n]]
              /\ previous' = [previous EXCEPT ![n] = Absent]
              /\ setup' = [setup EXCEPT !.pc = "undo", !.left = @ \ {n}, !.entry = Exe]
        /\ UNCHANGED <<present, backups, work, journal, failed, archive, running, removing,
                       ruined, stage, edits, latest, starts, crashes>>

UndoDone == /\ setup.pc = "undo" /\ setup.left = {}
            /\ Goto("keep")
            /\ UNCHANGED <<disk, running, removing, ruined, stage, edits, latest, starts,
                           crashes>>

\* Fault: the work directory is deleted.
KeepNothing == /\ setup.pc = "keep"
               /\ work' = "none" /\ journal' = NoJournal /\ previous' = Empty /\ failed' = {}
               /\ Goto("discard")
               /\ UNCHANGED <<root, present, backups, archive, running, removing, ruined, stage,
                              edits, latest, starts, crashes>>

\* Fault: only the journal is renamed.
KeepJournal == /\ setup.pc = "keep"
               /\ work' = "none" /\ journal' = NoJournal
               /\ Goto("discard")
               /\ UNCHANGED <<root, present, backups, previous, failed, archive, running,
                              removing, ruined, stage, edits, latest, starts, crashes>>

\* The work directory is renamed into Backups\transactions, with all it holds.
Keep == /\ setup.pc = "keep"
        /\ archive' = archive \union failed \union {previous[n] : n \in Name}
        /\ work' = "none" /\ journal' = NoJournal /\ previous' = Empty /\ failed' = {}
        /\ Goto("discard")
        /\ UNCHANGED <<root, present, backups, running, removing, ruined, stage, edits, latest,
                       starts, crashes>>

\* Recovery throws: the journal stays for the next one.
GiveUp == /\ setup.pc \in {"undo", "back", "keep"}
          /\ Goto("discard")
          /\ UNCHANGED <<disk, running, removing, ruined, stage, edits, latest, starts, crashes>>

Discard == /\ setup.pc = "discard"
           /\ stage' = Empty /\ setup' = NoSetup
           /\ UNCHANGED <<disk, running, removing, ruined, edits, latest, starts, crashes>>

-----------------------------------------------------------------------------
(* What can happen at any time *)

\* Setup is killed or the power fails; its stage is left behind, unused.
Crash == /\ setup.pc # "idle" /\ crashes < MaxCrashes
         /\ crashes' = crashes + 1
         /\ setup' = NoSetup /\ stage' = Empty
         /\ running' \in {running, FALSE}
         /\ UNCHANGED <<disk, removing, ruined, edits, latest, starts>>

\* Uninstall neither takes the lock nor looks for a journal.
Uninstall == /\ ~running /\ ~removing /\ present /\ starts < MaxStarts
             /\ removing' = TRUE /\ starts' = starts + 1
             /\ UNCHANGED <<disk, running, ruined, setup, stage, edits, latest, crashes>>

\* rmdir /s /q, some seconds later, removes what is not in use.  The folder itself stays
\* with what is, the uninstaller in it included.
RemoveFolder ==
  /\ removing /\ removing' = FALSE
  /\ \E gone \in SUBSET Name :
       /\ running => Exe \notin gone
       /\ root' = [n \in Name |-> IF n \in gone THEN Absent ELSE root[n]]
  /\ present' \in BOOLEAN /\ (root' # Empty => present')
  /\ ruined' = (ruined \/ present') /\ latest' = Absent
  /\ UNCHANGED <<backups, work, journal, previous, failed, archive, running, setup, stage, edits,
                 starts, crashes>>

Next == \/ Launch \/ Quit \/ Save
        \/ Start \/ Backup \/ Copy \/ Check \/ Abort
        \/ Open \/ WriteJournal \/ OutDone \/ Commit \/ Fail
        \/ \E n \in Name : MoveOut(n) \/ MoveIn(n) \/ Undo(n)
        \/ Back \/ UndoDone \/ Keep \/ GiveUp \/ Discard
        \/ Crash \/ Uninstall \/ RemoveFolder

Spec == Init /\ [][Next]_vars

-----------------------------------------------------------------------------
Contents(t) == {t[n] : n \in Name}

\* Types of the variables, and: there is nothing in a folder that does not
\* exist, nor in a work directory before the first move.
TypeOK ==
  /\ root \in Tree /\ previous \in Tree /\ stage \in Tree
  /\ present \in BOOLEAN /\ running \in BOOLEAN /\ removing \in BOOLEAN /\ ruined \in BOOLEAN
  /\ backups \subseteq Tree
  /\ work \in {"none", "bare", "open", "committed"}
  /\ journal \in [before : SUBSET Name, after : SUBSET Name]
  /\ failed \subseteq Content /\ archive \subseteq Content
  /\ setup \in SetupRecord
  /\ edits \in Edit /\ latest \in Settings \union {Absent}
  /\ starts \in Nat /\ crashes \in Nat
  /\ ~present => root = Empty
  /\ work \in {"none", "bare"} => previous = Empty /\ failed = {}

\* The first settings, saved just before the journal is on disk, which does not list them.
Unlisted == {n \in {Config} : setup.pc = "journal" /\ n \in journal.after \ journal.before}

\* The installation as recovery would leave it: until the journal says
\* committed, what has been displaced counts and what replaces it does not.
Installation ==
  [n \in Name |-> IF /\ work = "open"
                     /\ \/ n \in journal.before /\ previous[n] # Absent
                        \/ n \in journal.after \ journal.before
                  THEN previous[n]
                  ELSE IF n \in Unlisted THEN Absent ELSE root[n]]

\* An uninstall is under way, or setup still holds what it did not find.
Leaving == removing \/ (~present /\ Installation # Empty)

Folder == INSTANCE InstallFolder WITH folder <- Installation, snapshots <- backups,
                                      leaving <- Leaving

\* Setup implements the atomic folder, whatever fails or is killed.
ImplementsFolder == Folder!Spec

\* Nothing setup does destroys the settings the operator saved last: they
\* are in the folder, in the work directory or kept with the transactions.
\* Of settings saved before an uninstall nothing is claimed.
SettingsKept ==
  \/ latest = Absent
  \/ latest \in Contents(root) \union Contents(previous) \union failed \union archive

-----------------------------------------------------------------------------
(* What the code does not guarantee *)

\* What setup leaves behind can be recovered: there is no work directory
\* without a journal.
LeftoverIsRecoverable == setup.pc = "idle" => work # "bare"

\* An update leaves the settings the operator saved last in place.
UpdateKeepsSettings ==
  setup.pc = "keep" /\ setup.kind = "install" /\ work = "committed" /\ latest # Absent /\ present
     => root[Config].edit >= latest.edit
=============================================================================
