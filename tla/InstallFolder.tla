--------------------------- MODULE InstallFolder ---------------------------
(***************************************************************************)
(* What setup promises the operator about the install folder, whatever     *)
(* moves, failures and crashes lie behind it: an installation, a restored  *)
(* backup or an imported profile takes effect in one step, with app files  *)
(* and settings together, or not at all; a version is replaced by an older *)
(* one only from a backup; nothing is lost but to an uninstall.  When an   *)
(* uninstall leaves a part of the folder behind, the promise ends.         *)
(***************************************************************************)
EXTENDS InstallTree

VARIABLES folder,     \* the installation, as recovery would leave it
          snapshots,  \* the backups made of it
          leaving,    \* an uninstall is under way
          ruined      \* one has left a part behind

vars == <<folder, snapshots, leaving, ruined>>

OldSettings == {t[Config] : t \in snapshots}

Init == /\ folder \in {Empty} \union {Whole(v, s) : v \in Version, s \in Settings}
        /\ snapshots \subseteq {Whole(v, s) : v \in Version, s \in Settings}
        /\ leaving = FALSE /\ ruined = FALSE

BackUp == /\ folder # Empty
          /\ snapshots' = snapshots \union {folder}
          /\ UNCHANGED <<folder, leaving, ruined>>

\* Setup puts v in place, or an imported profile with the version there is.
Install(v, s) ==
  /\ folder[Exe] = Absent \/ folder[Exe].version <= v
  /\ folder' = Whole(v, s)
  /\ UNCHANGED <<snapshots, leaving, ruined>>

\* s is the backup's, or already newer: the app may run and save meanwhile.
Restore(t, s) ==
  /\ s = t[Config] \/ s \in Settings \ OldSettings
  /\ folder' = [t EXCEPT ![Config] = s]
  /\ UNCHANGED <<snapshots, leaving, ruined>>

Save(s) == /\ folder' = [folder EXCEPT ![Config] = s]
           /\ UNCHANGED <<snapshots, leaving, ruined>>

Uninstall == /\ leaving' = TRUE
             /\ UNCHANGED <<folder, snapshots, ruined>>

\* Only an uninstall removes: all it finds, and not what an operation puts in place
\* meanwhile.
Remove(gone) ==
  /\ leaving /\ leaving' \in BOOLEAN
  /\ folder' = [n \in Name |-> IF n \in gone THEN Absent ELSE folder[n]]
  /\ UNCHANGED <<snapshots, ruined>>

\* It leaves a part behind, and nothing is promised from then on.
Ruin == (leaving \/ ruined) /\ ruined'

Next == \/ BackUp
        \/ \E v \in Version, s \in Settings \union {Absent} : Install(v, s)
        \/ \E t \in snapshots, s \in Settings \union {Absent} : Restore(t, s)
        \/ \E s \in Settings : Save(s)
        \/ Uninstall \/ \E gone \in SUBSET Name : Remove(gone)
        \/ Ruin

Spec == Init /\ [][Next]_vars

-----------------------------------------------------------------------------
OneVersion(t) == \A m, n \in App : t[m] # Absent /\ t[n] # Absent => t[m] = t[n]

\* As long as the promise holds, the app's files, in the folder and in each backup, are of
\* one version.
NeverMixed == ruined \/ (OneVersion(folder) /\ \A t \in snapshots : OneVersion(t))
=============================================================================
