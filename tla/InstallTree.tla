---------------------------- MODULE InstallTree ----------------------------
(***************************************************************************)
(* The install folder of Pulse Weaver as a tree of its top-level entries:  *)
(* the application's own, which a version's payload supplies, and the      *)
(* operator's settings ("config").                                         *)
(***************************************************************************)
EXTENDS Integers

CONSTANTS App,       \* top-level names that payloads use
          Exe,       \* the one with the program and its version file ("bin")
          Config,    \* "config"
          Version,   \* release numbers, in their order
          Payload,   \* the names each version ships
          Edit,      \* numbers of the operator's successive settings
          Language

ASSUME TreeAssumption ==
  /\ Exe \in App /\ Config \notin App
  /\ Version \subseteq Nat /\ Edit \subseteq Nat /\ 0 \in Edit
  /\ Payload \in [Version -> SUBSET App]
  /\ \A v \in Version : Exe \in Payload[v]

Name == App \union {Config}

Absent == [kind |-> "none"]
File(v) == [kind |-> "app", version |-> v]
Settings == [kind : {"config"}, edit : Edit, language : Language]

Content == {Absent} \union {File(v) : v \in Version} \union Settings
Tree == [Name -> Content]
Empty == [n \in Name |-> Absent]

\* A complete installation of v with settings s.
Whole(v, s) == [n \in Name |-> CASE n = Config -> s
                                 [] n \in Payload[v] -> File(v)
                                 [] OTHER -> Absent]

Top(t) == {n \in Name : t[n] # Absent}
=============================================================================
