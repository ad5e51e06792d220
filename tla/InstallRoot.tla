------------------------------ MODULE InstallRoot ------------------------------
(***************************************************************************)
(* The installation root of dbbot, as the release commands see it          *)
(* (libexec/dbbotctl/common.sh).  A root maps each managed path to its      *)
(* content; a path stands for one file, and its content is the release it   *)
(* was shipped with, something the user wrote, or Gone.                     *)
(***************************************************************************)
CONSTANTS
  Version,         \* releases
  InitialVersion,  \* the release installed at the start
  Edit,            \* contents a user may write
  Gone,            \* the content of a path that does not exist
  Path,            \* managed paths: DBBOT_MANAGED_ROOT_DIRS and _FILES
  Preserve,        \* DBBOT_PRESERVE_PATHS, the user's configuration
  Ships,           \* paths every release package contains
  VersionFile      \* the file VERSION

ASSUME InstallRootAssumption ==
  /\ InitialVersion \in Version /\ Gone \notin Version \cup Edit
  /\ Preserve \subseteq Path /\ Ships \subseteq Path
  /\ VersionFile \in Ships \ Preserve

Content   == Version \cup Edit \cup {Gone}
Core      == Ships \ Preserve   \* the program files: nobody edits them
Root      == {r \in [Path -> Content] : \A p \in Core : r[p] \in Version \cup {Gone}}
EmptyRoot == [p \in Path |-> Gone]

\* A fresh installation of release v.
Installed(v) == [p \in Path |-> IF p \in Ships THEN v ELSE Gone]

\* One installed release: every program file is there, from one release.
Complete(r) == \A p \in Core : r[p] # Gone /\ r[p] = r[VersionFile]

\* What an upgrade of r to release v is meant to leave: the user's files over
\* a fresh installation of v.
Merge(r, v) ==
  [p \in Path |-> IF p \in Preserve /\ r[p] # Gone THEN r[p] ELSE Installed(v)[p]]
=============================================================================
