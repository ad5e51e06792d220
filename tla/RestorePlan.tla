------------------------------ MODULE RestorePlan ------------------------------
(***************************************************************************)
(* How the restore of a ClickHouse cluster is split into phases, so that   *)
(* materialized views come after the tables they read and write (the       *)
(* metadata scan and the phase plan of restore_cluster.yml).               *)
(*                                                                         *)
(* An object has a database, a name and a kind: "table" (or plain view),   *)
(* "mv", or "other" (a dictionary, say).  A clause, as in RESTORE, is a    *)
(* set of items: one object of any kind, a whole database (the name is     *)
(* All), or everything (the database is All too).                          *)
(***************************************************************************)
EXTENDS Naturals, Sequences

All == "ALL"

Names(clause, o) == \E i \in clause : i.db \in {All, o.db} /\ i.name \in {All, o.name}

(* What RESTORE brings back of the backup.                                   *)
Restored(backup, clause) == {o \in backup : Names(clause, o)}

Item(o)      == [db |-> o.db, name |-> o.name]
Tables(c)    == {i \in c : i.name # All}
Databases(c) == {i.db : i \in c \ Tables(c)} \ {All}

\* Mutant of Scan: the databases decide, tables are looked at without any.
ScanDatabasesFirst(backup, clause, kind) ==
  {o \in backup : o.kind = kind /\ o.db \in Databases(clause)}

(* The objects of a kind the phases are made of: when the clause names       *)
(* tables, just those; its databases otherwise.                              *)
Scan(backup, clause, kind) ==
  {o \in backup : /\ o.kind = kind
                  /\ IF Tables(clause) # {} THEN Item(o) \in clause
                     ELSE Databases(clause) # {} => o.db \in Databases(clause)}

(* The clauses of the phases, in order;  none when the play refuses.         *)
Plan(backup, clause, compat, strict) ==
  LET views == {Item(o) : o \in Scan(backup, clause, "mv")}
      rest  == {Item(o) : o \in Scan(backup, clause, "table")}
  IN  IF ~compat THEN <<clause>>
      ELSE IF strict /\ \E o \in backup : o.kind = "other" THEN << >>
      ELSE IF views = {} THEN <<clause>>
      ELSE IF rest = {} THEN <<views>>
      ELSE <<rest, views>>

-----------------------------------------------------------------------------
Pure(clause) == Tables(clause) = {} \/ Databases(clause) = {}

(* The phases restore what the clause names, each object once, and, in the   *)
(* mode for views, no view together with a table or before one.              *)
PhasesWhole(backup, clause, compat, phases) ==
  LET part(i) == Restored(backup, phases[i])
  IN  /\ UNION {part(i) : i \in DOMAIN phases} = Restored(backup, clause)
      /\ \A i, j \in DOMAIN phases : i < j => part(i) \cap part(j) = {}
      /\ compat => \A i, j \in DOMAIN phases : \A o \in part(i), p \in part(j) :
                     i <= j /\ p.kind # o.kind => o.kind = "table" /\ i < j
=============================================================================
