---------------------------- MODULE ExporterTargets ----------------------------
(***************************************************************************)
(* The registration of exporters with Prometheus (registerExporter in      *)
(* exporterregistrar/cmd/register.go).  A process reads the target file of *)
(* the Prometheus server with `cat`, changes it in memory and writes it    *)
(* back with `echo > file`, which first empties it.  Nothing is locked.    *)
(*                                                                         *)
(* The file is a sequence of target groups; what does not parse counts as  *)
(* empty, as in the code.  An exporter that does not answer and a server   *)
(* that cannot be reached end a registration before it begins here.        *)
(***************************************************************************)
EXTENDS Naturals, FiniteSets, Sequences

CONSTANTS
  Target,    \* host and port of an exporter
  Label,     \* sets of labels
  None,      \* no labels, no registration
  Process,   \* registrations that may run at a time
  ByHand,    \* target groups the file may hold to begin with
  MaxRun,    \* bound: registrations
  Faults     \* kill: a process may be killed;  cut: a write may stop half way

ASSUME ExporterAssumption ==
  /\ None \notin Label /\ MaxRun \in Nat /\ Faults \subseteq {"kill", "cut"}
  /\ None \notin [target : Target, labels : Label \cup {None}, force : BOOLEAN]
  /\ ByHand \subseteq [targets : SUBSET Target, labels : Label \cup {None}]

VARIABLES
  file,       \* the target file
  pc,         \* by process, where it is
  job,        \* by process, what it registers: target, labels and force
  text,       \* by process, what it is going to write
  runs,       \* registrations begun
  latest,     \* by target, the labels last written for it, in a set, empty for a target nobody
              \* has written (for the properties)
  disturbed,  \* registrations have overlapped or a write was cut (for the properties)
  tangled     \* two processes have written at a time (for the properties)

vars == <<file, pc, job, text, runs, latest, disturbed, tangled>>

Listed(groups)    == UNION {groups[i].targets : i \in DOMAIN groups}
Registered        == {t \in Target : latest[t] # {}}
Running           == {p \in Process : pc[p] # "idle"}
Group(t, labels)  == [targets |-> {t}, labels |-> labels]

End(p) == pc' = [pc EXCEPT ![p] = "idle"] /\ job' = [job EXCEPT ![p] = None]
                                         /\ text' = [text EXCEPT ![p] = << >>]

(***************************************************************************)
(* The process.                                                            *)
(***************************************************************************)
Begin(p) ==
  /\ pc[p] = "idle" /\ runs < MaxRun /\ runs' = runs + 1
  /\ \E t \in Target, l \in Label \cup {None}, force \in BOOLEAN :
       job' = [job EXCEPT ![p] = [target |-> t, labels |-> l, force |-> force]]
  /\ pc' = [pc EXCEPT ![p] = "download"]
  /\ disturbed' = (disturbed \/ Running # {})
  /\ UNCHANGED <<file, text, latest, tangled>>

Parsed(groups) ==
  IF groups = << >> THEN <<[targets |-> {}, labels |-> None]>> ELSE groups

Relabelled(g, j) == IF j.target \in g.targets /\ j.labels # None
                    THEN [g EXCEPT !.labels = j.labels] ELSE g

\* Mutant of Updated: a target that is there is not looked for.
UpdatedUnchecked(groups, j) == Append(Parsed(groups), Group(j.target, j.labels))

\* Mutant of Updated: --force leaves the labels as they were.
UpdatedStale(groups, j) ==
  IF j.target \in Listed(groups) THEN groups
  ELSE Append(Parsed(groups), Group(j.target, j.labels))

\* Mutant of Updated: a new target begins a new list.
UpdatedAfresh(groups, j) ==
  IF j.target \in Listed(groups)
  THEN [i \in DOMAIN groups |-> Relabelled(groups[i], j)]
  ELSE Append(Parsed(<< >>), Group(j.target, j.labels))

(* Every group that has the target gets the labels;  a target that is in     *)
(* none gets a group of its own.                                             *)
Updated(groups, j) ==
  IF j.target \in Listed(groups)
  THEN [i \in DOMAIN groups |-> Relabelled(groups[i], j)]
  ELSE Append(Parsed(groups), Group(j.target, j.labels))

(* A target that is there already is an error without --force.               *)
Download(p) ==
  /\ pc[p] = "download"
  /\ IF job[p].target \in Listed(file) /\ ~job[p].force THEN End(p)
     ELSE /\ pc' = [pc EXCEPT ![p] = "upload"]
          /\ text' = [text EXCEPT ![p] = Updated(file, job[p])]
          /\ UNCHANGED job
  /\ UNCHANGED <<file, runs, latest, disturbed, tangled>>

Open(p) ==
  /\ pc[p] = "upload" /\ pc' = [pc EXCEPT ![p] = "write"]
  /\ file' = << >>
  /\ tangled' = (tangled \/ \E q \in Process : pc[q] = "write")
  /\ UNCHANGED <<job, text, runs, latest, disturbed>>

(* What another process has written since the file was emptied lies under    *)
(* it: a longer text shows its tail, which may also make the file unusable.  *)
Beneath(p) == SubSeq(file, Len(text[p]) + 1, Len(file))
Written(p) == {text[p] \o Beneath(p)} \cup (IF file = << >> THEN {} ELSE {<< >>})

Finish(p)  == file' \in Written(p) /\ latest' = [latest EXCEPT ![job[p].target] = {job[p].labels}]

Write(p) ==
  /\ pc[p] = "write" /\ End(p)
  /\ Finish(p)
  /\ UNCHANGED <<runs, disturbed, tangled>>

\* Mutant of Kill: what the process was about to do stays.
KillKeepingJob(p) ==
  /\ "kill" \in Faults /\ pc[p] # "idle"
  /\ pc' = [pc EXCEPT ![p] = "idle"]
  /\ IF pc[p] = "write" THEN Finish(p) ELSE UNCHANGED <<file, latest>>
  /\ UNCHANGED <<job, text, runs, disturbed, tangled>>

(* The shell on the server writes on when the process that sent it is gone.  *)
Kill(p) ==
  /\ "kill" \in Faults /\ pc[p] # "idle" /\ End(p)
  /\ IF pc[p] = "write" THEN Finish(p) ELSE UNCHANGED <<file, latest>>
  /\ UNCHANGED <<runs, disturbed, tangled>>

(* A full disk or a crash of the server: an error, and a part of the text.   *)
Cut(p) ==
  /\ "cut" \in Faults /\ pc[p] = "write" /\ End(p)
  /\ \E n \in 0 .. Len(text[p]) - 1 : file' = SubSeq(text[p], 1, n)
  /\ disturbed' = TRUE
  /\ UNCHANGED <<runs, latest, tangled>>

-----------------------------------------------------------------------------
Init ==
  /\ file \in {<< >>} \cup {<<g>> : g \in ByHand}
  /\ pc = [p \in Process |-> "idle"] /\ job = [p \in Process |-> None]
  /\ text = [p \in Process |-> << >>] /\ runs = 0
  /\ latest = [t \in Target |-> IF t \in Listed(file) THEN {None} ELSE {}]
  /\ disturbed = FALSE /\ tangled = FALSE

Next == \E p \in Process : Begin(p) \/ Download(p) \/ Open(p) \/ Write(p) \/ Kill(p) \/ Cut(p)

Spec == Init /\ [][Next]_vars
-----------------------------------------------------------------------------
TargetGroup == [targets : SUBSET Target, labels : Label \cup {None}]

(* Every variable has its type, and a process that registers knows what.     *)
TypeOK ==
  /\ file \in Seq(TargetGroup) /\ text \in [Process -> Seq(TargetGroup)]
  /\ pc \in [Process -> {"idle", "download", "upload", "write"}]
  /\ job \in [Process -> {None} \cup [target : Target, labels : Label \cup {None}, force : BOOLEAN]]
  /\ \A p \in Process : pc[p] = "idle" <=> job[p] = None
  /\ runs \in 0 .. MaxRun /\ disturbed \in BOOLEAN /\ tangled \in BOOLEAN
  /\ latest \in [Target -> SUBSET (Label \cup {None})]

(* Registrations may overlap, overtake and undo each other, be killed or cut *)
(* short: as long as no two write at a time no target is listed twice.       *)
NoDuplicates ==
  ~tangled => \A i, j \in DOMAIN file : i # j => file[i].targets \cap file[j].targets = {}

Writing == \E p \in Process : pc[p] = "write"

(* Registrations that do not overlap lose no target that was registered or   *)
(* written by hand, also when they are killed or refused.                    *)
RegisteredStay == ~disturbed /\ ~Writing => Registered \subseteq Listed(file)

(* And a target in a group of its own then has the labels it was registered  *)
(* with last, which a node exporter, having none, leaves as they were.       *)
LatestLabels ==
  ~disturbed => \A i \in DOMAIN file : \A t \in Target :
                  file[i].targets = {t} => latest[t] \subseteq {None, file[i].labels}
=============================================================================
