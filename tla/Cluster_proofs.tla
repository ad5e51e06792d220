----------------------------- MODULE Cluster_proofs -----------------------------
(***************************************************************************)
(* Proofs about the backup and the restore of a ClickHouse cluster, for    *)
(* any cluster, number of batches, plays and rows, and under all faults:   *)
(* first what ClusterBackup leaves, then that it comes back.               *)
(***************************************************************************)
EXTENDS ClusterRestore, FiniteSetTheorems, WellFoundedInduction, TLAPS

LEMMA ConstantFacts ==
  /\ MaxTime \in Nat /\ MaxPlay \in Nat /\ None \notin Play /\ Shard # {}
  /\ \A s \in Shard, pick \in Pick : pick[s] \in Host /\ pick[s][1] = s
BY ClusterAssumption DEF Shard, Pick, Hosts
-----------------------------------------------------------------------------
(* TypeOK by the parts that a step changes together.                         *)
SourceTyped ==
  /\ now \in 0 .. MaxTime
  /\ held \in [Host -> SUBSET Time] /\ queued \in [Host -> SUBSET Time]
  /\ quorum \in [Shard -> SUBSET Time]

StoreTyped ==
  /\ stat \in [Path -> {"none", "running", "created", "failed"}]
  /\ disk \in [Path -> [state : {"none", "partial", "whole"}, rows : SUBSET Time]]
  /\ checkpoint \subseteq [batch : Batch, shard : Shard, ts : 0 .. MaxTime]

LockTyped ==
  /\ pc \in {"idle", "health", "marker", "start", "wait", "nfs", "control"}
  /\ todo \subseteq Shard /\ todo # {} /\ failed \in BOOLEAN
  /\ play = None <=> pc = "idle"
  /\ pc # "idle" => play \in Play

LEMMA TypeParts == TypeOK <=> SourceTyped /\ StoreTyped /\ LockTyped /\ plays \in 0 .. MaxPlay
BY DEF TypeOK, SourceTyped, StoreTyped, LockTyped

LEMMA FollowingValues ==
  /\ Following["health"] = "marker" /\ Following["marker"] = "start"
  /\ Following["start"] = "wait" /\ Following["wait"] = "nfs"
BY DEF Following

(* The path of a shard's backup, and that no two shards have the same.       *)
LEMMA TargetTyped ==
  ASSUME LockTyped, pc # "idle", NEW s \in Shard
  PROVE  Target(s) \in Path /\ Target(s)[2] = play.pick[s] /\ play.pick[s] \in Host
         /\ \A x \in Shard : Target(x) = Target(s) => x = s
<1>1. play.batch \in Batch /\ play.pick \in Pick
  BY DEF LockTyped, Play
<1> QED
  BY <1>1, ConstantFacts DEF Target, Path

(* The three ways a task of the play ends for a shard.                       *)
LEMMA DoneCases ==
  ASSUME NEW s, NEW ok, NEW p, Done(s, ok, p)
  PROVE  \/ todo # {s} /\ todo' = todo \ {s} /\ failed' = (failed \/ ~ok) /\ play' = p /\ pc' = pc
         \/ todo = {s} /\ (failed \/ ~ok) /\ Ended
         \/ todo = {s} /\ ~failed /\ ok /\ pc' = Following[pc] /\ todo' = Shard /\ play' = p /\ failed' = failed
BY DEF Done

LEMMA DoneTyped ==
  ASSUME LockTyped, NEW s \in todo, NEW ok \in BOOLEAN, NEW p \in Play, Done(s, ok, p),
         pc \in {"health", "marker", "start", "wait"}
  PROVE  LockTyped'
<1>1. CASE todo # {s} /\ todo' = todo \ {s} /\ failed' = (failed \/ ~ok) /\ play' = p /\ pc' = pc
  <2>1. failed' \in BOOLEAN
    BY <1>1 DEF LockTyped
  <2> QED
    BY <1>1, <2>1, ConstantFacts DEF LockTyped
<1>2. CASE Ended
  BY <1>2, ConstantFacts DEF LockTyped, Ended
<1>3. CASE pc' = Following[pc] /\ todo' = Shard /\ play' = p /\ failed' = failed
  BY <1>3, ConstantFacts, FollowingValues DEF LockTyped
<1> QED
  BY <1>1, <1>2, <1>3, DoneCases

(* What the play knows after each task.                                      *)
LEMMA KnowledgeTyped ==
  ASSUME SourceTyped, LockTyped, pc # "idle", NEW s \in Shard
  PROVE  /\ [play EXCEPT !.due[s] = held[play.pick[s]] \cup queued[play.pick[s]]] \in Play
         /\ [play EXCEPT !.marker[s] = now,
                          !.due = [x \in Shard |-> @[x] \cup held[play.pick[x]]]] \in Play
<1>1. play \in Play /\ play.pick \in Pick /\ play.due \in [Shard -> SUBSET Time]
      /\ play.marker \in [Shard -> 0 .. MaxTime]
  BY DEF LockTyped, Play
<1>2. \A x \in Shard : held[play.pick[x]] \in SUBSET Time /\ queued[play.pick[x]] \in SUBSET Time
  BY <1>1, ConstantFacts DEF SourceTyped
<1>3. [play.due EXCEPT ![s] = held[play.pick[s]] \cup queued[play.pick[s]]] \in [Shard -> SUBSET Time]
  BY <1>1, <1>2
<1>4. [x \in Shard |-> play.due[x] \cup held[play.pick[x]]] \in [Shard -> SUBSET Time]
  BY <1>1, <1>2
<1>5. [play.marker EXCEPT ![s] = now] \in [Shard -> 0 .. MaxTime]
  BY <1>1 DEF SourceTyped
<1> QED
  BY <1>1, <1>3, <1>4, <1>5 DEF Play

LEMMA SourceSame == SourceTyped /\ UNCHANGED source => SourceTyped'
BY DEF source, SourceTyped

LEMMA StoreSame == StoreTyped /\ UNCHANGED store => StoreTyped'
BY DEF store, StoreTyped

LEMMA LockSame == LockTyped /\ UNCHANGED lockstep => LockTyped'
BY DEF lockstep, LockTyped

LEMMA EndedTyped == Ended => LockTyped'
BY ConstantFacts DEF Ended, LockTyped

LEMMA TypeInductive ==
  ASSUME TypeOK, [Next]_vars
  PROVE  TypeOK'
<1>0. SourceTyped /\ StoreTyped /\ LockTyped /\ plays \in 0 .. MaxPlay
  BY TypeParts
<1>a. SourceTyped' /\ StoreTyped' /\ LockTyped' /\ plays' \in 0 .. MaxPlay => TypeOK'
  BY DEF TypeOK, SourceTyped, StoreTyped, LockTyped
<1>1. CASE Insert
  <2>1. StoreTyped' /\ LockTyped' /\ plays' \in 0 .. MaxPlay
    BY <1>0, <1>1, StoreSame, LockSame DEF Insert
  <2>2. now + 1 \in Time /\ now' \in 0 .. MaxTime
    BY <1>0, <1>1, ConstantFacts DEF Insert, SourceTyped, Time
  <2>3. SourceTyped'
    BY <1>0, <1>1, <2>2 DEF Insert, SourceTyped
  <2> QED
    BY <1>a, <2>1, <2>3
<1>2. ASSUME NEW h \in Host, Enqueue(h) \/ Fetch(h)
      PROVE  TypeOK'
  <2>1. StoreTyped' /\ LockTyped' /\ plays' \in 0 .. MaxPlay
    BY <1>0, <1>2, StoreSame, LockSame DEF Enqueue, Fetch
  <2>2. Rows(h[1]) \in SUBSET Time
    BY <1>0 DEF Rows, Hosts, SourceTyped
  <2>3. SourceTyped'
    BY <1>0, <1>2, <2>2 DEF Enqueue, Fetch, SourceTyped
  <2> QED
    BY <1>a, <2>1, <2>3
<1>3. CASE PlayBegin
  <2>1. SourceTyped' /\ StoreTyped'
    BY <1>0, <1>3, SourceSame, StoreSame DEF PlayBegin
  <2>2. plays' \in 0 .. MaxPlay
    BY <1>0, <1>3, ConstantFacts DEF PlayBegin
  <2>3. PICK b \in Batch, m \in {"file", "table"}, pick \in Pick :
          play' = [batch |-> b, mode |-> m, pick |-> pick,
                   marker |-> [s \in Shard |-> 0], due |-> [s \in Shard |-> {}]]
    BY <1>3 DEF PlayBegin
  <2>4. play' \in Play
    <3>1. [s \in Shard |-> 0] \in [Shard -> 0 .. MaxTime]
      BY ConstantFacts
    <3> QED
      BY <2>3, <3>1 DEF Play
  <2>5. LockTyped'
    BY <1>0, <1>3, <2>4, ConstantFacts DEF PlayBegin, LockTyped
  <2> QED
    BY <1>a, <2>1, <2>2, <2>5
<1>4. ASSUME NEW s \in Shard, CheckHealth(s) \/ Mark(s) \/ Start(s) \/ Await(s)
      PROVE  TypeOK'
  <2>1. SourceTyped' /\ plays' \in 0 .. MaxPlay
    BY <1>0, <1>4, SourceSame DEF CheckHealth, Mark, Start, Await, source
  <2>2. s \in todo /\ pc \in {"health", "marker", "start", "wait"} /\ play \in Play
    BY <1>0, <1>4 DEF CheckHealth, Mark, Start, Await, Turn, LockTyped
  <2>3. LockTyped'
    BY <1>0, <1>4, <2>2, DoneTyped, KnowledgeTyped DEF CheckHealth, Mark, Start, Await
  <2>4. StoreTyped'
    <3>1. CASE CheckHealth(s) \/ Await(s)
      BY <1>0, <3>1, StoreSame DEF CheckHealth, Await
    <3>2. CASE Mark(s)
      <4>1. [batch |-> play.batch, shard |-> s, ts |-> now] \in [batch : Batch, shard : Shard, ts : 0 .. MaxTime]
        BY <1>0, <2>2 DEF SourceTyped, Play
      <4> QED
        BY <1>0, <3>2, <4>1 DEF Mark, StoreTyped
    <3>3. CASE Start(s)
      <4>1. Target(s) \in Path /\ held[Target(s)[2]] \in SUBSET Time
        BY <1>0, <2>2, TargetTyped, ConstantFacts DEF SourceTyped, LockTyped
      <4> HIDE DEF Target
      <4> QED
        BY <1>0, <3>3, <4>1 DEF Start, StoreTyped
    <3> QED
      BY <1>4, <3>1, <3>2, <3>3
  <2> QED
    BY <1>a, <2>1, <2>3, <2>4
<1>5. CASE WriteNfs \/ WriteControl \/ Kill
  <2>1. SourceTyped' /\ StoreTyped' /\ plays' \in 0 .. MaxPlay
    BY <1>0, <1>5, SourceSame, StoreSame DEF WriteNfs, WriteControl, Kill
  <2>2. LockTyped'
    BY <1>0, <1>5, EndedTyped DEF WriteNfs, WriteControl, Kill, LockTyped
  <2> QED
    BY <1>a, <2>1, <2>2
<1>6. CASE \/ \E p \in Path : Complete(p) \/ ServerFails(p)
           \/ \E h \in Host : ServerRestarts(h)
  <2>1. SourceTyped' /\ LockTyped' /\ plays' \in 0 .. MaxPlay
    BY <1>0, <1>6, SourceSame, LockSame DEF Complete, ServerFails, ServerRestarts
  <2>2. StoreTyped'
    BY <1>0, <1>6 DEF Complete, ServerFails, ServerRestarts, StoreTyped, Empty
  <2> QED
    BY <1>a, <2>1, <2>2
<1>7. CASE UNCHANGED vars
  BY <1>0, <1>a, <1>7, SourceSame, StoreSame, LockSame DEF vars
<1> QED
  BY <1>1, <1>2, <1>3, <1>4, <1>5, <1>6, <1>7 DEF Next, PlayStep

(* Every variable keeps its type.                                            *)
LEMMA TypeInit ==
  ASSUME Init
  PROVE  TypeOK
<1>1. SourceTyped
  BY ConstantFacts DEF Init, SourceTyped
<1>2. StoreTyped
  BY DEF Init, StoreTyped, Empty
<1>3. LockTyped
  BY ConstantFacts DEF Init, LockTyped
<1>4. plays \in 0 .. MaxPlay
  BY ConstantFacts DEF Init
<1> QED
  BY <1>1, <1>2, <1>3, <1>4, TypeParts

(* Whatever plays, servers and operators do, every variable has its type and *)
(* a play exists exactly while one runs.                                     *)
THEOREM ClusterTypeCorrect == Spec => []TypeOK
<1>1. Init => TypeOK
  BY TypeInit
<1>2. TypeOK /\ [Next]_vars => TypeOK'
  BY TypeInductive
<1> QED
  BY <1>1, <1>2, PTL DEF Spec
-----------------------------------------------------------------------------
(* The inductive invariant.  A backup covers what a play knew of its host    *)
(* and the rows of its shard up to a time.                                   *)
Whole(p) == disk[p].state = "whole"

Covered(s, p, due, until) ==
  due \subseteq disk[p].rows /\ {t \in quorum[s] : t <= until} \subseteq disk[p].rows

(* The servers' memory does not contradict the disk.                         *)
DiskFollows ==
  \A p \in Path : /\ stat[p] = "running" => disk[p].state = "partial"
                  /\ stat[p] = "created" => Whole(p)

(* What all replicas took at once they all hold.                             *)
Replicated ==
  \A s \in Shard : /\ \A t \in quorum[s] : t <= now
                   /\ \A h \in Hosts(s) : quorum[s] \subseteq held[h]

(* How far a shard is in the running play.                                   *)
Marked(s)  == (pc = "marker" /\ s \notin todo) \/ pc \in {"start", "wait", "nfs", "control"}
Checked(s) == (pc \in {"health", "marker"} /\ ~failed) \/ (pc = "start" /\ s \in todo)
Begun(s)   == ~failed /\ (pc = "wait" \/ (pc = "start" /\ s \notin todo))
Backed(s)  == (pc = "wait" /\ s \notin todo /\ ~failed) \/ pc \in {"nfs", "control"}

Record(s) == [batch |-> play.batch, shard |-> s, ts |-> play.marker[s]]

PlayCovered(s) == Covered(s, Target(s), play.due[s], play.marker[s])

PlayInv ==
  pc # "idle" => \A s \in Shard :
    /\ play.marker[s] <= now
    /\ Marked(s) /\ play.mode = "table" => Record(s) \in checkpoint
    /\ Checked(s) => play.due[s] \subseteq held[play.pick[s]]
    /\ Begun(s) /\ stat[Target(s)] \in {"running", "created"} => PlayCovered(s)
    /\ Backed(s) => Whole(Target(s)) /\ PlayCovered(s)

ManifestsKept ==
  /\ DOMAIN nfs = Batch /\ DOMAIN control = Batch
  /\ \A b \in Batch : \A m \in Stored(b) :
       /\ m.pick \in Pick /\ m.safe_ts \in Nat /\ m.safe_ts <= now
       /\ \A s \in Shard : /\ Whole(<<b, m.pick[s]>>)
                           /\ Covered(s, <<b, m.pick[s]>>, m.due[s], m.safe_ts)

ClusterInv == DiskFollows /\ Replicated /\ PlayInv /\ ManifestsKept

(* The manifests that are there stay covered when nothing is taken from a    *)
(* whole backup and new rows come after now.                                 *)
LEMMA ManifestsStay ==
  ASSUME TypeOK, ManifestsKept, UNCHANGED <<nfs, control>>, now' \in Nat, now <= now',
         \A p \in Path : Whole(p) => disk'[p] = disk[p],
         \A s \in Shard : \A t \in quorum'[s] : t \in quorum[s] \/ (t \in Nat /\ now < t)
  PROVE  ManifestsKept'
<1> SUFFICES ASSUME NEW b \in Batch, NEW m \in Stored(b)'
             PROVE  /\ m.pick \in Pick /\ m.safe_ts \in Nat /\ m.safe_ts <= now'
                    /\ \A s \in Shard : /\ Whole(<<b, m.pick[s]>>)'
                                        /\ Covered(s, <<b, m.pick[s]>>, m.due[s], m.safe_ts)'
  BY DEF ManifestsKept
<1>1. m \in Stored(b)
  BY DEF Stored
<1>2. /\ m.pick \in Pick /\ m.safe_ts \in Nat /\ m.safe_ts <= now /\ now \in Nat
      /\ \A s \in Shard : /\ Whole(<<b, m.pick[s]>>)
                          /\ Covered(s, <<b, m.pick[s]>>, m.due[s], m.safe_ts)
  BY <1>1 DEF ManifestsKept, TypeOK
<1>3. ASSUME NEW s \in Shard
      PROVE  /\ Whole(<<b, m.pick[s]>>)'
             /\ Covered(s, <<b, m.pick[s]>>, m.due[s], m.safe_ts)'
  <2>1. <<b, m.pick[s]>> \in Path
    BY <1>2, ConstantFacts DEF Path
  <2>2. disk'[<<b, m.pick[s]>>] = disk[<<b, m.pick[s]>>]
    BY <1>2, <2>1
  <2>3. \A t \in quorum'[s] : t <= m.safe_ts => t \in quorum[s]
    BY <1>2
  <2> QED
    BY <1>2, <2>2, <2>3 DEF Whole, Covered
<1> QED
  BY <1>2, <1>3

LEMMA ManifestsSame ==
  ASSUME TypeOK, ManifestsKept, UNCHANGED <<source, nfs, control>>,
         \A p \in Path : Whole(p) => disk'[p] = disk[p]
  PROVE  ManifestsKept'
<1>1. now' = now /\ quorum' = quorum /\ now \in Nat
  BY DEF source, TypeOK
<1>2. now' \in Nat /\ now <= now'
  BY <1>1
<1>3. \A s \in Shard : \A t \in quorum'[s] : t \in quorum[s]
  BY <1>1
<1> QED
  BY <1>2, <1>3, ManifestsStay

(* Rows that come in, reach a queue or another replica.                      *)
LEMMA SourceMoves ==
  ASSUME TypeOK, ClusterInv, UNCHANGED <<store, nfs, control, lockstep>>, Replicated',
         now' \in Nat, now <= now',
         \A h \in Host : held[h] \subseteq held'[h],
         \A s \in Shard : \A t \in quorum'[s] : t \in quorum[s] \/ (t \in Nat /\ now < t)
  PROVE  ClusterInv'
<1>1. DiskFollows'
  BY DEF ClusterInv, DiskFollows, store, Whole
<1>2. ManifestsKept'
  BY ManifestsStay DEF ClusterInv, store
<1>3. PlayInv'
  <2> SUFFICES ASSUME pc # "idle", NEW s \in Shard
               PROVE  /\ play.marker[s] <= now'
                      /\ Marked(s) /\ play.mode = "table" => Record(s) \in checkpoint
                      /\ Checked(s) => play.due[s] \subseteq held'[play.pick[s]]
                      /\ PlayCovered(s) => PlayCovered(s)'
    BY DEF ClusterInv, PlayInv, store, lockstep, Marked, Checked, Begun, Backed, Record, Target, Whole
  <2>1. play.marker[s] \in Nat /\ play.marker[s] <= now /\ now \in Nat /\ play.pick[s] \in Host
    BY ConstantFacts DEF TypeOK, Play, ClusterInv, PlayInv
  <2>2. PlayCovered(s) => PlayCovered(s)'
    <3>1. \A t \in quorum'[s] : t <= play.marker[s] => t \in quorum[s]
      BY <2>1
    <3> QED
      BY <3>1 DEF PlayCovered, Covered, Target, store, lockstep
  <2> QED
    BY <2>1, <2>2 DEF ClusterInv, PlayInv
<1> QED
  BY <1>1, <1>2, <1>3 DEF ClusterInv

(* A BACKUP that ends, fails or is forgotten.                                *)
LEMMA ServersMove ==
  ASSUME TypeOK, ClusterInv, UNCHANGED <<source, checkpoint, nfs, control, lockstep>>, DiskFollows',
         \A p \in Path : Whole(p) => disk'[p] = disk[p],
         \A p \in Path : stat'[p] \in {"running", "created"} =>
           stat[p] \in {"running", "created"} /\ disk'[p].rows = disk[p].rows
  PROVE  ClusterInv'
<1>1. Replicated'
  BY DEF ClusterInv, Replicated, source
<1>2. ManifestsKept'
  BY ManifestsSame DEF ClusterInv
<1>3. PlayInv'
  <2> SUFFICES ASSUME pc # "idle", NEW s \in Shard
               PROVE  /\ Begun(s) /\ stat'[Target(s)] \in {"running", "created"} => PlayCovered(s)'
                      /\ Backed(s) => Whole(Target(s))' /\ PlayCovered(s)'
    BY DEF ClusterInv, PlayInv, source, lockstep, Marked, Checked, Begun, Backed, Record, Target
  <2>1. Target(s) \in Path
    BY TargetTyped, TypeParts
  <2>2. \A p \in Path : Whole(p) => disk'[p] = disk[p]
    OBVIOUS
  <2>3. disk'[Target(s)].rows = disk[Target(s)].rows /\ PlayCovered(s) => PlayCovered(s)'
    BY DEF PlayCovered, Covered, source, lockstep, Target
  <2>4. Backed(s) => Whole(Target(s)) /\ PlayCovered(s)
    BY DEF ClusterInv, PlayInv
  <2>5. Begun(s) /\ stat[Target(s)] \in {"running", "created"} => PlayCovered(s)
    BY DEF ClusterInv, PlayInv
  <2>6. Whole(Target(s)) => Whole(Target(s))'
    BY <2>1, <2>2 DEF Whole, Target, lockstep
  <2> HIDE DEF Target, PlayCovered, Whole
  <2> QED
    BY <2>1, <2>2, <2>3, <2>4, <2>5, <2>6
<1> QED
  BY <1>1, <1>2, <1>3 DEF ClusterInv

(* A play that ends leaves the rest as it is.                                *)
LEMMA PlayEnds ==
  ASSUME TypeOK, ClusterInv, UNCHANGED <<source, store, nfs, control>>, pc' = "idle"
  PROVE  ClusterInv'
<1>1. DiskFollows' /\ Replicated'
  BY DEF ClusterInv, DiskFollows, Replicated, source, store, Whole
<1>2. ManifestsKept'
  BY ManifestsSame DEF ClusterInv, store
<1>3. PlayInv'
  BY DEF PlayInv
<1> QED
  BY <1>1, <1>2, <1>3 DEF ClusterInv

LEMMA HealthStep ==
  ASSUME TypeOK, ClusterInv, NEW s \in Shard, CheckHealth(s)
  PROVE  ClusterInv'
<1> DEFINE h == play.pick[s]
           p == [play EXCEPT !.due[s] = held[h] \cup queued[h]]
           ok == queued[h] = {}
<1>1. /\ pc = "health" /\ s \in todo /\ Done(s, ok, p) /\ UNCHANGED <<source, store, nfs, control>>
      /\ play \in Play
  BY DEF CheckHealth, Turn, TypeOK
<1>2. CASE Ended
  BY <1>1, <1>2, PlayEnds DEF Ended
<1>3. CASE /\ play' = p /\ pc' \in {"health", "marker"}
           /\ pc' = "marker" => todo' = Shard
           /\ ~failed' => ~failed /\ ok
  <2>1. DiskFollows' /\ Replicated'
    BY <1>1 DEF ClusterInv, DiskFollows, Replicated, source, store, Whole
  <2>2. ManifestsKept'
    BY <1>1, ManifestsSame DEF ClusterInv, store
  <2>3. /\ p.pick = play.pick /\ p.marker = play.marker
        /\ \A x \in Shard : p.due[x] = IF x = s THEN held[h] \cup queued[h] ELSE play.due[x]
    BY <1>1 DEF Play
  <2>4. ASSUME NEW x \in Shard, ~failed'
        PROVE  p.due[x] \subseteq held[p.pick[x]]
    <3>1. CASE x = s
      BY <1>3, <2>3, <2>4, <3>1
    <3>2. CASE x # s
      <4>0. ~failed
        BY <1>3, <2>4
      <4>1. pc \in {"health", "marker"}
        BY <1>1
      <4>3. Checked(x)
        BY <4>0, <4>1, Zenon DEF Checked
      <4>2. play.due[x] \subseteq held[play.pick[x]]
        BY <1>1, <4>3 DEF ClusterInv, PlayInv
      <4> QED
        BY <2>3, <3>2, <4>2
    <3> QED
      BY <3>1, <3>2
  <2>5. \A x \in Shard : play.marker[x] <= now
    BY <1>1 DEF ClusterInv, PlayInv
  <2>6. UNCHANGED <<held, now>>
    BY <1>1 DEF source
  <2> HIDE DEF p, h, ok
  <2>7. /\ ~(pc' \in {"start", "wait", "nfs", "control"})
        /\ \A x \in Shard : ~Marked(x)' /\ ~Begun(x)' /\ ~Backed(x)' /\ (Checked(x)' => ~failed')
    BY <1>3 DEF Marked, Begun, Backed, Checked
  <2>8. \A x \in Shard : play'.marker[x] <= now' /\ (~failed' => play'.due[x] \subseteq held'[play'.pick[x]])
    BY <1>3, <2>3, <2>4, <2>5, <2>6
  <2>9. PlayInv'
    BY <2>7, <2>8 DEF PlayInv
  <2> QED
    BY <2>1, <2>2, <2>9 DEF ClusterInv
<1> QED
  BY <1>1, <1>2, <1>3, DoneCases, FollowingValues DEF TypeOK

LEMMA MarkStep ==
  ASSUME TypeOK, ClusterInv, NEW s \in Shard, Mark(s)
  PROVE  ClusterInv'
<1> DEFINE p == [play EXCEPT !.marker[s] = now,
                              !.due = [x \in Shard |-> @[x] \cup held[play.pick[x]]]]
<1>1. /\ pc = "marker" /\ s \in todo /\ Done(s, TRUE, p) /\ UNCHANGED <<source, stat, disk, nfs, control>>
      /\ play \in Play /\ now \in Nat
  <2>1. pc = "marker" /\ s \in todo /\ UNCHANGED <<source, stat, disk, nfs, control>>
    BY DEF Mark, Turn
  <2>2. Done(s, TRUE, p)
    BY Zenon DEF Mark
  <2>3. play \in Play /\ now \in Nat
    BY <2>1, ConstantFacts DEF TypeOK
  <2> QED
    BY <2>1, <2>2, <2>3
<1>2. DiskFollows' /\ Replicated'
  BY <1>1 DEF ClusterInv, DiskFollows, Replicated, source, Whole
<1>3. ManifestsKept'
  BY <1>1, ManifestsSame DEF ClusterInv
<1>4. CASE Ended
  BY <1>2, <1>3, <1>4 DEF Ended, PlayInv, ClusterInv
<1>5. CASE /\ play' = p /\ failed' = failed
           /\ \/ pc' = "marker" /\ todo' = todo \ {s}
              \/ pc' = "start" /\ todo' = Shard /\ todo = {s} /\ ~failed
  <2>1. /\ p.pick = play.pick /\ p.mode = play.mode /\ p.batch = play.batch
        /\ \A x \in Shard : /\ p.marker[x] = IF x = s THEN now ELSE play.marker[x]
                            /\ p.due[x] = play.due[x] \cup held[play.pick[x]]
    BY <1>1 DEF Play
  <2> HIDE DEF p
  <2>2. UNCHANGED <<held, now>>
    BY <1>1 DEF source
  <2> SUFFICES ASSUME NEW x \in Shard
               PROVE  /\ play'.marker[x] <= now'
                      /\ Marked(x)' /\ play'.mode = "table" => Record(x)' \in checkpoint'
                      /\ Checked(x)' => play'.due[x] \subseteq held'[play'.pick[x]]
                      /\ ~Begun(x)' /\ ~Backed(x)'
    BY <1>2, <1>3 DEF PlayInv, ClusterInv
  <2>3. play'.marker[x] <= now'
    BY <1>1, <1>5, <2>1, <2>2 DEF ClusterInv, PlayInv
  <2>4. ASSUME Marked(x)', play'.mode = "table"
        PROVE  Record(x)' \in checkpoint'
    <3>1. checkpoint' = checkpoint \cup {[batch |-> play.batch, shard |-> s, ts |-> now]}
      BY <1>5, <2>1, <2>4 DEF Mark
    <3>2. CASE x = s
      BY <1>5, <2>1, <3>1, <3>2 DEF Record
    <3>3. CASE x # s
      <4>1. x \notin todo
        BY <1>5, <2>4, <3>3 DEF Marked
      <4>2. Record(x) \in checkpoint
        BY <1>1, <1>5, <2>1, <2>4, <4>1 DEF ClusterInv, PlayInv, Marked
      <4>3. Record(x)' = Record(x)
        BY <1>5, <2>1, <3>3 DEF Record
      <4> QED
        BY <3>1, <4>2, <4>3
    <3> QED
      BY <3>2, <3>3
  <2>5. Checked(x)' => play'.due[x] \subseteq held'[play'.pick[x]]
    <3>1. Checked(x)' => Checked(x)
      BY <1>1, <1>5 DEF Checked
    <3>2. Checked(x) => play.due[x] \subseteq held[play.pick[x]]
      BY <1>1 DEF ClusterInv, PlayInv
    <3> QED
      BY <1>5, <2>1, <2>2, <3>1, <3>2
  <2>6. ~Begun(x)' /\ ~Backed(x)'
    BY <1>5 DEF Begun, Backed
  <2> QED
    BY <2>3, <2>4, <2>5, <2>6
<1> QED
  BY <1>1, <1>4, <1>5, DoneCases, FollowingValues DEF TypeOK

LEMMA StartStep ==
  ASSUME TypeOK, ClusterInv, NEW s \in Shard, Start(s)
  PROVE  ClusterInv'
<1> DEFINE p == Target(s)
<1>1. /\ pc = "start" /\ s \in todo /\ Done(s, stat[p] # "running", play)
      /\ UNCHANGED <<source, checkpoint, nfs, control>> /\ play \in Play
  BY DEF Start, Turn, TypeOK
<1>2. p \in Path /\ p[2] = play.pick[s] /\ play.pick[s] \in Host
      /\ \A x \in Shard : x # s => Target(x) \in Path /\ Target(x) # p
  BY <1>1, TargetTyped, TypeParts
<1>3. /\ \A q \in Path : q # p => disk'[q] = disk[q] /\ stat'[q] = stat[q]
      /\ \/ stat[p] = "running" /\ UNCHANGED <<stat, disk>>
         \/ /\ stat'[p] = "running" /\ disk'[p] = [state |-> "partial", rows |-> held[p[2]]]
            /\ disk[p].state = "none"
         \/ stat'[p] = "failed" /\ disk' = disk
  <2> HIDE DEF p
  <2> QED
    BY <1>2 DEF Start, TypeOK, p
<1> HIDE DEF p
<1>4. \A q \in Path : Whole(q) => disk'[q] = disk[q]
  BY <1>2, <1>3 DEF Whole
<1>5. DiskFollows'
  BY <1>2, <1>3 DEF ClusterInv, DiskFollows, Whole
<1>6. Replicated' /\ ManifestsKept'
  BY <1>1, <1>4, ManifestsSame DEF ClusterInv, Replicated, source
<1>7. CASE Ended
  BY <1>5, <1>6, <1>7 DEF Ended, PlayInv, ClusterInv
<1>8. CASE /\ play' = play /\ (~failed' => ~failed /\ stat[p] # "running")
           /\ \/ pc' = "start" /\ todo' = todo \ {s}
              \/ pc' = "wait" /\ todo' = Shard /\ todo = {s}
  <2>1. UNCHANGED <<held, now, quorum>>
    BY <1>1 DEF source
  <2> SUFFICES ASSUME NEW x \in Shard
               PROVE  /\ play.marker[x] <= now
                      /\ play.mode = "table" => Record(x) \in checkpoint
                      /\ Checked(x)' => play.due[x] \subseteq held[play.pick[x]]
                      /\ Begun(x)' /\ stat'[Target(x)] \in {"running", "created"} => PlayCovered(x)'
                      /\ ~Backed(x)'
    BY <1>1, <1>5, <1>6, <1>8, <2>1 DEF PlayInv, ClusterInv, Record, Target
  <2>2. play.marker[x] <= now /\ (play.mode = "table" => Record(x) \in checkpoint)
    BY <1>1 DEF ClusterInv, PlayInv, Marked
  <2>3. ASSUME Checked(x)'
        PROVE  play.due[x] \subseteq held[play.pick[x]]
    <3>1. Checked(x)
      BY <1>1, <1>8, <2>3 DEF Checked
    <3> QED
      BY <1>1, <3>1 DEF ClusterInv, PlayInv
  <2>4. ASSUME Begun(x)', stat'[Target(x)] \in {"running", "created"}
        PROVE  PlayCovered(x)'
    <3>1. ~failed /\ stat[p] # "running"
      BY <1>8, <2>4 DEF Begun
    <3>2. CASE x = s
      <4>1. disk'[p] = [state |-> "partial", rows |-> held[play.pick[s]]]
        BY <1>2, <1>3, <2>4, <3>1, <3>2 DEF p
      <4>2. play.due[s] \subseteq held[play.pick[s]]
        BY <1>1 DEF ClusterInv, PlayInv, Checked
      <4>3. quorum[s] \subseteq held[play.pick[s]]
        <5>1. play.pick[s] \in Hosts(s)
          BY <1>1 DEF Play, Pick
        <5> QED
          BY <5>1 DEF ClusterInv, Replicated
      <4>4. disk'[Target(s)'].rows = held[play.pick[s]]
        BY <1>8, <4>1 DEF p, Target
      <4> QED
        BY <1>8, <2>1, <3>2, <4>2, <4>3, <4>4 DEF PlayCovered, Covered
    <3>3. CASE x # s
      <4>1. x \notin todo
        BY <1>8, <2>4, <3>3 DEF Begun
      <4>2. disk'[Target(x)] = disk[Target(x)] /\ stat'[Target(x)] = stat[Target(x)]
        BY <1>2, <1>3, <3>3
      <4>3. PlayCovered(x)
        BY <1>1, <2>4, <3>1, <4>1, <4>2 DEF ClusterInv, PlayInv, Begun
      <4> QED
        BY <1>8, <2>1, <4>2, <4>3 DEF PlayCovered, Covered, Target
    <3> QED
      BY <3>2, <3>3
  <2>5. ~Backed(x)'
    BY <1>8 DEF Backed
  <2> QED
    BY <2>2, <2>3, <2>4, <2>5
<1> QED
  BY <1>1, <1>7, <1>8, DoneCases, FollowingValues DEF TypeOK

LEMMA AwaitStep ==
  ASSUME TypeOK, ClusterInv, NEW s \in Shard, Await(s)
  PROVE  ClusterInv'
<1> DEFINE ok == stat[Target(s)] = "created"
<1>1. /\ pc = "wait" /\ s \in todo /\ Done(s, ok, play)
      /\ UNCHANGED <<source, store, nfs, control>> /\ play \in Play
  BY DEF Await, Turn, TypeOK
<1>2. Target(s) \in Path
  BY <1>1, TargetTyped, TypeParts
<1>3. DiskFollows' /\ Replicated' /\ ManifestsKept'
  BY <1>1, ManifestsSame DEF ClusterInv, DiskFollows, Replicated, source, store, Whole
<1>4. CASE Ended
  BY <1>3, <1>4 DEF Ended, PlayInv, ClusterInv
<1>5. CASE /\ play' = play /\ (~failed' => ~failed /\ ok)
           /\ \/ pc' = "wait" /\ todo' = todo \ {s}
              \/ pc' = "nfs" /\ todo = {s} /\ ~failed /\ ok
  <2>1. \A x \in Shard : PlayCovered(x)' = PlayCovered(x) /\ Target(x)' = Target(x)
    BY <1>1, <1>5 DEF PlayCovered, Covered, Target, source, store
  <2> SUFFICES ASSUME NEW x \in Shard
               PROVE  /\ play.marker[x] <= now
                      /\ play.mode = "table" => Record(x) \in checkpoint
                      /\ ~Checked(x)'
                      /\ Begun(x)' /\ stat[Target(x)] \in {"running", "created"} => PlayCovered(x)
                      /\ Backed(x)' => Whole(Target(x)) /\ PlayCovered(x)
    BY <1>1, <1>3, <1>5, <2>1 DEF PlayInv, ClusterInv, Record, source, store, Whole
  <2>2. play.marker[x] <= now /\ (play.mode = "table" => Record(x) \in checkpoint)
    BY <1>1 DEF ClusterInv, PlayInv, Marked
  <2>3. ~Checked(x)' /\ (Begun(x)' => Begun(x))
    BY <1>1, <1>5 DEF Checked, Begun
  <2>4. Begun(x) /\ stat[Target(x)] \in {"running", "created"} => PlayCovered(x)
    BY <1>1 DEF ClusterInv, PlayInv
  <2>5. ASSUME Backed(x)'
        PROVE  Whole(Target(x)) /\ PlayCovered(x)
    <3>1. ~failed
      BY <1>5, <2>5 DEF Backed
    <3>2. CASE x = s
      <4>1. ok
        BY <1>5, <2>5, <3>2 DEF Backed
      <4>2. Whole(Target(s))
        BY <1>2, <4>1 DEF ClusterInv, DiskFollows
      <4> QED
        BY <1>1, <2>4, <3>1, <3>2, <4>1, <4>2 DEF Begun
    <3>3. CASE x # s
      <4>1. Backed(x)
        BY <1>1, <1>5, <2>5, <3>1, <3>3 DEF Backed
      <4> QED
        BY <1>1, <4>1 DEF ClusterInv, PlayInv
    <3> QED
      BY <3>2, <3>3
  <2> HIDE DEF ok
  <2> QED
    BY <2>2, <2>3, <2>4, <2>5
<1> QED
  BY <1>1, <1>4, <1>5, DoneCases, FollowingValues DEF TypeOK

(* The manifest's safe_ts is not later than the marker of any shard.         *)
LEMMA LeastIsLeast ==
  ASSUME NEW S \in SUBSET Nat, S # {}
  PROVE  Min(S) \in S /\ \A x \in S : Min(S) <= x
<1> DEFINE R == OpToRel(<, Nat)
<1>1. IsWellFoundedOn(R, Nat)
  BY NatLessThanWellFounded
<1>2. PICK n \in S : \A m \in S : <<m, n>> \notin R
  BY <1>1, WFMin, Zenon
<1>3. \A m \in S : <<m, n>> \in R <=> m < n
  BY DEF OpToRel
<1> HIDE DEF R
<1>4. \A m \in S : ~(m < n)
  BY <1>2, <1>3
<1>5. \A m \in S : n <= m
  BY <1>4
<1> QED
  BY <1>5 DEF Min

LEMMA ManifestHolds ==
  ASSUME TypeOK, ClusterInv, pc \in {"nfs", "control"}
  PROVE  /\ play.batch \in Batch
         /\ Manifest.pick \in Pick /\ Manifest.safe_ts \in Nat /\ Manifest.safe_ts <= now
         /\ \A s \in Shard :
              /\ Whole(<<play.batch, Manifest.pick[s]>>)
              /\ Covered(s, <<play.batch, Manifest.pick[s]>>, Manifest.due[s], Manifest.safe_ts)
<1>1. /\ play \in Play /\ play.batch \in Batch /\ play.pick \in Pick
      /\ play.marker \in [Shard -> 0 .. MaxTime] /\ now \in Nat
  BY ConstantFacts DEF TypeOK, Play
<1>2. \A s \in Shard : /\ play.marker[s] <= now /\ Whole(Target(s)) /\ PlayCovered(s)
                       /\ play.mode = "table" => Record(s) \in checkpoint
  BY DEF ClusterInv, PlayInv, Backed, Marked
<1>3. Records \in SUBSET Nat /\ \A s \in Shard : play.marker[s] \in Records
  <2>1. CASE play.mode = "table"
    <3>1. checkpoint \subseteq [batch : Batch, shard : Shard, ts : 0 .. MaxTime]
      BY DEF TypeOK
    <3>2. \A s \in Shard : Record(s).batch = play.batch /\ Record(s).ts = play.marker[s]
      BY DEF Record
    <3> HIDE DEF Record
    <3> QED
      BY <1>2, <2>1, <3>1, <3>2, ConstantFacts DEF Records
  <2>2. CASE play.mode # "table"
    BY <1>1, <2>2, ConstantFacts DEF Records
  <2> QED
    BY <2>1, <2>2
<1>4. Min(Records) \in Nat /\ \A s \in Shard : Min(Records) <= play.marker[s]
  BY <1>3, ConstantFacts, LeastIsLeast
<1>5. Manifest.pick = play.pick /\ Manifest.safe_ts = Min(Records) /\ Manifest.due = play.due
  BY DEF Manifest
<1>6. Min(Records) <= now
  BY <1>1, <1>2, <1>4, ConstantFacts
<1>7. ASSUME NEW s \in Shard
      PROVE  Covered(s, Target(s), play.due[s], Min(Records))
  <2>1. play.marker[s] \in Nat /\ \A t \in quorum[s] : t \in Nat
    BY <1>1, ConstantFacts DEF TypeOK, Time
  <2>2. \A t \in quorum[s] : t <= Min(Records) => t <= play.marker[s]
    BY <1>4, <2>1
  <2> QED
    BY <1>2, <2>2 DEF PlayCovered, Covered
<1> HIDE DEF Manifest, Records
<1> QED
  BY <1>1, <1>2, <1>4, <1>5, <1>6, <1>7 DEF Target

LEMMA ManifestStep ==
  ASSUME TypeOK, ClusterInv, WriteNfs \/ WriteControl
  PROVE  ClusterInv'
<1>1. /\ pc \in {"nfs", "control"} /\ UNCHANGED <<source, store>>
      /\ \/ pc = "nfs" /\ pc' = "control" /\ UNCHANGED <<todo, failed, play>>
         \/ pc' = "idle"
  BY DEF WriteNfs, WriteControl, Ended
<1>2. DiskFollows' /\ Replicated'
  BY <1>1 DEF ClusterInv, DiskFollows, Replicated, source, store, Whole
<1>3. PlayInv'
  BY <1>1 DEF ClusterInv, PlayInv, source, store, Whole, Marked, Checked, Begun, Backed, Record, Target, PlayCovered, Covered
<1>4. ManifestsKept'
  <2>1. /\ DOMAIN nfs' = Batch /\ DOMAIN control' = Batch
        /\ \A b \in Batch : \A m \in Stored(b)' : m \in Stored(b) \/ (b = play.batch /\ m = Manifest)
    <3> HIDE DEF Manifest
    <3> QED
      BY DEF WriteNfs, WriteControl, Stored, ClusterInv, ManifestsKept
  <2> SUFFICES ASSUME NEW b \in Batch, NEW m \in Stored(b)'
               PROVE  /\ m.pick \in Pick /\ m.safe_ts \in Nat /\ m.safe_ts <= now
                      /\ \A s \in Shard : /\ Whole(<<b, m.pick[s]>>)
                                          /\ Covered(s, <<b, m.pick[s]>>, m.due[s], m.safe_ts)
    BY <1>1, <2>1 DEF ManifestsKept, Whole, Covered, source, store
  <2>2. CASE m \in Stored(b)
    BY <2>2 DEF ClusterInv, ManifestsKept
  <2>3. CASE b = play.batch /\ m = Manifest
    BY <1>1, <2>3, ManifestHolds
  <2> QED
    BY <2>1, <2>2, <2>3
<1> QED
  BY <1>2, <1>3, <1>4 DEF ClusterInv

LEMMA PlayBeginStep ==
  ASSUME TypeOK, ClusterInv, PlayBegin
  PROVE  ClusterInv'
<1>1. pc' = "health" /\ UNCHANGED <<source, store, nfs, control>> /\ now \in Nat
  BY ConstantFacts DEF PlayBegin, TypeOK
<1>2. DiskFollows' /\ Replicated' /\ ManifestsKept'
  BY <1>1, ManifestsSame DEF ClusterInv, DiskFollows, Replicated, source, store, Whole
<1>3. \A s \in Shard : play'.marker[s] = 0 /\ play'.due[s] = {}
  BY DEF PlayBegin
<1>4. PlayInv'
  BY <1>1, <1>3 DEF PlayInv, Marked, Begun, Backed, source
<1> QED
  BY <1>2, <1>4 DEF ClusterInv

LEMMA ClusterInductive ==
  ASSUME TypeOK, ClusterInv, [Next]_vars
  PROVE  ClusterInv'
<1>0. now \in Nat
  BY ConstantFacts DEF TypeOK
<1>1. CASE Insert
  <2>1. now' = now + 1 /\ UNCHANGED <<queued, store, nfs, control, lockstep>>
    BY <1>1 DEF Insert
  <2>2. PICK s \in Shard : \E R \in SUBSET Hosts(s) :
          /\ held' = [h \in Host |-> IF h \in R THEN held[h] \cup {now + 1} ELSE held[h]]
          /\ quorum' = [quorum EXCEPT ![s] = IF R = Hosts(s) THEN @ \cup {now + 1} ELSE @]
    BY <1>1 DEF Insert
  <2>3. PICK R \in SUBSET Hosts(s) :
          /\ held' = [h \in Host |-> IF h \in R THEN held[h] \cup {now + 1} ELSE held[h]]
          /\ quorum' = [quorum EXCEPT ![s] = IF R = Hosts(s) THEN @ \cup {now + 1} ELSE @]
    BY <2>2
  <2>4. \A h \in Host : held[h] \subseteq held'[h]
    BY <2>3
  <2>5. \A x \in Shard : \A t \in quorum'[x] : t \in quorum[x] \/ (x = s /\ R = Hosts(s) /\ t = now + 1)
    BY <2>3 DEF TypeOK
  <2>6. Replicated'
    <3> SUFFICES ASSUME NEW x \in Shard
                 PROVE  /\ \A t \in quorum'[x] : t <= now'
                        /\ \A h \in Hosts(x) : quorum'[x] \subseteq held'[h]
      BY DEF Replicated
    <3>1. \A t \in quorum[x] : t \in Nat /\ t <= now
      BY DEF ClusterInv, Replicated, TypeOK, Time
    <3>2. \A h \in Hosts(x) : h \in Host /\ quorum[x] \subseteq held[h]
      BY DEF ClusterInv, Replicated, Hosts
    <3>3. \A t \in quorum'[x] : t <= now'
      BY <1>0, <2>1, <2>5, <3>1
    <3>4. R = Hosts(s) => \A h \in Hosts(s) : now + 1 \in held'[h]
      BY <2>3 DEF Hosts
    <3>5. \A h \in Hosts(x) : quorum'[x] \subseteq held'[h]
      BY <2>4, <2>5, <3>2, <3>4
    <3> QED
      BY <3>3, <3>5
  <2>7. now' \in Nat /\ now < now + 1 /\ now + 1 \in Nat /\ now <= now'
    BY <1>0, <2>1
  <2>8. \A x \in Shard : \A t \in quorum'[x] : t \in quorum[x] \/ (t \in Nat /\ now < t)
    BY <2>5, <2>7
  <2> QED
    BY <2>1, <2>4, <2>6, <2>7, <2>8, SourceMoves
<1>2. ASSUME NEW h \in Host, Enqueue(h) \/ Fetch(h)
      PROVE  ClusterInv'
  <2>1. UNCHANGED <<now, quorum, store, nfs, control, lockstep>>
    BY <1>2 DEF Enqueue, Fetch
  <2>2. \A g \in Host : held[g] \subseteq held'[g]
    BY <1>2 DEF Enqueue, Fetch, TypeOK
  <2>3. Replicated'
    BY <2>1, <2>2 DEF ClusterInv, Replicated, Hosts
  <2>4. now' \in Nat /\ now <= now'
    BY <1>0, <2>1
  <2>5. \A x \in Shard : \A t \in quorum'[x] : t \in quorum[x]
    BY <2>1
  <2> QED
    BY <2>1, <2>2, <2>3, <2>4, <2>5, SourceMoves
<1>3. CASE PlayStep
  BY <1>3, HealthStep, MarkStep, StartStep, AwaitStep, ManifestStep DEF PlayStep
<1>4. CASE Kill
  BY <1>4, PlayEnds DEF Kill, Ended
<1>5. ASSUME NEW p \in Path, Complete(p) \/ ServerFails(p)
      PROVE  ClusterInv'
  <2>1. UNCHANGED <<source, checkpoint, nfs, control, lockstep>>
    BY <1>5 DEF Complete, ServerFails
  <2>2. stat[p] = "running" /\ disk[p].state = "partial"
    BY <1>5 DEF Complete, ServerFails, ClusterInv, DiskFollows
  <2>3. /\ \A q \in Path : q # p => disk'[q] = disk[q] /\ stat'[q] = stat[q]
        /\ \/ stat'[p] = "created" /\ disk'[p].state = "whole" /\ disk'[p].rows = disk[p].rows
           \/ stat'[p] = "failed"
    BY <1>5 DEF Complete, ServerFails, TypeOK
  <2>4. DiskFollows'
    BY <2>3 DEF ClusterInv, DiskFollows, Whole
  <2>5. \A q \in Path : Whole(q) => disk'[q] = disk[q]
    BY <2>2, <2>3 DEF Whole
  <2>6. \A q \in Path : stat'[q] \in {"running", "created"} =>
          stat[q] \in {"running", "created"} /\ disk'[q].rows = disk[q].rows
    BY <2>2, <2>3
  <2> QED
    BY <2>1, <2>4, <2>5, <2>6, ServersMove
<1>6. ASSUME NEW h \in Host, ServerRestarts(h)
      PROVE  ClusterInv'
  <2>1. UNCHANGED <<source, disk, checkpoint, nfs, control, lockstep>>
    BY <1>6 DEF ServerRestarts
  <2>2. \A q \in Path : stat'[q] \in {"running", "created"} => stat'[q] = stat[q]
    BY <1>6 DEF ServerRestarts
  <2>3. DiskFollows'
    BY <2>1, <2>2 DEF ClusterInv, DiskFollows, Whole
  <2>4. /\ \A q \in Path : Whole(q) => disk'[q] = disk[q]
        /\ \A q \in Path : stat'[q] \in {"running", "created"} =>
             stat[q] \in {"running", "created"} /\ disk'[q].rows = disk[q].rows
    BY <2>1, <2>2
  <2> QED
    BY <2>1, <2>3, <2>4, ServersMove
<1>7. CASE UNCHANGED vars
  <2>1. UNCHANGED <<source, checkpoint, nfs, control, lockstep, stat, disk>>
    BY <1>7 DEF vars, store
  <2>2. DiskFollows'
    BY <2>1 DEF ClusterInv, DiskFollows, Whole
  <2> QED
    BY <2>1, <2>2, ServersMove
<1> QED
  BY <1>1, <1>2, <1>3, <1>4, <1>5, <1>6, <1>7, PlayBeginStep DEF Next

LEMMA ClusterInit ==
  ASSUME Init
  PROVE  TypeOK /\ ClusterInv
<1>1. DiskFollows
  BY DEF Init, DiskFollows, Empty
<1>2. Replicated /\ PlayInv /\ ManifestsKept
  BY DEF Init, Replicated, PlayInv, ManifestsKept, Stored
<1> QED
  BY <1>1, <1>2, TypeInit DEF ClusterInv

LEMMA ClusterInvariant == Spec => [](TypeOK /\ ClusterInv)
<1>1. Init => ClusterInv
  BY ClusterInit
<1>2. TypeOK /\ ClusterInv /\ [Next]_vars => ClusterInv'
  BY ClusterInductive
<1> QED
  BY <1>1, <1>2, ClusterTypeCorrect, PTL DEF Spec

(* Of every manifest the backups it names are whole, whatever plays were     *)
(* killed, timed out or ran the batch again.                                 *)
THEOREM ManifestsNameWholeBackups == Spec => []ManifestWhole
<1>1. TypeOK /\ ClusterInv => ManifestWhole
  BY DEF ClusterInv, ManifestsKept, ManifestWhole, Whole
<1> QED
  BY <1>1, ClusterInvariant, PTL

(* What the chosen replicas knew of at their health check or held at the     *)
(* last marker is in the backups a manifest names.                           *)
THEOREM BackupsCoverMarkers == Spec => []MarkersCovered
<1>1. TypeOK /\ ClusterInv => MarkersCovered
  BY DEF ClusterInv, ManifestsKept, MarkersCovered, Covered
<1> QED
  BY <1>1, ClusterInvariant, PTL

(* Up to its safe_ts a manifest's backups have all that was inserted on      *)
(* every replica of a shard.                                                 *)
THEOREM SafeTimeIsSafe == Spec => []SafeTsCovered
<1>1. TypeOK /\ ClusterInv => SafeTsCovered
  BY DEF ClusterInv, ManifestsKept, SafeTsCovered, Covered
<1> QED
  BY <1>1, ClusterInvariant, PTL
-----------------------------------------------------------------------------
(* The restore.                                                              *)
(* The invariant, in parts.  RTyped: types, and what a play that has begun   *)
(* was given.                                                                *)
TaskState == {"none", "running", "loading", "restored", "failed"}

RTyped ==
  /\ lost \in BOOLEAN /\ attempts \in 0 .. MaxRestore
  /\ rpc \in {"idle", "start", "wait", "health", "report"} /\ phase \in Phase
  /\ rtodo \subseteq Host /\ rtodo # {} /\ rfailed \in BOOLEAN
  /\ task \in [Host -> [phase : Phase, state : TaskState]]
  /\ made \in [Host -> SUBSET Phase] /\ content \in [Shard -> [Time -> {0, 1}]]
  /\ rpc = "idle" => phase = 1 /\ rtodo = Host /\ ~rfailed
  /\ attempts = 0 => /\ rpc = "idle" /\ reports = {} /\ task = [h \in Host |-> NoTask]
                     /\ content = [s \in Shard |-> [t \in Time |-> 0]]
  /\ attempts > 0 => /\ lost /\ restore.batch \in Batch /\ restore.primary \in Pick
                     /\ restore.manifest \in Stored(restore.batch)

TablesMade == \A h \in Host : 1 \in made[h]
Filled(r)  == \A s \in Shard : \A t \in BackedUp(r, s).rows : content[s][t] > 0

(* What the servers have done of their tasks: only one host fills a shard.   *)
Tasks ==
  \A h \in Host :
    /\ task[h].state = "loading" => Loads(h) /\ \A t \in Time : content[h[1]][t] = 0
    /\ task[h].state = "restored" => task[h].phase \in made[h]
    /\ task[h].state = "restored" /\ Loads(h) =>
         \A t \in BackedUp(restore, h[1]).rows : content[h[1]][t] > 0
    /\ task[h].phase = 2 \/ 2 \in made[h] => TablesMade

(* How far a play has come.                                                  *)
Begins(h) == IF phase = 1 THEN NoTask ELSE [phase |-> 1, state |-> "restored"]

Progress ==
  /\ rpc = "start" => \A h \in rtodo : task[h] = Begins(h)
  /\ rpc = "start" => \A h \in Host \ rtodo : task[h].phase = phase
  /\ rpc = "wait"  => \A h \in Host : task[h].phase = phase
  /\ rpc = "wait" /\ ~rfailed => \A h \in Host \ rtodo : task[h].state = "restored"
  /\ phase = 2 => TablesMade /\ Filled(restore)
  /\ rpc \in {"health", "report"} => phase = 2 /\ \A h \in Host : 2 \in made[h]

Reports ==
  \A r \in reports :
    r.batch \in Batch /\ r.manifest \in Stored(r.batch) /\ Filled(r) /\ \A h \in Host : made[h] = Phase

RestoreInv == RTyped /\ Tasks /\ Progress /\ Reports

(* The source cluster until it is lost, and what remains of it.              *)
SourceInv ==
  /\ TypeOK /\ ManifestsKept
  /\ ~lost => ClusterInv
-----------------------------------------------------------------------------
LEMMA RestoreConstants ==
  /\ MaxRestore \in Nat /\ Host # {} /\ \A h \in Host : h[1] \in Shard
  /\ \A s \in Shard, pick \in Pick : pick[s] \in Host /\ pick[s][1] = s
BY ClusterAssumption, RestoreAssumption, ConstantFacts DEF Shard

LEMMA SourceStep ==
  ASSUME SourceInv, RTyped, [AllNext]_allvars
  PROVE  SourceInv'
<1>1. CASE ~lost /\ [Next]_vars /\ UNCHANGED lost
  BY <1>1, TypeInductive, ClusterInductive DEF SourceInv, ClusterInv
<1>2. CASE UNCHANGED <<vars, lost>>
  <2>1. UNCHANGED <<now, held, queued, quorum, stat, disk, checkpoint, nfs, control, plays, pc, todo, failed, play>>
    BY <1>2 DEF vars, source, store, lockstep
  <2>2. TypeOK'
    BY <2>1 DEF SourceInv, TypeOK
  <2>3. ManifestsKept'
    BY <2>1 DEF SourceInv, ManifestsKept, Stored, Whole, Covered
  <2>4. ClusterInv => ClusterInv'
    BY <2>1, <2>3 DEF ClusterInv, DiskFollows, Whole, Replicated, PlayInv, Marked, Checked, Begun, Backed,
       Record, PlayCovered, Covered, Target
  <2> QED
    BY <1>2, <2>2, <2>3, <2>4 DEF SourceInv
<1>3. CASE Lose
  <2>1. ManifestsKept'
    BY <1>3 DEF Lose, SourceInv, ManifestsKept, Stored, Whole, Covered
  <2>2. TypeOK'
    BY <1>3 DEF Lose, SourceInv, TypeOK, lockstep
  <2> QED
    BY <1>3, <2>1, <2>2 DEF SourceInv, Lose
<1>4. RestoreBegin \/ RestoreStep \/ RKill => UNCHANGED <<vars, lost>>
  BY DEF RestoreBegin, RestoreStep, RKill, StartPhase, AwaitPhase, HealthAfter, Report
<1>5. (\E h \in Host : Create(h) \/ Load(h) \/ LoadFails(h)) => UNCHANGED <<vars, lost>>
  BY DEF Create, Load, LoadFails
<1> QED
  BY <1>1, <1>2, <1>3, <1>4, <1>5 DEF AllNext, allvars, rvars, RTyped
-----------------------------------------------------------------------------
(* A stored manifest names, for every shard, a backup that is whole.         *)
LEMMA BackupRowsTyped ==
  ASSUME SourceInv, NEW r, r.batch \in Batch, r.manifest \in Stored(r.batch), NEW s \in Shard
  PROVE  BackedUp(r, s).rows \subseteq Time /\ BackedUp(r, s).state = "whole"
<1>1. r.manifest.pick \in Pick /\ Whole(<<r.batch, r.manifest.pick[s]>>)
  BY DEF SourceInv, ManifestsKept
<1>2. <<r.batch, r.manifest.pick[s]>> \in Path
  BY <1>1, ConstantFacts DEF Path
<1>3. disk[<<r.batch, r.manifest.pick[s]>>] \in [state : {"none", "partial", "whole"}, rows : SUBSET Time]
  BY <1>2 DEF SourceInv, TypeOK
<1> QED
  BY <1>1, <1>3 DEF BackedUp, Whole

LEMMA RDoneCases ==
  ASSUME NEW h, NEW ok, RDone(h, ok), rpc \in {"start", "wait", "health"}
  PROVE  \/ /\ rtodo # {h} /\ rtodo' = rtodo \ {h} /\ rfailed' = (rfailed \/ ~ok)
            /\ rpc' = rpc /\ phase' = phase
         \/ rtodo = {h} /\ REnded
         \/ /\ rtodo = {h} /\ ~rfailed /\ ok /\ rtodo' = Host /\ rfailed' = rfailed
            /\ rpc = "wait" /\ phase = 1 /\ rpc' = "start" /\ phase' = 2
         \/ /\ rtodo = {h} /\ ~rfailed /\ ok /\ rtodo' = Host /\ rfailed' = rfailed
            /\ \/ rpc = "start" /\ rpc' = "wait"
               \/ rpc = "wait" /\ phase # 1 /\ rpc' = "health"
               \/ rpc = "health" /\ rpc' = "report"
            /\ phase' = phase
BY DEF RDone

(* What a step of the play leaves alone, and how it moves.                   *)
LEMMA RDoneTyped ==
  ASSUME RTyped, attempts > 0, NEW h \in rtodo, NEW ok \in BOOLEAN, RDone(h, ok),
         rpc \in {"start", "wait", "health"},
         UNCHANGED <<vars, lost, attempts, restore, made, content, reports>>,
         task' \in [Host -> [phase : Phase, state : TaskState]]
  PROVE  RTyped'
<1>1. attempts' = attempts /\ attempts # 0 /\ attempts' > 0 /\ lost' = lost /\ restore' = restore
      /\ made' = made /\ content' = content
  BY DEF RTyped
<1>2. Stored(restore.batch)' = Stored(restore.batch)
  BY DEF vars, Stored
<1>3. CASE REnded
  <2>1. rpc' = "idle" /\ phase' = 1 /\ phase' \in Phase /\ rtodo' = Host /\ Host # {} /\ Host \subseteq Host
    BY <1>3, RestoreConstants DEF REnded, Phase
  <2>2. rfailed' \in BOOLEAN /\ ~rfailed'
    BY <1>3 DEF REnded
  <2> QED
    BY <1>1, <1>2, <2>1, <2>2 DEF RTyped
<1>4. CASE ~REnded
  <2>1. rpc' \in {"start", "wait", "health", "report"} /\ phase' \in Phase
    BY <1>4, RDoneCases DEF RTyped, Phase
  <2>2. rtodo' \subseteq Host /\ rtodo' # {}
    BY <1>4, RDoneCases, RestoreConstants DEF RTyped
  <2>3. rfailed' \in BOOLEAN
    BY <1>4, RDoneCases DEF RTyped
  <2> QED
    BY <1>1, <1>2, <2>1, <2>2, <2>3 DEF RTyped
<1> QED
  BY <1>3, <1>4

(* What has come back stays.                                                 *)
LEMMA ReportsStay ==
  ASSUME RTyped, RTyped', Reports, UNCHANGED <<vars, reports>>,
         \A h \in Host : made[h] \subseteq made'[h],
         \A s \in Shard, t \in Time : content[s][t] > 0 => content'[s][t] > 0,
         SourceInv
  PROVE  Reports'
<1>1. disk' = disk /\ \A b : Stored(b)' = Stored(b)
  BY DEF vars, store, Stored
<1> SUFFICES ASSUME NEW r \in reports
             PROVE  (r.batch \in Batch /\ r.manifest \in Stored(r.batch) /\ Filled(r)
                     /\ \A h \in Host : made[h] = Phase)'
  BY DEF Reports
<1>2. r.batch \in Batch /\ r.manifest \in Stored(r.batch) /\ Filled(r) /\ \A h \in Host : made[h] = Phase
  BY DEF Reports
<1>3. \A s \in Shard : BackedUp(r, s)' = BackedUp(r, s)
  BY <1>1 DEF BackedUp
<1>4. \A s \in Shard : BackedUp(r, s).rows \subseteq Time
  BY <1>2, BackupRowsTyped
<1>5. Filled(r)'
  BY <1>2, <1>3, <1>4 DEF Filled
<1>6. \A h \in Host : made'[h] = Phase
  BY <1>2 DEF RTyped
<1> QED
  BY <1>1, <1>2, <1>5, <1>6

-----------------------------------------------------------------------------
(* Before the cluster is lost there is nothing of a restore.                 *)
LEMMA SourceSide ==
  ASSUME RestoreInv, ~lost, lost' \in BOOLEAN,
         UNCHANGED <<attempts, rlock, restore, new, reports>>
  PROVE  RestoreInv'
<1>1. attempts = 0 /\ attempts' = 0 /\ rpc' = "idle" /\ phase' = 1 /\ reports' = {}
      /\ task' = [h \in Host |-> NoTask] /\ task = [h \in Host |-> NoTask]
  BY DEF RestoreInv, RTyped, rlock, new
<1>2. rtodo' = rtodo /\ rfailed' = rfailed /\ made' = made /\ content' = content /\ phase = 1
  BY DEF RestoreInv, RTyped, rlock, new
<1>3. RTyped'
  BY <1>1, <1>2, RestoreConstants DEF RestoreInv, RTyped
<1>4. \A h \in Host : task'[h].state = "none" /\ task'[h].phase = 1 /\ task[h].phase = 1
  BY <1>1 DEF NoTask
<1>5. Tasks'
  BY <1>2, <1>4 DEF RestoreInv, Tasks, TablesMade
<1>6. Progress'
  BY <1>1 DEF Progress
<1>7. Reports'
  BY <1>1 DEF Reports
<1> QED
  BY <1>3, <1>5, <1>6, <1>7 DEF RestoreInv

(* A play begins, or ends.                                                   *)
LEMMA BeginStep ==
  ASSUME SourceInv, RestoreInv, RestoreBegin
  PROVE  RestoreInv'
<1>1. rpc' = "start" /\ rpc = "idle" /\ phase' = 1 /\ rtodo' = rtodo /\ rfailed' = rfailed /\ lost /\ lost' = lost
      /\ made' = made /\ content' = content /\ reports' = reports
      /\ attempts' = attempts + 1 /\ attempts < MaxRestore /\ task' = [h \in Host |-> NoTask]
  BY DEF RestoreBegin, RestoreInv, RTyped
<1>2. attempts' \in 0 .. MaxRestore /\ attempts' > 0 /\ attempts' # 0
  BY <1>1, RestoreConstants DEF RestoreInv, RTyped
<1>3. restore'.batch \in Batch /\ restore'.primary \in Pick /\ restore'.manifest \in Stored(restore'.batch)
  BY DEF RestoreBegin
<1>4. Stored(restore.batch)' = Stored(restore'.batch)
  BY DEF RestoreBegin, Stored, vars
<1>5. RTyped'
  BY <1>1, <1>2, <1>3, <1>4 DEF RestoreInv, RTyped, NoTask, Phase, TaskState
<1>6. \A h \in Host : task'[h].state = "none" /\ task'[h].phase = 1
  BY <1>1 DEF NoTask
<1>7. Tasks'
  BY <1>1, <1>6 DEF RestoreInv, Tasks, TablesMade
<1>8. rtodo \subseteq Host /\ rtodo = rtodo'
  BY <1>1 DEF RestoreInv, RTyped
<1>9. rpc = "idle" => rtodo = Host
  BY DEF RestoreInv, RTyped
<1>10. Progress'
  BY <1>1, <1>6, <1>8, <1>9 DEF Progress, Begins
<1>11. Reports'
  BY <1>1, <1>5, ReportsStay DEF RestoreInv, RestoreBegin
<1> QED
  BY <1>5, <1>7, <1>10, <1>11 DEF RestoreInv

LEMMA REndedStep ==
  ASSUME SourceInv, RestoreInv, REnded, attempts > 0,
         UNCHANGED <<vars, lost, attempts, restore, new>>,
         \A r \in reports' : r \in reports \/ (r.batch \in Batch /\ r.manifest \in Stored(r.batch) /\ Filled(r)
                                              /\ \A h \in Host : made[h] = Phase)
  PROVE  RestoreInv'
<1>1. /\ rpc' = "idle" /\ phase' = 1 /\ rtodo' = Host /\ rfailed' = FALSE /\ lost' = lost /\ attempts' = attempts
      /\ task' = task /\ made' = made /\ content' = content /\ restore' = restore /\ disk' = disk
      /\ nfs' = nfs /\ control' = control
  BY DEF REnded, new, vars, store
<1>a. RTyped /\ attempts # 0
  BY DEF RestoreInv, RTyped
<1>b. Stored(restore.batch)' = Stored(restore.batch)
  BY <1>1 DEF Stored
<1>c. rfailed' \in BOOLEAN /\ ~rfailed' /\ phase' \in Phase /\ Host # {}
  BY <1>1, RestoreConstants DEF Phase
<1>2. RTyped'
  BY <1>1, <1>a, <1>b, <1>c DEF RTyped
<1>3. Tasks'
  BY <1>1 DEF RestoreInv, Tasks, TablesMade, Loads, BackedUp
<1>4. Progress'
  BY <1>1 DEF Progress
<1>5. Reports'
  BY <1>1 DEF RestoreInv, Reports, Filled, BackedUp, Stored
<1> QED
  BY <1>2, <1>3, <1>4, <1>5 DEF RestoreInv
-----------------------------------------------------------------------------
(* The tasks of a play.                                                      *)
LEMMA UnderWay ==
  ASSUME RTyped, rpc # "idle"
  PROVE  attempts > 0 /\ lost /\ restore.batch \in Batch /\ restore.primary \in Pick
         /\ restore.manifest \in Stored(restore.batch)
BY RestoreConstants DEF RTyped

LEMMA TasksStay ==
  ASSUME Tasks, UNCHANGED <<vars, restore, task, made, content>>
  PROVE  Tasks'
<1>1. disk' = disk
  BY DEF vars, store
<1> QED
  BY <1>1 DEF Tasks, TablesMade, Loads, BackedUp

LEMMA StartPhaseStep ==
  ASSUME SourceInv, RestoreInv, NEW h \in Host, StartPhase(h)
  PROVE  RestoreInv'
<1>1. /\ rpc = "start" /\ h \in rtodo /\ RDone(h, TRUE) /\ attempts > 0
      /\ UNCHANGED <<vars, lost, attempts, restore, made, content, reports>>
  BY UnderWay DEF StartPhase, RestoreInv
<1>2. /\ task' \in [Host -> [phase : Phase, state : TaskState]]
      /\ \A g \in Host : task'[g] = IF g = h THEN [phase |-> phase, state |-> "running"] ELSE task[g]
  BY DEF StartPhase, RestoreInv, RTyped, TaskState
<1>3. RTyped'
  BY <1>1, <1>2, RDoneTyped DEF RestoreInv
<1>4. restore' = restore /\ made' = made /\ content' = content /\ disk' = disk
  BY <1>1 DEF vars, store
<1>5. Tasks'
  <2> SUFFICES ASSUME NEW g \in Host
               PROVE  (/\ task[g].state = "loading" => Loads(g) /\ \A t \in Time : content[g[1]][t] = 0
                       /\ task[g].state = "restored" => task[g].phase \in made[g]
                       /\ task[g].state = "restored" /\ Loads(g) =>
                            \A t \in BackedUp(restore, g[1]).rows : content[g[1]][t] > 0
                       /\ task[g].phase = 2 \/ 2 \in made[g] => TablesMade)'
    BY DEF Tasks
  <2>1. CASE g = h
    BY <1>2, <1>4, <2>1 DEF RestoreInv, Tasks, Progress, TablesMade
  <2>2. CASE g # h
    BY <1>2, <1>4, <2>2 DEF RestoreInv, Tasks, TablesMade, Loads, BackedUp
  <2> QED
    BY <2>1, <2>2
<1>6. Progress'
  <2>1. CASE /\ rtodo # {h} /\ rtodo' = rtodo \ {h}
             /\ rpc' = rpc /\ phase' = phase
    <3>1. phase = 2 => TablesMade' /\ Filled(restore)'
      BY <1>4 DEF RestoreInv, Progress, TablesMade, Filled, BackedUp
    <3>2. \A g \in rtodo' : task'[g] = Begins(g)'
      BY <1>1, <1>2, <2>1 DEF RestoreInv, RTyped, Progress, Begins
    <3>3. \A g \in Host \ rtodo' : task'[g].phase = phase'
      BY <1>1, <1>2, <2>1 DEF RestoreInv, Progress
    <3> QED
      BY <1>1, <2>1, <3>1, <3>2, <3>3 DEF Progress
  <2>2. CASE REnded
    BY <2>2 DEF Progress, REnded
  <2>3. CASE rtodo = {h} /\ rtodo' = Host /\ rpc' = "wait" /\ phase' = phase
    BY <1>1, <1>2, <1>4, <2>3 DEF RestoreInv, Progress, TablesMade, Filled, BackedUp
  <2> QED
    BY <1>1, <2>1, <2>2, <2>3, RDoneCases
<1>7. Reports'
  BY <1>1, <1>3, <1>4, ReportsStay DEF RestoreInv
<1> QED
  BY <1>3, <1>5, <1>6, <1>7 DEF RestoreInv

(* A phase that all hosts have restored: after the first there are tables    *)
(* everywhere and the rows of the backup, after the second the views.        *)
LEMMA PhaseRestored ==
  ASSUME RestoreInv, rpc = "wait", \A h \in Host : task[h].state = "restored"
  PROVE  /\ \A h \in Host : phase \in made[h] /\ task[h] = [phase |-> phase, state |-> "restored"]
         /\ TablesMade /\ Filled(restore)
<1>1. \A h \in Host : phase \in made[h] /\ task[h] = [phase |-> phase, state |-> "restored"]
  BY DEF RestoreInv, Tasks, Progress, RTyped
<1>2. CASE phase = 1
  <2>1. TablesMade
    BY <1>1, <1>2 DEF TablesMade
  <2>2. ASSUME NEW s \in Shard PROVE \A t \in BackedUp(restore, s).rows : content[s][t] > 0
    <3>1. restore.primary[s] \in Host /\ restore.primary[s][1] = s
      BY UnderWay, RestoreConstants DEF RestoreInv
    <3>2. Loads(restore.primary[s]) /\ task[restore.primary[s]].state = "restored"
      BY <1>1, <1>2, <3>1 DEF Loads
    <3> QED
      BY <3>1, <3>2 DEF RestoreInv, Tasks
  <2> QED
    BY <1>1, <2>1, <2>2 DEF Filled
<1>3. CASE phase = 2
  BY <1>1, <1>3 DEF RestoreInv, Progress
<1> QED
  BY <1>2, <1>3 DEF RestoreInv, RTyped, Phase

LEMMA AwaitPhaseStep ==
  ASSUME SourceInv, RestoreInv, NEW h \in Host, AwaitPhase(h) \/ HealthAfter(h)
  PROVE  RestoreInv'
<1>1. PICK ok \in BOOLEAN :
        /\ RDone(h, ok) /\ h \in rtodo /\ UNCHANGED <<vars, lost, attempts, restore, new, reports>>
        /\ (rpc = "wait" /\ ok = (task[h].state = "restored")) \/ rpc = "health"
  BY DEF AwaitPhase, HealthAfter
<1>2. /\ attempts > 0 /\ restore' = restore /\ task' = task /\ made' = made /\ content' = content /\ disk' = disk
      /\ UNCHANGED <<vars, lost, attempts, restore, made, content, reports>>
  BY <1>1, UnderWay DEF RestoreInv, new, vars, store
<1>3. RTyped'
  <2>1. task' \in [Host -> [phase : Phase, state : TaskState]]
    BY <1>2 DEF RestoreInv, RTyped
  <2> QED
    BY <1>1, <1>2, <2>1, RDoneTyped DEF RestoreInv
<1>4. Tasks'
  BY <1>2, TasksStay DEF RestoreInv
<1>5. TablesMade' = TablesMade /\ Filled(restore)' = Filled(restore)
  BY <1>2 DEF TablesMade, Filled, BackedUp
<1>6. Progress'
  <2>1. CASE /\ rtodo # {h} /\ rtodo' = rtodo \ {h} /\ rfailed' = (rfailed \/ ~ok)
             /\ rpc' = rpc /\ phase' = phase
    BY <1>1, <1>2, <1>5, <2>1 DEF RestoreInv, Progress
  <2>2. CASE REnded
    BY <2>2 DEF Progress, REnded
  <2>3. CASE rpc = "health" /\ rpc' = "report" /\ phase' = phase
    BY <1>2, <1>5, <2>3 DEF RestoreInv, Progress
  <2>4. CASE rtodo = {h} /\ ~rfailed /\ ok /\ rpc = "wait" /\ rtodo' = Host
    <3>1. \A g \in Host : task[g].state = "restored"
      BY <1>1, <2>4 DEF RestoreInv, Progress
    <3>2. /\ \A g \in Host : phase \in made[g] /\ task[g] = [phase |-> phase, state |-> "restored"]
          /\ TablesMade /\ Filled(restore)
      BY <2>4, <3>1, PhaseRestored
    <3>3. CASE phase = 1 /\ rpc' = "start" /\ phase' = 2
      BY <1>2, <1>5, <2>4, <3>2, <3>3 DEF Progress, Begins
    <3>4. CASE phase # 1 /\ rpc' = "health" /\ phase' = phase
      <4>1. phase = 2
        BY <3>4 DEF RestoreInv, RTyped, Phase
      <4> QED
        BY <1>2, <1>5, <3>2, <3>4, <4>1 DEF Progress
    <3>5. (phase = 1 /\ rpc' = "start" /\ phase' = 2) \/ (phase # 1 /\ rpc' = "health" /\ phase' = phase)
      BY <1>1, <2>4, RDoneCases DEF RDone
    <3> QED
      BY <3>3, <3>4, <3>5
  <2> QED
    BY <1>1, <2>1, <2>2, <2>3, <2>4, RDoneCases
<1>7. Reports'
  BY <1>2, <1>3, ReportsStay DEF RestoreInv
<1> QED
  BY <1>3, <1>4, <1>6, <1>7 DEF RestoreInv

LEMMA ReportStep ==
  ASSUME SourceInv, RestoreInv, Report \/ RKill
  PROVE  RestoreInv'
<1>1. rpc # "idle" /\ REnded /\ UNCHANGED <<vars, lost, attempts, restore, new>>
  BY DEF Report, RKill
<1>2. /\ attempts > 0 /\ restore.batch \in Batch /\ restore.manifest \in Stored(restore.batch)
  BY <1>1, UnderWay DEF RestoreInv
<1>3. CASE RKill
  BY <1>1, <1>2, <1>3, REndedStep DEF RKill
<1>4. CASE Report
  <2>1. TablesMade /\ Filled(restore) /\ \A h \in Host : 2 \in made[h]
    BY <1>4 DEF Report, RestoreInv, Progress
  <2>2. \A h \in Host : made[h] = Phase
    BY <2>1 DEF TablesMade, RestoreInv, RTyped, Phase
  <2> DEFINE r == [batch |-> restore.batch, manifest |-> restore.manifest]
  <2>3. Filled(r)
    BY <2>1 DEF Filled, BackedUp
  <2>4. r.batch \in Batch /\ r.manifest \in Stored(r.batch)
    BY <1>2
  <2>5. reports' = reports \cup {r}
    BY <1>4 DEF Report
  <2>6. \A x \in reports' : x \in reports \/ (x.batch \in Batch /\ x.manifest \in Stored(x.batch) /\ Filled(x)
                                              /\ \A h \in Host : made[h] = Phase)
    BY <2>2, <2>3, <2>4, <2>5
  <2> QED
    BY <1>1, <1>2, <2>6, REndedStep
<1> QED
  BY <1>3, <1>4
-----------------------------------------------------------------------------
(* The servers.                                                              *)
LEMMA CreateStep ==
  ASSUME SourceInv, RestoreInv, NEW h \in Host, Create(h)
  PROVE  RestoreInv'
<1>1. /\ task[h].state = "running" /\ UNCHANGED <<vars, reports>> /\ disk' = disk /\ content' = content
      /\ lost' = lost /\ attempts' = attempts /\ restore' = restore
      /\ rpc' = rpc /\ rtodo' = rtodo /\ rfailed' = rfailed /\ phase' = phase
  BY DEF Create, rlock, vars, store
<1>2. attempts # 0 /\ Stored(restore.batch)' = Stored(restore.batch) /\ reports' = reports
  BY <1>1 DEF RestoreInv, RTyped, NoTask, vars, Stored
<1>3. PICK st \in {"loading", "failed", "restored"} :
        /\ task' = [task EXCEPT ![h].state = st]
        /\ made' = IF st = "restored" THEN [made EXCEPT ![h] = @ \cup {task[h].phase}] ELSE made
        /\ st = "loading" => Loads(h) /\ \A t \in Time : content[h[1]][t] = 0
        /\ st = "restored" => ~Loads(h)
  BY DEF Create
<1>4. /\ task' \in [Host -> [phase : Phase, state : TaskState]]
      /\ task'[h].phase = task[h].phase /\ task'[h].state = st
      /\ \A g \in Host : g # h => task'[g] = task[g]
  BY <1>3 DEF RestoreInv, RTyped, TaskState
<1>5. /\ made' \in [Host -> SUBSET Phase]
      /\ \A g \in Host : made[g] \subseteq made'[g] /\ (g # h => made'[g] = made[g])
      /\ st = "restored" => made'[h] = made[h] \cup {task[h].phase}
      /\ st # "restored" => made'[h] = made[h]
  BY <1>3 DEF RestoreInv, RTyped
<1>6. RTyped'
  BY <1>1, <1>2, <1>4, <1>5 DEF RestoreInv, RTyped
<1>7. TablesMade => TablesMade'
  BY <1>5 DEF TablesMade
<1>8. Tasks'
  <2> SUFFICES ASSUME NEW g \in Host
               PROVE  (/\ task[g].state = "loading" => Loads(g) /\ \A t \in Time : content[g[1]][t] = 0
                       /\ task[g].state = "restored" => task[g].phase \in made[g]
                       /\ task[g].state = "restored" /\ Loads(g) =>
                            \A t \in BackedUp(restore, g[1]).rows : content[g[1]][t] > 0
                       /\ task[g].phase = 2 \/ 2 \in made[g] => TablesMade)'
    BY DEF Tasks
  <2>1. CASE g = h
    <3>1. Loads(h)' = Loads(h)
      BY <1>1, <1>4 DEF Loads
    <3> QED
      BY <1>1, <1>3, <1>4, <1>5, <1>7, <2>1, <3>1 DEF RestoreInv, Tasks
  <2>2. CASE g # h
    <3>1. Loads(g)' = Loads(g) /\ BackedUp(restore, g[1])' = BackedUp(restore, g[1])
      BY <1>1, <1>4, <2>2 DEF Loads, BackedUp
    <3>2. task'[g] = task[g] /\ made'[g] = made[g] /\ content' = content
      BY <1>1, <1>4, <1>5, <2>2
    <3>3. /\ task[g].state = "loading" => Loads(g) /\ \A t \in Time : content[g[1]][t] = 0
          /\ task[g].state = "restored" => task[g].phase \in made[g]
          /\ task[g].state = "restored" /\ Loads(g) =>
               \A t \in BackedUp(restore, g[1]).rows : content[g[1]][t] > 0
          /\ task[g].phase = 2 \/ 2 \in made[g] => TablesMade
      BY DEF RestoreInv, Tasks
    <3> QED
      BY <1>7, <3>1, <3>2, <3>3
  <2> QED
    BY <2>1, <2>2
<1>9. Progress'
  <2>1. Filled(restore)' = Filled(restore)
    BY <1>1 DEF Filled, BackedUp
  <2>2. rpc = "start" => h \notin rtodo
    BY <1>1 DEF RestoreInv, Progress, Begins, NoTask
  <2>3. rpc = "wait" /\ ~rfailed => h \in rtodo
    BY <1>1 DEF RestoreInv, Progress
  <2>4. \A g \in Host : task'[g].phase = task[g].phase
    BY <1>4
  <2>5. rpc = "start" => \A g \in rtodo : task'[g] = Begins(g)'
    BY <1>1, <1>4, <2>2 DEF RestoreInv, Progress, Begins, RTyped
  <2>6. rpc = "wait" /\ ~rfailed => \A g \in Host \ rtodo : task'[g].state = "restored"
    BY <1>4, <2>3 DEF RestoreInv, Progress
  <2> QED
    BY <1>1, <1>5, <1>7, <2>1, <2>4, <2>5, <2>6 DEF RestoreInv, Progress
<1>10. Reports'
  BY <1>1, <1>5, <1>6, ReportsStay DEF RestoreInv
<1> QED
  BY <1>6, <1>8, <1>9, <1>10 DEF RestoreInv

(* Rows are attached to tables that have none of them.                       *)
LEMMA AddedOnce ==
  ASSUME RestoreInv, NEW h \in Host, task[h].state = "loading", NEW rows, content' = Added(h[1], rows)
  PROVE  /\ content' \in [Shard -> [Time -> {0, 1}]]
         /\ \A s \in Shard, t \in Time : content[s][t] > 0 => content'[s][t] > 0
         /\ \A s \in Shard : s # h[1] => content'[s] = content[s]
         /\ \A t \in Time : t \in rows => content'[h[1]][t] > 0
<1>1. h[1] \in Shard /\ content \in [Shard -> [Time -> {0, 1}]] /\ \A t \in Time : content[h[1]][t] = 0
  BY RestoreConstants DEF RestoreInv, RTyped, Tasks
<1> DEFINE filled == [t \in Time |-> IF t \in rows THEN 1 ELSE 0]
<1>2. filled \in [Time -> {0, 1}] /\ \A t \in Time : t \in rows => filled[t] > 0
  OBVIOUS
<1>3. content' = [content EXCEPT ![h[1]] = filled]
  <2>1. content' = [content EXCEPT ![h[1]] = [t \in Time |-> IF t \in rows THEN content[h[1]][t] + 1 ELSE content[h[1]][t]]]
    BY <1>1 DEF Added
  <2>2. [t \in Time |-> IF t \in rows THEN content[h[1]][t] + 1 ELSE content[h[1]][t]] = filled
    BY <1>1
  <2> QED
    BY <2>1, <2>2
<1>4. content'[h[1]] = filled /\ \A s \in Shard : s # h[1] => content'[s] = content[s]
  BY <1>1, <1>3
<1>5. content' \in [Shard -> [Time -> {0, 1}]]
  BY <1>1, <1>2, <1>3
<1>6. ASSUME NEW s \in Shard, NEW t \in Time, content[s][t] > 0 PROVE content'[s][t] > 0
  <2>1. s # h[1]
    BY <1>1, <1>6
  <2> QED
    BY <1>4, <1>6, <2>1
<1> QED
  BY <1>2, <1>4, <1>5, <1>6

LEMMA LoadStep ==
  ASSUME SourceInv, RestoreInv, NEW h \in Host, Load(h) \/ LoadFails(h)
  PROVE  RestoreInv'
<1>1. /\ task[h].state = "loading" /\ UNCHANGED <<vars, reports>> /\ disk' = disk
      /\ lost' = lost /\ attempts' = attempts /\ restore' = restore
      /\ rpc' = rpc /\ rtodo' = rtodo /\ rfailed' = rfailed /\ phase' = phase
  BY DEF Load, LoadFails, rlock, vars, store
<1>2. attempts # 0 /\ Stored(restore.batch)' = Stored(restore.batch) /\ reports' = reports
  BY <1>1 DEF RestoreInv, RTyped, NoTask, vars, Stored
<1>3. PICK st \in {"restored", "failed"}, rows \in SUBSET BackedUp(restore, h[1]).rows :
        /\ task' = [task EXCEPT ![h].state = st] /\ content' = Added(h[1], rows)
        /\ made' = IF st = "restored" THEN [made EXCEPT ![h] = @ \cup {1}] ELSE made
        /\ st = "restored" => rows = BackedUp(restore, h[1]).rows
  BY DEF Load, LoadFails
<1>4. /\ task' \in [Host -> [phase : Phase, state : TaskState]]
      /\ task'[h].phase = task[h].phase /\ task'[h].state = st
      /\ \A g \in Host : g # h => task'[g] = task[g]
  BY <1>3 DEF RestoreInv, RTyped, TaskState
<1>5. /\ made' \in [Host -> SUBSET Phase]
      /\ \A g \in Host : made[g] \subseteq made'[g] /\ (g # h => made'[g] = made[g])
      /\ st = "restored" => made'[h] = made[h] \cup {1}
      /\ st # "restored" => made'[h] = made[h]
  BY <1>3 DEF RestoreInv, RTyped, Phase
<1>6. /\ content' \in [Shard -> [Time -> {0, 1}]]
      /\ \A s \in Shard, t \in Time : content[s][t] > 0 => content'[s][t] > 0
      /\ \A s \in Shard : s # h[1] => content'[s] = content[s]
      /\ \A t \in Time : t \in rows => content'[h[1]][t] > 0
  BY <1>1, <1>3, AddedOnce
<1>7. RTyped'
  BY <1>1, <1>2, <1>4, <1>5, <1>6 DEF RestoreInv, RTyped
<1>8. TablesMade => TablesMade'
  BY <1>5 DEF TablesMade
<1>9. \A s \in Shard : /\ BackedUp(restore, s)' = BackedUp(restore, s)
                       /\ BackedUp(restore, s).rows \subseteq Time
  <2>1. restore.batch \in Batch /\ restore.manifest \in Stored(restore.batch)
    BY <1>2, RestoreConstants DEF RestoreInv, RTyped
  <2> QED
    BY <1>1, <2>1, BackupRowsTyped DEF BackedUp
<1>10. Loads(h) /\ h[1] \in Shard /\ \A g \in Host : Loads(g)' = Loads(g)
  BY <1>1, <1>4, RestoreConstants DEF RestoreInv, Tasks, Loads
<1>11. Tasks'
  <2> SUFFICES ASSUME NEW g \in Host
               PROVE  (/\ task[g].state = "loading" => Loads(g) /\ \A t \in Time : content[g[1]][t] = 0
                       /\ task[g].state = "restored" => task[g].phase \in made[g]
                       /\ task[g].state = "restored" /\ Loads(g) =>
                            \A t \in BackedUp(restore, g[1]).rows : content[g[1]][t] > 0
                       /\ task[g].phase = 2 \/ 2 \in made[g] => TablesMade)'
    BY DEF Tasks
  <2>1. CASE g = h
    <3>1. task[h].phase = 1
      BY <1>10 DEF Loads
    <3>2. st = "restored" => \A t \in BackedUp(restore, h[1]).rows : content'[h[1]][t] > 0
      BY <1>3, <1>6, <1>9, <1>10
    <3>3. 2 \in made'[h] => TablesMade'
      BY <1>5, <1>8 DEF RestoreInv, Tasks
    <3> QED
      BY <1>3, <1>4, <1>5, <1>9, <1>10, <2>1, <3>1, <3>2, <3>3
  <2>2. CASE g # h
    <3>1. g[1] \in Shard /\ task'[g] = task[g] /\ made'[g] = made[g]
      BY <1>4, <1>5, <2>2, RestoreConstants
    <3>2. Loads(g) => g[1] # h[1]
      BY <1>10, <2>2 DEF Loads
    <3>3. Loads(g) => content'[g[1]] = content[g[1]]
      BY <1>6, <3>1, <3>2
    <3> QED
      BY <1>8, <1>9, <1>10, <3>1, <3>3 DEF RestoreInv, Tasks
  <2> QED
    BY <2>1, <2>2
<1>12. Progress'
  <2>1. Filled(restore) => Filled(restore)'
    BY <1>1, <1>6, <1>9 DEF Filled
  <2>2. rpc = "start" => h \notin rtodo
    BY <1>1 DEF RestoreInv, Progress, Begins, NoTask
  <2>3. rpc = "wait" /\ ~rfailed => h \in rtodo
    BY <1>1 DEF RestoreInv, Progress
  <2>4. \A g \in Host : task'[g].phase = task[g].phase
    BY <1>4
  <2>5. rpc = "start" => \A g \in rtodo : task'[g] = Begins(g)'
    BY <1>1, <1>4, <2>2 DEF RestoreInv, Progress, Begins, RTyped
  <2>6. rpc = "wait" /\ ~rfailed => \A g \in Host \ rtodo : task'[g].state = "restored"
    BY <1>4, <2>3 DEF RestoreInv, Progress
  <2> QED
    BY <1>1, <1>5, <1>8, <2>1, <2>4, <2>5, <2>6 DEF RestoreInv, Progress
<1>13. Reports'
  BY <1>1, <1>5, <1>6, <1>7, ReportsStay DEF RestoreInv
<1> QED
  BY <1>7, <1>11, <1>12, <1>13 DEF RestoreInv
-----------------------------------------------------------------------------
LEMMA RestoreInductive ==
  ASSUME SourceInv, RestoreInv, [AllNext]_allvars
  PROVE  SourceInv' /\ RestoreInv'
<1>1. SourceInv'
  BY SourceStep DEF RestoreInv
<1>2. CASE (~lost /\ Next /\ UNCHANGED rvars) \/ Lose
  <2>1. ~lost /\ lost' \in BOOLEAN /\ UNCHANGED <<attempts, rlock, restore, new, reports>>
    BY <1>2 DEF Lose, rvars, RestoreInv, RTyped
  <2> QED
    BY <1>1, <2>1, SourceSide
<1>3. CASE RestoreBegin
  BY <1>1, <1>3, BeginStep
<1>4. CASE \E h \in Host : StartPhase(h) \/ AwaitPhase(h) \/ HealthAfter(h)
  BY <1>1, <1>4, StartPhaseStep, AwaitPhaseStep
<1>5. CASE Report \/ RKill
  BY <1>1, <1>5, ReportStep
<1>6. CASE \E h \in Host : Create(h) \/ Load(h) \/ LoadFails(h)
  BY <1>1, <1>6, CreateStep, LoadStep
<1>7. CASE UNCHANGED allvars
  <2>1. /\ UNCHANGED <<vars, restore, task, made, content, reports, rpc, rtodo, rfailed, phase, attempts, lost>>
        /\ disk' = disk /\ nfs' = nfs /\ control' = control
    BY <1>7 DEF allvars, rvars, rlock, new, vars, store
  <2>2. RTyped'
    BY <2>1 DEF RestoreInv, RTyped, Stored
  <2>3. Tasks'
    BY <2>1, TasksStay DEF RestoreInv
  <2>4. Progress'
    BY <2>1 DEF RestoreInv, Progress, Begins, TablesMade, Filled, BackedUp
  <2>5. Reports'
    BY <2>1, <2>2, ReportsStay DEF RestoreInv
  <2> QED
    BY <1>1, <2>2, <2>3, <2>4, <2>5 DEF RestoreInv
<1> QED
  BY <1>2, <1>3, <1>4, <1>5, <1>6, <1>7 DEF AllNext, RestoreStep

LEMMA RestoreInvariant == AllSpec => [](SourceInv /\ RestoreInv)
<1>1. AllInit => SourceInv /\ RestoreInv
  <2> SUFFICES ASSUME AllInit PROVE SourceInv /\ RestoreInv
    OBVIOUS
  <2>1. TypeOK /\ ClusterInv
    BY ClusterInit DEF AllInit
  <2>2. RTyped
    <3>1. /\ lost = FALSE /\ attempts = 0 /\ rpc = "idle" /\ rtodo = Host /\ rfailed = FALSE /\ phase = 1
          /\ task = [h \in Host |-> NoTask] /\ made = [h \in Host |-> {}] /\ reports = {}
          /\ content = [s \in Shard |-> [t \in Time |-> 0]]
      BY DEF AllInit, RestoreInit
    <3>2. NoTask \in [phase : Phase, state : TaskState]
      BY DEF NoTask, Phase, TaskState
    <3>3. attempts \in 0 .. MaxRestore /\ Host # {} /\ ~(attempts > 0) /\ phase \in Phase
      BY <3>1, RestoreConstants DEF Phase
    <3>4. /\ task \in [Host -> [phase : Phase, state : TaskState]] /\ made \in [Host -> SUBSET Phase]
          /\ content \in [Shard -> [Time -> {0, 1}]]
      BY <3>1, <3>2
    <3> QED
      BY <3>1, <3>3, <3>4 DEF RTyped
  <2>3. Tasks /\ Progress /\ Reports
    BY DEF AllInit, RestoreInit, NoTask, Tasks, Progress, Reports
  <2> QED
    BY <2>1, <2>2, <2>3 DEF SourceInv, ClusterInv, RestoreInv
<1>2. SourceInv /\ RestoreInv /\ [AllNext]_allvars => SourceInv' /\ RestoreInv'
  BY RestoreInductive
<1> QED
  BY <1>1, <1>2, PTL DEF AllSpec

(* The tasks, the objects and the rows of the restore have their types: a    *)
(* row comes back at most as often as a restore is tried.                    *)
THEOREM RestoreTypeCorrect == AllSpec => []RestoreTypeOK
<1>1. SourceInv /\ RestoreInv => RestoreTypeOK
  <2> SUFFICES ASSUME SourceInv, RestoreInv PROVE RestoreTypeOK
    OBVIOUS
  <2>1. content \in [Shard -> [Time -> 0 .. MaxRestore]]
    <3>1. CASE attempts = 0
      BY <3>1, RestoreConstants DEF RestoreInv, RTyped
    <3>2. CASE attempts # 0
      <4>1. {0, 1} \subseteq 0 .. MaxRestore
        BY <3>2, RestoreConstants DEF RestoreInv, RTyped
      <4>2. content \in [Shard -> [Time -> {0, 1}]]
        BY DEF RestoreInv, RTyped
      <4> QED
        BY <4>1, <4>2
    <3> QED
      BY <3>1, <3>2
  <2> QED
    BY <2>1 DEF SourceInv, RestoreInv, RTyped, RestoreTypeOK, TaskState
<1> QED
  BY <1>1, RestoreInvariant, PTL

(* The loss of the cluster and the restores take nothing from the backups.   *)
THEOREM BackupsOutliveTheCluster == AllSpec => [](ManifestWhole /\ MarkersCovered /\ SafeTsCovered)
<1>1. SourceInv => ManifestWhole /\ MarkersCovered /\ SafeTsCovered
  BY DEF SourceInv, ManifestsKept, ManifestWhole, MarkersCovered, SafeTsCovered, Whole, Covered
<1> QED
  BY <1>1, RestoreInvariant, PTL

(* No row comes back twice: RESTORE fills only empty tables, and of the      *)
(* hosts of a shard only the one that restores the data attaches rows.       *)
THEOREM RowsComeBackOnce == AllSpec => []NoDoubleLoad
<1>1. RestoreInv => NoDoubleLoad
  <2> SUFFICES ASSUME RestoreInv, NEW s \in Shard, NEW t \in Time PROVE content[s][t] <= 1
    BY DEF NoDoubleLoad
  <2>1. content[s][t] \in {0, 1}
    BY DEF RestoreInv, RTyped
  <2> QED
    BY <2>1
<1> QED
  BY <1>1, RestoreInvariant, PTL

(* The second phase begins after every host has done the first.              *)
THEOREM ViewsFollowTables == AllSpec => []ViewsComeLast
<1>1. RestoreInv => ViewsComeLast
  BY DEF RestoreInv, Tasks, TablesMade, ViewsComeLast
<1> QED
  BY <1>1, RestoreInvariant, PTL

(* The manifest of a restore is written when the polling has seen every      *)
(* RESTORE of both phases end well.                                          *)
THEOREM ReportsAreTrue == AllSpec => []ReportedIsRestored
<1>1. RestoreInv => ReportedIsRestored
  BY DEF RestoreInv, Reports, Filled, ReportedIsRestored
<1> QED
  BY <1>1, RestoreInvariant, PTL

(* From the insert to the restored table: what all replicas of a shard took  *)
(* by the safe_ts of the manifest is back once the restore has ended.        *)
THEOREM SafeRowsComeBack == AllSpec => []SafeTsRestored
<1>1. SourceInv /\ RestoreInv => SafeTsRestored
  <2> SUFFICES ASSUME SourceInv, RestoreInv, NEW r \in reports, NEW s \in Shard, NEW t \in quorum[s],
                      t <= r.manifest.safe_ts
               PROVE  content[s][t] > 0
    BY DEF SafeTsRestored
  <2>1. r.batch \in Batch /\ r.manifest \in Stored(r.batch) /\ Filled(r)
    BY DEF RestoreInv, Reports
  <2>2. Covered(s, <<r.batch, r.manifest.pick[s]>>, r.manifest.due[s], r.manifest.safe_ts)
    BY <2>1 DEF SourceInv, ManifestsKept
  <2>3. t \in BackedUp(r, s).rows
    BY <2>2 DEF Covered, BackedUp
  <2> QED
    BY <2>1, <2>3 DEF Filled
<1> QED
  BY <1>1, RestoreInvariant, PTL
=============================================================================
