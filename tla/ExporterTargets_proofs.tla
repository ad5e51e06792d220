------------------------ MODULE ExporterTargets_proofs ------------------------
(***************************************************************************)
(* Proofs about ExporterTargets, for any exporters, labels, number of      *)
(* registrations at a time and faults.                                     *)
(***************************************************************************)
EXTENDS ExporterTargets, SequenceTheorems, TLAPS

Job == [target : Target, labels : Label \cup {None}, force : BOOLEAN]

Apart(groups) ==
  \A i, j \in DOMAIN groups : i # j => groups[i].targets \cap groups[j].targets = {}

(* What a text says of a target in a group of its own.                       *)
Labelled(groups, t, L) ==
  \A i \in DOMAIN groups : groups[i].targets = {t} => L \subseteq {None, groups[i].labels}

-----------------------------------------------------------------------------
LEMMA ListedMember ==
  ASSUME NEW g, NEW t
  PROVE  t \in Listed(g) <=> \E i \in DOMAIN g : t \in g[i].targets
BY DEF Listed

(* What parses as nothing is one group without targets.                      *)
LEMMA ParsedFacts ==
  ASSUME NEW g \in Seq(TargetGroup)
  PROVE  /\ Parsed(g) \in Seq(TargetGroup)
         /\ Listed(Parsed(g)) = Listed(g)
         /\ Apart(g) => Apart(Parsed(g))
         /\ \A t : \A L : Labelled(g, t, L) => Labelled(Parsed(g), t, L)
<1>1. CASE g = << >>
  <2> DEFINE h == [targets |-> {}, labels |-> None]
  <2>1. h \in TargetGroup
    BY DEF TargetGroup
  <2>2. Parsed(g) = <<h>>
    BY <1>1 DEF Parsed
  <2>3. <<h>> \in Seq(TargetGroup) /\ DOMAIN <<h>> = {1} /\ <<h>>[1] = h
    BY <2>1
  <2>4. DOMAIN g = {}
    BY <1>1
  <2> QED
    BY <2>2, <2>3, <2>4 DEF Listed, Apart, Labelled
<1>2. CASE g # << >>
  BY <1>2 DEF Parsed
<1> QED
  BY <1>1, <1>2

(* A target that is listed: the groups stay, those with it get the labels.   *)
LEMMA UpdatedInPlace ==
  ASSUME NEW g \in Seq(TargetGroup), NEW j \in Job, j.target \in Listed(g)
  PROVE  /\ Updated(g, j) \in Seq(TargetGroup)
         /\ DOMAIN Updated(g, j) = DOMAIN g
         /\ \A i \in DOMAIN g : /\ Updated(g, j)[i] = Relabelled(g[i], j)
                                /\ Updated(g, j)[i].targets = g[i].targets
<1> DEFINE u == [i \in DOMAIN g |-> Relabelled(g[i], j)]
<1>1. Updated(g, j) = u
  BY DEF Updated
<1>2. Len(g) \in Nat /\ DOMAIN g = 1 .. Len(g) /\ \A i \in DOMAIN g : g[i] \in TargetGroup
  BY LenProperties, ElementOfSeq
<1>3. \A i \in DOMAIN g : Relabelled(g[i], j) \in TargetGroup /\ Relabelled(g[i], j).targets = g[i].targets
  BY <1>2 DEF Relabelled, TargetGroup, Job
<1>4. u \in [1 .. Len(g) -> TargetGroup]
  BY <1>2, <1>3
<1>5. u \in Seq(TargetGroup)
  BY <1>2, <1>4, SeqDef
<1> QED
  BY <1>1, <1>3, <1>5

(* Any other target: a group of its own, at the end.                         *)
LEMMA UpdatedAtEnd ==
  ASSUME NEW g \in Seq(TargetGroup), NEW j \in Job, j.target \notin Listed(g)
  PROVE  LET P == Parsed(g)  u == Updated(g, j)
         IN  /\ P \in Seq(TargetGroup) /\ Len(P) \in Nat /\ DOMAIN P = 1 .. Len(P)
             /\ u \in Seq(TargetGroup) /\ DOMAIN u = 1 .. Len(P) + 1
             /\ \A i \in 1 .. Len(P) : u[i] = P[i]
             /\ u[Len(P) + 1] = Group(j.target, j.labels)
<1>1. Parsed(g) \in Seq(TargetGroup)
  BY ParsedFacts
<1>2. Group(j.target, j.labels) \in TargetGroup
  BY DEF Group, TargetGroup, Job
<1>3. Updated(g, j) = Append(Parsed(g), Group(j.target, j.labels))
  BY DEF Updated
<1> HIDE DEF Parsed, Updated, Group
<1> QED
  BY <1>1, <1>2, <1>3, AppendProperties, LenProperties

(* Updated lists what was listed and the target.                             *)
LEMMA UpdatedLists ==
  ASSUME NEW g \in Seq(TargetGroup), NEW j \in Job
  PROVE  Updated(g, j) \in Seq(TargetGroup) /\ Listed(Updated(g, j)) = Listed(g) \cup {j.target}
<1>1. CASE j.target \in Listed(g)
  <2>1. \A t : t \in Listed(Updated(g, j)) <=> t \in Listed(g)
    BY <1>1, UpdatedInPlace, ListedMember
  <2> QED
    BY <1>1, <2>1, UpdatedInPlace
<1>2. CASE j.target \notin Listed(g)
  <2> DEFINE P == Parsed(g)
             u == Updated(g, j)
  <2>1. /\ Len(P) \in Nat /\ DOMAIN P = 1 .. Len(P) /\ DOMAIN u = 1 .. Len(P) + 1
        /\ u \in Seq(TargetGroup)
        /\ \A i \in 1 .. Len(P) : u[i] = P[i]
        /\ u[Len(P) + 1] = Group(j.target, j.labels)
    BY <1>2, UpdatedAtEnd
  <2>0. Group(j.target, j.labels).targets = {j.target} /\ Group(j.target, j.labels).labels = j.labels
    BY DEF Group
  <2>2. Listed(P) = Listed(g)
    BY ParsedFacts
  <2> HIDE DEF P, u
  <2>3. DOMAIN u = DOMAIN P \cup {Len(P) + 1}
    BY <2>1
  <2>4. Listed(u) = Listed(P) \cup {j.target}
    BY <2>0, <2>1, <2>3, ListedMember
  <2> QED
    BY <2>1, <2>2, <2>4 DEF u
<1> QED
  BY <1>1, <1>2

(* Updated lists no target twice unless it was.                              *)
LEMMA UpdatedApart ==
  ASSUME NEW g \in Seq(TargetGroup), NEW j \in Job, Apart(g)
  PROVE  Apart(Updated(g, j))
<1>1. CASE j.target \in Listed(g)
  BY <1>1, UpdatedInPlace DEF Apart
<1>2. CASE j.target \notin Listed(g)
  <2> DEFINE P == Parsed(g)
             u == Updated(g, j)
  <2>1. /\ Len(P) \in Nat /\ DOMAIN P = 1 .. Len(P) /\ DOMAIN u = 1 .. Len(P) + 1
        /\ \A i \in 1 .. Len(P) : u[i] = P[i]
        /\ u[Len(P) + 1] = Group(j.target, j.labels)
    BY <1>2, UpdatedAtEnd
  <2>0. Group(j.target, j.labels).targets = {j.target} /\ Group(j.target, j.labels).labels = j.labels
    BY DEF Group
  <2>2. Listed(P) = Listed(g) /\ Apart(P)
    BY ParsedFacts
  <2> HIDE DEF P, u
  <2>3. \A i \in 1 .. Len(P) : j.target \notin u[i].targets
    BY <1>2, <2>1, <2>2, ListedMember
  <2>4. \A i, k \in 1 .. Len(P) : i # k => u[i].targets \cap u[k].targets = {}
    BY <2>1, <2>2 DEF Apart
  <2>5. Apart(u)
    BY <2>0, <2>1, <2>3, <2>4 DEF Apart
  <2> QED
    BY <2>5 DEF u
<1> QED
  BY <1>1, <1>2

(* Updated gives the target its labels and keeps those of all others.        *)
LEMMA UpdatedLabels ==
  ASSUME NEW g \in Seq(TargetGroup), NEW j \in Job
  PROVE  /\ Labelled(Updated(g, j), j.target, {j.labels})
         /\ \A t : \A L : t # j.target /\ Labelled(g, t, L) => Labelled(Updated(g, j), t, L)
<1>1. CASE j.target \in Listed(g)
  <2>1. \A i \in DOMAIN g : j.target \in g[i].targets =>
          {j.labels} \subseteq {None, Relabelled(g[i], j).labels}
    <3> SUFFICES ASSUME NEW i \in DOMAIN g, j.target \in g[i].targets
                 PROVE  j.labels \in {None, Relabelled(g[i], j).labels}
      OBVIOUS
    <3>1. g[i] \in TargetGroup
      BY ElementOfSeq, LenProperties
    <3> QED
      BY <3>1 DEF Relabelled, TargetGroup
  <2>2. \A i \in DOMAIN g : j.target \notin g[i].targets => Relabelled(g[i], j) = g[i]
    BY DEF Relabelled
  <2> QED
    BY <1>1, <2>1, <2>2, UpdatedInPlace DEF Labelled
<1>2. CASE j.target \notin Listed(g)
  <2> DEFINE P == Parsed(g)
             u == Updated(g, j)
  <2>1. /\ Len(P) \in Nat /\ DOMAIN P = 1 .. Len(P) /\ DOMAIN u = 1 .. Len(P) + 1
        /\ \A i \in 1 .. Len(P) : u[i] = P[i]
        /\ u[Len(P) + 1] = Group(j.target, j.labels)
    BY <1>2, UpdatedAtEnd
  <2>0. Group(j.target, j.labels).targets = {j.target} /\ Group(j.target, j.labels).labels = j.labels
    BY DEF Group
  <2>2. Listed(P) = Listed(g)
    BY ParsedFacts
  <2>3. \A t : \A L : Labelled(g, t, L) => Labelled(P, t, L)
    BY ParsedFacts
  <2> HIDE DEF P, u
  <2>4. \A i \in 1 .. Len(P) : j.target \notin u[i].targets
    BY <1>2, <2>1, <2>2, ListedMember
  <2>5. Labelled(u, j.target, {j.labels})
    BY <2>0, <2>1, <2>4 DEF Labelled
  <2>6. ASSUME NEW t, NEW L, t # j.target, Labelled(P, t, L)
        PROVE  Labelled(u, t, L)
    <3> SUFFICES ASSUME NEW i \in DOMAIN u, u[i].targets = {t}
                 PROVE  L \subseteq {None, u[i].labels}
      BY DEF Labelled
    <3>1. i # Len(P) + 1
      BY <2>0, <2>1, <2>6
    <3>2. i \in DOMAIN P /\ u[i] = P[i]
      BY <2>1, <3>1
    <3> QED
      BY <2>6, <3>2 DEF Labelled
  <2> QED
    BY <2>3, <2>5, <2>6 DEF u
<1> QED
  BY <1>1, <1>2
-----------------------------------------------------------------------------
(* TypeOK, and that a process that waits has nothing in hand.                *)
LEMMA TypeInductive ==
  ASSUME TypeOK, [Next]_vars
  PROVE  TypeOK'
<1> USE ExporterAssumption
<1>1. ASSUME NEW p \in Process, Begin(p)
      PROVE  TypeOK'
  BY <1>1 DEF Begin, TypeOK
<1>2. ASSUME NEW p \in Process, Download(p)
      PROVE  TypeOK'
  <2>1. job[p] \in Job
    BY <1>2 DEF Download, TypeOK, Job
  <2>2. Updated(file, job[p]) \in Seq(TargetGroup)
    BY <2>1, UpdatedLists DEF TypeOK
  <2>3. << >> \in Seq(TargetGroup)
    BY EmptySeq
  <2> HIDE DEF Updated
  <2>4. CASE End(p)
    BY <1>2, <2>3, <2>4 DEF Download, End, TypeOK
  <2>5. CASE /\ pc' = [pc EXCEPT ![p] = "upload"] /\ UNCHANGED job
             /\ text' = [text EXCEPT ![p] = Updated(file, job[p])]
    BY <1>2, <2>2, <2>5 DEF Download, TypeOK
  <2> QED
    BY <1>2, <2>4, <2>5 DEF Download
<1>3. ASSUME NEW p \in Process, Open(p)
      PROVE  TypeOK'
  BY <1>3, EmptySeq DEF Open, TypeOK
<1>4. ASSUME NEW p \in Process, End(p), UNCHANGED <<runs, tangled>>, disturbed' \in BOOLEAN,
             file' \in Seq(TargetGroup), latest' \in [Target -> SUBSET (Label \cup {None})]
      PROVE  TypeOK'
  BY <1>4, EmptySeq DEF End, TypeOK
<1>5. ASSUME NEW p \in Process, pc[p] = "write", Finish(p)
      PROVE  file' \in Seq(TargetGroup) /\ latest' \in [Target -> SUBSET (Label \cup {None})]
  <2>1. job[p].target \in Target /\ job[p].labels \in Label \cup {None}
    BY <1>5 DEF TypeOK
  <2>2. Len(text[p]) \in Nat /\ Len(file) \in Nat
        /\ \A i \in Len(text[p]) + 1 .. Len(file) : file[i] \in TargetGroup
    BY LenProperties, ElementOfSeq DEF TypeOK
  <2>3. Beneath(p) \in Seq(TargetGroup)
    BY <2>2, SubSeqProperties DEF Beneath
  <2>4. text[p] \o Beneath(p) \in Seq(TargetGroup) /\ << >> \in Seq(TargetGroup)
    BY <2>3, ConcatProperties, EmptySeq DEF TypeOK
  <2> QED
    BY <1>5, <2>1, <2>4 DEF Finish, Written, TypeOK
<1>6. ASSUME NEW p \in Process, Write(p)
      PROVE  TypeOK'
  BY <1>4, <1>5, <1>6 DEF Write, TypeOK
<1>7. ASSUME NEW p \in Process, Kill(p)
      PROVE  TypeOK'
  BY <1>4, <1>5, <1>7 DEF Kill, TypeOK
<1>8. ASSUME NEW p \in Process, Cut(p)
      PROVE  TypeOK'
  <2>1. Len(text[p]) \in Nat /\ \A i \in 1 .. Len(text[p]) : text[p][i] \in TargetGroup
    BY LenProperties, ElementOfSeq DEF TypeOK
  <2>2. \A n \in 0 .. Len(text[p]) - 1 : SubSeq(text[p], 1, n) \in Seq(TargetGroup)
    BY <2>1, SubSeqProperties
  <2> QED
    BY <1>4, <1>8, <2>2 DEF Cut, TypeOK
<1>9. CASE UNCHANGED vars
  BY <1>9 DEF vars, TypeOK
<1> QED
  BY <1>1, <1>2, <1>3, <1>6, <1>7, <1>8, <1>9 DEF Next

LEMMA InitTyped == Init => TypeOK
<1> SUFFICES ASSUME Init PROVE TypeOK
  OBVIOUS
<1>1. << >> \in Seq(TargetGroup) /\ \A g \in ByHand : <<g>> \in Seq(TargetGroup)
  <2>1. \A g \in ByHand : g \in TargetGroup
    BY ExporterAssumption DEF TargetGroup
  <2>2. \A g \in TargetGroup : <<g>> \in Seq(TargetGroup)
    OBVIOUS
  <2> QED
    BY <2>1, <2>2, EmptySeq
<1>2. file \in Seq(TargetGroup) /\ text \in [Process -> Seq(TargetGroup)]
  BY <1>1 DEF Init
<1>3. latest \in [Target -> SUBSET (Label \cup {None})]
  BY DEF Init
<1>4. runs \in 0 .. MaxRun /\ disturbed \in BOOLEAN /\ tangled \in BOOLEAN
  <2>1. MaxRun \in Nat
    BY ExporterAssumption
  <2>2. runs \in 0 .. MaxRun
    BY <2>1 DEF Init
  <2>3. disturbed \in BOOLEAN /\ tangled \in BOOLEAN
    BY DEF Init
  <2> QED
    BY <2>2, <2>3
<1>5. \A p \in Process : pc[p] = "idle" /\ job[p] = None
  BY DEF Init
<1>6. pc \in [Process -> {"idle", "download", "upload", "write"}]
      /\ job \in [Process -> {None} \cup [target : Target, labels : Label \cup {None}, force : BOOLEAN]]
  BY DEF Init
<1> QED
  BY <1>2, <1>3, <1>4, <1>5, <1>6 DEF TypeOK

(* Every variable keeps its type, for any number of processes and faults.    *)
THEOREM ExporterTypeCorrect == Spec => []TypeOK
<1>1. Init => TypeOK
  BY InitTyped
<1>2. TypeOK /\ [Next]_vars => TypeOK'
  BY TypeInductive
<1> QED
  BY <1>1, <1>2, PTL DEF Spec
-----------------------------------------------------------------------------
(* A process that opens the file empties it, so that as long as no other is  *)
(* writing it ends with the text of one process, whatever happens to it.     *)
Untangled ==
  ~tangled =>
    /\ Apart(file)
    /\ \A p \in Process : Apart(text[p])
    /\ \A p \in Process : pc[p] = "write" => file = << >>
    /\ \A p, q \in Process : pc[p] = "write" /\ pc[q] = "write" => p = q

(* What a process writes on a file that is empty is its text.                *)
LEMMA WrittenOnEmpty ==
  ASSUME TypeOK, NEW p \in Process, file = << >>
  PROVE  Written(p) = {text[p]}
<1>1. text[p] \in Seq(TargetGroup) /\ Len(text[p]) \in Nat /\ Len(file) = 0
  BY LenProperties, EmptySeq DEF TypeOK
<1>2. Beneath(p) = << >>
  BY <1>1, SubSeqEmpty DEF Beneath
<1>3. text[p] \o << >> = text[p]
  BY <1>1, ConcatEmptySeq
<1> QED
  BY <1>2, <1>3 DEF Written

(* The first groups of a text are apart when all are.                        *)
LEMMA PrefixApart ==
  ASSUME NEW s \in Seq(TargetGroup), Apart(s), NEW n \in 0 .. Len(s) - 1
  PROVE  Apart(SubSeq(s, 1, n))
<1>1. Len(s) \in Nat /\ DOMAIN s = 1 .. Len(s) /\ \A i \in 1 .. n : s[i] \in TargetGroup
  BY LenProperties, ElementOfSeq
<1>2. /\ SubSeq(s, 1, n) \in Seq(TargetGroup)
      /\ Len(SubSeq(s, 1, n)) = IF 1 <= n THEN n - 1 + 1 ELSE 0
      /\ \A i \in 1 .. n - 1 + 1 : SubSeq(s, 1, n)[i] = s[1 + i - 1]
  BY <1>1, SubSeqProperties
<1>3. DOMAIN SubSeq(s, 1, n) = 1 .. n /\ \A i \in 1 .. n : SubSeq(s, 1, n)[i] = s[i]
  BY <1>1, <1>2, LenProperties
<1> QED
  BY <1>1, <1>3 DEF Apart

LEMMA UntangledInductive ==
  ASSUME TypeOK, Untangled, [Next]_vars
  PROVE  Untangled'
<1>a. Apart(<< >>)
  BY DEF Apart
<1>1. ASSUME NEW p \in Process, Begin(p)
      PROVE  Untangled'
  BY <1>1 DEF Begin, Untangled, TypeOK, Apart
<1>2. ASSUME NEW p \in Process, Download(p)
      PROVE  Untangled'
  <2>1. job[p] \in Job /\ file \in Seq(TargetGroup)
    BY <1>2 DEF Download, TypeOK, Job
  <2>2. ~tangled => Apart(Updated(file, job[p]))
    BY <2>1, UpdatedApart DEF Untangled
  <2> HIDE DEF Updated, Apart
  <2>3. file' = file /\ tangled' = tangled /\ pc'[p] # "write"
        /\ \A q \in Process : q # p => pc'[q] = pc[q] /\ text'[q] = text[q]
    BY <1>2 DEF Download, End, TypeOK
  <2>6. text'[p] = << >> \/ text'[p] = Updated(file, job[p])
    BY <1>2 DEF Download, End, TypeOK
  <2>4. ~tangled => \A q \in Process : Apart(text'[q])
    <3> SUFFICES ASSUME ~tangled, NEW q \in Process PROVE Apart(text'[q])
      OBVIOUS
    <3>1. Apart(text[q])
      BY DEF Untangled
    <3>2. CASE q = p
      <4>1. text'[q] = << >> \/ text'[q] = Updated(file, job[p])
        BY <2>6, <3>2
      <4> QED
        BY <1>a, <2>2, <4>1
    <3>3. CASE q # p
      BY <2>3, <3>1, <3>3
    <3> QED
      BY <3>2, <3>3
  <2>5. ~tangled => Apart(file')
    BY <2>3 DEF Untangled
  <2> QED
    BY <2>3, <2>4, <2>5 DEF Untangled
<1>3. ASSUME NEW p \in Process, Open(p)
      PROVE  Untangled'
  <2>1. /\ file' = << >> /\ text' = text /\ pc' = [pc EXCEPT ![p] = "write"]
        /\ tangled' = (tangled \/ \E q \in Process : pc[q] = "write")
    BY <1>3 DEF Open
  <2> QED
    BY <1>a, <2>1 DEF Untangled, TypeOK
<1>4. ASSUME NEW p \in Process, pc[p] = "write", End(p), UNCHANGED tangled, Apart(file')
      PROVE  Untangled'
  <2>1. /\ pc' = [pc EXCEPT ![p] = "idle"] /\ text' = [text EXCEPT ![p] = << >>]
    BY <1>4 DEF End
  <2> QED
    BY <1>a, <1>4, <2>1 DEF Untangled, TypeOK
<1>5. ASSUME NEW p \in Process, pc[p] = "write", End(p), UNCHANGED tangled, Finish(p)
      PROVE  Untangled'
  <2>1. CASE tangled
    BY <1>5, <2>1 DEF Untangled
  <2>2. CASE ~tangled
    <3>1. file = << >> /\ Apart(text[p])
      BY <1>5, <2>2 DEF Untangled
    <3>2. file' = text[p]
      BY <1>5, <3>1, WrittenOnEmpty DEF Finish
    <3> QED
      BY <1>4, <1>5, <3>1, <3>2
  <2> QED
    BY <2>1, <2>2
<1>6. ASSUME NEW p \in Process, Write(p)
      PROVE  Untangled'
  BY <1>5, <1>6 DEF Write
<1>7. ASSUME NEW p \in Process, Kill(p)
      PROVE  Untangled'
  <2>1. CASE pc[p] = "write"
    BY <1>5, <1>7, <2>1 DEF Kill
  <2>2. CASE pc[p] # "write"
    <3>1. /\ pc' = [pc EXCEPT ![p] = "idle"] /\ text' = [text EXCEPT ![p] = << >>]
          /\ file' = file /\ tangled' = tangled
      BY <1>7, <2>2 DEF Kill, End
    <3> QED
      BY <1>a, <3>1 DEF Untangled, TypeOK
  <2> QED
    BY <2>1, <2>2
<1>8. ASSUME NEW p \in Process, Cut(p)
      PROVE  Untangled'
  <2>1. pc[p] = "write" /\ End(p) /\ UNCHANGED tangled
    BY <1>8 DEF Cut
  <2>2. CASE tangled
    BY <2>1, <2>2 DEF Untangled
  <2>3. CASE ~tangled
    <3>1. PICK n \in 0 .. Len(text[p]) - 1 : file' = SubSeq(text[p], 1, n)
      BY <1>8 DEF Cut
    <3>2. text[p] \in Seq(TargetGroup) /\ Apart(text[p])
      BY <2>3 DEF TypeOK, Untangled
    <3> QED
      BY <1>4, <2>1, <3>1, <3>2, PrefixApart
  <2> QED
    BY <2>2, <2>3
<1>9. CASE UNCHANGED vars
  BY <1>9 DEF vars, Untangled
<1> QED
  BY <1>1, <1>2, <1>3, <1>6, <1>7, <1>8, <1>9 DEF Next

(* As long as no two processes have written at a time no target is listed    *)
(* twice, whoever was killed and whatever was cut short.                     *)
THEOREM NoTargetTwice == Spec => []NoDuplicates
<1>1. Init => Untangled
  <2> SUFFICES ASSUME Init PROVE Untangled
    OBVIOUS
  <2>1. Apart(<< >>) /\ \A g : Apart(<<g>>)
    BY DEF Apart
  <2> QED
    BY <2>1 DEF Init, Untangled
<1>2. TypeOK /\ Untangled /\ [Next]_vars => Untangled'
  BY UntangledInductive
<1>3. Untangled => NoDuplicates
  BY DEF Untangled, NoDuplicates, Apart
<1> QED
  BY <1>1, <1>2, <1>3, ExporterTypeCorrect, PTL DEF Spec
-----------------------------------------------------------------------------
(* Registrations that do not overlap: the file lists what was registered and *)
(* says what was said last, and the text of the one that runs does too.      *)
Intended(p, t) == IF t = job[p].target THEN {job[p].labels} ELSE latest[t]

Prepared(p) ==
  /\ Registered \cup {job[p].target} \subseteq Listed(text[p])
  /\ \A t \in Target : Labelled(text[p], t, Intended(p, t))

Alone ==
  ~disturbed =>
    /\ \A p, q \in Process : pc[p] # "idle" /\ pc[q] # "idle" => p = q
    /\ \A p \in Process : pc[p] = "write" => file = << >>
    /\ \A p \in Process : pc[p] \in {"upload", "write"} => Prepared(p)
    /\ ~Writing => Registered \subseteq Listed(file)
    /\ \A t \in Target : Labelled(file, t, latest[t])

LEMMA AloneInductive ==
  ASSUME TypeOK, Alone, [Next]_vars
  PROVE  Alone'
<1> SUFFICES ASSUME ~disturbed'
             PROVE  Alone'
  BY DEF Alone
<1>a. \A t, L : Labelled(<< >>, t, L)
  BY DEF Labelled
<1>1. ASSUME NEW p \in Process, Begin(p)
      PROVE  Alone'
  <2>1. /\ pc' = [pc EXCEPT ![p] = "download"] /\ file' = file /\ text' = text /\ latest' = latest
        /\ ~disturbed /\ \A q \in Process : pc[q] = "idle"
    BY <1>1 DEF Begin, Running
  <2>2. /\ Registered \subseteq Listed(file)
        /\ \A t \in Target : Labelled(file, t, latest[t])
    BY <2>1 DEF Alone, Writing
  <2>3. \A q \in Process : pc'[q] = IF q = p THEN "download" ELSE "idle"
    BY <2>1 DEF TypeOK
  <2> HIDE DEF Listed, Labelled
  <2> QED
    BY <2>1, <2>2, <2>3 DEF Alone, Registered, Writing
<1>2. ASSUME NEW p \in Process, Download(p)
      PROVE  Alone'
  <2>1. /\ pc[p] = "download" /\ file' = file /\ latest' = latest /\ ~disturbed
    BY <1>2 DEF Download
  <2>2. \A q \in Process : q # p => pc[q] = "idle"
    BY <2>1 DEF Alone
  <2>3. /\ ~Writing /\ Registered \subseteq Listed(file)
        /\ \A t \in Target : Labelled(file, t, latest[t])
    BY <2>1, <2>2 DEF Alone, Writing
  <2>4. CASE End(p)
    <3>1. \A q \in Process : pc'[q] = "idle"
      BY <2>2, <2>4 DEF End, TypeOK
    <3> HIDE DEF Listed, Labelled
    <3> QED
      BY <2>1, <2>3, <3>1 DEF Alone, Registered, Writing
  <2>5. CASE /\ pc' = [pc EXCEPT ![p] = "upload"] /\ UNCHANGED job
             /\ text' = [text EXCEPT ![p] = Updated(file, job[p])]
    <3>1. \A q \in Process : pc'[q] = IF q = p THEN "upload" ELSE "idle"
      BY <2>2, <2>5 DEF TypeOK
    <3>2. job[p] \in Job /\ file \in Seq(TargetGroup)
      BY <2>1 DEF TypeOK, Job
    <3>3. text'[p] = Updated(file, job[p]) /\ job'[p] = job[p]
      BY <2>5 DEF TypeOK
    <3>4. Listed(text'[p]) = Listed(file) \cup {job[p].target}
      BY <3>2, <3>3, UpdatedLists
    <3>5. \A t \in Target : Labelled(text'[p], t, IF t = job[p].target THEN {job[p].labels} ELSE latest[t])
      BY <2>3, <3>2, <3>3, UpdatedLabels
    <3>6. Prepared(p)'
      BY <2>1, <2>3, <3>3, <3>4, <3>5 DEF Prepared, Intended, Registered
    <3>7. /\ ~Writing' /\ (Registered \subseteq Listed(file))'
          /\ (\A t \in Target : Labelled(file, t, latest[t]))'
      BY <2>1, <2>3, <3>1 DEF Writing, Registered
    <3> HIDE DEF Prepared, Listed, Labelled
    <3>8. \A q \in Process : pc'[q] \in {"upload", "write"} => q = p
      BY <3>1
    <3>9. (\A q \in Process : pc[q] \in {"upload", "write"} => Prepared(q))'
      BY <3>6, <3>8
    <3> QED
      BY <3>1, <3>7, <3>9 DEF Alone
  <2> QED
    BY <1>2, <2>4, <2>5 DEF Download
<1>3. ASSUME NEW p \in Process, Open(p)
      PROVE  Alone'
  <2>1. /\ pc[p] = "upload" /\ file' = << >> /\ text' = text /\ job' = job /\ latest' = latest /\ ~disturbed
        /\ pc' = [pc EXCEPT ![p] = "write"]
    BY <1>3 DEF Open
  <2>2. Prepared(p) /\ \A q \in Process : q # p => pc[q] = "idle"
    BY <2>1 DEF Alone
  <2>3. \A q \in Process : pc'[q] = IF q = p THEN "write" ELSE "idle"
    BY <2>1, <2>2 DEF TypeOK
  <2>4. Prepared(p)'
    BY <2>1, <2>2 DEF Prepared, Intended, Registered
  <2>5. Writing' /\ (\A t \in Target : Labelled(file, t, latest[t]))'
    BY <1>a, <2>1, <2>3 DEF Writing
  <2>6. \A q \in Process : pc'[q] \in {"upload", "write"} => q = p
    BY <2>3
  <2> HIDE DEF Prepared
  <2>7. (\A q \in Process : pc[q] \in {"upload", "write"} => Prepared(q))'
    BY <2>4, <2>6
  <2> QED
    BY <2>1, <2>3, <2>5, <2>7 DEF Alone
<1>4. ASSUME NEW p \in Process, pc[p] = "write", End(p), UNCHANGED disturbed, Finish(p)
      PROVE  Alone'
  <2>1. /\ file = << >> /\ Prepared(p) /\ \A q \in Process : q # p => pc[q] = "idle"
    BY <1>4 DEF Alone
  <2>2. file' = text[p] /\ latest' = [latest EXCEPT ![job[p].target] = {job[p].labels}]
    BY <1>4, <2>1, WrittenOnEmpty DEF Finish
  <2>3. \A q \in Process : pc'[q] = "idle"
    BY <1>4, <2>1 DEF End, TypeOK
  <2>4. job[p].target \in Target /\ \A t \in Target : latest'[t] = Intended(p, t)
    BY <1>4, <2>2 DEF TypeOK, Intended
  <2>5. (Registered \subseteq Listed(file))'
    BY <2>1, <2>2, <2>4 DEF Prepared, Registered, Intended
  <2>6. (\A t \in Target : Labelled(file, t, latest[t]))'
    BY <2>1, <2>2, <2>4 DEF Prepared
  <2> QED
    BY <2>3, <2>5, <2>6 DEF Alone
<1>5. ASSUME NEW p \in Process, Write(p)
      PROVE  Alone'
  BY <1>4, <1>5 DEF Write
<1>6. ASSUME NEW p \in Process, Kill(p)
      PROVE  Alone'
  <2>1. CASE pc[p] = "write"
    BY <1>4, <1>6, <2>1 DEF Kill
  <2>2. CASE pc[p] # "write"
    <3>1. /\ pc[p] # "idle" /\ pc' = [pc EXCEPT ![p] = "idle"] /\ file' = file /\ latest' = latest /\ ~disturbed
      BY <1>6, <2>2 DEF Kill, End
    <3>2. \A q \in Process : q # p => pc[q] = "idle"
      BY <3>1 DEF Alone
    <3>3. /\ Registered \subseteq Listed(file)
          /\ \A t \in Target : Labelled(file, t, latest[t])
      BY <2>2, <3>1, <3>2 DEF Alone, Writing
    <3>4. \A q \in Process : pc'[q] = "idle"
      BY <3>1, <3>2 DEF TypeOK
    <3> HIDE DEF Listed, Labelled
    <3> QED
      BY <3>1, <3>3, <3>4 DEF Alone, Registered
  <2> QED
    BY <2>1, <2>2
<1>7. ASSUME NEW p \in Process, Cut(p)
      PROVE  FALSE
  BY <1>7 DEF Cut
<1>8. CASE UNCHANGED vars
  BY <1>8 DEF vars, Alone, Prepared, Intended, Registered, Writing
<1> QED
  BY <1>1, <1>2, <1>3, <1>5, <1>6, <1>7, <1>8 DEF Next

LEMMA AlwaysAlone == Spec => []Alone
<1>1. Init => Alone
  <2> SUFFICES ASSUME Init PROVE Alone
    OBVIOUS
  <2>1. /\ \A p \in Process : pc[p] = "idle"
        /\ latest = [t \in Target |-> IF t \in Listed(file) THEN {None} ELSE {}]
    BY DEF Init
  <2>2. Registered \subseteq Listed(file)
    BY <2>1 DEF Registered
  <2>3. \A t \in Target : Labelled(file, t, latest[t])
    BY <2>1 DEF Labelled
  <2> QED
    BY <2>1, <2>2, <2>3 DEF Alone
<1>2. TypeOK /\ Alone /\ [Next]_vars => Alone'
  BY AloneInductive
<1> QED
  BY <1>1, <1>2, ExporterTypeCorrect, PTL DEF Spec

(* As long as registrations do not overlap and no write is cut short, every  *)
(* target that was registered or written by hand is in the file.             *)
THEOREM NoTargetLost == Spec => []RegisteredStay
<1>1. Alone => RegisteredStay
  BY DEF Alone, RegisteredStay
<1> QED
  BY <1>1, AlwaysAlone, PTL

(* And a target in a group of its own has the labels it was last given.      *)
THEOREM LabelsAreLatest == Spec => []LatestLabels
<1>1. Alone => LatestLabels
  BY DEF Alone, LatestLabels, Labelled
<1> QED
  BY <1>1, AlwaysAlone, PTL
=============================================================================
