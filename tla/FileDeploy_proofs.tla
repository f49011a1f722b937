------------------------- MODULE FileDeploy_proofs -------------------------
(***************************************************************************)
(* Theorems about FileDeploy, for every set of paths and versions.         *)
(***************************************************************************)
EXTENDS FileDeploy, FiniteSetTheorems, TLAPS

LEMMA InitType == Init => TypeOK
<1> SUFFICES ASSUME Init PROVE TypeOK
  OBVIOUS
<1>1. job \in Versions /\ at \in Paths
  BY VersionsAssumption, PathsAssumption DEF Init, Outside
<1>2. Nothing \in [Paths -> Contents]
  BY DEF Nothing, Contents
<1> QED
  BY <1>1, <1>2 DEF Init, TypeOK, PC

LEMMA NextType == TypeOK /\ [Next]_vars => TypeOK'
<1> SUFFICES ASSUME TypeOK, [Next]_vars PROVE TypeOK'
  OBVIOUS
<1> USE DEF TypeOK, PC, InLoop, Goto, Return
<1>0. {Absent, Torn} \subseteq Contents /\ Versions \subseteq Contents
  BY DEF Contents
<1>01. Outside \in Paths
  BY PathsAssumption DEF Outside
<1>1. ASSUME NEW v \in Versions, Start(v) PROVE TypeOK'
  BY <1>1 DEF Start
<1>2. CASE Probe
  BY <1>2 DEF Probe
<1>3. CASE Unprobe
  BY <1>01, <1>3 DEF Unprobe
<1>4. ASSUME NEW p \in Paths, OpenTmp(p) PROVE TypeOK'
  BY <1>0, <1>01, <1>4 DEF OpenTmp
<1>5. CASE WriteTmp
  BY <1>0, <1>01, <1>5 DEF WriteTmp
<1>6. CASE SyncTmp
  BY <1>6 DEF SyncTmp
<1>7. CASE RenameTmp
  <2>1. stored' \in [Paths -> Contents]
    BY <1>0, <1>01, <1>7 DEF RenameTmp
  <2> QED
    BY <1>0, <1>01, <1>7, <2>1 DEF RenameTmp
<1>8. CASE BeginStale
  BY <1>8 DEF BeginStale
<1>9. ASSUME NEW p \in Paths, RemoveFinal(p) PROVE TypeOK'
  BY <1>0, <1>01, <1>9 DEF RemoveFinal
<1>10. ASSUME NEW p \in Paths, RemoveTmp(p) PROVE TypeOK'
  BY <1>0, <1>01, <1>10 DEF RemoveTmp
<1>11. CASE RemoveProbe
  BY <1>11 DEF RemoveProbe
<1>12. CASE Succeed \/ FailOther \/ Crash
  BY <1>01, <1>12 DEF Succeed, FailOther, Crash
<1>13. CASE FailFile
  BY <1>0, <1>01, <1>13 DEF FailFile
<1>14. ASSUME NEW p \in Paths, Flush(p) PROVE TypeOK'
  BY <1>14 DEF Flush
<1>15. CASE PowerLoss
  <2>1. tmp' \in [Paths -> Contents]
    BY <1>0, <1>15 DEF PowerLoss
  <2>2. synced' \in [Paths -> BOOLEAN] /\ probe' \in BOOLEAN
    BY <1>15 DEF PowerLoss
  <2> QED
    BY <1>01, <1>15, <2>1, <2>2 DEF PowerLoss
<1>16. ASSUME NEW p \in Paths, FailOpen(p) PROVE TypeOK'
  BY <1>0, <1>01, <1>16 DEF FailOpen
<1>17. CASE UNCHANGED vars
  BY <1>17 DEF vars
<1> QED
  BY <1>1, <1>2, <1>3, <1>4, <1>5, <1>6, <1>7, <1>8, <1>9, <1>10, <1>11,
     <1>12, <1>13, <1>14, <1>15, <1>16, <1>17 DEF Next, DeployStep

\* Files, temporaries and the program counter keep their types.
THEOREM FileTypeCorrect == Spec => []TypeOK
BY InitType, NextType, PTL DEF Spec

----------------------------------------------------------------------------
(* NoTornFile alone is not inductive: a rename publishes what the          *)
(* temporary holds, and power loss what the disk holds.                    *)

FileInv == NoTornFile /\ RenamesSynced

LEMMA InitFile == Init => FileInv
BY DEF Init, FileInv, NoTornFile, RenamesSynced, Nothing, Absent, Torn

LEMMA NextFile == TypeOK /\ FileInv /\ [Next]_vars => FileInv'
<1> SUFFICES ASSUME TypeOK, FileInv, [Next]_vars PROVE FileInv'
  OBVIOUS
<1> USE DEF FileInv, NoTornFile, RenamesSynced, Goto, Return
<1>0. Absent # Torn /\ Torn \notin Versions
  BY ContentsAssumption DEF Absent, Torn
<1>1. ASSUME NEW v \in Versions, Start(v) PROVE FileInv'
  BY <1>1 DEF Start
<1>2. CASE Probe \/ Unprobe \/ BeginStale \/ RemoveProbe
  BY <1>2 DEF Probe, Unprobe, BeginStale, RemoveProbe
<1>3. ASSUME NEW p \in Paths, OpenTmp(p) PROVE FileInv'
  BY <1>3 DEF OpenTmp
<1>4. CASE WriteTmp
  BY <1>4 DEF WriteTmp, TypeOK
<1>5. CASE SyncTmp
  BY <1>5 DEF SyncTmp, TypeOK
<1>6. CASE RenameTmp
  <2>1. tmp[at] # Torn /\ synced[at]
    BY <1>0, <1>6 DEF RenameTmp, TypeOK
  <2>2. \A p \in Paths : final'[p] # Torn /\ stored'[p] # Torn
    BY <1>6, <2>1 DEF RenameTmp, TypeOK
  <2> QED
    BY <1>6, <2>2 DEF RenameTmp
<1>7. ASSUME NEW p \in Paths, RemoveFinal(p) PROVE FileInv'
  BY <1>0, <1>7 DEF RemoveFinal, TypeOK
<1>8. ASSUME NEW p \in Paths, RemoveTmp(p) PROVE FileInv'
  BY <1>8 DEF RemoveTmp
<1>9. CASE Succeed \/ FailFile \/ FailOther \/ Crash
  BY <1>9 DEF Succeed, FailFile, FailOther, Crash
<1>10. ASSUME NEW p \in Paths, Flush(p) PROVE FileInv'
  BY <1>10 DEF Flush, TypeOK
<1>11. CASE PowerLoss
  BY <1>11 DEF PowerLoss
<1>12. ASSUME NEW p \in Paths, FailOpen(p) PROVE FileInv'
  BY <1>12 DEF FailOpen
<1>13. CASE UNCHANGED vars
  BY <1>13 DEF vars
<1> QED
  BY <1>1, <1>2, <1>3, <1>4, <1>5, <1>6, <1>7, <1>8, <1>9, <1>10, <1>11,
     <1>12, <1>13 DEF Next, DeployStep

\* Whatever call fails, and whenever the process dies or power is lost, no
\* reader of the directory finds a file with part of its content.
THEOREM NeverTorn == Spec => []NoTornFile
<1>1. FileInv => NoTornFile
  BY DEF FileInv
<1> QED
  BY <1>1, InitFile, NextFile, FileTypeCorrect, PTL DEF Spec

----------------------------------------------------------------------------
(* Where the loop and the walk stand.  NoGap and SuccessIsExact need to    *)
(* know what a path holds by whether it was written; only a running call   *)
(* is described, so a crash and power loss leave nothing to prove.         *)

Progress ==
  /\ pc # "idle" => written \subseteq Files[job]
  /\ pc \in {"probe", "unprobe"} => written = {}
  /\ pc \in {"write", "sync", "rename"} => at \in Files[job] \ written
  /\ pc = "stale" => written = Files[job]

Served ==
  pc # "idle" =>
    \A p \in Paths :
      IF p \in written THEN final[p] = job
      ELSE final[p] = base[p] \/ (pc = "stale" /\ final[p] = Absent)

ReplaceInv == Progress /\ Served

LEMMA InitReplace == Init => ReplaceInv
BY DEF Init, ReplaceInv, Progress, Served

LEMMA NextReplace ==
  TypeOK /\ RenamesSynced /\ ReplaceInv /\ [Next]_vars => ReplaceInv'
<1> SUFFICES ASSUME TypeOK, RenamesSynced, ReplaceInv, [Next]_vars
             PROVE  ReplaceInv'
  OBVIOUS
<1> USE DEF ReplaceInv, Progress, Served, Goto
<1>0. Files[job] \subseteq Paths /\ final \in [Paths -> Contents]
  BY FilesAssumption DEF TypeOK
<1>1. CASE pc' = "idle"
  BY <1>1
<1>2. ASSUME NEW v \in Versions, Start(v) PROVE ReplaceInv'
  BY <1>2 DEF Start
<1>3. CASE Probe \/ Unprobe \/ SyncTmp \/ RemoveProbe \/ WriteTmp
  BY <1>1, <1>3 DEF Probe, Unprobe, SyncTmp, RemoveProbe, WriteTmp, Return
<1>4. ASSUME NEW p \in Paths, OpenTmp(p) \/ RemoveTmp(p) PROVE ReplaceInv'
  BY <1>4 DEF OpenTmp, RemoveTmp
<1>5. CASE RenameTmp
  <2>1. tmp[at] = job /\ at \in Files[job] \ written /\ at \in Paths
    BY <1>5 DEF RenameTmp, RenamesSynced, TypeOK
  <2>2. /\ \A p \in Paths : final'[p] = IF p = at THEN job ELSE final[p]
        /\ written' = written \cup {at}
        /\ job' = job /\ base' = base /\ pc = "rename" /\ pc' = "next"
    BY <1>0, <1>5, <2>1 DEF RenameTmp
  <2> QED
    BY <2>1, <2>2
<1>6. CASE BeginStale
  BY <1>6 DEF BeginStale
<1>7. ASSUME NEW p \in Paths, RemoveFinal(p) PROVE ReplaceInv'
  BY <1>0, <1>7 DEF RemoveFinal
<1>8. ASSUME NEW p \in Paths, Flush(p) PROVE ReplaceInv'
  BY <1>8 DEF Flush
<1>9. CASE Succeed \/ FailFile \/ FailOther \/ Crash \/ PowerLoss
           \/ \E p \in Paths : FailOpen(p)
  BY <1>1, <1>9 DEF Succeed, FailFile, FailOther, Crash, PowerLoss, FailOpen,
                    Return
<1>10. CASE UNCHANGED vars
  BY <1>10 DEF vars
<1> QED
  BY <1>2, <1>3, <1>4, <1>5, <1>6, <1>7, <1>8, <1>9, <1>10 DEF Next, DeployStep

LEMMA ReplaceInvariant == Spec => [](TypeOK /\ FileInv /\ ReplaceInv)
<1>1. TypeOK /\ FileInv /\ ReplaceInv /\ [Next]_vars
        => (FileInv /\ ReplaceInv)'
  BY NextFile, NextReplace DEF FileInv
<1> QED
  BY <1>1, InitFile, InitReplace, FileTypeCorrect, PTL DEF Spec

\* While Deploy runs, whatever the interruptions before it have left, a path
\* that both versions have is always there, one of the old version stays until
\* all of the new one is in place, and each file is the old or the new one.
THEOREM ServedWithoutGap == Spec => []NoGap
<1>1. TypeOK /\ ReplaceInv => NoGap
  <2> SUFFICES ASSUME TypeOK, ReplaceInv, pc # "idle", NEW p \in Paths
               PROVE  /\ base[p] # Absent
                           /\ (p \in Files[job] \/ ~(Files[job] \subseteq written))
                           => final[p] # Absent
                      /\ final[p] \in {base[p], job, Absent}
    BY DEF NoGap
  <2>1. job # Absent
    BY ContentsAssumption DEF TypeOK
  <2> QED
    BY <2>1 DEF ReplaceInv, Progress, Served
<1> QED
  BY <1>1, ReplaceInvariant, PTL

\* When Deploy returns nil the directory is the version, nothing less and
\* nothing more, whatever earlier attempts and crashes had left in it.
THEOREM SuccessExact == Spec => SuccessIsExact
<1> DEFINE Exact == Succeed => IsVersion(job) /\ Clean
<1>1. TypeOK /\ ReplaceInv /\ [Next]_vars => [Exact]_vars
  <2> SUFFICES ASSUME TypeOK, ReplaceInv, Succeed
               PROVE  IsVersion(job) /\ Clean
    OBVIOUS
  <2>1. /\ pc = "stale" /\ ~probe
        /\ \A p \in Paths \ written : final[p] = Absent
        /\ \A p \in Paths : tmp[p] = Absent
    BY DEF Succeed, LeftToRemove
  <2>2. IsVersion(job)
    BY <2>1 DEF ReplaceInv, Progress, Served, IsVersion, Holds
  <2>3. tmp = Nothing
    BY <2>1 DEF TypeOK, Nothing
  <2> QED
    BY <2>1, <2>2, <2>3 DEF Clean
<1> QED
  BY <1>1, ReplaceInvariant, PTL DEF Spec, SuccessIsExact

----------------------------------------------------------------------------
(* How much a call of Deploy can still do.  Every step of the call lowers  *)
(* this bound and nothing but the start of a call raises it, so a call     *)
(* that goes on returns: with the fairness of FairSpec this is why         *)
(* DeployReturns holds.  The count of what the walk may have to remove     *)
(* enters when the loop begins, for the loop adds to it.                   *)

N == Cardinality(Paths)
Left == Files[job] \ written
Finals == {p \in Paths \ written : final[p] # Absent}
Temps == {p \in Paths : tmp[p] # Absent}
Removals == Cardinality(Finals) + Cardinality(Temps) + (IF probe THEN 1 ELSE 0)

\* The walk and the return, and one more for the step that begins the walk
WalkBound == 2 * N + 3

Work ==
  CASE pc = "idle" -> 0
    [] pc = "probe" -> WalkBound + 4 * N + 2
    [] pc = "unprobe" -> WalkBound + 4 * N + 1
    [] pc = "next" -> WalkBound + 4 * Cardinality(Left)
    [] pc = "write" -> WalkBound + 4 * Cardinality(Left) - 1
    [] pc = "sync" -> WalkBound + 4 * Cardinality(Left) - 2
    [] pc = "rename" -> WalkBound + 4 * Cardinality(Left) - 3
    [] pc = "stale" -> Removals + 1

LEMMA Counts ==
  ASSUME NEW S, S \subseteq Paths
  PROVE  /\ IsFiniteSet(S) /\ Cardinality(S) \in Nat /\ N \in Nat
         /\ Cardinality(S) <= N
         /\ \A x \in S : /\ Cardinality(S \ {x}) = Cardinality(S) - 1
                         /\ Cardinality(S) >= 1
<1>1. IsFiniteSet(S) /\ Cardinality(S) <= N
  BY FinitePathsAssumption, FS_Subset DEF N
<1>2. Cardinality(S) \in Nat /\ N \in Nat
  BY <1>1, FinitePathsAssumption, FS_CardinalityType DEF N
<1>3. ASSUME NEW x \in S
      PROVE  Cardinality(S \ {x}) = Cardinality(S) - 1 /\ Cardinality(S) >= 1
  <2>1. IsFiniteSet(S \ {x}) /\ Cardinality(S \ {x}) = Cardinality(S) - 1
    BY <1>1, FS_RemoveElement
  <2>2. Cardinality(S \ {x}) \in Nat
    BY <2>1, FS_CardinalityType
  <2> QED BY <1>2, <2>1, <2>2
<1> QED BY <1>1, <1>2, <1>3

Bounded ==
  /\ Work \in 0 .. 6 * N + 5
  /\ Removals \in 0 .. 2 * N + 1
  /\ Cardinality(Left) \in 0 .. N
  /\ pc # "idle" => Work > 0

LEMMA WorkBounded == TypeOK /\ ReplaceInv => Bounded
<1> SUFFICES ASSUME TypeOK, ReplaceInv PROVE Bounded
  OBVIOUS
<1>1. /\ Cardinality(Left) \in 0 .. N /\ Cardinality(Finals) \in 0 .. N
      /\ Cardinality(Temps) \in 0 .. N /\ N \in Nat
  <2>1. Left \subseteq Paths /\ Finals \subseteq Paths /\ Temps \subseteq Paths
    BY FilesAssumption DEF TypeOK, Left, Finals, Temps
  <2> QED BY <2>1, Counts
<1>2. Removals \in 0 .. 2 * N + 1
  BY <1>1 DEF Removals
<1>3. ASSUME pc \in {"write", "sync", "rename"} PROVE Cardinality(Left) >= 1
  <2>1. at \in Left /\ Left \subseteq Paths
    BY <1>3, FilesAssumption DEF TypeOK, ReplaceInv, Progress, Left
  <2> QED BY <2>1, Counts
<1> QED
  BY <1>1, <1>2, <1>3 DEF Bounded, Work, WalkBound, TypeOK, PC, InLoop

LEMMA AlwaysBounded == Spec => []Bounded
BY WorkBounded, ReplaceInvariant, PTL

LEMMA WalkRemoves ==
  ASSUME TypeOK, ReplaceInv, NEW p \in Paths,
         RemoveFinal(p) \/ RemoveTmp(p) \/ RemoveProbe
  PROVE  Work' < Work
<1> DEFINE F == Cardinality(Finals)
           T == Cardinality(Temps)
           P == IF probe THEN 1 ELSE 0
<1>1. /\ F \in Nat /\ T \in Nat /\ F' \in Nat /\ T' \in Nat
  <2>1. Finals \subseteq Paths /\ Temps \subseteq Paths
    BY DEF Finals, Temps
  <2>2. Finals' \subseteq Paths /\ Temps' \subseteq Paths
    BY DEF Finals, Temps
  <2> QED BY <2>1, <2>2, Counts
<1>2. /\ pc = "stale" /\ pc' = "stale" /\ probe \in BOOLEAN
      /\ Work = Removals + 1 /\ Work' = Removals' + 1
  BY DEF RemoveFinal, RemoveTmp, RemoveProbe, Work, TypeOK
<1>3. Removals = F + T + P /\ Removals' = F' + T' + P'
  BY DEF Removals
<1>4. CASE RemoveFinal(p)
  <2>1. p \in Finals /\ Finals' = Finals \ {p} /\ Finals \subseteq Paths
    BY <1>4 DEF RemoveFinal, Finals, TypeOK
  <2>2. F' = F - 1
    BY <2>1, Counts
  <2>3. T' = T /\ P' = P
    BY <1>4 DEF RemoveFinal, Temps
  <2>4. Removals' = Removals - 1
    <3> HIDE DEF F, T
    <3> QED BY <1>1, <1>3, <2>2, <2>3
  <2> QED BY <1>1, <1>2, <1>3, <2>4
<1>5. CASE RemoveTmp(p)
  <2>1. p \in Temps /\ Temps' = Temps \ {p} /\ Temps \subseteq Paths
    BY <1>5 DEF RemoveTmp, Temps, TypeOK
  <2>2. T' = T - 1
    BY <2>1, Counts
  <2>3. F' = F /\ P' = P
    BY <1>5 DEF RemoveTmp, Finals
  <2>4. Removals' = Removals - 1
    <3> HIDE DEF F, T
    <3> QED BY <1>1, <1>3, <2>2, <2>3
  <2> QED BY <1>1, <1>2, <1>3, <2>4
<1>6. CASE RemoveProbe
  <2>1. F' = F /\ T' = T /\ P = 1 /\ P' = 0
    BY <1>6 DEF RemoveProbe, Finals, Temps
  <2>2. Removals' = Removals - 1
    <3> HIDE DEF F, T
    <3> QED BY <1>1, <1>3, <2>1
  <2> QED BY <1>1, <1>2, <1>3, <2>2
<1> QED BY <1>4, <1>5, <1>6

LEMMA StepWorks ==
  ASSUME TypeOK, ReplaceInv, Bounded, Bounded', DeployStep
  PROVE  Work' < Work
<1> DEFINE L == Cardinality(Left)
<1>1. /\ Work \in 0 .. 6 * N + 5 /\ L \in 0 .. N /\ Removals' \in 0 .. 2 * N + 1
      /\ L' \in 0 .. N /\ N \in Nat /\ (pc # "idle" => Work > 0)
  <2>1. N' = N /\ N \in Nat
    BY Counts DEF N
  <2> QED BY <2>1 DEF Bounded
<1>2. ASSUME pc # "idle", pc' = "idle" PROVE Work' < Work
  <2>1. Work' = 0
    BY <1>2 DEF Work
  <2> QED BY <1>1, <1>2, <2>1
<1>3. CASE Probe
  BY <1>1, <1>3 DEF Probe, Goto, Work, WalkBound
<1>4. CASE Unprobe
  <2>1. CASE pc' = "next"
    BY <1>1, <1>4, <2>1 DEF Unprobe, Work, WalkBound
  <2> QED BY <1>2, <1>4, <2>1 DEF Unprobe, Goto, Return
<1>5. ASSUME NEW p \in Paths, OpenTmp(p) PROVE Work' < Work
  <2>1. L' = L
    BY <1>5 DEF OpenTmp, Left
  <2> QED BY <1>1, <1>5, <2>1 DEF OpenTmp, Goto, Work, WalkBound
<1>6. CASE WriteTmp
  <2>1. L' = L
    BY <1>6 DEF WriteTmp, Left
  <2> QED BY <1>1, <1>6, <2>1 DEF WriteTmp, Goto, Work, WalkBound
<1>7. CASE SyncTmp
  <2>1. L' = L
    BY <1>7 DEF SyncTmp, Left
  <2> QED BY <1>1, <1>7, <2>1 DEF SyncTmp, Goto, Work, WalkBound
<1>8. CASE RenameTmp
  <2>1. at \in Left /\ Left' = Left \ {at} /\ Left \subseteq Paths
    BY <1>8, FilesAssumption
       DEF RenameTmp, TypeOK, ReplaceInv, Progress, Left
  <2>2. L' = L - 1
    BY <2>1, Counts
  <2> QED BY <1>1, <1>8, <2>2 DEF RenameTmp, Goto, Work, WalkBound
<1>9. CASE BeginStale
  BY <1>1, <1>9 DEF BeginStale, Goto, Work, WalkBound
<1>10. CASE RemoveProbe \/ \E p \in Paths : RemoveFinal(p) \/ RemoveTmp(p)
  BY <1>10, WalkRemoves, PathsAssumption
<1>11. CASE Succeed \/ FailFile \/ FailOther \/ \E p \in Paths : FailOpen(p)
  BY <1>2, <1>11 DEF Succeed, FailFile, FailOther, FailOpen, Return
<1> QED
  BY <1>3, <1>4, <1>5, <1>6, <1>7, <1>8, <1>9, <1>10, <1>11 DEF DeployStep

\* A call of Deploy makes at most 6N + 5 steps, N the number of paths, whatever
\* was left in the directory: each one lowers Work, only Start raises it, and
\* it is never below zero.
THEOREM DeployIsBounded ==
  Spec => /\ [](Work \in 0 .. 6 * N + 5)
          /\ [][DeployStep => Work' < Work]_vars
          /\ [][Work' > Work => \E v \in Versions : Start(v)]_vars
<1>1. Bounded => Work \in 0 .. 6 * N + 5
  BY DEF Bounded
<1>2. TypeOK /\ ReplaceInv /\ Bounded /\ Bounded'
      => [DeployStep => Work' < Work]_vars
  BY StepWorks
<1>3. TypeOK /\ ReplaceInv /\ Bounded /\ Bounded' /\ [Next]_vars
      => [Work' > Work => \E v \in Versions : Start(v)]_vars
  <2> SUFFICES ASSUME TypeOK, ReplaceInv, Bounded, Bounded', Next, Work' > Work
               PROVE  \E v \in Versions : Start(v)
    OBVIOUS
  <2>1. Work \in Nat /\ Work' \in Nat
    <3>1. N' = N /\ N \in Nat
      BY Counts DEF N
    <3> QED BY <3>1 DEF Bounded
  <2>2. ~DeployStep
    <3>1. ASSUME DeployStep PROVE FALSE
      <4>1. Work' < Work
        BY <3>1, StepWorks
      <4> QED BY <2>1, <4>1
    <3> QED BY <3>1
  <2>3. pc' # "idle"
    <3>1. ASSUME pc' = "idle" PROVE FALSE
      <4>1. Work' = 0
        BY <3>1 DEF Work
      <4> QED BY <2>1, <4>1
    <3> QED BY <3>1
  <2>4. ~(Crash \/ PowerLoss)
    BY <2>3 DEF Crash, PowerLoss, Return
  <2>5. ASSUME NEW p \in Paths, Flush(p) PROVE FALSE
    <3>1. Work' = Work
      BY <2>5 DEF Flush, Work, Removals, Finals, Temps, Left, WalkBound, N
    <3> QED BY <2>1, <3>1
  <2> QED BY <2>2, <2>4, <2>5 DEF Next
<1> QED
  BY <1>1, <1>2, <1>3, ReplaceInvariant, AlwaysBounded, PTL DEF Spec

----------------------------------------------------------------------------
(* What all this amounts to for a reader of the directory: FileDeploy      *)
(* implements ServedDirectory.  Temporaries, syncs, the probe and the walk *)
(* are stutters; a rename puts a file in place, and the disk either does   *)
(* not have it yet or has all of it.                                       *)

Deploying == IF pc = "idle" THEN Absent ELSE job

Directory == INSTANCE ServedDirectory
               WITH served <- final, kept <- stored, job <- Deploying,
                    new <- written

LEMMA DirectoryStep ==
  ASSUME TypeOK, FileInv, ReplaceInv, [Next]_vars
  PROVE  [Directory!Next]_(Directory!vars)
<1> USE DEF Deploying, Goto
<1>0. Directory!Absent = Absent /\ Absent \notin Versions /\ job \in Versions
  BY ContentsAssumption DEF Absent, Directory!Absent, TypeOK
<1>1. ASSUME UNCHANGED <<final, stored, written, job>>,
             pc # "idle", pc' # "idle"
      PROVE  UNCHANGED Directory!vars
  BY <1>1 DEF Directory!vars
<1>2. ASSUME Return, pc # "idle", UNCHANGED <<final, stored>>
      PROVE  Directory!End
  BY <1>0, <1>2 DEF Return, Directory!End
<1>3. ASSUME NEW v \in Versions, Start(v) PROVE Directory!Begin(v)
  BY <1>0, <1>3 DEF Start, Directory!Begin
<1>4. CASE RenameTmp
  <2>1. /\ tmp[at] = job /\ synced[at]
        /\ pc = "rename" /\ pc' = "next" /\ at \in Paths
        /\ at \in Files[job] \ written
    BY <1>4 DEF RenameTmp, FileInv, RenamesSynced, ReplaceInv, Progress, TypeOK
  <2>2. Directory!Change(at, job)
    BY <1>4, <2>1 DEF RenameTmp, Directory!Change
  <2>3. Directory!Put(at)
    BY <1>0, <1>4, <2>1, <2>2 DEF RenameTmp, Directory!Put
  <2> QED BY <2>1, <2>3 DEF Directory!Next
<1>5. ASSUME NEW p \in Paths, RemoveFinal(p) PROVE Directory!Drop(p)
  <2>1. Directory!Change(p, Directory!Absent)
    BY <1>0, <1>5 DEF RemoveFinal, Directory!Change
  <2> QED
    BY <1>0, <1>5, <2>1 DEF RemoveFinal, ReplaceInv, Progress, Directory!Drop
<1>6. ASSUME NEW p \in Paths, Flush(p) PROVE Directory!WriteBack(p)
  BY <1>6 DEF Flush, Directory!WriteBack
<1>7. CASE PowerLoss
  BY <1>0, <1>7 DEF PowerLoss, Return, Directory!LosePower, Directory!Next
<1>8. CASE Probe \/ WriteTmp \/ SyncTmp \/ BeginStale \/ RemoveProbe
           \/ \E p \in Paths : OpenTmp(p) \/ RemoveTmp(p)
  BY <1>1, <1>8
     DEF Probe, WriteTmp, SyncTmp, BeginStale, RemoveProbe, OpenTmp, RemoveTmp
<1>9. CASE Unprobe
  BY <1>1, <1>2, <1>9 DEF Unprobe, Directory!Next
<1>10. CASE Succeed \/ FailFile \/ FailOther \/ Crash
            \/ \E p \in Paths : FailOpen(p)
  BY <1>2, <1>10 DEF Succeed, FailFile, FailOther, Crash, FailOpen,
                     Directory!Next
<1>11. CASE UNCHANGED vars
  BY <1>11 DEF vars, Directory!vars
<1> QED
  BY <1>3, <1>4, <1>5, <1>6, <1>7, <1>8, <1>9, <1>10, <1>11
     DEF Next, DeployStep, Directory!Next

\* Whatever call fails and whenever the process dies or power is lost, a
\* reader sees a directory that ServedDirectory allows: whole files of the
\* version under way, in their places one by one, old ones removed only when
\* all the new ones are there, and after power loss what the disk had.
THEOREM DirectoryImplemented == Spec => Directory!Spec
<1>1. Init => Directory!Init
  BY DEF Init, Directory!Init, Nothing, Deploying, Absent, Directory!Absent
<1> QED
  BY <1>1, DirectoryStep, ReplaceInvariant, PTL DEF Spec, Directory!Spec

\* Each file of the directory, and each that power loss would leave there, is
\* the whole file of a version to which that path belongs: a path never holds
\* the content of a version that does not have it.
FromVersions ==
  \A p \in Paths : /\ final[p] = Absent \/ p \in Files[final[p]]
                   /\ stored[p] = Absent \/ p \in Files[stored[p]]

THEOREM ServedFromVersions == Spec => [](NoTornFile /\ FromVersions)
<1>1. Init => FromVersions
  BY DEF Init, FromVersions, Nothing
<1>2. TypeOK /\ FromVersions /\ [Directory!Next]_(Directory!vars)
        => FromVersions'
  <2> SUFFICES ASSUME TypeOK, FromVersions, [Directory!Next]_(Directory!vars)
               PROVE  FromVersions'
    OBVIOUS
  <2> USE DEF FromVersions, TypeOK
  <2>0. Directory!Absent = Absent
    BY DEF Absent, Directory!Absent
  <2>1. ASSUME NEW p \in Paths, Directory!Put(p) PROVE FromVersions'
    <3>1. p \in Files[Deploying]
      BY <2>1 DEF Directory!Put
    <3>2. /\ \A q \in Paths : final'[q] = final[q] \/ (q = p /\ final'[q] = Deploying)
          /\ \A q \in Paths : stored'[q] = stored[q] \/ (q = p /\ stored'[q] = Deploying)
      BY <2>1 DEF Directory!Put, Directory!Change
    <3> QED BY <3>1, <3>2
  <2>2. ASSUME NEW p \in Paths, Directory!Drop(p) PROVE FromVersions'
    <3>1. /\ \A q \in Paths : final'[q] = final[q] \/ final'[q] = Absent
          /\ \A q \in Paths : stored'[q] = stored[q] \/ stored'[q] = Absent
      BY <2>0, <2>2 DEF Directory!Drop, Directory!Change
    <3> QED BY <3>1
  <2>3. ASSUME NEW p \in Paths, Directory!WriteBack(p) PROVE FromVersions'
    BY <2>3 DEF Directory!WriteBack
  <2>4. CASE Directory!LosePower
    BY <2>4 DEF Directory!LosePower
  <2>5. CASE Directory!End \/ \E v \in Versions : Directory!Begin(v)
    BY <2>5 DEF Directory!End, Directory!Begin
  <2>6. CASE UNCHANGED Directory!vars
    BY <2>6 DEF Directory!vars
  <2> QED BY <2>1, <2>2, <2>3, <2>4, <2>5, <2>6 DEF Directory!Next
<1> QED
  BY <1>1, <1>2, DirectoryImplemented, FileTypeCorrect, NeverTorn, PTL
     DEF Spec, Directory!Spec
=============================================================================
