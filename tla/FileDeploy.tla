----------------------------- MODULE FileDeploy -----------------------------
(***************************************************************************)
(* FileDeployer.Deploy at the granularity of system calls: how the         *)
(* dynamic/ directory of a node changes while Traefik watches it, when a   *)
(* call fails, when the process dies and when the machine loses power.     *)
(*                                                                         *)
(* One writer: DeployPipeline shows that a node has at most one.  A file   *)
(* is known by the version whose content it holds.  The loop over the      *)
(* files follows a Go map and is in any order; the walk that removes       *)
(* stale files is in any order too, more than the lexical one of WalkDir.  *)
(* Directories, which hold nothing a reader loads, are left out.           *)
(*                                                                         *)
(* Mutant... definitions are their namesakes with a plausible bug; no      *)
(* specification uses them.                                                *)
(***************************************************************************)
EXTENDS Naturals, FiniteSets

CONSTANTS
  Paths,      \* artifact paths
  Versions,   \* released versions
  Files       \* Files[v]: the paths version v consists of

ASSUME VersionsAssumption == Versions # {}
ASSUME PathsAssumption == Paths # {}
\* A version is a map in memory.
ASSUME FinitePathsAssumption == IsFiniteSet(Paths)
ASSUME FilesAssumption == Files \in [Versions -> SUBSET Paths]

Absent == "absent"     \* no file of that name
Torn == "torn"         \* a file with part of its content, or none
Contents == Versions \cup {Absent, Torn}

ASSUME ContentsAssumption == {Absent, Torn} \cap Versions = {}

VARIABLES
  final,    \* what a reader finds at each path
  stored,   \* what the disk holds for each path: what power loss may revert to
  tmp,      \* the .tmp file beside each path
  synced,   \* the content of that .tmp file has been fsynced
  probe,    \* .gc-write-probe exists
  job,      \* the version being deployed
  pc,       \* where Deploy stands
  at,       \* the path the loop is at, Outside between two files
  written,  \* the paths renamed into place so far
  base      \* final when Deploy was called (history)

vars == <<final, stored, tmp, synced, probe, job, pc, at, written, base>>

InLoop == {"next", "write", "sync", "rename"}
PC == {"idle", "probe", "unprobe", "stale"} \cup InLoop

TypeOK ==
  /\ final \in [Paths -> Contents]
  /\ stored \in [Paths -> Contents]
  /\ tmp \in [Paths -> Contents]
  /\ synced \in [Paths -> BOOLEAN]
  /\ probe \in BOOLEAN
  /\ job \in Versions
  /\ pc \in PC
  /\ at \in Paths
  /\ written \in SUBSET Paths
  /\ base \in [Paths -> Contents]

Nothing == [p \in Paths |-> Absent]
Outside == CHOOSE p \in Paths : TRUE

\* An empty directory
Init ==
  /\ final = Nothing /\ stored = Nothing /\ tmp = Nothing /\ base = Nothing
  /\ synced = [p \in Paths |-> FALSE]
  /\ probe = FALSE
  /\ job = (CHOOSE v \in Versions : TRUE)
  /\ pc = "idle"
  /\ at = Outside
  /\ written = {}

Goto(l) == pc' = l

\* The values a finished or interrupted call leaves behind are not used again.
Return == /\ pc' = "idle"
          /\ written' = {} /\ at' = Outside
          /\ UNCHANGED <<job, base>>

----------------------------------------------------------------------------
(* Deploy *)

Start(v) ==
  /\ pc = "idle"
  /\ job' = v /\ base' = final /\ written' = {}
  /\ Goto("probe")
  /\ UNCHANGED <<final, stored, tmp, synced, probe, at>>

\* ProbeWritable creates a file ...
Probe ==
  /\ pc = "probe"
  /\ probe' = TRUE
  /\ Goto("unprobe")
  /\ UNCHANGED <<final, stored, tmp, synced, job, at, written, base>>

\* ... and removes it, if it can: the result of os.Remove is not looked at,
\* and an error of the Sync before it is returned after it.
Unprobe ==
  /\ pc = "unprobe"
  /\ probe' \in BOOLEAN
  /\ \/ Goto("next") /\ UNCHANGED <<job, at, written, base>>
     \/ Return
  /\ UNCHANGED <<final, stored, tmp, synced>>

\* The loop takes a file that is left and opens its temporary, truncating
\* whatever an earlier attempt left there.
OpenTmp(p) ==
  /\ pc = "next"
  /\ p \in Files[job] \ written
  /\ at' = p
  /\ tmp' = [tmp EXCEPT ![p] = Torn]
  /\ synced' = [synced EXCEPT ![p] = FALSE]
  /\ Goto("write")
  /\ UNCHANGED <<final, stored, probe, job, written, base>>

\* f.Write and f.Chmod
WriteTmp ==
  /\ pc = "write"
  /\ tmp' = [tmp EXCEPT ![at] = job]
  /\ Goto("sync")
  /\ UNCHANGED <<final, stored, synced, probe, job, at, written, base>>

MutantSyncTmp ==
  /\ pc = "sync"
  /\ Goto("rename")
  /\ UNCHANGED <<final, stored, tmp, synced, probe, job, at, written, base>>

\* f.Sync and f.Close
SyncTmp ==
  /\ pc = "sync"
  /\ synced' = [synced EXCEPT ![at] = TRUE]
  /\ Goto("rename")
  /\ UNCHANGED <<final, stored, tmp, probe, job, at, written, base>>

MutantRenameTmp ==
  /\ pc = "rename"
  /\ final' = [final EXCEPT ![at] = tmp[at]]
  /\ stored' = stored
  /\ tmp' = [tmp EXCEPT ![at] = Absent]
  /\ written' = written \cup {<<at, "tmp">>}
  /\ Goto("next")
  /\ UNCHANGED <<synced, probe, job, at, base>>

\* The disk may learn of the new name at once, later, or after power loss not
\* at all, for the directory is not fsynced; a name that reaches the disk
\* before the content of its file is a torn file there.
RenameTmp ==
  /\ pc = "rename"
  /\ final' = [final EXCEPT ![at] = tmp[at]]
  /\ stored' \in {stored, [stored EXCEPT ![at] =
                             IF synced[at] THEN tmp[at] ELSE Torn]}
  /\ tmp' = [tmp EXCEPT ![at] = Absent]
  /\ synced' = [synced EXCEPT ![at] = FALSE]
  /\ written' = written \cup {at}
  /\ at' = Outside
  /\ Goto("next")
  /\ UNCHANGED <<probe, job, base>>

MutantBeginStale ==
  /\ pc = "next"
  /\ Goto("stale")
  /\ UNCHANGED <<final, stored, tmp, synced, probe, job, at, written, base>>

\* The loop is done: removeStale walks the directory.
BeginStale ==
  /\ pc = "next"
  /\ Files[job] \subseteq written
  /\ Goto("stale")
  /\ UNCHANGED <<final, stored, tmp, synced, probe, job, at, written, base>>

\* One file outside the kept set is removed: an old artifact, a temporary of
\* an earlier attempt, or the probe file.
RemoveFinal(p) ==
  /\ pc = "stale"
  /\ p \notin written /\ final[p] # Absent
  /\ final' = [final EXCEPT ![p] = Absent]
  /\ stored' \in {stored, [stored EXCEPT ![p] = Absent]}
  /\ UNCHANGED <<tmp, synced, probe, job, pc, at, written, base>>

RemoveTmp(p) ==
  /\ pc = "stale"
  /\ tmp[p] # Absent
  /\ tmp' = [tmp EXCEPT ![p] = Absent]
  /\ UNCHANGED <<final, stored, synced, probe, job, pc, at, written, base>>

RemoveProbe ==
  /\ pc = "stale"
  /\ probe
  /\ probe' = FALSE
  /\ UNCHANGED <<final, stored, tmp, synced, job, pc, at, written, base>>

MutantLeftToRemove == \E p \in Paths \ written : final[p] # Absent

\* What the walk still has to remove
LeftToRemove ==
  \/ \E p \in Paths \ written : final[p] # Absent
  \/ \E p \in Paths : tmp[p] # Absent
  \/ probe

\* Deploy returns nil.
Succeed ==
  /\ pc = "stale" /\ ~LeftToRemove
  /\ Return
  /\ UNCHANGED <<final, stored, tmp, synced, probe>>

MutantFailFile ==
  /\ pc \in {"write", "sync", "rename"}
  /\ tmp' = [tmp EXCEPT ![at] = Absent]
  /\ Goto("next")
  /\ UNCHANGED <<final, stored, synced, probe, job, at, written, base>>

\* A call of the loop fails: the temporary is removed, if that works, and
\* Deploy returns the error.
FailFile ==
  /\ pc \in {"write", "sync", "rename"}
  /\ tmp' \in {tmp, [tmp EXCEPT ![at] = Absent]}
  /\ Return
  /\ UNCHANGED <<final, stored, synced, probe>>

\* The open fails: a temporary of an earlier attempt may be removed.
FailOpen(p) ==
  /\ pc = "next"
  /\ p \in Files[job] \ written
  /\ tmp' = [tmp EXCEPT ![p] = Absent]
  /\ Return
  /\ UNCHANGED <<final, stored, synced, probe>>

\* The probe, MkdirAll or a removal of the walk fails, or the open with
\* nothing removed.
FailOther ==
  /\ pc \in {"probe", "next", "stale"}
  /\ Return
  /\ UNCHANGED <<final, stored, tmp, synced, probe>>

----------------------------------------------------------------------------
(* The environment *)

\* The process dies: the directory stays as the kernel has it.
Crash ==
  /\ pc # "idle"
  /\ Return
  /\ UNCHANGED <<final, stored, tmp, synced, probe>>

\* The kernel writes a directory entry back.
Flush(p) ==
  /\ stored[p] # final[p]
  /\ stored' = [stored EXCEPT ![p] = final[p]]
  /\ UNCHANGED <<final, tmp, synced, probe, job, pc, at, written, base>>

\* Paths where the disk may lag behind the directory
Unsettled == {p \in Paths : tmp[p] # Absent \/ stored[p] # final[p]}

\* Power is lost: what was not stored is gone.  A temporary, or one whose
\* rename did not reach the disk, may be left, and so may the probe; what such
\* a temporary holds is never read, for it is truncated or removed first.
PowerLoss ==
  /\ final' = stored
  /\ \E left \in SUBSET Unsettled :
       tmp' = [p \in Paths |-> IF p \in left THEN Torn ELSE Absent]
  /\ synced' = [p \in Paths |-> FALSE]
  /\ probe' \in {probe, FALSE}
  /\ Return
  /\ UNCHANGED stored

DeployStep ==
  \/ Probe \/ Unprobe \/ WriteTmp \/ SyncTmp \/ RenameTmp \/ BeginStale
  \/ RemoveProbe \/ Succeed \/ FailFile \/ FailOther
  \/ \E p \in Paths :
       OpenTmp(p) \/ FailOpen(p) \/ RemoveFinal(p) \/ RemoveTmp(p)

Next ==
  \/ \E v \in Versions : Start(v)
  \/ DeployStep
  \/ Crash
  \/ \E p \in Paths : Flush(p)
  \/ PowerLoss

Spec == Init /\ [][Next]_vars

\* A call of Deploy that is not interrupted goes on.
FairSpec == Spec /\ WF_vars(DeployStep)

----------------------------------------------------------------------------
(* Properties *)

\* Whatever fails and whenever power is lost, every file a reader finds has
\* the complete content some version gave it: fsync before rename.
NoTornFile == \A p \in Paths : final[p] # Torn

\* The inductive strengthening of NoTornFile: a temporary is complete when it
\* is synced, and synced when it is renamed.
RenamesSynced ==
  /\ \A p \in Paths : stored[p] # Torn
  /\ pc \in {"sync", "rename"} => tmp[at] = job
  /\ pc = "rename" => synced[at]

\* The directory is the one of version v, nothing else in it.
Holds(directory, v) ==
  \A p \in Paths : directory[p] = IF p \in Files[v] THEN v ELSE Absent

IsVersion(v) == Holds(final, v)

Clean == ~probe /\ tmp = Nothing

\* When Deploy returns nil the directory is exactly the deployed version,
\* whatever earlier attempts, crashes and failed removals had left in it.
SuccessIsExact ==
  [][Succeed => IsVersion(job) /\ Clean]_vars

\* While Deploy runs, a path that was served before is served without a gap
\* if the new version has it, and until all of the new version is in place if
\* not; and what is served is the old content or the new.
NoGap ==
  pc # "idle" =>
    \A p \in Paths :
      /\ base[p] # Absent /\ (p \in Files[job] \/ ~(Files[job] \subseteq written))
           => final[p] # Absent
      /\ final[p] \in {base[p], job, Absent}

\* Every call of Deploy returns.
DeployReturns == pc # "idle" ~> pc = "idle"

\* The comment of Deploy promises an atomic switch of versions, and the
\* constitution that Traefik reads complete and verified configuration at any
\* moment: while a version replaces another that was completely in place, the
\* directory is wholly the old one or wholly the new one.  It does not hold:
\* the files are replaced one by one, and after the first of them the
\* directory holds files of two versions.
SwitchIsAtomic ==
  pc # "idle" /\ (\E v \in Versions : Holds(base, v))
    => final = base \/ IsVersion(job)
=============================================================================
