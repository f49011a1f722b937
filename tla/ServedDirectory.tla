--------------------------- MODULE ServedDirectory ---------------------------
(***************************************************************************)
(* What the readers of a node's dynamic/ directory may rely on, without    *)
(* temporaries, syncs and walks: while a version is deployed, its files    *)
(* take their places one by one, each whole; what is not of the version    *)
(* goes when all of them are there; a call may end at any point.  The disk *)
(* follows, each path at its own time, and is what power loss leaves.      *)
(***************************************************************************)
CONSTANTS Paths, Versions, Files

Absent == "absent"

VARIABLES
  served,   \* the version whose file a reader finds at each path
  kept,     \* the same after power loss
  job,      \* the version being deployed, Absent between calls
  new       \* the paths that have its file

vars == <<served, kept, job, new>>

Init == /\ served = [p \in Paths |-> Absent]
        /\ kept = [p \in Paths |-> Absent]
        /\ job = Absent
        /\ new = {}

\* Path p changes for the reader; the disk learns of it now or later.
Change(p, content) ==
  /\ served' = [served EXCEPT ![p] = content]
  /\ kept' \in {kept, [kept EXCEPT ![p] = content]}

Begin(v) ==
  /\ job = Absent
  /\ job' = v /\ new' = {}
  /\ UNCHANGED <<served, kept>>

Put(p) ==
  /\ job # Absent /\ p \in Files[job] \ new
  /\ Change(p, job)
  /\ new' = new \cup {p}
  /\ UNCHANGED job

Drop(p) ==
  /\ job # Absent /\ new = Files[job]
  /\ p \notin new
  /\ Change(p, Absent)
  /\ UNCHANGED <<job, new>>

\* Deploy returns, or dies.
End ==
  /\ job # Absent
  /\ job' = Absent /\ new' = {}
  /\ UNCHANGED <<served, kept>>

WriteBack(p) ==
  /\ kept' = [kept EXCEPT ![p] = served[p]]
  /\ UNCHANGED <<served, job, new>>

LosePower ==
  /\ served' = kept
  /\ job' = Absent /\ new' = {}
  /\ UNCHANGED kept

Next ==
  \/ \E v \in Versions : Begin(v)
  \/ \E p \in Paths : Put(p) \/ Drop(p) \/ WriteBack(p)
  \/ End \/ LosePower

Spec == Init /\ [][Next]_vars
=============================================================================
