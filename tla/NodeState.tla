------------------------------ MODULE NodeState ------------------------------
(***************************************************************************)
(* The node_states row of one gateway node and its three writers: the      *)
(* periodic probe, which reads the whole row, talks to Traefik for a while *)
(* and writes the whole row back; the drift check behind it, and the       *)
(* executor of a successful deployment, which both write the columns of    *)
(* the drift verdict only.                                                 *)
(*                                                                         *)
(* What Traefik runs is known by the version whose resource names it has   *)
(* loaded; versions are taken to differ in their names.  The deployments   *)
(* themselves are DeployPipeline's: here one is the moment of its verdict. *)
(*                                                                         *)
(* Mutant... definitions are their namesakes with a plausible bug; no      *)
(* specification uses them.                                                *)
(***************************************************************************)
EXTENDS Naturals

CONSTANTS
  MaxRounds,    \* rounds of the scheduler that can be under way together
  Threshold,    \* platform_settings.offline_threshold
  MaxFailures,  \* bound: consecutive failures that are explored
  MaxVersion    \* bound: version numbers that are explored

ASSUME MaxRoundsAssumption == MaxRounds \in Nat \ {0}
ASSUME ThresholdAssumption == Threshold \in Nat \ {0}
ASSUME MaxFailuresAssumption == MaxFailures \in Nat
ASSUME MaxVersionAssumption == MaxVersion \in Nat \ {0}

VARIABLES
  enabled,   \* gateway_nodes.enabled
  row,       \* node_states
  running,   \* probesvc.running, for this node
  probe,     \* local state of each round
  ready,     \* the latest ready version: 1 .. ready exist
  succeeded, \* versions with a success deployment
  current,   \* the version of the latest success deployment (history)
  clearing,  \* versions whose executor still has to call UpdateDriftState
  traefik,   \* what Traefik has loaded
  misses,    \* failed probes in a row, as recorded (history)
  calm       \* from now on nothing fails and nobody changes anything

vars == <<enabled, row, running, probe, ready, succeeded, current, clearing,
          traefik, misses, calm>>

Rounds == 1 .. MaxRounds
Versions == 1 .. MaxVersion
Foreign == MaxVersion + 1           \* resources of no version, or a mixture
Contents == 0 .. Foreign            \* 0: nothing loaded

Row == [status : {"unknown", "online", "degraded", "offline"},
        failures : Nat, loaded : Contents,
        drift : BOOLEAN, actual : 0 .. MaxVersion, desired : 0 .. MaxVersion]

\* outcome: the node is disabled, was not reached, was reached
Probe == [pc : {"idle", "contact", "save", "read", "baseline", "desired",
                "write"},
          outcome : {"disabled", "missed", "reached"},
          st : Row, base : 0 .. MaxVersion, desired : 0 .. MaxVersion]

\* NodeRepo.State of a node without a row
Unprobed == [status |-> "unknown", failures |-> 0, loaded |-> 0,
             drift |-> FALSE, actual |-> 0, desired |-> 0]

NoProbe == [pc |-> "idle", outcome |-> "disabled", st |-> Unprobed,
            base |-> 0, desired |-> 0]

TypeOK ==
  /\ enabled \in BOOLEAN /\ running \in BOOLEAN /\ calm \in BOOLEAN
  /\ row \in Row
  /\ probe \in [Rounds -> Probe]
  /\ ready \in 0 .. MaxVersion /\ current \in 0 .. MaxVersion
  /\ succeeded \in SUBSET Versions /\ clearing \in SUBSET Versions
  /\ traefik \in Contents
  /\ misses \in Nat

\* A node that was just registered
Init ==
  /\ enabled = TRUE
  /\ row = Unprobed
  /\ running = FALSE
  /\ probe = [p \in Rounds |-> NoProbe]
  /\ ready = 0 /\ succeeded = {} /\ current = 0 /\ clearing = {}
  /\ traefik = 0
  /\ misses = 0
  /\ calm = FALSE

\* VersionRepo.LatestSuccessByNode returns k: the highest number, not the
\* latest deployment.  0 if there is none.
LatestSuccessIs(k) ==
  /\ k \in succeeded \/ k = 0
  /\ \A j \in succeeded : j <= k

----------------------------------------------------------------------------
(* probesvc.probe *)

At(p, pc) == probe[p].pc = pc

\* A round has no identity: a new one is the first that is free.
Fresh(p) == At(p, "idle") /\ \A q \in 1 .. p - 1 : ~At(q, "idle")

Put(p, r) == probe' = [probe EXCEPT ![p] = r]

\* The round leaves the node: running is given back.
Leave(p) == Put(p, NoProbe) /\ running' = FALSE

MutantBegin(p) ==
  /\ Fresh(p)
  /\ Put(p, [NoProbe EXCEPT !.pc = "contact", !.st = row])
  /\ running' = TRUE
  /\ UNCHANGED <<enabled, row, ready, succeeded, current, clearing, traefik,
                 misses, calm>>

\* RunOnce takes the node unless another round has it, and reads its row; a
\* disabled node is not contacted.
Begin(p) ==
  /\ Fresh(p)
  /\ ~running
  /\ running' = TRUE
  /\ Put(p, IF enabled
            THEN [NoProbe EXCEPT !.pc = "contact", !.st = row]
            ELSE [NoProbe EXCEPT !.pc = "save",
                                 !.st = [row EXCEPT !.status = "unknown"]])
  /\ UNCHANGED <<enabled, row, ready, succeeded, current, clearing, traefik,
                 misses, calm>>

MutantTypeMarkFailure(st) ==
  [st EXCEPT !.failures = @ + 1,
             !.status = IF st.failures + 1 >= Threshold THEN "down" ELSE @]

MutantMarkFailure(st) ==
  [st EXCEPT !.failures = @ + 1,
             !.status = IF st.failures + 2 >= Threshold
                        THEN "offline" ELSE "unknown"]

MarkFailure(st) ==
  [st EXCEPT !.failures = @ + 1,
             !.status = IF st.failures + 1 >= Threshold
                        THEN "offline" ELSE "unknown"]

\* Traefik does not answer, or its client cannot be built.  Bound: MaxFailures.
Miss(p) ==
  /\ At(p, "contact")
  /\ ~calm /\ probe[p].st.failures < MaxFailures
  /\ Put(p, [probe[p] EXCEPT !.pc = "save", !.outcome = "missed",
                             !.st = MarkFailure(probe[p].st)])
  /\ UNCHANGED <<enabled, row, running, ready, succeeded, current, clearing,
                 traefik, misses, calm>>

Answered(st, status, loaded) ==
  [st EXCEPT !.failures = 0, !.status = status, !.loaded = loaded]

\* Traefik answers.  Any of the three sets of names may be missing, and stays
\* what it was: all of them are old, or the result is a mixture.  A target that
\* is down makes the node degraded too.
Reach(p) ==
  /\ At(p, "contact")
  /\ \E l \in {traefik, probe[p].st.loaded, Foreign},
        s \in {"online", "degraded"} :
       /\ s = "online" \/ calm => l = traefik
       /\ Put(p, [probe[p] EXCEPT !.pc = "save", !.outcome = "reached",
                                  !.st = Answered(probe[p].st, s, l)])
  /\ UNCHANGED <<enabled, row, running, ready, succeeded, current, clearing,
                 traefik, misses, calm>>

\* UpsertState writes every column of the copy that Begin made; its error is
\* ignored.  The drift check follows when Traefik has answered.
Save(p) ==
  /\ At(p, "save")
  /\ \/ /\ row' = probe[p].st
        /\ misses' = CASE probe[p].outcome = "missed" -> misses + 1
                       [] probe[p].outcome = "reached" -> 0
                       [] OTHER -> misses
     \/ ~calm /\ UNCHANGED <<row, misses>>
  /\ IF probe[p].outcome = "reached"
     THEN Put(p, [NoProbe EXCEPT !.pc = "read"]) /\ UNCHANGED running
     ELSE Leave(p)
  /\ UNCHANGED <<enabled, ready, succeeded, current, clearing, traefik, calm>>

\* A read fails, or the context of the round has expired.
Abort(p) ==
  /\ probe[p].pc \in {"contact", "read", "write"} /\ ~calm
  /\ Leave(p)
  /\ UNCHANGED <<enabled, row, ready, succeeded, current, clearing, traefik,
                 misses, calm>>

----------------------------------------------------------------------------
(* driftsvc.Check: three reads, one write.  Of the row it uses what was      *)
(* loaded only.                                                            *)

Loaded(l) == [Unprobed EXCEPT !.loaded = l]

CheckRead(p) ==
  /\ At(p, "read")
  /\ Put(p, [NoProbe EXCEPT !.pc = "baseline", !.st = Loaded(row.loaded)])
  /\ UNCHANGED <<enabled, row, running, ready, succeeded, current, clearing,
                 traefik, misses, calm>>

\* An error of this query is treated as the absence of a success.
CheckBaseline(p) ==
  /\ At(p, "baseline")
  /\ \E b \in 0 .. MaxVersion :
       /\ LatestSuccessIs(b) \/ (b = 0 /\ ~calm)
       /\ Put(p, [probe[p] EXCEPT !.base = b, !.desired = b,
                                  !.pc = IF b = 0 THEN "write" ELSE "desired"])
  /\ UNCHANGED <<enabled, row, running, ready, succeeded, current, clearing,
                 traefik, misses, calm>>

\* An error of this one leaves the baseline as what is desired.
CheckDesired(p) ==
  /\ At(p, "desired")
  /\ \E k \in {ready, 0} :
       /\ calm => k = ready
       /\ Put(p, [probe[p] EXCEPT !.pc = "write",
                     !.desired = IF k > probe[p].base THEN k ELSE probe[p].base])
  /\ UNCHANGED <<enabled, row, running, ready, succeeded, current, clearing,
                 traefik, misses, calm>>

MutantUpdateDriftState(drift, desired, actual) ==
  row' = [Unprobed EXCEPT !.drift = drift, !.desired = desired,
                          !.actual = actual]

\* NodeRepo.UpdateDriftState: the columns of the verdict and no other
UpdateDriftState(drift, desired, actual) ==
  row' = [row EXCEPT !.drift = drift, !.desired = desired, !.actual = actual]

MutantCheckWrite(p) ==
  /\ At(p, "write")
  /\ Leave(p)
  /\ UNCHANGED <<enabled, row, ready, succeeded, current, clearing, traefik,
                 misses, calm>>

\* The verdict: without a baseline there is no drift.
CheckWrite(p) ==
  /\ At(p, "write")
  /\ UpdateDriftState(probe[p].base # 0 /\ probe[p].st.loaded # probe[p].base,
                      probe[p].desired, probe[p].base)
  /\ Leave(p)
  /\ UNCHANGED <<enabled, ready, succeeded, current, clearing, traefik, misses,
                 calm>>

----------------------------------------------------------------------------
(* Deployments, administration, the world *)

\* CreateVersion or Rollback adds a ready version.
AddVersion ==
  /\ ~calm /\ ready < MaxVersion
  /\ ready' = ready + 1
  /\ UNCHANGED <<enabled, row, running, probe, succeeded, current, clearing,
                 traefik, misses, calm>>

\* A deployment of v is verified: Traefik has v loaded.
DeploySucceeds(v) ==
  /\ ~calm /\ v <= ready
  /\ traefik' = v
  /\ succeeded' = succeeded \cup {v} /\ current' = v
  /\ clearing' = clearing \cup {v}
  /\ UNCHANGED <<enabled, row, running, probe, ready, misses, calm>>

\* Its executor then writes the drift columns; it may be late.
ClearDrift(v) ==
  /\ v \in clearing
  /\ \/ UpdateDriftState(FALSE, v, v)
     \/ ~calm /\ UNCHANGED row
  /\ clearing' = clearing \ {v}
  /\ UNCHANGED <<enabled, running, probe, ready, succeeded, current, traefik,
                 misses, calm>>

\* A failed deployment or a person changes what Traefik runs.
Tamper ==
  /\ ~calm
  /\ traefik' \in Contents
  /\ UNCHANGED <<enabled, row, running, probe, ready, succeeded, current,
                 clearing, misses, calm>>

SetEnabled ==
  /\ ~calm
  /\ enabled' = ~enabled
  /\ UNCHANGED <<row, running, probe, ready, succeeded, current, clearing,
                 traefik, misses, calm>>

\* The process dies and starts again: what it had under way is gone.
Restart ==
  /\ ~calm
  /\ probe' = [p \in Rounds |-> NoProbe] /\ running' = FALSE
  /\ clearing' = {}
  /\ UNCHANGED <<enabled, row, ready, succeeded, current, traefik, misses, calm>>

\* Faults and changes come to an end, if they do.
Settle ==
  /\ ~calm
  /\ calm' = TRUE
  /\ UNCHANGED <<enabled, row, running, probe, ready, succeeded, current,
                 clearing, traefik, misses>>

----------------------------------------------------------------------------
ProbeStep(p) ==
  \/ Begin(p) \/ Miss(p) \/ Reach(p) \/ Save(p) \/ Abort(p)
  \/ CheckRead(p) \/ CheckBaseline(p) \/ CheckDesired(p) \/ CheckWrite(p)

Next ==
  \/ \E p \in Rounds : ProbeStep(p)
  \/ \E v \in Versions : DeploySucceeds(v) \/ ClearDrift(v)
  \/ AddVersion \/ Tamper \/ SetEnabled \/ Restart \/ Settle

Spec == Init /\ [][Next]_vars

\* The scheduler starts a round every interval, every call of a round has a
\* timeout, and an executor goes on after its verdict.
Fairness ==
  /\ \A p \in Rounds : WF_vars(ProbeStep(p))
  /\ \A v \in Versions : WF_vars(ClearDrift(v))

FairSpec == Spec /\ Fairness

----------------------------------------------------------------------------
(* Properties *)

\* No round overtakes another and no other writer touches the counter: it is
\* the number of failed probes recorded since the last that was answered.
FailuresCounted == row.failures = misses

\* A node is shown offline only after Threshold failures in a row, and online
\* or degraded only while the last recorded probe was answered.
StatusTellsMisses ==
  /\ row.status = "offline" => misses >= Threshold
  /\ row.status \in {"online", "degraded"} => misses = 0

\* The inductive strengthening of both: one round at a time has the node, and
\* what it is about to save counts from the row as it still is.
OneRound ==
  \A p \in Rounds : probe[p].pc # "idle" =>
    /\ running
    /\ \A q \in Rounds : probe[q].pc # "idle" => p = q

CopiesCount ==
  \A p \in Rounds :
    LET st == probe[p].st IN
    /\ probe[p].pc = "contact" => st.failures = misses
    /\ probe[p].pc = "save" =>
         CASE probe[p].outcome = "missed" ->
                /\ st.failures = misses + 1
                /\ st.status = "unknown" \/
                     (st.status = "offline" /\ misses + 1 >= Threshold)
           [] probe[p].outcome = "reached" ->
                st.failures = 0 /\ st.status \in {"online", "degraded"}
           [] OTHER -> st.failures = misses /\ st.status = "unknown"

CountInv == OneRound /\ CopiesCount /\ FailuresCounted /\ StatusTellsMisses

\* The row tells what is: the versions, and whether Traefik runs the baseline.
Consistent ==
  /\ row.status \in {"online", "degraded"} /\ row.failures = 0
  /\ row.loaded = traefik
  /\ LatestSuccessIs(row.actual)
  /\ row.drift = (row.actual # 0 /\ traefik # row.actual)
  /\ row.desired = IF row.actual = 0 THEN 0 ELSE ready

\* Whatever updates were lost, overtaken or written from stale reads: when
\* faults and changes cease, the row of an enabled node becomes right and
\* stays right.
Converges == <>[](calm /\ enabled) => <>[]Consistent

\* The probe promises to leave the drift verdict alone when it does not reach
\* the node, and UpdateDriftState that the writers do not overwrite each
\* other.  It does not hold: UpsertState writes every column from a copy.
MissKeepsVerdict ==
  [][\A p \in Rounds :
       Save(p) /\ probe[p].outcome # "reached" =>
         /\ row'.drift = row.drift
         /\ row'.actual = row.actual /\ row'.desired = row.desired
    ]_vars

\* A successful deployment clears the drift, and a node that runs what was
\* deployed last shows none.  It does not hold: the baseline is the highest
\* version that ever succeeded, not the last.
SuccessClearsDrift ==
  <>[](calm /\ enabled /\ traefik = current) => <>[]~row.drift
=============================================================================
