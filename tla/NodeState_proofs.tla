--------------------------- MODULE NodeState_proofs ---------------------------
(***************************************************************************)
(* Proofs about NodeState, for every threshold and any number of versions  *)
(* and of rounds of the scheduler that overlap.                            *)
(***************************************************************************)
EXTENDS NodeState, TLAPS

USE DEF Rounds

LEMMA ConstantsTyped ==
  /\ MaxRounds \in Nat \ {0} /\ Threshold \in Nat \ {0}
  /\ MaxVersion \in Nat \ {0} /\ MaxFailures \in Nat
BY MaxRoundsAssumption, ThresholdAssumption, MaxVersionAssumption,
   MaxFailuresAssumption

(* A registered node that was never probed has a row of the right type. *)
LEMMA EmptyTyped == Unprobed \in Row /\ NoProbe \in Probe /\ Foreign \in Contents
BY ConstantsTyped DEF Unprobed, Row, NoProbe, Probe, Contents, Foreign

(* What a failed probe makes of the copied row: a row that counts one more. *)
LEMMA MarkFailureTyped ==
  ASSUME NEW st \in Row
  PROVE  /\ MarkFailure(st) \in Row
         /\ MarkFailure(st).failures = st.failures + 1
         /\ \/ MarkFailure(st).status = "unknown"
            \/ /\ MarkFailure(st).status = "offline"
               /\ st.failures + 1 >= Threshold
<1>1. ASSUME NEW s \in {"unknown", "offline"}, NEW f \in Nat
      PROVE  LET new == [st EXCEPT !.failures = f, !.status = s] IN
             new \in Row /\ new.failures = f /\ new.status = s
  BY DEF Row
<1>2. st.failures + 1 \in Nat
  BY DEF Row
<1> QED BY <1>1, <1>2 DEF MarkFailure

(* What an answered one makes of it. *)
LEMMA AnsweredTyped ==
  ASSUME NEW st \in Row, NEW s \in {"online", "degraded"}, NEW l \in Contents
  PROVE  /\ Answered(st, s, l) \in Row
         /\ Answered(st, s, l).failures = 0
         /\ Answered(st, s, l).status = s
BY DEF Answered, Row

(* One round changes its state, the others keep theirs. *)
LEMMA PutTyped ==
  ASSUME probe \in [Rounds -> Probe], NEW p \in Rounds, NEW r \in Probe,
         Put(p, r)
  PROVE  /\ probe' \in [Rounds -> Probe]
         /\ probe'[p] = r
         /\ \A q \in Rounds \ {p} : probe'[q] = probe[q]
BY DEF Put

(* The columns of the verdict are typed, the others are not touched. *)
LEMMA UpdateTyped ==
  ASSUME row \in Row, NEW drift \in BOOLEAN,
         NEW desired \in 0 .. MaxVersion, NEW actual \in 0 .. MaxVersion,
         UpdateDriftState(drift, desired, actual)
  PROVE  /\ row' \in Row
         /\ row'.failures = row.failures /\ row'.status = row.status
BY DEF UpdateDriftState, Row

(* The round that leaves is idle, the others are what they were. *)
LEMMA LeaveTyped ==
  ASSUME probe \in [Rounds -> Probe], NEW p \in Rounds, Leave(p)
  PROVE  /\ probe' \in [Rounds -> Probe] /\ running' \in BOOLEAN
         /\ running' = FALSE
         /\ probe'[p].pc = "idle"
         /\ \A q \in Rounds \ {p} : probe'[q] = probe[q]
<1>1. Put(p, NoProbe) /\ running' = FALSE
  BY DEF Leave
<1>2. /\ probe' \in [Rounds -> Probe] /\ probe'[p] = NoProbe
      /\ \A q \in Rounds \ {p} : probe'[q] = probe[q]
  BY <1>1, EmptyTyped, PutTyped
<1>3. NoProbe.pc = "idle"
  BY DEF NoProbe
<1> QED BY <1>1, <1>2, <1>3

----------------------------------------------------------------------------
(* The state of NodeState is of its type, whatever rounds overlap. *)
LEMMA TypeStep == TypeOK /\ [Next]_vars => TypeOK'
<1> SUFFICES ASSUME TypeOK, [Next]_vars PROVE TypeOK'
  OBVIOUS
<1> USE ConstantsTyped, EmptyTyped DEF TypeOK
<1>1. ASSUME NEW p \in Rounds, Begin(p) PROVE TypeOK'
  <2>1. [row EXCEPT !.status = "unknown"] \in Row
    BY DEF Row
  <2>2. /\ [NoProbe EXCEPT !.pc = "contact", !.st = row] \in Probe
        /\ [NoProbe EXCEPT !.pc = "save",
                           !.st = [row EXCEPT !.status = "unknown"]] \in Probe
    BY <2>1 DEF Probe, NoProbe
  <2>3. probe' \in [Rounds -> Probe]
    BY <1>1, <2>2, PutTyped DEF Begin
  <2> QED BY <1>1, <2>3 DEF Begin
<1>2. ASSUME NEW p \in Rounds, Miss(p) PROVE TypeOK'
  <2>1. probe[p] \in Probe /\ probe[p].st \in Row
    BY DEF Probe
  <2>2. MarkFailure(probe[p].st) \in Row
    BY <2>1, MarkFailureTyped
  <2>3. [probe[p] EXCEPT !.pc = "save", !.outcome = "missed",
                         !.st = MarkFailure(probe[p].st)] \in Probe
    BY <2>1, <2>2 DEF Probe
  <2>4. probe' \in [Rounds -> Probe]
    BY <1>2, <2>3, PutTyped DEF Miss
  <2> QED BY <1>2, <2>4 DEF Miss
<1>3. ASSUME NEW p \in Rounds, Reach(p) PROVE TypeOK'
  <2>1. probe[p] \in Probe /\ probe[p].st \in Row
    BY DEF Probe
  <2>2. PICK l \in {traefik, probe[p].st.loaded, Foreign},
             s \in {"online", "degraded"} :
          Put(p, [probe[p] EXCEPT !.pc = "save", !.outcome = "reached",
                                  !.st = Answered(probe[p].st, s, l)])
    BY <1>3 DEF Reach
  <2>3. l \in Contents
    BY <2>1, <2>2 DEF Row
  <2>4. Answered(probe[p].st, s, l) \in Row
    BY <2>1, <2>3, AnsweredTyped
  <2>5. [probe[p] EXCEPT !.pc = "save", !.outcome = "reached",
                         !.st = Answered(probe[p].st, s, l)] \in Probe
    BY <2>1, <2>4 DEF Probe
  <2>6. probe' \in [Rounds -> Probe]
    BY <2>2, <2>5, PutTyped
  <2> QED BY <1>3, <2>6 DEF Reach
<1>4. ASSUME NEW p \in Rounds, Save(p) PROVE TypeOK'
  <2>1. probe[p] \in Probe /\ probe[p].st \in Row
    BY DEF Probe
  <2>2. row' \in Row /\ misses' \in Nat
    BY <1>4, <2>1 DEF Save
  <2>3. [NoProbe EXCEPT !.pc = "read"] \in Probe
    BY DEF Probe, NoProbe
  <2>4. probe' \in [Rounds -> Probe] /\ running' \in BOOLEAN
    BY <1>4, <2>3, LeaveTyped, PutTyped DEF Save
  <2> QED BY <1>4, <2>2, <2>4 DEF Save
<1>5. ASSUME NEW p \in Rounds, Abort(p) PROVE TypeOK'
  BY <1>5, LeaveTyped DEF Abort
<1>6. ASSUME NEW p \in Rounds, CheckRead(p) PROVE TypeOK'
  <2>1. Loaded(row.loaded) \in Row
    BY DEF Row, Loaded
  <2>2. [NoProbe EXCEPT !.pc = "baseline", !.st = Loaded(row.loaded)] \in Probe
    BY <2>1 DEF Probe
  <2>3. probe' \in [Rounds -> Probe]
    BY <1>6, <2>2, PutTyped DEF CheckRead
  <2> QED BY <1>6, <2>3 DEF CheckRead
<1>7. ASSUME NEW p \in Rounds, CheckBaseline(p) PROVE TypeOK'
  <2>1. PICK b \in 0 .. MaxVersion :
          Put(p, [probe[p] EXCEPT !.base = b, !.desired = b,
                                  !.pc = IF b = 0 THEN "write" ELSE "desired"])
    BY <1>7 DEF CheckBaseline
  <2>2. [probe[p] EXCEPT !.base = b, !.desired = b,
           !.pc = IF b = 0 THEN "write" ELSE "desired"] \in Probe
    BY DEF Probe
  <2>3. probe' \in [Rounds -> Probe]
    BY <2>1, <2>2, PutTyped
  <2> QED BY <1>7, <2>3 DEF CheckBaseline
<1>8. ASSUME NEW p \in Rounds, CheckDesired(p) PROVE TypeOK'
  <2>1. PICK k \in {ready, 0} :
          Put(p, [probe[p] EXCEPT !.pc = "write",
                    !.desired = IF k > probe[p].base THEN k ELSE probe[p].base])
    BY <1>8 DEF CheckDesired
  <2>2. (IF k > probe[p].base THEN k ELSE probe[p].base) \in 0 .. MaxVersion
    BY <2>1 DEF Probe
  <2>3. [probe[p] EXCEPT !.pc = "write",
           !.desired = IF k > probe[p].base THEN k ELSE probe[p].base] \in Probe
    BY <2>2 DEF Probe
  <2>4. probe' \in [Rounds -> Probe]
    BY <2>1, <2>3, PutTyped
  <2> QED BY <1>8, <2>4 DEF CheckDesired
<1>9. ASSUME NEW p \in Rounds, CheckWrite(p) PROVE TypeOK'
  <2>1. /\ probe[p].desired \in 0 .. MaxVersion
        /\ probe[p].base \in 0 .. MaxVersion
    BY DEF Probe
  <2>2. row' \in Row
    BY <1>9, <2>1, UpdateTyped DEF CheckWrite
  <2> QED BY <1>9, <2>2, LeaveTyped DEF CheckWrite
<1>10. ASSUME NEW v \in Versions, DeploySucceeds(v) PROVE TypeOK'
  BY <1>10 DEF DeploySucceeds, Versions, Contents, Foreign
<1>11. ASSUME NEW v \in Versions, ClearDrift(v) PROVE TypeOK'
  <2>1. v \in 0 .. MaxVersion
    BY DEF Versions
  <2>2. UpdateDriftState(FALSE, v, v) => row' \in Row
    BY <2>1, UpdateTyped
  <2>3. row' \in Row
    BY <1>11, <2>2 DEF ClearDrift
  <2> QED BY <1>11, <2>3 DEF ClearDrift
<1>12. CASE AddVersion
  BY <1>12 DEF AddVersion
<1>13. CASE Tamper \/ SetEnabled \/ Restart \/ Settle
  BY <1>13 DEF Tamper, SetEnabled, Restart, Settle
<1>14. CASE UNCHANGED vars
  BY <1>14 DEF vars
<1> QED BY <1>1, <1>2, <1>3, <1>4, <1>5, <1>6, <1>7, <1>8, <1>9, <1>10, <1>11,
           <1>12, <1>13, <1>14 DEF Next, ProbeStep

(* Type correctness of the specification. *)
THEOREM NodeStateTypeCorrect == Spec => []TypeOK
<1>1. Init => TypeOK
  <2> SUFFICES ASSUME Init PROVE TypeOK
    OBVIOUS
  <2>1. 0 \in 0 .. MaxVersion /\ 0 \in Contents
    BY ConstantsTyped DEF Contents, Foreign
  <2> QED BY <2>1, EmptyTyped DEF Init, TypeOK
<1> QED BY <1>1, TypeStep, PTL DEF Spec

----------------------------------------------------------------------------
(* A step that changes neither row nor counter, and leaves the round p out of *)
(* "contact" and "save" without starting another, keeps the invariant.        *)
LEMMA RoundStep ==
  ASSUME TypeOK, TypeOK', CountInv, NEW p \in Rounds, probe[p].pc # "idle",
         row'.failures = row.failures, row'.status = row.status,
         misses' = misses,
         \/ probe'[p].pc = "idle"
         \/ probe'[p].pc \notin {"contact", "save"} /\ running' = running,
         \A q \in Rounds \ {p} : probe'[q] = probe[q]
  PROVE  CountInv'
<1>1. OneRound'
  BY DEF CountInv, OneRound
<1>2. CopiesCount'
  BY DEF CountInv, OneRound, CopiesCount
<1> QED BY <1>1, <1>2 DEF CountInv, FailuresCounted, StatusTellsMisses

(* Every step keeps the invariant: one case per action. *)
LEMMA CountStep == TypeOK /\ CountInv /\ [Next]_vars => CountInv'
<1> SUFFICES ASSUME TypeOK, CountInv, [Next]_vars PROVE CountInv'
  OBVIOUS
<1>0. TypeOK'
  BY TypeStep
<1>1. ASSUME NEW p \in Rounds, Begin(p) PROVE CountInv'
  <2>1. probe \in [Rounds -> Probe] /\ row \in Row
    BY DEF TypeOK
  <2>2. \A q \in Rounds : probe[q].pc = "idle"
    BY <1>1 DEF CountInv, OneRound, Begin
  <2>3. /\ \A q \in Rounds \ {p} : probe'[q] = probe[q]
        /\ probe'[p].pc \in {"contact", "save"}
        /\ probe'[p].st.failures = row.failures
        /\ probe'[p].pc = "save" => /\ probe'[p].outcome = "disabled"
                                    /\ probe'[p].st.status = "unknown"
    BY <1>1, <2>1 DEF Begin, Put, NoProbe, Row, TypeOK
  <2>4. OneRound'
    BY <1>1, <2>2, <2>3 DEF OneRound, Begin
  <2>5. CopiesCount'
    BY <1>1, <2>2, <2>3 DEF CountInv, CopiesCount, FailuresCounted, Begin
  <2> QED BY <1>1, <2>4, <2>5
          DEF CountInv, FailuresCounted, StatusTellsMisses, Begin
<1>2. ASSUME NEW p \in Rounds, Miss(p) PROVE CountInv'
  <2>1. probe[p] \in Probe /\ probe[p].st \in Row /\ misses \in Nat
    BY DEF TypeOK, Probe
  <2>2. /\ \A q \in Rounds \ {p} : probe'[q] = probe[q]
        /\ probe'[p].pc = "save" /\ probe'[p].outcome = "missed"
        /\ probe'[p].st = MarkFailure(probe[p].st)
        /\ UNCHANGED <<row, running, misses>>
    BY <1>2, <2>1 DEF Miss, Put, TypeOK, Probe
  <2>3. probe[p].pc = "contact" /\ probe[p].st.failures = misses
    BY <1>2 DEF Miss, At, CountInv, CopiesCount
  <2>4. /\ probe'[p].st.failures = misses + 1
        /\ \/ probe'[p].st.status = "unknown"
           \/ probe'[p].st.status = "offline" /\ misses + 1 >= Threshold
    BY <2>1, <2>2, <2>3, MarkFailureTyped
  <2>5. OneRound'
    BY <2>2, <2>3 DEF CountInv, OneRound
  <2>6. CopiesCount'
    BY <2>2, <2>3, <2>4 DEF CountInv, CopiesCount
  <2> QED BY <2>2, <2>5, <2>6 DEF CountInv, FailuresCounted, StatusTellsMisses
<1>3. ASSUME NEW p \in Rounds, Reach(p) PROVE CountInv'
  <2>1. probe[p] \in Probe /\ probe[p].st \in Row
    BY DEF TypeOK, Probe
  <2>2. /\ \A q \in Rounds \ {p} : probe'[q] = probe[q]
        /\ probe'[p].pc = "save" /\ probe'[p].outcome = "reached"
        /\ probe'[p].st.failures = 0
        /\ probe'[p].st.status \in {"online", "degraded"}
        /\ UNCHANGED <<row, running, misses>>
    <3>1. PICK l \in {traefik, probe[p].st.loaded, Foreign},
               s \in {"online", "degraded"} :
            Put(p, [probe[p] EXCEPT !.pc = "save", !.outcome = "reached",
                                    !.st = Answered(probe[p].st, s, l)])
      BY <1>3 DEF Reach
    <3>2. l \in Contents
      BY <2>1, <3>1, EmptyTyped DEF TypeOK, Row
    <3>3. /\ Answered(probe[p].st, s, l).failures = 0
          /\ Answered(probe[p].st, s, l).status = s
      BY <2>1, <3>2, AnsweredTyped
    <3> QED BY <1>3, <2>1, <3>1, <3>3 DEF Reach, Put, TypeOK, Probe
  <2>3. probe[p].pc = "contact"
    BY <1>3 DEF Reach, At
  <2>4. OneRound'
    BY <2>2, <2>3 DEF CountInv, OneRound
  <2>5. CopiesCount'
    BY <2>2, <2>3 DEF CountInv, CopiesCount
  <2> QED BY <2>2, <2>4, <2>5 DEF CountInv, FailuresCounted, StatusTellsMisses
<1>4. ASSUME NEW p \in Rounds, Save(p) PROVE CountInv'
  <2>1. probe[p] \in Probe /\ probe[p].st \in Row /\ misses \in Nat
    BY DEF TypeOK, Probe
  <2>2. probe[p].pc = "save"
    BY <1>4 DEF Save, At
  <2>3. /\ \A q \in Rounds \ {p} : probe'[q] = probe[q]
        /\ \/ probe'[p].pc = "idle"
           \/ probe'[p].pc = "read" /\ running' = running
    BY <1>4, LeaveTyped DEF Save, Put, TypeOK, NoProbe
  <2>4. OneRound'
    BY <2>2, <2>3 DEF CountInv, OneRound
  <2>5. CopiesCount'
    BY <2>2, <2>3 DEF CountInv, OneRound, CopiesCount
  <2>6. FailuresCounted' /\ StatusTellsMisses'
    <3>1. CASE UNCHANGED <<row, misses>>
      BY <3>1 DEF CountInv, FailuresCounted, StatusTellsMisses
    <3>2. CASE row' = probe[p].st /\ probe[p].outcome = "missed"
               /\ misses' = misses + 1
      BY <2>1, <2>2, <3>2
         DEF CountInv, CopiesCount, FailuresCounted, StatusTellsMisses
    <3>3. CASE row' = probe[p].st /\ probe[p].outcome = "reached"
               /\ misses' = 0
      BY <2>1, <2>2, <3>3
         DEF CountInv, CopiesCount, FailuresCounted, StatusTellsMisses
    <3>4. CASE row' = probe[p].st /\ probe[p].outcome = "disabled"
               /\ misses' = misses
      BY <2>1, <2>2, <3>4
         DEF CountInv, CopiesCount, FailuresCounted, StatusTellsMisses
    <3>5. probe[p].outcome \in {"disabled", "missed", "reached"}
      BY <2>1 DEF Probe
    <3> QED BY <1>4, <3>1, <3>2, <3>3, <3>4, <3>5 DEF Save
  <2> QED BY <2>4, <2>5, <2>6 DEF CountInv
<1>5. ASSUME NEW p \in Rounds, Abort(p) PROVE CountInv'
  <2>1. probe[p].pc # "idle" /\ UNCHANGED <<row, misses>> /\ Leave(p)
    BY <1>5 DEF Abort
  <2> QED BY <1>0, <2>1, LeaveTyped, RoundStep DEF TypeOK
<1>6. ASSUME NEW p \in Rounds, CheckRead(p) \/ CheckBaseline(p) \/ CheckDesired(p)
      PROVE CountInv'
  <2>1. probe[p] \in Probe /\ probe \in [Rounds -> Probe]
    BY DEF TypeOK
  <2>2. /\ probe[p].pc # "idle" /\ UNCHANGED <<row, misses, running>>
        /\ probe'[p].pc \in {"baseline", "desired", "write"}
        /\ \A q \in Rounds \ {p} : probe'[q] = probe[q]
    <3>1. CASE CheckRead(p)
      BY <2>1, <3>1 DEF CheckRead, Put, At, NoProbe
    <3>2. CASE CheckBaseline(p)
      BY <2>1, <3>2 DEF CheckBaseline, Put, At, Probe
    <3>3. CASE CheckDesired(p)
      BY <2>1, <3>3 DEF CheckDesired, Put, At, Probe
    <3> QED BY <1>6, <3>1, <3>2, <3>3
  <2>3. row'.failures = row.failures /\ row'.status = row.status
    BY <2>2
  <2>4. probe'[p].pc \notin {"contact", "save"} /\ running' = running
    BY <2>2
  <2> QED BY <1>0, <2>2, <2>3, <2>4, RoundStep
<1>7. ASSUME NEW p \in Rounds, CheckWrite(p) PROVE CountInv'
  <2>1. /\ probe[p].desired \in 0 .. MaxVersion
        /\ probe[p].base \in 0 .. MaxVersion
    BY DEF TypeOK, Probe
  <2>2. row'.failures = row.failures /\ row'.status = row.status
    BY <1>7, <2>1, UpdateTyped DEF CheckWrite, TypeOK
  <2>3. probe[p].pc # "idle" /\ misses' = misses /\ Leave(p)
    BY <1>7 DEF CheckWrite, At
  <2> QED BY <1>0, <2>2, <2>3, LeaveTyped, RoundStep DEF TypeOK
<1>8. ASSUME NEW v \in Versions, ClearDrift(v) PROVE CountInv'
  <2>0. v \in 0 .. MaxVersion /\ row \in Row
    BY ConstantsTyped DEF Versions, TypeOK
  <2>1. row'.failures = row.failures /\ row'.status = row.status
    <3>1. CASE UpdateDriftState(FALSE, v, v)
      BY <2>0, <3>1, UpdateTyped
    <3>2. CASE UNCHANGED row
      BY <3>2
    <3> QED BY <1>8, <3>1, <3>2 DEF ClearDrift
  <2>2. UNCHANGED <<probe, running, misses>>
    BY <1>8 DEF ClearDrift
  <2> QED BY <2>1, <2>2
          DEF CountInv, OneRound, CopiesCount, FailuresCounted, StatusTellsMisses
<1>9. CASE Restart
  BY <1>9 DEF Restart, NoProbe, CountInv, OneRound, CopiesCount,
              FailuresCounted, StatusTellsMisses
<1>10. CASE UNCHANGED <<row, probe, running, misses>>
  BY <1>10
     DEF CountInv, OneRound, CopiesCount, FailuresCounted, StatusTellsMisses
<1>11. ASSUME NEW v \in Versions, DeploySucceeds(v)
       PROVE  UNCHANGED <<row, probe, running, misses>>
  BY <1>11 DEF DeploySucceeds
<1>12. AddVersion \/ Tamper \/ SetEnabled \/ Settle \/ UNCHANGED vars
         => UNCHANGED <<row, probe, running, misses>>
  BY DEF AddVersion, Tamper, SetEnabled, Settle, vars
<1> QED BY <1>1, <1>2, <1>3, <1>4, <1>5, <1>6, <1>7, <1>8, <1>9, <1>10, <1>11,
           <1>12 DEF Next, ProbeStep

LEMMA CountAlways == Spec => []CountInv
<1>1. Init => CountInv
  BY ConstantsTyped DEF Init, CountInv, OneRound, CopiesCount, FailuresCounted,
     StatusTellsMisses, Unprobed, NoProbe
<1> QED BY <1>1, CountStep, NodeStateTypeCorrect, PTL DEF Spec

(* The counter of consecutive failures is exact: neither a second round of the *)
(* scheduler nor the writers of the drift columns make it lose a probe.        *)
THEOREM FailuresAreCounted == Spec => []FailuresCounted
BY CountAlways, PTL DEF CountInv

(* A node is declared offline after Threshold failures in a row, not before. *)
THEOREM StatusIsJust == Spec => []StatusTellsMisses
BY CountAlways, PTL DEF CountInv

----------------------------------------------------------------------------
(* The safety core of Converges.  When nothing fails and nobody changes       *)
(* anything (Quiet), the row becomes right within a bounded number of steps,  *)
(* and once it is right it stays so, although rounds go on copying it and     *)
(* writing it back.  What fairness adds is that these steps are taken.        *)

Quiet == calm /\ enabled /\ clearing = {}

\* What an answer of Traefik puts into a row, and what the drift check does
Heard(r) ==
  r.status \in {"online", "degraded"} /\ r.failures = 0 /\ r.loaded = traefik

VerdictRight(r) ==
  /\ LatestSuccessIs(r.actual)
  /\ r.drift = (r.actual # 0 /\ traefik # r.actual)
  /\ r.desired = IF r.actual = 0 THEN 0 ELSE ready

\* What round p knows is still true.
Good(p) ==
  LET pc == probe[p].pc IN
  /\ pc = "save" => probe[p].outcome = "reached" /\ Heard(probe[p].st)
  /\ pc \in {"read", "baseline", "desired", "write"} => Heard(row)
  /\ pc \in {"baseline", "desired", "write"} => probe[p].st.loaded = traefik
  /\ pc \in {"desired", "write"} => LatestSuccessIs(probe[p].base)
  /\ pc = "desired" => probe[p].base # 0
  /\ pc = "write" => probe[p].desired = IF probe[p].base = 0 THEN 0 ELSE ready

\* ... and will not undo a right verdict.
Harmless(p) ==
  /\ Good(p)
  /\ probe[p].pc \in {"contact", "save"} => VerdictRight(probe[p].st)

Underway(p) == probe[p].pc # "idle"

Settled == Quiet /\ Consistent /\ \A p \in Rounds : Underway(p) => Harmless(p)

\* A round that began when all was quiet, or whose knowledge is as good
Mending == Quiet /\ \E p \in Rounds : Underway(p) /\ Good(p)

\* The steps a round still makes
Stage(pc) ==
  CASE pc = "idle" -> 0 [] pc = "write" -> 1 [] pc = "desired" -> 2
    [] pc = "baseline" -> 3 [] pc = "read" -> 4 [] pc = "save" -> 5
    [] pc = "contact" -> 6

TheRound == CHOOSE p \in Rounds : Underway(p)

\* The steps until the row is right: those of a round that mends it; before
\* them the beginning of such a round, and the rest of one that does not.
Repair ==
  IF Settled THEN 0
  ELSE IF Mending THEN Stage(probe[TheRound].pc)
  ELSE IF \E p \in Rounds : Underway(p) THEN 7 + Stage(probe[TheRound].pc)
  ELSE 7

\* A version is deployed when it exists, and stays in the table.
SucceededExist == \A v \in succeeded : v <= ready

LEMMA NextExist == TypeOK /\ SucceededExist /\ [Next]_vars => SucceededExist'
<1> SUFFICES ASSUME TypeOK, SucceededExist, [Next]_vars PROVE SucceededExist'
  OBVIOUS
<1> USE DEF SucceededExist
<1>1. CASE UNCHANGED <<ready, succeeded>>
  BY <1>1
<1>2. ASSUME NEW p \in Rounds, ProbeStep(p) PROVE UNCHANGED <<ready, succeeded>>
  BY <1>2 DEF ProbeStep, Begin, Miss, Reach, Save, Abort, CheckRead,
     CheckBaseline, CheckDesired, CheckWrite
<1>3. ASSUME NEW v \in Versions, DeploySucceeds(v) PROVE SucceededExist'
  BY <1>3 DEF DeploySucceeds
<1>4. ASSUME NEW v \in Versions, ClearDrift(v) PROVE UNCHANGED <<ready, succeeded>>
  BY <1>4 DEF ClearDrift
<1>5. CASE AddVersion
  BY <1>5, ConstantsTyped DEF AddVersion, TypeOK, Versions
<1>6. Tamper \/ SetEnabled \/ Restart \/ Settle \/ UNCHANGED vars
        => UNCHANGED <<ready, succeeded>>
  BY DEF Tamper, SetEnabled, Restart, Settle, vars
<1> QED BY <1>1, <1>2, <1>3, <1>4, <1>5, <1>6 DEF Next

\* When all is quiet, only rounds of the probe step.
LEMMA QuietSteps ==
  ASSUME Quiet, Next
  PROVE  /\ \E p \in Rounds :
              \/ Begin(p) \/ Reach(p) \/ Save(p) \/ CheckRead(p)
              \/ CheckBaseline(p) \/ CheckDesired(p) \/ CheckWrite(p)
         /\ UNCHANGED <<calm, enabled, clearing, traefik, ready, succeeded>>
<1>1. PICK p \in Rounds : ProbeStep(p)
  <2>1. ~ \E v \in Versions : DeploySucceeds(v) \/ ClearDrift(v)
    BY DEF Quiet, DeploySucceeds, ClearDrift
  <2>2. ~(AddVersion \/ Tamper \/ SetEnabled \/ Restart \/ Settle)
    BY DEF Quiet, AddVersion, Tamper, SetEnabled, Restart, Settle
  <2> QED BY <2>1, <2>2 DEF Next
<1>2. ~Miss(p) /\ ~Abort(p)
  BY DEF Quiet, Miss, Abort
<1>3. UNCHANGED <<calm, enabled, clearing, traefik, ready, succeeded>>
  BY <1>1, <1>2 DEF ProbeStep, Begin, Reach, Save, CheckRead, CheckBaseline,
     CheckDesired, CheckWrite
<1> QED BY <1>1, <1>2, <1>3 DEF ProbeStep

\* One step of a round that has the node, when all is quiet: it comes nearer
\* to its end, what it knows stays true, and when it ends after having known
\* only the truth the row is right.
RoundGoes(p) ==
  /\ \A q \in Rounds \ {p} : probe'[q] = probe[q]
  /\ Stage(probe'[p].pc) < Stage(probe[p].pc)
  /\ Good(p) => IF Underway(p)' THEN Good(p)' ELSE Consistent'
  /\ Harmless(p) /\ Consistent =>
       Consistent' /\ (Underway(p)' => Harmless(p)')

LEMMA ReachGoes ==
  ASSUME TypeOK, Quiet, NEW p \in Rounds, Reach(p)
  PROVE  RoundGoes(p)
<1>1. probe \in [Rounds -> Probe] /\ probe[p].st \in Row /\ traefik \in Contents
  BY DEF TypeOK, Probe
<1>2. PICK s \in {"online", "degraded"} :
        Put(p, [probe[p] EXCEPT !.pc = "save", !.outcome = "reached",
                                !.st = Answered(probe[p].st, s, traefik)])
  BY DEF Reach, Quiet
<1>3. /\ probe'[p].pc = "save" /\ probe'[p].outcome = "reached"
      /\ probe'[p].st = Answered(probe[p].st, s, traefik)
      /\ \A q \in Rounds \ {p} : probe'[q] = probe[q]
  BY <1>1, <1>2 DEF Put, Probe
<1>4. LET st == Answered(probe[p].st, s, traefik)
      IN /\ st.status = s /\ st.failures = 0 /\ st.loaded = traefik
         /\ st.actual = probe[p].st.actual /\ st.drift = probe[p].st.drift
         /\ st.desired = probe[p].st.desired
  BY <1>1 DEF Answered, Row
<1>5. UNCHANGED <<traefik, succeeded, ready, row>> /\ probe[p].pc = "contact"
  BY DEF Reach, At
<1>6. Good(p)'
  BY <1>3, <1>4, <1>5 DEF Good, Heard
<1>7. Stage(probe'[p].pc) < Stage(probe[p].pc) /\ Underway(p)'
  BY <1>3, <1>5 DEF Stage, Underway
<1>8. VerdictRight(probe[p].st) => VerdictRight(probe[p].st)'
  BY <1>3, <1>4, <1>5 DEF VerdictRight, LatestSuccessIs
<1>9. Consistent => Consistent'
  BY <1>5 DEF Consistent, LatestSuccessIs
<1> QED BY <1>3, <1>5, <1>6, <1>7, <1>8, <1>9 DEF RoundGoes, Harmless

LEMMA ConsistentParts == Consistent <=> Heard(row) /\ VerdictRight(row)
BY DEF Consistent, Heard, VerdictRight

LEMMA SaveGoes ==
  ASSUME TypeOK, Quiet, NEW p \in Rounds, Save(p)
  PROVE  RoundGoes(p)
<1>1. probe \in [Rounds -> Probe] /\ probe[p] \in Probe
  BY DEF TypeOK
<1>2. /\ row' = probe[p].st /\ probe[p].pc = "save"
      /\ UNCHANGED <<traefik, succeeded, ready>>
  BY DEF Save, At, Quiet
<1>3. /\ \A q \in Rounds \ {p} : probe'[q] = probe[q]
      /\ probe'[p].pc = IF probe[p].outcome = "reached" THEN "read" ELSE "idle"
  <2>1. CASE probe[p].outcome = "reached"
    BY <1>1, <2>1 DEF Save, Put, NoProbe
  <2>2. CASE probe[p].outcome # "reached"
    BY <1>1, <2>2, LeaveTyped DEF Save
  <2> QED BY <2>1, <2>2
<1>4. Stage(probe'[p].pc) < Stage(probe[p].pc)
  BY <1>2, <1>3 DEF Stage
<1>5. Good(p) => Underway(p)' /\ probe'[p].pc = "read" /\ Heard(row)'
  BY <1>2, <1>3 DEF Good, Heard, Underway
<1>6. Good(p) => Good(p)'
  BY <1>5 DEF Good
<1>7. VerdictRight(probe[p].st) => VerdictRight(row)'
  BY <1>2 DEF VerdictRight, LatestSuccessIs
<1>8. Harmless(p) => Consistent' /\ Harmless(p)'
  BY <1>2, <1>5, <1>6, <1>7, ConsistentParts DEF Harmless, Consistent, Heard,
     VerdictRight, LatestSuccessIs
<1> QED BY <1>3, <1>4, <1>5, <1>6, <1>8 DEF RoundGoes

LEMMA ReadsGo ==
  ASSUME TypeOK, SucceededExist, Quiet, NEW p \in Rounds,
         CheckRead(p) \/ CheckBaseline(p) \/ CheckDesired(p)
  PROVE  RoundGoes(p)
<1>1. /\ probe \in [Rounds -> Probe] /\ probe[p] \in Probe /\ row \in Row
      /\ ready \in Nat
  BY ConstantsTyped DEF TypeOK
<1>2. UNCHANGED <<traefik, succeeded, ready, row>>
  BY DEF CheckRead, CheckBaseline, CheckDesired
<1>3. /\ Heard(row) => Heard(row)'
      /\ Consistent => Consistent'
      /\ \A k : LatestSuccessIs(k) => LatestSuccessIs(k)'
  BY <1>2 DEF Heard, Consistent, LatestSuccessIs
<1>4. CASE CheckRead(p)
  <2>1. /\ probe'[p].pc = "baseline" /\ probe'[p].st.loaded = row.loaded
        /\ probe[p].pc = "read"
        /\ \A q \in Rounds \ {p} : probe'[q] = probe[q]
    BY <1>1, <1>4 DEF CheckRead, At, Put, Loaded, NoProbe, Unprobed
  <2>2. Good(p) => Good(p)'
    BY <1>2, <1>3, <2>1 DEF Good, Heard
  <2> QED BY <1>3, <2>1, <2>2 DEF RoundGoes, Harmless, Underway, Stage
<1>5. CASE CheckBaseline(p)
  <2>1. PICK b \in 0 .. MaxVersion :
          /\ LatestSuccessIs(b)
          /\ Put(p, [probe[p] EXCEPT !.base = b, !.desired = b,
                                     !.pc = IF b = 0 THEN "write" ELSE "desired"])
    BY <1>5 DEF CheckBaseline, Quiet
  <2>2. /\ probe'[p].pc = (IF b = 0 THEN "write" ELSE "desired")
        /\ probe'[p].st = probe[p].st
        /\ probe'[p].base = b /\ probe'[p].desired = b
        /\ probe[p].pc = "baseline"
        /\ \A q \in Rounds \ {p} : probe'[q] = probe[q]
    BY <1>1, <1>5, <2>1 DEF CheckBaseline, At, Put, Probe
  <2>3. Good(p) => Good(p)'
    BY <1>2, <1>3, <2>1, <2>2 DEF Good
  <2> QED BY <1>3, <2>2, <2>3 DEF RoundGoes, Harmless, Underway, Stage
<1>6. CASE CheckDesired(p)
  <2>1. /\ probe'[p].pc = "write" /\ probe[p].pc = "desired"
        /\ probe'[p].st = probe[p].st /\ probe'[p].base = probe[p].base
        /\ probe'[p].desired = IF ready > probe[p].base THEN ready ELSE probe[p].base
        /\ \A q \in Rounds \ {p} : probe'[q] = probe[q]
    BY <1>1, <1>6 DEF CheckDesired, At, Put, Probe, Quiet
  <2>2. ASSUME Good(p) PROVE Good(p)'
    <3>1. LatestSuccessIs(probe[p].base) /\ probe[p].base # 0 /\ Heard(row)
          /\ probe[p].st.loaded = traefik
      BY <2>1, <2>2 DEF Good
    <3>2. probe[p].base <= ready /\ probe[p].base \in Nat
      BY <1>1, <3>1, ConstantsTyped DEF LatestSuccessIs, SucceededExist, Probe
    <3>3. probe'[p].desired = ready
      BY <1>1, <2>1, <3>2
    <3> QED BY <1>2, <1>3, <2>1, <3>1, <3>3 DEF Good
  <2> QED BY <1>3, <2>1, <2>2 DEF RoundGoes, Harmless, Underway, Stage
<1> QED BY <1>4, <1>5, <1>6

LEMMA WriteGoes ==
  ASSUME TypeOK, Quiet, NEW p \in Rounds, CheckWrite(p)
  PROVE  RoundGoes(p)
<1> DEFINE base == probe[p].base
           drift == base # 0 /\ probe[p].st.loaded # base
<1>1. /\ row \in Row /\ probe[p].desired \in 0 .. MaxVersion
      /\ base \in 0 .. MaxVersion /\ probe \in [Rounds -> Probe]
  BY DEF TypeOK, Probe
<1>2. /\ row' = [row EXCEPT !.drift = drift, !.desired = probe[p].desired,
                            !.actual = base]
      /\ probe[p].pc = "write" /\ Leave(p)
      /\ UNCHANGED <<traefik, succeeded, ready>>
  BY DEF CheckWrite, UpdateDriftState, At
<1>3. /\ row'.drift = drift /\ row'.desired = probe[p].desired
      /\ row'.actual = base /\ row'.failures = row.failures
      /\ row'.status = row.status /\ row'.loaded = row.loaded
  BY <1>1, <1>2 DEF Row
<1>4. /\ probe'[p].pc = "idle"
      /\ \A q \in Rounds \ {p} : probe'[q] = probe[q]
  BY <1>1, <1>2, LeaveTyped
<1>5. Good(p) => Consistent'
  BY <1>2, <1>3 DEF Good, Heard, Consistent, LatestSuccessIs
<1> QED BY <1>2, <1>4, <1>5 DEF RoundGoes, Harmless, Underway, Stage

\* A round begins when none has the node, and copies the row as it is.
LEMMA BeginGoes ==
  ASSUME TypeOK, Quiet, OneRound, NEW p \in Rounds, Begin(p)
  PROVE  /\ \A q \in Rounds : ~Underway(q)
         /\ \A q \in Rounds \ {p} : ~Underway(q)'
         /\ probe'[p].pc = "contact" /\ probe'[p].st = row /\ row' = row
         /\ Good(p)'
<1>1. probe \in [Rounds -> Probe]
  BY DEF TypeOK
<1>2. \A q \in Rounds : ~Underway(q)
  BY DEF Begin, OneRound, Underway
<1>3. /\ Put(p, [NoProbe EXCEPT !.pc = "contact", !.st = row]) /\ row' = row
  BY DEF Begin, Quiet
<1>4. /\ probe'[p].pc = "contact" /\ probe'[p].st = row
      /\ \A q \in Rounds \ {p} : probe'[q] = probe[q]
  BY <1>1, <1>3 DEF Put, NoProbe
<1> QED BY <1>2, <1>3, <1>4 DEF Good, Underway

LEMMA QuietGoes ==
  ASSUME TypeOK, SucceededExist, OneRound, Quiet, Next
  PROVE  /\ Quiet'
         /\ \E p \in Rounds : Begin(p) \/ (Underway(p) /\ RoundGoes(p))
         /\ UNCHANGED <<traefik, ready, succeeded>>
<1>1. /\ \E p \in Rounds :
           \/ Begin(p) \/ Reach(p) \/ Save(p) \/ CheckRead(p)
           \/ CheckBaseline(p) \/ CheckDesired(p) \/ CheckWrite(p)
      /\ UNCHANGED <<calm, enabled, clearing, traefik, ready, succeeded>>
  BY QuietSteps
<1>2. ASSUME NEW p \in Rounds,
             \/ Reach(p) \/ Save(p) \/ CheckRead(p)
             \/ CheckBaseline(p) \/ CheckDesired(p) \/ CheckWrite(p)
      PROVE  Underway(p) /\ RoundGoes(p)
  <2>1. Underway(p)
    BY <1>2 DEF Underway, Reach, Save, CheckRead, CheckBaseline, CheckDesired,
       CheckWrite, At
  <2>2. RoundGoes(p)
    BY <1>2, ReachGoes, SaveGoes, ReadsGo, WriteGoes
  <2> QED BY <2>1, <2>2
<1>3. Quiet'
  BY <1>1 DEF Quiet
<1> QED BY <1>1, <1>2, <1>3

LEMMA SettledStays ==
  TypeOK /\ SucceededExist /\ OneRound /\ Settled /\ [Next]_vars => Settled'
<1> SUFFICES ASSUME TypeOK, SucceededExist, OneRound, Settled, [Next]_vars
             PROVE  Settled'
  OBVIOUS
<1>1. CASE UNCHANGED vars
  BY <1>1 DEF vars, Settled, Quiet, Consistent, LatestSuccessIs, Underway,
     Harmless, Good, Heard, VerdictRight
<1>2. CASE Next
  <2>1. Quiet /\ Consistent
    BY DEF Settled
  <2>2. /\ Quiet' /\ UNCHANGED <<traefik, ready, succeeded>>
        /\ \E p \in Rounds : Begin(p) \/ (Underway(p) /\ RoundGoes(p))
    BY <1>2, <2>1, QuietGoes
  <2>3. ASSUME NEW p \in Rounds, Begin(p)
        PROVE  Settled'
    <3>1. /\ \A q \in Rounds \ {p} : ~Underway(q)'
          /\ probe'[p].pc = "contact" /\ probe'[p].st = row /\ row' = row
          /\ Good(p)'
      BY <2>1, <2>3, BeginGoes
    <3>2. Consistent' /\ VerdictRight(probe[p].st)'
      BY <2>1, <2>2, <3>1, ConsistentParts
         DEF Consistent, VerdictRight, LatestSuccessIs
    <3> QED BY <2>2, <3>1, <3>2 DEF Settled, Harmless
  <2>4. ASSUME NEW p \in Rounds, Underway(p), RoundGoes(p)
        PROVE  Settled'
    <3>1. Harmless(p)
      BY <2>4 DEF Settled
    <3>2. \A q \in Rounds \ {p} : ~Underway(q)'
      BY <2>4 DEF OneRound, Underway, RoundGoes
    <3>3. Consistent' /\ (Underway(p)' => Harmless(p)')
      BY <2>1, <2>4, <3>1 DEF RoundGoes
    <3> QED BY <2>2, <3>2, <3>3 DEF Settled
  <2> QED BY <2>2, <2>3, <2>4
<1> QED BY <1>1, <1>2

LEMMA NearerToRight ==
  ASSUME TypeOK, TypeOK', SucceededExist, OneRound, OneRound', Quiet, Next, ~Settled
  PROVE  Quiet' /\ (Settled' \/ Repair' < Repair)
<1>1. /\ Quiet'
      /\ \E p \in Rounds : Begin(p) \/ (Underway(p) /\ RoundGoes(p))
  BY QuietGoes
<1>2. ASSUME NEW p \in Rounds, Underway(p)
      PROVE  TheRound = p /\ Stage(probe[p].pc) \in 1 .. 6
  <2>1. probe[p].pc \in {"contact", "save", "read", "baseline", "desired", "write"}
    BY <1>2 DEF TypeOK, Probe, Underway
  <2>2. \A q \in Rounds : Underway(q) => q = p
    BY <1>2 DEF OneRound, Underway
  <2> QED BY <1>2, <2>1, <2>2 DEF TheRound, Stage
<1>3. ASSUME NEW p \in Rounds, Underway(p)'
      PROVE  TheRound' = p /\ (Stage(probe[p].pc))' \in 1 .. 6
  <2>1. probe'[p].pc \in {"contact", "save", "read", "baseline", "desired", "write"}
    BY <1>3 DEF TypeOK, Probe, Underway
  <2>2. \A q \in Rounds : Underway(q)' => q = p
    BY <1>3 DEF OneRound, Underway
  <2> QED BY <1>3, <2>1, <2>2 DEF TheRound, Stage
<1>4. ASSUME NEW p \in Rounds, Begin(p)
      PROVE  Repair' < Repair
  <2>1. /\ \A q \in Rounds : ~Underway(q)
        /\ probe'[p].pc = "contact" /\ Good(p)'
    BY <1>4, BeginGoes
  <2>2. Repair = 7
    BY <2>1 DEF Repair, Mending
  <2>3. Underway(p)' /\ Mending'
    BY <1>1, <2>1 DEF Mending, Underway
  <2>4. Repair' \in {0, 6}
    BY <1>3, <2>1, <2>3 DEF Repair, Stage
  <2> QED BY <2>2, <2>4
<1>5. ASSUME NEW p \in Rounds, Underway(p), RoundGoes(p)
      PROVE  Settled' \/ Repair' < Repair
  <2>1. /\ \A q \in Rounds \ {p} : ~Underway(q)'
        /\ Stage(probe'[p].pc) < Stage(probe[p].pc)
        /\ Good(p) => IF Underway(p)' THEN Good(p)' ELSE Consistent'
    BY <1>5 DEF OneRound, Underway, RoundGoes
  <2>2. CASE Good(p)
    <3>1. Mending /\ Repair = Stage(probe[p].pc)
      BY <1>2, <1>5, <2>2 DEF Mending, Repair
    <3>2. CASE Underway(p)'
      <4>1. Mending'
        BY <1>1, <2>1, <2>2, <3>2 DEF Mending
      <4>2. ~Settled' => Repair' = Stage(probe'[p].pc)
        BY <1>3, <3>2, <4>1 DEF Repair
      <4> QED BY <2>1, <3>1, <4>2
    <3>3. CASE ~Underway(p)'
      BY <1>1, <2>1, <2>2, <3>3 DEF Settled
    <3> QED BY <3>2, <3>3
  <2>3. CASE ~Good(p)
    <3>1. Repair = 7 + Stage(probe[p].pc)
      <4>1. ~Mending
        BY <1>5, <2>3 DEF Mending, OneRound, Underway
      <4> QED BY <1>2, <1>5, <4>1 DEF Repair
    <3>2. CASE Underway(p)'
      <4>1. Repair' \in {0, Stage(probe'[p].pc), 7 + Stage(probe'[p].pc)}
        BY <1>3, <3>2 DEF Repair
      <4>2. Stage(probe'[p].pc) \in 1 .. 6 /\ Stage(probe[p].pc) \in 1 .. 6
        BY <1>2, <1>3, <1>5, <3>2
      <4> QED BY <2>1, <3>1, <4>1, <4>2
    <3>3. CASE ~Underway(p)'
      <4>1. Repair' \in {0, 7}
        BY <2>1, <3>3 DEF Repair, Mending
      <4> QED BY <1>2, <1>5, <3>1, <4>1
    <3> QED BY <3>2, <3>3
  <2> QED BY <2>2, <2>3
<1> QED BY <1>1, <1>4, <1>5

LEMMA RepairTyped == TypeOK => Repair \in 0 .. 13
<1> SUFFICES ASSUME TypeOK PROVE Repair \in 0 .. 13
  OBVIOUS
<1>1. CASE \E p \in Rounds : Underway(p)
  <2>1. TheRound \in Rounds /\ Underway(TheRound)
    BY <1>1 DEF TheRound
  <2>2. probe[TheRound].pc
          \in {"contact", "save", "read", "baseline", "desired", "write"}
    BY <2>1 DEF TypeOK, Probe, Underway
  <2>3. Stage(probe[TheRound].pc) \in 1 .. 6
    BY <2>2 DEF Stage
  <2> HIDE DEF TheRound
  <2> QED BY <2>3 DEF Repair
<1>2. CASE ~ \E p \in Rounds : Underway(p)
  BY <1>2 DEF Repair, Mending
<1> QED BY <1>1, <1>2

LEMMA RepairAlways == Spec => [](TypeOK /\ OneRound /\ SucceededExist)
<1>1. Init => SucceededExist
  BY DEF Init, SucceededExist
<1>2. CountInv => OneRound
  BY DEF CountInv
<1> QED
  BY <1>1, <1>2, NextExist, CountAlways, NodeStateTypeCorrect, PTL DEF Spec

(* From the moment nothing fails and nobody changes anything, the row is       *)
(* right after at most thirteen steps, whatever it and the round under way had *)
(* got wrong: nothing but a round steps, and each step leads nearer.           *)
THEOREM RepairIsBounded ==
  Spec => /\ [](Repair \in 0 .. 13)
          /\ [][Quiet => Quiet' /\ (Settled' \/ Repair' < Repair)]_vars
<1>1. TypeOK /\ TypeOK' /\ OneRound /\ OneRound' /\ SucceededExist /\ [Next]_vars
      => [Quiet => Quiet' /\ (Settled' \/ Repair' < Repair)]_vars
  <2> SUFFICES ASSUME TypeOK, TypeOK', OneRound, OneRound', SucceededExist,
                      Next, Quiet
               PROVE  Quiet' /\ (Settled' \/ Repair' < Repair)
    OBVIOUS
  <2>1. CASE Settled
    <3>1. Settled'
      BY <2>1, SettledStays
    <3> QED BY <3>1 DEF Settled
  <2>2. CASE ~Settled
    BY <2>2, NearerToRight
  <2> QED BY <2>1, <2>2
<1> QED BY <1>1, RepairTyped, RepairAlways, PTL DEF Spec

(* A row that is right stays right: the copies that later rounds write back    *)
(* are copies of a right row (probesvc.go probe, driftsvc.go Check).           *)
THEOREM SettledForGood == Spec => [](Settled => [](Settled /\ Consistent))
<1>1. Settled => Consistent
  BY DEF Settled
<1> QED BY <1>1, SettledStays, RepairAlways, PTL DEF Spec
=============================================================================
