----------------------- MODULE DeployPipeline_proofs -----------------------
(***************************************************************************)
(* Theorems about DeployPipeline, for every set of nodes, deployments,     *)
(* requests and users, every bound, and with or without database faults.   *)
(***************************************************************************)
EXTENDS DeployPipeline, FiniteSetTheorems, TLAPS

USE DEF Serving

\* The values of the row types that actions copy are in those types.
LEMMA EmptyRows ==
  /\ SomeNode \in Nodes
  /\ NoVersion \in Version
  /\ NoDeployment \in Deployment
  /\ EmptyRelease \in Release
  /\ IdleHandler \in Handler
<1>1. SomeNode \in Nodes
  BY NodesAssumption DEF SomeNode
<1>2. 1 \in Numbers /\ 0 \in 0 .. MaxVersion
  BY MaxVersionAssumption DEF Numbers
<1> QED
  BY <1>1, <1>2 DEF NoVersion, Version, VersionStatus, NoDeployment, Deployment,
     DeploymentStatus, ActiveStatus, EmptyRelease, Release, ReleaseStatus,
     IdleHandler, Handler, HandlerPC

LEMMA InitTypeOK == Init => TypeOK
<1> SUFFICES ASSUME Init PROVE TypeOK
  OBVIOUS
<1>1. node \in [Nodes -> Node]
  BY DEF Init, Node
<1>2. disk \in [Nodes -> Disk]
  BY MaxVersionAssumption DEF Init, Disk
<1> QED
  BY <1>1, <1>2, EmptyRows DEF Init, TypeOK, ExecPC

\* A request that only moves on keeps the types.
LEMMA GotoType ==
  ASSUME TypeOK, NEW p \in Handlers, NEW pc \in HandlerPC, Goto(p, pc),
         UNCHANGED <<store, exec, up>>
  PROVE  TypeOK'
BY DEF TypeOK, Goto, Handler, store

LEMMA AdvanceType ==
  ASSUME TypeOK, NEW n \in Nodes, NEW k \in Numbers, NEW from,
         NEW to \in VersionStatus, AdvanceStatus(n, k, from, to)
  PROVE  version' \in [Nodes -> [Numbers -> Version]]
<1>1. version \in [Nodes -> [Numbers -> Version]]
  BY DEF TypeOK
<1>2. [version[n][k] EXCEPT !.status = to] \in Version
  <2>1. version[n][k] \in Version
    BY <1>1
  <2> QED
    BY <2>1 DEF Version
<1>3. version' = [version EXCEPT ![n] = [version[n] EXCEPT ![k] =
                    [version[n][k] EXCEPT !.status = to]]]
  BY DEF AdvanceStatus
<1> QED
  BY <1>1, <1>2, <1>3

LEMMA HandlerStepType ==
  ASSUME TypeOK, NEW p \in Handlers, HandlerStep(p)
  PROVE  TypeOK'
<1> USE DEF TypeOK
<1>0. {"active", "gate", "number", "drift", "create", "validate", "publish"}
        \subseteq HandlerPC
  BY DEF HandlerPC
<1>1. CASE ReadVersion(p)
  BY <1>1, <1>0, GotoType DEF ReadVersion
<1>2. CASE CheckActive(p)
  BY <1>2, <1>0, GotoType DEF CheckActive
<1>3. CASE ApprovalGate(p)
  BY <1>3, <1>0, GotoType DEF ApprovalGate
<1>4. CASE DriftGate(p)
  BY <1>4, <1>0, GotoType DEF DriftGate
<1>5. CASE RollbackTarget(p)
  BY <1>5, <1>0, GotoType DEF RollbackTarget
<1>6. CASE NextNumber(p)
  <2>1. PICK k \in Numbers :
          handler' = [handler EXCEPT ![p] =
                        [@ EXCEPT !.pc = "insert", !.number = k]]
    BY <1>6 DEF NextNumber
  <2>2. [handler[p] EXCEPT !.pc = "insert", !.number = k] \in Handler
    BY DEF Handler, HandlerPC
  <2> QED
    BY <1>6, <2>1, <2>2 DEF NextNumber, store
<1>7. CASE InsertVersion(p)
  <2> DEFINE h == handler[p]
  <2>1. /\ h.node \in Nodes /\ h.version \in Numbers /\ h.number \in Numbers
        /\ h.number \in 0 .. MaxVersion
    BY DEF Handler, Numbers
  <2>2. version[h.node][h.version].content \in 0 .. MaxVersion
    BY <2>1 DEF Version
  <2>3. NewVersion(p) \in Version
    BY <2>1, <2>2 DEF NewVersion, Version, VersionStatus
  <2>4. version' = [version EXCEPT ![h.node] =
                      [version[h.node] EXCEPT ![h.number] = NewVersion(p)]]
    BY <1>7 DEF InsertVersion
  <2>5. version' \in [Nodes -> [Numbers -> Version]]
    BY <2>1, <2>3, <2>4
  <2>6. handler' \in [Handlers -> Handler]
    BY <1>7, <1>0 DEF InsertVersion, Goto, Handler
  <2> QED
    BY <1>7, <2>5, <2>6 DEF InsertVersion
<1>8. CASE MarkValidating(p)
  <2>1. version' \in [Nodes -> [Numbers -> Version]]
    <3>1. "validating" \in VersionStatus
      BY DEF VersionStatus
    <3> QED
      BY <1>8, <3>1, AdvanceType DEF MarkValidating, Handler
  <2> QED
    BY <1>8, <1>0, <2>1 DEF MarkValidating, Goto, Handler
<1>9. CASE MarkReady(p)
  <2>1. version' \in [Nodes -> [Numbers -> Version]]
    <3>1. "ready" \in VersionStatus
      BY DEF VersionStatus
    <3> QED
      BY <1>9, <3>1, AdvanceType DEF MarkReady, Handler
  <2>2. handler[p] \in Handler /\ IdleHandler \in Handler
    BY EmptyRows
  <2>3. handler' \in [Handlers -> Handler]
    BY <1>9, <1>0, <2>2 DEF MarkReady, Handler
  <2> QED
    BY <1>9, <2>1, <2>3 DEF MarkReady
<1>10. CASE CreateDeployment(p)
  <2>1. NewDeployment(p) \in Deployment
    BY DEF NewDeployment, Deployment, DeploymentStatus, ActiveStatus, Handler
  <2> QED
    BY <1>10, <2>1, EmptyRows DEF CreateDeployment, ExecPC
<1>11. CASE Refuse(p)
  BY <1>11, EmptyRows DEF Refuse, store
<1> QED
  BY <1>1, <1>2, <1>3, <1>4, <1>5, <1>6, <1>7, <1>8, <1>9, <1>10, <1>11,
     HandlerStep(p) DEF HandlerStep

LEMMA RequestStartType ==
  ASSUME TypeOK, NEW p \in Handlers,
         DeployStart(p) \/ RollbackStart(p) \/ GenerateStart(p)
  PROVE  TypeOK'
<1> USE EmptyRows DEF TypeOK, store, Handler, HandlerPC
<1>1. CASE DeployStart(p)
  <2>1. PICK n \in Nodes, k \in Numbers, a \in Releases \cup {NoRelease} :
          handler' = [handler EXCEPT ![p] =
                        [IdleHandler EXCEPT !.pc = "version", !.node = n,
                           !.version = k, !.approval = a,
                           !.production = node[n].production]]
    BY <1>1 DEF DeployStart
  <2>2. node[n].production \in BOOLEAN
    BY DEF Node
  <2> QED
    BY <1>1, <2>1, <2>2 DEF DeployStart
<1>2. CASE RollbackStart(p)
  <2>1. PICK n \in Nodes, k \in Numbers :
          handler' = [handler EXCEPT ![p] =
                        [IdleHandler EXCEPT !.pc = "target", !.node = n,
                           !.version = k, !.kind = "rollback"]]
    BY <1>2 DEF RollbackStart
  <2> QED
    BY <1>2, <2>1 DEF RollbackStart
<1>3. CASE GenerateStart(p)
  <2>1. PICK n \in Nodes :
          handler' = [handler EXCEPT ![p] =
                        [IdleHandler EXCEPT !.pc = "number", !.node = n,
                           !.kind = "generate"]]
    BY <1>3 DEF GenerateStart
  <2> QED
    BY <1>3, <2>1 DEF GenerateStart
<1> QED
  BY <1>1, <1>2, <1>3

\* A status update of an executor keeps the types.
LEMMA SetStatusType ==
  ASSUME TypeOK, NEW d \in Deployments, NEW from,
         NEW to \in DeploymentStatus, SetStatus(d, from, to)
  PROVE  deployment' \in [Deployments -> Deployment]
BY DEF TypeOK, SetStatus, Deployment

LEMMA ExecutorStepType ==
  ASSUME TypeOK, NEW d \in Deployments, ExecutorStep(d)
  PROVE  TypeOK'
<1> USE DEF TypeOK
<1>0. /\ {"validating", "ready", "deploying", "success", "failed"}
           \subseteq DeploymentStatus
      /\ {"off", "validating", "ready", "deploying", "writing", "verifying",
          "clearing"} \subseteq ExecPC
  BY DEF DeploymentStatus, ActiveStatus, ExecPC
<1>1. CASE StartValidating(d)
  BY <1>1, <1>0, SetStatusType DEF StartValidating, Resume
<1>2. CASE MarkMaterialized(d)
  BY <1>2, <1>0, SetStatusType DEF MarkMaterialized, Resume
<1>3. CASE StartDeploying(d)
  BY <1>3, <1>0, SetStatusType DEF StartDeploying, Resume
<1>4. CASE BeginWrite(d)
  <2>1. Content(d) \in 0 .. MaxVersion
    BY DEF Content, Deployment, Version
  <2>2. [content |-> Content(d), whole |-> FALSE] \in Disk
    BY <2>1 DEF Disk
  <2> QED
    BY <1>4, <1>0, <2>2 DEF BeginWrite, Resume
<1>5. CASE FinishWrite(d)
  BY <1>5, <1>0 DEF FinishWrite, Resume, Disk
<1>6. CASE Succeed(d)
  BY <1>6, <1>0, SetStatusType DEF Succeed, Resume
<1>7. CASE ClearDrift(d)
  BY <1>7, <1>0 DEF ClearDrift, Resume
<1>8. CASE Fail(d)
  BY <1>8, <1>0, SetStatusType DEF Fail, Resume
<1>9. CASE LoseStatus(d)
  BY <1>9, <1>0 DEF LoseStatus, Resume, store
<1> QED
  BY <1>1, <1>2, <1>3, <1>4, <1>5, <1>6, <1>7, <1>8, <1>9 DEF ExecutorStep

LEMMA ApprovalStepType ==
  ASSUME TypeOK, ApprovalStep
  PROVE  TypeOK'
<1> USE DEF TypeOK
<1>1. PICK a \in Releases, u \in Users :
        \/ \E n \in Nodes, k \in Numbers : Submit(a, u, n, k)
        \/ \E to \in {"approved", "rejected"} : Review(a, u, to)
        \/ Cancel(a, u)
  BY DEF ApprovalStep
<1>2. CASE \E n \in Nodes, k \in Numbers : Submit(a, u, n, k)
  <2>1. PICK n \in Nodes, k \in Numbers : Submit(a, u, n, k)
    BY <1>2
  <2>2. [EmptyRelease EXCEPT !.status = "pending", !.node = n, !.version = k,
           !.submitter = u] \in Release
    <3>1. EmptyRelease \in Release /\ "pending" \in ReleaseStatus
      BY EmptyRows DEF ReleaseStatus
    <3> QED
      BY <3>1 DEF Release
  <2> QED
    BY <2>1, <2>2 DEF Submit
<1>3. CASE \E to \in {"approved", "rejected"} : Review(a, u, to)
  <2>1. Cardinality(Approved) + 1 \in Nat
    <3>1. IsFiniteSet(Approved)
      BY ReleasesAssumption, FS_Subset DEF Approved
    <3> QED
      BY <3>1, FS_CardinalityType
  <2>2. PICK to \in {"approved", "rejected"} : Review(a, u, to)
    BY <1>3
  <2>3. [release[a] EXCEPT !.status = to, !.reviewer = u,
            !.reviewedAt = Cardinality(Approved) + 1] \in Release
    BY <2>1 DEF Release, ReleaseStatus
  <2> QED
    BY <2>2, <2>3 DEF Review
<1>4. CASE Cancel(a, u)
  BY <1>4 DEF Cancel, Release, ReleaseStatus
<1> QED
  BY <1>1, <1>2, <1>3, <1>4

LEMMA NodeStepType ==
  ASSUME TypeOK, NodeStep
  PROVE  TypeOK'
<1> USE DEF TypeOK
<1>1. PICK n \in Nodes : \/ SetEnabled(n) \/ SetProduction(n)
                         \/ DeleteCheck(n) \/ DeleteCommit(n) \/ DriftCheck(n)
  BY DEF NodeStep
<1>2. CASE SetEnabled(n)
  BY <1>2 DEF SetEnabled, Node
<1>3. CASE SetProduction(n)
  BY <1>3 DEF SetProduction, Node
<1>4. CASE DeleteCheck(n)
  BY <1>4 DEF DeleteCheck
<1>5. CASE DeleteCommit(n)
  BY <1>5 DEF DeleteCommit, Node
<1>6. CASE DriftCheck(n)
  BY <1>6 DEF DriftCheck
<1> QED
  BY <1>1, <1>2, <1>3, <1>4, <1>5, <1>6

LEMMA RestartType ==
  ASSUME TypeOK, Crash \/ Boot
  PROVE  TypeOK'
<1> USE EmptyRows DEF TypeOK
<1>1. CASE Crash
  BY <1>1 DEF Crash, ExecPC
<1>2. CASE Boot
  BY <1>2 DEF Boot, MarkInterruptedFailed, Deployment, DeploymentStatus
<1> QED
  BY <1>1, <1>2

LEMMA NextTypeOK == TypeOK /\ [Next]_vars => TypeOK'
<1> SUFFICES ASSUME TypeOK, [Next]_vars PROVE TypeOK'
  OBVIOUS
<1>1. CASE UNCHANGED vars
  BY <1>1 DEF vars, TypeOK
<1>2. CASE Next
  BY <1>2, RequestStartType, HandlerStepType, ExecutorStepType,
     ApprovalStepType, NodeStepType, RestartType DEF Next
<1> QED
  BY <1>1, <1>2

\* Every reachable state is made of rows, requests and executors of the
\* declared types.
THEOREM TypeCorrect == Spec => []TypeOK
BY InitTypeOK, NextTypeOK, PTL DEF Spec

----------------------------------------------------------------------------
(* One active deployment and one writer per node.  OneActivePerNode is     *)
(* inductive by the unique index alone; SingleWriter also needs that the   *)
(* row of a writing executor is still "deploying".                         *)

ActivityInv == TypeOK /\ ExecutorKnowsStatus /\ OneActivePerNode

ActivityOK == ExecutorKnowsStatus /\ OneActivePerNode

LEMMA InitActivity == Init => ActivityOK
BY DEF Init, ActivityOK, ExecutorKnowsStatus, OneActivePerNode, Active,
       ActiveStatus, NoDeployment

LEMMA UntouchedActivity ==
  ASSUME ActivityInv, UNCHANGED <<deployment, exec, up>>
  PROVE  ActivityOK'
BY DEF ActivityInv, ActivityOK, ExecutorKnowsStatus, OneActivePerNode, Active

\* SetStatus from an active status, with the executor moving accordingly.
LEMMA StatusStep ==
  ASSUME ActivityInv, up, up' = up, NEW d \in Deployments,
         NEW from \in ActiveStatus, NEW to, NEW pc,
         SetStatus(d, from, to), Resume(d, pc),
         pc # "off" => to = StatusAt(pc)
  PROVE  ActivityOK'
<1>1. ExecutorKnowsStatus'
  BY DEF ActivityInv, TypeOK, ExecutorKnowsStatus, SetStatus, Resume
<1>2. OneActivePerNode'
  <2>1. \A e \in Deployments : /\ Active(e)' => Active(e)
                               /\ deployment'[e].node = deployment[e].node
    BY DEF ActivityInv, TypeOK, Deployment, SetStatus, Active
  <2> QED
    BY <2>1 DEF ActivityInv, OneActivePerNode
<1> QED
  BY <1>1, <1>2 DEF ActivityOK

\* An executor that moves on without touching its row, or ends.
LEMMA ResumeStep ==
  ASSUME ActivityInv, up, up' = up, NEW d \in Deployments, NEW pc,
         UNCHANGED deployment, Resume(d, pc),
         pc # "off" => deployment[d].status = StatusAt(pc)
  PROVE  ActivityOK'
<1>1. ExecutorKnowsStatus'
  BY DEF ActivityInv, TypeOK, ExecutorKnowsStatus, Resume
<1>2. OneActivePerNode'
  BY DEF ActivityInv, OneActivePerNode, Active
<1> QED
  BY <1>1, <1>2 DEF ActivityOK

LEMMA CreateActivity ==
  ASSUME ActivityInv, NEW p \in Handlers, CreateDeployment(p)
  PROVE  ActivityOK'
<1>1. PICK d \in Deployments :
        /\ deployment[d].status = "none"
        /\ deployment' = [deployment EXCEPT ![d] = NewDeployment(p)]
        /\ exec' = [exec EXCEPT ![d] = "accepted"]
  BY DEF CreateDeployment
<1>2. up /\ up' = up /\ ActiveForNode(handler[p].node) = {}
  BY DEF CreateDeployment, At
<1>3. /\ deployment'[d].status = "pending"
      /\ deployment'[d].node = handler[p].node
      /\ exec'[d] = "accepted"
      /\ \A e \in Deployments \ {d} : /\ deployment'[e] = deployment[e]
                                      /\ exec'[e] = exec[e]
  BY <1>1 DEF ActivityInv, TypeOK, NewDeployment
<1>4. ExecutorKnowsStatus'
  BY <1>2, <1>3 DEF ActivityInv, ExecutorKnowsStatus, StatusAt
<1>5. OneActivePerNode'
  <2>1. \A e \in Deployments \ {d} :
          /\ Active(e)' <=> Active(e)
          /\ Active(e) => deployment[e].node # handler[p].node
    BY <1>2, <1>3 DEF Active, ActiveForNode
  <2> QED
    BY <1>3, <2>1 DEF ActivityInv, OneActivePerNode
<1> QED
  BY <1>4, <1>5 DEF ActivityOK

LEMMA ExecutorActivity ==
  ASSUME ActivityInv, NEW d \in Deployments, ExecutorStep(d)
  PROVE  ActivityOK'
<1>0. exec[d] # "off" => deployment[d].status = StatusAt(exec[d])
  BY DEF ActivityInv, ExecutorKnowsStatus
<1>1. CASE StartValidating(d)
  BY <1>1, StatusStep DEF StartValidating, Running, StatusAt, ActiveStatus
<1>2. CASE MarkMaterialized(d)
  BY <1>2, StatusStep DEF MarkMaterialized, Running, StatusAt, ActiveStatus
<1>3. CASE StartDeploying(d)
  BY <1>3, StatusStep DEF StartDeploying, Running, StatusAt, ActiveStatus
<1>4. CASE BeginWrite(d)
  BY <1>0, <1>4, ResumeStep DEF BeginWrite, Running, StatusAt
<1>5. CASE FinishWrite(d)
  BY <1>0, <1>5, ResumeStep DEF FinishWrite, Running, StatusAt
<1>6. CASE Succeed(d)
  BY <1>6, StatusStep DEF Succeed, Running, StatusAt, ActiveStatus
<1>7. CASE ClearDrift(d)
  BY <1>7, ResumeStep DEF ClearDrift, Running
<1>8. CASE Fail(d)
  <2>1. StatusAt(exec[d]) \in ActiveStatus
    BY <1>8 DEF Fail, CanFail, StatusAt, ActiveStatus
  <2> QED
    BY <1>8, <2>1, StatusStep DEF Fail
<1>9. CASE LoseStatus(d)
  BY <1>9, ResumeStep DEF LoseStatus, store
<1> QED
  BY <1>1, <1>2, <1>3, <1>4, <1>5, <1>6, <1>7, <1>8, <1>9 DEF ExecutorStep

LEMMA RestartActivity ==
  ASSUME ActivityInv, Crash \/ Boot
  PROVE  ActivityOK'
<1>1. CASE Crash
  BY <1>1 DEF Crash, ActivityInv, ActivityOK, ExecutorKnowsStatus,
              OneActivePerNode, Active
<1>2. CASE Boot
  <2>1. \A d \in Deployments : ~Active(d)'
    BY <1>2 DEF Boot, MarkInterruptedFailed, Active, ActiveStatus, ActivityInv,
                TypeOK, Deployment
  <2>2. \A d \in Deployments : exec'[d] = "off"
    BY <1>2 DEF Boot, ActivityInv, ExecutorKnowsStatus
  <2> QED
    BY <2>1, <2>2 DEF ActivityOK, ExecutorKnowsStatus, OneActivePerNode
<1> QED
  BY <1>1, <1>2

LEMMA NextActivity == ActivityInv /\ [Next]_vars => ActivityOK'
<1> SUFFICES ASSUME ActivityInv, [Next]_vars PROVE ActivityOK'
  OBVIOUS
<1>1. CASE UNCHANGED vars
  BY <1>1, UntouchedActivity DEF vars
<1>2. ASSUME NEW p \in Handlers,
             DeployStart(p) \/ RollbackStart(p) \/ GenerateStart(p)
      PROVE  ActivityOK'
  BY <1>2, UntouchedActivity DEF DeployStart, RollbackStart, GenerateStart, store
<1>3. ASSUME NEW p \in Handlers, HandlerStep(p), ~CreateDeployment(p)
      PROVE  ActivityOK'
  BY <1>3, UntouchedActivity DEF HandlerStep, store, ReadVersion, CheckActive,
     ApprovalGate, DriftGate, RollbackTarget, NextNumber, InsertVersion,
     MarkValidating, MarkReady, Refuse
<1>4. CASE ApprovalStep
  BY <1>4, UntouchedActivity DEF ApprovalStep, Submit, Review, Cancel
<1>5. CASE NodeStep
  BY <1>5, UntouchedActivity DEF NodeStep, SetEnabled, SetProduction,
     DeleteCheck, DeleteCommit, DriftCheck
<1> QED
  BY <1>1, <1>2, <1>3, <1>4, <1>5, CreateActivity, ExecutorActivity,
     RestartActivity DEF Next

LEMMA ActivityInvariant == Spec => []ActivityInv
<1>1. Init => ActivityInv
  BY InitTypeOK, InitActivity DEF ActivityInv, ActivityOK
<1>2. ActivityInv /\ [Next]_vars => ActivityInv'
  BY NextTypeOK, NextActivity DEF ActivityInv, ActivityOK
<1> QED
  BY <1>1, <1>2, PTL DEF Spec

\* Deployment.Create, with its partial unique index, and the executors keep a
\* node to one non-terminal deployment.
THEOREM OneActive == Spec => []OneActivePerNode
<1>1. ActivityInv => OneActivePerNode
  BY DEF ActivityInv
<1> QED
  BY <1>1, ActivityInvariant, PTL

\* An executor is never wrong about the status of its row.
THEOREM ExecutorsKnow == Spec => []ExecutorKnowsStatus
<1>1. ActivityInv => ExecutorKnowsStatus
  BY DEF ActivityInv
<1> QED
  BY <1>1, ActivityInvariant, PTL

\* No two executors write or verify the directory of one node.
THEOREM OneWriter == Spec => []SingleWriter
<1>1. ActivityInv => SingleWriter
  <2> SUFFICES ASSUME ActivityInv, NEW d \in Deployments, NEW e \in Deployments,
                      {exec[d], exec[e]} \subseteq
                        {"deploying", "writing", "verifying"},
                      deployment[d].node = deployment[e].node
               PROVE  d = e
    BY DEF SingleWriter
  <2>1. Active(d) /\ Active(e)
    BY DEF ActivityInv, ExecutorKnowsStatus, StatusAt, Active, ActiveStatus
  <2> QED
    BY <2>1 DEF ActivityInv, OneActivePerNode
<1> QED
  BY <1>1, ActivityInvariant, PTL

----------------------------------------------------------------------------
(* The pipeline implements DeployLedger.  The mapping forgets which of the *)
(* four active statuses a deployment has; OneActivePerNode is not needed,  *)
(* for the unique index is the abstract guard.                             *)

LEMMA SameLedger ==
  ASSUME UNCHANGED deployment
  PROVE  UNCHANGED LedgerOf
BY DEF LedgerOf, LedgerStatus, Active

LEMMA LedgerInit == Init => Ledger!Init
<1> SUFFICES ASSUME Init PROVE Ledger!Init
  OBVIOUS
<1>1. \A d \in Deployments : /\ LedgerStatus(d) = "none"
                             /\ deployment[d].node \in Nodes
  BY EmptyRows DEF Init, LedgerStatus, Active, ActiveStatus, NoDeployment
<1> QED
  BY <1>1 DEF Ledger!Init, Ledger!Entry, Ledger!Status, LedgerOf

\* A conditional status update maps to a stutter inside the active statuses
\* and to Close at the end.
LEMMA LedgerSetStatus ==
  ASSUME TypeOK, NEW d \in Deployments, NEW from \in ActiveStatus,
         NEW to \in ActiveStatus \cup {"success", "failed"},
         SetStatus(d, from, to)
  PROVE  UNCHANGED LedgerOf \/ Ledger!CloseAs(d)
<1>1. /\ deployment[d].status = from /\ deployment'[d].status = to
      /\ \A e \in Deployments : deployment'[e].node = deployment[e].node
      /\ \A e \in Deployments \ {d} : deployment'[e] = deployment[e]
  BY DEF TypeOK, Deployment, SetStatus
<1>2. LedgerOf' = [e \in Deployments |->
        [status |-> IF e = d /\ to \notin ActiveStatus THEN to
                    ELSE LedgerStatus(e),
         node |-> deployment[e].node]]
  <2>1. \A e \in Deployments :
          LedgerStatus(e)' = IF e = d /\ to \notin ActiveStatus THEN to
                             ELSE LedgerStatus(e)
    BY <1>1 DEF LedgerStatus, Active
  <2> QED
    BY <1>1, <2>1 DEF LedgerOf
<1>3. CASE to \in ActiveStatus
  BY <1>2, <1>3 DEF LedgerOf
<1>4. CASE to \notin ActiveStatus
  <2>1. LedgerOf[d].status = "open"
    BY <1>1 DEF LedgerOf, LedgerStatus, Active
  <2>2. LedgerOf' = [LedgerOf EXCEPT ![d].status = to]
    BY <1>2, <1>4 DEF LedgerOf
  <2>3. to \in {"success", "failed"}
    BY <1>4
  <2> QED
    BY <2>1, <2>2, <2>3 DEF Ledger!CloseAs, Ledger!Close
<1> QED
  BY <1>3, <1>4

LEMMA LedgerCreate ==
  ASSUME TypeOK, NEW p \in Handlers, CreateDeployment(p)
  PROVE  \E d \in Deployments, n \in Nodes : Ledger!Accept(d, n)
<1> DEFINE n == handler[p].node
<1>1. n \in Nodes
  BY DEF TypeOK, Handler
<1>2. PICK d \in Deployments :
        /\ deployment[d].status = "none"
        /\ deployment' = [deployment EXCEPT ![d] = NewDeployment(p)]
  BY DEF CreateDeployment
<1>3. LedgerOf[d].status = "none"
  BY <1>2 DEF LedgerOf, LedgerStatus, Active, ActiveStatus
<1>4. \A e \in Ledger!Open : LedgerOf[e].node # n
  <2> SUFFICES ASSUME NEW e \in Deployments, LedgerStatus(e) = "open"
               PROVE  deployment[e].node # n
    BY DEF Ledger!Open, LedgerOf
  <2>1. Active(e)
    BY DEF LedgerStatus, TypeOK, Deployment, DeploymentStatus, ActiveStatus
  <2> QED
    BY <2>1 DEF CreateDeployment, ActiveForNode
<1>5. LedgerOf' = [LedgerOf EXCEPT ![d] = [status |-> "open", node |-> n]]
  <2>1. deployment'[d].status = "pending" /\ deployment'[d].node = n
    BY <1>2 DEF TypeOK, NewDeployment
  <2>2. \A e \in Deployments \ {d} : deployment'[e] = deployment[e]
    BY <1>2 DEF TypeOK
  <2>3. LedgerStatus(d)' = "open"
    BY <2>1 DEF LedgerStatus, Active, ActiveStatus
  <2>4. \A e \in Deployments \ {d} : LedgerStatus(e)' = LedgerStatus(e)
    BY <2>2 DEF LedgerStatus, Active
  <2> QED
    BY <2>1, <2>2, <2>3, <2>4 DEF LedgerOf
<1> QED
  BY <1>1, <1>3, <1>4, <1>5 DEF Ledger!Accept

LEMMA LedgerExecutor ==
  ASSUME TypeOK, NEW d \in Deployments, ExecutorStep(d)
  PROVE  UNCHANGED LedgerOf \/ Ledger!CloseAs(d)
<1> USE DEF ActiveStatus
<1>1. CASE StartValidating(d)
  BY <1>1, LedgerSetStatus DEF StartValidating
<1>2. CASE MarkMaterialized(d)
  BY <1>2, LedgerSetStatus DEF MarkMaterialized
<1>3. CASE StartDeploying(d)
  BY <1>3, LedgerSetStatus DEF StartDeploying
<1>4. CASE Succeed(d)
  BY <1>4, LedgerSetStatus DEF Succeed
<1>5. CASE Fail(d)
  <2>1. StatusAt(exec[d]) \in ActiveStatus
    BY <1>5 DEF Fail, CanFail, StatusAt
  <2> QED
    BY <1>5, <2>1, LedgerSetStatus DEF Fail
<1>6. CASE BeginWrite(d) \/ FinishWrite(d) \/ ClearDrift(d) \/ LoseStatus(d)
  BY <1>6, SameLedger DEF BeginWrite, FinishWrite, ClearDrift, LoseStatus, store
<1> QED
  BY <1>1, <1>2, <1>3, <1>4, <1>5, <1>6 DEF ExecutorStep

LEMMA LedgerBoot ==
  ASSUME TypeOK, Boot
  PROVE  Ledger!Interrupt
<1>1. \A d \in Deployments : Active(d) <=> LedgerStatus(d) = "open"
  BY DEF LedgerStatus, TypeOK, Deployment, DeploymentStatus, ActiveStatus, Active
<1>2. \A d \in Deployments :
        /\ LedgerStatus(d)' = IF Active(d) THEN "failed" ELSE LedgerStatus(d)
        /\ deployment'[d].node = deployment[d].node
  BY DEF Boot, MarkInterruptedFailed, TypeOK, Deployment, LedgerStatus, Active,
         ActiveStatus
<1> QED
  BY <1>1, <1>2 DEF Ledger!Interrupt, Ledger!Open, LedgerOf

LEMMA LedgerNext == TypeOK /\ [Next]_vars => [Ledger!Next]_LedgerOf
<1> SUFFICES ASSUME TypeOK, [Next]_vars PROVE [Ledger!Next]_LedgerOf
  OBVIOUS
<1>1. CASE UNCHANGED vars
  BY <1>1, SameLedger DEF vars
<1>2. ASSUME NEW p \in Handlers,
             DeployStart(p) \/ RollbackStart(p) \/ GenerateStart(p)
      PROVE  UNCHANGED LedgerOf
  BY <1>2, SameLedger DEF DeployStart, RollbackStart, GenerateStart, store
<1>3. ASSUME NEW p \in Handlers, HandlerStep(p), ~CreateDeployment(p)
      PROVE  UNCHANGED LedgerOf
  BY <1>3, SameLedger DEF HandlerStep, store, ReadVersion, CheckActive,
     ApprovalGate, DriftGate, RollbackTarget, NextNumber, InsertVersion,
     MarkValidating, MarkReady, Refuse
<1>4. CASE ApprovalStep
  BY <1>4, SameLedger DEF ApprovalStep, Submit, Review, Cancel
<1>5. CASE NodeStep
  BY <1>5, SameLedger DEF NodeStep, SetEnabled, SetProduction,
     DeleteCheck, DeleteCommit, DriftCheck
<1>6. CASE Crash
  BY <1>6, SameLedger DEF Crash
<1> QED
  BY <1>1, <1>2, <1>3, <1>4, <1>5, <1>6, LedgerCreate, LedgerExecutor,
     LedgerBoot DEF Next, Ledger!Next

\* Every behaviour of the pipeline, with database faults and crashes, is a
\* behaviour of the abstract ledger: one open deployment per node, verdicts
\* that are final, and restarts that only close what is open.
THEOREM PipelineKeepsLedger == Spec => LedgerSafe
BY TypeCorrect, LedgerInit, LedgerNext, PTL DEF Spec, LedgerSafe, Ledger!Spec

----------------------------------------------------------------------------
(* Production needs an approval.  ProductionApproved is not inductive: that *)
(* the row carries an approval comes from what the request showed at the    *)
(* gate, steps earlier, and from an approved request being final.           *)

LEMMA InitApproval == Init => ApprovalInv
BY EmptyRows DEF Init, ApprovalInv, ReviewedByOthers, GatePassed,
   ProductionApproved, EmptyRelease, IdleHandler, NoDeployment

\* What an approved request unlocks, it unlocks for ever.
LEMMA ApprovedStays ==
  ASSUME TypeOK, [Next]_vars, NEW a \in Releases,
         release[a].status = "approved"
  PROVE  release'[a] = release[a]
<1>1. ASSUME NEW b \in Releases, NEW u \in Users, NEW n \in Nodes,
             NEW k \in Numbers, Submit(b, u, n, k)
      PROVE  release'[a] = release[a]
  BY <1>1 DEF TypeOK, Submit
<1>2. ASSUME NEW b \in Releases, NEW u \in Users, NEW to, Review(b, u, to)
      PROVE  release'[a] = release[a]
  BY <1>2 DEF TypeOK, Review
<1>3. ASSUME NEW b \in Releases, NEW u \in Users, Cancel(b, u)
      PROVE  release'[a] = release[a]
  BY <1>3 DEF TypeOK, Cancel
<1>4. CASE ApprovalStep
  BY <1>1, <1>2, <1>3, <1>4 DEF ApprovalStep
<1>5. ASSUME NEW p \in Handlers,
             \/ DeployStart(p) \/ RollbackStart(p) \/ GenerateStart(p)
             \/ HandlerStep(p)
      PROVE  release' = release
  BY <1>5 DEF DeployStart, RollbackStart, GenerateStart, HandlerStep, store,
     ReadVersion, CheckActive, ApprovalGate, DriftGate, RollbackTarget,
     NextNumber, InsertVersion, MarkValidating, MarkReady, CreateDeployment,
     Refuse
<1>6. ASSUME NEW d \in Deployments, ExecutorStep(d)
      PROVE  release' = release
  BY <1>6 DEF ExecutorStep, store, StartValidating, MarkMaterialized,
     StartDeploying, BeginWrite, FinishWrite, Succeed, ClearDrift, Fail,
     LoseStatus
<1>7. NodeStep \/ Crash \/ Boot \/ UNCHANGED vars => release' = release
  BY DEF NodeStep, SetEnabled, SetProduction, DeleteCheck, DeleteCommit,
     DriftCheck, Crash, Boot, vars
<1> QED
  BY <1>4, <1>5, <1>6, <1>7 DEF Next

LEMMA ApprovedForStays ==
  ASSUME TypeOK, [Next]_vars, NEW n, NEW k
  PROVE  ApprovedFor(n, k) \subseteq ApprovedFor(n, k)'
BY ApprovedStays DEF ApprovedFor

LEMMA NextReviewedByOthers ==
  ASSUME TypeOK, ReviewedByOthers, [Next]_vars
  PROVE  ReviewedByOthers'
<1> SUFFICES ASSUME NEW a \in Releases, release'[a].status = "approved"
             PROVE  release'[a].reviewer \in Users \ {release'[a].submitter}
  BY DEF ReviewedByOthers
<1>1. CASE release[a].status = "approved"
  BY <1>1, ApprovedStays DEF ReviewedByOthers
<1>2. CASE release'[a] = release[a]
  BY <1>2 DEF ReviewedByOthers
<1>3. CASE release[a].status # "approved" /\ release'[a] # release[a]
  <2>1. ApprovalStep
    BY <1>3 DEF Next, vars, store, DeployStart, RollbackStart, GenerateStart,
       HandlerStep, ReadVersion, CheckActive, ApprovalGate, DriftGate,
       RollbackTarget, NextNumber, InsertVersion, MarkValidating, MarkReady,
       CreateDeployment, Refuse, ExecutorStep, StartValidating,
       MarkMaterialized, StartDeploying, BeginWrite, FinishWrite, Succeed,
       ClearDrift, Fail, LoseStatus, NodeStep, SetEnabled, SetProduction,
       DeleteCheck, DeleteCommit, DriftCheck, Crash, Boot
  <2>2. ASSUME NEW b \in Releases, NEW u \in Users, NEW n \in Nodes,
               NEW k \in Numbers, Submit(b, u, n, k)
        PROVE  FALSE
    <3>1. release' = [release EXCEPT ![b] =
                   [EmptyRelease EXCEPT !.status = "pending", !.node = n,
                      !.version = k, !.submitter = u]]
      BY <2>2 DEF Submit
    <3>2. release'[b].status = "pending" \/ b # a
      BY <3>1 DEF TypeOK, EmptyRelease
    <3> QED
      BY <1>3, <3>1, <3>2 DEF TypeOK
  <2>3. ASSUME NEW b \in Releases, NEW u \in Users, NEW to, Review(b, u, to)
        PROVE  release'[a].reviewer \in Users \ {release'[a].submitter}
    BY <1>3, <2>3 DEF TypeOK, Review, Release
  <2>4. ASSUME NEW b \in Releases, NEW u \in Users, Cancel(b, u)
        PROVE  FALSE
    BY <1>3, <2>4 DEF TypeOK, Cancel, Release
  <2> QED
    BY <2>1, <2>2, <2>3, <2>4 DEF ApprovalStep
<1> QED
  BY <1>1, <1>2, <1>3

\* A request that is past the gate after a step either was there before, or
\* has just come from the drift gate, the approval gate or a rollback.
LEMMA NextGatePassed ==
  ASSUME TypeOK, GatePassed, [Next]_vars
  PROVE  GatePassed'
<1> DEFINE Past(p) == handler[p].pc \in {"drift", "create"}
           Shown(p) == handler[p].approval \in
                         ApprovedFor(handler[p].node, handler[p].version)
<1>0. ASSUME NEW p \in Handlers, handler'[p] = handler[p]
      PROVE  (Past(p) /\ handler[p].production => Shown(p))'
  BY <1>0, ApprovedForStays DEF GatePassed
<1>1. ASSUME NEW p \in Handlers, NEW q \in Handlers, HandlerStep(q)
      PROVE  (Past(p) /\ handler[p].production => Shown(p))'
  <2>1. CASE p # q
    <3>1. handler'[p] = handler[p]
      BY <1>1, <2>1 DEF TypeOK, HandlerStep, Goto, ReadVersion, CheckActive,
         ApprovalGate, DriftGate, RollbackTarget, NextNumber, InsertVersion,
         MarkValidating, MarkReady, CreateDeployment, Refuse
    <3> QED
      BY <1>0, <3>1
  <2>2. CASE p = q /\ (ApprovalGate(q) \/ DriftGate(q))
    <3>1. /\ handler'[p] = [handler[p] EXCEPT !.pc = handler'[p].pc]
          /\ UNCHANGED release
      BY <2>2 DEF TypeOK, Handler, ApprovalGate, DriftGate, Goto, store
    <3>2. handler[p].production => Shown(p)
      BY <2>2 DEF GatePassed, ApprovalGate, DriftGate, At,
                  ApprovedForVersionIs
    <3>3. /\ handler'[p].production = handler[p].production
          /\ handler'[p].approval = handler[p].approval
          /\ handler'[p].node = handler[p].node
          /\ handler'[p].version = handler[p].version
      BY <3>1 DEF TypeOK, Handler
    <3> QED
      BY <3>1, <3>2, <3>3 DEF ApprovedFor
  <2>3. CASE p = q /\ (ReadVersion(q) \/ CheckActive(q) \/ RollbackTarget(q)
                         \/ InsertVersion(q) \/ MarkValidating(q))
    <3>1. handler'[p].pc \notin {"drift", "create"}
      BY <2>3 DEF TypeOK, Handler, Goto, ReadVersion, CheckActive,
         RollbackTarget, InsertVersion, MarkValidating
    <3> QED
      BY <3>1
  <2>4. CASE p = q /\ NextNumber(q)
    <3>1. handler'[p].pc = "insert"
      BY <2>4 DEF TypeOK, Handler, NextNumber
    <3> QED
      BY <3>1
  <2>5. CASE p = q /\ (MarkReady(q) \/ CreateDeployment(q) \/ Refuse(q))
    <3>1. CreateDeployment(p) \/ Refuse(p) => handler'[p] = IdleHandler
      BY DEF TypeOK, CreateDeployment, Refuse
    <3>2. MarkReady(p) => \/ handler'[p] = IdleHandler
                          \/ handler'[p] =
                               [IdleHandler EXCEPT !.pc = "create",
                                  !.kind = "rollback", !.node = handler[p].node,
                                  !.version = handler[p].number]
      BY DEF TypeOK, MarkReady
    <3>3. /\ IdleHandler.production = FALSE
          /\ [IdleHandler EXCEPT !.pc = "create", !.kind = "rollback",
                !.node = handler[p].node,
                !.version = handler[p].number].production = FALSE
      BY DEF IdleHandler
    <3>4. handler'[p].production = FALSE
      BY <2>5, <3>1, <3>2, <3>3
    <3> QED
      BY <3>4
  <2> QED
    BY <1>1, <2>1, <2>2, <2>3, <2>4, <2>5 DEF HandlerStep
<1>2. ASSUME NEW p \in Handlers, NEW q \in Handlers,
             DeployStart(q) \/ RollbackStart(q) \/ GenerateStart(q)
      PROVE  (Past(p) /\ handler[p].production => Shown(p))'
  <2>1. PICK h : /\ handler' = [handler EXCEPT ![q] = h]
                 /\ h.pc \in {"version", "target", "number"}
    <3>1. CASE DeployStart(q)
      <4>1. PICK n \in Nodes, k \in Numbers, a \in Releases \cup {NoRelease} :
              handler' = [handler EXCEPT ![q] =
                            [IdleHandler EXCEPT !.pc = "version", !.node = n,
                               !.version = k, !.approval = a,
                               !.production = node[n].production]]
        BY <3>1 DEF DeployStart
      <4> DEFINE h == [IdleHandler EXCEPT !.pc = "version", !.node = n,
                           !.version = k, !.approval = a,
                           !.production = node[n].production]
      <4>2. handler' = [handler EXCEPT ![q] = h]
        BY <4>1
      <4>3. h.pc = "version"
        BY DEF IdleHandler
      <4> HIDE DEF h
      <4> QED
        BY <4>2, <4>3
    <3>2. CASE RollbackStart(q)
      <4>1. PICK n \in Nodes, k \in Numbers :
              handler' = [handler EXCEPT ![q] =
                            [IdleHandler EXCEPT !.pc = "target", !.node = n,
                               !.version = k, !.kind = "rollback"]]
        BY <3>2 DEF RollbackStart
      <4> DEFINE h == [IdleHandler EXCEPT !.pc = "target", !.node = n,
                           !.version = k, !.kind = "rollback"]
      <4>2. handler' = [handler EXCEPT ![q] = h]
        BY <4>1
      <4>3. h.pc = "target"
        BY DEF IdleHandler
      <4> HIDE DEF h
      <4> QED
        BY <4>2, <4>3
    <3>3. CASE GenerateStart(q)
      <4>1. PICK n \in Nodes :
              handler' = [handler EXCEPT ![q] =
                            [IdleHandler EXCEPT !.pc = "number", !.node = n,
                               !.kind = "generate"]]
        BY <3>3 DEF GenerateStart
      <4> DEFINE h == [IdleHandler EXCEPT !.pc = "number", !.node = n,
                           !.kind = "generate"]
      <4>2. handler' = [handler EXCEPT ![q] = h]
        BY <4>1
      <4>3. h.pc = "number"
        BY DEF IdleHandler
      <4> HIDE DEF h
      <4> QED
        BY <4>2, <4>3
    <3> QED
      BY <1>2, <3>1, <3>2, <3>3
  <2>2. handler'[p] = handler[p] \/ handler'[p].pc \notin {"drift", "create"}
    BY <2>1 DEF TypeOK
  <2> QED
    BY <1>0, <2>2
<1>3. ASSUME NEW p \in Handlers, Crash
      PROVE  (Past(p) /\ handler[p].production => Shown(p))'
  <2>1. handler'[p].pc = "idle"
    BY <1>3 DEF Crash, IdleHandler
  <2> QED
    BY <2>1
<1>4. \/ \E d \in Deployments : ExecutorStep(d)
      \/ ApprovalStep \/ NodeStep \/ Boot \/ UNCHANGED vars
      => handler' = handler
  BY DEF ExecutorStep, StartValidating, MarkMaterialized, StartDeploying,
     BeginWrite, FinishWrite, Succeed, ClearDrift, Fail, LoseStatus,
     ApprovalStep, Submit, Review, Cancel, NodeStep, SetEnabled,
     SetProduction, DeleteCheck, DeleteCommit, DriftCheck, Boot, vars
<1>5. \A p \in Handlers :
        (Past(p) /\ handler[p].production => Shown(p))'
  BY <1>0, <1>1, <1>2, <1>3, <1>4 DEF Next
<1> QED
  BY <1>5 DEF GatePassed

LEMMA NextProductionApproved ==
  ASSUME TypeOK, ApprovalInv, ReviewedByOthers', [Next]_vars
  PROVE  ProductionApproved'
<1> SUFFICES ASSUME NEW d \in Deployments, deployment'[d].status # "none",
                    deployment'[d].production
             PROVE  (deployment[d].approval \in
                       ApprovedFor(deployment[d].node, deployment[d].version))'
  BY DEF ProductionApproved, ReviewedByOthers, ApprovedFor
<1>1. CASE /\ deployment[d].status # "none"
           /\ deployment'[d].production = deployment[d].production
           /\ deployment'[d].approval = deployment[d].approval
           /\ deployment'[d].node = deployment[d].node
           /\ deployment'[d].version = deployment[d].version
  BY <1>1, ApprovedForStays DEF ApprovalInv, ProductionApproved
<1>2. ASSUME NEW p \in Handlers, CreateDeployment(p)
      PROVE  (deployment[d].approval \in
                ApprovedFor(deployment[d].node, deployment[d].version))'
  <2>1. PICK e \in Deployments :
          /\ deployment[e].status = "none"
          /\ deployment' = [deployment EXCEPT ![e] = NewDeployment(p)]
    BY <1>2 DEF CreateDeployment
  <2>2. CASE e = d
    <3>1. deployment'[d] = NewDeployment(p)
      BY <2>1, <2>2 DEF TypeOK
    <3>2. handler[p].approval \in
            ApprovedFor(handler[p].node, handler[p].version)
      BY <1>2, <3>1 DEF CreateDeployment, At, NewDeployment, ApprovalInv,
                        GatePassed
    <3> QED
      BY <3>1, <3>2, ApprovedForStays DEF NewDeployment
  <2>3. CASE e # d
    BY <1>1, <2>1, <2>3 DEF TypeOK
  <2> QED
    BY <2>2, <2>3
<1>3. ASSUME NEW e \in Deployments, NEW from \in ActiveStatus, NEW to,
             SetStatus(e, from, to)
      PROVE  (deployment[d].approval \in
                ApprovedFor(deployment[d].node, deployment[d].version))'
  <2>1. /\ deployment[e].status = from /\ from # "none"
        /\ deployment' = [deployment EXCEPT ![e].status = to]
    BY <1>3 DEF SetStatus, ActiveStatus
  <2>2. CASE e = d
    <3>1. deployment'[d] = [deployment[d] EXCEPT !.status = to]
      BY <2>1, <2>2 DEF TypeOK
    <3>2. deployment[d] \in Deployment
      BY DEF TypeOK
    <3>3. UNCHANGED <<deployment[d].production, deployment[d].approval,
                      deployment[d].node, deployment[d].version>>
      BY <3>1, <3>2 DEF Deployment
    <3> QED BY <1>1, <2>1, <2>2, <3>3
  <2>3. CASE e # d
    <3>1. deployment'[d] = deployment[d]
      BY <2>1, <2>3 DEF TypeOK
    <3> QED BY <1>1, <3>1
  <2> QED BY <2>2, <2>3
<1>4. CASE UNCHANGED deployment
  BY <1>1, <1>4
<1>5. ASSUME NEW e \in Deployments, ExecutorStep(e)
      PROVE  \/ UNCHANGED deployment
             \/ \E from \in ActiveStatus :
                  \E to \in DeploymentStatus : SetStatus(e, from, to)
  <2>1. ASSUME Fail(e) PROVE StatusAt(exec[e]) \in ActiveStatus
    BY <2>1 DEF Fail, CanFail, StatusAt, ActiveStatus
  <2> QED
    BY <1>5, <2>1 DEF ExecutorStep, StartValidating, MarkMaterialized,
       StartDeploying, BeginWrite, FinishWrite, Succeed, ClearDrift, Fail,
       LoseStatus, store, ActiveStatus, DeploymentStatus
<1>6. CASE Boot
  <2>1. deployment[d] \in Deployment
    BY DEF TypeOK
  <2>2. deployment'[d] = IF Active(d)
                         THEN [deployment[d] EXCEPT !.status = "failed"]
                         ELSE deployment[d]
    BY <1>6 DEF Boot, MarkInterruptedFailed
  <2>3. UNCHANGED <<deployment[d].production, deployment[d].approval,
                    deployment[d].node, deployment[d].version>>
    BY <2>1, <2>2 DEF Deployment
  <2>4. deployment[d].status # "none"
    BY <2>2 DEF Active, ActiveStatus
  <2> QED BY <1>1, <2>3, <2>4
<1>7. ASSUME NEW p \in Handlers,
             \/ DeployStart(p) \/ RollbackStart(p) \/ GenerateStart(p)
             \/ HandlerStep(p) /\ ~CreateDeployment(p)
      PROVE  UNCHANGED deployment
  BY <1>7 DEF DeployStart, RollbackStart, GenerateStart, HandlerStep, store,
     ReadVersion, CheckActive, ApprovalGate, DriftGate, RollbackTarget,
     NextNumber, InsertVersion, MarkValidating, MarkReady, Refuse
<1>8. ApprovalStep \/ NodeStep \/ Crash \/ UNCHANGED vars
        => UNCHANGED deployment
  BY DEF ApprovalStep, Submit, Review, Cancel, NodeStep, SetEnabled,
     SetProduction, DeleteCheck, DeleteCommit, DriftCheck, Crash, vars
<1> QED
  BY <1>2, <1>3, <1>4, <1>5, <1>6, <1>7, <1>8 DEF Next

LEMMA ApprovalInvariant == Spec => []ApprovalInv
<1>1. TypeOK /\ ApprovalInv /\ [Next]_vars => ApprovalInv'
  <2> SUFFICES ASSUME TypeOK, ApprovalInv, [Next]_vars PROVE ApprovalInv'
    OBVIOUS
  <2>1. ReviewedByOthers'
    BY NextReviewedByOthers DEF ApprovalInv
  <2>2. GatePassed'
    BY NextGatePassed DEF ApprovalInv
  <2> QED
    BY <2>1, <2>2, NextProductionApproved DEF ApprovalInv
<1> QED
  BY <1>1, InitApproval, TypeCorrect, PTL DEF Spec

\* FR-037: no deployment was judged on a production node without an approval
\* of that node and version by somebody other than its submitter.
THEOREM ProductionNeedsApproval == Spec => []ProductionApproved
<1>1. ApprovalInv => ProductionApproved
  BY DEF ApprovalInv
<1> QED
  BY <1>1, ApprovalInvariant, PTL
=============================================================================
