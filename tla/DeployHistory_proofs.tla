------------------------ MODULE DeployHistory_proofs ------------------------
(***************************************************************************)
(* Further theorems about DeployPipeline: what a node has run and what a   *)
(* version contains is history that nobody rewrites.  VersionMoves and     *)
(* DeploymentMoves are all that a step may do to the tables; what a        *)
(* request has read stays true under them (Knows), which carries the rest. *)
(***************************************************************************)
EXTENDS DeployPipeline_proofs

USE DEF Serving

-----------------------------------------------------------------------------
(* What a step does to the tables *)

VersionMoves ==
  \A n \in Nodes, k \in Numbers :
    version[n][k].status # "none" =>
      /\ version'[n][k].origin = version[n][k].origin
      /\ version'[n][k].content = version[n][k].content
      /\ \/ version'[n][k].status = version[n][k].status
         \/ /\ version[n][k].status = "pending"
            /\ version'[n][k].status = "validating"
         \/ /\ version[n][k].status = "validating"
            /\ version'[n][k].status = "ready"

DeploymentMoves ==
  \A d \in Deployments :
    \/ deployment'[d] = deployment[d]
    \/ /\ <<deployment[d].status, deployment'[d].status>> \in DeploymentEdges
       /\ deployment[d].status # "none" =>
            deployment'[d] = [deployment[d] EXCEPT !.status = deployment'[d].status]

\* The version request p is about is written, by one statement.
LEMMA AdvanceMoves ==
  ASSUME TypeOK, NEW n \in Nodes, NEW k \in Numbers, NEW from, NEW to,
         AdvanceStatus(n, k, from, to),
         <<from, to>> \in {<<"pending", "validating">>, <<"validating", "ready">>}
  PROVE  VersionMoves
<1>1. /\ version \in [Nodes -> [Numbers -> Version]]
      /\ version[n][k] \in Version /\ version[n][k].status = from
      /\ version' = [version EXCEPT ![n][k].status = to]
      /\ \/ from = "pending" /\ to = "validating"
         \/ from = "validating" /\ to = "ready"
  BY DEF TypeOK, AdvanceStatus
<1>2. ASSUME NEW m \in Nodes, NEW j \in Numbers
      PROVE  version'[m][j] = IF m = n /\ j = k
                              THEN [version[n][k] EXCEPT !.status = to]
                              ELSE version[m][j]
  BY <1>1
<1>3. /\ [version[n][k] EXCEPT !.status = to].origin = version[n][k].origin
      /\ [version[n][k] EXCEPT !.status = to].content = version[n][k].content
      /\ [version[n][k] EXCEPT !.status = to].status = to
  BY <1>1 DEF Version
<1> QED BY <1>1, <1>2, <1>3 DEF VersionMoves

LEMMA InsertMoves ==
  ASSUME TypeOK, NEW p \in Handlers, InsertVersion(p)
  PROVE  /\ VersionMoves
         /\ \A n \in Nodes, k \in Numbers :
              version'[n][k] = IF n = handler[p].node /\ k = handler[p].number
                               THEN NewVersion(p) ELSE version[n][k]
<1>1. /\ version \in [Nodes -> [Numbers -> Version]]
      /\ handler[p].node \in Nodes /\ handler[p].number \in Numbers
      /\ version[handler[p].node][handler[p].number].status = "none"
      /\ version' = [version EXCEPT
                       ![handler[p].node][handler[p].number] = NewVersion(p)]
  BY DEF TypeOK, InsertVersion, Handler
<1>2. \A n \in Nodes, k \in Numbers :
        version'[n][k] = IF n = handler[p].node /\ k = handler[p].number
                         THEN NewVersion(p) ELSE version[n][k]
  BY <1>1
<1> QED BY <1>1, <1>2 DEF VersionMoves

\* Three statements write config_versions.
LEMMA VersionWriters ==
  ASSUME Next, version' # version
  PROVE  \E p \in Handlers :
           InsertVersion(p) \/ MarkValidating(p) \/ MarkReady(p)
<1>1. CASE \E p \in Handlers :
             \/ DeployStart(p) \/ RollbackStart(p) \/ GenerateStart(p)
             \/ HandlerStep(p)
  BY <1>1 DEF DeployStart, RollbackStart, GenerateStart, HandlerStep, ReadVersion,
     CheckActive, ApprovalGate, DriftGate, RollbackTarget, NextNumber,
     CreateDeployment, Refuse, store
<1>2. CASE \E d \in Deployments : ExecutorStep(d)
  BY <1>2 DEF ExecutorStep, StartValidating, MarkMaterialized, StartDeploying,
     BeginWrite, FinishWrite, Succeed, ClearDrift, Fail, LoseStatus, store
<1>3. CASE ApprovalStep \/ NodeStep \/ Crash \/ Boot
  BY <1>3 DEF ApprovalStep, Submit, Review, Cancel, NodeStep, SetEnabled,
     SetProduction, DeleteCheck, DeleteCommit, DriftCheck, Crash, Boot
<1> QED BY <1>1, <1>2, <1>3 DEF Next

LEMMA NextVersionMoves == TypeOK /\ [Next]_vars => VersionMoves
<1> SUFFICES ASSUME TypeOK, [Next]_vars
             PROVE  VersionMoves
  OBVIOUS
<1>1. CASE version' = version
  BY <1>1 DEF VersionMoves
<1>2. CASE version' # version
  <2>1. Next
    BY <1>2 DEF vars
  <2>2. PICK p \in Handlers :
          InsertVersion(p) \/ MarkValidating(p) \/ MarkReady(p)
    BY <1>2, <2>1, VersionWriters
  <2>3. handler[p].node \in Nodes /\ handler[p].number \in Numbers
    BY DEF TypeOK, Handler
  <2> QED BY <2>2, <2>3, InsertMoves, AdvanceMoves DEF MarkValidating, MarkReady
<1> QED BY <1>1, <1>2

\* Four kinds of statement write deployments.
LEMMA DeploymentWriters ==
  ASSUME Next, deployment' # deployment
  PROVE  \/ \E p \in Handlers : CreateDeployment(p)
         \/ \E d \in Deployments :
              \/ StartValidating(d) \/ MarkMaterialized(d) \/ StartDeploying(d)
              \/ Succeed(d) \/ Fail(d)
         \/ Boot
<1>1. CASE \E p \in Handlers :
             \/ DeployStart(p) \/ RollbackStart(p) \/ GenerateStart(p)
             \/ HandlerStep(p)
  BY <1>1 DEF DeployStart, RollbackStart, GenerateStart, HandlerStep, ReadVersion,
     CheckActive, ApprovalGate, DriftGate, RollbackTarget, NextNumber,
     InsertVersion, MarkValidating, MarkReady, Refuse, store
<1>2. CASE \E d \in Deployments : ExecutorStep(d)
  BY <1>2 DEF ExecutorStep, BeginWrite, FinishWrite, ClearDrift, LoseStatus, store
<1>3. CASE ApprovalStep \/ NodeStep \/ Crash
  BY <1>3 DEF ApprovalStep, Submit, Review, Cancel, NodeStep, SetEnabled,
     SetProduction, DeleteCheck, DeleteCommit, DriftCheck, Crash
<1> QED BY <1>1, <1>2, <1>3 DEF Next

LEMMA SetStatusMoves ==
  ASSUME TypeOK, NEW d \in Deployments, NEW from, NEW to, SetStatus(d, from, to),
         <<from, to>> \in DeploymentEdges
  PROVE  DeploymentMoves
<1>1. /\ deployment \in [Deployments -> Deployment]
      /\ deployment[d] \in Deployment /\ deployment[d].status = from
      /\ deployment' = [deployment EXCEPT ![d].status = to]
  BY DEF TypeOK, SetStatus
<1>2. /\ deployment'[d] = [deployment[d] EXCEPT !.status = to]
      /\ \A e \in Deployments \ {d} : deployment'[e] = deployment[e]
  BY <1>1
<1>3. deployment'[d].status = to
  BY <1>1, <1>2 DEF Deployment
<1> QED BY <1>1, <1>2, <1>3 DEF DeploymentMoves

LEMMA BootMoves == ASSUME TypeOK, Boot PROVE DeploymentMoves
<1> SUFFICES ASSUME NEW d \in Deployments
             PROVE  \/ deployment'[d] = deployment[d]
                    \/ /\ <<deployment[d].status, "failed">> \in DeploymentEdges
                       /\ deployment'[d] = [deployment[d] EXCEPT !.status = "failed"]
                       /\ deployment'[d].status = "failed"
  BY DEF DeploymentMoves
<1>1. deployment[d] \in Deployment
  BY DEF TypeOK
<1>2. CASE Active(d)
  <2>1. deployment'[d] = [deployment[d] EXCEPT !.status = "failed"]
    BY <1>2 DEF Boot, MarkInterruptedFailed
  <2>2. deployment'[d].status = "failed"
    BY <1>1, <2>1 DEF Deployment
  <2> QED BY <1>2, <2>1, <2>2 DEF Active, ActiveStatus, DeploymentEdges
<1>3. CASE ~Active(d)
  BY <1>3 DEF Boot, MarkInterruptedFailed
<1> QED BY <1>2, <1>3

LEMMA CreateMoves ==
  ASSUME TypeOK, NEW p \in Handlers, CreateDeployment(p)
  PROVE  /\ DeploymentMoves
         /\ \E d \in Deployments :
              /\ deployment[d].status = "none"
              /\ deployment'[d] = NewDeployment(p)
              /\ exec' = [exec EXCEPT ![d] = "accepted"]
              /\ \A e \in Deployments \ {d} : deployment'[e] = deployment[e]
<1>1. PICK d \in Deployments :
        /\ deployment[d].status = "none"
        /\ deployment' = [deployment EXCEPT ![d] = NewDeployment(p)]
        /\ exec' = [exec EXCEPT ![d] = "accepted"]
  BY DEF CreateDeployment
<1>2. /\ deployment'[d] = NewDeployment(p)
      /\ \A e \in Deployments \ {d} : deployment'[e] = deployment[e]
  BY <1>1 DEF TypeOK
<1>3. NewDeployment(p).status = "pending"
  BY DEF NewDeployment
<1> QED BY <1>1, <1>2, <1>3 DEF DeploymentMoves, DeploymentEdges

LEMMA NextDeploymentMoves == TypeOK /\ [Next]_vars => DeploymentMoves
<1> SUFFICES ASSUME TypeOK, [Next]_vars
             PROVE  DeploymentMoves
  OBVIOUS
<1>1. CASE deployment' = deployment
  BY <1>1 DEF DeploymentMoves
<1>2. CASE deployment' # deployment
  <2>1. Next
    BY <1>2 DEF vars
  <2>2. ASSUME NEW d \in Deployments,
               \/ StartValidating(d) \/ MarkMaterialized(d) \/ StartDeploying(d)
               \/ Succeed(d) \/ Fail(d)
        PROVE  DeploymentMoves
    <3>1. \E from, to : /\ SetStatus(d, from, to)
                        /\ <<from, to>> \in DeploymentEdges
      BY <2>2 DEF StartValidating, MarkMaterialized, StartDeploying, Succeed, Fail,
         CanFail, StatusAt, DeploymentEdges
    <3> QED BY <3>1, SetStatusMoves
  <2> QED BY <1>2, <2>1, <2>2, DeploymentWriters, CreateMoves, BootMoves
<1> QED BY <1>1, <1>2

-----------------------------------------------------------------------------
(* History is not rewritten *)

\* A version keeps its number, origin and content, and its status only
\* advances (pgstore/pipeline.go AdvanceStatus and uq_config_versions_node_version).
THEOREM VersionsStay == Spec => VersionImmutable
<1> DEFINE Same == \A n \in Nodes : \A k \in Existing(n) :
                     LET old == version[n][k]
                         new == version'[n][k]
                     IN /\ new.origin = old.origin /\ new.content = old.content
                        /\ \/ new.status = old.status
                           \/ <<old.status, new.status>> \in
                                {<<"pending", "validating">>,
                                 <<"validating", "ready">>}
<1>1. TypeOK /\ [Next]_vars => [Same]_vars
  BY NextVersionMoves DEF VersionMoves, Existing
<1> QED BY <1>1, TypeCorrect, PTL DEF Spec, VersionImmutable

\* The status of a deployment moves along the edges of domain/state only, its
\* other columns never change (SetStatus, MarkInterruptedFailed).
THEOREM StatusFollowsPath == Spec => DeploymentStatusPath
<1> DEFINE Path == \A d \in Deployments :
                     LET old == deployment[d]
                         new == deployment'[d]
                     IN \/ new = old
                        \/ /\ <<old.status, new.status>> \in DeploymentEdges
                           /\ old.status # "none" =>
                                new = [old EXCEPT !.status = new.status]
<1>1. TypeOK /\ [Next]_vars => [Path]_vars
  BY NextDeploymentMoves DEF DeploymentMoves
<1> QED BY <1>1, TypeCorrect, PTL DEF Spec, DeploymentStatusPath

-----------------------------------------------------------------------------
(* What a request has read stays true *)

Ran(n, k, rows) ==
  \E d \in Deployments : /\ rows[d].status = "success"
                         /\ rows[d].node = n /\ rows[d].version = k

\* Version k of node n carries the content of an earlier one that the node ran.
Restores(n, k, vs, rows) ==
  \E j \in Numbers : /\ j < k /\ vs[n][j].content = vs[n][k].content
                     /\ Ran(n, j, rows)

KnowsReady(h, vs) ==
  h.pc \in {"gate", "drift", "create"} \/ (h.pc = "active" /\ h.kind = "deploy")
    => vs[h.node][h.version].status = "ready"

KnowsNumber(h, vs) ==
  h.pc = "insert" =>
    \A k \in Numbers : k < h.number => vs[h.node][k].status # "none"

KnowsTarget(h, vs, rows) ==
  h.kind = "rollback" =>
    /\ h.pc \in {"active", "number", "insert", "validate", "publish"} =>
         Ran(h.node, h.version, rows)
    /\ h.pc \in {"insert", "validate", "publish"} => h.version < h.number
    /\ h.pc \in {"validate", "publish"} =>
         /\ vs[h.node][h.number].status # "none"
         /\ vs[h.node][h.number].content = vs[h.node][h.version].content
    /\ h.pc = "create" => Restores(h.node, h.version, vs, rows)

KnowsKind(h) == h.pc \in {"version", "gate", "drift"} => h.kind = "deploy"

Knows(h, vs, rows) ==
  /\ KnowsReady(h, vs) /\ KnowsNumber(h, vs) /\ KnowsTarget(h, vs, rows)
  /\ KnowsKind(h)

RequestsKnow == \A p \in Handlers : Knows(handler[p], version, deployment)

HistoryInv ==
  /\ ActivityInv
  /\ OnlyReadyDeployed /\ NumbersDense /\ RollbackRestoresSuccess
  /\ RequestsKnow

\* What was run and what it contained stays, for whoever knows it.
LEMMA RunStays ==
  ASSUME TypeOK, DeploymentMoves, NEW n, NEW k, Ran(n, k, deployment)
  PROVE  Ran(n, k, deployment')
<1>1. PICK d \in Deployments : /\ deployment[d].status = "success"
                               /\ deployment[d].node = n
                               /\ deployment[d].version = k
  BY DEF Ran
<1>2. deployment'[d] = deployment[d]
  BY <1>1 DEF DeploymentMoves, DeploymentEdges
<1> QED BY <1>1, <1>2 DEF Ran

LEMMA RunExists ==
  ASSUME OnlyReadyDeployed, NEW n, NEW k, Ran(n, k, deployment)
  PROVE  version[n][k].status = "ready"
BY DEF OnlyReadyDeployed, Ran

LEMMA ContentStays ==
  ASSUME VersionMoves, NEW n \in Nodes, NEW k \in Numbers,
         version[n][k].status # "none"
  PROVE  /\ version'[n][k].status # "none"
         /\ version'[n][k].content = version[n][k].content
         /\ version[n][k].status = "ready" => version'[n][k].status = "ready"
BY DEF VersionMoves

LEMMA RestoredStays ==
  ASSUME TypeOK, DeploymentMoves, VersionMoves, OnlyReadyDeployed,
         NEW n \in Nodes, NEW k \in Numbers, version[n][k].status # "none",
         Restores(n, k, version, deployment)
  PROVE  Restores(n, k, version', deployment')
<1>1. PICK j \in Numbers : /\ j < k
                           /\ version[n][j].content = version[n][k].content
                           /\ Ran(n, j, deployment)
  BY DEF Restores
<1>2. version[n][j].status = "ready"
  BY <1>1, RunExists
<1>3. version'[n][j].content = version'[n][k].content
  BY <1>1, <1>2, ContentStays
<1> QED BY <1>1, <1>3, RunStays DEF Restores

LEMMA KnowsStays ==
  ASSUME TypeOK, DeploymentMoves, VersionMoves, OnlyReadyDeployed,
         NEW h \in Handler, Knows(h, version, deployment)
  PROVE  Knows(h, version', deployment')
<1>1. h.node \in Nodes /\ h.version \in Numbers /\ h.number \in Numbers
  BY DEF Handler
<1>2. KnowsReady(h, version')
  BY <1>1, ContentStays DEF Knows, KnowsReady
<1>3. KnowsNumber(h, version')
  BY <1>1, ContentStays DEF Knows, KnowsNumber
<1>4. KnowsTarget(h, version', deployment')
  <2>1. SUFFICES ASSUME h.kind = "rollback"
                 PROVE  KnowsTarget(h, version', deployment')
    BY DEF KnowsTarget
  <2>2. ASSUME h.pc \in {"active", "number", "insert", "validate", "publish"}
        PROVE  /\ Ran(h.node, h.version, deployment')
               /\ version[h.node][h.version].status = "ready"
    BY <2>1, <2>2, RunStays, RunExists DEF Knows, KnowsTarget
  <2>3. ASSUME h.pc \in {"validate", "publish"}
        PROVE  /\ version'[h.node][h.number].status # "none"
               /\ version'[h.node][h.number].content =
                    version'[h.node][h.version].content
    <3>1. version[h.node][h.version].status = "ready"
      BY <2>2, <2>3
    <3>2. /\ version[h.node][h.number].status # "none"
          /\ version[h.node][h.number].content = version[h.node][h.version].content
      BY <2>1, <2>3 DEF Knows, KnowsTarget
    <3> QED BY <1>1, <3>1, <3>2, ContentStays
  <2>4. ASSUME h.pc = "create"
        PROVE  Restores(h.node, h.version, version', deployment')
    <3>1. /\ Restores(h.node, h.version, version, deployment)
          /\ version[h.node][h.version].status = "ready"
      BY <2>1, <2>4 DEF Knows, KnowsTarget, KnowsReady
    <3> QED BY <1>1, <3>1, RestoredStays
  <2> QED BY <2>1, <2>2, <2>3, <2>4 DEF Knows, KnowsTarget
<1> QED BY <1>2, <1>3, <1>4 DEF Knows

\* Request p goes on as h, the others stay.
LEMMA OneKnows ==
  ASSUME TypeOK, DeploymentMoves, VersionMoves, OnlyReadyDeployed, RequestsKnow,
         NEW p \in Handlers, NEW h, handler' = [handler EXCEPT ![p] = h],
         Knows(h, version', deployment')
  PROVE  RequestsKnow'
<1> SUFFICES ASSUME NEW q \in Handlers
             PROVE  Knows(handler'[q], version', deployment')
  BY DEF RequestsKnow
<1>1. handler \in [Handlers -> Handler]
  BY DEF TypeOK
<1>2. CASE q = p
  <2>1. handler'[q] = h
    BY <1>1, <1>2
  <2> QED BY <2>1
<1>3. CASE q # p
  <2>1. handler'[q] = handler[q] /\ handler[q] \in Handler
    BY <1>1, <1>3
  <2>2. Knows(handler[q], version, deployment)
    BY DEF RequestsKnow
  <2> QED BY <2>1, <2>2, KnowsStays
<1> QED BY <1>2, <1>3

LEMMA IdleKnows ==
  ASSUME NEW vs, NEW rows
  PROVE  Knows(IdleHandler, vs, rows)
BY DEF IdleHandler, Knows, KnowsReady, KnowsNumber, KnowsTarget, KnowsKind

LEMMA StartKnows ==
  ASSUME HistoryInv, DeploymentMoves, VersionMoves, NEW p \in Handlers,
         DeployStart(p) \/ RollbackStart(p) \/ GenerateStart(p)
  PROVE  RequestsKnow'
<1>1. PICK h : /\ handler' = [handler EXCEPT ![p] = h]
               /\ \/ h.pc = "version" /\ h.kind = "deploy"
                  \/ h.pc = "target"
                  \/ h.pc = "number" /\ h.kind = "generate"
  <2>1. CASE DeployStart(p)
    <3>1. PICK n \in Nodes, k \in Numbers, a \in Releases \cup {NoRelease} :
            handler' = [handler EXCEPT ![p] =
                          [IdleHandler EXCEPT !.pc = "version", !.node = n,
                             !.version = k, !.approval = a,
                             !.production = node[n].production]]
      BY <2>1 DEF DeployStart
    <3> DEFINE h == [IdleHandler EXCEPT !.pc = "version", !.node = n,
                       !.version = k, !.approval = a,
                       !.production = node[n].production]
    <3>2. h.pc = "version" /\ h.kind = "deploy"
      BY DEF IdleHandler
    <3>3. handler' = [handler EXCEPT ![p] = h]
      BY <3>1
    <3> HIDE DEF h
    <3> QED BY <3>2, <3>3
  <2>2. CASE RollbackStart(p)
    <3>1. PICK n \in Nodes, k \in Numbers :
            handler' = [handler EXCEPT ![p] =
                          [IdleHandler EXCEPT !.pc = "target", !.node = n,
                             !.version = k, !.kind = "rollback"]]
      BY <2>2 DEF RollbackStart
    <3> DEFINE h == [IdleHandler EXCEPT !.pc = "target", !.node = n,
                       !.version = k, !.kind = "rollback"]
    <3>2. h.pc = "target"
      BY DEF IdleHandler
    <3>3. handler' = [handler EXCEPT ![p] = h]
      BY <3>1
    <3> HIDE DEF h
    <3> QED BY <3>2, <3>3
  <2>3. CASE GenerateStart(p)
    <3>1. PICK n \in Nodes :
            handler' = [handler EXCEPT ![p] =
                          [IdleHandler EXCEPT !.pc = "number", !.node = n,
                             !.kind = "generate"]]
      BY <2>3 DEF GenerateStart
    <3> DEFINE h == [IdleHandler EXCEPT !.pc = "number", !.node = n,
                       !.kind = "generate"]
    <3>2. h.pc = "number" /\ h.kind = "generate"
      BY DEF IdleHandler
    <3>3. handler' = [handler EXCEPT ![p] = h]
      BY <3>1
    <3> HIDE DEF h
    <3> QED BY <3>2, <3>3
  <2> QED BY <2>1, <2>2, <2>3
<1>2. Knows(h, version', deployment')
  BY <1>1 DEF Knows, KnowsReady, KnowsNumber, KnowsTarget, KnowsKind
<1> QED BY <1>1, <1>2, OneKnows DEF HistoryInv, ActivityInv

\* A request that only moves on
LEMMA GotoKnows ==
  ASSUME HistoryInv, NEW p \in Handlers,
         UNCHANGED <<store, exec, up>>,
         \/ ReadVersion(p) \/ CheckActive(p) \/ ApprovalGate(p) \/ DriftGate(p)
         \/ RollbackTarget(p)
  PROVE  RequestsKnow'
<1>1. /\ handler[p] \in Handler /\ Knows(handler[p], version, deployment)
      /\ version' = version /\ deployment' = deployment
  BY DEF HistoryInv, ActivityInv, TypeOK, RequestsKnow, store
<1>2. VersionMoves /\ DeploymentMoves
  BY <1>1 DEF VersionMoves, DeploymentMoves
<1>3. PICK pc : Goto(p, pc)
  BY DEF ReadVersion, CheckActive, ApprovalGate, DriftGate, RollbackTarget
<1> DEFINE h == [handler[p] EXCEPT !.pc = pc]
<1>4. /\ h.pc = pc /\ h.kind = handler[p].kind /\ h.node = handler[p].node
      /\ h.version = handler[p].version /\ h.number = handler[p].number
  BY <1>1 DEF Handler
<1>5. handler' = [handler EXCEPT ![p] = h]
  BY <1>3 DEF Goto, HistoryInv, ActivityInv, TypeOK
<1>6. handler'[p] = h /\ handler'[p].pc = pc
  BY <1>4, <1>5 DEF HistoryInv, ActivityInv, TypeOK
<1> HIDE DEF h
<1>7. Knows(h, version, deployment)
  <2> USE DEF Knows, KnowsReady, KnowsNumber, KnowsTarget, KnowsKind
  <2>1. CASE ReadVersion(p)
    <3>1. /\ handler[p].pc = "version" /\ pc = "active"
          /\ version[handler[p].node][handler[p].version].status = "ready"
      BY <2>1, <1>1, <1>6 DEF ReadVersion, At, Goto, HistoryInv, ActivityInv, TypeOK,
                              Handler
    <3> QED BY <3>1, <1>1, <1>4
  <2>2. CASE CheckActive(p)
    <3>1. /\ handler[p].pc = "active"
          /\ pc = IF handler[p].kind = "deploy" THEN "gate" ELSE "number"
      BY <2>2, <1>1, <1>6 DEF CheckActive, At, Goto, HistoryInv, ActivityInv, TypeOK,
                              Handler
    <3> QED BY <3>1, <1>1, <1>4
  <2>3. CASE ApprovalGate(p)
    <3>1. handler[p].pc = "gate" /\ pc = "drift"
      BY <2>3, <1>1, <1>6 DEF ApprovalGate, At, Goto, HistoryInv, ActivityInv, TypeOK,
                              Handler
    <3> QED BY <3>1, <1>1, <1>4
  <2>4. CASE DriftGate(p)
    <3>1. handler[p].pc = "drift" /\ pc = "create"
      BY <2>4, <1>1, <1>6 DEF DriftGate, At, Goto, HistoryInv, ActivityInv, TypeOK,
                              Handler
    <3> QED BY <3>1, <1>1, <1>4
  <2>5. CASE RollbackTarget(p)
    <3>1. /\ pc = "active" /\ Ran(handler[p].node, handler[p].version, deployment)
      BY <2>5, <1>1, <1>6 DEF RollbackTarget, At, Goto, HistoryInv, ActivityInv,
                              TypeOK, Handler, WasSuccessful, Ran
    <3>2. version[handler[p].node][handler[p].version].status = "ready"
      BY <3>1, RunExists DEF HistoryInv
    <3> QED BY <3>1, <3>2, <1>1, <1>4
  <2> QED BY <2>1, <2>2, <2>3, <2>4, <2>5
<1> QED BY <1>1, <1>2, <1>5, <1>7, OneKnows DEF HistoryInv, ActivityInv

LEMMA NumberKnows ==
  ASSUME HistoryInv, NEW p \in Handlers, NextNumber(p)
  PROVE  RequestsKnow'
<1>1. /\ handler[p] \in Handler /\ Knows(handler[p], version, deployment)
      /\ version' = version /\ deployment' = deployment
      /\ handler[p].pc = "number"
  BY DEF HistoryInv, ActivityInv, TypeOK, RequestsKnow, NextNumber, store, At
<1>2. VersionMoves /\ DeploymentMoves
  BY <1>1 DEF VersionMoves, DeploymentMoves
<1>3. PICK k \in Numbers :
        /\ NextVersionIs(handler[p].node, k)
        /\ handler' = [handler EXCEPT ![p] =
                         [@ EXCEPT !.pc = "insert", !.number = k]]
  BY DEF NextNumber
<1> DEFINE h == [handler[p] EXCEPT !.pc = "insert", !.number = k]
<1>4. /\ h.pc = "insert" /\ h.kind = handler[p].kind /\ h.node = handler[p].node
      /\ h.version = handler[p].version /\ h.number = k
  BY <1>1 DEF Handler
<1>5. handler' = [handler EXCEPT ![p] = h]
  BY <1>3 DEF HistoryInv, ActivityInv, TypeOK
<1> HIDE DEF h
<1>6. /\ handler[p].node \in Nodes /\ handler[p].version \in Numbers
      /\ k \in Nat /\ \A j \in Numbers : j \in Nat /\ j >= 1
  BY <1>1 DEF Handler, Numbers
<1>7. ASSUME NEW j \in Numbers, j < k
      PROVE  version[handler[p].node][j].status # "none"
  <2>1. k # 1
    BY <1>6, <1>7
  <2>2. k - 1 \in Existing(handler[p].node)
    BY <1>3, <2>1 DEF NextVersionIs
  <2>3. 1 .. (k - 1) \subseteq Existing(handler[p].node)
    BY <1>6, <2>2 DEF HistoryInv, NumbersDense
  <2>4. j \in 1 .. (k - 1)
    BY <1>6, <1>7
  <2> QED BY <2>3, <2>4 DEF Existing
<1>8. handler[p].kind = "rollback" => handler[p].version < k
  <2>1. SUFFICES ASSUME handler[p].kind = "rollback"
                 PROVE  handler[p].version < k
    OBVIOUS
  <2>2. Ran(handler[p].node, handler[p].version, deployment)
    BY <1>1, <2>1 DEF Knows, KnowsTarget
  <2>3. version[handler[p].node][handler[p].version].status = "ready"
    BY <2>2, RunExists DEF HistoryInv
  <2> QED BY <1>3, <1>6, <2>3 DEF NextVersionIs, Existing
<1>9. Knows(h, version, deployment)
  BY <1>1, <1>4, <1>7, <1>8 DEF Knows, KnowsReady, KnowsNumber, KnowsTarget, KnowsKind
<1> QED BY <1>1, <1>2, <1>5, <1>9, OneKnows DEF HistoryInv, ActivityInv

LEMMA InsertKnows ==
  ASSUME HistoryInv, NEW p \in Handlers, InsertVersion(p)
  PROVE  RequestsKnow' /\ NumbersDense'
<1>1. /\ handler[p] \in Handler /\ Knows(handler[p], version, deployment)
      /\ deployment' = deployment /\ handler[p].pc = "insert"
      /\ version[handler[p].node][handler[p].number].status = "none"
      /\ Goto(p, "validate")
  BY DEF HistoryInv, ActivityInv, TypeOK, RequestsKnow, InsertVersion, At
<1>2. VersionMoves /\ DeploymentMoves
  BY <1>1, InsertMoves DEF DeploymentMoves, HistoryInv, ActivityInv
<1>3. \A n \in Nodes, k \in Numbers :
        version'[n][k] = IF n = handler[p].node /\ k = handler[p].number
                         THEN NewVersion(p) ELSE version[n][k]
  BY InsertMoves DEF HistoryInv, ActivityInv
<1> DEFINE h == [handler[p] EXCEPT !.pc = "validate"]
<1>4. /\ h.pc = "validate" /\ h.kind = handler[p].kind
      /\ h.node = handler[p].node /\ h.version = handler[p].version
      /\ h.number = handler[p].number
  BY <1>1 DEF Handler
<1>5. handler' = [handler EXCEPT ![p] = h]
  BY <1>1 DEF Goto, HistoryInv, ActivityInv, TypeOK
<1> HIDE DEF h
<1>6. /\ handler[p].node \in Nodes /\ handler[p].version \in Numbers
      /\ handler[p].number \in Numbers
      /\ \A j \in Numbers : j \in Nat /\ j >= 1
  BY <1>1 DEF Handler, Numbers
<1>7. /\ NewVersion(p).status = "pending"
      /\ handler[p].kind = "rollback" =>
           NewVersion(p).content =
             version[handler[p].node][handler[p].version].content
  BY DEF NewVersion
<1>8. Knows(h, version', deployment')
  <2>1. SUFFICES ASSUME handler[p].kind = "rollback"
                 PROVE  KnowsTarget(h, version', deployment')
    BY <1>4 DEF Knows, KnowsReady, KnowsNumber, KnowsTarget, KnowsKind
  <2>2. /\ Ran(handler[p].node, handler[p].version, deployment)
        /\ handler[p].version < handler[p].number
    BY <1>1, <2>1 DEF Knows, KnowsTarget
  <2>3. /\ version'[handler[p].node][handler[p].number] = NewVersion(p)
        /\ version'[handler[p].node][handler[p].version] =
             version[handler[p].node][handler[p].version]
    BY <1>3, <1>6, <2>2
  <2> QED BY <1>1, <1>4, <1>7, <2>1, <2>2, <2>3 DEF KnowsTarget
<1>9. NumbersDense'
  <2>1. SUFFICES ASSUME NEW n \in Nodes, NEW k \in Numbers,
                        version'[n][k].status # "none", NEW j \in 1 .. k
                 PROVE  j \in Numbers /\ version'[n][j].status # "none"
    BY DEF NumbersDense, Existing
  <2>2. j \in Numbers /\ j \in Nat /\ k \in Nat /\ j <= k
    BY <2>1, MaxVersionAssumption DEF Numbers
  <2>3. CASE version[n][k].status # "none"
    <3>1. version[n][j].status # "none"
      BY <2>1, <2>3 DEF HistoryInv, NumbersDense, Existing
    <3> QED BY <1>2, <2>2, <3>1, ContentStays
  <2>4. CASE version[n][k].status = "none"
    <3>1. n = handler[p].node /\ k = handler[p].number
      BY <1>3, <2>1, <2>4
    <3>2. CASE j = k
      BY <2>1, <2>2, <3>2
    <3>3. CASE j # k
      <4>1. version[n][j].status # "none"
        BY <1>1, <2>2, <3>1, <3>3 DEF Knows, KnowsNumber
      <4> QED BY <1>2, <2>2, <4>1, ContentStays
    <3> QED BY <3>2, <3>3
  <2> QED BY <2>3, <2>4
<1> QED BY <1>1, <1>2, <1>5, <1>8, <1>9, OneKnows DEF HistoryInv, ActivityInv

LEMMA AdvanceKnows ==
  ASSUME HistoryInv, NEW p \in Handlers, MarkValidating(p) \/ MarkReady(p)
  PROVE  RequestsKnow' /\ NumbersDense'
<1> DEFINE n == handler[p].node
           k == handler[p].number
<1>1. /\ handler[p] \in Handler /\ Knows(handler[p], version, deployment)
      /\ deployment' = deployment /\ n \in Nodes /\ k \in Numbers
      /\ handler[p].version \in Numbers
      /\ version[n][k] \in Version /\ version \in [Nodes -> [Numbers -> Version]]
      /\ handler \in [Handlers -> Handler]
  BY DEF HistoryInv, ActivityInv, TypeOK, RequestsKnow, MarkValidating, MarkReady,
         Handler
<1>2. /\ handler[p].pc \in {"validate", "publish"}
      /\ \E from, to : /\ AdvanceStatus(n, k, from, to)
                       /\ <<from, to>> \in {<<"pending", "validating">>,
                                            <<"validating", "ready">>}
      /\ MarkReady(p) => AdvanceStatus(n, k, "validating", "ready")
  BY DEF MarkValidating, MarkReady, At
<1>3. VersionMoves
  BY <1>1, <1>2, AdvanceMoves DEF HistoryInv, ActivityInv
<1>4. DeploymentMoves
  BY <1>1 DEF DeploymentMoves
<1>5. \A m \in Nodes, j \in Numbers :
        version'[m][j].status = "none" <=> version[m][j].status = "none"
  BY <1>1, <1>2 DEF AdvanceStatus, Version
<1>6. NumbersDense'
  BY <1>5 DEF HistoryInv, NumbersDense, Existing
<1>7. Knows(handler[p], version', deployment')
  BY <1>1, <1>3, <1>4, KnowsStays DEF HistoryInv, ActivityInv
<1>8. CASE MarkValidating(p)
  <2> DEFINE h == [handler[p] EXCEPT !.pc = "publish"]
  <2>1. /\ h.pc = "publish" /\ h.kind = handler[p].kind /\ h.node = n
        /\ h.version = handler[p].version /\ h.number = k
    BY <1>1 DEF Handler
  <2>2. handler' = [handler EXCEPT ![p] = h]
    BY <1>1, <1>8 DEF MarkValidating, Goto
  <2>3. handler[p].pc = "validate"
    BY <1>8 DEF MarkValidating, At
  <2> HIDE DEF h
  <2>4. Knows(h, version', deployment')
    BY <1>7, <2>1, <2>3 DEF Knows, KnowsReady, KnowsNumber, KnowsTarget, KnowsKind
  <2> QED BY <1>3, <1>4, <1>6, <2>2, <2>4, OneKnows DEF HistoryInv, ActivityInv
<1>9. CASE MarkReady(p) /\ handler[p].kind = "rollback"
  <2> DEFINE h == [IdleHandler EXCEPT !.pc = "create", !.kind = "rollback",
                     !.node = n, !.version = k]
  <2>1. h.pc = "create" /\ h.kind = "rollback" /\ h.node = n /\ h.version = k
    BY DEF IdleHandler
  <2>2. handler' = [handler EXCEPT ![p] = h]
    BY <1>9 DEF MarkReady
  <2> HIDE DEF h
  <2>3. version'[n][k].status = "ready"
    BY <1>1, <1>2, <1>9 DEF AdvanceStatus, Version
  <2>4. /\ Ran(n, handler[p].version, deployment') /\ handler[p].version < k
        /\ version'[n][k].content = version'[n][handler[p].version].content
    BY <1>2, <1>7, <1>9 DEF Knows, KnowsTarget
  <2>5. Restores(n, k, version', deployment')
    BY <1>1, <2>4 DEF Restores
  <2>6. Knows(h, version', deployment')
    BY <2>1, <2>3, <2>5 DEF Knows, KnowsReady, KnowsNumber, KnowsTarget, KnowsKind
  <2> QED BY <1>3, <1>4, <1>6, <2>2, <2>6, OneKnows DEF HistoryInv, ActivityInv
<1>10. CASE MarkReady(p) /\ handler[p].kind # "rollback"
  <2>1. handler' = [handler EXCEPT ![p] = IdleHandler]
    BY <1>10 DEF MarkReady
  <2> QED BY <1>3, <1>4, <1>6, <2>1, IdleKnows, OneKnows DEF HistoryInv, ActivityInv
<1> QED BY <1>8, <1>9, <1>10

\* The other steps leave the requests as they are, or end them.
LEMMA OthersKnow ==
  ASSUME HistoryInv, VersionMoves, DeploymentMoves,
         \/ UNCHANGED handler
         \/ handler' = [p \in Handlers |-> IdleHandler]
         \/ \E p \in Handlers : handler' = [handler EXCEPT ![p] = IdleHandler]
  PROVE  RequestsKnow'
<1>1. CASE UNCHANGED handler
  <2>1. SUFFICES ASSUME NEW p \in Handlers
                 PROVE  Knows(handler[p], version', deployment')
    BY <1>1 DEF RequestsKnow
  <2>2. handler[p] \in Handler /\ Knows(handler[p], version, deployment)
    BY DEF HistoryInv, ActivityInv, TypeOK, RequestsKnow
  <2> QED BY <2>2, KnowsStays DEF HistoryInv, ActivityInv
<1>2. CASE handler' = [p \in Handlers |-> IdleHandler]
  BY <1>2, IdleKnows DEF RequestsKnow
<1>3. CASE \E p \in Handlers : handler' = [handler EXCEPT ![p] = IdleHandler]
  BY <1>3, IdleKnows, OneKnows DEF HistoryInv, ActivityInv
<1> QED BY <1>1, <1>2, <1>3

LEMMA NextKnows ==
  ASSUME HistoryInv, Next
  PROVE  RequestsKnow' /\ NumbersDense'
<1>1. VersionMoves /\ DeploymentMoves
  BY NextVersionMoves, NextDeploymentMoves DEF HistoryInv, ActivityInv
<1>2. CASE version' # version
  BY <1>2, VersionWriters, InsertKnows, AdvanceKnows
<1>3. CASE version' = version
  <2>1. NumbersDense'
    BY <1>3 DEF HistoryInv, NumbersDense, Existing
  <2>2. ASSUME NEW p \in Handlers,
               \/ DeployStart(p) \/ RollbackStart(p) \/ GenerateStart(p)
        PROVE  RequestsKnow'
    BY <1>1, <2>2, StartKnows
  <2>3. ASSUME NEW p \in Handlers, HandlerStep(p)
        PROVE  RequestsKnow'
    <3>1. CASE ReadVersion(p) \/ CheckActive(p) \/ ApprovalGate(p) \/ DriftGate(p)
                 \/ RollbackTarget(p)
      <4>1. UNCHANGED <<store, exec, up>>
        BY <3>1 DEF ReadVersion, CheckActive, ApprovalGate, DriftGate,
                    RollbackTarget
      <4> QED BY <3>1, <4>1, GotoKnows
    <3>2. CASE CreateDeployment(p) \/ Refuse(p)
      BY <3>2, <1>1, OthersKnow DEF CreateDeployment, Refuse
    <3> QED BY <2>3, <3>1, <3>2, NumberKnows, InsertKnows, AdvanceKnows
            DEF HandlerStep
  <2>4. ASSUME NEW d \in Deployments, ExecutorStep(d)
        PROVE  RequestsKnow'
    <3>1. UNCHANGED handler
      BY <2>4 DEF ExecutorStep, StartValidating, MarkMaterialized, StartDeploying,
         BeginWrite, FinishWrite, Succeed, ClearDrift, Fail, LoseStatus
    <3> QED BY <1>1, <3>1, OthersKnow
  <2>5. ASSUME ApprovalStep \/ NodeStep \/ Boot
        PROVE  RequestsKnow'
    <3>1. UNCHANGED handler
      BY <2>5 DEF ApprovalStep, Submit, Review, Cancel, NodeStep, SetEnabled,
         SetProduction, DeleteCheck, DeleteCommit, DriftCheck, Boot
    <3> QED BY <1>1, <3>1, OthersKnow
  <2>6. ASSUME Crash
        PROVE  RequestsKnow'
    BY <1>1, <2>6, OthersKnow DEF Crash
  <2> QED BY <1>1, <2>1, <2>2, <2>3, <2>4, <2>5, <2>6 DEF Next
<1> QED BY <1>2, <1>3

\* Only CreateDeployment makes a row.
LEMMA NewRow ==
  ASSUME TypeOK, Next, NEW d \in Deployments,
         deployment[d].status = "none", deployment'[d].status # "none"
  PROVE  \E p \in Handlers : /\ CreateDeployment(p)
                             /\ deployment'[d] = NewDeployment(p)
<1>1. deployment' # deployment /\ deployment \in [Deployments -> Deployment]
  BY DEF TypeOK
<1>2. ASSUME NEW e \in Deployments,
             \/ StartValidating(e) \/ MarkMaterialized(e) \/ StartDeploying(e)
             \/ Succeed(e) \/ Fail(e)
      PROVE  FALSE
  <2>1. \E from, to : SetStatus(e, from, to) /\ from # "none"
    BY <1>2 DEF StartValidating, MarkMaterialized, StartDeploying, Succeed, Fail,
       CanFail, StatusAt
  <2>2. deployment[e].status # "none"
    BY <2>1 DEF SetStatus
  <2>3. deployment'[d] = deployment[d]
    BY <1>1, <2>1, <2>2 DEF SetStatus
  <2> QED BY <2>3
<1>3. ~Boot
  BY DEF Boot, MarkInterruptedFailed, Active, ActiveStatus
<1>4. PICK p \in Handlers : CreateDeployment(p)
  BY <1>1, <1>2, <1>3, DeploymentWriters
<1>5. deployment'[d] = NewDeployment(p)
  BY <1>4, CreateMoves
<1> QED BY <1>4, <1>5

LEMMA NextDeployed ==
  ASSUME HistoryInv, Next
  PROVE  OnlyReadyDeployed' /\ RollbackRestoresSuccess'
<1> SUFFICES ASSUME NEW d \in Deployments, deployment'[d].status # "none"
             PROVE  /\ version'[deployment'[d].node][deployment'[d].version].status
                         = "ready"
                    /\ deployment'[d].trigger = "rollback" =>
                         Restores(deployment'[d].node, deployment'[d].version,
                                  version', deployment')
  BY DEF OnlyReadyDeployed, RollbackRestoresSuccess, Restores, Ran, Content,
         WasSuccessful
<1>1. VersionMoves /\ DeploymentMoves /\ TypeOK /\ OnlyReadyDeployed
  BY NextVersionMoves, NextDeploymentMoves DEF HistoryInv, ActivityInv
<1>2. /\ deployment[d] \in Deployment /\ deployment[d].node \in Nodes
      /\ deployment[d].version \in Numbers
  BY <1>1 DEF TypeOK, Deployment
<1>3. CASE deployment[d].status # "none"
  <2>1. /\ deployment'[d].node = deployment[d].node
        /\ deployment'[d].version = deployment[d].version
        /\ deployment'[d].trigger = deployment[d].trigger
    BY <1>1, <1>2, <1>3 DEF DeploymentMoves, Deployment
  <2>2. version[deployment[d].node][deployment[d].version].status = "ready"
    BY <1>1, <1>3 DEF OnlyReadyDeployed
  <2>3. version'[deployment[d].node][deployment[d].version].status = "ready"
    BY <1>1, <1>2, <2>2, ContentStays
  <2>4. ASSUME deployment[d].trigger = "rollback"
        PROVE  Restores(deployment[d].node, deployment[d].version,
                        version', deployment')
    <3>1. Restores(deployment[d].node, deployment[d].version, version, deployment)
      BY <1>3, <2>4 DEF HistoryInv, RollbackRestoresSuccess, Restores, Ran, Content,
                        WasSuccessful
    <3> QED BY <1>1, <1>2, <2>2, <3>1, RestoredStays
  <2> QED BY <2>1, <2>3, <2>4
<1>4. CASE deployment[d].status = "none"
  <2>1. PICK p \in Handlers : /\ CreateDeployment(p)
                              /\ deployment'[d] = NewDeployment(p)
    BY <1>1, <1>4, NewRow
  <2>2. /\ handler[p] \in Handler /\ Knows(handler[p], version, deployment)
        /\ handler[p].pc = "create" /\ version' = version
    BY <2>1 DEF HistoryInv, ActivityInv, TypeOK, RequestsKnow, CreateDeployment, At
  <2>3. /\ deployment'[d].node = handler[p].node
        /\ deployment'[d].version = handler[p].version
        /\ deployment'[d].trigger = "rollback" => handler[p].kind = "rollback"
    BY <2>1 DEF NewDeployment
  <2>4. Knows(handler[p], version', deployment')
    BY <1>1, <2>2, KnowsStays
  <2> QED BY <2>2, <2>3, <2>4 DEF Knows, KnowsReady, KnowsTarget
<1> QED BY <1>3, <1>4

LEMMA InitHistory == Init => HistoryInv
<1> SUFFICES ASSUME Init
             PROVE  HistoryInv
  OBVIOUS
<1>1. ActivityInv
  BY InitTypeOK, InitActivity DEF ActivityInv, ActivityOK
<1>2. /\ \A n \in Nodes, k \in Numbers : version[n][k].status = "none"
      /\ \A d \in Deployments : deployment[d].status = "none"
      /\ \A p \in Handlers : handler[p] = IdleHandler
  BY DEF Init, NoVersion, NoDeployment
<1>3. NumbersDense
  BY <1>2 DEF NumbersDense, Existing
<1>4. OnlyReadyDeployed /\ RollbackRestoresSuccess
  BY <1>2 DEF OnlyReadyDeployed, RollbackRestoresSuccess
<1>5. RequestsKnow
  BY <1>2, IdleKnows DEF RequestsKnow
<1> QED BY <1>1, <1>3, <1>4, <1>5 DEF HistoryInv

LEMMA NextHistory == HistoryInv /\ [Next]_vars => HistoryInv'
<1> SUFFICES ASSUME HistoryInv, [Next]_vars
             PROVE  HistoryInv'
  OBVIOUS
<1>1. ActivityInv'
  BY NextTypeOK, NextActivity DEF HistoryInv, ActivityInv, ActivityOK
<1>2. CASE Next
  BY <1>1, <1>2, NextKnows, NextDeployed DEF HistoryInv
<1>3. CASE UNCHANGED vars
  <2>1. version' = version /\ deployment' = deployment /\ handler' = handler
    BY <1>3 DEF vars
  <2>2. (OnlyReadyDeployed /\ NumbersDense /\ RollbackRestoresSuccess
           /\ RequestsKnow)'
    BY <2>1 DEF HistoryInv, OnlyReadyDeployed, NumbersDense, Existing,
                RollbackRestoresSuccess, Content, WasSuccessful, RequestsKnow
  <2> QED BY <1>1, <2>2 DEF HistoryInv
<1> QED BY <1>2, <1>3

LEMMA HistoryInvariant == Spec => []HistoryInv
BY InitHistory, NextHistory, PTL DEF Spec

\* Only versions that went through generation and validation are ever
\* accepted, deployed or rolled back to (deploy.go Deploy, rollback.go).
THEOREM OnlyReadyReleased == Spec => []OnlyReadyDeployed
<1>1. HistoryInv => OnlyReadyDeployed
  BY DEF HistoryInv
<1> QED BY <1>1, HistoryInvariant, PTL

\* A rollback puts back what its node has run successfully, however many
\* versions and rollbacks lie in between (rollback.go Rollback).
THEOREM RollbacksRestore == Spec => []RollbackRestoresSuccess
<1>1. HistoryInv => RollbackRestoresSuccess
  BY DEF HistoryInv
<1> QED BY <1>1, HistoryInvariant, PTL

\* Version numbers have no gap (pgstore/pipeline.go NextVersion, Create).
THEOREM NumbersHaveNoGap == Spec => []NumbersDense
<1>1. HistoryInv => NumbersDense
  BY DEF HistoryInv
<1> QED BY <1>1, HistoryInvariant, PTL

-----------------------------------------------------------------------------
(* Nothing waits for a restart that no restart interrupted *)

\* Only a failing database leaves an active row without its executor: the
\* other way out, a refused status change, is one an executor never meets.
LEMMA ExecutorNoOrphan ==
  ASSUME ActivityInv, NoOrphan, ~DBFaults, up, NEW d \in Deployments, ExecutorStep(d),
         NEW e \in Deployments, Active(e)'
  PROVE  exec'[e] # "off"
<1>0. /\ deployment \in [Deployments -> Deployment]
      /\ exec \in [Deployments -> ExecPC]
      /\ exec[d] # "off" => deployment[d].status = StatusAt(exec[d])
      /\ deployment[d].status \in ActiveStatus => exec[d] # "off"
      /\ deployment[e].status \in ActiveStatus => exec[e] # "off"
  BY DEF ActivityInv, TypeOK, ExecutorKnowsStatus, NoOrphan, Active
<1>1. CASE e # d
  <2>1. deployment'[e] = deployment[e] /\ exec'[e] = exec[e]
    BY <1>0, <1>1 DEF ExecutorStep, StartValidating, MarkMaterialized,
       StartDeploying, BeginWrite, FinishWrite, Succeed, ClearDrift, Fail,
       LoseStatus, SetStatus, Resume, store
  <2> QED BY <1>0, <2>1 DEF Active
<1>2. CASE e = d
  <2>1. CASE StartValidating(d) \/ MarkMaterialized(d) \/ StartDeploying(d)
             \/ BeginWrite(d) \/ FinishWrite(d) \/ Succeed(d)
    BY <1>0, <1>2, <2>1 DEF StartValidating, MarkMaterialized, StartDeploying,
       BeginWrite, FinishWrite, Succeed, Resume
  <2>2. CASE Fail(d)
    BY <1>0, <1>2, <2>2 DEF Fail, SetStatus, Deployment, Active, ActiveStatus
  <2>3. CASE ClearDrift(d)
    BY <1>0, <1>2, <2>3 DEF ClearDrift, Running, StatusAt, Active, ActiveStatus
  <2>4. CASE LoseStatus(d)
    BY <1>0, <2>4 DEF LoseStatus
  <2> QED BY <2>1, <2>2, <2>3, <2>4 DEF ExecutorStep
<1> QED BY <1>1, <1>2

LEMMA NextNoOrphan == ActivityInv /\ NoOrphan /\ [Next]_vars => NoOrphan'
<1> SUFFICES ASSUME ActivityInv, NoOrphan, [Next]_vars, up', ~DBFaults,
                    NEW e \in Deployments, Active(e)'
             PROVE  exec'[e] # "off"
  BY DEF NoOrphan
<1>1. CASE UNCHANGED <<deployment, exec, up>>
  BY <1>1 DEF NoOrphan, Active
<1>2. ASSUME NEW p \in Handlers, CreateDeployment(p)
      PROVE  exec'[e] # "off"
  <2>1. PICK d \in Deployments :
          /\ deployment' = [deployment EXCEPT ![d] = NewDeployment(p)]
          /\ exec' = [exec EXCEPT ![d] = "accepted"] /\ up' = up
    BY <1>2 DEF CreateDeployment
  <2> QED BY <2>1 DEF ActivityInv, TypeOK, NoOrphan, Active
<1>3. ASSUME NEW d \in Deployments, ExecutorStep(d)
      PROVE  exec'[e] # "off"
  <2>1. up
    BY <1>3 DEF ExecutorStep, StartValidating, MarkMaterialized, StartDeploying,
       BeginWrite, FinishWrite, Succeed, ClearDrift, Fail, LoseStatus, Running
  <2> QED BY <1>3, <2>1, ExecutorNoOrphan
<1>4. CASE Crash
  BY <1>4 DEF Crash
<1>5. CASE Boot
  BY <1>5 DEF Boot, MarkInterruptedFailed, Active, ActiveStatus, ActivityInv,
     TypeOK, Deployment
<1>6. ASSUME NEW p \in Handlers,
             \/ DeployStart(p) \/ RollbackStart(p) \/ GenerateStart(p)
             \/ HandlerStep(p) /\ ~CreateDeployment(p)
      PROVE  UNCHANGED <<deployment, exec, up>>
  BY <1>6 DEF DeployStart, RollbackStart, GenerateStart, HandlerStep, store,
     ReadVersion, CheckActive, ApprovalGate, DriftGate, RollbackTarget,
     NextNumber, InsertVersion, MarkValidating, MarkReady, Refuse
<1>7. ApprovalStep \/ NodeStep \/ UNCHANGED vars
        => UNCHANGED <<deployment, exec, up>>
  BY DEF ApprovalStep, Submit, Review, Cancel, NodeStep, SetEnabled,
     SetProduction, DeleteCheck, DeleteCommit, DriftCheck, vars
<1> QED BY <1>1, <1>2, <1>3, <1>4, <1>5, <1>6, <1>7 DEF Next

\* In a running server whose database answers, an active deployment has an
\* executor (deploy.go run; serve.go MarkInterruptedFailed before listening).
THEOREM NothingOrphaned == Spec => []NoOrphan
<1>1. Init => NoOrphan
  BY DEF Init, NoOrphan, Active, ActiveStatus, NoDeployment
<1> QED BY <1>1, NextNoOrphan, ActivityInvariant, PTL DEF Spec

-----------------------------------------------------------------------------
(* What an executor that writes or verifies finds in the directory *)

Holds(d) ==
  /\ exec[d] = "writing" => disk[deployment[d].node].content = Content(d)
  /\ exec[d] = "verifying" =>
       disk[deployment[d].node] = [content |-> Content(d), whole |-> TRUE]

DiskInv == \A d \in Deployments : Holds(d)

\* The row of an executor keeps its node and the content it is to write.
LEMMA SameRelease ==
  ASSUME HistoryInv, [Next]_vars, NEW d \in Deployments, exec[d] # "off"
  PROVE  deployment'[d].node = deployment[d].node /\ Content(d)' = Content(d)
<1>1. /\ deployment[d] \in Deployment
      /\ deployment[d].status = StatusAt(exec[d]) /\ exec[d] \in ExecPC
      /\ VersionMoves /\ DeploymentMoves
  BY NextVersionMoves, NextDeploymentMoves
     DEF HistoryInv, ActivityInv, TypeOK, ExecutorKnowsStatus
<1>2. deployment[d].status # "none"
  BY <1>1 DEF StatusAt, ExecPC
<1>3. /\ deployment'[d].node = deployment[d].node
      /\ deployment'[d].version = deployment[d].version
  BY <1>1, <1>2 DEF DeploymentMoves, Deployment
<1>4. /\ deployment[d].node \in Nodes /\ deployment[d].version \in Numbers
      /\ version[deployment[d].node][deployment[d].version].status = "ready"
  BY <1>1, <1>2 DEF HistoryInv, OnlyReadyDeployed, Deployment
<1>5. version'[deployment[d].node][deployment[d].version].content
        = version[deployment[d].node][deployment[d].version].content
  BY <1>1, <1>4, ContentStays
<1> QED BY <1>3, <1>5 DEF Content

\* While one executor writes, no other one of its node is writing or verifying.
LEMMA WriterAlone ==
  ASSUME HistoryInv, NEW d \in Deployments, NEW e \in Deployments,
         exec[d] \in {"deploying", "writing"}, exec[e] \in {"writing", "verifying"},
         deployment[d].node = deployment[e].node
  PROVE  d = e
<1>1. Active(d) /\ Active(e)
  BY DEF HistoryInv, ActivityInv, ExecutorKnowsStatus, StatusAt, Active,
         ActiveStatus
<1> QED BY <1>1 DEF HistoryInv, ActivityInv, OneActivePerNode

LEMMA QuietHolds ==
  ASSUME HistoryInv, DiskInv, [Next]_vars, NEW e \in Deployments,
         exec[e] \in {"writing", "verifying"}, exec'[e] = exec[e],
         disk'[deployment[e].node] = disk[deployment[e].node]
  PROVE  Holds(e)'
<1>1. deployment'[e].node = deployment[e].node /\ Content(e)' = Content(e)
  BY SameRelease
<1>2. Holds(e)
  BY DEF DiskInv
<1> QED BY <1>1, <1>2 DEF Holds

LEMMA WriteHolds ==
  ASSUME HistoryInv, DiskInv, Next, NEW d \in Deployments,
         BeginWrite(d) \/ FinishWrite(d), NEW e \in Deployments
  PROVE  Holds(e)'
<1>0. /\ deployment[d] \in Deployment /\ deployment[e] \in Deployment
      /\ disk \in [Nodes -> Disk] /\ exec \in [Deployments -> ExecPC]
      /\ exec[d] \in {"deploying", "writing"}
      /\ deployment[d].node \in Nodes /\ deployment[e].node \in Nodes
  BY DEF HistoryInv, ActivityInv, TypeOK, BeginWrite, FinishWrite, Running,
         Deployment
<1>1. CASE e = d
  <2>1. deployment'[d].node = deployment[d].node /\ Content(d)' = Content(d)
    BY <1>0, SameRelease
  <2>2. CASE BeginWrite(d)
    BY <1>0, <1>1, <2>1, <2>2 DEF BeginWrite, Resume, Holds
  <2>3. CASE FinishWrite(d)
    <3>1. disk[deployment[d].node].content = Content(d)
      BY <2>3 DEF FinishWrite, Running, DiskInv, Holds
    <3>2. disk'[deployment[d].node]
            = [disk[deployment[d].node] EXCEPT !.whole = TRUE]
      BY <1>0, <2>3 DEF FinishWrite
    <3>3. disk'[deployment[d].node] = [content |-> Content(d), whole |-> TRUE]
      BY <1>0, <3>1, <3>2 DEF Disk
    <3> QED BY <1>0, <1>1, <2>1, <2>3, <3>3 DEF FinishWrite, Resume, Holds
  <2> QED BY <2>2, <2>3
<1>2. CASE e # d
  <2>1. exec'[e] = exec[e]
    BY <1>0, <1>2 DEF BeginWrite, FinishWrite, Resume
  <2>2. CASE exec[e] \notin {"writing", "verifying"}
    BY <2>1, <2>2 DEF Holds
  <2>3. CASE exec[e] \in {"writing", "verifying"}
    <3>1. deployment[d].node # deployment[e].node
      BY <1>0, <1>2, <2>3, WriterAlone
    <3>2. disk'[deployment[e].node] = disk[deployment[e].node]
      BY <1>0, <3>1 DEF BeginWrite, FinishWrite
    <3> QED BY <2>1, <2>3, <3>2, QuietHolds
  <2> QED BY <2>2, <2>3
<1> QED BY <1>1, <1>2

LEMMA NextDisk == HistoryInv /\ DiskInv /\ [Next]_vars => DiskInv'
<1> SUFFICES ASSUME HistoryInv, DiskInv, [Next]_vars, NEW e \in Deployments
             PROVE  Holds(e)'
  BY DEF DiskInv
<1> DEFINE Quiet == /\ disk' = disk
                    /\ exec'[e] \in {"writing", "verifying"} => exec'[e] = exec[e]
<1>1. CASE Quiet
  BY <1>1, QuietHolds DEF Holds
<1>2. ASSUME NEW d \in Deployments, BeginWrite(d) \/ FinishWrite(d)
      PROVE  Holds(e)'
  BY <1>2, WriteHolds DEF Next, ExecutorStep
<1>3. ASSUME NEW d \in Deployments, ExecutorStep(d), ~BeginWrite(d), ~FinishWrite(d)
      PROVE  Quiet
  <2>1. exec \in [Deployments -> ExecPC]
    BY DEF HistoryInv, ActivityInv, TypeOK
  <2> QED BY <1>3, <2>1 DEF ExecutorStep, StartValidating, MarkMaterialized,
          StartDeploying, Succeed, ClearDrift, Fail, LoseStatus, Resume, store
<1>4. ASSUME NEW p \in Handlers, CreateDeployment(p)
      PROVE  Quiet
  <2>1. exec \in [Deployments -> ExecPC]
    BY DEF HistoryInv, ActivityInv, TypeOK
  <2> QED BY <1>4, <2>1 DEF CreateDeployment
<1>5. ASSUME NEW p \in Handlers,
             \/ DeployStart(p) \/ RollbackStart(p) \/ GenerateStart(p)
             \/ HandlerStep(p) /\ ~CreateDeployment(p)
      PROVE  Quiet
  BY <1>5 DEF DeployStart, RollbackStart, GenerateStart, HandlerStep, store,
     ReadVersion, CheckActive, ApprovalGate, DriftGate, RollbackTarget,
     NextNumber, InsertVersion, MarkValidating, MarkReady, Refuse
<1>6. ApprovalStep \/ NodeStep \/ Crash \/ Boot \/ UNCHANGED vars => Quiet
  BY DEF ApprovalStep, Submit, Review, Cancel, NodeStep, SetEnabled,
     SetProduction, DeleteCheck, DeleteCommit, DriftCheck, Crash, Boot, vars
<1> HIDE DEF Quiet
<1> QED BY <1>1, <1>2, <1>3, <1>4, <1>5, <1>6 DEF Next

\* A success is recorded over a directory that holds the version's content,
\* complete and unmixed (deploy.go run: Deploy, then verify, then SetStatus).
THEOREM SuccessesOnDisk == Spec => SuccessOnDisk
<1> DEFINE OnDisk ==
      \A d \in Deployments :
        deployment'[d].status = "success" /\ deployment[d].status # "success" =>
          disk[deployment[d].node] = [content |-> Content(d), whole |-> TRUE]
<1>1. Init => DiskInv
  BY DEF Init, DiskInv, Holds
<1>2. HistoryInv /\ DiskInv /\ [Next]_vars => [OnDisk]_vars
  <2> SUFFICES ASSUME HistoryInv, DiskInv, Next, NEW d \in Deployments,
                      deployment'[d].status = "success",
                      deployment[d].status # "success"
               PROVE  disk[deployment[d].node]
                        = [content |-> Content(d), whole |-> TRUE]
    OBVIOUS
  <2>0. deployment \in [Deployments -> Deployment]
    BY DEF HistoryInv, ActivityInv, TypeOK
  <2>1. ~ \E p \in Handlers : CreateDeployment(p)
    BY <2>0 DEF CreateDeployment, NewDeployment
  <2>2. ~ Boot
    BY <2>0 DEF Boot, MarkInterruptedFailed, Deployment
  <2>3. PICK e \in Deployments : \/ StartValidating(e) \/ MarkMaterialized(e)
                                 \/ StartDeploying(e) \/ Succeed(e) \/ Fail(e)
    BY <2>1, <2>2, DeploymentWriters
  <2>4. Succeed(e) /\ e = d
    BY <2>0, <2>3 DEF StartValidating, MarkMaterialized, StartDeploying, Succeed,
       Fail, SetStatus, Deployment
  <2> QED BY <2>4 DEF Succeed, Running, DiskInv, Holds
<1> QED BY <1>1, <1>2, NextDisk, HistoryInvariant, PTL DEF Spec, SuccessOnDisk

-----------------------------------------------------------------------------
(* What is true for good.  A decision taken on one of these facts is not   *)
(* overtaken by anything that happens before it is carried out.            *)

\* What DeployLedger_proofs shows of a ledger holds of the deployments.
Promise == INSTANCE DeployLedger_proofs WITH ledger <- LedgerOf

LEMMA PromiseKept == Spec => Promise!Spec
<1>1. Ledger!Init => Promise!Init
  BY DEF Ledger!Init, Ledger!Entry, Ledger!Status,
         Promise!Init, Promise!Entry, Promise!Status
<1>2. [Ledger!Next]_LedgerOf => [Promise!Next]_LedgerOf
  BY DEF Ledger!Next, Ledger!Accept, Ledger!CloseAs, Ledger!Close,
         Ledger!Interrupt, Ledger!Open,
         Promise!Next, Promise!Accept, Promise!CloseAs, Promise!Close,
         Promise!Interrupt, Promise!Open
<1> QED
  BY <1>1, <1>2, PipelineKeepsLedger, PTL
     DEF LedgerSafe, Ledger!Spec, Promise!Spec

\* A verdict is final, across any number of restarts (deploy.go run,
\* pgstore/pipeline.go SetStatus, MarkInterruptedFailed).
THEOREM VerdictsFinal ==
  ASSUME NEW d \in Deployments, NEW v \in {"success", "failed"}
  PROVE  Spec => [](deployment[d].status = v => [](deployment[d].status = v))
<1>1. LedgerOf[d].status = v <=> deployment[d].status = v
  BY DEF LedgerOf, LedgerStatus, Active, ActiveStatus
<1>2. Spec => [](LedgerOf[d].status = v => [](LedgerOf[d].status = v))
  BY PromiseKept, Promise!VerdictIsFinal
<1> QED BY <1>1, <1>2, PTL

\* A version that may be rolled back to may be rolled back to for ever: it
\* keeps its successful deployment, its readiness and its content
\* (rollback.go wasSuccessful reads them steps before the insert).
THEOREM RollbackTargetsStay ==
  ASSUME NEW n \in Nodes, NEW k \in Numbers, NEW c
  PROVE  Spec => [](WasSuccessful(n, k) /\ version[n][k].content = c
                      => [](/\ WasSuccessful(n, k)
                            /\ version[n][k].status = "ready"
                            /\ version[n][k].content = c))
<1> DEFINE Target == WasSuccessful(n, k) /\ version[n][k].content = c
           Stays == Target /\ version[n][k].status = "ready"
<1>1. HistoryInv /\ Target => Stays
  BY RunExists DEF HistoryInv, WasSuccessful, Ran
<1>2. HistoryInv /\ Stays /\ [Next]_vars => Stays'
  <2> SUFFICES ASSUME HistoryInv, Stays, [Next]_vars PROVE Stays'
    OBVIOUS
  <2>1. TypeOK /\ VersionMoves /\ DeploymentMoves
    BY NextVersionMoves, NextDeploymentMoves DEF HistoryInv, ActivityInv
  <2>2. WasSuccessful(n, k)'
    <3>1. Ran(n, k, deployment)
      BY DEF WasSuccessful, Ran
    <3>2. Ran(n, k, deployment')
      BY <2>1, <3>1, RunStays
    <3> QED BY <3>2 DEF WasSuccessful, Ran
  <2>3. version'[n][k].content = c /\ version'[n][k].status = "ready"
    BY <2>1 DEF VersionMoves
  <2> QED BY <2>2, <2>3
<1> QED BY <1>1, <1>2, HistoryInvariant, PTL DEF Spec

\* An approval that the gate has accepted is never withdrawn or moved to
\* another version (approvalsvc Approve, Cancel).
THEOREM ApprovalsStay ==
  ASSUME NEW n \in Nodes, NEW k \in Numbers, NEW a \in Releases
  PROVE  Spec => [](a \in ApprovedFor(n, k) => [](a \in ApprovedFor(n, k)))
<1>1. TypeOK /\ a \in ApprovedFor(n, k) /\ [Next]_vars
        => (a \in ApprovedFor(n, k))'
  BY ApprovedForStays
<1> QED BY <1>1, TypeCorrect, PTL DEF Spec

-----------------------------------------------------------------------------
(* Nothing but the pipeline fills a directory *)

\* The content of a node's directory was deployed to that node.
DiskProvenance ==
  \A n \in Nodes :
    disk[n].content # 0 =>
      \E d \in Deployments :
        /\ deployment[d].status \in {"deploying", "success", "failed"}
        /\ deployment[d].node = n
        /\ Content(d) = disk[n].content

LEMMA DiskWriters ==
  ASSUME Next, disk' # disk
  PROVE  \E d \in Deployments : BeginWrite(d) \/ FinishWrite(d)
<1>1. ASSUME NEW d \in Deployments, ExecutorStep(d), ~BeginWrite(d), ~FinishWrite(d)
      PROVE  disk' = disk
  BY <1>1 DEF ExecutorStep, StartValidating, MarkMaterialized, StartDeploying,
     Succeed, ClearDrift, Fail, LoseStatus, store
<1>2. ASSUME NEW p \in Handlers,
             \/ DeployStart(p) \/ RollbackStart(p) \/ GenerateStart(p)
             \/ HandlerStep(p)
      PROVE  disk' = disk
  BY <1>2 DEF DeployStart, RollbackStart, GenerateStart, HandlerStep, store,
     ReadVersion, CheckActive, ApprovalGate, DriftGate, RollbackTarget,
     NextNumber, InsertVersion, MarkValidating, MarkReady, CreateDeployment, Refuse
<1>3. ApprovalStep \/ NodeStep \/ Crash \/ Boot => disk' = disk
  BY DEF ApprovalStep, Submit, Review, Cancel, NodeStep, SetEnabled,
     SetProduction, DeleteCheck, DeleteCommit, DriftCheck, Crash, Boot
<1> QED BY <1>1, <1>2, <1>3 DEF Next

LEMMA NextProvenance == HistoryInv /\ DiskProvenance /\ [Next]_vars => DiskProvenance'
<1> SUFFICES ASSUME HistoryInv, DiskProvenance, [Next]_vars, NEW n \in Nodes,
                    disk'[n].content # 0
             PROVE  \E d \in Deployments :
                      /\ deployment'[d].status \in {"deploying", "success", "failed"}
                      /\ deployment'[d].node = n
                      /\ Content(d)' = disk'[n].content
  BY DEF DiskProvenance
<1>0. /\ disk \in [Nodes -> Disk]
      /\ deployment \in [Deployments -> Deployment]
      /\ VersionMoves /\ DeploymentMoves
  BY NextVersionMoves, NextDeploymentMoves DEF HistoryInv, ActivityInv, TypeOK
<1>1. ASSUME NEW d \in Deployments, deployment[d].node = n,
             deployment[d].status \in {"deploying", "success", "failed"}
      PROVE  /\ deployment'[d].status \in {"deploying", "success", "failed"}
             /\ deployment'[d].node = n
             /\ Content(d)' = Content(d)
  <2>1. /\ deployment'[d].status \in {"deploying", "success", "failed"}
        /\ deployment'[d].node = n
        /\ deployment'[d].version = deployment[d].version
    BY <1>0, <1>1 DEF DeploymentMoves, DeploymentEdges, Deployment
  <2>2. /\ deployment[d].version \in Numbers
        /\ version[n][deployment[d].version].status = "ready"
    BY <1>0, <1>1 DEF HistoryInv, OnlyReadyDeployed, Deployment
  <2>3. version'[n][deployment[d].version].content
          = version[n][deployment[d].version].content
    BY <1>0, <2>2, ContentStays
  <2> QED BY <1>1, <2>1, <2>3 DEF Content
<1>2. CASE disk'[n].content = disk[n].content
  <2>1. PICK d \in Deployments :
          /\ deployment[d].status \in {"deploying", "success", "failed"}
          /\ deployment[d].node = n /\ Content(d) = disk[n].content
    BY <1>2 DEF DiskProvenance
  <2> QED BY <1>1, <1>2, <2>1
<1>3. CASE disk'[n].content # disk[n].content
  <2>1. PICK d \in Deployments : BeginWrite(d)
    <3>1. ASSUME NEW d \in Deployments, FinishWrite(d)
          PROVE  disk'[n].content = disk[n].content
      BY <1>0, <3>1 DEF FinishWrite, Disk
    <3>2. disk' # disk
      BY <1>3
    <3>3. Next
      BY <3>2 DEF vars
    <3> QED BY <1>3, <3>1, <3>2, <3>3, DiskWriters
  <2>2. deployment[d].node = n /\ disk'[n].content = Content(d)
    BY <1>0, <1>3, <2>1 DEF BeginWrite
  <2>3. deployment[d].status = "deploying"
    BY <2>1 DEF BeginWrite, Running, HistoryInv, ActivityInv,
       ExecutorKnowsStatus, StatusAt
  <2> QED BY <1>1, <2>2, <2>3
<1> QED BY <1>2, <1>3

\* Whatever a node serves was accepted for that node as a ready version, gone
\* through the pipeline up to the write; a restart, a failed write or a
\* deployment of another node adds nothing to its directory.
THEOREM ServedWasDeployed == Spec => [](DiskProvenance /\ OnlyReadyDeployed)
<1>1. Init => DiskProvenance
  BY DEF Init, DiskProvenance
<1>2. HistoryInv => OnlyReadyDeployed
  BY DEF HistoryInv
<1> QED BY <1>1, <1>2, NextProvenance, HistoryInvariant, PTL DEF Spec

-----------------------------------------------------------------------------
(* Requests and executors end.  Neither loops nor retries: every step that *)
(* one makes takes it nearer to its end, however the others interleave.    *)

\* How many steps an executor, a request can still make
ExecRank(pc) ==
  CASE pc = "off" -> 0 [] pc = "clearing" -> 1 [] pc = "verifying" -> 2
    [] pc = "writing" -> 3 [] pc = "deploying" -> 4 [] pc = "ready" -> 5
    [] pc = "validating" -> 6 [] pc = "accepted" -> 7

RequestRank(pc) ==
  CASE pc = "idle" -> 0 [] pc = "create" -> 1 [] pc = "publish" -> 2
    [] pc = "validate" -> 3 [] pc = "insert" -> 4 [] pc = "number" -> 5
    [] pc = "drift" -> 2 [] pc = "gate" -> 3 [] pc = "active" -> 6
    [] pc = "target" -> 7 [] pc = "version" -> 7

\* An executor makes at most seven steps, and a deployment has one executor:
\* only the insert of its row starts one, and no other step, of a request,
\* another executor or a restart, moves it except to its end (deploy.go run).
THEOREM ExecutorsEnd ==
  Spec => [][\A d \in Deployments :
               /\ ExecutorStep(d) => ExecRank(exec'[d]) < ExecRank(exec[d])
               /\ exec'[d] # exec[d] =>
                    \/ ExecRank(exec'[d]) < ExecRank(exec[d])
                    \/ deployment[d].status = "none" /\ exec'[d] = "accepted"
            ]_vars
<1> DEFINE Ends(d) ==
             /\ ExecutorStep(d) => ExecRank(exec'[d]) < ExecRank(exec[d])
             /\ exec'[d] # exec[d] =>
                  \/ ExecRank(exec'[d]) < ExecRank(exec[d])
                  \/ deployment[d].status = "none" /\ exec'[d] = "accepted"
<1>1. ASSUME TypeOK, NEW d \in Deployments, NEW e \in Deployments, ExecutorStep(e)
      PROVE  IF e = d THEN ExecRank(exec'[d]) < ExecRank(exec[d])
                      ELSE exec'[d] = exec[d]
  <2>1. exec \in [Deployments -> ExecPC]
    BY <1>1 DEF TypeOK
  <2>2. PICK pc : exec' = [exec EXCEPT ![e] = pc] /\ ExecRank(pc) < ExecRank(exec[e])
    <3>1. CASE Fail(e)
      <4>1. exec[e] \in CanFail /\ exec' = [exec EXCEPT ![e] = "off"]
        BY <3>1 DEF Fail, Resume
      <4>2. ExecRank("off") < ExecRank(exec[e])
        BY <4>1 DEF CanFail, ExecRank
      <4> QED BY <4>1, <4>2
    <3>2. CASE LoseStatus(e)
      <4>1. exec[e] \in ExecPC \ {"off"} /\ exec' = [exec EXCEPT ![e] = "off"]
        BY <2>1, <3>2 DEF LoseStatus, Resume
      <4>2. ExecRank("off") < ExecRank(exec[e])
        BY <4>1 DEF ExecPC, ExecRank
      <4> QED BY <4>1, <4>2
    <3>3. CASE StartValidating(e) \/ MarkMaterialized(e) \/ StartDeploying(e)
      BY <3>3 DEF StartValidating, MarkMaterialized, StartDeploying, Running,
         Resume, ExecRank
    <3>4. CASE BeginWrite(e) \/ FinishWrite(e) \/ Succeed(e) \/ ClearDrift(e)
      BY <3>4 DEF BeginWrite, FinishWrite, Succeed, ClearDrift, Running,
         Resume, ExecRank
    <3> QED BY <1>1, <3>1, <3>2, <3>3, <3>4 DEF ExecutorStep
  <2> QED BY <2>1, <2>2
<1>2. ASSUME TypeOK, Next, NEW d \in Deployments, exec'[d] # exec[d],
             ~ \E e \in Deployments : ExecutorStep(e)
      PROVE  \/ ExecRank(exec'[d]) < ExecRank(exec[d])
             \/ deployment[d].status = "none" /\ exec'[d] = "accepted"
  <2>1. \/ Crash
        \/ \E p \in Handlers : CreateDeployment(p)
    <3>1. ASSUME NEW p \in Handlers,
                 \/ DeployStart(p) \/ RollbackStart(p) \/ GenerateStart(p)
                 \/ HandlerStep(p) /\ ~CreateDeployment(p)
          PROVE  exec' = exec
      BY <3>1 DEF DeployStart, RollbackStart, GenerateStart, HandlerStep, store,
         ReadVersion, CheckActive, ApprovalGate, DriftGate, RollbackTarget,
         NextNumber, InsertVersion, MarkValidating, MarkReady, Refuse
    <3>2. ApprovalStep \/ NodeStep \/ Boot => exec' = exec
      BY DEF ApprovalStep, Submit, Review, Cancel, NodeStep, SetEnabled,
         SetProduction, DeleteCheck, DeleteCommit, DriftCheck, Boot
    <3> QED BY <1>2, <3>1, <3>2 DEF Next
  <2>2. exec[d] \in ExecPC
    BY <1>2 DEF TypeOK
  <2>3. CASE Crash
    <3>1. exec'[d] = "off"
      BY <2>3 DEF Crash
    <3> QED BY <1>2, <2>2, <3>1 DEF ExecPC, ExecRank
  <2>4. ASSUME NEW p \in Handlers, CreateDeployment(p)
        PROVE  deployment[d].status = "none" /\ exec'[d] = "accepted"
    BY <1>2, <2>4 DEF CreateDeployment, TypeOK
  <2> QED BY <2>1, <2>3, <2>4
<1>3. TypeOK /\ [Next]_vars => [\A d \in Deployments : Ends(d)]_vars
  <2> SUFFICES ASSUME TypeOK, Next, NEW d \in Deployments PROVE Ends(d)
    OBVIOUS
  <2> QED BY <1>1, <1>2
<1> QED BY <1>3, TypeCorrect, PTL DEF Spec

\* A request makes at most seven steps after its first: the numbering race,
\* the gate and the unique indexes refuse it, they never send it back
\* (deploy.go Deploy, rollback.go Rollback, version.go CreateVersion).
THEOREM RequestsEnd ==
  Spec => [][\A p \in Handlers :
               HandlerStep(p) => RequestRank(handler'[p].pc)
                                   < RequestRank(handler[p].pc)]_vars
<1> DEFINE Ends(p) == HandlerStep(p) => RequestRank(handler'[p].pc)
                                          < RequestRank(handler[p].pc)
<1>1. ASSUME TypeOK, NEW p \in Handlers, HandlerStep(p)
      PROVE  RequestRank(handler'[p].pc) < RequestRank(handler[p].pc)
  <2>1. handler \in [Handlers -> Handler] /\ handler[p].pc \in HandlerPC
    BY <1>1 DEF TypeOK, Handler
  <2>2. CASE ReadVersion(p) \/ ApprovalGate(p) \/ DriftGate(p)
             \/ RollbackTarget(p)
    <3>1. PICK pc : /\ handler' = [handler EXCEPT ![p].pc = pc]
                    /\ RequestRank(pc) < RequestRank(handler[p].pc)
      BY <2>2 DEF ReadVersion, ApprovalGate, DriftGate, RollbackTarget, At,
         Goto, RequestRank
    <3> QED BY <2>1, <3>1 DEF Handler
  <2>3. CASE CheckActive(p)
    <3>1. PICK pc \in {"gate", "number"} :
             handler' = [handler EXCEPT ![p].pc = pc] /\ handler[p].pc = "active"
      BY <2>3 DEF CheckActive, At, Goto
    <3>2. handler'[p].pc = pc
      BY <2>1, <3>1 DEF Handler
    <3> QED BY <3>1, <3>2 DEF RequestRank
  <2>4. CASE NextNumber(p)
    <3>1. PICK k \in Numbers :
             handler' = [handler EXCEPT ![p] = [@ EXCEPT !.pc = "insert", !.number = k]]
      BY <2>4 DEF NextNumber
    <3>2. handler'[p].pc = "insert" /\ handler[p].pc = "number"
      BY <2>1, <2>4, <3>1 DEF Handler, NextNumber, At
    <3> QED BY <3>2 DEF RequestRank
  <2>5. CASE InsertVersion(p) \/ MarkValidating(p)
    <3>1. PICK pc \in {"validate", "publish"} :
            /\ handler' = [handler EXCEPT ![p].pc = pc]
            /\ handler[p].pc = IF pc = "validate" THEN "insert" ELSE "validate"
      BY <2>5 DEF InsertVersion, MarkValidating, At, Goto
    <3>2. handler'[p].pc = pc
      BY <2>1, <3>1 DEF Handler
    <3> QED BY <3>1, <3>2 DEF RequestRank
  <2>6. CASE MarkReady(p)
    <3>1. handler'[p].pc \in {"create", "idle"} /\ handler[p].pc = "publish"
      BY <2>1, <2>6 DEF MarkReady, At, IdleHandler
    <3> QED BY <3>1 DEF RequestRank
  <2>7. CASE CreateDeployment(p) \/ Refuse(p)
    <3>1. handler'[p].pc = "idle" /\ handler[p].pc # "idle"
      BY <2>1, <2>7 DEF CreateDeployment, Refuse, At, IdleHandler
    <3> QED BY <2>1, <3>1 DEF RequestRank, HandlerPC
  <2> QED BY <1>1, <2>2, <2>3, <2>4, <2>5, <2>6, <2>7 DEF HandlerStep
<1>2. TypeOK /\ [Next]_vars => [\A p \in Handlers : Ends(p)]_vars
  BY <1>1
<1> QED BY <1>2, TypeCorrect, PTL DEF Spec

-----------------------------------------------------------------------------
(* ProductionWriteApproved does not hold: see the run production_write.    *)
(* This is how much of it does.  On a node that stays in production every  *)
(* deployment but a rollback has an approval, so the two gaps of the gate  *)
(* are all there are: a rollback, and a node that is moved to production.  *)

\* The gate of every deploy request for n is told that n is in production.
Told(h, n) ==
  h.node = n /\ h.pc # "idle" =>
    /\ h.kind = "deploy" => h.production
    /\ h.pc = "create" => h.kind # "generate"

Judged(n) ==
  /\ \A p \in Handlers : Told(handler[p], n)
  /\ \A d \in Deployments :
       /\ deployment[d].status # "none" /\ deployment[d].node = n
       /\ deployment[d].trigger = "deploy"
       => deployment[d].production

LEMMA OneTold ==
  ASSUME TypeOK, NEW n, NEW p \in Handlers, NEW h,
         \A q \in Handlers : Told(handler[q], n),
         handler' = [handler EXCEPT ![p] = h], Told(h, n)
  PROVE  \A q \in Handlers : Told(handler'[q], n)
BY DEF TypeOK

LEMMA IdleTold == ASSUME NEW n PROVE Told(IdleHandler, n)
BY DEF Told, IdleHandler

LEMMA RequestTold ==
  ASSUME TypeOK, RequestsKnow, NEW n \in Nodes, node[n].production,
         \A q \in Handlers : Told(handler[q], n), NEW p \in Handlers,
         \/ DeployStart(p) \/ RollbackStart(p) \/ GenerateStart(p)
         \/ HandlerStep(p)
  PROVE  \A q \in Handlers : Told(handler'[q], n)
<1>0. handler \in [Handlers -> Handler] /\ handler[p] \in Handler
  BY DEF TypeOK
<1>1. CASE DeployStart(p)
  <2>1. PICK m \in Nodes, k \in Numbers, a \in Releases \cup {NoRelease} :
          handler' = [handler EXCEPT ![p] =
                        [IdleHandler EXCEPT !.pc = "version", !.node = m,
                           !.version = k, !.approval = a,
                           !.production = node[m].production]]
    BY <1>1 DEF DeployStart
  <2> DEFINE h == [IdleHandler EXCEPT !.pc = "version", !.node = m,
                     !.version = k, !.approval = a,
                     !.production = node[m].production]
  <2>2. h.node = m /\ h.pc = "version" /\ h.production = node[m].production
    BY DEF IdleHandler
  <2>3. handler' = [handler EXCEPT ![p] = h]
    BY <2>1
  <2> HIDE DEF h
  <2> QED BY <2>2, <2>3, OneTold DEF Told
<1>2. CASE RollbackStart(p)
  <2>1. PICK m \in Nodes, k \in Numbers :
          handler' = [handler EXCEPT ![p] =
                        [IdleHandler EXCEPT !.pc = "target", !.node = m,
                           !.version = k, !.kind = "rollback"]]
    BY <1>2 DEF RollbackStart
  <2> DEFINE h == [IdleHandler EXCEPT !.pc = "target", !.node = m,
                     !.version = k, !.kind = "rollback"]
  <2>2. h.kind = "rollback"
    BY DEF IdleHandler
  <2>3. handler' = [handler EXCEPT ![p] = h]
    BY <2>1
  <2> HIDE DEF h
  <2> QED BY <2>2, <2>3, OneTold DEF Told
<1>3. CASE GenerateStart(p)
  <2>1. PICK m \in Nodes :
          handler' = [handler EXCEPT ![p] =
                        [IdleHandler EXCEPT !.pc = "number", !.node = m,
                           !.kind = "generate"]]
    BY <1>3 DEF GenerateStart
  <2> DEFINE h == [IdleHandler EXCEPT !.pc = "number", !.node = m,
                     !.kind = "generate"]
  <2>2. h.kind = "generate" /\ h.pc = "number"
    BY DEF IdleHandler
  <2>3. handler' = [handler EXCEPT ![p] = h]
    BY <2>1
  <2> HIDE DEF h
  <2> QED BY <2>2, <2>3, OneTold DEF Told
<1>4. CASE ReadVersion(p) \/ CheckActive(p) \/ ApprovalGate(p) \/ DriftGate(p)
           \/ RollbackTarget(p) \/ InsertVersion(p) \/ MarkValidating(p)
  <2>1. PICK pc : /\ handler' = [handler EXCEPT ![p].pc = pc]
                  /\ handler[p].pc # "idle"
                  /\ pc = "create" => handler[p].pc = "drift"
    BY <1>4 DEF ReadVersion, CheckActive, ApprovalGate, DriftGate,
       RollbackTarget, InsertVersion, MarkValidating, At, Goto
  <2> DEFINE h == [handler[p] EXCEPT !.pc = pc]
  <2>2. /\ h.pc = pc /\ h.node = handler[p].node /\ h.kind = handler[p].kind
        /\ h.production = handler[p].production
    BY <1>0 DEF Handler
  <2>3. handler' = [handler EXCEPT ![p] = h]
    BY <2>1
  <2>4. pc = "create" => handler[p].kind = "deploy"
    BY <2>1 DEF RequestsKnow, Knows, KnowsKind
  <2> HIDE DEF h
  <2>5. Told(h, n)
    BY <2>1, <2>2, <2>4 DEF Told
  <2> QED BY <2>3, <2>5, OneTold
<1>5. CASE NextNumber(p)
  <2>1. PICK k \in Numbers :
          handler' = [handler EXCEPT ![p] =
                        [@ EXCEPT !.pc = "insert", !.number = k]]
    BY <1>5 DEF NextNumber
  <2> DEFINE h == [handler[p] EXCEPT !.pc = "insert", !.number = k]
  <2>2. /\ h.pc = "insert" /\ h.node = handler[p].node
        /\ h.kind = handler[p].kind /\ h.production = handler[p].production
        /\ handler[p].pc # "idle"
    BY <1>0, <1>5 DEF Handler, NextNumber, At
  <2>3. handler' = [handler EXCEPT ![p] = h]
    BY <2>1
  <2> HIDE DEF h
  <2>4. Told(h, n)
    BY <2>2 DEF Told
  <2> QED BY <2>3, <2>4, OneTold
<1>6. CASE MarkReady(p) /\ handler[p].kind = "rollback"
  <2> DEFINE h == [IdleHandler EXCEPT !.pc = "create", !.kind = "rollback",
                     !.node = handler[p].node, !.version = handler[p].number]
  <2>1. h.kind = "rollback"
    BY DEF IdleHandler
  <2>2. handler' = [handler EXCEPT ![p] = h]
    BY <1>6 DEF MarkReady
  <2> HIDE DEF h
  <2> QED BY <2>1, <2>2, OneTold DEF Told
<1>7. CASE \/ MarkReady(p) /\ handler[p].kind # "rollback"
           \/ CreateDeployment(p) \/ Refuse(p)
  <2>1. handler' = [handler EXCEPT ![p] = IdleHandler]
    BY <1>7 DEF MarkReady, CreateDeployment, Refuse
  <2> QED BY <2>1, IdleTold, OneTold
<1> QED BY <1>1, <1>2, <1>3, <1>4, <1>5, <1>6, <1>7 DEF HandlerStep

LEMMA NextJudged ==
  ASSUME NEW n \in Nodes
  PROVE  HistoryInv /\ Judged(n) /\ node[n].production /\ [Next]_vars
           => Judged(n)'
<1> SUFFICES ASSUME HistoryInv, Judged(n), node[n].production, [Next]_vars
             PROVE  Judged(n)'
  OBVIOUS
<1>0. TypeOK /\ RequestsKnow /\ DeploymentMoves
  BY NextDeploymentMoves DEF HistoryInv, ActivityInv
<1>1. \A q \in Handlers : Told(handler'[q], n)
  <2>1. CASE \E p \in Handlers :
               \/ DeployStart(p) \/ RollbackStart(p) \/ GenerateStart(p)
               \/ HandlerStep(p)
    BY <1>0, <2>1, RequestTold DEF Judged
  <2>2. CASE Crash
    BY <2>2, IdleTold DEF Crash
  <2>3. \/ \E d \in Deployments : ExecutorStep(d)
        \/ ApprovalStep \/ NodeStep \/ Boot \/ UNCHANGED vars
        => handler' = handler
    BY DEF ExecutorStep, StartValidating, MarkMaterialized, StartDeploying,
       BeginWrite, FinishWrite, Succeed, ClearDrift, Fail, LoseStatus,
       ApprovalStep, Submit, Review, Cancel, NodeStep, SetEnabled,
       SetProduction, DeleteCheck, DeleteCommit, DriftCheck, Boot, vars
  <2> QED BY <2>1, <2>2, <2>3 DEF Next, Judged
<1>2. ASSUME NEW d \in Deployments,
             deployment'[d].status # "none", deployment'[d].node = n,
             deployment'[d].trigger = "deploy"
      PROVE  deployment'[d].production
  <2>0. deployment[d] \in Deployment
    BY <1>0 DEF TypeOK
  <2>1. CASE deployment'[d] = deployment[d]
    BY <1>2, <2>1 DEF Judged
  <2>2. CASE deployment[d].status # "none" /\ deployment'[d] # deployment[d]
    <3>1. PICK s : deployment'[d] = [deployment[d] EXCEPT !.status = s]
      BY <1>0, <2>2 DEF DeploymentMoves
    <3>2. /\ deployment'[d].node = deployment[d].node
          /\ deployment'[d].trigger = deployment[d].trigger
          /\ deployment'[d].production = deployment[d].production
      BY <2>0, <3>1 DEF Deployment
    <3> QED BY <1>2, <2>2, <3>2 DEF Judged
  <2>3. CASE deployment[d].status = "none" /\ deployment'[d] # deployment[d]
    <3>1. PICK p \in Handlers : /\ CreateDeployment(p)
                                /\ deployment'[d] = NewDeployment(p)
      <4>1. Next
        BY <2>3 DEF vars
      <4>2. \/ \E e \in Deployments : \E from, to :
                  SetStatus(e, from, to) /\ from # "none"
            \/ \E p \in Handlers : CreateDeployment(p)
            \/ Boot
        BY <2>3, <4>1, DeploymentWriters
           DEF StartValidating, MarkMaterialized, StartDeploying, Succeed, Fail,
               CanFail, StatusAt
      <4>3. ASSUME NEW e \in Deployments, NEW from, NEW to,
                   SetStatus(e, from, to), from # "none"
            PROVE  FALSE
        BY <1>0, <2>3, <4>3 DEF SetStatus, TypeOK
      <4>4. ASSUME Boot PROVE FALSE
        BY <2>3, <4>4 DEF Boot, MarkInterruptedFailed, Active, ActiveStatus
      <4> QED BY <1>0, <2>3, <4>2, <4>3, <4>4, CreateMoves
    <3>2. /\ handler[p].pc = "create" /\ handler[p].node = n
          /\ handler[p].kind # "rollback"
          /\ deployment'[d].production = handler[p].production
      BY <1>2, <3>1 DEF CreateDeployment, At, NewDeployment
    <3>3. handler[p].kind \in {"deploy", "rollback", "generate"}
      BY <1>0 DEF TypeOK, Handler
    <3>4. Told(handler[p], n)
      BY DEF Judged
    <3> QED BY <3>2, <3>3, <3>4 DEF Told
  <2> QED BY <2>1, <2>2, <2>3
<1> QED BY <1>1, <1>2 DEF Judged

\* A deployment of a node that stays in production, unless it is a rollback,
\* has an approval of its version, given by somebody else than the submitter:
\* whatever races there are between the gate, reviews and cancellations.
THEOREM StayingInProduction ==
  ASSUME NEW n \in Nodes
  PROVE  Spec /\ [](node[n].production) =>
           [](\A d \in Deployments :
                /\ deployment[d].status # "none" /\ deployment[d].node = n
                /\ deployment[d].trigger = "deploy"
                => \E a \in ApprovedFor(n, deployment[d].version) :
                     release[a].reviewer \in Users \ {release[a].submitter})
<1> DEFINE Reviewed ==
      \A d \in Deployments :
        /\ deployment[d].status # "none" /\ deployment[d].node = n
        /\ deployment[d].trigger = "deploy"
        => \E a \in ApprovedFor(n, deployment[d].version) :
             release[a].reviewer \in Users \ {release[a].submitter}
<1>1. Init => Judged(n)
  BY IdleTold, EmptyRows DEF Init, Judged, NoDeployment
<1>2. HistoryInv /\ Judged(n) /\ node[n].production /\ [Next]_vars => Judged(n)'
  BY NextJudged
<1>3. Judged(n) /\ ProductionApproved => Reviewed
  BY DEF Judged, ProductionApproved
<1> HIDE DEF Reviewed
<1>4. Spec /\ [](node[n].production) => []Reviewed
  BY <1>1, <1>2, <1>3, HistoryInvariant, ProductionNeedsApproval, PTL DEF Spec
<1> QED BY <1>4 DEF Reviewed
=============================================================================
