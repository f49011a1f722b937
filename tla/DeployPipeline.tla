--------------------------- MODULE DeployPipeline ---------------------------
(***************************************************************************)
(* The release pipeline of Gateway Center: configuration versions, the     *)
(* approval gate of production nodes, deployments and rollbacks, the       *)
(* asynchronous executor that writes the dynamic directory of a node, and  *)
(* the restart that closes what a dead process left behind.                *)
(*                                                                         *)
(* One action is one database or file-system effect (or one read whose     *)
(* answer is used later), so HTTP handlers and executors interleave where  *)
(* the Go code does.  A row is a record; status "none" means no such row.  *)
(* A guard that fails in the code ends the request without further effect: *)
(* that outcome, and every database or network error of a handler, is the  *)
(* action Refuse.                                                          *)
(*                                                                         *)
(* A definition named Mutant... is its namesake with a plausible bug; no   *)
(* specification uses it.  It is there to show which property would catch  *)
(* that bug.                                                               *)
(***************************************************************************)
EXTENDS Naturals, FiniteSets

CONSTANTS
  Nodes,         \* gateway nodes
  Deployments,   \* identities of deployment rows, picked fresh at creation
  Handlers,      \* HTTP requests served at the same time
  Releases,      \* identities of release requests
  NoRelease,     \* a nil approval_id
  Users,         \* submitters and reviewers
  NoUser,        \* a nil reviewed_by
  MaxVersion,    \* bound: version numbers a node can reach
  NodeChanges,   \* bound: the changes of nodes that are explored
  DBFaults       \* TRUE: a database call of the executor or drift gate may fail

ASSUME MaxVersionAssumption == MaxVersion \in Nat \ {0}
ASSUME NodeChangesAssumption ==
  NodeChanges \subseteq {"enabled", "production", "deleted", "drift"}
ASSUME DBFaultsAssumption == DBFaults \in BOOLEAN
ASSUME NodesAssumption == Nodes # {}
ASSUME ReleasesAssumption == IsFiniteSet(Releases)
ASSUME NoReleaseAssumption == NoRelease \notin Releases
ASSUME NoUserAssumption == NoUser \notin Users

VARIABLES
  node,        \* gateway_nodes: enabled, env_type = production, deleted
  deleting,    \* a Delete request of the node has passed its checks
  version,     \* config_versions, by node and number
  deployment,  \* deployments
  release,     \* release_requests
  drift,       \* node_states.drift
  disk,        \* the dynamic/ directory: whose content, completely written?
  handler,     \* local state of each request
  exec,        \* where the executor goroutine of each deployment stands
  up           \* the server process runs

vars == <<node, deleting, version, deployment, release, drift, disk, handler,
          exec, up>>

\* PostgreSQL and the file system
store == <<node, deleting, version, deployment, release, drift, disk>>

Numbers == 1 .. MaxVersion

----------------------------------------------------------------------------
(* Rows and their empty values *)

VersionStatus == {"none", "pending", "validating", "ready"}
ActiveStatus == {"pending", "validating", "ready", "deploying"}
DeploymentStatus == {"none", "success", "failed"} \cup ActiveStatus
ReleaseStatus == {"none", "pending", "approved", "rejected", "cancelled"}

Node == [enabled : BOOLEAN, production : BOOLEAN, deleted : BOOLEAN]
\* content: the number of the forward version whose snapshot this one carries
Version == [status : VersionStatus, origin : {"forward", "rollback"},
            content : 0 .. MaxVersion]
\* production: the env_type the gate of this deployment was given (history)
Deployment == [status : DeploymentStatus, node : Nodes, version : Numbers,
               trigger : {"deploy", "rollback"},
               approval : Releases \cup {NoRelease}, production : BOOLEAN]
Release == [status : ReleaseStatus, node : Nodes, version : Numbers,
            submitter : Users \cup {NoUser}, reviewer : Users \cup {NoUser},
            reviewedAt : Nat]
Disk == [content : 0 .. MaxVersion, whole : BOOLEAN]

HandlerPC == {"idle", "version", "target", "active", "gate", "drift",
              "number", "insert", "validate", "publish", "create"}
Handler == [pc : HandlerPC, kind : {"deploy", "rollback", "generate"},
            node : Nodes, version : Numbers, number : Numbers,
            approval : Releases \cup {NoRelease}, production : BOOLEAN]
ExecPC == {"off", "accepted", "validating", "ready", "deploying", "writing",
           "verifying", "clearing"}

NoVersion == [status |-> "none", origin |-> "forward", content |-> 0]
SomeNode == CHOOSE n \in Nodes : TRUE
NoDeployment == [status |-> "none", node |-> SomeNode, version |-> 1,
                 trigger |-> "deploy", approval |-> NoRelease,
                 production |-> FALSE]
EmptyRelease == [status |-> "none", node |-> SomeNode, version |-> 1,
                 submitter |-> NoUser, reviewer |-> NoUser, reviewedAt |-> 0]
IdleHandler == [pc |-> "idle", kind |-> "deploy", node |-> SomeNode,
                version |-> 1, number |-> 1, approval |-> NoRelease,
                production |-> FALSE]

TypeOK ==
  /\ node \in [Nodes -> Node]
  /\ deleting \in [Nodes -> BOOLEAN]
  /\ version \in [Nodes -> [Numbers -> Version]]
  /\ deployment \in [Deployments -> Deployment]
  /\ release \in [Releases -> Release]
  /\ drift \in [Nodes -> BOOLEAN]
  /\ disk \in [Nodes -> Disk]
  /\ handler \in [Handlers -> Handler]
  /\ exec \in [Deployments -> ExecPC]
  /\ up \in BOOLEAN

\* A platform with its nodes registered and nothing released yet.
Init ==
  /\ node \in [Nodes -> [enabled : {TRUE}, production : BOOLEAN,
                         deleted : {FALSE}]]
  /\ deleting = [n \in Nodes |-> FALSE]
  /\ version = [n \in Nodes |-> [k \in Numbers |-> NoVersion]]
  /\ deployment = [d \in Deployments |-> NoDeployment]
  /\ release = [a \in Releases |-> EmptyRelease]
  /\ drift = [n \in Nodes |-> FALSE]
  /\ disk = [n \in Nodes |-> [content |-> 0, whole |-> TRUE]]
  /\ handler = [p \in Handlers |-> IdleHandler]
  /\ exec = [d \in Deployments |-> "off"]
  /\ up = TRUE

----------------------------------------------------------------------------
(* Queries of the repositories *)

Active(d) == deployment[d].status \in ActiveStatus

\* DeploymentRepo.ActiveForNode
ActiveForNode(n) == {d \in Deployments : Active(d) /\ deployment[d].node = n}

\* NodeRepo.HasDeployments
HasDeployments(n) ==
  \E d \in Deployments : /\ deployment[d].status # "none"
                         /\ deployment[d].node = n

Existing(n) == {k \in Numbers : version[n][k].status # "none"}

\* VersionRepo.LatestReady returns version k
LatestReadyIs(n, k) ==
  /\ version[n][k].status = "ready"
  /\ \A j \in Numbers : version[n][j].status = "ready" => j <= k

MutantNextVersionIs(n, k) == \A j \in Existing(n) : j < k

\* VersionRepo.NextVersion returns k: the maximum of the table plus one
NextVersionIs(n, k) ==
  /\ \A j \in Existing(n) : j < k
  /\ k = 1 \/ k - 1 \in Existing(n)

\* DeploymentRepo.CountSuccess > 0; LatestSuccessByNode = k implies it
WasSuccessful(n, k) ==
  \E d \in Deployments : /\ deployment[d].status = "success"
                         /\ deployment[d].node = n
                         /\ deployment[d].version = k

\* ApprovalRepo.ApprovedForVersion, over every approved request of the version
ApprovedFor(n, k) ==
  {a \in Releases : /\ release[a].status = "approved"
                    /\ release[a].node = n
                    /\ release[a].version = k}

\* ... returns a: the one reviewed last
ApprovedForVersionIs(n, k, a) ==
  /\ a \in ApprovedFor(n, k)
  /\ \A b \in ApprovedFor(n, k) : release[b].reviewedAt <= release[a].reviewedAt

Content(d) == version[deployment[d].node][deployment[d].version].content

----------------------------------------------------------------------------
(* Requests: the synchronous half of Deploy, Rollback and CreateVersion.   *)
(* Each step is one query or one write of the handler of request p.        *)

Serving == up

At(p, pc) == Serving /\ handler[p].pc = pc

Goto(p, pc) == handler' = [handler EXCEPT ![p].pc = pc]

\* Deploy: the node is read, exists and is enabled; the gate later judges the
\* env_type that was read here.
DeployStart(p) ==
  /\ At(p, "idle")
  /\ \E n \in Nodes, k \in Numbers, a \in Releases \cup {NoRelease} :
       /\ node[n].enabled /\ ~node[n].deleted
       /\ k \in Existing(n)
       /\ handler' = [handler EXCEPT ![p] =
                        [IdleHandler EXCEPT !.pc = "version", !.node = n,
                           !.version = k, !.approval = a,
                           !.production = node[n].production]]
  /\ UNCHANGED <<store, exec, up>>

MutantReadVersion(p) ==
  /\ At(p, "version")
  /\ Goto(p, "active")
  /\ UNCHANGED <<store, exec, up>>

\* The version is read and is ready (then: confirmed, Traefik reachable).
ReadVersion(p) ==
  /\ At(p, "version")
  /\ version[handler[p].node][handler[p].version].status = "ready"
  /\ Goto(p, "active")
  /\ UNCHANGED <<store, exec, up>>

\* No active deployment on the node, at the time of this query.
CheckActive(p) ==
  /\ At(p, "active")
  /\ ActiveForNode(handler[p].node) = {}
  /\ Goto(p, IF handler[p].kind = "deploy" THEN "gate" ELSE "number")
  /\ UNCHANGED <<store, exec, up>>

MutantApprovalGate(p) ==
  /\ At(p, "gate")
  /\ handler[p].production => handler[p].approval \in
       {a \in Releases : release[a].status = "approved"}
  /\ Goto(p, "drift")
  /\ UNCHANGED <<store, exec, up>>

\* ProductionGate.Check
ApprovalGate(p) ==
  /\ At(p, "gate")
  /\ handler[p].production =>
       ApprovedForVersionIs(handler[p].node, handler[p].version,
                            handler[p].approval)
  /\ Goto(p, "drift")
  /\ UNCHANGED <<store, exec, up>>

\* A drifted node takes its latest ready version only.  An error of the state
\* query is ignored by the code: the gate is then skipped.
DriftGate(p) ==
  /\ At(p, "drift")
  /\ \/ drift[handler[p].node] =>
          LatestReadyIs(handler[p].node, handler[p].version)
     \/ DBFaults
  /\ Goto(p, "create")
  /\ UNCHANGED <<store, exec, up>>

\* Rollback: node read and enabled; the target version exists.
RollbackStart(p) ==
  /\ At(p, "idle")
  /\ \E n \in Nodes, k \in Numbers :
       /\ node[n].enabled /\ ~node[n].deleted
       /\ k \in Existing(n)
       /\ handler' = [handler EXCEPT ![p] =
                        [IdleHandler EXCEPT !.pc = "target", !.node = n,
                           !.version = k, !.kind = "rollback"]]
  /\ UNCHANGED <<store, exec, up>>

MutantRollbackTarget(p) ==
  /\ At(p, "target")
  /\ version[handler[p].node][handler[p].version].status = "ready"
  /\ Goto(p, "active")
  /\ UNCHANGED <<store, exec, up>>

\* wasSuccessful: the target has a success deployment.
RollbackTarget(p) ==
  /\ At(p, "target")
  /\ WasSuccessful(handler[p].node, handler[p].version)
  /\ Goto(p, "active")
  /\ UNCHANGED <<store, exec, up>>

\* CreateVersion: the graph of an existing node was loaded and validated and
\* its artifacts generated (a disabled node may generate).
GenerateStart(p) ==
  /\ At(p, "idle")
  /\ \E n \in Nodes :
       /\ ~node[n].deleted
       /\ handler' = [handler EXCEPT ![p] =
                        [IdleHandler EXCEPT !.pc = "number", !.node = n,
                           !.kind = "generate"]]
  /\ UNCHANGED <<store, exec, up>>

\* VersionRepo.NextVersion: the lock is released with the answer, so two
\* requests can hold the same number.  Bound: MaxVersion.
NextNumber(p) ==
  /\ At(p, "number")
  /\ \E k \in Numbers :
       /\ NextVersionIs(handler[p].node, k)
       /\ handler' = [handler EXCEPT ![p] =
                        [@ EXCEPT !.pc = "insert", !.number = k]]
  /\ UNCHANGED <<store, exec, up>>

\* The row request p inserts: a rollback carries its target's snapshot.
NewVersion(p) ==
  LET h == handler[p] IN
  IF h.kind = "rollback"
  THEN [status |-> "pending", origin |-> "rollback",
        content |-> version[h.node][h.version].content]
  ELSE [status |-> "pending", origin |-> "forward", content |-> h.number]

MutantInsertVersion(p) ==
  /\ At(p, "insert")
  /\ version' = [version EXCEPT
                   ![handler[p].node][handler[p].number] = NewVersion(p)]
  /\ Goto(p, "validate")
  /\ UNCHANGED <<node, deleting, deployment, release, drift, disk, exec, up>>

\* VersionRepo.Create under the unique index on (node_id, version)
InsertVersion(p) ==
  /\ At(p, "insert")
  /\ version[handler[p].node][handler[p].number].status = "none"
  /\ version' = [version EXCEPT
                   ![handler[p].node][handler[p].number] = NewVersion(p)]
  /\ Goto(p, "validate")
  /\ UNCHANGED <<node, deleting, deployment, release, drift, disk, exec, up>>

\* VersionRepo.AdvanceStatus, a conditional update
AdvanceStatus(n, k, from, to) ==
  /\ version[n][k].status = from
  /\ version' = [version EXCEPT ![n][k].status = to]

MarkValidating(p) ==
  /\ At(p, "validate")
  /\ AdvanceStatus(handler[p].node, handler[p].number, "pending", "validating")
  /\ Goto(p, "publish")
  /\ UNCHANGED <<node, deleting, deployment, release, drift, disk, exec, up>>

\* A generate request ends here; a rollback goes on to deploy the new version.
MarkReady(p) ==
  LET h == handler[p] IN
  /\ At(p, "publish")
  /\ AdvanceStatus(h.node, h.number, "validating", "ready")
  /\ handler' = [handler EXCEPT ![p] =
       IF h.kind = "rollback"
       THEN [IdleHandler EXCEPT !.pc = "create", !.kind = "rollback",
               !.node = h.node, !.version = h.number]
       ELSE IdleHandler]
  /\ UNCHANGED <<node, deleting, deployment, release, drift, disk, exec, up>>

\* The row request p inserts in deployments
NewDeployment(p) ==
  [status |-> "pending", node |-> handler[p].node,
   version |-> handler[p].version,
   trigger |-> IF handler[p].kind = "rollback" THEN "rollback" ELSE "deploy",
   approval |-> handler[p].approval, production |-> handler[p].production]

MutantCreateDeployment(p) ==
  /\ At(p, "create")
  /\ \E d \in Deployments :
       /\ deployment[d].status = "none"
       /\ deployment' = [deployment EXCEPT ![d] = NewDeployment(p)]
       /\ exec' = [exec EXCEPT ![d] = "accepted"]
  /\ handler' = [handler EXCEPT ![p] = IdleHandler]
  /\ UNCHANGED <<node, deleting, version, release, drift, disk, up>>

\* DeploymentRepo.Create under the partial unique index of the active rows;
\* the executor is started and the request answers 202.
CreateDeployment(p) ==
  /\ At(p, "create")
  /\ ActiveForNode(handler[p].node) = {}
  /\ \E d \in Deployments :
       /\ deployment[d].status = "none"
       /\ deployment' = [deployment EXCEPT ![d] = NewDeployment(p)]
       /\ exec' = [exec EXCEPT ![d] = "accepted"]
  /\ handler' = [handler EXCEPT ![p] = IdleHandler]
  /\ UNCHANGED <<node, deleting, version, release, drift, disk, up>>

\* A guard fails, Traefik is unreachable, a query errs, the client goes away:
\* the request ends and what it has written stays.
Refuse(p) ==
  /\ Serving /\ handler[p].pc # "idle"
  /\ handler' = [handler EXCEPT ![p] = IdleHandler]
  /\ UNCHANGED <<store, exec, up>>

----------------------------------------------------------------------------
(* The approval chain.  review reads the request for its submitter, which  *)
(* never changes, and then updates the row conditionally: one step each.   *)

Submit(a, u, n, k) ==
  /\ Serving
  /\ release[a].status = "none"
  /\ version[n][k].status = "ready"
  /\ release' = [release EXCEPT ![a] =
                   [EmptyRelease EXCEPT !.status = "pending", !.node = n,
                      !.version = k, !.submitter = u]]
  /\ UNCHANGED <<node, deleting, version, deployment, drift, disk, handler,
                 exec, up>>

Approved == {a \in Releases : release[a].status = "approved"}

MutantReview(a, u, to) ==
  /\ Serving
  /\ release[a].status = "pending"
  /\ release' = [release EXCEPT ![a] =
                   [@ EXCEPT !.status = to, !.reviewer = u,
                             !.reviewedAt = Cardinality(Approved) + 1]]
  /\ UNCHANGED <<node, deleting, version, deployment, drift, disk, handler,
                 exec, up>>

\* Approve and Reject: by somebody other than the submitter
Review(a, u, to) ==
  /\ Serving
  /\ release[a].status = "pending"
  /\ release[a].submitter # u
  /\ release' = [release EXCEPT ![a] =
                   [@ EXCEPT !.status = to, !.reviewer = u,
                             !.reviewedAt = Cardinality(Approved) + 1]]
  /\ UNCHANGED <<node, deleting, version, deployment, drift, disk, handler,
                 exec, up>>

Cancel(a, u) ==
  /\ Serving
  /\ release[a].status = "pending" /\ release[a].submitter = u
  /\ release' = [release EXCEPT ![a].status = "cancelled"]
  /\ UNCHANGED <<node, deleting, version, deployment, drift, disk, handler,
                 exec, up>>

----------------------------------------------------------------------------
(* Administration of nodes, and the drift verdict of the probe.  The       *)
(* optimistic lock only refuses an update, it never changes its effect.    *)

SetEnabled(n) ==
  /\ Serving /\ "enabled" \in NodeChanges /\ ~node[n].deleted
  /\ node' = [node EXCEPT ![n].enabled = ~@]
  /\ UNCHANGED <<deleting, version, deployment, release, drift, disk, handler,
                 exec, up>>

\* nodesvc.Update moves the node in or out of production
SetProduction(n) ==
  /\ Serving /\ "production" \in NodeChanges /\ ~node[n].deleted
  /\ node' = [node EXCEPT ![n].production = ~@]
  /\ UNCHANGED <<deleting, version, deployment, release, drift, disk, handler,
                 exec, up>>

\* nodesvc.Delete, its checks ...
DeleteCheck(n) ==
  /\ Serving /\ "deleted" \in NodeChanges /\ ~node[n].deleted /\ ~deleting[n]
  /\ ~node[n].enabled
  /\ ~HasDeployments(n)
  /\ deleting' = [deleting EXCEPT ![n] = TRUE]
  /\ UNCHANGED <<node, version, deployment, release, drift, disk, handler,
                 exec, up>>

\* ... and its write, which looks at nothing again
DeleteCommit(n) ==
  /\ Serving /\ deleting[n]
  /\ node' = [node EXCEPT ![n].deleted = TRUE]
  /\ deleting' = [deleting EXCEPT ![n] = FALSE]
  /\ UNCHANGED <<version, deployment, release, drift, disk, handler, exec, up>>

\* driftsvc.Check: without a successful deployment there is no drift; with
\* one, what Traefik has loaded decides, and that may be anything.
DriftCheck(n) ==
  /\ Serving /\ "drift" \in NodeChanges /\ ~node[n].deleted
  /\ \E b \in BOOLEAN :
       /\ b => \E k \in Numbers : WasSuccessful(n, k)
       /\ drift' = [drift EXCEPT ![n] = b]
  /\ UNCHANGED <<node, deleting, version, deployment, release, disk, handler,
                 exec, up>>

----------------------------------------------------------------------------
(* The executor: DeployService.run in a goroutine of its own.              *)

Running(d, pc) == up /\ exec[d] = pc

MutantSetStatus(d, from, to) ==
  /\ deployment[d].status = from
  /\ deployment' = [deployment EXCEPT ![d].status =
       IF from = "deploying" /\ to = "failed" THEN "verification" ELSE to]

\* DeploymentRepo.SetStatus, a conditional update
SetStatus(d, from, to) ==
  /\ deployment[d].status = from
  /\ deployment' = [deployment EXCEPT ![d].status = to]

Resume(d, pc) == exec' = [exec EXCEPT ![d] = pc]

\* The status an executor at pc takes its deployment to have
StatusAt(pc) ==
  CASE pc = "accepted" -> "pending"
    [] pc \in {"writing", "verifying"} -> "deploying"
    [] pc = "clearing" -> "success"
    [] OTHER -> pc

StartValidating(d) ==
  /\ Running(d, "accepted")
  /\ SetStatus(d, "pending", "validating") /\ Resume(d, "validating")
  /\ UNCHANGED <<node, deleting, version, release, drift, disk, handler, up>>

\* The snapshot was read and the artifacts materialised.
MarkMaterialized(d) ==
  /\ Running(d, "validating")
  /\ SetStatus(d, "validating", "ready") /\ Resume(d, "ready")
  /\ UNCHANGED <<node, deleting, version, release, drift, disk, handler, up>>

\* The directory was probed writable.
StartDeploying(d) ==
  /\ Running(d, "ready")
  /\ SetStatus(d, "ready", "deploying") /\ Resume(d, "deploying")
  /\ UNCHANGED <<node, deleting, version, release, drift, disk, handler, up>>

\* FileDeployer.Deploy replaces the files one by one ...
BeginWrite(d) ==
  /\ Running(d, "deploying")
  /\ disk' = [disk EXCEPT ![deployment[d].node] =
                [content |-> Content(d), whole |-> FALSE]]
  /\ Resume(d, "writing")
  /\ UNCHANGED <<node, deleting, version, deployment, release, drift, handler,
                 up>>

\* ... and removes the stale ones.
FinishWrite(d) ==
  /\ Running(d, "writing")
  /\ disk' = [disk EXCEPT ![deployment[d].node].whole = TRUE]
  /\ Resume(d, "verifying")
  /\ UNCHANGED <<node, deleting, version, deployment, release, drift, handler,
                 up>>

MutantSucceed(d) ==
  /\ exec[d] \in {"writing", "verifying"} /\ up
  /\ SetStatus(d, "deploying", "success") /\ Resume(d, "clearing")
  /\ UNCHANGED <<node, deleting, version, release, drift, disk, handler, up>>

\* Traefik reports exactly the routers of the snapshot.
Succeed(d) ==
  /\ Running(d, "verifying")
  /\ SetStatus(d, "deploying", "success") /\ Resume(d, "clearing")
  /\ UNCHANGED <<node, deleting, version, release, drift, disk, handler, up>>

\* UpdateDriftState after the success; its error is ignored.
ClearDrift(d) ==
  /\ Running(d, "clearing")
  /\ \/ drift' = [drift EXCEPT ![deployment[d].node] = FALSE]
     \/ DBFaults /\ drift' = drift
  /\ Resume(d, "off")
  /\ UNCHANGED <<node, deleting, version, deployment, release, disk, handler,
                 up>>

CanFail == {"validating", "ready", "deploying", "writing", "verifying"}

MutantFail(d) ==
  /\ up /\ exec[d] \in CanFail
  /\ SetStatus(d, StatusAt(exec[d]), "failed")
  /\ UNCHANGED <<node, deleting, version, release, drift, disk, handler, exec,
                 up>>

MutantFailSilently(d) ==
  /\ up /\ exec[d] \in CanFail
  /\ Resume(d, "off")
  /\ UNCHANGED <<store, handler, up>>

\* A corrupt snapshot, missing key, unwritable directory, failing file call
\* (before or after the first write), failed verification: the deployment is
\* failed, the disk is left as it is.
Fail(d) ==
  /\ up /\ exec[d] \in CanFail
  /\ SetStatus(d, StatusAt(exec[d]), "failed") /\ Resume(d, "off")
  /\ UNCHANGED <<node, deleting, version, release, drift, disk, handler, up>>

\* SetStatus errs, or the executor panics and is recovered: it ends and the
\* row keeps its status.
LoseStatus(d) ==
  /\ up /\ exec[d] \notin {"off", "clearing"}
  /\ DBFaults \/ deployment[d].status # StatusAt(exec[d])
  /\ Resume(d, "off")
  /\ UNCHANGED <<store, handler, up>>

----------------------------------------------------------------------------
(* The process dies at any point, and starts again. *)

Crash ==
  /\ up
  /\ up' = FALSE
  /\ handler' = [p \in Handlers |-> IdleHandler]
  /\ exec' = [d \in Deployments |-> "off"]
  /\ deleting' = [n \in Nodes |-> FALSE]
  /\ UNCHANGED <<node, version, deployment, release, drift, disk>>

MutantMarkInterruptedFailed ==
  deployment' = [d \in Deployments |->
    IF deployment[d].status = "deploying"
    THEN [deployment[d] EXCEPT !.status = "failed"] ELSE deployment[d]]

MutantMarkAllFailed ==
  deployment' = [d \in Deployments |->
    IF deployment[d].status # "none"
    THEN [deployment[d] EXCEPT !.status = "failed"] ELSE deployment[d]]

\* DeploymentRepo.MarkInterruptedFailed
MarkInterruptedFailed ==
  deployment' = [d \in Deployments |->
    IF Active(d) THEN [deployment[d] EXCEPT !.status = "failed"]
                 ELSE deployment[d]]

\* serve: requests are accepted only after the recovery has succeeded.
Boot ==
  /\ ~up
  /\ up' = TRUE
  /\ MarkInterruptedFailed
  /\ UNCHANGED <<node, deleting, version, release, drift, disk, handler, exec>>

----------------------------------------------------------------------------
HandlerStep(p) ==
  \/ ReadVersion(p) \/ CheckActive(p) \/ ApprovalGate(p) \/ DriftGate(p)
  \/ RollbackTarget(p) \/ NextNumber(p) \/ InsertVersion(p)
  \/ MarkValidating(p) \/ MarkReady(p) \/ CreateDeployment(p) \/ Refuse(p)

ExecutorStep(d) ==
  \/ StartValidating(d) \/ MarkMaterialized(d) \/ StartDeploying(d)
  \/ BeginWrite(d) \/ FinishWrite(d) \/ Succeed(d) \/ ClearDrift(d)
  \/ Fail(d) \/ LoseStatus(d)

ApprovalStep ==
  \E a \in Releases, u \in Users :
    \/ \E n \in Nodes, k \in Numbers : Submit(a, u, n, k)
    \/ \E to \in {"approved", "rejected"} : Review(a, u, to)
    \/ Cancel(a, u)

NodeStep ==
  \E n \in Nodes :
    \/ SetEnabled(n) \/ SetProduction(n)
    \/ DeleteCheck(n) \/ DeleteCommit(n) \/ DriftCheck(n)

Next ==
  \/ \E p \in Handlers :
       \/ DeployStart(p) \/ RollbackStart(p) \/ GenerateStart(p)
       \/ HandlerStep(p)
  \/ \E d \in Deployments : ExecutorStep(d)
  \/ ApprovalStep
  \/ NodeStep
  \/ Crash
  \/ Boot

Spec == Init /\ [][Next]_vars

\* Goroutines of a running process are scheduled and what they call returns:
\* Traefik's client has timeouts, the database and the file system answer or
\* err.  A dead server is restarted.  Nobody has to send a request.
Fairness ==
  /\ \A p \in Handlers : WF_vars(HandlerStep(p))
  /\ \A d \in Deployments : WF_vars(ExecutorStep(d))
  /\ WF_vars(Boot)

FairSpec == Spec /\ Fairness

----------------------------------------------------------------------------
(* Safety *)

\* An executor exists only in a running process and is right about the status
\* of its row: no other writer touches a row that has an executor.
ExecutorKnowsStatus ==
  \A d \in Deployments :
    exec[d] # "off" => up /\ deployment[d].status = StatusAt(exec[d])

\* One non-terminal deployment per node, whatever requests race between
\* ActiveForNode and the insert.
OneActivePerNode ==
  \A d, e \in Deployments :
    Active(d) /\ Active(e) /\ deployment[d].node = deployment[e].node => d = e

\* At most one executor of a node is between its first write of the dynamic
\* directory and its verdict on it, so no release verifies another's files.
SingleWriter ==
  \A d, e \in Deployments :
    /\ {exec[d], exec[e]} \subseteq {"deploying", "writing", "verifying"}
    /\ deployment[d].node = deployment[e].node
    => d = e

\* No way around the pipeline: whatever was ever accepted, deployed or rolled
\* back to is a version that went through generation and validation.
OnlyReadyDeployed ==
  \A d \in Deployments :
    deployment[d].status # "none" =>
      version[deployment[d].node][deployment[d].version].status = "ready"

\* A deployment (not a rollback) judged while its node was in production
\* carries an approval of exactly its node and version, given by somebody
\* other than the submitter.
ProductionApproved ==
  \A d \in Deployments :
    deployment[d].status # "none" /\ deployment[d].production =>
      LET a == deployment[d].approval IN
      /\ a \in ApprovedFor(deployment[d].node, deployment[d].version)
      /\ release[a].reviewer \in Users \ {release[a].submitter}

\* A rollback puts back the content of some version that this node has run
\* successfully, also after further versions and rollbacks of rollbacks.
RollbackRestoresSuccess ==
  \A d \in Deployments :
    deployment[d].status # "none" /\ deployment[d].trigger = "rollback" =>
      \E k \in Numbers :
        /\ k < deployment[d].version
        /\ version[deployment[d].node][k].content = Content(d)
        /\ WasSuccessful(deployment[d].node, k)

\* The inductive strengthening of ProductionApproved: an approval is never
\* the submitter's own, and a request past the gate still has what it showed.
ReviewedByOthers ==
  \A a \in Releases :
    release[a].status = "approved" =>
      release[a].reviewer \in Users \ {release[a].submitter}

GatePassed ==
  \A p \in Handlers :
    handler[p].pc \in {"drift", "create"} /\ handler[p].production =>
      handler[p].approval \in ApprovedFor(handler[p].node, handler[p].version)

ApprovalInv == ReviewedByOthers /\ GatePassed /\ ProductionApproved

\* Numbers of a node are 1, 2, 3 ... without a gap, though the lock is not
\* held between reading the maximum and inserting the row.
NumbersDense ==
  \A n \in Nodes : \A k \in Existing(n) : 1 .. k \subseteq Existing(n)

\* While the server runs and no database call fails, an active deployment has
\* an executor: nothing waits for a restart that was not interrupted by one.
NoOrphan ==
  up /\ ~DBFaults => \A d \in Deployments : Active(d) => exec[d] # "off"

\* nodesvc.Delete promises that a node with deployments is not deleted.
\* It does not hold: the check and the write are two transactions.
DeletedNodeHasNoDeployments ==
  \A n \in Nodes : node[n].deleted => ~HasDeployments(n)

----------------------------------------------------------------------------
(* What a step may never do *)

\* A version that exists keeps its number, origin and snapshot for ever, and
\* its status only advances: pending, validating, ready.
VersionImmutable ==
  [][\A n \in Nodes : \A k \in Existing(n) :
       LET old == version[n][k]
           new == version'[n][k]
       IN /\ new.origin = old.origin /\ new.content = old.content
          /\ \/ new.status = old.status
             \/ <<old.status, new.status>> \in {<<"pending", "validating">>,
                                                <<"validating", "ready">>}
    ]_vars

\* The edges of domain/state.Deployment, which SetStatus and the bulk update
\* of the recovery never consult.
DeploymentEdges ==
  {<<"none", "pending">>, <<"pending", "validating">>, <<"pending", "failed">>,
   <<"validating", "ready">>, <<"validating", "failed">>,
   <<"ready", "deploying">>, <<"ready", "failed">>,
   <<"deploying", "success">>, <<"deploying", "failed">>}

\* A deployment moves along those edges only and keeps everything else: a
\* verdict once given is never revised, by an executor or by a restart.
DeploymentStatusPath ==
  [][\A d \in Deployments :
       LET old == deployment[d]
           new == deployment'[d]
       IN \/ new = old
          \/ /\ <<old.status, new.status>> \in DeploymentEdges
             /\ old.status # "none" => new = [old EXCEPT !.status = new.status]
    ]_vars

\* When a deployment becomes a success the directory of its node holds its
\* version's content, complete and unmixed.
SuccessOnDisk ==
  [][\A d \in Deployments :
       deployment'[d].status = "success" /\ deployment[d].status # "success" =>
         disk[deployment[d].node] = [content |-> Content(d), whole |-> TRUE]
    ]_vars

\* data-model: an approved request is the only credential that lets a
\* production node go from ready to deploying.  It does not hold: a rollback
\* passes no gate, and the gate judges the env_type of an earlier moment.
ProductionWriteApproved ==
  [][\A d \in Deployments :
       LET n == deployment[d].node IN
       /\ deployment[d].status = "ready"
       /\ deployment'[d].status = "deploying"
       /\ node[n].production
       => ApprovedFor(n, deployment[d].version) # {}
    ]_vars

----------------------------------------------------------------------------
(* Liveness, and the abstract promise *)

\* Without database faults an accepted deployment gets a verdict and its node
\* is free again, however often the server crashes meanwhile.
EveryDeploymentSettles ==
  \A d \in Deployments : Active(d) ~> deployment[d].status \in {"success", "failed"}

LedgerStatus(d) ==
  IF Active(d) THEN "open" ELSE deployment[d].status

LedgerOf ==
  [d \in Deployments |->
     [status |-> LedgerStatus(d), node |-> deployment[d].node]]

Ledger == INSTANCE DeployLedger WITH ledger <- LedgerOf

\* The pipeline keeps the promise of DeployLedger.
LedgerSafe == Ledger!Spec
LedgerFair == Ledger!FairSpec
=============================================================================
