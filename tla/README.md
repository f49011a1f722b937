# Gateway Center in TLA+

Gateway Center administers a fleet of Traefik gateways: people edit routes,
services and middlewares, the server turns them into numbered configuration
versions, releases them through an approval gate, writes them into the dynamic
directory of a gateway node and watches what the node then runs. This directory
holds a formal model of the part of `src/backend` where that can go wrong in ways
a test hardly reaches: the resources and everybody who changes them, the version
that is computed from them, the release pipeline, the file deployer under it, the
state that the periodic probe keeps of each node, and the accounts and sessions of
those who do all this.

Five questions decide whether an operator can trust the program, and the
modules are built around them:

1. What reaches a gateway? Only validated, approved versions, one at a time, each
   with a final verdict (`DeployPipeline`, `DeployLedger`).
2. What does Traefik read while files change, calls fail and machines stop
   (`FileDeploy`, `ServedDirectory`)?
3. Does the status page tell the truth (`NodeState`)?
4. Is a version whole, and does nobody's edit get lost, while routes, services,
   certificates and the rest are edited, probed and deleted by others
   (`ResourceGraph`, `Publication`, `VersionedRows`)?
5. Who may act, and for how long after that was taken from them (`Accounts`)?

## 1. Inventory

Paths are relative to `src/backend/internal` unless they start with `cmd/`.

| Component | State it keeps | Operations | Hard behaviour | What makes it correct |
|---|---|---|---|---|
| Deployment pipeline, `application/pipeline/deploy.go`, `rollback.go`, `api/handlers/pipeline.go` | `deployments`; one executor goroutine per deployment | Deploy, Rollback, `run` | check-then-insert between requests; the executor outlives its request; errors and panics in the middle | one active deployment per node, one writer per directory, a verdict for every accepted deployment, a rollback restores what had worked |
| Version generation, `pipeline/version.go` | `config_versions` | CreateVersion, diff, preview | the number is read and used in two transactions | numbers without gaps, a version never changes |
| Pipeline store, `infrastructure/pgstore/pipeline.go` | the tables above, two unique indexes | conditional updates, recovery | conditional updates and indexes are the only locks | status only along the documented edges |
| Approval chain, `application/approvalsvc`, `pgstore/accounting.go` | `release_requests` | Submit, Approve, Reject, Cancel, the gate | two reviewers; review against cancellation; a node that changes its environment | no production deployment without somebody else's approval of that version |
| Server, `cmd/gateway-center/serve.go` | — | recovery at start, shutdown | process death at any point | nothing stays open after a restart, nothing closed is reopened |
| File deployer, `infrastructure/deployer` | the `dynamic/` directory | ProbeWritable, Deploy | failing calls, process death, power loss, a reader that watches all the time | no torn file, no gap, exactly the version after success |
| Nodes, `application/nodesvc`, `pgstore/nodes.go` | `gateway_nodes`, `node_states` | create, update, enable, delete | the guards of a deletion and the deletion are two transactions | a node with deployments stays |
| Status probe and drift check, `application/probesvc`, `driftsvc` | `node_states`; the set of nodes being probed | RunOnce, probe, Check | a row is read, the network is asked, the whole row is written | the counter is exact, offline means threshold misses, the verdict becomes right |
| Scheduler, `application/scheduler` | — | Every | rounds overlap, each is cut off by its timeout | see probe |
| Status machines, `domain/state` | tables of edges | — | no code consults them at run time | the program keeps to them all the same |
| Resource graph: `routesvc`, `mwsvc`, `servicesvc`, `domainsvc`, `credsvc`, `domain/depcheck`, `pgstore/business.go` | routes, middlewares and their bindings, services, targets, domains, credentials | create, update, enable, archive, delete | references are checked and changed in different transactions | no live resource refers to a deleted one |
| Certificates, `certsvc`, `infrastructure/certwatch` | certificates, expiry state | import, probe, watch, delete | as above, plus remote answers | as above |
| Proxy hosts, `proxyhostsvc` | none of its own | one request makes a domain, service, targets, middlewares, route | several writes without a transaction | no half-made aggregate is served |
| Target health, `healthsvc` | `targets.health_status`, `row_version` | RunOnce | shares the version counter with editors | an editor is refused only for another editor |
| Optimistic lock, `pgstore/store.go`, `common.go` | `row_version` | UpdateOptimistic, SoftDelete | two editors | no lost update |
| Accounts, sessions, settings, `authsvc`, `usersvc`, `settingsvc`, `tokensx` | users, refresh tokens, `platform_settings` and its cache | login, refresh, logout, disable, delete, update | token rotation in several statements; a cache beside the table | a token is used once; the cache does not stay stale |
| Validation, generation, diff, `domain/validate`, `domain/diff`, `generate` | — | pure functions | — | agree with their definitions |
| Middleware registry, advanced rules, `domain/mwreg`, `advrule` | — | pure validation of parameters | — | — |
| Audit, dashboard, HTTP layer, Traefik client, encryption, redaction, configuration, logging, seed, frontend | — | — | — | — |

How they interact. An HTTP handler calls one application service, which calls
repositories; a service holds no lock across two of those calls. Deploy and
Rollback start an executor with `asyncRun` after their last write and answer 202. The
executor calls the file deployer and the Traefik client, then writes the verdict
and the drift columns of `node_states`. The scheduler starts the probe, which
writes `node_states` and calls the drift check, which reads versions and writes
`node_states` again. PostgreSQL is the only thing requests share: the conditional
updates, `uq_config_versions_node_version` and the partial unique index on active
deployments take the place of locks. There is one server process; the recovery at
its start closes the deployments of its predecessor.

## 2. Modules

| Module | What it is |
|---|---|
| `ResourceGraph` | the tables of the resources, every request and periodic task that writes them, statement by statement, and LoadGraph reading them |
| `Publication` | operators: validation, snapshot, generation and diff of the graph that was loaded |
| `VersionedRows` | abstract: what a table with a `row_version` promises |
| `Accounts` | users, refresh tokens, the limiter, the check of each request, the settings and their cache |
| `DeployPipeline` | the pipeline, the approval chain, the node switches it depends on, crash and restart |
| `DeployLedger` | abstract: what the pipeline promises about deployments |
| `FileDeploy` | `FileDeployer.Deploy`, system call by system call |
| `ServedDirectory` | abstract: what a reader of the directory, and who comes back after power loss, may rely on |
| `NodeState` | the `node_states` row, the probe rounds, the drift check |
| `MCDeployPipeline`, `MCFileDeploy`, `MCResourceGraph`, `MCAccounts` | the instances for TLC: symmetry sets, the files of two versions, the first databases and which requests run on them |
| `DeployPipeline_proofs`, `DeployHistory_proofs`, `FileDeploy_proofs`, `NodeState_proofs`, `ResourceGraph_proofs`, `Accounts_proofs` | theorems and proofs |
| `DeployLedger_proofs`, `VersionedRows_proofs` | theorems about the abstract specifications, which `DeployHistory_proofs` and `ResourceGraph_proofs` take over for the modules that implement them |

A definition whose name begins with `Mutant` is its namesake with a plausible bug
(a dropped guard, a missing reset, an off-by-one). No specification uses it; put in the place of its
namesake it breaks the property that is there to catch the bug, and `PROJECT.json`
lists which one.

### DeployPipeline

One action is one query or one write of a handler or of an executor, so
everything that can interleave in Go and PostgreSQL interleaves here. The local
variables of a request are the record `handler[p]`, with a program counter that
names what is asked next; an executor is `exec[d]`.

| Code | Actions |
|---|---|
| `Deploy` | `DeployStart`, `ReadVersion`, `CheckActive`, `ApprovalGate`, `DriftGate`, `CreateDeployment` |
| `Rollback` | `RollbackStart`, `RollbackTarget`, `CheckActive`, `NextNumber`, `InsertVersion`, `MarkValidating`, `MarkReady`, `CreateDeployment` |
| `CreateVersion` | `GenerateStart`, `NextNumber`, `InsertVersion`, `MarkValidating`, `MarkReady` |
| every early return, database error, unreachable Traefik, cancelled request | `Refuse` |
| `run` | `StartValidating`, `MarkMaterialized`, `StartDeploying`, `BeginWrite`, `FinishWrite`, `Succeed`, `ClearDrift`, `Fail`; `LoseStatus` when `SetStatus` errs or a panic is recovered |
| `approvalsvc` | `Submit`, `Review`, `Cancel` |
| `nodesvc`, `driftsvc` as the pipeline sees them | `SetEnabled`, `SetProduction`, `DeleteCheck`, `DeleteCommit`, `DriftCheck` |
| process death, `serve` | `Crash`, `Boot` |

The data is cut down to what the properties tell apart. The content of a version
is the number of the version that was generated with it, so a rollback carries
the content of its target. A directory is a content and whether it is wholly
written; `FileDeploy` opens that up. Verification succeeds or not, whatever is on
disk: that it cannot succeed on foreign files is what `SuccessOnDisk` says, and it
follows from there being one writer. A node's `deploy_root` is its own and stays
the same. `production` in a deployment is a history variable: the `env_type` its gate was given.

### FileDeploy

`final` is what a reader finds under each path, `stored` what the disk holds,
`tmp` the temporary beside each path, `synced` whether the content of that
temporary is on disk. A rename changes `final` at once and `stored` at once or
later (`Flush`): the directory is not fsynced. If the name reaches the disk before
the content does, the file there is torn. `PowerLoss` makes `final` what `stored`
is; of the temporaries and the probe file whose removal or rename had not reached the disk, any
may be left, the temporaries torn. Any call may fail; `os.Remove` in an error path may fail too, which the code
ignores. Calls of `Deploy` follow each other, each over what the earlier ones left. Empty
directories are left out. A version is a map in memory, so `Paths` is finite.

`ServedDirectory` is the same directory without temporaries, syncs and the walk: while
a version is deployed its files take their places one by one (`Put`), what is not of
it goes when all are there (`Drop`), a call may end at any point, the disk follows path
by path (`WriteBack`) and is what `LosePower` leaves. Only a proof relates it to
`FileDeploy` (`DirectoryImplemented`): files become visible by a rename alone, and the disk
has all of a file or does not have it yet. `BeginWrite` and `FinishWrite` of the pipeline are
the ends of such a call; power loss between them and later is `FileDeploy`'s alone.

### NodeState

One node. `row` is its row in `node_states`. A round of the scheduler is
`probe[p]`, and holds the copy of the row that `probe` works on while it talks to
Traefik. `Save` writes all of the copy back; the drift check (`CheckRead`,
`CheckBaseline`, `CheckDesired`, `CheckWrite`) and the executor (`ClearDrift`)
write the columns of the verdict. What Traefik has loaded is one value: the
version whose resource names these are, or `Foreign` for anything else. Versions
are taken to differ in their names; versions that do not are one version to the
drift check. The deployment itself is the single action `DeploySucceeds`, without the
gates of the pipeline: more behaviours than the program has. `misses` and `current`
are history variables. `calm` marks the moment from which nothing fails and
nobody changes anything; it exists for `Converges` and `SuccessClearsDrift` only.
The threshold is a constant; in the program a person can change it between two
failures, and `StatusTellsMisses` is then about the value in force at the write.

### DeployLedger

A deployment is taken for a node that has no open one, and is closed once, as a
success or a failure; a restart closes everything open. `DeployPipeline!LedgerOf`
maps the four active states to "open". `LedgerSafe` is the safety half, proved;
`LedgerFair` adds that what is open does not stay open, model-checked.

### ResourceGraph, Publication, VersionedRows

`row` holds the six tables that have a `row_version`, `bind` the bindings of
middlewares to routes, `cert` the certificates. `req[p]` is the list of what the
handler of request `p` still has to do; its head is the next step.

| Code | Actions |
|---|---|
| `domainsvc`, `servicesvc`, `mwsvc`, `credsvc`, `certsvc`, `routesvc`, `proxyhostsvc`: the reads and checks of a handler up to its first write | `DomainCreate` ... `ProxyDelete`: one action per operation, which leaves the planned statements in `req[p]` |
| `healthsvc`, `certwatch` | `HealthProbe`, `Watch` |
| one statement or transaction of `pgstore` | `Statement`: `InsertRow`, `UpdateOptimistic`, `SoftDelete`, `ReplaceMiddlewares`, `InsertCertificate`, `ObserveCertificate`, `DeleteCertificate`, each with its index or foreign key |
| an error that the handler returns, or drops | `Refuse`, `DropError` |
| reads between two writes of a handler | `Attach`, `UpsertObserved`, `BindCheck`, `ProxyDomain`, `ProxyService`, `ProxyUpstream`, `ProxyAddress`, `MakeHeaders`, `FindHeaders`, `NoHeaders` |
| `LoadGraph`, query by query; `CreateVersion` | `LoadBegin`, `LoadServices`, `LoadRoutes`, `LoadBindings`, `LoadMiddlewares`, `LoadTargets`; `CreateVersion`, `Blocked` |

What a handler reads and checks before its first write is one step. That loses
nothing these properties can see: each check that matters is either asked again by
the statement (`row_version`, the unique index, the foreign key) or concerns a fact that
cannot become true again (an id is known to its client only after the row
exists, a row never comes back after its deletion, versions only grow). The lookup of a name
before an insert is left out because the index decides; which free id a
new row takes is left open. The alternative names of a proxy host's service and route are
decided where the code asks for them. From the first write on every statement is a step.

Names and rules are members of small sets. `Slug`, the Traefik name of a name, is a
constant. `Derived` are the names that a proxy host makes from its domain. Certificate
policies are those that the documents list. The update of a proxy host without a
domain keeps its name; updates without host or
material contain the statement as one whose error is dropped. `Validate`
without a version (the dry run) changes nothing. The rows that `CreateVersion` itself
inserts are `DeployPipeline`'s: this module says what is in the version,
`DeployPipeline` what becomes of it, and its `GenerateStart` may
end in `Refuse` wherever `Blocked` happens here.

`Publication` is what `CreateVersion` computes: `Valid` (`validate.RunNode`),
`Buildable` and `Snapshot` (`buildSnapshot`), `Generates` and `ArtifactFiles`
(`generate.Generate`), `SnapshotDiff` and `Summary` (`domain/diff`), and `FirstSummary`, the
numbers of a node's first version, which is compared with nothing and counts all it has
as added. A previous snapshot that cannot be read takes the same branch in the code and is left
out. `version.served` remembers which certificate each route was given, so that
`PublishedClosed` asks for that very one in the snapshot. Health, weights and
priorities are left out. When several routes use one certificate, which of their domains names
it in the snapshot depends on an order that the query fixes and the model leaves open.

`VersionedRows` is the promise that editors rely on: a row is inserted
once, each change of its columns takes the next version, what is deleted stays
deleted. `RowsAreVersioned` says that `ResourceGraph` implements it, and `VersionedRows_proofs` what
follows: two states of a row with one version have one content, which is why comparing
`row_version` is enough (`EditorsKnowTheRow`).

Observed while modelling, and in the model. No run of section 3 is about these. Most
contradict no document. Where a comment in the code says more than the code does, it is named:

* Two names with one slug share a file; the second to be written replaces the first.
* `UpsertObserved` overwrites the first certificate of the domain, also one that a
  person uploaded, whose source, dates and status become those observed. Its key and its PEM are
  kept, which is what the comment at `accounting.go:189` says of imported material; a reader may
  take it to promise the whole row. The probe may insert a certificate again
  that was deleted while it talked to the server.
* `SetEnabled` of a proxy host sets a route's status without the status machine, so that an
  archived route is enabled again.
* Creating a proxy host does not check the service id it is given, nor an advanced rule;
  a domain name in upper case is accepted and then blocks every version of the node.
* A proxy host whose creation stops half-way leaves a service without a target. Generation
  then fails for the whole node, while the dry run calls the graph valid.
* `ReplaceMiddlewares` is outside the optimistic lock: its error is dropped by the
  proxy host, which leaves an enabled route without protection, and it can bind
  middlewares to a route that was deleted meanwhile.
* `UpdateOptimistic` does not look at `deleted_at`: a save that was admitted before a
  deletion writes to the deleted row. Route saves and the deletion of what they reference do not exclude
  each other; the dangling reference blocks the node, and is not published (`PublishedClosed`).
  The comments of the deletions say otherwise: at `mwsvc.go:184`, "引用守卫：被任何未删路由绑定即 409"
  (refused as soon as any route binds it). That holds of what the guard reads, not of a
  binding saved between the guard and the deletion.
* The health check of a target takes a new `row_version`; who edits the target at
  that time is refused.

### Accounts

One action per statement, as above. `access` are the access tokens that were signed: a
token is the user and the role it claims, for their expiry is not modelled (which only adds behaviour).
Passwords and the time of the last login are left out; a login may be refused at any
point (`Refuse`). The limiter is per name here, per address and name in the program.
`Logout` is one step, because nothing it reads can change before its write. After the settings
are saved, the store in the cache cannot fail.

`late`, `kept` and `lost` are history: the row had been changed between the read and
the write, the error of a revocation was dropped, a request ended before it
revoked. With them `NoSessionLeft` and `ReplayNeedsFailure` say exactly which
sessions the code leaves behind, instead of a promise it does not keep: a
login or a refresh that had read the user before the disabling may still issue a
token, which lives until its next refresh. `Restart` ends all requests and empties the limiter and the cache.

Observed: the last `super_admin` can be disabled or deleted; the map of the limiter
never shrinks; an update of the settings ignores the `expected_version` that its client sends.
Two comments promise more than the code does, and the properties bound by how much:

* `authsvc.go:3`: "刷新即作废旧 token" (a refresh voids the old token). Two refreshes with one
  token at the same time both succeed, and a revocation that fails is ignored.
  `ReplayNeedsFailure` says that nothing else lets a token be used twice.
* `settingsvc.go:2`: "保存即失效" (the cache is invalid once settings are saved). `Current` may
  store what it had read before a save, and then the cache is old until the next save.
  `CacheIsCurrent` excuses this race (`stale`), so it does not show the absence of it: it says that
  outside the race and a store under way the cache is the row.

## 3. Runs

| Run | Instance | What it shows |
|---|---|---|
| `pipeline_races` | 1 node, 2 deployments, 2 requests, 3 versions, database faults, symmetry | `OneActivePerNode`, `SingleWriter`, `ExecutorKnowsStatus`, `OnlyReadyDeployed`, `RollbackRestoresSuccess`, `NumbersDense`; steps: `VersionImmutable`, `DeploymentStatusPath`, `SuccessOnDisk` |
| `pipeline_approval` | 1 node, 1 deployment, 1 request, 2 versions, 2 release requests, 2 people, the node moved in and out of production | `ProductionApproved` |
| `pipeline_liveness` | 1 node, 2 deployments, 1 request, 2 versions, fairness, no database faults | `NoOrphan`, `EveryDeploymentSettles`, `LedgerFair` |
| `file_deploy` | 2 versions over 3 paths, one shared | `NoTornFile`, `NoGap`, `SuccessIsExact`, `DeployReturns` |
| `resource_graph` | 2 domains, 3 services (one on another node), 2 targets, 2 middlewares, 2 credentials, 2 routes, 3 certificates; 2 requests or a load beside 1 or 2; 10 scenarios | `PublishedClosed`, `DeletedNotPublished`, `EnabledRoutesPublished`, `NoChangeSameFiles`, `ImportedCertExists`, `KeysStayInDomain`; steps: `NoLostEdit`, `RowsAreVersioned` |
| `sessions` | 3 users, 3 tokens, 2 requests with symmetry, limit 2 in a window of 2, time up to 4, versions up to 3; 5 scenarios, restarts and dropped errors | `ReplayNeedsFailure`, `NoSessionLeft`, `ManagedByAdmins`, `OneUserPerName`, `RateBounded`, `CacheIsCurrent`; steps: `NoLostUserEdit` |
| `node_state` | 2 rounds, threshold 2, 2 failures, 2 versions | `FailuresCounted`, `StatusTellsMisses`, `Converges` |

Bounds, and why they are enough. Everything in the pipeline is per node: no query
or index relates two nodes, and the theorems hold for any number. Two requests
are the least that race, and the races are between pairs: read and insert of one against
the insert of another. Three versions let a rollback of a rollback happen with a
forward version in between; two deployments let a rollback follow a success. The
approval run needs two requests for one version, so that the gate picks the
latest. Two versions that share a path and each have one of their own are every relation
that two file sets can have. Two rounds are the least that overlap; two
failures reach the threshold. Where a bound cuts behaviour off it is a guard:
`MaxVersion` in `NextNumber` and `AddVersion`, `MaxFailures` in `Miss`, the size of
`Deployments` and `Releases`.

The resources and the accounts have more operations than one state space holds at a
time, so a behaviour starts in one of several scenarios: a first database and the
kinds of requests that run on it (`MCScenarios`). Each scenario is there for a race: two
editors of anything on a published route; certificates, credentials and domains against each other
on an archived one; every kind of edit during a load; a load for the node's first version,
  with and without anything on the node; a proxy host, the longest
request, during a load and beside a competitor. Two requests and one load are the
most that one query of LoadGraph, one check and one write need; the third service is on
another node, so that a query without its node shows. Two users beside the
administrator, three tokens and a limit of two are the least for a name that is
used again, a token exchanged twice and an attempt that leaves the window while
another stays. In these two runs every request arrives once or a bounded number of times, or waits for a
free id, so a behaviour may stop: they do not check for deadlock. The others do.

### Where the program and its documents disagree

These runs end in a counterexample, each for one statement of a document or comment.

* `deleted_node`: "a node with deployments is not deleted". Delete asks for
  deployments and deletes in two transactions. A deploy request that read the node
  while it was enabled inserts its deployment in between.
* `production_write`: "an approved request is the only credential that lets a
  production node go from ready to deploying". A rollback passes no gate. A
  deployment accepted before the node was moved to production is not asked again.
* `mixed_files`: "an atomic switch of versions"; "Traefik reads complete and
  verified configuration at any moment". Files are replaced one by one. In the trace one
  version is completely in place, the next is deployed, and after its first rename the
  directory holds files of both; the code returns or dies there without restoring anything. Each
  file is complete at any moment (`NoTornFile`); the set is not.
* `node_verdict`: "the path of a failed probe does not touch the drift". It writes
  every column of a row read before; a deployment that cleared the drift meanwhile
  is undone. The next successful probe repairs it (`Converges`).
* `node_baseline`: "a successful deployment clears the drift". The baseline of the
  drift check is the highest version that ever succeeded. A node on which an older
  ready version was deployed again is marked as drifted by every probe. (Rollback
  is not affected: it makes a new version.)

### Fairness

* `DeployPipeline!FairSpec`: a request, and an executor, that can take a step takes
  one; a dead server is started again. The Go scheduler does the first; what the
  goroutines call returns: the client of Traefik has a timeout of five seconds, the
  verification gives up after four attempts, and the database and the file system are assumed to
  answer or err. The second is what the deployment's restart policy is for. Nobody
  is required to send a request or to review anything. A crash may happen for ever;
  `EveryDeploymentSettles` holds because the recovery gives a verdict, too. The
  property is stated for a database without faults: when the update that carries a verdict errs
  the row stays active (`LoseStatus`) and holds its node until the next restart, which nothing brings
  about. No property says that this cannot happen, for it can: `NoOrphan` excuses database
  faults, and `ExecutorKnowsStatus` is about executors, of which there is none then.
* `FileDeploy`: a call of Deploy goes on until it returns.
* `NodeState`: a round goes on, a new round begins when the node is free (the
  scheduler starts one every interval), and an executor that has given its verdict
  writes the drift columns. `Converges` requires the faults to cease.

## 4. Proofs

All theorems hold for every value of the constants, from the named assumptions beside
the constants' declarations: bounds are numbers, sets of nodes,
paths and versions are not empty, `NoRelease` and `NoUser` are not members of the sets
they stand outside of, the markers of a missing and a torn file are no versions, the
paths and the ids of resources are finite, the tables' ids are disjoint, the first
databases have the shape, the unique names and the references that the schema and the handlers
give them, and what was deployed before is a snapshot, the empty one if nothing was. TLC evaluates all of them.

| Theorem | Says | Along which argument |
|---|---|---|
| `TypeCorrect` | `TypeOK` of the pipeline | one lemma per group of actions |
| `OneActive`, `ExecutorsKnow`, `OneWriter` | `OneActivePerNode`, `ExecutorKnowsStatus`, `SingleWriter` | `ActivityInv`: the type, one active deployment per node, and every executor right about its row. The first alone is not inductive with the types: an executor that thought its row were in another status could not be excluded from reviving it. `SingleWriter` then needs no induction: two writers would be two active deployments |
| `PipelineKeepsLedger` | `LedgerSafe` | the mapping `LedgerOf`: the conditional updates and the insert under the index are `Close`, `Accept` or stutter, the recovery is `Interrupt` |
| `ProductionNeedsApproval` | `ProductionApproved` | `ApprovalInv` adds `ReviewedByOthers` (an approved request has a reviewer other than its submitter) and `GatePassed` (a request past the gate still has its approval); the key lemma is that an approved request never changes |
| `VersionsStay`, `StatusFollowsPath` | `VersionImmutable`, `DeploymentStatusPath` | `VersionMoves` and `DeploymentMoves`: the three statements that write versions and the six that write deployments, each a conditional update of one row, an insert or the recovery |
| `OnlyReadyReleased`, `RollbacksRestore`, `NumbersHaveNoGap` | `OnlyReadyDeployed`, `RollbackRestoresSuccess`, `NumbersDense` | `HistoryInv` adds `RequestsKnow`, what each request has read at its place in the code (a ready version, numbers without a gap below its own, a version that the node ran). It stays true while others move, because successes are never revoked and contents never change; so each action owes only what it reads itself |
| `NothingOrphaned` | `NoOrphan` | an executor that ends without a verdict needs a refused status change, which `ExecutorKnowsStatus` excludes, or a database fault |
| `SuccessesOnDisk` | `SuccessOnDisk` | `DiskInv`: what an executor that writes or verifies finds in its directory is its version's content; one active deployment per node keeps the others out, `HistoryInv` keeps the content |
| `FileTypeCorrect`, `NeverTorn` | `TypeOK`, `NoTornFile` | `RenamesSynced`: nothing torn is on the disk, a temporary is complete when it is synced and synced when it is renamed |
| `ServedWithoutGap`, `SuccessExact` | `NoGap`, `SuccessIsExact` | `ReplaceInv`: `Progress` (where the loop and the walk are: what is written belongs to the version, in the walk it is all of it) and `Served` (a written path has the new file; another has the old one, or none once the walk has begun). Only a running call is described, so crashes and power loss leave nothing to prove, and every start begins from whatever is there |
| `DirectoryImplemented`, `ServedFromVersions` | `ServedDirectory!Spec`; every file, on disk too, is whole and of a version that has its path | the mapping in `Deploying`; `RenamesSynced` makes a rename a `Put`, `Progress` the removal of a file a `Drop`, the rest stutters |
| `DeployIsBounded` | a call makes at most 6N + 5 steps over N paths | `Work` counts the files left in the loop and what the walk may have to remove; each step of a call lowers it, only `Start` raises it |
| `NodeStateTypeCorrect` | `TypeOK` | one step per action |
| `RowsImplement`, `CertificatesStay`, `KeysStay`, `NoEditIsLost` | `RowsAreVersioned`, `ImportedCertExists`, `KeysStayInDomain`, `NoLostEdit` | `Inv`: the tables' types, the two properties of certificates, and that every planned statement is sound (`RequestInv`): an update knows a version that is not above the row's, and if it is the row's, the content it was decided on. `Moves` is what any step does to the database (versions grow, certificates keep their domain, rows change as `VersionedRows` says); soundness of the other requests' plans survives it, so each action needs to establish only its own |
| `NothingDeleted`, `NothingForgotten`, `VersionClosed` | `DeletedNotPublished`, `EnabledRoutesPublished`, `PublishedClosed` | `AllInv` adds what holds between two queries of a load (`GoneInv`: what was deleted at its begin is in no list; `SteadyInv`: what nobody touched is in each) and what `CreateVersion` checked of the version (`VersionInv`) |
| `ReplayIsFailure`, `SessionsEnd`, `AdminsManage`, `NamesAreUnique`, `NoUserEditIsLost` | the properties of `Accounts` of like names | `IInv` with `Knows`: what a request's reads still guarantee, relative to the versions it read; `UsersLater` and `TokensLater` are all that others can do in between |
| `RateIsBounded` | `RateBounded` | `Remembers`: what the limiter remembers is the tail of all attempts it let through, the others have left the window. That the young attempts are a suffix needs the least index of one, hence the well-founded order of numbers |
| `CacheFollows` | `CacheIsCurrent` | `CacheInv`: a store under way carries the row, or is marked as overtaken |
| `OneOpenPerNode`, `VerdictIsFinal` (`DeployLedger_proofs`); `VerdictsFinal` | the ledger has one open deployment per node and never revises a verdict; hence the pipeline does not | `Moved`: an entry stays, is accepted or is closed. The pipeline's theorem is that of the ledger, instantiated under `LedgerOf` |
| `VersionIsContent`, `DeletedForGood` (`VersionedRows_proofs`); `EditorsKnowTheRow`, `RowsDeletedForGood` | whoever has read a row at its present version knows its content; a deleted row stays deleted; hence so in every table of `ResourceGraph` | inductive over what one change of a row does, then instantiated |
| `RollbackTargetsStay`, `ApprovalsStay` | what may be rolled back to, and what an approval unlocks, stays so for ever | `HistoryInv`; `ApprovedStays` |
| `ServedWasDeployed` | the content of a directory is that of a ready version that was accepted for its node | `DiskProvenance`: only `BeginWrite` changes a content, and its executor's deployment stays |
| `StayingInProduction` | on a node that stays in production every deployment but a rollback has an approval by somebody else | `Judged`: every deploy request for such a node is told so (`Told`), and its deployment remembers. Together with the run `production_write`: a rollback, or a node moved to production after the gate, are the only ways around |
| `ExecutorsEnd`, `RequestsEnd` | each step of an executor or a request lowers its rank, and nothing but the insert of its row starts an executor | by cases over the actions, with `TypeOK` |
| `NoChangeIsEqual`, `NoChangeIsSame` | `NoChangeSameFiles` | a summary of zeros means that nothing is added, modified or removed, for the ids are finite; then the snapshots are equal as functions. `ChangeInv` says that the summary is that of the version against what is deployed, or `FirstSummary`: there zeros mean no router, service or middleware, and certificates are there for routers only (`FirstEmpty`) |
| `RepairIsBounded`, `SettledForGood` | once nothing fails or changes, the verdict on a node is right after at most 13 steps and stays right | `Settled`: the row, and every copy of it that will be written back, is right or harmless. `Repair` is how far the round under way, and the next one, are from that. The row alone is not enough: a round holds an old copy of it |
| `FailuresAreCounted`, `StatusIsJust` | `FailuresCounted`, `StatusTellsMisses` | `CountInv` adds `OneRound` (one round has the node: the `running` set) and `CopiesCount` (the copy it holds counts from the row as it still is) |

Only model-checked: liveness (`EveryDeploymentSettles`, `LedgerFair`, `DeployReturns`,
`Converges`), because the provers used have no rule for fairness and ENABLED. Of each the
safety half is proved for every instance: a measure that each fair step lowers and
nothing else raises (`ExecutorsEnd`, `RequestsEnd`; `DeployIsBounded`; `RepairIsBounded`), so that
what is left to TLC is that a step is possible while the measure is not at its end, and that
fairness then takes it. Every other property of the passing runs is a theorem. The
disagreements of section 3 are counterexamples and have no theorem; `StayingInProduction`,
`NeverTorn` with `ServedWithoutGap`, and `RepairIsBounded` say how much of the violated
statement does hold.

## 5. What is not modelled

* A second server process on the same database. The recovery at its start would
  close the deployments of the first; the program is documented as one instance.
* A shared or changed `deploy_root`: the code has no rule about it.
* The number of seconds anything takes, the limit of 32 concurrent jobs, and the
  pool of database connections.
* `FileDeployer.Cleanup`, which has no caller.
* Parameter validation, the text of messages, the audit trail, the dashboard, the
  HTTP layer, encryption, redaction, configuration, logging, seed data, packaging
  and the web frontend: no state that another component decides upon.
* Of the resources: lists and lookups, the parsing of a certificate before its
  import, the dry runs of a node and of an advanced rule, the verification of a credential: none
  of them writes what the properties speak of.
* Of the accounts: passwords and their change, the expiry of access tokens, audit entries.
* The middleware registry and the advanced-rule check: pure validation of one
  parameter set or one string, without state.

## 6. Plan

Done in this order: `DeployLedger`, `DeployPipeline`, `FileDeploy`, `NodeState`,
`Publication`, `VersionedRows`, `ResourceGraph`, `Accounts`, with the proofs above.
`ServedDirectory` came with its proof.

What is left, in this order: an abstract specification of sessions (a token is issued, exchanged
once, ended) that `Accounts` implements up to the exceptions its history variables mark; the
end of the requests of `ResourceGraph` and `Accounts`, as for the pipeline; and how much
of `DeletedNodeHasNoDeployments` holds for requests that begin after the deletion check.
