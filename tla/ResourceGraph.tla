---------------------------- MODULE ResourceGraph ----------------------------
(***************************************************************************)
(* The resources of the gateway nodes (domains, services and their         *)
(* targets, middlewares, DNS credentials, certificates, routes and the     *)
(* bindings of middlewares to routes), the requests and periodic tasks     *)
(* that change them side by side, and LoadGraph, which reads them query by *)
(* query to make a version.                                                *)
(*                                                                         *)
(* A request is the list of what its handler still has to do.  It starts   *)
(* with one step for the reads and checks before the first write, because  *)
(* what those find cannot become true again in between: an id is known to  *)
(* its client only after the row exists, and a row is never restored.      *)
(* After that, every statement and every transaction is a step.  A request *)
(* that is refused before it writes has no action.                         *)
(*                                                                         *)
(* Nodes, users and audit entries are left out; the node of an id is       *)
(* fixed.  Mutant... definitions are their namesakes with a plausible bug; *)
(* no specification uses them.                                             *)
(***************************************************************************)
EXTENDS Publication

CONSTANTS
  Domains, Services, Targets, Middlewares, Credentials, Routes, \* row ids
  Certificates,  \* ids of the certificates
  NodeOf,        \* the node of a domain, service, middleware or route
  Node,          \* the node whose version is created
  NamesFor,      \* names that requests choose, per kind of resource
  Wildcards,     \* domain names that begin with *.
  Derived,       \* per domain name: the names a proxy host takes from it
  Rules,         \* advanced rules
  Values,        \* contents of an address, of parameters, of a secret
  Requests,      \* bound: requests, 1 .. n
  Scenarios      \* bound: initial contents of the database, what runs

VARIABLES
  row,      \* the tables with a row_version
  bind,     \* route_middlewares: per route, in order of position
  cert,     \* the certificates table
  req,      \* what each request still has to do
  load,     \* LoadGraph of the one request that creates a version
  version,  \* the version it creates
  scope     \* what runs in this behaviour

vars == <<row, bind, cert, req, load, version, scope>>
db == <<row, bind, cert>>

Tables == {Domains, Services, Targets, Middlewares, Credentials, Routes}
Ids == UNION Tables

ASSUME RequestsAssumption == Requests \subseteq Nat
ASSUME TablesAssumption ==
  /\ \A S, T \in Tables : S # T => S \cap T = {}
  /\ Ids \cap Certificates = {}

States == {"none", "live", "gone"}   \* a row: not yet, there, deleted
Certificate == [st : States, domain : Domains \cup {None},
                source : {"imported", "acme", None},
                pem : Certificates \cup {None}]

\* Rows, bindings and certificates of the shape that a database has
IsDatabase(rows, bindings, certs) ==
  /\ DOMAIN rows = Ids
  /\ \A i \in Ids :
       LET R == rows[i]
       IN /\ R = [st |-> R.st, ver |-> R.ver, data |-> R.data]
          /\ R.st \in States /\ R.ver \in Nat
          /\ R.ver = 0 <=> R.st = "none"
  /\ DOMAIN bindings = Routes
  /\ \A r \in Routes : \A i \in DOMAIN bindings[r] :
       bindings[r][i] \in Middlewares
  /\ certs \in [Certificates -> Certificate]

\* A behaviour starts from a database whose certificates are where they are
\* referenced, and whose keys are those of their domains.
ASSUME ScenariosAssumption ==
  \A s \in Scenarios :
    /\ IsDatabase(s.row, s.bind, s.cert)
    /\ \A d \in Domains :
         s.row[d].st # "none" =>
           s.row[d].data.cert
             \in {c \in Certificates : s.cert[c].st = "live"} \cup {None}
    /\ \A c \in Certificates :
         LET key == s.cert[c].pem
         IN s.cert[c].st # "none" /\ key # None =>
              s.cert[key].st # "none" /\ s.cert[key].domain = s.cert[c].domain

\* An id is a UUID.
ASSUME IdsAssumption == IsFiniteSet(Ids) /\ IsFiniteSet(Certificates)

\* A document with four lists of entries, each found under the id of its row
IsSnapshot(s) ==
  /\ s = [routers |-> s.routers, services |-> s.services,
          middlewares |-> s.middlewares, certificates |-> s.certificates]
  /\ \A k \in Kinds : /\ s[k] = [i \in DOMAIN s[k] |-> s[k][i]]
                      /\ IsFiniteSet(DOMAIN s[k])

NoSnapshot == Snapshot(EmptyGraph, <<>>)

\* What runs on the node was published before; nothing was if the version is
\* the first.
ASSUME DeployedAssumption ==
  \A s \in Scenarios : /\ IsSnapshot(s.deployed)
                       /\ s.first => s.deployed = NoSnapshot

-----------------------------------------------------------------------------
(* Rows *)

Live(i) == row[i].st = "live"
Free(S) == {i \in S : row[i].st = "none"}
Having(S) == {i \in S : Live(i)}
LiveCertificates == {c \in Certificates : cert[c].st = "live"}

\* What must be unique among the rows of a table that are not deleted
Key(i, data) ==
  IF i \in Targets THEN <<data.service, data.url>>
  ELSE IF i \in Credentials THEN <<i>> ELSE <<NodeOf[i], data.name>>

UniqueKey(i, data) ==
  \A T \in Tables : i \in T =>
    \A j \in T \ {i} : Live(j) => Key(j, row[j].data) # Key(i, data)

\* The CHECK and REFERENCES constraints.  A reference to a deleted row is
\* possible, for its row stays; a certificate is really removed.
Consistent(i, data) ==
  /\ i \in Domains =>
       /\ data.policy = "acme_http" => data.name \notin Wildcards
       /\ data.policy = "acme_dns" => data.cred # None
       /\ data.policy = "imported" => data.cert # None
       /\ data.cert \in LiveCertificates \cup {None}
  /\ i \in Routes => (data.rule = None => data.domain # None)

\* UPDATE ... SET of some columns
Merge(data, set) ==
  [c \in DOMAIN data |-> IF c \in DOMAIN set THEN set[c] ELSE data[c]]

-----------------------------------------------------------------------------
(* Statements: a request carries those it will execute *)

Insert(i, data) == [op |-> "insert", id |-> i, set |-> data]
Delete(i) == [op |-> "delete", id |-> i]
Bind(r, mws) == [op |-> "bind", id |-> r, set |-> mws]

\* UpdateOptimistic up to its UPDATE: base is what its caller has read.
Update(i, set) ==
  [op |-> "update", id |-> i, ver |-> row[i].ver, base |-> row[i].data,
   set |-> set]

\* lax: the error of the statement is dropped
Do(w) == [do |-> "statement", write |-> w, lax |-> FALSE]
Try(w) == [do |-> "statement", write |-> w, lax |-> TRUE]

MutantCanUpdate(w) ==
  /\ row[w.id].ver > 0
  /\ Live(w.id) => UniqueKey(w.id, Merge(row[w.id].data, w.set))
  /\ Consistent(w.id, Merge(row[w.id].data, w.set))

\* WHERE id = ? AND row_version = ?
CanUpdate(w) ==
  /\ row[w.id].ver = w.ver
  /\ Live(w.id) => UniqueKey(w.id, Merge(row[w.id].data, w.set))
  /\ Consistent(w.id, Merge(row[w.id].data, w.set))

MutantUpdated(w) == [row[w.id] EXCEPT !.data = Merge(@, w.set)]

\* SET ..., row_version = row_version + 1
Updated(w) ==
  [row[w.id] EXCEPT !.ver = @ + 1, !.data = Merge(@, w.set)]

MutantInsertRow(w) ==
  /\ w.op = "insert" /\ w.id \in Ids
  /\ row[w.id].st = "none"
  /\ UniqueKey(w.id, w.set) /\ Consistent(w.id, w.set)
  /\ row' = [row EXCEPT ![w.id] = [st |-> "live", ver |-> 0, data |-> w.set]]
  /\ UNCHANGED <<bind, cert>>

InsertRow(w) ==
  /\ w.op = "insert" /\ w.id \in Ids
  /\ row[w.id].st = "none"
  /\ UniqueKey(w.id, w.set) /\ Consistent(w.id, w.set)
  /\ row' = [row EXCEPT ![w.id] = [st |-> "live", ver |-> 1, data |-> w.set]]
  /\ UNCHANGED <<bind, cert>>

UpdateOptimistic(w) ==
  /\ w.op = "update"
  /\ CanUpdate(w)
  /\ row' = [row EXCEPT ![w.id] = Updated(w)]
  /\ UNCHANGED <<bind, cert>>

\* The targets of a service are deleted with it.
Owned(i) == {i} \cup {t \in Having(Targets) : row[t].data.service = i}

\* The bindings of a route are removed with it.
SoftDelete(w) ==
  /\ w.op = "delete" /\ w.id \in Ids
  /\ Live(w.id)
  /\ row' = [i \in Ids |->
               IF i \in Owned(w.id) THEN [row[i] EXCEPT !.st = "gone"]
               ELSE row[i]]
  /\ bind' = [r \in Routes |-> IF r = w.id THEN <<>> ELSE bind[r]]
  /\ UNCHANGED cert

\* In a transaction; neither the route nor the middlewares are looked at.
ReplaceMiddlewares(w) ==
  /\ w.op = "bind"
  /\ bind' = [bind EXCEPT ![w.id] = w.set]
  /\ UNCHANGED <<row, cert>>

\* certsvc.Probe may insert a certificate again under the id it had.
InsertCertificate(w) ==
  /\ w.op \in {"insert", "restore"} /\ w.id \in Certificates
  /\ cert[w.id].st = "none" \/ (w.op = "restore" /\ cert[w.id].st = "gone")
  /\ cert' = [cert EXCEPT ![w.id] = w.set]
  /\ UNCHANGED <<row, bind>>

\* UPDATE of an existing certificate; none may be left
ObserveCertificate(w) ==
  /\ w.op = "observe"
  /\ cert' = IF cert[w.id].st = "live"
             THEN [cert EXCEPT ![w.id] = Merge(@, w.set)] ELSE cert
  /\ UNCHANGED <<row, bind>>

MutantUnreferenced(c) == \A d \in Having(Domains) : row[d].data.cert # c

\* REFERENCES certificates(id): also a deleted domain keeps its reference.
Unreferenced(c) == \A d \in Domains \ Free(Domains) : row[d].data.cert # c

DeleteCertificate(w) ==
  /\ w.op = "delete" /\ w.id \in Certificates
  /\ cert[w.id].st = "live"
  /\ Unreferenced(w.id)
  /\ cert' = [cert EXCEPT ![w.id].st = "gone"]
  /\ UNCHANGED <<row, bind>>

Execute(w) ==
  \/ InsertRow(w) \/ UpdateOptimistic(w) \/ SoftDelete(w)
  \/ ReplaceMiddlewares(w)
  \/ InsertCertificate(w) \/ ObserveCertificate(w) \/ DeleteCertificate(w)

-----------------------------------------------------------------------------
(* Requests *)

Idle == <<[do |-> "arrive"]>>

\* A request of this kind may arrive as p: in its turn, where the scenario has
\* such requests.
Arrives(p, kind) ==
  /\ req[p] = Idle /\ p \in DOMAIN scope.kinds /\ kind \in scope.kinds[p]
  /\ \A q \in Requests : q < p => req[q] # Idle

Begin(p, todo) ==
  /\ req' = [req EXCEPT ![p] = todo]
  /\ UNCHANGED <<db, load, version, scope>>

\* The next step of p
At(p, step) == req[p] # <<>> /\ Head(req[p]).do = step
Step(p) == Head(req[p])

\* p goes on with todo, then with the rest.
Go(p, todo) == req' = [req EXCEPT ![p] = todo \o Tail(req[p])]

Statement(p) ==
  /\ At(p, "statement")
  /\ Execute(Step(p).write)
  /\ Go(p, <<>>)
  /\ UNCHANGED <<load, version, scope>>

\* A statement failed and its error is dropped.
DropError(p) ==
  /\ At(p, "statement") /\ Step(p).lax
  /\ Go(p, <<>>)
  /\ UNCHANGED <<db, load, version, scope>>

\* A check or a statement fails, the database fails or the process dies: the
\* rest is not done, and what was written stays.
Refuse(p) ==
  /\ req[p] \notin {Idle, <<>>}
  /\ req' = [req EXCEPT ![p] = <<>>]
  /\ UNCHANGED <<db, load, version, scope>>
-----------------------------------------------------------------------------
(* Domains: domainsvc *)

\* What validateInput lets through; the resolver and the credential are
\* given when the policy needs them.  The credential may be deleted.
DomainColumns(n) ==
  {[policy |-> "off", resolver |-> FALSE, cred |-> None],
   [policy |-> "imported", resolver |-> FALSE, cred |-> None]}
  \cup
  {[policy |-> "acme_http", resolver |-> TRUE, cred |-> None] :
     x \in {n} \ Wildcards}
  \cup
  {[policy |-> "acme_dns", resolver |-> TRUE, cred |-> k] :
     k \in Credentials \ Free(Credentials)}

DomainRow(n, columns, c) ==
  [name |-> n, policy |-> columns.policy, resolver |-> columns.resolver,
   cred |-> columns.cred, cert |-> c, on |-> TRUE]

DomainReferences(d) ==
  {r \in Having(Routes) :
     row[r].data.domain = d /\ row[r].data.status # "archived"}

DomainCreate(p) ==
  /\ Arrives(p, "domain")
  /\ \E d \in Free(Domains), n \in NamesFor.domain :
       \E columns \in DomainColumns(n) :
         Begin(p, <<Do(Insert(d, DomainRow(n, columns, None)))>>)

\* expected_version is that of the row; a stale one is refused.
DomainUpdate(p) ==
  /\ Arrives(p, "domain")
  /\ \E d \in Having(Domains), n \in NamesFor.domain, on \in BOOLEAN :
       \E columns \in DomainColumns(n) :
         Begin(p,
               <<Do(Update(d, [name |-> n, policy |-> columns.policy,
                               resolver |-> columns.resolver,
                               cred |-> columns.cred, on |-> on]))>>)

DomainSetEnabled(p) ==
  /\ Arrives(p, "domain")
  /\ \E d \in Having(Domains) :
       Begin(p, <<Do(Update(d, [on |-> ~row[d].data.on]))>>)

DomainDelete(p) ==
  /\ Arrives(p, "domain")
  /\ \E d \in Having(Domains) :
       DomainReferences(d) = {} /\ Begin(p, <<Do(Delete(d))>>)

-----------------------------------------------------------------------------
(* Services and targets: servicesvc, healthsvc *)

ServiceReferences(s) ==
  {r \in Having(Routes) :
     row[r].data.service = s /\ row[r].data.status # "archived"}

ServiceCreate(p) ==
  /\ Arrives(p, "service")
  /\ \E s \in Free(Services), n \in NamesFor.service :
       Begin(p, <<Do(Insert(s, [name |-> n, on |-> TRUE]))>>)

ServiceUpdate(p) ==
  /\ Arrives(p, "service")
  /\ \E s \in Having(Services), n \in NamesFor.service, on \in BOOLEAN :
       Begin(p, <<Do(Update(s, [name |-> n, on |-> on]))>>)

SetServiceEnabled(p) ==
  /\ Arrives(p, "service")
  /\ \E s \in Having(Services) :
       Begin(p, <<Do(Update(s, [on |-> ~row[s].data.on]))>>)

ServiceDelete(p) ==
  /\ Arrives(p, "service")
  /\ \E s \in Having(Services) :
       ServiceReferences(s) = {} /\ Begin(p, <<Do(Delete(s))>>)

AddTarget(p) ==
  /\ Arrives(p, "target")
  /\ \E s \in Having(Services), t \in Free(Targets), u \in Values,
        on \in BOOLEAN :
       Begin(p, <<Do(Insert(t, [service |-> s, url |-> u, on |-> on]))>>)

UpdateTarget(p) ==
  /\ Arrives(p, "target")
  /\ \E t \in Having(Targets), u \in Values, on \in BOOLEAN :
       Begin(p, <<Do(Update(t, [url |-> u, on |-> on]))>>)

SetTargetEnabled(p) ==
  /\ Arrives(p, "target")
  /\ \E t \in Having(Targets) :
       Begin(p, <<Do(Update(t, [on |-> ~row[t].data.on]))>>)

DeleteTarget(p) ==
  /\ Arrives(p, "target")
  /\ \E t \in Having(Targets) : Begin(p, <<Do(Delete(t))>>)

\* A round reads the target, waits for its answer and saves the health, which
\* is left out: the row only takes a new version.
HealthProbe(p) ==
  /\ Arrives(p, "health")
  /\ \E t \in Having(Targets) :
       /\ row[t].data.on /\ Live(row[t].data.service)
       /\ row[row[t].data.service].data.on
       /\ Begin(p, <<Try(Update(t, <<>>))>>)

-----------------------------------------------------------------------------
(* Middlewares and DNS credentials: mwsvc, credsvc *)

MiddlewareReferences(w) ==
  {r \in Having(Routes) :
     /\ \E i \in DOMAIN bind[r] : bind[r][i] = w
     /\ row[r].data.status # "archived"}

MiddlewareCreate(p) ==
  /\ Arrives(p, "middleware")
  /\ \E w \in Free(Middlewares), n \in NamesFor.middleware, v \in Values :
       Begin(p,
             <<Do(Insert(w, [name |-> n, params |-> v, on |-> TRUE]))>>)

MiddlewareUpdate(p) ==
  /\ Arrives(p, "middleware")
  /\ \E w \in Having(Middlewares), n \in NamesFor.middleware, v \in Values :
       Begin(p, <<Do(Update(w, [name |-> n, params |-> v]))>>)

MiddlewareSetEnabled(p) ==
  /\ Arrives(p, "middleware")
  /\ \E w \in Having(Middlewares) :
       Begin(p, <<Do(Update(w, [on |-> ~row[w].data.on]))>>)

MiddlewareDelete(p) ==
  /\ Arrives(p, "middleware")
  /\ \E w \in Having(Middlewares) :
       MiddlewareReferences(w) = {} /\ Begin(p, <<Do(Delete(w))>>)

CredentialReferences(k) == {d \in Having(Domains) : row[d].data.cred = k}

CredentialCreate(p) ==
  /\ Arrives(p, "credential")
  /\ \E k \in Free(Credentials), v \in Values :
       Begin(p, <<Do(Insert(k, [secret |-> v]))>>)

Rotate(p) ==
  /\ Arrives(p, "credential")
  /\ \E k \in Having(Credentials), v \in Values :
       Begin(p, <<Do(Update(k, [secret |-> v]))>>)

CredentialDelete(p) ==
  /\ Arrives(p, "credential")
  /\ \E k \in Having(Credentials) :
       CredentialReferences(k) = {} /\ Begin(p, <<Do(Delete(k))>>)

-----------------------------------------------------------------------------
(* Certificates: certsvc, certwatch.  pem is the upload whose key and PEM a *)
(* certificate has, None for one that was only observed.                    *)

FreeCertificates == {c \in Certificates : cert[c].st = "none"}

Uploaded(c, d) ==
  [st |-> "live", domain |-> d, source |-> "imported", pem |-> c]

\* switchPolicy of the domain as it is read now
SwitchPolicy(d, c) ==
  Update(d, [policy |-> "imported", cert |-> c, cred |-> None])

CertificateReferences(c) == {d \in Having(Domains) : row[d].data.cert = c}

MutantByDomain(d) ==
  {c \in LiveCertificates : d # None /\ cert[c].domain # None}

\* The certificate of a domain is the first that is found: any of them.
ByDomain(d) == {c \in LiveCertificates : d # None /\ cert[c].domain = d}

Import(p) ==
  /\ Arrives(p, "certificate")
  /\ \E d \in Having(Domains), c \in FreeCertificates :
       Begin(p,
             <<Do(Insert(c, Uploaded(c, d))), Do(SwitchPolicy(d, c))>>)

CreateCustom(p) ==
  /\ Arrives(p, "certificate")
  /\ \E c \in FreeCertificates, d \in (Domains \ Free(Domains)) \cup {None} :
       Begin(p,
             <<Do(Insert(c, Uploaded(c, d))),
               [do |-> "attach", domain |-> d, cert |-> c]>>)

\* CreateCustom reads the domain, if there is one, after the insert.
Attach(p) ==
  /\ At(p, "attach")
  /\ Go(p, IF Step(p).domain \in Having(Domains)
           THEN <<Try(SwitchPolicy(Step(p).domain, Step(p).cert))>> ELSE <<>>)
  /\ UNCHANGED <<db, load, version, scope>>

CertificateDelete(p) ==
  /\ Arrives(p, "certificate")
  /\ \E c \in LiveCertificates :
       /\ CertificateReferences(c) = {}
       /\ Begin(p, <<Do(Delete(c))>>)

\* An observation of a domain; only a key that is at hand is written.
Observation(d, c, columns) ==
  <<[do |-> "observe", domain |-> d, id |-> c, set |-> columns]>>

\* certsvc.Probe has read the whole row, with its key if there is one.
ProbeCertificate(p) ==
  /\ Arrives(p, "certificate")
  /\ \E c \in LiveCertificates :
       /\ cert[c].domain # None
       /\ Begin(p,
                Observation(cert[c].domain, c,
                  IF cert[c].pem = None THEN [source |-> cert[c].source]
                  ELSE [source |-> cert[c].source, pem |-> cert[c].pem]))

Watch(p) ==
  /\ Arrives(p, "watch")
  /\ \E d \in Having(Domains) :
       /\ row[d].data.on /\ row[d].data.policy # "off"
       /\ row[d].data.policy = "imported" =>
            \E c \in ByDomain(d) : cert[c].source = "imported"
       /\ Begin(p,
                Observation(d, None,
                  [source |-> IF Acme(row[d].data.policy) THEN "acme"
                              ELSE "imported"]))

\* UpsertObserved: a certificate of the domain is updated, else one is
\* created, by certsvc.Probe under the id it has read.
UpsertObserved(p) ==
  /\ At(p, "observe")
  /\ LET d == Step(p).domain
         found == ByDomain(d)
         new == Merge([st |-> "live", domain |-> d, source |-> None,
                       pem |-> None], Step(p).set)
     IN \/ \E c \in found :
             Go(p, <<Try([op |-> "observe", id |-> c, set |-> Step(p).set])>>)
        \/ /\ found = {}
           /\ \E c \in IF Step(p).id = None THEN FreeCertificates
                      ELSE {Step(p).id} :
                Go(p, <<Try([op |-> IF Step(p).id = None THEN "insert"
                                    ELSE "restore",
                             id |-> c, set |-> new])>>)
  /\ UNCHANGED <<db, load, version, scope>>

-----------------------------------------------------------------------------
(* Routes: routesvc *)

OnNode(S) == {i \in Having(S) : NodeOf[i] = Node}

\* What validateInput and checkAdvanced let through.  An advanced route need
\* not have a domain; it makes no difference for one.
RouteColumns ==
  {[name |-> n, domain |-> d, service |-> s, rule |-> rule, path |-> "/",
    https |-> https] :
     n \in NamesFor.route, d \in OnNode(Domains), s \in OnNode(Services),
     rule \in Rules \cup {None}, https \in BOOLEAN}

RouteRow(columns, status) ==
  [c \in DOMAIN columns \cup {"status"} |->
     IF c = "status" THEN status ELSE columns[c]]

\* The middlewares a request names; they may be deleted.
Bindings == {<<>>} \cup {<<w>> : w \in Middlewares \ Free(Middlewares)}

BindMiddlewares(r, mws) == <<[do |-> "bind", route |-> r, mws |-> mws]>>

\* bindMiddlewares looks at every middleware before it replaces them all.
BindCheck(p) ==
  /\ At(p, "bind")
  /\ LET mws == Step(p).mws
     IN /\ \A i \in DOMAIN mws : mws[i] \in OnNode(Middlewares)
        /\ Go(p, <<Do(Bind(Step(p).route, mws))>>)
  /\ UNCHANGED <<db, load, version, scope>>

RouteCreate(p) ==
  /\ Arrives(p, "route")
  /\ \E r \in Free(Routes), columns \in RouteColumns, mws \in Bindings :
       Begin(p,
             <<Do(Insert(r, RouteRow(columns, "draft")))>>
               \o IF mws = <<>> THEN <<>> ELSE BindMiddlewares(r, mws))

\* A list of middlewares, even an empty one, is bound in a second step.
RouteUpdate(p) ==
  /\ Arrives(p, "route")
  /\ \E r \in OnNode(Routes), columns \in RouteColumns, mws \in Bindings,
        given \in BOOLEAN :
       Begin(p,
             <<Do(Update(r, columns))>>
               \o IF given THEN BindMiddlewares(r, mws) ELSE <<>>)

RouteEdges ==
  {<<"draft", "enabled">>, <<"draft", "archived">>, <<"enabled", "disabled">>,
   <<"enabled", "archived">>, <<"disabled", "enabled">>,
   <<"disabled", "archived">>}

RouteSetStatus(p) ==
  /\ Arrives(p, "status")
  /\ \E r \in Having(Routes), to \in {"enabled", "disabled", "archived"} :
       /\ <<row[r].data.status, to>> \in RouteEdges
       /\ Begin(p, <<Do(Update(r, [status |-> to]))>>)

RouteDelete(p) ==
  /\ Arrives(p, "route")
  /\ \E r \in Having(Routes) : Begin(p, <<Do(Delete(r))>>)

-----------------------------------------------------------------------------
(* Proxy hosts: proxyhostsvc makes a domain, a service with its target, a    *)
(* middleware and a route one after the other, without a transaction.        *)

\* The modes of TLS; a certificate is chosen or uploaded first.  The resolver,
\* the credential and the certificate may be missing.
ProxyTls(uploads) ==
  [policy : {"off", "acme_http"}, resolver : BOOLEAN, cred : {None},
   cert : {None}]
  \cup [policy : {"acme_dns"}, resolver : BOOLEAN,
        cred : (Credentials \ Free(Credentials)) \cup {None}, cert : {None}]
  \cup [policy : {"imported"}, resolver : BOOLEAN, cred : {None},
        cert : LiveCertificates \cup uploads \cup {None}]

\* CreateCustom without a domain, when the certificate of tls is an upload
UploadFirst(tls, lax) ==
  IF tls.cert \in FreeCertificates
  THEN LET w == Insert(tls.cert, Uploaded(tls.cert, None))
       IN IF lax THEN <<Try(w)>> ELSE <<Do(w)>>
  ELSE <<>>

\* The service that is named is neither looked up nor compared with the node.
ProxyCreate(p) ==
  /\ Arrives(p, "proxy")
  /\ \E n \in NamesFor.proxy, tls \in ProxyTls(FreeCertificates),
        s \in (Services \ Free(Services)) \cup {None},
        rule \in Rules \cup {None}, secure \in BOOLEAN :
       Begin(p,
             UploadFirst(tls, FALSE)
               \o <<[do |-> "domain", name |-> n, tls |-> tls, service |-> s,
                     rule |-> rule, secure |-> secure]>>)

ByName(S, n) == {i \in OnNode(S) : row[i].data.name = n}

\* findOrCreateDomain: whether its update succeeds does not matter.
ProxyDomain(p) ==
  /\ At(p, "domain")
  /\ LET in == Step(p)
         found == ByName(Domains, in.name)
         upstream(d) == [do |-> "upstream", in |-> in, domain |-> d]
     IN \/ \E d \in found :
             Go(p, <<Try(Update(d, in.tls)), upstream(d)>>)
        \/ /\ found = {}
           /\ \E d \in Free(Domains) :
                Go(p, <<Do(Insert(d, DomainRow(in.name, in.tls, in.tls.cert))),
                        upstream(d)>>)
  /\ UNCHANGED <<db, load, version, scope>>

HeadersStep(in, d, s) ==
  [do |-> "headers", name |-> in.name, secure |-> in.secure,
   write |-> [op |-> "route", in |-> in, domain |-> d, service |-> s]]

\* The service is the one that was named ...
ProxyService(p) ==
  /\ At(p, "upstream") /\ Step(p).in.service # None
  /\ Go(p, <<HeadersStep(Step(p).in, Step(p).domain, Step(p).in.service)>>)
  /\ UNCHANGED <<db, load, version, scope>>

\* ... or a new one with one target; its name gets a suffix when the first
\* insert is refused.
ProxyUpstream(p) ==
  /\ At(p, "upstream") /\ Step(p).in.service = None
  /\ \E s \in Free(Services), t \in Free(Targets), u \in Values :
       LET names == Derived[Step(p).in.name].service
           named(n) == [name |-> n, on |-> TRUE]
       IN /\ InsertRow(Insert(s, named(IF UniqueKey(s, named(names[1]))
                                       THEN names[1] ELSE names[2])))
          /\ Go(p, <<Do(Insert(t, [service |-> s, url |-> u, on |-> TRUE])),
                     HeadersStep(Step(p).in, Step(p).domain, s)>>)
  /\ UNCHANGED <<load, version, scope>>

\* The route of a proxy host is enabled at once; its name gets a suffix when
\* a live route has it.
ProxyRoute(r, w) ==
  LET names == Derived[w.in.name].route
      taken == ByName(Routes, names[1]) # {}
  IN Insert(r, RouteRow([name |-> IF taken THEN names[2] ELSE names[1],
                         domain |-> w.domain, service |-> w.service,
                         rule |-> w.in.rule, path |-> "/",
                         https |-> w.in.tls.policy # "off"], "enabled"))

\* The bindings come last, and their error is dropped.
WriteProxy(p, mws) ==
  LET w == Step(p).write
      bound(r) == IF mws = <<>> THEN <<>> ELSE <<Try(Bind(r, mws))>>
  IN \/ w.op = "update" /\ Go(p, <<Do(w)>> \o bound(w.id))
     \/ w.op = "route" /\ \E r \in Free(Routes) :
                            Go(p, <<Do(ProxyRoute(r, w))>> \o bound(r))

\* findOrCreateSecHeaders succeeds by creating the middleware ...
MakeHeaders(p) ==
  /\ At(p, "headers") /\ Step(p).secure
  /\ \E w \in Free(Middlewares), v \in Values :
       /\ InsertRow(Insert(w, [name |-> Derived[Step(p).name].headers,
                               params |-> v, on |-> TRUE]))
       /\ WriteProxy(p, <<w>>)
  /\ UNCHANGED <<load, version, scope>>

\* ... or by finding one of that name, whatever it is; ...
FindHeaders(p) ==
  /\ At(p, "headers") /\ Step(p).secure
  /\ \E w \in ByName(Middlewares, Derived[Step(p).name].headers) :
       WriteProxy(p, <<w>>)
  /\ UNCHANGED <<db, load, version, scope>>

\* ... when it fails, the proxy host has none.
NoHeaders(p) ==
  /\ At(p, "headers")
  /\ WriteProxy(p, <<>>)
  /\ UNCHANGED <<db, load, version, scope>>

\* What Update sets in the domain: the other columns keep what they were.
ProxyPolicy(tls) ==
  LET columns == {"policy"} \cup {c \in {"cred", "cert"} : tls[c] # None}
                   \cup {c \in {"resolver"} : tls.policy = "acme_dns"}
  IN [c \in columns |-> tls[c]]

\* The route and its domain are read first and saved with those versions.
ProxyUpdate(p) ==
  /\ Arrives(p, "proxy")
  /\ \E r \in Having(Routes), n \in NamesFor.proxy,
        tls \in ProxyTls(FreeCertificates), u \in Values, secure \in BOOLEAN :
       LET R == row[r].data
           d == R.domain
           policy == IF d \notin Having(Domains) THEN <<>>
                     ELSE UploadFirst(tls, TRUE)
                            \o <<Try(Update(d, ProxyPolicy(tls)))>>
       IN Begin(p, policy
                   \o <<[do |-> "address", service |-> R.service, url |-> u],
                        [do |-> "headers", name |-> n, secure |-> secure,
                         write |-> Update(r, [https |-> tls.policy # "off"])]>>)

\* One of the targets takes the new address.
ProxyAddress(p) ==
  /\ At(p, "address")
  /\ LET found == {t \in Having(Targets) :
                     row[t].data.service = Step(p).service}
     IN \/ \E t \in found : Go(p, <<Try(Update(t, [url |-> Step(p).url]))>>)
        \/ found = {} /\ Go(p, <<>>)
  /\ UNCHANGED <<db, load, version, scope>>

\* Past the status machine of the routes
ProxySetEnabled(p) ==
  /\ Arrives(p, "proxy")
  /\ \E r \in Having(Routes), to \in {"enabled", "disabled"} :
       Begin(p, <<Do(Update(r, [status |-> to]))>>)

ProxyDelete(p) ==
  /\ Arrives(p, "proxy")
  /\ \E r \in Having(Routes) : Begin(p, <<Do(Delete(r))>>)

-----------------------------------------------------------------------------
(* A version: LoadGraph reads query by query, CreateVersion computes          *)

Gone == {i \in Ids : row[i].st = "gone"}

\* gone and steady remember what was deleted and what was enabled when
\* LoadGraph began; left holds the services whose targets are still to be read.
NotLoading == [pc |-> "idle", g |-> EmptyGraph, gone |-> {}, steady |-> {},
               left |-> {}]

NoVersion == [st |-> "none", snap |-> NoSnapshot, files |-> {}, changes |-> <<>>,
              served |-> <<>>, gone |-> {}, steady |-> {}]

\* The columns of the rows in S, as a query returns them
Columns(S) == [i \in S |-> row[i].data]

EnabledNow ==
  {<<r, row[r].ver>> :
     r \in {x \in OnNode(Routes) : row[x].data.status = "enabled"}}

MutantList(S) == {i \in S \ Free(S) : NodeOf[i] = Node}

\* SELECT ... WHERE node_id = ? AND deleted_at IS NULL, without a page limit
List(S) == OnNode(S)

\* One query of LoadGraph: its rows go into the graph.
Read(pc, next, table, rows) ==
  /\ load.pc = pc
  /\ load' = [load EXCEPT !.pc = next, !.g[table] = rows]
  /\ UNCHANGED <<db, req, version, scope>>

LoadBegin ==
  /\ scope.load /\ load = NotLoading /\ version = NoVersion
  /\ load' = [NotLoading EXCEPT !.pc = "services", !.gone = Gone,
                                !.steady = EnabledNow,
                                !.g.domains = Columns(List(Domains))]
  /\ UNCHANGED <<db, req, version, scope>>

LoadServices == Read("services", "routes", "services", Columns(List(Services)))

MutantLoadRoutes ==
  LET page == IF List(Routes) = {} THEN {}
              ELSE {CHOOSE r \in List(Routes) : TRUE}
  IN Read("routes", "bindings", "routes", Columns(page))

LoadRoutes == Read("routes", "bindings", "routes", Columns(List(Routes)))

\* Preload is a query of its own.
LoadBindings ==
  Read("bindings", "middlewares", "bind",
       [r \in DOMAIN load.g.routes |-> bind[r]])

LoadMiddlewares ==
  /\ load.pc = "middlewares"
  /\ load' = [load EXCEPT !.pc = "targets", !.left = DOMAIN load.g.services,
                          !.g.middlewares = Columns(List(Middlewares))]
  /\ UNCHANGED <<db, req, version, scope>>

\* The targets are read service by service.
LoadTargets ==
  /\ load.pc = "targets"
  /\ \E s \in load.left :
       LET found == {t \in Having(Targets) : row[t].data.service = s}
           known == load.g.targets
       IN load' = [load EXCEPT
                     !.left = @ \ {s},
                     !.g.targets = [t \in DOMAIN known \cup found |->
                                      IF t \in found THEN row[t].data
                                      ELSE known[t]]]
  /\ UNCHANGED <<db, req, version, scope>>

\* The routes that were enabled when LoadGraph began and did not change since
StillSteady == load.steady \cap EnabledNow

\* CreateVersion reads the certificates and the version that succeeded last,
\* if there is one; its own rows are those of DeployPipeline.  served is
\* history: the certificate that the domain of each router named.
CreateVersion ==
  /\ load.pc = "targets" /\ load.left = {}
  /\ Valid(load.g) /\ Buildable(load.g, LiveCertificates)
  /\ LET snap == Snapshot(load.g, [c \in Certificates |-> cert[c].pem])
     IN /\ Generates(snap)
        /\ version' = [st |-> "ready", snap |-> snap,
                       files |-> ArtifactFiles(snap),
                       changes |-> IF scope.first THEN FirstSummary(snap)
                                   ELSE Summary(SnapshotDiff(scope.deployed, snap)),
                       served |-> [r \in Enabled(load.g) |->
                                     ServedCertificate(load.g, r)],
                       gone |-> load.gone, steady |-> StillSteady]
  /\ load' = [NotLoading EXCEPT !.pc = "done"]
  /\ UNCHANGED <<db, req, scope>>

\* The node is refused, with the reasons.
Blocked ==
  /\ load.pc = "targets" /\ load.left = {}
  /\ ~(/\ Valid(load.g) /\ Buildable(load.g, LiveCertificates)
       /\ Generates(Snapshot(load.g, [c \in Certificates |-> cert[c].pem])))
  /\ version' = [NoVersion EXCEPT !.st = "blocked"]
  /\ load' = [NotLoading EXCEPT !.pc = "done"]
  /\ UNCHANGED <<db, req, scope>>

-----------------------------------------------------------------------------
(* The specification *)

Init ==
  \E s \in Scenarios :
    /\ row = s.row /\ bind = s.bind /\ cert = s.cert
    /\ req = [p \in Requests |-> Idle]
    /\ load = NotLoading /\ version = NoVersion
    /\ scope = [kinds |-> s.kinds, load |-> s.load, deployed |-> s.deployed,
                first |-> s.first]

DomainRequest(p) ==
  DomainCreate(p) \/ DomainUpdate(p) \/ DomainSetEnabled(p) \/ DomainDelete(p)

ServiceRequest(p) ==
  ServiceCreate(p) \/ ServiceUpdate(p) \/ SetServiceEnabled(p) \/ ServiceDelete(p)

TargetRequest(p) ==
  AddTarget(p) \/ UpdateTarget(p) \/ SetTargetEnabled(p) \/ DeleteTarget(p)

MiddlewareRequest(p) ==
  \/ MiddlewareCreate(p) \/ MiddlewareUpdate(p) \/ MiddlewareSetEnabled(p)
  \/ MiddlewareDelete(p)

CredentialRequest(p) == CredentialCreate(p) \/ Rotate(p) \/ CredentialDelete(p)

CertificateRequest(p) ==
  Import(p) \/ CreateCustom(p) \/ CertificateDelete(p) \/ ProbeCertificate(p)

RouteRequest(p) ==
  RouteCreate(p) \/ RouteUpdate(p) \/ RouteSetStatus(p) \/ RouteDelete(p)

ProxyRequest(p) ==
  ProxyCreate(p) \/ ProxyUpdate(p) \/ ProxySetEnabled(p) \/ ProxyDelete(p)

Arrive(p) ==
  \/ DomainRequest(p) \/ ServiceRequest(p) \/ TargetRequest(p)
  \/ MiddlewareRequest(p) \/ CredentialRequest(p) \/ CertificateRequest(p)
  \/ RouteRequest(p) \/ ProxyRequest(p)
  \/ HealthProbe(p) \/ Watch(p)

ProxyStep(p) ==
  \/ ProxyDomain(p) \/ ProxyService(p) \/ ProxyUpstream(p) \/ ProxyAddress(p)
  \/ MakeHeaders(p) \/ FindHeaders(p) \/ NoHeaders(p)

Proceed(p) ==
  \/ Statement(p) \/ DropError(p) \/ Refuse(p)
  \/ Attach(p) \/ UpsertObserved(p) \/ BindCheck(p) \/ ProxyStep(p)

Load ==
  \/ LoadBegin \/ LoadServices \/ LoadRoutes \/ LoadBindings \/ LoadMiddlewares
  \/ LoadTargets \/ CreateVersion \/ Blocked

Next == (\E p \in Requests : Arrive(p) \/ Proceed(p)) \/ Load

Spec == Init /\ [][Next]_vars

-----------------------------------------------------------------------------
(* Properties *)

\* Rows, bindings and certificates have their shape.
TypeOK == IsDatabase(row, bind, cert)

Ready == version.st = "ready"

\* A version that becomes ready refers to nothing outside of itself, although
\* its rows were read by queries between which others wrote: each of its
\* routers has its service, with a target, its middlewares and, if its domain
\* imports a certificate, that very certificate; and no two of them claim the
\* same rule on the same entry point (version.go LoadGraph, buildSnapshot;
\* validate.go RunNode).
PublishedClosed ==
  LET s == version.snap
  IN /\ \A r \in DOMAIN s.routers :
          LET R == s.routers[r]
          IN /\ \E i \in DOMAIN s.services : /\ s.services[i].name = R.service
                                             /\ s.services[i].targets # {}
             /\ \A i \in DOMAIN R.middlewares :
                  <<"middlewares", R.middlewares[i]>> \in version.files
             /\ R.mode = "imported" => version.served[r] \in DOMAIN s.certificates
     /\ \A r, q \in DOMAIN s.routers :
          r # q /\ s.routers[r].rule = s.routers[q].rule
            => s.routers[r].entry # s.routers[q].entry

\* What had been deleted before LoadGraph began is not published
\* (version.go LoadGraph, deleted_at IS NULL in its queries).
DeletedNotPublished ==
  \A k \in {"routers", "services", "middlewares"} :
    DOMAIN version.snap[k] \cap version.gone = {}

\* A route that was enabled when LoadGraph began and that nobody changed until
\* the version was ready is in the version (version.go LoadGraph: its lists
\* have no page limit; buildSnapshot leaves out no enabled route).
EnabledRoutesPublished ==
  Ready => \A x \in version.steady : x[1] \in DOMAIN version.snap.routers

\* A version that reports no change against the running version publishes the
\* same files from the same rows, and a first version that reports none
\* publishes nothing, although its certificates are not counted (diff.go
\* SnapshotDiff, version.go CreateVersion: the summary that the version
\* stores for those who decide on its deployment).
NoChangeSameFiles ==
  Ready /\ (\A k \in DOMAIN version.changes : version.changes[k] = 0)
    => /\ version.snap = scope.deployed
       /\ version.files = ArtifactFiles(scope.deployed)

\* An update changes what its requester has read: nobody's change in between
\* is overwritten, whether the expected version comes from the client or from
\* the handler's own read (store.go UpdateOptimistic).
NoLostEdit ==
  [][\A p \in Requests :
       /\ req'[p] # req[p] /\ At(p, "statement")
       /\ Step(p).write.op = "update" /\ row' # row
       => row[Step(p).write.id].data = Step(p).write.base]_vars

\* The tables implement rows with versions: a version stands for one content,
\* and a deleted row stays deleted.
Table == INSTANCE VersionedRows WITH Rows <- Ids
RowsAreVersioned == Table!Spec

\* A domain never names a certificate that is gone, whatever is imported,
\* chosen and deleted side by side (certsvc.Delete looks first and deletes
\* later; the foreign key decides).
ImportedCertExists ==
  \A d \in Domains \ Free(Domains) :
    row[d].data.cert \in LiveCertificates \cup {None}

\* An observation moves no private key from one domain to another: the key of
\* a certificate was uploaded for the domain that the certificate has
\* (accounting.go UpsertObserved, ByDomain).
KeysStayInDomain ==
  \A c \in LiveCertificates :
    cert[c].pem # None => cert[cert[c].pem].domain = cert[c].domain

=============================================================================
