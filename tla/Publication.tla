----------------------------- MODULE Publication -----------------------------
(***************************************************************************)
(* What is computed from the rows of one node when a version is created:   *)
(* the checks of validate.RunNode, the self-contained snapshot of          *)
(* buildSnapshot, the files of generate.Generate and the difference of two *)
(* snapshots.  Operators only: ResourceGraph reads the rows and uses them. *)
(*                                                                         *)
(* A graph g has one function per query of LoadGraph, from the ids that    *)
(* the query returned to their columns.  Health, weight and priority are   *)
(* left out; an address, a path or the parameters of a middleware are a    *)
(* member of a small set.                                                  *)
(*                                                                         *)
(* Mutant... definitions are their namesakes with a plausible bug; no      *)
(* specification uses them.                                                *)
(***************************************************************************)
EXTENDS Naturals, Sequences, FiniteSets

CONSTANTS
  Slug,        \* the Traefik name that slug() makes of a name
  Malformed    \* names that are no RFC 1123 domain names

None == "none"    \* a NULL reference

\* What LoadGraph starts from
EmptyGraph == [domains |-> <<>>, services |-> <<>>, targets |-> <<>>,
               routes |-> <<>>, bind |-> <<>>, middlewares |-> <<>>]

-----------------------------------------------------------------------------
(* Validation *)

Enabled(g) == {r \in DOMAIN g.routes : g.routes[r].status = "enabled"}

\* Drafts and archived routes are not checked, disabled ones are.
Checked(g) ==
  {r \in DOMAIN g.routes : g.routes[r].status \in {"enabled", "disabled"}}

EnabledTargets(g, s) ==
  {t \in DOMAIN g.targets : g.targets[t].service = s /\ g.targets[t].on}

\* rule is None for a route in simple mode, else its advanced rule
Simple(g, r) == g.routes[r].rule = None

Acme(policy) == policy \in {"acme_http", "acme_dns"}

DomainsValid(g) ==
  \A d \in DOMAIN g.domains :
    LET D == g.domains[d]
    IN /\ D.name \notin Malformed
       /\ D.policy = "acme_dns" => D.cred # None
       /\ Acme(D.policy) => D.resolver

RouteDomainValid(g, r) ==
  LET R == g.routes[r]
  IN Simple(g, r) =>
       /\ R.domain \in DOMAIN g.domains
       /\ LET D == g.domains[R.domain]
          IN /\ D.on
             /\ R.https => D.policy # "off"
             /\ R.https /\ D.policy = "imported" => D.cert # None

RouteServiceValid(g, r) ==
  LET R == g.routes[r]
  IN /\ R.service \in DOMAIN g.services
     /\ g.services[R.service].on
     /\ R.status = "enabled" => EnabledTargets(g, R.service) # {}

RouteBindingsValid(g, r) ==
  \A i \in DOMAIN g.bind[r] :
    /\ g.bind[r][i] \in DOMAIN g.middlewares
    /\ g.routes[r].status = "enabled" => g.middlewares[g.bind[r][i]].on

\* The rule as a string, "" when the domain of a simple route is missing:
\* here <<host, path>>, <<advanced>> or <<>>
RuleOf(g, r) ==
  LET R == g.routes[r]
  IN IF ~Simple(g, r) THEN <<R.rule>>
     ELSE IF R.domain \in DOMAIN g.domains
          THEN <<g.domains[R.domain].name, R.path>> ELSE <<>>

EntryPoint(g, r) == IF g.routes[r].https THEN "websecure" ELSE "web"

MutantNoRuleOverlap(g) ==
  \A r, o \in Enabled(g) :
    r # o /\ RuleOf(g, r) # <<>> /\ EntryPoint(g, r) = EntryPoint(g, o)
      /\ Simple(g, r)
      => RuleOf(g, r) # RuleOf(g, o)

NoRuleOverlap(g) ==
  \A r, o \in Enabled(g) :
    r # o /\ RuleOf(g, r) # <<>> /\ EntryPoint(g, r) = EntryPoint(g, o)
      => RuleOf(g, r) # RuleOf(g, o)

Valid(g) ==
  /\ DomainsValid(g)
  /\ \A r \in Checked(g) :
       RouteDomainValid(g, r) /\ RouteServiceValid(g, r)
         /\ RouteBindingsValid(g, r)
  /\ NoRuleOverlap(g)

-----------------------------------------------------------------------------
(* The snapshot *)

\* The certificate that the domain of an https route in simple mode imports
ServedCertificate(g, r) ==
  LET D == g.domains[g.routes[r].domain]
  IN IF Simple(g, r) /\ g.routes[r].https /\ D.policy = "imported"
     THEN D.cert ELSE None

UsedCertificates(g) == {ServedCertificate(g, r) : r \in Enabled(g)} \ {None}

\* buildSnapshot refuses: a row it needs is disabled or was not loaded.  have
\* holds the certificates that exist when it asks for them.
Buildable(g, have) ==
  /\ \A r \in Enabled(g) :
       /\ g.routes[r].service \in DOMAIN g.services
       /\ g.services[g.routes[r].service].on
       /\ Simple(g, r) => g.routes[r].domain \in DOMAIN g.domains
       /\ \A i \in DOMAIN g.bind[r] :
            /\ g.bind[r][i] \in DOMAIN g.middlewares
            /\ g.middlewares[g.bind[r][i]].on
  /\ UsedCertificates(g) \subseteq have

Router(g, r) ==
  LET R == g.routes[r]
      tls == Simple(g, r) /\ R.https
  IN [name |-> Slug[R.name], rule |-> RuleOf(g, r), entry |-> EntryPoint(g, r),
      service |-> Slug[g.services[R.service].name],
      mode |-> IF tls THEN g.domains[R.domain].policy ELSE None,
      resolver |-> tls /\ g.domains[R.domain].resolver,
      middlewares |-> [i \in DOMAIN g.bind[r] |->
                         Slug[g.middlewares[g.bind[r][i]].name]]]

\* The domain that names certificate c in the snapshot: that of the first
\* route, in an order that is left open
NamingDomain(g, c) ==
  g.routes[CHOOSE r \in Enabled(g) : ServedCertificate(g, r) = c].domain

\* Only what is enabled is published.
Snapshot(g, pem) ==
  LET on(rows) == {i \in DOMAIN rows : rows[i].on}
  IN [routers |-> [r \in Enabled(g) |-> Router(g, r)],
      services |->
        [s \in on(g.services) |->
           [name |-> Slug[g.services[s].name],
            targets |-> {g.targets[t].url : t \in EnabledTargets(g, s)}]],
      middlewares |->
        [w \in on(g.middlewares) |->
           [name |-> Slug[g.middlewares[w].name],
            params |-> g.middlewares[w].params]],
      certificates |->
        [c \in UsedCertificates(g) |->
           [name |-> Slug[g.domains[NamingDomain(g, c)].name], pem |-> pem[c]]]]

-----------------------------------------------------------------------------
(* Generation *)

\* Every enabled service needs a target, whether a route uses it or not.
ServicesGenerate(s) == \A i \in DOMAIN s.services : s.services[i].targets # {}

RoutersGenerate(s) ==
  \A r \in DOMAIN s.routers :
    Acme(s.routers[r].mode) => s.routers[r].resolver

Generates(s) == ServicesGenerate(s) /\ RoutersGenerate(s)

Names(rows) == {rows[i].name : i \in DOMAIN rows}

\* Artifacts are keyed by their path: equal names share one file.
ArtifactFiles(s) ==
  ({"routers"} \X Names(s.routers))
    \cup ({"services"} \X Names(s.services))
    \cup ({"middlewares"} \X Names(s.middlewares))
    \cup ({"pem", "key"} \X Names(s.certificates))
    \cup {<<"tls", "certificates">> : c \in DOMAIN s.certificates}

-----------------------------------------------------------------------------
(* The difference of two snapshots *)

Kinds == {"routers", "services", "middlewares", "certificates"}
Keys(s) == UNION {{k} \X DOMAIN s[k] : k \in Kinds}
Entry(s, key) == s[key[1]][key[2]]

MutantSnapshotDiff(old, new) ==
  [added |-> Keys(new) \ Keys(old),
   modified |-> {key \in Keys(old) \cap Keys(new) :
                   Entry(old, key) # Entry(new, key)},
   removed |-> {}]

SnapshotDiff(old, new) ==
  [added |-> Keys(new) \ Keys(old),
   modified |-> {key \in Keys(old) \cap Keys(new) :
                   Entry(old, key) # Entry(new, key)},
   removed |-> Keys(old) \ Keys(new)]

Summary(items) == [k \in {"added", "modified", "removed"} |->
                     Cardinality(items[k])]

\* What is stored when no earlier version of the node succeeded: everything
\* is new, certificates are not counted.
FirstSummary(new) ==
  [added |-> Cardinality(DOMAIN new.routers) + Cardinality(DOMAIN new.services)
               + Cardinality(DOMAIN new.middlewares),
   modified |-> 0, removed |-> 0]
=============================================================================
