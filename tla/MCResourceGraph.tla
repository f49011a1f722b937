--------------------------- MODULE MCResourceGraph ---------------------------
(* The instance of ResourceGraph that TLC explores. *)
EXTENDS ResourceGraph, TLC

CONSTANTS d1, d2, s1, s2, s3, t1, t2, m1, m2, k1, k2, r1, r2, c1, c2, c3, n1, n2

\* Service s3 is on another node.
MCNodeOf == [i \in {d1, d2, s1, s2, s3, m1, m2, r1, r2} |->
               IF i = s3 THEN n2 ELSE n1]

\* The names of the resources that exist, and those requests choose
MCNamesFor ==
  [domain |-> {"a.io", "*.io"}, service |-> {"svc", "api"},
   middleware |-> {"auth", "sec-a"}, route |-> {"main", "a-io"},
   proxy |-> {"a.io", "B.io"}]

MCDerived ==
  [n \in {"a.io", "B.io"} |->
     [service |-> <<"svc", "svc-7">>, headers |-> "sec-a",
      route |-> <<"a-io", "a-io-7">>]]

MCSlug ==
  [n \in {"a.io", "b.io", "*.io", "B.io", "svc", "svc-7", "api", "far", "auth",
          "sec-a", "main", "twin", "a-io", "a-io-7"} |-> n]

NoRow == [st |-> "none", ver |-> 0, data |-> <<>>]
Seeded(data) == [st |-> "live", ver |-> 1, data |-> data]
NoCert == [st |-> "none", domain |-> None, source |-> None, pem |-> None]

Seeds(policy, status, https) ==
  (d1 :> Seeded([name |-> "a.io", policy |-> policy,
                 resolver |-> policy = "acme_dns",
                 cred |-> IF policy = "acme_dns" THEN k1 ELSE None,
                 cert |-> IF policy = "imported" THEN c1 ELSE None,
                 on |-> TRUE]))
  @@ (s1 :> Seeded([name |-> "svc", on |-> TRUE]))
  @@ (s3 :> Seeded([name |-> "far", on |-> TRUE]))
  @@ (t1 :> Seeded([service |-> s1, url |-> "u", on |-> TRUE]))
  @@ (m1 :> Seeded([name |-> "auth", params |-> "u", on |-> TRUE]))
  @@ (k1 :> Seeded([secret |-> "u"]))
  @@ (r1 :> Seeded([name |-> "main", domain |-> d1, service |-> s1,
                    rule |-> None, path |-> "/", https |-> https,
                    status |-> status]))

SeedRow(seeds) ==
  [i \in Ids |-> IF i \in DOMAIN seeds THEN seeds[i] ELSE NoRow]

SeedBind == [r \in Routes |-> IF r = r1 THEN <<m1>> ELSE <<>>]

\* c1 was uploaded for d1, c2 was only seen in the handshake of d2, a
\* proxy host then chose it.
SeedCert(seeds) ==
  [c \in Certificates |->
     CASE c = c1 /\ d1 \in DOMAIN seeds ->
            [st |-> "live", domain |-> d1, source |-> "imported", pem |-> c1]
       [] c = c2 /\ d2 \in DOMAIN seeds ->
            [st |-> "live", domain |-> d2, source |-> "acme", pem |-> None]
       [] OTHER -> NoCert]

SeedGraph(seeds) ==
  LET columns(S) == [i \in S \cap DOMAIN seeds |-> seeds[i].data]
  IN [domains |-> columns({d1, d2}), services |-> columns({s1}),
      targets |-> columns({t1}), middlewares |-> columns({m1}),
      routes |-> columns({r1, r2}),
      bind |-> [r \in {r1, r2} \cap DOMAIN seeds |-> SeedBind[r]]]

Scenario(seeds, kinds, loads) ==
  [row |-> SeedRow(seeds), bind |-> SeedBind, cert |-> SeedCert(seeds),
   kinds |-> kinds, load |-> loads, first |-> FALSE,
   deployed |-> Snapshot(SeedGraph(seeds),
                         [c \in Certificates |-> SeedCert(seeds)[c].pem])]

Published == Seeds("imported", "enabled", TRUE)
Archived ==
  Seeds("acme_dns", "archived", FALSE)
  @@ (d2 :> Seeded([name |-> "b.io", policy |-> "imported", resolver |-> TRUE,
                    cred |-> None, cert |-> c2, on |-> TRUE]))
Twins ==
  Published
  @@ (r2 :> Seeded([name |-> "twin", domain |-> d1, service |-> s1,
                    rule |-> "adv", path |-> "/", https |-> TRUE,
                    status |-> "enabled"]))

Fresh == (s3 :> Seeded([name |-> "far", on |-> TRUE]))

\* Nothing has succeeded on the node yet.
First(seeds, kinds) ==
  [Scenario(seeds, kinds, TRUE) EXCEPT !.first = TRUE, !.deployed = NoSnapshot]

Plain == {"domain", "service", "target", "health", "middleware", "credential",
          "certificate", "watch", "route", "status"}

Securing == {"domain", "certificate", "watch", "credential", "status"}

\* Two requests side by side; requests during a load, and during that of a
\* first version; a proxy host during a load, and beside another request.
MCScenarios ==
  {Scenario(Published, <<Plain, Plain>>, FALSE),
   Scenario(Archived, <<Securing, Securing>>, FALSE),
   Scenario(Archived, <<Plain>>, TRUE),
   Scenario(Published, <<{"route"}, {"status"}>>, TRUE),
   Scenario(Twins, <<{"route", "target"}>>, TRUE),
   Scenario(Published,
            <<{"service", "target"}, {"status", "middleware", "domain"}>>, TRUE),
   First(Fresh, <<{"middleware", "service"}>>), First(Published, <<{"status"}>>),
   Scenario(Published, <<{"proxy"}>>, TRUE),
   Scenario(Published, <<{"proxy"}, {"certificate", "middleware"}>>, FALSE)}
=============================================================================
