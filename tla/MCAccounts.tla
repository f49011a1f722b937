----------------------------- MODULE MCAccounts -----------------------------
(* The instance of Accounts that TLC explores. *)
EXTENDS Accounts, TLC

CONSTANTS ann, bea, cid, k1, k2, k3

Row(n, role) == [st |-> "live", name |-> n, role |-> role, status |-> "active",
                 ver |-> 1, lost |-> FALSE]

\* The administrator ann and, if she is there, bea; the others do not exist yet.
MCUser(there) ==
  [u \in Users |->
     CASE u = ann -> Row("ann", Admin)
       [] u \in there -> Row("bob", "viewer")
       [] OTHER -> [Row("bob", "viewer") EXCEPT !.st = "none", !.ver = 0]]

Unused == [st |-> "none", user |-> ann, parent |-> Nobody, revoked |-> FALSE,
           expired |-> FALSE, late |-> FALSE, replay |-> FALSE, kept |-> FALSE]

\* k1 is the session of owner; only the tokens in some can still be issued.
MCToken(owner, some) ==
  [k \in Tokens |->
     IF k = k1 THEN [Unused EXCEPT !.st = "issued", !.user = owner]
     ELSE IF k \in some THEN Unused
     ELSE [Unused EXCEPT !.st = "issued", !.revoked = TRUE]]

Scenario(kinds, owner, some) ==
  [user |-> MCUser({owner}), token |-> MCToken(owner, some), kinds |-> kinds,
   settings |-> "v1", access |-> {[user |-> ann, role |-> Admin]}]

\* Sessions of users who are changed; of users who come and go; two tokens
\* out of one; the limiter; the settings.
MCScenarios ==
  {Scenario({"refresh", "manage", "update"}, bea, {k2}),
   Scenario({"login", "manage", "create", "delete"}, ann, {k2}),
   Scenario({"refresh", "logout", "expire", "restart"}, bea, {k2, k3}),
   Scenario({"login", "tick", "restart"}, bea, {k2}),
   Scenario({"settings", "restart"}, bea, {})}

Symmetry == Permutations(Requests)
=============================================================================
