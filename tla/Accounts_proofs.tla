---------------------------- MODULE Accounts_proofs ----------------------------
(***************************************************************************)
(* Proofs about Accounts, for any users, tokens, requests, limits and      *)
(* first contents.  The inductive invariant says of every request what its *)
(* earlier reads still guarantee although other requests write in between: *)
(* Knows, which survives whatever UsersLater and TokensLater allow.        *)
(***************************************************************************)
EXTENDS Accounts, WellFoundedInduction, TLAPS

USE NobodyAssumption, LimitAssumption

-----------------------------------------------------------------------------
(* The inductive invariant *)

\* What request r may rely on
KnowsToken(r, tokens) ==
  /\ r.pc \in {"check", "rotate", "drop"} => r.token # Nobody
  /\ r.token # Nobody => tokens[r.token].st = "issued"
  /\ r.pc \in {"check", "rotate", "drop", "issue"} /\ r.late =>
       r.token # Nobody /\ tokens[r.token].kept
  /\ r.pc = "issue" /\ r.token # Nobody =>
       tokens[r.token].revoked \/ tokens[r.token].kept

KnowsOwner(r, users) ==
  r.pc \in {"rotate", "issue"} =>
    /\ r.user # Nobody /\ users[r.user].st # "none"
    /\ r.role \in Roles \cup {Admin}
    /\ r.ver <= users[r.user].ver
    /\ users[r.user].st = "live" /\ users[r.user].ver = r.ver
         => users[r.user].status = "active"

KnowsActor(r, users) ==
  r.pc \in {"admin", "insert", "update", "revoke", "delete"} =>
    /\ r.actor # Nobody /\ users[r.actor].st # "none"
    /\ r.seen <= users[r.actor].ver
    /\ users[r.actor].st = "live" /\ users[r.actor].ver = r.seen
         => users[r.actor].role = Admin /\ users[r.actor].status = "active"

KnowsUser(r, users) ==
  /\ r.pc \in {"update", "revoke", "delete"} =>
       r.user # Nobody /\ users[r.user].st # "none"
  /\ r.pc = "update" =>
       /\ r.ver <= users[r.user].ver
       /\ users[r.user].ver = r.ver =>
            <<users[r.user].role, users[r.user].status>> = r.base

KnowsInput(r) ==
  /\ r.pc \in {"login", "insert"} => r.name \in Names
  /\ r.pc = "insert" => r.role \in Roles \cup {Admin}
  /\ r.pc \in {"save", "store"} => r.value \in Values

Knows(r, users, tokens) ==
  /\ KnowsToken(r, tokens) /\ KnowsOwner(r, users) /\ KnowsActor(r, users)
  /\ KnowsUser(r, users) /\ KnowsInput(r)

RequestsInv == \A p \in Requests : Knows(req[p], user, token)

\* Every issued token has an owner, and a parent that was exchanged.
TokensInv ==
  \A k \in Tokens :
    token[k].st = "issued" =>
      /\ user[token[k].user].st # "none"
      /\ token[k].parent # Nobody =>
           /\ token[token[k].parent].st = "issued"
           /\ token[token[k].parent].revoked \/ token[token[k].parent].kept
      /\ token[k].replay =>
           token[k].parent # Nobody /\ token[token[k].parent].kept

\* Who is about to store the settings has those of the database, or is late.
CacheInv ==
  /\ CacheIsCurrent
  /\ \A p \in Requests :
       At(p, "store") /\ ~req[p].late => req[p].value = settings.row

\* The limiter remembers the last attempts; the others left the window.
Remembers(h, a, t) ==
  /\ Len(h) <= Len(a)
  /\ \A i, j \in 1 .. Len(a) : i <= j => a[i] <= a[j]
  /\ \A i \in 1 .. Len(a) : a[i] <= t
  /\ \A i \in 1 .. Len(h) : h[i] = a[Len(a) - Len(h) + i]
  /\ \A i \in 1 .. Len(a) - Len(h) : t - a[i] >= Window

LimiterInv ==
  /\ \A n \in Names : Remembers(hits[n], admitted[n], now)
  /\ RateBounded

DataInv == OneUserPerName /\ TokensInv /\ RequestsInv /\ NoSessionLeft

IInv == TypeOK /\ DataInv /\ CacheInv /\ LimiterInv

-----------------------------------------------------------------------------
(* What the writes of others leave true *)

UsersLater(users, new) ==
  \A u \in Users :
    users[u].st # "none" =>
      /\ new[u].st # "none" /\ users[u].ver \in Nat /\ new[u].ver \in Nat
      /\ users[u].ver <= new[u].ver
      /\ new[u].ver = users[u].ver => /\ new[u].role = users[u].role
                                      /\ new[u].status = users[u].status
      /\ new[u].st = "live" => users[u].st = "live"

TokensLater(tokens, new) ==
  \A k \in Tokens :
    tokens[k].st = "issued" =>
      /\ new[k].st = "issued"
      /\ tokens[k].revoked => new[k].revoked
      /\ tokens[k].kept => new[k].kept

LEMMA KnowsLater ==
  ASSUME NEW users, NEW users2, UsersLater(users, users2),
         NEW tokens, NEW tokens2, TokensLater(tokens, tokens2),
         NEW r \in Request, Knows(r, users, tokens)
  PROVE  Knows(r, users2, tokens2)
<1>1. /\ r.user \in Users \cup {Nobody} /\ r.token \in Tokens \cup {Nobody}
      /\ r.actor \in Users \cup {Nobody} /\ r.ver \in Nat /\ r.seen \in Nat
  BY DEF Request
<1>2. KnowsToken(r, tokens2)
  BY <1>1 DEF Knows, KnowsToken, TokensLater
<1>3. KnowsOwner(r, users2)
  BY <1>1 DEF Knows, KnowsOwner, UsersLater
<1>4. KnowsActor(r, users2)
  BY <1>1 DEF Knows, KnowsActor, UsersLater
<1>5. KnowsUser(r, users2)
  BY <1>1 DEF Knows, KnowsUser, UsersLater
<1> QED BY <1>2, <1>3, <1>4, <1>5 DEF Knows

(* Everything stays, or only grows.                                          *)
LEMMA SameLater ==
  ASSUME TypeOK
  PROVE  UsersLater(user, user) /\ TokensLater(token, token)
BY DEF TypeOK, Account, UsersLater, TokensLater

(* Request p goes on as r.                                                   *)
LEMMA PutKnows ==
  ASSUME TypeOK, RequestsInv, NEW p \in Requests, NEW r \in Request, Put(p, r),
         UsersLater(user, user'), TokensLater(token, token'),
         Knows(r, user', token')
  PROVE  /\ req' \in [Requests -> Request] /\ RequestsInv'
         /\ req'[p] = r /\ \A q \in Requests \ {p} : req'[q] = req[q]
<1>1. req \in [Requests -> Request] /\ req' = [req EXCEPT ![p] = r]
  BY DEF TypeOK, Put
<1>2. /\ req' \in [Requests -> Request] /\ req'[p] = r
      /\ \A q \in Requests \ {p} : req'[q] = req[q]
  BY <1>1
<1>3. ASSUME NEW q \in Requests
      PROVE  Knows(req'[q], user', token')
  <2>1. CASE q = p
    BY <2>1, <1>2
  <2>2. CASE q # p
    <3>1. req'[q] = req[q] /\ req[q] \in Request /\ Knows(req[q], user, token)
      BY <2>2, <1>1, <1>2 DEF RequestsInv
    <3> QED BY <3>1, KnowsLater
  <2> QED BY <2>1, <2>2
<1> QED BY <1>2, <1>3 DEF RequestsInv

LEMMA IdleKnows ==
  ASSUME NEW users, NEW tokens
  PROVE  Idle \in Request /\ Knows(Idle, users, tokens) /\ Idle.pc = "idle"
BY DEF Idle, Request, Knows, KnowsToken, KnowsOwner, KnowsActor, KnowsUser,
       KnowsInput

(* A step that only plans what request p will do keeps all of the rest.      *)
LEMMA PlanKeeps ==
  ASSUME IInv, NEW p \in Requests, NEW r \in Request, Put(p, r),
         Knows(r, user, token), ~At(p, "revoke"), ~At(p, "store"),
         r.pc = "store" => r.value = settings.row,
         UNCHANGED <<accounts, limiter, settings, scope>>
  PROVE  IInv'
<1>1. /\ user' = user /\ token' = token /\ access' = access
      /\ hits' = hits /\ admitted' = admitted /\ now' = now
      /\ settings' = settings
  BY DEF accounts, limiter
<1>2. /\ req' \in [Requests -> Request] /\ RequestsInv' /\ req'[p] = r
      /\ \A q \in Requests \ {p} : req'[q] = req[q]
  BY <1>1, SameLater, PutKnows DEF IInv, DataInv
<1>3. TypeOK'
  BY <1>1, <1>2 DEF IInv, TypeOK
<1>4. OneUserPerName' /\ TokensInv'
  BY <1>1 DEF IInv, DataInv, OneUserPerName, Named, TokensInv
<1>5. NoSessionLeft'
  BY <1>1, <1>2 DEF IInv, DataInv, NoSessionLeft, At
<1>6. CacheInv'
  BY <1>1, <1>2 DEF IInv, CacheInv, CacheIsCurrent, At
<1>7. LimiterInv'
  BY <1>1 DEF IInv, LimiterInv, RateBounded
<1> QED BY <1>2, <1>3, <1>4, <1>5, <1>6, <1>7 DEF IInv, DataInv

LEMMA PlansKeep ==
  ASSUME IInv, NEW p \in Requests,
         \/ LoginFind(p) \/ RefreshFind(p) \/ RefreshCheck(p) \/ Admit(p)
         \/ UserCreate(p) \/ UserUpdate(p) \/ UserDelete(p)
         \/ Current(p) \/ SettingsUpdate(p)
  PROVE  IInv'
<1>1. /\ req[p] \in Request /\ Knows(req[p], user, token)
      /\ user \in [Users -> Account] /\ token \in [Tokens -> Session]
      /\ settings \in [row : Values, cache : Values \cup {Nobody}, late : BOOLEAN]
  BY DEF IInv, TypeOK, DataInv, RequestsInv
<1>2. CASE LoginFind(p)
  <2>1. PICK u \in Users :
          /\ Active(u)
          /\ Put(p, [Idle EXCEPT !.pc = "issue", !.user = u, !.ver = user[u].ver,
                                 !.role = user[u].role])
    BY <1>2 DEF LoginFind, Named
  <2> DEFINE r == [Idle EXCEPT !.pc = "issue", !.user = u, !.ver = user[u].ver,
                               !.role = user[u].role]
  <2>2. /\ r \in Request /\ r.pc = "issue" /\ r.user = u /\ r.ver = user[u].ver
        /\ r.role = user[u].role /\ r.token = Nobody /\ r.late = FALSE
    BY <1>1 DEF Idle, Request, Account
  <2> HIDE DEF r
  <2>3. Knows(r, user, token)
    BY <1>1, <2>1, <2>2 DEF Knows, KnowsToken, KnowsOwner, KnowsActor, KnowsUser,
                            KnowsInput, Active, Account
  <2>4. Put(p, r)
    BY <2>1 DEF r
  <2> QED BY <1>2, <2>2, <2>3, <2>4, PlanKeeps DEF LoginFind, At
<1>3. CASE RefreshFind(p)
  <2>1. PICK k \in Tokens :
          /\ Usable(k)
          /\ Put(p, [Idle EXCEPT !.pc = "check", !.token = k,
                                 !.late = (Children(k) # {})])
    BY <1>3 DEF RefreshFind
  <2> DEFINE late == Children(k) # {}
             r == [Idle EXCEPT !.pc = "check", !.token = k, !.late = late]
  <2>2. late \in BOOLEAN
    OBVIOUS
  <2>3. late => token[k].kept
    <3>1. SUFFICES ASSUME NEW c \in Tokens, token[c].st = "issued",
                          token[c].parent = k
                   PROVE  token[k].kept
      BY DEF Children
    <3> QED BY <2>1, <3>1 DEF IInv, DataInv, TokensInv, Usable
  <2>4. Put(p, r)
    BY <2>1
  <2> HIDE DEF late
  <2>5. /\ r \in Request /\ r.pc = "check" /\ r.token = k /\ r.late = late
    BY <2>2 DEF Idle, Request
  <2> HIDE DEF r
  <2>6. Knows(r, user, token)
    BY <2>1, <2>3, <2>5 DEF Knows, KnowsToken, KnowsOwner, KnowsActor, KnowsUser,
                            KnowsInput, Usable
  <2> QED BY <1>3, <2>4, <2>5, <2>6, PlanKeeps DEF RefreshFind, Begin, At
<1>4. CASE RefreshCheck(p)
  <2> DEFINE u == token[req[p].token].user
             r == [req[p] EXCEPT !.pc = "rotate", !.user = u, !.ver = user[u].ver,
                                 !.role = user[u].role]
             s == [req[p] EXCEPT !.pc = "drop"]
  <2>1. /\ req[p].pc = "check" /\ req[p].token \in Tokens /\ u \in Users
        /\ KnowsToken(req[p], token)
    BY <1>1, <1>4 DEF RefreshCheck, At, Knows, KnowsToken, Request, Session
  <2>2. \/ Active(u) /\ Put(p, r)
        \/ Put(p, s)
    BY <1>4 DEF RefreshCheck
  <2>3. /\ r \in Request /\ r.pc = "rotate" /\ r.user = u /\ r.ver = user[u].ver
        /\ r.role = user[u].role /\ r.token = req[p].token /\ r.late = req[p].late
        /\ s \in Request /\ s.pc = "drop" /\ s.token = req[p].token
        /\ s.late = req[p].late
    BY <1>1, <2>1 DEF Request, Account
  <2> HIDE DEF u, r, s
  <2>4. Active(u) => Knows(r, user, token)
    BY <1>1, <2>1, <2>3 DEF Knows, KnowsToken, KnowsOwner, KnowsActor, KnowsUser,
                            KnowsInput, Active, Account
  <2>5. Knows(s, user, token)
    BY <2>1, <2>3 DEF Knows, KnowsToken, KnowsOwner, KnowsActor, KnowsUser,
                      KnowsInput
  <2> QED BY <1>4, <2>2, <2>3, <2>4, <2>5, PlanKeeps DEF RefreshCheck, At
<1>5. CASE Admit(p)
  <2>1. PICK claim \in access :
          /\ MayManage(claim)
          /\ Put(p, [Idle EXCEPT !.pc = "admin", !.actor = claim.user,
                                 !.seen = user[claim.user].ver])
    BY <1>5 DEF Admit
  <2> DEFINE a == claim.user
             r == [Idle EXCEPT !.pc = "admin", !.actor = a, !.seen = user[a].ver]
  <2>2. a \in Users
    BY DEF IInv, TypeOK
  <2>3. Put(p, r)
    BY <2>1
  <2> HIDE DEF a
  <2>4. r \in Request /\ r.pc = "admin" /\ r.actor = a /\ r.seen = user[a].ver
        /\ r.token = Nobody
    BY <1>1, <2>2 DEF Idle, Request, Account
  <2> HIDE DEF r
  <2>5. Active(a) /\ user[a].role = Admin
    BY <2>1 DEF MayManage, a
  <2>6. Knows(r, user, token)
    BY <1>1, <2>2, <2>4, <2>5 DEF Knows, KnowsToken, KnowsOwner, KnowsActor,
                                  KnowsUser, KnowsInput, Active, Account
  <2> QED BY <1>5, <2>3, <2>4, <2>6, PlanKeeps DEF Admit, Begin, At
<1>6. CASE UserCreate(p)
  <2>1. PICK n \in Names, role \in Roles \cup {Admin} :
          Put(p, [req[p] EXCEPT !.pc = "insert", !.name = n, !.role = role])
    BY <1>6 DEF UserCreate
  <2> DEFINE r == [req[p] EXCEPT !.pc = "insert", !.name = n, !.role = role]
  <2>2. req[p].pc = "admin"
    BY <1>6 DEF UserCreate, At
  <2>3. /\ r \in Request /\ r.pc = "insert" /\ r.name = n /\ r.role = role
        /\ r.token = req[p].token /\ r.actor = req[p].actor /\ r.seen = req[p].seen
    BY <1>1 DEF Request
  <2> HIDE DEF r
  <2>4. Knows(r, user, token)
    BY <1>1, <2>2, <2>3 DEF Knows, KnowsToken, KnowsOwner, KnowsActor, KnowsUser,
                            KnowsInput
  <2>5. Put(p, r)
    BY <2>1 DEF r
  <2> QED BY <1>6, <2>2, <2>3, <2>4, <2>5, PlanKeeps DEF UserCreate, At
<1>7. CASE UserUpdate(p)
  <2>1. PICK u \in Users, role \in Roles \cup {Admin, Nobody},
             status \in {"active", "disabled", Nobody} :
          /\ user[u].st = "live"
          /\ Put(p, [req[p] EXCEPT !.pc = "update", !.user = u,
                                   !.ver = user[u].ver, !.base = Content(u),
                                   !.role = role, !.status = status])
    BY <1>7 DEF UserUpdate
  <2> DEFINE base == Content(u)
             r == [req[p] EXCEPT !.pc = "update", !.user = u, !.ver = user[u].ver,
                                 !.base = base, !.role = role,
                                 !.status = status]
  <2>2. req[p].pc = "admin"
    BY <1>7 DEF UserUpdate, At
  <2>3. base \in Contents
    BY <1>1 DEF Content, Contents, Account
  <2>4. Put(p, r)
    BY <2>1
  <2> HIDE DEF base
  <2>5. /\ r \in Request /\ r.pc = "update" /\ r.user = u /\ r.ver = user[u].ver
        /\ r.base = base /\ r.token = req[p].token /\ r.actor = req[p].actor
        /\ r.seen = req[p].seen
    <3>1. user[u].ver \in Nat
      BY <1>1 DEF Account
    <3>2. r \in Request
      <4> DEFINE q == [req[p] EXCEPT !.pc = "update", !.user = u,
                                     !.ver = user[u].ver]
                 s == [q EXCEPT !.role = role, !.status = status]
      <4>1. q \in Request
        BY <1>1, <3>1 DEF Request
      <4>2. r = [s EXCEPT !.base = base]
        BY DEF Request
      <4> HIDE DEF q
      <4>3. s \in Request
        BY <4>1 DEF Request
      <4> HIDE DEF s
      <4>4. [s EXCEPT !.base = base] \in Request
        BY <2>3, <4>3 DEF Request
      <4> HIDE DEF r
      <4> QED BY <4>2, <4>4
    <3>3. DOMAIN req[p] = DOMAIN Idle
      BY <1>1 DEF Request, Idle
    <3>4. /\ r.pc = "update" /\ r.user = u /\ r.ver = user[u].ver
          /\ r.base = base /\ r.token = req[p].token
          /\ r.actor = req[p].actor /\ r.seen = req[p].seen
      BY <3>3 DEF Idle
    <3> QED BY <3>2, <3>4
  <2> HIDE DEF r
  <2>6. Knows(r, user, token)
    <3>1. KnowsUser(r, user)
      BY <1>1, <2>1, <2>5 DEF KnowsUser, base, Content, Account
    <3> QED BY <1>1, <2>2, <2>5, <3>1 DEF Knows, KnowsToken, KnowsOwner,
                                          KnowsActor, KnowsInput
  <2> QED BY <1>7, <2>2, <2>4, <2>5, <2>6, PlanKeeps DEF UserUpdate, At
<1>8. CASE UserDelete(p)
  <2>1. PICK u \in Users :
          /\ user[u].st = "live"
          /\ Put(p, [req[p] EXCEPT !.pc = "delete", !.user = u])
    BY <1>8 DEF UserDelete
  <2> DEFINE r == [req[p] EXCEPT !.pc = "delete", !.user = u]
  <2>2. req[p].pc = "admin"
    BY <1>8 DEF UserDelete, At
  <2>3. /\ r \in Request /\ r.pc = "delete" /\ r.user = u
        /\ r.token = req[p].token /\ r.actor = req[p].actor /\ r.seen = req[p].seen
    BY <1>1 DEF Request
  <2>4. Put(p, r)
    BY <2>1
  <2> HIDE DEF r
  <2>5. Knows(r, user, token)
    BY <1>1, <2>1, <2>2, <2>3 DEF Knows, KnowsToken, KnowsOwner, KnowsActor,
                                  KnowsUser, KnowsInput
  <2> QED BY <1>8, <2>2, <2>3, <2>4, <2>5, PlanKeeps DEF UserDelete, At
<1>9. ASSUME NEW pc \in {"store", "save"}, NEW v \in Values, Begin(p, "settings"),
             Put(p, [Idle EXCEPT !.pc = pc, !.value = v]),
             pc = "store" => v = settings.row,
             UNCHANGED <<accounts, limiter, settings, scope>>
      PROVE  IInv'
  <2> DEFINE r == [Idle EXCEPT !.pc = pc, !.value = v]
  <2>1. r \in Request /\ r.pc = pc /\ r.value = v /\ r.token = Nobody
    BY DEF Idle, Request
  <2>2. Put(p, r)
    BY <1>9
  <2> HIDE DEF r
  <2>3. Knows(r, user, token)
    BY <2>1 DEF Knows, KnowsToken, KnowsOwner, KnowsActor, KnowsUser, KnowsInput
  <2> QED BY <1>9, <2>1, <2>2, <2>3, PlanKeeps DEF Begin, At
<1>10. CASE Current(p)
  BY <1>1, <1>9, <1>10 DEF Current
<1>11. CASE SettingsUpdate(p)
  BY <1>9, <1>11 DEF SettingsUpdate
<1> QED BY <1>2, <1>3, <1>4, <1>5, <1>6, <1>7, <1>8, <1>10, <1>11

-----------------------------------------------------------------------------
(* Steps that change the accounts *)

LEMMA AccountsKeep ==
  ASSUME IInv, NEW p \in Requests, NEW r \in Request, Put(p, r),
         ~At(p, "store"), r.pc # "store",
         user' \in [Users -> Account], token' \in [Tokens -> Session],
         access' \subseteq [user : Users, role : Roles \cup {Admin}],
         UsersLater(user, user'), TokensLater(token, token'),
         Knows(r, user', token'),
         OneUserPerName', TokensInv', NoSessionLeft',
         UNCHANGED <<limiter, settings, scope>>
  PROVE  IInv'
<1>1. /\ hits' = hits /\ admitted' = admitted /\ now' = now
      /\ settings' = settings
  BY DEF limiter
<1>2. /\ req' \in [Requests -> Request] /\ RequestsInv' /\ req'[p] = r
      /\ \A q \in Requests \ {p} : req'[q] = req[q]
  BY PutKnows DEF IInv, DataInv
<1>3. TypeOK'
  BY <1>1, <1>2 DEF IInv, TypeOK
<1>4. CacheInv'
  BY <1>1, <1>2 DEF IInv, CacheInv, CacheIsCurrent, At
<1>5. LimiterInv'
  BY <1>1 DEF IInv, LimiterInv, RateBounded
<1> QED BY <1>2, <1>3, <1>4, <1>5 DEF IInv, DataInv

LEMMA IssueKeeps ==
  ASSUME IInv, NEW p \in Requests, Issue(p)
  PROVE  IInv'
<1> DEFINE u == req[p].user
           parent == req[p].token
           late == user[u].st # "live" \/ user[u].ver # req[p].ver
           new == [st |-> "issued", user |-> u, parent |-> parent,
                   revoked |-> FALSE, expired |-> FALSE, late |-> late,
                   replay |-> req[p].late, kept |-> FALSE]
<1>1. PICK k \in Tokens : /\ token[k].st = "none"
                          /\ token' = [token EXCEPT ![k] = new]
                          /\ access' = access \cup {[user |-> u, role |-> req[p].role]}
  BY DEF Issue
<1>2. /\ req[p].pc = "issue" /\ Put(p, Idle) /\ user' = user
      /\ UNCHANGED <<limiter, settings, scope>>
  BY DEF Issue, At
<1>3. /\ req[p] \in Request /\ KnowsToken(req[p], token)
      /\ KnowsOwner(req[p], user)
      /\ user \in [Users -> Account] /\ token \in [Tokens -> Session]
  BY DEF IInv, TypeOK, DataInv, RequestsInv, Knows
<1>4. /\ u \in Users /\ user[u].st # "none" /\ req[p].role \in Roles \cup {Admin}
      /\ parent \in Tokens \cup {Nobody} /\ req[p].late \in BOOLEAN
      /\ parent # Nobody => /\ token[parent].st = "issued"
                            /\ token[parent].revoked \/ token[parent].kept
      /\ req[p].late => parent # Nobody /\ token[parent].kept
  BY <1>2, <1>3 DEF KnowsToken, KnowsOwner, Request
<1>5. late \in BOOLEAN
  OBVIOUS
<1>6. ~late => user[u].st = "live" /\ user[u].status = "active"
  BY <1>2, <1>3 DEF KnowsOwner
<1> HIDE DEF late
<1>7. /\ new \in Session /\ new.st = "issued" /\ new.user = u
      /\ new.parent = parent /\ new.replay = req[p].late /\ new.late = late
  BY <1>4, <1>5 DEF Session
<1> HIDE DEF new
<1>8. /\ token' \in [Tokens -> Session] /\ token'[k] = new
      /\ \A c \in Tokens \ {k} : token'[c] = token[c]
  BY <1>1, <1>3, <1>7
<1>9. TokensLater(token, token')
  BY <1>1, <1>8 DEF TokensLater
<1>10. UsersLater(user, user')
  BY <1>2, SameLater DEF IInv
<1>11. access' \subseteq [user : Users, role : Roles \cup {Admin}]
  BY <1>1, <1>4 DEF IInv, TypeOK
<1>12. OneUserPerName'
  BY <1>2 DEF IInv, DataInv, OneUserPerName, Named
<1>13. TokensInv'
  <2>1. SUFFICES ASSUME NEW c \in Tokens, token'[c].st = "issued"
                 PROVE  /\ user[token'[c].user].st # "none"
                        /\ token'[c].parent # Nobody =>
                             /\ token'[token'[c].parent].st = "issued"
                             /\ \/ token'[token'[c].parent].revoked
                                \/ token'[token'[c].parent].kept
                        /\ token'[c].replay =>
                             /\ token'[c].parent # Nobody
                             /\ token'[token'[c].parent].kept
    BY <1>2 DEF TokensInv
  <2>2. \A x \in Tokens : token[x].st = "issued" => token'[x] = token[x]
    BY <1>1, <1>8
  <2>3. CASE c = k
    BY <2>2, <2>3, <1>4, <1>7, <1>8
  <2>4. CASE c # k
    <3>1. token'[c] = token[c] /\ token[c].parent \in Tokens \cup {Nobody}
      BY <2>4, <1>3, <1>8 DEF Session
    <3> QED BY <2>1, <2>2, <3>1 DEF IInv, DataInv, TokensInv
  <2> QED BY <2>3, <2>4
<1>14. NoSessionLeft'
  <2>1. SUFFICES ASSUME NEW c \in Tokens,
                        token'[c].st = "issued", ~token'[c].revoked,
                        \/ user[token'[c].user].st = "gone"
                        \/ user[token'[c].user].status = "disabled"
                 PROVE  \/ token'[c].late \/ user[token'[c].user].lost
                        \/ \E q \in Requests : /\ req'[q].pc = "revoke"
                                               /\ req'[q].user = token'[c].user
    BY <1>2 DEF NoSessionLeft, At
  <2>2. CASE c = k
    BY <2>1, <2>2, <1>6, <1>7, <1>8
  <2>3. CASE c # k
    <3>1. PICK x : x = token[c].user
      OBVIOUS
    <3>2. \A q \in Requests : req[q].pc = "revoke" => req'[q] = req[q]
      BY <1>2 DEF IInv, TypeOK, Put
    <3>3. token'[c] = token[c]
      BY <2>3, <1>8
    <3>4. \/ token[c].late \/ user[x].lost
          \/ \E q \in Requests : req[q].pc = "revoke" /\ req[q].user = x
      BY <2>1, <3>1, <3>3 DEF IInv, DataInv, NoSessionLeft, At
    <3> QED BY <3>1, <3>2, <3>3, <3>4
  <2> QED BY <2>2, <2>3
<1> QED BY <1>2, <1>3, <1>8, <1>9, <1>10, <1>11, <1>12, <1>13, <1>14, IdleKnows,
           AccountsKeep DEF At

(* A step that only revokes tokens, exchanges one in vain, or lets one       *)
(* expire.                                                                   *)
Marked(old, new) ==
  /\ new.st = old.st /\ new.user = old.user
  /\ new.parent = old.parent /\ new.replay = old.replay /\ new.late = old.late
  /\ old.revoked => new.revoked
  /\ old.kept => new.kept

TokensRevoked == \A k \in Tokens : Marked(token[k], token'[k])

LEMMA MarkOne ==
  ASSUME NEW K \in Session, NEW R,
         \/ R = K
         \/ R = [K EXCEPT !.revoked = TRUE]
         \/ R = [K EXCEPT !.kept = TRUE]
         \/ R = [K EXCEPT !.expired = TRUE]
  PROVE  /\ R \in Session /\ Marked(K, R)
         /\ R = [K EXCEPT !.revoked = TRUE] => R.revoked
<1>1. CASE R = K
  <2>1. R \in Session /\ Marked(K, R)
    BY <1>1 DEF Marked
  <2> QED BY <2>1, <1>1 DEF Session
<1>2. CASE R = [K EXCEPT !.revoked = TRUE]
  <2>1. /\ R \in Session /\ R.st = K.st /\ R.user = K.user
        /\ R.parent = K.parent /\ R.replay = K.replay /\ R.late = K.late
        /\ R.kept = K.kept /\ R.revoked = TRUE
    BY <1>2 DEF Session
  <2> QED BY <2>1, <1>2 DEF Marked, Session
<1>3. CASE R = [K EXCEPT !.kept = TRUE]
  <2>1. /\ R \in Session /\ R.st = K.st /\ R.user = K.user
        /\ R.parent = K.parent /\ R.replay = K.replay /\ R.late = K.late
        /\ R.kept = TRUE /\ R.revoked = K.revoked
    BY <1>3 DEF Session
  <2> QED BY <2>1, <1>3 DEF Marked, Session
<1>4. CASE R = [K EXCEPT !.expired = TRUE]
  <2>1. /\ R \in Session /\ R.st = K.st /\ R.user = K.user
        /\ R.parent = K.parent /\ R.replay = K.replay /\ R.late = K.late
        /\ R.kept = K.kept /\ R.revoked = K.revoked
    BY <1>4 DEF Session
  <2> QED BY <2>1, <1>4 DEF Marked, Session
<1> QED BY <1>1, <1>2, <1>3, <1>4

LEMMA MarkToken ==
  ASSUME IInv, NEW k \in Tokens,
         \/ token' = [token EXCEPT ![k].revoked = TRUE]
         \/ token' = [token EXCEPT ![k].kept = TRUE]
         \/ token' = [token EXCEPT ![k].expired = TRUE]
  PROVE  token' \in [Tokens -> Session] /\ TokensRevoked
<1>1. token \in [Tokens -> Session]
  BY DEF IInv, TypeOK
<1>2. /\ DOMAIN token' = Tokens
      /\ token' = [c \in Tokens |-> token'[c]]
      /\ \A c \in Tokens \ {k} : token'[c] = token[c]
      /\ \/ token'[k] = [token[k] EXCEPT !.revoked = TRUE]
         \/ token'[k] = [token[k] EXCEPT !.kept = TRUE]
         \/ token'[k] = [token[k] EXCEPT !.expired = TRUE]
  BY <1>1
<1>3. \A c \in Tokens : token'[c] \in Session /\ Marked(token[c], token'[c])
  BY <1>1, <1>2, MarkOne
<1>4. token' \in [Tokens -> Session]
  BY <1>2, <1>3
<1> QED BY <1>3, <1>4 DEF TokensRevoked

LEMMA RevokedLater ==
  ASSUME IInv, TokensRevoked, UNCHANGED user
  PROVE  TokensLater(token, token') /\ TokensInv'
<1>1. \A k \in Tokens : token[k].parent \in Tokens \cup {Nobody}
  BY DEF IInv, TypeOK, Session
<1> QED BY <1>1 DEF IInv, DataInv, TokensInv, TokensRevoked, Marked,
                    TokensLater

LEMMA RevokedSessions ==
  ASSUME IInv, TokensRevoked, UNCHANGED user,
         \A q \in Requests : At(q, "revoke") =>
           \/ req'[q] = req[q]
           \/ \A k \in Tokens :
                token[k].st = "issued" /\ token[k].user = req[q].user
                  => token'[k].revoked
  PROVE  NoSessionLeft'
<1>1. SUFFICES ASSUME NEW k \in Tokens,
                      token'[k].st = "issued", ~token'[k].revoked,
                      \/ user[token'[k].user].st = "gone"
                      \/ user[token'[k].user].status = "disabled"
               PROVE  \/ token'[k].late \/ user[token'[k].user].lost
                      \/ \E q \in Requests : /\ req'[q].pc = "revoke"
                                             /\ req'[q].user = token'[k].user
  BY DEF NoSessionLeft, At
<1>2. /\ token[k].st = "issued" /\ ~token[k].revoked
      /\ token'[k].user = token[k].user /\ token'[k].late = token[k].late
  BY <1>1 DEF TokensRevoked, Marked
<1>3. \/ token[k].late \/ user[token[k].user].lost
      \/ \E q \in Requests : req[q].pc = "revoke" /\ req[q].user = token[k].user
  BY <1>1, <1>2 DEF IInv, DataInv, NoSessionLeft, At
<1>4. ASSUME NEW q \in Requests, req[q].pc = "revoke",
             req[q].user = token[k].user
      PROVE  req'[q] = req[q]
  BY <1>1, <1>2, <1>4 DEF At
<1> QED BY <1>2, <1>3, <1>4

LEMMA ExchangeKeeps ==
  ASSUME IInv, NEW p \in Requests, RefreshRevoke(p)
  PROVE  IInv'
<1> DEFINE k == req[p].token
           go == [req[p] EXCEPT !.pc = "issue"]
<1>1. /\ req[p].pc \in {"rotate", "drop"} /\ UNCHANGED <<user, access>>
      /\ UNCHANGED <<limiter, settings, scope>>
      /\ \/ token' = [token EXCEPT ![k].revoked = TRUE]
         \/ token' = [token EXCEPT ![k].kept = TRUE]
      /\ Put(p, IF req[p].pc = "rotate" THEN go ELSE Idle)
  BY DEF RefreshRevoke, At
<1>2. /\ req[p] \in Request /\ Knows(req[p], user, token) /\ k \in Tokens
      /\ user \in [Users -> Account] /\ token \in [Tokens -> Session]
  BY <1>1 DEF IInv, TypeOK, DataInv, RequestsInv, Request, Knows, KnowsToken
<1>3. /\ token' \in [Tokens -> Session] /\ TokensRevoked
      /\ token'[k].revoked \/ token'[k].kept
  <2>1. \/ /\ token' = [token EXCEPT ![k].revoked = TRUE]
           /\ token'[k].revoked
        \/ /\ token' = [token EXCEPT ![k].kept = TRUE]
           /\ token'[k].kept
    BY <1>1, <1>2 DEF Session
  <2> QED BY <2>1, <1>2, MarkToken
<1>4. /\ TokensLater(token, token') /\ TokensInv'
  BY <1>1, <1>3, RevokedLater
<1>5. UsersLater(user, user')
  BY <1>1, SameLater DEF IInv
<1>6. /\ go \in Request /\ go.pc = "issue" /\ go.user = req[p].user
      /\ go.ver = req[p].ver /\ go.role = req[p].role /\ go.token = k
      /\ go.late = req[p].late
  BY <1>2 DEF Request
<1> HIDE DEF go
<1>7. req[p].pc = "rotate" => Knows(go, user', token')
  <2>1. Knows(req[p], user, token')
    BY <1>1, <1>2, <1>4, <1>5, KnowsLater
  <2> QED BY <2>1, <1>1, <1>2, <1>3, <1>6 DEF Knows, KnowsToken, KnowsOwner,
                                          KnowsActor, KnowsUser, KnowsInput
<1>8. \A q \in Requests : At(q, "revoke") => req'[q] = req[q]
  BY <1>1 DEF IInv, TypeOK, Put, At
<1>9. NoSessionLeft'
  BY <1>1, <1>3, <1>8, RevokedSessions
<1>10. OneUserPerName' /\ access' \subseteq [user : Users, role : Roles \cup {Admin}]
  BY <1>1 DEF IInv, TypeOK, DataInv, OneUserPerName, Named
<1>11. CASE req[p].pc = "rotate"
  BY <1>1, <1>2, <1>3, <1>4, <1>5, <1>6, <1>7, <1>9, <1>10, <1>11, AccountsKeep
     DEF At
<1>12. CASE req[p].pc = "drop"
  BY <1>1, <1>2, <1>3, <1>4, <1>5, <1>9, <1>10, <1>12, IdleKnows, AccountsKeep
     DEF At
<1> QED BY <1>1, <1>11, <1>12

LEMMA RevokedTokens ==
  ASSUME IInv, NEW u, token' = RevokedFor(u)
  PROVE  /\ token' \in [Tokens -> Session] /\ TokensRevoked
         /\ \A k \in Tokens : token[k].st = "issued" /\ token[k].user = u
                                => token'[k].revoked
<1>1. token \in [Tokens -> Session]
  BY DEF IInv, TypeOK
<1>2. /\ token' = [c \in Tokens |-> token'[c]]
      /\ \A k \in Tokens :
           \/ token'[k] = [token[k] EXCEPT !.revoked = TRUE]
           \/ token'[k] = token[k]
              /\ ~(token[k].st = "issued" /\ token[k].user = u)
  BY DEF RevokedFor
<1>3. \A c \in Tokens : /\ token'[c] \in Session /\ Marked(token[c], token'[c])
                        /\ token'[c] = [token[c] EXCEPT !.revoked = TRUE]
                             => token'[c].revoked
  BY <1>1, <1>2, MarkOne
<1>4. token' \in [Tokens -> Session]
  BY <1>2, <1>3
<1> QED BY <1>2, <1>3, <1>4 DEF TokensRevoked

LEMMA RevokeAllKeeps ==
  ASSUME IInv, NEW p \in Requests, RevokeAllForUser(p)
  PROVE  IInv'
<1>1. /\ req[p].pc = "revoke" /\ UNCHANGED <<user, access>> /\ Put(p, Idle)
      /\ UNCHANGED <<limiter, settings, scope>>
      /\ token' = RevokedFor(req[p].user)
  BY DEF RevokeAllForUser, At
<1>2. /\ token' \in [Tokens -> Session] /\ TokensRevoked
      /\ \A k \in Tokens : token[k].st = "issued" /\ token[k].user = req[p].user
                             => token'[k].revoked
  BY <1>1, RevokedTokens
<1>3. TokensLater(token, token') /\ TokensInv' /\ UsersLater(user, user')
  BY <1>1, <1>2, RevokedLater, SameLater DEF IInv
<1>4. \A q \in Requests \ {p} : req'[q] = req[q]
  BY <1>1 DEF IInv, TypeOK, Put
<1>5. NoSessionLeft'
  BY <1>1, <1>2, <1>4, RevokedSessions
<1>6. /\ OneUserPerName' /\ user' \in [Users -> Account]
      /\ access' \subseteq [user : Users, role : Roles \cup {Admin}]
  BY <1>1 DEF IInv, TypeOK, DataInv, OneUserPerName, Named
<1> QED BY <1>1, <1>2, <1>3, <1>5, <1>6, IdleKnows, AccountsKeep DEF At

(* A step without a change of any request                                    *)
LEMMA TokensKeep ==
  ASSUME IInv, Expire \/ \E p \in Requests : Logout(p)
  PROVE  IInv'
<1>1. /\ UNCHANGED <<user, access, req, limiter, settings>>
      /\ \E k \in Tokens : \/ token' = [token EXCEPT ![k].revoked = TRUE]
                           \/ token' = [token EXCEPT ![k].expired = TRUE]
  BY DEF Expire, Logout
<1>2. /\ user' = user /\ access' = access /\ req' = req /\ settings' = settings
      /\ hits' = hits /\ admitted' = admitted /\ now' = now
  BY <1>1 DEF limiter
<1>3. token' \in [Tokens -> Session] /\ TokensRevoked
  BY <1>1, MarkToken
<1>4. TokensLater(token, token') /\ TokensInv' /\ UsersLater(user, user')
  BY <1>2, <1>3, RevokedLater, SameLater DEF IInv
<1>5. NoSessionLeft'
  BY <1>2, <1>3, RevokedSessions
<1>6. RequestsInv'
  <2>1. \A p \in Requests : req[p] \in Request
    BY DEF IInv, TypeOK
  <2> QED BY <1>2, <1>4, <2>1, KnowsLater DEF IInv, DataInv, RequestsInv
<1>7. TypeOK' /\ OneUserPerName' /\ CacheInv' /\ LimiterInv'
  BY <1>2, <1>3 DEF IInv, TypeOK, DataInv, OneUserPerName, Named, CacheInv,
                    CacheIsCurrent, At, LimiterInv, RateBounded
<1> QED BY <1>4, <1>5, <1>6, <1>7 DEF IInv, DataInv

-----------------------------------------------------------------------------
(* Steps that change the users *)

LEMMA TokensStay ==
  ASSUME IInv, TokensRevoked, UsersLater(user, user')
  PROVE  TokensLater(token, token') /\ TokensInv'
<1>1. \A k \in Tokens : /\ token[k].parent \in Tokens \cup {Nobody}
                        /\ token[k].user \in Users
  BY DEF IInv, TypeOK, Session
<1> QED BY <1>1 DEF IInv, DataInv, TokensInv, TokensRevoked, Marked,
                    TokensLater,
                    UsersLater

LEMMA SoftDeleteKeeps ==
  ASSUME IInv, NEW p \in Requests, SoftDelete(p)
  PROVE  IInv'
<1> DEFINE u == req[p].user
<1>1. /\ req[p].pc = "delete" /\ user[u].st = "live" /\ Put(p, Idle)
      /\ user' = [user EXCEPT ![u].st = "gone"] /\ token' = RevokedFor(u)
      /\ access' = access /\ UNCHANGED <<limiter, settings, scope>>
  BY DEF SoftDelete, At
<1>2. /\ u \in Users /\ user \in [Users -> Account]
      /\ access' \subseteq [user : Users, role : Roles \cup {Admin}]
  BY <1>1 DEF IInv, TypeOK, DataInv, RequestsInv, Knows, KnowsUser, Request
<1> HIDE DEF u
<1>3. /\ user' \in [Users -> Account]
      /\ user'[u].st = "gone" /\ user'[u].ver = user[u].ver
      /\ user'[u].role = user[u].role /\ user'[u].status = user[u].status
      /\ \A v \in Users \ {u} : user'[v] = user[v]
  BY <1>1, <1>2 DEF Account
<1>4. UsersLater(user, user')
  BY <1>1, <1>2, <1>3 DEF UsersLater, Account
<1>5. /\ token' \in [Tokens -> Session] /\ TokensRevoked
      /\ \A k \in Tokens : token[k].st = "issued" /\ token[k].user = u
                             => token'[k].revoked
  BY <1>1, RevokedTokens
<1>6. TokensLater(token, token') /\ TokensInv'
  BY <1>4, <1>5, TokensStay
<1>7. OneUserPerName'
  BY <1>3 DEF IInv, DataInv, OneUserPerName, Named
<1>8. NoSessionLeft'
  <2>1. SUFFICES ASSUME NEW k \in Tokens,
                        token'[k].st = "issued", ~token'[k].revoked,
                        \/ user'[token'[k].user].st = "gone"
                        \/ user'[token'[k].user].status = "disabled"
                 PROVE  \/ token'[k].late \/ user'[token'[k].user].lost
                        \/ \E q \in Requests : /\ req'[q].pc = "revoke"
                                               /\ req'[q].user = token'[k].user
    BY DEF NoSessionLeft, At
  <2>2. /\ token[k].st = "issued" /\ ~token[k].revoked /\ token[k].user \in Users
        /\ token'[k].user = token[k].user /\ token'[k].late = token[k].late
    BY <2>1, <1>5 DEF TokensRevoked, Marked, IInv, TypeOK, Session
  <2>3. user'[token[k].user] = user[token[k].user]
    BY <2>1, <2>2, <1>3, <1>5
  <2>4. \A q \in Requests : req[q].pc = "revoke" => req'[q] = req[q]
    BY <1>1 DEF IInv, TypeOK, Put
  <2>5. \/ token[k].late \/ user[token[k].user].lost
        \/ \E q \in Requests : req[q].pc = "revoke" /\ req[q].user = token[k].user
    BY <2>1, <2>2, <2>3 DEF IInv, DataInv, NoSessionLeft, At
  <2> QED BY <2>2, <2>3, <2>4, <2>5
<1> QED BY <1>1, <1>2, <1>3, <1>4, <1>5, <1>6, <1>7, <1>8, IdleKnows, AccountsKeep
        DEF At

LEMMA InsertKeeps ==
  ASSUME IInv, NEW p \in Requests, InsertUser(p)
  PROVE  IInv'
<1> DEFINE n == req[p].name
<1>1. PICK u \in Users :
        /\ user[u].st = "none" /\ NameFree(n)
        /\ user' = [user EXCEPT ![u] =
                      [st |-> "live", name |-> n, role |-> req[p].role,
                       status |-> "active", ver |-> 1, lost |-> FALSE]]
  BY DEF InsertUser
<1>2. /\ req[p].pc = "insert" /\ Put(p, Idle) /\ token' = token
      /\ access' = access /\ UNCHANGED <<limiter, settings, scope>>
  BY DEF InsertUser, At
<1>3. /\ n \in Names /\ req[p].role \in Roles \cup {Admin}
      /\ user \in [Users -> Account] /\ token \in [Tokens -> Session]
      /\ access' \subseteq [user : Users, role : Roles \cup {Admin}]
  BY <1>2 DEF IInv, TypeOK, DataInv, RequestsInv, Knows, KnowsInput
<1> HIDE DEF n
<1>4. /\ user' \in [Users -> Account]
      /\ user'[u].st = "live" /\ user'[u].name = n /\ user'[u].status = "active"
      /\ \A v \in Users \ {u} : user'[v] = user[v]
  BY <1>1, <1>3 DEF Account
<1>5. UsersLater(user, user')
  BY <1>1, <1>3, <1>4 DEF UsersLater, Account
<1>6. TokensRevoked
  BY <1>2 DEF TokensRevoked, Marked
<1>7. TokensLater(token, token') /\ TokensInv'
  BY <1>5, <1>6, TokensStay
<1>8. OneUserPerName'
  <2>1. SUFFICES ASSUME NEW v \in Users, NEW w \in Users,
                        user'[v].st = "live", user'[w].st = "live",
                        user'[v].name = user'[w].name
                 PROVE  v = w
    BY DEF OneUserPerName, Named
  <2>2. \A x \in Users : user[x].st = "live" => user[x].name # n
    BY <1>1 DEF NameFree, Named
  <2>3. \A x \in Users : user[x].name \in Names
    BY <1>3 DEF Account
  <2> QED BY <2>1, <2>2, <2>3, <1>4 DEF IInv, DataInv, OneUserPerName, Named
<1>9. NoSessionLeft'
  <2>1. SUFFICES ASSUME NEW k \in Tokens,
                        token[k].st = "issued", ~token[k].revoked,
                        \/ user'[token[k].user].st = "gone"
                        \/ user'[token[k].user].status = "disabled"
                 PROVE  \/ token[k].late \/ user'[token[k].user].lost
                        \/ \E q \in Requests : /\ req'[q].pc = "revoke"
                                               /\ req'[q].user = token[k].user
    BY <1>2 DEF NoSessionLeft, At
  <2>2. token[k].user \in Users /\ token[k].user # u
    BY <2>1, <1>1, <1>3 DEF IInv, DataInv, TokensInv, Session
  <2>3. user'[token[k].user] = user[token[k].user]
    BY <2>2, <1>4
  <2>4. \A q \in Requests : req[q].pc = "revoke" => req'[q] = req[q]
    BY <1>2 DEF IInv, TypeOK, Put
  <2>5. \/ token[k].late \/ user[token[k].user].lost
        \/ \E q \in Requests : req[q].pc = "revoke" /\ req[q].user = token[k].user
    BY <2>1, <2>3 DEF IInv, DataInv, NoSessionLeft, At
  <2> QED BY <2>3, <2>4, <2>5
<1> QED BY <1>2, <1>3, <1>4, <1>5, <1>7, <1>8, <1>9, IdleKnows, AccountsKeep DEF At

LEMMA SaveUserKeeps ==
  ASSUME IInv, NEW p \in Requests, SaveUser(p)
  PROVE  IInv' /\ Content(req[p].user) = req[p].base
<1> DEFINE u == req[p].user
           role == Written(req[p].role, user[u].role)
           status == Written(req[p].status, user[u].status)
           r == [req[p] EXCEPT !.pc = "revoke"]
<1>1. /\ req[p].pc = "update" /\ user[u].ver = req[p].ver
      /\ user' = [user EXCEPT ![u].role = role, ![u].status = status,
                              ![u].ver = @ + 1]
      /\ Put(p, IF req[p].status = "disabled" THEN r ELSE Idle)
      /\ token' = token /\ access' = access
      /\ UNCHANGED <<limiter, settings, scope>>
  BY DEF SaveUser, At, Fresh, AfterUpdate
<1>2. /\ req[p] \in Request /\ Knows(req[p], user, token)
      /\ u \in Users /\ user[u].st # "none" /\ Content(u) = req[p].base
      /\ user \in [Users -> Account] /\ token \in [Tokens -> Session]
      /\ access' \subseteq [user : Users, role : Roles \cup {Admin}]
  BY <1>1 DEF IInv, TypeOK, DataInv, RequestsInv, Knows, KnowsUser, Request,
              Content
<1>3. /\ role \in Roles \cup {Admin} /\ status \in {"active", "disabled"}
      /\ status = "disabled" =>
           req[p].status = "disabled" \/ user[u].status = "disabled"
  BY <1>2 DEF Written, Request, Account
<1> HIDE DEF role, status
<1>4. /\ user' \in [Users -> Account]
      /\ user'[u].st = user[u].st /\ user'[u].name = user[u].name
      /\ user'[u].status = status /\ user'[u].ver = user[u].ver + 1
      /\ user'[u].lost = user[u].lost
      /\ \A v \in Users \ {u} : user'[v] = user[v]
  BY <1>1, <1>2, <1>3 DEF Account
<1>5. UsersLater(user, user')
  <2>1. \A v \in Users : user[v].ver \in Nat
    BY <1>2 DEF Account
  <2>2. /\ user'[u].ver = user[u].ver + 1 /\ user[u].ver <= user'[u].ver
        /\ user'[u].ver \in Nat /\ user'[u].ver # user[u].ver
    BY <2>1, <1>2, <1>4
  <2> QED BY <1>2, <1>4, <2>1, <2>2 DEF UsersLater
<1>6. TokensRevoked
  BY <1>1 DEF TokensRevoked, Marked
<1>7. TokensLater(token, token') /\ TokensInv'
  BY <1>5, <1>6, TokensStay
<1>8. OneUserPerName'
  BY <1>4 DEF IInv, DataInv, OneUserPerName, Named
<1>9. /\ r \in Request /\ r.pc = "revoke" /\ r.user = u /\ r.token = req[p].token
      /\ r.actor = req[p].actor /\ r.seen = req[p].seen
  BY <1>2 DEF Request
<1> HIDE DEF r
<1>10. Knows(r, user', token')
  <2>1. Knows(req[p], user', token')
    BY <1>2, <1>5, <1>7, KnowsLater
  <2> QED BY <2>1, <1>1, <1>9 DEF Knows, KnowsToken, KnowsOwner, KnowsActor,
                                  KnowsUser, KnowsInput
<1>11. NoSessionLeft'
  <2>1. SUFFICES ASSUME NEW k \in Tokens,
                        token[k].st = "issued", ~token[k].revoked,
                        \/ user'[token[k].user].st = "gone"
                        \/ user'[token[k].user].status = "disabled"
                 PROVE  \/ token[k].late \/ user'[token[k].user].lost
                        \/ \E q \in Requests : /\ req'[q].pc = "revoke"
                                               /\ req'[q].user = token[k].user
    BY <1>1 DEF NoSessionLeft, At
  <2> DEFINE x == token[k].user
  <2>2. x \in Users /\ user'[x].lost = user[x].lost
    BY <1>2, <1>4 DEF Session
  <2> HIDE DEF x
  <2>3. CASE x = u /\ req[p].status = "disabled"
    <3>1. req'[p] = r
      BY <2>3, <1>1 DEF Put, IInv, TypeOK
    <3> QED BY <2>3, <3>1, <1>9 DEF x
  <2>4. CASE ~(x = u /\ req[p].status = "disabled")
    <3>1. user[x].st = "gone" \/ user[x].status = "disabled"
      BY <2>1, <2>2, <2>4, <1>3, <1>4 DEF x
    <3>2. \/ token[k].late \/ user[x].lost
          \/ \E q \in Requests : req[q].pc = "revoke" /\ req[q].user = x
      BY <2>1, <3>1 DEF IInv, DataInv, NoSessionLeft, At, x
    <3>3. \A q \in Requests : req[q].pc = "revoke" => req'[q] = req[q]
      BY <1>1 DEF IInv, TypeOK, Put
    <3> QED BY <2>2, <3>2, <3>3 DEF x
  <2> QED BY <2>3, <2>4
<1>12. CASE req[p].status = "disabled"
  BY <1>1, <1>2, <1>4, <1>5, <1>7, <1>8, <1>9, <1>10, <1>11, <1>12, AccountsKeep
     DEF At
<1>13. CASE req[p].status # "disabled"
  BY <1>1, <1>2, <1>4, <1>5, <1>7, <1>8, <1>11, <1>13, IdleKnows, AccountsKeep
     DEF At
<1> QED BY <1>2, <1>12, <1>13

-----------------------------------------------------------------------------
(* Failures *)

LEMMA ForgottenUsers ==
  ASSUME IInv, NEW S \in SUBSET Requests, user' = Forgotten(S)
  PROVE  /\ user' \in [Users -> Account] /\ UsersLater(user, user')
         /\ \A u \in Users :
              /\ user'[u].st = user[u].st /\ user'[u].name = user[u].name
              /\ user'[u].role = user[u].role /\ user'[u].status = user[u].status
              /\ user[u].lost => user'[u].lost
              /\ (\E p \in S : req[p].pc = "revoke" /\ req[p].user = u)
                   => user'[u].lost
<1>1. user \in [Users -> Account]
  BY DEF IInv, TypeOK
<1>2. ASSUME NEW u \in Users
      PROVE  /\ user'[u] \in Account
             /\ user'[u].st = user[u].st /\ user'[u].name = user[u].name
             /\ user'[u].role = user[u].role /\ user'[u].ver = user[u].ver
             /\ user'[u].status = user[u].status
             /\ user[u].lost => user'[u].lost
             /\ (\E p \in S : req[p].pc = "revoke" /\ req[p].user = u)
                  => user'[u].lost
  <2>1. CASE \E p \in S : At(p, "revoke") /\ req[p].user = u
    <3>1. user'[u] = [user[u] EXCEPT !.lost = TRUE] /\ user[u] \in Account
      BY <2>1, <1>1 DEF Forgotten
    <3>2. /\ user'[u] \in Account /\ user'[u].lost = TRUE
          /\ user'[u].st = user[u].st /\ user'[u].name = user[u].name
          /\ user'[u].role = user[u].role /\ user'[u].ver = user[u].ver
          /\ user'[u].status = user[u].status
      BY <3>1 DEF Account
    <3> QED BY <3>2
  <2>2. CASE ~(\E p \in S : At(p, "revoke") /\ req[p].user = u)
    <3>1. user'[u] = user[u] /\ user[u] \in Account
      BY <2>2, <1>1 DEF Forgotten
    <3> QED BY <2>2, <3>1 DEF At
  <2> QED BY <2>1, <2>2
<1>3. user' = [u \in Users |-> user'[u]]
  BY DEF Forgotten
<1>4. user' \in [Users -> Account]
  BY <1>2, <1>3
<1>5. UsersLater(user, user')
  <2>1. \A u \in Users : user[u].ver \in Nat
    BY <1>1 DEF Account
  <2> QED BY <1>2, <2>1 DEF UsersLater
<1> QED BY <1>2, <1>4, <1>5

(* Who was about to revoke is remembered.                                    *)
LEMMA ForgottenSessions ==
  ASSUME IInv, NEW S \in SUBSET Requests, user' = Forgotten(S),
         UNCHANGED token,
         \A q \in Requests \ S : req[q].pc = "revoke" => req'[q] = req[q]
  PROVE  /\ TokensInv' /\ TokensLater(token, token')
         /\ NoSessionLeft' /\ OneUserPerName'
<1>1. /\ UsersLater(user, user')
      /\ \A u \in Users :
           /\ user'[u].st = user[u].st /\ user'[u].name = user[u].name
           /\ user'[u].status = user[u].status
           /\ user[u].lost => user'[u].lost
           /\ (\E p \in S : req[p].pc = "revoke" /\ req[p].user = u)
                => user'[u].lost
  BY ForgottenUsers
<1>2. TokensRevoked
  BY DEF TokensRevoked, Marked
<1>3. TokensLater(token, token') /\ TokensInv'
  BY <1>1, <1>2, TokensStay
<1>4. OneUserPerName'
  BY <1>1 DEF IInv, DataInv, OneUserPerName, Named
<1>5. NoSessionLeft'
  <2>1. SUFFICES ASSUME NEW k \in Tokens,
                        token[k].st = "issued", ~token[k].revoked,
                        \/ user'[token[k].user].st = "gone"
                        \/ user'[token[k].user].status = "disabled"
                 PROVE  \/ token[k].late \/ user'[token[k].user].lost
                        \/ \E q \in Requests : /\ req'[q].pc = "revoke"
                                               /\ req'[q].user = token[k].user
    BY DEF NoSessionLeft, At
  <2>2. token[k].user \in Users
    BY DEF IInv, TypeOK, Session
  <2>3. \/ token[k].late \/ user[token[k].user].lost
        \/ \E q \in Requests : req[q].pc = "revoke" /\ req[q].user = token[k].user
    BY <1>1, <2>1, <2>2 DEF IInv, DataInv, NoSessionLeft, At
  <2>4. CASE \E q \in Requests :
               req[q].pc = "revoke" /\ req[q].user = token[k].user
    BY <1>1, <2>2, <2>4
  <2> QED BY <1>1, <2>2, <2>3, <2>4
<1> QED BY <1>3, <1>4, <1>5

LEMMA RefuseKeeps ==
  ASSUME IInv, NEW p \in Requests, Refuse(p)
  PROVE  IInv'
<1>1. /\ req[p].pc \notin {"idle", "store"} /\ Put(p, Idle)
      /\ user' = Forgotten({p}) /\ {p} \in SUBSET Requests
      /\ token' = token /\ access' = access
      /\ UNCHANGED <<limiter, settings, scope>>
  BY DEF Refuse
<1>2. user' \in [Users -> Account] /\ UsersLater(user, user')
  BY <1>1, ForgottenUsers
<1>3. \A q \in Requests \ {p} : req'[q] = req[q]
  BY <1>1 DEF IInv, TypeOK, Put
<1>4. /\ TokensInv' /\ TokensLater(token, token')
      /\ NoSessionLeft' /\ OneUserPerName'
  BY <1>1, <1>3, ForgottenSessions
<1>5. /\ token' \in [Tokens -> Session]
      /\ access' \subseteq [user : Users, role : Roles \cup {Admin}]
  BY <1>1 DEF IInv, TypeOK
<1> QED BY <1>1, <1>2, <1>4, <1>5, IdleKnows, AccountsKeep DEF At

LEMMA RestartKeeps ==
  ASSUME IInv, Restart
  PROVE  IInv'
<1>1. /\ user' = Forgotten(Requests) /\ Requests \in SUBSET Requests
      /\ token' = token /\ access' = access /\ now' = now
      /\ req' = [p \in Requests |-> Idle]
      /\ hits' = [n \in Names |-> <<>>] /\ admitted' = [n \in Names |-> <<>>]
      /\ settings' = [settings EXCEPT !.cache = Nobody, !.late = FALSE]
  BY DEF Restart
<1>2. user' \in [Users -> Account] /\ UsersLater(user, user')
  BY <1>1, ForgottenUsers
<1>3. /\ TokensInv' /\ NoSessionLeft' /\ OneUserPerName'
  BY <1>1, ForgottenSessions
<1>4. RequestsInv' /\ req' \in [Requests -> Request]
  BY <1>1, IdleKnows DEF RequestsInv
<1>5. /\ settings' \in [row : Values, cache : Values \cup {Nobody}, late : BOOLEAN]
      /\ settings'.cache = Nobody
  BY <1>1 DEF IInv, TypeOK
<1>6. hits' \in [Names -> Seq(Nat)] /\ admitted' \in [Names -> Seq(Nat)]
  <2>1. <<>> \in Seq(Nat)
    OBVIOUS
  <2> QED BY <1>1, <2>1
<1>7. TypeOK'
  BY <1>1, <1>2, <1>4, <1>5, <1>6 DEF IInv, TypeOK
<1>8. CacheInv'
  BY <1>1, <1>5, IdleKnows DEF CacheInv, CacheIsCurrent, At
<1>9. LimiterInv'
  <2>1. Len(<<>>) = 0
    OBVIOUS
  <2> QED BY <1>1, <2>1 DEF LimiterInv, RateBounded, Remembers
<1> QED BY <1>3, <1>4, <1>7, <1>8, <1>9 DEF IInv, DataInv

-----------------------------------------------------------------------------
(* Settings *)

LEMMA SaveSettingsKeeps ==
  ASSUME IInv, NEW p \in Requests, SaveSettings(p)
  PROVE  IInv'
<1>1. /\ req[p].pc = "save" /\ UNCHANGED <<accounts, limiter>>
      /\ settings' = [settings EXCEPT !.row = req[p].value]
      /\ req' = [q \in Requests |->
                   IF q = p THEN [req[p] EXCEPT !.pc = "store"]
                   ELSE IF req[q].pc = "store" THEN [req[q] EXCEPT !.late = TRUE]
                   ELSE req[q]]
  BY DEF SaveSettings, AfterSave, At
<1>2. /\ user' = user /\ token' = token /\ access' = access
      /\ hits' = hits /\ admitted' = admitted /\ now' = now
  BY <1>1 DEF accounts, limiter
<1>3. /\ req \in [Requests -> Request]
      /\ \A q \in Requests : Knows(req[q], user, token)
      /\ req[p].value \in Values
      /\ settings \in [row : Values, cache : Values \cup {Nobody}, late : BOOLEAN]
  BY <1>1 DEF IInv, TypeOK, DataInv, RequestsInv, Knows, KnowsInput
<1>4. /\ settings' \in [row : Values, cache : Values \cup {Nobody}, late : BOOLEAN]
      /\ settings'.row = req[p].value
  BY <1>1, <1>3
<1>5. /\ req'[p] \in Request /\ req'[p].pc = "store"
      /\ req'[p].value = req[p].value /\ req'[p].token = req[p].token
  BY <1>1, <1>3 DEF Request
<1>6. ASSUME NEW q \in Requests, q # p
      PROVE  /\ req'[q] \in Request /\ req'[q].pc = req[q].pc
             /\ req'[q].user = req[q].user /\ Knows(req'[q], user, token)
             /\ req'[q].pc = "store" => req'[q].late
  <2>1. CASE req[q].pc = "store"
    <3>1. req'[q] = [req[q] EXCEPT !.late = TRUE] /\ req[q] \in Request
      BY <1>1, <1>3, <1>6, <2>1
    <3>2. /\ req'[q] \in Request /\ req'[q].pc = "store" /\ req'[q].late = TRUE
          /\ req'[q].user = req[q].user /\ req'[q].token = req[q].token
          /\ req'[q].value = req[q].value
      BY <2>1, <3>1 DEF Request
    <3>3. Knows(req[q], user, token)
      BY <1>3
    <3>4. Knows(req'[q], user, token)
      BY <2>1, <3>2, <3>3 DEF Knows, KnowsToken, KnowsOwner, KnowsActor,
                              KnowsUser, KnowsInput
    <3> QED BY <2>1, <3>2, <3>4
  <2>2. CASE req[q].pc # "store"
    BY <1>1, <1>3, <1>6, <2>2
  <2> QED BY <2>1, <2>2
<1>7. Knows(req'[p], user, token)
  BY <1>1, <1>3, <1>5 DEF Knows, KnowsToken, KnowsOwner, KnowsActor, KnowsUser,
                          KnowsInput
<1>8. RequestsInv' /\ req' \in [Requests -> Request]
  <2>1. \A q \in Requests : req'[q] \in Request
    BY <1>5, <1>6
  <2>2. req' = [q \in Requests |-> req'[q]]
    BY <1>1
  <2>3. req' \in [Requests -> Request]
    BY <2>1, <2>2
  <2> QED BY <2>3, <1>2, <1>6, <1>7 DEF RequestsInv
<1>9. NoSessionLeft'
  <2>1. \A q \in Requests : At(q, "revoke") => /\ req'[q].pc = "revoke"
                                               /\ req'[q].user = req[q].user
    BY <1>1, <1>6 DEF At
  <2> QED BY <2>1, <1>2 DEF IInv, DataInv, NoSessionLeft, At
<1>10. CacheInv'
  BY <1>4, <1>5, <1>6 DEF CacheInv, CacheIsCurrent, At
<1>11. TypeOK'
  BY <1>2, <1>4, <1>8 DEF IInv, TypeOK
<1>12. OneUserPerName' /\ TokensInv' /\ LimiterInv'
  BY <1>2 DEF IInv, DataInv, OneUserPerName, Named, TokensInv, LimiterInv,
              RateBounded
<1> QED BY <1>8, <1>9, <1>10, <1>11, <1>12 DEF IInv, DataInv

LEMMA StoreKeeps ==
  ASSUME IInv, NEW p \in Requests, StoreCache(p)
  PROVE  IInv'
<1>1. /\ req[p].pc = "store" /\ Put(p, Idle) /\ UNCHANGED <<accounts, limiter>>
      /\ settings' = [settings EXCEPT !.cache = req[p].value,
                                      !.late = req[p].late]
  BY DEF StoreCache, At
<1>2. /\ user' = user /\ token' = token /\ access' = access
      /\ hits' = hits /\ admitted' = admitted /\ now' = now
  BY <1>1 DEF accounts, limiter
<1>3. /\ req[p] \in Request /\ req[p].value \in Values
      /\ settings \in [row : Values, cache : Values \cup {Nobody}, late : BOOLEAN]
      /\ ~req[p].late => req[p].value = settings.row
  BY <1>1 DEF IInv, TypeOK, DataInv, RequestsInv, Knows, KnowsInput, CacheInv, At
<1>4. /\ settings' \in [row : Values, cache : Values \cup {Nobody}, late : BOOLEAN]
      /\ settings'.row = settings.row /\ settings'.cache = req[p].value
      /\ settings'.late = req[p].late
  BY <1>1, <1>3 DEF Request
<1>5. /\ req' \in [Requests -> Request] /\ RequestsInv' /\ req'[p] = Idle
      /\ \A q \in Requests \ {p} : req'[q] = req[q]
  BY <1>1, <1>2, IdleKnows, SameLater, PutKnows DEF IInv, DataInv
<1>6. CacheInv'
  BY <1>3, <1>4, <1>5, IdleKnows DEF IInv, CacheInv, CacheIsCurrent, At
<1>7. TypeOK'
  BY <1>2, <1>4, <1>5 DEF IInv, TypeOK
<1>8. NoSessionLeft'
  BY <1>1, <1>2, <1>5 DEF IInv, DataInv, NoSessionLeft, At
<1>9. OneUserPerName' /\ TokensInv' /\ LimiterInv'
  BY <1>2 DEF IInv, DataInv, OneUserPerName, Named, TokensInv, LimiterInv,
              RateBounded
<1> QED BY <1>5, <1>6, <1>7, <1>8, <1>9 DEF IInv, DataInv

-----------------------------------------------------------------------------
(* The limiter *)

LEMMA LeastNat ==
  ASSUME NEW T \in SUBSET Nat, T # {}
  PROVE  \E x \in T : x \in Nat /\ \A y \in T : y \in Nat /\ x <= y
<1>1. PICK x \in T : \A y \in T : ~(<<y, x>> \in OpToRel(<, Nat))
  BY NatLessThanWellFounded, WFMin
<1>2. ASSUME NEW y \in T
      PROVE  y \in Nat /\ x <= y
  <2>1. y \in Nat /\ x \in Nat
    OBVIOUS
  <2>2. ~(y < x)
    BY <1>1, <2>1 DEF OpToRel
  <2> QED BY <2>1, <2>2
<1> QED BY <1>2

(* What it remembers is in the order of the attempts.                        *)
LEMMA RememberedSorted ==
  ASSUME NEW h \in Seq(Nat), NEW a \in Seq(Nat), NEW t \in Nat,
         Remembers(h, a, t)
  PROVE  \A i, j \in 1 .. Len(h) : i <= j => h[i] <= h[j]
<1> SUFFICES ASSUME NEW i \in 1 .. Len(h), NEW j \in 1 .. Len(h), i <= j
             PROVE  h[i] <= h[j]
  OBVIOUS
<1> DEFINE m == Len(a) - Len(h)
<1>1. Len(a) \in Nat /\ Len(h) \in Nat /\ Len(h) <= Len(a)
  BY DEF Remembers
<1>2. m + i \in 1 .. Len(a) /\ m + j \in 1 .. Len(a) /\ m + i <= m + j
  BY <1>1
<1> QED BY <1>2 DEF Remembers

(* The attempts that left the window are a prefix of what it remembers.      *)
LEMMA FirstYoung ==
  ASSUME NEW h \in Seq(Nat), NEW t \in Nat,
         \A i, j \in 1 .. Len(h) : i <= j => h[i] <= h[j]
  PROVE  \E i \in 1 .. Len(h) + 1 :
           \A j \in DOMAIN h : t - h[j] < Window <=> i <= j
<1> DEFINE T == {i \in 1 .. Len(h) + 1 : i = Len(h) + 1 \/ t - h[i] < Window}
<1>1. Len(h) \in Nat /\ DOMAIN h = 1 .. Len(h) /\ \A i \in 1 .. Len(h) : h[i] \in Nat
  OBVIOUS
<1>2. T \in SUBSET Nat /\ Len(h) + 1 \in T
  BY <1>1
<1>3. PICK i \in T : i \in Nat /\ \A y \in T : y \in Nat /\ i <= y
  <2> HIDE DEF T
  <2> QED BY <1>2, LeastNat
<1>4. ASSUME NEW j \in 1 .. Len(h)
      PROVE  t - h[j] < Window <=> i <= j
  <2>1. t - h[j] < Window => i <= j
    BY <1>1, <1>3
  <2>2. ASSUME i <= j
        PROVE  t - h[j] < Window
    <3>1. i \in 1 .. Len(h) + 1 /\ (i = Len(h) + 1 \/ t - h[i] < Window)
      BY <1>3
    <3>2. i \in 1 .. Len(h) /\ t - h[i] < Window
      BY <1>1, <2>2, <3>1
    <3>3. h[i] <= h[j] /\ h[i] \in Nat /\ h[j] \in Nat
      BY <1>1, <2>2, <3>2
    <3> QED BY <3>2, <3>3
  <2> QED BY <2>1, <2>2
<1>5. i \in 1 .. Len(h) + 1
  BY <1>3
<1> QED BY <1>1, <1>4, <1>5

(* Dropping them keeps the invariant, ...                                    *)
LEMMA SuffixRemembers ==
  ASSUME NEW h \in Seq(Nat), NEW a \in Seq(Nat), NEW t \in Nat,
         Remembers(h, a, t), NEW f \in 1 .. Len(h) + 1,
         \A j \in 1 .. Len(h) : t - h[j] < Window <=> f <= j
  PROVE  /\ SubSeq(h, f, Len(h)) \in Seq(Nat)
         /\ Remembers(SubSeq(h, f, Len(h)), a, t)
<1> DEFINE k == SubSeq(h, f, Len(h))
           m == Len(a) - Len(h)
<1>1. /\ k \in Seq(Nat) /\ Len(k) = Len(h) + 1 - f
      /\ \A i \in 1 .. Len(h) + 1 - f : k[i] = h[f + i - 1]
  OBVIOUS
<1> HIDE DEF k
<1>2. /\ Len(h) \in Nat /\ Len(a) \in Nat /\ Len(k) \in Nat
      /\ Len(h) <= Len(a) /\ Len(k) <= Len(a) /\ f \in Nat
      /\ Len(a) - Len(k) = m + f - 1
  BY <1>1 DEF Remembers
<1>3. ASSUME NEW i \in 1 .. Len(k)
      PROVE  k[i] = a[Len(a) - Len(k) + i]
  <2>1. f + i - 1 \in 1 .. Len(h) /\ k[i] = h[f + i - 1]
    BY <1>1, <1>2
  <2>2. h[f + i - 1] = a[m + (f + i - 1)]
    BY <2>1 DEF Remembers
  <2>3. m + (f + i - 1) = Len(a) - Len(k) + i
    <3>1. /\ i \in Int /\ f \in Int /\ Len(a) \in Int /\ Len(h) \in Int
          /\ Len(k) \in Int /\ Len(k) = Len(h) + 1 - f
      BY <1>1, <1>2
    <3> QED BY ONLY <3>1, SMT
  <2> QED BY <2>1, <2>2, <2>3
<1>4. ASSUME NEW i \in 1 .. Len(a) - Len(k)
      PROVE  t - a[i] >= Window
  <2>1. CASE i <= m
    <3>1. i \in 1 .. m
      BY <1>2, <2>1
    <3> QED BY <3>1 DEF Remembers
  <2>2. CASE ~(i <= m)
    <3>1. i - m \in 1 .. Len(h) /\ i - m < f
      BY <1>2, <2>2
    <3>2. h[i - m] \in Nat /\ ~(f <= i - m)
      <4> DEFINE j == i - m
      <4>1. j \in 1 .. Len(h) /\ j < f /\ j \in Nat
        BY <1>2, <3>1
      <4> HIDE DEF j
      <4>2. h[j] \in Nat
        BY <4>1
      <4>3. f \in Nat
        BY <1>2
      <4>4. ~(f <= j)
        BY ONLY <4>1, <4>3, SMT
      <4> QED BY <4>2, <4>4 DEF j
    <3>3. ~(t - h[i - m] < Window)
      BY <3>1, <3>2
    <3>4. t - h[i - m] >= Window
      BY <3>2, <3>3
    <3>5. h[i - m] = a[m + (i - m)] /\ m + (i - m) = i
      BY <1>2, <3>1 DEF Remembers
    <3> QED BY <3>4, <3>5
  <2> QED BY <2>1, <2>2
<1>5. Remembers(k, a, t)
  BY <1>2, <1>3, <1>4 DEF Remembers
<1> QED BY <1>1, <1>5 DEF k

LEMMA KeptRemembers ==
  ASSUME NEW n, hits[n] \in Seq(Nat), admitted[n] \in Seq(Nat), now \in Nat,
         Remembers(hits[n], admitted[n], now)
  PROVE  Kept(n) \in Seq(Nat) /\ Remembers(Kept(n), admitted[n], now)
<1> DEFINE h == hits[n]
           P(i) == \A j \in DOMAIN h : now - h[j] < Window <=> i <= j
           first == CHOOSE i \in 1 .. Len(h) + 1 : P(i)
<1>1. \E i \in 1 .. Len(h) + 1 : P(i)
  BY RememberedSorted, FirstYoung
<1>2. first \in 1 .. Len(h) + 1 /\ P(first)
  BY <1>1
<1>3. Kept(n) = SubSeq(h, first, Len(h)) /\ DOMAIN h = 1 .. Len(h)
  BY DEF Kept
<1> HIDE DEF first
<1> QED BY <1>2, <1>3, SuffixRemembers

(* ... and so does letting one more through, ...                             *)
LEMMA AllowRemembers ==
  ASSUME NEW k \in Seq(Nat), NEW a \in Seq(Nat), NEW t \in Nat,
         Remembers(k, a, t)
  PROVE  /\ Append(k, t) \in Seq(Nat) /\ Append(a, t) \in Seq(Nat)
         /\ Remembers(Append(k, t), Append(a, t), t)
<1> DEFINE b == Append(a, t)
           l == Append(k, t)
<1>1. /\ b \in Seq(Nat) /\ Len(b) = Len(a) + 1 /\ b[Len(a) + 1] = t
      /\ \A i \in 1 .. Len(a) : b[i] = a[i] /\ a[i] \in Nat
  OBVIOUS
<1>2. /\ l \in Seq(Nat) /\ Len(l) = Len(k) + 1 /\ l[Len(k) + 1] = t
      /\ \A i \in 1 .. Len(k) : l[i] = k[i]
  OBVIOUS
<1> HIDE DEF b, l
<1>3. Len(k) \in Nat /\ Len(a) \in Nat /\ Len(k) <= Len(a)
  BY DEF Remembers
<1>4. ASSUME NEW i \in 1 .. Len(b)
      PROVE  b[i] \in Nat /\ b[i] <= t
  <2>1. CASE i = Len(a) + 1
    BY <1>1, <2>1
  <2>2. CASE i # Len(a) + 1
    <3>1. i \in 1 .. Len(a)
      BY <1>1, <1>3, <2>2
    <3> QED BY <1>1, <3>1 DEF Remembers
  <2> QED BY <2>1, <2>2
<1>5. ASSUME NEW i \in 1 .. Len(b), NEW j \in 1 .. Len(b), i <= j
      PROVE  b[i] <= b[j]
  <2>1. CASE j = Len(a) + 1
    BY <1>1, <1>4, <2>1
  <2>2. CASE j # Len(a) + 1
    <3>1. i \in 1 .. Len(a) /\ j \in 1 .. Len(a)
      BY <1>1, <1>3, <1>5, <2>2
    <3> QED BY <1>1, <1>5, <3>1 DEF Remembers
  <2> QED BY <2>1, <2>2
<1>6. ASSUME NEW i \in 1 .. Len(l)
      PROVE  l[i] = b[Len(b) - Len(l) + i]
  <2>1. CASE i = Len(k) + 1
    <3>1. Len(b) - Len(l) + i = Len(a) + 1
      BY <1>1, <1>2, <1>3, <2>1
    <3> QED BY <1>1, <1>2, <2>1, <3>1
  <2>2. CASE i # Len(k) + 1
    <3>1. Len(l) = Len(k) + 1 /\ Len(b) = Len(a) + 1
      BY <1>1, <1>2
    <3>2. i \in Nat /\ i \in 1 .. Len(k)
      BY <1>3, <2>2, <3>1
    <3>3. /\ Len(b) - Len(l) + i = Len(a) - Len(k) + i
          /\ Len(a) - Len(k) + i \in 1 .. Len(a)
      BY <1>3, <3>1, <3>2
    <3> QED BY <1>1, <1>2, <3>2, <3>3 DEF Remembers
  <2> QED BY <2>1, <2>2
<1>7. ASSUME NEW i \in 1 .. Len(b) - Len(l)
      PROVE  t - b[i] >= Window
  <2>1. i \in 1 .. Len(a) - Len(k) /\ i \in 1 .. Len(a)
    BY <1>1, <1>2, <1>3
  <2> QED BY <1>1, <2>1 DEF Remembers
<1>8. Len(l) <= Len(b)
  BY <1>1, <1>2, <1>3
<1>9. Remembers(l, b, t)
  BY <1>4, <1>5, <1>6, <1>7, <1>8 DEF Remembers
<1> QED BY <1>1, <1>2, <1>9 DEF b, l

(* ... which comes a whole window after the one Limit attempts before.        *)
LEMMA AllowBounds ==
  ASSUME NEW k \in Seq(Nat), NEW a \in Seq(Nat), NEW t \in Nat,
         Remembers(k, a, t), Len(k) < Limit,
         \A i \in 1 .. Len(a) :
           i + Limit <= Len(a) => a[i + Limit] - a[i] >= Window,
         NEW i \in 1 .. Len(Append(a, t)), i + Limit <= Len(Append(a, t))
  PROVE  Append(a, t)[i + Limit] - Append(a, t)[i] >= Window
<1> DEFINE b == Append(a, t)
<1>1. /\ b \in Seq(Nat) /\ Len(b) = Len(a) + 1 /\ b[Len(a) + 1] = t
      /\ \A j \in 1 .. Len(a) : b[j] = a[j] /\ a[j] \in Nat
  OBVIOUS
<1> HIDE DEF b
<1>2. Len(k) \in Nat /\ Len(a) \in Nat /\ Len(k) <= Len(a)
  BY DEF Remembers
<1>3. i \in 1 .. Len(b) /\ i + Limit <= Len(b)
  BY DEF b
<1>4. i \in 1 .. Len(a) /\ b[i] = a[i]
  BY <1>1, <1>2, <1>3
<1>5. CASE i + Limit = Len(a) + 1
  <2>1. i \in 1 .. Len(a) - Len(k)
    BY <1>2, <1>3, <1>5
  <2>2. t - a[i] >= Window
    BY <2>1 DEF Remembers
  <2> QED BY <1>1, <1>4, <1>5, <2>2 DEF b
<1>6. CASE i + Limit # Len(a) + 1
  <2>1. i + Limit \in 1 .. Len(a) /\ i + Limit <= Len(a)
    <3> DEFINE c == i + Limit
    <3>1. /\ c \in Nat /\ c >= 1 /\ Len(a) \in Nat /\ c <= Len(a) + 1
          /\ c # Len(a) + 1
      BY <1>1, <1>2, <1>3, <1>4, <1>6
    <3> HIDE DEF c
    <3>2. c \in 1 .. Len(a) /\ c <= Len(a)
      BY ONLY <3>1, SMT
    <3> QED BY <3>2 DEF c
  <2>2. a[i + Limit] - a[i] >= Window /\ b[i + Limit] = a[i + Limit]
    BY <1>1, <1>4, <2>1
  <2> QED BY <1>4, <2>2 DEF b
<1> QED BY <1>5, <1>6

(* A step of the limiter alone                                               *)
LEMMA LimiterKeeps ==
  ASSUME IInv, UNCHANGED <<accounts, settings>>, LimiterInv',
         hits' \in [Names -> Seq(Nat)], admitted' \in [Names -> Seq(Nat)],
         now' \in Nat, req' \in [Requests -> Request], RequestsInv',
         \A q \in Requests : req'[q] = req[q] \/ req[q].pc = "idle",
         \A q \in Requests : req'[q].pc = "store" => req'[q] = req[q]
  PROVE  IInv'
<1>1. /\ user' = user /\ token' = token /\ access' = access
      /\ settings' = settings
  BY DEF accounts
<1>2. TypeOK'
  BY <1>1 DEF IInv, TypeOK
<1>3. OneUserPerName' /\ TokensInv'
  BY <1>1 DEF IInv, DataInv, OneUserPerName, Named, TokensInv
<1>4. NoSessionLeft'
  BY <1>1 DEF IInv, DataInv, NoSessionLeft, At
<1>5. CacheInv'
  BY <1>1 DEF IInv, CacheInv, CacheIsCurrent, At
<1> QED BY <1>2, <1>3, <1>4, <1>5 DEF IInv, DataInv

LEMMA LoginKeeps ==
  ASSUME IInv, NEW p \in Requests, Login(p)
  PROVE  IInv'
<1>1. PICK n \in Names :
        /\ Allow(n) /\ Put(p, [Idle EXCEPT !.pc = "login", !.name = n])
        /\ UNCHANGED <<accounts, now, settings, scope>>
  BY DEF Login
<1> DEFINE r == [Idle EXCEPT !.pc = "login", !.name = n]
<1>2. r \in Request /\ r.pc = "login" /\ r.name = n /\ r.token = Nobody
  BY DEF Idle, Request
<1>3. Put(p, r)
  BY <1>1
<1> HIDE DEF r
<1>4. /\ user' = user /\ token' = token /\ now' = now
      /\ req[p].pc = "idle"
  BY <1>1 DEF accounts, Login, Begin, At
<1>5. Knows(r, user, token)
  BY <1>2 DEF Knows, KnowsToken, KnowsOwner, KnowsActor, KnowsUser, KnowsInput
<1>6. /\ req' \in [Requests -> Request] /\ RequestsInv' /\ req'[p] = r
      /\ \A q \in Requests \ {p} : req'[q] = req[q]
  BY <1>3, <1>4, <1>5, <1>2, SameLater, PutKnows DEF IInv, DataInv
<1>7. /\ hits[n] \in Seq(Nat) /\ admitted[n] \in Seq(Nat) /\ now \in Nat
      /\ hits \in [Names -> Seq(Nat)] /\ admitted \in [Names -> Seq(Nat)]
      /\ \A m \in Names : Remembers(hits[m], admitted[m], now)
  BY DEF IInv, TypeOK, LimiterInv
<1>8. Kept(n) \in Seq(Nat) /\ Remembers(Kept(n), admitted[n], now)
  BY <1>7, KeptRemembers
<1>9. /\ Len(Kept(n)) < Limit
      /\ hits' = [hits EXCEPT ![n] = Append(Kept(n), now)]
      /\ admitted' = [admitted EXCEPT ![n] = Append(admitted[n], now)]
  BY <1>1 DEF Allow
<1>10. /\ Append(Kept(n), now) \in Seq(Nat)
       /\ Append(admitted[n], now) \in Seq(Nat)
       /\ Remembers(Append(Kept(n), now), Append(admitted[n], now), now)
  BY <1>7, <1>8, AllowRemembers
<1>11. /\ hits' \in [Names -> Seq(Nat)] /\ admitted' \in [Names -> Seq(Nat)]
       /\ hits'[n] = Append(Kept(n), now)
       /\ admitted'[n] = Append(admitted[n], now)
       /\ \A m \in Names \ {n} : hits'[m] = hits[m] /\ admitted'[m] = admitted[m]
  BY <1>7, <1>9, <1>10
<1>12. ASSUME NEW i \in 1 .. Len(admitted'[n]), i + Limit <= Len(admitted'[n])
       PROVE  admitted'[n][i + Limit] - admitted'[n][i] >= Window
  <2>1. \A j \in 1 .. Len(admitted[n]) :
          j + Limit <= Len(admitted[n])
            => admitted[n][j + Limit] - admitted[n][j] >= Window
    BY DEF IInv, LimiterInv, RateBounded
  <2> QED BY <2>1, <1>7, <1>8, <1>9, <1>11, <1>12, AllowBounds
<1>13. RateBounded'
  BY <1>11, <1>12 DEF IInv, LimiterInv, RateBounded
<1>14. LimiterInv'
  BY <1>4, <1>7, <1>10, <1>11, <1>13 DEF LimiterInv
<1> QED BY <1>1, <1>2, <1>4, <1>6, <1>7, <1>11, <1>14, LimiterKeeps

LEMMA LoginRefusedKeeps ==
  ASSUME IInv, NEW p \in Requests, LoginRefused(p)
  PROVE  IInv'
<1>1. PICK n \in Names :
        /\ hits' = [hits EXCEPT ![n] = Kept(n)]
        /\ UNCHANGED <<accounts, admitted, now, req, settings, scope>>
  BY DEF LoginRefused
<1>2. /\ hits[n] \in Seq(Nat) /\ admitted[n] \in Seq(Nat) /\ now \in Nat
      /\ hits \in [Names -> Seq(Nat)] /\ admitted \in [Names -> Seq(Nat)]
      /\ \A m \in Names : Remembers(hits[m], admitted[m], now)
  BY DEF IInv, TypeOK, LimiterInv
<1>3. Kept(n) \in Seq(Nat) /\ Remembers(Kept(n), admitted[n], now)
  BY <1>2, KeptRemembers
<1>4. /\ hits' \in [Names -> Seq(Nat)] /\ hits'[n] = Kept(n)
      /\ \A m \in Names \ {n} : hits'[m] = hits[m]
  BY <1>1, <1>2, <1>3
<1>5. LimiterInv'
  BY <1>1, <1>2, <1>3, <1>4 DEF IInv, LimiterInv, RateBounded
<1>6. req' = req /\ user' = user /\ token' = token
  BY <1>1 DEF accounts
<1>7. req' \in [Requests -> Request] /\ RequestsInv'
  BY <1>6 DEF IInv, TypeOK, DataInv, RequestsInv
<1> QED BY <1>1, <1>2, <1>4, <1>5, <1>6, <1>7, LimiterKeeps

LEMMA TickKeeps ==
  ASSUME IInv, Tick
  PROVE  IInv'
<1>1. /\ now' = now + 1 /\ now \in Nat
      /\ UNCHANGED <<accounts, settings>>
      /\ hits' = hits /\ admitted' = admitted /\ req' = req
  BY DEF Tick, IInv, TypeOK
<1>2. ASSUME NEW n \in Names
      PROVE  Remembers(hits[n], admitted[n], now + 1)
  <2> DEFINE a == admitted[n]
             h == hits[n]
  <2>1. /\ a \in Seq(Nat) /\ h \in Seq(Nat) /\ Remembers(h, a, now)
    BY DEF IInv, TypeOK, LimiterInv
  <2> HIDE DEF a, h
  <2>2. Len(a) \in Nat /\ Len(h) \in Nat /\ Len(h) <= Len(a)
    BY <2>1 DEF Remembers
  <2>3. ASSUME NEW i \in 1 .. Len(a)
        PROVE  a[i] \in Nat /\ a[i] <= now + 1
    <3>1. a[i] \in Nat /\ a[i] <= now
      BY <2>1 DEF Remembers
    <3> QED BY <1>1, <3>1
  <2>4. ASSUME NEW i \in 1 .. Len(a) - Len(h)
        PROVE  (now + 1) - a[i] >= Window
    <3>1. now - a[i] >= Window /\ i \in 1 .. Len(a)
      BY <2>1, <2>2 DEF Remembers
    <3>2. a[i] \in Nat
      BY <2>3, <3>1
    <3> QED BY <1>1, <3>1, <3>2
  <2>5. Remembers(h, a, now + 1)
    BY <2>1, <2>3, <2>4 DEF Remembers
  <2> QED BY <2>5 DEF a, h
<1>3. LimiterInv'
  BY <1>1, <1>2 DEF IInv, LimiterInv, RateBounded
<1>4. /\ req' \in [Requests -> Request] /\ RequestsInv' /\ now' \in Nat
      /\ hits' \in [Names -> Seq(Nat)] /\ admitted' \in [Names -> Seq(Nat)]
  BY <1>1 DEF IInv, TypeOK, DataInv, RequestsInv, accounts
<1> QED BY <1>1, <1>3, <1>4, LimiterKeeps

-----------------------------------------------------------------------------
(* All steps *)

LEMMA InitInv == Init => IInv
<1> SUFFICES ASSUME Init
             PROVE  IInv
  OBVIOUS
<1>1. PICK s \in Scenarios :
        /\ user = s.user /\ token = s.token /\ access = s.access
        /\ req = [p \in Requests |-> Idle]
        /\ hits = [n \in Names |-> <<>>] /\ admitted = [n \in Names |-> <<>>]
        /\ now = 0
        /\ settings = [row |-> s.settings, cache |-> Nobody, late |-> FALSE]
  BY DEF Init
<1>2. /\ user \in [Users -> Account] /\ token \in [Tokens -> Session]
      /\ access \subseteq [user : Users, role : Roles \cup {Admin}]
      /\ s.settings \in Values
      /\ \A u, v \in Users :
           user[u].st = "live" /\ user[v].st = "live" /\ u # v
             => user[u].name # user[v].name
      /\ \A k \in Tokens :
           /\ token[k].parent = Nobody /\ ~token[k].replay
           /\ token[k].st = "issued" => user[token[k].user].st # "none"
           /\ token[k].st = "issued" /\ ~token[k].revoked =>
                /\ user[token[k].user].st = "live"
                /\ user[token[k].user].status = "active"
  BY <1>1, ScenariosAssumption
<1>3. /\ <<>> \in Seq(Nat) /\ Len(<<>>) = 0 /\ 1 .. 0 = {}
  OBVIOUS
<1>4. req \in [Requests -> Request]
  BY <1>1, IdleKnows
<1>5. TypeOK
  BY <1>1, <1>2, <1>3, <1>4 DEF TypeOK
<1>6. OneUserPerName /\ TokensInv /\ NoSessionLeft
  BY <1>2 DEF OneUserPerName, Named, TokensInv, NoSessionLeft
<1>7. RequestsInv
  BY <1>1, IdleKnows DEF RequestsInv
<1>8. CacheInv
  BY <1>1, IdleKnows DEF CacheInv, CacheIsCurrent, At
<1>9. LimiterInv
  BY <1>1, <1>3 DEF LimiterInv, RateBounded, Remembers
<1> QED BY <1>5, <1>6, <1>7, <1>8, <1>9 DEF IInv, DataInv

LEMMA StayKeeps == ASSUME IInv, UNCHANGED vars PROVE IInv'
<1>1. /\ user' = user /\ token' = token /\ access' = access /\ req' = req
      /\ hits' = hits /\ admitted' = admitted /\ now' = now
      /\ settings' = settings
  BY DEF vars, accounts, limiter
<1> QED BY <1>1 DEF IInv, TypeOK, DataInv, OneUserPerName, Named, TokensInv,
                    RequestsInv, NoSessionLeft, At, CacheInv, CacheIsCurrent,
                    LimiterInv, RateBounded

LEMMA NextInv == IInv /\ [Next]_vars => IInv'
<1> SUFFICES ASSUME IInv, [Next]_vars
             PROVE  IInv'
  OBVIOUS
<1>1. ASSUME NEW p \in Requests, SessionStep(p)
      PROVE  IInv'
  BY <1>1, LoginKeeps, LoginRefusedKeeps, PlansKeep, ExchangeKeeps, IssueKeeps,
     TokensKeep DEF SessionStep
<1>2. ASSUME NEW p \in Requests, UserStep(p)
      PROVE  IInv'
  BY <1>2, PlansKeep, InsertKeeps, SaveUserKeeps, RevokeAllKeeps,
     SoftDeleteKeeps DEF UserStep
<1>3. ASSUME NEW p \in Requests, SettingsStep(p)
      PROVE  IInv'
  BY <1>3, PlansKeep, SaveSettingsKeeps, StoreKeeps DEF SettingsStep
<1> QED BY <1>1, <1>2, <1>3, RefuseKeeps, TickKeeps, TokensKeep, RestartKeeps,
           StayKeeps DEF Next

LEMMA Invariance == Spec => []IInv
BY InitInv, NextInv, PTL DEF Spec

-----------------------------------------------------------------------------
(* What follows *)

\* The users, tokens, requests, attempts and settings have their shape
\* (domain/models.go User, RefreshToken, PlatformSettings).
THEOREM TypeCorrect == Spec => []TypeOK
<1>1. IInv => TypeOK
  BY DEF IInv
<1> QED BY <1>1, Invariance, PTL

\* Two sessions come out of one refresh token only when its revocation failed
\* (authsvc.Refresh).
THEOREM ReplayIsFailure == Spec => []ReplayNeedsFailure
<1>1. IInv => ReplayNeedsFailure
  BY DEF IInv, DataInv, TokensInv, ReplayNeedsFailure
<1> QED BY <1>1, Invariance, PTL

\* Who is disabled or deleted keeps no session, but for those that a request
\* had decided on before and for failed revocations (usersvc.Update, Delete).
THEOREM SessionsEnd == Spec => []NoSessionLeft
<1>1. IInv => NoSessionLeft
  BY DEF IInv, DataInv
<1> QED BY <1>1, Invariance, PTL

\* Users are managed by those who are super_admin in the table, not by those
\* whose token says so (rbac.go Authenticate).
THEOREM AdminsManage == Spec => []ManagedByAdmins
<1>1. IInv => ManagedByAdmins
  BY DEF IInv, DataInv, RequestsInv, Knows, KnowsActor, ManagedByAdmins
<1> QED BY <1>1, Invariance, PTL

\* A name has one live user, however creations interleave (usersvc.Create).
THEOREM NamesAreUnique == Spec => []OneUserPerName
<1>1. IInv => OneUserPerName
  BY DEF IInv, DataInv
<1> QED BY <1>1, Invariance, PTL

\* No window of the limiter holds more than Limit attempts for a name
\* (loginLimiter.allow).
THEOREM RateIsBounded == Spec => []RateBounded
<1>1. IInv => RateBounded
  BY DEF IInv, LimiterInv
<1> QED BY <1>1, Invariance, PTL

\* The cached settings are stale only when a store was overtaken
\* (settingsvc.Current, Update).
THEOREM CacheFollows == Spec => []CacheIsCurrent
<1>1. IInv => CacheIsCurrent
  BY DEF IInv, CacheInv
<1> QED BY <1>1, Invariance, PTL

\* No update of a user is decided on a role or a status other than those it
\* replaces (usersvc.Update, store.go UpdateOptimistic).
THEOREM NoUserEditIsLost == Spec => NoLostUserEdit
<1> DEFINE Seen == \A p \in Requests, u \in Users :
                     /\ At(p, "update") /\ req[p].user = u
                     /\ req'[p] # req[p] /\ Content(u)' # Content(u)
                     => Content(u) = req[p].base
<1>1. IInv /\ [Next]_vars => [Seen]_vars
  <2>1. SUFFICES ASSUME IInv, Next, NEW p \in Requests, NEW u \in Users,
                        req[p].pc = "update", req[p].user = u,
                        req'[p] # req[p], Content(u)' # Content(u)
                 PROVE  Content(u) = req[p].base
    BY DEF At
  <2>2. user' # user
    BY <2>1 DEF Content
  <2>3. \A S \in SUBSET Requests : user' # Forgotten(S)
    <3>1. SUFFICES ASSUME NEW S \in SUBSET Requests, user' = Forgotten(S)
                   PROVE  FALSE
      OBVIOUS
    <3>2. user'[u].role = user[u].role /\ user'[u].status = user[u].status
      BY <2>1, <3>1, ForgottenUsers
    <3> QED BY <2>1, <3>2 DEF Content
  <2>4. PICK q \in Requests : InsertUser(q) \/ SaveUser(q) \/ SoftDelete(q)
    <3>1. ~Tick /\ ~Expire /\ ~Restart
      BY <2>2, <2>3 DEF Tick, Expire, Restart, accounts
    <3>2. PICK q \in Requests :
            SessionStep(q) \/ UserStep(q) \/ SettingsStep(q) \/ Refuse(q)
      BY <2>1, <3>1 DEF Next
    <3>3. ~Refuse(q)
      <4>1. {q} \in SUBSET Requests
        OBVIOUS
      <4> QED BY <2>3, <4>1 DEF Refuse
    <3>4. ~SessionStep(q)
      BY <2>2 DEF SessionStep, Login, LoginRefused, LoginFind, RefreshFind,
                  RefreshCheck, RefreshRevoke, Issue, Logout, accounts
    <3>5. ~SettingsStep(q)
      BY <2>2 DEF SettingsStep, Current, SettingsUpdate, SaveSettings,
                  StoreCache, accounts
    <3> QED BY <2>2, <3>2, <3>3, <3>4, <3>5
            DEF UserStep, Admit, UserCreate, UserUpdate, RevokeAllForUser,
                UserDelete, accounts
  <2>5. q = p
    <3>1. \E r : Put(q, r)
      BY <2>4 DEF InsertUser, SaveUser, SoftDelete
    <3> QED BY <2>1, <3>1 DEF Put, IInv, TypeOK
  <2>6. SaveUser(p)
    BY <2>1, <2>4, <2>5 DEF InsertUser, SoftDelete, At
  <2> QED BY <2>1, <2>6, SaveUserKeeps
<1> QED BY <1>1, Invariance, PTL DEF Spec, NoLostUserEdit
=============================================================================
