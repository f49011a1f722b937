------------------------------ MODULE Accounts ------------------------------
(***************************************************************************)
(* Users, their sessions and the platform settings: authsvc (login and its *)
(* limiter, refresh, logout), the check of every request in rbac.go,       *)
(* usersvc and settingsvc.                                                 *)
(*                                                                         *)
(* Requests run side by side; every statement is a step, and the reads     *)
(* that lead to one are a step before it.  Passwords are left out: a login *)
(* may be refused at any point.  An access token is what it claims.        *)
(* Time passes for the limiter and as the expiry of refresh tokens.        *)
(*                                                                         *)
(* late, kept and lost are history: a row changed between a read and the   *)
(* write that follows it, the error of a revocation was dropped.           *)
(* Mutant... definitions are their namesakes with a plausible bug; no      *)
(* specification uses them.                                                *)
(***************************************************************************)
EXTENDS Integers, Sequences

CONSTANTS
  Users,        \* ids
  Tokens,       \* bound: ids of refresh tokens
  Requests,     \* bound: requests in progress
  Names,        \* user names
  Roles,        \* roles beside super_admin
  Values,       \* contents of the settings
  Limit,        \* attempts to log in that are let through in one window
  Window,       \* length of the window
  MaxTime,      \* bound: time
  MaxVersion,   \* bound: row_version of a user
  Scenarios,    \* bound: which requests there are
  Nobody        \* no user, no token, no cached settings

VARIABLES
  user,      \* the users table
  token,     \* the refresh_tokens table
  access,    \* the access tokens that were signed
  req,       \* the requests in progress
  hits,      \* the limiter: per name, the times it remembers
  admitted,  \* history: all times at which the limiter let the name through
  now,
  settings,  \* the row, its cached copy and whether that was stored late
  scope      \* which requests there are in this behaviour

accounts == <<user, token, access>>
limiter == <<hits, admitted, now>>
vars == <<accounts, limiter, req, settings, scope>>

ASSUME NobodyAssumption == Nobody \notin Users \cup Tokens \cup Values
ASSUME LimitAssumption == Limit \in Nat \ {0} /\ Window \in Nat

Admin == "super_admin"

-----------------------------------------------------------------------------
(* State *)

\* What an administrator sees of a user
Contents == (Roles \cup {Admin}) \X {"active", "disabled"}
Content(u) == <<user[u].role, user[u].status>>

\* What a request knows: whom and which token it is about, what it read and
\* what it will write
Request == [pc : {"idle", "login", "check", "rotate", "drop", "issue", "admin",
                  "insert", "update", "revoke", "delete", "save", "store"},
            user : Users \cup {Nobody}, token : Tokens \cup {Nobody},
            ver : Nat, name : Names \cup {Nobody},
            role : Roles \cup {Admin, Nobody},
            status : {"active", "disabled", Nobody}, base : Contents \cup {Nobody},
            actor : Users \cup {Nobody}, seen : Nat,
            value : Values \cup {Nobody}, late : BOOLEAN]

Idle == [pc |-> "idle", user |-> Nobody, token |-> Nobody, ver |-> 0,
         name |-> Nobody, role |-> Nobody, status |-> Nobody, base |-> Nobody,
         actor |-> Nobody, seen |-> 0, value |-> Nobody, late |-> FALSE]

Account == [st : {"none", "live", "gone"}, name : Names, role : Roles \cup {Admin},
            status : {"active", "disabled"}, ver : Nat, lost : BOOLEAN]

Session == [st : {"none", "issued"}, user : Users, parent : Tokens \cup {Nobody},
            revoked : BOOLEAN, expired : BOOLEAN, late : BOOLEAN,
            replay : BOOLEAN, kept : BOOLEAN]

\* users.Get and GetByUsername: deleted users are not found.
Active(u) == user[u].st = "live" /\ user[u].status = "active"
Named(n) == {u \in Users : user[u].st = "live" /\ user[u].name = n}

\* A behaviour starts with rows of their shape, unique names, first tokens,
\* and no usable token of a user who is not active.
ASSUME ScenariosAssumption ==
  \A s \in Scenarios :
    /\ s.user \in [Users -> Account] /\ s.token \in [Tokens -> Session]
    /\ s.access \subseteq [user : Users, role : Roles \cup {Admin}]
    /\ s.settings \in Values
    /\ \A u, v \in Users :
         s.user[u].st = "live" /\ s.user[v].st = "live" /\ u # v
           => s.user[u].name # s.user[v].name
    /\ \A k \in Tokens :
         LET K == s.token[k]
         IN /\ K.parent = Nobody /\ ~K.replay
            /\ K.st = "issued" => s.user[K.user].st # "none"
            /\ K.st = "issued" /\ ~K.revoked =>
                 /\ s.user[K.user].st = "live"
                 /\ s.user[K.user].status = "active"

At(p, pc) == req[p].pc = pc
Put(p, r) == req' = [req EXCEPT ![p] = r]
Begin(p, kind) == At(p, "idle") /\ kind \in scope

-----------------------------------------------------------------------------
(* Login *)

\* The attempts within the window: the last ones, for times never decrease
Kept(n) ==
  LET h == hits[n]
      first == CHOOSE i \in 1 .. Len(h) + 1 :
                 \A j \in DOMAIN h : now - h[j] < Window <=> i <= j
  IN SubSeq(h, first, Len(h))

MutantAllow(n) ==
  /\ Len(Kept(n)) <= Limit
  /\ hits' = [hits EXCEPT ![n] = Append(Kept(n), now)]
  /\ admitted' = [admitted EXCEPT ![n] = Append(@, now)]

\* loginLimiter.allow, under its lock
Allow(n) ==
  /\ Len(Kept(n)) < Limit
  /\ hits' = [hits EXCEPT ![n] = Append(Kept(n), now)]
  /\ admitted' = [admitted EXCEPT ![n] = Append(@, now)]

Login(p) ==
  /\ Begin(p, "login")
  /\ \E n \in Names :
       /\ Allow(n)
       /\ Put(p, [Idle EXCEPT !.pc = "login", !.name = n])
       /\ UNCHANGED <<accounts, now, settings, scope>>

\* RATE_LIMITED
LoginRefused(p) ==
  /\ Begin(p, "login")
  /\ \E n \in Names :
       /\ Len(Kept(n)) >= Limit
       /\ hits' = [hits EXCEPT ![n] = Kept(n)]
       /\ UNCHANGED <<accounts, admitted, now, req, settings, scope>>

LoginFind(p) ==
  /\ At(p, "login")
  /\ \E u \in Named(req[p].name) :
       /\ Active(u)
       /\ Put(p, [Idle EXCEPT !.pc = "issue", !.user = u, !.ver = user[u].ver,
                              !.role = user[u].role])
       /\ UNCHANGED <<accounts, limiter, settings, scope>>

Tick ==
  /\ "tick" \in scope /\ now < MaxTime
  /\ now' = now + 1
  /\ UNCHANGED <<accounts, hits, admitted, req, settings, scope>>

-----------------------------------------------------------------------------
(* Refresh and logout *)

Children(k) == {c \in Tokens : token[c].st = "issued" /\ token[c].parent = k}

MutantUsable(k) == token[k].st = "issued" /\ ~token[k].expired

Usable(k) == token[k].st = "issued" /\ ~token[k].revoked /\ ~token[k].expired

\* late: the token had been exchanged before it was found.
RefreshFind(p) ==
  /\ Begin(p, "refresh")
  /\ \E k \in Tokens :
       /\ Usable(k)
       /\ Put(p, [Idle EXCEPT !.pc = "check", !.token = k,
                              !.late = (Children(k) # {})])
       /\ UNCHANGED <<accounts, limiter, settings, scope>>

RefreshCheck(p) ==
  LET u == token[req[p].token].user
  IN /\ At(p, "check")
     /\ Put(p, IF Active(u)
               THEN [req[p] EXCEPT !.pc = "rotate", !.user = u,
                                   !.ver = user[u].ver, !.role = user[u].role]
               ELSE [req[p] EXCEPT !.pc = "drop"])
     /\ UNCHANGED <<accounts, limiter, settings, scope>>

\* The error of Revoke is dropped.
RefreshRevoke(p) ==
  /\ At(p, "rotate") \/ At(p, "drop")
  /\ \/ token' = [token EXCEPT ![req[p].token].revoked = TRUE]
     \/ token' = [token EXCEPT ![req[p].token].kept = TRUE]
  /\ Put(p, IF At(p, "rotate") THEN [req[p] EXCEPT !.pc = "issue"] ELSE Idle)
  /\ UNCHANGED <<user, access, limiter, settings, scope>>

\* The end of Login and of Refresh: the user is not looked at again.
Issue(p) ==
  /\ At(p, "issue")
  /\ \E k \in Tokens :
       LET u == req[p].user
       IN /\ token[k].st = "none"
          /\ token' = [token EXCEPT ![k] =
                         [st |-> "issued", user |-> u, parent |-> req[p].token,
                          revoked |-> FALSE, expired |-> FALSE,
                          late |-> user[u].st # "live" \/ user[u].ver # req[p].ver,
                          replay |-> req[p].late, kept |-> FALSE]]
          /\ access' = access \cup {[user |-> u, role |-> req[p].role]}
          /\ Put(p, Idle)
          /\ UNCHANGED <<user, limiter, settings, scope>>

\* Its reads find nothing that could change before its write.
Logout(p) ==
  /\ Begin(p, "logout")
  /\ \E k \in Tokens :
       /\ token[k].st = "issued"
       /\ token' = [token EXCEPT ![k].revoked = TRUE]
       /\ UNCHANGED <<user, access, limiter, req, settings, scope>>

Expire ==
  /\ "expire" \in scope
  /\ \E k \in Tokens :
       /\ token[k].st = "issued" /\ ~token[k].expired
       /\ token' = [token EXCEPT ![k].expired = TRUE]
       /\ UNCHANGED <<user, access, limiter, req, settings, scope>>

-----------------------------------------------------------------------------
(* User management, for super_admin only *)

MutantMayManage(claim) == Active(claim.user) /\ claim.role = Admin

\* Authenticate and SuperAdminOnly: not the claim but the row decides.
MayManage(claim) == Active(claim.user) /\ user[claim.user].role = Admin

Admit(p) ==
  /\ Begin(p, "manage")
  /\ \E claim \in access :
       /\ MayManage(claim)
       /\ Put(p, [Idle EXCEPT !.pc = "admin", !.actor = claim.user,
                              !.seen = user[claim.user].ver])
       /\ UNCHANGED <<accounts, limiter, settings, scope>>

UserCreate(p) ==
  /\ At(p, "admin") /\ "create" \in scope
  /\ \E n \in Names, role \in Roles \cup {Admin} :
       /\ Named(n) = {}
       /\ Put(p, [req[p] EXCEPT !.pc = "insert", !.name = n, !.role = role])
       /\ UNCHANGED <<accounts, limiter, settings, scope>>

MutantNameFree(n) == TRUE

\* UNIQUE (username) WHERE deleted_at IS NULL
NameFree(n) == Named(n) = {}

InsertUser(p) ==
  /\ At(p, "insert")
  /\ \E u \in Users :
       /\ user[u].st = "none" /\ NameFree(req[p].name)
       /\ user' = [user EXCEPT ![u] =
                     [st |-> "live", name |-> req[p].name, role |-> req[p].role,
                      status |-> "active", ver |-> 1, lost |-> FALSE]]
       /\ Put(p, Idle)
       /\ UNCHANGED <<token, access, limiter, settings, scope>>

\* The client sends the version it has seen; the columns that do not change
\* are not written (Nobody).
UserUpdate(p) ==
  /\ At(p, "admin") /\ "update" \in scope
  /\ \E u \in Users, role \in Roles \cup {Admin, Nobody},
        status \in {"active", "disabled", Nobody} :
       /\ user[u].st = "live"
       /\ role # user[u].role /\ status # user[u].status
       /\ role # Nobody \/ status # Nobody
       /\ Put(p, [req[p] EXCEPT !.pc = "update", !.user = u, !.ver = user[u].ver,
                                !.base = Content(u), !.role = role,
                                !.status = status])
       /\ UNCHANGED <<accounts, limiter, settings, scope>>

MutantWritten(new, old) == new

Written(new, old) == IF new = Nobody THEN old ELSE new

MutantAfterUpdate(p) == Idle

\* A user who was disabled loses the sessions, in a second statement.
AfterUpdate(p) ==
  IF req[p].status = "disabled" THEN [req[p] EXCEPT !.pc = "revoke"] ELSE Idle

MutantFresh(p) == user[req[p].user].ver > 0

\* WHERE id = ? AND row_version = ?
Fresh(p) == user[req[p].user].ver = req[p].ver

SaveUser(p) ==
  LET u == req[p].user
  IN /\ At(p, "update") /\ Fresh(p) /\ user[u].ver < MaxVersion
     /\ user' = [user EXCEPT ![u].role = Written(req[p].role, @),
                             ![u].status = Written(req[p].status, @),
                             ![u].ver = @ + 1]
     /\ Put(p, AfterUpdate(p))
     /\ UNCHANGED <<token, access, limiter, settings, scope>>

RevokedFor(u) ==
  [k \in Tokens |-> IF token[k].st = "issued" /\ token[k].user = u
                    THEN [token[k] EXCEPT !.revoked = TRUE] ELSE token[k]]

RevokeAllForUser(p) ==
  /\ At(p, "revoke")
  /\ token' = RevokedFor(req[p].user)
  /\ Put(p, Idle)
  /\ UNCHANGED <<user, access, limiter, settings, scope>>

UserDelete(p) ==
  /\ At(p, "admin") /\ "delete" \in scope
  /\ \E u \in Users :
       /\ user[u].st = "live"
       /\ Put(p, [req[p] EXCEPT !.pc = "delete", !.user = u])
       /\ UNCHANGED <<accounts, limiter, settings, scope>>

\* One transaction
SoftDelete(p) ==
  LET u == req[p].user
  IN /\ At(p, "delete") /\ user[u].st = "live"
     /\ user' = [user EXCEPT ![u].st = "gone"]
     /\ token' = RevokedFor(u)
     /\ Put(p, Idle)
     /\ UNCHANGED <<access, limiter, settings, scope>>

-----------------------------------------------------------------------------
(* Settings *)

\* Current, when nothing is cached: the row is read without the lock.
Current(p) ==
  /\ Begin(p, "settings") /\ settings.cache = Nobody
  /\ Put(p, [Idle EXCEPT !.pc = "store", !.value = settings.row])
  /\ UNCHANGED <<accounts, limiter, settings, scope>>

\* Update overwrites every column, whatever version its client has seen.
SettingsUpdate(p) ==
  /\ Begin(p, "settings")
  /\ \E v \in Values :
       /\ Put(p, [Idle EXCEPT !.pc = "save", !.value = v])
       /\ UNCHANGED <<accounts, limiter, settings, scope>>

MutantAfterSave(p) == Idle

AfterSave(p) == [req[p] EXCEPT !.pc = "store"]

\* late: what the others are about to store was overtaken.
SaveSettings(p) ==
  /\ At(p, "save")
  /\ settings' = [settings EXCEPT !.row = req[p].value]
  /\ req' = [q \in Requests |->
               IF q = p THEN AfterSave(p)
               ELSE IF At(q, "store") THEN [req[q] EXCEPT !.late = TRUE]
               ELSE req[q]]
  /\ UNCHANGED <<accounts, limiter, scope>>

StoreCache(p) ==
  /\ At(p, "store")
  /\ settings' = [settings EXCEPT !.cache = req[p].value, !.late = req[p].late]
  /\ Put(p, Idle)
  /\ UNCHANGED <<accounts, limiter, scope>>

-----------------------------------------------------------------------------
(* Failures *)

Forgotten(S) ==
  [u \in Users |-> IF \E p \in S : At(p, "revoke") /\ req[p].user = u
                   THEN [user[u] EXCEPT !.lost = TRUE] ELSE user[u]]

\* A check or a statement fails: the request ends there.  After the settings
\* were saved or read nothing can fail.
Refuse(p) ==
  /\ req[p].pc \notin {"idle", "store"}
  /\ Put(p, Idle)
  /\ user' = Forgotten({p})
  /\ UNCHANGED <<token, access, limiter, settings, scope>>

\* The process starts again: what it was doing, its limiter and its cache are
\* gone.
Restart ==
  /\ "restart" \in scope
  /\ req' = [p \in Requests |-> Idle]
  /\ user' = Forgotten(Requests)
  /\ hits' = [n \in Names |-> <<>>] /\ admitted' = [n \in Names |-> <<>>]
  /\ settings' = [settings EXCEPT !.cache = Nobody, !.late = FALSE]
  /\ UNCHANGED <<token, access, now, scope>>

-----------------------------------------------------------------------------
(* The specification *)

Init ==
  \E s \in Scenarios :
    /\ user = s.user /\ token = s.token /\ access = s.access /\ scope = s.kinds
    /\ req = [p \in Requests |-> Idle]
    /\ hits = [n \in Names |-> <<>>] /\ admitted = [n \in Names |-> <<>>]
    /\ now = 0
    /\ settings = [row |-> s.settings, cache |-> Nobody, late |-> FALSE]

SessionStep(p) ==
  \/ Login(p) \/ LoginRefused(p) \/ LoginFind(p)
  \/ RefreshFind(p) \/ RefreshCheck(p) \/ RefreshRevoke(p)
  \/ Issue(p) \/ Logout(p)

UserStep(p) ==
  \/ Admit(p) \/ UserCreate(p) \/ InsertUser(p)
  \/ UserUpdate(p) \/ SaveUser(p) \/ RevokeAllForUser(p)
  \/ UserDelete(p) \/ SoftDelete(p)

SettingsStep(p) ==
  Current(p) \/ SettingsUpdate(p) \/ SaveSettings(p) \/ StoreCache(p)

Next ==
  \/ \E p \in Requests :
       SessionStep(p) \/ UserStep(p) \/ SettingsStep(p) \/ Refuse(p)
  \/ Tick \/ Expire \/ Restart

Spec == Init /\ [][Next]_vars

-----------------------------------------------------------------------------
(* Properties *)

\* The state has its shape.
TypeOK ==
  /\ user \in [Users -> Account] /\ token \in [Tokens -> Session]
  /\ access \subseteq [user : Users, role : Roles \cup {Admin}]
  /\ req \in [Requests -> Request]
  /\ hits \in [Names -> Seq(Nat)] /\ admitted \in [Names -> Seq(Nat)]
  /\ now \in Nat
  /\ settings \in [row : Values, cache : Values \cup {Nobody}, late : BOOLEAN]

\* A refresh token that had been exchanged is exchanged again only when the
\* revocation of it failed: without that, two sessions out of one token need
\* two refreshes at the same time (authsvc.Refresh, whose statements are not
\* one transaction).
ReplayNeedsFailure ==
  \A k \in Tokens :
    token[k].st = "issued" /\ token[k].replay => token[token[k].parent].kept

\* A user who is disabled or deleted, with nobody still about to revoke, has
\* no usable session, except one that was issued by a login or a refresh that
\* had read the user before, or when the revocation failed (usersvc.Update,
\* UserRepo.SoftDelete).
NoSessionLeft ==
  \A k \in Tokens :
    LET u == token[k].user
    IN /\ token[k].st = "issued" /\ ~token[k].revoked
       /\ user[u].st = "gone" \/ user[u].status = "disabled"
       => \/ token[k].late \/ user[u].lost
          \/ \E p \in Requests : At(p, "revoke") /\ req[p].user = u

\* A management request that is running was admitted by the role its actor
\* has in the table, as long as nobody changed the actor since: an access
\* token that still claims super_admin is not enough (rbac.go Authenticate).
ManagedByAdmins ==
  \A p \in Requests :
    LET a == req[p].actor
    IN /\ req[p].pc \in {"admin", "insert", "update", "revoke", "delete"}
       /\ user[a].st = "live" /\ user[a].ver = req[p].seen
       => user[a].role = Admin /\ user[a].status = "active"

\* Two live users never have the same name, although the name is looked up
\* before the insert (usersvc.Create, users_username_uniq).
OneUserPerName ==
  \A n \in Names : \A u, v \in Named(n) : u = v

\* The limiter lets through at most Limit attempts for a name in any window:
\* attempt i + Limit comes a whole window after attempt i
\* (loginLimiter.allow).
RateBounded ==
  \A n \in Names : \A i \in 1 .. Len(admitted[n]) :
    i + Limit <= Len(admitted[n])
      => admitted[n][i + Limit] - admitted[n][i] >= Window

\* The cached settings are those of the database, unless a request is about
\* to store what it has or stored it after another one had saved
\* (settingsvc.Current, Update).
CacheIsCurrent ==
  settings.cache \in {Nobody, settings.row}
    \/ settings.late \/ \E p \in Requests : At(p, "store")

\* Who changes the role or the status of a user has seen what is changed:
\* an update that was decided on another role or status is refused, also when
\* both were read before either was written (usersvc.Update,
\* UpdateOptimistic).
NoLostUserEdit ==
  [][\A p \in Requests, u \in Users :
       /\ At(p, "update") /\ req[p].user = u
       /\ req'[p] # req[p] /\ Content(u)' # Content(u)
       => Content(u) = req[p].base]_vars
=============================================================================
