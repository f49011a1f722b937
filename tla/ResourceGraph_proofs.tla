------------------------- MODULE ResourceGraph_proofs -------------------------
(***************************************************************************)
(* Proofs about ResourceGraph, for any rows, requests, names and           *)
(* scenarios.  The inductive invariant says of every step that a request   *)
(* still has to do what its handler knew when it was planned, and that the *)
(* others may only have moved on from there: Later and CertsLater.         *)
(***************************************************************************)
EXTENDS ResourceGraph, FiniteSetTheorems, TLAPS

-----------------------------------------------------------------------------
(* What is certain of a step that waits in a request *)

Sources == {"imported", "acme", None}

\* Certificate c has been inserted and is of domain d.
Holds(c, d, certs) ==
  c \in Certificates /\ certs[c].st # "none" /\ certs[c].domain = d

SoundUpdate(w, rows) ==
  w.op = "update" =>
    /\ w.id \in Ids /\ w.ver \in Nat \ {0} /\ w.ver <= rows[w.id].ver
    /\ rows[w.id].ver = w.ver => rows[w.id].data = w.base

SoundBind(w) ==
  w.op = "bind" => \A i \in DOMAIN w.set : w.set[i] \in Middlewares

SoundInsert(w, certs) ==
  w.op \in {"insert", "restore"} /\ w.id \in Certificates =>
    /\ w.set \in Certificate /\ w.set.st = "live"
    /\ w.set.pem \in {None, w.id} \/ Holds(w.set.pem, w.set.domain, certs)
    /\ w.op = "restore" => Holds(w.id, w.set.domain, certs)

\* What an observation of domain d writes
SoundColumns(set, d, certs) ==
  /\ DOMAIN set \subseteq {"source", "pem"}
  /\ "source" \in DOMAIN set => set["source"] \in Sources
  /\ "pem" \in DOMAIN set =>
       set["pem"] = None \/ Holds(set["pem"], d, certs)

SoundObserve(w, certs) ==
  w.op = "observe" =>
    /\ w.id \in Certificates /\ certs[w.id].st # "none"
    /\ SoundColumns(w.set, certs[w.id].domain, certs)

SoundWrite(w, rows, certs) ==
  /\ SoundUpdate(w, rows) /\ SoundBind(w)
  /\ SoundInsert(w, certs) /\ SoundObserve(w, certs)

SoundStep(x, rows, certs) ==
  /\ x.do \in {"statement", "headers"} => SoundWrite(x.write, rows, certs)
  /\ x.do = "observe" =>
       /\ x.domain \in Domains \cup {None}
       /\ SoundColumns(x.set, x.domain, certs)
       /\ x.id # None => Holds(x.id, x.domain, certs)

IsQueue(q, rows, certs) ==
  /\ \E S : q \in Seq(S)
  /\ \A k \in 1 .. Len(q) : SoundStep(q[k], rows, certs)

LEMMA QueueEmpty == ASSUME NEW rows, NEW certs PROVE IsQueue(<<>>, rows, certs)
<1>1. <<>> \in Seq({}) /\ Len(<<>>) = 0
  OBVIOUS
<1> QED BY <1>1 DEF IsQueue

LEMMA QueueOne ==
  ASSUME NEW rows, NEW certs, NEW x, SoundStep(x, rows, certs)
  PROVE  IsQueue(<<x>>, rows, certs)
<1>1. <<x>> \in Seq({x}) /\ Len(<<x>>) = 1 /\ <<x>>[1] = x
  OBVIOUS
<1>2. \A k \in 1 .. 1 : k = 1
  OBVIOUS
<1>3. \E S : <<x>> \in Seq(S)
  BY <1>1
<1> QED BY <1>1, <1>2, <1>3 DEF IsQueue

LEMMA QueueTwo ==
  ASSUME NEW rows, NEW certs, NEW x, NEW y,
         SoundStep(x, rows, certs), SoundStep(y, rows, certs)
  PROVE  IsQueue(<<x, y>>, rows, certs)
<1>1. /\ <<x, y>> \in Seq({x, y}) /\ Len(<<x, y>>) = 2
      /\ <<x, y>>[1] = x /\ <<x, y>>[2] = y
  OBVIOUS
<1>2. \A k \in 1 .. 2 : k = 1 \/ k = 2
  OBVIOUS
<1> QED BY <1>1, <1>2 DEF IsQueue

LEMMA QueueConcat ==
  ASSUME NEW rows, NEW certs, NEW s, NEW t,
         IsQueue(s, rows, certs), IsQueue(t, rows, certs)
  PROVE  IsQueue(s \o t, rows, certs)
<1>1. PICK S : s \in Seq(S)
  BY DEF IsQueue
<1>2. PICK T : t \in Seq(T)
  BY DEF IsQueue
<1>3. s \in Seq(S \cup T) /\ t \in Seq(S \cup T)
  BY <1>1, <1>2
<1>4. /\ s \o t \in Seq(S \cup T)
      /\ Len(s \o t) = Len(s) + Len(t) /\ Len(s) \in Nat /\ Len(t) \in Nat
      /\ \A k \in 1 .. Len(s \o t) :
           (s \o t)[k] = IF k <= Len(s) THEN s[k] ELSE t[k - Len(s)]
  BY <1>3
<1>5. ASSUME NEW k \in 1 .. Len(s \o t)
      PROVE  SoundStep((s \o t)[k], rows, certs)
  <2>1. CASE k <= Len(s)
    <3>1. k \in 1 .. Len(s)
      BY <2>1, <1>4
    <3> QED BY <3>1, <2>1, <1>4 DEF IsQueue
  <2>2. CASE ~(k <= Len(s))
    <3>1. k - Len(s) \in 1 .. Len(t)
      BY <2>2, <1>4
    <3> QED BY <3>1, <2>2, <1>4 DEF IsQueue
  <2> QED BY <2>1, <2>2
<1> QED BY <1>4, <1>5 DEF IsQueue

LEMMA QueueHeadTail ==
  ASSUME NEW rows, NEW certs, NEW q, IsQueue(q, rows, certs), q # <<>>
  PROVE  SoundStep(Head(q), rows, certs) /\ IsQueue(Tail(q), rows, certs)
<1>1. PICK S : q \in Seq(S)
  BY DEF IsQueue
<1>2. /\ Len(q) \in Nat \ {0} /\ Head(q) = q[1]
      /\ Tail(q) \in Seq(S) /\ Len(Tail(q)) = Len(q) - 1
      /\ \A k \in 1 .. Len(Tail(q)) : Tail(q)[k] = q[k + 1]
  BY <1>1
<1>3. SoundStep(Head(q), rows, certs)
  BY <1>2 DEF IsQueue
<1>4. ASSUME NEW k \in 1 .. Len(Tail(q))
      PROVE  SoundStep(Tail(q)[k], rows, certs)
  <2>1. k + 1 \in 1 .. Len(q)
    BY <1>2
  <2> QED BY <2>1, <1>2 DEF IsQueue
<1> QED BY <1>2, <1>3, <1>4 DEF IsQueue

-----------------------------------------------------------------------------
(* How the tables move on *)

Later(rows, new) ==
  \A i \in Ids :
    /\ rows[i].ver \in Nat /\ new[i].ver \in Nat
    /\ rows[i].ver <= new[i].ver
    /\ rows[i].ver = new[i].ver => rows[i].data = new[i].data
    /\ rows[i].st = "gone" => new[i].st = "gone"

CertsLater(certs, new) ==
  \A c \in Certificates :
    certs[c].st # "none" => /\ new[c].st # "none"
                            /\ new[c].domain = certs[c].domain

LEMMA HoldsLater ==
  ASSUME NEW certs, NEW new, CertsLater(certs, new), NEW c, NEW d,
         Holds(c, d, certs)
  PROVE  Holds(c, d, new)
BY DEF CertsLater, Holds

LEMMA ColumnsLater ==
  ASSUME NEW certs, NEW new, CertsLater(certs, new), NEW set, NEW d,
         SoundColumns(set, d, certs)
  PROVE  SoundColumns(set, d, new)
BY HoldsLater DEF SoundColumns

LEMMA StepLater ==
  ASSUME NEW rows, NEW rows2, Later(rows, rows2),
         NEW certs, NEW certs2, CertsLater(certs, certs2),
         NEW x, SoundStep(x, rows, certs)
  PROVE  SoundStep(x, rows2, certs2)
<1>1. ASSUME NEW w, SoundWrite(w, rows, certs)
      PROVE  SoundWrite(w, rows2, certs2)
  <2>1. SoundUpdate(w, rows2)
    BY <1>1 DEF SoundWrite, SoundUpdate, Later
  <2>2. SoundBind(w)
    BY <1>1 DEF SoundWrite
  <2>3. SoundInsert(w, certs2)
    BY <1>1, HoldsLater DEF SoundWrite, SoundInsert
  <2>4. SoundObserve(w, certs2)
    <3>1. SUFFICES ASSUME w.op = "observe"
                   PROVE  SoundObserve(w, certs2)
      BY DEF SoundObserve
    <3>2. /\ w.id \in Certificates /\ certs[w.id].st # "none"
          /\ SoundColumns(w.set, certs[w.id].domain, certs)
      BY <1>1, <3>1 DEF SoundWrite, SoundObserve
    <3>3. certs2[w.id].st # "none" /\ certs2[w.id].domain = certs[w.id].domain
      BY <3>2 DEF CertsLater
    <3> QED BY <3>2, <3>3, ColumnsLater DEF SoundObserve
  <2> QED BY <2>1, <2>2, <2>3, <2>4 DEF SoundWrite
<1> QED BY <1>1, HoldsLater, ColumnsLater DEF SoundStep

LEMMA QueueLater ==
  ASSUME NEW rows, NEW rows2, Later(rows, rows2),
         NEW certs, NEW certs2, CertsLater(certs, certs2),
         NEW q, IsQueue(q, rows, certs)
  PROVE  IsQueue(q, rows2, certs2)
BY StepLater DEF IsQueue

-----------------------------------------------------------------------------
(* The database *)

\* The private keys stay in their domain, those of deleted certificates too.
KeysHeld ==
  \A c \in Certificates :
    cert[c].st # "none" /\ cert[c].pem # None =>
      Holds(cert[c].pem, cert[c].domain, cert)

DatabaseInv == TypeOK /\ ImportedCertExists /\ KeysHeld

\* What every step does to the database
Moves ==
  /\ DatabaseInv'
  /\ Later(row, row') /\ CertsLater(cert, cert')
  /\ [Table!Next]_row

(* EXCEPT on the record of a row *)
LEMMA RowExcept ==
  ASSUME NEW R, R = [st |-> R.st, ver |-> R.ver, data |-> R.data],
         NEW st, NEW ver, NEW data
  PROVE  /\ [R EXCEPT !.st = st] = [st |-> st, ver |-> R.ver, data |-> R.data]
         /\ [R EXCEPT !.ver = ver, !.data = data]
              = [st |-> R.st, ver |-> ver, data |-> data]
<1> DEFINE Q == [R EXCEPT !.ver = ver]
<1>1. [R EXCEPT !.st = st] = [st |-> st, ver |-> R.ver, data |-> R.data]
  OBVIOUS
<1>2. [R EXCEPT !.ver = ver, !.data = data] = [Q EXCEPT !.data = data]
  OBVIOUS
<1>3. Q = [st |-> R.st, ver |-> ver, data |-> R.data]
  OBVIOUS
<1>4. /\ Q = [st |-> Q.st, ver |-> Q.ver, data |-> Q.data]
      /\ Q.st = R.st /\ Q.ver = ver
  BY <1>3
<1> HIDE DEF Q
<1>5. [Q EXCEPT !.data = data] = [st |-> Q.st, ver |-> Q.ver, data |-> data]
  BY <1>4
<1> QED BY <1>1, <1>2, <1>4, <1>5

LEMMA StaysMoves ==
  ASSUME DatabaseInv, UNCHANGED db
  PROVE  Moves
<1>1. row' = row /\ bind' = bind /\ cert' = cert
  BY DEF db
<1>2. DatabaseInv'
  BY <1>1 DEF DatabaseInv, TypeOK, ImportedCertExists, KeysHeld, Free,
              LiveCertificates
<1>3. Later(row, row') /\ CertsLater(cert, cert')
  BY <1>1 DEF DatabaseInv, TypeOK, IsDatabase, Later, CertsLater
<1> QED BY <1>1, <1>2, <1>3 DEF Moves

LEMMA InsertRowMoves ==
  ASSUME DatabaseInv, NEW w, InsertRow(w)
  PROVE  Moves
<1> USE DEF DatabaseInv
<1>1. /\ w.id \in Ids /\ row[w.id].st = "none"
      /\ row' = [row EXCEPT ![w.id] = [st |-> "live", ver |-> 1,
                                       data |-> w.set]]
      /\ bind' = bind /\ cert' = cert
  BY DEF InsertRow
<1>2. /\ DOMAIN row' = Ids
      /\ row'[w.id] = [st |-> "live", ver |-> 1, data |-> w.set]
      /\ \A i \in Ids \ {w.id} : row'[i] = row[i]
  BY <1>1 DEF TypeOK, IsDatabase
<1>3. TypeOK'
  BY <1>1, <1>2 DEF TypeOK, IsDatabase, States
<1>4. ImportedCertExists'
  <2>1. SUFFICES ASSUME NEW d \in Domains, row'[d].st # "none"
                 PROVE  row'[d].data.cert \in LiveCertificates \cup {None}
    BY <1>1 DEF ImportedCertExists, Free, LiveCertificates
  <2>2. CASE d = w.id
    <3>1. w.set.cert \in LiveCertificates \cup {None}
      BY <2>2 DEF InsertRow, Consistent
    <3> QED BY <3>1, <2>2, <1>2
  <2>3. CASE d # w.id
    <3>1. row'[d] = row[d]
      BY <2>3, <1>2 DEF Ids, Tables
    <3> QED BY <3>1, <2>1 DEF ImportedCertExists, Free
  <2> QED BY <2>2, <2>3
<1>5. KeysHeld'
  BY <1>1 DEF KeysHeld
<1>6. Later(row, row')
  BY <1>1, <1>2 DEF TypeOK, IsDatabase, Later
<1>7. CertsLater(cert, cert')
  BY <1>1 DEF CertsLater
<1>8. Table!Insert(w.id)
  BY <1>1, <1>2 DEF Table!Insert
<1> QED BY <1>1, <1>3, <1>4, <1>5, <1>6, <1>7, <1>8 DEF Moves, Table!Next

LEMMA UpdateMoves ==
  ASSUME DatabaseInv, NEW w, SoundUpdate(w, row), UpdateOptimistic(w)
  PROVE  Moves /\ row[w.id].data = w.base
<1> USE DEF DatabaseInv
<1> DEFINE new == Merge(row[w.id].data, w.set)
<1>1. /\ w.op = "update" /\ w.id \in Ids
      /\ row[w.id].ver = w.ver /\ row[w.id].ver # 0
      /\ row[w.id].data = w.base
      /\ row' = [row EXCEPT ![w.id] = Updated(w)]
      /\ bind' = bind /\ cert' = cert
  BY DEF UpdateOptimistic, CanUpdate, SoundUpdate
<1>2. Updated(w) = [st |-> row[w.id].st, ver |-> row[w.id].ver + 1,
                    data |-> new]
  <2>1. row[w.id] = [st |-> row[w.id].st, ver |-> row[w.id].ver,
                     data |-> row[w.id].data]
    BY <1>1 DEF TypeOK, IsDatabase
  <2>2. Updated(w) = [row[w.id] EXCEPT !.ver = row[w.id].ver + 1, !.data = new]
    BY DEF Updated
  <2> HIDE DEF new
  <2> QED BY <2>1, <2>2, RowExcept
<1>3. /\ DOMAIN row' = Ids
      /\ row'[w.id] = [st |-> row[w.id].st, ver |-> row[w.id].ver + 1,
                       data |-> new]
      /\ \A i \in Ids \ {w.id} : row'[i] = row[i]
  BY <1>1, <1>2 DEF TypeOK, IsDatabase
<1>4. /\ row[w.id].st \in States \ {"none"} /\ row[w.id].ver \in Nat
  BY <1>1 DEF TypeOK, IsDatabase
<1> HIDE DEF new
<1>5. TypeOK'
  <2>1. row'[w.id].ver \in Nat \ {0}
    BY <1>3, <1>4
  <2> QED BY <1>1, <1>3, <1>4, <2>1 DEF TypeOK, IsDatabase
<1>6. ImportedCertExists'
  <2>1. SUFFICES ASSUME NEW d \in Domains, row'[d].st # "none"
                 PROVE  row'[d].data.cert \in LiveCertificates \cup {None}
    BY <1>1 DEF ImportedCertExists, Free, LiveCertificates
  <2>2. CASE d = w.id
    <3>1. new.cert \in LiveCertificates \cup {None}
      BY <2>2 DEF UpdateOptimistic, CanUpdate, Consistent, new
    <3> QED BY <3>1, <2>2, <1>3
  <2>3. CASE d # w.id
    <3>1. row'[d] = row[d]
      BY <2>3, <1>3 DEF Ids, Tables
    <3> QED BY <3>1, <2>1 DEF ImportedCertExists, Free
  <2> QED BY <2>2, <2>3
<1>7. KeysHeld'
  BY <1>1 DEF KeysHeld
<1>8. Later(row, row')
  BY <1>1, <1>3, <1>4 DEF TypeOK, IsDatabase, Later
<1>9. CertsLater(cert, cert')
  BY <1>1 DEF CertsLater
<1>10. Table!Save(w.id)
  <2>1. row' = [row EXCEPT ![w.id] = [st |-> row[w.id].st,
                                      ver |-> row[w.id].ver + 1, data |-> new]]
    BY <1>1, <1>2
  <2>2. row[w.id] = [st |-> row[w.id].st, ver |-> row[w.id].ver,
                     data |-> row[w.id].data]
    BY <1>1 DEF TypeOK, IsDatabase
  <2>3. row'[w.id].data = new
    BY <1>3
  <2> QED BY <1>4, <2>1, <2>2, <2>3 DEF Table!Save
<1> QED BY <1>1, <1>5, <1>6, <1>7, <1>8, <1>9, <1>10 DEF Moves, Table!Next

LEMMA SoftDeleteMoves ==
  ASSUME DatabaseInv, NEW w, SoftDelete(w)
  PROVE  Moves
<1> USE DEF DatabaseInv
<1>1. /\ Owned(w.id) \subseteq {i \in Ids : row[i].st = "live"}
      /\ row' = [i \in Ids |->
                   IF i \in Owned(w.id) THEN [row[i] EXCEPT !.st = "gone"]
                   ELSE row[i]]
      /\ bind' = [r \in Routes |-> IF r = w.id THEN <<>> ELSE bind[r]]
      /\ cert' = cert
  BY DEF SoftDelete, Owned, Live, Having, Ids, Tables
<1>2. \A i \in Ids : row[i] = [st |-> row[i].st, ver |-> row[i].ver,
                               data |-> row[i].data]
  BY DEF TypeOK, IsDatabase
<1>3. /\ DOMAIN row' = Ids
      /\ \A i \in Owned(w.id) :
           row'[i] = [st |-> "gone", ver |-> row[i].ver, data |-> row[i].data]
      /\ \A i \in Ids \ Owned(w.id) : row'[i] = row[i]
  BY <1>1, <1>2, RowExcept
<1>4. TypeOK'
  <2>1. \A i \in Ids :
          LET R == row'[i]
          IN /\ R = [st |-> R.st, ver |-> R.ver, data |-> R.data]
             /\ R.st \in States /\ R.ver \in Nat
             /\ R.ver = 0 <=> R.st = "none"
    BY <1>1, <1>3 DEF TypeOK, IsDatabase, States
  <2>2. \A r \in Routes : \A i \in DOMAIN bind'[r] : bind'[r][i] \in Middlewares
    <3>1. ASSUME NEW r \in Routes, NEW i \in DOMAIN bind'[r]
          PROVE  bind'[r][i] \in Middlewares
      <4>1. r # w.id
        BY <1>1, <3>1
      <4> QED BY <4>1, <1>1, <3>1 DEF TypeOK, IsDatabase
    <3> QED BY <3>1
  <2> QED BY <1>1, <1>3, <2>1, <2>2 DEF TypeOK, IsDatabase
<1>5. ImportedCertExists'
  <2>1. \A d \in Domains : /\ row'[d].data = row[d].data
                           /\ row'[d].st # "none" => row[d].st # "none"
    BY <1>1, <1>3 DEF Ids, Tables
  <2> QED BY <1>1, <2>1 DEF ImportedCertExists, Free, LiveCertificates
<1>6. KeysHeld'
  BY <1>1 DEF KeysHeld
<1>7. Later(row, row')
  BY <1>1, <1>3 DEF TypeOK, IsDatabase, Later
<1>8. CertsLater(cert, cert')
  BY <1>1 DEF CertsLater
<1>9. Table!Remove
  BY <1>1, <1>3 DEF Table!Remove
<1> QED BY <1>4, <1>5, <1>6, <1>7, <1>8, <1>9 DEF Moves, Table!Next

LEMMA ReplaceMoves ==
  ASSUME DatabaseInv, NEW w, SoundBind(w), ReplaceMiddlewares(w)
  PROVE  Moves
<1> USE DEF DatabaseInv
<1>1. /\ bind' = [bind EXCEPT ![w.id] = w.set]
      /\ row' = row /\ cert' = cert
      /\ \A i \in DOMAIN w.set : w.set[i] \in Middlewares
  BY DEF ReplaceMiddlewares, SoundBind
<1>2. TypeOK'
  BY <1>1 DEF TypeOK, IsDatabase
<1>3. ImportedCertExists' /\ KeysHeld'
  BY <1>1 DEF ImportedCertExists, KeysHeld, Free, LiveCertificates
<1>4. Later(row, row') /\ CertsLater(cert, cert')
  BY <1>1 DEF TypeOK, IsDatabase, Later, CertsLater
<1> QED BY <1>1, <1>2, <1>3, <1>4 DEF Moves

(* A step that changes the certificates only: none leaves its domain, and    *)
(* those that domains name stay.                                             *)
LEMMA CertificatesMove ==
  ASSUME DatabaseInv, UNCHANGED <<row, bind>>,
         cert' \in [Certificates -> Certificate],
         CertsLater(cert, cert'), KeysHeld',
         \A d \in Domains \ Free(Domains) :
           row[d].data.cert \in LiveCertificates
             => row[d].data.cert \in LiveCertificates'
  PROVE  Moves
<1>1. TypeOK'
  BY DEF DatabaseInv, TypeOK, IsDatabase
<1>2. ImportedCertExists'
  BY DEF DatabaseInv, ImportedCertExists, Free
<1>3. Later(row, row')
  BY DEF DatabaseInv, TypeOK, IsDatabase, Later
<1> QED BY <1>1, <1>2, <1>3 DEF Moves, DatabaseInv

LEMMA InsertCertificateMoves ==
  ASSUME DatabaseInv, NEW w, SoundInsert(w, cert), InsertCertificate(w)
  PROVE  Moves
<1>1. /\ w.id \in Certificates /\ w.op \in {"insert", "restore"}
      /\ w.set \in Certificate /\ w.set.st = "live"
      /\ w.set.pem \in {None, w.id} \/ Holds(w.set.pem, w.set.domain, cert)
      /\ cert[w.id].st # "none" => /\ cert[w.id].st = "gone"
                                   /\ cert[w.id].domain = w.set.domain
      /\ cert' = [cert EXCEPT ![w.id] = w.set]
      /\ row' = row /\ bind' = bind
  BY DEF InsertCertificate, SoundInsert, Holds
<1>2. cert \in [Certificates -> Certificate]
  BY DEF DatabaseInv, TypeOK, IsDatabase
<1>3. /\ cert' \in [Certificates -> Certificate] /\ cert'[w.id] = w.set
      /\ \A c \in Certificates \ {w.id} : cert'[c] = cert[c]
  BY <1>1, <1>2
<1>4. CertsLater(cert, cert')
  BY <1>1, <1>3 DEF CertsLater
<1>5. KeysHeld'
  <2>1. SUFFICES ASSUME NEW c \in Certificates,
                        cert'[c].st # "none", cert'[c].pem # None
                 PROVE  Holds(cert'[c].pem, cert'[c].domain, cert')
    BY DEF KeysHeld
  <2>2. CASE c = w.id
    <3>1. CASE w.set.pem = w.id
      BY <3>1, <2>2, <1>1, <1>3 DEF Holds
    <3>2. CASE Holds(w.set.pem, w.set.domain, cert)
      BY <3>2, <2>2, <1>3, <1>4, HoldsLater
    <3> QED BY <3>1, <3>2, <2>1, <2>2, <1>1, <1>3
  <2>3. CASE c # w.id
    BY <2>1, <2>3, <1>3, <1>4, HoldsLater DEF DatabaseInv, KeysHeld
  <2> QED BY <2>2, <2>3
<1>6. \A c \in LiveCertificates : c \in LiveCertificates'
  BY <1>1, <1>3 DEF LiveCertificates
<1> QED BY <1>1, <1>3, <1>4, <1>5, <1>6, CertificatesMove

(* UPDATE of the columns of an observation *)
LEMMA MergeCertificate ==
  ASSUME NEW C \in Certificate, NEW set, NEW d, NEW certs,
         SoundColumns(set, d, certs)
  PROVE  /\ Merge(C, set) \in Certificate
         /\ Merge(C, set).st = C.st /\ Merge(C, set).domain = C.domain
         /\ \/ Merge(C, set).pem \in {C.pem, None}
            \/ Holds(Merge(C, set).pem, d, certs)
<1>1. /\ "source" \in DOMAIN set => set["source"] \in Sources
      /\ "pem" \in DOMAIN set =>
           set["pem"] \in Certificates \cup {None}
      /\ "st" \notin DOMAIN set /\ "domain" \notin DOMAIN set
  BY DEF SoundColumns, Holds
<1>2. DOMAIN C = {"st", "domain", "source", "pem"}
  BY DEF Certificate
<1>3. /\ Merge(C, set)["st"] = C["st"] /\ Merge(C, set)["domain"] = C["domain"]
      /\ Merge(C, set)["source"] \in Sources
      /\ Merge(C, set)["pem"] \in Certificates \cup {None}
      /\ Merge(C, set)["pem"] = C["pem"]
           \/ ("pem" \in DOMAIN set /\ Merge(C, set)["pem"] = set["pem"])
  BY <1>1, <1>2 DEF Merge, Certificate, Sources
<1>4. /\ DOMAIN Merge(C, set) = {"st", "domain", "source", "pem"}
      /\ Merge(C, set) = [c \in DOMAIN C |-> Merge(C, set)[c]]
  BY <1>2 DEF Merge
<1>5. Merge(C, set) \in Certificate
  BY <1>2, <1>3, <1>4 DEF Certificate, Sources
<1> QED BY <1>3, <1>5 DEF SoundColumns

LEMMA ObserveMoves ==
  ASSUME DatabaseInv, NEW w, SoundObserve(w, cert), ObserveCertificate(w)
  PROVE  Moves
<1>1. /\ w.id \in Certificates /\ cert[w.id].st # "none"
      /\ SoundColumns(w.set, cert[w.id].domain, cert)
      /\ row' = row /\ bind' = bind
  BY DEF ObserveCertificate, SoundObserve
<1>2. cert \in [Certificates -> Certificate]
  BY DEF DatabaseInv, TypeOK, IsDatabase
<1>3. CASE cert' = cert
  <2>1. UNCHANGED db
    BY <1>1, <1>3 DEF db
  <2> QED BY <2>1, StaysMoves
<1>4. CASE cert' = [cert EXCEPT ![w.id] = Merge(@, w.set)]
  <2> DEFINE new == Merge(cert[w.id], w.set)
  <2>1. /\ new \in Certificate
        /\ new.st = cert[w.id].st /\ new.domain = cert[w.id].domain
        /\ \/ new.pem \in {cert[w.id].pem, None}
           \/ Holds(new.pem, cert[w.id].domain, cert)
    BY <1>1, <1>2, MergeCertificate
  <2>2. cert' = [cert EXCEPT ![w.id] = new]
    BY <1>4
  <2> HIDE DEF new
  <2>3. /\ cert' \in [Certificates -> Certificate] /\ cert'[w.id] = new
        /\ \A c \in Certificates \ {w.id} : cert'[c] = cert[c]
    BY <2>1, <2>2, <1>1, <1>2
  <2>4. CertsLater(cert, cert')
    BY <2>1, <2>3 DEF CertsLater
  <2>5. KeysHeld'
    <3>1. SUFFICES ASSUME NEW c \in Certificates,
                          cert'[c].st # "none", cert'[c].pem # None
                   PROVE  Holds(cert'[c].pem, cert'[c].domain, cert)
      BY <2>4, HoldsLater DEF KeysHeld
    <3>2. CASE c = w.id
      BY <3>1, <3>2, <2>1, <2>3, <1>1 DEF DatabaseInv, KeysHeld
    <3>3. CASE c # w.id
      BY <3>1, <3>3, <2>3 DEF DatabaseInv, KeysHeld
    <3> QED BY <3>2, <3>3
  <2>6. \A c \in LiveCertificates : c \in LiveCertificates'
    BY <2>1, <2>3 DEF LiveCertificates
  <2> QED BY <1>1, <2>3, <2>4, <2>5, <2>6, CertificatesMove
<1> QED BY <1>3, <1>4 DEF ObserveCertificate

LEMMA DeleteCertificateMoves ==
  ASSUME DatabaseInv, NEW w, DeleteCertificate(w)
  PROVE  Moves
<1>1. /\ w.id \in Certificates /\ cert[w.id].st = "live"
      /\ Unreferenced(w.id)
      /\ cert' = [cert EXCEPT ![w.id].st = "gone"]
      /\ row' = row /\ bind' = bind
  BY DEF DeleteCertificate
<1>2. cert \in [Certificates -> Certificate]
  BY DEF DatabaseInv, TypeOK, IsDatabase
<1>3. /\ cert' \in [Certificates -> Certificate]
      /\ cert'[w.id].st = "gone"
      /\ cert'[w.id].domain = cert[w.id].domain
      /\ cert'[w.id].pem = cert[w.id].pem
      /\ \A c \in Certificates \ {w.id} : cert'[c] = cert[c]
  BY <1>1, <1>2 DEF Certificate, States
<1>4. CertsLater(cert, cert')
  BY <1>1, <1>3 DEF CertsLater
<1>5. KeysHeld'
  BY <1>1, <1>3, <1>4, HoldsLater DEF DatabaseInv, KeysHeld
<1>6. ASSUME NEW d \in Domains \ Free(Domains),
             row[d].data.cert \in LiveCertificates
      PROVE  row[d].data.cert \in LiveCertificates'
  BY <1>1, <1>3, <1>6 DEF LiveCertificates, Unreferenced
<1> QED BY <1>1, <1>3, <1>4, <1>5, <1>6, CertificatesMove

(* Every statement keeps the database, and an update changes what its        *)
(* requester has read.                                                       *)
LEMMA ExecuteMoves ==
  ASSUME DatabaseInv, NEW w, SoundWrite(w, row, cert), Execute(w)
  PROVE  /\ Moves
         /\ w.op = "update" => row[w.id].data = w.base
<1>1. CASE InsertRow(w)
  BY <1>1, InsertRowMoves DEF InsertRow
<1>2. CASE UpdateOptimistic(w)
  BY <1>2, UpdateMoves DEF SoundWrite
<1>3. CASE SoftDelete(w)
  BY <1>3, SoftDeleteMoves DEF SoftDelete
<1>4. CASE ReplaceMiddlewares(w)
  BY <1>4, ReplaceMoves DEF SoundWrite, ReplaceMiddlewares
<1>5. CASE InsertCertificate(w)
  BY <1>5, InsertCertificateMoves DEF SoundWrite, InsertCertificate
<1>6. CASE ObserveCertificate(w)
  BY <1>6, ObserveMoves DEF SoundWrite, ObserveCertificate
<1>7. CASE DeleteCertificate(w)
  BY <1>7, DeleteCertificateMoves DEF DeleteCertificate
<1> QED BY <1>1, <1>2, <1>3, <1>4, <1>5, <1>6, <1>7 DEF Execute

-----------------------------------------------------------------------------
(* Requests *)

RequestInv ==
  /\ DOMAIN req = Requests
  /\ \A p \in Requests : IsQueue(req[p], row, cert)

Inv == DatabaseInv /\ RequestInv

\* What a step of a request does
Steps ==
  /\ Inv' /\ Moves
  /\ \A p \in Requests :
       /\ req'[p] # req[p] /\ At(p, "statement")
       /\ Step(p).write.op = "update" /\ row' # row
       => row[Step(p).write.id].data = Step(p).write.base
  /\ UNCHANGED <<load, version, scope>>

(* The step of a request that does not execute a planned statement           *)
LEMMA OtherSteps ==
  ASSUME Inv, Moves, NEW p \in Requests, NEW q, IsQueue(q, row', cert'),
         req' = [req EXCEPT ![p] = q], UNCHANGED <<load, version, scope>>,
         ~At(p, "statement") \/ row' = row
  PROVE  Steps
<1>1. /\ DOMAIN req' = Requests /\ req'[p] = q
      /\ \A r \in Requests \ {p} : req'[r] = req[r]
  BY DEF Inv, RequestInv
<1>2. ASSUME NEW r \in Requests
      PROVE  IsQueue(req'[r], row', cert')
  <2>1. CASE r = p
    BY <2>1, <1>1
  <2>2. CASE r # p
    <3>1. IsQueue(req[r], row, cert)
      BY DEF Inv, RequestInv
    <3> QED BY <3>1, <2>2, <1>1, QueueLater DEF Moves
  <2> QED BY <2>1, <2>2
<1>3. RequestInv'
  BY <1>1, <1>2 DEF RequestInv
<1>4. Inv'
  BY <1>3 DEF Inv, Moves
<1> QED BY <1>1, <1>4 DEF Steps

LEMMA BeginSteps ==
  ASSUME Inv, NEW p \in Requests, NEW todo, IsQueue(todo, row, cert),
         Begin(p, todo)
  PROVE  Steps
<1>1. UNCHANGED db /\ row' = row /\ cert' = cert
  BY DEF Begin, db
<1>2. Moves
  BY <1>1, StaysMoves DEF Inv
<1> QED BY <1>1, <1>2, OtherSteps DEF Begin

(* p has a next step, which is sound, and so is what follows.                *)
LEMMA NextStep ==
  ASSUME Inv, NEW p \in Requests, NEW kind, At(p, kind)
  PROVE  /\ Step(p).do = kind
         /\ SoundStep(Step(p), row, cert)
         /\ IsQueue(Tail(req[p]), row, cert)
<1>1. IsQueue(req[p], row, cert) /\ req[p] # <<>> /\ Head(req[p]).do = kind
  BY DEF Inv, RequestInv, At
<1> QED BY <1>1, QueueHeadTail DEF Step

LEMMA GoSteps ==
  ASSUME Inv, Moves, NEW p \in Requests, NEW kind, At(p, kind),
         kind # "statement" \/ row' = row,
         NEW todo, IsQueue(todo, row, cert), Go(p, todo),
         UNCHANGED <<load, version, scope>>
  PROVE  Steps
<1>1. IsQueue(todo \o Tail(req[p]), row, cert)
  BY NextStep, QueueConcat
<1>2. IsQueue(todo \o Tail(req[p]), row', cert')
  BY <1>1, QueueLater DEF Moves
<1>3. ~At(p, "statement") \/ row' = row
  BY DEF At
<1> QED BY <1>2, <1>3, OtherSteps DEF Go

LEMMA StatementSteps ==
  ASSUME Inv, NEW p \in Requests, Statement(p)
  PROVE  Steps
<1> DEFINE w == Step(p).write
<1>1. SoundWrite(w, row, cert)
  BY NextStep DEF Statement, SoundStep
<1>2. Moves /\ (w.op = "update" => row[w.id].data = w.base)
  BY <1>1, ExecuteMoves DEF Statement, Inv
<1>3. IsQueue(<<>> \o Tail(req[p]), row', cert')
  BY <1>2, NextStep, QueueEmpty, QueueConcat, QueueLater DEF Statement, Moves
<1>4. /\ req' = [req EXCEPT ![p] = <<>> \o Tail(req[p])]
      /\ UNCHANGED <<load, version, scope>>
  BY DEF Statement, Go
<1>5. /\ DOMAIN req' = Requests /\ req'[p] = <<>> \o Tail(req[p])
      /\ \A r \in Requests \ {p} : req'[r] = req[r]
  BY <1>4 DEF Inv, RequestInv
<1>6. ASSUME NEW r \in Requests
      PROVE  IsQueue(req'[r], row', cert')
  <2>1. CASE r = p
    BY <2>1, <1>3, <1>5
  <2>2. CASE r # p
    <3>1. IsQueue(req[r], row, cert)
      BY DEF Inv, RequestInv
    <3> QED BY <3>1, <2>2, <1>2, <1>5, QueueLater DEF Moves
  <2> QED BY <2>1, <2>2
<1>7. Inv'
  BY <1>2, <1>5, <1>6 DEF Inv, RequestInv, Moves
<1> QED BY <1>2, <1>4, <1>5, <1>7 DEF Steps

LEMMA DropErrorSteps ==
  ASSUME Inv, NEW p \in Requests, DropError(p)
  PROVE  Steps
<1>1. UNCHANGED db /\ row' = row
  BY DEF DropError, db
<1>2. Moves
  BY <1>1, StaysMoves DEF Inv
<1> QED BY <1>1, <1>2, QueueEmpty, GoSteps DEF DropError

LEMMA RefuseSteps ==
  ASSUME Inv, NEW p \in Requests, Refuse(p)
  PROVE  Steps
<1>1. UNCHANGED db /\ row' = row
  BY DEF Refuse, db
<1>2. Moves
  BY <1>1, StaysMoves DEF Inv
<1> QED BY <1>1, <1>2, QueueEmpty, OtherSteps DEF Refuse

-----------------------------------------------------------------------------
(* The statements that handlers plan *)

LEMMA UpdateSound ==
  ASSUME DatabaseInv, NEW i \in Ids, Live(i), NEW set
  PROVE  SoundWrite(Update(i, set), row, cert)
<1>1. row[i].ver \in Nat \ {0}
  BY DEF DatabaseInv, TypeOK, IsDatabase, Live
<1> QED BY <1>1 DEF SoundWrite, SoundUpdate, SoundBind, SoundInsert,
                    SoundObserve, Update

LEMMA InsertSound ==
  ASSUME NEW i \in Ids, NEW data
  PROVE  SoundWrite(Insert(i, data), row, cert)
BY TablesAssumption DEF SoundWrite, SoundUpdate, SoundBind, SoundInsert,
                        SoundObserve, Insert

LEMMA UploadSound ==
  ASSUME NEW c \in Certificates, NEW d \in Domains \cup {None}
  PROVE  SoundWrite(Insert(c, Uploaded(c, d)), row, cert)
BY DEF SoundWrite, SoundUpdate, SoundBind, SoundInsert, SoundObserve, Insert,
       Uploaded, Certificate, States

LEMMA DeleteSound ==
  ASSUME NEW i
  PROVE  SoundWrite(Delete(i), row, cert)
BY DEF SoundWrite, SoundUpdate, SoundBind, SoundInsert, SoundObserve, Delete

LEMMA BindSound ==
  ASSUME NEW r, NEW mws, \A i \in DOMAIN mws : mws[i] \in Middlewares
  PROVE  SoundWrite(Bind(r, mws), row, cert)
BY DEF SoundWrite, SoundUpdate, SoundBind, SoundInsert, SoundObserve, Bind

LEMMA DoSound ==
  ASSUME NEW w, SoundWrite(w, row, cert)
  PROVE  /\ SoundStep(Do(w), row, cert) /\ SoundStep(Try(w), row, cert)
         /\ IsQueue(<<Do(w)>>, row, cert) /\ IsQueue(<<Try(w)>>, row, cert)
<1>1. SoundStep(Do(w), row, cert) /\ SoundStep(Try(w), row, cert)
  BY DEF SoundStep, Do, Try
<1> QED BY <1>1, QueueOne

LEMMA PlansSound ==
  ASSUME DatabaseInv, NEW i \in Ids, NEW set
  PROVE  /\ Live(i) => /\ IsQueue(<<Do(Update(i, set))>>, row, cert)
                       /\ IsQueue(<<Try(Update(i, set))>>, row, cert)
         /\ IsQueue(<<Do(Insert(i, set))>>, row, cert)
         /\ IsQueue(<<Do(Delete(i))>>, row, cert)
BY DoSound, UpdateSound, InsertSound, DeleteSound

\* A step that is no statement, none that secures its headers and no
\* observation
LEMMA PlainSound ==
  ASSUME NEW x, x.do \notin {"statement", "headers", "observe"}
  PROVE  SoundStep(x, row, cert)
BY DEF SoundStep

LEMMA IdsAre ==
  /\ Domains \subseteq Ids /\ Services \subseteq Ids /\ Targets \subseteq Ids
  /\ Middlewares \subseteq Ids /\ Credentials \subseteq Ids
  /\ Routes \subseteq Ids
BY DEF Ids, Tables

LEMMA HavingLive ==
  ASSUME NEW S, NEW i
  PROVE  /\ i \in Having(S) => i \in S /\ Live(i)
         /\ i \in OnNode(S) => i \in S /\ Live(i)
         /\ i \in Free(S) => i \in S
BY DEF Having, OnNode, Free

-----------------------------------------------------------------------------
(* What arrives *)

\* The shape of every request that arrives
Arrived(p) == \E todo : IsQueue(todo, row, cert) /\ Begin(p, todo)

LEMMA DomainArrives ==
  ASSUME DatabaseInv, NEW p, DomainRequest(p)
  PROVE  Arrived(p)
<1> USE IdsAre, HavingLive, PlansSound
<1>1. CASE DomainCreate(p)
  BY <1>1 DEF DomainCreate, Arrived
<1>2. CASE DomainUpdate(p)
  BY <1>2 DEF DomainUpdate, Arrived
<1>3. CASE DomainSetEnabled(p)
  BY <1>3 DEF DomainSetEnabled, Arrived
<1>4. CASE DomainDelete(p)
  BY <1>4 DEF DomainDelete, Arrived
<1> QED BY <1>1, <1>2, <1>3, <1>4 DEF DomainRequest

LEMMA ServiceArrives ==
  ASSUME DatabaseInv, NEW p, ServiceRequest(p)
  PROVE  Arrived(p)
<1> USE IdsAre, HavingLive, PlansSound
<1>1. CASE ServiceCreate(p)
  BY <1>1 DEF ServiceCreate, Arrived
<1>2. CASE ServiceUpdate(p)
  BY <1>2 DEF ServiceUpdate, Arrived
<1>3. CASE SetServiceEnabled(p)
  BY <1>3 DEF SetServiceEnabled, Arrived
<1>4. CASE ServiceDelete(p)
  BY <1>4 DEF ServiceDelete, Arrived
<1> QED BY <1>1, <1>2, <1>3, <1>4 DEF ServiceRequest

LEMMA TargetArrives ==
  ASSUME DatabaseInv, NEW p, TargetRequest(p) \/ HealthProbe(p)
  PROVE  Arrived(p)
<1> USE IdsAre, HavingLive, PlansSound
<1>1. CASE AddTarget(p)
  BY <1>1 DEF AddTarget, Arrived
<1>2. CASE UpdateTarget(p)
  BY <1>2 DEF UpdateTarget, Arrived
<1>3. CASE SetTargetEnabled(p)
  BY <1>3 DEF SetTargetEnabled, Arrived
<1>4. CASE DeleteTarget(p)
  BY <1>4 DEF DeleteTarget, Arrived
<1>5. CASE HealthProbe(p)
  BY <1>5 DEF HealthProbe, Arrived
<1> QED BY <1>1, <1>2, <1>3, <1>4, <1>5 DEF TargetRequest

LEMMA MiddlewareArrives ==
  ASSUME DatabaseInv, NEW p, MiddlewareRequest(p)
  PROVE  Arrived(p)
<1> USE IdsAre, HavingLive, PlansSound
<1>1. CASE MiddlewareCreate(p)
  BY <1>1 DEF MiddlewareCreate, Arrived
<1>2. CASE MiddlewareUpdate(p)
  BY <1>2 DEF MiddlewareUpdate, Arrived
<1>3. CASE MiddlewareSetEnabled(p)
  BY <1>3 DEF MiddlewareSetEnabled, Arrived
<1>4. CASE MiddlewareDelete(p)
  BY <1>4 DEF MiddlewareDelete, Arrived
<1> QED BY <1>1, <1>2, <1>3, <1>4 DEF MiddlewareRequest

LEMMA CredentialArrives ==
  ASSUME DatabaseInv, NEW p, CredentialRequest(p)
  PROVE  Arrived(p)
<1> USE IdsAre, HavingLive, PlansSound
<1>1. CASE CredentialCreate(p)
  BY <1>1 DEF CredentialCreate, Arrived
<1>2. CASE Rotate(p)
  BY <1>2 DEF Rotate, Arrived
<1>3. CASE CredentialDelete(p)
  BY <1>3 DEF CredentialDelete, Arrived
<1> QED BY <1>1, <1>2, <1>3 DEF CredentialRequest

(* A certificate that is still to be inserted                                *)
LEMMA UploadPlan ==
  ASSUME NEW c \in FreeCertificates, NEW d \in Domains \cup {None}
  PROVE  /\ SoundStep(Do(Insert(c, Uploaded(c, d))), row, cert)
         /\ IsQueue(<<Do(Insert(c, Uploaded(c, d)))>>, row, cert)
         /\ IsQueue(<<Try(Insert(c, Uploaded(c, d)))>>, row, cert)
<1>1. c \in Certificates
  BY DEF FreeCertificates
<1> QED BY <1>1, UploadSound, DoSound

LEMMA ObservationPlan ==
  ASSUME NEW d \in Domains \cup {None}, NEW c, NEW set,
         SoundColumns(set, d, cert), c # None => Holds(c, d, cert)
  PROVE  IsQueue(Observation(d, c, set), row, cert)
<1> DEFINE x == [do |-> "observe", domain |-> d, id |-> c, set |-> set]
<1>1. /\ x.do = "observe" /\ x.domain = d /\ x.id = c /\ x.set = set
  OBVIOUS
<1> HIDE DEF x
<1>2. SoundStep(x, row, cert)
  BY <1>1 DEF SoundStep
<1>3. Observation(d, c, set) = <<x>>
  BY DEF Observation, x
<1> QED BY <1>2, <1>3, QueueOne

LEMMA CertificateArrives ==
  ASSUME DatabaseInv, NEW p, CertificateRequest(p) \/ Watch(p)
  PROVE  Arrived(p)
<1>1. CASE Import(p)
  <2>1. PICK d \in Having(Domains), c \in FreeCertificates :
          Begin(p, <<Do(Insert(c, Uploaded(c, d))), Do(SwitchPolicy(d, c))>>)
    BY <1>1 DEF Import
  <2>2. SoundStep(Do(SwitchPolicy(d, c)), row, cert)
    BY UpdateSound, DoSound, HavingLive, IdsAre DEF SwitchPolicy
  <2> QED BY <2>1, <2>2, UploadPlan, HavingLive, QueueTwo DEF Arrived
<1>2. CASE CreateCustom(p)
  <2>1. PICK c \in FreeCertificates, d \in Domains \cup {None} :
          Begin(p, <<Do(Insert(c, Uploaded(c, d))),
                     [do |-> "attach", domain |-> d, cert |-> c]>>)
    BY <1>2 DEF CreateCustom
  <2>2. SoundStep([do |-> "attach", domain |-> d, cert |-> c], row, cert)
    BY PlainSound
  <2> QED BY <2>1, <2>2, UploadPlan, QueueTwo DEF Arrived
<1>3. CASE CertificateDelete(p)
  BY <1>3, DeleteSound, DoSound DEF CertificateDelete, Arrived
<1>4. CASE ProbeCertificate(p)
  <2>1. PICK c \in LiveCertificates :
          Begin(p, Observation(cert[c].domain, c,
                     IF cert[c].pem = None THEN [source |-> cert[c].source]
                     ELSE [source |-> cert[c].source, pem |-> cert[c].pem]))
    BY <1>4 DEF ProbeCertificate
  <2>2. /\ c \in Certificates /\ cert[c].st # "none"
        /\ cert[c] \in Certificate
    BY DEF LiveCertificates, DatabaseInv, TypeOK, IsDatabase
  <2>3. /\ cert[c].domain \in Domains \cup {None} /\ cert[c].source \in Sources
        /\ Holds(c, cert[c].domain, cert)
    BY <2>2 DEF Certificate, Sources, Holds
  <2>4. CASE cert[c].pem = None
    <3>1. SoundColumns([source |-> cert[c].source], cert[c].domain, cert)
      BY <2>3 DEF SoundColumns
    <3> QED BY <3>1, <2>1, <2>3, <2>4, ObservationPlan DEF Arrived
  <2>5. CASE cert[c].pem # None
    <3>1. Holds(cert[c].pem, cert[c].domain, cert)
      BY <2>2, <2>5 DEF DatabaseInv, KeysHeld
    <3>2. SoundColumns([source |-> cert[c].source, pem |-> cert[c].pem],
                       cert[c].domain, cert)
      BY <3>1, <2>3 DEF SoundColumns
    <3> QED BY <3>2, <2>1, <2>3, <2>5, ObservationPlan DEF Arrived
  <2> QED BY <2>4, <2>5
<1>5. CASE Watch(p)
  <2>1. PICK d \in Having(Domains), s \in Sources :
          Begin(p, Observation(d, None, [source |-> s]))
    BY <1>5 DEF Watch, Sources
  <2>2. SoundColumns([source |-> s], d, cert)
    BY DEF SoundColumns
  <2> QED BY <2>1, <2>2, HavingLive, ObservationPlan DEF Arrived
<1> QED BY <1>1, <1>2, <1>3, <1>4, <1>5 DEF CertificateRequest

LEMMA BindPlan ==
  ASSUME NEW r, NEW mws
  PROVE  IsQueue(BindMiddlewares(r, mws), row, cert)
<1>1. SoundStep([do |-> "bind", route |-> r, mws |-> mws], row, cert)
  BY PlainSound
<1> QED BY <1>1, QueueOne DEF BindMiddlewares

LEMMA RouteArrives ==
  ASSUME DatabaseInv, NEW p, RouteRequest(p)
  PROVE  Arrived(p)
<1> USE IdsAre, HavingLive, PlansSound
<1>1. CASE RouteCreate(p)
  <2>1. PICK r \in Free(Routes), columns \in RouteColumns, mws \in Bindings :
          Begin(p, <<Do(Insert(r, RouteRow(columns, "draft")))>>
                     \o IF mws = <<>> THEN <<>> ELSE BindMiddlewares(r, mws))
    BY <1>1 DEF RouteCreate
  <2>2. IsQueue(IF mws = <<>> THEN <<>> ELSE BindMiddlewares(r, mws), row, cert)
    BY BindPlan, QueueEmpty
  <2> QED BY <2>1, <2>2, QueueConcat DEF Arrived
<1>2. CASE RouteUpdate(p)
  <2>1. PICK r \in OnNode(Routes), columns \in RouteColumns, mws \in Bindings,
             given \in BOOLEAN :
          Begin(p, <<Do(Update(r, columns))>>
                     \o IF given THEN BindMiddlewares(r, mws) ELSE <<>>)
    BY <1>2 DEF RouteUpdate
  <2>2. IsQueue(IF given THEN BindMiddlewares(r, mws) ELSE <<>>, row, cert)
    BY BindPlan, QueueEmpty
  <2> QED BY <2>1, <2>2, QueueConcat DEF Arrived
<1>3. CASE RouteSetStatus(p)
  BY <1>3 DEF RouteSetStatus, Arrived
<1>4. CASE RouteDelete(p)
  BY <1>4 DEF RouteDelete, Arrived
<1> QED BY <1>1, <1>2, <1>3, <1>4 DEF RouteRequest

LEMMA UploadFirstPlan ==
  ASSUME NEW tls, NEW lax \in BOOLEAN
  PROVE  IsQueue(UploadFirst(tls, lax), row, cert)
BY UploadPlan, QueueEmpty DEF UploadFirst

LEMMA ProxyArrives ==
  ASSUME DatabaseInv, NEW p, ProxyRequest(p)
  PROVE  Arrived(p)
<1> USE IdsAre, HavingLive, PlansSound
<1>1. CASE ProxyCreate(p)
  <2>1. PICK tls, x : /\ x.do = "domain"
                      /\ Begin(p, UploadFirst(tls, FALSE) \o <<x>>)
    BY <1>1 DEF ProxyCreate
  <2>2. IsQueue(<<x>>, row, cert)
    BY <2>1, PlainSound, QueueOne
  <2> QED BY <2>1, <2>2, UploadFirstPlan, QueueConcat DEF Arrived
<1>2. CASE ProxyUpdate(p)
  <2>1. PICK r \in Having(Routes), n \in NamesFor.proxy,
             tls \in ProxyTls(FreeCertificates), u \in Values, secure \in BOOLEAN :
          LET R == row[r].data
              d == R.domain
              policy == IF d \notin Having(Domains) THEN <<>>
                        ELSE UploadFirst(tls, TRUE)
                               \o <<Try(Update(d, ProxyPolicy(tls)))>>
          IN Begin(p, policy
                   \o <<[do |-> "address", service |-> R.service, url |-> u],
                        [do |-> "headers", name |-> n, secure |-> secure,
                         write |-> Update(r, [https |-> tls.policy # "off"])]>>)
    BY <1>2 DEF ProxyUpdate
  <2> DEFINE R == row[r].data
             policy == IF R.domain \notin Having(Domains) THEN <<>>
                       ELSE UploadFirst(tls, TRUE)
                              \o <<Try(Update(R.domain, ProxyPolicy(tls)))>>
             a == [do |-> "address", service |-> R.service, url |-> u]
             w == Update(r, [https |-> tls.policy # "off"])
             x == [do |-> "headers", name |-> n, secure |-> secure, write |-> w]
  <2>2. IsQueue(policy, row, cert)
    BY UploadFirstPlan, QueueEmpty, QueueConcat
  <2>3. SoundStep(a, row, cert)
    BY PlainSound
  <2>4. SoundWrite(w, row, cert)
    BY UpdateSound
  <2>5. x.do = "headers" /\ x.write = w
    OBVIOUS
  <2>6. Begin(p, policy \o <<a, x>>)
    BY <2>1
  <2> HIDE DEF policy, a, w, x
  <2>7. SoundStep(x, row, cert)
    BY <2>4, <2>5 DEF SoundStep
  <2> QED BY <2>2, <2>3, <2>6, <2>7, QueueTwo, QueueConcat DEF Arrived
<1>3. CASE ProxySetEnabled(p)
  BY <1>3 DEF ProxySetEnabled, Arrived
<1>4. CASE ProxyDelete(p)
  BY <1>4 DEF ProxyDelete, Arrived
<1> QED BY <1>1, <1>2, <1>3, <1>4 DEF ProxyRequest

LEMMA ArriveSteps ==
  ASSUME Inv, NEW p \in Requests, Arrive(p)
  PROVE  Steps
<1>1. Arrived(p)
  BY DomainArrives, ServiceArrives, TargetArrives, MiddlewareArrives,
     CredentialArrives, CertificateArrives, RouteArrives, ProxyArrives
     DEF Arrive, Inv
<1> QED BY <1>1, BeginSteps DEF Arrived

-----------------------------------------------------------------------------
(* What goes on *)

(* A step that plans other steps and leaves the database alone               *)
LEMMA PlanSteps ==
  ASSUME Inv, NEW p \in Requests, NEW kind, At(p, kind),
         NEW todo, IsQueue(todo, row, cert), Go(p, todo),
         UNCHANGED <<db, load, version, scope>>
  PROVE  Steps
<1>1. Moves /\ row' = row
  BY StaysMoves DEF Inv, db
<1> QED BY <1>1, GoSteps

LEMMA AttachSteps ==
  ASSUME Inv, NEW p \in Requests, Attach(p)
  PROVE  Steps
<1> DEFINE d == Step(p).domain
           todo == IF d \in Having(Domains)
                   THEN <<Try(SwitchPolicy(d, Step(p).cert))>> ELSE <<>>
<1>1. IsQueue(todo, row, cert)
  BY UpdateSound, DoSound, QueueEmpty, HavingLive, IdsAre DEF SwitchPolicy, Inv
<1> QED BY <1>1, PlanSteps DEF Attach

LEMMA BindCheckSteps ==
  ASSUME Inv, NEW p \in Requests, BindCheck(p)
  PROVE  Steps
<1> DEFINE mws == Step(p).mws
<1>1. \A i \in DOMAIN mws : mws[i] \in Middlewares
  BY HavingLive DEF BindCheck
<1>2. IsQueue(<<Do(Bind(Step(p).route, mws))>>, row, cert)
  BY <1>1, BindSound, DoSound
<1> QED BY <1>2, PlanSteps DEF BindCheck

LEMMA UpsertObservedSteps ==
  ASSUME Inv, NEW p \in Requests, UpsertObserved(p)
  PROVE  Steps
<1> DEFINE x == Step(p)
           d == x.domain
           seed == [st |-> "live", domain |-> d, source |-> None, pem |-> None]
           new == Merge(seed, x.set)
<1>1. /\ At(p, "observe")
      /\ d \in Domains \cup {None} /\ SoundColumns(x.set, d, cert)
      /\ x.id # None => Holds(x.id, d, cert)
  BY NextStep DEF UpsertObserved, SoundStep
<1>2. UNCHANGED <<db, load, version, scope>>
  BY DEF UpsertObserved
<1>3. ASSUME NEW c \in ByDomain(d),
             Go(p, <<Try([op |-> "observe", id |-> c, set |-> x.set])>>)
      PROVE  Steps
  <2> DEFINE w == [op |-> "observe", id |-> c, set |-> x.set]
  <2>1. c \in Certificates /\ cert[c].st # "none" /\ cert[c].domain = d
    BY DEF ByDomain, LiveCertificates
  <2>2. SoundWrite(w, row, cert)
    BY <1>1, <2>1 DEF SoundWrite, SoundUpdate, SoundBind, SoundInsert,
                      SoundObserve
  <2> QED BY <2>2, <1>1, <1>2, <1>3, DoSound, PlanSteps
<1>4. ASSUME NEW c \in IF x.id = None THEN FreeCertificates ELSE {x.id},
             Go(p, <<Try([op |-> IF x.id = None THEN "insert" ELSE "restore",
                          id |-> c, set |-> new])>>)
      PROVE  Steps
  <2> DEFINE op == IF x.id = None THEN "insert" ELSE "restore"
             w == [op |-> op, id |-> c, set |-> new]
  <2>1. seed \in Certificate /\ seed.st = "live" /\ seed.pem = None
        /\ seed.domain = d
    BY <1>1 DEF Certificate, States
  <2> HIDE DEF seed
  <2>2. /\ new \in Certificate /\ new.st = "live" /\ new.domain = d
        /\ new.pem = None \/ Holds(new.pem, d, cert)
    BY <1>1, <2>1, MergeCertificate
  <2> HIDE DEF new
  <2>3. op = "restore" => Holds(c, d, cert)
    BY <1>1, <1>4
  <2>4. op \in {"insert", "restore"} /\ w.op = op /\ w.id = c /\ w.set = new
    OBVIOUS
  <2>5. Go(p, <<Try(w)>>)
    BY <1>4
  <2> HIDE DEF op, w
  <2>6. SoundWrite(w, row, cert)
    BY <2>2, <2>3, <2>4 DEF SoundWrite, SoundUpdate, SoundBind, SoundInsert,
                            SoundObserve
  <2> QED BY <2>5, <2>6, <1>1, <1>2, DoSound, PlanSteps
<1> QED BY <1>3, <1>4 DEF UpsertObserved

-----------------------------------------------------------------------------
(* Proxy hosts go on *)

LEMMA ProxyDomainSteps ==
  ASSUME Inv, NEW p \in Requests, ProxyDomain(p)
  PROVE  Steps
<1> DEFINE in == Step(p)
           found == ByName(Domains, in.name)
           upstream(d) == [do |-> "upstream", in |-> in, domain |-> d]
<1>1. At(p, "domain") /\ UNCHANGED <<db, load, version, scope>>
  BY DEF ProxyDomain
<1>2. \A d : SoundStep(upstream(d), row, cert)
  BY PlainSound
<1>3. ASSUME NEW d \in found, Go(p, <<Try(Update(d, in.tls)), upstream(d)>>)
      PROVE  Steps
  <2>1. SoundStep(Try(Update(d, in.tls)), row, cert)
    BY UpdateSound, DoSound, HavingLive, IdsAre DEF ByName, Inv
  <2>2. IsQueue(<<Try(Update(d, in.tls)), upstream(d)>>, row, cert)
    BY <2>1, <1>2, QueueTwo
  <2> QED BY <2>2, <1>1, <1>3, PlanSteps
<1>4. ASSUME NEW d \in Free(Domains),
             Go(p, <<Do(Insert(d, DomainRow(in.name, in.tls, in.tls.cert))),
                     upstream(d)>>)
      PROVE  Steps
  <2> DEFINE data == DomainRow(in.name, in.tls, in.tls.cert)
  <2>1. SoundStep(Do(Insert(d, data)), row, cert)
    BY InsertSound, DoSound, HavingLive, IdsAre
  <2>2. IsQueue(<<Do(Insert(d, data)), upstream(d)>>, row, cert)
    BY <2>1, <1>2, QueueTwo
  <2> QED BY <2>2, <1>1, <1>4, PlanSteps
<1> QED BY <1>3, <1>4 DEF ProxyDomain

LEMMA HeadersSound ==
  ASSUME NEW in, NEW d, NEW s
  PROVE  SoundStep(HeadersStep(in, d, s), row, cert)
<1> DEFINE w == [op |-> "route", in |-> in, domain |-> d, service |-> s]
<1>1. SoundWrite(w, row, cert)
  BY DEF SoundWrite, SoundUpdate, SoundBind, SoundInsert, SoundObserve
<1>2. HeadersStep(in, d, s).do = "headers" /\ HeadersStep(in, d, s).write = w
  BY DEF HeadersStep
<1> QED BY <1>1, <1>2 DEF SoundStep

LEMMA ProxyServiceSteps ==
  ASSUME Inv, NEW p \in Requests, ProxyService(p)
  PROVE  Steps
<1> DEFINE x == HeadersStep(Step(p).in, Step(p).domain, Step(p).in.service)
<1>1. IsQueue(<<x>>, row, cert)
  BY HeadersSound, QueueOne
<1> QED BY <1>1, PlanSteps DEF ProxyService

LEMMA ProxyUpstreamSteps ==
  ASSUME Inv, NEW p \in Requests, ProxyUpstream(p)
  PROVE  Steps
<1>1. PICK s, t, u, data :
        /\ s \in Free(Services) /\ t \in Free(Targets)
        /\ InsertRow(Insert(s, data))
        /\ Go(p, <<Do(Insert(t, [service |-> s, url |-> u, on |-> TRUE])),
                   HeadersStep(Step(p).in, Step(p).domain, s)>>)
  BY DEF ProxyUpstream
<1>2. At(p, "upstream") /\ UNCHANGED <<load, version, scope>>
  BY DEF ProxyUpstream
<1>3. Moves
  BY <1>1, InsertRowMoves DEF Inv
<1> DEFINE row0 == [service |-> s, url |-> u, on |-> TRUE]
<1>4. SoundStep(Do(Insert(t, row0)), row, cert)
  BY <1>1, InsertSound, DoSound, HavingLive, IdsAre
<1>5. IsQueue(<<Do(Insert(t, row0)),
                HeadersStep(Step(p).in, Step(p).domain, s)>>, row, cert)
  BY <1>4, HeadersSound, QueueTwo
<1> QED BY <1>1, <1>2, <1>3, <1>5, GoSteps

LEMMA ProxyAddressSteps ==
  ASSUME Inv, NEW p \in Requests, ProxyAddress(p)
  PROVE  Steps
<1>1. At(p, "address") /\ UNCHANGED <<db, load, version, scope>>
  BY DEF ProxyAddress
<1>2. ASSUME NEW t \in Having(Targets), NEW set, Go(p, <<Try(Update(t, set))>>)
      PROVE  Steps
  BY <1>1, <1>2, PlansSound, HavingLive, IdsAre, PlanSteps DEF Inv
<1>3. ASSUME Go(p, <<>>)
      PROVE  Steps
  BY <1>1, <1>3, QueueEmpty, PlanSteps
<1> QED BY <1>2, <1>3 DEF ProxyAddress

(* The last steps of a proxy host, with the middlewares mws                  *)
LEMMA WriteProxySteps ==
  ASSUME Inv, NEW p \in Requests, At(p, "headers"), Moves,
         NEW mws, \A i \in DOMAIN mws : mws[i] \in Middlewares,
         WriteProxy(p, mws), UNCHANGED <<load, version, scope>>
  PROVE  Steps
<1> DEFINE w == Step(p).write
           bound(r) == IF mws = <<>> THEN <<>> ELSE <<Try(Bind(r, mws))>>
<1>1. SoundWrite(w, row, cert)
  BY NextStep DEF SoundStep
<1>2. \A r : IsQueue(bound(r), row, cert)
  BY BindSound, DoSound, QueueEmpty
<1>3. CASE Go(p, <<Do(w)>> \o bound(w.id))
  <2>1. IsQueue(<<Do(w)>> \o bound(w.id), row, cert)
    BY <1>1, <1>2, DoSound, QueueConcat
  <2> QED BY <2>1, <1>3, GoSteps
<1>4. ASSUME NEW r \in Free(Routes), Go(p, <<Do(ProxyRoute(r, w))>> \o bound(r))
      PROVE  Steps
  <2>1. SoundWrite(ProxyRoute(r, w), row, cert)
    BY InsertSound, HavingLive, IdsAre DEF ProxyRoute
  <2>2. IsQueue(<<Do(ProxyRoute(r, w))>> \o bound(r), row, cert)
    BY <2>1, <1>2, DoSound, QueueConcat
  <2> QED BY <2>2, <1>4, GoSteps
<1> QED BY <1>3, <1>4 DEF WriteProxy

LEMMA HeadersSteps ==
  ASSUME Inv, NEW p \in Requests, MakeHeaders(p) \/ FindHeaders(p) \/ NoHeaders(p)
  PROVE  Steps
<1>1. ASSUME NEW w \in Middlewares
      PROVE  \A i \in DOMAIN <<w>> : <<w>>[i] \in Middlewares
  BY <1>1
<1>2. CASE MakeHeaders(p)
  <2>1. PICK w, data :
          /\ w \in Free(Middlewares)
          /\ InsertRow(Insert(w, data)) /\ WriteProxy(p, <<w>>)
    BY <1>2 DEF MakeHeaders
  <2>2. Moves
    BY <2>1, InsertRowMoves DEF Inv
  <2>3. At(p, "headers") /\ UNCHANGED <<load, version, scope>>
    BY <1>2 DEF MakeHeaders
  <2> QED BY <2>1, <2>2, <2>3, <1>1, HavingLive, WriteProxySteps
<1>3. CASE FindHeaders(p)
  <2>1. /\ At(p, "headers") /\ UNCHANGED <<load, version, scope>>
        /\ UNCHANGED db
        /\ \E w \in Middlewares : WriteProxy(p, <<w>>)
    BY <1>3, HavingLive DEF FindHeaders, ByName
  <2> QED BY <2>1, <1>1, StaysMoves, WriteProxySteps DEF Inv
<1>4. CASE NoHeaders(p)
  <2>1. /\ At(p, "headers") /\ UNCHANGED <<load, version, scope>>
        /\ UNCHANGED db /\ WriteProxy(p, <<>>)
    BY <1>4 DEF NoHeaders
  <2>2. \A i \in DOMAIN <<>> : <<>>[i] \in Middlewares
    OBVIOUS
  <2> QED BY <2>1, <2>2, StaysMoves, WriteProxySteps DEF Inv
<1> QED BY <1>2, <1>3, <1>4

LEMMA ProceedSteps ==
  ASSUME Inv, NEW p \in Requests, Proceed(p)
  PROVE  Steps
BY StatementSteps, DropErrorSteps, RefuseSteps, AttachSteps,
   UpsertObservedSteps, BindCheckSteps, ProxyDomainSteps, ProxyServiceSteps,
   ProxyUpstreamSteps, ProxyAddressSteps, HeadersSteps DEF Proceed, ProxyStep

-----------------------------------------------------------------------------
(* The graph that is loaded *)

LoadTyped ==
  /\ DOMAIN load = {"pc", "g", "gone", "steady", "left"}
  /\ DOMAIN load.g = {"domains", "services", "targets", "routes", "bind",
                      "middlewares"}

\* What was deleted before is not in the graph.
GoneInv ==
  /\ load.gone \subseteq Gone
  /\ \A k \in {"services", "middlewares", "routes"} :
       DOMAIN load.g[k] \cap load.gone = {}

\* A route that was enabled and that nobody changed since is in the graph
\* once the routes are read.
SteadyInv ==
  \A x \in load.steady :
    /\ x[1] \in Routes /\ NodeOf[x[1]] = Node
    /\ x[2] \in Nat \ {0} /\ x[2] <= row[x[1]].ver
    /\ row[x[1]].ver = x[2] =>
         /\ row[x[1]].data.status = "enabled"
         /\ Live(x[1]) /\ load.pc \in {"bindings", "middlewares", "targets"} =>
              x[1] \in Enabled(load.g)

LoadInv == LoadTyped /\ GoneInv /\ SteadyInv

VersionInv == PublishedClosed /\ DeletedNotPublished /\ EnabledRoutesPublished

(* A step of a request leaves both invariants true.                          *)
LEMMA MovesKeepLoad ==
  ASSUME DatabaseInv, LoadInv, Moves, UNCHANGED load
  PROVE  LoadInv'
<1>1. LoadTyped'
  BY DEF LoadInv, LoadTyped
<1>2. GoneInv'
  BY DEF LoadInv, GoneInv, Gone, Moves, Later
<1>3. SteadyInv'
  <2>1. SUFFICES ASSUME NEW x \in load.steady
                 PROVE  /\ x[1] \in Routes /\ NodeOf[x[1]] = Node
                        /\ x[2] \in Nat \ {0} /\ x[2] <= row'[x[1]].ver
                        /\ row'[x[1]].ver = x[2] =>
                             /\ row'[x[1]].data.status = "enabled"
                             /\ /\ Live(x[1])'
                                /\ load.pc \in {"bindings", "middlewares",
                                                "targets"}
                                => x[1] \in Enabled(load.g)
    BY DEF SteadyInv
  <2>2. /\ x[1] \in Routes /\ x[1] \in Ids /\ NodeOf[x[1]] = Node
        /\ x[2] \in Nat \ {0} /\ x[2] <= row[x[1]].ver
        /\ row[x[1]].ver = x[2] =>
             /\ row[x[1]].data.status = "enabled"
             /\ Live(x[1]) /\ load.pc \in {"bindings", "middlewares", "targets"} =>
                  x[1] \in Enabled(load.g)
    BY <2>1, IdsAre DEF LoadInv, SteadyInv
  <2>3. /\ row[x[1]].ver \in Nat /\ row'[x[1]].ver \in Nat
        /\ row[x[1]].ver <= row'[x[1]].ver
        /\ row[x[1]].ver = row'[x[1]].ver => row[x[1]].data = row'[x[1]].data
        /\ row[x[1]].st = "gone" => row'[x[1]].st = "gone"
    BY <2>2 DEF Moves, Later
  <2>4. row[x[1]].st \in States /\ (row[x[1]].ver = 0 <=> row[x[1]].st = "none")
    BY <2>2 DEF DatabaseInv, TypeOK, IsDatabase
  <2>5. CASE row'[x[1]].ver = x[2]
    <3>1. row[x[1]].ver = x[2]
      BY <2>2, <2>3, <2>5
    <3>2. Live(x[1])' => Live(x[1])
      BY <3>1, <2>2, <2>3, <2>4 DEF Live, States
    <3> QED BY <3>1, <3>2, <2>2, <2>3, <2>5
  <2>6. CASE row'[x[1]].ver # x[2]
    BY <2>2, <2>3, <2>6
  <2> QED BY <2>5, <2>6
<1> QED BY <1>1, <1>2, <1>3 DEF LoadInv

(* One query                                                                 *)
LEMMA ReadKeepsLoad ==
  ASSUME DatabaseInv, LoadInv, NEW pc, NEW next,
         NEW table \in {"services", "routes", "bind", "middlewares"}, NEW rows,
         Read(pc, next, table, rows),
         table # "bind" => \A i \in DOMAIN rows : Live(i),
         next \in {"bindings", "middlewares", "targets"} =>
           \/ table # "routes" /\ pc \in {"bindings", "middlewares"}
           \/ table = "routes" /\ rows = Columns(List(Routes))
  PROVE  LoadInv'
<1>1. /\ load' = [load EXCEPT !.pc = next, !.g[table] = rows]
      /\ row' = row /\ load.pc = pc
  BY DEF Read, db
<1>2. /\ DOMAIN load' = DOMAIN load /\ DOMAIN load'.g = DOMAIN load.g
      /\ load'.pc = next /\ load'.gone = load.gone /\ load'.steady = load.steady
      /\ load'.g[table] = rows
      /\ \A k \in DOMAIN load.g \ {table} : load'.g[k] = load.g[k]
  BY <1>1 DEF LoadInv, LoadTyped
<1>3. LoadTyped'
  BY <1>2 DEF LoadInv, LoadTyped
<1>4. GoneInv'
  <2>1. load'.gone \subseteq Gone'
    BY <1>1, <1>2 DEF LoadInv, GoneInv, Gone
  <2>2. ASSUME NEW k \in {"services", "middlewares", "routes"}
        PROVE  DOMAIN load'.g[k] \cap load'.gone = {}
    BY <1>2 DEF LoadInv, LoadTyped, GoneInv, Gone, Live
  <2> QED BY <2>1, <2>2 DEF GoneInv
<1>5. SteadyInv'
  <2>1. SUFFICES ASSUME NEW x \in load.steady, row[x[1]].ver = x[2], Live(x[1]),
                        next \in {"bindings", "middlewares", "targets"}
                 PROVE  x[1] \in Enabled(load'.g)
    BY <1>1, <1>2 DEF LoadInv, SteadyInv, Live
  <2>2. x[1] \in Routes /\ NodeOf[x[1]] = Node /\ row[x[1]].data.status = "enabled"
    BY <2>1 DEF LoadInv, SteadyInv
  <2>3. CASE table # "routes"
    <3>1. load'.g["routes"] = load.g["routes"]
      BY <1>2, <2>3 DEF LoadInv, LoadTyped
    <3>2. x[1] \in Enabled(load.g)
      BY <2>1, <2>3, <1>1 DEF LoadInv, SteadyInv
    <3> QED BY <3>1, <3>2 DEF Enabled
  <2>4. CASE table = "routes"
    <3>1. load'.g["routes"] = Columns(List(Routes))
      BY <1>2, <2>1, <2>4
    <3>2. x[1] \in List(Routes)
      BY <2>1, <2>2 DEF List, OnNode, Having
    <3> QED BY <3>1, <3>2, <2>2 DEF Columns, Enabled
  <2> QED BY <2>3, <2>4
<1> QED BY <1>3, <1>4, <1>5 DEF LoadInv

LEMMA QueriesKeepLoad ==
  ASSUME DatabaseInv, LoadInv,
         LoadServices \/ LoadRoutes \/ LoadBindings \/ LoadMiddlewares \/ LoadTargets
  PROVE  LoadInv'
<1>1. ASSUME NEW S, NEW i \in DOMAIN Columns(List(S))
      PROVE  Live(i)
  BY DEF Columns, List, OnNode, Having
<1>2. CASE LoadServices
  BY <1>1, <1>2, ReadKeepsLoad DEF LoadServices
<1>3. CASE LoadRoutes
  BY <1>1, <1>3, ReadKeepsLoad DEF LoadRoutes
<1>4. CASE LoadBindings
  BY <1>4, ReadKeepsLoad DEF LoadBindings
<1>5. CASE LoadMiddlewares
  <2>1. /\ load' = [load EXCEPT !.pc = "targets",
                                !.left = DOMAIN load.g.services,
                                !.g.middlewares = Columns(List(Middlewares))]
        /\ load.pc = "middlewares" /\ row' = row
    BY <1>5 DEF LoadMiddlewares, db
  <2>2. /\ DOMAIN load' = DOMAIN load /\ DOMAIN load'.g = DOMAIN load.g
        /\ load'.pc = "targets" /\ load'.gone = load.gone
        /\ load'.steady = load.steady
        /\ load'.g["middlewares"] = Columns(List(Middlewares))
        /\ \A k \in DOMAIN load.g \ {"middlewares"} : load'.g[k] = load.g[k]
    BY <2>1 DEF LoadInv, LoadTyped
  <2>3. LoadTyped'
    BY <2>2 DEF LoadInv, LoadTyped
  <2>4. GoneInv'
    <3>1. load'.gone \subseteq Gone'
      BY <2>1, <2>2 DEF LoadInv, GoneInv, Gone
    <3>2. DOMAIN load'.g["middlewares"] \cap load'.gone = {}
      BY <2>2, <1>1 DEF LoadInv, GoneInv, Gone, Live
    <3>3. ASSUME NEW k \in {"services", "routes"}
          PROVE  DOMAIN load'.g[k] \cap load'.gone = {}
      BY <2>2 DEF LoadInv, LoadTyped, GoneInv
    <3> QED BY <3>1, <3>2, <3>3 DEF GoneInv
  <2>5. SteadyInv'
    <3>1. Enabled(load'.g) = Enabled(load.g)
      BY <2>2 DEF LoadInv, LoadTyped, Enabled
    <3> QED BY <2>1, <2>2, <3>1 DEF LoadInv, SteadyInv, Live
  <2> QED BY <2>3, <2>4, <2>5 DEF LoadInv
<1>6. CASE LoadTargets
  <2>1. PICK left, targets :
          /\ load' = [load EXCEPT !.left = left, !.g.targets = targets]
          /\ load.pc = "targets" /\ row' = row
    BY <1>6 DEF LoadTargets, db
  <2>2. /\ DOMAIN load' = DOMAIN load /\ DOMAIN load'.g = DOMAIN load.g
        /\ load'.pc = load.pc /\ load'.gone = load.gone
        /\ load'.steady = load.steady
        /\ \A k \in DOMAIN load.g \ {"targets"} : load'.g[k] = load.g[k]
    BY <2>1 DEF LoadInv, LoadTyped
  <2>3. LoadTyped'
    BY <2>2 DEF LoadInv, LoadTyped
  <2>4. GoneInv'
    BY <2>1, <2>2 DEF LoadInv, LoadTyped, GoneInv, Gone
  <2>5. SteadyInv'
    <3>1. Enabled(load'.g) = Enabled(load.g)
      BY <2>2 DEF LoadInv, LoadTyped, Enabled
    <3> QED BY <2>1, <2>2, <3>1 DEF LoadInv, SteadyInv, Live
  <2> QED BY <2>3, <2>4, <2>5 DEF LoadInv
<1> QED BY <1>2, <1>3, <1>4, <1>5, <1>6

LEMMA BeginKeepsLoad ==
  ASSUME DatabaseInv, LoadBegin
  PROVE  LoadInv'
<1>1. /\ load' = [NotLoading EXCEPT !.pc = "services", !.gone = Gone,
                                    !.steady = EnabledNow,
                                    !.g.domains = Columns(List(Domains))]
      /\ row' = row
  BY DEF LoadBegin, db
<1>2. /\ LoadTyped' /\ load'.pc = "services" /\ load'.gone = Gone
      /\ load'.steady = EnabledNow
      /\ \A k \in {"services", "middlewares", "routes"} : load'.g[k] = <<>>
  BY <1>1 DEF NotLoading, EmptyGraph, LoadTyped
<1>3. GoneInv'
  BY <1>1, <1>2 DEF GoneInv, Gone
<1>4. ASSUME NEW x \in EnabledNow
      PROVE  /\ x[1] \in Routes /\ NodeOf[x[1]] = Node
             /\ x[2] \in Nat \ {0} /\ x[2] = row[x[1]].ver
             /\ row[x[1]].data.status = "enabled"
  <2>1. PICK r \in OnNode(Routes) :
          x = <<r, row[r].ver>> /\ row[r].data.status = "enabled"
    BY DEF EnabledNow
  <2>2. r \in Routes /\ r \in Ids /\ row[r].st = "live" /\ NodeOf[r] = Node
    BY IdsAre DEF OnNode, Having, Live
  <2> QED BY <2>1, <2>2 DEF DatabaseInv, TypeOK, IsDatabase
<1>5. SteadyInv'
  BY <1>1, <1>2, <1>4 DEF SteadyInv, Live
<1> QED BY <1>2, <1>3, <1>5 DEF LoadInv

LEMMA DoneKeepsLoad ==
  ASSUME load' = NotLoading \/ load' = [NotLoading EXCEPT !.pc = "done"]
  PROVE  LoadInv'
<1>1. /\ LoadTyped' /\ load'.gone = {} /\ load'.steady = {}
  BY DEF NotLoading, EmptyGraph, LoadTyped
<1> QED BY <1>1 DEF LoadInv, GoneInv, SteadyInv

-----------------------------------------------------------------------------
(* The version: what passes the checks is closed                             *)

(* What a router takes from the graph                                        *)
LEMMA RouterFields ==
  ASSUME NEW g, NEW r
  PROVE  /\ Router(g, r).rule = RuleOf(g, r)
         /\ Router(g, r).entry = EntryPoint(g, r)
         /\ Router(g, r).service = Slug[g.services[g.routes[r].service].name]
         /\ Router(g, r).mode # None =>
              /\ Simple(g, r) /\ g.routes[r].https
              /\ Router(g, r).mode = g.domains[g.routes[r].domain].policy
         /\ DOMAIN Router(g, r).middlewares = DOMAIN g.bind[r]
         /\ \A i \in DOMAIN g.bind[r] :
              Router(g, r).middlewares[i] = Slug[g.middlewares[g.bind[r][i]].name]
BY DEF Router

LEMMA SnapshotRouter ==
  ASSUME NEW g, NEW pem, NEW r \in DOMAIN Snapshot(g, pem).routers,
         NEW R, R = Snapshot(g, pem).routers[r]
  PROVE  /\ r \in Enabled(g)
         /\ R.rule = RuleOf(g, r) /\ R.entry = EntryPoint(g, r)
         /\ R.service = Slug[g.services[g.routes[r].service].name]
         /\ R.mode # None =>
              /\ Simple(g, r) /\ g.routes[r].https
              /\ R.mode = g.domains[g.routes[r].domain].policy
         /\ DOMAIN R.middlewares = DOMAIN g.bind[r]
         /\ \A i \in DOMAIN g.bind[r] :
              R.middlewares[i] = Slug[g.middlewares[g.bind[r][i]].name]
<1>1. Snapshot(g, pem).routers = [x \in Enabled(g) |-> Router(g, x)]
  BY DEF Snapshot
<1>2. r \in Enabled(g) /\ R = Router(g, r)
  BY <1>1
<1> QED BY <1>2, RouterFields

LEMMA RoutersHaveServices ==
  ASSUME NEW g, NEW have, NEW pem, Buildable(g, have),
         Generates(Snapshot(g, pem)),
         NEW r \in DOMAIN Snapshot(g, pem).routers
  PROVE  LET s == Snapshot(g, pem)
         IN \E i \in DOMAIN s.services :
              /\ s.services[i].name = s.routers[r].service
              /\ s.services[i].targets # {}
<1> DEFINE s == Snapshot(g, pem)
           i == g.routes[r].service
           on == {x \in DOMAIN g.services : g.services[x].on}
<1>1. r \in Enabled(g)
      /\ s.routers[r].service = Slug[g.services[i].name]
  BY SnapshotRouter
<1>2. s.services = [x \in on |-> [name |-> Slug[g.services[x].name],
                      targets |-> {g.targets[t].url : t \in EnabledTargets(g, x)}]]
  BY DEF Snapshot
<1>3. r \in Enabled(g) /\ i \in on
  BY <1>1 DEF Buildable
<1>4. i \in DOMAIN s.services /\ s.services[i].name = Slug[g.services[i].name]
  BY <1>2, <1>3
<1>5. s.services[i].targets # {}
  BY <1>4 DEF Generates, ServicesGenerate
<1> QED BY <1>1, <1>4, <1>5

LEMMA RoutersHaveMiddlewares ==
  ASSUME NEW g, NEW have, NEW pem, Buildable(g, have),
         NEW r \in DOMAIN Snapshot(g, pem).routers,
         NEW i \in DOMAIN Snapshot(g, pem).routers[r].middlewares
  PROVE  <<"middlewares", Snapshot(g, pem).routers[r].middlewares[i]>>
           \in ArtifactFiles(Snapshot(g, pem))
<1> DEFINE s == Snapshot(g, pem)
           w == g.bind[r][i]
           on == {x \in DOMAIN g.middlewares : g.middlewares[x].on}
<1>1. s.middlewares = [x \in on |-> [name |-> Slug[g.middlewares[x].name],
                                     params |-> g.middlewares[x].params]]
  BY DEF Snapshot
<1>2. /\ r \in Enabled(g) /\ i \in DOMAIN g.bind[r]
      /\ s.routers[r].middlewares[i] = Slug[g.middlewares[w].name]
  BY SnapshotRouter
<1>3. w \in on
  BY <1>2 DEF Buildable
<1>4. w \in DOMAIN s.middlewares /\ s.middlewares[w].name = Slug[g.middlewares[w].name]
  BY <1>1, <1>3
<1>5. Slug[g.middlewares[w].name] \in Names(s.middlewares)
  BY <1>4 DEF Names
<1> QED BY <1>2, <1>5 DEF ArtifactFiles

LEMMA ImportedHasCertificate ==
  ASSUME NEW g, NEW pem, Valid(g),
         NEW r \in DOMAIN Snapshot(g, pem).routers,
         Snapshot(g, pem).routers[r].mode = "imported"
  PROVE  ServedCertificate(g, r) \in DOMAIN Snapshot(g, pem).certificates
<1> DEFINE s == Snapshot(g, pem)
           d == g.routes[r].domain
           c == g.domains[d].cert
<1>1. DOMAIN s.certificates = UsedCertificates(g)
  BY DEF Snapshot
<1>2. /\ r \in Enabled(g) /\ Simple(g, r) /\ g.routes[r].https
      /\ g.domains[d].policy = "imported"
  BY SnapshotRouter DEF None
<1>3. d \in DOMAIN g.domains /\ c # None
  BY <1>2 DEF Valid, Checked, Enabled, RouteDomainValid
<1>4. ServedCertificate(g, r) = c
  BY <1>2 DEF ServedCertificate
<1>5. c \in UsedCertificates(g)
  BY <1>2, <1>3, <1>4 DEF UsedCertificates
<1> QED BY <1>1, <1>4, <1>5

LEMMA RulesDiffer ==
  ASSUME NEW g, NEW have, NEW pem, Valid(g), Buildable(g, have),
         NEW r \in DOMAIN Snapshot(g, pem).routers,
         NEW q \in DOMAIN Snapshot(g, pem).routers,
         r # q,
         Snapshot(g, pem).routers[r].rule = Snapshot(g, pem).routers[q].rule
  PROVE  Snapshot(g, pem).routers[r].entry # Snapshot(g, pem).routers[q].entry
<1> DEFINE s == Snapshot(g, pem)
<1>1. /\ r \in Enabled(g) /\ q \in Enabled(g) /\ RuleOf(g, r) = RuleOf(g, q)
      /\ s.routers[r].entry = EntryPoint(g, r)
      /\ s.routers[q].entry = EntryPoint(g, q)
  BY SnapshotRouter
<1>2. RuleOf(g, r) # <<>>
  BY <1>1 DEF RuleOf, Buildable
<1> QED BY <1>1, <1>2 DEF Valid, NoRuleOverlap

LEMMA CreateKeepsVersion ==
  ASSUME DatabaseInv, LoadInv, CreateVersion
  PROVE  VersionInv'
<1> DEFINE g == load.g
           pem == [c \in Certificates |-> cert[c].pem]
           s == Snapshot(g, pem)
<1>1. /\ Valid(g) /\ Buildable(g, LiveCertificates) /\ Generates(s)
      /\ version'.snap = s /\ version'.files = ArtifactFiles(s)
      /\ version'.gone = load.gone /\ version'.steady = StillSteady
      /\ version'.served = [r \in Enabled(g) |-> ServedCertificate(g, r)]
      /\ load.pc = "targets" /\ row' = row
  BY DEF CreateVersion, db
<1> HIDE DEF pem
<1>2. PublishedClosed'
  <2>1. \A r \in DOMAIN s.routers : version'.served[r] = ServedCertificate(g, r)
    BY <1>1, SnapshotRouter
  <2>2. ASSUME NEW r \in DOMAIN s.routers
        PROVE  \E i \in DOMAIN s.services :
                 /\ s.services[i].name = s.routers[r].service
                 /\ s.services[i].targets # {}
    BY <1>1, RoutersHaveServices
  <2>3. ASSUME NEW r \in DOMAIN s.routers,
               NEW i \in DOMAIN s.routers[r].middlewares
        PROVE  <<"middlewares", s.routers[r].middlewares[i]>>
                 \in ArtifactFiles(s)
    BY <1>1, RoutersHaveMiddlewares
  <2>4. ASSUME NEW r \in DOMAIN s.routers, s.routers[r].mode = "imported"
        PROVE  version'.served[r] \in DOMAIN s.certificates
    <3>1. ServedCertificate(g, r) \in DOMAIN s.certificates
      BY <1>1, <2>4, ImportedHasCertificate
    <3> QED BY <2>1, <3>1
  <2>5. ASSUME NEW r \in DOMAIN s.routers, NEW q \in DOMAIN s.routers, r # q,
               s.routers[r].rule = s.routers[q].rule
        PROVE  s.routers[r].entry # s.routers[q].entry
    BY <1>1, <2>5, RulesDiffer
  <2>6. version'.snap = s /\ version'.files = ArtifactFiles(s)
    BY <1>1
  <2> HIDE DEF s
  <2> QED BY <2>2, <2>3, <2>4, <2>5, <2>6 DEF PublishedClosed
<1>3. DeletedNotPublished'
  <2>1. /\ DOMAIN s.routers \subseteq DOMAIN g.routes
        /\ DOMAIN s.services \subseteq DOMAIN g.services
        /\ DOMAIN s.middlewares \subseteq DOMAIN g.middlewares
    BY DEF Snapshot, Enabled
  <2>2. \A k \in {"routers", "services", "middlewares"} :
          DOMAIN s[k] \cap load.gone = {}
    BY <2>1 DEF LoadInv, GoneInv
  <2> QED BY <1>1, <2>2 DEF DeletedNotPublished
<1>4. EnabledRoutesPublished'
  <2>1. SUFFICES ASSUME NEW x \in StillSteady
                 PROVE  x[1] \in Enabled(g)
    <3>1. DOMAIN s.routers = Enabled(g)
      BY DEF Snapshot
    <3> QED BY <1>1, <2>1, <3>1 DEF EnabledRoutesPublished
  <2>2. PICK r \in OnNode(Routes) : x = <<r, row[r].ver>>
    BY DEF StillSteady, EnabledNow
  <2>3. x[1] = r /\ x[2] = row[r].ver /\ Live(r) /\ x \in load.steady
    BY <2>1, <2>2 DEF StillSteady, OnNode, Having
  <2> QED BY <2>3, <1>1 DEF LoadInv, SteadyInv
<1> QED BY <1>2, <1>3, <1>4 DEF VersionInv

LEMMA NoneIsClosed ==
  ASSUME version' = NoVersion \/ version' = [NoVersion EXCEPT !.st = "blocked"]
  PROVE  VersionInv'
<1>1. Enabled(EmptyGraph) = {}
  BY DEF Enabled, EmptyGraph
<1>2. DOMAIN Snapshot(EmptyGraph, <<>>).routers = {}
  BY <1>1 DEF Snapshot
<1>3. /\ version'.snap = Snapshot(EmptyGraph, <<>>) /\ version'.gone = {}
      /\ version'.st # "ready"
  BY DEF NoVersion, NoSnapshot
<1>4. PublishedClosed'
  BY <1>2, <1>3 DEF PublishedClosed
<1>5. DeletedNotPublished' /\ EnabledRoutesPublished'
  BY <1>3 DEF DeletedNotPublished, EnabledRoutesPublished, Ready
<1> QED BY <1>4, <1>5 DEF VersionInv

LEMMA LoadKeeps ==
  ASSUME DatabaseInv, LoadInv, VersionInv, Load
  PROVE  LoadInv' /\ VersionInv' /\ UNCHANGED <<db, req>>
<1>1. UNCHANGED <<db, req>>
  BY DEF Load, LoadBegin, LoadServices, LoadRoutes, LoadBindings,
         LoadMiddlewares, LoadTargets, Read, CreateVersion, Blocked
<1>2. CASE CreateVersion
  BY <1>1, <1>2, CreateKeepsVersion, DoneKeepsLoad DEF CreateVersion
<1>3. CASE Blocked
  BY <1>1, <1>3, NoneIsClosed, DoneKeepsLoad DEF Blocked
<1>4. CASE LoadBegin \/ LoadServices \/ LoadRoutes \/ LoadBindings
             \/ LoadMiddlewares \/ LoadTargets
  <2>1. version' = version
    BY <1>4 DEF LoadBegin, LoadServices, LoadRoutes, LoadBindings,
                LoadMiddlewares, LoadTargets, Read
  <2>2. VersionInv'
    BY <2>1 DEF VersionInv, PublishedClosed, DeletedNotPublished,
                EnabledRoutesPublished, Ready
  <2> QED BY <1>1, <1>4, <2>2, BeginKeepsLoad, QueriesKeepLoad
<1> QED BY <1>2, <1>3, <1>4 DEF Load

-----------------------------------------------------------------------------
(* The inductive invariant *)

AllInv == Inv /\ LoadInv /\ VersionInv

LEMMA InitDatabase ==
  ASSUME Init
  PROVE  DatabaseInv
<1>1. PICK s \in Scenarios : row = s.row /\ bind = s.bind /\ cert = s.cert
  BY DEF Init
<1>2. /\ IsDatabase(row, bind, cert)
      /\ \A d \in Domains :
           row[d].st # "none" =>
             row[d].data.cert
               \in {c \in Certificates : cert[c].st = "live"} \cup {None}
      /\ \A c \in Certificates :
           cert[c].st # "none" /\ cert[c].pem # None =>
             /\ cert[cert[c].pem].st # "none"
             /\ cert[cert[c].pem].domain = cert[c].domain
  BY <1>1, ScenariosAssumption
<1>3. TypeOK
  BY <1>2 DEF TypeOK
<1>4. ImportedCertExists
  BY <1>2 DEF ImportedCertExists, Free, LiveCertificates
<1>5. \A c \in Certificates : cert[c].pem \in Certificates \cup {None}
  BY <1>2 DEF IsDatabase, Certificate
<1>6. KeysHeld
  BY <1>2, <1>5 DEF KeysHeld, Holds
<1> QED BY <1>3, <1>4, <1>6 DEF DatabaseInv

LEMMA InitInv ==
  ASSUME Init
  PROVE  AllInv
<1>1. DatabaseInv
  BY InitDatabase
<1>2. Inv
  <2>1. SoundStep([do |-> "arrive"], row, cert)
    BY DEF SoundStep
  <2>2. IsQueue(Idle, row, cert)
    BY <2>1, QueueOne DEF Idle
  <2> QED BY <1>1, <2>2 DEF Init, Inv, RequestInv
<1>3. LoadInv
  <2>1. LoadTyped /\ load.gone = {} /\ load.steady = {}
    BY DEF Init, NotLoading, EmptyGraph, LoadTyped
  <2> QED BY <2>1 DEF LoadInv, GoneInv, SteadyInv
<1>4. VersionInv
  <2>1. Enabled(EmptyGraph) = {}
    BY DEF Enabled, EmptyGraph
  <2>2. DOMAIN Snapshot(EmptyGraph, <<>>).routers = {}
    BY <2>1 DEF Snapshot
  <2>3. /\ version.snap = Snapshot(EmptyGraph, <<>>) /\ version.gone = {}
        /\ version.st # "ready"
    BY DEF Init, NoVersion, NoSnapshot
  <2>4. PublishedClosed
    BY <2>2, <2>3 DEF PublishedClosed
  <2>5. DeletedNotPublished /\ EnabledRoutesPublished
    BY <2>3 DEF DeletedNotPublished, EnabledRoutesPublished, Ready
  <2> QED BY <2>4, <2>5 DEF VersionInv
<1> QED BY <1>2, <1>3, <1>4 DEF AllInv

(* An invariant of the version holds as long as the version stays.           *)
LEMMA VersionStays ==
  ASSUME VersionInv, UNCHANGED version
  PROVE  VersionInv'
BY DEF VersionInv, PublishedClosed, DeletedNotPublished, EnabledRoutesPublished,
       Ready

LEMMA UnchangedSteps ==
  ASSUME Inv, UNCHANGED <<db, req>>
  PROVE  Inv' /\ Moves
<1>1. Moves
  BY StaysMoves DEF Inv
<1>2. RequestInv'
  BY <1>1, QueueLater DEF Inv, RequestInv, Moves
<1> QED BY <1>1, <1>2 DEF Inv, Moves

LEMMA NextInv ==
  ASSUME AllInv, [Next]_vars
  PROVE  AllInv' /\ Moves
<1>1. ASSUME NEW p \in Requests, Arrive(p) \/ Proceed(p)
      PROVE  AllInv' /\ Moves
  <2>1. Steps
    BY <1>1, ArriveSteps, ProceedSteps DEF AllInv
  <2> QED BY <2>1, MovesKeepLoad, VersionStays DEF AllInv, Inv, Steps
<1>2. CASE Load
  BY <1>2, LoadKeeps, UnchangedSteps DEF AllInv, Inv
<1>3. CASE UNCHANGED vars
  <2>1. UNCHANGED <<db, req>> /\ UNCHANGED load /\ UNCHANGED version
    BY <1>3 DEF vars, db
  <2> QED BY <2>1, UnchangedSteps, MovesKeepLoad, VersionStays DEF AllInv, Inv
<1> QED BY <1>1, <1>2, <1>3 DEF Next

LEMMA Invariance == Spec => []AllInv
<1>1. AllInv /\ [Next]_vars => AllInv'
  BY NextInv
<1> QED BY <1>1, InitInv, PTL DEF Spec

-----------------------------------------------------------------------------
(* What follows *)

\* Rows, bindings and certificates keep the shape of a database
\* (infrastructure/pgstore).
THEOREM TypeCorrect == Spec => []TypeOK
<1>1. AllInv => TypeOK
  BY DEF AllInv, Inv, DatabaseInv
<1> QED BY <1>1, Invariance, PTL

\* No domain ever names a certificate that was deleted, however imports,
\* updates and deletions interleave (certsvc.Delete and the foreign key of
\* domains.imported_cert_id).
THEOREM CertificatesStay == Spec => []ImportedCertExists
<1>1. AllInv => ImportedCertExists
  BY DEF AllInv, Inv, DatabaseInv
<1> QED BY <1>1, Invariance, PTL

\* Uploads, probes and observations never leave a certificate with the key of
\* another domain (accounting.go UpsertObserved).
THEOREM KeysStay == Spec => []KeysStayInDomain
<1>1. AllInv => KeysStayInDomain
  BY DEF AllInv, Inv, DatabaseInv, KeysHeld, Holds, KeysStayInDomain,
         LiveCertificates
<1> QED BY <1>1, Invariance, PTL

\* A version that became ready refers to nothing outside of itself, whatever
\* was written between the queries that read it (version.go LoadGraph,
\* buildSnapshot; validate.go RunNode).
THEOREM VersionClosed == Spec => []PublishedClosed
<1>1. AllInv => PublishedClosed
  BY DEF AllInv, VersionInv
<1> QED BY <1>1, Invariance, PTL

\* A version holds nothing that was deleted before its creation began
\* (version.go LoadGraph).
THEOREM NothingDeleted == Spec => []DeletedNotPublished
<1>1. AllInv => DeletedNotPublished
  BY DEF AllInv, VersionInv
<1> QED BY <1>1, Invariance, PTL

\* A version holds every route that was enabled and left alone while it was
\* created (version.go LoadGraph, buildSnapshot).
THEOREM NothingForgotten == Spec => []EnabledRoutesPublished
<1>1. AllInv => EnabledRoutesPublished
  BY DEF AllInv, VersionInv
<1> QED BY <1>1, Invariance, PTL

\* No update overwrites a change that its requester has not read
\* (store.go UpdateOptimistic).
THEOREM NoEditIsLost == Spec => NoLostEdit
<1> DEFINE Kept == \A p \in Requests :
                     /\ req'[p] # req[p] /\ At(p, "statement")
                     /\ Step(p).write.op = "update" /\ row' # row
                     => row[Step(p).write.id].data = Step(p).write.base
<1>1. AllInv /\ [Next]_vars => [Kept]_vars
  <2>1. SUFFICES ASSUME AllInv, Next
                 PROVE  Kept
    OBVIOUS
  <2>2. CASE Load
    <3>1. row' = row
      BY <2>1, <2>2, LoadKeeps DEF AllInv, Inv, db
    <3> QED BY <3>1
  <2>3. ASSUME NEW p \in Requests, Arrive(p) \/ Proceed(p)
        PROVE  Kept
    <3>1. Steps
      BY <2>1, <2>3, ArriveSteps, ProceedSteps DEF AllInv
    <3> QED BY <3>1 DEF Steps
  <2> QED BY <2>1, <2>2, <2>3 DEF Next
<1> QED BY <1>1, Invariance, PTL DEF Spec, NoLostEdit

\* The tables keep the promise of VersionedRows, for every request, periodic
\* task and failure (store.go UpdateOptimistic; the INSERT and the soft delete
\* of the other stores).
THEOREM RowsImplement == Spec => RowsAreVersioned
<1>1. Init => Table!Init
  BY InitDatabase DEF DatabaseInv, TypeOK, IsDatabase, States, Table!Init
<1>2. AllInv /\ [Next]_vars => [Table!Next]_row
  BY NextInv DEF Moves
<1> QED BY <1>1, <1>2, Invariance, PTL DEF Spec, RowsAreVersioned, Table!Spec

\* What VersionedRows_proofs shows of such tables holds of these.
Promise == INSTANCE VersionedRows_proofs WITH Rows <- Ids

LEMMA PromiseKept == Spec => Promise!Spec
<1>1. Table!Init => Promise!Init
  BY DEF Table!Init, Promise!Init
<1>2. [Table!Next]_row => [Promise!Next]_row
  BY DEF Table!Next, Table!Insert, Table!Save, Table!Remove,
         Promise!Next, Promise!Insert, Promise!Save, Promise!Remove
<1> QED
  BY <1>1, <1>2, RowsImplement, PTL
     DEF RowsAreVersioned, Table!Spec, Promise!Spec

\* An editor who read version n of a row, and whose save is admitted because
\* the row is still at version n, changes what was read and nothing else,
\* however the requests in between were interleaved (the check and the UPDATE
\* of store.go UpdateOptimistic).
THEOREM EditorsKnowTheRow ==
  ASSUME NEW i \in Ids, NEW n \in Nat, NEW x
  PROVE  Spec => [](row[i].st # "none" /\ row[i].ver = n /\ row[i].data = x
                      => [](row[i].ver = n => row[i].data = x))
BY PromiseKept, Promise!VersionIsContent

\* A deleted row stays deleted, whatever request still had it in hand.
THEOREM RowsDeletedForGood ==
  ASSUME NEW i \in Ids
  PROVE  Spec => [](row[i].st = "gone" => [](row[i].st = "gone"))
BY PromiseKept, Promise!DeletedForGood

-----------------------------------------------------------------------------
(* The difference of two snapshots                                           *)

LEMMA KeysAre ==
  ASSUME NEW s
  PROVE  \A k, i : <<k, i>> \in Keys(s) <=> k \in Kinds /\ i \in DOMAIN s[k]
BY DEF Keys

LEMMA KeysFinite ==
  ASSUME NEW s, IsSnapshot(s)
  PROVE  IsFiniteSet(Keys(s))
<1> DEFINE of(k) == {k} \X DOMAIN s[k]
<1>1. ASSUME NEW k \in Kinds
      PROVE  IsFiniteSet(of(k))
  <2>1. IsFiniteSet({k}) /\ IsFiniteSet(DOMAIN s[k])
    BY FS_Singleton DEF IsSnapshot
  <2> QED BY <2>1, FS_Product
<1>2. Keys(s) = (of("routers") \cup of("services"))
                  \cup (of("middlewares") \cup of("certificates"))
  BY DEF Keys, Kinds
<1>3. /\ IsFiniteSet(of("routers")) /\ IsFiniteSet(of("services"))
      /\ IsFiniteSet(of("middlewares")) /\ IsFiniteSet(of("certificates"))
  BY <1>1 DEF Kinds
<1> HIDE DEF of
<1>4. /\ IsFiniteSet(of("routers") \cup of("services"))
      /\ IsFiniteSet(of("middlewares") \cup of("certificates"))
  BY <1>3, FS_Union
<1> QED BY <1>2, <1>4, FS_Union

\* Same keys with the same entries are the same snapshot.
LEMMA SameSnapshot ==
  ASSUME NEW a, NEW b, IsSnapshot(a), IsSnapshot(b), Keys(a) = Keys(b),
         \A key \in Keys(a) : Entry(a, key) = Entry(b, key)
  PROVE  a = b
<1>1. ASSUME NEW k \in Kinds
      PROVE  a[k] = b[k]
  <2>1. DOMAIN a[k] = DOMAIN b[k]
    BY KeysAre
  <2>2. ASSUME NEW i \in DOMAIN a[k]
        PROVE  a[k][i] = b[k][i]
    <3>1. <<k, i>> \in Keys(a)
      BY KeysAre
    <3> QED BY <3>1 DEF Entry
  <2>3. a[k] = [i \in DOMAIN a[k] |-> a[k][i]] /\ b[k] = [i \in DOMAIN b[k] |-> b[k][i]]
    BY DEF IsSnapshot
  <2> QED BY <2>1, <2>2, <2>3
<1>2. /\ a.routers = b.routers /\ a.services = b.services
      /\ a.middlewares = b.middlewares /\ a.certificates = b.certificates
  BY <1>1 DEF Kinds
<1> QED BY <1>2 DEF IsSnapshot

\* Three zeros in the summary are shown for equal snapshots and for no others
\* (domain/diff; diff.go SnapshotDiff).
THEOREM NoChangeIsEqual ==
  ASSUME NEW a, NEW b, IsSnapshot(a), IsSnapshot(b)
  PROVE  (\A k \in DOMAIN SnapshotDiff(a, b) : Summary(SnapshotDiff(a, b))[k] = 0)
           <=> a = b
<1> DEFINE items == SnapshotDiff(a, b)
<1>1. /\ items.added = Keys(b) \ Keys(a) /\ items.removed = Keys(a) \ Keys(b)
      /\ items.modified = {key \in Keys(a) \cap Keys(b) :
                             Entry(a, key) # Entry(b, key)}
      /\ DOMAIN items = {"added", "modified", "removed"}
  BY DEF SnapshotDiff
<1>2. IsFiniteSet(Keys(a)) /\ IsFiniteSet(Keys(b))
  BY KeysFinite
<1>3. \A k \in DOMAIN items : IsFiniteSet(items[k])
  BY <1>1, <1>2, FS_Subset
<1>4. \A k \in DOMAIN items : Summary(items)[k] = Cardinality(items[k])
  BY <1>1 DEF Summary
<1>5. \A k \in DOMAIN items : Summary(items)[k] = 0 <=> items[k] = {}
  BY <1>3, <1>4, FS_EmptySet
<1>6. (\A k \in DOMAIN items : items[k] = {})
        <=> /\ Keys(a) = Keys(b)
            /\ \A key \in Keys(a) : Entry(a, key) = Entry(b, key)
  BY <1>1
<1>7. (Keys(a) = Keys(b) /\ \A key \in Keys(a) : Entry(a, key) = Entry(b, key))
        <=> a = b
  BY SameSnapshot
<1> QED BY <1>5, <1>6, <1>7

-----------------------------------------------------------------------------
(* The recorded difference is that of the version                            *)

\* Only rows of the tables are in the graph.
FromTables ==
  \A k \in {"services", "middlewares", "routes"} : DOMAIN load.g[k] \subseteq Ids

\* Certificates are published for routers only.
VersionRecorded ==
  Ready =>
    /\ IsSnapshot(version.snap)
    /\ DOMAIN version.snap.routers = {} => DOMAIN version.snap.certificates = {}
    /\ version.files = ArtifactFiles(version.snap)
    /\ version.changes = IF scope.first THEN FirstSummary(version.snap)
                         ELSE Summary(SnapshotDiff(scope.deployed, version.snap))

DeployedKnown ==
  IsSnapshot(scope.deployed) /\ (scope.first => scope.deployed = NoSnapshot)

ChangeInv == FromTables /\ DeployedKnown /\ VersionRecorded

LEMMA SnapshotShape ==
  ASSUME NEW g, NEW pem, NEW have, Buildable(g, have), IsFiniteSet(have),
         IsFiniteSet(DOMAIN g.routes), IsFiniteSet(DOMAIN g.services),
         IsFiniteSet(DOMAIN g.middlewares)
  PROVE  IsSnapshot(Snapshot(g, pem))
<1> DEFINE s == Snapshot(g, pem)
<1>1. /\ s = [routers |-> s.routers, services |-> s.services,
              middlewares |-> s.middlewares, certificates |-> s.certificates]
      /\ \A k \in Kinds : s[k] = [i \in DOMAIN s[k] |-> s[k][i]]
  BY DEF Snapshot, Kinds
<1>2. /\ DOMAIN s.routers \subseteq DOMAIN g.routes
      /\ DOMAIN s.services \subseteq DOMAIN g.services
      /\ DOMAIN s.middlewares \subseteq DOMAIN g.middlewares
      /\ DOMAIN s.certificates \subseteq have
  BY DEF Snapshot, Enabled, Buildable
<1>3. /\ IsFiniteSet(DOMAIN s.routers) /\ IsFiniteSet(DOMAIN s.services)
      /\ IsFiniteSet(DOMAIN s.middlewares) /\ IsFiniteSet(DOMAIN s.certificates)
  BY <1>2, FS_Subset
<1>4. \A k \in Kinds : IsFiniteSet(DOMAIN s[k])
  BY <1>3 DEF Kinds
<1> QED BY <1>1, <1>4 DEF IsSnapshot

LEMMA ListsAreIds ==
  /\ List(Services) \subseteq Ids /\ List(Routes) \subseteq Ids
  /\ List(Middlewares) \subseteq Ids
BY DEF List, OnNode, Having, Ids, Tables

LEMMA ReadFromTables ==
  ASSUME LoadInv, FromTables, NEW pc, NEW next, NEW table \in DOMAIN load.g,
         NEW rows, Read(pc, next, table, rows),
         table \in {"services", "middlewares", "routes"} => DOMAIN rows \subseteq Ids
  PROVE  FromTables'
<1>1. load' = [load EXCEPT !.pc = next, !.g[table] = rows]
  BY DEF Read
<1>2. \A k \in DOMAIN load.g : load'.g[k] = IF k = table THEN rows ELSE load.g[k]
  BY <1>1 DEF LoadInv, LoadTyped
<1> QED BY <1>2 DEF FromTables, LoadInv, LoadTyped

LEMMA TargetsStep ==
  ASSUME LoadTargets
  PROVE  /\ \E left, targets :
              load' = [load EXCEPT !.left = left, !.g.targets = targets]
         /\ version' = version /\ scope' = scope
<1>1. PICK s \in load.left :
        LET found == {t \in Having(Targets) : row[t].data.service = s}
            known == load.g.targets
        IN load' = [load EXCEPT
                      !.left = @ \ {s},
                      !.g.targets = [t \in DOMAIN known \cup found |->
                                       IF t \in found THEN row[t].data
                                       ELSE known[t]]]
  BY DEF LoadTargets
<1>2. version' = version /\ scope' = scope
  BY DEF LoadTargets, db
<1> QED BY <1>1, <1>2

LEMMA LoadFromTables ==
  ASSUME LoadInv, FromTables, Load
  PROVE  FromTables'
<1>0. \A S : DOMAIN Columns(S) = S
  BY DEF Columns
<1>1. CASE LoadBegin
  <2>1. load' = [NotLoading EXCEPT !.pc = "services", !.gone = Gone,
                                   !.steady = EnabledNow,
                                   !.g.domains = Columns(List(Domains))]
    BY <1>1 DEF LoadBegin
  <2>2. \A k \in {"services", "middlewares", "routes"} : load'.g[k] = <<>>
    BY <2>1 DEF NotLoading, EmptyGraph
  <2> QED BY <2>2 DEF FromTables
<1>2. CASE CreateVersion \/ Blocked
  <2>1. load' = [NotLoading EXCEPT !.pc = "done"]
    BY <1>2 DEF CreateVersion, Blocked
  <2>2. \A k \in {"services", "middlewares", "routes"} : load'.g[k] = <<>>
    BY <2>1 DEF NotLoading, EmptyGraph
  <2> QED BY <2>2 DEF FromTables
<1>3. CASE LoadServices \/ LoadRoutes \/ LoadBindings
  <2>1. {"services", "routes", "bind"} \subseteq DOMAIN load.g
    BY DEF LoadInv, LoadTyped
  <2> QED BY <1>0, <1>3, <2>1, ListsAreIds, ReadFromTables
          DEF LoadServices, LoadRoutes, LoadBindings
<1>4. CASE LoadMiddlewares
  <2>1. load' = [load EXCEPT !.pc = "targets", !.left = DOMAIN load.g.services,
                             !.g.middlewares = Columns(List(Middlewares))]
    BY <1>4 DEF LoadMiddlewares
  <2>2. /\ load'.g["middlewares"] = Columns(List(Middlewares))
        /\ \A k \in {"services", "routes"} : load'.g[k] = load.g[k]
    BY <2>1 DEF LoadInv, LoadTyped
  <2> QED BY <1>0, <2>2, ListsAreIds DEF FromTables
<1>5. CASE LoadTargets
  <2>1. PICK left, targets :
          load' = [load EXCEPT !.left = left, !.g.targets = targets]
    BY <1>5, TargetsStep
  <2>2. \A k \in {"services", "middlewares", "routes"} : load'.g[k] = load.g[k]
    BY <2>1 DEF LoadInv, LoadTyped
  <2> QED BY <2>2 DEF FromTables
<1> QED BY <1>1, <1>2, <1>3, <1>4, <1>5 DEF Load

LEMMA QueriesOnlyRead ==
  ASSUME LoadBegin \/ LoadServices \/ LoadRoutes \/ LoadBindings
           \/ LoadMiddlewares \/ LoadTargets
  PROVE  UNCHANGED <<version, scope>>
<1>1. CASE LoadBegin
  BY <1>1 DEF LoadBegin
<1>2. CASE LoadServices \/ LoadRoutes \/ LoadBindings
  BY <1>2 DEF LoadServices, LoadRoutes, LoadBindings, Read
<1>3. CASE LoadMiddlewares
  BY <1>3 DEF LoadMiddlewares
<1>4. CASE LoadTargets
  BY <1>4, TargetsStep
<1> QED BY <1>1, <1>2, <1>3, <1>4

LEMMA CreateRecords ==
  ASSUME LoadInv, ChangeInv, CreateVersion
  PROVE  VersionRecorded'
<1> DEFINE g == load.g
           pem == [c \in Certificates |-> cert[c].pem]
           s == Snapshot(g, pem)
<1>1. /\ Buildable(g, LiveCertificates)
      /\ version'.snap = s /\ version'.files = ArtifactFiles(s)
      /\ version'.changes = IF scope.first THEN FirstSummary(s)
                            ELSE Summary(SnapshotDiff(scope.deployed, s))
      /\ scope' = scope
  BY DEF CreateVersion
<1>2. /\ IsFiniteSet(LiveCertificates)
      /\ IsFiniteSet(DOMAIN g.routes) /\ IsFiniteSet(DOMAIN g.services)
      /\ IsFiniteSet(DOMAIN g.middlewares)
  BY IdsAssumption, FS_Subset DEF ChangeInv, FromTables, LiveCertificates
<1> HIDE DEF pem, g
<1>3. IsSnapshot(s)
  BY <1>1, <1>2, SnapshotShape
<1>4. DOMAIN s.routers = {} => DOMAIN s.certificates = {}
  BY DEF Snapshot, UsedCertificates
<1> QED BY <1>1, <1>3, <1>4 DEF VersionRecorded

LEMMA NextChange == AllInv /\ ChangeInv /\ [Next]_vars => ChangeInv'
<1> SUFFICES ASSUME AllInv, ChangeInv, [Next]_vars
             PROVE  ChangeInv'
  OBVIOUS
<1>1. ASSUME UNCHANGED <<load, version, scope>>
      PROVE  ChangeInv'
  BY <1>1 DEF ChangeInv, DeployedKnown, FromTables, VersionRecorded, Ready
<1>2. ASSUME NEW p \in Requests, Arrive(p) \/ Proceed(p)
      PROVE  ChangeInv'
  <2>1. Steps
    BY <1>2, ArriveSteps, ProceedSteps DEF AllInv
  <2> QED BY <1>1, <2>1 DEF Steps
<1>3. CASE Load
  <2>1. scope' = scope
    BY <1>3, QueriesOnlyRead DEF Load, CreateVersion, Blocked
  <2>2. FromTables'
    BY <1>3, LoadFromTables DEF AllInv, ChangeInv
  <2>3. VersionRecorded'
    <3>1. CASE CreateVersion
      BY <3>1, CreateRecords DEF AllInv
    <3>2. CASE Blocked
      BY <3>2 DEF Blocked, NoVersion, VersionRecorded, Ready
    <3>3. CASE UNCHANGED version
      BY <2>1, <3>3 DEF ChangeInv, VersionRecorded, Ready
    <3> QED BY <1>3, <3>1, <3>2, <3>3, QueriesOnlyRead DEF Load
  <2> QED BY <2>1, <2>2, <2>3 DEF ChangeInv, DeployedKnown
<1>4. CASE UNCHANGED vars
  BY <1>1, <1>4 DEF vars
<1> QED BY <1>2, <1>3, <1>4 DEF Next

LEMMA InitChange == Init => ChangeInv
<1> SUFFICES ASSUME Init
             PROVE  ChangeInv
  OBVIOUS
<1>1. DeployedKnown
  <2>1. PICK s \in Scenarios :
          scope = [kinds |-> s.kinds, load |-> s.load, deployed |-> s.deployed,
                   first |-> s.first]
    BY DEF Init
  <2>2. scope.deployed = s.deployed /\ scope.first = s.first
    BY <2>1
  <2> QED BY <2>2, DeployedAssumption DEF DeployedKnown
<1>2. \A k \in {"services", "middlewares", "routes"} : DOMAIN load.g[k] = {}
  BY DEF Init, NotLoading, EmptyGraph
<1>3. version.st = "none"
  BY DEF Init, NoVersion
<1> QED BY <1>1, <1>2, <1>3 DEF ChangeInv, FromTables, VersionRecorded, Ready

LEMMA FirstEmpty ==
  ASSUME NEW s, IsSnapshot(s), IsSnapshot(NoSnapshot),
         DOMAIN s.routers = {} => DOMAIN s.certificates = {},
         \A k \in DOMAIN FirstSummary(s) : FirstSummary(s)[k] = 0
  PROVE  s = NoSnapshot
<1> DEFINE size(k) == Cardinality(DOMAIN s[k])
<1>1. \A k \in Kinds : size(k) \in Nat /\ (size(k) = 0 <=> DOMAIN s[k] = {})
  BY FS_CardinalityType, FS_EmptySet DEF IsSnapshot
<1>2. /\ size("routers") \in Nat /\ size("services") \in Nat
      /\ size("middlewares") \in Nat
  BY <1>1 DEF Kinds
<1>3. size("routers") + size("services") + size("middlewares") = 0
  <2>1. "added" \in DOMAIN FirstSummary(s)
    BY DEF FirstSummary
  <2>2. FirstSummary(s).added = 0
    BY <2>1
  <2> QED BY <2>2 DEF FirstSummary
<1>4. size("routers") = 0 /\ size("services") = 0 /\ size("middlewares") = 0
  <2> HIDE DEF size
  <2> QED BY <1>2, <1>3
<1>5. \A k \in Kinds : DOMAIN s[k] = {}
  BY <1>1, <1>4 DEF Kinds
<1>6. \A k \in Kinds : DOMAIN NoSnapshot[k] = {}
  BY DEF NoSnapshot, Snapshot, EmptyGraph, Enabled, UsedCertificates, Kinds
<1>7. Keys(s) = {} /\ Keys(NoSnapshot) = {}
  BY <1>5, <1>6 DEF Keys
<1> QED BY <1>7, SameSnapshot

\* Whoever is told that a version changes nothing deploys what already runs:
\* the same entries, hence the same files (diff.go SnapshotDiff; version.go
\* CreateVersion, which stores the summary).
THEOREM NoChangeIsSame == Spec => []NoChangeSameFiles
<1>1. ChangeInv => NoChangeSameFiles
  <2> SUFFICES ASSUME ChangeInv, Ready,
                      \A k \in DOMAIN version.changes : version.changes[k] = 0
               PROVE  /\ version.snap = scope.deployed
                      /\ version.files = ArtifactFiles(scope.deployed)
    BY DEF NoChangeSameFiles
  <2>1. /\ IsSnapshot(scope.deployed) /\ IsSnapshot(version.snap)
        /\ version.files = ArtifactFiles(version.snap)
    BY DEF ChangeInv, DeployedKnown, VersionRecorded
  <2>2. CASE scope.first
    BY <2>1, <2>2, FirstEmpty DEF ChangeInv, DeployedKnown, VersionRecorded
  <2>3. CASE ~scope.first
    <3>1. version.changes = Summary(SnapshotDiff(scope.deployed, version.snap))
      BY <2>3 DEF ChangeInv, VersionRecorded
    <3>2. DOMAIN version.changes
            = DOMAIN SnapshotDiff(scope.deployed, version.snap)
      BY <3>1 DEF Summary, SnapshotDiff
    <3> QED BY <2>1, <3>1, <3>2, NoChangeIsEqual
  <2> QED BY <2>1, <2>2, <2>3
<1> QED BY <1>1, InitChange, NextChange, Invariance, PTL DEF Spec
=============================================================================
