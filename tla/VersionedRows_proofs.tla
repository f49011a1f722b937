------------------------ MODULE VersionedRows_proofs ------------------------
(***************************************************************************)
(* What the users of a versioned table may rely on.  ResourceGraph_proofs  *)
(* takes these theorems over for its tables.                               *)
(***************************************************************************)
EXTENDS VersionedRows, TLAPS

States == {"none", "live", "gone"}

RowsOK ==
  /\ DOMAIN row = Rows
  /\ \A i \in Rows : /\ DOMAIN row[i] = {"st", "ver", "data"}
                     /\ row[i].st \in States
                     /\ row[i].ver \in Nat
                     /\ row[i].st = "none" => row[i].ver = 0

\* How one row moves: it stays, is inserted, is saved or is deleted.
Moved(i) ==
  \/ row'[i] = row[i]
  \/ row[i].st = "none" /\ row'[i].st = "live" /\ row'[i].ver = 1
  \/ row[i].st # "none" /\ row'[i].st = row[i].st /\ row'[i].ver = row[i].ver + 1
  \/ /\ row[i].st = "live" /\ row'[i].st = "gone"
     /\ row'[i].ver = row[i].ver /\ row'[i].data = row[i].data

LEMMA StepMoves ==
  ASSUME RowsOK, [Next]_row
  PROVE  RowsOK' /\ \A i \in Rows : Moved(i)
<1> USE DEF RowsOK, States, Moved
<1>1. ASSUME NEW i \in Rows, Insert(i)
      PROVE  RowsOK' /\ \A j \in Rows : Moved(j)
  <2>1. row' = [row EXCEPT ![i] = [st |-> "live", ver |-> 1, data |-> row'[i].data]]
    BY <1>1 DEF Insert
  <2>2. /\ DOMAIN row' = Rows
        /\ row'[i] = [st |-> "live", ver |-> 1, data |-> row'[i].data]
        /\ \A j \in Rows \ {i} : row'[j] = row[j]
    <3> DEFINE x == row'[i].data
    <3>1. row' = [row EXCEPT ![i] = [st |-> "live", ver |-> 1, data |-> x]]
      BY <2>1
    <3> HIDE DEF x
    <3>2. row'[i] = [st |-> "live", ver |-> 1, data |-> x]
      BY <3>1
    <3> QED BY <3>1, <3>2 DEF x
  <2>3. /\ DOMAIN row'[i] = {"st", "ver", "data"}
        /\ row'[i].st = "live" /\ row'[i].ver = 1
    BY <2>2
  <2> QED BY <1>1, <2>2, <2>3 DEF Insert
<1>2. ASSUME NEW i \in Rows, Save(i)
      PROVE  RowsOK' /\ \A j \in Rows : Moved(j)
  <2> DEFINE x == row'[i].data
  <2>1. row' = [row EXCEPT ![i].ver = row[i].ver + 1, ![i].data = x]
    BY <1>2 DEF Save
  <2> HIDE DEF x
  <2>2. /\ DOMAIN row' = Rows
        /\ DOMAIN row'[i] = {"st", "ver", "data"}
        /\ row'[i].ver = row[i].ver + 1 /\ row'[i].st = row[i].st
        /\ \A j \in Rows \ {i} : row'[j] = row[j]
    BY <2>1
  <2> QED BY <1>2, <2>2 DEF Save
<1>3. CASE Remove
  <2>1. DOMAIN row' = Rows
    BY <1>3 DEF Remove
  <2>2. ASSUME NEW j \in Rows, row'[j] # row[j]
        PROVE  row[j].st = "live" /\ row'[j] = [row[j] EXCEPT !.st = "gone"]
    BY <1>3, <2>2 DEF Remove
  <2> QED BY <2>1, <2>2
<1>4. CASE UNCHANGED row
  BY <1>4
<1> QED BY <1>1, <1>2, <1>3, <1>4 DEF Next

LEMMA RowsInvariant == Spec => []RowsOK
<1>1. Init => RowsOK
  BY DEF Init, RowsOK, States
<1> QED BY <1>1, StepMoves, PTL DEF Spec

\* A version identifies the content: whoever read a row at some version and
\* finds that version again finds what was read, whatever happened between.
THEOREM VersionIsContent ==
  ASSUME NEW i \in Rows, NEW n \in Nat, NEW x
  PROVE  Spec => [](row[i].st # "none" /\ row[i].ver = n /\ row[i].data = x
                      => [](row[i].ver = n => row[i].data = x))
<1> DEFINE Read == row[i].st # "none" /\ row[i].ver = n /\ row[i].data = x
           Known == row[i].st # "none" /\ row[i].ver >= n
                      /\ (row[i].ver = n => row[i].data = x)
<1>1. Read => Known
  OBVIOUS
<1>2. RowsOK /\ Known /\ [Next]_row => Known'
  <2> SUFFICES ASSUME RowsOK, Known, [Next]_row PROVE Known'
    OBVIOUS
  <2>1. Moved(i) /\ row[i].ver \in Nat
    BY StepMoves DEF RowsOK
  <2> QED BY <2>1 DEF Moved
<1>3. Known => (row[i].ver = n => row[i].data = x)
  OBVIOUS
<1> QED BY <1>1, <1>2, <1>3, RowsInvariant, PTL DEF Spec

\* No version is ever used twice: it never falls.
THEOREM VersionsGrow ==
  ASSUME NEW i \in Rows, NEW n \in Nat
  PROVE  Spec => [](row[i].ver >= n => [](row[i].ver >= n))
<1>1. RowsOK /\ row[i].ver >= n /\ [Next]_row => (row[i].ver >= n)'
  <2> SUFFICES ASSUME RowsOK, row[i].ver >= n, [Next]_row PROVE row'[i].ver >= n
    OBVIOUS
  <2>1. /\ Moved(i) /\ row[i].ver \in Nat
        /\ row[i].st = "none" => row[i].ver = 0
    BY StepMoves DEF RowsOK
  <2> QED BY <2>1 DEF Moved
<1> QED BY <1>1, RowsInvariant, PTL DEF Spec

\* A row that was deleted does not come back.
THEOREM DeletedForGood ==
  ASSUME NEW i \in Rows
  PROVE  Spec => [](row[i].st = "gone" => [](row[i].st = "gone"))
<1>1. RowsOK /\ row[i].st = "gone" /\ [Next]_row => (row[i].st = "gone")'
  BY StepMoves DEF Moved
<1> QED BY <1>1, RowsInvariant, PTL DEF Spec
=============================================================================
