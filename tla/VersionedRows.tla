---------------------------- MODULE VersionedRows ----------------------------
(***************************************************************************)
(* What the tables with a row_version promise to their users: a row is     *)
(* inserted once and never comes back after its deletion, and whoever      *)
(* knows its version knows its content, because every change of the        *)
(* content takes the next version.  ResourceGraph implements it.           *)
(***************************************************************************)
EXTENDS Naturals

CONSTANT Rows   \* row ids

VARIABLE row    \* their state, version and columns

\* With any columns
Insert(i) ==
  /\ row[i].st = "none"
  /\ row' = [row EXCEPT ![i] = [st |-> "live", ver |-> 1,
                               data |-> row'[i].data]]

\* Any columns change together with the version.  A save that was admitted
\* before a deletion may still write to the deleted row.
Save(i) ==
  /\ row[i].st # "none"
  /\ row' = [row EXCEPT ![i].ver = row[i].ver + 1, ![i].data = row'[i].data]

\* Several rows may be deleted together.
Remove ==
  row' = [i \in Rows |->
            IF row[i].st = "live" /\ row'[i].st = "gone"
            THEN [row[i] EXCEPT !.st = "gone"] ELSE row[i]]

Init ==
  /\ DOMAIN row = Rows
  /\ \A i \in Rows : /\ DOMAIN row[i] = {"st", "ver", "data"}
                     /\ row[i].st \in {"none", "live", "gone"}
                     /\ row[i].ver \in Nat
                     /\ row[i].ver = 0 <=> row[i].st = "none"

Next == Remove \/ \E i \in Rows : Insert(i) \/ Save(i)

Spec == Init /\ [][Next]_row
=============================================================================
