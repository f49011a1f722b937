---------------------------- MODULE DeployLedger ----------------------------
(***************************************************************************)
(* What the pipeline promises about deployments, without saying how: a     *)
(* deployment is accepted for a node that has none in progress, it is      *)
(* closed once, as a success or as a failure, and every accepted           *)
(* deployment is closed.  A restart closes whatever is open as failed.     *)
(***************************************************************************)
CONSTANTS Nodes, Deployments

VARIABLE ledger   \* each deployment: its status, and the node it is for

Status == {"none", "open", "success", "failed"}
Entry == [status : Status, node : Nodes]

LedgerOK == ledger \in [Deployments -> Entry]

Open == {d \in Deployments : ledger[d].status = "open"}

Init == /\ ledger \in [Deployments -> Entry]
        /\ \A d \in Deployments : ledger[d].status = "none"

\* A fresh deployment is taken for a node that has no open one.
Accept(d, n) ==
  /\ ledger[d].status = "none"
  /\ \A e \in Open : ledger[e].node # n
  /\ ledger' = [ledger EXCEPT ![d] = [status |-> "open", node |-> n]]

\* An open deployment gets its final verdict.
Close(d, verdict) ==
  /\ ledger[d].status = "open"
  /\ ledger' = [ledger EXCEPT ![d].status = verdict]

CloseAs(d) == \E verdict \in {"success", "failed"} : Close(d, verdict)

\* A restart gives up on everything in progress.
Interrupt ==
  ledger' = [d \in Deployments |->
    IF d \in Open THEN [ledger[d] EXCEPT !.status = "failed"] ELSE ledger[d]]

Next ==
  \/ \E d \in Deployments : \/ \E n \in Nodes : Accept(d, n)
                            \/ CloseAs(d)
  \/ Interrupt

\* The safety half of the promise
Spec == Init /\ [][Next]_ledger

\* ... and with the liveness half: what is open does not stay open.
FairSpec == Spec /\ \A d \in Deployments : WF_ledger(CloseAs(d))
=============================================================================
