------------------------- MODULE DeployLedger_proofs -------------------------
(***************************************************************************)
(* What a reader of the ledger may rely on.  DeployHistory_proofs takes    *)
(* these theorems over for the pipeline, which keeps the ledger.           *)
(***************************************************************************)
EXTENDS DeployLedger, TLAPS

OneOpen ==
  \A d, e \in Open : ledger[d].node = ledger[e].node => d = e

LedgerInv == LedgerOK /\ OneOpen

\* How one entry moves: it stays, is accepted, or is closed.
Moved(d) ==
  \/ ledger'[d] = ledger[d]
  \/ ledger[d].status = "none" /\ ledger'[d].status = "open"
  \/ /\ ledger[d].status = "open"
     /\ ledger'[d].status \in {"success", "failed"}
     /\ ledger'[d].node = ledger[d].node

LEMMA StepMoves ==
  ASSUME LedgerInv, [Next]_ledger
  PROVE  LedgerInv' /\ \A d \in Deployments : Moved(d)
<1> USE DEF LedgerInv, LedgerOK, OneOpen, Open, Moved, Entry, Status
<1>1. ASSUME NEW d \in Deployments, NEW n \in Nodes, Accept(d, n)
      PROVE  LedgerInv' /\ \A e \in Deployments : Moved(e)
  <2>1. /\ ledger' \in [Deployments -> Entry]
        /\ ledger'[d] = [status |-> "open", node |-> n]
        /\ \A e \in Deployments \ {d} : ledger'[e] = ledger[e]
    BY <1>1 DEF Accept
  <2> QED BY <1>1, <2>1 DEF Accept
<1>2. ASSUME NEW d \in Deployments, NEW verdict \in {"success", "failed"},
             Close(d, verdict)
      PROVE  LedgerInv' /\ \A e \in Deployments : Moved(e)
  <2>1. /\ ledger' \in [Deployments -> Entry]
        /\ ledger'[d].status = verdict /\ ledger'[d].node = ledger[d].node
        /\ \A e \in Deployments \ {d} : ledger'[e] = ledger[e]
    BY <1>2 DEF Close
  <2> QED BY <1>2, <2>1 DEF Close
<1>3. CASE Interrupt
  <2>1. /\ ledger' \in [Deployments -> Entry]
        /\ \A e \in Open : /\ ledger'[e].status = "failed"
                           /\ ledger'[e].node = ledger[e].node
        /\ \A e \in Deployments \ Open : ledger'[e] = ledger[e]
    BY <1>3 DEF Interrupt
  <2> QED BY <2>1
<1>4. CASE UNCHANGED ledger
  BY <1>4
<1> QED BY <1>1, <1>2, <1>3, <1>4 DEF Next, CloseAs

\* A node never has two open deployments.
THEOREM OneOpenPerNode == Spec => [](LedgerOK /\ OneOpen)
<1>1. Init => LedgerInv
  BY DEF Init, LedgerInv, LedgerOK, OneOpen, Open
<1> QED BY <1>1, StepMoves, PTL DEF Spec, LedgerInv

\* A verdict is final: no later deployment, no restart and no second executor
\* turns a success into a failure or a failure into a success, or opens the
\* deployment again.
THEOREM VerdictIsFinal ==
  ASSUME NEW d \in Deployments, NEW v \in {"success", "failed"}
  PROVE  Spec => [](ledger[d].status = v => [](ledger[d].status = v))
<1>1. LedgerInv /\ ledger[d].status = v /\ [Next]_ledger
        => (ledger[d].status = v)'
  BY StepMoves DEF Moved
<1> QED BY <1>1, OneOpenPerNode, PTL DEF Spec, LedgerInv

\* An accepted deployment stays with its node, and is not forgotten.
THEOREM AcceptedForItsNode ==
  ASSUME NEW d \in Deployments, NEW n \in Nodes
  PROVE  Spec => [](ledger[d].status # "none" /\ ledger[d].node = n
                      => [](ledger[d].status # "none" /\ ledger[d].node = n))
<1> DEFINE Taken == ledger[d].status # "none" /\ ledger[d].node = n
<1>1. LedgerInv /\ Taken /\ [Next]_ledger => Taken'
  BY StepMoves DEF Moved
<1> QED BY <1>1, OneOpenPerNode, PTL DEF Spec, LedgerInv
=============================================================================
