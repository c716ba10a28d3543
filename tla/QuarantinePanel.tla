---------------------------- MODULE QuarantinePanel ---------------------------
(***************************************************************************)
(* The quarantine half of the Security Center in the desktop panel: a      *)
(* receipt of the security worker is confirmed or declined in a box that   *)
(* restoring a file uses as well, while the requests of both are under way. *)
(***************************************************************************)
EXTENDS Integers

CONSTANT MaxReceipts  \* bound: receipts the worker ever gives, and restores at a time

ASSUME ReceiptAssumption == MaxReceipts \in Nat

VARIABLES
    receipts,  \* the worker's records: "none", "awaiting", "quarantined", "closed"
    receipt,   \* _securityQuarantineReceipt, 0 for null
    box,       \* _securityConfirmation: [for, receipt, live], live if its buttons are
    preparing, \* _prepareSecurityQuarantine(), the flag with it: [at, receipt]
    deciding,  \* what was clicked for a receipt: [what, receipt, at]
    restoring, \* calls of _restoreSecurityQuarantine() that are not answered
    hidden    \* history: a restore ended while another box was open

panelVars == <<receipts, receipt, box, preparing, deciding, restoring, hidden>>

Receipt == 1 .. MaxReceipts
NoBox == [for |-> "none", receipt |-> 0, live |-> FALSE]
NotPreparing == [at |-> "none", receipt |-> 0]
Undecided == [what |-> "none", receipt |-> 0, at |-> "none"]
Box == [for : {"none", "quarantine", "restore"}, receipt : 0 .. MaxReceipts, live : BOOLEAN]
Preparing == [at : {"none", "sent", "answered", "failed"}, receipt : 0 .. MaxReceipts]
Deciding == [what : {"none", "commit", "cancel"}, receipt : 0 .. MaxReceipts,
             at : {"none", "sent", "done", "failed", "refreshing"}]

PanelTypeOK ==
    /\ receipts \in [Receipt -> {"none", "awaiting", "quarantined", "closed"}]
    /\ receipt \in 0 .. MaxReceipts
    /\ box \in Box /\ preparing \in Preparing /\ deciding \in Deciding
    /\ restoring \in 0 .. MaxReceipts
    /\ hidden \in BOOLEAN

PanelInit ==
    /\ receipts = [r \in Receipt |-> "none"]
    /\ receipt = 0 /\ box = NoBox /\ preparing = NotPreparing /\ deciding = Undecided
    /\ restoring = 0 /\ hidden = FALSE

-----------------------------------------------------------------------------
(* _prepareSecurityQuarantine()                                              *)

MayPrepare == preparing = NotPreparing /\ receipt = 0

PrepareClicked ==
    /\ MayPrepare
    /\ preparing' = [at |-> "sent", receipt |-> 0]
    /\ UNCHANGED <<receipts, receipt, box, deciding, restoring, hidden>>

\* The worker gives a receipt, or refuses.
ReceiptGiven ==
    /\ preparing.at = "sent"
    /\ \/ /\ preparing' = [at |-> "failed", receipt |-> 0]
          /\ UNCHANGED receipts
       \/ \E r \in Receipt :
             /\ receipts[r] = "none" /\ \A q \in 1 .. r - 1 : receipts[q] # "none"
             /\ receipts' = [receipts EXCEPT ![r] = "awaiting"]
             /\ preparing' \in {[at |-> "answered", receipt |-> r], [at |-> "failed", receipt |-> 0]}
    /\ UNCHANGED <<receipt, box, deciding, restoring, hidden>>

\* The box is shown, whatever was in it.
ReceiptShown ==
    /\ preparing.at = "answered" /\ preparing' = NotPreparing
    /\ receipt' = preparing.receipt
    /\ box' = [for |-> "quarantine", receipt |-> preparing.receipt, live |-> TRUE]
    /\ UNCHANGED <<receipts, deciding, restoring, hidden>>

PrepareFailed ==
    /\ preparing.at = "failed" /\ preparing' = NotPreparing
    /\ UNCHANGED <<receipts, receipt, box, deciding, restoring, hidden>>

-----------------------------------------------------------------------------
(* The buttons of the box, of which only the first click counts.             *)

Decide(what) ==
    /\ box.for = "quarantine" /\ box.live
    /\ box' = [box EXCEPT !.live = FALSE]
    /\ deciding' = [what |-> what, receipt |-> box.receipt, at |-> "sent"]
    /\ UNCHANGED <<receipts, receipt, preparing, restoring, hidden>>

\* The worker's answer, or none.
Decided ==
    /\ deciding.at = "sent"
    /\ \/ /\ receipts[deciding.receipt] = "awaiting"
          /\ receipts' = [receipts EXCEPT ![deciding.receipt] =
                             IF deciding.what = "commit" THEN "quarantined" ELSE "closed"]
          /\ deciding' = [deciding EXCEPT !.at = "done"]
       \/ deciding' = [deciding EXCEPT !.at = "failed"] /\ UNCHANGED receipts
    /\ UNCHANGED <<receipt, box, preparing, restoring, hidden>>

\* onCancel: an error is swallowed.
CancelSettled ==
    /\ deciding.what = "cancel" /\ deciding.at \in {"done", "failed"}
    /\ deciding' = Undecided /\ receipt' = 0 /\ box' = NoBox
    /\ UNCHANGED <<receipts, preparing, restoring, hidden>>

\* _commitSecurityQuarantine(): the receipt is kept while the view is refreshed.
CommitSettled ==
    /\ deciding.what = "commit"
    /\ \/ /\ deciding.at \in {"done", "failed"} /\ box' = NoBox
          /\ deciding' = IF deciding.at = "done" THEN [deciding EXCEPT !.at = "refreshing"] ELSE Undecided
          /\ receipt' = IF deciding.at = "done" THEN receipt ELSE 0
       \/ /\ deciding.at = "refreshing" /\ deciding' = Undecided
          /\ receipt' = 0 /\ UNCHANGED box
    /\ UNCHANGED <<receipts, preparing, restoring, hidden>>

-----------------------------------------------------------------------------
(* _confirmSecurityRestore() and _restoreSecurityQuarantine()                *)

RestoreClicked ==
    /\ box = NoBox
    /\ \E r \in Receipt : receipts[r] = "quarantined"
    /\ box' = [for |-> "restore", receipt |-> 0, live |-> TRUE]
    /\ UNCHANGED <<receipts, receipt, preparing, deciding, restoring, hidden>>

RestoreDecided(confirmed) ==
    /\ box.for = "restore" /\ box.live
    /\ IF confirmed
       THEN /\ restoring < MaxReceipts /\ restoring' = restoring + 1
            /\ box' = [box EXCEPT !.live = FALSE]
       ELSE box' = NoBox /\ UNCHANGED restoring
    /\ UNCHANGED <<receipts, receipt, preparing, deciding, hidden>>

\* Whatever the answer is, the box is hidden: also one that was opened since.
RestoreSettled ==
    /\ restoring > 0 /\ restoring' = restoring - 1
    /\ box' = NoBox
    /\ hidden' = (hidden \/ box.for = "quarantine")
    /\ \/ UNCHANGED receipts
       \/ \E r \in Receipt : /\ receipts[r] = "quarantined"
                             /\ receipts' = [receipts EXCEPT ![r] = "closed"]
    /\ UNCHANGED <<receipt, preparing, deciding>>

PanelNext ==
    \/ PrepareClicked \/ ReceiptGiven \/ ReceiptShown \/ PrepareFailed
    \/ \E what \in {"commit", "cancel"} : Decide(what)
    \/ Decided \/ CancelSettled \/ CommitSettled
    \/ RestoreClicked
    \/ \E confirmed \in BOOLEAN : RestoreDecided(confirmed)
    \/ RestoreSettled

PanelSpec == PanelInit /\ [][PanelNext]_panelVars

-----------------------------------------------------------------------------

\* The panel never sits on a receipt: as long as it keeps one, and with it
\* refuses to prepare another, the user can confirm or decline it or has done
\* so; and no button is left for a receipt that the panel has dropped.  The
\* exception is a restore that ends while the box is another's: it hides the box
\* of the receipt, which is kept for as long as the panel lives.
ReceiptHandled ==
    /\ receipt # 0 /\ ~hidden =>
           \/ box = [for |-> "quarantine", receipt |-> receipt, live |-> TRUE]
           \/ deciding.receipt = receipt
    /\ box.for = "quarantine" /\ box.live => box.receipt = receipt

=============================================================================
