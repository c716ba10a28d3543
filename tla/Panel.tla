--------------------------------- MODULE Panel --------------------------------
(***************************************************************************)
(* The three halves of the desktop panel that follow something the daemon  *)
(* does: the chat, the scans and the quarantine.  They run in one thread   *)
(* and have their requests under way at the same time, but no variable in  *)
(* common: each callback is of one of them.                                *)
(***************************************************************************)
EXTENDS ChatPanel, ScanPanel, QuarantinePanel

panelsVars == <<chatVars, scanVars, panelVars>>

PanelsInit == ChatInit /\ ScanInit /\ PanelInit

PanelsNext ==
    \/ ChatNext /\ UNCHANGED <<scanVars, panelVars>>
    \/ ScanNext /\ UNCHANGED <<chatVars, panelVars>>
    \/ PanelNext /\ UNCHANGED <<chatVars, scanVars>>

PanelsSpec == PanelsInit /\ [][PanelsNext]_panelsVars

-----------------------------------------------------------------------------

\* The panel follows its runs and its scans to their end, and never sits on a
\* receipt.
PanelsFollow == RunFollowed /\ ScanFollowed /\ ReceiptHandled

===============================================================================
