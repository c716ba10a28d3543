------------------------------ MODULE Quarantine ------------------------------
(***************************************************************************)
(* Security Center: a file that was found to be malware is moved to the    *)
(* quarantine with the user's consent, and back.  The worker serves one    *)
(* request at a time, a scan job records findings at any moment, and the   *)
(* user goes on working with his files.                                    *)
(*                                                                         *)
(* One path, where there is nothing, the malware or another file; every    *)
(* record has an object of its own in the quarantine.                      *)
(***************************************************************************)
EXTENDS Integers

CONSTANT MaxRecords  \* bound: quarantine records, all for the same finding

ASSUME RecordsAssumption == MaxRecords \in Nat

VARIABLES
    records,  \* the states of quarantine_records
    vault,    \* the objects
    source,   \* what is at the path of the finding
    finding,  \* its state in the FindingStore
    hand,     \* the request the worker serves, and how far it is
    sighted,  \* a scan has seen the malware and not recorded it yet
    cut,      \* history: a request ended in the middle
    raced,    \* history: the user wrote to the path between a test and a move
    spoiled   \* history: a file of the user's was overwritten

quarantineVars == <<records, vault, source, finding, hand, sighted, cut, raced, spoiled>>

Record == 1 .. MaxRecords
Thing == {"none", "malware", "other"}
RecordState == {"unused", "awaiting_confirmation", "cancelled", "committing", "quarantined",
                "restoring", "restored", "failed"}
FindingState == {"none", "active", "resolved"}
NoRequest == [op |-> "none", at |-> "none", record |-> 0]

QuarantineTypeOK ==
    /\ records \in [Record -> RecordState]
    /\ vault \in [Record -> Thing] /\ source \in Thing
    /\ finding \in FindingState
    /\ hand.op = "commit" => records[hand.record] \in {"committing", "quarantined"}
    /\ hand.op = "restore" => records[hand.record] \in {"restoring", "restored"}
    /\ {sighted, cut, raced, spoiled} \subseteq BOOLEAN

QuarantineInit ==
    /\ records = [r \in Record |-> "unused"]
    /\ vault = [r \in Record |-> "none"]
    /\ source = "malware"
    /\ finding = "none"
    /\ hand = NoRequest
    /\ sighted = FALSE
    /\ cut = FALSE /\ raced = FALSE /\ spoiled = FALSE

-----------------------------------------------------------------------------
(* The worker's requests.                                                  *)

SetState(r, state) == records' = [records EXCEPT ![r] = state]

\* The request is answered with a record in this state.
Answer(state) == SetState(hand.record, state) /\ hand' = NoRequest

\* prepare(): the finding is active, and the file is still what was found.
PrepareQuarantine(r) ==
    /\ hand = NoRequest
    /\ records[r] = "unused" /\ \A k \in 1 .. r - 1 : records[k] # "unused"
    /\ finding = "active" /\ source = "malware"
    /\ SetState(r, "awaiting_confirmation")
    /\ UNCHANGED <<vault, source, finding, hand, sighted, cut, raced, spoiled>>

CancelQuarantine(r) ==
    /\ hand = NoRequest /\ records[r] = "awaiting_confirmation"
    /\ SetState(r, "cancelled")
    /\ UNCHANGED <<vault, source, finding, hand, sighted, cut, raced, spoiled>>

\* _claim(), for commit() and for restore()
ClaimRecord(r) ==
    /\ hand = NoRequest
    /\ \/ /\ records[r] = "awaiting_confirmation"
          /\ SetState(r, "committing")
          /\ hand' = [op |-> "commit", at |-> "examine", record |-> r]
       \/ /\ records[r] = "quarantined"
          /\ SetState(r, "restoring")
          /\ hand' = [op |-> "restore", at |-> "examine", record |-> r]
    /\ UNCHANGED <<vault, source, finding, sighted, cut, raced, spoiled>>

At(op, step) == hand.op = op /\ hand.at = step
GoOn(step) == hand' = [hand EXCEPT !.at = step]

\* restore(), before the move: the directory is there, nothing is at the path,
\* and the object has the hash that was noted.
ExamineObject ==
    /\ At("restore", "examine")
    /\ \/ source = "none" /\ vault[hand.record] = "malware" /\ GoOn("move") /\ UNCHANGED records
       \/ Answer("quarantined")
    /\ UNCHANGED <<vault, source, finding, sighted, cut, raced, spoiled>>

\* commit(), before the move: the file is there, and a scan gives the hash that
\* was approved.
ExamineFile ==
    /\ At("commit", "examine")
    /\ \/ source = "malware" /\ GoOn("move") /\ UNCHANGED records
       \/ Answer("failed")
    /\ UNCHANGED <<vault, source, finding, sighted, cut, raced, spoiled>>

\* os.replace() moves what is there by now ...
MoveToVault ==
    /\ At("commit", "move")
    /\ \/ /\ source # "none"
          /\ vault' = [vault EXCEPT ![hand.record] = source]
          /\ source' = "none"
          /\ GoOn("verify")
          /\ UNCHANGED records
       \/ Answer("failed") /\ UNCHANGED <<vault, source>>
    /\ UNCHANGED <<finding, sighted, cut, raced, spoiled>>

\* ... and replaces what is there by now.
MoveBack ==
    /\ At("restore", "move")
    /\ \/ /\ vault[hand.record] # "none"
          /\ source' = vault[hand.record]
          /\ vault' = [vault EXCEPT ![hand.record] = "none"]
          /\ spoiled' = (spoiled \/ source # "none")
          /\ GoOn("verify")
          /\ UNCHANGED records
       \/ Answer("quarantined") /\ UNCHANGED <<vault, source, spoiled>>
    /\ UNCHANGED <<finding, sighted, cut, raced>>

\* Mutant of VerifyObject: a file that is not the one approved stays there.
VerifyObjectKept ==
    /\ At("commit", "verify")
    /\ IF vault[hand.record] = "malware" THEN SetState(hand.record, "quarantined") /\ GoOn("settle")
       ELSE Answer("failed")
    /\ UNCHANGED <<vault, source, finding, sighted, cut, raced, spoiled>>

\* The object has the hash, or it goes back (_rollback_move()), if nothing else
\* is at its path by now: another file stays in the quarantine.
VerifyObject ==
    /\ At("commit", "verify")
    /\ \/ /\ vault[hand.record] = "malware"
          /\ SetState(hand.record, "quarantined")
          /\ GoOn("settle")
          /\ UNCHANGED <<vault, source, raced>>
       \/ /\ IF source = "none"
             THEN /\ source' = vault[hand.record]
                  /\ vault' = [vault EXCEPT ![hand.record] = "none"]
             ELSE UNCHANGED <<source, vault>>
          /\ raced' = (raced \/ source # "none")
          /\ Answer("failed")
    /\ UNCHANGED <<finding, sighted, cut, spoiled>>

\* The file has the hash, or it goes back; after an error it stays where it is,
\* and the record says that it is in the quarantine.
VerifyFile ==
    /\ At("restore", "verify")
    /\ \/ /\ source = "malware"
          /\ SetState(hand.record, "restored")
          /\ GoOn("settle")
          /\ UNCHANGED <<vault, source, cut>>
       \/ /\ source = "other"
          /\ vault' = [vault EXCEPT ![hand.record] = source]
          /\ source' = "none"
          /\ Answer("quarantined")
          /\ UNCHANGED cut
       \/ Answer("quarantined") /\ cut' = TRUE /\ UNCHANGED <<vault, source>>
    /\ UNCHANGED <<finding, sighted, raced, spoiled>>

\* FindingStore.set_state()
SettleFinding ==
    /\ hand.at = "settle"
    /\ finding' = IF hand.op = "commit" THEN "resolved" ELSE "active"
    /\ hand' = NoRequest
    /\ UNCHANGED <<records, vault, source, sighted, cut, raced, spoiled>>

\* An error that nothing in the manager catches: of the FindingStore, or of
\* the move back.
RequestBreaksOff ==
    /\ hand.at \in {"verify", "settle"}
    /\ hand' = NoRequest
    /\ cut' = TRUE
    /\ UNCHANGED <<records, vault, source, finding, sighted, raced, spoiled>>

\* The worker dies, or an error of SQLite that nothing catches ends it.  The
\* next one cancels what had not been confirmed, and nothing else.
SecurityWorkerDies ==
    /\ records' = [r \in Record |-> IF records[r] = "awaiting_confirmation" THEN "cancelled"
                                    ELSE records[r]]
    /\ cut' = (cut \/ hand # NoRequest)
    /\ hand' = NoRequest
    /\ sighted' = FALSE
    /\ UNCHANGED <<vault, source, finding, raced, spoiled>>

-----------------------------------------------------------------------------
(* A scan job, and the user.                                               *)

ScanSights ==
    /\ source = "malware" /\ ~sighted
    /\ sighted' = TRUE
    /\ UNCHANGED <<records, vault, source, finding, hand, cut, raced, spoiled>>

\* FindingStore.record()
ScanRecords ==
    /\ sighted
    /\ finding' = "active"
    /\ sighted' = FALSE
    /\ UNCHANGED <<records, vault, source, hand, cut, raced, spoiled>>

\* Between the test and the move of a restoration he can put a file in the way.
UserWrites ==
    /\ source' \in Thing \ {source}
    /\ raced' = (raced \/ At("restore", "move"))
    /\ UNCHANGED <<records, vault, finding, hand, sighted, cut, spoiled>>

\* He can write to the object, too: it is his own directory.
UserSpoilsObject(r) ==
    /\ vault[r] = "malware"
    /\ vault' = [vault EXCEPT ![r] = "other"]
    /\ UNCHANGED <<records, source, finding, hand, sighted, cut, raced, spoiled>>

QuarantineNext ==
    \/ \E r \in Record : PrepareQuarantine(r) \/ CancelQuarantine(r) \/ ClaimRecord(r)
    \/ ExamineFile \/ MoveToVault \/ VerifyObject
    \/ ExamineObject \/ MoveBack \/ VerifyFile
    \/ SettleFinding \/ RequestBreaksOff \/ SecurityWorkerDies
    \/ ScanSights \/ ScanRecords \/ UserWrites
    \/ \E r \in Record : UserSpoilsObject(r)

QuarantineSpec == QuarantineInit /\ [][QuarantineNext]_quarantineVars

-----------------------------------------------------------------------------

\* What a record says is where its file is: the quarantine holds an object for
\* the records that are "quarantined" and for no other, and no file of the
\* user's was overwritten; unless a request ended in the middle, or the user put
\* a file in the way of the move back.
ObjectsHonest ==
    /\ ~cut /\ ~raced => \A r \in Record : r # hand.record =>
           (vault[r] # "none" <=> records[r] = "quarantined")
    /\ spoiled => raced

\* Records, files and the finding agree: what ObjectsHonest says, and a finding
\* is resolved only as long as the file is in the quarantine.  When it is back,
\* or never got there, the finding is active.  (A scan that saw the file before
\* may make it active too early, never the other way round.)
RecordsHonest ==
    /\ ObjectsHonest
    /\ finding = "resolved" /\ hand = NoRequest /\ ~cut =>
           \E r \in Record : records[r] = "quarantined"

===============================================================================
