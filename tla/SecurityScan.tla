------------------------------ MODULE SecurityScan ------------------------------
(***************************************************************************)
(* Security Center: what a scan job says of the files it was asked for.    *)
(* The job walks directories and looks at files one after the other, while *)
(* the user goes on working with them and may cancel the job: what was not *)
(* looked at must not be called clean.                                     *)
(*                                                                         *)
(* Signatures are abstracted to the set of entries whose content they      *)
(* match.  The order of the walk is left open: it matters only for what a  *)
(* limit cuts off.                                                         *)
(***************************************************************************)
EXTENDS Integers, FiniteSets

CONSTANTS
    Entry,     \* files, directories and links
    Root,      \* the directories the job is asked for, its scopes
    Parent,    \* the directory of every other entry
    Path,      \* the entries from a root down to an entry, both included
    Depth,     \* of an entry below its root, which has 0
    MaxDepth,  \* of the profile
    Excluded,  \* excluded_paths: the private state of the Security Center
    MaxTurns   \* bound: changes that the user makes meanwhile

\* The entries are a forest below the roots.
ASSUME TreeAssumption ==
    /\ Root \subseteq Entry /\ Excluded \subseteq Entry
    /\ Parent \in [Entry \ Root -> Entry]
    /\ Path \in [Entry -> SUBSET Entry]
    /\ \A e \in Entry :
         /\ e \in Path[e] /\ Path[e] \cap Root # {}
         /\ \A a \in Path[e] : Path[a] \subseteq Path[e]
         /\ \A a \in Path[e] \ {e} : \E c \in Path[e] \ Root : Parent[c] = a
    /\ Depth \in [Entry -> Nat] /\ {MaxDepth, MaxTurns} \subseteq Nat

VARIABLES
    objects,   \* what is at each entry
    infected,  \* the entries with a content that a signature matches
    touched,   \* history: the entries changed since the job began, other than by
               \* writing to a file whose scan has not ended
    seen,      \* history: the files whose scan has ended
    target,    \* of the job: "tree" or "file"
    roots,     \* the scopes not begun
    pending,   \* _candidates(): the directories not read
    listed,    \* the entries of the directory being read that were not looked at
    subdirs,   \* its directories
    current,   \* the file being scanned, in a set of one, or none
    opened,    \* what its descriptor leads to: [infected, written]
    phase,     \* how far the job is
    doubt,     \* the scope's limited or unknown
    status,    \* of the job
    threats,   \* the entries counted as threats
    findings,  \* the entries with a row in the FindingStore
    asked,     \* the job's cancel event
    turns      \* counter of the bound

files == <<objects, infected, touched, turns>>
walk == <<roots, pending, listed, subdirs>>
result == <<doubt, status, threats, findings>>
scanner == <<current, opened, seen>>
securityVars == <<files, walk, result, scanner, target, phase, asked>>

Object == {"file", "dir", "link", "pipe", "gone"}
Inner == {Parent[e] : e \in Entry \ Root}
NotOpened == [infected |-> FALSE, written |-> FALSE]

SecurityTypeOK ==
    /\ objects \in [Entry -> Object]
    /\ infected \subseteq Entry /\ touched \subseteq Entry /\ seen \subseteq Entry
    /\ target \in {"tree", "file"}
    /\ roots \subseteq Root /\ pending \subseteq Entry /\ listed \subseteq Entry /\ subdirs \subseteq Entry
    /\ current \subseteq Entry
    /\ opened \in [infected : BOOLEAN, written : BOOLEAN]
    /\ phase \in {"scope", "directories", "listing", "odd", "limit", "file", "open", "read",
                  "record", "end", "done", "failed"}
    /\ doubt \in BOOLEAN /\ status \in {"completed", "partial", "cancelled"}
    /\ threats \subseteq Entry /\ findings \subseteq Entry
    /\ asked \in BOOLEAN /\ turns \in 0 .. MaxTurns

\* The job begins: with its scopes, or with one file (_run_scan_job()).
SecurityInit ==
    /\ objects \in [Entry -> Object \ {"gone"}]
    /\ \A e \in Inner : objects[e] = "dir"
    /\ infected \in SUBSET {e \in Entry : objects[e] = "file"}
    /\ touched = {} /\ seen = {} /\ turns = 0
    /\ \/ target = "tree" /\ roots = Root /\ current = {} /\ phase = "scope"
       \/ target = "file" /\ roots = {} /\ (\E e \in Entry : current = {e}) /\ phase = "open"
    /\ pending = {} /\ listed = {} /\ subdirs = {}
    /\ opened = NotOpened
    /\ doubt = FALSE /\ status = "completed" /\ threats = {} /\ findings = {}
    /\ asked = FALSE

-----------------------------------------------------------------------------
(* CampaignScanner.run(), once for every scope                               *)

Shielded(e) == Path[e] \cap Excluded # {}

\* The directory is there and may be read, or the scope is rejected.
BeginScope ==
    /\ phase = "scope"
    /\ \E r \in roots :
         /\ roots' = roots \ {r}
         /\ \/ /\ objects[r] = "dir" /\ ~Shielded(r)
               /\ pending' = {r} /\ phase' = "directories"
               /\ UNCHANGED status
            \/ /\ status' = "partial"
               /\ UNCHANGED <<pending, phase>>
    /\ doubt' = FALSE
    /\ UNCHANGED <<files, listed, subdirs, threats, findings, scanner, target, asked>>

EndJob ==
    /\ phase = "scope" /\ roots = {}
    /\ phase' = "done"
    /\ UNCHANGED <<files, walk, result, scanner, target, asked>>

\* Mutant of ScopeStatus: the status of the job is that of its last scope.
ScopeStatusOfLast == IF doubt THEN "partial" ELSE "completed"

\* The job's status after a scope that was not cancelled.
ScopeStatus == IF doubt THEN "partial" ELSE status

EndScope ==
    /\ phase = "directories" /\ pending = {}
    /\ status' = ScopeStatus
    /\ phase' = "scope"
    /\ UNCHANGED <<files, walk, doubt, threats, findings, scanner, target, asked>>

\* What _candidates() yields: first of all the cancel event is looked at.
CancelSeen ==
    /\ phase \in {"odd", "limit", "file"} /\ asked
    /\ status' = "cancelled" /\ phase' = "done"
    /\ UNCHANGED <<files, walk, doubt, threats, findings, scanner, target, asked>>

\* Something that could not be looked at is counted as unknown.
CountUnknown ==
    /\ phase = "odd" /\ ~asked
    /\ doubt' = TRUE /\ phase' = "listing"
    /\ UNCHANGED <<files, walk, status, threats, findings, scanner, target, asked>>

\* The limits of entries and time, and those of files and bytes: the scope ends.
LimitReached ==
    /\ phase \in {"limit", "file"} /\ ~asked
    /\ status' = "partial" /\ phase' = "scope"
    /\ doubt' = TRUE /\ current' = {}
    /\ pending' = {} /\ listed' = {} /\ subdirs' = {}
    /\ UNCHANGED <<files, roots, threats, findings, target, opened, seen, asked>>

ScanTheFile ==
    /\ phase = "file" /\ ~asked
    /\ phase' = "open"
    /\ UNCHANGED <<files, walk, result, scanner, target, asked>>

-----------------------------------------------------------------------------
(* _candidates()                                                             *)

\* The directory is listed, or cannot be; what replaced it has no entries here.
ReadDirectory ==
    /\ phase = "directories"
    /\ \E d \in pending :
         \/ /\ pending' = pending \ {d}
            /\ subdirs' = {}
            /\ \/ /\ listed' = IF objects[d] = "dir"
                               THEN {e \in Entry \ Root : Parent[e] = d /\ objects[e] # "gone"}
                               ELSE {}
                  /\ phase' = "listing"
               \/ listed' = {} /\ phase' = "odd"
         \/ phase' = "limit" /\ UNCHANGED <<pending, listed, subdirs>>
    /\ UNCHANGED <<files, roots, result, scanner, target, asked>>

\* One entry, by what lstat() says now.  Pipes and what lies deeper than the
\* profile allows are passed over without a word.
LookAt(e) ==
    /\ phase = "listing" /\ e \in listed
    /\ listed' = listed \ {e}
    /\ \/ phase' = "odd" /\ UNCHANGED <<subdirs, current>>
       \/ /\ objects[e] \notin {"gone", "link"}
          /\ subdirs' = IF objects[e] = "dir" /\ Depth[e] <= MaxDepth /\ ~Shielded(e)
                        THEN subdirs \cup {e} ELSE subdirs
          /\ IF objects[e] = "file" /\ ~Shielded(e)
             THEN current' = {e} /\ phase' = "file"
             ELSE UNCHANGED <<current, phase>>
    /\ UNCHANGED <<files, roots, pending, result, target, opened, seen, asked>>

EndDirectory ==
    /\ phase = "listing" /\ listed = {}
    /\ pending' = pending \cup subdirs /\ subdirs' = {}
    /\ phase' = "directories"
    /\ UNCHANGED <<files, roots, listed, result, scanner, target, asked>>

-----------------------------------------------------------------------------
(* FileScanner.scan()                                                        *)

\* The next candidate, or the end of a job about one file.
FileEnds ==
    /\ seen' = seen \cup current
    /\ IF target = "file" THEN phase' = "end" /\ UNCHANGED current
       ELSE phase' = "listing" /\ current' = {}

\* No part of the path is a link, and the file may be opened.
OpenFile ==
    /\ phase = "open"
    /\ \/ \E e \in current :
            /\ objects[e] = "file" /\ ~Shielded(e)
            /\ \A a \in Path[e] \ {e} : objects[a] = "dir"
            /\ opened' = [infected |-> e \in infected, written |-> FALSE]
            /\ phase' = "read"
            /\ UNCHANGED <<doubt, current, seen>>
       \/ FileEnds /\ doubt' = TRUE /\ UNCHANGED opened
    /\ UNCHANGED <<files, walk, status, threats, findings, target, asked>>

\* Too large, a time limit, an error, a change meanwhile or a detector that
\* failed: unknown.  A match is malware also if a detector failed.
FileScanned ==
    /\ phase = "read"
    /\ \/ FileEnds /\ doubt' = TRUE /\ UNCHANGED threats
       \/ /\ opened.infected /\ ~opened.written
          /\ threats' = threats \cup current /\ phase' = "record"
          /\ UNCHANGED doubt \/ (target = "file" /\ doubt' = TRUE)
          /\ UNCHANGED <<current, seen>>
       \/ /\ ~opened.infected /\ ~opened.written
          /\ FileEnds /\ UNCHANGED <<doubt, threats>>
    /\ UNCHANGED <<files, walk, status, findings, target, opened, asked>>

\* FindingStore.record(), which may raise: the job has failed.
RecordFindings ==
    /\ phase = "record"
    /\ \/ findings' = findings \cup current /\ FileEnds
       \/ phase' = "failed" /\ UNCHANGED <<findings, current, seen>>
    /\ UNCHANGED <<files, walk, doubt, status, threats, target, opened, asked>>

\* The end of a job about one file.
EndFile ==
    /\ phase = "end"
    /\ status' = IF asked THEN "cancelled" ELSE ScopeStatus
    /\ phase' = "done"
    /\ UNCHANGED <<files, walk, doubt, threats, findings, scanner, target, asked>>

-----------------------------------------------------------------------------

AskCancel ==
    /\ ~asked /\ asked' = TRUE
    /\ UNCHANGED <<files, walk, result, scanner, target, phase>>

\* A file is written to.  That shows in the descriptor of the scan, unless
\* another file is at the path by now.
UserWritesTo(e) ==
    /\ phase \notin {"done", "failed"}
    /\ turns < MaxTurns /\ turns' = turns + 1
    /\ objects[e] = "file"
    /\ infected' \in {infected \cup {e}, infected \ {e}}
    /\ touched' = IF e \in seen THEN touched \cup {e} ELSE touched
    /\ \/ e \in current /\ opened' = [opened EXCEPT !.written = TRUE]
       \/ (e \notin current \/ Path[e] \cap touched # {}) /\ UNCHANGED opened
    /\ UNCHANGED <<objects, walk, result, target, current, seen, phase, asked>>

\* An entry is replaced, removed or made again.
UserReplaces(e) ==
    /\ phase \notin {"done", "failed"}
    /\ turns < MaxTurns /\ turns' = turns + 1
    /\ touched' = touched \cup {e}
    /\ \E o \in Object :
         /\ objects' = [objects EXCEPT ![e] = o]
         /\ infected' \in {infected \ {e}} \cup IF o = "file" THEN {infected \cup {e}} ELSE {}
    /\ UNCHANGED <<walk, result, scanner, target, phase, asked>>

SecurityNext ==
    \/ BeginScope \/ EndJob \/ EndScope
    \/ CancelSeen \/ CountUnknown \/ LimitReached \/ ScanTheFile
    \/ ReadDirectory \/ EndDirectory
    \/ \E e \in Entry : LookAt(e) \/ UserWritesTo(e) \/ UserReplaces(e)
    \/ OpenFile \/ FileScanned \/ RecordFindings \/ EndFile
    \/ AskCancel

SecuritySpec == SecurityInit /\ [][SecurityNext]_securityVars

-----------------------------------------------------------------------------

\* Malware where the job has to look, of which the scan cannot have missed the
\* making: it was there, or was written to the file before its scan ended.
Owed(e) ==
    /\ e \in infected
    /\ Path[e] \cap touched = {} /\ ~Shielded(e)
    /\ \/ target = "file" /\ e \in current
       \/ target = "tree" /\ \A a \in Path[e] \ {e} : Depth[a] <= MaxDepth

\* A job that calls itself completed has found all the malware that its files
\* have, however it was spread over its scopes and whatever the user wrote
\* while it was read: what the job could not look at, in whichever scope, makes
\* it partial.  And every threat that an ended job counts has a row, from which
\* the quarantine can start.
VerdictHonest ==
    phase = "done" =>
        /\ status = "completed" => \A e \in Entry : Owed(e) => e \in threats
        /\ threats \subseteq findings

===============================================================================
