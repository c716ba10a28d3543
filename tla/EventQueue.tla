------------------------------ MODULE EventQueue ------------------------------
(***************************************************************************)
(* CoalescingEventQueue: at most one event per path, at most one rescan    *)
(* per volume, and one rescan of everything when the queue is full.        *)
(*                                                                         *)
(* A queue is a set of events.  The order of the dictionary is left out:   *)
(* the queue may hand out any ready events, the code hands out the oldest. *)
(***************************************************************************)
EXTENDS Naturals, FiniteSets, SequencesExt

CONSTANTS
    Volume,     \* volumes, each also naming its root directory
    Entry,      \* every path below a root that can exist
    Parent,     \* the directory an entry is in
    Above,      \* all directories an entry is below
    All,        \* the volume "*" of a rescan of everything
    NoPath,     \* the empty path of a rescan
    MaxEvents   \* max_events of the queue

\* The entries are a tree below each root: Above is what Parent leads to, and
\* every way up ends in one root.
ASSUME TreeAssumption ==
    /\ Parent \in [Entry -> Entry \cup Volume]
    /\ Above \in [Entry -> SUBSET (Entry \cup Volume)]
    /\ Entry \cap Volume = {}
    /\ \A p \in Entry :
        /\ Above[p] = {Parent[p]} \cup IF Parent[p] \in Entry THEN Above[Parent[p]] ELSE {}
        /\ p \notin Above[p]
        /\ \A q \in Above[p] \cap Entry : Above[q] \subseteq Above[p]
        /\ \A f \in Above[p] : \E q \in {p} \cup Above[p] : q \in Entry /\ Parent[q] = f
        /\ \E v \in Volume : Above[p] \cap Volume = {v}
ASSUME NamesAssumption == All \notin Volume /\ NoPath \notin Entry
ASSUME MaxEventsAssumption == MaxEvents \in Nat \ {0}

VolumeOf(p) == CHOOSE v \in Volume : v \in Above[p]

Entries(v) == {p \in Entry : VolumeOf(p) = v}

\* Everything at or below a path: what a protected prefix protects.
Under(f) == {p \in Entry : p = f \/ f \in Above[p]}

FileKind == {"CREATED", "MODIFIED", "DELETED"}

Rescan(v) == [volume |-> v, path |-> NoPath, kind |-> "RESCAN"]

FileChange(p, kind) == [volume |-> VolumeOf(p), path |-> p, kind |-> kind]

FileEvent == {FileChange(p, kind) : p \in Entry, kind \in FileKind}
                \cup {Rescan(v) : v \in Volume \cup {All}}

-----------------------------------------------------------------------------

\* _merge(): what two events of one path amount to.
Merge(previous, current) ==
    CASE current = "DELETED"                              -> "DELETED"
      [] previous = "DELETED" /\ current = "CREATED"      -> "MODIFIED"
      [] previous = "CREATED" /\ current = "MODIFIED"     -> "CREATED"
      [] OTHER                                            -> current

\* _collapse_volume(): a rescan takes the place of the volume's events.
Collapse(queue, v) == {e \in queue : e.volume # v} \cup {Rescan(v)}

Same(queue, event) == {e \in queue : e.volume = event.volume /\ e.path = event.path}

\* Mutant of Put: a full queue drops the new event.
PutDropped(queue, event) ==
    LET previous == Same(queue, event)
    IN  IF Rescan(All) \in queue \/ (Rescan(event.volume) \in queue /\ event.kind # "RESCAN")
        THEN queue
        ELSE IF previous = {} /\ Cardinality(queue) >= MaxEvents THEN queue
        ELSE IF event.kind = "RESCAN" THEN Collapse(queue, event.volume)
        ELSE (queue \ previous) \cup
               {[event EXCEPT !.kind =
                   IF previous = {} THEN @ ELSE Merge((CHOOSE e \in previous : TRUE).kind, @)]}

\* put(): nothing enters behind a rescan that stands for it; an event merges
\* with the one of its path; a full queue becomes one rescan of everything.
Put(queue, event) ==
    LET previous == Same(queue, event)
    IN  IF Rescan(All) \in queue \/ (Rescan(event.volume) \in queue /\ event.kind # "RESCAN")
        THEN queue
        ELSE IF previous = {} /\ Cardinality(queue) >= MaxEvents THEN {Rescan(All)}
        ELSE IF event.kind = "RESCAN" THEN Collapse(queue, event.volume)
        ELSE (queue \ previous) \cup
               {[event EXCEPT !.kind =
                   IF previous = {} THEN @ ELSE Merge((CHOOSE e \in previous : TRUE).kind, @)]}

\* pop_ready(): rescans are always ready, other events once they have been
\* quiet for the debounce time; as many ready ones as the limit allows leave.
PopReady(queue, limit) ==
    {popped \in SUBSET queue :
        \E ready \in SUBSET queue :
            /\ {e \in queue : e.kind = "RESCAN"} \subseteq ready
            /\ popped \subseteq ready
            /\ Cardinality(popped) = IF Cardinality(ready) < limit
                                     THEN Cardinality(ready) ELSE limit}

\* The paths a set of events still promises to read again.
Covered(events) ==
    {p \in Entry : \E e \in events :
        \/ e.path = p
        \/ (e.kind = "RESCAN" /\ e.volume \in {VolumeOf(p), All})}
===============================================================================
