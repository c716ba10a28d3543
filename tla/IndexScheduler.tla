---------------------------- MODULE IndexScheduler ----------------------------
(***************************************************************************)
(* The storage-watch thread: inotify events and incremental crawls keep a  *)
(* catalog of the user's files up to date, in small batches, with a crawl  *)
(* frontier in the database that survives a crash of the process.          *)
(*                                                                         *)
(* A file is 0 (absent) or a version of its content; a directory is 0 or 1 *)
(* and a catalog row 0 (no row) or the version the row was made from.      *)
(* Volumes stay connected and readable, and directories are not renamed.   *)
(***************************************************************************)
EXTENDS EventQueue

CONSTANTS
    Dir,          \* the entries that are directories
    Listing,      \* the order scandir() lists a set of entries in
    NoFolder,     \* no directory is being crawled
    MaxBatch,     \* max_batch of the resource budget
    MaxRecords,   \* capacity of the kernel's event queue
    MaxTrouble    \* bound: changes of files, errors, crashes and periodic
                  \* rescans of a volume, taken together

ASSUME DirAssumption ==
    /\ Dir \subseteq Entry /\ NoFolder \notin Entry \cup Volume
    /\ \A p \in Entry : Parent[p] \in Dir \cup Volume
ASSUME ListingAssumption ==
    \A ps \in SUBSET Entry : Listing[ps] \in Seq(ps) /\ Range(Listing[ps]) = ps
ASSUME BoundAssumption ==
    {MaxBatch, MaxRecords} \subseteq Nat \ {0} /\ MaxTrouble \in Nat

Folder == Dir \cup Volume

VARIABLES
    disk,       \* the files themselves
    watches,    \* directories the kernel watches
    paths,      \* directories the watcher believes it watches
    records,    \* the kernel's queue of events
    incoming,   \* the events that were read, and not put into the queue yet
    queue,      \* the scheduler's coalescing queue
    batch,      \* events popped and not processed yet
    left,       \* how many entries this batch may still visit
    pc,
    crawl,      \* per volume, the crawl in memory
    checkpoint, \* per volume, the crawl in the database
    catalog,    \* the rows of the catalog
    seen,       \* rows stamped with the scan id of their volume's checkpoint
    required, completed,
    fallback,   \* volumes rescanned periodically
    missed,     \* history: changed entries nobody has promised to read
    kept,       \* history: rows the last crawl kept because it could not look
    passed,     \* history: entries that the crawl of their volume has come to
    torn,       \* history: volumes whose crawl cannot be trusted
    requested,  \* history: volumes whose requested rescan has not started
    trouble     \* how much of it there was

files == <<disk, watches, records>>
memory == <<paths, incoming, queue, batch, left, crawl, required, completed, fallback>>
database == <<checkpoint, catalog, seen>>
history == <<missed, kept, passed, torn, requested>>
vars == <<files, memory, pc, database, history, trouble>>

None == [dir |-> NoFolder]
Closed == [dir |-> NoFolder, offset |-> 0, rest |-> <<>>]

\* The kernel reports that it dropped events.
Overflow == [path |-> NoPath, kind |-> "OVERFLOW"]
Record == [path : Entry, kind : FileKind] \cup {Overflow}

Crawl == [dir : Folder \cup {NoFolder}, offset : Nat, rest : Seq(Entry)]
Checkpoint == [dir : Folder \cup {NoFolder}, offset : Nat,
               pending : SUBSET Folder, protected : SUBSET (Entry \cup Volume)]

TypeOK ==
    /\ disk \in [Entry -> 0 .. 2] /\ catalog \in [Entry -> 0 .. 2]
    /\ \A p \in Dir : {disk[p], catalog[p]} \subseteq 0 .. 1
    /\ watches \subseteq paths /\ paths \subseteq Folder
    /\ records \in Seq(Record)
    /\ Len(records) <= MaxRecords + 1
    /\ incoming \in Seq(SUBSET FileEvent)
    /\ queue \subseteq FileEvent /\ Cardinality(queue) <= MaxEvents
    /\ \A e, f \in queue : e.volume = f.volume /\ e.path = f.path => e = f
    /\ batch \subseteq FileEvent /\ Cardinality(batch) <= MaxBatch /\ left \in 0 .. MaxBatch
    /\ pc \in {"down", "start", "poll", "submit", "pop", "batch"}
    /\ crawl \in [Volume -> Crawl \cup {None}]
    /\ checkpoint \in [Volume -> Checkpoint \cup {None}]
    /\ \A v \in Volume : crawl[v] # None => checkpoint[v] # None
    /\ seen \subseteq {p \in Entry : catalog[p] # 0}
    /\ required \cup completed \cup fallback \cup torn \cup requested \subseteq Volume
    /\ missed \cup kept \cup passed \subseteq Entry
    /\ trouble \in 0 .. MaxTrouble

Exists(p, d) == p \in Entry => d[p] # 0

\* What can be on a disk: entries of directories that exist.
Tree == {d \in [Entry -> 0 .. 1] : \A p \in Entry : d[p] # 0 => \A f \in Above[p] : Exists(f, d)}

Init ==
    /\ disk \in Tree
    /\ catalog \in {disk, [p \in Entry |-> 0]}
    /\ watches = {} /\ paths = {} /\ records = <<>>
    /\ incoming = <<>> /\ queue = {} /\ batch = {} /\ left = 0
    /\ pc = "down"
    /\ crawl = [v \in Volume |-> None]
    /\ checkpoint = [v \in Volume |-> None]
    /\ seen = {}
    /\ required = {} /\ completed = {} /\ fallback = {}
    /\ missed = {} /\ kept = {} /\ passed = {} /\ torn = {} /\ requested = {}
    /\ trouble = 0

Trouble == trouble < MaxTrouble /\ trouble' = trouble + 1

-----------------------------------------------------------------------------
(* The user changes a file; the kernel reports it to whoever watches. *)

\* What the entry can become: created, written, or deleted when empty.
Versions(p) ==
    (IF disk[p] = 0 THEN IF Exists(Parent[p], disk) THEN {1} ELSE {}
     ELSE (IF \A c \in Entry : Parent[c] = p => disk[c] = 0 THEN {0} ELSE {})
          \cup IF p \in Dir THEN {} ELSE {3 - disk[p]})

KindOf(old, new) ==
    CASE old = 0 -> "CREATED" [] new = 0 -> "DELETED" [] OTHER -> "MODIFIED"

Report(p, kind) ==
    IF Len(records) < MaxRecords THEN Append(records, [path |-> p, kind |-> kind])
    ELSE IF Len(records) = MaxRecords THEN Append(records, Overflow) ELSE records

\* A deleted directory takes its kernel watch along.  Between runs of the
\* process nobody watches: only a crawl that will be resumed can still care.
Change(p) ==
    /\ Trouble
    /\ \E new \in Versions(p) :
        /\ disk' = [disk EXCEPT ![p] = new]
        /\ watches' = IF new = 0 THEN watches \ {p} ELSE watches
        /\ IF pc # "down" /\ {p, Parent[p]} \cap watches # {}
           THEN /\ records' = Report(p, KindOf(disk[p], new))
                /\ missed' = missed \ {p}
                /\ UNCHANGED torn
           ELSE /\ IF pc = "down" /\ checkpoint[VolumeOf(p)] # None
                   THEN torn' = torn \cup {VolumeOf(p)} ELSE UNCHANGED torn
                /\ missed' = IF pc = "down" THEN missed ELSE missed \cup {p}
                /\ UNCHANGED records
    /\ UNCHANGED <<memory, pc, database, kept, passed, requested>>

-----------------------------------------------------------------------------
(* LinuxInotifyWatcher and BackgroundIndexService. *)

\* What add_tree(f) walks: the directories that exist at or below f.
Walk(f) == {g \in Folder : Exists(g, disk) /\ (g = f \/ (g \in Entry /\ f \in Above[g]))}

\* A walk that fails has watched directories from the top.
TopDown(fs) == \A g \in fs \cap Entry : Above[g] \subseteq fs

\* decode_inotify_events() and read(): the events that a record stands for.
Decode(record, failing) ==
    IF record = Overflow THEN {Rescan(v) : v \in Volume \cap paths}
    ELSE {FileChange(record.path, record.kind)}
           \cup {Rescan(VolumeOf(p)) : p \in {record.path} \cap IF record.kind = "CREATED" THEN failing ELSE {}}

NewDirectories ==
    {p \in Dir : disk[p] # 0 /\ [path |-> p, kind |-> "CREATED"] \in Range(records)}

\* read(): the kernel's queue is emptied, directories that appeared are
\* watched, unless they are believed to be watched already.  Where that fails
\* part of the tree is watched and the volume is scanned again.
ReadWatcher ==
    /\ pc = "poll"
    /\ \E failing \in SUBSET NewDirectories, watched \in SUBSET Folder :
        /\ IF failing = {} THEN UNCHANGED trouble ELSE Trouble
        /\ LET wanted(s) == UNION {Walk(f) : f \in s} \ paths
           IN  /\ wanted(NewDirectories \ failing) \subseteq watched
               /\ watched \subseteq wanted(NewDirectories)
        /\ TopDown(paths \cup watched)
        /\ watches' = watches \cup watched
        /\ paths' = paths \cup watched
        /\ incoming' = [i \in DOMAIN records |-> Decode(records[i], failing)]
    /\ records' = <<>>
    /\ pc' = IF records = <<>> THEN "pop" ELSE "submit"
    /\ UNCHANGED <<disk, queue, batch, left, crawl, required, completed, fallback, database,
                   history>>

\* A change goes into the queue before the rescan that is due because of it.
Foremost(events) ==
    LET changes == {e \in events : e.kind # "RESCAN"}
    IN  IF changes = {} THEN events ELSE changes

\* tick() and start() put one event after the other.
Submit ==
    /\ incoming # <<>>
    /\ \E e \in Foremost(Head(incoming)) :
        /\ queue' = Put(queue, e)
        /\ incoming' = IF Head(incoming) = {e} THEN Tail(incoming)
                       ELSE [incoming EXCEPT ![1] = @ \ {e}]
    /\ pc' = IF incoming' # <<>> THEN pc ELSE IF pc = "start" THEN "poll" ELSE "pop"
    /\ UNCHANGED <<files, paths, batch, left, crawl, required, completed, fallback, database,
                   history, trouble>>

\* request_rescan() within a tick.
RequestRescan(v) ==
    /\ required' = required \cup {v}
    /\ completed' = completed \ {v}
    /\ requested' = requested \cup {v}
    /\ queue' = Put(queue, Rescan(v))

\* A volume that could not be watched completely is due for its rescan.
FallbackDue(v) ==
    /\ pc = "pop"
    /\ v \in fallback
    /\ Trouble
    /\ RequestRescan(v)
    /\ UNCHANGED <<files, paths, incoming, batch, left, pc, crawl, fallback, database, missed, kept,
                   passed, torn>>

-----------------------------------------------------------------------------
(* process_once(): the events. *)

\* The machine is busy: nothing is done in this tick.
Paused ==
    /\ pc = "pop"
    /\ pc' = "poll"
    /\ UNCHANGED <<files, memory, database, history, trouble>>

\* What the events leave of the batch for crawling.
Remaining(popped) == MaxBatch - Cardinality(popped)

Pop ==
    /\ pc = "pop"
    /\ \E popped \in PopReady(queue, MaxBatch) :
        /\ queue' = queue \ popped
        /\ batch' = popped
        /\ left' = Remaining(popped)
    /\ pc' = "batch"
    /\ UNCHANGED <<files, paths, incoming, crawl, required, completed, fallback, database, history,
                   trouble>>

Fresh(v) == [dir |-> NoFolder, offset |-> 0, pending |-> {v}, protected |-> {}]

\* What a deletion reported and not processed yet is about.
Doomed(v) ==
    {p \in Entries(v) : \/ FileChange(p, "DELETED") \in queue \cup batch
                        \/ [path |-> p, kind |-> "DELETED"] \in Range(records)}

\* A crawl from the root will read what was missed, except an entry that came
\* back unreported and whose row an old deletion is still going to remove.
StillMissed(vs) == {p \in missed : VolumeOf(p) \notin vs \/ p \in Doomed(VolumeOf(p))}

\* _start_crawl(): a crawl from the root replaces the one there was.
StartCrawls(vs) ==
    /\ crawl' = [v \in Volume |-> IF v \in vs THEN Closed ELSE crawl[v]]
    /\ checkpoint' = [v \in Volume |-> IF v \in vs THEN Fresh(v) ELSE checkpoint[v]]
    /\ seen' = {p \in seen : VolumeOf(p) \notin vs}
    /\ missed' = StillMissed(vs)
    /\ passed' = {p \in passed : VolumeOf(p) \notin vs}
    /\ torn' = torn \ vs
    /\ requested' = requested \ vs

\* Mutant of WriteRow: a row written for an event is never stamped.
WriteRowPlain(p, v) ==
    /\ catalog' = [catalog EXCEPT ![p] = disk[p]]
    /\ seen' = IF pc = "batch" /\ batch = {} THEN seen \cup {p} ELSE seen \ {p}

\* A row is stamped with the scan id of the crawl in memory, if there is one.
WriteRow(p, v) ==
    /\ catalog' = [catalog EXCEPT ![p] = disk[p]]
    /\ seen' = IF disk[p] # 0 /\ crawl[v] # None THEN seen \cup {p} ELSE seen \ {p}

RescannedBy(v) == IF v = All THEN Volume ELSE {v}

\* _process(): a deletion is believed, any other event makes the scheduler look.
ProcessEvent ==
    /\ pc = "batch"
    /\ \E e \in batch :
        /\ batch' = batch \ {e}
        /\ CASE e.kind = "RESCAN" ->
                  StartCrawls(RescannedBy(e.volume)) /\ UNCHANGED catalog
             [] e.kind = "DELETED" ->
                  /\ catalog' = [catalog EXCEPT ![e.path] = 0]
                  /\ seen' = seen \ {e.path}
                  /\ UNCHANGED <<crawl, checkpoint, history>>
             [] OTHER -> WriteRow(e.path, e.volume) /\ UNCHANGED <<crawl, checkpoint, history>>
    /\ UNCHANGED <<files, paths, incoming, queue, left, pc, required, completed, fallback, kept, trouble>>

\* An event that cannot be processed is counted and forgotten.  A rescan of
\* everything may have started some volumes before it fails on v, whose old
\* crawl is dropped from memory and kept in the database.
EventFails ==
    /\ pc = "batch"
    /\ Trouble
    /\ \E e \in batch :
        /\ batch' = batch \ {e}
        /\ IF e.kind = "RESCAN"
           THEN \E v \in RescannedBy(e.volume) : \E vs \in SUBSET (RescannedBy(e.volume) \ {v}) :
                  /\ crawl' = [w \in Volume |-> CASE w \in vs -> Closed
                                                  [] w = v    -> None
                                                  [] OTHER    -> crawl[w]]
                  /\ checkpoint' = [w \in Volume |-> IF w \in vs THEN Fresh(w) ELSE checkpoint[w]]
                  /\ seen' = {p \in seen : VolumeOf(p) \notin vs}
                  /\ missed' = StillMissed(vs)
                  /\ passed' = {p \in passed : VolumeOf(p) \notin vs}
                  /\ torn' = (torn \ vs) \cup (RescannedBy(e.volume) \ vs)
                  /\ requested' = requested \ vs
           ELSE missed' = missed \cup {e.path}
                /\ UNCHANGED <<crawl, checkpoint, seen, passed, torn, requested>>
    /\ UNCHANGED <<files, paths, incoming, queue, left, pc, required, completed, fallback, catalog,
                   kept>>

-----------------------------------------------------------------------------
(* process_once(): the crawls, one entry at a time, in turns. *)

Crawling(v) == pc = "batch" /\ batch = {} /\ left > 0 /\ crawl[v] # None

IsOpen(v) == crawl[v].dir # NoFolder

\* The entries of a directory.
Content(f) == {p \in Entry : Parent[p] = f /\ disk[p] # 0}

\* Mutant of CompleteDirectory: the directory stays the current one.
CompleteDirectoryNot(c) == c

CompleteDirectory(c) == [c EXCEPT !.dir = NoFolder, !.offset = 0]

Protect(c, f) == [c EXCEPT !.protected = @ \cup {f}]

InVolume(f) == IF f \in Volume THEN Entries(f) ELSE Under(f)

\* The directory a crash interrupted, or any of those that wait.
NextFolder(c) == IF c.dir # NoFolder THEN {c.dir} ELSE c.pending

Claimed(c, f) ==
    [c EXCEPT !.dir = f, !.offset = IF c.dir # NoFolder THEN @ ELSE 0, !.pending = @ \ {f}]

\* In the directory that is claimed as many entries are skipped as had been
\* visited.  A directory that has become shorter or cannot be listed is done;
\* in the second case what the catalog says of it is kept.
Claim(v) ==
    /\ Crawling(v) /\ ~IsOpen(v)
    /\ \E f \in NextFolder(checkpoint[v]) :
        LET claimed == Claimed(checkpoint[v], f)
            listing == Listing[Content(f)]
            skipped == {listing[i] : i \in DOMAIN listing \cap 1 .. claimed.offset}
        IN  \/ /\ Exists(f, disk)
               /\ torn' = IF skipped \subseteq passed THEN torn ELSE torn \cup {v}
               /\ IF claimed.offset > Len(listing)
                  THEN /\ checkpoint' = [checkpoint EXCEPT ![v] = CompleteDirectory(claimed)]
                       /\ UNCHANGED crawl
                  ELSE /\ checkpoint' = [checkpoint EXCEPT ![v] = claimed]
                       /\ crawl' = [crawl EXCEPT ![v] =
                            [dir |-> f, offset |-> claimed.offset,
                             rest |-> SubSeq(listing, claimed.offset + 1, Len(listing))]]
               /\ UNCHANGED trouble
            \/ /\ IF Exists(f, disk) THEN Trouble ELSE UNCHANGED trouble
               /\ checkpoint' = [checkpoint EXCEPT ![v] = CompleteDirectory(Protect(claimed, f))]
               /\ UNCHANGED <<crawl, torn>>
    /\ UNCHANGED <<files, paths, incoming, queue, batch, left, pc, required, completed, fallback,
                   catalog, seen, missed, kept, passed, requested>>

Exhausted(v) ==
    /\ Crawling(v) /\ IsOpen(v) /\ crawl[v].rest = <<>>
    /\ crawl' = [crawl EXCEPT ![v] = Closed]
    /\ checkpoint' = [checkpoint EXCEPT ![v] = CompleteDirectory(@)]
    /\ UNCHANGED <<files, paths, incoming, queue, batch, left, pc, required, completed, fallback,
                   catalog, seen, history, trouble>>

Advance(v) ==
    /\ Crawling(v) /\ IsOpen(v) /\ crawl[v].rest # <<>>
    /\ crawl' = [crawl EXCEPT ![v] = [crawl[v] EXCEPT !.rest = Tail(@), !.offset = @ + 1]]
    /\ passed' = passed \cup {Head(crawl[v].rest)}
    /\ left' = left - 1
    /\ UNCHANGED <<files, paths, incoming, queue, batch, pc, required, completed, fallback, missed,
                   kept, torn, requested>>

\* The entry gets its row; a directory is remembered to be crawled.
Visit(v) ==
    /\ Advance(v)
    /\ LET p == Head(crawl[v].rest) IN
        /\ disk[p] # 0
        /\ WriteRow(p, v)
        /\ checkpoint' = IF p \in Dir THEN [checkpoint EXCEPT ![v] = [checkpoint[v] EXCEPT !.pending = @ \cup {p}]]
                         ELSE checkpoint
    /\ UNCHANGED trouble

\* The entry is gone, or cannot be examined: what the catalog says of it, and
\* of what is below it, is kept.
VisitFails(v) ==
    /\ Advance(v)
    /\ checkpoint' = [checkpoint EXCEPT ![v] = Protect(@, Head(crawl[v].rest))]
    /\ IF disk[Head(crawl[v].rest)] = 0 THEN UNCHANGED trouble ELSE Trouble
    /\ UNCHANGED <<catalog, seen>>

Protected(v) == UNION {InVolume(f) : f \in checkpoint[v].protected}

\* Mutant of Removable: what could not be read counts as deleted.
RemovableAll(v) == {p \in Entries(v) : p \notin seen}

\* finish_incremental_scan(): rows this crawl did not see.
Removable(v) == {p \in Entries(v) : p \notin seen /\ p \notin Protected(v)}

AllClaimed(v) ==
    Crawling(v) /\ ~IsOpen(v) /\ checkpoint[v].dir = NoFolder /\ checkpoint[v].pending = {}

RemoveRows(v) == catalog' = [p \in Entry |-> IF p \in Removable(v) THEN 0 ELSE catalog[p]]

Finish(v) ==
    /\ AllClaimed(v)
    /\ RemoveRows(v)
    /\ seen' = seen \ Entries(v)
    /\ crawl' = [crawl EXCEPT ![v] = None]
    /\ checkpoint' = [checkpoint EXCEPT ![v] = None]
    /\ completed' = completed \cup {v}
    /\ kept' = (kept \ Entries(v)) \cup Protected(v)
    /\ passed' = passed \ Entries(v)
    /\ UNCHANGED <<files, paths, incoming, queue, batch, left, pc, required, fallback, missed, torn,
                   requested, trouble>>

CrawlStep(v) == Claim(v) \/ Exhausted(v) \/ Visit(v) \/ VisitFails(v) \/ Finish(v)

\* The batch is used up or nothing is left to crawl: the offsets are saved,
\* once for all entries of the batch.
EndBatch ==
    /\ pc = "batch" /\ batch = {}
    /\ left = 0 \/ \A v \in Volume : crawl[v] = None
    /\ checkpoint' = [v \in Volume |->
            IF crawl[v] # None /\ IsOpen(v)
            THEN [checkpoint[v] EXCEPT !.offset = crawl[v].offset] ELSE checkpoint[v]]
    /\ left' = 0
    /\ pc' = "poll"
    /\ UNCHANGED <<files, paths, incoming, queue, batch, crawl, required, completed, fallback, catalog,
                   seen, history, trouble>>

-----------------------------------------------------------------------------
(* The process dies, also when a database error ends its thread. *)

\* What was reported by the kernel, or read, queued or popped after that.
Reports(record) ==
    {p \in Entry : record.path = p \/ (record = Overflow /\ VolumeOf(p) \in paths)}
Reported == UNION {Reports(records[i]) : i \in DOMAIN records}
Awaited == Reported \cup Covered(UNION Range(incoming)) \cup Covered(queue) \cup Covered(batch)

LoseMemory(doubtful) ==
    /\ pc' = "down"
    /\ watches' = {} /\ paths' = {} /\ records' = <<>>
    /\ incoming' = <<>> /\ queue' = {} /\ batch' = {} /\ left' = 0
    /\ crawl' = [v \in Volume |-> None]
    /\ required' = {} /\ completed' = {} /\ fallback' = {}
    /\ requested' = {}
    /\ torn' = torn \cup doubtful \cup {v \in Volume : Entries(v) \cap Awaited # {}}
    /\ UNCHANGED <<disk, missed, kept, passed>>

Crash ==
    /\ pc # "down" /\ Trouble
    /\ LoseMemory({})
    /\ UNCHANGED database

\* ... between the row of a directory and its entry in the crawl frontier.
CrashInVisit(v) ==
    /\ Crawling(v) /\ IsOpen(v) /\ crawl[v].rest # <<>> /\ Trouble
    /\ Head(crawl[v].rest) \in Dir /\ disk[Head(crawl[v].rest)] # 0
    /\ WriteRow(Head(crawl[v].rest), v)
    /\ LoseMemory({v})
    /\ UNCHANGED checkpoint

\* ... between the removal of the rows and of the checkpoint.
CrashInFinish(v) ==
    /\ AllClaimed(v) /\ Trouble
    /\ RemoveRows(v)
    /\ seen' = seen \cap {p \in Entry : catalog'[p] # 0}
    /\ LoseMemory({})
    /\ UNCHANGED checkpoint

\* _restore_crawls() and start(): every volume is watched and rescanned, the
\* rescan left out for a volume whose crawl goes on where it was.
Restart ==
    /\ pc = "down"
    /\ \E failing \in SUBSET Volume, watched \in SUBSET Folder :
        /\ IF failing = {} THEN UNCHANGED trouble ELSE Trouble
        /\ UNION {Walk(v) : v \in Volume \ failing} \subseteq watched
        /\ watched \subseteq UNION {Walk(v) : v \in Volume}
        /\ TopDown(watched)
        /\ watches' = watched /\ paths' = watched
        /\ fallback' = failing
        /\ requested' = failing \cup {v \in Volume : checkpoint[v] = None}
    /\ incoming' = IF requested' = {} THEN <<>> ELSE <<{Rescan(v) : v \in requested'}>>
    /\ crawl' = [v \in Volume |-> IF checkpoint[v] = None THEN None ELSE Closed]
    /\ required' = Volume
    /\ pc' = IF incoming' = <<>> THEN "poll" ELSE "start"
    /\ UNCHANGED <<disk, records, queue, batch, left, completed, database, missed, kept, passed, torn>>

Next ==
    \/ \E p \in Entry : Change(p)
    \/ ReadWatcher \/ Submit
    \/ \E v \in Volume : FallbackDue(v)
    \/ Paused \/ Pop \/ ProcessEvent \/ EventFails
    \/ \E v \in Volume : CrawlStep(v)
    \/ EndBatch
    \/ Crash \/ Restart
    \/ \E v \in Volume : CrashInVisit(v) \/ CrashInFinish(v)

\* The thread runs on and the machine is not busy for ever.
Fairness ==
    /\ WF_vars(ReadWatcher \/ Submit \/ ProcessEvent \/ (\E v \in Volume : CrawlStep(v)) \/ EndBatch)
    /\ SF_vars(Pop)

Spec == Init /\ [][Next]_vars /\ Fairness

-----------------------------------------------------------------------------
(* Properties. *)

\* What somebody has promised to read: an event is awaited, or its volume is
\* being crawled.
Promised == Awaited \cup {p \in Entry : crawl[VolumeOf(p)] # None}

\* A row that disagrees with its file is about to be looked at, unless the
\* change was never reported, the last crawl could not look, or an error or a
\* crash lost the report.
NothingForgotten ==
    pc # "down" =>
        \A p \in Entry : catalog[p] # disk[p] =>
            p \in Promised \cup missed \cup kept \/ VolumeOf(p) \in torn

\* No event is lost on its way through the queue, also when it is full: the
\* queue promises at least as much after a step as before.
QueueLosesNothing ==
    [][pc' # "down" =>
          Reported \cup Covered(UNION Range(incoming)) \cup Covered(queue) \subseteq Awaited']_vars

\* A crawl does not remove the row of a file that exists because it failed to
\* come across the file: a report about the file is there to bring it back.
LiveRowsStay ==
    [][\A p \in Entry : disk[p] # 0 /\ catalog[p] # 0 /\ catalog'[p] = 0 =>
          p \in Awaited \cup missed \/ VolumeOf(p) \in torn]_vars

\* A crawl that runs, or a rescan that waits, comes to an end, unless the
\* process dies or the rescan fails.
RescanEnds ==
    \A v \in Volume :
        (crawl[v] # None \/ v \in requested) ~> (v \in completed \/ v \in torn \/ pc = "down")

CoverageComplete ==
    required # {} /\ required \subseteq completed /\ \A v \in Volume : crawl[v] = None

\* start() promises that an incomplete catalog cannot look complete: when all
\* volumes are covered and nothing waits, rows and files agree, except where a
\* change was not reported.
CompleteIsReconciled ==
    (pc = "poll" /\ CoverageComplete /\ queue = {} /\ records = <<>>) =>
        \A p \in Entry \ (missed \cup kept) : catalog[p] = disk[p]

===============================================================================
