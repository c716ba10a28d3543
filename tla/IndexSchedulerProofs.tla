-------------------------- MODULE IndexSchedulerProofs --------------------------
(***************************************************************************)
(* Proofs about IndexScheduler and the queue it uses, for every tree of    *)
(* entries, any capacity of the queues and any amount of trouble: types,   *)
(* that no event is lost on its way, that no row is forgotten and that a   *)
(* crawl removes no row of a file it merely failed to come across.         *)
(*                                                                         *)
(* The invariant IndexInv says of every volume what accounts for the rows  *)
(* that disagree with their files.  While a crawl of the volume is at work *)
(* (checkpoint # None) an entry of the disk is ahead of the crawl (Ahead:  *)
(* it, or a directory above it, is in the frontier and was not passed), or *)
(* protected, or awaited, or its row is stamped and right (CrawledOK);     *)
(* otherwise a wrong row is awaited, missed or kept (RowOK).  A deletion   *)
(* on its way is the reason DeletionsOK is needed: it is believed without  *)
(* a look, so whatever came back since must be reported behind it.         *)
(***************************************************************************)
EXTENDS IndexScheduler, FiniteSetTheorems, SequenceTheorems, TLAPS

-----------------------------------------------------------------------------
(* The tree, and what an event covers. *)

\* An entry is below one root, which is the volume it is on.
LEMMA TreeFacts ==
    ASSUME NEW p \in Entry
    PROVE  /\ VolumeOf(p) \in Volume /\ Above[p] \cap Volume = {VolumeOf(p)}
           /\ Above[p] \subseteq Entry \cup Volume
<1>1. PICK v \in Volume : Above[p] \cap Volume = {v}
  BY TreeAssumption
<1>2. VolumeOf(p) = v
  BY <1>1 DEF VolumeOf
<1> QED
  BY <1>1, <1>2, TreeAssumption

\* The directories above an entry are on its volume.
LEMMA SameVolume ==
    ASSUME NEW p \in Entry, NEW q \in Entry, q \in {p} \cup Above[p]
    PROVE  VolumeOf(q) = VolumeOf(p)
<1>1. Above[q] \subseteq Above[p]
  BY TreeAssumption
<1> QED
  BY <1>1, TreeFacts

\* An event is a change of a file or a rescan.
LEMMA EventFacts ==
    /\ \A e \in FileEvent :
        \/ e.kind = "RESCAN" /\ e.path = NoPath /\ e.volume \in Volume \cup {All} /\ e = Rescan(e.volume)
        \/ e.kind \in FileKind /\ e.path \in Entry /\ e.volume = VolumeOf(e.path)
           /\ e = FileChange(e.path, e.kind)
    /\ \A p \in Entry, k \in FileKind :
        /\ FileChange(p, k) \in FileEvent
        /\ FileChange(p, k).path = p /\ FileChange(p, k).kind = k
        /\ FileChange(p, k).volume = VolumeOf(p)
    /\ \A v \in Volume \cup {All} :
        /\ Rescan(v) \in FileEvent
        /\ Rescan(v).volume = v /\ Rescan(v).kind = "RESCAN" /\ Rescan(v).path = NoPath
  BY DEF FileEvent, Rescan, FileChange

\* A rescan is no change of a file.
LEMMA RescanIsNoChange == "RESCAN" \notin FileKind /\ "DELETED" \in FileKind
  BY DEF FileKind

\* What the events promise to read: a change its path, a rescan its volume.
LEMMA CoveredFacts ==
    /\ \A S, T : Covered(S \cup T) = Covered(S) \cup Covered(T)
    /\ \A S, T : S \subseteq T => Covered(S) \subseteq Covered(T)
    /\ Covered({}) = {}
    /\ Covered({Rescan(All)}) = Entry
    /\ \A v \in Volume : Covered({Rescan(v)}) = Entries(v)
    /\ \A p \in Entry, k \in FileKind : Covered({FileChange(p, k)}) = {p}
<1>1. /\ \A S, T : Covered(S \cup T) = Covered(S) \cup Covered(T)
      /\ \A S, T : S \subseteq T => Covered(S) \subseteq Covered(T)
      /\ Covered({}) = {}
  BY DEF Covered
<1>2. Covered({Rescan(All)}) = Entry
  BY DEF Covered, Rescan
<1>3. \A v \in Volume : Covered({Rescan(v)}) = Entries(v)
  BY NamesAssumption DEF Covered, Rescan, Entries
<1>4. ASSUME NEW p \in Entry, NEW k \in FileKind
      PROVE  Covered({FileChange(p, k)}) = {p}
  BY EventFacts, RescanIsNoChange DEF Covered
<1> QED
  BY <1>1, <1>2, <1>3, <1>4

\* An event of the set covers what it covers by itself.
LEMMA CoveredBy ==
    ASSUME NEW S, NEW e \in S
    PROVE  Covered({e}) \subseteq Covered(S)
  BY CoveredFacts

\* One more element.
LEMMA AddOne ==
    ASSUME NEW S, IsFiniteSet(S), NEW x
    PROVE  /\ IsFiniteSet(S \cup {x})
           /\ Cardinality(S \cup {x}) \in Nat /\ Cardinality(S \cup {x}) <= Cardinality(S) + 1
<1>1. Cardinality(S) \in Nat
  BY FS_CardinalityType
<1>2. /\ IsFiniteSet(S \cup {x})
      /\ Cardinality(S \cup {x}) = IF x \in S THEN Cardinality(S) ELSE Cardinality(S) + 1
  BY FS_AddElement, Zenon
<1> QED
  BY <1>1, <1>2

\* The queue as its operations leave it.
QueueTyped(q) ==
    /\ q \subseteq FileEvent /\ IsFiniteSet(q) /\ Cardinality(q) <= MaxEvents
    /\ \A e, f \in q : e.volume = f.volume /\ e.path = f.path => e = f
    /\ Rescan(All) \in q => q = {Rescan(All)}
    /\ \A e, f \in q : e.kind = "RESCAN" /\ f.volume = e.volume => f = e

\* put() keeps the queue within its limit and in its form, covers whatever the
\* queue and the new event covered, and leaves a deletion in the queue only if
\* the new event does not cover its path or is that deletion.
LEMMA PutFacts ==
    ASSUME NEW q, QueueTyped(q), NEW e \in FileEvent, e # Rescan(All)
    PROVE  /\ QueueTyped(Put(q, e))
           /\ Covered(q) \cup Covered({e}) \subseteq Covered(Put(q, e))
           /\ \A p \in Entry : FileChange(p, "DELETED") \in Put(q, e) =>
                \/ e = FileChange(p, "DELETED")
                \/ (FileChange(p, "DELETED") \in q /\ p \notin Covered({e}))
<1> USE EventFacts, RescanIsNoChange
<1> DEFINE gone(p) == FileChange(p, "DELETED")
           Goal(r) == /\ QueueTyped(r)
                      /\ Covered(q) \cup Covered({e}) \subseteq Covered(r)
                      /\ \A p \in Entry : gone(p) \in r =>
                            e = gone(p) \/ (gone(p) \in q /\ p \notin Covered({e}))
<1>0. SUFFICES Goal(Put(q, e))
  OBVIOUS
<1>1. Cardinality(q) \in Nat /\ MaxEvents \in Nat \ {0} /\ All \notin Volume /\ NoPath \notin Entry
  BY FS_CardinalityType, MaxEventsAssumption, NamesAssumption DEF QueueTyped
<1>2. IsFiniteSet({Rescan(All)}) /\ Cardinality({Rescan(All)}) = 1
  BY FS_Singleton
<1>3. Covered(q) \subseteq Entry /\ Covered({e}) \subseteq Entry
  BY DEF Covered
<1>4. CASE Rescan(All) \in q
  <2>1. Put(q, e) = q
    BY <1>4 DEF Put
  <2>2. q = {Rescan(All)} /\ Covered(q) = Entry
    BY <1>4, CoveredFacts DEF QueueTyped
  <2>3. \A p \in Entry : gone(p) \notin q
    BY <2>2
  <2> QED
    BY <2>1, <2>2, <2>3, <1>3
<1>5. CASE Rescan(All) \notin q /\ Rescan(e.volume) \in q /\ e.kind # "RESCAN"
  <2>1. Put(q, e) = q
    BY <1>5 DEF Put
  <2>2. e.path \in Entry /\ e.volume = VolumeOf(e.path) /\ e.volume \in Volume /\ Covered({e}) = {e.path}
    BY <1>5, CoveredFacts, TreeFacts
  <2>3. e.path \in Covered(q)
    BY <1>5, <2>2 DEF Covered
  <2>4. \A p \in Entry : gone(p) \in q => p # e.path
    BY <1>5, <2>2 DEF QueueTyped
  <2> QED
    BY <2>1, <2>2, <2>3, <2>4
<1>6. CASE /\ Rescan(All) \notin q /\ ~(Rescan(e.volume) \in q /\ e.kind # "RESCAN")
           /\ Same(q, e) = {} /\ Cardinality(q) >= MaxEvents
  <2>1. Put(q, e) = {Rescan(All)}
    BY <1>6 DEF Put
  <2>2. QueueTyped({Rescan(All)})
    BY <1>1, <1>2 DEF QueueTyped
  <2>3. \A p \in Entry : gone(p) \notin {Rescan(All)}
    OBVIOUS
  <2> QED
    BY <2>1, <2>2, <2>3, <1>3, CoveredFacts
<1>7. CASE /\ Rescan(All) \notin q /\ ~(Same(q, e) = {} /\ Cardinality(q) >= MaxEvents)
           /\ e.kind = "RESCAN"
  <2> DEFINE v == e.volume
             others == {f \in q : f.volume # v}
  <2>1. v \in Volume /\ e = Rescan(v)
    BY <1>7
  <2>2. Put(q, e) = others \cup {e}
    BY <1>7, <2>1 DEF Put, Collapse
  <2>3. IsFiniteSet(others) /\ Cardinality(others) <= Cardinality(q)
    BY FS_Subset DEF QueueTyped
  <2>4. Cardinality(others) \in Nat /\ (Same(q, e) # {} => Cardinality(others) # Cardinality(q))
    BY <2>3, FS_CardinalityType, FS_Subset DEF QueueTyped, Same
  <2>5. IsFiniteSet(others \cup {e}) /\ Cardinality(others \cup {e}) <= Cardinality(others) + 1
    BY <2>3, AddOne
  <2>6. Cardinality(others \cup {e}) \in Nat
    BY <2>5, FS_CardinalityType
  <2>7. Cardinality(others \cup {e}) <= MaxEvents
    BY <2>3, <2>4, <2>5, <2>6, <1>1, <1>7 DEF QueueTyped
  <2>8. QueueTyped(others \cup {e})
    BY <2>1, <2>5, <2>7, <1>7, <1>1 DEF QueueTyped
  <2>9. Covered(q) \cup Covered({e}) \subseteq Covered(others \cup {e})
    <3>1. SUFFICES ASSUME NEW p \in Covered(q) PROVE p \in Covered(others \cup {e})
      BY CoveredFacts
    <3>2. PICK f \in q : p \in Covered({f})
      BY DEF Covered
    <3>3. CASE f \in others
      BY <3>2, <3>3, CoveredBy
    <3>4. CASE f \notin others
      <4>1. f.volume = v /\ f # Rescan(All) /\ f \in FileEvent /\ p \in Entry
        BY <3>4, <3>2, <1>7 DEF QueueTyped, Covered
      <4>2. p \in Entries(v)
        BY <4>1, <3>2, CoveredFacts, <2>1, <1>1 DEF Entries
      <4>3. Covered({e}) = Entries(v) /\ e \in others \cup {e}
        BY <2>1, CoveredFacts
      <4>4. Covered({e}) \subseteq Covered(others \cup {e})
        BY CoveredFacts
      <4> QED
        BY <4>2, <4>3, <4>4
    <3> QED
      BY <3>3, <3>4
  <2>10. ASSUME NEW p \in Entry, gone(p) \in others \cup {e}
         PROVE  gone(p) \in q /\ p \notin Covered({e})
    BY <2>10, <2>1, CoveredFacts DEF Entries
  <2> QED
    BY <2>2, <2>8, <2>9, <2>10
<1>8. CASE /\ Rescan(All) \notin q /\ Rescan(e.volume) \notin q
           /\ ~(Same(q, e) = {} /\ Cardinality(q) >= MaxEvents)
           /\ e.kind # "RESCAN"
  <2> DEFINE p0 == e.path
             new == [e EXCEPT !.kind = IF Same(q, e) = {} THEN @
                                       ELSE Merge((CHOOSE f \in Same(q, e) : TRUE).kind, @)]
             others == q \ Same(q, e)
  <2>1. p0 \in Entry /\ e.kind \in FileKind /\ e.volume = VolumeOf(p0) /\ e = FileChange(p0, e.kind)
    BY <1>8
  <2>2. Put(q, e) = others \cup {new}
    BY <1>8 DEF Put
  <2>3. PICK k \in FileKind : new = FileChange(p0, k) /\ (k = "DELETED" => e.kind = "DELETED")
    <3>1. CASE Same(q, e) = {}
      <4>1. new = [e EXCEPT !.kind = e.kind]
        BY <3>1
      <4>2. new = e
        BY <4>1, <2>1 DEF FileChange
      <4> QED
        BY <4>2, <2>1
    <3>2. CASE Same(q, e) # {}
      <4> DEFINE k == Merge((CHOOSE f \in Same(q, e) : TRUE).kind, e.kind)
      <4>1. k \in FileKind /\ (k = "DELETED" => e.kind = "DELETED")
        BY <2>1 DEF Merge, FileKind
      <4>2. new = [e EXCEPT !.kind = k]
        BY <3>2
      <4>3. new = FileChange(p0, k)
        BY <4>2, <2>1 DEF FileChange
      <4> QED
        BY <4>1, <4>3
    <3> QED
      BY <3>1, <3>2
  <2> HIDE DEF new
  <2>4. \A f \in others : ~(f.volume = VolumeOf(p0) /\ f.path = p0)
    BY <2>1 DEF Same
  <2>5. new \in FileEvent /\ new.path = p0 /\ new.volume = VolumeOf(p0) /\ new.kind = k
    BY <2>3, <2>1
  <2>6. IsFiniteSet(others) /\ Cardinality(others) <= Cardinality(q) /\ Cardinality(others) \in Nat
    BY FS_Subset, FS_CardinalityType DEF QueueTyped
  <2>7. Same(q, e) # {} => Cardinality(others) # Cardinality(q)
    BY FS_Subset DEF QueueTyped, Same
  <2>8. /\ IsFiniteSet(others \cup {new}) /\ Cardinality(others \cup {new}) <= Cardinality(others) + 1
        /\ Cardinality(others \cup {new}) \in Nat
    BY <2>6, AddOne
  <2>9. Cardinality(others \cup {new}) <= MaxEvents
    BY <2>6, <2>7, <2>8, <1>1, <1>8 DEF QueueTyped
  <2>10. \A f \in others : f.kind = "RESCAN" => f.volume # VolumeOf(p0)
    BY <1>8, <2>1 DEF QueueTyped
  <2>11. QueueTyped(others \cup {new})
    <3>1. others \cup {new} \subseteq FileEvent /\ Rescan(All) \notin others \cup {new}
      BY <2>5, <1>8 DEF QueueTyped
    <3>2. ASSUME NEW f \in others \cup {new}, NEW g \in others \cup {new},
                 f.volume = g.volume /\ f.path = g.path
          PROVE  f = g
      BY <3>2, <2>4, <2>5 DEF QueueTyped
    <3>3. ASSUME NEW f \in others \cup {new}, NEW g \in others \cup {new},
                 f.kind = "RESCAN" /\ g.volume = f.volume
          PROVE  g = f
      BY <3>3, <2>10, <2>5 DEF QueueTyped
    <3> QED
      BY <3>1, <3>2, <3>3, <2>8, <2>9 DEF QueueTyped
  <2>12. Covered({e}) = {p0} /\ Covered({new}) = {p0}
    BY <2>1, <2>3, CoveredFacts
  <2>13. Covered(q) \cup Covered({e}) \subseteq Covered(others \cup {new})
    <3>1. q = others \cup Same(q, e)
      BY DEF Same
    <3>2. Covered(Same(q, e)) \subseteq {p0}
      <4>1. \A f \in Same(q, e) : f \in FileEvent /\ f.path = p0
        BY DEF Same, QueueTyped
      <4>2. \A f \in Same(q, e) : f.kind # "RESCAN"
        BY <4>1, <2>1, <1>1
      <4> QED
        BY <4>1, <4>2 DEF Covered
    <3>3. Covered(q) = Covered(others) \cup Covered(Same(q, e))
      BY <3>1, CoveredFacts
    <3>4. Covered(others \cup {new}) = Covered(others) \cup {p0}
      BY <2>12, CoveredFacts
    <3> QED
      BY <3>2, <3>3, <3>4, <2>12
  <2>14. ASSUME NEW p \in Entry, gone(p) \in others \cup {new}
         PROVE  e = gone(p) \/ (gone(p) \in q /\ p \notin Covered({e}))
    <3>1. CASE gone(p) = new
      BY <3>1, <2>1, <2>3, <2>5
    <3>2. CASE gone(p) \in others
      <4>1. gone(p).volume = VolumeOf(p) /\ gone(p).path = p /\ gone(p) \in q
        BY <3>2
      <4>2. p # p0
        BY <4>1, <3>2, <2>4
      <4> QED
        BY <4>1, <4>2, <2>12
    <3> QED
      BY <2>14, <3>1, <3>2
  <2> QED
    BY <2>2, <2>11, <2>13, <2>14
<1> QED
  BY <1>4, <1>5, <1>6, <1>7, <1>8

\* The pipeline is empty where the program counter says so.
StagesOK ==
    /\ pc \in {"start", "submit"} <=> incoming # <<>>
    /\ pc # "batch" => batch = {}
    /\ pc = "down" =>
          /\ watches = {} /\ paths = {} /\ records = <<>> /\ queue = {}
          /\ \A v \in Volume : crawl[v] = None

\* A directory exists above whatever exists, and is watched above whatever is.
TreesOK ==
    /\ \A p \in Entry : disk[p] # 0 => \A f \in Above[p] : Exists(f, disk)
    /\ TopDown(paths)

\* The queues hold what their operations can leave in them; a full kernel
\* queue ends in the record that says so.
QueuesOK ==
    /\ QueueTyped(queue) /\ IsFiniteSet(batch)
    /\ Rescan(All) \notin UNION Range(incoming)
    /\ Len(records) = MaxRecords + 1 => records[MaxRecords + 1] = Overflow

\* A deletion on its way is about an entry that is gone, or that another event
\* behind it is about.
StaleDeletion(p) ==
    /\ FileChange(p, "DELETED") \in batch =>
          p \in missed \cup Reported \cup Covered(UNION Range(incoming)) \cup Covered(queue)
    /\ FileChange(p, "DELETED") \in queue =>
          p \in missed \cup Reported \cup Covered(UNION Range(incoming))
    /\ \A i \in DOMAIN incoming : FileChange(p, "DELETED") \in incoming[i] =>
          \/ p \in missed \cup Reported
          \/ \E j \in DOMAIN incoming : i < j /\ p \in Covered(incoming[j])
    /\ \A i \in DOMAIN records : records[i] = [path |-> p, kind |-> "DELETED"] =>
          p \in missed \/ \E j \in DOMAIN records : i < j /\ p \in Reports(records[j])

DeletionsOK == \A p \in Entry : disk[p] # 0 => StaleDeletion(p)

Opened(v) == crawl[v] # None /\ crawl[v].dir # NoFolder

\* The frontier of a crawl: directories the crawl has come to, and the rest of
\* the one that is open.
FrontierOK(v) ==
    LET c == checkpoint[v] IN
    /\ c.pending \cup {c.dir} \subseteq {NoFolder, v} \cup (Entries(v) \cap passed)
    /\ NoFolder \notin c.pending
    /\ Opened(v) => crawl[v].dir = c.dir /\ \A x \in Range(crawl[v].rest) : Parent[x] = c.dir
    /\ pc # "down" /\ crawl[v] = None => v \in torn

\* The crawl comes to a directory before it comes to what is in it.
PassedOK == \A x \in passed : Parent[x] \in passed \cup Volume

\* The crawl is going to come to the entry, or to a directory above it.
Ahead(p, v) ==
    \E x \in {p} \cup Above[p] :
        /\ x \in Entry \ passed
        /\ \/ Parent[x] \in checkpoint[v].pending
           \/ (Opened(v) /\ x \in Range(crawl[v].rest))
           \/ (~Opened(v) /\ Parent[x] = checkpoint[v].dir)

CrawledOK(p, v) ==
    /\ disk[p] # 0 =>
        \/ Ahead(p, v)
        \/ p \in Protected(v) \cup Awaited \cup missed
        \/ (p \in seen /\ catalog[p] = disk[p])
    /\ p \in seen /\ catalog[p] # disk[p] => p \in Awaited \cup missed

\* A row that no crawl is going to look at agrees with its file, or somebody is
\* going to look, or nobody was told to, or the last crawl could not look.
RowOK(p) == catalog[p] # disk[p] => p \in Awaited \cup missed \cup kept

VolumeOK(v) ==
    IF checkpoint[v] = None
    THEN v \notin torn /\ pc # "down" => \A p \in Entries(v) : RowOK(p)
    ELSE FrontierOK(v) /\ (v \notin torn => \A p \in Entries(v) : CrawledOK(p, v))

VolumesOK == \A v \in Volume : VolumeOK(v)

IndexInv ==
    /\ TypeOK /\ StagesOK /\ TreesOK /\ QueuesOK /\ DeletionsOK /\ PassedOK /\ VolumesOK

(* The type invariant, in parts that change together. *)

RowsTyped ==
    /\ disk \in [Entry -> 0 .. 2] /\ catalog \in [Entry -> 0 .. 2]
    /\ \A p \in Dir : {disk[p], catalog[p]} \subseteq 0 .. 1
    /\ seen \subseteq {p \in Entry : catalog[p] # 0}

WatcherTyped ==
    /\ watches \subseteq paths /\ paths \subseteq Folder
    /\ records \in Seq(Record) /\ Len(records) <= MaxRecords + 1

StagesTyped ==
    /\ incoming \in Seq(SUBSET FileEvent)
    /\ queue \subseteq FileEvent /\ Cardinality(queue) <= MaxEvents
    /\ \A e, f \in queue : e.volume = f.volume /\ e.path = f.path => e = f
    /\ batch \subseteq FileEvent /\ Cardinality(batch) <= MaxBatch /\ left \in 0 .. MaxBatch

CrawlsTyped ==
    /\ crawl \in [Volume -> Crawl \cup {None}]
    /\ checkpoint \in [Volume -> Checkpoint \cup {None}]
    /\ \A v \in Volume : crawl[v] # None => checkpoint[v] # None

RestTyped ==
    /\ pc \in {"down", "start", "poll", "submit", "pop", "batch"}
    /\ required \cup completed \cup fallback \cup torn \cup requested \subseteq Volume
    /\ missed \cup kept \cup passed \subseteq Entry
    /\ trouble \in 0 .. MaxTrouble

\* The parts are the type invariant.
LEMMA TypeParts ==
    TypeOK <=> RowsTyped /\ WatcherTyped /\ StagesTyped /\ CrawlsTyped /\ RestTyped
  BY DEF TypeOK, RowsTyped, WatcherTyped, StagesTyped, CrawlsTyped, RestTyped

\* The bounds are numbers.
LEMMA Bounds == MaxBatch \in Nat \ {0} /\ MaxRecords \in Nat \ {0} /\ MaxTrouble \in Nat
  BY BoundAssumption

\* A record is not the absent record, and the folder of none is no folder.
LEMMA RecordsDiffer ==
    /\ None \notin Crawl /\ None \notin Checkpoint
    /\ NoFolder \notin Folder
    /\ \A r \in Record : r = Overflow \/ (r.path \in Entry /\ r.kind \in FileKind /\ r # Overflow)
<1>1. None \notin Crawl
  <2> SUFFICES ASSUME None \in Crawl PROVE FALSE
    OBVIOUS
  <2>1. DOMAIN None = {"dir", "offset", "rest"}
    BY DEF Crawl
  <2>2. DOMAIN None = {"dir"}
    BY DEF None
  <2> QED
    BY <2>1, <2>2
<1>2. None \notin Checkpoint
  <2> SUFFICES ASSUME None \in Checkpoint PROVE FALSE
    OBVIOUS
  <2>1. DOMAIN None = {"dir", "offset", "pending", "protected"}
    BY DEF Checkpoint
  <2>2. DOMAIN None = {"dir"}
    BY DEF None
  <2> QED
    BY <2>1, <2>2
<1>3. NoFolder \notin Folder
  BY DirAssumption DEF Folder
<1>4. \A r \in Record : r = Overflow \/ (r.path \in Entry /\ r.kind \in FileKind /\ r # Overflow)
  BY NamesAssumption DEF Record, Overflow
<1> QED
  BY <1>1, <1>2, <1>3, <1>4

\* The records that crawls and checkpoints are made of.
LEMMA CrawlMade ==
    /\ Closed \in Crawl /\ Closed # None /\ Closed.dir = NoFolder
    /\ \A f \in Folder, n \in Nat, s \in Seq(Entry) : [dir |-> f, offset |-> n, rest |-> s] \in Crawl
    /\ \A c \in Crawl, n \in Nat, s \in Seq(Entry) : [c EXCEPT !.rest = s, !.offset = n] \in Crawl
    /\ \A c \in Crawl : c.dir \in Folder \cup {NoFolder} /\ c.offset \in Nat /\ c.rest \in Seq(Entry)
<1> DEFINE S == Seq(Entry)
<1>1. <<>> \in S
  BY EmptySeq
<1> HIDE DEF S
<1>2. /\ Closed \in [dir : Folder \cup {NoFolder}, offset : Nat, rest : S] /\ Closed.dir = NoFolder
      /\ \A f \in Folder, n \in Nat, s \in S :
            [dir |-> f, offset |-> n, rest |-> s] \in [dir : Folder \cup {NoFolder}, offset : Nat, rest : S]
  BY <1>1 DEF Closed
<1>3. \A c \in [dir : Folder \cup {NoFolder}, offset : Nat, rest : S], n \in Nat, s \in S :
            [c EXCEPT !.rest = s, !.offset = n] \in [dir : Folder \cup {NoFolder}, offset : Nat, rest : S]
  OBVIOUS
<1>4. \A c \in [dir : Folder \cup {NoFolder}, offset : Nat, rest : S] :
            c.dir \in Folder \cup {NoFolder} /\ c.offset \in Nat /\ c.rest \in S
  OBVIOUS
<1> QED
  BY <1>2, <1>3, <1>4, RecordsDiffer DEF S, Crawl

\* What a checkpoint is made into is a checkpoint, and not the absent one.
LEMMA CheckpointMade ==
    /\ \A v \in Volume : Fresh(v) \in Checkpoint /\ Fresh(v) # None
    /\ \A c \in Checkpoint, f \in Folder, n \in Nat :
        /\ [c EXCEPT !.dir = f, !.offset = n, !.pending = @ \ {f}] \in Checkpoint
        /\ [c EXCEPT !.offset = n] \in Checkpoint
        /\ CompleteDirectory(c) \in Checkpoint
        /\ Protect(c, f) \in Checkpoint
        /\ [c EXCEPT !.pending = @ \cup {f}] \in Checkpoint
    /\ \A c \in Checkpoint, p \in Entry : Protect(c, p) \in Checkpoint
    /\ \A c \in Checkpoint : /\ c.dir \in Folder \cup {NoFolder} /\ c.offset \in Nat
                             /\ c.pending \subseteq Folder /\ c.protected \subseteq Entry \cup Volume
<1> DEFINE C == [dir : Folder \cup {NoFolder}, offset : Nat,
                 pending : SUBSET Folder, protected : SUBSET (Entry \cup Volume)]
<1>1. Volume \subseteq Folder /\ Folder \subseteq Entry \cup Volume
  BY DirAssumption DEF Folder
<1>2. \A v \in Volume : Fresh(v) \in C
  BY <1>1 DEF Fresh
<1>3. ASSUME NEW c \in C, NEW f \in Folder, NEW n \in Nat
      PROVE  /\ [c EXCEPT !.dir = f, !.offset = n, !.pending = @ \ {f}] \in C
             /\ [c EXCEPT !.offset = n] \in C
             /\ CompleteDirectory(c) \in C
             /\ [c EXCEPT !.pending = @ \cup {f}] \in C
  BY DEF CompleteDirectory
<1>4. ASSUME NEW c \in C, NEW f \in Entry \cup Volume
      PROVE  Protect(c, f) \in C
  BY DEF Protect
<1>5. \A c \in C : /\ c.dir \in Folder \cup {NoFolder} /\ c.offset \in Nat
                   /\ c.pending \subseteq Folder /\ c.protected \subseteq Entry \cup Volume
  OBVIOUS
<1> QED
  BY <1>1, <1>2, <1>3, <1>4, <1>5, RecordsDiffer DEF Checkpoint

\* A function on 1 .. n is a sequence.
LEMMA FunctionIsSeq ==
    ASSUME NEW S, NEW n \in Nat, NEW f \in [1 .. n -> S]
    PROVE  f \in Seq(S)
  BY SeqDef

ShapeInv == TypeOK /\ StagesOK /\ TreesOK /\ QueuesOK

\* Writing a row for an entry of the disk.
LEMMA WriteRowTyped ==
    ASSUME RowsTyped, NEW p \in Entry, NEW v, WriteRow(p, v), UNCHANGED disk
    PROVE  RowsTyped'
<1>1. catalog' = [catalog EXCEPT ![p] = disk[p]] /\ disk' = disk
  BY DEF WriteRow
<1>2. seen' \subseteq {q \in Entry : catalog'[q] # 0}
  BY <1>1 DEF WriteRow, RowsTyped
<1>3. catalog' \in [Entry -> 0 .. 2]
  BY <1>1 DEF RowsTyped
<1>4. \A q \in Dir : {disk[q], catalog'[q]} \subseteq 0 .. 1
  BY <1>1, DirAssumption DEF RowsTyped
<1> QED
  BY <1>1, <1>2, <1>3, <1>4 DEF RowsTyped

\* Removing the rows that a crawl did not see.
LEMMA RemoveRowsTyped ==
    ASSUME RowsTyped, NEW v \in Volume, RemoveRows(v), UNCHANGED disk,
           seen' \subseteq seen, \A q \in seen' : catalog'[q] # 0
    PROVE  RowsTyped'
<1>1. catalog' = [p \in Entry |-> IF p \in Removable(v) THEN 0 ELSE catalog[p]]
  BY DEF RemoveRows
<1>2. \A p \in Entry : catalog'[p] \in {0, catalog[p]}
  BY <1>1
<1>3. catalog' \in [Entry -> 0 .. 2]
  BY <1>1 DEF RowsTyped
<1>4. \A q \in Dir : {disk[q], catalog'[q]} \subseteq 0 .. 1
  BY <1>2, DirAssumption DEF RowsTyped
<1> QED
  BY <1>3, <1>4 DEF RowsTyped

\* Every step leaves files and rows in their types.
LEMMA RowsTypedStep == TypeOK /\ QueuesOK /\ [Next]_vars => RowsTyped'
<1> SUFFICES ASSUME TypeOK, QueuesOK, [Next]_vars PROVE RowsTyped'
  OBVIOUS
<1> USE DEF files, memory, database, history, vars
<1>0. RowsTyped /\ CrawlsTyped /\ StagesTyped
  BY TypeParts
<1>a. ASSUME UNCHANGED <<disk, catalog, seen>> PROVE RowsTyped'
  BY <1>0, <1>a DEF RowsTyped
<1>b. ASSUME UNCHANGED <<disk, catalog>>, seen' \subseteq seen PROVE RowsTyped'
  BY <1>0, <1>b DEF RowsTyped
<1>1. ASSUME NEW p \in Entry, Change(p) PROVE RowsTyped'
  <2>1. PICK new \in Versions(p) : disk' = [disk EXCEPT ![p] = new]
    BY <1>1 DEF Change
  <2>2. new \in 0 .. 2 /\ (p \in Dir => new \in 0 .. 1)
    BY <1>0 DEF Versions, RowsTyped
  <2>3. UNCHANGED <<catalog, seen>>
    BY <1>1 DEF Change
  <2>4. disk' \in [Entry -> 0 .. 2]
    BY <2>1, <2>2, <1>0 DEF RowsTyped
  <2>5. \A q \in Dir : {disk'[q], catalog[q]} \subseteq 0 .. 1
    BY <2>1, <2>2, <1>0, DirAssumption DEF RowsTyped
  <2> QED
    BY <2>3, <2>4, <2>5, <1>0 DEF RowsTyped
<1>2. CASE ReadWatcher \/ Submit \/ Paused \/ Pop
  BY <1>2, <1>a DEF ReadWatcher, Submit, Paused, Pop
<1>3. ASSUME NEW v \in Volume, FallbackDue(v) PROVE RowsTyped'
  BY <1>3, <1>a DEF FallbackDue, RequestRescan
<1>4. CASE ProcessEvent
  <2>1. PICK e \in batch :
            CASE e.kind = "RESCAN" -> StartCrawls(RescannedBy(e.volume)) /\ UNCHANGED catalog
              [] e.kind = "DELETED" ->
                  /\ catalog' = [catalog EXCEPT ![e.path] = 0]
                  /\ seen' = seen \ {e.path}
                  /\ UNCHANGED <<crawl, checkpoint, history>>
              [] OTHER -> WriteRow(e.path, e.volume) /\ UNCHANGED <<crawl, checkpoint, history>>
    BY <1>4 DEF ProcessEvent
  <2>2. e \in FileEvent /\ UNCHANGED disk
    BY <1>0, <1>4 DEF StagesTyped, ProcessEvent
  <2>3. CASE e.kind = "RESCAN"
    BY <2>1, <2>2, <2>3, <1>b DEF StartCrawls
  <2>4. CASE e.kind = "DELETED"
    <3>1. e.path \in Entry /\ catalog' = [catalog EXCEPT ![e.path] = 0] /\ seen' = seen \ {e.path}
      BY <2>1, <2>2, <2>4, EventFacts
    <3> QED
      BY <3>1, <2>2, <1>0, DirAssumption DEF RowsTyped
  <2>5. CASE e.kind # "RESCAN" /\ e.kind # "DELETED"
    <3>1. e.path \in Entry /\ WriteRow(e.path, e.volume)
      BY <2>1, <2>2, <2>5, EventFacts
    <3> QED
      BY <3>1, <2>2, <1>0, WriteRowTyped
  <2> QED
    BY <2>3, <2>4, <2>5
<1>5. CASE EventFails
  <2>1. UNCHANGED <<disk, catalog>> /\ seen' \subseteq seen
    BY <1>5 DEF EventFails
  <2> QED
    BY <2>1, <1>b
<1>6. ASSUME NEW v \in Volume, Claim(v) \/ Exhausted(v) \/ VisitFails(v) PROVE RowsTyped'
  BY <1>6, <1>a DEF Claim, Exhausted, VisitFails, Advance
<1>7. ASSUME NEW v \in Volume, Visit(v) PROVE RowsTyped'
  <2>1. Head(crawl[v].rest) \in Entry
    <3>1. crawl[v] \in Crawl /\ crawl[v].rest # <<>>
      BY <1>7, <1>0 DEF Visit, Advance, Crawling, CrawlsTyped
    <3> QED
      BY <3>1, CrawlMade, HeadTailProperties
  <2>2. WriteRow(Head(crawl[v].rest), v) /\ UNCHANGED disk
    BY <1>7 DEF Visit, Advance
  <2> QED
    BY <2>1, <2>2, <1>0, WriteRowTyped
<1>8. ASSUME NEW v \in Volume, Finish(v) PROVE RowsTyped'
  <2>1. RemoveRows(v) /\ seen' = seen \ Entries(v) /\ UNCHANGED disk
    BY <1>8 DEF Finish
  <2>2. \A q \in seen' : catalog'[q] # 0
    BY <2>1, <1>0 DEF RemoveRows, Removable, RowsTyped
  <2> QED
    BY <2>1, <2>2, <1>0, RemoveRowsTyped
<1>9. CASE EndBatch \/ Restart
  BY <1>9, <1>a DEF EndBatch, Restart
<1>10. CASE Crash
  BY <1>10, <1>a DEF Crash, LoseMemory
<1>11. ASSUME NEW v \in Volume, CrashInVisit(v) PROVE RowsTyped'
  <2>1. Head(crawl[v].rest) \in Entry
    BY <1>11, DirAssumption DEF CrashInVisit
  <2>2. WriteRow(Head(crawl[v].rest), v) /\ UNCHANGED disk
    BY <1>11 DEF CrashInVisit, LoseMemory
  <2> QED
    BY <2>1, <2>2, <1>0, WriteRowTyped
<1>12. ASSUME NEW v \in Volume, CrashInFinish(v) PROVE RowsTyped'
  <2>1. RemoveRows(v) /\ seen' = seen \cap {p \in Entry : catalog'[p] # 0} /\ UNCHANGED disk
    BY <1>12 DEF CrashInFinish, LoseMemory
  <2> QED
    BY <2>1, <1>0, RemoveRowsTyped
<1>13. CASE UNCHANGED vars
  BY <1>13, <1>a
<1> QED
  BY <1>1, <1>2, <1>3, <1>4, <1>5, <1>6, <1>7, <1>8, <1>9, <1>10, <1>11, <1>12, <1>13
  DEF Next, CrawlStep

\* A decoded record is a set of events, and no rescan of everything.
LEMMA DecodeTyped ==
    ASSUME NEW r \in Record, NEW failing \in SUBSET Dir
    PROVE  Decode(r, failing) \subseteq FileEvent \ {Rescan(All)}
<1>1. CASE r = Overflow
  BY <1>1, EventFacts, NamesAssumption DEF Decode
<1>2. CASE r # Overflow
  <2>1. r.path \in Entry /\ r.kind \in FileKind
    BY <1>2, RecordsDiffer
  <2>2. VolumeOf(r.path) \in Volume
    BY <2>1, TreeFacts
  <2>3. FileChange(r.path, r.kind) \in FileEvent /\ FileChange(r.path, r.kind) # Rescan(All)
    BY <2>1, EventFacts, RescanIsNoChange
  <2>4. Rescan(VolumeOf(r.path)) \in FileEvent /\ Rescan(VolumeOf(r.path)) # Rescan(All)
    BY <2>2, EventFacts, NamesAssumption
  <2> QED
    BY <1>2, <2>3, <2>4 DEF Decode
<1> QED
  BY <1>1, <1>2

\* Reporting a change of an entry adds a record of it to the kernel's queue, or
\* the record that the queue is full, which then comes last.
LEMMA ReportTyped ==
    ASSUME WatcherTyped, Len(records) = MaxRecords + 1 => records[MaxRecords + 1] = Overflow,
           NEW p \in Entry, NEW k \in FileKind
    PROVE  LET new == Report(p, k) IN
           /\ new \in Seq(Record) /\ Len(new) \in Len(records) .. MaxRecords + 1
           /\ Len(new) = MaxRecords + 1 => new[MaxRecords + 1] = Overflow
           /\ \A i \in 1 .. Len(records) : new[i] = records[i]
           /\ Len(new) \in {Len(records), Len(records) + 1}
           /\ Len(new) > 0 /\ new[Len(new)] \in {Overflow, [path |-> p, kind |-> k]}
           /\ Len(new) = Len(records) => new = records /\ Len(new) = MaxRecords + 1
<1> DEFINE S == Seq(Record)
<1>1. records \in S /\ Len(records) \in Nat /\ Len(records) <= MaxRecords + 1 /\ MaxRecords \in Nat \ {0}
  BY Bounds, LenProperties DEF WatcherTyped
<1>2. Overflow \in Record /\ [path |-> p, kind |-> k] \in Record
  BY DEF Record
<1>3. \A r \in Record : /\ Append(records, r) \in S /\ Len(Append(records, r)) = Len(records) + 1
                        /\ Append(records, r)[Len(records) + 1] = r
                        /\ \A i \in 1 .. Len(records) : Append(records, r)[i] = records[i]
  BY <1>1, AppendProperties
<1> HIDE DEF S
<1>4. CASE Len(records) < MaxRecords
  <2>1. Report(p, k) = Append(records, [path |-> p, kind |-> k])
    BY <1>4 DEF Report
  <2> QED
    BY <1>1, <1>2, <1>3, <1>4, <2>1 DEF S
<1>5. CASE Len(records) = MaxRecords
  <2>1. Report(p, k) = Append(records, Overflow)
    BY <1>5 DEF Report
  <2> QED
    BY <1>1, <1>2, <1>3, <1>5, <2>1 DEF S
<1>6. CASE Len(records) = MaxRecords + 1
  <2>1. Report(p, k) = records
    BY <1>6, <1>1 DEF Report
  <2> QED
    BY <1>1, <1>6, <2>1 DEF S
<1> QED
  BY <1>1, <1>4, <1>5, <1>6

\* Every step leaves the watches and the kernel's queue in their types.
LEMMA WatcherTypedStep ==
    TypeOK /\ StagesOK /\ QueuesOK /\ [Next]_vars =>
        WatcherTyped' /\ (Len(records) = MaxRecords + 1 => records[MaxRecords + 1] = Overflow)'
<1> DEFINE LastOK == Len(records) = MaxRecords + 1 => records[MaxRecords + 1] = Overflow
<1> SUFFICES ASSUME TypeOK, StagesOK, QueuesOK, [Next]_vars PROVE WatcherTyped' /\ LastOK'
  OBVIOUS
<1> USE DEF files, memory, database, history, vars
<1>0. RowsTyped /\ WatcherTyped /\ LastOK
  BY TypeParts DEF QueuesOK
<1>a. ASSUME UNCHANGED <<watches, paths, records>> PROVE WatcherTyped' /\ LastOK'
  BY <1>0, <1>a DEF WatcherTyped
<1>b. ASSUME watches' \subseteq paths', paths' \subseteq Folder, records' = <<>>
      PROVE  WatcherTyped' /\ LastOK'
  <2>1. <<>> \in Seq(Record) /\ Len(<<>>) = 0
    BY EmptySeq
  <2> QED
    BY <2>1, <1>b, Bounds DEF WatcherTyped
<1>1. ASSUME NEW p \in Entry, Change(p) PROVE WatcherTyped' /\ LastOK'
  <2>1. PICK new \in Versions(p) :
            /\ watches' = IF new = 0 THEN watches \ {p} ELSE watches
            /\ records' \in {records, Report(p, KindOf(disk[p], new))}
    BY <1>1 DEF Change
  <2>2. paths' = paths /\ watches' \subseteq paths'
    BY <2>1, <1>1, <1>0 DEF Change, WatcherTyped
  <2>3. KindOf(disk[p], new) \in FileKind
    BY DEF KindOf, FileKind
  <2>4. CASE records' = records
    BY <2>2, <2>4, <1>0 DEF WatcherTyped
  <2>5. CASE records' = Report(p, KindOf(disk[p], new))
    <3> DEFINE r == Report(p, KindOf(disk[p], new))
    <3>1. r \in Seq(Record) /\ Len(r) \in Len(records) .. MaxRecords + 1
          /\ (Len(r) = MaxRecords + 1 => r[MaxRecords + 1] = Overflow)
      BY <2>3, <1>0, ReportTyped
    <3>2. Len(r) <= MaxRecords + 1
      BY <3>1
    <3> QED
      BY <3>1, <3>2, <2>2, <2>5, <1>0 DEF WatcherTyped
  <2> QED
    BY <2>1, <2>4, <2>5
<1>2. CASE ReadWatcher
  BY <1>2, <1>0, <1>b DEF ReadWatcher, WatcherTyped
<1>3. CASE Submit \/ Paused \/ Pop
  BY <1>3, <1>a DEF Submit, Paused, Pop
<1>4. ASSUME NEW v \in Volume, FallbackDue(v) PROVE WatcherTyped' /\ LastOK'
  BY <1>4, <1>a DEF FallbackDue, RequestRescan
<1>5. CASE ProcessEvent \/ EventFails
  BY <1>5, <1>a DEF ProcessEvent, EventFails
<1>6. ASSUME NEW v \in Volume, CrawlStep(v) PROVE WatcherTyped' /\ LastOK'
  BY <1>6, <1>a DEF CrawlStep, Claim, Exhausted, Visit, VisitFails, Advance, Finish
<1>7. CASE EndBatch
  BY <1>7, <1>a DEF EndBatch
<1>8. ASSUME NEW doubtful, LoseMemory(doubtful) PROVE WatcherTyped' /\ LastOK'
  BY <1>8, <1>b DEF LoseMemory
<1>9. CASE Restart
  <2>1. records = <<>> /\ watches' = paths' /\ paths' \subseteq Folder /\ records' = records
    BY <1>9 DEF Restart, StagesOK
  <2> QED
    BY <2>1, <1>b
<1>10. CASE UNCHANGED vars
  BY <1>10, <1>a
<1> QED
  BY <1>1, <1>2, <1>3, <1>4, <1>5, <1>6, <1>7, <1>8, <1>9, <1>10
  DEF Next, Crash, CrashInVisit, CrashInFinish

\* What the stages of the pipeline hold, typed.
StagesGood == StagesTyped /\ QueueTyped(queue) /\ IsFiniteSet(batch) /\ Rescan(All) \notin UNION Range(incoming)

\* Submit puts one event of the first set; the sets behind it stay in order.
LEMMA SubmitTyped ==
    ASSUME incoming \in Seq(SUBSET FileEvent), Rescan(All) \notin UNION Range(incoming), Submit
    PROVE  \E e \in Head(incoming), s \in {0, 1} :
            /\ queue' = Put(queue, e)
            /\ e \in FileEvent /\ e # Rescan(All) /\ Head(incoming) = incoming[1] /\ 1 \in DOMAIN incoming
            /\ incoming' \in Seq(SUBSET FileEvent)
            /\ DOMAIN incoming \subseteq Nat \ {0} /\ DOMAIN incoming' \subseteq Nat \ {0}
            /\ \A i \in DOMAIN incoming' : i + s \in DOMAIN incoming /\ incoming'[i] \subseteq incoming[i + s]
            /\ \A j \in DOMAIN incoming :
                  j > 1 => j - s \in DOMAIN incoming' /\ incoming'[j - s] = incoming[j]
            /\ s = 0 => 1 \in DOMAIN incoming' /\ incoming[1] \subseteq incoming'[1] \cup {e}
            /\ s = 1 => incoming[1] = {e}
<1> DEFINE S == SUBSET FileEvent
<1>1. incoming # <<>> /\ incoming \in Seq(S)
  BY DEF Submit
<1>2. PICK e \in Foremost(Head(incoming)) :
        /\ queue' = Put(queue, e)
        /\ incoming' = IF Head(incoming) = {e} THEN Tail(incoming)
                       ELSE [incoming EXCEPT ![1] = @ \ {e}]
  BY DEF Submit
<1>3. Head(incoming) = incoming[1] /\ Len(incoming) \in Nat \ {0} /\ DOMAIN incoming = 1 .. Len(incoming)
  BY <1>1, EmptySeq, LenProperties
<1>4. e \in Head(incoming) /\ 1 \in DOMAIN incoming
  BY <1>2, <1>3 DEF Foremost
<1>5. Head(incoming) \in S
  BY <1>1, HeadTailProperties
<1>6. e \in UNION Range(incoming)
  BY <1>3, <1>4 DEF Range
<1>9. e \in FileEvent /\ e # Rescan(All) /\ DOMAIN incoming \subseteq Nat \ {0}
  BY <1>3, <1>4, <1>5, <1>6
<1>7. CASE Head(incoming) = {e}
  <2>1. /\ Tail(incoming) \in Seq(S) /\ Len(Tail(incoming)) = Len(incoming) - 1
        /\ \A i \in 1 .. Len(Tail(incoming)) : Tail(incoming)[i] = incoming[i + 1]
    BY <1>1, HeadTailProperties
  <2>2. DOMAIN Tail(incoming) = 1 .. Len(incoming) - 1
    BY <2>1, LenProperties
  <2>3. \A i \in 1 .. Len(incoming) - 1 : i + 1 \in DOMAIN incoming /\ Tail(incoming)[i] = incoming[i + 1]
    BY <2>1, <1>3
  <2>4. \A j \in DOMAIN incoming :
            j > 1 => j - 1 \in DOMAIN Tail(incoming) /\ Tail(incoming)[j - 1] = incoming[j]
    BY <2>1, <2>2, <1>3
  <2>5. incoming' = Tail(incoming) /\ DOMAIN Tail(incoming) \subseteq Nat \ {0}
    BY <1>2, <1>7, <2>2, <1>3
  <2>6. \A i \in DOMAIN incoming' : i + 1 \in DOMAIN incoming /\ incoming'[i] \subseteq incoming[i + 1]
    BY <2>2, <2>3, <2>5
  <2> WITNESS e \in Head(incoming), 1 \in {0, 1}
  <2> QED
    BY <2>1, <2>4, <2>5, <2>6, <1>2, <1>3, <1>4, <1>9, <1>7
<1>8. CASE Head(incoming) # {e}
  <2> DEFINE rest == incoming[1] \ {e}
             new == [incoming EXCEPT ![1] = rest]
  <2>1. rest \in S /\ rest \subseteq incoming[1] /\ 1 \in 1 .. Len(incoming)
    BY <1>3, <1>5
  <2>2. new \in Seq(S) /\ DOMAIN new = DOMAIN incoming
        /\ \A j \in 1 .. Len(incoming) : new[j] = IF j = 1 THEN rest ELSE incoming[j]
    BY <2>1, <1>1, ExceptSeq
  <2>3. incoming' = new
    BY <1>2, <1>8
  <2> HIDE DEF new
  <2>4. \A i \in DOMAIN new : i + 0 = i /\ i - 0 = i /\ new[i] \subseteq incoming[i] /\ (i > 1 => new[i] = incoming[i])
    BY <2>2, <2>1, <1>3
  <2>5. 1 \in DOMAIN new /\ incoming[1] \subseteq new[1] \cup {e}
    BY <2>2, <2>1, <1>3
  <2>6. \A i \in DOMAIN incoming' : i + 0 \in DOMAIN incoming /\ incoming'[i] \subseteq incoming[i + 0]
    BY <2>2, <2>3, <2>4
  <2>7. \A j \in DOMAIN incoming : j > 1 => j - 0 \in DOMAIN incoming' /\ incoming'[j - 0] = incoming[j]
    BY <2>2, <2>3, <2>4
  <2> USE <1>4
  <2> WITNESS e \in Head(incoming), 0 \in {0, 1}
  <2> QED
    BY <2>2, <2>3, <2>5, <2>6, <2>7, <1>2, <1>3, <1>4, <1>9
<1> QED
  BY <1>7, <1>8

\* What ReadWatcher decodes.
LEMMA ReadTyped ==
    ASSUME TypeOK, ReadWatcher
    PROVE  /\ incoming' \in Seq(SUBSET FileEvent) /\ Rescan(All) \notin UNION Range(incoming')
           /\ (incoming' = <<>> <=> records = <<>>)
           /\ Len(incoming') = Len(records) /\ DOMAIN incoming' = DOMAIN records
<1>1. records \in Seq(Record)
  BY DEF TypeOK
<1>2. Len(records) \in Nat /\ DOMAIN records = 1 .. Len(records)
      /\ \A i \in 1 .. Len(records) : records[i] \in Record
  BY <1>1, LenProperties, ElementOfSeq
<1>3. PICK failing \in SUBSET Dir : incoming' = [i \in DOMAIN records |-> Decode(records[i], failing)]
  BY DEF ReadWatcher, NewDirectories
<1> DEFINE T == FileEvent \ {Rescan(All)}
<1>4. incoming' \in [1 .. Len(records) -> SUBSET T]
  BY <1>2, <1>3, DecodeTyped
<1> HIDE DEF T
<1>5. incoming' \in Seq(SUBSET T)
  BY <1>2, <1>4, FunctionIsSeq
<1>6. Len(incoming') \in Nat /\ DOMAIN incoming' = 1 .. Len(incoming') /\ DOMAIN incoming' = 1 .. Len(records)
  BY <1>4, <1>5, LenProperties
<1>7. Len(incoming') = Len(records)
  <2>1. \A m, n \in Nat : 1 .. m = 1 .. n => m <= n
    <3> SUFFICES ASSUME NEW m \in Nat, NEW n \in Nat, 1 .. m = 1 .. n, m > n PROVE FALSE
      OBVIOUS
    <3>1. m \in 1 .. m
      OBVIOUS
    <3> QED
      BY <3>1
  <2>2. Len(incoming') <= Len(records) /\ Len(records) <= Len(incoming')
    BY <2>1, <1>6, <1>2, Zenon
  <2>3. \A m, n \in Nat : m <= n /\ n <= m => m = n
    OBVIOUS
  <2> QED
    BY <2>2, <2>3, <1>6, <1>2, Zenon
<1>8. incoming' = <<>> <=> records = <<>>
  BY <1>5, <1>7, <1>1, EmptySeq
<1>9. \A i \in DOMAIN incoming' : incoming'[i] \in SUBSET T
  BY <1>4, <1>6
<1>10. incoming' \in Seq(SUBSET FileEvent)
  <2>1. SUBSET T \subseteq SUBSET FileEvent
    BY DEF T
  <2> QED
    BY <2>1, <1>5, SeqMonotonic
<1>11. Rescan(All) \notin UNION Range(incoming')
  BY <1>9 DEF Range, T
<1> QED
  BY <1>7, <1>8, <1>10, <1>11, <1>6, <1>2

\* What start() puts into the queue first: the rescans that are requested.
LEMMA RestartTyped ==
    ASSUME TypeOK, Restart
    PROVE  /\ incoming' \in Seq(SUBSET FileEvent) /\ Rescan(All) \notin UNION Range(incoming')
           /\ requested' \subseteq Volume
           /\ UNION Range(incoming') = {Rescan(v) : v \in requested'}
           /\ \A i \in DOMAIN incoming' : i = 1
<1>1. requested' \subseteq Volume
  BY DEF Restart
<1>2. incoming' = IF requested' = {} THEN <<>> ELSE <<{Rescan(v) : v \in requested'}>>
  BY DEF Restart
<1> DEFINE events == {Rescan(v) : v \in requested'}
<1>3. events \in SUBSET FileEvent /\ Rescan(All) \notin events
  BY <1>1, EventFacts, NamesAssumption
<1>4. CASE requested' = {}
  <2>1. incoming' = <<>> /\ Range(incoming') = {} /\ DOMAIN incoming' = {}
    BY <1>2, <1>4 DEF Range
  <2> QED
    BY <2>1, <1>1, <1>4, EmptySeq
<1>5. CASE requested' # {}
  <2>1. incoming' = <<events>>
    BY <1>2, <1>5
  <2> HIDE DEF events
  <2>2. Range(incoming') = {events} /\ DOMAIN incoming' = 1 .. 1
    BY <2>1 DEF Range
  <2>3. <<events>> \in Seq(SUBSET FileEvent)
    BY <1>3
  <2>4. UNION Range(incoming') = events /\ \A i \in DOMAIN incoming' : i = 1
    BY <2>2
  <2>5. incoming' \in Seq(SUBSET FileEvent)
    BY <2>1, <2>3
  <2> QED
    BY <2>4, <2>5, <1>1, <1>3 DEF events
<1> QED
  BY <1>4, <1>5

\* Every step leaves the pipeline in its types.
LEMMA StagesTypedStep == TypeOK /\ StagesOK /\ QueuesOK /\ [Next]_vars => StagesGood'
<1> SUFFICES ASSUME TypeOK, StagesOK, QueuesOK, [Next]_vars PROVE StagesGood'
  OBVIOUS
<1> USE DEF files, memory, database, history, vars
<1>0. StagesGood /\ CrawlsTyped /\ RestTyped
  BY TypeParts DEF QueuesOK, StagesGood
<1>a. ASSUME UNCHANGED <<incoming, queue, batch>>, left' \in 0 .. MaxBatch PROVE StagesGood'
  BY <1>0, <1>a DEF StagesGood, StagesTyped
<1>b. ASSUME incoming' \in Seq(SUBSET FileEvent), Rescan(All) \notin UNION Range(incoming'),
             UNCHANGED <<batch, left>>, QueueTyped(queue')
      PROVE  StagesGood'
  BY <1>0, <1>b DEF StagesGood, StagesTyped, QueueTyped
<1>l. ASSUME UNCHANGED left PROVE left' \in 0 .. MaxBatch
  BY <1>0, <1>l DEF StagesGood, StagesTyped
<1>z. 0 \in 0 .. MaxBatch
  BY Bounds
<1>1. ASSUME NEW p \in Entry, Change(p) PROVE StagesGood'
  BY <1>1, <1>a, <1>l DEF Change
<1>2. CASE ReadWatcher
  BY <1>2, <1>0, <1>b, ReadTyped DEF ReadWatcher, StagesGood
<1>3. CASE Submit
  <2>1. PICK e \in Head(incoming), s \in {0, 1} :
            /\ queue' = Put(queue, e)
            /\ e \in FileEvent /\ e # Rescan(All)
            /\ incoming' \in Seq(SUBSET FileEvent)
            /\ \A i \in DOMAIN incoming' : i + s \in DOMAIN incoming /\ incoming'[i] \subseteq incoming[i + s]
    BY <1>3, <1>0, SubmitTyped DEF StagesGood, StagesTyped
  <2>2. QueueTyped(queue')
    BY <2>1, <1>0, PutFacts DEF StagesGood
  <2>3. Rescan(All) \notin UNION Range(incoming')
    BY <2>1, <1>0 DEF StagesGood, Range
  <2> QED
    BY <2>1, <2>2, <2>3, <1>b, <1>3 DEF Submit
<1>4. ASSUME NEW v \in Volume, FallbackDue(v) PROVE StagesGood'
  <2>1. queue' = Put(queue, Rescan(v)) /\ UNCHANGED <<incoming, batch, left>>
    BY <1>4 DEF FallbackDue, RequestRescan
  <2>2. Rescan(v) \in FileEvent /\ Rescan(v) # Rescan(All)
    BY EventFacts, NamesAssumption
  <2>3. QueueTyped(queue')
    BY <2>1, <2>2, <1>0, PutFacts DEF StagesGood
  <2> QED
    BY <2>1, <2>3, <1>0, <1>b DEF StagesGood, StagesTyped
<1>5. CASE Paused \/ Restart \/ EndBatch
  <2>1. CASE Restart
    <3>1. UNCHANGED <<queue, batch, left>>
      BY <2>1 DEF Restart
    <3> QED
      BY <2>1, <3>1, <1>0, <1>b, RestartTyped DEF StagesGood
  <2>2. CASE Paused \/ EndBatch
    BY <2>2, <1>a, <1>l, <1>z DEF Paused, EndBatch
  <2> QED
    BY <1>5, <2>1, <2>2
<1>6. CASE Pop
  <2>1. PICK popped \in PopReady(queue, MaxBatch) :
            queue' = queue \ popped /\ batch' = popped /\ left' = MaxBatch - Cardinality(popped)
    BY <1>6 DEF Pop, Remaining
  <2>2. popped \subseteq queue /\ Cardinality(popped) <= MaxBatch
    <3>1. PICK ready \in SUBSET queue :
              popped \subseteq ready /\ Cardinality(popped) =
                  IF Cardinality(ready) < MaxBatch THEN Cardinality(ready) ELSE MaxBatch
      BY <2>1 DEF PopReady
    <3>2. Cardinality(ready) \in Nat
      BY <1>0, FS_Subset, FS_CardinalityType DEF StagesGood, QueueTyped
    <3> QED
      BY <3>1, <3>2, Bounds
  <2>3. IsFiniteSet(popped) /\ Cardinality(popped) \in Nat
    BY <2>2, <1>0, FS_Subset, FS_CardinalityType DEF StagesGood, QueueTyped
  <2>4. left' \in 0 .. MaxBatch
    BY <2>1, <2>2, <2>3, Bounds
  <2>5. IsFiniteSet(queue') /\ Cardinality(queue') <= Cardinality(queue)
        /\ Cardinality(queue') \in Nat /\ Cardinality(queue) \in Nat
    BY <2>1, <1>0, FS_Subset, FS_CardinalityType DEF StagesGood, QueueTyped
  <2>6. Cardinality(queue') <= MaxEvents
    BY <2>5, <1>0, MaxEventsAssumption DEF StagesGood, QueueTyped
  <2>7. QueueTyped(queue')
    BY <2>1, <2>5, <2>6, <1>0 DEF StagesGood, QueueTyped
  <2>8. incoming' = incoming /\ batch' \subseteq FileEvent
    BY <1>6, <2>1, <2>2, <1>0 DEF Pop, StagesGood, QueueTyped
  <2> QED
    BY <2>1, <2>2, <2>3, <2>4, <2>7, <2>8, <1>0 DEF StagesGood, StagesTyped, QueueTyped
<1>7. CASE ProcessEvent \/ EventFails
  <2>1. PICK e : batch' = batch \ {e} /\ UNCHANGED <<incoming, queue, left>>
    BY <1>7 DEF ProcessEvent, EventFails
  <2>2. IsFiniteSet(batch') /\ Cardinality(batch') <= Cardinality(batch)
        /\ Cardinality(batch') \in Nat /\ Cardinality(batch) \in Nat
    BY <2>1, <1>0, FS_Subset, FS_CardinalityType DEF StagesGood
  <2>3. Cardinality(batch') <= MaxBatch
    BY <2>2, <1>0, Bounds DEF StagesGood, StagesTyped
  <2> QED
    BY <2>1, <2>2, <2>3, <1>0 DEF StagesGood, StagesTyped
<1>8. ASSUME NEW v \in Volume, CrawlStep(v) PROVE StagesGood'
  <2>1. CASE Claim(v) \/ Exhausted(v) \/ Finish(v)
    BY <2>1, <1>a, <1>l DEF Claim, Exhausted, Finish
  <2>2. CASE Visit(v) \/ VisitFails(v)
    <3>1. Advance(v)
      BY <2>2 DEF Visit, VisitFails
    <3>2. UNCHANGED <<incoming, queue, batch>> /\ left' = left - 1 /\ left > 0
      BY <3>1 DEF Advance, Crawling
    <3>3. left' \in 0 .. MaxBatch
      BY <3>2, <1>0, Bounds DEF StagesGood, StagesTyped
    <3> QED
      BY <3>2, <3>3, <1>a
  <2> QED
    BY <1>8, <2>1, <2>2 DEF CrawlStep
<1>9. ASSUME NEW doubtful, LoseMemory(doubtful) PROVE StagesGood'
  <2>1. incoming' = <<>> /\ queue' = {} /\ batch' = {} /\ left' = 0
    BY <1>9 DEF LoseMemory
  <2>2. <<>> \in Seq(SUBSET FileEvent) /\ UNION Range(<<>>) = {}
    BY EmptySeq DEF Range
  <2>3. IsFiniteSet({}) /\ Cardinality({}) = 0
    BY FS_EmptySet
  <2>4. Cardinality({}) <= MaxEvents /\ Cardinality({}) <= MaxBatch
    BY <2>3, Bounds, MaxEventsAssumption
  <2>5. QueueTyped({})
    BY <2>3, <2>4 DEF QueueTyped
  <2> QED
    BY <2>1, <2>2, <2>3, <2>4, <2>5, <1>z DEF StagesGood, StagesTyped
<1>10. CASE UNCHANGED vars
  BY <1>10, <1>a, <1>l
<1> QED
  BY <1>1, <1>2, <1>3, <1>4, <1>5, <1>6, <1>7, <1>8, <1>9, <1>10
  DEF Next, Crash, CrashInVisit, CrashInFinish

\* The directory a crawl claims, and what it lists of it.
LEMMA ClaimTyped ==
    ASSUME CrawlsTyped, NEW v \in Volume, Claim(v), NEW f \in NextFolder(checkpoint[v])
    PROVE  LET claimed == Claimed(checkpoint[v], f)
               listing == Listing[Content(f)]
               rest == SubSeq(listing, claimed.offset + 1, Len(listing))
           IN  /\ checkpoint[v] \in Checkpoint /\ f \in Folder /\ crawl[v] \in Crawl
               /\ claimed \in Checkpoint
               /\ claimed.offset \in Nat /\ claimed.dir = f
               /\ claimed.pending = checkpoint[v].pending \ {f}
               /\ claimed.protected = checkpoint[v].protected
               /\ listing \in Seq(Content(f)) /\ Range(listing) = Content(f) /\ Len(listing) \in Nat
               /\ DOMAIN listing = 1 .. Len(listing)
               /\ claimed.offset <= Len(listing) =>
                    /\ rest \in Seq(Content(f))
                    /\ rest \in Seq(Entry)
                    /\ Range(rest) = {listing[i] : i \in claimed.offset + 1 .. Len(listing)}
<1> DEFINE c == checkpoint[v]
           claimed == Claimed(c, f)
           S == Content(f)
           listing == Listing[S]
<1>1. c \in Checkpoint /\ crawl[v] \in Crawl
  BY DEF CrawlsTyped, Claim, Crawling
<1>2. f \in Folder /\ (c.dir # NoFolder => f = c.dir)
  BY <1>1, CheckpointMade DEF NextFolder
<1> DEFINE n == IF c.dir # NoFolder THEN c.offset ELSE 0
<1>3. n \in Nat
  BY <1>1, CheckpointMade
<1>4. claimed = [c EXCEPT !.dir = f, !.offset = n, !.pending = @ \ {f}]
  BY DEF Claimed
<1>5. claimed \in Checkpoint
  <2> HIDE DEF n, claimed
  <2> QED
    BY <1>1, <1>2, <1>3, <1>4, CheckpointMade
<1>6. /\ claimed.offset = n /\ claimed.dir = f
      /\ claimed.pending = c.pending \ {f} /\ claimed.protected = c.protected
  BY <1>1, <1>4 DEF Checkpoint
<1>7. S \in SUBSET Entry
  BY DEF Content
<1>8. listing \in Seq(S) /\ Range(listing) = S
  BY <1>7, ListingAssumption
<1> HIDE DEF claimed, listing, S, n
<1>9. Len(listing) \in Nat /\ DOMAIN listing = 1 .. Len(listing) /\ \A i \in 1 .. Len(listing) : listing[i] \in S
  BY <1>8, LenProperties, ElementOfSeq
<1> DEFINE rest == SubSeq(listing, n + 1, Len(listing))
<1>10. ASSUME n <= Len(listing)
       PROVE  /\ rest \in Seq(S) /\ rest \in Seq(Entry)
              /\ Range(rest) = {listing[i] : i \in n + 1 .. Len(listing)}
  <2>1. n + 1 \in Int /\ Len(listing) \in Int /\ \A i \in n + 1 .. Len(listing) : listing[i] \in S
    BY <1>3, <1>9
  <2>2. /\ rest \in Seq(S)
        /\ Len(rest) = IF n + 1 <= Len(listing) THEN Len(listing) - (n + 1) + 1 ELSE 0
        /\ \A i \in 1 .. Len(listing) - (n + 1) + 1 : rest[i] = listing[n + 1 + i - 1]
    BY <2>1, SubSeqProperties
  <2> HIDE DEF rest
  <2>3. Len(rest) = Len(listing) - n /\ \A i \in 1 .. Len(listing) - n : rest[i] = listing[n + i]
    <3>1. PICK m \in Nat : m = Len(listing)
      BY <1>9
    <3>2. m - (n + 1) + 1 = m - n /\ n <= m /\ \A i \in 1 .. m - n : n + 1 + i - 1 = n + i
      BY <3>1, <1>3, <1>10
    <3>3. \A i \in 1 .. m - n : rest[i] = listing[n + i]
      BY <3>1, <3>2, <2>2
    <3>4. Len(rest) = m - n
      BY <3>1, <3>2, <2>2, <1>3
    <3> QED
      BY <3>1, <3>3, <3>4
  <2>4. rest \in Seq(Entry)
    BY <2>2, <1>7, SeqMonotonic
  <2>5. DOMAIN rest = 1 .. Len(listing) - n
    BY <2>2, <2>3, LenProperties
  <2>6. Range(rest) \subseteq {listing[i] : i \in n + 1 .. Len(listing)}
    <3> SUFFICES ASSUME NEW i \in 1 .. Len(listing) - n
                 PROVE  \E j \in n + 1 .. Len(listing) : rest[i] = listing[j]
      BY <2>5 DEF Range
    <3>1. n + i \in n + 1 .. Len(listing)
      BY <1>3, <1>9
    <3> QED
      BY <3>1, <2>3
  <2>7. ASSUME NEW j \in n + 1 .. Len(listing) PROVE listing[j] \in Range(rest)
    <3>1. j - n \in 1 .. Len(listing) - n /\ n + (j - n) = j
      BY <1>3, <1>9
    <3>2. rest[j - n] = listing[j]
      BY <3>1, <2>3
    <3> QED
      BY <3>1, <3>2, <2>5 DEF Range
  <2> QED
    BY <2>2, <2>4, <2>6, <2>7
<1> QED
  BY <1>1, <1>2, <1>3, <1>5, <1>6, <1>8, <1>9, <1>10 DEF claimed, listing, S

\* The entry a crawl comes to next.
LEMMA AdvanceTyped ==
    ASSUME CrawlsTyped, NEW v \in Volume, crawl[v] # None, crawl[v].rest # <<>>
    PROVE  LET p == Head(crawl[v].rest) IN
           /\ crawl[v] \in Crawl /\ checkpoint[v] \in Checkpoint
           /\ p \in Entry /\ p \in Range(crawl[v].rest)
           /\ Tail(crawl[v].rest) \in Seq(Entry)
           /\ Range(crawl[v].rest) \subseteq Range(Tail(crawl[v].rest)) \cup {p}
           /\ Range(Tail(crawl[v].rest)) \subseteq Range(crawl[v].rest)
<1> DEFINE s == crawl[v].rest
<1>1. crawl[v] \in Crawl /\ checkpoint[v] \in Checkpoint
  BY DEF CrawlsTyped
<1>2. s \in Seq(Entry)
  BY <1>1, CrawlMade
<1>h. s # <<>>
  OBVIOUS
<1> HIDE DEF s
<1>3. /\ Head(s) \in Entry /\ Tail(s) \in Seq(Entry) /\ Len(Tail(s)) = Len(s) - 1
      /\ \A i \in 1 .. Len(Tail(s)) : Tail(s)[i] = s[i + 1]
  BY <1>2, <1>h, HeadTailProperties
<1>4. Len(s) \in Nat \ {0} /\ DOMAIN s = 1 .. Len(s) /\ Head(s) = s[1]
  BY <1>2, <1>h, EmptySeq, LenProperties
<1>5. DOMAIN Tail(s) = 1 .. Len(s) - 1
  BY <1>3, LenProperties
<1>6. Head(s) \in Range(s)
  BY <1>4 DEF Range
<1>7. ASSUME NEW i \in DOMAIN s PROVE s[i] \in Range(Tail(s)) \cup {Head(s)}
  <2>1. CASE i = 1
    BY <2>1, <1>4
  <2>2. CASE i # 1
    <3>1. i - 1 \in 1 .. Len(s) - 1 /\ (i - 1) + 1 = i
      BY <2>2, <1>4
    <3>2. Tail(s)[i - 1] = s[i]
      BY <3>1, <1>3
    <3> QED
      BY <3>1, <3>2, <1>5 DEF Range
  <2> QED
    BY <2>1, <2>2
<1>8. ASSUME NEW i \in DOMAIN Tail(s) PROVE Tail(s)[i] \in Range(s)
  <2>1. i + 1 \in DOMAIN s /\ Tail(s)[i] = s[i + 1]
    BY <1>3, <1>4, <1>5
  <2> QED
    BY <2>1 DEF Range
<1> QED
  BY <1>1, <1>3, <1>6, <1>7, <1>8 DEF s, Range

\* Every step leaves crawls and checkpoints in their types.
LEMMA CrawlsTypedStep == TypeOK /\ [Next]_vars => CrawlsTyped'
<1> SUFFICES ASSUME TypeOK, [Next]_vars PROVE CrawlsTyped'
  OBVIOUS
<1> USE DEF files, memory, database, history, vars
<1>0. CrawlsTyped
  BY TypeParts
<1>a. ASSUME UNCHANGED <<crawl, checkpoint>> PROVE CrawlsTyped'
  BY <1>0, <1>a DEF CrawlsTyped
<1>b. ASSUME NEW v \in Volume, NEW k \in Checkpoint, NEW c \in Crawl,
             checkpoint' = [checkpoint EXCEPT ![v] = k],
             crawl' = [crawl EXCEPT ![v] = c]
      PROVE  CrawlsTyped'
  BY <1>0, <1>b, RecordsDiffer DEF CrawlsTyped
<1>c. ASSUME NEW v \in Volume, NEW k \in Checkpoint,
             checkpoint' = [checkpoint EXCEPT ![v] = k], crawl' = crawl
      PROVE  CrawlsTyped'
  BY <1>0, <1>c, RecordsDiffer DEF CrawlsTyped
<1>d. ASSUME NEW vs \in SUBSET Volume, NEW gone \in SUBSET Volume,
             checkpoint' = [w \in Volume |-> IF w \in vs THEN Fresh(w) ELSE checkpoint[w]],
             \A w \in Volume : crawl'[w] = IF w \in vs THEN Closed ELSE IF w \in gone THEN None ELSE crawl[w],
             crawl' = [w \in Volume |-> crawl'[w]]
      PROVE  CrawlsTyped'
  <2>1. \A w \in Volume : crawl'[w] \in Crawl \cup {None} /\ checkpoint'[w] \in Checkpoint \cup {None}
    BY <1>d, <1>0, CrawlMade, CheckpointMade DEF CrawlsTyped
  <2>2. \A w \in Volume : crawl'[w] # None => checkpoint'[w] # None
    BY <1>d, <1>0, CheckpointMade DEF CrawlsTyped
  <2> QED
    BY <2>1, <2>2, <1>d DEF CrawlsTyped
<1>1. ASSUME NEW p \in Entry, Change(p) PROVE CrawlsTyped'
  BY <1>1, <1>a DEF Change
<1>2. CASE ReadWatcher \/ Submit \/ Paused \/ Pop
  BY <1>2, <1>a DEF ReadWatcher, Submit, Paused, Pop
<1>3. ASSUME NEW v \in Volume, FallbackDue(v) PROVE CrawlsTyped'
  BY <1>3, <1>a DEF FallbackDue, RequestRescan
<1>4. ASSUME ProcessEvent PROVE CrawlsTyped'
  <2>1. PICK e \in batch :
            CASE e.kind = "RESCAN" -> StartCrawls(RescannedBy(e.volume)) /\ UNCHANGED catalog
              [] e.kind = "DELETED" ->
                  /\ catalog' = [catalog EXCEPT ![e.path] = 0]
                  /\ seen' = seen \ {e.path}
                  /\ UNCHANGED <<crawl, checkpoint, history>>
              [] OTHER -> WriteRow(e.path, e.volume) /\ UNCHANGED <<crawl, checkpoint, history>>
    BY <1>4 DEF ProcessEvent
  <2>2. e \in FileEvent
    BY TypeParts DEF StagesTyped
  <2>3. CASE e.kind = "RESCAN"
    <3> DEFINE vs == RescannedBy(e.volume)
    <3>1. StartCrawls(vs) /\ vs \in SUBSET Volume
      BY <2>1, <2>2, <2>3, EventFacts, RescanIsNoChange DEF RescannedBy
    <3>2. /\ checkpoint' = [w \in Volume |-> IF w \in vs THEN Fresh(w) ELSE checkpoint[w]]
          /\ crawl' = [w \in Volume |-> IF w \in vs THEN Closed ELSE crawl[w]]
      BY <3>1 DEF StartCrawls
    <3> QED
      BY <3>1, <3>2, <1>d
  <2>4. CASE e.kind # "RESCAN"
    BY <2>1, <2>4, <1>a
  <2> QED
    BY <2>3, <2>4
<1>5. ASSUME EventFails PROVE CrawlsTyped'
  <2>1. \/ UNCHANGED <<crawl, checkpoint>>
        \/ \E e \in batch : e.kind = "RESCAN" /\
             \E v \in RescannedBy(e.volume) : \E vs \in SUBSET (RescannedBy(e.volume) \ {v}) :
               /\ checkpoint' = [w \in Volume |-> IF w \in vs THEN Fresh(w) ELSE checkpoint[w]]
               /\ crawl' = [w \in Volume |-> CASE w \in vs -> Closed [] w = v -> None [] OTHER -> crawl[w]]
    BY <1>5 DEF EventFails
  <2>2. CASE UNCHANGED <<crawl, checkpoint>>
    BY <2>2, <1>a
  <2>3. ASSUME NEW e \in batch, e.kind = "RESCAN", NEW v \in RescannedBy(e.volume),
               NEW vs \in SUBSET (RescannedBy(e.volume) \ {v}),
               checkpoint' = [w \in Volume |-> IF w \in vs THEN Fresh(w) ELSE checkpoint[w]],
               crawl' = [w \in Volume |-> CASE w \in vs -> Closed [] w = v -> None [] OTHER -> crawl[w]]
        PROVE  CrawlsTyped'
    <3>1. RescannedBy(e.volume) \subseteq Volume
      <4>1. e \in FileEvent
        BY TypeParts DEF StagesTyped
      <4> QED
        BY <4>1, <2>3, EventFacts, RescanIsNoChange DEF RescannedBy
    <3>2. vs \in SUBSET Volume /\ {v} \in SUBSET Volume /\ v \notin vs
      BY <3>1
    <3>3. \A w \in Volume : crawl'[w] = IF w \in vs THEN Closed ELSE IF w \in {v} THEN None ELSE crawl[w]
      BY <2>3, <3>2
    <3>4. crawl' = [w \in Volume |-> crawl'[w]]
      BY <2>3
    <3> QED
      BY <2>3, <3>2, <3>3, <3>4, <1>d
  <2> QED
    BY <2>1, <2>2, <2>3
<1>6. ASSUME NEW v \in Volume, Claim(v) PROVE CrawlsTyped'
  <2>1. PICK f \in NextFolder(checkpoint[v]) :
         LET claimed == Claimed(checkpoint[v], f)
             listing == Listing[Content(f)]
         IN  \/ /\ claimed.offset > Len(listing)
                /\ checkpoint' = [checkpoint EXCEPT ![v] = CompleteDirectory(claimed)]
                /\ UNCHANGED crawl
             \/ /\ ~(claimed.offset > Len(listing))
                /\ checkpoint' = [checkpoint EXCEPT ![v] = claimed]
                /\ crawl' = [crawl EXCEPT ![v] =
                            [dir |-> f, offset |-> claimed.offset,
                             rest |-> SubSeq(listing, claimed.offset + 1, Len(listing))]]
             \/ /\ checkpoint' = [checkpoint EXCEPT ![v] = CompleteDirectory(Protect(claimed, f))]
                /\ UNCHANGED crawl
    BY <1>6 DEF Claim
  <2> DEFINE claimed == Claimed(checkpoint[v], f)
             listing == Listing[Content(f)]
             rest == SubSeq(listing, claimed.offset + 1, Len(listing))
  <2>2. /\ f \in Folder /\ claimed \in Checkpoint /\ claimed.offset \in Nat /\ Len(listing) \in Nat
        /\ claimed.offset <= Len(listing) => rest \in Seq(Entry)
    BY <1>0, <1>6, ClaimTyped
  <2>3. CompleteDirectory(claimed) \in Checkpoint /\ CompleteDirectory(Protect(claimed, f)) \in Checkpoint
    BY <2>2, CheckpointMade
  <2>4. ~(claimed.offset > Len(listing)) =>
            [dir |-> f, offset |-> claimed.offset, rest |-> rest] \in Crawl
    <3>1. ~(claimed.offset > Len(listing)) => claimed.offset <= Len(listing)
      BY <2>2
    <3> HIDE DEF claimed, rest
    <3> QED
      BY <3>1, <2>2, CrawlMade
  <2> QED
    BY <2>1, <2>2, <2>3, <2>4, <1>b, <1>c
<1>7. ASSUME NEW v \in Volume, Exhausted(v) PROVE CrawlsTyped'
  <2>1. checkpoint[v] \in Checkpoint
    BY <1>7, <1>0 DEF Exhausted, Crawling, CrawlsTyped
  <2>2. CompleteDirectory(checkpoint[v]) \in Checkpoint
    BY <2>1, CheckpointMade DEF Folder
  <2>3. /\ checkpoint' = [checkpoint EXCEPT ![v] = CompleteDirectory(checkpoint[v])]
        /\ crawl' = [crawl EXCEPT ![v] = Closed]
    BY <1>7 DEF Exhausted
  <2> QED
    BY <2>2, <2>3, <1>b, CrawlMade
<1>8. ASSUME NEW v \in Volume, Visit(v) \/ VisitFails(v) PROVE CrawlsTyped'
  <2>1. Advance(v) /\ crawl[v] # None /\ crawl[v].rest # <<>>
    BY <1>8 DEF Visit, VisitFails, Advance, Crawling
  <2> DEFINE p == Head(crawl[v].rest)
             c == [crawl[v] EXCEPT !.rest = Tail(crawl[v].rest), !.offset = crawl[v].offset + 1]
  <2>2. crawl[v] \in Crawl /\ checkpoint[v] \in Checkpoint /\ p \in Entry /\ Tail(crawl[v].rest) \in Seq(Entry)
    BY <2>1, <1>0, AdvanceTyped
  <2>3. crawl' = [crawl EXCEPT ![v] = c]
    BY <2>1 DEF Advance
  <2>4. c \in Crawl
    <3>1. crawl[v].offset \in Nat
      BY <2>2, CrawlMade
    <3>2. crawl[v].offset + 1 \in Nat
      BY <3>1
    <3> QED
      BY <3>2, <2>2, CrawlMade
  <2> HIDE DEF c
  <2>5. CASE VisitFails(v)
    <3>1. checkpoint' = [checkpoint EXCEPT ![v] = Protect(checkpoint[v], p)]
      BY <2>5 DEF VisitFails
    <3> QED
      BY <3>1, <2>2, <2>3, <2>4, <1>b, CheckpointMade
  <2>6. CASE Visit(v)
    <3>1. checkpoint' = IF p \in Dir
              THEN [checkpoint EXCEPT ![v] = [checkpoint[v] EXCEPT !.pending = checkpoint[v].pending \cup {p}]]
              ELSE checkpoint
      BY <2>6 DEF Visit
    <3>2. CASE p \in Dir
      <4>1. [checkpoint[v] EXCEPT !.pending = checkpoint[v].pending \cup {p}] \in Checkpoint
        BY <2>2, <3>2, CheckpointMade DEF Folder
      <4> QED
        BY <3>1, <3>2, <4>1, <2>3, <2>4, <1>b
    <3>3. CASE p \notin Dir
      <4>1. checkpoint' = [checkpoint EXCEPT ![v] = checkpoint[v]]
        BY <3>1, <3>3, <1>0 DEF CrawlsTyped
      <4> QED
        BY <4>1, <2>2, <2>3, <2>4, <1>b
    <3> QED
      BY <3>2, <3>3
  <2> QED
    BY <1>8, <2>5, <2>6
<1>9. ASSUME NEW v \in Volume, Finish(v) PROVE CrawlsTyped'
  BY <1>0, <1>9 DEF Finish, CrawlsTyped
<1>10. ASSUME EndBatch PROVE CrawlsTyped'
  <2>1. /\ crawl' = crawl
        /\ checkpoint' = [v \in Volume |-> IF crawl[v] # None /\ IsOpen(v)
                            THEN [checkpoint[v] EXCEPT !.offset = crawl[v].offset] ELSE checkpoint[v]]
    BY <1>10 DEF EndBatch
  <2>2. ASSUME NEW v \in Volume
        PROVE  checkpoint'[v] \in Checkpoint \cup {None} /\ (crawl[v] # None => checkpoint'[v] # None)
    <3>1. CASE crawl[v] # None /\ IsOpen(v)
      <4>1. crawl[v] \in Crawl /\ checkpoint[v] \in Checkpoint
        BY <3>1, <1>0 DEF CrawlsTyped
      <4>2. [checkpoint[v] EXCEPT !.offset = crawl[v].offset] \in Checkpoint
        BY <4>1, CrawlMade, CheckpointMade DEF Folder
      <4> QED
        BY <3>1, <4>2, <2>1, RecordsDiffer
    <3>2. CASE ~(crawl[v] # None /\ IsOpen(v))
      BY <3>2, <2>1, <1>0 DEF CrawlsTyped
    <3> QED
      BY <3>1, <3>2
  <2> QED
    BY <2>1, <2>2, <1>0 DEF CrawlsTyped
<1>11. ASSUME NEW doubtful, LoseMemory(doubtful), UNCHANGED checkpoint PROVE CrawlsTyped'
  BY <1>0, <1>11 DEF LoseMemory, CrawlsTyped
<1>12. ASSUME Restart PROVE CrawlsTyped'
  BY <1>0, <1>12, CrawlMade DEF Restart, CrawlsTyped
<1>13. CASE UNCHANGED vars
  BY <1>13, <1>a
<1> QED
  BY <1>1, <1>2, <1>3, <1>4, <1>5, <1>6, <1>7, <1>8, <1>9, <1>10, <1>11, <1>12, <1>13
  DEF Next, CrawlStep, Crash, CrashInVisit, CrashInFinish

\* Every step leaves the sets of volumes and entries, and the bound, in their
\* types.
LEMMA RestTypedStep == TypeOK /\ [Next]_vars => RestTyped'
<1> SUFFICES ASSUME TypeOK, [Next]_vars PROVE RestTyped'
  OBVIOUS
<1> USE DEF files, memory, database, history, vars
<1> DEFINE Pcs == {"down", "start", "poll", "submit", "pop", "batch"}
           SetsOK == /\ required \cup completed \cup fallback \cup torn \cup requested \subseteq Volume
                     /\ missed \cup kept \cup passed \subseteq Entry
<1>0. RestTyped /\ CrawlsTyped /\ StagesTyped /\ RowsTyped
  BY TypeParts
<1>1. trouble' \in 0 .. MaxTrouble
  <2>1. trouble' = trouble \/ Trouble
    <3>1. ASSUME NEW v \in Volume, CrawlStep(v) PROVE trouble' = trouble \/ Trouble
      BY <3>1 DEF CrawlStep, Claim, Exhausted, Visit, VisitFails, Finish
    <3> QED
      BY <3>1 DEF Next, Change, ReadWatcher, Submit, FallbackDue, Paused, Pop, ProcessEvent, EventFails,
                  EndBatch, Crash, Restart, CrashInVisit, CrashInFinish
  <2> QED
    BY <2>1, <1>0, Bounds DEF RestTyped, Trouble
<1>2. pc' \in Pcs
  <2>1. pc' = pc \/ pc' \in Pcs
    <3>1. ASSUME NEW v \in Volume, CrawlStep(v) PROVE pc' = pc
      BY <3>1 DEF CrawlStep, Claim, Exhausted, Visit, VisitFails, Advance, Finish
    <3> QED
      BY <3>1 DEF Next, Change, ReadWatcher, Submit, FallbackDue, Paused, Pop, ProcessEvent, EventFails,
                  EndBatch, Crash, Restart, CrashInVisit, CrashInFinish, LoseMemory
  <2> QED
    BY <2>1, <1>0 DEF RestTyped
<1>3. SetsOK'
  <2>0. SetsOK
    BY <1>0 DEF RestTyped
  <2>a. ASSUME UNCHANGED <<required, completed, fallback, requested, history>> PROVE SetsOK'
    BY <2>0, <2>a
  <2>e. \A e \in batch : e.kind = "RESCAN" => RescannedBy(e.volume) \subseteq Volume
    BY <1>0, EventFacts, RescanIsNoChange DEF StagesTyped, RescannedBy
  <2>f. \A e \in batch : e.kind # "RESCAN" => e.path \in Entry
    BY <1>0, EventFacts DEF StagesTyped
  <2>1. ASSUME NEW p \in Entry, Change(p) PROVE SetsOK'
    <3>1. UNCHANGED <<required, completed, fallback, requested, kept, passed>>
          /\ torn' \subseteq torn \cup {VolumeOf(p)} /\ missed' \subseteq missed \cup {p}
      BY <2>1 DEF Change
    <3> QED
      BY <3>1, <2>0, TreeFacts
  <2>2. CASE ReadWatcher \/ Submit \/ Paused \/ Pop \/ EndBatch
    BY <2>2, <2>a DEF ReadWatcher, Submit, Paused, Pop, EndBatch
  <2>3. ASSUME NEW v \in Volume, FallbackDue(v) PROVE SetsOK'
    BY <2>3, <2>0 DEF FallbackDue, RequestRescan
  <2>4. CASE ProcessEvent
    <3>1. PICK e \in batch : \/ e.kind = "RESCAN" /\ StartCrawls(RescannedBy(e.volume))
                             \/ UNCHANGED history
      BY <2>4 DEF ProcessEvent
    <3>2. UNCHANGED <<required, completed, fallback, kept>>
      BY <2>4 DEF ProcessEvent
    <3>3. missed' \subseteq missed /\ passed' \subseteq passed /\ torn' \subseteq torn
          /\ requested' \subseteq requested
      BY <3>1 DEF StartCrawls, StillMissed
    <3> QED
      BY <3>2, <3>3, <2>0
  <2>5. CASE EventFails
    <3>1. UNCHANGED <<required, completed, fallback, kept>>
      BY <2>5 DEF EventFails
    <3>2. PICK e \in batch :
            /\ passed' \subseteq passed
            /\ \/ /\ e.kind = "RESCAN" /\ missed' \subseteq missed /\ requested' \subseteq requested
                  /\ torn' \subseteq torn \cup RescannedBy(e.volume)
               \/ e.kind # "RESCAN" /\ missed' = missed \cup {e.path} /\ UNCHANGED <<torn, requested>>
      BY <2>5 DEF EventFails, StillMissed
    <3> QED
      BY <3>1, <3>2, <2>0, <2>e, <2>f
  <2>6. ASSUME NEW v \in Volume, CrawlStep(v) PROVE SetsOK'
    <3>1. CASE Claim(v) \/ Exhausted(v)
      <4>1. UNCHANGED <<required, completed, fallback, requested, missed, kept, passed>>
            /\ torn' \subseteq torn \cup {v}
        BY <3>1 DEF Claim, Exhausted
      <4> QED
        BY <4>1, <2>0
    <3>2. CASE Visit(v) \/ VisitFails(v)
      <4>1. Advance(v) /\ crawl[v] # None /\ crawl[v].rest # <<>>
        BY <3>2 DEF Visit, VisitFails, Advance, Crawling
      <4>2. Head(crawl[v].rest) \in Entry
        BY <4>1, <1>0, AdvanceTyped
      <4> QED
        BY <4>1, <4>2, <2>0 DEF Advance
    <3>3. CASE Finish(v)
      <4>1. Protected(v) \subseteq Entry
        BY DEF Protected, InVolume, Entries, Under
      <4> QED
        BY <4>1, <3>3, <2>0 DEF Finish
    <3> QED
      BY <3>1, <3>2, <3>3, <2>6 DEF CrawlStep
  <2>7. ASSUME NEW doubtful \in SUBSET Volume, LoseMemory(doubtful) PROVE SetsOK'
    BY <2>0, <2>7 DEF LoseMemory
  <2>8. CASE Restart
    BY <2>0, <2>8 DEF Restart
  <2>9. CASE UNCHANGED vars
    BY <2>9, <2>a
  <2>10. ASSUME NEW v \in Volume, CrashInVisit(v) \/ CrashInFinish(v) PROVE SetsOK'
    BY <2>7, <2>10 DEF CrashInVisit, CrashInFinish
  <2>11. CASE Crash
    BY <2>7, <2>11 DEF Crash
  <2> QED
    BY <2>1, <2>2, <2>3, <2>4, <2>5, <2>6, <2>8, <2>9, <2>10, <2>11 DEF Next
<1> QED
  BY <1>1, <1>2, <1>3 DEF RestTyped

\* Every step leaves the pipeline empty where the program counter says so.
LEMMA StagesOKStep == TypeOK /\ StagesOK /\ [Next]_vars => StagesOK'
<1> SUFFICES ASSUME TypeOK, StagesOK, [Next]_vars PROVE StagesOK'
  OBVIOUS
<1> USE DEF files, memory, database, history, vars
<1>0. incoming \in Seq(SUBSET FileEvent) /\ crawl \in [Volume -> Crawl \cup {None}]
  BY DEF TypeOK
<1>a. ASSUME pc # "down", pc' = pc, incoming' = incoming, pc # "batch" => batch' = batch
      PROVE  StagesOK'
  BY <1>a DEF StagesOK
<1>1. ASSUME NEW p \in Entry, Change(p) PROVE StagesOK'
  <2>1. UNCHANGED <<pc, incoming, batch, queue, paths, crawl>>
    BY <1>1 DEF Change
  <2>2. pc = "down" => watches' = watches /\ records' = records
    BY <1>1 DEF Change, StagesOK
  <2> QED
    BY <2>1, <2>2 DEF StagesOK
<1>2. CASE ReadWatcher
  <2>1. incoming' = <<>> <=> records = <<>>
    BY <1>2, ReadTyped
  <2> QED
    BY <1>2, <2>1 DEF StagesOK, ReadWatcher
<1>3. CASE Submit
  BY <1>3 DEF StagesOK, Submit
<1>4. ASSUME NEW v \in Volume, FallbackDue(v) PROVE StagesOK'
  BY <1>4, <1>a DEF FallbackDue, RequestRescan
<1>5. CASE Paused \/ Pop \/ EndBatch
  BY <1>5 DEF StagesOK, Paused, Pop, EndBatch
<1>6. CASE ProcessEvent \/ EventFails
  BY <1>6, <1>a DEF ProcessEvent, EventFails
<1>7. ASSUME NEW v \in Volume, CrawlStep(v) PROVE StagesOK'
  BY <1>7, <1>a DEF CrawlStep, Claim, Exhausted, Visit, VisitFails, Advance, Finish, Crawling, AllClaimed
<1>8. ASSUME NEW doubtful, LoseMemory(doubtful) PROVE StagesOK'
  BY <1>8 DEF LoseMemory, StagesOK
<1>9. CASE Restart
  BY <1>9 DEF Restart, StagesOK
<1>10. CASE UNCHANGED vars
  BY <1>10 DEF StagesOK
<1> QED
  BY <1>1, <1>2, <1>3, <1>4, <1>5, <1>6, <1>7, <1>8, <1>9, <1>10
  DEF Next, Crash, CrashInVisit, CrashInFinish

\* Every step leaves a directory above whatever exists or is watched.
LEMMA TreesOKStep == TypeOK /\ TreesOK /\ [Next]_vars => TreesOK'
<1> SUFFICES ASSUME TypeOK, TreesOK, [Next]_vars PROVE TreesOK'
  OBVIOUS
<1> USE DEF files, memory, database, history, vars
<1>a. ASSUME UNCHANGED <<disk, paths>> PROVE TreesOK'
  BY <1>a DEF TreesOK, Exists
<1>b. ASSUME disk' = disk, TopDown(paths') PROVE TreesOK'
  BY <1>b DEF TreesOK, Exists
<1>1. ASSUME NEW p \in Entry, Change(p) PROVE TreesOK'
  <2>1. PICK new \in Versions(p) : disk' = [disk EXCEPT ![p] = new]
    BY <1>1 DEF Change
  <2>2. paths' = paths
    BY <1>1 DEF Change
  <2>3. ASSUME NEW q \in Entry, disk'[q] # 0, NEW f \in Above[q] PROVE Exists(f, disk)'
    <3>0. disk \in [Entry -> 0 .. 2]
      BY DEF TypeOK
    <3>1. SUFFICES ASSUME f \in Entry PROVE disk'[f] # 0
      BY DEF Exists
    <3>2. CASE q = p /\ disk[p] # 0
      <4>1. f # p /\ disk[f] # 0
        BY <3>2, <2>3, <3>1, TreeAssumption DEF TreesOK, Exists
      <4> QED
        BY <4>1, <2>1, <3>0
    <3>3. CASE q = p /\ disk[p] = 0
      <4>1. new # 0
        BY <3>3, <2>1, <2>3, <3>0
      <4>2. Exists(Parent[p], disk)
        BY <4>1, <3>3, <2>1 DEF Versions
      <4>3. f = Parent[p] \/ (Parent[p] \in Entry /\ f \in Above[Parent[p]])
        BY <3>3, <2>3, TreeAssumption
      <4>4. disk[f] # 0
        BY <4>2, <4>3, <3>1 DEF Exists, TreesOK
      <4> QED
        BY <4>4, <3>3, <2>1, <3>0
    <3>4. CASE q # p
      <4>1. disk[q] # 0 /\ disk[f] # 0
        BY <3>4, <2>1, <2>3, <3>0, <3>1 DEF TreesOK, Exists
      <4>2. CASE f # p
        BY <4>1, <4>2, <2>1, <3>0
      <4>3. CASE f = p
        <5>1. PICK c \in {q} \cup Above[q] : c \in Entry /\ Parent[c] = p
          BY <4>3, <2>3, TreeAssumption
        <5>2. disk[c] # 0
          BY <5>1, <4>1 DEF TreesOK, Exists
        <5>3. new # 0
          BY <5>1, <5>2, <4>1, <4>3, <2>1, <3>0 DEF Versions
        <5> QED
          BY <5>3, <4>3, <2>1, <3>0
      <4> QED
        BY <4>2, <4>3
    <3> QED
      BY <3>2, <3>3, <3>4
  <2> QED
    BY <2>2, <2>3 DEF TreesOK, TopDown
<1>2. CASE ReadWatcher
  BY <1>2, <1>b DEF ReadWatcher
<1>3. CASE Submit \/ Paused \/ Pop \/ EndBatch \/ ProcessEvent \/ EventFails
  BY <1>3, <1>a DEF Submit, Paused, Pop, EndBatch, ProcessEvent, EventFails
<1>4. ASSUME NEW v \in Volume, FallbackDue(v) PROVE TreesOK'
  BY <1>4, <1>a DEF FallbackDue, RequestRescan
<1>5. ASSUME NEW v \in Volume, CrawlStep(v) PROVE TreesOK'
  BY <1>5, <1>a DEF CrawlStep, Claim, Exhausted, Visit, VisitFails, Advance, Finish
<1>6. ASSUME NEW doubtful, LoseMemory(doubtful) PROVE TreesOK'
  BY <1>6, <1>b DEF LoseMemory, TopDown
<1>7. CASE Restart
  BY <1>7, <1>b DEF Restart
<1>8. CASE UNCHANGED vars
  BY <1>8, <1>a
<1> QED
  BY <1>1, <1>2, <1>3, <1>4, <1>5, <1>6, <1>7, <1>8 DEF Next, Crash, CrashInVisit, CrashInFinish

\* Every step keeps the shape of the state.
LEMMA ShapeStep == ShapeInv /\ [Next]_vars => ShapeInv'
<1> SUFFICES ASSUME ShapeInv, [Next]_vars PROVE ShapeInv'
  OBVIOUS
<1>1. RowsTyped' /\ WatcherTyped' /\ StagesGood' /\ CrawlsTyped' /\ RestTyped'
  BY RowsTypedStep, WatcherTypedStep, StagesTypedStep, CrawlsTypedStep, RestTypedStep DEF ShapeInv
<1>2. TypeOK'
  <2>1. StagesTyped'
    BY <1>1 DEF StagesGood
  <2> QED
    BY <1>1, <2>1 DEF TypeOK, RowsTyped, WatcherTyped, StagesTyped, CrawlsTyped, RestTyped
<1>3. QueuesOK'
  BY <1>1, WatcherTypedStep DEF ShapeInv, QueuesOK, StagesGood
<1> QED
  BY <1>2, <1>3, StagesOKStep, TreesOKStep DEF ShapeInv

\* What a sequence of sets of events covers, one of them covers.
LEMMA CoveredAt ==
    ASSUME NEW s, NEW p \in Entry
    PROVE  p \in Covered(UNION Range(s)) <=> \E j \in DOMAIN s : p \in Covered(s[j])
  BY DEF Covered, Range

\* A change that is reported is in the kernel's queue, and what was there stays.
LEMMA ReportedGrows ==
    ASSUME ShapeInv, NEW p \in Entry, NEW k \in FileKind, {p, Parent[p]} \cap watches # {},
           records' = Report(p, k), paths' = paths
    PROVE  /\ p \in Reported' /\ Reported \subseteq Reported'
           /\ DOMAIN records \subseteq DOMAIN records' /\ \A i \in DOMAIN records : records'[i] = records[i]
           /\ \E j \in DOMAIN records' :
                /\ p \in Reports(records'[j])
                /\ \A i \in DOMAIN records' : i = j \/ (i < j /\ i \in DOMAIN records)
                /\ records'[j] \in {Overflow, [path |-> p, kind |-> k]}
<1>1. records \in Seq(Record) /\ Len(records) \in Nat /\ DOMAIN records = 1 .. Len(records)
  BY LenProperties DEF ShapeInv, TypeOK
<1>2. WatcherTyped /\ (Len(records) = MaxRecords + 1 => records[MaxRecords + 1] = Overflow)
  BY TypeParts DEF ShapeInv, QueuesOK
<1> DEFINE new == Report(p, k)
<1>3. /\ new \in Seq(Record) /\ Len(new) \in Len(records) .. MaxRecords + 1
      /\ Len(new) = MaxRecords + 1 => new[MaxRecords + 1] = Overflow
      /\ \A i \in 1 .. Len(records) : new[i] = records[i]
      /\ Len(new) \in {Len(records), Len(records) + 1}
      /\ Len(new) > 0 /\ new[Len(new)] \in {Overflow, [path |-> p, kind |-> k]}
      /\ Len(new) = Len(records) => new = records /\ Len(new) = MaxRecords + 1
  BY <1>2, ReportTyped
<1> HIDE DEF new
<1>4. Len(new) \in Nat /\ DOMAIN new = 1 .. Len(new)
  BY <1>3, LenProperties
<1>5. PICK m \in Nat, n \in Nat : m = Len(records) /\ n = Len(new) /\ n \in {m, m + 1} /\ n > 0
  BY <1>1, <1>3, <1>4
<1>6. VolumeOf(p) \in paths
  <2>1. PICK g \in {p, Parent[p]} : g \in watches
    OBVIOUS
  <2>2. g \in paths /\ VolumeOf(p) \in Above[p] /\ VolumeOf(p) \in Volume
    BY <2>1, TreeFacts DEF ShapeInv, TypeOK
  <2>3. CASE g = p
    BY <2>2, <2>3 DEF ShapeInv, TreesOK, TopDown
  <2>4. CASE g = Parent[p] /\ g \notin Entry
    BY <2>2, <2>4, TreeAssumption
  <2>5. CASE g = Parent[p] /\ g \in Entry
    <3>1. VolumeOf(p) \in Above[g]
      BY <2>2, <2>5, TreeAssumption
    <3> QED
      BY <2>2, <2>5, <3>1 DEF ShapeInv, TreesOK, TopDown
  <2> QED
    BY <2>1, <2>3, <2>4, <2>5
<1>7. \A r : Reports(r)' = Reports(r)
  BY DEF Reports
<1>8. p \in Reports(new[Len(new)])
  <2>1. CASE new[Len(new)] = Overflow
    BY <2>1, <1>6 DEF Reports
  <2>2. CASE new[Len(new)] = [path |-> p, kind |-> k]
    BY <2>2 DEF Reports
  <2> QED
    BY <2>1, <2>2, <1>3
<1>9. records' = new
  BY DEF new
<1>16. DOMAIN new = 1 .. n /\ DOMAIN records = 1 .. m
  BY <1>1, <1>4, <1>5, Zenon
<1>10. DOMAIN records \subseteq DOMAIN new /\ \A i \in DOMAIN records : new[i] = records[i]
  <2>1. 1 .. m \subseteq 1 .. n
    BY <1>5
  <2> QED
    BY <2>1, <1>1, <1>3, <1>16
<1>11. n \in DOMAIN new
  <2>1. n \in 1 .. n
    BY <1>5
  <2> QED
    BY <2>1, <1>16
<1>12. \A i \in DOMAIN new : i = n \/ (i < n /\ i \in DOMAIN records)
  <2>1. \A i \in 1 .. n : i = n \/ (i < n /\ i \in 1 .. m)
    BY <1>5
  <2> QED
    BY <2>1, <1>16
<1>13. new[n] \in {Overflow, [path |-> p, kind |-> k]}
  BY <1>3, <1>5
<1>14. Reported \subseteq Reported' /\ p \in Reported'
  <2>1. Reported' = UNION {Reports(new[i]) : i \in DOMAIN new}
    BY <1>7, <1>9 DEF Reported
  <2>2. Reported \subseteq UNION {Reports(new[i]) : i \in DOMAIN new}
    BY <1>10 DEF Reported
  <2> QED
    BY <2>1, <2>2, <1>5, <1>8, <1>11
<1>15. p \in Reports(records'[n])
  BY <1>5, <1>7, <1>8, <1>9
<1> QED
  BY <1>9, <1>10, <1>11, <1>12, <1>13, <1>14, <1>15

\* What was reported is read.
LEMMA ReadKeeps ==
    ASSUME ShapeInv, ReadWatcher
    PROVE  /\ DOMAIN incoming' = DOMAIN records
           /\ \A i \in DOMAIN records : Reports(records[i]) \subseteq Covered(incoming'[i])
           /\ \A i \in DOMAIN records, p \in Entry :
                FileChange(p, "DELETED") \in incoming'[i] =>
                    records[i] = [path |-> p, kind |-> "DELETED"]
           /\ Reported \subseteq Covered(UNION Range(incoming'))
<1>1. PICK failing \in SUBSET Dir : incoming' = [i \in DOMAIN records |-> Decode(records[i], failing)]
  BY DEF ReadWatcher, NewDirectories
<1>2. \A i \in DOMAIN records : records[i] \in Record
  BY LenProperties, ElementOfSeq DEF ShapeInv, TypeOK
<1>3. ASSUME NEW i \in DOMAIN records PROVE Reports(records[i]) \subseteq Covered(Decode(records[i], failing))
  <2> DEFINE r == records[i]
  <2>1. CASE r = Overflow
    <3> SUFFICES ASSUME NEW p \in Entry, p \in Reports(r) PROVE p \in Covered(Decode(r, failing))
      BY DEF Reports
    <3>1. VolumeOf(p) \in paths /\ VolumeOf(p) \in Volume
      BY <2>1, TreeFacts, NamesAssumption DEF Reports, Overflow
    <3>2. Rescan(VolumeOf(p)) \in Decode(r, failing)
      BY <2>1, <3>1 DEF Decode
    <3>3. p \in Covered({Rescan(VolumeOf(p))})
      BY <3>1, CoveredFacts DEF Entries
    <3> QED
      BY <3>2, <3>3, CoveredBy
  <2>2. CASE r # Overflow
    <3>1. r.path \in Entry /\ r.kind \in FileKind
      BY <2>2, <1>2, RecordsDiffer
    <3>2. Reports(r) = {r.path}
      BY <2>2, <3>1 DEF Reports
    <3>3. FileChange(r.path, r.kind) \in Decode(r, failing)
      BY <2>2 DEF Decode
    <3>4. Covered({FileChange(r.path, r.kind)}) = {r.path}
      BY <3>1, CoveredFacts
    <3> QED
      BY <3>2, <3>3, <3>4, CoveredBy
  <2> QED
    BY <2>1, <2>2
<1>4. ASSUME NEW i \in DOMAIN records, NEW p \in Entry, FileChange(p, "DELETED") \in Decode(records[i], failing)
      PROVE  records[i] = [path |-> p, kind |-> "DELETED"]
  <2> DEFINE r == records[i]
  <2>0. \A v : FileChange(p, "DELETED") # Rescan(v)
    BY DEF FileChange, Rescan
  <2>1. r # Overflow
    BY <1>4, <2>0 DEF Decode
  <2>2. FileChange(p, "DELETED") = FileChange(r.path, r.kind)
    BY <2>0, <2>1, <1>4 DEF Decode
  <2>3. r.path = p /\ r.kind = "DELETED"
    BY <2>2 DEF FileChange
  <2>4. r \in [path : Entry, kind : FileKind]
    BY <2>1, <1>2 DEF Record
  <2> QED
    BY <2>3, <2>4
<1>5. Reported \subseteq Covered(UNION Range(incoming'))
  <2> SUFFICES ASSUME NEW p \in Entry, p \in Reported PROVE p \in Covered(UNION Range(incoming'))
    BY DEF Reported, Reports
  <2>1. PICK i \in DOMAIN records : p \in Reports(records[i])
    BY DEF Reported
  <2>2. i \in DOMAIN incoming' /\ p \in Covered(incoming'[i])
    BY <2>1, <1>1, <1>3
  <2> QED
    BY <2>2, CoveredAt
<1> QED
  BY <1>1, <1>3, <1>4, <1>5

\* What was to be put is in the queue or still to be put.
LEMMA SubmitKeeps ==
    ASSUME ShapeInv, Submit
    PROVE  Covered(UNION Range(incoming)) \cup Covered(queue)
              \subseteq Covered(UNION Range(incoming')) \cup Covered(queue')
<1>1. PICK e \in Head(incoming), s \in {0, 1} :
            /\ queue' = Put(queue, e)
            /\ e \in FileEvent /\ e # Rescan(All) /\ Head(incoming) = incoming[1] /\ 1 \in DOMAIN incoming
            /\ DOMAIN incoming \subseteq Nat \ {0}
            /\ \A j \in DOMAIN incoming :
                  j > 1 => j - s \in DOMAIN incoming' /\ incoming'[j - s] = incoming[j]
            /\ s = 0 => 1 \in DOMAIN incoming' /\ incoming[1] \subseteq incoming'[1] \cup {e}
            /\ s = 1 => incoming[1] = {e}
  BY SubmitTyped DEF ShapeInv, TypeOK, QueuesOK
<1>2. Covered(queue) \cup Covered({e}) \subseteq Covered(queue')
  BY <1>1, PutFacts DEF ShapeInv, QueuesOK
<1>3. ASSUME NEW p \in Entry, NEW j \in DOMAIN incoming, p \in Covered(incoming[j])
      PROVE  p \in Covered(UNION Range(incoming')) \cup Covered({e})
  <2>1. CASE j > 1
    BY <2>1, <1>1, <1>3, CoveredAt
  <2>2. CASE j = 1 /\ s = 1
    BY <2>2, <1>1, <1>3
  <2>3. CASE j = 1 /\ s = 0
    <3>1. 1 \in DOMAIN incoming' /\ incoming[1] \subseteq incoming'[1] \cup {e}
      BY <2>3, <1>1
    <3>2. Covered(incoming[1]) \subseteq Covered(incoming'[1] \cup {e})
      BY <3>1, CoveredFacts
    <3>3. Covered(incoming'[1] \cup {e}) = Covered(incoming'[1]) \cup Covered({e})
      BY CoveredFacts
    <3> QED
      BY <3>1, <3>2, <3>3, <2>3, <1>3, CoveredAt
  <2>4. j > 1 \/ j = 1
    BY <1>1
  <2> QED
    BY <2>1, <2>2, <2>3, <2>4
<1>4. Covered(UNION Range(incoming)) \subseteq Covered(UNION Range(incoming')) \cup Covered({e})
  <2>1. Covered(UNION Range(incoming)) \subseteq Entry
    BY DEF Covered
  <2> QED
    BY <2>1, <1>3, CoveredAt
<1> QED
  BY <1>2, <1>4

\* Where the stages stay, so does what is awaited.
LEMMA AwaitedSame ==
    ASSUME UNCHANGED <<records, paths, incoming, queue>>
    PROVE  /\ Reported' = Reported
           /\ Covered(UNION Range(incoming))' = Covered(UNION Range(incoming))
           /\ Covered(queue)' = Covered(queue)
           /\ batch' = batch => Awaited' = Awaited
           /\ \A e : batch' = batch \ {e} => Awaited \subseteq Awaited' \cup Covered({e})
<1>1. Reported' = Reported
  BY DEF Reported, Reports
<1>2. Covered(UNION Range(incoming))' = Covered(UNION Range(incoming)) /\ Covered(queue)' = Covered(queue)
  OBVIOUS
<1>3. batch' = batch => Awaited' = Awaited
  BY <1>1, <1>2 DEF Awaited
<1>4. ASSUME NEW e, batch' = batch \ {e} PROVE Awaited \subseteq Awaited' \cup Covered({e})
  <2>1. batch \subseteq batch' \cup {e}
    BY <1>4
  <2>3. Covered(batch) \subseteq Covered(batch' \cup {e})
    BY <2>1, CoveredFacts
  <2>2. Covered(batch' \cup {e}) = Covered(batch') \cup Covered({e})
    BY CoveredFacts
  <2> QED
    BY <1>1, <1>2, <2>2, <2>3 DEF Awaited
<1> QED
  BY <1>1, <1>2, <1>3, <1>4

\* What waits in front of the batch stays awaited, unless the process dies.
Waiting == Reported \cup Covered(UNION Range(incoming)) \cup Covered(queue)

\* Every step but a crash keeps what waits awaited, and only the end of a batch
\* event is the end of what was awaited.
LEMMA AwaitedStep ==
    ASSUME ShapeInv, [Next]_vars, pc' # "down"
    PROVE  /\ Waiting \subseteq Awaited'
           /\ ~ProcessEvent /\ ~EventFails => Awaited \subseteq Awaited'
<1> USE DEF files, memory, database, history, vars
<1>a. ASSUME UNCHANGED <<records, paths, incoming, queue, batch>>
      PROVE  Waiting \subseteq Awaited' /\ Awaited \subseteq Awaited'
  BY <1>a, AwaitedSame DEF Awaited, Waiting
<1>0. Awaited = Waiting \cup Covered(batch)
  BY DEF Awaited, Waiting
<1>1. ASSUME NEW p \in Entry, Change(p) PROVE Waiting \subseteq Awaited' /\ Awaited \subseteq Awaited'
  <2>1. UNCHANGED <<paths, incoming, queue, batch>>
    BY <1>1 DEF Change
  <2>2. CASE records' = records
    BY <2>1, <2>2, <1>a
  <2>3. ASSUME NEW k \in FileKind, {p, Parent[p]} \cap watches # {}, records' = Report(p, k)
        PROVE  Awaited \subseteq Awaited'
    <3>1. Reported \subseteq Reported'
      BY <2>1, <2>3, ReportedGrows
    <3> QED
      BY <2>1, <3>1 DEF Awaited
  <2>4. records' = records \/ \E k \in FileKind : {p, Parent[p]} \cap watches # {} /\ records' = Report(p, k)
    <3>1. \A old, new : KindOf(old, new) \in FileKind
      BY DEF KindOf, FileKind
    <3> QED
      BY <1>1, <3>1 DEF Change
  <2> QED
    BY <2>2, <2>3, <2>4, <1>0
<1>2. ASSUME ReadWatcher PROVE Waiting \subseteq Awaited' /\ Awaited \subseteq Awaited'
  <2>1. UNCHANGED <<queue, batch>> /\ incoming = <<>>
    BY <1>2 DEF ReadWatcher, ShapeInv, StagesOK
  <2>2. Covered(UNION Range(incoming)) = {}
    BY <2>1 DEF Range, Covered
  <2>3. Reported \subseteq Covered(UNION Range(incoming'))
    BY <1>2, ReadKeeps
  <2> QED
    BY <2>1, <2>2, <2>3 DEF Awaited, Waiting
<1>3. ASSUME Submit PROVE Waiting \subseteq Awaited' /\ Awaited \subseteq Awaited'
  <2>1. UNCHANGED <<records, paths, batch>>
    BY <1>3 DEF Submit
  <2>2. Reported' = Reported /\ Covered(batch)' = Covered(batch)
    BY <2>1 DEF Reported, Reports
  <2>3. Covered(UNION Range(incoming)) \cup Covered(queue)
              \subseteq Covered(UNION Range(incoming')) \cup Covered(queue')
    BY <1>3, SubmitKeeps
  <2> QED
    BY <2>2, <2>3 DEF Awaited, Waiting
<1>4. ASSUME NEW v \in Volume, FallbackDue(v) PROVE Waiting \subseteq Awaited' /\ Awaited \subseteq Awaited'
  <2>1. UNCHANGED <<records, paths, incoming, batch>> /\ queue' = Put(queue, Rescan(v))
    BY <1>4 DEF FallbackDue, RequestRescan
  <2>2. Rescan(v) \in FileEvent /\ Rescan(v) # Rescan(All)
    BY EventFacts, NamesAssumption
  <2>3. Covered(queue) \subseteq Covered(queue')
    BY <2>1, <2>2, PutFacts DEF ShapeInv, QueuesOK
  <2>4. Reported' = Reported /\ Covered(UNION Range(incoming))' = Covered(UNION Range(incoming))
        /\ Covered(batch)' = Covered(batch)
    BY <2>1 DEF Reported, Reports
  <2> QED
    BY <2>3, <2>4 DEF Awaited, Waiting
<1>5. ASSUME Pop PROVE Waiting \subseteq Awaited' /\ Awaited \subseteq Awaited'
  <2>1. PICK popped : UNCHANGED <<records, paths, incoming>> /\ queue' = queue \ popped /\ batch' = popped
                      /\ popped \subseteq queue
    BY <1>5 DEF Pop, PopReady
  <2>2. Reported' = Reported /\ Covered(UNION Range(incoming))' = Covered(UNION Range(incoming))
    BY <2>1 DEF Reported, Reports
  <2>3. Covered(queue) \subseteq Covered(queue') \cup Covered(batch')
    BY <2>1 DEF Covered
  <2>4. batch = {} /\ Covered({}) = {}
    BY <1>5, CoveredFacts DEF Pop, ShapeInv, StagesOK
  <2>5. Waiting \subseteq Awaited'
    BY <2>2, <2>3 DEF Awaited, Waiting
  <2> QED
    BY <2>4, <2>5, <1>0
<1>6. CASE Paused \/ EndBatch
  BY <1>6, <1>a DEF Paused, EndBatch
<1>7. ASSUME ProcessEvent \/ EventFails PROVE Waiting \subseteq Awaited'
  <2>1. UNCHANGED <<records, paths, incoming, queue>>
    BY <1>7 DEF ProcessEvent, EventFails
  <2> QED
    BY <2>1, AwaitedSame DEF Awaited, Waiting
<1>8. ASSUME NEW v \in Volume, CrawlStep(v) PROVE Waiting \subseteq Awaited' /\ Awaited \subseteq Awaited'
  BY <1>8, <1>a DEF CrawlStep, Claim, Exhausted, Visit, VisitFails, Advance, Finish
<1>9. ASSUME Restart PROVE Waiting \subseteq Awaited' /\ Awaited \subseteq Awaited'
  <2>1. pc = "down"
    BY <1>9 DEF Restart
  <2>2. records = <<>> /\ incoming = <<>> /\ queue = {} /\ batch = {}
    BY <2>1 DEF ShapeInv, StagesOK
  <2>3. Reported = {} /\ Range(incoming) = {}
    BY <2>2 DEF Reported, Range
  <2> QED
    BY <2>2, <2>3, CoveredFacts DEF Awaited, Waiting
<1>10. ASSUME NEW doubtful, LoseMemory(doubtful) PROVE FALSE
  BY <1>10 DEF LoseMemory
<1>11. CASE UNCHANGED vars
  BY <1>11, <1>a
<1> QED
  BY <1>1, <1>2, <1>3, <1>4, <1>5, <1>6, <1>7, <1>8, <1>9, <1>10, <1>11
  DEF Next, Crash, CrashInVisit, CrashInFinish

Deletion(p) == FileChange(p, "DELETED")

\* A pipeline that stays as it is, but for the batch.
LEMMA StaleKept ==
    ASSUME NEW p \in Entry, StaleDeletion(p), UNCHANGED <<records, paths, incoming, queue>>,
           batch' \subseteq batch,
           p \in missed \ missed' =>
              /\ Deletion(p) \notin batch \cup queue \cup UNION Range(incoming)
              /\ [path |-> p, kind |-> "DELETED"] \notin Range(records)
    PROVE  StaleDeletion(p)'
<1>1. Reported' = Reported /\ \A r : Reports(r)' = Reports(r)
  BY DEF Reported, Reports
<1>2. CASE p \in missed \ missed'
  BY <1>2 DEF StaleDeletion, Deletion, Range
<1>3. CASE p \notin missed \ missed'
  BY <1>1, <1>3 DEF StaleDeletion
<1> QED
  BY <1>2, <1>3

\* Where no deletion is on its way, none is stale.
LEMMA StaleNone ==
    ASSUME NEW p \in Entry, batch' = {}, queue' = {}, records' = <<>>,
           Deletion(p) \notin UNION Range(incoming')
    PROVE  StaleDeletion(p)'
<1>1. DOMAIN records' = {}
  OBVIOUS
<1> QED
  BY <1>1 DEF StaleDeletion, Deletion, Range

\* A change by the user: an entry that comes back is reported or missed.
LEMMA DeletionsChange ==
    ASSUME ShapeInv, DeletionsOK, NEW p \in Entry, Change(p), NEW q \in Entry, disk'[q] # 0
    PROVE  StaleDeletion(q)'
<1> USE DEF memory
<1>1. PICK new \in Versions(p) : disk' = [disk EXCEPT ![p] = new]
          /\ \/ /\ {p, Parent[p]} \cap watches # {} /\ pc # "down"
                /\ records' = Report(p, KindOf(disk[p], new))
                /\ missed' = missed \ {p}
             \/ /\ missed' = IF pc = "down" THEN missed ELSE missed \cup {p}
                /\ UNCHANGED records
  BY DEF Change
<1>2. UNCHANGED <<paths, incoming, queue, batch>>
  BY DEF Change
<1>3. disk \in [Entry -> 0 .. 2]
  BY DEF ShapeInv, TypeOK
<1>4. q # p => StaleDeletion(q)
  BY <1>1, <1>3 DEF DeletionsOK
<1> DEFINE k == KindOf(disk[p], new)
<1>5. k \in FileKind /\ (new # 0 => k # "DELETED")
  BY DEF KindOf, FileKind
<1>6. CASE pc = "down"
  <2>1. batch = {} /\ queue = {} /\ records = <<>> /\ incoming = <<>> /\ UNCHANGED records
    BY <1>6, <1>1 DEF ShapeInv, StagesOK
  <2>2. Range(incoming') = {}
    BY <2>1, <1>2 DEF Range
  <2> QED
    BY <2>1, <2>2, <1>2, StaleNone
<1>7. CASE pc # "down" /\ UNCHANGED records /\ missed' = missed \cup {p}
  <2>1. CASE q = p
    BY <2>1, <1>7 DEF StaleDeletion
  <2>2. CASE q # p
    BY <2>2, <1>2, <1>4, <1>7, StaleKept
  <2> QED
    BY <2>1, <2>2
<1>8. CASE /\ {p, Parent[p]} \cap watches # {} /\ pc # "down"
           /\ records' = Report(p, k) /\ missed' = missed \ {p}
  <2>1. PICK j \in DOMAIN records' :
          /\ p \in Reported' /\ Reported \subseteq Reported'
          /\ DOMAIN records \subseteq DOMAIN records' /\ \A i \in DOMAIN records : records'[i] = records[i]
          /\ p \in Reports(records'[j])
          /\ \A i \in DOMAIN records' : i = j \/ (i < j /\ i \in DOMAIN records)
          /\ records'[j] \in {Overflow, [path |-> p, kind |-> k]}
    BY <1>2, <1>5, <1>8, ReportedGrows
  <2>2. \A r : Reports(r)' = Reports(r)
    BY <1>2 DEF Reports
  <2>3. CASE q = p
    <3>1. q \in Reported'
      BY <2>1, <2>3
    <3>2. new # 0
      BY <2>3, <1>1, <1>3
    <3>3. ASSUME NEW i \in DOMAIN records', records'[i] = [path |-> q, kind |-> "DELETED"]
          PROVE  \E l \in DOMAIN records' : i < l /\ q \in Reports(records'[l])
      <4>1. i # j
        BY <3>2, <3>3, <2>1, <1>5 DEF Overflow
      <4> QED
        BY <4>1, <2>1, <2>3
    <3> QED
      BY <3>1, <3>3, <2>2 DEF StaleDeletion
  <2>4. CASE q # p
    <3>1. StaleDeletion(q) /\ (q \in missed <=> q \in missed')
      BY <2>4, <1>4, <1>8
    <3>2. ASSUME NEW i \in DOMAIN records', records'[i] = [path |-> q, kind |-> "DELETED"]
          PROVE  q \in missed' \/ \E l \in DOMAIN records' : i < l /\ q \in Reports(records'[l])
      <4>1. records'[j].path # q
        <5>1. CASE records'[j] = Overflow
          BY <5>1, NamesAssumption DEF Overflow
        <5>2. CASE records'[j] = [path |-> p, kind |-> k]
          BY <5>2, <2>4
        <5> QED
          BY <5>1, <5>2, <2>1
      <4>2. i \in DOMAIN records /\ records[i] = [path |-> q, kind |-> "DELETED"]
        BY <4>1, <3>2, <2>1
      <4>3. q \in missed \/ \E l \in DOMAIN records : i < l /\ q \in Reports(records[l])
        BY <4>2, <3>1 DEF StaleDeletion
      <4> QED
        BY <4>3, <3>1, <2>1
    <3>3. /\ FileChange(q, "DELETED") \in batch' =>
                q \in missed' \cup Reported' \cup Covered(UNION Range(incoming')) \cup Covered(queue')
          /\ FileChange(q, "DELETED") \in queue' =>
                q \in missed' \cup Reported' \cup Covered(UNION Range(incoming'))
      BY <3>1, <2>1, <1>2 DEF StaleDeletion
    <3>4. \A i \in DOMAIN incoming' : FileChange(q, "DELETED") \in incoming'[i] =>
                \/ q \in missed' \cup Reported'
                \/ \E l \in DOMAIN incoming' : i < l /\ q \in Covered(incoming'[l])
      BY <3>1, <2>1, <1>2 DEF StaleDeletion
    <3> QED
      BY <3>2, <3>3, <3>4, <2>2 DEF StaleDeletion
  <2> QED
    BY <2>3, <2>4
<1> QED
  BY <1>1, <1>6, <1>7, <1>8

\* Reading the kernel's queue keeps the order of the reports.
LEMMA DeletionsRead ==
    ASSUME ShapeInv, ReadWatcher, NEW p \in Entry, StaleDeletion(p)
    PROVE  StaleDeletion(p)'
<1>1. /\ DOMAIN incoming' = DOMAIN records
      /\ \A i \in DOMAIN records : Reports(records[i]) \subseteq Covered(incoming'[i])
      /\ \A i \in DOMAIN records : Deletion(p) \in incoming'[i] =>
                    records[i] = [path |-> p, kind |-> "DELETED"]
      /\ Reported \subseteq Covered(UNION Range(incoming'))
  BY ReadKeeps DEF Deletion
<1>2. UNCHANGED <<queue, missed>> /\ batch' = batch /\ batch = {} /\ records' = <<>> /\ incoming = <<>>
  BY DEF ReadWatcher, ShapeInv, StagesOK, history
<1>3. Covered(UNION Range(incoming)) = {} /\ DOMAIN records' = {}
  BY <1>2 DEF Range, Covered
<1>4. Deletion(p) \in queue => p \in missed' \cup Covered(UNION Range(incoming'))
  BY <1>1, <1>2, <1>3 DEF StaleDeletion, Deletion
<1>5. ASSUME NEW i \in DOMAIN incoming', Deletion(p) \in incoming'[i]
      PROVE  p \in missed' \/ \E j \in DOMAIN incoming' : i < j /\ p \in Covered(incoming'[j])
  <2>1. p \in missed \/ \E j \in DOMAIN records : i < j /\ p \in Reports(records[j])
    BY <1>1, <1>5 DEF StaleDeletion
  <2> QED
    BY <2>1, <1>1, <1>2
<1> QED
  BY <1>2, <1>3, <1>4, <1>5 DEF StaleDeletion, Deletion

\* A deletion goes into the queue, and what is behind it stays behind it.
LEMMA DeletionsSubmit ==
    ASSUME ShapeInv, Submit, NEW p \in Entry, StaleDeletion(p)
    PROVE  StaleDeletion(p)'
<1>1. PICK e \in Head(incoming), s \in {0, 1} :
            /\ queue' = Put(queue, e)
            /\ e \in FileEvent /\ e # Rescan(All) /\ Head(incoming) = incoming[1] /\ 1 \in DOMAIN incoming
            /\ DOMAIN incoming \subseteq Nat \ {0} /\ DOMAIN incoming' \subseteq Nat \ {0}
            /\ \A i \in DOMAIN incoming' : i + s \in DOMAIN incoming /\ incoming'[i] \subseteq incoming[i + s]
            /\ \A j \in DOMAIN incoming :
                  j > 1 => j - s \in DOMAIN incoming' /\ incoming'[j - s] = incoming[j]
            /\ s = 0 => 1 \in DOMAIN incoming' /\ incoming[1] \subseteq incoming'[1] \cup {e}
            /\ s = 1 => incoming[1] = {e}
  BY SubmitTyped DEF ShapeInv, TypeOK, QueuesOK
<1>2. Deletion(p) \in queue' => e = Deletion(p) \/ (Deletion(p) \in queue /\ p \notin Covered({e}))
  BY <1>1, PutFacts DEF ShapeInv, QueuesOK, Deletion
<1>3. UNCHANGED <<records, paths, batch, missed>>
  BY DEF Submit, files, history
<1>4. Reported' = Reported /\ \A r : Reports(r)' = Reports(r)
  BY <1>3 DEF Reported, Reports
<1>5. ASSUME NEW i \in DOMAIN incoming', Deletion(p) \in incoming'[i]
      PROVE  p \in missed' \cup Reported' \/ \E j \in DOMAIN incoming' : i < j /\ p \in Covered(incoming'[j])
  <2>1. i + s \in DOMAIN incoming /\ Deletion(p) \in incoming[i + s] /\ i \in Nat \ {0}
    BY <1>1, <1>5
  <2>2. CASE p \in missed \cup Reported
    BY <2>2, <1>3, <1>4
  <2>3. ASSUME NEW j \in DOMAIN incoming, i + s < j, p \in Covered(incoming[j])
        PROVE  \E l \in DOMAIN incoming' : i < l /\ p \in Covered(incoming'[l])
    <3>1. j \in Nat /\ j > 1 /\ i < j - s
      BY <2>1, <2>3, <1>1
    <3> QED
      BY <3>1, <2>3, <1>1
  <2> QED
    BY <2>1, <2>2, <2>3 DEF StaleDeletion, Deletion
<1>6. ASSUME Deletion(p) \in queue' PROVE p \in missed' \cup Reported' \cup Covered(UNION Range(incoming'))
  <2>1. CASE e = Deletion(p)
    <3>1. Deletion(p) \in incoming[1] /\ 1 \in DOMAIN incoming
      BY <2>1, <1>1
    <3>2. CASE p \in missed \cup Reported
      BY <3>2, <1>3, <1>4
    <3>3. ASSUME NEW j \in DOMAIN incoming, 1 < j, p \in Covered(incoming[j])
          PROVE  p \in Covered(UNION Range(incoming'))
      <4>1. j > 1
        BY <3>3, <1>1
      <4>2. j - s \in DOMAIN incoming' /\ incoming'[j - s] = incoming[j]
        BY <4>1, <1>1
      <4> QED
        BY <4>2, <3>3, CoveredAt
    <3> QED
      BY <3>1, <3>2, <3>3 DEF StaleDeletion, Deletion
  <2>2. CASE Deletion(p) \in queue /\ p \notin Covered({e})
    <3>1. CASE p \in missed \cup Reported
      BY <3>1, <1>3, <1>4
    <3>2. ASSUME NEW j \in DOMAIN incoming, p \in Covered(incoming[j])
          PROVE  p \in Covered(UNION Range(incoming'))
      <4>1. CASE j > 1
        <5>1. j - s \in DOMAIN incoming' /\ incoming'[j - s] = incoming[j]
          BY <4>1, <1>1
        <5> QED
          BY <5>1, <3>2, CoveredAt
      <4>2. CASE j = 1
        <5>1. s # 1
          BY <4>2, <3>2, <2>2, <1>1
        <5>2. 1 \in DOMAIN incoming' /\ incoming[1] \subseteq incoming'[1] \cup {e}
          BY <5>1, <1>1
        <5>3. Covered(incoming[1]) \subseteq Covered(incoming'[1] \cup {e})
          BY <5>2, CoveredFacts
        <5>4. Covered(incoming'[1] \cup {e}) = Covered(incoming'[1]) \cup Covered({e})
          BY CoveredFacts
        <5>5. p \in Covered(incoming'[1])
          BY <5>3, <5>4, <4>2, <3>2, <2>2
        <5> QED
          BY <5>2, <5>5, CoveredAt
      <4>3. j > 1 \/ j = 1
        BY <1>1
      <4> QED
        BY <4>1, <4>2, <4>3
    <3>3. p \in missed \cup Reported \/ \E j \in DOMAIN incoming : p \in Covered(incoming[j])
      BY <2>2, CoveredAt DEF StaleDeletion, Deletion
    <3> QED
      BY <3>1, <3>2, <3>3
  <2> QED
    BY <1>2, <1>6, <2>1, <2>2
<1>7. ASSUME Deletion(p) \in batch'
      PROVE  p \in missed' \cup Reported' \cup Covered(UNION Range(incoming')) \cup Covered(queue')
  <2>1. p \in missed \cup Reported \cup Covered(UNION Range(incoming)) \cup Covered(queue)
    BY <1>3, <1>7 DEF StaleDeletion, Deletion
  <2> QED
    BY <2>1, <1>3, <1>4, SubmitKeeps
<1>8. \A i \in DOMAIN records' : records'[i] = [path |-> p, kind |-> "DELETED"] =>
          p \in missed' \/ \E j \in DOMAIN records' : i < j /\ p \in Reports(records[j])'
  BY <1>3, <1>4 DEF StaleDeletion
<1> QED
  BY <1>3, <1>5, <1>6, <1>7, <1>8 DEF StaleDeletion, Deletion

\* Every step keeps the promise behind a deletion that is out of date.
LEMMA DeletionsStep == ShapeInv /\ DeletionsOK /\ [Next]_vars => DeletionsOK'
<1> SUFFICES ASSUME ShapeInv, DeletionsOK, [Next]_vars, NEW q \in Entry, disk'[q] # 0
             PROVE  StaleDeletion(q)'
  BY DEF DeletionsOK
<1> USE DEF files, memory, database, history, vars
<1>0. disk' = disk => StaleDeletion(q)
  BY DEF DeletionsOK
<1>a. ASSUME UNCHANGED <<disk, records, paths, incoming, queue, batch, missed>> PROVE StaleDeletion(q)'
  BY <1>a, <1>0, StaleKept
<1>1. ASSUME NEW p \in Entry, Change(p) PROVE StaleDeletion(q)'
  BY <1>1, DeletionsChange
<1>2. CASE ReadWatcher
  <2>1. disk' = disk
    BY <1>2 DEF ReadWatcher
  <2> QED
    BY <2>1, <1>0, <1>2, DeletionsRead
<1>3. CASE Submit
  <2>1. disk' = disk
    BY <1>3 DEF Submit
  <2> QED
    BY <2>1, <1>0, <1>3, DeletionsSubmit
<1>4. ASSUME NEW v \in Volume, FallbackDue(v) PROVE StaleDeletion(q)'
  <2>1. UNCHANGED <<disk, records, paths, incoming, batch, missed>> /\ queue' = Put(queue, Rescan(v))
    BY <1>4 DEF FallbackDue, RequestRescan
  <2>2. Rescan(v) \in FileEvent /\ Rescan(v) # Rescan(All) /\ Rescan(v) # Deletion(q)
    BY EventFacts, NamesAssumption DEF Deletion, Rescan, FileChange
  <2>3. Covered(queue) \subseteq Covered(queue') /\ (Deletion(q) \in queue' => Deletion(q) \in queue)
    BY <2>1, <2>2, PutFacts DEF ShapeInv, QueuesOK, Deletion
  <2>4. Reported' = Reported /\ \A r : Reports(r)' = Reports(r)
    BY <2>1 DEF Reported, Reports
  <2>5. StaleDeletion(q)
    BY <2>1, <1>0
  <2> QED
    BY <2>1, <2>3, <2>4, <2>5 DEF StaleDeletion, Deletion
<1>5. CASE Pop
  <2>1. PICK popped : UNCHANGED <<disk, records, paths, incoming, missed>> /\ queue' = queue \ popped
                      /\ batch' = popped /\ popped \subseteq queue
    BY <1>5 DEF Pop, PopReady
  <2>2. Reported' = Reported /\ \A r : Reports(r)' = Reports(r)
    BY <2>1 DEF Reported, Reports
  <2>3. StaleDeletion(q)
    BY <2>1, <1>0
  <2> QED
    BY <2>1, <2>2, <2>3 DEF StaleDeletion
<1>6. CASE Paused \/ EndBatch
  BY <1>6, <1>a DEF Paused, EndBatch
<1>7. CASE ProcessEvent \/ EventFails
  <2>1. UNCHANGED <<disk, records, paths, incoming, queue>> /\ batch' \subseteq batch /\ pc = "batch"
    BY <1>7 DEF ProcessEvent, EventFails
  <2>2. \/ missed \subseteq missed'
        \/ \E vs : missed' = StillMissed(vs)
    BY <1>7 DEF ProcessEvent, EventFails, StartCrawls
  <2>3. ASSUME q \in missed \ missed'
        PROVE  /\ Deletion(q) \notin batch \cup queue \cup UNION Range(incoming)
               /\ [path |-> q, kind |-> "DELETED"] \notin Range(records)
    <3>1. PICK vs : missed' = StillMissed(vs)
      BY <2>2, <2>3
    <3>2. q \notin Doomed(VolumeOf(q))
      BY <3>1, <2>3 DEF StillMissed
    <3>3. incoming = <<>> /\ Range(incoming) = {}
      BY <2>1 DEF ShapeInv, StagesOK, Range
    <3> QED
      BY <3>2, <3>3 DEF Doomed, Entries, Deletion
  <2> QED
    BY <2>1, <2>3, <1>0, StaleKept
<1>8. ASSUME NEW v \in Volume, CrawlStep(v) PROVE StaleDeletion(q)'
  BY <1>8, <1>a DEF CrawlStep, Claim, Exhausted, Visit, VisitFails, Advance, Finish
<1>9. ASSUME NEW doubtful, LoseMemory(doubtful) PROVE StaleDeletion(q)'
  <2>1. batch' = {} /\ queue' = {} /\ records' = <<>> /\ incoming' = <<>>
    BY <1>9 DEF LoseMemory
  <2>2. Range(incoming') = {}
    BY <2>1 DEF Range
  <2> QED
    BY <2>1, <2>2, StaleNone
<1>10. CASE Restart
  <2>1. batch' = {} /\ queue' = {} /\ records' = <<>>
    BY <1>10 DEF Restart, ShapeInv, StagesOK
  <2>2. UNION Range(incoming') = {Rescan(v) : v \in requested'}
    BY <1>10, RestartTyped DEF ShapeInv
  <2>3. Deletion(q) \notin UNION Range(incoming')
    BY <2>2 DEF Deletion, FileChange, Rescan
  <2> QED
    BY <2>1, <2>3, StaleNone
<1>11. CASE UNCHANGED vars
  BY <1>11, <1>a
<1> QED
  BY <1>1, <1>2, <1>3, <1>4, <1>5, <1>6, <1>7, <1>8, <1>9, <1>10, <1>11
  DEF Next, Crash, CrashInVisit, CrashInFinish

\* What lies above an entry of a volume lies on the volume.
LEMMA AboveOnVolume ==
    ASSUME NEW v \in Volume, NEW p \in Entries(v), NEW x \in ({p} \cup Above[p]) \cap Entry
    PROVE  x \in Entries(v)
  BY SameVolume DEF Entries

\* An entry somebody is going to look at.
LEMMA EntryPromised ==
    ASSUME NEW v, NEW p \in Entry, p \in Awaited' \cup missed'
    PROVE  CrawledOK(p, v)' /\ RowOK(p)'
  BY DEF CrawledOK, RowOK

\* An entry that the step does not concern.
LEMMA EntryKept ==
    ASSUME NEW v \in Volume, NEW p \in Entries(v),
           crawl'[v] = crawl[v], checkpoint'[v].pending = checkpoint[v].pending,
           checkpoint'[v].dir = checkpoint[v].dir, checkpoint'[v].protected = checkpoint[v].protected,
           \A x \in Entries(v) : x \in passed' <=> x \in passed,
           disk'[p] = disk[p], catalog'[p] = catalog[p], p \in seen' <=> p \in seen,
           p \in Awaited \cup missed => p \in Awaited' \cup missed',
           p \in kept => p \in kept'
    PROVE  (CrawledOK(p, v) => CrawledOK(p, v)') /\ (RowOK(p) => RowOK(p)')
<1>1. Opened(v)' = Opened(v)
  BY DEF Opened
<1>2. Protected(v)' = Protected(v)
  BY DEF Protected, InVolume, Entries, Under
<1>3. Ahead(p, v) => Ahead(p, v)'
  <2> SUFFICES ASSUME Ahead(p, v) PROVE Ahead(p, v)'
    OBVIOUS
  <2>1. PICK x \in {p} \cup Above[p] :
          /\ x \in Entry \ passed
          /\ \/ Parent[x] \in checkpoint[v].pending
             \/ (Opened(v) /\ x \in Range(crawl[v].rest))
             \/ (~Opened(v) /\ Parent[x] = checkpoint[v].dir)
    BY DEF Ahead
  <2>2. x \in Entry \ passed'
    BY <2>1, AboveOnVolume
  <2> QED
    BY <1>1, <2>1, <2>2 DEF Ahead
<1>4. CrawledOK(p, v) => CrawledOK(p, v)'
  BY <1>2, <1>3 DEF CrawledOK
<1>5. RowOK(p) => RowOK(p)'
  BY DEF RowOK
<1> QED
  BY <1>4, <1>5

\* The frontier of a crawl that the step does not concern.
LEMMA FrontierKept ==
    ASSUME NEW v \in Volume, FrontierOK(v), checkpoint[v] # None,
           crawl'[v] = crawl[v], checkpoint'[v].pending = checkpoint[v].pending,
           checkpoint'[v].dir = checkpoint[v].dir,
           \A x \in Entries(v) : x \in passed => x \in passed',
           v \in torn => v \in torn', pc' # "down" => pc # "down"
    PROVE  FrontierOK(v)'
  BY DEF FrontierOK, Opened

\* A volume whose crawl is not concerned stays right if its entries do.
LEMMA VolumeKept ==
    ASSUME NEW v \in Volume, VolumeOK(v), crawl'[v] = crawl[v], checkpoint'[v] = checkpoint[v],
           \A x \in Entries(v) : x \in passed => x \in passed',
           v \in torn => v \in torn', pc' # "down" => pc # "down",
           \A p \in Entries(v) : v \notin torn' =>
              IF checkpoint[v] = None
              THEN pc' # "down" => (RowOK(p) => RowOK(p)')
              ELSE FrontierOK(v) => (CrawledOK(p, v) => CrawledOK(p, v)')
    PROVE  VolumeOK(v)'
<1>0. Entries(v)' = Entries(v)
  OBVIOUS
<1>1. CASE checkpoint[v] = None
  BY <1>1 DEF VolumeOK
<1>2. CASE checkpoint[v] # None
  <2>1. FrontierOK(v) /\ (v \notin torn => \A p \in Entries(v) : CrawledOK(p, v))
    BY <1>2 DEF VolumeOK
  <2>2. FrontierOK(v)'
    BY <2>1, <1>2, FrontierKept
  <2>3. v \notin torn' => \A p \in Entries(v) : CrawledOK(p, v)'
    BY <2>1, <1>2
  <2>4. checkpoint'[v] # None
    BY <1>2
  <2> QED
    BY <2>2, <2>3, <2>4 DEF VolumeOK
<1> QED
  BY <1>1, <1>2

\* A volume a step has nothing to do with, but for the events that wait.
LEMMA VolumeQuiet ==
    ASSUME NEW v \in Volume, VolumeOK(v), crawl'[v] = crawl[v], checkpoint'[v] = checkpoint[v],
           \A x \in Entries(v) : x \in passed' <=> x \in passed,
           v \in torn => v \in torn', pc' # "down" => pc # "down",
           \A p \in Entries(v) : v \notin torn' =>
              \/ p \in Awaited' \cup missed'
              \/ /\ disk'[p] = disk[p] /\ catalog'[p] = catalog[p] /\ (p \in seen' <=> p \in seen)
                 /\ p \in Awaited \cup missed => p \in Awaited' \cup missed'
                 /\ p \in kept => p \in kept'
    PROVE  VolumeOK(v)'
<1> SUFFICES ASSUME NEW p \in Entries(v), v \notin torn'
             PROVE  (CrawledOK(p, v) => CrawledOK(p, v)') /\ (RowOK(p) => RowOK(p)')
  BY VolumeKept
<1>1. p \in Entry
  BY DEF Entries
<1>2. CASE p \in Awaited' \cup missed'
  BY <1>1, <1>2, EntryPromised
<1>3. CASE p \notin Awaited' \cup missed'
  BY <1>3, EntryKept
<1> QED
  BY <1>2, <1>3

\* A crawl that starts is ahead of everything on its volume.
LEMMA FreshOK ==
    ASSUME NEW v \in Volume, crawl'[v] = Closed, checkpoint'[v] = Fresh(v),
           \A x \in Entries(v) : x \notin passed' /\ x \notin seen'
    PROVE  VolumeOK(v)'
<1>1. checkpoint'[v] # None /\ crawl'[v] # None /\ crawl'[v].dir = NoFolder
  BY CheckpointMade, CrawlMade
<1>2. checkpoint'[v].pending = {v} /\ checkpoint'[v].dir = NoFolder
  BY DEF Fresh
<1>3. FrontierOK(v)'
  BY <1>1, <1>2, DirAssumption DEF FrontierOK, Opened
<1>4. ASSUME NEW p \in Entries(v) PROVE CrawledOK(p, v)'
  <2>1. p \in Entry /\ v \in Above[p]
    BY TreeFacts DEF Entries
  <2>2. PICK x \in {p} \cup Above[p] : x \in Entry /\ Parent[x] = v
    BY <2>1, TreeAssumption
  <2>3. x \notin passed'
    BY <2>2, AboveOnVolume
  <2>4. Ahead(p, v)'
    BY <2>2, <2>3, <1>2 DEF Ahead
  <2>5. p \notin seen'
    OBVIOUS
  <2> QED
    BY <2>4, <2>5 DEF CrawledOK
<1> QED
  BY <1>1, <1>3, <1>4 DEF VolumeOK

\* The events of the batch.
LEMMA VolumesProcess == IndexInv /\ ProcessEvent => VolumesOK'
<1> SUFFICES ASSUME IndexInv, ProcessEvent, NEW v \in Volume PROVE VolumeOK(v)'
  BY DEF VolumesOK
<1> USE DEF files, memory, database, history
<1>1. PICK e \in batch :
        /\ batch' = batch \ {e}
        /\ CASE e.kind = "RESCAN" -> StartCrawls(RescannedBy(e.volume)) /\ UNCHANGED catalog
              [] e.kind = "DELETED" ->
                  /\ catalog' = [catalog EXCEPT ![e.path] = 0]
                  /\ seen' = seen \ {e.path}
                  /\ UNCHANGED <<crawl, checkpoint, history>>
              [] OTHER -> WriteRow(e.path, e.volume) /\ UNCHANGED <<crawl, checkpoint, history>>
  BY DEF ProcessEvent
<1>2. UNCHANGED <<disk, records, paths, incoming, queue, pc, kept>> /\ pc = "batch"
  BY DEF ProcessEvent
<1>3. e \in FileEvent /\ VolumeOK(v)
  BY DEF IndexInv, TypeOK, VolumesOK
<1>4. Awaited \subseteq Awaited' \cup Covered({e}) /\ Waiting \subseteq Awaited'
  <2>1. Awaited \subseteq Awaited' \cup Covered({e})
    BY <1>1, <1>2, AwaitedSame
  <2>2. Waiting \subseteq Awaited'
    BY <1>2, AwaitedSame DEF Waiting, Awaited
  <2> QED
    BY <2>1, <2>2
<1>5. CASE e.kind = "RESCAN"
  <2> DEFINE vs == RescannedBy(e.volume)
  <2>1. StartCrawls(vs) /\ catalog' = catalog
    BY <1>1, <1>5
  <2>2. \A p \in Covered({e}) : VolumeOf(p) \in vs
    <3>1. e = Rescan(e.volume) /\ e.volume \in Volume \cup {All}
      BY <1>3, <1>5, EventFacts, RescanIsNoChange
    <3>2. CASE e.volume = All
      BY <3>2, TreeFacts DEF Covered, RescannedBy
    <3>3. CASE e.volume # All
      BY <3>1, <3>3, CoveredFacts DEF Entries, RescannedBy
    <3> QED
      BY <3>2, <3>3
  <2>3. CASE v \in vs
    <3>1. crawl'[v] = Closed /\ checkpoint'[v] = Fresh(v)
      BY <2>1, <2>3 DEF StartCrawls
    <3>2. \A x \in Entries(v) : x \notin passed' /\ x \notin seen'
      BY <2>1, <2>3 DEF StartCrawls, Entries
    <3> QED
      BY <3>1, <3>2, FreshOK
  <2>4. CASE v \notin vs
    <3>1. crawl'[v] = crawl[v] /\ checkpoint'[v] = checkpoint[v]
      BY <2>1, <2>4 DEF StartCrawls
    <3>2. /\ \A x \in Entries(v) : (x \in passed' <=> x \in passed) /\ (x \in seen' <=> x \in seen)
                                   /\ (x \in missed => x \in missed')
          /\ v \in torn => v \in torn'
      BY <2>1, <2>4 DEF StartCrawls, Entries, StillMissed
    <3>3. \A p \in Entries(v) : p \in Awaited => p \in Awaited'
      BY <1>4, <2>2, <2>4 DEF Entries
    <3> QED
      BY <3>1, <3>2, <3>3, <1>2, <1>3, <2>1, VolumeQuiet
  <2> QED
    BY <2>3, <2>4
<1>6. CASE e.kind # "RESCAN"
  <2> DEFINE q == e.path
  <2>1. q \in Entry /\ e.volume = VolumeOf(q) /\ e = FileChange(q, e.kind) /\ Covered({e}) = {q}
    BY <1>3, <1>6, EventFacts, CoveredFacts
  <2>2. UNCHANGED <<crawl, checkpoint, missed, passed, torn>>
    BY <1>1, <1>6
  <2>3. catalog \in [Entry -> 0 .. 2]
    BY DEF IndexInv, TypeOK
  <2>4. \A p \in Entry : p # q => catalog'[p] = catalog[p] /\ (p \in seen' <=> p \in seen)
    BY <1>1, <1>6, <2>3 DEF WriteRow
  <2>5. ASSUME NEW p \in Entries(v), p # q
        PROVE  (CrawledOK(p, v) => CrawledOK(p, v)') /\ (RowOK(p) => RowOK(p)')
    <3>1. p \in Entry
      BY DEF Entries
    <3>2. p \in Awaited => p \in Awaited'
      BY <1>4, <2>1, <2>5
    <3> QED
      BY <3>1, <3>2, <2>2, <2>4, <2>5, <1>2, EntryKept
  <2>6. ASSUME q \in Entries(v), v \notin torn', checkpoint[v] # None => FrontierOK(v)
        PROVE  RowOK(q)' /\ (checkpoint[v] # None => CrawledOK(q, v)')
    <3>1. CASE e.kind = "DELETED"
      <4>1. catalog'[q] = 0 /\ q \notin seen'
        BY <3>1, <1>1, <2>1, <2>3
      <4>2. disk[q] # 0 => q \in Awaited' \cup missed'
        BY <3>1, <2>1, <2>2, <1>4 DEF IndexInv, DeletionsOK, StaleDeletion, Waiting
      <4> QED
        BY <4>1, <4>2, <1>2 DEF RowOK, CrawledOK
    <3>2. CASE e.kind # "DELETED"
      <4>1. WriteRow(q, e.volume)
        BY <3>2, <1>1, <1>6
      <4>2. catalog'[q] = disk[q] /\ disk' = disk
        BY <4>1, <2>1, <2>3, <1>2 DEF WriteRow
      <4>3. e.volume = v
        BY <2>1, <2>6 DEF Entries
      <4>4. checkpoint[v] # None => crawl[v] # None
        BY <2>6, <2>2, <1>2 DEF FrontierOK
      <4>5. checkpoint[v] # None /\ disk[q] # 0 => q \in seen'
        BY <4>1, <4>3, <4>4 DEF WriteRow
      <4> QED
        BY <4>2, <4>5 DEF RowOK, CrawledOK
    <3> QED
      BY <3>1, <3>2
  <2>7. \A p \in Entries(v) : v \notin torn' =>
              IF checkpoint[v] = None
              THEN pc' # "down" => (RowOK(p) => RowOK(p)')
              ELSE FrontierOK(v) => (CrawledOK(p, v) => CrawledOK(p, v)')
    BY <2>5, <2>6
  <2> QED
    BY <2>2, <2>7, <1>2, <1>3, VolumeKept
<1> QED
  BY <1>5, <1>6

\* An event that fails: its path is missed, or its volume is torn.
LEMMA VolumesFail == IndexInv /\ EventFails => VolumesOK'
<1> SUFFICES ASSUME IndexInv, EventFails, NEW v \in Volume PROVE VolumeOK(v)'
  BY DEF VolumesOK
<1> USE DEF files, memory, database, history
<1>1. PICK e \in batch :
        /\ batch' = batch \ {e}
        /\ IF e.kind = "RESCAN"
           THEN \E w0 \in RescannedBy(e.volume) : \E vs \in SUBSET (RescannedBy(e.volume) \ {w0}) :
                  /\ crawl' = [w \in Volume |-> CASE w \in vs -> Closed
                                                  [] w = w0   -> None
                                                  [] OTHER    -> crawl[w]]
                  /\ checkpoint' = [w \in Volume |-> IF w \in vs THEN Fresh(w) ELSE checkpoint[w]]
                  /\ seen' = {p \in seen : VolumeOf(p) \notin vs}
                  /\ missed' = StillMissed(vs)
                  /\ passed' = {p \in passed : VolumeOf(p) \notin vs}
                  /\ torn' = (torn \ vs) \cup (RescannedBy(e.volume) \ vs)
           ELSE missed' = missed \cup {e.path}
                /\ UNCHANGED <<crawl, checkpoint, seen, passed, torn>>
  BY DEF EventFails
<1>2. UNCHANGED <<disk, catalog, records, paths, incoming, queue, pc, kept>> /\ pc = "batch"
  BY DEF EventFails
<1>3. e \in FileEvent /\ VolumeOK(v)
  BY DEF IndexInv, TypeOK, VolumesOK
<1>4. Awaited \subseteq Awaited' \cup Covered({e})
  BY <1>1, <1>2, AwaitedSame
<1>5. CASE e.kind = "RESCAN"
  <2> DEFINE all == RescannedBy(e.volume)
  <2>0. PICK w0 \in all : \E vs \in SUBSET (all \ {w0}) :
                  /\ crawl' = [w \in Volume |-> CASE w \in vs -> Closed
                                                  [] w = w0   -> None
                                                  [] OTHER    -> crawl[w]]
                  /\ checkpoint' = [w \in Volume |-> IF w \in vs THEN Fresh(w) ELSE checkpoint[w]]
                  /\ seen' = {p \in seen : VolumeOf(p) \notin vs}
                  /\ missed' = StillMissed(vs)
                  /\ passed' = {p \in passed : VolumeOf(p) \notin vs}
                  /\ torn' = (torn \ vs) \cup (all \ vs)
    BY <1>1, <1>5
  <2>1. PICK vs \in SUBSET (all \ {w0}) :
                  /\ crawl' = [w \in Volume |-> CASE w \in vs -> Closed
                                                  [] w = w0   -> None
                                                  [] OTHER    -> crawl[w]]
                  /\ checkpoint' = [w \in Volume |-> IF w \in vs THEN Fresh(w) ELSE checkpoint[w]]
                  /\ seen' = {p \in seen : VolumeOf(p) \notin vs}
                  /\ missed' = StillMissed(vs)
                  /\ passed' = {p \in passed : VolumeOf(p) \notin vs}
                  /\ torn' = (torn \ vs) \cup (all \ vs)
    BY <2>0
  <2>2. \A p \in Covered({e}) : VolumeOf(p) \in all
    <3>1. e = Rescan(e.volume) /\ e.volume \in Volume \cup {All}
      BY <1>3, <1>5, EventFacts, RescanIsNoChange
    <3>2. CASE e.volume = All
      BY <3>2, TreeFacts DEF Covered, RescannedBy
    <3>3. CASE e.volume # All
      BY <3>1, <3>3, CoveredFacts DEF Entries, RescannedBy
    <3> QED
      BY <3>2, <3>3
  <2>3. CASE v \in vs
    <3>1. crawl'[v] = Closed /\ checkpoint'[v] = Fresh(v)
      BY <2>1, <2>3
    <3>2. \A x \in Entries(v) : x \notin passed' /\ x \notin seen'
      BY <2>1, <2>3 DEF Entries
    <3> QED
      BY <3>1, <3>2, FreshOK
  <2>4. CASE v \notin all
    <3>1. crawl'[v] = crawl[v] /\ checkpoint'[v] = checkpoint[v]
      BY <2>1, <2>4
    <3>2. /\ \A x \in Entries(v) : (x \in passed' <=> x \in passed) /\ (x \in seen' <=> x \in seen)
                                   /\ (x \in missed => x \in missed')
          /\ v \in torn => v \in torn'
      BY <2>1, <2>4 DEF Entries, StillMissed
    <3>3. \A p \in Entries(v) : p \in Awaited => p \in Awaited'
      BY <1>4, <2>2, <2>4 DEF Entries
    <3> QED
      BY <3>1, <3>2, <3>3, <1>2, <1>3, VolumeQuiet
  <2>5. CASE v \in all \ vs
    <3>1. v \in torn' /\ checkpoint'[v] = checkpoint[v] /\ \A x \in Entries(v) : x \in passed' <=> x \in passed
      BY <2>1, <2>5 DEF Entries
    <3>2. crawl'[v] \in {None, crawl[v]}
      BY <2>1, <2>5
    <3>3. FrontierOK(v) /\ checkpoint[v] # None => FrontierOK(v)'
      BY <3>1, <3>2 DEF FrontierOK, Opened
    <3> QED
      BY <3>1, <3>3, <1>3 DEF VolumeOK
  <2> QED
    BY <2>3, <2>4, <2>5
<1>6. CASE e.kind # "RESCAN"
  <2>1. e.path \in Entry /\ Covered({e}) = {e.path}
    BY <1>3, <1>6, EventFacts, CoveredFacts
  <2>2. missed' = missed \cup {e.path} /\ UNCHANGED <<crawl, checkpoint, seen, passed, torn>>
    BY <1>1, <1>6
  <2> QED
    BY <2>1, <2>2, <1>2, <1>3, <1>4, VolumeQuiet
<1> QED
  BY <1>5, <1>6

\* An entry is on one volume.
LEMMA OneVolume ==
    ASSUME NEW v \in Volume, NEW w \in Volume, w # v, NEW p \in Entries(w)
    PROVE  p \notin Entries(v) /\ p \in Entry
  BY DEF Entries

\* The entry an open crawl comes to next is on its volume.
LEMMA NextEntry ==
    ASSUME IndexInv, NEW v \in Volume, Crawling(v), IsOpen(v), crawl[v].rest # <<>>
    PROVE  LET p == Head(crawl[v].rest) IN
           /\ p \in Entries(v) /\ Parent[p] = checkpoint[v].dir
           /\ Parent[p] \in passed \cup Volume
           /\ crawl[v] \in Crawl /\ checkpoint[v] \in Checkpoint /\ checkpoint[v] # None
           /\ Range(crawl[v].rest) \subseteq Range(Tail(crawl[v].rest)) \cup {p}
           /\ Range(Tail(crawl[v].rest)) \subseteq Range(crawl[v].rest)
           /\ Opened(v) /\ FrontierOK(v)
<1> DEFINE p == Head(crawl[v].rest)
<1>1. CrawlsTyped /\ crawl[v] # None
  BY TypeParts DEF IndexInv, Crawling
<1>2. /\ crawl[v] \in Crawl /\ checkpoint[v] \in Checkpoint
      /\ p \in Entry /\ p \in Range(crawl[v].rest)
      /\ Range(crawl[v].rest) \subseteq Range(Tail(crawl[v].rest)) \cup {p}
      /\ Range(Tail(crawl[v].rest)) \subseteq Range(crawl[v].rest)
  BY <1>1, AdvanceTyped
<1>3. checkpoint[v] # None
  BY <1>2, RecordsDiffer
<1>4. FrontierOK(v) /\ Opened(v)
  BY <1>1, <1>3 DEF IndexInv, VolumesOK, VolumeOK, Opened, IsOpen
<1>5. Parent[p] = checkpoint[v].dir
  BY <1>2, <1>4 DEF FrontierOK
<1>6. Parent[p] \in {v} \cup (Entries(v) \cap passed)
  BY <1>2, <1>4, <1>5, DirAssumption DEF FrontierOK
<1>7. VolumeOf(p) = v
  <2>1. Parent[p] \in Above[p]
    BY <1>2, TreeAssumption
  <2>2. CASE Parent[p] = v
    BY <2>1, <2>2, <1>2, TreeFacts
  <2>3. CASE Parent[p] \in Entries(v)
    BY <2>1, <2>3, <1>2, SameVolume DEF Entries
  <2> QED
    BY <1>6, <2>2, <2>3
<1> QED
  BY <1>2, <1>3, <1>4, <1>5, <1>6, <1>7 DEF Entries

\* A crawl does not concern the other volumes.
LEMMA OthersQuiet ==
    ASSUME IndexInv, NEW v \in Volume, NEW w \in Volume, w # v, CrawlStep(v)
    PROVE  VolumeOK(w)'
<1> USE DEF files, memory, database, history
<1>1. UNCHANGED <<records, paths, incoming, queue, batch, disk, pc, missed>>
      /\ torn \subseteq torn'
  BY DEF CrawlStep, Claim, Exhausted, Visit, VisitFails, Advance, Finish
<1>2. Awaited' = Awaited
  BY <1>1, AwaitedSame
<1>3. /\ crawl \in [Volume -> Crawl \cup {None}] /\ checkpoint \in [Volume -> Checkpoint \cup {None}]
      /\ catalog \in [Entry -> 0 .. 2]
  BY DEF IndexInv, TypeOK
<1>4. crawl'[w] = crawl[w] /\ checkpoint'[w] = checkpoint[w]
  BY <1>3 DEF CrawlStep, Claim, Exhausted, Visit, VisitFails, Advance, Finish
<1>5. ASSUME NEW p \in Entries(w)
      PROVE  /\ catalog'[p] = catalog[p] /\ (p \in seen' <=> p \in seen)
             /\ (p \in passed' <=> p \in passed) /\ (p \in kept => p \in kept')
  <2>1. p \notin Entries(v) /\ p \in Entry
    BY OneVolume
  <2>2. CASE Claim(v) \/ Exhausted(v)
    BY <2>2 DEF Claim, Exhausted
  <2>3. CASE Visit(v) \/ VisitFails(v)
    <3>1. Advance(v)
      BY <2>3 DEF Visit, VisitFails
    <3>2. p # Head(crawl[v].rest)
      BY <3>1, <2>1, NextEntry DEF Advance
    <3>3. \/ UNCHANGED <<catalog, seen>>
          \/ WriteRow(Head(crawl[v].rest), v)
      BY <2>3 DEF Visit, VisitFails
    <3> QED
      BY <3>1, <3>2, <3>3, <1>3, <2>1 DEF Advance, WriteRow
  <2>4. CASE Finish(v)
    <3>1. catalog' = [q \in Entry |-> IF q \in Removable(v) THEN 0 ELSE catalog[q]]
      BY <2>4 DEF Finish, RemoveRows
    <3>2. p \notin Removable(v)
      BY <2>1 DEF Removable
    <3> QED
      BY <3>1, <3>2, <2>1, <2>4 DEF Finish
  <2> QED
    BY <2>2, <2>3, <2>4 DEF CrawlStep
<1>6. VolumeOK(w)
  BY DEF IndexInv, VolumesOK
<1> QED
  BY <1>1, <1>2, <1>4, <1>5, <1>6, VolumeQuiet

\* What a crawl still has to do stays ahead of it when it claims a directory.
LEMMA VolumeClaim ==
    ASSUME IndexInv, NEW v \in Volume, Claim(v)
    PROVE  VolumeOK(v)'
<1> USE DEF files, memory, database, history
<1> DEFINE c == checkpoint[v]
<1>1. PICK f \in NextFolder(c) :
        LET claimed == Claimed(checkpoint[v], f)
            listing == Listing[Content(f)]
            skipped == {listing[i] : i \in DOMAIN listing \cap 1 .. claimed.offset}
        IN  \/ /\ Exists(f, disk)
               /\ torn' = IF skipped \subseteq passed THEN torn ELSE torn \cup {v}
               /\ IF claimed.offset > Len(listing)
                  THEN /\ checkpoint' = [checkpoint EXCEPT ![v] = CompleteDirectory(claimed)]
                       /\ UNCHANGED crawl
                  ELSE /\ checkpoint' = [checkpoint EXCEPT ![v] = claimed]
                       /\ crawl' = [crawl EXCEPT ![v] =
                            [dir |-> f, offset |-> claimed.offset,
                             rest |-> SubSeq(listing, claimed.offset + 1, Len(listing))]]
            \/ /\ checkpoint' = [checkpoint EXCEPT ![v] = CompleteDirectory(Protect(claimed, f))]
               /\ UNCHANGED <<crawl, torn>>
  BY DEF Claim
<1> DEFINE claimed == Claimed(c, f)
           listing == Listing[Content(f)]
           rest == SubSeq(listing, claimed.offset + 1, Len(listing))
           skipped == {listing[i] : i \in DOMAIN listing \cap 1 .. claimed.offset}
<1>2. CrawlsTyped /\ crawl[v] # None /\ ~IsOpen(v) /\ pc = "batch"
  BY TypeParts DEF IndexInv, Claim, Crawling
<1>3. /\ c \in Checkpoint /\ f \in Folder /\ crawl[v] \in Crawl /\ claimed \in Checkpoint
      /\ claimed.offset \in Nat /\ claimed.dir = f
      /\ claimed.pending = c.pending \ {f} /\ claimed.protected = c.protected
      /\ Range(listing) = Content(f) /\ Len(listing) \in Nat /\ DOMAIN listing = 1 .. Len(listing)
      /\ claimed.offset <= Len(listing) =>
            rest \in Seq(Entry) /\ Range(rest) = {listing[i] : i \in claimed.offset + 1 .. Len(listing)}
  BY <1>2, ClaimTyped
<1>4. checkpoint[v] # None /\ FrontierOK(v) /\ ~Opened(v)
  <2>1. checkpoint[v] # None
    BY <1>3, RecordsDiffer
  <2> QED
    BY <2>1, <1>2 DEF IndexInv, VolumesOK, VolumeOK, Opened, IsOpen
<1>5. f \in {v} \cup (Entries(v) \cap passed) /\ f # NoFolder /\ (c.dir # NoFolder => f = c.dir)
  BY <1>3, <1>4, RecordsDiffer DEF NextFolder, FrontierOK
<1>6. UNCHANGED <<disk, catalog, seen, missed, passed, pc, records, paths, incoming, queue, batch>>
  BY DEF Claim
<1>7. Awaited' = Awaited
  BY <1>6, AwaitedSame
<1>8. crawl \in [Volume -> Crawl \cup {None}] /\ checkpoint \in [Volume -> Checkpoint \cup {None}]
  BY <1>2 DEF CrawlsTyped
<1> DEFINE k == checkpoint'[v]
<1> DEFINE Short == /\ torn' = IF skipped \subseteq passed THEN torn ELSE torn \cup {v}
                    /\ claimed.offset > Len(listing) /\ k = CompleteDirectory(claimed)
                    /\ crawl'[v] = crawl[v]
           Lists == /\ torn' = IF skipped \subseteq passed THEN torn ELSE torn \cup {v}
                    /\ claimed.offset <= Len(listing) /\ k = claimed
                    /\ crawl'[v] = [dir |-> f, offset |-> claimed.offset, rest |-> rest]
           Fails == /\ torn' = torn
                    /\ k = CompleteDirectory(Protect(claimed, f)) /\ crawl'[v] = crawl[v]
<1>9. Short \/ Lists \/ Fails
  <2> HIDE DEF claimed, listing, rest, skipped
  <2>1. \/ /\ torn' = IF skipped \subseteq passed THEN torn ELSE torn \cup {v}
           /\ IF claimed.offset > Len(listing)
              THEN /\ checkpoint' = [checkpoint EXCEPT ![v] = CompleteDirectory(claimed)]
                   /\ UNCHANGED crawl
              ELSE /\ checkpoint' = [checkpoint EXCEPT ![v] = claimed]
                   /\ crawl' = [crawl EXCEPT ![v] = [dir |-> f, offset |-> claimed.offset, rest |-> rest]]
        \/ /\ checkpoint' = [checkpoint EXCEPT ![v] = CompleteDirectory(Protect(claimed, f))]
           /\ UNCHANGED <<crawl, torn>>
    BY <1>1 DEF claimed, listing, rest, skipped
  <2>2. ASSUME NEW r PROVE [checkpoint EXCEPT ![v] = r][v] = r /\ [crawl EXCEPT ![v] = r][v] = r
    BY <1>8
  <2>3. claimed.offset > Len(listing) \/ claimed.offset <= Len(listing)
    BY <1>3
  <2>4. CASE checkpoint' = [checkpoint EXCEPT ![v] = CompleteDirectory(Protect(claimed, f))]
             /\ UNCHANGED <<crawl, torn>>
    BY <2>2, <2>4
  <2>5. CASE /\ torn' = IF skipped \subseteq passed THEN torn ELSE torn \cup {v}
             /\ claimed.offset > Len(listing)
             /\ checkpoint' = [checkpoint EXCEPT ![v] = CompleteDirectory(claimed)]
             /\ UNCHANGED crawl
    BY <2>2, <2>5
  <2>6. CASE /\ torn' = IF skipped \subseteq passed THEN torn ELSE torn \cup {v}
             /\ ~(claimed.offset > Len(listing))
             /\ checkpoint' = [checkpoint EXCEPT ![v] = claimed]
             /\ crawl' = [crawl EXCEPT ![v] = [dir |-> f, offset |-> claimed.offset, rest |-> rest]]
    BY <2>2, <2>3, <2>6
  <2> QED
    BY <2>1, <2>4, <2>5, <2>6
<1>10. CompleteDirectory(claimed) = [claimed EXCEPT !.dir = NoFolder, !.offset = 0]
       /\ Protect(claimed, f) = [claimed EXCEPT !.protected = claimed.protected \cup {f}]
  BY DEF CompleteDirectory, Protect
<1> HIDE DEF claimed, listing, rest, skipped
<1>a. /\ CompleteDirectory(claimed) \in Checkpoint
      /\ Protect(claimed, f) \in Checkpoint
      /\ CompleteDirectory(Protect(claimed, f)) \in Checkpoint
  BY <1>3, CheckpointMade
<1>b. /\ Protect(claimed, f).pending = c.pending \ {f}
      /\ Protect(claimed, f).protected = c.protected \cup {f}
  BY <1>3 DEF Checkpoint, Protect
<1>d. CompleteDirectory(Protect(claimed, f)).protected = c.protected \cup {f}
  BY <1>a, <1>b DEF Checkpoint, CompleteDirectory
<1>11. /\ k \in Checkpoint /\ k.pending = c.pending \ {f} /\ k.dir \in {NoFolder, f}
       /\ c.protected \subseteq k.protected
  <2>2. CASE k = CompleteDirectory(claimed)
    BY <1>a, <2>2, <1>3 DEF Checkpoint, CompleteDirectory
  <2>3. CASE k = claimed
    BY <2>3, <1>3
  <2>4. CASE k = CompleteDirectory(Protect(claimed, f))
    BY <1>a, <1>b, <2>4 DEF Checkpoint, CompleteDirectory
  <2> QED
    BY <1>9, <2>2, <2>3, <2>4
<1>12. k # None /\ v \in Volume /\ crawl'[v] # None
  <2>1. k # None
    BY <1>11, RecordsDiffer
  <2>2. CASE Lists
    <3>1. rest \in Seq(Entry)
      BY <2>2, <1>3 DEF rest
    <3>2. [dir |-> f, offset |-> claimed.offset, rest |-> rest] \in Crawl
      BY <3>1, <1>3, CrawlMade
    <3> QED
      BY <2>1, <2>2, <3>2, RecordsDiffer
  <2>3. CASE Short \/ Fails
    BY <2>1, <2>3, <1>2
  <2> QED
    BY <1>9, <2>2, <2>3
<1>13. FrontierOK(v)'
  <2>1. k.pending \cup {k.dir} \subseteq {NoFolder, v} \cup (Entries(v) \cap passed')
        /\ NoFolder \notin k.pending
    BY <1>4, <1>5, <1>6, <1>11 DEF FrontierOK
  <2>2. ASSUME Opened(v)'
        PROVE  crawl'[v].dir = k.dir /\ \A x \in Range(crawl'[v].rest) : Parent[x] = k.dir
    <3>1. crawl'[v] # crawl[v]
      BY <2>2, <1>4 DEF Opened
    <3>2. k = claimed /\ crawl'[v] = [dir |-> f, offset |-> claimed.offset, rest |-> rest]
          /\ claimed.offset <= Len(listing)
      BY <3>1, <1>9
    <3>3. Range(rest) \subseteq Content(f)
      <4>1. \A i \in claimed.offset + 1 .. Len(listing) : i \in 1 .. Len(listing)
        BY <1>3
      <4> QED
        BY <4>1, <3>2, <1>3 DEF Range
    <3> QED
      BY <3>2, <3>3, <1>3 DEF Content
  <2> QED
    BY <2>1, <2>2, <1>12 DEF FrontierOK
<1>14. ASSUME NEW p \in Entries(v), v \notin torn', disk[p] # 0, Ahead(p, v)
       PROVE  Ahead(p, v)' \/ p \in Protected(v)'
  <2>0. p \in Entry
    BY DEF Entries
  <2>1. PICK x \in {p} \cup Above[p] :
          x \in Entry \ passed /\ (Parent[x] \in c.pending \/ Parent[x] = c.dir)
    BY <1>4, <1>14 DEF Ahead
  <2>2. CASE Parent[x] # f
    <3>1. Parent[x] \in k.pending
      BY <2>1, <2>2, <1>5, <1>11, DirAssumption
    <3> QED
      BY <3>1, <2>1, <1>6 DEF Ahead
  <2>3. CASE Parent[x] = f
    <3>1. disk[x] # 0
      BY <2>0, <2>1, <1>14 DEF IndexInv, TreesOK, Exists
    <3>2. x \in Range(listing)
      BY <3>1, <2>1, <2>3, <1>3 DEF Content
    <3>3. PICK i \in 1 .. Len(listing) : x = listing[i]
      BY <3>2, <1>3 DEF Range
    <3>4. CASE torn' = (IF skipped \subseteq passed THEN torn ELSE torn \cup {v})
      <4>1. skipped \subseteq passed
        BY <3>4, <1>14
      <4>2. ~(i <= claimed.offset)
        <5>1. SUFFICES ASSUME i <= claimed.offset PROVE FALSE
          OBVIOUS
        <5>2. i \in DOMAIN listing \cap 1 .. claimed.offset
          BY <5>1, <3>3, <1>3
        <5>3. x \in skipped
          BY <5>2, <3>3 DEF skipped
        <5> QED
          BY <5>3, <4>1, <2>1
      <4>3. i \in claimed.offset + 1 .. Len(listing) /\ claimed.offset <= Len(listing)
        BY <4>2, <3>3, <1>3
      <4>4. x \in Range(rest)
        BY <4>3, <3>3, <1>3
      <4>5. CASE crawl'[v] = [dir |-> f, offset |-> claimed.offset, rest |-> rest]
        <5>1. Opened(v)' /\ x \in Range(crawl'[v].rest)
          BY <4>4, <4>5, <1>5, <1>12 DEF Opened
        <5> QED
          BY <5>1, <2>1, <1>6 DEF Ahead
      <4>6. CASE k = CompleteDirectory(Protect(claimed, f))
        <5>1. f \in k.protected
          BY <1>d, <4>6
        <5>2. p \in InVolume(f)
          <6>1. CASE f \in Volume
            BY <6>1, <1>5, TreeAssumption DEF InVolume, Entries
          <6>2. CASE f \notin Volume
            <7>1. Parent[x] \in Above[x] /\ (x # p => Above[x] \subseteq Above[p])
              BY <2>0, <2>1, TreeAssumption
            <7> QED
              BY <7>1, <6>2, <2>0, <2>1, <2>3 DEF InVolume, Under
          <6> QED
            BY <6>1, <6>2
        <5> QED
          BY <5>1, <5>2 DEF Protected, InVolume, Entries, Under
      <4>7. ~(claimed.offset > Len(listing))
        BY <4>3, <1>3
      <4> QED
        BY <4>5, <4>6, <4>7, <1>9
    <3>5. CASE torn' = torn /\ k = CompleteDirectory(Protect(claimed, f))
      <4>1. f \in k.protected
        BY <1>d, <3>5
      <4>2. p \in InVolume(f)
        <5>1. CASE f \in Volume
          BY <5>1, <1>5, TreeAssumption DEF InVolume, Entries
        <5>2. CASE f \notin Volume
          <6>1. Parent[x] \in Above[x] /\ (x # p => Above[x] \subseteq Above[p])
            BY <2>0, <2>1, TreeAssumption
          <6> QED
            BY <6>1, <5>2, <2>0, <2>1, <2>3 DEF InVolume, Under
        <5> QED
          BY <5>1, <5>2
      <4> QED
        BY <4>1, <4>2 DEF Protected, InVolume, Entries, Under
    <3> QED
      BY <3>4, <3>5, <1>9
  <2> QED
    BY <2>2, <2>3
<1>15. Protected(v) \subseteq Protected(v)'
  BY <1>11 DEF Protected, InVolume, Entries, Under
<1>16. ASSUME NEW p \in Entries(v), v \notin torn' PROVE CrawledOK(p, v)'
  <2>1. v \notin torn
    BY <1>9, <1>16
  <2>2. CrawledOK(p, v)
    BY <2>1, <1>4 DEF IndexInv, VolumesOK, VolumeOK
  <2> QED
    BY <2>2, <1>6, <1>7, <1>14, <1>15, <1>16 DEF CrawledOK
<1> QED
  BY <1>12, <1>13, <1>16 DEF VolumeOK

\* A directory whose entries are all visited is done.
LEMMA VolumeExhausted ==
    ASSUME IndexInv, NEW v \in Volume, Exhausted(v)
    PROVE  VolumeOK(v)'
<1> USE DEF files, memory, database, history
<1> DEFINE c == checkpoint[v]
           k == checkpoint'[v]
<1>1. CrawlsTyped /\ crawl[v] # None /\ IsOpen(v) /\ crawl[v].rest = <<>>
  BY TypeParts DEF IndexInv, Exhausted, Crawling
<1>2. c \in Checkpoint /\ crawl'[v] = Closed /\ k = CompleteDirectory(c)
  BY <1>1, AdvanceTyped DEF CrawlsTyped, Exhausted
<1>3. c # None /\ FrontierOK(v) /\ Opened(v)
  <2>1. c # None
    BY <1>2, RecordsDiffer
  <2> QED
    BY <2>1, <1>1 DEF IndexInv, VolumesOK, VolumeOK, Opened, IsOpen
<1>4. k \in Checkpoint /\ crawl'[v] # None /\ crawl'[v].dir = NoFolder
  <2>1. v \in Folder /\ 0 \in Nat
    BY DEF Folder
  <2>2. k \in Checkpoint
    BY <1>2, <2>1, CheckpointMade
  <2> QED
    BY <1>2, <2>2, CrawlMade
<1>5. k.pending = c.pending /\ k.dir = NoFolder /\ k.protected = c.protected
  BY <1>2 DEF Checkpoint, CompleteDirectory
<1>6. k # None
  BY <1>4, RecordsDiffer
<1>7. UNCHANGED <<disk, catalog, seen, missed, passed, torn, pc, records, paths, incoming, queue, batch>>
  BY DEF Exhausted
<1>8. Awaited' = Awaited
  BY <1>7, AwaitedSame
<1>9. FrontierOK(v)'
  BY <1>3, <1>4, <1>5, <1>7 DEF FrontierOK, Opened
<1>10. \A p : Ahead(p, v) => Ahead(p, v)'
  <2>1. Range(crawl[v].rest) = {}
    BY <1>1 DEF Range
  <2> QED
    BY <2>1, <1>3, <1>5, <1>7 DEF Ahead
<1>11. Protected(v)' = Protected(v)
  BY <1>5 DEF Protected, InVolume, Entries, Under
<1>12. ASSUME NEW p \in Entries(v), v \notin torn' PROVE CrawledOK(p, v)'
  <2>1. CrawledOK(p, v)
    BY <1>3, <1>7, <1>12 DEF IndexInv, VolumesOK, VolumeOK
  <2> QED
    BY <2>1, <1>7, <1>8, <1>10, <1>11 DEF CrawledOK
<1> QED
  BY <1>6, <1>9, <1>12 DEF VolumeOK

\* What Visit and VisitFails do to the crawl.
LEMMA Advanced ==
    ASSUME IndexInv, NEW v \in Volume, Advance(v)
    PROVE  /\ crawl'[v] # None /\ crawl'[v].dir = crawl[v].dir /\ crawl[v] # None
           /\ Opened(v)' /\ crawl'[v].rest = Tail(crawl[v].rest)
           /\ passed' = passed \cup {Head(crawl[v].rest)}
           /\ UNCHANGED <<disk, missed, torn, pc, records, paths, incoming, queue, batch>>
           /\ Awaited' = Awaited
<1> USE DEF files, memory
<1> DEFINE c == crawl[v]
<1>1. CrawlsTyped /\ c # None /\ IsOpen(v) /\ c.rest # <<>>
  BY TypeParts DEF IndexInv, Advance, Crawling
<1>2. c \in Crawl /\ Tail(c.rest) \in Seq(Entry)
  BY <1>1, AdvanceTyped
<1>3. crawl'[v] = [c EXCEPT !.rest = Tail(c.rest), !.offset = c.offset + 1]
  BY <1>1 DEF CrawlsTyped, Advance
<1>4. c.offset + 1 \in Nat
  BY <1>2 DEF Crawl
<1>5. crawl'[v] \in Crawl
  <2>1. [c EXCEPT !.rest = Tail(c.rest), !.offset = c.offset + 1] \in Crawl
    <3> DEFINE t == Tail(c.rest)
               n == c.offset + 1
    <3> HIDE DEF t, n, c
    <3>1. [c EXCEPT !.rest = t, !.offset = n] \in Crawl
      BY <1>2, <1>4, CrawlMade DEF t, n
    <3> QED
      BY <3>1 DEF t, n
  <2> QED
    BY <2>1, <1>3
<1>6. crawl'[v].dir = c.dir /\ crawl'[v].rest = Tail(c.rest)
  BY <1>2, <1>3 DEF Crawl
<1>7. crawl'[v] # None
  BY <1>5, RecordsDiffer
<1>8. /\ passed' = passed \cup {Head(crawl[v].rest)}
      /\ UNCHANGED <<disk, missed, torn, pc, records, paths, incoming, queue, batch>>
  BY DEF Advance
<1>9. Awaited' = Awaited
  BY <1>8, AwaitedSame
<1> QED
  BY <1>1, <1>6, <1>7, <1>8, <1>9 DEF Opened, IsOpen

\* The entry that is visited is no longer ahead; what is below it stays so.
LEMMA VolumeVisit ==
    ASSUME IndexInv, NEW v \in Volume, Visit(v)
    PROVE  VolumeOK(v)'
<1> DEFINE b == Head(crawl[v].rest)
           c == checkpoint[v]
           k == checkpoint'[v]
<1>1. Advance(v) /\ Crawling(v) /\ IsOpen(v) /\ crawl[v].rest # <<>>
  BY DEF Visit, Advance
<1>2. /\ b \in Entries(v) /\ Parent[b] = c.dir /\ Parent[b] \in passed \cup Volume
      /\ c \in Checkpoint /\ c # None /\ Opened(v) /\ FrontierOK(v)
      /\ Range(crawl[v].rest) \subseteq Range(Tail(crawl[v].rest)) \cup {b}
      /\ Range(Tail(crawl[v].rest)) \subseteq Range(crawl[v].rest)
  BY <1>1, NextEntry
<1>3. /\ crawl'[v] # None /\ crawl'[v].dir = crawl[v].dir /\ crawl[v] # None
      /\ Opened(v)' /\ crawl'[v].rest = Tail(crawl[v].rest)
      /\ passed' = passed \cup {b}
      /\ UNCHANGED <<disk, missed, torn, pc, records, paths, incoming, queue, batch>>
      /\ Awaited' = Awaited
  BY <1>1, Advanced
<1>4. /\ catalog \in [Entry -> 0 .. 2] /\ checkpoint \in [Volume -> Checkpoint \cup {None}]
      /\ disk \in [Entry -> 0 .. 2]
  BY DEF IndexInv, TypeOK
<1>5. b \in Entry /\ b \notin Volume /\ b # NoFolder
  BY <1>2, TreeAssumption, DirAssumption DEF Entries
<1>6. /\ catalog' = [catalog EXCEPT ![b] = disk[b]] /\ disk[b] # 0
      /\ seen' = seen \cup {b}
  BY <1>3 DEF Visit, WriteRow
<1>7. k = IF b \in Dir THEN [c EXCEPT !.pending = c.pending \cup {b}] ELSE c
  BY <1>4 DEF Visit
<1>8. k \in Checkpoint
  <2>1. b \in Dir => b \in Folder
    BY DEF Folder
  <2> QED
    BY <2>1, <1>2, <1>7, CheckpointMade
<1>9. /\ k.pending = c.pending \cup ({b} \cap Dir) /\ k.dir = c.dir
      /\ k.protected = c.protected
  BY <1>2, <1>7 DEF Checkpoint
<1>10. k # None
  BY <1>8, RecordsDiffer
<1> HIDE DEF b, c, k
<1>11. FrontierOK(v)'
  <2>1. k.pending \cup {k.dir} \subseteq {NoFolder, v} \cup (Entries(v) \cap passed')
        /\ NoFolder \notin k.pending
    BY <1>2, <1>3, <1>5, <1>9 DEF FrontierOK, c
  <2>2. crawl'[v].dir = k.dir /\ \A x \in Range(crawl'[v].rest) : Parent[x] = k.dir
    BY <1>2, <1>3, <1>9 DEF FrontierOK, c
  <2> QED
    BY <2>1, <2>2, <1>3 DEF FrontierOK, k
<1>12. ASSUME NEW p \in Entries(v), p # b, Ahead(p, v)
       PROVE  Ahead(p, v)'
  <2>0. p \in Entry
    BY DEF Entries
  <2>1. PICK x \in {p} \cup Above[p] :
          x \in Entry \ passed /\ (Parent[x] \in c.pending \/ x \in Range(crawl[v].rest))
    BY <1>2, <1>12 DEF Ahead, c
  <2>2. CASE x # b
    <3>1. x \notin passed' /\ (Parent[x] \in k.pending \/ x \in Range(crawl'[v].rest))
      BY <2>1, <2>2, <1>2, <1>3, <1>9
    <3> QED
      BY <3>1, <2>1, <1>3 DEF Ahead, k
  <2>3. CASE x = b
    <3>1. b \in Above[p]
      BY <2>1, <2>3, <1>12
    <3>2. PICK q \in {p} \cup Above[p] : q \in Entry /\ Parent[q] = b
      BY <3>1, <2>0, TreeAssumption
    <3>3. b \in Dir
      BY <3>2, <1>5, DirAssumption
    <3>4. q \notin passed
      BY <3>2, <2>1, <2>3, <1>5 DEF IndexInv, PassedOK
    <3>5. q # b
      BY <3>2, TreeAssumption
    <3>6. Parent[q] \in k.pending /\ q \notin passed'
      BY <3>2, <3>3, <3>4, <3>5, <1>3, <1>9
    <3> QED
      BY <3>2, <3>6 DEF Ahead, k
  <2> QED
    BY <2>2, <2>3
<1>13. Protected(v)' = Protected(v)
  BY <1>9 DEF Protected, InVolume, Entries, Under, c, k
<1>14. ASSUME NEW p \in Entries(v), v \notin torn' PROVE CrawledOK(p, v)'
  <2>0. p \in Entry
    BY DEF Entries
  <2>1. CrawledOK(p, v)
    BY <1>2, <1>3, <1>14 DEF IndexInv, VolumesOK, VolumeOK, c
  <2>2. CASE p = b
    BY <2>2, <2>0, <1>3, <1>4, <1>6 DEF CrawledOK
  <2>3. CASE p # b
    <3>1. catalog'[p] = catalog[p] /\ (p \in seen' <=> p \in seen)
      BY <2>0, <2>3, <1>4, <1>6
    <3> QED
      BY <3>1, <2>1, <2>3, <1>3, <1>12, <1>13 DEF CrawledOK
  <2> QED
    BY <2>2, <2>3
<1> QED
  BY <1>10, <1>11, <1>14 DEF VolumeOK, k

\* An entry that cannot be examined is protected with all that is below it.
LEMMA VolumeVisitFails ==
    ASSUME IndexInv, NEW v \in Volume, VisitFails(v)
    PROVE  VolumeOK(v)'
<1> DEFINE b == Head(crawl[v].rest)
           c == checkpoint[v]
           k == checkpoint'[v]
<1>1. Advance(v) /\ Crawling(v) /\ IsOpen(v) /\ crawl[v].rest # <<>>
  BY DEF VisitFails, Advance
<1>2. /\ b \in Entries(v) /\ Parent[b] = c.dir /\ Parent[b] \in passed \cup Volume
      /\ c \in Checkpoint /\ c # None /\ Opened(v) /\ FrontierOK(v)
      /\ Range(crawl[v].rest) \subseteq Range(Tail(crawl[v].rest)) \cup {b}
      /\ Range(Tail(crawl[v].rest)) \subseteq Range(crawl[v].rest)
  BY <1>1, NextEntry
<1>3. /\ crawl'[v] # None /\ crawl'[v].dir = crawl[v].dir /\ crawl[v] # None
      /\ Opened(v)' /\ crawl'[v].rest = Tail(crawl[v].rest)
      /\ passed' = passed \cup {b}
      /\ UNCHANGED <<disk, missed, torn, pc, records, paths, incoming, queue, batch>>
      /\ Awaited' = Awaited
  BY <1>1, Advanced
<1>4. checkpoint \in [Volume -> Checkpoint \cup {None}]
  BY DEF IndexInv, TypeOK
<1>5. b \in Entry /\ b \notin Volume
  BY <1>2, TreeAssumption DEF Entries
<1>6. UNCHANGED <<catalog, seen>>
  BY DEF VisitFails
<1>7. k = Protect(c, b)
  BY <1>4 DEF VisitFails
<1>8. k \in Checkpoint
  BY <1>2, <1>5, <1>7, CheckpointMade
<1>9. k.pending = c.pending /\ k.dir = c.dir /\ k.protected = c.protected \cup {b}
  BY <1>2, <1>7 DEF Checkpoint, Protect
<1>10. k # None
  BY <1>8, RecordsDiffer
<1> HIDE DEF b, c, k
<1>11. FrontierOK(v)'
  <2>1. k.pending \cup {k.dir} \subseteq {NoFolder, v} \cup (Entries(v) \cap passed')
        /\ NoFolder \notin k.pending
    BY <1>2, <1>3, <1>9 DEF FrontierOK, c
  <2>2. crawl'[v].dir = k.dir /\ \A x \in Range(crawl'[v].rest) : Parent[x] = k.dir
    BY <1>2, <1>3, <1>9 DEF FrontierOK, c
  <2> QED
    BY <2>1, <2>2, <1>3 DEF FrontierOK, k
<1>12. ASSUME NEW p \in Entries(v), Ahead(p, v)
       PROVE  Ahead(p, v)' \/ p \in Protected(v)'
  <2>0. p \in Entry
    BY DEF Entries
  <2>1. PICK x \in {p} \cup Above[p] :
          x \in Entry \ passed /\ (Parent[x] \in c.pending \/ x \in Range(crawl[v].rest))
    BY <1>2, <1>12 DEF Ahead, c
  <2>2. CASE x # b
    <3>1. x \notin passed' /\ (Parent[x] \in k.pending \/ x \in Range(crawl'[v].rest))
      BY <2>1, <2>2, <1>2, <1>3, <1>9
    <3> QED
      BY <3>1, <2>1, <1>3 DEF Ahead, k
  <2>3. CASE x = b
    <3>1. b \in k.protected /\ p \in Under(b)
      BY <2>0, <2>1, <2>3, <1>9 DEF Under
    <3> QED
      BY <3>1, <1>5 DEF Protected, InVolume, Under, Entries, k
  <2> QED
    BY <2>2, <2>3
<1>13. Protected(v) \subseteq Protected(v)'
  BY <1>9 DEF Protected, InVolume, Entries, Under, c, k
<1>14. ASSUME NEW p \in Entries(v), v \notin torn' PROVE CrawledOK(p, v)'
  <2>1. CrawledOK(p, v)
    BY <1>2, <1>3, <1>14 DEF IndexInv, VolumesOK, VolumeOK, c
  <2> QED
    BY <2>1, <1>3, <1>6, <1>12, <1>13, <1>14 DEF CrawledOK
<1> QED
  BY <1>10, <1>11, <1>14 DEF VolumeOK, k

\* Nothing is ahead of a crawl that has claimed everything.
LEMMA NothingAhead ==
    ASSUME IndexInv, NEW v \in Volume, AllClaimed(v)
    PROVE  /\ \A p \in Entry : ~Ahead(p, v)
           /\ checkpoint[v] # None
<1>1. CrawlsTyped /\ crawl[v] # None /\ ~IsOpen(v)
  BY TypeParts DEF IndexInv, AllClaimed, Crawling
<1>2. ~Opened(v)
  BY <1>1 DEF Opened, IsOpen
<1>3. checkpoint[v].dir = NoFolder /\ checkpoint[v].pending = {}
  BY DEF AllClaimed
<1>4. \A x \in Entry : Parent[x] # NoFolder
  BY DirAssumption
<1>5. checkpoint[v] # None
  BY <1>1 DEF CrawlsTyped
<1> QED
  BY <1>2, <1>3, <1>4, <1>5 DEF Ahead

\* When the crawl is finished the rows that are left are right, and the rows
\* that are removed are those of entries that are gone.
LEMMA VolumeFinish ==
    ASSUME IndexInv, NEW v \in Volume, Finish(v)
    PROVE  VolumeOK(v)'
<1> USE DEF files, memory, database, history
<1>1. AllClaimed(v) /\ checkpoint'[v] = None
  BY DEF Finish, IndexInv, TypeOK
<1>2. checkpoint[v] # None /\ \A p \in Entry : ~Ahead(p, v)
  BY <1>1, NothingAhead
<1>3. UNCHANGED <<disk, missed, torn, pc, records, paths, incoming, queue, batch>>
      /\ catalog' = [p \in Entry |-> IF p \in Removable(v) THEN 0 ELSE catalog[p]]
      /\ kept' = (kept \ Entries(v)) \cup Protected(v)
  BY DEF Finish, RemoveRows
<1>4. Awaited' = Awaited
  BY <1>3, AwaitedSame
<1>5. ASSUME NEW p \in Entries(v), v \notin torn' PROVE RowOK(p)'
  <2>0. p \in Entry
    BY DEF Entries
  <2>1. CrawledOK(p, v) /\ ~Ahead(p, v)
    BY <2>0, <1>2, <1>3, <1>5 DEF IndexInv, VolumesOK, VolumeOK
  <2>2. catalog'[p] = IF p \in Removable(v) THEN 0 ELSE catalog[p]
    BY <2>0, <1>3
  <2>3. CASE p \in Removable(v)
    BY <2>1, <2>2, <2>3, <1>3, <1>4 DEF RowOK, CrawledOK, Removable
  <2>4. CASE p \notin Removable(v)
    BY <2>1, <2>2, <2>4, <1>3, <1>4 DEF RowOK, CrawledOK, Removable
  <2> QED
    BY <2>3, <2>4
<1> QED
  BY <1>1, <1>5 DEF VolumeOK

\* A step of a crawl.
LEMMA VolumesCrawl ==
    ASSUME IndexInv, NEW v \in Volume, CrawlStep(v)
    PROVE  VolumesOK'
<1>1. VolumeOK(v)'
  BY VolumeClaim, VolumeExhausted, VolumeVisit, VolumeVisitFails, VolumeFinish DEF CrawlStep
<1>2. \A w \in Volume : w # v => VolumeOK(w)'
  BY OthersQuiet
<1> QED
  BY <1>1, <1>2 DEF VolumesOK

\* Saving the offsets does not concern the frontier.
LEMMA VolumesEnd == IndexInv /\ EndBatch => VolumesOK'
<1> SUFFICES ASSUME IndexInv, EndBatch, NEW v \in Volume PROVE VolumeOK(v)'
  BY DEF VolumesOK
<1> USE DEF files, memory, database, history
<1>1. UNCHANGED <<disk, catalog, seen, missed, kept, passed, torn, records, paths, incoming, queue,
                  batch, crawl>>
      /\ pc = "batch"
      /\ checkpoint'[v] = IF crawl[v] # None /\ IsOpen(v)
                          THEN [checkpoint[v] EXCEPT !.offset = crawl[v].offset] ELSE checkpoint[v]
  BY DEF EndBatch
<1>2. Awaited' = Awaited
  BY <1>1, AwaitedSame
<1>3. CrawlsTyped /\ VolumeOK(v)
  BY TypeParts DEF IndexInv, VolumesOK
<1>4. CASE crawl[v] # None /\ IsOpen(v)
  <2>1. checkpoint[v] \in Checkpoint /\ crawl[v] \in Crawl
    BY <1>3, <1>4 DEF CrawlsTyped
  <2>2. checkpoint'[v] = [checkpoint[v] EXCEPT !.offset = crawl[v].offset]
    BY <1>1, <1>4
  <2>3. checkpoint'[v] \in Checkpoint
    <3>1. crawl[v].offset \in Nat /\ v \in Folder
      BY <2>1 DEF Crawl, Folder
    <3>2. [checkpoint[v] EXCEPT !.offset = crawl[v].offset] \in Checkpoint
      BY <2>1, <3>1, CheckpointMade
    <3> QED
      BY <2>2, <3>2
  <2>4. /\ checkpoint'[v].pending = checkpoint[v].pending /\ checkpoint'[v].dir = checkpoint[v].dir
        /\ checkpoint'[v].protected = checkpoint[v].protected
    BY <2>1, <2>2 DEF Checkpoint
  <2>5. checkpoint'[v] # None /\ checkpoint[v] # None
    BY <2>1, <2>3, RecordsDiffer
  <2>6. FrontierOK(v) /\ (v \notin torn => \A p \in Entries(v) : CrawledOK(p, v))
    BY <2>5, <1>3 DEF VolumeOK
  <2>7. FrontierOK(v)'
    BY <2>4, <2>5, <2>6, <1>1, FrontierKept
  <2>8. \A p \in Entries(v) : CrawledOK(p, v) => CrawledOK(p, v)'
    BY <2>4, <1>1, <1>2, EntryKept
  <2> QED
    BY <2>5, <2>6, <2>7, <2>8, <1>1 DEF VolumeOK
<1>5. CASE ~(crawl[v] # None /\ IsOpen(v))
  BY <1>1, <1>2, <1>3, <1>5, VolumeQuiet
<1> QED
  BY <1>4, <1>5

\* A change concerns its file, and the crawl of its volume when nobody watches.
LEMMA VolumesChange ==
    ASSUME IndexInv, NEW p \in Entry, Change(p)
    PROVE  VolumesOK'
<1> SUFFICES ASSUME NEW v \in Volume PROVE VolumeOK(v)'
  BY DEF VolumesOK
<1> USE DEF files, memory, database, history
<1>1. /\ UNCHANGED <<paths, incoming, queue, batch, pc, crawl, checkpoint, catalog, seen, kept, passed>>
      /\ torn \subseteq torn'
  BY DEF Change
<1>2. VolumeOK(v) /\ ShapeInv
  BY DEF IndexInv, VolumesOK, ShapeInv
<1>3. ASSUME NEW q \in Entry, q # p
      PROVE  disk'[q] = disk[q] /\ (q \in missed => q \in missed')
  BY <1>3 DEF Change, IndexInv, TypeOK
<1>4. PICK new \in Versions(p) :
        IF pc # "down" /\ {p, Parent[p]} \cap watches # {}
           THEN /\ records' = Report(p, KindOf(disk[p], new))
                /\ missed' = missed \ {p}
           ELSE /\ IF pc = "down" /\ checkpoint[VolumeOf(p)] # None
                   THEN torn' = torn \cup {VolumeOf(p)} ELSE UNCHANGED torn
                /\ missed' = IF pc = "down" THEN missed ELSE missed \cup {p}
                /\ UNCHANGED records
  BY DEF Change
<1>5. CASE pc # "down" /\ {p, Parent[p]} \cap watches # {}
  <2>1. KindOf(disk[p], new) \in FileKind
    BY DEF KindOf, FileKind
  <2>2. p \in Reported' /\ Reported \subseteq Reported'
    BY <1>1, <1>2, <1>4, <1>5, <2>1, ReportedGrows
  <2>3. Awaited \subseteq Awaited' /\ p \in Awaited'
    BY <2>2, <1>1 DEF Awaited
  <2>4. \A q \in Entries(v) : q # p => disk'[q] = disk[q] /\ (q \in missed => q \in missed')
    BY <1>3 DEF Entries
  <2> QED
    BY <2>3, <2>4, <1>1, <1>2, VolumeQuiet
<1>6. CASE ~(pc # "down" /\ {p, Parent[p]} \cap watches # {})
  <2>1. records' = records /\ missed \subseteq missed'
    BY <1>4, <1>6
  <2>2. Awaited' = Awaited
    BY <2>1, <1>1, AwaitedSame
  <2>3. \A q \in Entries(v) : q # p => disk'[q] = disk[q]
    BY <1>3 DEF Entries
  <2>4. CASE pc # "down"
    <3>1. p \in missed'
      BY <2>4, <1>4, <1>6
    <3> QED
      BY <3>1, <2>1, <2>2, <2>3, <1>1, <1>2, VolumeQuiet
  <2>5. CASE pc = "down" /\ checkpoint[v] # None
    <3>1. p \in Entries(v) => v \in torn'
      BY <2>5, <1>4, <1>6 DEF Entries
    <3> QED
      BY <3>1, <2>1, <2>2, <2>3, <1>1, <1>2, VolumeQuiet
  <2>6. CASE pc = "down" /\ checkpoint[v] = None
    BY <2>6, <1>1 DEF VolumeOK
  <2> QED
    BY <2>4, <2>5, <2>6
<1> QED
  BY <1>5, <1>6

\* The stages of the pipeline hand on what they take.
LEMMA VolumesPipeline ==
    ASSUME IndexInv, NEW v \in Volume,
           ReadWatcher \/ Submit \/ FallbackDue(v) \/ Paused \/ Pop
    PROVE  VolumesOK'
<1> SUFFICES ASSUME NEW w \in Volume PROVE VolumeOK(w)'
  BY DEF VolumesOK
<1> USE DEF files, memory, database, history
<1>1. UNCHANGED <<disk, checkpoint, catalog, seen, crawl, missed, kept, passed, torn>>
      /\ pc # "down"
  BY DEF ReadWatcher, Submit, FallbackDue, RequestRescan, Paused, Pop, IndexInv, StagesOK
<1>2. Awaited \subseteq Awaited'
  <2>1. ShapeInv /\ [Next]_vars /\ ~ProcessEvent /\ ~EventFails /\ pc' # "down"
    <3>1. ShapeInv
      BY DEF IndexInv, ShapeInv
    <3>2. Next
      BY DEF Next
    <3>3. pc' # "down"
      BY <1>1 DEF ReadWatcher, Submit, FallbackDue, RequestRescan, Paused, Pop
    <3>4. CASE pc = "batch"
      BY <3>4 DEF ReadWatcher, Submit, FallbackDue, Paused, Pop, IndexInv, StagesOK
    <3>5. CASE pc # "batch"
      BY <3>1, <3>2, <3>3, <3>5 DEF ProcessEvent, EventFails
    <3> QED
      BY <3>4, <3>5
  <2> QED
    BY <2>1, AwaitedStep
<1>3. VolumeOK(w)
  BY DEF IndexInv, VolumesOK
<1> QED
  BY <1>1, <1>2, <1>3, VolumeQuiet

\* The crawl frontier survives the process.
LEMMA FrontierSurvives ==
    ASSUME NEW v \in Volume, checkpoint[v] # None, FrontierOK(v), checkpoint'[v] = checkpoint[v],
           ~Opened(v)', passed' = passed, pc' = "down" \/ crawl'[v] # None
    PROVE  /\ FrontierOK(v)'
           /\ \A p : Ahead(p, v) => Ahead(p, v)'
           /\ Protected(v)' = Protected(v)
<1>1. FrontierOK(v)'
  BY DEF FrontierOK
<1>2. ASSUME NEW p, Ahead(p, v) PROVE Ahead(p, v)'
  <2>1. PICK x \in {p} \cup Above[p] :
          /\ x \in Entry \ passed
          /\ \/ Parent[x] \in checkpoint[v].pending
             \/ (Opened(v) /\ x \in Range(crawl[v].rest))
             \/ (~Opened(v) /\ Parent[x] = checkpoint[v].dir)
    BY <1>2 DEF Ahead
  <2>2. Parent[x] \in checkpoint[v].pending \/ Parent[x] = checkpoint[v].dir
    BY <2>1 DEF FrontierOK
  <2> QED
    BY <2>1, <2>2 DEF Ahead
<1>3. Protected(v)' = Protected(v)
  BY DEF Protected, InVolume, Entries, Under
<1> QED
  BY <1>1, <1>2, <1>3

\* A crawl that was not in doubt goes on where the process died.
LEMMA VolumeLost ==
    ASSUME IndexInv, NEW v \in Volume, NEW doubtful, LoseMemory(doubtful),
           checkpoint'[v] = checkpoint[v],
           \A p \in Entries(v) : v \notin torn' /\ checkpoint[v] # None /\ CrawledOK(p, v) =>
              \/ catalog'[p] = catalog[p] /\ (p \in seen' <=> p \in seen)
              \/ CrawledOK(p, v)'
    PROVE  VolumeOK(v)'
<1>1. /\ UNCHANGED <<disk, missed, kept, passed>> /\ pc' = "down" /\ crawl'[v] = None
      /\ torn' = torn \cup doubtful \cup {w \in Volume : Entries(w) \cap Awaited # {}}
  BY DEF LoseMemory
<1>2. CASE checkpoint[v] = None
  BY <1>1, <1>2 DEF VolumeOK
<1>3. CASE checkpoint[v] # None
  <2>1. FrontierOK(v) /\ (v \notin torn => \A p \in Entries(v) : CrawledOK(p, v))
    BY <1>3 DEF IndexInv, VolumesOK, VolumeOK
  <2>2. ~Opened(v)'
    BY <1>1 DEF Opened
  <2>3. FrontierOK(v)' /\ (\A p : Ahead(p, v) => Ahead(p, v)') /\ Protected(v)' = Protected(v)
    BY <2>1, <2>2, <1>1, <1>3, FrontierSurvives
  <2>4. ASSUME NEW p \in Entries(v), v \notin torn' PROVE CrawledOK(p, v)'
    <3>1. CrawledOK(p, v) /\ p \notin Awaited
      BY <2>1, <2>4, <1>1
    <3>2. CASE catalog'[p] = catalog[p] /\ (p \in seen' <=> p \in seen)
      BY <3>1, <3>2, <2>3, <1>1 DEF CrawledOK
    <3> QED
      BY <3>1, <3>2, <2>4, <1>3
  <2> QED
    BY <2>3, <2>4, <1>3 DEF VolumeOK
<1> QED
  BY <1>2, <1>3

\* The process dies, also between the two writes of a visit and of the end.
LEMMA VolumesCrash ==
    ASSUME IndexInv, NEW v \in Volume, Crash \/ CrashInVisit(v) \/ CrashInFinish(v)
    PROVE  VolumesOK'
<1> SUFFICES ASSUME NEW w \in Volume PROVE VolumeOK(w)'
  BY DEF VolumesOK
<1> USE DEF database
<1>0. checkpoint' = checkpoint /\ catalog \in [Entry -> 0 .. 2]
      /\ \A p \in seen : catalog[p] # 0
  BY DEF Crash, CrashInVisit, CrashInFinish, IndexInv, TypeOK
<1>1. CASE Crash
  BY <1>1, VolumeLost DEF Crash
<1>2. CASE CrashInVisit(v)
  <2> DEFINE b == Head(crawl[v].rest)
  <2>1. Crawling(v) /\ IsOpen(v) /\ crawl[v].rest # <<>> /\ LoseMemory({v}) /\ WriteRow(b, v)
    BY <1>2 DEF CrashInVisit
  <2>2. b \in Entries(v)
    BY <2>1, NextEntry
  <2>3. CASE w = v
    <3>1. w \in torn'
      BY <2>1, <2>3 DEF LoseMemory
    <3> QED
      BY <3>1, <2>1, <1>0, VolumeLost
  <2>4. CASE w # v
    <3>1. ASSUME NEW p \in Entries(w)
          PROVE  catalog'[p] = catalog[p] /\ (p \in seen' <=> p \in seen)
      <4>1. p # b /\ p \in Entry
        BY <2>2, <2>4, OneVolume
      <4> QED
        BY <4>1, <2>1, <1>0 DEF WriteRow
    <3> QED
      BY <3>1, <2>1, <1>0, VolumeLost
  <2> QED
    BY <2>3, <2>4
<1>3. CASE CrashInFinish(v)
  <2>1. AllClaimed(v) /\ LoseMemory({})
        /\ catalog' = [p \in Entry |-> IF p \in Removable(v) THEN 0 ELSE catalog[p]]
        /\ seen' = seen \cap {p \in Entry : catalog'[p] # 0}
    BY <1>3 DEF CrashInFinish, RemoveRows
  <2>2. ASSUME NEW p \in Entry, p \notin Removable(v)
        PROVE  catalog'[p] = catalog[p] /\ (p \in seen' <=> p \in seen)
    <3>1. catalog'[p] = catalog[p]
      BY <2>1, <2>2
    <3> QED
      BY <3>1, <2>1, <1>0
  <2>3. CASE w # v
    <3>1. ASSUME NEW p \in Entries(w)
          PROVE  catalog'[p] = catalog[p] /\ (p \in seen' <=> p \in seen)
      <4>1. p \in Entry /\ p \notin Removable(v)
        BY <2>3, OneVolume DEF Removable
      <4> QED
        BY <4>1, <2>2
    <3> QED
      BY <3>1, <2>1, <1>0, VolumeLost
  <2>4. CASE w = v
    <3>1. checkpoint[v] # None /\ \A p \in Entry : ~Ahead(p, v)
      BY <2>1, NothingAhead
    <3>2. ASSUME NEW p \in Entries(w), v \notin torn', CrawledOK(p, v)
          PROVE  \/ catalog'[p] = catalog[p] /\ (p \in seen' <=> p \in seen)
                 \/ CrawledOK(p, w)'
      <4>0. p \in Entry
        BY DEF Entries
      <4>1. CASE p \notin Removable(v)
        BY <4>0, <4>1, <2>2
      <4>2. CASE p \in Removable(v)
        <5>1. p \notin Awaited /\ disk' = disk /\ missed' = missed
          BY <2>1, <3>2, <2>4 DEF LoseMemory
        <5>2. disk[p] # 0 => p \in missed
          BY <4>0, <4>2, <5>1, <3>1, <3>2 DEF CrawledOK, Removable
        <5>3. p \notin seen'
          BY <4>2, <2>1 DEF Removable
        <5> QED
          BY <5>1, <5>2, <5>3 DEF CrawledOK
      <4> QED
        BY <4>1, <4>2
    <3> QED
      BY <3>2, <2>1, <2>4, <1>0, VolumeLost
  <2> QED
    BY <2>3, <2>4
<1> QED
  BY <1>1, <1>2, <1>3

\* A volume without a crawl to go on with is rescanned.
LEMMA VolumesRestart == IndexInv /\ Restart => VolumesOK'
<1> SUFFICES ASSUME IndexInv, Restart, NEW v \in Volume PROVE VolumeOK(v)'
  BY DEF VolumesOK
<1> USE DEF database
<1>1. /\ UNCHANGED <<disk, queue, batch, checkpoint, catalog, seen, missed, kept, passed, torn>>
      /\ pc = "down" /\ crawl'[v] = IF checkpoint[v] = None THEN None ELSE Closed
      /\ checkpoint[v] = None => v \in requested'
  BY DEF Restart
<1>2. TypeOK /\ records = <<>> /\ queue = {} /\ batch = {} /\ incoming = <<>> /\ crawl[v] = None
  BY <1>1 DEF IndexInv, StagesOK
<1>3. Awaited = {}
  <2>1. Range(incoming) = {} /\ Reported = {}
    BY <1>2 DEF Range, Reported
  <2> QED
    BY <1>2, <2>1, CoveredFacts DEF Awaited
<1>4. CASE checkpoint[v] = None
  <2>1. Rescan(v) \in UNION Range(incoming')
    BY <1>1, <1>2, <1>4, RestartTyped
  <2>2. ASSUME NEW p \in Entries(v) PROVE p \in Awaited'
    <3>1. p \in Covered({Rescan(v)})
      BY CoveredFacts
    <3>2. Covered({Rescan(v)}) \subseteq Covered(UNION Range(incoming'))
      BY <2>1, CoveredBy
    <3> QED
      BY <3>1, <3>2 DEF Awaited
  <2> QED
    BY <2>2, <1>1, <1>4 DEF VolumeOK, RowOK
<1>5. CASE checkpoint[v] # None
  <2>1. crawl'[v] = Closed /\ ~Opened(v)' /\ crawl'[v] # None
    BY <1>1, <1>5, CrawlMade DEF Opened
  <2>2. FrontierOK(v) /\ (v \notin torn => \A p \in Entries(v) : CrawledOK(p, v))
    BY <1>5 DEF IndexInv, VolumesOK, VolumeOK
  <2>3. FrontierOK(v)' /\ (\A p : Ahead(p, v) => Ahead(p, v)') /\ Protected(v)' = Protected(v)
    BY <2>1, <2>2, <1>1, <1>5, FrontierSurvives
  <2>4. \A p \in Entries(v) : CrawledOK(p, v) => CrawledOK(p, v)'
    BY <2>3, <1>1, <1>3 DEF CrawledOK
  <2> QED
    BY <2>2, <2>3, <2>4, <1>1, <1>5 DEF VolumeOK
<1> QED
  BY <1>4, <1>5

\* Every step keeps every volume right.
LEMMA VolumesStep == IndexInv /\ [Next]_vars => VolumesOK'
<1> SUFFICES ASSUME IndexInv, [Next]_vars PROVE VolumesOK'
  OBVIOUS
<1>1. CASE UNCHANGED vars
  <2> SUFFICES ASSUME NEW v \in Volume PROVE VolumeOK(v)'
    BY DEF VolumesOK
  <2>1. VolumeOK(v)
    BY DEF IndexInv, VolumesOK
  <2>2. UNCHANGED <<disk, records, paths, incoming, queue, batch, pc, crawl, checkpoint, catalog,
                    seen, missed, kept, passed, torn>>
    BY <1>1 DEF vars, files, memory, database, history
  <2>3. Awaited' = Awaited
    BY <2>2, AwaitedSame
  <2> QED
    BY <2>1, <2>2, <2>3, VolumeQuiet
<1>2. ASSUME NEW v \in Volume, CrawlStep(v) PROVE VolumesOK'
  BY <1>2, VolumesCrawl
<1>3. ASSUME NEW p \in Entry, Change(p) PROVE VolumesOK'
  BY <1>3, VolumesChange
<1>4. ASSUME NEW v \in Volume, FallbackDue(v) PROVE VolumesOK'
  BY <1>4, VolumesPipeline
<1>5. CASE ReadWatcher \/ Submit \/ Paused \/ Pop
  <2>1. CASE Volume = {}
    BY <2>1 DEF VolumesOK
  <2>2. CASE Volume # {}
    BY <2>2, <1>5, VolumesPipeline
  <2> QED
    BY <2>1, <2>2
<1>6. ASSUME Crash PROVE VolumesOK'
  <2>1. CASE Volume = {}
    BY <2>1 DEF VolumesOK
  <2>2. CASE Volume # {}
    BY <2>2, <1>6, VolumesCrash
  <2> QED
    BY <2>1, <2>2
<1>7. ASSUME NEW v \in Volume, CrashInVisit(v) \/ CrashInFinish(v) PROVE VolumesOK'
  BY <1>7, VolumesCrash
<1>8. CASE ProcessEvent \/ EventFails \/ EndBatch \/ Restart
  BY <1>8, VolumesProcess, VolumesFail, VolumesEnd, VolumesRestart
<1> QED
  BY <1>1, <1>2, <1>3, <1>4, <1>5, <1>6, <1>7, <1>8 DEF Next

\* A crawl comes to a directory before its entries, and starts all over.
LEMMA PassedStep == IndexInv /\ [Next]_vars => PassedOK'
<1> SUFFICES ASSUME IndexInv, [Next]_vars PROVE PassedOK'
  OBVIOUS
<1> USE DEF files, memory, database, history, vars
<1>0. PassedOK /\ passed \subseteq Entry
  BY DEF IndexInv, TypeOK
<1>1. CASE passed' = passed
  BY <1>0, <1>1 DEF PassedOK
<1>2. ASSUME NEW vs, passed' = {p \in passed : VolumeOf(p) \notin vs} PROVE PassedOK'
  <2> SUFFICES ASSUME NEW x \in passed' PROVE Parent[x] \in passed' \cup Volume
    BY DEF PassedOK
  <2>1. x \in passed /\ x \in Entry /\ VolumeOf(x) \notin vs /\ Parent[x] \in passed \cup Volume
    BY <1>0, <1>2 DEF PassedOK
  <2>2. Parent[x] \in Above[x]
    BY <2>1, TreeAssumption
  <2>3. Parent[x] \in passed => VolumeOf(Parent[x]) = VolumeOf(x)
    BY <2>1, <2>2, <1>0, SameVolume
  <2> QED
    BY <2>1, <2>3, <1>2
<1>3. ASSUME NEW v \in Volume, CrawlStep(v) PROVE PassedOK'
  <2>1. CASE Claim(v) \/ Exhausted(v)
    BY <2>1, <1>1 DEF Claim, Exhausted
  <2>2. CASE Visit(v) \/ VisitFails(v)
    <3>1. Advance(v)
      BY <2>2 DEF Visit, VisitFails
    <3>2. Parent[Head(crawl[v].rest)] \in passed \cup Volume
      BY <3>1, NextEntry DEF Advance
    <3> QED
      BY <3>1, <3>2, <1>0 DEF Advance, PassedOK
  <2>3. CASE Finish(v)
    <3>1. passed' = {p \in passed : VolumeOf(p) \notin {v}}
      BY <2>3, <1>0 DEF Finish, Entries
    <3> QED
      BY <3>1, <1>2
  <2> QED
    BY <1>3, <2>1, <2>2, <2>3 DEF CrawlStep
<1>4. CASE ProcessEvent \/ EventFails
  <2>1. passed' = passed \/ \E vs : passed' = {p \in passed : VolumeOf(p) \notin vs}
    BY <1>4 DEF ProcessEvent, EventFails, StartCrawls
  <2> QED
    BY <2>1, <1>1, <1>2
<1>5. ASSUME NEW p \in Entry, Change(p) PROVE passed' = passed
  BY <1>5 DEF Change
<1>6. ASSUME NEW v \in Volume, FallbackDue(v) \/ CrashInVisit(v) \/ CrashInFinish(v) PROVE passed' = passed
  BY <1>6 DEF FallbackDue, CrashInVisit, CrashInFinish, LoseMemory
<1>7. CASE ReadWatcher \/ Submit \/ Paused \/ Pop \/ EndBatch \/ Crash \/ Restart \/ UNCHANGED vars
  <2>1. passed' = passed
    BY <1>7 DEF ReadWatcher, Submit, Paused, Pop, EndBatch, Crash, LoseMemory, Restart
  <2> QED
    BY <2>1, <1>1
<1> QED
  BY <1>1, <1>3, <1>4, <1>5, <1>6, <1>7 DEF Next

\* Every step keeps the invariant.
LEMMA IndexStep == IndexInv /\ [Next]_vars => IndexInv'
<1> SUFFICES ASSUME IndexInv, [Next]_vars PROVE IndexInv'
  OBVIOUS
<1>1. ShapeInv /\ DeletionsOK
  BY DEF IndexInv, ShapeInv
<1>2. ShapeInv' /\ DeletionsOK'
  BY <1>1, ShapeStep, DeletionsStep
<1>3. PassedOK' /\ VolumesOK'
  BY PassedStep, VolumesStep
<1> QED
  BY <1>2, <1>3 DEF IndexInv, ShapeInv

\* The invariant holds of an empty catalog and of one that agrees.
LEMMA IndexInit == Init => IndexInv
<1> SUFFICES ASSUME Init PROVE IndexInv
  OBVIOUS
<1>1. /\ disk \in [Entry -> 0 .. 1]
      /\ \A p \in Entry : disk[p] # 0 => \A f \in Above[p] : Exists(f, disk)
      /\ catalog \in [Entry -> 0 .. 1]
  BY DEF Init, Tree
<1>2. Range(<<>>) = {}
  BY DEF Range
<1>3. TypeOK
  <2>1. RowsTyped
    <3>1. \A p \in Entry : disk[p] \in 0 .. 1 /\ catalog[p] \in 0 .. 1
      BY <1>1
    <3>2. disk \in [Entry -> 0 .. 2] /\ catalog \in [Entry -> 0 .. 2]
      BY <1>1
    <3> QED
      BY <3>1, <3>2, DirAssumption DEF RowsTyped, Init
  <2>2. WatcherTyped
    <3>1. <<>> \in Seq(Record) /\ Len(<<>>) = 0 /\ 0 <= MaxRecords + 1
      BY EmptySeq, Bounds
    <3> QED
      BY <3>1 DEF WatcherTyped, Init
  <2>3. StagesTyped
    <3>1. <<>> \in Seq(SUBSET FileEvent) /\ Cardinality({}) = 0
      BY EmptySeq, FS_EmptySet
    <3>2. 0 <= MaxEvents /\ 0 <= MaxBatch /\ 0 \in 0 .. MaxBatch
      BY MaxEventsAssumption, Bounds
    <3>3. incoming = <<>> /\ queue = {} /\ batch = {} /\ left = 0
      BY DEF Init
    <3> QED
      BY <3>1, <3>2, <3>3 DEF StagesTyped
  <2>4. CrawlsTyped
    BY DEF CrawlsTyped, Init
  <2>5. RestTyped
    BY Bounds DEF RestTyped, Init
  <2> QED
    BY <2>1, <2>2, <2>3, <2>4, <2>5, TypeParts
<1>4. StagesOK
  BY DEF StagesOK, Init
<1>5. TreesOK
  BY <1>1 DEF TreesOK, TopDown, Init
<1>6. QueuesOK
  <2>1. IsFiniteSet({}) /\ Cardinality({}) = 0 /\ 0 <= MaxEvents
    BY FS_EmptySet, MaxEventsAssumption
  <2>2. Len(<<>>) = 0 /\ 0 # MaxRecords + 1
    BY Bounds
  <2>3. queue = {} /\ batch = {} /\ incoming = <<>> /\ records = <<>>
    BY DEF Init
  <2>4. QueueTyped(queue)
    BY <2>1, <2>3 DEF QueueTyped
  <2>5. Rescan(All) \notin UNION Range(incoming)
    BY <2>3, <1>2
  <2> QED
    BY <2>1, <2>2, <2>3, <2>4, <2>5 DEF QueuesOK
<1>7. DeletionsOK
  BY <1>2 DEF DeletionsOK, StaleDeletion, Init
<1>8. PassedOK /\ VolumesOK
  BY DEF PassedOK, VolumesOK, VolumeOK, Init
<1> QED
  BY <1>3, <1>4, <1>5, <1>6, <1>7, <1>8 DEF IndexInv

\* The invariant: what is on its way through the scheduler and what the crawls
\* still have to do account for every row that disagrees with its file.
THEOREM IndexInvariant == Spec => []IndexInv
  BY IndexInit, IndexStep, PTL DEF Spec

\* Every variable of the scheduler stays within its type.
THEOREM IndexTypeCorrect == Spec => []TypeOK
<1>1. IndexInv => TypeOK
  BY DEF IndexInv
<1> QED
  BY <1>1, IndexInvariant, PTL

\* A row that disagrees with its file is going to be looked at.
THEOREM NothingForgottenAlways == Spec => []NothingForgotten
<1>1. IndexInv => NothingForgotten
  <2> SUFFICES ASSUME IndexInv, pc # "down", NEW p \in Entry, catalog[p] # disk[p],
                      VolumeOf(p) \notin torn
               PROVE  p \in Promised \cup missed \cup kept
    BY DEF NothingForgotten
  <2> DEFINE v == VolumeOf(p)
  <2>1. v \in Volume /\ p \in Entries(v)
    BY TreeFacts DEF Entries
  <2>2. VolumeOK(v)
    BY <2>1 DEF IndexInv, VolumesOK
  <2>3. CASE checkpoint[v] = None
    <3>1. RowOK(p)
      BY <2>1, <2>2, <2>3 DEF VolumeOK
    <3> QED
      BY <3>1 DEF RowOK, Promised
  <2>4. CASE checkpoint[v] # None
    <3>1. crawl[v] # None
      BY <2>2, <2>4 DEF VolumeOK, FrontierOK
    <3> QED
      BY <3>1 DEF Promised
  <2> QED
    BY <2>3, <2>4
<1> QED
  BY <1>1, IndexInvariant, PTL

\* No event is lost on its way through the queue, also when it is full.
THEOREM QueueLosesNothingAlways == Spec => QueueLosesNothing
<1>1. IndexInv /\ [Next]_vars =>
        [pc' # "down" =>
            Reported \cup Covered(UNION Range(incoming)) \cup Covered(queue) \subseteq Awaited']_vars
  <2> SUFFICES ASSUME IndexInv, [Next]_vars, pc' # "down"
               PROVE  Waiting \subseteq Awaited'
    BY DEF Waiting
  <2>1. ShapeInv
    BY DEF IndexInv, ShapeInv
  <2> QED
    BY <2>1, AwaitedStep
<1> QED
  BY <1>1, IndexInvariant, PTL DEF Spec, QueueLosesNothing

\* Rows are removed of entries that are gone, or that a report brings back.
LEMMA RemovedRows ==
    ASSUME IndexInv, NEW v \in Volume, AllClaimed(v), RemoveRows(v),
           NEW p \in Entry, disk[p] # 0, catalog[p] # 0, catalog'[p] = 0
    PROVE  p \in Awaited \cup missed \/ VolumeOf(p) \in torn
<1>1. p \in Removable(v)
  BY DEF RemoveRows
<1>2. p \in Entries(v) /\ VolumeOf(p) = v
  BY <1>1 DEF Removable, Entries
<1>3. checkpoint[v] # None /\ ~Ahead(p, v)
  BY NothingAhead
<1>4. v \notin torn => CrawledOK(p, v)
  BY <1>2, <1>3 DEF IndexInv, VolumesOK, VolumeOK
<1> QED
  BY <1>1, <1>2, <1>3, <1>4 DEF CrawledOK, Removable

\* A row is written from what is on the disk.
LEMMA WrittenRow ==
    ASSUME IndexInv, NEW b \in Entry, NEW v, WriteRow(b, v),
           NEW p \in Entry, disk[p] # 0, catalog[p] # 0
    PROVE  catalog'[p] # 0
  BY DEF WriteRow, IndexInv, TypeOK

\* A crawl does not remove the row of a file it merely failed to come across.
THEOREM LiveRowsStayAlways == Spec => LiveRowsStay
<1>1. IndexInv /\ [Next]_vars =>
        [\A p \in Entry : disk[p] # 0 /\ catalog[p] # 0 /\ catalog'[p] = 0 =>
          p \in Awaited \cup missed \/ VolumeOf(p) \in torn]_vars
  <2> SUFFICES ASSUME IndexInv, Next, NEW p \in Entry,
                      disk[p] # 0, catalog[p] # 0, catalog'[p] = 0
               PROVE  p \in Awaited \cup missed \/ VolumeOf(p) \in torn
    BY DEF vars, database
  <2> USE DEF files, memory, database, history
  <2>1. ASSUME NEW v \in Volume, CrawlStep(v)
        PROVE  p \in Awaited \cup missed \/ VolumeOf(p) \in torn
    <3>1. catalog' # catalog
      OBVIOUS
    <3>2. CASE Finish(v)
      BY <3>2, RemovedRows DEF Finish
    <3>3. CASE Visit(v)
      <4>1. Head(crawl[v].rest) \in Entry
        BY <3>3, NextEntry DEF Visit, Advance, Entries
      <4>2. WriteRow(Head(crawl[v].rest), v)
        BY <3>3 DEF Visit
      <4> QED
        BY <4>1, <4>2, WrittenRow
    <3> QED
      BY <2>1, <3>1, <3>2, <3>3 DEF CrawlStep, Claim, Exhausted, VisitFails
  <2>2. CASE ProcessEvent
    <3>1. PICK e \in batch :
        CASE e.kind = "RESCAN" -> StartCrawls(RescannedBy(e.volume)) /\ UNCHANGED catalog
              [] e.kind = "DELETED" ->
                  /\ catalog' = [catalog EXCEPT ![e.path] = 0]
                  /\ seen' = seen \ {e.path}
                  /\ UNCHANGED <<crawl, checkpoint, history>>
              [] OTHER -> WriteRow(e.path, e.volume) /\ UNCHANGED <<crawl, checkpoint, history>>
      BY <2>2 DEF ProcessEvent
    <3>2. e.kind # "RESCAN" => catalog' \in {[catalog EXCEPT ![e.path] = 0],
                                             [catalog EXCEPT ![e.path] = disk[e.path]]}
      BY <3>1 DEF WriteRow
    <3>3. e.kind # "RESCAN"
      BY <3>1
    <3>4. p = e.path
      BY <3>2, <3>3 DEF IndexInv, TypeOK
    <3>5. p \in Covered(batch)
      BY <3>4 DEF Covered
    <3> QED
      BY <3>5 DEF Awaited
  <2>3. ASSUME NEW v \in Volume, CrashInVisit(v) PROVE FALSE
    <3>1. Head(crawl[v].rest) \in Entry
      BY <2>3, NextEntry DEF CrashInVisit, Entries
    <3>2. WriteRow(Head(crawl[v].rest), v)
      BY <2>3 DEF CrashInVisit
    <3> QED
      BY <3>1, <3>2, WrittenRow
  <2>4. ASSUME NEW v \in Volume, CrashInFinish(v)
        PROVE  p \in Awaited \cup missed \/ VolumeOf(p) \in torn
    BY <2>4, RemovedRows DEF CrashInFinish
  <2>5. catalog' # catalog
    OBVIOUS
  <2> QED
    BY <2>1, <2>2, <2>3, <2>4, <2>5
    DEF Next, Change, ReadWatcher, Submit, FallbackDue, Paused, Pop, EventFails, EndBatch, Crash, Restart
<1> QED
  BY <1>1, IndexInvariant, PTL DEF Spec, LiveRowsStay
================================================================================
