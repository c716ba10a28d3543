---------------------------- MODULE ContentSearch -----------------------------
(***************************************************************************)
(* The catalog, the full-text index and a search over both.  The index     *)
(* thread writes a file's row and then its text, in transactions of two    *)
(* databases; the user's command line scans disks as well; a search reads  *)
(* the text first and asks afterwards whose it is and what is permitted.   *)
(*                                                                         *)
(* Each disk holds one file, at the same path as the file of another disk  *)
(* of its place.  A row belongs to a volume, the text to a path, which     *)
(* stands here as its place.  The file may be looked at any time: what     *)
(* makes the scheduler look is modelled in IndexScheduler and              *)
(* WatchedVolumes.                                                         *)
(***************************************************************************)
EXTENDS VolumeRegistry, Naturals

CONSTANTS
    NoDisk,     \* no volume, no disk
    MaxVersion, \* bound: how often a file is written
    MaxChanges  \* bound: how often disks, files and permissions change

ASSUME SearchAssumption ==
    NoDisk \notin Medium /\ MaxVersion \in Nat \ {0} /\ MaxChanges \in Nat

VARIABLES
    version, \* how often a disk's file was written
    present, \* disks whose file exists
    rows,    \* the volumes with a row in the catalog
    texts,   \* the text of a place: what it was read from, and the file it is taken for
    indexAt, \* where the index thread is with a file
    volume,  \* ... and which
    body,    \* the text in its hands
    stage,   \* where the search is
    hits,    \* the places of the texts that matched, and the texts
    eligible,\* volumes whose text may be given to the embedding provider
    answer,  \* the volumes that are named in the results, with the texts
    embedded,\* ... and those whose text the provider was given
    granted, \* history: volumes whose content was permitted since the search began
    changes  \* how many changes there were

filesVars == <<version, present, rows, texts>>
workerVars == <<indexAt, volume, body>>
queryVars == <<stage, hits, eligible, answer, embedded, granted>>
contentVars == <<volumeVars, filesVars, workerVars, queryVars, changes>>

\* A content is what a disk's file held after one of its writes.
FileContent == [disk : Medium, version : 0 .. MaxVersion]
Nothing == [disk |-> NoDisk, version |-> 0]
NoText == [stamp |-> Nothing, body |-> Nothing]

Result == [volume : Medium, body : FileContent]

SearchTypeOK ==
    /\ VolumesTypeOK
    /\ version \in [Medium -> 0 .. MaxVersion]
    /\ present \subseteq Medium /\ rows \subseteq registered
    /\ texts \in [Place -> [stamp : FileContent, body : FileContent] \cup {NoText}]
    /\ indexAt \in {"idle", "content", "read", "stamp", "drop"}
    /\ volume \in registered \cup {NoDisk} /\ (indexAt # "idle" => volume # NoDisk)
    /\ body \in FileContent \cup {Nothing} /\ (indexAt = "stamp" => body # Nothing)
    /\ stage \in {"none", "lexical", "eligible", "volumes", "corpus", "entries", "filter", "page"}
    /\ hits \subseteq [place : Place, body : FileContent]
    /\ eligible \subseteq registered
    /\ answer \cup embedded \subseteq Result
    /\ granted \subseteq Medium
    /\ changes \in 0 .. MaxChanges

SearchInit ==
    /\ VolumesInit
    /\ version = [m \in Medium |-> 1] /\ present = Medium
    /\ rows = {} /\ texts = [p \in Place |-> NoText]
    /\ indexAt = "idle" /\ volume = NoDisk /\ body = Nothing
    /\ stage = "none" /\ hits = {} /\ eligible = {} /\ answer = {} /\ embedded = {}
    /\ granted = {} /\ changes = 0

-----------------------------------------------------------------------------
(* Disks, files and permissions change. *)

CountChange == changes < MaxChanges /\ changes' = changes + 1

MoveDisk(m) == (Plug(m) \/ Unplug(m)) /\ UNCHANGED <<filesVars, workerVars, queryVars>>

\* A file is written or created, or deleted; also on another computer.
WriteFile(m) ==
    /\ version[m] < MaxVersion
    /\ version' = [version EXCEPT ![m] = @ + 1]
    /\ present' = present \cup {m}
    /\ UNCHANGED <<volumeVars, rows, texts, workerVars, queryVars>>

DeleteFile(m) ==
    /\ m \in present
    /\ present' = present \ {m}
    /\ UNCHANGED <<volumeVars, version, rows, texts, workerVars, queryVars>>

Permit(v, level) ==
    /\ SetPermission(v, level)
    /\ granted' = IF stage # "none" /\ level = "content" THEN granted \cup {v} ELSE granted
    /\ UNCHANGED <<filesVars, workerVars, stage, hits, eligible, answer, embedded>>

\* A disk of the system that appears is open at once.
Refresh(r) ==
    /\ Discover(r) \/ Register(r)
    /\ granted' = IF stage = "none" THEN granted
                  ELSE granted \cup {v \in Medium : permission'[v] = "content"}
    /\ UNCHANGED <<filesVars, workerVars, stage, hits, eligible, answer, embedded>>

-----------------------------------------------------------------------------
(* FileCatalog. *)

\* The file the path of v leads to, if any.
FileAt(v) == At(v) \cap present

Rows(v) == IF FileAt(v) = {} THEN rows \ {v} ELSE rows \cup {v}

\* scan_volume() of the command line: one transaction, rows only.
ScanVolume(v) ==
    /\ Permitted(v) /\ At(v) # {}
    /\ rows' = Rows(v)
    /\ UNCHANGED <<volumeVars, version, present, texts, workerVars, queryVars>>

-----------------------------------------------------------------------------
(* IndexScheduler: the row of a file before its text. *)

Settle(p) == indexAt' = p /\ volume' = NoDisk /\ body' = Nothing

\* An event, or a crawl, makes the scheduler look at the file.  update_path()
\* refuses unless the volume is there and may be listed; what is refused is
\* counted and forgotten.
Look(v) ==
    /\ indexAt = "idle"
    /\ Permitted(v) /\ At(v) # {}
    /\ rows' = Rows(v)
    /\ indexAt' = IF FileAt(v) = {} THEN "drop" ELSE "content"
    /\ volume' = v
    /\ UNCHANGED <<volumeVars, version, present, texts, body, queryVars>>

\* A deletion is believed, and a row goes that a crawl has not come across.
Forget(v) ==
    /\ indexAt = "idle" /\ v \in registered
    /\ rows' = rows \ {v}
    /\ indexAt' = "drop" /\ volume' = v
    /\ UNCHANGED <<volumeVars, version, present, texts, body, queryVars>>

Opened(v) == permission[v] = "content"

\* _update_content(): the text is read where the user has opened the content.
UpdateContent ==
    /\ indexAt = "content"
    /\ indexAt' = IF Opened(volume) THEN "read" ELSE "drop"
    /\ UNCHANGED <<volumeVars, filesVars, volume, body, queryVars>>

ContentOf(m) == [disk |-> m, version |-> version[m]]

\* index_file(): the text, whatever disk the path leads to by now.  A file
\* that cannot be read loses its text, or the path does not resolve.
ReadText ==
    /\ indexAt = "read"
    /\ \/ \E m \in FileAt(volume) :
            indexAt' = "stamp" /\ body' = ContentOf(m) /\ UNCHANGED volume
       \/ indexAt' = "drop" /\ UNCHANGED <<volume, body>>
       \/ FileAt(volume) = {} /\ Settle("idle")
    /\ UNCHANGED <<volumeVars, filesVars, queryVars>>

\* ... and then stat(), by which the text is known to be current: with the
\* stamp it has, the text there is stays.
StampText ==
    /\ indexAt = "stamp"
    /\ IF FileAt(volume) = {} THEN UNCHANGED texts
       ELSE \E m \in FileAt(volume) :
              texts' = IF texts[PlaceOf[volume]].stamp = ContentOf(m) THEN texts
                       ELSE [texts EXCEPT ![PlaceOf[volume]] = [stamp |-> ContentOf(m), body |-> body]]
    /\ Settle("idle")
    /\ UNCHANGED <<volumeVars, version, present, rows, queryVars>>

\* remove_path() and record_unavailable() of the indexer.
DropText ==
    /\ indexAt = "drop"
    /\ texts' = [texts EXCEPT ![PlaceOf[volume]] = NoText]
    /\ Settle("idle")
    /\ UNCHANGED <<volumeVars, version, present, rows, queryVars>>

\* The process dies; the next one looks again, at some time.
IndexerDies ==
    /\ indexAt # "idle"
    /\ Settle("idle")
    /\ UNCHANGED <<volumeVars, filesVars, queryVars>>

-----------------------------------------------------------------------------
(* QueryService.search_page(): one read of a database after the other. *)

BeginSearch ==
    /\ stage \in {"none", "page"}
    /\ stage' = "lexical"
    /\ hits' = {} /\ eligible' = {} /\ answer' = {} /\ embedded' = {}
    /\ granted' = {v \in Medium : permission[v] = "content"}
    /\ UNCHANGED <<volumeVars, filesVars, workerVars>>

Texts(ps) == {[place |-> p, body |-> texts[p].body] : p \in {q \in ps : texts[q] # NoText}}

\* search_candidates(), or search_exact_phrase_candidates(): then, or without
\* a model for embeddings, there is no semantic search.
SearchLexical ==
    /\ stage = "lexical"
    /\ hits' \in SUBSET Texts(Place)
    /\ stage' \in {"eligible", "entries"}
    /\ UNCHANGED <<volumeVars, filesVars, workerVars, eligible, answer, embedded, granted>>

\* The catalog shows rows of volumes that are there and may be listed.
Searchable == {v \in rows : Permitted(v)}

FindEligible ==
    /\ stage = "eligible"
    /\ eligible' \in SUBSET Searchable
    /\ stage' = "volumes"
    /\ UNCHANGED <<volumeVars, filesVars, workerVars, hits, answer, embedded, granted>>

KeepOpened ==
    /\ stage = "volumes"
    /\ eligible' = {v \in eligible \cap available : Opened(v)}
    /\ stage' = "corpus"
    /\ UNCHANGED <<volumeVars, filesVars, workerVars, hits, answer, embedded, granted>>

\* The corpus is embedded and ranked; lexical hits win over semantic ones.
SearchCorpus ==
    /\ stage = "corpus"
    /\ embedded' = {[volume |-> v, body |-> texts[PlaceOf[v]].body] :
                       v \in {w \in eligible : texts[PlaceOf[w]] # NoText}}
    /\ \E similar \in SUBSET {PlaceOf[v] : v \in eligible} :
          hits' = hits \cup Texts(similar \ {h.place : h \in hits})
    /\ stage' = "entries" /\ eligible' = {}
    /\ UNCHANGED <<volumeVars, filesVars, workerVars, answer, granted>>

\* entries_by_paths(): a hit is attributed by its path to the volume that has
\* a row for it, of those at one place the one that is there.
AttributeHits ==
    /\ stage = "entries"
    /\ answer' = {r \in Result : /\ r.volume \in Searchable
                                 /\ [place |-> PlaceOf[r.volume], body |-> r.body] \in hits}
    /\ stage' = "filter" /\ hits' = {}
    /\ UNCHANGED <<volumeVars, filesVars, workerVars, eligible, embedded, granted>>

\* Mutant of PermittedHits: what the catalog lists is answered.
AllHits == answer

PermittedHits == {r \in answer : Opened(r.volume)}

FilterHits ==
    /\ stage = "filter"
    /\ answer' = PermittedHits
    /\ stage' = "page"
    /\ UNCHANGED <<volumeVars, filesVars, workerVars, hits, eligible, embedded, granted>>

-----------------------------------------------------------------------------

WorldStep ==
    \/ /\ CountChange
       /\ \/ \E m \in Medium : MoveDisk(m) \/ WriteFile(m) \/ DeleteFile(m)
          \/ \E v \in Medium, level \in Level : Permit(v, level)
    \/ /\ \E r \in Refresher : Refresh(r)
       /\ UNCHANGED changes

IndexStep ==
    \/ \E v \in Medium : Look(v) \/ Forget(v) \/ ScanVolume(v)
    \/ UpdateContent \/ ReadText \/ StampText \/ DropText \/ IndexerDies

QueryStep ==
    \/ BeginSearch \/ SearchLexical \/ FindEligible \/ KeepOpened \/ SearchCorpus
    \/ AttributeHits \/ FilterHits

SearchNext == WorldStep \/ ((IndexStep \/ QueryStep) /\ UNCHANGED changes)

SearchSpec == SearchInit /\ [][SearchNext]_contentVars

-----------------------------------------------------------------------------
(* Properties. *)

\* The user's decisions and the disks of the system.
Open == consented \cup System

\* The text is asked for by volume, and read by path: discovery grants nothing,
\* the thread reads where the user has opened the volume it asked for, and what
\* it reads and keeps is from a disk of that volume's place.  The disk itself
\* was opened, or, when disks were exchanged between the asking and the reading,
\* another one that is mounted at the same place: a disk that shares its place
\* with no other is neither read nor kept without the user's word.
NothingWithoutConsent ==
    /\ \A v \in Medium : permission[v] = "content" => v \in Open
    /\ indexAt \in {"read", "stamp"} => volume \in Open
    /\ indexAt = "stamp" => Together(volume, body.disk)
    /\ \A p \in Place : texts[p] # NoText =>
           PlaceOf[texts[p].body.disk] = p /\ \E v \in Open : PlaceOf[v] = p

\* Whatever the user withdraws while a search runs, and whichever disks come
\* and go: results name, and the provider is given texts under the names of,
\* volumes whose content was permitted at some moment since the search began,
\* and the texts were read from disks of their places.
AnswerAuthorised ==
    /\ \A r \in embedded : r.volume \in granted
    /\ stage = "page" => \A r \in answer : r.volume \in granted
    /\ \A r \in answer \cup embedded : Together(r.volume, r.body.disk)

\* The user's word for the volume that is named comes before every use of its
\* content: before it is read and kept, and, withdrawn or not in the meantime,
\* before it is answered or given to the provider.  It is not said that the disk
\* a text came from was itself opened: of disks that are mounted at one place one
\* after the other, one may be read, kept and answered in the name of another.
SearchAuthorised == NothingWithoutConsent /\ AnswerAuthorised

===============================================================================
