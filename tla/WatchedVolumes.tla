---------------------------- MODULE WatchedVolumes ----------------------------
(***************************************************************************)
(* BackgroundIndexService: the storage-watch thread polls the registry of  *)
(* disks, watches the trees of those it may read with inotify, and has the *)
(* disks that cannot be watched rescanned periodically.                    *)
(*                                                                         *)
(* A disk has one directory, its root.  inotify watches that directory,    *)
(* not the path: a watch ends with the mount, a second one on the same     *)
(* directory replaces the first.  The watcher keeps the descriptors and,   *)
(* beside them, the paths it believes to be watched.                       *)
(***************************************************************************)
EXTENDS VolumeRegistry

CONSTANT NoVolume  \* the kernel does not watch the directory

ASSUME NoVolumeAssumption == NoVolume \notin Medium

VARIABLES
    tick,     \* where the thread is
    known,    \* the disks the monitor saw at its last poll
    watched,  \* the disks taken care of
    fallback, \* those of them that are rescanned periodically
    believed, \* the watcher's paths, of the volumes' roots
    ended,    \* volumes with descriptors of watches the kernel has ended
    kernel    \* for a disk's root, the volume it is watched for

watcherVars == <<tick, known, watched, fallback, believed, ended, kernel>>
watchVars == <<volumeVars, watcherVars>>

WatchTypeOK ==
    /\ VolumesTypeOK
    /\ tick \in {"down", "tick", "polled", "compared"}
    /\ known \subseteq registered
    /\ fallback \subseteq watched /\ watched \subseteq registered
    /\ believed \cup ended \subseteq registered
    /\ kernel \in [Medium -> registered \cup {NoVolume}]
    /\ \A m \in Medium : kernel[m] # NoVolume => m \in mounted /\ Together(kernel[m], m)

NotWatched == [m \in Medium |-> NoVolume]

WatchInit ==
    /\ VolumesInit
    /\ tick = "down"
    /\ known = {} /\ watched = {} /\ fallback = {}
    /\ believed = {} /\ ended = {} /\ kernel = NotWatched

\* The kernel ends the watch of a disk that goes.
Eject(m) ==
    /\ Unplug(m)
    /\ kernel' = [kernel EXCEPT ![m] = NoVolume]
    /\ ended' = IF kernel[m] = NoVolume THEN ended ELSE ended \cup {kernel[m]}
    /\ UNCHANGED <<tick, known, watched, fallback, believed>>

\* add_tree() succeeds where something is mounted and the budget of watches
\* suffices; a path that is believed to be watched is left out.
Trees(vs, failing) == {v \in vs \ failing : At(v) # {}}

\* The new trees among those whose root is the disk m: at most one, as a
\* discovery finds one disk at a place.
NewAt(m, trees) == {v \in trees : m \in At(v)}

\* _watch() for the volumes vs, on top of what is watched already: what cannot
\* be watched is rescanned periodically.
Watch(vs, kept, periodic, paths, watches) ==
    \E failing \in SUBSET vs :
        LET trees == Trees(vs, failing)
        IN  /\ watched' = kept \cup vs
            /\ fallback' = periodic \cup (vs \ trees)
            /\ believed' = paths \cup trees
            /\ kernel' = [m \in Medium |->
                    IF NewAt(m, trees \ paths) = {} THEN watches[m]
                    ELSE CHOOSE v \in NewAt(m, trees \ paths) : TRUE]

\* The service is made and started: VolumeMonitor() reads the registry, and
\* start() watches what is permitted.
StartService ==
    /\ tick = "down"
    /\ known' = available
    /\ Watch({v \in available : Permitted(v)}, {}, {}, believed, kernel)
    /\ tick' = "tick"
    /\ UNCHANGED <<volumeVars, ended>>

\* poll() is due: refresh() reads the mount table, and then writes.
PollDiscovers == tick = "tick" /\ Discover("monitor") /\ UNCHANGED watcherVars

PollRegisters ==
    /\ tick = "tick"
    /\ Register("monitor")
    /\ tick' = "polled"
    /\ UNCHANGED <<known, watched, fallback, believed, ended, kernel>>

Gone == known \ available

\* Mutant of Kept: a disk that went stays watched, without its rescans.
KeptAll == watched

Kept == watched \ Gone

\* tick(): the disks that went are forgotten, those that came are watched.
CompareMounts ==
    /\ tick = "polled"
    /\ known' = available
    /\ Watch({v \in available \ known : Permitted(v)} \ Kept, Kept, fallback \ Gone, believed, kernel)
    /\ tick' = "compared"
    /\ UNCHANGED <<volumeVars, ended>>

\* remove_volume() finds the paths to give up through the descriptors.
Described == ended \cup {kernel[m] : m \in Medium}

\* The watched disks that are no longer permitted are let go, the permitted
\* ones that are not watched are watched.
ReviewPermissions ==
    /\ tick = "compared"
    /\ LET allowed == {v \in available : Permitted(v)}
           dropped == watched \ allowed
       IN  /\ Watch(allowed \ watched, watched \cap allowed, fallback \ dropped,
                    believed \ (dropped \cap Described),
                    [m \in Medium |-> IF kernel[m] \in dropped THEN NoVolume ELSE kernel[m]])
           /\ ended' = ended \ dropped
    /\ tick' = "tick"
    /\ UNCHANGED <<volumeVars, known>>

\* The process ends, and its watches with it.
ServiceDies ==
    /\ tick # "down"
    /\ tick' = "down"
    /\ known' = {} /\ watched' = {} /\ fallback' = {}
    /\ believed' = {} /\ ended' = {} /\ kernel' = NotWatched
    /\ refreshing' = refreshing \ {"monitor"}
    /\ discovered' = [discovered EXCEPT !["monitor"] = {}]
    /\ UNCHANGED <<mounted, registered, available, permission, consented>>

\* The thread asks whether a disk is permitted, not for what: two levels will do.
WatchNext ==
    \/ \E m \in Medium : Plug(m) /\ UNCHANGED watcherVars
    \/ \E m \in Medium : Eject(m)
    \/ (Discover("panel") \/ Register("panel")) /\ UNCHANGED watcherVars
    \/ \E v \in Medium, level \in {"none", "content"} : SetPermission(v, level) /\ UNCHANGED watcherVars
    \/ StartService \/ PollDiscovers \/ PollRegisters \/ CompareMounts \/ ReviewPermissions
    \/ ServiceDies

WatchSpec == WatchInit /\ [][WatchNext]_watchVars

-----------------------------------------------------------------------------
(* Properties. *)

\* No other known disk has the place of v.
AloneThere(v) == \A w \in registered : Together(w, v) => w = v

\* A disk that is taken care of is believed to be watched or is rescanned
\* periodically: where add_tree() failed, or a path was given up, the rescans go
\* on through disconnections, withdrawn permissions and restarts.  Where it is
\* there and not rescanned the belief is right, the kernel does watch it for its
\* volume, but for two cases: the kernel has ended a watch of it and the watcher
\* keeps the path (ConnectedGetsWatcher), or its place has another known disk,
\* for whose path, or by whose descriptor, the directory may be watched instead.
BlindVolumesRescanned ==
    /\ watched \subseteq believed \cup fallback
    /\ \A v \in (watched \cap mounted) \ (fallback \cup ended) : AloneThere(v) => kernel[v] = v

\* "Новый разрешённый диск получает watcher и фоновый rescan": a permitted
\* disk that a poll finds connected is watched by the kernel from then on, or
\* at least rescanned periodically.
ConnectedGetsWatcher ==
    [][\A v \in known' \ known :
          Permitted(v) /\ v \in mounted => kernel'[v] = v \/ v \in fallback']_watchVars

===============================================================================
