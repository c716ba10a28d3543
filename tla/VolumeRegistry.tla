---------------------------- MODULE VolumeRegistry ----------------------------
(***************************************************************************)
(* The registry of disks: which are known, which were there at the last    *)
(* discovery, and what the user has permitted on each.  Any process that   *)
(* has the database may refresh it: it reads the mount table and writes    *)
(* what it found later, while disks come and go.                           *)
(*                                                                         *)
(* A disk (a medium) is always mounted at the same place, which several    *)
(* disks may share one after the other, and its volume id is the disk.     *)
(***************************************************************************)
EXTENDS FiniteSets

CONSTANTS
    Medium,   \* the disks, and the ids of their volumes
    System,   \* those mounted at "/"
    Place,    \* mount points
    PlaceOf   \* where a disk is mounted

ASSUME PlaceAssumption == System \subseteq Medium /\ PlaceOf \in [Medium -> Place]

VARIABLES
    mounted,    \* the disks that are there
    registered, \* the rows of the table of volumes
    available,  \* those with is_available
    permission,
    refreshing, \* who has read the mount table and not written the registry yet
    discovered, \* ... and what was mounted then
    consented   \* history: disks whose content the user has ever opened

volumeVars == <<mounted, registered, available, permission, refreshing, discovered, consented>>

Level == {"none", "metadata", "content"}

\* The daemon's thread, and the panel or the user's command line.
Refresher == {"monitor", "panel"}

VolumesTypeOK ==
    /\ mounted \subseteq Medium
    /\ registered \subseteq Medium /\ available \subseteq registered
    /\ permission \in [Medium -> Level]
    /\ refreshing \subseteq Refresher /\ discovered \in [Refresher -> SUBSET Medium]
    /\ consented \subseteq registered

Together(v, m) == PlaceOf[v] = PlaceOf[m]

\* The disk at the place where v is mounted when it is there: v or another.
At(v) == {m \in mounted : Together(v, m)}

\* Some disks are there when the first process starts, one at a place.
VolumesInit ==
    /\ mounted \in {ms \in SUBSET Medium :
                       System \subseteq ms /\ \A m, n \in ms : Together(m, n) => m = n}
    /\ registered = {} /\ available = {}
    /\ permission = [v \in Medium |-> "none"]
    /\ refreshing = {} /\ discovered = [r \in Refresher |-> {}]
    /\ consented = {}

Plug(m) ==
    /\ At(m) = {}
    /\ mounted' = mounted \cup {m}
    /\ UNCHANGED <<registered, available, permission, refreshing, discovered, consented>>

Unplug(m) ==
    /\ m \in mounted \ System
    /\ mounted' = mounted \ {m}
    /\ UNCHANGED <<registered, available, permission, refreshing, discovered, consented>>

\* discover(): the mount table is read.
Discover(r) ==
    /\ r \notin refreshing
    /\ refreshing' = refreshing \cup {r}
    /\ discovered' = [discovered EXCEPT ![r] = mounted]
    /\ UNCHANGED <<mounted, registered, available, permission, consented>>

\* What a disk may be used for that was never seen before.
DefaultLevel(v) == IF v \in System THEN "content" ELSE "none"

\* INSERT ... ON CONFLICT DO UPDATE leaves the permission of a known disk alone.
LevelFor(v, r) == IF v \in discovered[r] \ registered THEN DefaultLevel(v) ELSE permission[v]

\* refresh(): one transaction, from what was discovered before.
Register(r) ==
    /\ r \in refreshing
    /\ registered' = registered \cup discovered[r]
    /\ available' = discovered[r]
    /\ permission' = [v \in Medium |-> LevelFor(v, r)]
    /\ refreshing' = refreshing \ {r}
    /\ discovered' = [discovered EXCEPT ![r] = {}]
    /\ UNCHANGED <<mounted, consented>>

\* set_permission(): a disk the registry does not know is refused.
SetPermission(v, level) ==
    /\ v \in registered
    /\ permission' = [permission EXCEPT ![v] = level]
    /\ consented' = IF level = "content" THEN consented \cup {v} ELSE consented
    /\ UNCHANGED <<mounted, registered, available, refreshing, discovered>>

Permitted(v) == v \in available /\ permission[v] # "none"

===============================================================================
