----------------------------- MODULE StorageProofs -----------------------------
(***************************************************************************)
(* Safety of the watched disks, of the search over their contents and of   *)
(* the cache of vectors, for any disks, places, files and passages.        *)
(*                                                                         *)
(* The disks: whatever the thread takes care of goes into the paths it     *)
(* believes to be watched or into the rescans, and leaves them only        *)
(* together with what is taken care of (WatchTakesCare).  A belief is      *)
(* right until a watch of the volume ends, which leaves a descriptor, or   *)
(* the directory is watched for another volume (RightlyBelieved).          *)
(*                                                                         *)
(* The search: a permission for contents comes from the user or from the   *)
(* discovery of a disk of the system; from the moment a search begins,     *)
(* whatever is permitted is noted as granted, so that each of its reads    *)
(* finds granted what it finds permitted (GrantedSince).  A text stays     *)
(* with the place of the disk it was read from (HitsPlaced).               *)
(*                                                                         *)
(* The cache: new vectors are not among the old ones, and what is left of  *)
(* a sequence without repetition has none (LinesJoin and EvictedFits).     *)
(***************************************************************************)
EXTENDS WatchedVolumes, ContentSearch, SemanticRetrieval, SequenceTheorems, TLAPS

-----------------------------------------------------------------------------
(* The registry of disks. *)

\* What the user, the kernel and the refreshing processes do to the registry.
VolumesStep ==
    \/ \E m \in Medium : Plug(m) \/ Unplug(m)
    \/ \E r \in Refresher : Discover(r) \/ Register(r)
    \/ \E v \in Medium, level \in Level : SetPermission(v, level)

\* An empty registry is typed.
LEMMA VolumesInitTyped == VolumesInit => VolumesTypeOK
<1> SUFFICES ASSUME VolumesInit PROVE VolumesTypeOK
  OBVIOUS
<1>1. permission \in [Medium -> Level]
  BY DEF VolumesInit, Level
<1> QED
  BY <1>1, PlaceAssumption DEF VolumesInit, VolumesTypeOK

\* It stays so, no disk is ever struck off, and the user's consents are kept.
LEMMA VolumesStayTyped ==
    ASSUME VolumesTypeOK, VolumesStep
    PROVE  /\ VolumesTypeOK'
           /\ registered \subseteq registered' /\ consented \subseteq consented'
<1> USE DEF VolumesTypeOK
<1>1. ASSUME NEW m \in Medium, Plug(m) \/ Unplug(m)
      PROVE  VolumesTypeOK' /\ registered' = registered /\ consented' = consented
  BY <1>1 DEF Plug, Unplug
<1>2. ASSUME NEW r \in Refresher, Discover(r)
      PROVE  VolumesTypeOK' /\ registered' = registered /\ consented' = consented
  BY <1>2 DEF Discover
<1>3. ASSUME NEW r \in Refresher, Register(r)
      PROVE  VolumesTypeOK' /\ registered \subseteq registered' /\ consented' = consented
  <2>1. permission' \in [Medium -> Level]
    BY <1>3 DEF Register, LevelFor, DefaultLevel, Level
  <2>2. discovered[r] \subseteq Medium /\ discovered' \in [Refresher -> SUBSET Medium]
    BY <1>3 DEF Register
  <2> QED
    BY <1>3, <2>1, <2>2 DEF Register
<1>4. ASSUME NEW v \in Medium, NEW level \in Level, SetPermission(v, level)
      PROVE  VolumesTypeOK' /\ registered' = registered /\ consented \subseteq consented'
  <2>1. permission' \in [Medium -> Level]
    BY <1>4 DEF SetPermission
  <2> QED
    BY <1>4, <2>1 DEF SetPermission
<1> QED
  BY <1>1, <1>2, <1>3, <1>4 DEF VolumesStep

-----------------------------------------------------------------------------
(* The watched disks. *)

\* A watch of the kernel is for a volume of the place where the disk is.
KernelOK ==
    /\ kernel \in [Medium -> registered \cup {NoVolume}]
    /\ \A m \in Medium : kernel[m] # NoVolume => m \in mounted /\ Together(kernel[m], m)

\* One disk is mounted at a place at a time.
OneAtAPlace == \A m, n \in mounted : Together(m, n) => m = n

\* What is taken care of is believed to be watched, or rescanned.
CaredFor == watched \subseteq believed \cup fallback

\* A path is rightly believed to be watched while no watch of its volume has
\* ended and no other known disk has its place.
RightlyBelieved ==
    \A v \in believed \ ended : AloneThere(v) => \E m \in mounted : kernel[m] = v

\* The inductive invariant.
WatchInv == WatchTypeOK /\ OneAtAPlace /\ CaredFor /\ RightlyBelieved

\* With one disk at the place of a volume that is there, the disk that is
\* watched for the volume is its own.
LEMMA WatchedIndeed == WatchInv => BlindVolumesRescanned
<1> SUFFICES ASSUME WatchInv, NEW v \in (watched \cap mounted) \ (fallback \cup ended), AloneThere(v)
             PROVE  kernel[v] = v
  BY DEF BlindVolumesRescanned, WatchInv, CaredFor
<1>1. PICK m \in mounted : kernel[m] = v
  BY DEF WatchInv, CaredFor, RightlyBelieved
<1>2. m \in Medium /\ v \in Medium
  BY DEF WatchInv, WatchTypeOK, VolumesTypeOK
<1>3. Together(v, m)
  BY <1>1, <1>2, NoVolumeAssumption DEF WatchInv, WatchTypeOK
<1> QED
  BY <1>1, <1>3 DEF WatchInv, OneAtAPlace

LEMMA WatchInvInit == WatchInit => WatchInv
<1> SUFFICES ASSUME WatchInit PROVE WatchInv
  OBVIOUS
<1>1. VolumesTypeOK
  BY VolumesInitTyped DEF WatchInit
<1>2. KernelOK
  BY DEF WatchInit, NotWatched, KernelOK
<1>3. OneAtAPlace
  BY DEF WatchInit, VolumesInit, OneAtAPlace, Together
<1> QED
  BY <1>1, <1>2, <1>3 DEF WatchInit, WatchInv, WatchTypeOK, CaredFor, RightlyBelieved, KernelOK

\* _watch() leaves what it takes care of watched, as it believes, or rescanned,
\* and the kernel with watches for volumes that are there; what it comes to
\* believe is right as far as what it believed was.
LEMMA WatchTakesCare ==
    ASSUME VolumesTypeOK,
           NEW vs \in SUBSET registered, NEW kept \in SUBSET registered, NEW periodic \in SUBSET kept,
           NEW paths \in SUBSET registered, kept \subseteq paths \cup periodic,
           NEW watches \in [Medium -> registered \cup {NoVolume}],
           \A m \in Medium : watches[m] # NoVolume => m \in mounted /\ Together(watches[m], m),
           \A v \in paths \ ended' : AloneThere(v) => \E m \in mounted : watches[m] = v,
           Watch(vs, kept, periodic, paths, watches),
           UNCHANGED volumeVars
    PROVE  /\ fallback' \subseteq watched' /\ watched' \subseteq registered'
           /\ believed' \subseteq registered'
           /\ KernelOK' /\ CaredFor' /\ RightlyBelieved'
<1>1. PICK failing \in SUBSET vs :
        LET trees == Trees(vs, failing)
        IN  /\ watched' = kept \cup vs
            /\ fallback' = periodic \cup (vs \ trees)
            /\ believed' = paths \cup trees
            /\ kernel' = [m \in Medium |->
                    IF NewAt(m, trees \ paths) = {} THEN watches[m]
                    ELSE CHOOSE v \in NewAt(m, trees \ paths) : TRUE]
  BY DEF Watch
<1> DEFINE trees == Trees(vs, failing)
           new == [m \in Medium |-> NewAt(m, trees \ paths)]
           chosen == [m \in Medium |-> CHOOSE v \in new[m] : TRUE]
<1>2. trees \subseteq vs
  BY DEF Trees
<1>3. mounted' = mounted /\ registered' = registered
  BY DEF volumeVars
<1>4. \A m \in Medium : new[m] # {} => chosen[m] \in new[m]
  OBVIOUS
<1>5. \A m \in Medium : \A v \in new[m] : v \in registered /\ m \in mounted /\ Together(v, m)
  BY <1>2 DEF NewAt, At
<1>6. \A m \in Medium : kernel'[m] = IF new[m] = {} THEN watches[m] ELSE chosen[m]
  BY <1>1
<1> HIDE DEF new, chosen
<1>7. KernelOK'
  <2>1. \A m \in Medium : kernel'[m] \in registered \cup {NoVolume}
    BY <1>4, <1>5, <1>6
  <2>2. \A m \in Medium : kernel'[m] # NoVolume => m \in mounted /\ Together(kernel'[m], m)
    BY <1>4, <1>5, <1>6
  <2>3. kernel' \in [Medium -> registered \cup {NoVolume}]
    BY <1>1, <2>1
  <2> QED
    BY <1>3, <2>2, <2>3 DEF KernelOK, Together
<1>8. RightlyBelieved'
  <2> SUFFICES ASSUME NEW v \in believed' \ ended', AloneThere(v)
               PROVE  \E m \in mounted : kernel'[m] = v
    BY <1>3 DEF RightlyBelieved, AloneThere, Together
  <2>1. v \in registered
    BY <1>1, <1>2
  <2>2. \A m \in Medium : Together(v, m) => \A w \in new[m] : w = v
    BY <1>5 DEF AloneThere, Together
  <2>3. CASE v \in paths
    <3>1. PICK m \in mounted : watches[m] = v
      BY <2>3
    <3>2. m \in Medium /\ Together(v, m)
      BY <2>1, <3>1, NoVolumeAssumption DEF VolumesTypeOK
    <3> QED
      BY <1>4, <1>6, <2>2, <3>1, <3>2
  <2>4. CASE v \notin paths
    <3>1. v \in trees /\ At(v) # {}
      BY <1>1, <2>4 DEF Trees
    <3>2. PICK m \in mounted : m \in At(v) /\ Together(v, m)
      BY <3>1 DEF At
    <3>3. m \in Medium /\ v \in new[m]
      BY <2>4, <3>1, <3>2 DEF VolumesTypeOK, NewAt, new
    <3> QED
      BY <1>4, <1>6, <2>2, <3>2, <3>3
  <2> QED
    BY <2>3, <2>4
<1> QED
  BY <1>1, <1>2, <1>3, <1>7, <1>8 DEF CaredFor

\* The registry's changes leave what is watched alone.
LEMMA RegistryKeepsWatches ==
    ASSUME WatchInv, VolumesStep, mounted \subseteq mounted', OneAtAPlace', UNCHANGED watcherVars
    PROVE  WatchInv'
<1>1. VolumesTypeOK' /\ registered \subseteq registered'
  BY VolumesStayTyped DEF WatchInv, WatchTypeOK
<1>2. KernelOK'
  <2>1. kernel' = kernel
    BY DEF watcherVars
  <2> QED
    BY <1>1, <2>1 DEF WatchInv, WatchTypeOK, KernelOK, Together
<1>3. RightlyBelieved'
  BY <1>1 DEF WatchInv, RightlyBelieved, AloneThere, Together, watcherVars
<1> QED
  BY <1>1, <1>2, <1>3 DEF WatchInv, WatchTypeOK, CaredFor, watcherVars, KernelOK

\* A disk takes its watch with it, which the watcher keeps a descriptor of.
LEMMA EjectKeepsWatches ==
    ASSUME WatchInv, NEW m \in Medium, Eject(m)
    PROVE  WatchInv'
<1>1. VolumesTypeOK' /\ registered' = registered
  BY VolumesStayTyped DEF Eject, Unplug, VolumesStep, WatchInv, WatchTypeOK
<1>2. mounted' = mounted \ {m} /\ m \in mounted
  BY DEF Eject, Unplug
<1>3. KernelOK'
  BY <1>1, <1>2 DEF Eject, WatchInv, WatchTypeOK, KernelOK, Together
<1>4. ended' \subseteq registered'
  BY <1>1 DEF Eject, WatchInv, WatchTypeOK
<1>5. OneAtAPlace'
  BY <1>2 DEF WatchInv, OneAtAPlace, Together
<1>6. RightlyBelieved'
  <2> SUFFICES ASSUME NEW v \in believed \ ended', AloneThere(v)
               PROVE  \E n \in mounted' : kernel'[n] = v
    BY <1>1 DEF Eject, RightlyBelieved, AloneThere, Together
  <2>1. v \in Medium /\ v \notin ended
    BY DEF Eject, WatchInv, WatchTypeOK, VolumesTypeOK
  <2>2. PICK n \in mounted : kernel[n] = v
    BY <2>1 DEF WatchInv, RightlyBelieved
  <2>3. n # m
    BY <2>1, <2>2, NoVolumeAssumption DEF Eject
  <2> QED
    BY <1>2, <2>2, <2>3 DEF Eject, WatchInv, WatchTypeOK, VolumesTypeOK
<1> QED
  BY <1>1, <1>3, <1>4, <1>5, <1>6 DEF Eject, WatchInv, WatchTypeOK, CaredFor, KernelOK

\* The thread's own steps: what is let go of the volumes is let go of the
\* rescans, and what is taken in is watched or rescanned.
LEMMA ThreadKeepsWatches ==
    ASSUME WatchInv, StartService \/ CompareMounts \/ ReviewPermissions
    PROVE  WatchInv'
<1> USE DEF WatchInv, WatchTypeOK, VolumesTypeOK, CaredFor, KernelOK
<1>0. VolumesTypeOK /\ kernel \in [Medium -> registered \cup {NoVolume}]
  OBVIOUS
<1>1. CASE StartService
  <2>1. UNCHANGED <<volumeVars, ended>> /\ known' = available /\ tick' = "tick"
    BY <1>1 DEF StartService
  <2>2. Watch({v \in available : Permitted(v)}, {}, {}, believed, kernel)
    BY <1>1 DEF StartService
  <2>3. /\ fallback' \subseteq watched' /\ watched' \subseteq registered'
        /\ believed' \subseteq registered' /\ KernelOK' /\ CaredFor' /\ RightlyBelieved'
    BY <2>1, <2>2, WatchTakesCare DEF RightlyBelieved
  <2> QED
    BY <2>1, <2>3 DEF volumeVars, OneAtAPlace, Together
<1>2. CASE CompareMounts
  <2>1. UNCHANGED <<volumeVars, ended>> /\ known' = available /\ tick' = "compared"
    BY <1>2 DEF CompareMounts
  <2>2. Watch({v \in available \ known : Permitted(v)} \ Kept, Kept, fallback \ Gone, believed, kernel)
    BY <1>2 DEF CompareMounts
  <2>3. /\ Kept \subseteq registered /\ fallback \ Gone \subseteq Kept
        /\ Kept \subseteq believed \cup (fallback \ Gone)
    BY DEF Kept
  <2>4. {v \in available \ known : Permitted(v)} \ Kept \subseteq registered
    OBVIOUS
  <2>5. \A v \in believed \ ended' : AloneThere(v) => \E m \in mounted : kernel[m] = v
    BY <2>1 DEF RightlyBelieved
  <2>6. /\ believed \subseteq registered
        /\ \A m \in Medium : kernel[m] # NoVolume => m \in mounted /\ Together(kernel[m], m)
    OBVIOUS
  <2>7. /\ fallback' \subseteq watched' /\ watched' \subseteq registered'
        /\ believed' \subseteq registered' /\ KernelOK' /\ CaredFor' /\ RightlyBelieved'
    <3> HIDE DEF WatchInv, WatchTypeOK, VolumesTypeOK, CaredFor, KernelOK
    <3> QED BY <1>0, <2>1, <2>2, <2>3, <2>4, <2>5, <2>6, WatchTakesCare
  <2> QED
    BY <2>1, <2>7 DEF volumeVars, OneAtAPlace, Together
<1>3. CASE ReviewPermissions
  <2> DEFINE allowed == {v \in available : Permitted(v)}
             dropped == watched \ allowed
             left == [m \in Medium |-> IF kernel[m] \in dropped THEN NoVolume ELSE kernel[m]]
             paths == believed \ (dropped \cap Described)
  <2>1. UNCHANGED <<volumeVars, known>> /\ ended' = ended \ dropped /\ tick' = "tick"
    BY <1>3 DEF ReviewPermissions
  <2>2. Watch(allowed \ watched, watched \cap allowed, fallback \ dropped, paths, left)
    BY <1>3 DEF ReviewPermissions
  <2>3. /\ watched \cap allowed \subseteq registered
        /\ fallback \ dropped \subseteq watched \cap allowed
        /\ watched \cap allowed \subseteq paths \cup (fallback \ dropped)
        /\ allowed \ watched \subseteq registered /\ paths \subseteq registered
    OBVIOUS
  <2>4. /\ left \in [Medium -> registered \cup {NoVolume}]
        /\ \A m \in Medium : left[m] # NoVolume => m \in mounted /\ Together(left[m], m)
    OBVIOUS
  <2>5. \A v \in paths \ ended' : AloneThere(v) => \E m \in mounted : left[m] = v
    <3> SUFFICES ASSUME NEW v \in paths \ ended', AloneThere(v)
                 PROVE  \E m \in mounted : left[m] = v
      OBVIOUS
    <3>1. v \in believed \ ended
      BY <2>1 DEF Described
    <3>2. PICK m \in mounted : kernel[m] = v
      BY <3>1 DEF RightlyBelieved
    <3>3. m \in Medium /\ v \notin dropped
      BY <3>2 DEF Described
    <3> QED
      BY <3>2, <3>3
  <2> HIDE DEF allowed, dropped, left, paths
  <2>6. /\ fallback' \subseteq watched' /\ watched' \subseteq registered'
        /\ believed' \subseteq registered' /\ KernelOK' /\ CaredFor' /\ RightlyBelieved'
    <3> HIDE DEF WatchInv, WatchTypeOK, VolumesTypeOK, CaredFor, KernelOK
    <3> QED BY <1>0, <2>1, <2>2, <2>3, <2>4, <2>5, WatchTakesCare
  <2> QED
    BY <2>1, <2>6 DEF volumeVars, OneAtAPlace, Together
<1> QED
  BY <1>1, <1>2, <1>3

\* The process ends with all it believed.
LEMMA DeathKeepsWatches ==
    ASSUME WatchInv, ServiceDies
    PROVE  WatchInv'
<1>1. VolumesTypeOK'
  BY DEF ServiceDies, WatchInv, WatchTypeOK, VolumesTypeOK
<1> QED
  BY <1>1 DEF ServiceDies, WatchInv, WatchTypeOK, OneAtAPlace, CaredFor, RightlyBelieved, NotWatched,
              Together

\* Every step keeps the invariant.
LEMMA WatchInvNext == WatchInv /\ [WatchNext]_watchVars => WatchInv'
<1> SUFFICES ASSUME WatchInv, [WatchNext]_watchVars PROVE WatchInv'
  OBVIOUS
<1>1. CASE \E m \in Medium : Plug(m) /\ UNCHANGED watcherVars
  <2>1. PICK m \in Medium : Plug(m) /\ UNCHANGED watcherVars
    BY <1>1
  <2>2. OneAtAPlace'
    BY <2>1 DEF Plug, At, WatchInv, OneAtAPlace, Together
  <2> QED
    BY <2>1, <2>2, RegistryKeepsWatches DEF Plug, VolumesStep
<1>2. CASE \E m \in Medium : Eject(m)
  BY <1>2, EjectKeepsWatches
<1>3. CASE (Discover("panel") \/ Register("panel")) /\ UNCHANGED watcherVars
  BY <1>3, RegistryKeepsWatches DEF Discover, Register, VolumesStep, Refresher, WatchInv, OneAtAPlace, Together
<1>4. CASE \E v \in Medium, level \in {"none", "content"} :
               SetPermission(v, level) /\ UNCHANGED watcherVars
  BY <1>4, RegistryKeepsWatches DEF SetPermission, VolumesStep, Level, WatchInv, OneAtAPlace, Together
<1>5. CASE PollDiscovers
  BY <1>5, RegistryKeepsWatches DEF PollDiscovers, Discover, VolumesStep, Refresher, WatchInv, OneAtAPlace, Together
<1>6. CASE PollRegisters
  <2>1. Register("monitor") /\ mounted' = mounted
    BY <1>6 DEF PollRegisters, Register
  <2>2. VolumesTypeOK' /\ registered \subseteq registered'
    BY <2>1, VolumesStayTyped DEF VolumesStep, Refresher, WatchInv, WatchTypeOK
  <2>3. OneAtAPlace' /\ CaredFor'
    BY <1>6, <2>1 DEF PollRegisters, WatchInv, OneAtAPlace, CaredFor, Together
  <2>4. RightlyBelieved'
    BY <1>6, <2>1, <2>2 DEF PollRegisters, WatchInv, RightlyBelieved, AloneThere, Together
  <2> QED
    BY <1>6, <2>1, <2>2, <2>3, <2>4 DEF PollRegisters, WatchInv, WatchTypeOK, Together
<1>7. CASE StartService \/ CompareMounts \/ ReviewPermissions
  BY <1>7, ThreadKeepsWatches
<1>8. CASE ServiceDies
  BY <1>8, DeathKeepsWatches
<1>9. CASE UNCHANGED watchVars
  BY <1>9 DEF watchVars, volumeVars, watcherVars, WatchInv, WatchTypeOK, VolumesTypeOK,
              OneAtAPlace, CaredFor, RightlyBelieved, AloneThere, Together
<1> QED
  BY <1>1, <1>2, <1>3, <1>4, <1>5, <1>6, <1>7, <1>8, <1>9 DEF WatchNext

\* The watching thread's inductive invariant holds in every reachable state, for
\* any disks, places and failures of the watcher.
THEOREM WatchInvariant == WatchSpec => []WatchInv
  BY WatchInvInit, WatchInvNext, PTL DEF WatchSpec

\* What the thread believes and what the kernel watches stay within their types.
THEOREM WatchTypeCorrect == WatchSpec => []WatchTypeOK
<1>1. WatchInv => WatchTypeOK
  BY DEF WatchInv
<1> QED
  BY <1>1, WatchInvariant, PTL

\* A volume that is taken care of is believed to be watched, or rescanned
\* periodically, whatever comes and goes, is permitted, forbidden, or fails; and
\* where it is there, alone at its place and no watch of it has ended, it is
\* watched or rescanned indeed.
THEOREM BlindAlwaysRescanned == WatchSpec => []BlindVolumesRescanned
  BY WatchInvariant, WatchedIndeed, PTL

-----------------------------------------------------------------------------
(* The search over contents. *)

\* Whose content is permitted was granted since the search began; and so was,
\* when it was looked at, whatever is given to the provider or answered.
GrantedSince ==
    /\ stage # "none" => \A v \in Medium : permission[v] = "content" => v \in granted
    /\ stage = "corpus" => eligible \subseteq granted
    /\ AnswerAuthorised

\* A text that matched was read from a disk of the place it was found at.
HitsPlaced == \A h \in hits : PlaceOf[h.body.disk] = h.place

\* The inductive invariant.
SearchInv == SearchTypeOK /\ NothingWithoutConsent /\ GrantedSince /\ HitsPlaced

LEMMA SearchInvInit == SearchInit => SearchInv
<1> SUFFICES ASSUME SearchInit PROVE SearchInv
  OBVIOUS
<1>1. VolumesTypeOK
  BY VolumesInitTyped DEF SearchInit
<1>2. version \in [Medium -> 0 .. MaxVersion] /\ changes \in 0 .. MaxChanges
  BY SearchAssumption DEF SearchInit
<1>3. texts \in [Place -> [stamp : FileContent, body : FileContent] \cup {NoText}]
  BY DEF SearchInit
<1>4. SearchTypeOK
  BY <1>1, <1>2, <1>3 DEF SearchInit, SearchTypeOK
<1>5. NothingWithoutConsent
  BY DEF SearchInit, VolumesInit, NothingWithoutConsent
<1> QED
  BY <1>4, <1>5 DEF SearchInit, SearchInv, GrantedSince, AnswerAuthorised, HitsPlaced

\* What a file holds is a content.
LEMMA ContentTyped ==
    ASSUME SearchTypeOK, NEW m \in Medium
    PROVE  ContentOf(m) \in FileContent /\ ContentOf(m) # Nothing
  BY SearchAssumption DEF SearchTypeOK, ContentOf, FileContent, Nothing

\* What a search reads of the texts is from disks of their places.
LEMMA TextsPlaced ==
    ASSUME NothingWithoutConsent, NEW ps \in SUBSET Place, NEW h \in Texts(ps)
    PROVE  PlaceOf[h.body.disk] = h.place
<1>1. PICK p \in ps : texts[p] # NoText /\ h = [place |-> p, body |-> texts[p].body]
  BY DEF Texts
<1> QED
  BY <1>1 DEF NothingWithoutConsent

\* What a search reads of the texts is typed.
LEMMA TextsTyped ==
    ASSUME SearchTypeOK, NEW ps \in SUBSET Place
    PROVE  Texts(ps) \subseteq [place : Place, body : FileContent]
<1> SUFFICES ASSUME NEW p \in ps, texts[p] # NoText
             PROVE  [place |-> p, body |-> texts[p].body] \in [place : Place, body : FileContent]
  BY DEF Texts
<1>1. texts[p] \in [stamp : FileContent, body : FileContent]
  BY DEF SearchTypeOK
<1> QED
  BY <1>1

\* Disks, permissions and refreshes: a permission for contents comes from the
\* user, or from the discovery of a disk of the system.
LEMMA RegistryKeepsSearch ==
    ASSUME SearchInv,
           \/ \E m \in Medium : MoveDisk(m)
           \/ \E v \in Medium, level \in Level : Permit(v, level)
           \/ \E r \in Refresher : Refresh(r),
           changes' \in 0 .. MaxChanges
    PROVE  SearchInv'
<1>1. VolumesTypeOK
  BY DEF SearchInv, SearchTypeOK
<1>2. VolumesStep
  BY DEF MoveDisk, Permit, Refresh, VolumesStep
<1>3. /\ VolumesTypeOK'
      /\ registered \subseteq registered' /\ consented \subseteq consented'
  BY <1>1, <1>2, VolumesStayTyped
<1>4. /\ UNCHANGED <<filesVars, workerVars, stage, hits, eligible, answer, embedded>>
      /\ granted \subseteq granted' /\ granted' \subseteq Medium
      /\ stage # "none" => \A v \in Medium : permission'[v] = "content" =>
                              v \in granted' \/ permission[v] = "content"
  <2>1. CASE \E m \in Medium : MoveDisk(m)
    BY <2>1 DEF MoveDisk, Plug, Unplug, queryVars, SearchInv, SearchTypeOK
  <2>2. CASE \E v \in Medium, level \in Level : Permit(v, level)
    BY <2>2, <1>1 DEF Permit, SetPermission, SearchInv, SearchTypeOK, VolumesTypeOK
  <2>3. CASE \E r \in Refresher : Refresh(r)
    BY <2>3 DEF Refresh, SearchInv, SearchTypeOK
  <2> QED
    BY <2>1, <2>2, <2>3
<1>5. \A v \in Medium : permission'[v] = "content" => v \in Open'
  <2>1. CASE \E m \in Medium : MoveDisk(m)
    BY <2>1 DEF MoveDisk, Plug, Unplug, Open, SearchInv, NothingWithoutConsent
  <2>2. CASE \E v \in Medium, level \in Level : Permit(v, level)
    BY <2>2, <1>1 DEF Permit, SetPermission, Open, SearchInv, NothingWithoutConsent, VolumesTypeOK
  <2>3. CASE \E r \in Refresher : Discover(r)
    BY <2>3 DEF Discover, Open, SearchInv, NothingWithoutConsent
  <2>4. CASE \E r \in Refresher : Register(r)
    BY <2>4 DEF Register, LevelFor, DefaultLevel, Open, SearchInv, NothingWithoutConsent
  <2> QED
    BY <2>1, <2>2, <2>3, <2>4 DEF Refresh
<1>6. SearchTypeOK'
  BY <1>3, <1>4 DEF SearchInv, SearchTypeOK, filesVars, workerVars
<1>7. NothingWithoutConsent'
  BY <1>3, <1>4, <1>5 DEF SearchInv, NothingWithoutConsent, Open, Together, filesVars, workerVars
<1>8. GrantedSince' /\ HitsPlaced'
  BY <1>3, <1>4 DEF SearchInv, GrantedSince, HitsPlaced, AnswerAuthorised, Together, SearchTypeOK
<1> QED
  BY <1>6, <1>7, <1>8 DEF SearchInv

\* Files are written and deleted.
LEMMA FilesKeepSearch ==
    ASSUME SearchInv, NEW m \in Medium, WriteFile(m) \/ DeleteFile(m), changes' \in 0 .. MaxChanges
    PROVE  SearchInv'
<1>1. UNCHANGED <<volumeVars, rows, texts, workerVars, queryVars>>
  BY DEF WriteFile, DeleteFile
<1>2. version' \in [Medium -> 0 .. MaxVersion] /\ present' \subseteq Medium
  BY SearchAssumption DEF WriteFile, DeleteFile, SearchInv, SearchTypeOK
<1>3. SearchTypeOK'
  BY <1>1, <1>2 DEF SearchInv, SearchTypeOK, VolumesTypeOK, volumeVars, workerVars, queryVars
<1> QED
  BY <1>1, <1>3 DEF SearchInv, NothingWithoutConsent, Open, GrantedSince, HitsPlaced,
                    AnswerAuthorised, Together, volumeVars, workerVars, queryVars

\* Rows are written for volumes the registry knows.
LEMMA RowsKeepSearch ==
    ASSUME SearchInv, NEW v \in Medium, Look(v) \/ Forget(v) \/ ScanVolume(v), UNCHANGED changes
    PROVE  SearchInv'
<1>1. UNCHANGED <<volumeVars, version, present, texts, body, queryVars>>
  BY DEF Look, Forget, ScanVolume, workerVars
<1>2. rows' \subseteq registered
  BY DEF Look, Forget, ScanVolume, Rows, Permitted, SearchInv, SearchTypeOK, VolumesTypeOK
<1>3. \/ indexAt = "idle" /\ indexAt' \in {"content", "drop"} /\ volume' = v /\ v \in registered
      \/ indexAt' = indexAt /\ volume' = volume
  BY DEF Look, Forget, ScanVolume, workerVars, Permitted, SearchInv, SearchTypeOK, VolumesTypeOK
<1>4. SearchTypeOK'
  BY <1>1, <1>2, <1>3, SearchAssumption
     DEF SearchInv, SearchTypeOK, VolumesTypeOK, volumeVars, queryVars
<1>5. NothingWithoutConsent'
  BY <1>1, <1>3 DEF SearchInv, NothingWithoutConsent, Open, Together, volumeVars
<1> QED
  BY <1>1, <1>4, <1>5 DEF SearchInv, GrantedSince, HitsPlaced, AnswerAuthorised, Together,
                          volumeVars, queryVars

\* The text of a file: it is asked for, read, and stored, or taken out.
LEMMA TextKeepsSearch ==
    ASSUME SearchInv,
           UpdateContent \/ ReadText \/ StampText \/ DropText \/ IndexerDies,
           UNCHANGED changes
    PROVE  SearchInv'
<1> USE DEF SearchInv
<1>1. UNCHANGED <<volumeVars, version, present, rows, queryVars>>
  BY DEF UpdateContent, ReadText, StampText, DropText, IndexerDies, filesVars
<1>2. /\ indexAt' \in {"idle", "content", "read", "stamp", "drop"}
      /\ volume' \in registered \cup {NoDisk} /\ (indexAt' # "idle" => volume' # NoDisk)
      /\ body' \in FileContent \cup {Nothing} /\ (indexAt' = "stamp" => body' # Nothing)
      /\ indexAt' \in {"read", "stamp"} => volume' \in Open
      /\ indexAt' = "stamp" => Together(volume', body'.disk)
  <2>1. CASE UpdateContent
    BY <2>1 DEF UpdateContent, Opened, SearchTypeOK, VolumesTypeOK, NothingWithoutConsent
  <2>2. CASE ReadText
    BY <2>2, ContentTyped DEF ReadText, FileAt, At, ContentOf, Settle, SearchTypeOK, VolumesTypeOK,
       NothingWithoutConsent
  <2>3. CASE StampText \/ DropText \/ IndexerDies
    BY <2>3 DEF StampText, DropText, IndexerDies, Settle
  <2> QED
    BY <2>1, <2>2, <2>3
<1>3. /\ texts' \in [Place -> [stamp : FileContent, body : FileContent] \cup {NoText}]
      /\ \A p \in Place : texts'[p] # NoText =>
             PlaceOf[texts'[p].body.disk] = p /\ \E v \in Open : PlaceOf[v] = p
  <2>1. CASE UpdateContent \/ ReadText \/ IndexerDies
    BY <2>1 DEF UpdateContent, ReadText, IndexerDies, filesVars, SearchTypeOK, NothingWithoutConsent
  <2>2. CASE DropText
    BY <2>2 DEF DropText, SearchTypeOK, NothingWithoutConsent
  <2>3. CASE StampText
    <3>1. volume \in Medium /\ volume \in Open /\ body \in FileContent /\ Together(volume, body.disk)
      BY <2>3 DEF StampText, SearchTypeOK, VolumesTypeOK, NothingWithoutConsent
    <3>2. CASE texts' = texts
      BY <3>2 DEF SearchTypeOK, NothingWithoutConsent
    <3>3. ASSUME NEW m \in Medium,
                 texts' = [texts EXCEPT ![PlaceOf[volume]] = [stamp |-> ContentOf(m), body |-> body]]
          PROVE  /\ texts' \in [Place -> [stamp : FileContent, body : FileContent] \cup {NoText}]
                 /\ \A p \in Place : texts'[p] # NoText =>
                        PlaceOf[texts'[p].body.disk] = p /\ \E v \in Open : PlaceOf[v] = p
      BY <3>1, <3>3, ContentTyped DEF SearchTypeOK, NothingWithoutConsent, Together
    <3> QED
      BY <2>3, <3>2, <3>3 DEF StampText, FileAt, At, SearchTypeOK, VolumesTypeOK
  <2> QED
    BY <2>1, <2>2, <2>3
<1>4. SearchTypeOK'
  BY <1>1, <1>2, <1>3 DEF SearchTypeOK, VolumesTypeOK, volumeVars, queryVars
<1>5. NothingWithoutConsent'
  BY <1>1, <1>2, <1>3 DEF NothingWithoutConsent, Open, Together, volumeVars
<1> QED
  BY <1>1, <1>4, <1>5 DEF GrantedSince, HitsPlaced, AnswerAuthorised, Together, volumeVars, queryVars

\* A search reads: what is permitted at one of its reads was granted.
LEMMA QueryKeepsSearch ==
    ASSUME SearchInv, QueryStep, UNCHANGED changes
    PROVE  SearchInv'
<1> USE DEF SearchInv
<1>1. UNCHANGED <<volumeVars, filesVars, workerVars>>
  BY DEF QueryStep, BeginSearch, SearchLexical, FindEligible, KeepOpened, SearchCorpus,
         AttributeHits, FilterHits
<1>2. /\ stage' \in {"none", "lexical", "eligible", "volumes", "corpus", "entries", "filter", "page"}
      /\ hits' \subseteq [place : Place, body : FileContent]
      /\ eligible' \subseteq registered
      /\ answer' \cup embedded' \subseteq Result
      /\ granted' \subseteq Medium
      /\ GrantedSince' /\ HitsPlaced'
  <2> USE DEF GrantedSince, HitsPlaced, AnswerAuthorised, Together
  <2>0. permission' = permission
    BY <1>1 DEF volumeVars
  <2>1. CASE BeginSearch
    BY <2>0, <2>1 DEF BeginSearch, SearchTypeOK
  <2>2. CASE SearchLexical
    BY <2>0, <2>2, TextsTyped, TextsPlaced DEF SearchLexical, SearchTypeOK
  <2>3. CASE FindEligible
    BY <2>0, <2>3 DEF FindEligible, Searchable, SearchTypeOK
  <2>4. CASE KeepOpened
    BY <2>0, <2>4 DEF KeepOpened, Opened, SearchTypeOK, VolumesTypeOK
  <2>5. CASE SearchCorpus
    <3> DEFINE indexed == {w \in eligible : texts[PlaceOf[w]] # NoText}
    <3>1. \A v \in indexed : /\ v \in Medium /\ v \in granted
                             /\ texts[PlaceOf[v]] \in [stamp : FileContent, body : FileContent]
                             /\ PlaceOf[texts[PlaceOf[v]].body.disk] = PlaceOf[v]
      BY <2>5, PlaceAssumption DEF SearchCorpus, SearchTypeOK, VolumesTypeOK, NothingWithoutConsent
    <3>2. embedded' = {[volume |-> v, body |-> texts[PlaceOf[v]].body] : v \in indexed}
      BY <2>5 DEF SearchCorpus
    <3>3. /\ embedded' \subseteq Result
          /\ \A r \in embedded' : r.volume \in granted /\ Together(r.volume, r.body.disk)
      BY <3>1, <3>2 DEF Result
    <3>4. hits' \subseteq [place : Place, body : FileContent] /\ HitsPlaced'
      <4>1. PICK similar \in SUBSET {PlaceOf[v] : v \in eligible} :
              hits' = hits \cup Texts(similar \ {h.place : h \in hits})
        BY <2>5 DEF SearchCorpus
      <4>2. similar \ {h.place : h \in hits} \subseteq Place
        BY PlaceAssumption DEF SearchTypeOK, VolumesTypeOK
      <4> QED
        BY <4>1, <4>2, TextsTyped, TextsPlaced DEF SearchTypeOK
    <3> QED
      BY <2>0, <2>5, <3>3, <3>4 DEF SearchCorpus, SearchTypeOK
  <2>6. CASE AttributeHits
    <3>1. ASSUME NEW r \in answer'
          PROVE  r \in Result /\ PlaceOf[r.volume] = PlaceOf[r.body.disk]
      BY <2>6 DEF AttributeHits
    <3> QED
      BY <2>0, <2>6, <3>1 DEF AttributeHits, SearchTypeOK
  <2>7. CASE FilterHits
    <3>1. \A r \in answer : r.volume \in Medium
      BY DEF SearchTypeOK, Result
    <3> QED
      BY <2>0, <2>7, <3>1 DEF FilterHits, PermittedHits, Opened, SearchTypeOK
  <2> QED
    BY <2>1, <2>2, <2>3, <2>4, <2>5, <2>6, <2>7 DEF QueryStep
<1>3. SearchTypeOK'
  BY <1>1, <1>2 DEF SearchTypeOK, VolumesTypeOK, volumeVars, filesVars, workerVars
<1>4. NothingWithoutConsent'
  BY <1>1 DEF NothingWithoutConsent, Open, Together, volumeVars, filesVars, workerVars
<1> QED
  BY <1>2, <1>3, <1>4

\* Every step keeps the invariant.
LEMMA SearchInvNext == SearchInv /\ [SearchNext]_contentVars => SearchInv'
<1> SUFFICES ASSUME SearchInv, [SearchNext]_contentVars PROVE SearchInv'
  OBVIOUS
<1>1. CASE WorldStep
  <2>1. changes' \in 0 .. MaxChanges
    BY <1>1, SearchAssumption DEF WorldStep, CountChange, SearchInv, SearchTypeOK
  <2> QED
    BY <1>1, <2>1, RegistryKeepsSearch, FilesKeepSearch DEF WorldStep
<1>2. CASE IndexStep /\ UNCHANGED changes
  BY <1>2, RowsKeepSearch, TextKeepsSearch DEF IndexStep
<1>3. CASE QueryStep /\ UNCHANGED changes
  BY <1>3, QueryKeepsSearch
<1>4. CASE UNCHANGED contentVars
  BY <1>4 DEF contentVars, volumeVars, filesVars, workerVars, queryVars, SearchInv, SearchTypeOK,
              VolumesTypeOK, NothingWithoutConsent, Open, GrantedSince, HitsPlaced, AnswerAuthorised,
              Together
<1> QED
  BY <1>1, <1>2, <1>3, <1>4 DEF SearchNext

\* The inductive invariant of the index and the search holds in every reachable
\* state, for any disks and places and any number of writes and changes.
THEOREM SearchInvariant == SearchSpec => []SearchInv
  BY SearchInvInit, SearchInvNext, PTL DEF SearchSpec

\* Rows, texts, and the hands of the index thread and the search stay within
\* their types.
THEOREM SearchTypeCorrect == SearchSpec => []SearchTypeOK
<1>1. SearchInv => SearchTypeOK
  BY DEF SearchInv
<1> QED
  BY <1>1, SearchInvariant, PTL

\* No text is read or kept that was not asked for in the name of a volume the
\* user had opened, and it is from a disk of that volume's place.
THEOREM ConsentAlways == SearchSpec => []NothingWithoutConsent
<1>1. SearchInv => NothingWithoutConsent
  BY DEF SearchInv
<1> QED
  BY <1>1, SearchInvariant, PTL

\* Results name, and the provider is given texts in the name of, volumes whose
\* content was permitted since the search began; the texts are from disks of
\* their places.
THEOREM AnswersAuthorised == SearchSpec => []AnswerAuthorised
<1>1. SearchInv => AnswerAuthorised
  BY DEF SearchInv, GrantedSince
<1> QED
  BY <1>1, SearchInvariant, PTL

\* Both: the user's word for the volume that is named comes before every use of
\* its content, for any disks and places and whatever changes between the reads
\* of a search; a text may be that of another disk of the volume's place.
THEOREM SearchAuthorisedAlways == SearchSpec => []SearchAuthorised
  BY ConsentAlways, AnswersAuthorised, PTL DEF SearchAuthorised

-----------------------------------------------------------------------------
(* The cache of vectors. *)

\* A sequence in which nothing comes twice.
Distinct(q) == \A i, j \in 1 .. Len(q) : q[i] = q[j] => i = j

\* Passages that may be in the cache, in an order.
CacheLine(q) == q \in Seq(Passage) /\ Distinct(q)

\* An order of passages is a sequence of just them, each once.
LEMMA OrderIsLine ==
    ASSUME NEW ps \in SUBSET Passage, NEW q \in Orders(ps)
    PROVE  CacheLine(q) /\ Len(q) <= CacheSize /\ Range(q) = ps
<1>1. PICK n \in 0 .. CacheSize : q \in [1 .. n -> ps]
  BY DEF Orders
<1>2. n \in Nat
  BY <1>1, CacheAssumption
<1>3. q \in Seq(Passage) /\ Len(q) = n
  BY <1>1, <1>2
<1>4. Range(q) = ps /\ \A i, j \in DOMAIN q : q[i] = q[j] => i = j
  BY DEF Orders
<1> QED
  BY <1>1, <1>2, <1>3, <1>4, CacheAssumption DEF CacheLine, Distinct

\* And the other way round.
LEMMA LineIsOrder ==
    ASSUME NEW q, CacheLine(q), Len(q) <= CacheSize
    PROVE  q \in Orders(Range(q)) /\ Range(q) \subseteq Passage
<1>1. Len(q) \in 0 .. CacheSize /\ DOMAIN q = 1 .. Len(q)
  BY CacheAssumption DEF CacheLine
<1>2. q \in [1 .. Len(q) -> Range(q)]
  <2>1. q = [i \in 1 .. Len(q) |-> q[i]] /\ \A i \in 1 .. Len(q) : q[i] \in Range(q)
    BY <1>1 DEF CacheLine, Range
  <2> QED
    BY <2>1
<1>3. Range(q) \subseteq Passage
  BY <1>1 DEF CacheLine, Range
<1>4. q \in UNION {[1 .. n -> Range(q)] : n \in 0 .. CacheSize}
  <2> DEFINE S(n) == [1 .. n -> Range(q)]
  <2>1. q \in S(Len(q))
    BY <1>2
  <2>2. S(Len(q)) \in {S(n) : n \in 0 .. CacheSize}
    BY <1>1
  <2> QED
    BY <2>1, <2>2
<1> QED
  BY <1>1, <1>3, <1>4 DEF Orders, CacheLine, Distinct

\* New passages are cached behind the old ones.
LEMMA LinesJoin ==
    ASSUME NEW q, CacheLine(q), NEW r, CacheLine(r), Range(q) \cap Range(r) = {}
    PROVE  CacheLine(q \o r)
<1> DEFINE c == q \o r
<1>1. /\ q \in Seq(Passage) /\ r \in Seq(Passage)
      /\ Len(q) \in Nat /\ Len(r) \in Nat
  BY DEF CacheLine
<1>2. /\ c \in Seq(Passage) /\ Len(c) = Len(q) + Len(r)
      /\ \A i \in 1 .. Len(c) : c[i] = IF i <= Len(q) THEN q[i] ELSE r[i - Len(q)]
  BY <1>1
<1>3. \A i \in 1 .. Len(q), j \in 1 .. Len(r) : q[i] # r[j]
  BY <1>1 DEF Range
<1>4. ASSUME NEW i \in 1 .. Len(c), NEW j \in 1 .. Len(c), c[i] = c[j]
      PROVE  i = j
  <2> HIDE DEF c
  <2>1. CASE i <= Len(q) /\ j <= Len(q)
    <3>1. i \in 1 .. Len(q) /\ j \in 1 .. Len(q) /\ q[i] = q[j]
      BY <1>1, <1>2, <1>4, <2>1
    <3> QED
      BY <3>1 DEF CacheLine, Distinct
  <2>2. CASE i > Len(q) /\ j > Len(q)
    <3>1. i - Len(q) \in 1 .. Len(r) /\ j - Len(q) \in 1 .. Len(r) /\ r[i - Len(q)] = r[j - Len(q)]
      BY <1>1, <1>2, <1>4, <2>2
    <3>2. i - Len(q) = j - Len(q)
      BY <3>1 DEF CacheLine, Distinct
    <3> QED
      BY <1>1, <1>2, <3>2
  <2>3. CASE i <= Len(q) /\ j > Len(q)
    <3>1. i \in 1 .. Len(q) /\ j - Len(q) \in 1 .. Len(r) /\ q[i] = r[j - Len(q)]
      BY <1>1, <1>2, <1>4, <2>3
    <3> QED
      BY <1>3, <3>1
  <2>4. CASE i > Len(q) /\ j <= Len(q)
    <3>1. i - Len(q) \in 1 .. Len(r) /\ j \in 1 .. Len(q) /\ r[i - Len(q)] = q[j]
      BY <1>1, <1>2, <1>4, <2>4
    <3> QED
      BY <1>3, <3>1
  <2> QED
    BY <1>1, <1>2, <2>1, <2>2, <2>3, <2>4
<1> HIDE DEF c
<1>5. CacheLine(c)
  BY <1>2, <1>4 DEF CacheLine, Distinct
<1> QED
  BY <1>5 DEF c

\* What is left when the oldest have been pushed out fits the cache.
LEMMA EvictedFits ==
    ASSUME NEW q, CacheLine(q)
    PROVE  CacheLine(Evict(q)) /\ Len(Evict(q)) <= CacheSize
<1>1. q \in Seq(Passage) /\ Len(q) \in Nat
  BY DEF CacheLine
<1>2. CASE Len(q) <= CacheSize
  BY <1>1, <1>2, CacheAssumption DEF Evict
<1>3. CASE Len(q) > CacheSize
  <2> DEFINE k == Len(q) - CacheSize
             e == SubSeq(q, k + 1, Len(q))
  <2>1. k \in Nat /\ k + 1 \in 1 .. Len(q) /\ k + CacheSize = Len(q)
    BY <1>1, <1>3, CacheAssumption
  <2>2. /\ e \in Seq(Passage) /\ Len(e) = CacheSize
        /\ \A i \in 1 .. CacheSize : e[i] = q[i + k]
    <3>1. /\ e \in Seq(Passage) /\ Len(e) = Len(q) - (k + 1) + 1
          /\ \A i \in 1 .. Len(q) - (k + 1) + 1 : e[i] = q[(k + 1) + i - 1]
      BY <1>1, <2>1
    <3> HIDE DEF e
    <3>2. \A i \in 1 .. CacheSize : (k + 1) + i - 1 = i + k
      BY <2>1, CacheAssumption
    <3> QED
      BY <1>1, <2>1, <3>1, <3>2, CacheAssumption
  <2>3. Evict(q) = e
    BY <1>3 DEF Evict
  <2> HIDE DEF e
  <2>4. ASSUME NEW i \in 1 .. CacheSize, NEW j \in 1 .. CacheSize, e[i] = e[j]
        PROVE  i = j
    <3>1. i + k \in 1 .. Len(q) /\ j + k \in 1 .. Len(q)
      BY <1>1, <2>1, CacheAssumption
    <3>2. q[i + k] = q[j + k]
      BY <2>2, <2>4
    <3>3. i + k = j + k
      BY <3>1, <3>2 DEF CacheLine, Distinct
    <3> QED
      BY <2>1, <3>3, CacheAssumption
  <2> QED
    BY <2>2, <2>3, <2>4, CacheAssumption DEF CacheLine, Distinct
<1> QED
  BY <1>1, <1>2, <1>3, CacheAssumption

\* Whatever part of the missing vectors is made, the cache stays a cache.
LEMMA CacheStays ==
    ASSUME RetrieverTypeOK, NEW corpus \in SUBSET Passage, NEW part \in SUBSET Missing(corpus),
           NEW made \in Orders(part), vectors' = Evict(vectors \o made)
    PROVE  vectors' \in Orders(Range(vectors')) /\ Range(vectors') \subseteq Passage
<1>1. CacheLine(vectors)
  BY OrderIsLine DEF RetrieverTypeOK
<1>2. CacheLine(made) /\ Range(made) = part
  BY OrderIsLine DEF Missing
<1>3. CacheLine(vectors \o made)
  BY <1>1, <1>2, LinesJoin DEF Missing
<1>4. CacheLine(vectors') /\ Len(vectors') <= CacheSize
  BY <1>3, EvictedFits
<1> QED
  BY <1>4, LineIsOrder

LEMMA RetrieverInitTyped == RetrieverInit => RetrieverTypeOK
<1> SUFFICES ASSUME RetrieverInit PROVE RetrieverTypeOK
  OBVIOUS
<1>1. CacheLine(vectors) /\ Len(vectors) <= CacheSize
  BY CacheAssumption DEF RetrieverInit, CacheLine, Distinct
<1> QED
  BY <1>1, LineIsOrder DEF RetrieverInit, RetrieverTypeOK

LEMMA RetrieverNextTyped == RetrieverTypeOK /\ [RetrieverNext]_retrieverVars => RetrieverTypeOK'
<1> SUFFICES ASSUME RetrieverTypeOK, [RetrieverNext]_retrieverVars PROVE RetrieverTypeOK'
  OBVIOUS
<1>1. ASSUME NEW corpus \in Corpora, Search(corpus)
      PROVE  RetrieverTypeOK'
  <2>1. PICK made \in Orders(Missing(corpus)) : vectors' = Evict(vectors \o made)
    BY <1>1 DEF Search
  <2>2. vectors' \in Orders(Range(vectors')) /\ Range(vectors') \subseteq Passage
    BY <2>1, CacheStays DEF Corpora
  <2> QED
    BY <1>1, <2>2 DEF Search, RetrieverTypeOK
<1>2. ASSUME NEW corpus \in Corpora, ProviderFails(corpus)
      PROVE  RetrieverTypeOK'
  <2>1. PICK part \in SUBSET Missing(corpus) :
          \E made \in Orders(part) : vectors' = Evict(vectors \o made)
    BY <1>2 DEF ProviderFails
  <2>2. vectors' \in Orders(Range(vectors')) /\ Range(vectors') \subseteq Passage
    BY <2>1, CacheStays DEF Corpora
  <2> QED
    BY <1>2, <2>2 DEF ProviderFails, RetrieverTypeOK
<1>3. CASE SearchTooSoon \/ RetryDue
  BY <1>3 DEF SearchTooSoon, RetryDue, RetrieverTypeOK
<1>4. CASE UNCHANGED retrieverVars
  BY <1>4 DEF retrieverVars, RetrieverTypeOK
<1> QED
  BY <1>1, <1>2, <1>3, <1>4 DEF RetrieverNext

\* No vector is cached twice, and never more than the cache holds, whatever the
\* corpora, the order in which vectors are made, and the provider's failures.
THEOREM RetrieverTypeCorrect == RetrieverSpec => []RetrieverTypeOK
  BY RetrieverInitTyped, RetrieverNextTyped, PTL DEF RetrieverSpec

=============================================================================
