------------------------------ MODULE StorageProofs ----------------------------
(***************************************************************************)
(* Proofs about Storage, for any number of chains and blocks, and however  *)
(* often the process is killed or a file fails.                            *)
(***************************************************************************)
EXTENDS Storage, FiniteSetTheorems, SequenceTheorems, TLAPS

PcValues == {"down", "open", "genesis", "load", "running", "closing"}
Idle == {"down", "open", "load"}

EntryMaps == UNION {[S -> Entries] : S \in SUBSET Chains}
StoredMaps == UNION {[S -> StoredEntry] : S \in SUBSET Chains}

MetaType ==
    [initialized : BOOLEAN, nextCI : 0..NumChains, net : Nets \cup {Missing},
     SCM : (SUBSET Chains) \cup {Missing}, smSC : StoredMaps \cup {Missing}]

\* What is on the disk.
DiskType ==
    /\ lock \in BOOLEAN
    /\ meta \in MetaType
    /\ files \in [Chains -> [0..MaxBlocks -> Seq(Blocks \X Nat)]]
    /\ DOMAIN index = Chains
    /\ \A c \in Chains : DOMAIN index[c] \subseteq 1..MaxBlocks /\ MapsTo(index[c], IndexEntry)
    /\ last \in [Chains -> Nat]

\* What the process holds.
ProcessType ==
    /\ pc \in PcValues
    /\ config \in Configs \cup {Missing}
    /\ made \in BOOLEAN
    /\ chains \subseteq Chains
    /\ umapSC \in EntryMaps
    /\ todo \in Seq(Chains)
    /\ job \in Jobs
    /\ blocks \in 0..MaxBlocks /\ crashes \in 0..MaxCrashes

\* A file is begun for a block, and a number is used for one: neither the counters
\* of the files nor the heights run ahead of the blocks.
BoundInv ==
    /\ \A c \in DOMAIN umapSC : umapSC[c].counter <= blocks
    /\ meta.smSC # Missing => \A c \in DOMAIN meta.smSC : meta.smSC[c].counter <= blocks
    /\ \A c \in Chains : last[c] <= blocks
    /\ job # NoJob =>
         /\ job.chain \in DOMAIN umapSC
         /\ job.number <= blocks
         /\ job.step \in {"index", "roll"} => umapSC[job.chain].counter < blocks

\* Which chains and which raw files there are, in which phase.
PhaseInv ==
    /\ pc \in Idle => /\ umapSC = NoEntries /\ chains = {} /\ ~made
                      /\ todo = <<>> /\ job = NoJob
    /\ pc # "down" => config \in Configs
    /\ pc \notin {"down", "open"} => meta.initialized
    /\ pc = "genesis" => made /\ DOMAIN umapSC = chains
    /\ pc \in {"running", "closing"} => chains = Chains
    /\ meta.SCM # Missing => meta.SCM = Chains
    /\ meta.smSC # Missing => DOMAIN meta.smSC \in {{}, Chains} /\ meta.initialized
    /\ pc = "genesis" => meta.smSC = Missing
    /\ pc = "running" =>
         IF made THEN DOMAIN umapSC = Chains /\ meta.smSC = Missing
         ELSE DOMAIN umapSC = IF meta.smSC = Missing THEN {} ELSE DOMAIN meta.smSC

IndInv == DiskType /\ ProcessType /\ BoundInv /\ PhaseInv /\ SizeMatchesFile

-----------------------------------------------------------------------------
(* Maps and entries *)

LEMMA MapEntry ==
    ASSUME NEW m \in EntryMaps
    PROVE  /\ DOMAIN m \subseteq Chains
           /\ m \in [DOMAIN m -> Entries]
           /\ \A c \in DOMAIN m : m[c] \in Entries
  BY DEF EntryMaps

LEMMA MapIs ==
    ASSUME NEW S \in SUBSET Chains, NEW m \in [S -> Entries]
    PROVE  m \in EntryMaps
  BY DEF EntryMaps

LEMMA NoEntriesIsMap == NoEntries \in EntryMaps /\ DOMAIN NoEntries = {}
  BY DEF EntryMaps, NoEntries

LEMMA StoredMap ==
    ASSUME NEW m \in StoredMaps
    PROVE  /\ DOMAIN m \subseteq Chains
           /\ m \in [DOMAIN m -> StoredEntry]
           /\ m # Missing
  BY MissingAssumption DEF StoredMaps

LEMMA ChainsFinite ==
    ASSUME NEW S \in SUBSET Chains
    PROVE  IsFiniteSet(S) /\ Cardinality(S) \in Nat
<1>1. IsFiniteSet(Chains)
  BY FS_Interval, StorageAssumption DEF Chains
<1> QED
  BY <1>1, FS_Subset, FS_CardinalityType

\* Opening a raw file finds out its size.
LEMMA OpenedEntry ==
    ASSUME DiskType, ProcessType, NEW c \in Chains, NEW e \in Entries,
           NEW o \in Opened(c, e)
    PROVE  /\ o \in Entries
           /\ o.counter = e.counter
           /\ o.size = Len(files[c][o.counter])
           /\ o.stream \in {"open", "closed"}
           /\ o.stream = "closed" => crashes < MaxCrashes
<1>0. e.counter \in 0..MaxBlocks /\ e.size \in Nat
  BY DEF Entries
<1>1. files[c][e.counter] \in Seq(Blocks \X Nat)
  <2>1. files[c] \in [0..MaxBlocks -> Seq(Blocks \X Nat)]
    BY DEF DiskType
  <2> QED
    BY <1>0, <2>1
<1>2. Len(files[c][e.counter]) \in Nat
  BY <1>1
<1>3. PICK s \in {"open"} \cup (IF crashes < MaxCrashes THEN {"closed"} ELSE {}) :
        o = [e EXCEPT !.size = SizeOnDisk(c, e), !.stream = s]
  BY DEF Opened
<1>4. o = [size |-> Len(files[c][e.counter]), counter |-> e.counter, stream |-> s]
  BY <1>3 DEF Entries, SizeOnDisk
<1>5. s \in {"open", "closed"} /\ (s = "closed" => crashes < MaxCrashes)
  BY <1>3
<1>6. o \in Entries
  BY <1>0, <1>2, <1>4, <1>5 DEF Entries, Streams
<1> QED
  BY <1>4, <1>5, <1>6

\* So does opening all of them.
LEMMA AllOpenedEntries ==
    ASSUME DiskType, ProcessType, NEW m \in EntryMaps, NEW e \in AllOpened(m)
    PROVE  /\ e \in EntryMaps /\ DOMAIN e = DOMAIN m
           /\ \A c \in DOMAIN e : /\ e[c].counter = m[c].counter
                                  /\ e[c].size = Len(files[c][e[c].counter])
           /\ crashes + Failures(e) \in 0..MaxCrashes
<1>1. /\ DOMAIN e = DOMAIN m /\ DOMAIN m \subseteq Chains
      /\ e \in [DOMAIN m -> UNION {Opened(c, m[c]) : c \in DOMAIN m}]
      /\ \A c \in DOMAIN m : e[c] \in Opened(c, m[c])
      /\ crashes + Failures(e) <= MaxCrashes
  BY MapEntry DEF AllOpened
<1>2. \A c \in DOMAIN m : /\ e[c] \in Entries
                          /\ e[c].counter = m[c].counter
                          /\ e[c].size = Len(files[c][e[c].counter])
  <2> SUFFICES ASSUME NEW c \in DOMAIN m
               PROVE  /\ e[c] \in Entries
                      /\ e[c].counter = m[c].counter
                      /\ e[c].size = Len(files[c][e[c].counter])
    OBVIOUS
  <2>1. c \in Chains /\ m[c] \in Entries /\ e[c] \in Opened(c, m[c])
    BY <1>1, MapEntry
  <2> QED
    BY <2>1, OpenedEntry
<1>3. e \in [DOMAIN m -> Entries]
  BY <1>1, <1>2
<1>4. e \in EntryMaps
  BY <1>1, <1>3, MapIs
<1>5. Failures(e) \in Nat
  <2>1. {c \in DOMAIN e : e[c].stream = "closed"} \in SUBSET Chains
    BY <1>1
  <2> QED
    BY <2>1, ChainsFinite DEF Failures
<1> QED
  BY <1>1, <1>2, <1>4, <1>5 DEF ProcessType

\* The failure of a single file is one failure.
LEMMA OneFailure ==
    ASSUME NEW c, NEW e
    PROVE  Failures([d \in {c} |-> e]) = IF e.stream = "closed" THEN 1 ELSE 0
<1>1. CASE e.stream = "closed"
  <2>1. {x \in DOMAIN [d \in {c} |-> e] : [d \in {c} |-> e][x].stream = "closed"} = {c}
    BY <1>1
  <2> QED
    BY <1>1, <2>1, FS_Singleton DEF Failures
<1>2. CASE e.stream # "closed"
  <2>1. {x \in DOMAIN [d \in {c} |-> e] : [d \in {c} |-> e][x].stream = "closed"} = {}
    BY <1>2
  <2> QED
    BY <1>2, <2>1, FS_EmptySet DEF Failures
<1> QED
  BY <1>1, <1>2

-----------------------------------------------------------------------------
(* The steps *)

LEMMA InitInd == Init => IndInv
<1> SUFFICES ASSUME Init PROVE IndInv
  OBVIOUS
<1> USE StorageAssumption
<1>1. DiskType
  <2>1. meta \in MetaType
    <3> HIDE StorageAssumption
    <3>1. 0 \in 0..NumChains
      BY StorageAssumption
    <3>2. meta = [initialized |-> FALSE, nextCI |-> 0, net |-> Missing,
                  SCM |-> Missing, smSC |-> Missing]
      BY DEF Init
    <3>3. Missing \in Nets \cup {Missing}
      OBVIOUS
    <3>4. Missing \in (SUBSET Chains) \cup {Missing}
      OBVIOUS
    <3>5. Missing \in StoredMaps \cup {Missing}
      OBVIOUS
    <3> QED
      BY <3>1, <3>2, <3>3, <3>4, <3>5 DEF MetaType
  <2>2. files \in [Chains -> [0..MaxBlocks -> Seq(Blocks \X Nat)]]
    BY DEF Init
  <2>3. /\ DOMAIN index = Chains
        /\ \A c \in Chains : DOMAIN index[c] = {}
    BY DEF Init, NoEntries
  <2>4. lock \in BOOLEAN /\ last \in [Chains -> Nat]
    BY DEF Init
  <2> QED
    BY <2>1, <2>2, <2>3, <2>4 DEF DiskType, MapsTo
<1>2. ProcessType
  <2>1. 0 \in 0..MaxBlocks /\ 0 \in 0..MaxCrashes /\ <<>> \in Seq(Chains) /\ {} \subseteq Chains
    OBVIOUS
  <2> QED
    BY <2>1, NoEntriesIsMap DEF Init, ProcessType, PcValues, Jobs
<1>3. BoundInv
  BY NoEntriesIsMap DEF Init, BoundInv
<1>4. PhaseInv
  BY DEF Init, PhaseInv, Idle
<1>5. SizeMatchesFile
  BY NoEntriesIsMap DEF Init, SizeMatchesFile
<1> QED
  BY <1>1, <1>2, <1>3, <1>4, <1>5 DEF IndInv

\* A process that goes leaves the disk; all it needs is that the disk is in order.
LEMMA DownInd ==
    ASSUME IndInv, Down, DiskType', blocks' \in blocks..MaxBlocks, crashes' \in 0..MaxCrashes,
           meta' = meta, last' = last
    PROVE  IndInv'
<1> USE DEF IndInv
<1>1. ProcessType'
  <2>1. blocks' \in 0..MaxBlocks
    BY DEF ProcessType
  <2>2. <<>> \in Seq(Chains) /\ {} \subseteq Chains
    OBVIOUS
  <2> QED
    BY <2>1, <2>2, NoEntriesIsMap DEF Down, ProcessType, PcValues, Jobs
<1>2. BoundInv'
  <2>1. \A n \in Nat : n <= blocks => n <= blocks'
    BY DEF ProcessType
  <2>2. meta.smSC # Missing => \A c \in DOMAIN meta.smSC : meta.smSC[c].counter \in Nat
    BY StoredMap DEF DiskType, MetaType, StoredEntry
  <2> QED
    BY <2>1, <2>2, NoEntriesIsMap DEF Down, BoundInv, DiskType
<1>3. PhaseInv'
  BY DEF Down, PhaseInv, Idle
<1>4. SizeMatchesFile'
  BY NoEntriesIsMap DEF Down, SizeMatchesFile
<1> QED
  BY <1>1, <1>2, <1>3, <1>4

\* Steps of a start that leave the raw files alone.
LEMMA StartInd ==
    ASSUME IndInv, Start \/ OpenMeta \/ RemoveStaleLock
    PROVE  IndInv'
<1> USE DEF IndInv
<1>1. CASE Start
  <2>1. DiskType' /\ BoundInv' /\ SizeMatchesFile'
    BY <1>1 DEF Start, DiskType, BoundInv, SizeMatchesFile, FileOf
  <2>2. ProcessType'
    BY <1>1 DEF Start, ProcessType, PcValues
  <2>3. PhaseInv'
    BY <1>1 DEF Start, PhaseInv, Idle
  <2> QED
    BY <2>1, <2>2, <2>3
<1>2. CASE OpenMeta
  <2>0. config.net \in Nets /\ 0 \in 0..NumChains /\ meta \in MetaType
    BY <1>2, StorageAssumption DEF OpenMeta, DiskType, PhaseInv, Configs
  <2>1. /\ meta' \in MetaType
        /\ meta'.smSC = meta.smSC /\ meta'.SCM = meta.SCM
        /\ meta'.initialized
        /\ meta.initialized => meta' = meta
    BY <1>2, <2>0 DEF OpenMeta, MetaType
  <2>2. DiskType'
    BY <1>2, <2>1 DEF OpenMeta, DiskType
  <2>3. ProcessType'
    BY <1>2 DEF OpenMeta, ProcessType, PcValues
  <2>4. BoundInv' /\ SizeMatchesFile'
    BY <1>2, <2>1 DEF OpenMeta, BoundInv, SizeMatchesFile, FileOf
  <2>5. PhaseInv'
    BY <1>2, <2>1, NoEntriesIsMap DEF OpenMeta, PhaseInv, Idle
  <2> QED
    BY <2>2, <2>3, <2>4, <2>5
<1>3. CASE RemoveStaleLock
  <2>1. DiskType' /\ BoundInv' /\ SizeMatchesFile'
    BY <1>3 DEF RemoveStaleLock, process, DiskType, BoundInv, SizeMatchesFile, FileOf
  <2>2. ProcessType' /\ PhaseInv'
    BY <1>3 DEF RemoveStaleLock, process, ProcessType, PhaseInv
  <2> QED
    BY <2>1, <2>2
<1> QED
  BY <1>1, <1>2, <1>3

LEMMA AddSubChainInd ==
    ASSUME IndInv, NEW c \in Chains, AddSubChain(c)
    PROVE  IndInv'
<1> USE DEF IndInv
<1>1. PICK e \in Opened(c, Fresh) :
        /\ umapSC' = [d \in DOMAIN umapSC \cup {c} |-> IF d = c THEN e ELSE umapSC[d]]
        /\ crashes' = crashes + Failures([d \in {c} |-> e])
  BY DEF AddSubChain
<1>2. Fresh \in Entries
  BY StorageAssumption DEF Fresh, Entries, Streams
<1>3. /\ e \in Entries /\ e.counter = 0 /\ e.size = Len(files[c][e.counter])
      /\ e.stream = "closed" => crashes < MaxCrashes
  BY <1>1, <1>2, OpenedEntry DEF Fresh
<1>4. crashes' \in 0..MaxCrashes
  <2>1. crashes \in 0..MaxCrashes /\ MaxCrashes \in Nat
    BY StorageAssumption DEF ProcessType
  <2>2. PICK n : n = Failures([d \in {c} |-> e])
    OBVIOUS
  <2>3. n = IF e.stream = "closed" THEN 1 ELSE 0
    BY <2>2, OneFailure, Zenon
  <2>4. crashes' = crashes + n
    BY <1>1, <2>2, Zenon
  <2> QED
    BY <1>3, <2>1, <2>3, <2>4
<1>5. umapSC' \in EntryMaps /\ DOMAIN umapSC' = DOMAIN umapSC \cup {c}
  <2>1. DOMAIN umapSC \cup {c} \in SUBSET Chains
    BY MapEntry DEF ProcessType
  <2>2. umapSC' \in [DOMAIN umapSC \cup {c} -> Entries]
    BY <1>1, <1>3, MapEntry DEF ProcessType
  <2> QED
    BY <2>1, <2>2, MapIs
<1>6. todo' \in Seq(Chains)
  <2>1. MetaChainId \in Chains
    BY StorageAssumption DEF MetaChainId, Chains
  <2> QED
    BY <2>1 DEF AddSubChain
<1>7. meta' = [meta EXCEPT !.nextCI = meta.nextCI + 1] /\ meta.nextCI = c
  BY DEF AddSubChain
<1>8. DiskType'
  <2>1. c + 1 \in 0..NumChains
    BY StorageAssumption DEF Chains
  <2>2. meta' \in MetaType
    BY <1>7, <2>1 DEF DiskType, MetaType
  <2> QED
    BY <2>2 DEF AddSubChain, DiskType
<1>9. ProcessType'
  BY <1>4, <1>5, <1>6, <1>7 DEF AddSubChain, ProcessType
<1>10. BoundInv'
  <2>1. \A d \in DOMAIN umapSC' : umapSC'[d].counter <= blocks'
    <3>1. blocks \in Nat /\ blocks' = blocks
      BY DEF AddSubChain, ProcessType
    <3>2. \A d \in DOMAIN umapSC : umapSC[d].counter <= blocks
      BY DEF BoundInv
    <3> QED
      BY <1>1, <1>3, <3>1, <3>2
  <2>2. meta'.smSC = meta.smSC /\ job' = NoJob
    BY <1>7 DEF AddSubChain, Quiet, DiskType, MetaType
  <2>3. blocks' = blocks /\ last' = last
    BY DEF AddSubChain
  <2> QED
    BY <2>1, <2>2, <2>3 DEF BoundInv
<1>11. PhaseInv'
  BY <1>5, <1>7 DEF AddSubChain, PhaseInv, Idle, DiskType
<1>12. SizeMatchesFile'
  BY <1>1, <1>3 DEF AddSubChain, SizeMatchesFile, FileOf
<1> QED
  BY <1>8, <1>9, <1>10, <1>11, <1>12
LEMMA RegistriesInd ==
    ASSUME IndInv, FinishGenesis \/ LoadRegistries
    PROVE  IndInv'
<1> USE DEF IndInv
<1>1. CASE FinishGenesis
  <2>1. /\ umapSC' \in EntryMaps /\ DOMAIN umapSC' = DOMAIN umapSC
        /\ \A c \in DOMAIN umapSC' : /\ umapSC'[c].counter = umapSC[c].counter
                                     /\ umapSC'[c].size = Len(files[c][umapSC'[c].counter])
        /\ crashes' \in 0..MaxCrashes
    BY <1>1, AllOpenedEntries DEF FinishGenesis, ProcessType
  <2>2. meta' = [meta EXCEPT !.SCM = chains] /\ chains = Chains
    BY <1>1 DEF FinishGenesis, AllAdded
  <2>3. DiskType'
    <3>1. meta' \in MetaType
      BY <2>2 DEF DiskType, MetaType
    <3> QED
      BY <1>1, <3>1 DEF FinishGenesis, DiskType
  <2>4. ProcessType'
    BY <1>1, <2>1 DEF FinishGenesis, ProcessType, PcValues
  <2>5. meta'.smSC = meta.smSC /\ meta'.SCM = Chains /\ meta'.initialized = meta.initialized
    BY <2>2 DEF DiskType, MetaType
  <2>6. BoundInv'
    BY <1>1, <2>1, <2>5 DEF FinishGenesis, BoundInv, Quiet
  <2>7. PhaseInv'
    BY <1>1, <2>1, <2>2, <2>5 DEF FinishGenesis, PhaseInv, Idle
  <2>8. SizeMatchesFile'
    BY <1>1, <2>1 DEF FinishGenesis, SizeMatchesFile, FileOf
  <2> QED
    BY <2>3, <2>4, <2>6, <2>7, <2>8
<1>2. CASE LoadRegistries
  <2>1. StoredEntries \in EntryMaps
    <3>1. CASE meta.smSC = Missing
      BY <3>1, NoEntriesIsMap DEF StoredEntries
    <3>2. CASE meta.smSC # Missing
      <4>1. DOMAIN meta.smSC \subseteq Chains
            /\ \A c \in DOMAIN meta.smSC : meta.smSC[c] \in StoredEntry
        BY <3>2, StoredMap DEF DiskType, MetaType
      <4>2. StoredEntries \in [DOMAIN meta.smSC -> Entries]
        BY <3>2, <4>1 DEF StoredEntries, StoredEntry, Entries, Streams
      <4> QED
        BY <4>1, <4>2, MapIs
    <3> QED
      BY <3>1, <3>2
  <2>2. /\ DOMAIN StoredEntries = IF meta.smSC = Missing THEN {} ELSE DOMAIN meta.smSC
        /\ \A c \in DOMAIN StoredEntries : StoredEntries[c].counter <= blocks
    BY NoEntriesIsMap DEF StoredEntries, BoundInv
  <2>3. /\ umapSC' \in EntryMaps /\ DOMAIN umapSC' = DOMAIN StoredEntries
        /\ \A c \in DOMAIN umapSC' : /\ umapSC'[c].counter = StoredEntries[c].counter
                                     /\ umapSC'[c].size = Len(files[c][umapSC'[c].counter])
        /\ crashes' \in 0..MaxCrashes
    BY <1>2, <2>1, AllOpenedEntries DEF LoadRegistries
  <2>4. chains' = Chains
    BY <1>2 DEF LoadRegistries, Loadable, PhaseInv
  <2>5. DiskType' /\ ProcessType'
    BY <1>2, <2>3, <2>4 DEF LoadRegistries, disk, DiskType, ProcessType, PcValues
  <2>6. BoundInv'
    BY <1>2, <2>2, <2>3 DEF LoadRegistries, disk, BoundInv, PhaseInv, Idle
  <2>7. PhaseInv'
    BY <1>2, <2>2, <2>3, <2>4 DEF LoadRegistries, disk, PhaseInv, Idle
  <2>8. SizeMatchesFile'
    BY <1>2, <2>3 DEF LoadRegistries, disk, SizeMatchesFile, FileOf
  <2> QED
    BY <2>5, <2>6, <2>7, <2>8
<1> QED
  BY <1>1, <1>2

LEMMA StopInd ==
    ASSUME IndInv, Stop
    PROVE  /\ IndInv'
           /\ meta'.smSC # Missing /\ DOMAIN meta'.smSC = DOMAIN umapSC
<1> USE DEF IndInv
<1> DEFINE stored == [c \in DOMAIN umapSC |-> [size |-> umapSC[c].size,
                                              counter |-> umapSC[c].counter]]
<1>1. meta' = [meta EXCEPT !.SCM = chains, !.smSC = stored]
  BY DEF Stop
<1>2. stored \in StoredMaps /\ DOMAIN stored = DOMAIN umapSC
  <2>1. DOMAIN umapSC \in SUBSET Chains /\ \A c \in DOMAIN umapSC : umapSC[c] \in Entries
    BY MapEntry DEF ProcessType
  <2>2. stored \in [DOMAIN umapSC -> StoredEntry]
    BY <2>1 DEF Entries, StoredEntry
  <2> QED
    BY <2>1, <2>2 DEF StoredMaps
<1> HIDE DEF stored
<1>3. meta'.smSC = stored /\ meta'.SCM = chains /\ meta'.initialized = meta.initialized
  BY <1>1 DEF DiskType, MetaType
<1>4. stored # Missing
  BY <1>2, StoredMap
<1>5. DiskType'
  <2>1. meta' \in MetaType
    BY <1>1, <1>2 DEF DiskType, ProcessType, MetaType
  <2> QED
    BY <2>1 DEF Stop, DiskType
<1>6. ProcessType'
  BY DEF Stop, process, ProcessType, PcValues
<1>7. BoundInv'
  <2>1. \A c \in DOMAIN stored : stored[c].counter <= blocks
    BY DEF stored, BoundInv
  <2> QED
    BY <1>3, <2>1 DEF Stop, process, BoundInv
<1>8. meta.initialized
  BY DEF Stop, PhaseInv
<1>9. PhaseInv'
  BY <1>2, <1>3, <1>8 DEF Stop, process, PhaseInv, Idle
<1>10. SizeMatchesFile'
  BY DEF Stop, process, SizeMatchesFile, FileOf
<1> QED
  BY <1>2, <1>3, <1>4, <1>5, <1>6, <1>7, <1>9, <1>10

LEMMA EndInd ==
    ASSUME IndInv, StartFails \/ Close \/ Kill \/ UseStrayPointer
    PROVE  IndInv'
<1> USE DEF IndInv
<1>1. Down /\ blocks' = blocks /\ UNCHANGED <<meta, files, index, last>> /\ lock' \in BOOLEAN
  BY DEF StartFails, Close, Kill, UseStrayPointer, disk, DiskType
<1>2. crashes' \in 0..MaxCrashes
  BY StorageAssumption DEF StartFails, Close, Kill, UseStrayPointer, ProcessType
<1>3. DiskType'
  BY <1>1 DEF DiskType
<1>4. blocks' \in blocks..MaxBlocks
  BY <1>1 DEF ProcessType
<1> QED
  BY <1>1, <1>2, <1>3, <1>4, DownInd

-----------------------------------------------------------------------------
(* writeRaw *)

LEMMA ReadyEntry ==
    ASSUME IndInv, NEW c \in Chains, c \in DOMAIN umapSC, NEW e \in Ready(c)
    PROVE  /\ e \in Entries
           /\ e.counter = umapSC[c].counter
           /\ e.stream = "closed" => crashes < MaxCrashes
           /\ e.stream = "open" => e.size = Len(files[c][e.counter])
<1>1. umapSC[c] \in Entries
  BY MapEntry DEF IndInv, ProcessType
<1>2. CASE umapSC[c].stream = "closed"
  BY <1>1, <1>2, OpenedEntry DEF Ready, IndInv
<1>3. CASE umapSC[c].stream # "closed"
  BY <1>1, <1>3 DEF Ready, IndInv, SizeMatchesFile, FileOf
<1> QED
  BY <1>2, <1>3

\* An entry of the registry is replaced.
LEMMA Replaced ==
    ASSUME ProcessType, NEW c \in DOMAIN umapSC, NEW e \in Entries,
           umapSC' = [umapSC EXCEPT ![c] = e]
    PROVE  /\ umapSC' \in EntryMaps /\ DOMAIN umapSC' = DOMAIN umapSC
           /\ umapSC'[c] = e /\ \A d \in DOMAIN umapSC : d # c => umapSC'[d] = umapSC[d]
<1>1. DOMAIN umapSC \in SUBSET Chains /\ umapSC \in [DOMAIN umapSC -> Entries]
  BY MapEntry DEF ProcessType
<1>2. umapSC' \in [DOMAIN umapSC -> Entries]
  BY <1>1
<1> QED
  BY <1>1, <1>2, MapIs

\* What is left of what initialization is to store.
LEMMA TodoType ==
    ASSUME ProcessType
    PROVE  TodoAfter \in Seq(Chains)
  BY DEF ProcessType, TodoAfter

\* Phases are those of the process: blocks do not change them.
LEMMA SamePhase ==
    ASSUME PhaseInv, pc' = pc, pc \notin Idle, meta' = meta, made' = made, chains' = chains,
           config' = config, DOMAIN umapSC' = DOMAIN umapSC
    PROVE  PhaseInv'
  BY DEF PhaseInv, Idle

LEMMA WriteRefusedInd ==
    ASSUME IndInv, NEW c \in Chains, WriteRefused(c)
    PROVE  IndInv'
<1> USE DEF IndInv
<1>1. c \in DOMAIN umapSC /\ pc \notin Idle /\ job = NoJob
  BY DEF WriteRefused, Wanted, Idle
<1>2. PICK e \in Ready(c) : e.stream = "closed" /\ umapSC' = [umapSC EXCEPT ![c] = e]
  BY DEF WriteRefused
<1>3. e \in Entries /\ e.counter = umapSC[c].counter /\ crashes < MaxCrashes
  BY <1>1, <1>2, ReadyEntry
<1>4. /\ umapSC' \in EntryMaps /\ DOMAIN umapSC' = DOMAIN umapSC
      /\ umapSC'[c] = e /\ \A d \in DOMAIN umapSC : d # c => umapSC'[d] = umapSC[d]
  BY <1>1, <1>2, <1>3, Replaced
<1>5. DiskType'
  BY DEF WriteRefused, disk, DiskType
<1>6. crashes' \in 0..MaxCrashes
  BY <1>3, StorageAssumption DEF WriteRefused, ProcessType
<1>7. ProcessType'
  BY <1>4, <1>6, TodoType DEF WriteRefused, ProcessType
<1>8. BoundInv'
  BY <1>1, <1>3, <1>4 DEF WriteRefused, disk, BoundInv
<1>9. PhaseInv'
  BY <1>1, <1>4, SamePhase DEF WriteRefused, disk
<1>10. SizeMatchesFile'
  BY <1>2, <1>4 DEF WriteRefused, disk, SizeMatchesFile, FileOf
<1> QED
  BY <1>5, <1>7, <1>8, <1>9, <1>10

LEMMA Joined ==
    ASSUME NEW S, NEW s \in Seq(S), NEW t \in Seq(S)
    PROVE  s \o t \in Seq(S) /\ Len(s \o t) = Len(s) + Len(t)
  OBVIOUS

\* The bytes of a block, and of a part of it.
LEMMA BytesType ==
    ASSUME NEW b \in Blocks, NEW n \in 0..b.len
    PROVE  /\ SubSeq(Bytes(b), 1, n) \in Seq(Blocks \X Nat)
           /\ Len(SubSeq(Bytes(b), 1, n)) = n
<1>1. b.len \in Nat
  BY StorageAssumption DEF Blocks
<1>2. Bytes(b) \in Seq(Blocks \X Nat) /\ Len(Bytes(b)) = b.len
  <2>1. Bytes(b) \in [1..b.len -> Blocks \X Nat]
    BY <1>1 DEF Bytes
  <2> QED
    BY <1>1, <2>1 DEF Bytes
<1> QED
  BY <1>1, <1>2

\* A file only grows, and no other file changes.
LEMMA Appended ==
    ASSUME DiskType, NEW c \in Chains, NEW k \in 0..MaxBlocks, NEW b \in Blocks,
           NEW n \in 0..b.len, AppendBytes(c, k, b, n)
    PROVE  /\ files' \in [Chains -> [0..MaxBlocks -> Seq(Blocks \X Nat)]]
           /\ Len(files'[c][k]) = Len(files[c][k]) + n
           /\ \A d \in Chains \ {c} : files'[d] = files[d]
<1>1. files[c] \in [0..MaxBlocks -> Seq(Blocks \X Nat)] /\ files[c][k] \in Seq(Blocks \X Nat)
  BY DEF DiskType
<1> DEFINE part == SubSeq(Bytes(b), 1, n)
           new == files[c][k] \o part
<1>2. part \in Seq(Blocks \X Nat) /\ Len(part) = n
  BY BytesType
<1> HIDE DEF part
<1>3. new \in Seq(Blocks \X Nat) /\ Len(new) = Len(files[c][k]) + n
  BY <1>1, <1>2, Joined
<1>4. files' = [files EXCEPT ![c] = [files[c] EXCEPT ![k] = new]]
  BY DEF AppendBytes, DiskType, part
<1> HIDE DEF new
<1>5. [files[c] EXCEPT ![k] = new] \in [0..MaxBlocks -> Seq(Blocks \X Nat)]
      /\ [files[c] EXCEPT ![k] = new][k] = new
  BY <1>1, <1>3
<1> QED
  BY <1>3, <1>4, <1>5 DEF DiskType

LEMMA NewBlock ==
    ASSUME ProcessType, blocks < MaxBlocks, NEW len \in Lengths
    PROVE  [id |-> blocks + 1, len |-> len] \in Blocks
  BY StorageAssumption DEF ProcessType, Blocks

LEMMA WriteBlockInd ==
    ASSUME IndInv, NEW c \in Chains, NEW len \in Lengths, WriteBlock(c, len)
    PROVE  IndInv'
<1> USE DEF IndInv
<1> DEFINE b == [id |-> blocks + 1, len |-> len]
<1>1. /\ c \in DOMAIN umapSC /\ pc \notin Idle /\ job = NoJob /\ blocks < MaxBlocks
      /\ len \in Nat /\ len > 0 /\ blocks \in Nat /\ blocks' = blocks + 1
  BY StorageAssumption DEF WriteBlock, Wanted, Idle, ProcessType
<1>2. PICK e \in Ready(c), n \in 0..len :
        /\ e.stream # "closed"
        /\ n \in Taken(e, b)
        /\ AppendBytes(c, e.counter, b, n)
        /\ umapSC' = [umapSC EXCEPT ![c] = [e EXCEPT !.size = e.size + len,
                                            !.stream = IF n = len THEN @ ELSE "bad"]]
        /\ crashes' = IF n = len \/ e.stream = "bad" THEN crashes ELSE crashes + 1
  BY DEF WriteBlock
<1>3. /\ e \in Entries /\ e.counter = umapSC[c].counter
      /\ e.stream = "open" => e.size = Len(files[c][e.counter])
      /\ e.counter \in 0..MaxBlocks /\ e.size \in Nat
  BY <1>1, <1>2, ReadyEntry DEF Entries
<1> DEFINE stream == IF n = len THEN e.stream ELSE "bad"
           new == [e EXCEPT !.size = e.size + len, !.stream = stream]
<1>4. new \in Entries /\ umapSC' = [umapSC EXCEPT ![c] = new]
  <2>1. stream \in Streams
    BY <1>3 DEF Entries, Streams
  <2>2. umapSC' = [umapSC EXCEPT ![c] = new]
    BY <1>2
  <2> HIDE DEF stream
  <2>3. \A m \in Nat, t \in Streams : [e EXCEPT !.size = m, !.stream = t] \in Entries
    BY <1>3 DEF Entries
  <2>4. e.size + len \in Nat
    BY <1>1, <1>3
  <2>5. new \in Entries
    BY <2>1, <2>3, <2>4
  <2> QED
    BY <2>2, <2>5
<1>5. new.counter = e.counter /\ new.size = e.size + len
      /\ (new.stream = "open" => n = len /\ e.stream = "open")
  <2>1. stream = "open" => n = len /\ e.stream = "open"
    OBVIOUS
  <2> HIDE DEF stream
  <2>2. new.counter = e.counter /\ new.size = e.size + len /\ new.stream = stream
    BY <1>3 DEF Entries
  <2> QED
    BY <2>1, <2>2
<1> HIDE DEF new
<1>6. /\ umapSC' \in EntryMaps /\ DOMAIN umapSC' = DOMAIN umapSC
      /\ umapSC'[c] = new /\ \A d \in DOMAIN umapSC : d # c => umapSC'[d] = umapSC[d]
  BY <1>1, <1>4, Replaced
<1>7. b \in Blocks /\ b.len = len
  BY <1>1, NewBlock
<1>8. /\ files' \in [Chains -> [0..MaxBlocks -> Seq(Blocks \X Nat)]]
      /\ Len(files'[c][e.counter]) = Len(files[c][e.counter]) + n
      /\ \A d \in Chains \ {c} : files'[d] = files[d]
  BY <1>2, <1>3, <1>7, Appended
<1> HIDE DEF b
<1>9. DiskType'
  BY <1>8 DEF WriteBlock, DiskType
<1>10. crashes' \in 0..MaxCrashes
  <2>1. crashes < MaxCrashes \/ n = len \/ e.stream = "bad"
    BY <1>2, <1>7 DEF Taken
  <2> QED
    BY <1>2, <2>1, StorageAssumption DEF ProcessType
<1> DEFINE written == [step |-> "index", chain |-> c, number |-> NextNumber(c),
                       length |-> len]
<1>11. job' = written
  BY DEF WriteBlock
<1>12. /\ written \in Jobs /\ written.chain = c /\ written.number <= blocks + 1
       /\ \A d \in Chains : last[d] <= blocks + 1
  <2>1. \A d \in Chains : last[d] \in Nat /\ last[d] <= blocks
    BY DEF DiskType, BoundInv
  <2>2. NextNumber(c) \in 1..MaxBlocks /\ NextNumber(c) <= blocks + 1
    BY <1>1, <2>1, StorageAssumption DEF NextNumber
  <2>3. \A d \in Chains : last[d] <= blocks + 1
    BY <1>1, <2>1
  <2> QED
    BY <2>2, <2>3 DEF Jobs
<1> HIDE DEF written
<1>13. ProcessType'
  <2>1. blocks' \in 0..MaxBlocks
    BY <1>1, StorageAssumption
  <2>2. todo' \in Seq(Chains)
    BY TodoType DEF WriteBlock
  <2>3. job' \in Jobs
    BY <1>11, <1>12
  <2> QED
    BY <1>6, <1>10, <2>1, <2>2, <2>3 DEF WriteBlock, ProcessType
<1>14. BoundInv'
  <2>1. \A d \in DOMAIN umapSC' : umapSC'[d].counter \in Nat /\ umapSC'[d].counter < blocks'
    <3>1. \A d \in DOMAIN umapSC : umapSC[d].counter \in Nat /\ umapSC[d].counter <= blocks
      BY MapEntry DEF BoundInv, ProcessType, Entries
    <3> QED
      BY <1>1, <1>3, <1>5, <1>6, <3>1
  <2>2. meta.smSC # Missing => \A d \in DOMAIN meta.smSC : meta.smSC[d].counter <= blocks'
    <3>1. meta.smSC # Missing =>
            \A d \in DOMAIN meta.smSC : /\ meta.smSC[d].counter \in Nat
                                        /\ meta.smSC[d].counter <= blocks
      BY StoredMap DEF BoundInv, DiskType, MetaType, StoredEntry
    <3> QED
      BY <1>1, <3>1
  <2>3. meta' = meta /\ last' = last
    BY DEF WriteBlock
  <2> QED
    BY <1>1, <1>6, <1>11, <1>12, <2>1, <2>2, <2>3 DEF BoundInv
<1>15. PhaseInv'
  BY <1>1, <1>6, SamePhase DEF WriteBlock
<1>16. SizeMatchesFile'
  <2>1. ASSUME umapSC'[c].stream = "open"
        PROVE  umapSC'[c].size = Len(files'[c][umapSC'[c].counter])
    BY <1>3, <1>5, <1>6, <1>8, <2>1
  <2>2. ASSUME NEW d \in DOMAIN umapSC, d # c, umapSC'[d].stream = "open"
        PROVE  umapSC'[d].size = Len(files'[d][umapSC'[d].counter])
    <3>1. d \in Chains
      BY MapEntry DEF ProcessType
    <3> QED
      BY <1>6, <1>8, <2>2, <3>1 DEF SizeMatchesFile, FileOf
  <2> QED
    BY <1>6, <2>1, <2>2 DEF SizeMatchesFile, FileOf
<1> QED
  BY <1>9, <1>13, <1>14, <1>15, <1>16

LEMMA KilledWritingInd ==
    ASSUME IndInv, NEW c \in Chains, NEW len \in Lengths, KilledWriting(c, len)
    PROVE  IndInv'
<1> USE DEF IndInv
<1> DEFINE b == [id |-> blocks + 1, len |-> len]
<1>1. /\ c \in DOMAIN umapSC /\ blocks < MaxBlocks /\ len \in Nat
      /\ crashes' \in 0..MaxCrashes /\ blocks' = blocks + 1
  BY StorageAssumption DEF KilledWriting, Wanted, ProcessType
<1>2. PICK n \in 0..(len - 1) : AppendBytes(c, FileOf(c), b, n)
  BY DEF KilledWriting
<1>3. FileOf(c) \in 0..MaxBlocks
  BY <1>1, MapEntry DEF FileOf, ProcessType, Entries
<1>4. b \in Blocks /\ n \in 0..b.len
  BY <1>1, NewBlock
<1>5. files' \in [Chains -> [0..MaxBlocks -> Seq(Blocks \X Nat)]]
  BY <1>2, <1>3, <1>4, Appended
<1>6. DiskType'
  BY <1>5 DEF KilledWriting, DiskType
<1>7. blocks' \in blocks..MaxBlocks
  BY <1>1, StorageAssumption DEF ProcessType
<1>8. Down /\ meta' = meta /\ last' = last
  BY DEF KilledWriting
<1> QED
  BY <1>1, <1>6, <1>7, <1>8, DownInd

\* A job says what it needs to.
LEMMA JobType ==
    ASSUME ProcessType, BoundInv, job # NoJob
    PROVE  /\ job.chain \in Chains /\ job.chain \in DOMAIN umapSC
           /\ job.number \in 1..MaxBlocks /\ job.number <= blocks
           /\ job.length \in Lengths /\ umapSC[job.chain] \in Entries
           /\ job.step \in {"index", "roll", "height"}
           /\ \A s \in {"index", "roll", "height"} :
                 /\ [job EXCEPT !.step = s] \in Jobs
                 /\ [job EXCEPT !.step = s].chain = job.chain
                 /\ [job EXCEPT !.step = s].number = job.number
                 /\ [job EXCEPT !.step = s].step = s
                 /\ [job EXCEPT !.step = s] # NoJob
<1>1. job \in [step : {"index", "roll", "height"}, chain : Chains,
               number : 1..MaxBlocks, length : Lengths]
  BY DEF ProcessType, Jobs
<1>2. NoJob.step = "none"
  BY DEF NoJob
<1> QED
  BY <1>1, <1>2, MapEntry DEF BoundInv, Jobs, ProcessType

LEMMA JobInd ==
    ASSUME IndInv, WriteIndex \/ RollOver \/ WriteHeight
    PROVE  IndInv'
<1> USE DEF IndInv
<1> DEFINE c == job.chain
<1>1. /\ job # NoJob /\ meta' = meta /\ files' = files /\ lock' = lock /\ blocks' = blocks
      /\ pc' = pc /\ config' = config /\ made' = made /\ chains' = chains /\ todo' = todo
  BY DEF WriteIndex, RollOver, WriteHeight, At, disk
<1>2. pc \notin Idle
  BY <1>1 DEF PhaseInv
<1>3. /\ c \in Chains /\ c \in DOMAIN umapSC /\ umapSC[c] \in Entries
      /\ job.number \in 1..MaxBlocks /\ job.number <= blocks /\ job.length \in Lengths
  BY <1>1, JobType
<1>4. CASE WriteIndex
  <2> DEFINE entry == [file |-> FileOf(c), offset |-> umapSC[c].size, length |-> job.length]
  <2>1. entry \in IndexEntry
    BY <1>3 DEF FileOf, Entries, IndexEntry
  <2>2. index' = [index EXCEPT ![c] = [n \in DOMAIN index[c] \cup {job.number} |->
                                         IF n = job.number THEN entry ELSE index[c][n]]]
    BY <1>4 DEF WriteIndex
  <2> HIDE DEF entry
  <2>3. DOMAIN index' = Chains
        /\ \A d \in Chains : DOMAIN index'[d] \subseteq 1..MaxBlocks
                            /\ MapsTo(index'[d], IndexEntry)
    BY <1>3, <2>1, <2>2 DEF DiskType, MapsTo
  <2>4. umapSC' = umapSC /\ crashes' = crashes /\ last' = last
    BY <1>4 DEF WriteIndex
  <2>5. DiskType'
    BY <1>1, <2>3, <2>4 DEF DiskType
  <2>6. \E s \in {"roll", "height"} : job' = [job EXCEPT !.step = s]
    BY <1>4 DEF WriteIndex
  <2>7. /\ job' \in Jobs /\ job'.chain = c /\ job'.number = job.number /\ job' # NoJob
    BY <1>1, <2>6, JobType
  <2>8. ProcessType'
    BY <1>1, <2>4, <2>7 DEF ProcessType
  <2>9. umapSC[c].counter < blocks
    BY <1>4 DEF WriteIndex, At, BoundInv
  <2>10. BoundInv'
    BY <1>1, <1>3, <2>4, <2>7, <2>9 DEF BoundInv
  <2>11. PhaseInv' /\ SizeMatchesFile'
    BY <1>1, <1>2, <2>4, SamePhase DEF SizeMatchesFile, FileOf
  <2> QED
    BY <2>5, <2>8, <2>10, <2>11
<1>5. CASE RollOver
  <2> DEFINE next == [umapSC[c] EXCEPT !.counter = @ + 1]
  <2>1. PICK e \in Opened(c, next) :
          /\ umapSC' = [umapSC EXCEPT ![c] = e]
          /\ IF e.stream = "closed" THEN job' = NoJob /\ crashes' = crashes + 1
             ELSE job' = [job EXCEPT !.step = "height"] /\ crashes' = crashes
    BY <1>5 DEF RollOver
  <2>2. umapSC[c].counter < blocks
    BY <1>5 DEF RollOver, At, BoundInv
  <2>3. next \in Entries /\ next.counter <= blocks
    <3>1. umapSC[c] \in [size : Nat, counter : 0..MaxBlocks, stream : Streams]
      BY <1>3 DEF Entries
    <3>2. blocks \in 0..MaxBlocks /\ MaxBlocks \in Nat
      BY <1>1, StorageAssumption DEF ProcessType
    <3>3. /\ next.size = umapSC[c].size /\ next.stream = umapSC[c].stream
          /\ next.counter = umapSC[c].counter + 1
      BY <3>1
    <3>4. next.counter \in 0..MaxBlocks /\ next.counter <= blocks
      BY <2>2, <3>1, <3>2, <3>3
    <3>5. next \in [size : Nat, counter : 0..MaxBlocks, stream : Streams]
      BY <3>1, <3>4
    <3> QED
      BY <3>4, <3>5 DEF Entries
  <2> HIDE DEF next
  <2>4. /\ e \in Entries /\ e.counter <= blocks
        /\ e.size = Len(files[c][e.counter])
        /\ e.stream = "closed" => crashes < MaxCrashes
    BY <1>3, <2>1, <2>3, OpenedEntry
  <2>5. /\ umapSC' \in EntryMaps /\ DOMAIN umapSC' = DOMAIN umapSC
        /\ umapSC'[c] = e /\ \A d \in DOMAIN umapSC : d # c => umapSC'[d] = umapSC[d]
    BY <1>3, <2>1, <2>4, Replaced
  <2>6. index' = index /\ last' = last
    BY <1>5 DEF RollOver, disk
  <2>7. DiskType'
    BY <1>1, <2>6 DEF DiskType
  <2>8. crashes' \in 0..MaxCrashes
    BY <2>1, <2>4, StorageAssumption DEF ProcessType
  <2>9. job' \in Jobs /\ (job' # NoJob => /\ job'.chain = c /\ job'.number = job.number
                                         /\ job'.step = "height")
    BY <1>1, <2>1, JobType DEF Jobs
  <2>10. ProcessType'
    BY <1>1, <2>5, <2>8, <2>9 DEF ProcessType
  <2>11. BoundInv'
    BY <1>1, <1>3, <2>4, <2>5, <2>6, <2>9 DEF BoundInv
  <2>12. PhaseInv'
    BY <1>1, <1>2, <2>5, SamePhase
  <2>13. SizeMatchesFile'
    BY <1>1, <2>4, <2>5 DEF SizeMatchesFile, FileOf
  <2> QED
    BY <2>7, <2>10, <2>11, <2>12, <2>13
<1>6. CASE WriteHeight
  <2>1. /\ last' = [last EXCEPT ![c] = job.number] /\ job' = NoJob
        /\ index' = index /\ umapSC' = umapSC /\ crashes' = crashes
    BY <1>6 DEF WriteHeight
  <2>2. DiskType'
    BY <1>1, <1>3, <2>1 DEF DiskType
  <2>3. ProcessType'
    BY <1>1, <2>1 DEF ProcessType, Jobs
  <2>4. BoundInv'
    BY <1>1, <1>3, <2>1 DEF BoundInv, DiskType
  <2>5. PhaseInv' /\ SizeMatchesFile'
    BY <1>1, <1>2, <2>1, SamePhase DEF SizeMatchesFile, FileOf
  <2> QED
    BY <2>2, <2>3, <2>4, <2>5
<1> QED
  BY <1>4, <1>5, <1>6

LEMMA NextInd ==
    ASSUME IndInv, [Next]_vars
    PROVE  IndInv'
<1>1. CASE UNCHANGED vars
  BY <1>1 DEF vars, disk, process, IndInv, DiskType, ProcessType, BoundInv, PhaseInv,
     SizeMatchesFile, FileOf
<1> QED
  BY <1>1, StartInd, AddSubChainInd, RegistriesInd, StopInd, EndInd, WriteRefusedInd,
     WriteBlockInd, KilledWritingInd, JobInd DEF Next

-----------------------------------------------------------------------------

\* Over any number of kills, failures and restarts with a registry that is older than
\* the files, the two registries, the files and the heights stay consistent
\* (StorageManager.cpp, initialize, writeRaw and the destructor).
THEOREM IndInvTheorem == Spec => []IndInv
  BY InitInd, NextInd, PTL DEF Spec

\* Every variable has its type: no counter of a file and no block number runs ahead
\* of the blocks that were written (writeRaw, StorageManager.cpp:241).
THEOREM TypeTheorem == Spec => []TypeOK
<1>1. IndInv => TypeOK
  <2> SUFFICES ASSUME IndInv PROVE TypeOK
    OBVIOUS
  <2>1. /\ meta.initialized \in BOOLEAN /\ meta.nextCI \in 0..NumChains
        /\ meta.net \in Nets \cup {Missing}
        /\ meta.SCM = Missing \/ meta.SCM \subseteq Chains
        /\ meta.smSC = Missing \/ (DOMAIN meta.smSC \subseteq Chains
                                   /\ MapsTo(meta.smSC, StoredEntry))
    <3>1. meta \in MetaType
      BY DEF IndInv, DiskType
    <3>2. meta.smSC # Missing => meta.smSC \in StoredMaps
      BY <3>1 DEF MetaType
    <3>3. meta.smSC # Missing => DOMAIN meta.smSC \subseteq Chains
                                 /\ MapsTo(meta.smSC, StoredEntry)
      BY <3>2, StoredMap DEF MapsTo
    <3> QED
      BY <3>1, <3>3 DEF MetaType
  <2>2. \A c \in Chains : DOMAIN files[c] = 0..MaxBlocks
    BY DEF IndInv, DiskType
  <2>3. last \in [Chains -> 0..MaxBlocks]
    BY StorageAssumption DEF IndInv, DiskType, BoundInv, ProcessType
  <2>4. DOMAIN umapSC \subseteq Chains /\ MapsTo(umapSC, Entries)
    BY MapEntry DEF IndInv, ProcessType, MapsTo
  <2>5. \A i \in DOMAIN todo : todo[i] \in Chains
    BY DEF IndInv, ProcessType
  <2> QED
    BY <2>1, <2>2, <2>3, <2>4, <2>5 DEF IndInv, DiskType, ProcessType, PcValues, TypeOK
<1> QED
  BY <1>1, IndInvTheorem, PTL

\* A node that runs has all its chains, and raw files for all of them or for none,
\* whatever was killed before (initialize, StorageManager.cpp:91).
THEOREM RunningIsWholeTheorem == Spec => []RunningIsWhole
<1>1. IndInv => RunningIsWhole
  BY DEF IndInv, PhaseInv, RunningIsWhole
<1> QED
  BY <1>1, IndInvTheorem, PTL

\* The offsets writeRaw computes are those of the bytes it wrote, as long as the
\* stream works, with a registry of any age (StorageManager.cpp:262).
THEOREM SizeMatchesFileTheorem == Spec => []SizeMatchesFile
<1>1. IndInv => SizeMatchesFile
  BY DEF IndInv
<1> QED
  BY <1>1, IndInvTheorem, PTL

\* Which chains have raw files is decided at the first clean stop, for good
\* (~StorageManager, StorageManager.cpp:29).
THEOREM RawFilesForGoodTheorem == Spec => RawFilesForGood
<1>1. ASSUME IndInv, [Next]_vars, meta.smSC # Missing
      PROVE  meta'.smSC # Missing /\ DOMAIN meta'.smSC = DOMAIN meta.smSC
  <2>1. CASE Stop
    BY <1>1, <2>1, StopInd DEF Stop, IndInv, PhaseInv
  <2>2. CASE OpenMeta
    BY <1>1, <2>2 DEF OpenMeta, IndInv, PhaseInv
  <2>3. CASE FinishGenesis \/ \E c \in Chains : AddSubChain(c)
    BY <1>1, <2>3 DEF FinishGenesis, AddSubChain, IndInv, PhaseInv
  <2>4. CASE meta' = meta
    BY <1>1, <2>4
  <2>5. CASE \/ Start \/ LoadRegistries \/ StartFails \/ Close \/ Kill \/ UseStrayPointer
             \/ RemoveStaleLock \/ WriteIndex \/ RollOver \/ WriteHeight \/ UNCHANGED vars
    BY <2>4, <2>5 DEF Start, LoadRegistries, StartFails, Close, Kill, UseStrayPointer,
       RemoveStaleLock, WriteIndex, RollOver, WriteHeight, vars, disk
  <2>6. CASE \E c \in Chains : \/ WriteRefused(c)
                              \/ \E len \in Lengths : WriteBlock(c, len)
                                                     \/ KilledWriting(c, len)
    BY <2>4, <2>6 DEF WriteRefused, WriteBlock, KilledWriting, disk
  <2> QED
    BY <1>1, <2>1, <2>2, <2>3, <2>5, <2>6 DEF Next
<1> QED
  BY <1>1, IndInvTheorem, PTL DEF RawFilesForGood, Spec

-----------------------------------------------------------------------------
(***************************************************************************)
(* Storage implements BlockStore, for any number of chains and blocks, and *)
(* however often the process is killed or a file fails: what a number      *)
(* leads to never changes.                                                 *)
(***************************************************************************)

\* A file that ends with the bytes of a block.
EndsWith(s, b) ==
    /\ b.len <= Len(s)
    /\ \A i \in 1..b.len : s[Len(s) - b.len + i] = <<b, i>>

\* The entries of a number lead to a whole block.
Whole(c, n, b) ==
    LET e == index[c][n]
        file == files[c][e.file]
    IN /\ n \in DOMAIN index[c]
       /\ b \in Blocks
       /\ e.length = b.len
       /\ b.len <= e.offset
       /\ e.offset <= Len(file)
       /\ \A i \in 1..b.len : file[e.offset - b.len + i] = <<b, i>>

\* The block writeRaw is at work on has no number yet.
Handed == IF job = NoJob THEN blocks ELSE blocks - 1
Current == [id |-> blocks, len |-> job.length]

\* Every number of a chain leads to a block that was handed over before.
NumberedInv ==
    /\ DOMAIN spoilt = Chains
    /\ \A c \in Chains : \A n \in 1..last[c] :
         n \notin spoilt[c] => \E b \in Blocks : Whole(c, n, b) /\ b.id <= Handed

\* How far the block that writeRaw is at work on has got.
JobInv ==
    job # NoJob =>
        /\ job.number = last[job.chain] + 1
        /\ job.step = "index" =>
             /\ umapSC[job.chain].stream # "closed"
             /\ umapSC[job.chain].stream = "open"
                   => EndsWith(files[job.chain][FileOf(job.chain)], Current)
        /\ job.step # "index" /\ job.number \notin spoilt[job.chain]
             => Whole(job.chain, job.number, Current)

StoreInv == NumberedInv /\ JobInv

(* Files and entries *)

\* Files only grow.
FilesGrow ==
    \A c \in Chains, k \in 0..MaxBlocks :
        /\ Len(files[c][k]) <= Len(files'[c][k])
        /\ \A i \in 1..Len(files[c][k]) : files'[c][k][i] = files[c][k][i]

\* The numbers of a chain keep what they lead to.
Kept ==
    \A c \in Chains : \A n \in 1..last[c] :
        /\ n \in spoilt'[c] <=> n \in spoilt[c]
        /\ \A b : Whole(c, n, b) => Whole(c, n, b)'

LEMMA FileType ==
    ASSUME DiskType, NEW c \in Chains, NEW k \in 0..MaxBlocks
    PROVE  files[c][k] \in Seq(Blocks \X Nat) /\ Len(files[c][k]) \in Nat
<1>1. files[c] \in [0..MaxBlocks -> Seq(Blocks \X Nat)]
  BY DEF DiskType
<1>2. files[c][k] \in Seq(Blocks \X Nat)
  BY <1>1
<1> QED
  BY <1>2

LEMMA EntryType ==
    ASSUME DiskType, NEW c \in Chains, NEW n \in DOMAIN index[c]
    PROVE  /\ index[c][n].file \in 0..MaxBlocks
           /\ index[c][n].offset \in Nat
           /\ index[c][n].length \in Nat
  BY StorageAssumption DEF DiskType, MapsTo, IndexEntry

LEMMA BlockType ==
    ASSUME NEW b \in Blocks
    PROVE  b.id \in 1..MaxBlocks /\ b.len \in Nat /\ b.len > 0
<1>1. \A len \in Lengths : len \in Nat /\ len > 0
  BY StorageAssumption
<1>2. b.id \in 1..MaxBlocks /\ b.len \in Lengths
  BY DEF Blocks
<1> QED
  BY <1>1, <1>2

\* What is whole stays whole if its entry stays and files only grow.
LEMMA WholeStays ==
    ASSUME IndInv, IndInv', FilesGrow, NEW c \in Chains, NEW n, NEW b, Whole(c, n, b),
           n \in DOMAIN index'[c], index'[c][n] = index[c][n]
    PROVE  Whole(c, n, b)'
<1> DEFINE e == index[c][n]
           file == files[c][e.file]
<1>1. /\ n \in DOMAIN index[c] /\ b \in Blocks /\ e.length = b.len
      /\ b.len <= e.offset /\ e.offset <= Len(file)
      /\ \A i \in 1..b.len : file[e.offset - b.len + i] = <<b, i>>
  BY DEF Whole
<1>2. e.file \in 0..MaxBlocks /\ e.offset \in Nat
  BY <1>1, EntryType DEF IndInv
<1>3. b.len \in Nat /\ Len(file) \in Nat
  BY <1>1, <1>2, BlockType, FileType DEF IndInv
<1>4. /\ Len(file) <= Len(files'[c][e.file])
      /\ \A i \in 1..Len(file) : files'[c][e.file][i] = file[i]
  BY <1>2 DEF FilesGrow
<1>5. Len(files'[c][e.file]) \in Nat
  <2>1. files'[c] \in [0..MaxBlocks -> Seq(Blocks \X Nat)]
    BY DEF IndInv, DiskType
  <2>2. files'[c][e.file] \in Seq(Blocks \X Nat)
    BY <1>2, <2>1
  <2> DEFINE after == files'[c][e.file]
  <2>3. after \in Seq(Blocks \X Nat)
    BY <2>2
  <2> HIDE DEF after
  <2>4. Len(after) \in Nat
    BY <2>3, LenProperties
  <2> QED
    BY <2>4 DEF after
<1>6. \A i \in 1..b.len : /\ e.offset - b.len + i \in 1..Len(file)
                         /\ files'[c][e.file][e.offset - b.len + i] = <<b, i>>
  <2> SUFFICES ASSUME NEW i \in 1..b.len
               PROVE  /\ e.offset - b.len + i \in 1..Len(file)
                      /\ files'[c][e.file][e.offset - b.len + i] = <<b, i>>
    OBVIOUS
  <2> HIDE DEF file
  <2>1. e.offset - b.len + i \in 1..Len(file)
    BY <1>1, <1>2, <1>3
  <2> QED
    BY <1>1, <1>4, <2>1
<1>7. e.offset <= Len(files'[c][e.file])
  <2>1. \A x, y, z \in Nat : x <= y /\ y <= z => x <= z
    OBVIOUS
  <2> QED
    BY <1>1, <1>2, <1>3, <1>4, <1>5, <2>1, Zenon
<1> QED
  BY <1>1, <1>6, <1>7 DEF Whole

\* The bytes of a block, or the first of them, are put at the end of a file.
LEMMA AppendedBytes ==
    ASSUME IndInv, NEW c \in Chains, NEW k \in 0..MaxBlocks, NEW b \in Blocks,
           NEW n \in 0..b.len, AppendBytes(c, k, b, n)
    PROVE  /\ FilesGrow
           /\ Len(files'[c][k]) = Len(files[c][k]) + n
           /\ \A i \in 1..n : files'[c][k][Len(files[c][k]) + i] = <<b, i>>
<1> DEFINE file == files[c][k]
           part == SubSeq(Bytes(b), 1, n)
<1>1. /\ file \in Seq(Blocks \X Nat) /\ Len(file) \in Nat
      /\ b.len \in Nat
  BY FileType, BlockType DEF IndInv
<1>2. part \in Seq(Blocks \X Nat) /\ Len(part) = n
  BY BytesType
<1>3. \A i \in 1..n : part[i] = <<b, i>>
  <2>1. Bytes(b) \in Seq(Blocks \X Nat) /\ Len(Bytes(b)) = b.len
    <3>1. Bytes(b) \in [1..b.len -> Blocks \X Nat]
      BY <1>1 DEF Bytes
    <3> QED
      BY <1>1, <3>1 DEF Bytes
  <2>2. \A i \in 1..n : part[i] = Bytes(b)[i]
    BY <1>1, <2>1
  <2> QED
    BY <1>1, <2>2 DEF Bytes
<1> HIDE DEF part
<1>4. /\ Len(file \o part) = Len(file) + n
      /\ \A i \in 1..Len(file) : (file \o part)[i] = file[i]
      /\ \A i \in 1..n : (file \o part)[Len(file) + i] = part[i]
  <2>1. /\ Len(file \o part) = Len(file) + n
        /\ \A i \in 1..(Len(file) + n) : (file \o part)[i] =
              IF i <= Len(file) THEN file[i] ELSE part[i - Len(file)]
    BY <1>1, <1>2, ConcatProperties
  <2> HIDE DEF file
  <2>2. ASSUME NEW i \in 1..Len(file)
        PROVE  (file \o part)[i] = file[i]
    BY <1>1, <2>1
  <2>3. ASSUME NEW i \in 1..n
        PROVE  (file \o part)[Len(file) + i] = part[i]
    <3>1. /\ Len(file) + i \in 1..(Len(file) + n) /\ ~(Len(file) + i <= Len(file))
          /\ (Len(file) + i) - Len(file) = i
      BY <1>1
    <3> QED
      BY <2>1, <3>1
  <2> QED
    BY <2>1, <2>2, <2>3
<1>5. files' = [files EXCEPT ![c] = [files[c] EXCEPT ![k] = file \o part]]
  BY DEF AppendBytes, IndInv, DiskType, part
<1> DEFINE new == file \o part
<1>6. /\ new = file \o part
      /\ files' = [files EXCEPT ![c] = [files[c] EXCEPT ![k] = new]]
  BY <1>5
<1> HIDE DEF new
<1>7. files'[c][k] = new
  <2>1. files[c] \in [0..MaxBlocks -> Seq(Blocks \X Nat)]
    BY DEF IndInv, DiskType
  <2> QED
    BY <1>6, <2>1 DEF IndInv, DiskType
<1>8. \A d \in Chains, j \in 0..MaxBlocks : <<d, j>> # <<c, k>> => files'[d][j] = files[d][j]
  BY <1>6 DEF IndInv, DiskType
<1>9. ASSUME NEW d \in Chains, NEW j \in 0..MaxBlocks
      PROVE  /\ Len(files[d][j]) <= Len(files'[d][j])
             /\ \A i \in 1..Len(files[d][j]) : files'[d][j][i] = files[d][j][i]
  <2>1. CASE d = c /\ j = k
    BY <1>1, <1>4, <1>6, <1>7, <2>1
  <2>2. CASE ~(d = c /\ j = k)
    <3>1. files'[d][j] = files[d][j] /\ Len(files[d][j]) \in Nat
      BY <1>8, <2>2, FileType DEF IndInv
    <3> QED
      BY <3>1
  <2> QED
    BY <2>1, <2>2
<1> QED
  BY <1>3, <1>4, <1>6, <1>7, <1>9 DEF FilesGrow

LEMMA SameFiles ==
    ASSUME IndInv, files' = files
    PROVE  FilesGrow
<1>1. \A c \in Chains, k \in 0..MaxBlocks : Len(files[c][k]) \in Nat
  BY FileType DEF IndInv
<1> QED
  BY <1>1 DEF FilesGrow

LEMMA EntriesStay ==
    ASSUME IndInv, IndInv', FilesGrow,
           \A c \in Chains : \A n \in 1..last[c] :
             /\ n \in spoilt'[c] <=> n \in spoilt[c]
             /\ n \in DOMAIN index[c] => n \in DOMAIN index'[c] /\ index'[c][n] = index[c][n]
    PROVE  Kept
<1> SUFFICES ASSUME NEW c \in Chains, NEW n \in 1..last[c], NEW b, Whole(c, n, b)
             PROVE  Whole(c, n, b)'
  BY DEF Kept
<1>1. n \in DOMAIN index[c]
  BY DEF Whole
<1> QED
  BY <1>1, WholeStays

\* Numbers that keep what they lead to are in order after a step that gives none.
LEMMA NumberedKept ==
    ASSUME IndInv, IndInv', NumberedInv, Kept, last' = last, DOMAIN spoilt' = Chains,
           Handed <= Handed'
    PROVE  NumberedInv'
<1> SUFFICES ASSUME NEW c \in Chains, NEW n \in 1..last[c], n \notin spoilt'[c]
             PROVE  \E b \in Blocks : Whole(c, n, b)' /\ b.id <= Handed'
  BY DEF NumberedInv
<1>1. n \notin spoilt[c]
  BY DEF Kept
<1>2. PICK b \in Blocks : Whole(c, n, b) /\ b.id <= Handed
  BY <1>1 DEF NumberedInv
<1>3. Whole(c, n, b)'
  BY <1>2 DEF Kept
<1>4. b.id \in Int /\ Handed \in Int /\ Handed' \in Int
  BY BlockType DEF IndInv, ProcessType, Handed
<1> QED
  BY <1>2, <1>3, <1>4

-----------------------------------------------------------------------------
(* The steps *)

\* A step after which writeRaw is at work on nothing, and which gives no number.
LEMMA OtherSteps ==
    ASSUME IndInv, IndInv', StoreInv, FilesGrow, UNCHANGED <<index, last, spoilt>>,
           job' = NoJob, blocks <= blocks'
    PROVE  Kept /\ StoreInv'
<1>1. Kept
  BY EntriesStay
<1>2. Handed <= Handed'
  BY DEF Handed, IndInv, ProcessType
<1>3. NumberedInv'
  BY <1>1, <1>2, NumberedKept DEF StoreInv, NumberedInv
<1>4. JobInv'
  BY DEF JobInv
<1> QED
  BY <1>1, <1>3, <1>4 DEF StoreInv

LEMMA WriteBlockStore ==
    ASSUME IndInv, IndInv', StoreInv, NEW c \in Chains, NEW len \in Lengths,
           WriteBlock(c, len)
    PROVE  Kept /\ StoreInv'
<1> DEFINE b == [id |-> blocks + 1, len |-> len]
<1>1. /\ c \in DOMAIN umapSC /\ job = NoJob /\ blocks < MaxBlocks /\ len \in Nat
      /\ blocks \in Nat /\ blocks' = blocks + 1
      /\ index' = index /\ last' = last /\ spoilt' = spoilt
  BY StorageAssumption DEF WriteBlock, Wanted, IndInv, ProcessType
<1>2. PICK e \in Ready(c), n \in 0..len :
        /\ e.stream # "closed"
        /\ AppendBytes(c, e.counter, b, n)
        /\ umapSC' = [umapSC EXCEPT ![c] = [e EXCEPT !.size = e.size + len,
                                            !.stream = IF n = len THEN @ ELSE "bad"]]
  BY DEF WriteBlock
<1>3. e \in Entries /\ e.counter \in 0..MaxBlocks /\ e.stream \in {"open", "bad"}
  BY <1>1, <1>2, ReadyEntry DEF Entries, Streams
<1>4. b \in Blocks /\ b.len = len /\ n \in 0..b.len
  BY <1>1, NewBlock DEF IndInv
<1>5. /\ umapSC'[c].counter = e.counter
      /\ umapSC'[c].stream = IF n = len THEN e.stream ELSE "bad"
  <2> DEFINE stream == IF n = len THEN e.stream ELSE "bad"
             new == [e EXCEPT !.size = e.size + len, !.stream = stream]
  <2>1. umapSC' = [umapSC EXCEPT ![c] = new]
    BY <1>2
  <2>2. umapSC'[c] = new
    BY <1>1, <2>1, MapEntry DEF IndInv, ProcessType
  <2> HIDE DEF stream
  <2>3. new.counter = e.counter /\ new.stream = stream
    BY <1>3 DEF Entries
  <2> QED
    BY <2>2, <2>3 DEF stream
<1> HIDE DEF b
<1>6. /\ FilesGrow
      /\ Len(files'[c][e.counter]) = Len(files[c][e.counter]) + n
      /\ \A i \in 1..n : files'[c][e.counter][Len(files[c][e.counter]) + i] = <<b, i>>
  BY <1>2, <1>3, <1>4, AppendedBytes
<1>7. Kept
  BY <1>1, <1>6, EntriesStay
<1> DEFINE written == [step |-> "index", chain |-> c, number |-> NextNumber(c),
                       length |-> len]
<1>8. job' = written /\ written # NoJob
  BY DEF WriteBlock, NoJob
<1>9. Handed <= Handed'
  BY <1>1, <1>8 DEF Handed
<1>10. NumberedInv'
  BY <1>1, <1>7, <1>9, NumberedKept DEF StoreInv, NumberedInv
<1>11. ASSUME umapSC'[c].stream = "open"
       PROVE  EndsWith(files'[c][e.counter], b)
  <2>1. n = len
    BY <1>5, <1>11
  <2>2. Len(files[c][e.counter]) \in Nat
    BY <1>3, FileType DEF IndInv
  <2>3. b.len <= Len(files'[c][e.counter])
    BY <1>1, <1>4, <1>6, <2>1, <2>2
  <2>4. Len(files'[c][e.counter]) - b.len = Len(files[c][e.counter])
    BY <1>1, <1>4, <1>6, <2>1, <2>2
  <2> QED
    BY <1>4, <1>6, <2>1, <2>3, <2>4 DEF EndsWith
<1>12. Current' = b
  BY <1>1, <1>8 DEF Current, b
<1>13. JobInv'
  <2>1. job'.number = last'[job'.chain] + 1 /\ job'.step = "index" /\ job'.chain = c
    BY <1>1, <1>8 DEF NextNumber
  <2> QED
    BY <1>3, <1>5, <1>11, <1>12, <2>1 DEF JobInv, FileOf
<1> QED
  BY <1>7, <1>10, <1>13 DEF StoreInv

\* What writeRaw puts into the index is what it put into the file.
LEMMA WriteIndexStore ==
    ASSUME IndInv, IndInv', StoreInv, WriteIndex
    PROVE  Kept /\ StoreInv'
<1> DEFINE c == job.chain
           m == job.number
           size == umapSC[c].size
           k == FileOf(c)
           entry == [file |-> k, offset |-> size, length |-> job.length]
<1>1. /\ job # NoJob /\ job.step = "index"
      /\ index' = [index EXCEPT ![c] =
                     [n \in DOMAIN index[c] \cup {m} |-> IF n = m THEN entry ELSE index[c][n]]]
      /\ spoilt' = [spoilt EXCEPT ![c] = IF umapSC[c].stream = "bad" THEN spoilt[c] \cup {m}
                                         ELSE spoilt[c] \ {m}]
      /\ \E s \in {"roll", "height"} : job' = [job EXCEPT !.step = s]
      /\ files' = files /\ last' = last /\ blocks' = blocks /\ umapSC' = umapSC
  BY DEF WriteIndex, At
<1>2. /\ c \in Chains /\ c \in DOMAIN umapSC /\ m \in 1..MaxBlocks
      /\ job.length \in Lengths /\ umapSC[c] \in Entries
      /\ job'.chain = c /\ job'.number = m /\ job'.step \in {"roll", "height"}
      /\ job'.length = job.length
      /\ job' # NoJob
  <2>1. job'.length = job.length
    BY <1>1 DEF IndInv, ProcessType, Jobs
  <2> QED
    BY <1>1, <2>1, JobType DEF IndInv
<1>3. /\ m = last[c] + 1 /\ last[c] \in Nat
      /\ umapSC[c].stream # "closed"
      /\ umapSC[c].stream = "open" => EndsWith(files[c][k], Current)
  BY <1>1, <1>2 DEF StoreInv, JobInv, IndInv, DiskType
<1>4. FilesGrow
  BY <1>1, SameFiles
<1>5. DOMAIN index = Chains /\ DOMAIN spoilt = Chains
  BY DEF IndInv, DiskType, StoreInv, NumberedInv
<1> HIDE DEF entry, size
<1>6. Kept
  <2> SUFFICES ASSUME NEW d \in Chains, NEW n \in 1..last[d]
               PROVE  /\ n \in spoilt'[d] <=> n \in spoilt[d]
                      /\ n \in DOMAIN index[d] => n \in DOMAIN index'[d]
                                                  /\ index'[d][n] = index[d][n]
    BY <1>4, EntriesStay
  <2>1. CASE d # c
    BY <1>1, <1>5, <2>1
  <2>2. CASE d = c
    <3>1. n # m
      BY <1>3, <2>2
    <3> QED
      BY <1>1, <1>2, <1>5, <2>2, <3>1
  <2> QED
    BY <2>1, <2>2
<1>7. NumberedInv'
  <2>1. DOMAIN spoilt' = Chains
    BY <1>1, <1>5
  <2>2. Handed <= Handed'
    BY <1>1, <1>2 DEF Handed, IndInv, ProcessType
  <2> QED
    BY <1>1, <1>6, <2>1, <2>2, NumberedKept DEF StoreInv
<1>8. ASSUME m \notin spoilt'[c]
      PROVE  Whole(c, m, Current)'
  <2>1. umapSC[c].stream = "open"
    BY <1>1, <1>2, <1>3, <1>5, <1>8 DEF Entries, Streams
  <2>2. EndsWith(files[c][k], Current)
    BY <1>3, <2>1
  <2>3. size = Len(files[c][k])
    BY <1>2, <2>1 DEF IndInv, SizeMatchesFile, size
  <2>4. m \in DOMAIN index'[c] /\ index'[c][m] = entry
    BY <1>1, <1>2, <1>5
  <2>5. entry.file = k /\ entry.offset = size /\ entry.length = job.length
    BY DEF entry
  <2>6. Current' = Current /\ Current.len = job.length
    BY <1>1, <1>2 DEF Current
  <2>7. Current \in Blocks
    <3>1. last[c] + 1 <= blocks /\ blocks \in 0..MaxBlocks
      BY <1>1, <1>2, <1>3, JobType DEF IndInv, ProcessType
    <3>2. blocks \in 1..MaxBlocks
      BY <1>3, <3>1, StorageAssumption
    <3> QED
      BY <1>2, <3>2 DEF Current, Blocks
  <2>8. k \in 0..MaxBlocks
    BY <1>2 DEF Entries, FileOf
  <2>9. size \in Nat /\ Current.len \in Nat
    BY <2>3, <2>7, <2>8, <1>2, BlockType, FileType DEF IndInv
  <2>10. /\ Current.len <= size /\ size <= Len(files[c][k])
         /\ \A i \in 1..Current.len : files[c][k][size - Current.len + i] = <<Current, i>>
    BY <2>2, <2>3, <2>9 DEF EndsWith
  <2>11. PICK d, n, x : d = c /\ n = m /\ x = Current
    OBVIOUS
  <2>12. Whole(d, n, x)'
    <3>1. /\ n \in DOMAIN index'[d] /\ index'[d][n].length = x.len
          /\ index'[d][n].offset = size /\ index'[d][n].file = k /\ x \in Blocks
          /\ files'[d][k] = files[d][k]
      BY <1>1, <2>4, <2>5, <2>6, <2>7, <2>11
    <3> HIDE DEF c, m, k
    <3> QED
      BY <2>10, <2>11, <3>1 DEF Whole
  <2>13. Current' = x /\ job'.chain = d /\ job'.number = n
    BY <1>2, <2>6, <2>11
  <2> QED
    BY <2>12, <2>13 DEF Whole
<1>9. JobInv'
  BY <1>1, <1>2, <1>3, <1>8 DEF JobInv
<1> QED
  BY <1>6, <1>7, <1>9 DEF StoreInv

LEMMA RollOverStore ==
    ASSUME IndInv, IndInv', StoreInv, RollOver
    PROVE  Kept /\ StoreInv'
<1>1. /\ job # NoJob /\ job.step = "roll" /\ blocks' = blocks /\ files' = files
      /\ UNCHANGED <<index, last, spoilt>>
      /\ job' = NoJob \/ job' = [job EXCEPT !.step = "height"]
  BY DEF RollOver, At, disk
<1>2. FilesGrow
  BY <1>1, SameFiles
<1>3. CASE job' = NoJob
  <2>1. blocks <= blocks'
    BY <1>1 DEF IndInv, ProcessType
  <2> QED
    BY <1>1, <1>2, <1>3, <2>1, OtherSteps
<1>4. CASE job' # NoJob
  <2>1. job' = [job EXCEPT !.step = "height"]
    BY <1>1, <1>4
  <2>2. /\ job'.chain = job.chain /\ job'.number = job.number /\ job'.step = "height"
        /\ job'.length = job.length
    BY <1>1, <2>1 DEF IndInv, ProcessType, Jobs
  <2>3. Kept
    BY <1>1, <1>2, EntriesStay
  <2>4. Handed <= Handed'
    BY <1>1, <1>4 DEF Handed, IndInv, ProcessType
  <2>5. NumberedInv'
    BY <1>1, <2>3, <2>4, NumberedKept DEF StoreInv, NumberedInv
  <2>6. job.number \notin spoilt[job.chain] => Whole(job.chain, job.number, Current)
    BY <1>1 DEF StoreInv, JobInv
  <2>7. Current' = Current
    BY <1>1, <2>2 DEF Current
  <2>8. JobInv'
    BY <1>1, <2>2, <2>6, <2>7 DEF StoreInv, JobInv, Whole
  <2> QED
    BY <2>3, <2>5, <2>8 DEF StoreInv
<1> QED
  BY <1>3, <1>4

LEMMA WriteHeightStore ==
    ASSUME IndInv, IndInv', StoreInv, WriteHeight
    PROVE  Kept /\ StoreInv'
<1> DEFINE c == job.chain
<1>1. /\ job # NoJob /\ job.step = "height" /\ job' = NoJob
      /\ last' = [last EXCEPT ![c] = job.number]
      /\ files' = files /\ blocks' = blocks /\ UNCHANGED <<index, spoilt>>
  BY DEF WriteHeight, At
<1>2. c \in Chains /\ job.number = last[c] + 1 /\ last \in [Chains -> Nat]
  BY <1>1, JobType DEF IndInv, DiskType, StoreInv, JobInv
<1>3. Kept
  BY <1>1, SameFiles, EntriesStay
<1>4. blocks \in Nat /\ Handed' = blocks /\ Handed = blocks - 1
  BY <1>1 DEF Handed, IndInv, ProcessType
<1>5. ASSUME NEW d \in Chains, NEW n \in 1..last'[d], n \notin spoilt'[d]
      PROVE  \E b \in Blocks : Whole(d, n, b)' /\ b.id <= Handed'
  <2>1. CASE d = c /\ n = job.number
    <3>1. Whole(c, job.number, Current)
      BY <1>1, <1>5, <2>1 DEF StoreInv, JobInv
    <3>3. Current \in Blocks /\ Current.id = blocks
      BY <3>1 DEF Whole, Current
    <3>4. Whole(d, n, Current) /\ files' = files /\ index' = index
      BY <1>1, <2>1, <3>1
    <3>5. PICK x : x = Current
      OBVIOUS
    <3>6. Whole(d, n, x)'
      BY <3>4, <3>5 DEF Whole
    <3> QED
      BY <1>4, <3>3, <3>5, <3>6
  <2>2. CASE ~(d = c /\ n = job.number)
    <3>1. n \in 1..last[d]
      BY <1>1, <1>2, <1>5, <2>2
    <3>2. PICK b \in Blocks : Whole(d, n, b) /\ b.id <= Handed
      BY <1>1, <1>5, <3>1 DEF StoreInv, NumberedInv
    <3>3. Whole(d, n, b)'
      BY <1>3, <3>1, <3>2 DEF Kept
    <3>4. b.id \in Int
      BY BlockType
    <3> QED
      BY <1>4, <3>2, <3>3, <3>4
  <2> QED
    BY <2>1, <2>2
<1>6. DOMAIN spoilt' = Chains
  BY <1>1 DEF StoreInv, NumberedInv
<1>7. NumberedInv' /\ JobInv'
  BY <1>1, <1>5, <1>6 DEF NumberedInv, JobInv
<1> QED
  BY <1>3, <1>7 DEF StoreInv

LEMMA InitStore == Init => StoreInv
<1> SUFFICES ASSUME Init PROVE StoreInv
  OBVIOUS
<1>1. \A c \in Chains : 1..last[c] = {}
  BY DEF Init
<1>2. DOMAIN spoilt = Chains /\ job = NoJob
  BY DEF Init
<1> QED
  BY <1>1, <1>2 DEF StoreInv, NumberedInv, JobInv

LEMMA NextStore ==
    ASSUME IndInv, IndInv', StoreInv, [Next]_vars
    PROVE  Kept /\ StoreInv'
<1>1. blocks \in Nat
  BY DEF IndInv, ProcessType
<1>2. ASSUME files' = files, UNCHANGED <<index, last, spoilt>>, job' = NoJob, blocks' = blocks
      PROVE  Kept /\ StoreInv'
  BY <1>1, <1>2, SameFiles, OtherSteps
<1>3. CASE \/ Start \/ OpenMeta \/ FinishGenesis \/ LoadRegistries \/ Stop
           \/ RemoveStaleLock \/ \E c \in Chains : AddSubChain(c)
  <2>1. job = NoJob
    BY <1>3 DEF Start, OpenMeta, FinishGenesis, LoadRegistries, Stop, RemoveStaleLock,
       AddSubChain, Quiet, IndInv, PhaseInv, Idle
  <2> QED
    BY <1>2, <1>3, <2>1 DEF Start, OpenMeta, FinishGenesis, LoadRegistries, Stop,
       RemoveStaleLock, AddSubChain, disk, process
<1>4. CASE StartFails \/ Close \/ Kill \/ UseStrayPointer
  BY <1>2, <1>4 DEF StartFails, Close, Kill, UseStrayPointer, Down, disk
<1>5. CASE \E c \in Chains : WriteRefused(c)
  BY <1>2, <1>5 DEF WriteRefused, Wanted, disk
<1>6. ASSUME NEW c \in Chains, NEW len \in Lengths, KilledWriting(c, len)
      PROVE  Kept /\ StoreInv'
  <2> DEFINE b == [id |-> blocks + 1, len |-> len]
  <2>1. /\ c \in DOMAIN umapSC /\ blocks < MaxBlocks /\ len \in Nat
        /\ blocks' = blocks + 1 /\ job' = NoJob /\ UNCHANGED <<index, last, spoilt>>
    BY <1>6, StorageAssumption DEF KilledWriting, Wanted, Down
  <2>2. PICK n \in 0..(len - 1) : AppendBytes(c, FileOf(c), b, n)
    BY <1>6 DEF KilledWriting
  <2>3. FileOf(c) \in 0..MaxBlocks
    BY <2>1, MapEntry DEF FileOf, IndInv, ProcessType, Entries
  <2>4. b \in Blocks /\ n \in 0..b.len
    BY <2>1, NewBlock DEF IndInv
  <2>5. FilesGrow
    BY <2>2, <2>3, <2>4, AppendedBytes
  <2> QED
    BY <1>1, <2>1, <2>5, OtherSteps
<1>7. CASE UNCHANGED vars
  <2>1. files' = files /\ UNCHANGED <<index, last, spoilt, job, blocks, umapSC>>
    BY <1>7 DEF vars, disk, process
  <2>2. FilesGrow
    BY <2>1, SameFiles
  <2>3. Kept
    BY <2>1, <2>2, EntriesStay
  <2>4. Handed <= Handed'
    BY <2>1 DEF Handed, IndInv, ProcessType
  <2>5. NumberedInv'
    BY <2>1, <2>3, <2>4, NumberedKept DEF StoreInv, NumberedInv
  <2>6. JobInv'
    BY <2>1 DEF StoreInv, JobInv, Whole, Current, FileOf, EndsWith
  <2> QED
    BY <2>3, <2>5, <2>6 DEF StoreInv
<1> QED
  BY <1>3, <1>4, <1>5, <1>6, <1>7, WriteBlockStore, WriteIndexStore, RollOverStore,
     WriteHeightStore DEF Next

\* Every number that was given leads to the whole block it was given to, or to one whose
\* bytes the disk did not take (writeRaw, StorageManager.cpp:241).
THEOREM StoreInvTheorem == Spec => []StoreInv
<1>1. Init => StoreInv
  BY InitStore
<1>2. IndInv /\ IndInv' /\ StoreInv /\ [Next]_vars => StoreInv'
  BY NextStore
<1> QED
  BY <1>1, <1>2, IndInvTheorem, PTL DEF Spec

-----------------------------------------------------------------------------
(* The refinement *)

\* The bytes of a whole block are read back as that block.
LEMMA BlockRead ==
    ASSUME NEW file \in Seq(Blocks \X Nat), NEW offset \in Nat, NEW b \in Blocks,
           b.len <= offset, offset <= Len(file),
           \A i \in 1..b.len : file[offset - b.len + i] = <<b, i>>
    PROVE  /\ offset - b.len + 1 >= 1
           /\ SubSeq(file, offset - b.len + 1, offset) = Bytes(b)
           /\ file[offset - b.len + 1][1] = b
<1> DEFINE from == offset - b.len + 1
           sub == SubSeq(file, from, offset)
<1>1. Len(file) \in Nat /\ b.len \in Nat /\ b.len > 0
  BY BlockType
<1>2. /\ from \in 1..(Len(file) + 1) /\ offset \in (from - 1)..Len(file)
      /\ offset - from + 1 = b.len /\ from <= offset
  <2> DEFINE size == Len(file)
             length == b.len
  <2>1. /\ size \in Nat /\ length \in Nat /\ length > 0
        /\ length <= offset /\ offset <= size
    BY <1>1
  <2> HIDE DEF size, length
  <2>2. /\ offset - length + 1 \in 1..(size + 1)
        /\ offset \in (offset - length)..size
        /\ offset - (offset - length + 1) + 1 = length
        /\ offset - length + 1 <= offset
    BY <2>1
  <2> QED
    BY <2>1, <2>2 DEF size, length
<1>3. /\ sub \in Seq(Blocks \X Nat) /\ Len(sub) = b.len
      /\ \A i \in 1..b.len : sub[i] = file[from + i - 1]
  <2>1. \A i \in from..offset : file[i] \in Blocks \X Nat
    <3>1. \A i \in from..offset : i \in 1..Len(file)
      <4> DEFINE len == Len(file)
      <4>1. from \in 1..(len + 1) /\ offset \in (from - 1)..len /\ len \in Nat
        BY <1>1, <1>2
      <4> HIDE DEF from, len
      <4>2. \A i \in from..offset : i \in 1..len
        BY <4>1
      <4> QED
        BY <4>2 DEF len
    <3>2. \A i \in 1..Len(file) : file[i] \in Blocks \X Nat
      BY <1>1
    <3> QED
      BY <3>1, <3>2, Zenon
  <2>2. from \in Int /\ offset \in Int
    BY <1>1, <1>2
  <2> HIDE DEF from
  <2>3. /\ sub \in Seq(Blocks \X Nat)
        /\ Len(sub) = IF from <= offset THEN offset - from + 1 ELSE 0
        /\ \A i \in 1..offset - from + 1 : sub[i] = file[from + i - 1]
    BY <2>1, <2>2, SubSeqProperties
  <2> QED
    BY <1>2, <2>3
<1>4. \A i \in 1..b.len : sub[i] = <<b, i>>
  <2>1. \A i \in 1..b.len : from + i - 1 = offset - b.len + i
    BY <1>1
  <2> QED
    BY <1>3, <2>1
<1> HIDE DEF sub
<1>5. sub = [i \in 1..b.len |-> sub[i]]
  BY <1>3
<1>6. sub = Bytes(b)
  BY <1>4, <1>5 DEF Bytes
<1>7. file[from] = <<b, 1>>
  BY <1>1
<1> QED
  BY <1>2, <1>6, <1>7 DEF sub

LEMMA WholeRead ==
    ASSUME IndInv, NEW c \in Chains, NEW n, NEW b, Whole(c, n, b)
    PROVE  ReadBack(c, n) = b
<1> DEFINE e == index[c][n]
<1>1. /\ n \in DOMAIN index[c] /\ b \in Blocks /\ e.length = b.len
      /\ b.len <= e.offset /\ e.offset <= Len(files[c][e.file])
      /\ \A i \in 1..b.len : files[c][e.file][e.offset - b.len + i] = <<b, i>>
  BY DEF Whole
<1>2. e.offset \in Nat /\ files[c][e.file] \in Seq(Blocks \X Nat)
  BY <1>1, EntryType, FileType DEF IndInv
<1> HIDE DEF e
<1>3. /\ e.offset - b.len + 1 >= 1
      /\ SubSeq(files[c][e.file], e.offset - b.len + 1, e.offset) = Bytes(b)
      /\ files[c][e.file][e.offset - b.len + 1][1] = b
  BY <1>1, <1>2, BlockRead
<1> QED
  BY <1>1, <1>3 DEF ReadBack, e

\* What the numbers of a chain stand for stays.
LEMMA SameContents ==
    ASSUME IndInv, IndInv', StoreInv, Kept, NEW c \in Chains, NEW n \in 1..last[c]
    PROVE  (IF n \in spoilt'[c] THEN Lost ELSE ReadBack(c, n)')
             = (IF n \in spoilt[c] THEN Lost ELSE ReadBack(c, n))
<1>1. n \in spoilt'[c] <=> n \in spoilt[c]
  BY DEF Kept
<1>2. CASE n \notin spoilt[c]
  <2>1. PICK b \in Blocks : Whole(c, n, b)
    BY <1>2 DEF StoreInv, NumberedInv
  <2>2. ReadBack(c, n) = b
    BY <2>1, WholeRead DEF IndInv
  <2>3. Whole(c, n, b)'
    BY <2>1 DEF Kept
  <2>4. ReadBack(c, n)' = b
    <3> DEFINE e == index'[c][n]
    <3>1. /\ n \in DOMAIN index'[c] /\ b \in Blocks /\ e.length = b.len
          /\ b.len <= e.offset /\ e.offset <= Len(files'[c][e.file])
          /\ \A i \in 1..b.len : files'[c][e.file][e.offset - b.len + i] = <<b, i>>
      BY <2>3 DEF Whole
    <3>2. e.file \in 0..MaxBlocks /\ e.offset \in Nat
      BY <3>1 DEF IndInv, DiskType, MapsTo, IndexEntry
    <3>3. files'[c][e.file] \in Seq(Blocks \X Nat)
      <4>1. files'[c] \in [0..MaxBlocks -> Seq(Blocks \X Nat)]
        BY DEF IndInv, DiskType
      <4> QED
        BY <3>2, <4>1
    <3> HIDE DEF e
    <3>4. /\ e.offset - b.len + 1 >= 1
          /\ SubSeq(files'[c][e.file], e.offset - b.len + 1, e.offset) = Bytes(b)
          /\ files'[c][e.file][e.offset - b.len + 1][1] = b
      BY <3>1, <3>2, <3>3, BlockRead
    <3> QED
      BY <3>1, <3>4 DEF ReadBack, e
  <2> QED
    BY <1>1, <1>2, <2>2, <2>4
<1> QED
  BY <1>1, <1>2

\* Only WriteHeight gives numbers.
LEMMA HeightsStay ==
    ASSUME [Next]_vars, ~WriteHeight
    PROVE  last' = last
  BY DEF Next, vars, disk, Start, OpenMeta, FinishGenesis, LoadRegistries, StartFails, Stop,
     Close, Kill, UseStrayPointer, RemoveStaleLock, WriteIndex, RollOver, AddSubChain,
     WriteRefused, WriteBlock, KilledWriting

LEMMA NothingStored ==
    ASSUME IndInv, IndInv', StoreInv, Kept, last' = last
    PROVE  StoredBlocks' = StoredBlocks
  BY SameContents DEF StoredBlocks

\* The number that is given leads to a block that is newer than all before, or is Lost.
LEMMA OneStored ==
    ASSUME IndInv, IndInv', StoreInv, StoreInv', Kept, WriteHeight
    PROVE  \E c \in Chains : Store!Store(c)
<1> DEFINE c == job.chain
           m == last[c] + 1
           v == IF m \in spoilt[c] THEN Lost ELSE Current
           content(d, n) == IF n \in spoilt[d] THEN Lost ELSE ReadBack(d, n)
<1>1. /\ job # NoJob /\ job.step = "height" /\ job' = NoJob
      /\ last' = [last EXCEPT ![c] = job.number]
      /\ UNCHANGED <<files, index, spoilt, blocks>>
  BY DEF WriteHeight, At
<1>2. c \in Chains /\ job.number = m /\ last \in [Chains -> Nat] /\ blocks \in Nat
  BY <1>1, JobType DEF IndInv, DiskType, ProcessType, StoreInv, JobInv
<1>3. m \notin spoilt[c] => Whole(c, m, Current)
  BY <1>1, <1>2 DEF StoreInv, JobInv
<1>4. content(c, m) = v
  BY <1>2, <1>3, WholeRead
<1>5. v \in Blocks \cup {Lost}
  BY <1>3 DEF Whole
<1>6. /\ StoredBlocks = [d \in Chains |-> [n \in 1..last[d] |-> content(d, n)]]
      /\ StoredBlocks' = [d \in Chains |-> [n \in 1..last'[d] |-> content(d, n)]]
  BY <1>1 DEF StoredBlocks, ReadBack
<1> HIDE DEF content, v
<1>7. ASSUME v # Lost, NEW i \in DOMAIN StoredBlocks[c], StoredBlocks[c][i] # Lost
      PROVE  OlderBlock(StoredBlocks[c][i], v)
  <2>1. i \in 1..last[c] /\ StoredBlocks[c][i] = content(c, i)
    BY <1>2, <1>6, <1>7
  <2>2. i \notin spoilt[c] /\ content(c, i) = ReadBack(c, i)
    BY <1>7, <2>1 DEF content
  <2>3. PICK b \in Blocks : Whole(c, i, b) /\ b.id <= Handed
    BY <1>2, <2>1, <2>2 DEF StoreInv, NumberedInv
  <2>4. content(c, i) = b
    BY <1>2, <2>2, <2>3, WholeRead
  <2>5. b.id < blocks
    BY <1>1, <1>2, <2>3, BlockType DEF Handed
  <2>6. v = Current /\ Current.id = blocks
    BY <1>7 DEF v, Current
  <2> QED
    BY <2>1, <2>4, <2>5, <2>6 DEF OlderBlock
<1>8. StoredBlocks' = [StoredBlocks EXCEPT ![c] = Append(StoredBlocks[c], v)]
  <2>1. /\ StoredBlocks[c] \in Seq({content(c, n) : n \in 1..last[c]})
        /\ Len(StoredBlocks[c]) = last[c]
    <3>1. last[c] \in Nat /\ StoredBlocks[c] = [n \in 1..last[c] |-> content(c, n)]
      BY <1>2, <1>6
    <3>2. StoredBlocks[c] \in [1..last[c] -> {content(c, n) : n \in 1..last[c]}]
      BY <3>1
    <3> QED
      BY <3>1, <3>2
  <2>2. Append(StoredBlocks[c], v)
          = [n \in 1..m |-> IF n = m THEN v ELSE StoredBlocks[c][n]]
    BY <1>2, <2>1
  <2>3. StoredBlocks'[c] = [n \in 1..m |-> content(c, n)]
    BY <1>1, <1>2, <1>6
  <2>4. \A n \in 1..m : n # m => n \in 1..last[c] /\ StoredBlocks[c][n] = content(c, n)
    BY <1>2, <1>6
  <2>5. StoredBlocks'[c] = Append(StoredBlocks[c], v)
    BY <1>2, <1>4, <2>2, <2>3, <2>4
  <2>6. \A d \in Chains : d # c => StoredBlocks'[d] = StoredBlocks[d]
    BY <1>1, <1>2, <1>6
  <2> QED
    BY <1>2, <1>6, <2>5, <2>6
<1>9. Store!Store(c)
  BY <1>5, <1>7, <1>8 DEF Store!Store, Store!Newest
<1> QED
  BY <1>2, <1>9

\* Over kills, restarts with an older registry and files that fail, the storage is a set
\* of sequences that only grow: what a number leads to never changes, and a block has a
\* number once (writeRaw, StorageManager.cpp:241).
THEOREM StoresBlocksTheorem == Spec => StoresBlocks
<1>1. Init => Store!Init
  <2> SUFFICES ASSUME Init PROVE StoredBlocks = [c \in Chains |-> <<>>]
    BY DEF Store!Init
  <2>1. \A c \in Chains : 1..last[c] = {}
    BY DEF Init
  <2> QED
    BY <2>1 DEF StoredBlocks
<1>2. IndInv /\ IndInv' /\ StoreInv /\ StoreInv' /\ [Next]_vars
        => [\E c \in Chains : Store!Store(c)]_StoredBlocks
  <2> SUFFICES ASSUME IndInv, IndInv', StoreInv, StoreInv', [Next]_vars
               PROVE  (\E c \in Chains : Store!Store(c)) \/ StoredBlocks' = StoredBlocks
    OBVIOUS
  <2>1. Kept
    BY NextStore
  <2>2. CASE WriteHeight
    BY <2>1, <2>2, OneStored
  <2>3. CASE ~WriteHeight
    BY <2>1, <2>3, HeightsStay, NothingStored
  <2> QED
    BY <2>2, <2>3
<1> QED
  BY <1>1, <1>2, IndInvTheorem, StoreInvTheorem, PTL DEF Spec, StoresBlocks, Store!Spec

=============================================================================
