-------------------------------- MODULE Storage --------------------------------
(***************************************************************************)
(* The storage of a full node over many runs of its process                *)
(* (io/StorageManager.cpp, io/smSC.h, MCP/MCP02/SubChainManager.cpp and    *)
(* SubChain.cpp): the lock file, the meta database with the registries of  *)
(* the chains and of their raw files, the raw files, and each chain's      *)
(* index of them.  The process may be killed between any two steps, and in *)
(* the middle of a write.                                                  *)
(*                                                                         *)
(* Databases take every write; raw files may fail to open and to take what *)
(* is written.  The genesis blocks are taken for genuine (init exits       *)
(* otherwise, unless compiled for debugging).                              *)
(***************************************************************************)
EXTENDS Integers, SequencesExt, FiniteSets

CONSTANTS
    NumChains,       \* chains that init creates: MetaChain, TCT, MINE
    OwnGenesis,      \* those whose initGenesis stores a block of their own
    Nets,            \* values of TestNet
    RawMaxes,        \* values m_uimRawFileSizeMax may have: nothing sets it
    Lengths,         \* lengths of serialized blocks
    Missing,         \* a key that was never written, a block that is not there
    Lost,            \* a block whose bytes the disk did not take
    MaxBlocks,       \* bound of the model: blocks handed to writeRaw
    MaxCrashes       \* bound of the model: kills and files that fail

ASSUME StorageAssumption ==
    /\ NumChains \in Nat \ {0}
    /\ OwnGenesis \subseteq 0..(NumChains - 1)
    /\ Lengths \subseteq Nat \ {0} /\ RawMaxes \subseteq Nat
    /\ MaxBlocks \in Nat /\ MaxCrashes \in Nat

Chains == 0..(NumChains - 1)
MetaChainId == 0       \* MC_CHAIN_IDENTIFIER

Blocks == [id : 1..MaxBlocks, len : Lengths]
Bytes(b) == [i \in 1..b.len |-> <<b, i>>]

VARIABLES
    lock,        \* the lock file exists
    meta,        \* the meta database
    files,       \* raw files of each chain, by counter: sequences of bytes
    index,       \* "mbl." entries of each chain, by block number
    last,        \* "last_block" of each chain
    pc,          \* where the process is; "down" if there is none
    config,      \* node.ini of this run of the process
    rawMax,      \* m_uimRawFileSizeMax
    made,        \* the chains were made by init, not read back
    chains,      \* m_mapSubChains: which chains there are
    umapSC,      \* m_umapSC: counter, believed size and stream of the raw file
    todo,        \* blocks that initialization is about to store, by chain
    job,         \* writeRaw under way
    blocks,      \* blocks handed to writeRaw so far
    crashes,     \* kills and failures so far
    spoilt       \* history: numbers given while the chain's stream was bad

disk == <<lock, meta, files, index, last>>
process == <<config, rawMax, made, chains, umapSC, todo, job>>
vars == <<disk, pc, process, blocks, crashes, spoilt>>

Configs == [net : Nets, complete : BOOLEAN]   \* chains allowed, PoPs named
NoJob == [step |-> "none"]
NoEntries == [c \in {} |-> 0]

Init ==
    /\ lock = FALSE
    /\ meta = [initialized |-> FALSE, nextCI |-> 0, net |-> Missing,
               SCM |-> Missing, smSC |-> Missing]
    /\ files = [c \in Chains |-> [k \in 0..MaxBlocks |-> <<>>]]
    /\ index = [c \in Chains |-> NoEntries]
    /\ last = [c \in Chains |-> 0]
    /\ pc = "down"
    /\ config = Missing
    /\ rawMax = 0
    /\ made = FALSE
    /\ chains = {}
    /\ umapSC = NoEntries
    /\ todo = <<>>
    /\ job = NoJob
    /\ blocks = 0
    /\ crashes = 0
    /\ spoilt = [c \in Chains |-> {}]

-----------------------------------------------------------------------------
(* Raw files *)

FileOf(c) == umapSC[c].counter

\* Mutant: the size of the file is not looked up.
KeepsSize(c, entry) == entry.size
SizeOnDisk(c, entry) == Len(files[c][entry.counter])

\* openRawFile: entries with the size of their file and a stream that is open,
\* or closed if the file could not be opened.
Opened(c, entry) ==
    {[entry EXCEPT !.size = SizeOnDisk(c, entry), !.stream = s] :
        s \in {"open"} \cup (IF crashes < MaxCrashes THEN {"closed"} ELSE {})}

Fresh == [size |-> 0, counter |-> 0, stream |-> "closed"]
Failures(entries) == Cardinality({c \in DOMAIN entries : entries[c].stream = "closed"})

\* All entries at once, at the end of initialize; results are not looked at.
AllOpened(entries) ==
    {e \in [DOMAIN entries -> UNION {Opened(c, entries[c]) : c \in DOMAIN entries}] :
        /\ \A c \in DOMAIN entries : e[c] \in Opened(c, entries[c])
        /\ crashes + Failures(e) <= MaxCrashes}

-----------------------------------------------------------------------------
(* The process comes and goes *)

\* The process is gone; what was in its memory is gone with it.
Down ==
    /\ pc' = "down"
    /\ config' = Missing
    /\ rawMax' = 0
    /\ made' = FALSE
    /\ chains' = {}
    /\ umapSC' = NoEntries
    /\ todo' = <<>>
    /\ job' = NoJob

\* The lock file refuses a second process, and one after a crash.
Start ==
    /\ pc = "down"
    /\ ~lock
    /\ lock' = TRUE
    /\ pc' = "open"
    /\ config' \in Configs
    /\ rawMax' \in RawMaxes
    /\ UNCHANGED <<meta, files, index, last, made, chains, umapSC, todo, job, blocks,
                   crashes, spoilt>>

\* The meta database is opened; a new one is marked as initialized at once.
OpenMeta ==
    /\ pc = "open"
    /\ IF meta.initialized
       THEN /\ pc' = "load"
            /\ UNCHANGED <<meta, made>>
       ELSE /\ pc' = "genesis"
            /\ made' = TRUE
            /\ meta' = [meta EXCEPT !.initialized = TRUE, !.nextCI = 0,
                                    !.net = config.net]
    /\ UNCHANGED <<lock, files, index, last, config, rawMax, chains, umapSC, todo,
                   job, blocks, crashes, spoilt>>

Quiet == todo = <<>> /\ job = NoJob

\* addSubChain for the next genesis block: a new identifier, an entry for the
\* raw file, whose opening is not looked at, and a block for the MetaChain.
AddSubChain(c) ==
    /\ pc = "genesis"
    /\ Quiet
    /\ c = Cardinality(chains)
    /\ config.complete
    /\ meta.nextCI = c
    /\ meta' = [meta EXCEPT !.nextCI = meta.nextCI + 1]
    /\ chains' = chains \cup {meta.nextCI}
    /\ \E e \in Opened(c, Fresh) :
         /\ umapSC' = [d \in DOMAIN umapSC \cup {c} |-> IF d = c THEN e ELSE umapSC[d]]
         /\ crashes' = crashes + Failures([d \in {c} |-> e])
    /\ todo' = <<MetaChainId>> \o (IF c \in OwnGenesis THEN <<c>> ELSE <<>>)
    /\ UNCHANGED <<lock, files, index, last, pc, config, rawMax, made, job, blocks,
                   spoilt>>

\* Mutant: the registry is written once the MetaChain is there.
MetaChainAdded == MetaChainId \in chains
AllAdded == chains = Chains

\* All chains were added: their registry is written for the first time.
FinishGenesis ==
    /\ pc = "genesis"
    /\ Quiet
    /\ AllAdded
    /\ meta' = [meta EXCEPT !.SCM = chains]
    /\ umapSC' \in AllOpened(umapSC)
    /\ crashes' = crashes + Failures(umapSC')
    /\ pc' = "running"
    /\ UNCHANGED <<lock, files, index, last, config, rawMax, made, chains, todo, job,
                   blocks, spoilt>>

\* Mutant: the registry of raw files, of the first clean stop, is needed as well.
NeedsEntries ==
    meta.SCM # Missing /\ meta.smSC # Missing /\ config.complete /\ config.net = meta.net
\* What the loading of an initialized meta database needs: without the registry,
\* or the factory of a PoP, a null pointer is used.
Loadable == meta.SCM # Missing /\ config.complete /\ config.net = meta.net

\* Mutant: the registry of raw files is not read back.
ForgetsEntries == NoEntries
StoredEntries ==
    IF meta.smSC = Missing THEN NoEntries
    ELSE [c \in DOMAIN meta.smSC |->
            [size |-> meta.smSC[c].size, counter |-> meta.smSC[c].counter,
             stream |-> "closed"]]

LoadRegistries ==
    /\ pc = "load"
    /\ Loadable
    /\ chains' = meta.SCM
    /\ umapSC' \in AllOpened(StoredEntries)
    /\ crashes' = crashes + Failures(umapSC')
    /\ pc' = "running"
    /\ UNCHANGED <<disk, config, rawMax, made, todo, job, blocks, spoilt>>

\* initialize returns false, or the process dies in it; the lock file stays.
\* A database or a directory that cannot be opened or made is a failure.
StartFails ==
    /\ \/ pc = "load" /\ ~Loadable /\ UNCHANGED crashes
       \/ pc = "genesis" /\ Quiet /\ ~config.complete /\ UNCHANGED crashes
       \/ /\ \/ pc = "open"
             \/ pc = "genesis" /\ Quiet /\ chains # Chains
          /\ crashes < MaxCrashes
          /\ crashes' = crashes + 1
    /\ Down
    /\ UNCHANGED <<disk, blocks, spoilt>>

\* The destructor writes both registries, ...
Stop ==
    /\ pc = "running"
    /\ Quiet
    /\ meta' = [meta EXCEPT !.SCM = chains,
                            !.smSC = [c \in DOMAIN umapSC |->
                                        [size |-> umapSC[c].size,
                                         counter |-> umapSC[c].counter]]]
    /\ pc' = "closing"
    /\ UNCHANGED <<lock, files, index, last, process, blocks, crashes, spoilt>>

\* ... removes the lock file and closes the databases.
Close ==
    /\ pc = "closing"
    /\ lock' = FALSE
    /\ Down
    /\ UNCHANGED <<meta, files, index, last, blocks, crashes, spoilt>>

Kill ==
    /\ pc # "down"
    /\ crashes < MaxCrashes
    /\ crashes' = crashes + 1
    /\ Down
    /\ UNCHANGED <<disk, blocks, spoilt>>

\* saveBlock of a chain that was read back uses m_pStorageManager, which only
\* init sets: the process may die of it.
UseStrayPointer ==
    /\ pc = "running"
    /\ ~made
    /\ Quiet
    /\ crashes < MaxCrashes
    /\ crashes' = crashes + 1
    /\ Down
    /\ UNCHANGED <<disk, blocks, spoilt>>

\* External: the operator deletes the lock file of a process that is gone.
RemoveStaleLock ==
    /\ pc = "down"
    /\ lock
    /\ lock' = FALSE
    /\ UNCHANGED <<meta, files, index, last, pc, process, blocks, crashes, spoilt>>

-----------------------------------------------------------------------------
(* writeRaw *)

\* A block for chain c is handed over, by initialization or by anybody later.
Wanted(c) ==
    /\ job = NoJob
    /\ blocks < MaxBlocks
    /\ c \in chains \cap DOMAIN umapSC
    /\ \/ pc = "genesis" /\ todo # <<>> /\ c = Head(todo)
       \/ pc = "running"

TodoAfter == IF todo = <<>> THEN todo ELSE Tail(todo)

\* The entry writeRaw works with: a closed stream is opened first.
Ready(c) == IF umapSC[c].stream = "closed" THEN Opened(c, umapSC[c]) ELSE {umapSC[c]}

\* The raw file is not there; the caller does not look at the result.
WriteRefused(c) ==
    /\ Wanted(c)
    /\ \E e \in Ready(c) :
         /\ e.stream = "closed"
         /\ umapSC' = [umapSC EXCEPT ![c] = e]
    /\ crashes' = crashes + 1
    /\ todo' = TodoAfter
    /\ UNCHANGED <<disk, pc, config, rawMax, made, chains, job, blocks, spoilt>>

\* What the file takes of a block: all of it, or less if the disk is full; a
\* stream that failed once takes nothing.
Taken(e, b) ==
    IF e.stream = "bad" THEN {0}
    ELSE {b.len} \cup (IF crashes < MaxCrashes THEN 0..(b.len - 1) ELSE {})

\* Mutant: the height is not increased before it is used.
CurrentNumber(c) == last[c]
NextNumber(c) == last[c] + 1

AppendBytes(c, k, b, n) ==
    files' = [files EXCEPT ![c][k] = @ \o SubSeq(Bytes(b), 1, n)]

\* The block goes to the file; the size is increased whatever was taken.
WriteBlock(c, len) ==
    LET b == [id |-> blocks + 1, len |-> len]
    IN /\ Wanted(c)
       /\ \E e \in Ready(c), n \in 0..len :
            /\ e.stream # "closed"
            /\ n \in Taken(e, b)
            /\ AppendBytes(c, e.counter, b, n)
            /\ umapSC' = [umapSC EXCEPT ![c] =
                            [e EXCEPT !.size = e.size + len,
                                      !.stream = IF n = len THEN @ ELSE "bad"]]
            /\ crashes' = IF n = len \/ e.stream = "bad" THEN crashes ELSE crashes + 1
       /\ job' = [step |-> "index", chain |-> c, number |-> NextNumber(c), length |-> len]
       /\ blocks' = b.id
       /\ todo' = TodoAfter
       /\ UNCHANGED <<lock, meta, index, last, pc, config, rawMax, made, chains,
                      spoilt>>

\* The process is killed while the block is written.
KilledWriting(c, len) ==
    LET b == [id |-> blocks + 1, len |-> len]
    IN /\ Wanted(c)
       /\ umapSC[c].stream = "open"
       /\ crashes < MaxCrashes
       /\ crashes' = crashes + 1
       /\ \E n \in 0..(len - 1) : AppendBytes(c, FileOf(c), b, n)
       /\ blocks' = b.id
       /\ Down
       /\ UNCHANGED <<lock, meta, index, last, spoilt>>

At(step) == job # NoJob /\ job.step = step

\* The three "mbl." entries, in one batch.  The offset is that of the end.
WriteIndex ==
    LET c == job.chain
        entry == [file |-> FileOf(c), offset |-> umapSC[c].size,
                  length |-> job.length]
    IN /\ At("index")
       /\ index' = [index EXCEPT ![c] =
                      [n \in DOMAIN @ \cup {job.number} |->
                         IF n = job.number THEN entry ELSE @[n]]]
       /\ spoilt' = [spoilt EXCEPT ![c] = IF umapSC[c].stream = "bad"
                                          THEN @ \cup {job.number}
                                          ELSE @ \ {job.number}]
       /\ job' = [job EXCEPT !.step = IF umapSC[c].size >= rawMax THEN "roll"
                                      ELSE "height"]
       /\ UNCHANGED <<lock, meta, files, last, pc, config, rawMax, made, chains,
                      umapSC, todo, blocks, crashes>>

\* The next file is begun.  If it cannot be opened writeRaw returns, although
\* the block is in the file before and in the index.
RollOver ==
    LET c == job.chain
    IN /\ At("roll")
       /\ \E e \in Opened(c, [umapSC[c] EXCEPT !.counter = @ + 1]) :
            /\ umapSC' = [umapSC EXCEPT ![c] = e]
            /\ IF e.stream = "closed"
               THEN job' = NoJob /\ crashes' = crashes + 1
               ELSE job' = [job EXCEPT !.step = "height"] /\ UNCHANGED crashes
       /\ UNCHANGED <<disk, pc, config, rawMax, made, chains, todo, blocks, spoilt>>

\* Only now the block has its number.
WriteHeight ==
    /\ At("height")
    /\ last' = [last EXCEPT ![job.chain] = job.number]
    /\ job' = NoJob
    /\ UNCHANGED <<lock, meta, files, index, pc, config, rawMax, made, chains, umapSC,
                   todo, blocks, crashes, spoilt>>

-----------------------------------------------------------------------------

Next ==
    \/ Start \/ OpenMeta \/ FinishGenesis \/ LoadRegistries \/ StartFails
    \/ Stop \/ Close \/ Kill \/ UseStrayPointer \/ RemoveStaleLock
    \/ WriteIndex \/ RollOver \/ WriteHeight
    \/ \E c \in Chains : \/ AddSubChain(c) \/ WriteRefused(c)
                         \/ \E len \in Lengths : \/ WriteBlock(c, len)
                                                 \/ KilledWriting(c, len)

Spec == Init /\ [][Next]_vars

\* An operator who starts the node again with the configuration it was made with
\* and removes the lock file of a dead process, and a process that gets on with
\* its own steps.
ProperStart == Start /\ config'.complete /\ config'.net = meta.net

Fairness ==
    /\ SF_vars(ProperStart)
    /\ WF_vars(RemoveStaleLock)
    /\ WF_vars(OpenMeta)
    /\ WF_vars(LoadRegistries)
    /\ WF_vars(UNCHANGED crashes /\ StartFails)
    /\ WF_vars(Close)

FairSpec == Spec /\ Fairness

-----------------------------------------------------------------------------
(* Properties *)

Streams == {"open", "closed", "bad"}
Entries == [size : Nat, counter : 0..MaxBlocks, stream : Streams]
StoredEntry == [size : Nat, counter : 0..MaxBlocks]
IndexEntry == [file : 0..MaxBlocks, offset : Nat, length : Lengths]
Jobs == {NoJob} \cup [step : {"index", "roll", "height"}, chain : Chains,
                      number : 1..MaxBlocks, length : Lengths]

\* A registry that was never written is no registry.
ASSUME MissingAssumption ==
    \A S \in SUBSET Chains : Missing \notin [S -> StoredEntry]

MapsTo(m, S) == \A k \in DOMAIN m : m[k] \in S

\* Every variable has its type (the fields of StorageManager, smSC and what the
\* databases hold).
TypeOK ==
    /\ lock \in BOOLEAN
    /\ meta.initialized \in BOOLEAN /\ meta.nextCI \in 0..NumChains
    /\ meta.net \in Nets \cup {Missing}
    /\ meta.SCM = Missing \/ meta.SCM \subseteq Chains
    /\ meta.smSC = Missing \/ (DOMAIN meta.smSC \subseteq Chains
                               /\ MapsTo(meta.smSC, StoredEntry))
    /\ \A c \in Chains : DOMAIN files[c] = 0..MaxBlocks
    /\ \A c \in Chains : DOMAIN index[c] \subseteq 1..MaxBlocks
                         /\ MapsTo(index[c], IndexEntry)
    /\ last \in [Chains -> 0..MaxBlocks]
    /\ pc \in {"down", "open", "genesis", "load", "running", "closing"}
    /\ config \in Configs \cup {Missing}
    /\ made \in BOOLEAN
    /\ chains \subseteq Chains
    /\ DOMAIN umapSC \subseteq Chains /\ MapsTo(umapSC, Entries)
    /\ \A i \in DOMAIN todo : todo[i] \in Chains
    /\ job \in Jobs
    /\ blocks \in 0..MaxBlocks /\ crashes \in 0..MaxCrashes

\* Whatever failed or was killed before, a node that runs has all chains, and
\* raw files for all of them or for none (initialize, the two registries).
RunningIsWhole ==
    pc = "running" =>
        /\ chains = Chains
        /\ DOMAIN umapSC \in {{}, Chains}
        /\ (made \/ (meta.smSC # Missing /\ DOMAIN meta.smSC = Chains))
              => DOMAIN umapSC = Chains

\* A stream that works appends where its entry says the file ends: the offsets
\* writeRaw computes from the size it keeps are those of the bytes it wrote.
SizeMatchesFile ==
    \A c \in DOMAIN umapSC :
        umapSC[c].stream = "open" =>
            umapSC[c].size = Len(files[c][FileOf(c)])

\* What the three "mbl." entries of a number lead to: a whole block or nothing.
ReadBack(c, n) ==
    LET e == index[c][n]
        file == files[c][e.file]
        from == e.offset - e.length + 1
        b == file[from][1]
    IN IF n \in DOMAIN index[c] /\ from >= 1 /\ e.offset <= Len(file)
          /\ SubSeq(file, from, e.offset) = Bytes(b)
       THEN b ELSE Missing

OlderBlock(a, b) == a.id < b.id

\* The blocks that have a number.
StoredBlocks ==
    [c \in Chains |-> [n \in 1..last[c] |->
        IF n \in spoilt[c] THEN Lost ELSE ReadBack(c, n)]]

Store == INSTANCE BlockStore WITH store <- StoredBlocks, Older <- OlderBlock

\* writeRaw, over kills, restarts with an older registry and files that fail:
\* what a number leads to never changes, and a block has a number once.
StoresBlocks == Store!Spec

\* Which raw files a data directory has is decided at the first clean stop
\* (~StorageManager): no later run adds or loses one.
RawFilesForGood ==
    [][meta.smSC # Missing =>
         meta'.smSC # Missing /\ DOMAIN meta'.smSC = DOMAIN meta.smSC]_vars

\* Once the registry of chains was written, the node can be brought up again
\* after any crash, with the lock file removed and its old configuration.
Restartable == (meta.SCM # Missing) ~> (pc = "running")
=============================================================================
