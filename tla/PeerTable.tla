------------------------------ MODULE PeerTable ------------------------------
(***************************************************************************)
(* The peer lists of one running node and the threads that share them      *)
(* (network/NetworkManager.cpp, io/netPeers.cpp, cSemaphore.h):            *)
(*                                                                         *)
(*   net         ThreadSocketHandler: accepts, erases, reads and writes    *)
(*   opencon     ThreadOpenConnections: dials one outbound peer at a time  *)
(*   msghand     ThreadMessageHandler: processes received messages         *)
(*   maintainer  Maintainer, run by the scheduler thread                   *)
(*   main        initialize, Interrupt and Stop                            *)
(*                                                                         *)
(* The remote hosts are the environment: what they send, and whether a     *)
(* connect, read or write succeeds, is chosen freely.  net and msghand     *)
(* pass over a list while they hold its critical section: they look        *)
(* whether a peer is to be served (a step), and then serve it.  opencon    *)
(* and the first three loops of Maintainer hold no lock, so what they do   *)
(* to a peer comes between any two steps of the others.                    *)
(***************************************************************************)
EXTENDS Integers, FiniteSets

CONSTANTS
    OutPeers,     \* addresses that can be entries of m_lstPeerListOut
    InPeers,      \* identities of the entries of m_lstPeerListIn
    Banned,       \* addresses on m_lstBanList
    None,         \* no entry
    MaxOut,       \* m_usMaxOutboundConnections
    MinOut,       \* m_usMinOutboundConnections
    Hysteresis,   \* m_usHysteresisOutboundConnections
    MaxIn,        \* m_usMaxInboundConnections
    MaxTries,     \* NET_DEFAULT_CONNECT_TRIES
    MaxMsgQueue,  \* MAX_MSG_QUEUE
    SemInBound    \* bound of the model: accepting stops when semIn gets here

Peers == OutPeers \cup InPeers

ASSUME PeersAssumption ==
    /\ OutPeers \cap InPeers = {}
    /\ Banned \subseteq Peers
    /\ None \notin Peers
    /\ IsFiniteSet(Peers)

ASSUME LimitsAssumption ==
    /\ MaxOut \in Nat
    /\ MinOut \in Nat
    /\ Hysteresis \in Nat
    /\ MaxIn \in Nat
    /\ MaxTries \in Nat \ {0}
    /\ MaxMsgQueue \in Nat \ {0}
    /\ SemInBound \in Nat

VARIABLES
    listed,       \* the peers that are in their list
    peer,         \* their netPeers objects; Fresh when not listed
    semOut,       \* value of m_pSemOutbound
    semIn,        \* value of m_pSemInbound
    active,       \* m_bActiveNetwork
    interrupted,  \* m_interruptNet and m_abflagInterruptMsgProc
    threads,      \* net and msghand, while they run
    pass,         \* for each of them: the peer it serves, holding the list's lock
    oc,           \* where opencon is
    held,         \* the peer opencon's iterator designates
    mnt,          \* where Maintainer is
    cursor,       \* the peer Maintainer's iterator designates
    visited,      \* the peers its loop has been at
    counted,      \* usActiveOutgoing
    sync,         \* m_bSync
    freed,        \* threads whose iterator designates an erased peer
    lost,         \* outbound permits moved into an erased peer
    alive         \* FALSE once the process died of using an erased peer

ocVars  == <<oc, held>>
mntVars == <<mnt, cursor, visited, counted, sync>>
mainVars == <<active, interrupted, threads>>
runVars == <<mainVars, pass>>
vars == <<listed, peer, semOut, semIn, runVars, ocVars, mntVars, freed, lost,
          alive>>

\* A netPeers object as its constructor leaves it.
Fresh == [conn |-> FALSE,     \* m_bConnected
          sock |-> "none",    \* hSocket: 0, a descriptor, or INVALID_SOCKET
          destroy |-> FALSE,  \* m_bToDestroy
          valid |-> FALSE,    \* m_bValidConnection
          fn |-> FALSE,       \* m_bNodeMode
          pong |-> TRUE,      \* bPingPong
          tries |-> 0,        \* m_usConnectionTries
          grant |-> FALSE,    \* semaphoreGrant holds a permit
          queue |-> 0]        \* length of m_queueMessages

Servers == {"net", "msghand"}

OcStates == {"check", "wait", "pick", "try", "connecting", "move", "failed",
             "done"}
OcHolding == {"pick", "try", "connecting", "move", "failed"}
MntLoops == {"ping", "count", "request"}

Init ==
    /\ listed \in SUBSET OutPeers   \* read from the peer file
    /\ peer = [p \in Peers |-> Fresh]
    /\ semOut = MaxOut
    /\ semIn = MaxIn
    /\ active = FALSE
    /\ interrupted = FALSE
    /\ threads = Servers
    /\ pass = [t \in Servers |-> None]
    /\ oc = "check"
    /\ held = None
    /\ mnt = "idle"
    /\ cursor = None
    /\ visited = {}
    /\ counted = 0
    /\ sync = FALSE
    /\ freed = {}
    /\ lost = 0
    /\ alive = TRUE

\* Where a thread is, as long as the process lives.  A thread whose iterator
\* dangles can only do OcUseFreed or MntUseFreed.
Runs(t) == alive /\ t \in threads
Between(t) == Runs(t) /\ pass[t] = None
OcAt(state) == alive /\ oc = state /\ "opencon" \notin freed
MntAt(states) == alive /\ mnt \in states /\ "maintainer" \notin freed

\* Whether nobody holds the critical section of p's list.
Unlocked(p) ==
    \A t \in Servers : pass[t] = None \/ (pass[t] \in OutPeers <=> p \notin OutPeers)

-----------------------------------------------------------------------------
(* Erasing an entry runs ~netPeers and, through ~cSemaphoreGrant, posts its *)
(* permit.  Iterators other threads hold on it dangle from here on.         *)

\* Mutant: the destructor forgets the permit.
PermitsForgotten(p) == 0
Permits(p) == IF peer[p].grant THEN 1 ELSE 0

\* The condition of the erase loops of handlePeers and Maintainer.  The usage
\* counter is only ever raised while the list's critical section is held, so
\* inUse() is false whenever one of these loops gets to read it.
\* Mutant: only entries whose socket is gone are erased.
ErasableClosed(p) == p \in listed /\ peer[p].sock = "invalid" /\ peer[p].conn
Erasable(p) ==
    /\ p \in listed
    /\ peer[p].destroy \/ (peer[p].sock = "invalid" /\ peer[p].conn)

DropEntry(p) ==
    /\ listed' = listed \ {p}
    /\ peer' = [peer EXCEPT ![p] = Fresh]

EraseByLoop(p) ==
    /\ Unlocked(p)
    /\ Erasable(p)
    /\ DropEntry(p)
    /\ semOut' = semOut + (IF p \in OutPeers THEN Permits(p) ELSE 0)
    /\ semIn' = semIn + (IF p \in InPeers THEN Permits(p) ELSE 0)
    /\ freed' = freed \cup {t \in {"opencon", "maintainer"} :
                              \/ t = "opencon" /\ held = p
                              \/ t = "maintainer" /\ cursor = p}
    /\ UNCHANGED <<runVars, ocVars, mntVars, lost, alive>>

-----------------------------------------------------------------------------
(* net *)

\* Whether an accepted connection is dropped at once.
\* Mutant: the ban list is not consulted.
DroppedUnbanned(i, granted) == ~granted
Dropped(i, granted) == ~granted \/ i \in Banned

Accepted(i, granted, s) ==
    [Fresh EXCEPT !.sock = s, !.conn = granted, !.grant = granted,
                  !.destroy = Dropped(i, granted)]

\* A pending connection is accepted into the inbound list.  The permit is
\* taken by a temporary cSemaphoreGrant that is copied into the entry and then
\* destroyed, which posts the permit at once; the entry believes it has it.
Accept(i) ==
    /\ Between("net")
    /\ i \in InPeers \ listed
    /\ Unlocked(i)
    /\ semIn < SemInBound
    /\ \E s \in {"open", "invalid"}, usable \in BOOLEAN :
         /\ usable => s = "open"      \* and select() can handle it
         /\ peer' = [peer EXCEPT ![i] = Accepted(i, usable /\ semIn >= 1, s)]
    /\ listed' = listed \cup {i}
    /\ UNCHANGED <<semOut, semIn, runVars, ocVars, mntVars, freed, lost, alive>>

NetErase(p) == Between("net") /\ EraseByLoop(p)

\* How many messages ReceiveMsgBytes may still queue.
\* Mutant: the limit is only checked before the first byte is read.
RoomUnchecked(p) == MaxMsgQueue
Room(p) == MaxMsgQueue - peer[p].queue

\* handlePeers comes to a peer, and works with it if none of this forbids it.
NetBegin(p) ==
    /\ Between("net")
    /\ ~interrupted
    /\ Unlocked(p)
    /\ p \in listed
    /\ ~peer[p].destroy
    /\ peer[p].queue < MaxMsgQueue
    /\ peer[p].conn
    /\ pass' = [pass EXCEPT !["net"] = p]
    /\ UNCHANGED <<listed, peer, semOut, semIn, mainVars, ocVars, mntVars, freed,
                   lost, alive>>

\* It reads and writes.  n messages become complete; bad is set by a malformed
\* message, a closed socket or an error.
SocketIO(p) ==
    /\ Runs("net")
    /\ pass["net"] = p
    /\ \E n \in 0..Room(p), bad \in BOOLEAN :
         peer' = [peer EXCEPT ![p].queue = @ + n,
                              ![p].destroy = @ \/ bad \/ peer[p].sock = "invalid"]
    /\ pass' = [pass EXCEPT !["net"] = None]
    /\ UNCHANGED <<listed, semOut, semIn, mainVars, ocVars, mntVars, freed, lost,
                   alive>>

-----------------------------------------------------------------------------
(* msghand *)

\* What a message can be to the peer table: our version, another one, the
\* mode of the sender, a list of addresses, PONG, a message without effect
\* here, and one ProcessMessage refuses (testnet mismatch, unknown subject).
Messages == {"version", "otherVersion", "fullNode", "client", "peerList",
             "pong", "plain", "refused"}

Refuses(r, m) == IF r.valid THEN m = "refused" ELSE m # "version"

Processed(r, m) ==
    [r EXCEPT !.valid = @ \/ m = "version",
              !.fn = IF m \in {"fullNode", "client"} THEN m = "fullNode" ELSE @,
              !.pong = @ \/ m = "pong"]

\* Mutant: messages of a peer that is to be destroyed are still processed.
HasWorkAnyway(p) == p \in listed /\ peer[p].queue > 0
HasWork(p) == p \in listed /\ ~peer[p].destroy /\ peer[p].queue > 0

\* handleMessage comes to a peer it has work for.
MsgBegin(p) ==
    /\ Between("msghand")
    /\ Unlocked(p)
    /\ HasWork(p)
    /\ pass' = [pass EXCEPT !["msghand"] = p]
    /\ UNCHANGED <<listed, peer, semOut, semIn, mainVars, ocVars, mntVars, freed,
                   lost, alive>>

\* It goes on to the next peer when a message is refused or none is left.
\* Learnt addresses are listed under the lock of the outbound list.
HandleMessage(p) ==
    /\ Runs("msghand")
    /\ pass["msghand"] = p
    /\ \E m \in Messages :
         LET popped == [peer[p] EXCEPT !.queue = @ - 1]
         IN /\ IF Refuses(popped, m)
               THEN /\ peer' = [peer EXCEPT ![p] = [popped EXCEPT !.destroy = TRUE]]
                    /\ UNCHANGED listed
               ELSE /\ peer' = [peer EXCEPT ![p] = Processed(popped, m)]
                    /\ \E new \in SUBSET (OutPeers \ Banned) :
                         /\ m # "peerList" => new = {}
                         /\ new # {} => pass["net"] \notin OutPeers
                         /\ listed' = listed \cup new
            /\ pass' = IF Refuses(popped, m) \/ popped.queue = 0
                       THEN [pass EXCEPT !["msghand"] = None] ELSE pass
    /\ UNCHANGED <<semOut, semIn, mainVars, ocVars, mntVars, freed, lost, alive>>

-----------------------------------------------------------------------------
(* opencon *)

GoOn(state) == oc' = state /\ UNCHANGED held

\* Back to the head of the loop; the destructor of grant posts the permit.
NextRound ==
    /\ oc' = "check"
    /\ held' = None
    /\ freed' = freed \ {"opencon"}

\* Loop head up to the semaphore: the thread ends for good when it finds the
\* network inactive or is interrupted, also out of its 500 ms sleep.
OcCheck ==
    /\ OcAt("check")
    /\ GoOn(IF active /\ ~interrupted THEN "wait" ELSE "done")
    /\ UNCHANGED <<listed, peer, semOut, semIn, runVars, mntVars, freed, lost,
                   alive>>

\* cSemaphoreGrant grant(*m_pSemOutbound) blocks until there is a permit, and
\* nothing but a post wakes it.
OcWait ==
    /\ OcAt("wait")
    /\ semOut >= 1
    /\ IF interrupted
       THEN GoOn("done") /\ UNCHANGED semOut
       ELSE GoOn("pick") /\ semOut' = semOut - 1
    /\ UNCHANGED <<listed, peer, semIn, runVars, mntVars, freed, lost, alive>>

Dialable == {p \in listed \cap OutPeers : ~peer[p].conn}

\* getNextOutNode(false, true): an unconnected peer whose last try is long
\* enough ago, which a peer that was never tried always satisfies.
OcPick ==
    /\ OcAt("pick")
    /\ \A t \in Servers : pass[t] \notin OutPeers
    /\ \/ \E p \in Dialable : held' = p /\ oc' = "try"
          /\ UNCHANGED <<semOut, freed>>
       \/ /\ \A p \in Dialable : peer[p].tries > 0
          /\ NextRound
          /\ semOut' = semOut + 1
    /\ UNCHANGED <<listed, peer, semIn, runVars, mntVars, lost, alive>>

\* First half of tryConnectOutbound: the try is counted, and the last one that
\* is allowed is not made.  Without a socket the try has failed already.
OcTry ==
    /\ OcAt("try")
    /\ LET tries == peer[held].tries + 1
       IN \E s \in {"none", "invalid", "open"} :
            /\ s = "none" => peer[held].sock = "none"
            /\ tries >= MaxTries => s = peer[held].sock
            /\ peer' = [peer EXCEPT ![held].tries = tries, ![held].sock = s]
            /\ GoOn(IF tries < MaxTries /\ s = "open" THEN "connecting"
                    ELSE "failed")
    /\ UNCHANGED <<listed, semOut, semIn, runVars, mntVars, freed, lost, alive>>

\* Second half: connect() ends, within the timeout or not.
OcConnected ==
    /\ OcAt("connecting")
    /\ \/ /\ peer' = [peer EXCEPT ![held].conn = TRUE]
          /\ GoOn("move")
       \/ /\ peer' = [peer EXCEPT ![held].sock = "invalid"]
          /\ GoOn("failed")
    /\ UNCHANGED <<listed, semOut, semIn, runVars, mntVars, freed, lost, alive>>

\* Mutant: the permit is copied, and posted when the local grant is destroyed.
OcMoveCopies ==
    /\ OcAt("move")
    /\ semOut' = semOut + Permits(held) + 1
    /\ peer' = [peer EXCEPT ![held].grant = TRUE]
    /\ NextRound
    /\ UNCHANGED <<listed, semIn, runVars, mntVars, lost, alive>>
\* grant.MoveTo(itPeer->semaphoreGrant), which first releases what is there.
OcMove ==
    /\ OcAt("move")
    /\ semOut' = semOut + Permits(held)
    /\ peer' = [peer EXCEPT ![held].grant = TRUE]
    /\ NextRound
    /\ UNCHANGED <<listed, semIn, runVars, mntVars, lost, alive>>

\* After too many tries the peer is erased, whatever its usage counter says.
OcFailed ==
    /\ OcAt("failed")
    /\ IF peer[held].tries >= MaxTries
       THEN /\ Unlocked(held)
            /\ DropEntry(held)
            /\ semOut' = semOut + 1 + Permits(held)
            /\ freed' = freed \cup (IF cursor = held THEN {"maintainer"} ELSE {})
       ELSE /\ semOut' = semOut + 1
            /\ UNCHANGED <<listed, peer, freed>>
    /\ oc' = "check"
    /\ held' = None
    /\ UNCHANGED <<semIn, runVars, mntVars, lost, alive>>

\* The peer opencon works with was erased under it: the process dies, or the
\* thread finishes its round in the freed memory, where a permit moved into the
\* peer is lost.
OcUseFreed ==
    /\ alive
    /\ "opencon" \in freed
    /\ \/ /\ alive' = FALSE
          /\ UNCHANGED <<ocVars, semOut, freed, lost>>
       \/ /\ NextRound
          /\ \E leak \in {0, 1} : /\ lost' = lost + leak
                                  /\ semOut' = semOut + 1 - leak
          /\ UNCHANGED alive
    /\ UNCHANGED <<listed, peer, semIn, runVars, mntVars>>

OpenConnections ==
    OcCheck \/ OcWait \/ OcPick \/ OcTry \/ OcConnected \/ OcMove \/ OcFailed
        \/ OcUseFreed

-----------------------------------------------------------------------------
(* Maintainer: three loops without a lock, then the clean-up under one *)

Unvisited == (listed \cap OutPeers) \ visited

\* What a loop does to the peer its iterator reaches.
\* Mutant: an unanswered ping has no consequence.
PingOnly(r) == IF r.destroy THEN r ELSE [r EXCEPT !.pong = FALSE]
PingPong(r) ==
    IF r.destroy THEN r
    ELSE IF r.pong THEN [r EXCEPT !.pong = FALSE]
    ELSE [r EXCEPT !.destroy = TRUE]

\* The scheduler thread is joined before the network manager is destroyed.
MntStart ==
    /\ MntAt({"idle"})
    /\ ~interrupted
    /\ mnt' = "ping"
    /\ UNCHANGED <<listed, peer, semOut, semIn, runVars, ocVars, cursor, visited,
                   counted, sync, freed, lost, alive>>

MntVisit(p) ==
    /\ MntAt(MntLoops)
    /\ p \in Unvisited
    /\ cursor' = p
    /\ visited' = visited \cup {p}
    /\ peer' = IF mnt = "ping"
               THEN [peer EXCEPT ![p] = PingPong(@)] ELSE peer
    /\ counted' = IF mnt = "count" /\ peer[p].valid /\ peer[p].fn
                  THEN counted + 1 ELSE counted
    /\ UNCHANGED <<listed, semOut, semIn, runVars, ocVars, mnt, sync, freed, lost,
                   alive>>

AfterLoop(loop) ==
    CASE loop = "ping" -> "count"
      [] loop = "count" /\ counted <= Hysteresis -> "request"
      [] OTHER -> "clean"

MntLoopEnd ==
    /\ MntAt(MntLoops)
    /\ Unvisited = {}
    /\ mnt' = AfterLoop(mnt)
    /\ sync' = (sync \/ (mnt' = "clean" /\ counted >= MinOut))
    /\ cursor' = None
    /\ visited' = {}
    /\ UNCHANGED <<listed, peer, semOut, semIn, runVars, ocVars, counted, freed,
                   lost, alive>>

\* Advancing an iterator reads the erased entry's link, which the allocator
\* has overwritten by then.
MntUseFreed ==
    /\ alive
    /\ "maintainer" \in freed
    /\ alive' = FALSE
    /\ UNCHANGED <<listed, peer, semOut, semIn, runVars, ocVars, mntVars, freed,
                   lost>>

MntErase(p) == MntAt({"clean"}) /\ p \in OutPeers /\ EraseByLoop(p)

MntEnd ==
    /\ MntAt({"clean"})
    /\ ~ \E p \in OutPeers : Erasable(p)
    /\ mnt' = "idle"
    /\ counted' = 0
    /\ UNCHANGED <<listed, peer, semOut, semIn, runVars, ocVars, cursor, visited,
                   sync, freed, lost, alive>>

Maintainer ==
    \/ MntStart \/ MntLoopEnd \/ MntUseFreed \/ MntEnd
    \/ \E p \in OutPeers : MntVisit(p) \/ MntErase(p)

-----------------------------------------------------------------------------
(* main *)

\* initialize starts the threads before it declares the network active.
Activate ==
    /\ alive
    /\ ~active
    /\ active' = TRUE
    /\ UNCHANGED <<listed, peer, semOut, semIn, interrupted, threads, pass, ocVars,
                   mntVars, freed, lost, alive>>

\* ~NetworkManager, once the scheduler thread was joined: Interrupt, then Stop
\* joins the three threads.
Interrupt ==
    /\ alive
    /\ active
    /\ ~interrupted
    /\ mnt = "idle"
    /\ interrupted' = TRUE
    /\ UNCHANGED <<listed, peer, semOut, semIn, active, threads, pass, ocVars,
                   mntVars, freed, lost, alive>>

ThreadReturns(t) ==
    /\ Between(t)
    /\ interrupted
    /\ threads' = threads \ {t}
    /\ UNCHANGED <<listed, peer, semOut, semIn, active, interrupted, pass, ocVars,
                   mntVars, freed, lost, alive>>

Joined == interrupted /\ threads = {} /\ oc = "done"

-----------------------------------------------------------------------------

Next ==
    \/ OpenConnections
    \/ Maintainer
    \/ Activate
    \/ Interrupt
    \/ \E t \in threads : ThreadReturns(t)
    \/ \E p \in Peers :
         \/ Accept(p) \/ NetErase(p) \/ NetBegin(p) \/ SocketIO(p)
         \/ MsgBegin(p) \/ HandleMessage(p)

Spec == Init /\ [][Next]_vars

\* Every thread is scheduled; the environment and main's shutdown are not forced
\* to act.  Every round of net tries to erase before it serves, so net erases an
\* entry whose list is unlocked again and again.
Fairness ==
    /\ WF_vars(OpenConnections)
    /\ WF_vars(Maintainer)
    /\ \A t \in Servers : WF_vars(ThreadReturns(t))
    /\ \A p \in Peers : /\ SF_vars(NetErase(p))
                        /\ WF_vars(SocketIO(p))
                        /\ WF_vars(MsgBegin(p))
                        /\ WF_vars(HandleMessage(p))

FairSpec == Spec /\ Fairness

-----------------------------------------------------------------------------
(* Properties *)

PeerObjects ==
    [conn : BOOLEAN, sock : {"none", "open", "invalid"}, destroy : BOOLEAN,
     valid : BOOLEAN, fn : BOOLEAN, pong : BOOLEAN, tries : 0..MaxTries,
     grant : BOOLEAN, queue : 0..MaxMsgQueue]

\* Every variable stays in its range: no counter runs below zero, no entry is
\* tried or queues messages beyond its limit.
TypeOK ==
    /\ listed \subseteq Peers
    /\ peer \in [Peers -> PeerObjects]
    /\ semOut \in Nat /\ semIn \in Nat /\ lost \in Nat /\ counted \in Nat
    /\ active \in BOOLEAN /\ interrupted \in BOOLEAN
    /\ sync \in BOOLEAN /\ alive \in BOOLEAN
    /\ threads \subseteq Servers
    /\ pass \in [Servers -> Peers \cup {None}]
    /\ oc \in OcStates
    /\ held \in OutPeers \cup {None}
    /\ mnt \in {"idle", "clean"} \cup MntLoops
    /\ cursor \in OutPeers \cup {None}
    /\ visited \subseteq OutPeers
    /\ freed \subseteq {"opencon", "maintainer"}

Connected == {p \in listed \cap OutPeers : peer[p].conn}
Holders == {p \in listed \cap OutPeers : peer[p].grant}
OcPermit == IF oc \in OcHolding THEN 1 ELSE 0

\* Every permit of the outbound semaphore is in exactly one place: in the
\* semaphore, in the grant ThreadOpenConnections holds, in a listed peer, or
\* lost in an erased one.  Three threads move permits, none under a common lock.
PermitsConserved ==
    semOut + Cardinality(Holders) + OcPermit + lost = MaxOut

\* The node never has more outbound connections than max_outgoing_connections.
OutboundBound == Cardinality(Connected) <= MaxOut

\* A banned host that connects is never read from and never becomes valid,
\* although its entry is connected and stays listed until net erases it.
BannedNotServed ==
    \A i \in InPeers \cap Banned : ~peer[i].valid /\ peer[i].queue = 0

Dialing == {"try", "connecting", "move", "failed"}

\* opencon has an iterator only while it dials; unless it dangles it designates
\* a listed outbound peer that has no permit of its own yet.
HeldInv ==
    /\ oc \notin Dialing => held = None
    /\ "opencon" \in freed => oc \in Dialing
    /\ (oc \in Dialing /\ "opencon" \notin freed) =>
         /\ held \in listed \cap OutPeers
         /\ ~peer[held].grant
         /\ peer[held].conn <=> oc = "move"

\* A connected outbound peer has its permit, but for the moment between its
\* connect and the move of opencon's grant; and a permit means a connection.
GrantInv ==
    /\ \A p \in Peers \ listed : peer[p] = Fresh
    /\ \A p \in OutPeers :
         /\ peer[p].grant => peer[p].conn
         /\ (peer[p].conn /\ ~peer[p].grant) =>
              (p = held /\ oc = "move" /\ "opencon" \notin freed)

\* Only the peer opencon is about to erase has used up its tries.
TriesInv == \A p \in Peers :
    \/ peer[p].tries < MaxTries
    \/ p = held /\ oc = "failed" /\ "opencon" \notin freed

\* A banned host's entry is to be destroyed from the moment it is listed.
BanInv == \A i \in InPeers \cap Banned : i \in listed => peer[i].destroy

\* A peer that is served is listed, a message handler has a message for it, and
\* net and msghand never serve the same peer.  Maintainer may have marked it to be
\* destroyed meanwhile, but not if it is inbound.
PassInv ==
    /\ pass["net"] # None => pass["net"] # pass["msghand"]
    /\ pass["msghand"] # None => peer[pass["msghand"]].queue > 0
    /\ \A t \in Servers : pass[t] # None =>
         /\ pass[t] \in listed
         /\ pass[t] \in InPeers => ~peer[pass[t]].destroy

\* The inductive invariant from which the safety properties follow.
IndInv ==
    /\ TypeOK /\ PassInv /\ HeldInv /\ GrantInv /\ TriesInv /\ BanInv
    /\ BannedNotServed /\ PermitsConserved

\* Once a peer is marked to be destroyed no thread begins to serve it: nothing is
\* read into its queue, nothing is taken out of it, and the mark stays.  Only a
\* pass that was under way when Maintainer marked an outbound peer goes on.
DestroyedIsInert ==
    [][\A p \in listed \cap listed' :
         peer[p].destroy =>
           /\ peer'[p].destroy
           /\ \A t \in Servers : pass'[t] = p => pass[t] = p
           /\ (p \in InPeers \/ \A t \in Servers : pass[t] # p) =>
                /\ peer'[p].valid = peer[p].valid
                /\ peer'[p].fn = peer[p].fn
                /\ peer'[p].queue = peer[p].queue]_vars

Over == interrupted \/ ~alive

\* A peer that is marked to be destroyed is erased, unless the node stops first.
DestroyedIsErased == \A p \in Peers :
    (p \in listed /\ peer[p].destroy) ~> (p \notin listed \/ Over)

\* A peer that was pinged answers, or its entry goes away.
UnansweredPingEnds == \A p \in OutPeers :
    (p \in listed /\ ~peer[p].pong) ~> (peer[p].pong \/ Over)

\* netPeers.h:33 says the usage counter is "needed for safe destruction": no
\* thread is left with an erased peer.  Violated: opencon does not mark the peer
\* it dials, and Maintainer reads the list without its lock.
NoUseAfterErase == freed = {}

\* NetworkManager.cpp:1045, in ~NetworkManager: "stop and delete the threads".
\* Violated: opencon may wait for a permit that only an erased peer would post.
ShutdownCompletes == interrupted ~> (Joined \/ ~alive)
=============================================================================
