------------------------------ MODULE Handshake ------------------------------
(***************************************************************************)
(* One connection between two nodes, from the dial to its end: the         *)
(* messages each side queues for, sends to and accepts from the other      *)
(* (ProcessMessage, handlePeers and Maintainer of NetworkManager.cpp,      *)
(* ReceiveMsgBytes of io/netPeers.cpp).  Each side sees the connection     *)
(* through its netPeers entry.  Only the dialling side's entry is in an    *)
(* outbound list, so only that side's Maintainer works on it.              *)
(*                                                                         *)
(* The network between them delivers in order and may fail at any moment.  *)
(***************************************************************************)
EXTENDS Integers, SequencesExt

CONSTANTS
    Dialer, Acceptor,
    Pairs,         \* what the two nodes may be: version, network and mode
    OtherPeers,    \* what the modes of a node's other peers may be
    MaxMsgQueue,   \* MAX_MSG_QUEUE
    MayBreak,      \* whether the network may fail
    MaxRounds      \* bound of the model: rounds of Maintainer

Nodes == {Dialer, Acceptor}
Other(n) == IF n = Dialer THEN Acceptor ELSE Dialer

Modes == {"fn", "client"}

ASSUME NodesAssumption == Dialer # Acceptor
ASSUME LimitsAssumption ==
    /\ OtherPeers \subseteq SUBSET Modes
    /\ Pairs \subseteq
         [Nodes -> [version : Nat, testnet : BOOLEAN, fn : BOOLEAN]]
    /\ MaxMsgQueue \in Nat \ {0}
    /\ MayBreak \in BOOLEAN
    /\ MaxRounds \in Nat

VARIABLES
    node,     \* what each node is; it does not change
    state,    \* its side of the connection: none, up, gone when its entry was
              \* erased, dropped when it was erased without ever connecting
    flags,    \* flags of its entry
    outbox,   \* its listSend
    wire,     \* what it has sent and the other side has not read
    inbox,    \* its m_queueMessages
    ticker,   \* its m_usNewerVersionTicker
    learnt,   \* modes of the peers whose addresses it was given
    broken,   \* the network failed
    mnt,      \* where the dialler's Maintainer is
    rounds,   \* how many rounds it has made
    late      \* the thread that was serving the dialler's entry, holding the
              \* list's lock, when Maintainer marked the entry without it

mntVars == <<mnt, rounds, late>>
vars == <<node, state, flags, outbox, wire, inbox, ticker, learnt, broken, mntVars>>

ModeOf(isFN) == IF isFN THEN "fn" ELSE "client"

\* The subjects; those with a payload carry it.
Version(n)   == [subject |-> "VERSION", version |-> node[n].version]
Newer        == [subject |-> "VERSION_NEWER"]
TestNet(n)   == [subject |-> "TESTNET", testnet |-> node[n].testnet]
NodeMode(n)  == [subject |-> "NODEMODE", fn |-> node[n].fn]
PortGet      == [subject |-> "PORT_GET"]
PortSend     == [subject |-> "PORT_SEND"]
PeerListSend == [subject |-> "PEER_LIST_SEND"]
PeerListGet(modes) == [subject |-> "PEER_LIST_GET", modes |-> modes]
Ping         == [subject |-> "PING"]
Pong         == [subject |-> "PONG"]

Subjects == {"VERSION", "VERSION_NEWER", "TESTNET", "NODEMODE", "PORT_GET",
             "PORT_SEND", "PEER_LIST_SEND", "PEER_LIST_GET", "PING", "PONG"}

Entry == [destroy |-> FALSE,    \* m_bToDestroy
          valid |-> FALSE,      \* m_bValidConnection
          mode |-> "unknown",   \* m_bNodeMode; FALSE until NODEMODE comes
          port |-> FALSE,       \* m_usListeningPort was set
          pong |-> TRUE]        \* bPingPong

Init ==
    /\ node \in Pairs
    /\ state = [n \in Nodes |-> "none"]
    /\ flags = [n \in Nodes |-> Entry]
    /\ outbox = [n \in Nodes |-> <<>>]
    /\ wire = [n \in Nodes |-> <<>>]
    /\ inbox = [n \in Nodes |-> <<>>]
    /\ ticker = [n \in Nodes |-> 0]
    /\ learnt = [n \in Nodes |-> {}]
    /\ broken = FALSE
    /\ mnt = "idle"
    /\ rounds = 0
    /\ late = "none"

Queue(n, msgs) == outbox' = [outbox EXCEPT ![n] = @ \o msgs]
MarkDestroy(n) == flags' = [flags EXCEPT ![n].destroy = TRUE]

\* A thread serves an entry unless it found it marked.
Serves(thread, n) ==
    /\ state[n] = "up"
    /\ flags[n].destroy => n = Dialer /\ late = thread

-----------------------------------------------------------------------------
(* The connection *)

\* tryConnectOutbound succeeds: the connection is in the other side's backlog.
Connect ==
    /\ state[Dialer] = "none"
    /\ state' = [state EXCEPT ![Dialer] = "up"]
    /\ UNCHANGED <<node, flags, outbox, wire, inbox, ticker, learnt, broken, mntVars>>

\* What a node sends when it accepts a connection.
\* Mutant: it waits for the other side to speak.
HelloNone(n) == <<>>
Hello(n) == <<Version(n)>>

\* ThreadSocketHandler accepts; a dialled connection stays in the backlog until
\* then, also when the dialling side has hung up.
Accept ==
    /\ state[Acceptor] = "none"
    /\ state[Dialer] \in {"up", "gone"}
    /\ state' = [state EXCEPT ![Acceptor] = "up"]
    /\ Queue(Acceptor, Hello(Acceptor))
    /\ UNCHANGED <<node, flags, wire, inbox, ticker, learnt, broken, mntVars>>

Break ==
    /\ MayBreak
    /\ ~broken
    /\ "up" \in {state[n] : n \in Nodes}
    /\ broken' = TRUE
    /\ wire' \in {wire, [n \in Nodes |-> <<>>]}
    /\ UNCHANGED <<node, state, flags, outbox, inbox, ticker, learnt, mntVars>>

\* The other end will neither send nor receive any more.
HungUp(n) == broken \/ state[Other(n)] = "gone"

\* An entry that net works on.
Served(n) ==
    /\ Serves("net", n)
    /\ Len(inbox[n]) < MaxMsgQueue

\* net sends a message, for as many of them as the socket takes.
Send(n) ==
    /\ Served(n)
    /\ outbox[n] # <<>>
    /\ \/ /\ wire' = IF HungUp(n) THEN wire
                     ELSE [wire EXCEPT ![n] = Append(@, Head(outbox[n]))]
          /\ outbox' = [outbox EXCEPT ![n] = Tail(@)]
          /\ UNCHANGED flags
       \/ /\ HungUp(n)
          /\ MarkDestroy(n)
          /\ UNCHANGED <<wire, outbox>>
    /\ UNCHANGED <<node, state, inbox, ticker, learnt, broken, mntVars>>

\* net reads a buffer.  What is left of it once the queue is full is dropped.
\* That nothing is to be sent was checked before select(); it may be outdated.
Recv(n) ==
    /\ Served(n)
    /\ LET arrived == wire[Other(n)]
           room == MaxMsgQueue - Len(inbox[n])
       IN \/ \E k \in 1..Len(arrived) :
               /\ wire' = [wire EXCEPT ![Other(n)] = SubSeq(@, k + 1, Len(@))]
               /\ inbox' = [inbox EXCEPT ![n] =
                              @ \o SubSeq(arrived, 1, IF k < room THEN k ELSE room)]
               /\ UNCHANGED flags
          \/ /\ arrived = <<>>
             /\ HungUp(n)
             /\ MarkDestroy(n)
             /\ UNCHANGED <<wire, inbox>>
    /\ UNCHANGED <<node, state, outbox, ticker, learnt, broken, mntVars>>

\* The entry is erased, which closes its socket.  Closing with unread data
\* resets the connection, and what the other side has not read may be lost.
Erase(n) ==
    /\ flags[n].destroy
    /\ n = Dialer => late = "none"
    /\ state[n] = "up" \/ (n = Dialer /\ state[n] = "none")
    /\ state' = [state EXCEPT ![n] = IF @ = "up" THEN "gone" ELSE "dropped"]
    /\ outbox' = [outbox EXCEPT ![n] = <<>>]
    /\ inbox' = [inbox EXCEPT ![n] = <<>>]
    /\ \/ wire' = [wire EXCEPT ![Other(n)] = <<>>]
       \/ /\ wire[Other(n)] # <<>> \/ inbox[n] # <<>>
          /\ wire' = [m \in Nodes |-> <<>>]
    /\ UNCHANGED <<node, flags, ticker, learnt, broken, mntVars>>

-----------------------------------------------------------------------------
(* ProcessMessage, one action per kind of subject *)

\* msghand takes a message with one of these subjects from the queue.
Takes(n, subjects) ==
    /\ Serves("msghand", n)
    /\ inbox[n] # <<>>
    /\ Head(inbox[n]).subject \in subjects
    /\ inbox' = [inbox EXCEPT ![n] = Tail(@)]

\* Nothing but VERSION is accepted before the connection is valid.
MaySpeak(n) == flags[n].valid

\* The peer is to be destroyed, and msghand leaves it.
Refuse(n) ==
    /\ MarkDestroy(n)
    /\ late' = IF n = Dialer THEN "none" ELSE late

RefuseEarly(n) ==
    /\ Takes(n, Subjects \ {"VERSION"})
    /\ ~MaySpeak(n)
    /\ Refuse(n)
    /\ UNCHANGED <<node, state, outbox, wire, ticker, learnt, broken, mnt, rounds>>

\* Our answer to a version that equals ours.
\* Mutant: the mode is told before the network.
GreetingModeFirst(n) == <<Version(n), NodeMode(n), TestNet(n)>>
Greeting(n) == <<Version(n), TestNet(n), NodeMode(n)>>

\* Mutant: an older client is accepted.
SameVersionOrOlder(n, version) == version <= node[n].version
SameVersion(n, version) == version = node[n].version

\* Mutant: every other version counts as a newer one.
OlderNever(n, version) == FALSE
Older(n, version) == version < node[n].version

\* Once the connection is valid, another VERSION is ignored.
\* Mutant: it is answered again.
NeverIgnores(n) == FALSE
IgnoresVersion(n) == flags[n].valid

HandleVersion(n) ==
    /\ Takes(n, {"VERSION"})
    /\ LET version == Head(inbox[n]).version
       IN \/ /\ IgnoresVersion(n)
             /\ UNCHANGED <<flags, outbox, ticker, late>>
          \/ /\ ~IgnoresVersion(n)
             /\ SameVersion(n, version)
             /\ flags' = [flags EXCEPT ![n].valid = TRUE]
             /\ Queue(n, Greeting(n))
             /\ UNCHANGED <<ticker, late>>
          \/ /\ ~IgnoresVersion(n)
             /\ ~SameVersion(n, version)
             /\ Older(n, version)
             /\ Queue(n, <<Newer>>)
             /\ Refuse(n)
             /\ UNCHANGED ticker
          \/ /\ ~IgnoresVersion(n)
             /\ ~SameVersion(n, version)
             /\ ~Older(n, version)
             /\ ticker' = [ticker EXCEPT ![n] = @ + 1]
             /\ Refuse(n)
             /\ UNCHANGED outbox
    /\ UNCHANGED <<node, state, wire, learnt, broken, mnt, rounds>>

\* Mutant: the network of the other side is not compared with ours.
SameNetworkUnchecked(n, testnet) == TRUE
SameNetwork(n, testnet) == testnet = node[n].testnet

HandleTestNet(n) ==
    /\ Takes(n, {"TESTNET"})
    /\ MaySpeak(n)
    /\ IF SameNetwork(n, Head(inbox[n]).testnet)
       THEN UNCHANGED <<flags, late>>
       ELSE Refuse(n)
    /\ UNCHANGED <<node, state, outbox, wire, ticker, learnt, broken, mnt, rounds>>

HandleNodeMode(n) ==
    /\ Takes(n, {"NODEMODE"})
    /\ MaySpeak(n)
    /\ LET isFN == Head(inbox[n]).fn
       IN /\ flags' = [flags EXCEPT ![n].mode = ModeOf(isFN)]
          /\ Queue(n, (IF isFN THEN <<PortGet>> ELSE <<>>) \o <<PeerListSend>>)
    /\ UNCHANGED <<node, state, wire, ticker, learnt, broken, mntVars>>

\* PORT_GET and PING are answered.
HandleRequest(n) ==
    /\ Takes(n, {"PORT_GET", "PING"})
    /\ MaySpeak(n)
    /\ Queue(n, IF Head(inbox[n]).subject = "PING" THEN <<Pong>> ELSE <<PortSend>>)
    /\ UNCHANGED <<node, state, flags, wire, ticker, learnt, broken, mntVars>>

\* PORT_SEND, PONG and VERSION_NEWER are noted.
HandleNotice(n) ==
    /\ Takes(n, {"PORT_SEND", "PONG", "VERSION_NEWER"})
    /\ MaySpeak(n)
    /\ LET subject == Head(inbox[n]).subject
       IN /\ flags' = [flags EXCEPT ![n].port = @ \/ subject = "PORT_SEND",
                                    ![n].pong = @ \/ subject = "PONG"]
          /\ ticker' = IF subject = "VERSION_NEWER"
                       THEN [ticker EXCEPT ![n] = @ + 1] ELSE ticker
    /\ UNCHANGED <<node, state, outbox, wire, learnt, broken, mntVars>>

\* The peers of node n, other than the one that asks, are of these modes.  If
\* it has none there is no answer; each is listed if the one that asks is a
\* full node.
HandleListRequest(n) ==
    /\ Takes(n, {"PEER_LIST_SEND"})
    /\ MaySpeak(n)
    /\ \E others \in OtherPeers :
         IF others = {} THEN UNCHANGED outbox
         ELSE Queue(n, <<PeerListGet(IF flags[n].mode = "fn" THEN others
                                     ELSE {})>>)
    /\ UNCHANGED <<node, state, flags, wire, ticker, learnt, broken, mntVars>>

\* The addresses become outbound peers of node n.
HandleList(n) ==
    /\ Takes(n, {"PEER_LIST_GET"})
    /\ MaySpeak(n)
    /\ learnt' = [learnt EXCEPT ![n] = @ \cup Head(inbox[n]).modes]
    /\ UNCHANGED <<node, state, flags, outbox, wire, ticker, broken, mntVars>>

ProcessMessage(n) ==
    \/ RefuseEarly(n) \/ HandleVersion(n) \/ HandleTestNet(n)
    \/ HandleNodeMode(n) \/ HandleRequest(n) \/ HandleNotice(n)
    \/ HandleListRequest(n) \/ HandleList(n)

-----------------------------------------------------------------------------
(* Maintainer of the dialling side *)

\* The first loop pings every entry, connected or not, whose last ping was
\* answered, and gives up the others.
MaintainPing ==
    /\ mnt = "idle"
    /\ rounds < MaxRounds
    /\ state[Dialer] \in {"none", "up"}
    /\ mnt' = "request"
    /\ IF flags[Dialer].destroy THEN UNCHANGED <<flags, outbox, late>>
       ELSE IF flags[Dialer].pong
       THEN /\ Queue(Dialer, <<Ping>>)
            /\ flags' = [flags EXCEPT ![Dialer].pong = FALSE]
            /\ UNCHANGED late
       ELSE /\ MarkDestroy(Dialer)
            /\ late' \in {"none"} \cup (IF Served(Dialer) THEN {"net"} ELSE {})
                        \cup (IF inbox[Dialer] # <<>> THEN {"msghand"} ELSE {})
            /\ UNCHANGED outbox
    /\ UNCHANGED <<node, state, wire, inbox, ticker, learnt, broken, rounds>>

\* The third loop asks every valid peer for its list, if the node has too few
\* outbound connections, which other connections decide.
MaintainRequest ==
    /\ mnt = "request"
    /\ mnt' = "idle"
    /\ rounds' = rounds + 1
    /\ \/ UNCHANGED outbox
       \/ /\ flags[Dialer].valid
          /\ state[Dialer] \in {"none", "up"}
          /\ Queue(Dialer, <<PeerListSend>>)
    /\ UNCHANGED <<node, state, flags, wire, inbox, ticker, learnt, broken, late>>

\* The thread that was serving the entry goes on to the next one.
PassEnds ==
    /\ late = "net" \/ (late = "msghand" /\ inbox[Dialer] = <<>>)
    /\ late' = "none"
    /\ UNCHANGED <<node, state, flags, outbox, wire, inbox, ticker, learnt, broken,
                   mnt, rounds>>

-----------------------------------------------------------------------------

Next ==
    \/ Connect \/ Accept \/ Break \/ MaintainPing \/ MaintainRequest \/ PassEnds
    \/ \E n \in Nodes : Send(n) \/ Recv(n) \/ Erase(n) \/ ProcessMessage(n)

Spec == Init /\ [][Next]_vars

\* Both nodes keep running their threads, and the dialled host can be reached.
\* Neither the network nor Maintainer, which comes every 60 s, has to act.
Fairness ==
    /\ WF_vars(Connect)
    /\ WF_vars(Accept)
    /\ WF_vars(PassEnds)
    /\ \A n \in Nodes : /\ WF_vars(Send(n))
                        /\ WF_vars(Recv(n))
                        /\ WF_vars(Erase(n))
                        /\ WF_vars(ProcessMessage(n))

FairSpec == Spec /\ Fairness

-----------------------------------------------------------------------------
(* Properties *)

MessageSubjects(q) == {q[i].subject : i \in DOMAIN q}

\* What one side has queued or sent and the other has not processed.
Pending(n) == outbox[n] \o wire[n] \o inbox[Other(n)]

\* Every variable stays in its range.  A handshake never has more messages
\* pending than fit into the queue of received messages, so ReceiveMsgBytes
\* never gets to drop the rest of a buffer.
TypeOK ==
    /\ state \in [Nodes -> {"none", "up", "gone", "dropped"}]
    /\ flags \in [Nodes -> [destroy : BOOLEAN, valid : BOOLEAN,
                            mode : Modes \cup {"unknown"}, port : BOOLEAN,
                            pong : BOOLEAN]]
    /\ \A n \in Nodes :
         /\ MessageSubjects(Pending(n)) \subseteq Subjects
         /\ Len(Pending(n)) <= MaxMsgQueue
    /\ ticker \in [Nodes -> Nat]
    /\ learnt \in [Nodes -> SUBSET Modes]
    /\ broken \in BOOLEAN /\ mnt \in {"idle", "request"} /\ rounds \in 0..MaxRounds
    /\ late \in {"none", "net", "msghand"}

Compatible ==
    /\ node[Dialer].version = node[Acceptor].version
    /\ node[Dialer].testnet = node[Acceptor].testnet

\* Nodes of different networks or versions exchange nothing but their greetings:
\* neither learns the mode, the listening port or the peers of the other.
\* The code has no state for it; it follows from the order of the greetings.
NetworksNeverMix ==
    \A n \in Nodes :
      (flags[n].mode # "unknown" \/ flags[n].port \/ learnt[n] # {}) => Compatible

\* Nodes of different versions never take each other for valid, whoever dials.
ValidMeansSameVersion ==
    \A n \in Nodes :
      flags[n].valid => node[n].version = node[Other(n)].version

\* The version ticker, which triggers updates, only counts newer versions.
TickerHonest ==
    \A n \in Nodes : ticker[n] > 0 => node[n].version < node[Other(n)].version

PingedEarly == ~flags[Dialer].valid /\ ~flags[Dialer].pong
GivenUp == flags[Dialer].destroy /\ ~flags[Dialer].pong

\* Compatible nodes complete their handshake, unless the network fails or
\* Maintainer pings before it or a second time before the answer.
HandshakeCompletes ==
    <>(\/ \A n \in Nodes : flags[n].mode = ModeOf(node[Other(n)].fn)
       \/ ~Compatible \/ broken \/ PingedEarly \/ GivenUp)

\* A connection of incompatible nodes ends on both sides, for good.
MismatchCloses == ~Compatible => <>[](\A n \in Nodes : state[n] # "up")

\* An older node that dials a newer one counts it.
OlderDialerLearns ==
    <>(\/ node[Dialer].version >= node[Acceptor].version
       \/ ticker[Dialer] = 1 \/ broken \/ PingedEarly \/ GivenUp)

\* NetworkManager.cpp:698: "we inform him about a new version and then destroy
\* the connection".  Violated: the entry is marked, so VERSION_NEWER is never sent.
InformedBeforeDisconnect ==
    [][\A n \in Nodes :
         state[n] = "up" /\ state'[n] = "gone" =>
           "VERSION_NEWER" \notin MessageSubjects(outbox[n])]_vars
=============================================================================
