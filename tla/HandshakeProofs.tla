---------------------------- MODULE HandshakeProofs ----------------------------
(***************************************************************************)
(* Proofs about Handshake, for any two nodes, any number of rounds of      *)
(* Maintainer and a network that may fail or not.                          *)
(***************************************************************************)
EXTENDS Handshake, Induction

EntryType == [destroy : BOOLEAN, valid : BOOLEAN, mode : Modes \cup {"unknown"},
              port : BOOLEAN, pong : BOOLEAN]

TypeInv ==
    /\ node \in Pairs
    /\ state \in [Nodes -> {"none", "up", "gone", "dropped"}]
    /\ flags \in [Nodes -> EntryType]
    /\ ticker \in [Nodes -> Nat]
    /\ learnt \in [Nodes -> SUBSET Modes]
    /\ broken \in BOOLEAN
    /\ late \in {"none", "net", "msghand"}

\* What a node may say: the truth about itself, and that the other is older.
From(n) ==
    {Version(n), TestNet(n), NodeMode(n), PortGet, PortSend, PeerListSend, Ping, Pong}
      \cup {PeerListGet(modes) : modes \in SUBSET Modes}
      \cup {m \in {Newer} : node[Other(n)].version < node[n].version}

\* It says nothing else, wherever its messages are.
QueueInv ==
    /\ DOMAIN outbox = Nodes /\ DOMAIN wire = Nodes /\ DOMAIN inbox = Nodes
    /\ \A n \in Nodes : /\ outbox[n] \in Seq(From(n))
                        /\ wire[n] \in Seq(From(n))
                        /\ inbox[Other(n)] \in Seq(From(n))

\* A node has learnt something of its peer, beyond its version and network.
Knows(n) == flags[n].mode # "unknown" \/ flags[n].port \/ learnt[n] # {}

VersionInv ==
    \A n \in Nodes :
        /\ flags[n].valid => node[n].version = node[Other(n)].version
        /\ ticker[n] > 0 => node[n].version < node[Other(n)].version
        /\ Knows(n) => flags[n].valid

-----------------------------------------------------------------------------
(* Two nodes *)

LEMMA TwoNodes ==
    ASSUME NEW n \in Nodes
    PROVE  /\ Other(n) \in Nodes /\ Other(n) # n /\ Other(Other(n)) = n
           /\ Nodes = {n, Other(n)}
  BY NodesAssumption DEF Nodes, Other

LEMMA VersionsAreNat ==
    ASSUME TypeInv, NEW n \in Nodes
    PROVE  node[n].version \in Nat /\ node[n].testnet \in BOOLEAN /\ node[n].fn \in BOOLEAN
  BY LimitsAssumption DEF TypeInv

\* What a node is does not change, and with it what it may say.
LEMMA NodeStays ==
    ASSUME [Next]_vars
    PROVE  node' = node /\ \A n \in Nodes : From(n)' = From(n)
<1>1. node' = node
  BY DEF Next, vars, Connect, Accept, Break, MaintainPing, MaintainRequest, PassEnds, Send,
         Recv, Erase, ProcessMessage, RefuseEarly, HandleVersion, HandleTestNet,
         HandleNodeMode, HandleRequest, HandleNotice, HandleListRequest, HandleList
<1> QED
  BY <1>1 DEF From, Version, TestNet, NodeMode

\* The subject tells which message it is.
LEMMA Subject ==
    ASSUME NEW n \in Nodes, NEW m \in From(n)
    PROVE  /\ m.subject = "VERSION" => m.version = node[n].version
           /\ m.subject = "TESTNET" => m.testnet = node[n].testnet
           /\ m.subject = "NODEMODE" => m.fn = node[n].fn
           /\ m.subject = "VERSION_NEWER" => node[Other(n)].version < node[n].version
           /\ m.subject = "PEER_LIST_GET" => m.modes \subseteq Modes
           /\ m.subject \in Subjects
  BY DEF From, Version, TestNet, NodeMode, PortGet, PortSend, PeerListSend, Ping, Pong,
         PeerListGet, Newer, Subjects

\* The message a node takes is one the other may say.
LEMMA TakenIsFrom ==
    ASSUME QueueInv, NEW n \in Nodes, inbox[n] # <<>>
    PROVE  Head(inbox[n]) \in From(Other(n)) /\ Tail(inbox[n]) \in Seq(From(Other(n)))
<1>1. inbox[n] \in Seq(From(Other(n)))
  BY TwoNodes DEF QueueInv
<1> QED
  BY <1>1

-----------------------------------------------------------------------------
(* Types, versions and what is said *)

LEMMA InitInd == Init => TypeInv /\ QueueInv /\ VersionInv
<1> SUFFICES ASSUME Init PROVE TypeInv /\ QueueInv /\ VersionInv
  OBVIOUS
<1>1. TypeInv
  BY DEF Init, TypeInv, EntryType, Entry
<1>2. QueueInv
  BY TwoNodes DEF Init, QueueInv
<1>3. VersionInv
  BY DEF Init, VersionInv, Knows, Entry
<1> QED
  BY <1>1, <1>2, <1>3

\* Marking an entry changes nothing else of it.
LEMMA Marked ==
    ASSUME TypeInv, NEW n \in Nodes, MarkDestroy(n)
    PROVE  /\ flags' \in [Nodes -> EntryType]
           /\ flags'[n].destroy
           /\ \A k \in Nodes : /\ flags[k].destroy => flags'[k].destroy
                               /\ flags'[k].valid = flags[k].valid
                               /\ flags'[k].mode = flags[k].mode
                               /\ flags'[k].port = flags[k].port
                               /\ flags'[k].pong = flags[k].pong
<1>1. flags[n] \in EntryType /\ DOMAIN flags = Nodes
  BY DEF TypeInv
<1>2. [flags[n] EXCEPT !.destroy = TRUE] \in EntryType
  BY <1>1 DEF EntryType
<1>3. flags' = [flags EXCEPT ![n] = [flags[n] EXCEPT !.destroy = TRUE]]
  BY DEF MarkDestroy
<1>4. flags' \in [Nodes -> EntryType]
  BY <1>1, <1>2, <1>3 DEF TypeInv
<1>5. /\ [flags[n] EXCEPT !.destroy = TRUE].destroy
      /\ [flags[n] EXCEPT !.destroy = TRUE].valid = flags[n].valid
      /\ [flags[n] EXCEPT !.destroy = TRUE].mode = flags[n].mode
      /\ [flags[n] EXCEPT !.destroy = TRUE].port = flags[n].port
      /\ [flags[n] EXCEPT !.destroy = TRUE].pong = flags[n].pong
  BY <1>1 DEF EntryType
<1> QED
  BY <1>1, <1>3, <1>4, <1>5

LEMMA ProcessType ==
    ASSUME TypeInv, QueueInv, NEW n \in Nodes, ProcessMessage(n)
    PROVE  TypeInv'
<1> USE DEF mntVars
<1>0. flags[n] \in EntryType /\ DOMAIN flags = Nodes
  BY DEF TypeInv
<1>1. CASE RefuseEarly(n)
  BY <1>1, Marked DEF RefuseEarly, Refuse, TypeInv
<1>2. CASE HandleVersion(n)
  <2>1. flags' \in [Nodes -> EntryType]
    <3>1. CASE MarkDestroy(n)
      BY <3>1, Marked
    <3>2. CASE flags' = [flags EXCEPT ![n].valid = TRUE]
      <4>1. [flags[n] EXCEPT !.valid = TRUE] \in EntryType
        BY <1>0 DEF EntryType
      <4> QED
        BY <3>2, <4>1, <1>0 DEF TypeInv
    <3> QED
      BY <1>2, <3>1, <3>2 DEF HandleVersion, Refuse, TypeInv
  <2>2. ticker' \in [Nodes -> Nat]
    BY <1>2 DEF HandleVersion, TypeInv
  <2>3. late' \in {"none", "net", "msghand"}
    BY <1>2 DEF HandleVersion, Refuse, TypeInv
  <2> QED
    BY <1>2, <2>1, <2>2, <2>3 DEF HandleVersion, TypeInv
<1>3. CASE HandleTestNet(n)
  BY <1>3, Marked DEF HandleTestNet, Refuse, TypeInv
<1>4. CASE HandleNodeMode(n)
  <2>1. \A m \in Modes : [flags[n] EXCEPT !.mode = m] \in EntryType
    BY <1>0 DEF EntryType
  <2>2. flags' \in [Nodes -> EntryType]
    BY <1>4, <1>0, <2>1 DEF HandleNodeMode, ModeOf, Modes, TypeInv
  <2> QED
    BY <1>4, <2>2 DEF HandleNodeMode, TypeInv
<1>5. CASE HandleRequest(n)
  BY <1>5 DEF HandleRequest, TypeInv
<1>6. CASE HandleNotice(n)
  <2> DEFINE new == [flags[n] EXCEPT !.port = @ \/ Head(inbox[n]).subject = "PORT_SEND",
                                     !.pong = @ \/ Head(inbox[n]).subject = "PONG"]
  <2>1. new \in EntryType
    BY <1>0 DEF EntryType
  <2>2. flags' = [flags EXCEPT ![n] = new]
    BY <1>6, <1>0 DEF HandleNotice, EntryType
  <2>3. flags' \in [Nodes -> EntryType]
    BY <1>0, <2>1, <2>2 DEF TypeInv
  <2>4. ticker' \in [Nodes -> Nat]
    BY <1>6 DEF HandleNotice, TypeInv
  <2> QED
    BY <1>6, <2>3, <2>4 DEF HandleNotice, TypeInv
<1>7. CASE HandleListRequest(n)
  BY <1>7 DEF HandleListRequest, TypeInv
<1>8. CASE HandleList(n)
  <2>1. Head(inbox[n]).modes \subseteq Modes
    BY <1>8, TakenIsFrom, TwoNodes, Subject DEF HandleList, Takes
  <2> QED
    BY <1>8, <2>1 DEF HandleList, TypeInv
<1> QED
  BY <1>1, <1>2, <1>3, <1>4, <1>5, <1>6, <1>7, <1>8 DEF ProcessMessage

LEMMA TypeStep ==
    ASSUME TypeInv, QueueInv, [Next]_vars
    PROVE  TypeInv'
<1> USE DEF TypeInv, EntryType, mntVars
<1>1. CASE Connect
  BY <1>1 DEF Connect, Nodes
<1>2. CASE Accept
  BY <1>2 DEF Accept, Nodes
<1>3. CASE Break
  BY <1>3 DEF Break
<1>4. CASE MaintainPing
  <2>1. Dialer \in Nodes /\ flags[Dialer] \in EntryType /\ DOMAIN flags = Nodes
    BY DEF Nodes
  <2>2. [flags[Dialer] EXCEPT !.pong = FALSE] \in EntryType
    BY <2>1
  <2>3. flags' \in [Nodes -> EntryType]
    BY <1>4, <2>1, <2>2, Marked DEF MaintainPing
  <2> QED
    BY <1>4, <2>3 DEF MaintainPing
<1>5. CASE MaintainRequest
  BY <1>5 DEF MaintainRequest
<1>6. CASE PassEnds
  BY <1>6 DEF PassEnds
<1>7. CASE \E n \in Nodes : Send(n) \/ Recv(n) \/ Erase(n)
  <2> SUFFICES ASSUME NEW n \in Nodes, Send(n) \/ Recv(n) \/ Erase(n)
               PROVE  TypeInv'
    BY <1>7
  <2>1. flags' \in [Nodes -> EntryType]
    BY Marked DEF Send, Recv, Erase
  <2>2. state' \in [Nodes -> {"none", "up", "gone", "dropped"}]
    BY DEF Send, Recv, Erase
  <2> QED
    BY <2>1, <2>2 DEF Send, Recv, Erase
<1>8. CASE \E n \in Nodes : ProcessMessage(n)
  BY <1>8, ProcessType
<1>9. CASE UNCHANGED vars
  BY <1>9 DEF vars, mntVars
<1> QED
  BY <1>1, <1>2, <1>3, <1>4, <1>5, <1>6, <1>7, <1>8, <1>9 DEF Next

\* What a node queues is among what it may say.
LEMMA MayBeSaid ==
    ASSUME NEW n \in Nodes
    PROVE  /\ Hello(n) \in Seq(From(n)) /\ Greeting(n) \in Seq(From(n))
           /\ <<Ping>> \in Seq(From(n)) /\ <<Pong>> \in Seq(From(n))
           /\ <<PortGet>> \o <<PeerListSend>> \in Seq(From(n))
           /\ <<>> \o <<PeerListSend>> \in Seq(From(n))
           /\ <<PortSend>> \in Seq(From(n)) /\ <<PeerListSend>> \in Seq(From(n))
           /\ \A modes \in SUBSET Modes : <<PeerListGet(modes)>> \in Seq(From(n))
           /\ node[Other(n)].version < node[n].version => <<Newer>> \in Seq(From(n))
<1>1. /\ Version(n) \in From(n) /\ TestNet(n) \in From(n) /\ NodeMode(n) \in From(n)
      /\ PortGet \in From(n) /\ PortSend \in From(n) /\ PeerListSend \in From(n)
      /\ Ping \in From(n) /\ Pong \in From(n)
      /\ \A modes \in SUBSET Modes : PeerListGet(modes) \in From(n)
      /\ node[Other(n)].version < node[n].version => Newer \in From(n)
  BY DEF From
<1> QED
  BY <1>1 DEF Hello, Greeting

\* Queueing, for a node that says what it may.
LEMMA QueueAppends ==
    ASSUME QueueInv, NEW n \in Nodes, NEW msgs \in Seq(From(n)), Queue(n, msgs),
           node' = node, DOMAIN wire' = Nodes, DOMAIN inbox' = Nodes,
           \A k \in Nodes : wire'[k] \in Seq(From(k)) /\ inbox'[Other(k)] \in Seq(From(k))
    PROVE  QueueInv'
<1>1. \A k \in Nodes : From(k)' = From(k)
  BY DEF From, Version, TestNet, NodeMode
<1>2. DOMAIN outbox' = Nodes /\ \A k \in Nodes : outbox'[k] \in Seq(From(k))
  BY DEF Queue, QueueInv
<1> QED
  BY <1>1, <1>2, TwoNodes DEF QueueInv

LEMMA ProcessQueue ==
    ASSUME TypeInv, QueueInv, NEW n \in Nodes, ProcessMessage(n)
    PROVE  QueueInv'
<1>1. /\ node' = node /\ wire' = wire /\ inbox' = [inbox EXCEPT ![n] = Tail(@)]
      /\ inbox[n] # <<>>
  BY DEF ProcessMessage, RefuseEarly, HandleVersion, HandleTestNet, HandleNodeMode,
         HandleRequest, HandleNotice, HandleListRequest, HandleList, Takes
<1>2. /\ DOMAIN wire' = Nodes /\ DOMAIN inbox' = Nodes
      /\ \A k \in Nodes : wire'[k] \in Seq(From(k)) /\ inbox'[Other(k)] \in Seq(From(k))
  BY <1>1, TakenIsFrom, TwoNodes DEF QueueInv
<1>3. \A k \in Nodes : From(k)' = From(k)
  BY <1>1 DEF From, Version, TestNet, NodeMode
<1>4. CASE outbox' = outbox
  BY <1>2, <1>3, <1>4, TwoNodes DEF QueueInv
<1>5. CASE \E msgs \in Seq(From(n)) : Queue(n, msgs)
  BY <1>1, <1>2, <1>5, QueueAppends
<1>6. CASE RefuseEarly(n) \/ HandleTestNet(n) \/ HandleNotice(n) \/ HandleList(n)
  BY <1>4, <1>6 DEF RefuseEarly, HandleTestNet, HandleNotice, HandleList
<1>7. CASE HandleVersion(n)
  <2>1. Older(n, Head(inbox[n]).version) => node[Other(n)].version < node[n].version
    BY <1>1, <1>7, TakenIsFrom, TwoNodes, Subject DEF HandleVersion, Takes, Older
  <2> QED
    BY <1>4, <1>5, <1>7, <2>1, MayBeSaid DEF HandleVersion
<1>8. CASE HandleNodeMode(n)
  BY <1>5, <1>8, MayBeSaid DEF HandleNodeMode
<1>9. CASE HandleRequest(n)
  BY <1>5, <1>9, MayBeSaid DEF HandleRequest
<1>10. CASE HandleListRequest(n)
  <2>1. PICK others \in OtherPeers :
          IF others = {} THEN UNCHANGED outbox
          ELSE Queue(n, <<PeerListGet(IF flags[n].mode = "fn" THEN others ELSE {})>>)
    BY <1>10 DEF HandleListRequest
  <2>2. others \in SUBSET Modes /\ {} \in SUBSET Modes
    BY LimitsAssumption
  <2> QED
    BY <1>4, <1>5, <2>1, <2>2, MayBeSaid
<1> QED
  BY <1>6, <1>7, <1>8, <1>9, <1>10 DEF ProcessMessage

\* What net sends, reads and loses is part of what was said.
LEMMA SocketQueue ==
    ASSUME TypeInv, QueueInv, NEW n \in Nodes, Send(n) \/ Recv(n) \/ Erase(n)
    PROVE  QueueInv'
<1>1. node' = node /\ \A k \in Nodes : From(k)' = From(k)
  BY DEF Send, Recv, Erase, From, Version, TestNet, NodeMode
<1>2. CASE Send(n)
  <2>1. outbox[n] # <<>> /\ outbox[n] \in Seq(From(n)) /\ wire[n] \in Seq(From(n))
    BY <1>2 DEF Send, QueueInv
  <2>2. Tail(outbox[n]) \in Seq(From(n)) /\ Append(wire[n], Head(outbox[n])) \in Seq(From(n))
    BY <2>1
  <2>3. DOMAIN wire' = Nodes /\ \A k \in Nodes : wire'[k] \in Seq(From(k))
    <3>1. \/ wire' = wire
          \/ wire' = [wire EXCEPT ![n] = Append(wire[n], Head(outbox[n]))]
      BY <1>2 DEF Send
    <3> QED
      BY <2>2, <3>1 DEF QueueInv
  <2>4. DOMAIN outbox' = Nodes /\ \A k \in Nodes : outbox'[k] \in Seq(From(k))
    <3>1. outbox' = outbox \/ outbox' = [outbox EXCEPT ![n] = Tail(outbox[n])]
      BY <1>2 DEF Send
    <3> QED
      BY <2>2, <3>1 DEF QueueInv
  <2>5. inbox' = inbox
    BY <1>2 DEF Send
  <2> QED
    BY <1>1, <2>3, <2>4, <2>5 DEF QueueInv
<1>3. CASE Recv(n)
  <2> DEFINE m == Other(n)
             arrived == wire[m]
             room == MaxMsgQueue - Len(inbox[n])
  <2>1. /\ m \in Nodes /\ m # n /\ Other(m) = n
        /\ arrived \in Seq(From(m)) /\ inbox[n] \in Seq(From(m))
    BY TwoNodes DEF QueueInv
  <2>2. room \in Nat
    BY <1>3, <2>1, LimitsAssumption DEF Recv, Served
  <2>3. CASE UNCHANGED <<wire, inbox>>
    BY <1>1, <1>3, <2>3, TwoNodes DEF Recv, QueueInv
  <2>4. ASSUME NEW k \in 1..Len(arrived),
               wire' = [wire EXCEPT ![m] = SubSeq(@, k + 1, Len(@))],
               inbox' = [inbox EXCEPT ![n] =
                           @ \o SubSeq(arrived, 1, IF k < room THEN k ELSE room)]
        PROVE  QueueInv'
    <3> DEFINE t == IF k < room THEN k ELSE room
    <3>1. t \in Nat /\ t <= Len(arrived)
      BY <2>1, <2>2
    <3>2. SubSeq(arrived, k + 1, Len(arrived)) \in Seq(From(m))
      BY <2>1
    <3>3. SubSeq(arrived, 1, t) \in Seq(From(m))
      BY <2>1, <3>1
    <3>4. inbox[n] \o SubSeq(arrived, 1, t) \in Seq(From(m))
      BY <2>1, <3>3
    <3> QED
      BY <1>1, <1>3, <2>1, <2>4, <3>2, <3>4, TwoNodes DEF Recv, QueueInv
  <2> QED
    BY <1>3, <2>3, <2>4 DEF Recv
<1>4. CASE Erase(n)
  <2>1. \A k \in Nodes : <<>> \in Seq(From(k))
    OBVIOUS
  <2>2. DOMAIN outbox' = Nodes /\ \A k \in Nodes : outbox'[k] \in Seq(From(k))
    BY <1>4, <2>1 DEF Erase, QueueInv
  <2>3. DOMAIN inbox' = Nodes /\ \A k \in Nodes : inbox'[Other(k)] \in Seq(From(k))
    BY <1>4, <2>1, TwoNodes DEF Erase, QueueInv
  <2>4. DOMAIN wire' = Nodes /\ \A k \in Nodes : wire'[k] \in Seq(From(k))
    <3>1. wire' = [wire EXCEPT ![Other(n)] = <<>>] \/ wire' = [k \in Nodes |-> <<>>]
      BY <1>4 DEF Erase
    <3>2. DOMAIN wire = Nodes /\ \A k \in Nodes : wire[k] \in Seq(From(k))
      BY DEF QueueInv
    <3> HIDE DEF QueueInv
    <3>3. DOMAIN wire' = Nodes /\ \A k \in Nodes : wire'[k] \in {<<>>, wire[k]}
      BY <3>1, <3>2
    <3> QED
      BY <2>1, <3>2, <3>3, Zenon
  <2> QED
    BY <1>1, <2>2, <2>3, <2>4 DEF QueueInv
<1> QED
  BY <1>2, <1>3, <1>4

LEMMA QueueStep ==
    ASSUME TypeInv, QueueInv, [Next]_vars
    PROVE  QueueInv'
<1>0. /\ node' = node /\ \A n \in Nodes : From(n)' = From(n)
      /\ Dialer \in Nodes /\ Acceptor \in Nodes
  BY NodeStays DEF Nodes
<1>1. CASE UNCHANGED <<outbox, wire, inbox>>
  BY <1>0, <1>1, TwoNodes DEF QueueInv
<1>2. ASSUME NEW n \in Nodes, NEW msgs \in Seq(From(n)), Queue(n, msgs),
             UNCHANGED <<wire, inbox>>
      PROVE  QueueInv'
  BY <1>0, <1>2, QueueAppends, TwoNodes DEF QueueInv
<1>3. CASE Connect \/ PassEnds \/ UNCHANGED vars
  BY <1>1, <1>3 DEF Connect, PassEnds, vars
<1>4. CASE Accept
  BY <1>0, <1>2, <1>4, MayBeSaid DEF Accept
<1>5. CASE Break
  <2>1. outbox' = outbox /\ inbox' = inbox /\ wire' \in {wire, [n \in Nodes |-> <<>>]}
    BY <1>5 DEF Break
  <2>2. DOMAIN wire' = Nodes /\ \A n \in Nodes : wire'[n] \in Seq(From(n))
    <3>1. \A k \in Nodes : <<>> \in Seq(From(k))
      OBVIOUS
    <3>2. CASE wire' = wire
      BY <3>2 DEF QueueInv
    <3>3. CASE wire' = [k \in Nodes |-> <<>>]
      BY <3>1, <3>3
    <3> QED
      BY <2>1, <3>2, <3>3
  <2> QED
    BY <1>0, <2>1, <2>2 DEF QueueInv
<1>6. CASE MaintainPing
  BY <1>0, <1>1, <1>2, <1>6, MayBeSaid DEF MaintainPing
<1>7. CASE MaintainRequest
  BY <1>0, <1>1, <1>2, <1>7, MayBeSaid DEF MaintainRequest
<1>8. CASE \E n \in Nodes : Send(n) \/ Recv(n) \/ Erase(n)
  BY <1>8, SocketQueue
<1>9. CASE \E n \in Nodes : ProcessMessage(n)
  BY <1>9, ProcessQueue
<1> QED
  BY <1>3, <1>4, <1>5, <1>6, <1>7, <1>8, <1>9 DEF Next
-----------------------------------------------------------------------------
(* What a node makes of the messages *)

LEMMA VersionStep ==
    ASSUME TypeInv, QueueInv, VersionInv, [Next]_vars
    PROVE  VersionInv'
<1>0. node' = node
  BY NodeStays
\* Whatever leaves validity, tickers and what was learnt alone.
<1>1. ASSUME ticker' = ticker, learnt' = learnt,
             \A k \in Nodes : /\ flags'[k].valid = flags[k].valid
                              /\ flags'[k].mode = flags[k].mode
                              /\ flags'[k].port = flags[k].port
      PROVE  VersionInv'
  BY <1>0, <1>1 DEF VersionInv, Knows
<1>2. CASE UNCHANGED <<flags, ticker, learnt>>
  BY <1>1, <1>2
<1>3. CASE Connect \/ Accept \/ Break \/ MaintainRequest \/ PassEnds \/ UNCHANGED vars
  BY <1>2, <1>3 DEF Connect, Accept, Break, MaintainRequest, PassEnds, vars
<1>4. CASE MaintainPing
  <2>0. Dialer \in Nodes /\ ticker' = ticker /\ learnt' = learnt
    BY <1>4 DEF MaintainPing, Nodes
  <2>1. CASE flags' = flags
    BY <1>2, <2>0, <2>1
  <2>2. CASE MarkDestroy(Dialer)
    BY <1>1, <2>0, <2>2, Marked
  <2>3. CASE flags' = [flags EXCEPT ![Dialer].pong = FALSE]
    BY <1>1, <2>0, <2>3 DEF TypeInv, EntryType
  <2> QED
    BY <1>4, <2>1, <2>2, <2>3 DEF MaintainPing
<1>5. CASE \E n \in Nodes : Send(n) \/ Recv(n) \/ Erase(n)
  <2>1. PICK n \in Nodes : Send(n) \/ Recv(n) \/ Erase(n)
    BY <1>5
  <2>2. ticker' = ticker /\ learnt' = learnt /\ (flags' = flags \/ MarkDestroy(n))
    BY <2>1 DEF Send, Recv, Erase
  <2> QED
    BY <1>1, <1>2, <2>2, Marked
<1>6. ASSUME NEW n \in Nodes, ProcessMessage(n)
      PROVE  VersionInv'
  <2> DEFINE m == Head(inbox[n])
  <2>0. flags[n] \in EntryType /\ DOMAIN flags = Nodes /\ DOMAIN ticker = Nodes
        /\ DOMAIN learnt = Nodes /\ ticker[n] \in Nat
    BY DEF TypeInv
  <2>1. CASE RefuseEarly(n) \/ HandleTestNet(n)
    <3>1. ticker' = ticker /\ learnt' = learnt /\ (flags' = flags \/ MarkDestroy(n))
      BY <2>1 DEF RefuseEarly, HandleTestNet, Refuse
    <3> QED
      BY <1>1, <1>2, <3>1, Marked
  <2>2. CASE HandleVersion(n)
    <3>1. m.version = node[Other(n)].version
      BY <2>2, TakenIsFrom, TwoNodes, Subject DEF HandleVersion, Takes
    <3>2. CASE UNCHANGED flags /\ ticker' = ticker
      BY <1>2, <2>2, <3>2 DEF HandleVersion
    <3>3. CASE SameVersion(n, m.version) /\ flags' = [flags EXCEPT ![n].valid = TRUE]
               /\ ticker' = ticker
      BY <1>0, <2>0, <2>2, <3>1, <3>3 DEF HandleVersion, SameVersion, VersionInv, Knows, EntryType
    <3>4. CASE MarkDestroy(n) /\ ticker' = ticker
      BY <1>1, <2>2, <3>4, Marked DEF HandleVersion
    <3>5. CASE ~SameVersion(n, m.version) /\ ~Older(n, m.version) /\ MarkDestroy(n)
               /\ ticker' = [ticker EXCEPT ![n] = @ + 1]
      <4>1. node[n].version < node[Other(n)].version
        BY <3>1, <3>5, VersionsAreNat, TwoNodes DEF SameVersion, Older
      <4>2. /\ learnt' = learnt
            /\ \A k \in Nodes : Knows(k)' = Knows(k) /\ flags'[k].valid = flags[k].valid
        BY <2>2, <3>5, Marked DEF HandleVersion, Knows
      <4> QED
        BY <1>0, <2>0, <3>5, <4>1, <4>2 DEF VersionInv
    <3> QED
      BY <2>2, <3>2, <3>3, <3>4, <3>5 DEF HandleVersion, Refuse
  <2>3. CASE HandleNodeMode(n)
    <3>1. flags[n].valid /\ ticker' = ticker /\ learnt' = learnt
      BY <2>3 DEF HandleNodeMode, MaySpeak
    <3>2. \A k \in Nodes : flags'[k].valid = flags[k].valid /\ (k # n => flags'[k] = flags[k])
      BY <2>0, <2>3 DEF HandleNodeMode, EntryType
    <3> QED
      BY <1>0, <3>1, <3>2 DEF VersionInv, Knows
  <2>4. CASE HandleRequest(n) \/ HandleListRequest(n)
    BY <1>2, <2>4 DEF HandleRequest, HandleListRequest
  <2>5. CASE HandleNotice(n)
    <3>1. flags[n].valid /\ learnt' = learnt
      BY <2>5 DEF HandleNotice, MaySpeak
    <3>2. \A k \in Nodes : flags'[k].valid = flags[k].valid /\ (k # n => flags'[k] = flags[k])
      BY <2>0, <2>5 DEF HandleNotice, EntryType
    <3>3. CASE ticker' = ticker
      BY <1>0, <3>1, <3>2, <3>3 DEF VersionInv, Knows
    <3>4. CASE m.subject = "VERSION_NEWER" /\ ticker' = [ticker EXCEPT ![n] = @ + 1]
      <4>1. node[n].version < node[Other(n)].version
        BY <2>5, <3>4, TakenIsFrom, TwoNodes, Subject DEF HandleNotice, Takes
      <4> QED
        BY <1>0, <2>0, <3>1, <3>2, <3>4, <4>1 DEF VersionInv, Knows
    <3> QED
      BY <2>5, <3>3, <3>4 DEF HandleNotice
  <2>6. CASE HandleList(n)
    <3>1. /\ flags[n].valid /\ ticker' = ticker /\ flags' = flags
          /\ \A k \in Nodes : k # n => learnt'[k] = learnt[k]
      BY <2>6 DEF HandleList, MaySpeak
    <3> QED
      BY <1>0, <3>1 DEF VersionInv, Knows
  <2> QED
    BY <1>6, <2>1, <2>2, <2>3, <2>4, <2>5, <2>6 DEF ProcessMessage
<1> QED
  BY <1>3, <1>4, <1>5, <1>6 DEF Next

IndInv == TypeInv /\ QueueInv /\ VersionInv

\* However the threads and the network interleave, a node says only the truth
\* (ProcessMessage, NetworkManager.cpp:660), and what its peer makes of it agrees.
THEOREM IndInvTheorem == Spec => []IndInv
<1>1. Init => IndInv
  BY InitInd DEF IndInv
<1>2. IndInv /\ [Next]_vars => IndInv'
  BY TypeStep, QueueStep, VersionStep DEF IndInv
<1> QED
  BY <1>1, <1>2, PTL DEF Spec

\* Nodes of different versions never take each other for valid, whoever dials
\* and whatever is lost (VERSION, NetworkManager.cpp:690).
THEOREM ValidMeansSameVersionTheorem == Spec => []ValidMeansSameVersion
<1>1. IndInv => ValidMeansSameVersion
  BY DEF IndInv, VersionInv, ValidMeansSameVersion
<1> QED
  BY <1>1, IndInvTheorem, PTL

\* The ticker that triggers updates only counts what newer peers say of
\* themselves (VERSION_NEWER and VERSION, NetworkManager.cpp:705-712).
THEOREM TickerHonestTheorem == Spec => []TickerHonest
<1>1. IndInv => TickerHonest
  BY DEF IndInv, VersionInv, TickerHonest
<1> QED
  BY <1>1, IndInvTheorem, PTL

-----------------------------------------------------------------------------
(***************************************************************************)
(* Nodes of different networks: NetworksNeverMix for any two nodes and any *)
(* number of rounds of Maintainer.  The argument needs that TESTNET is     *)
(* among the first messages (Near), which is shown further below.          *)
(***************************************************************************)

\* Messages that tell more than version and network.
Tells(m) == m.subject \in {"NODEMODE", "PORT_SEND", "PEER_LIST_GET"}
IsTestNet(m) == m.subject = "TESTNET"

Named(s) == \E i \in 1..Len(s) : IsTestNet(s[i])
\* None of them comes before the network was named.
NamedFirst(s) ==
    \A i \in 1..Len(s) : Tells(s[i]) => \E j \in 1..(i - 1) : IsTestNet(s[j])

\* What a node queues from now on does not arrive.
Cut(m) == broken \/ state[Other(m)] = "gone" \/ state[m] \in {"gone", "dropped"}

\* Of what arrives of node m, nothing tells anything before the network is named.
InOrder(m) ==
    /\ NamedFirst(inbox[Other(m)])
    /\ \/ Named(inbox[Other(m)])
       \/ /\ NamedFirst(wire[m])
          /\ Named(wire[m]) \/ Cut(m) \/ NamedFirst(outbox[m])

Told(m) == Named(inbox[Other(m)]) \/ Named(wire[m]) \/ Cut(m) \/ Named(outbox[m])

\* msghand takes no more of what node n receives.
Deaf(n) == flags[n].destroy /\ (n = Dialer => late # "msghand")

OrderInv(m) == Deaf(Other(m)) \/ (InOrder(m) /\ (flags[m].valid => Told(m)))

DifferentNetworks == node[Dialer].testnet # node[Acceptor].testnet

MixInv == DifferentNetworks => \A n \in Nodes : ~Knows(n) /\ OrderInv(n)

\* TESTNET is among the first three messages that a node has yet to be heard saying, so
\* that a queue of received messages that is full never loses it.
By3(k, s) == \A i \in 1..Len(s) : IsTestNet(s[i]) => k + i <= 3

Near(m) ==
    /\ By3(0, inbox[Other(m)])
    /\ By3(Len(inbox[Other(m)]), wire[m])
    /\ By3(Len(inbox[Other(m)]) + Len(wire[m]), outbox[m])

-----------------------------------------------------------------------------
(* Sequences of messages *)

LEMMA EmptyNamed == NamedFirst(<<>>) /\ ~Named(<<>>)
  BY DEF NamedFirst, Named

\* Appending what tells nothing, or anything once the network is named.
LEMMA ConcatNamed ==
    ASSUME NEW S, NEW s \in Seq(S), NEW t \in Seq(S)
    PROVE  /\ NamedFirst(s) /\ (Named(s) \/ NamedFirst(t)) => NamedFirst(s \o t)
           /\ Named(s \o t) <=> Named(s) \/ Named(t)
<1>1. /\ Len(s \o t) = Len(s) + Len(t) /\ Len(s) \in Nat /\ Len(t) \in Nat
      /\ \A i \in 1..Len(s) : (s \o t)[i] = s[i]
      /\ \A i \in 1..Len(t) : (s \o t)[Len(s) + i] = t[i]
  <2>1. /\ Len(s \o t) = Len(s) + Len(t) /\ Len(s) \in Nat /\ Len(t) \in Nat
        /\ \A i \in 1..(Len(s) + Len(t)) :
              (s \o t)[i] = IF i <= Len(s) THEN s[i] ELSE t[i - Len(s)]
    BY ConcatProperties
  <2>2. ASSUME NEW i \in 1..Len(t)
        PROVE  (s \o t)[Len(s) + i] = t[i]
    <3>1. /\ Len(s) + i \in 1..(Len(s) + Len(t)) /\ ~(Len(s) + i <= Len(s))
          /\ (Len(s) + i) - Len(s) = i
      BY <2>1
    <3> QED
      BY <2>1, <3>1
  <2> QED
    BY <2>1, <2>2
<1>2. \A i \in 1..Len(s \o t) : i \in 1..Len(s) \/ \E k \in 1..Len(t) : i = Len(s) + k
  <2> SUFFICES ASSUME NEW i \in 1..Len(s \o t), i \notin 1..Len(s)
               PROVE  \E k \in 1..Len(t) : i = Len(s) + k
    OBVIOUS
  <2>1. i - Len(s) \in 1..Len(t) /\ i = Len(s) + (i - Len(s))
    BY <1>1
  <2> QED
    BY <2>1
<1>3. \A i \in 1..Len(s) : i \in 1..Len(s \o t)
  BY <1>1
<1>4. \A i \in 1..Len(t) : Len(s) + i \in 1..Len(s \o t)
  BY <1>1
<1>5. Named(s \o t) <=> Named(s) \/ Named(t)
  BY <1>1, <1>2, <1>3, <1>4 DEF Named
<1>6. ASSUME NamedFirst(s), Named(s) \/ NamedFirst(t), NEW i \in 1..Len(s \o t),
             Tells((s \o t)[i])
      PROVE  \E j \in 1..(i - 1) : IsTestNet((s \o t)[j])
  <2>1. CASE i \in 1..Len(s)
    <3>1. PICK j \in 1..(i - 1) : IsTestNet(s[j])
      BY <1>1, <1>6, <2>1 DEF NamedFirst
    <3>2. j \in 1..Len(s)
      BY <1>1, <2>1
    <3> QED
      BY <1>1, <3>1, <3>2
  <2>2. CASE i \notin 1..Len(s)
    <3>1. PICK k \in 1..Len(t) : i = Len(s) + k
      BY <1>2, <2>2
    <3>2. CASE Named(s)
      <4>1. PICK j \in 1..Len(s) : IsTestNet(s[j])
        BY <3>2 DEF Named
      <4>2. j \in 1..(i - 1)
        BY <1>1, <3>1
      <4> QED
        BY <1>1, <4>1, <4>2
    <3>3. CASE NamedFirst(t)
      <4>1. Tells(t[k])
        BY <1>1, <1>6, <3>1
      <4>2. PICK j \in 1..(k - 1) : IsTestNet(t[j])
        BY <3>3, <4>1 DEF NamedFirst
      <4>3. j \in 1..Len(t) /\ Len(s) + j \in 1..(i - 1)
        BY <1>1, <3>1
      <4> QED
        BY <1>1, <4>2, <4>3
    <3> QED
      BY <1>6, <3>2, <3>3
  <2> QED
    BY <2>1, <2>2
<1> QED
  BY <1>5, <1>6 DEF NamedFirst

\* Taking a sequence apart.
LEMMA SplitNamed ==
    ASSUME NEW S, NEW s \in Seq(S), NEW k \in 0..Len(s)
    PROVE  LET a == SubSeq(s, 1, k)
               b == SubSeq(s, k + 1, Len(s))
           IN /\ a \in Seq(S) /\ b \in Seq(S)
              /\ NamedFirst(s) => NamedFirst(a) /\ (Named(a) \/ NamedFirst(b))
              /\ Named(s) => Named(a) \/ Named(b)
<1> DEFINE a == SubSeq(s, 1, k)
           b == SubSeq(s, k + 1, Len(s))
<1>1. /\ a \in Seq(S) /\ Len(a) = k /\ \A i \in 1..k : a[i] = s[i]
      /\ b \in Seq(S) /\ Len(b) = Len(s) - k
      /\ \A i \in 1..(Len(s) - k) : b[i] = s[k + i]
      /\ Len(s) \in Nat /\ k \in Nat
  OBVIOUS
<1> HIDE DEF a, b
<1>2. \A i \in 1..Len(s) : i \in 1..k \/ \E j \in 1..(Len(s) - k) : i = k + j
  <2> SUFFICES ASSUME NEW i \in 1..Len(s), i \notin 1..k
               PROVE  \E j \in 1..(Len(s) - k) : i = k + j
    OBVIOUS
  <2>1. i - k \in 1..(Len(s) - k) /\ i = k + (i - k)
    BY <1>1
  <2> QED
    BY <2>1
<1>3. Named(s) => Named(a) \/ Named(b)
  BY <1>1, <1>2 DEF Named
<1>4. ASSUME NamedFirst(s)
      PROVE  NamedFirst(a)
  <2> SUFFICES ASSUME NEW i \in 1..k, Tells(a[i])
               PROVE  \E j \in 1..(i - 1) : IsTestNet(a[j])
    BY <1>1 DEF NamedFirst
  <2>1. i \in 1..Len(s) /\ Tells(s[i])
    BY <1>1
  <2>2. PICK j \in 1..(i - 1) : IsTestNet(s[j])
    BY <1>4, <2>1 DEF NamedFirst
  <2>3. j \in 1..k
    BY <1>1
  <2> QED
    BY <1>1, <2>2, <2>3
<1>5. ASSUME NamedFirst(s), ~Named(a)
      PROVE  NamedFirst(b)
  <2> SUFFICES ASSUME NEW i \in 1..(Len(s) - k), Tells(b[i])
               PROVE  \E j \in 1..(i - 1) : IsTestNet(b[j])
    BY <1>1 DEF NamedFirst
  <2>1. k + i \in 1..Len(s) /\ Tells(s[k + i])
    BY <1>1
  <2>2. PICK j \in 1..(k + i - 1) : IsTestNet(s[j])
    BY <1>5, <2>1 DEF NamedFirst
  <2>3. j \notin 1..k
    BY <1>1, <1>5, <2>2 DEF Named
  <2>4. j - k \in 1..(i - 1) /\ j - k \in 1..(Len(s) - k) /\ k + (j - k) = j
    BY <1>1, <2>3
  <2>5. b[j - k] = s[j]
    BY <1>1, <2>4
  <2> QED
    BY <2>2, <2>4, <2>5
<1> QED
  BY <1>1, <1>3, <1>4, <1>5 DEF a, b

\* Taking the first message.
LEMMA HeadNamed ==
    ASSUME NEW S, NEW s \in Seq(S), s # <<>>
    PROVE  /\ NamedFirst(s) => ~Tells(Head(s))
           /\ NamedFirst(s) /\ ~IsTestNet(Head(s)) => NamedFirst(Tail(s))
           /\ Named(s) /\ ~IsTestNet(Head(s)) => Named(Tail(s))
<1>1. /\ Len(s) \in Nat /\ Len(s) >= 1 /\ Head(s) = s[1] /\ Len(Tail(s)) = Len(s) - 1
      /\ \A i \in 1..(Len(s) - 1) : Tail(s)[i] = s[i + 1]
  OBVIOUS
<1>2. NamedFirst(s) => ~Tells(Head(s))
  BY <1>1 DEF NamedFirst
<1>3. ASSUME Named(s), ~IsTestNet(Head(s))
      PROVE  Named(Tail(s))
  <2>1. PICK i \in 1..Len(s) : IsTestNet(s[i])
    BY <1>3 DEF Named
  <2>2. i - 1 \in 1..(Len(s) - 1) /\ (i - 1) + 1 = i
    BY <1>1, <1>3, <2>1
  <2> QED
    BY <1>1, <2>1, <2>2 DEF Named
<1>4. ASSUME NamedFirst(s), ~IsTestNet(Head(s)), NEW i \in 1..Len(Tail(s)), Tells(Tail(s)[i])
      PROVE  \E j \in 1..(i - 1) : IsTestNet(Tail(s)[j])
  <2>1. i + 1 \in 1..Len(s) /\ Tells(s[i + 1])
    BY <1>1, <1>4
  <2>2. PICK j \in 1..(i + 1 - 1) : IsTestNet(s[j])
    BY <1>4, <2>1 DEF NamedFirst
  <2>3. j # 1
    BY <1>1, <1>4, <2>2
  <2>4. j - 1 \in 1..(i - 1) /\ j - 1 \in 1..(Len(s) - 1) /\ (j - 1) + 1 = j
    BY <1>1, <2>3
  <2> QED
    BY <1>1, <2>2, <2>4
<1> QED
  BY <1>2, <1>3, <1>4 DEF NamedFirst

-----------------------------------------------------------------------------
(* What one node says, on its way to the other *)

LEMMA CutStays ==
    ASSUME TypeInv, NEW m \in Nodes, Cut(m), [Next]_vars
    PROVE  Cut(m)'
<1>1. \A k \in Nodes : state[k] \in {"gone", "dropped"} => state'[k] = state[k]
  BY DEF Next, vars, Connect, Accept, Break, MaintainPing, MaintainRequest, PassEnds, Send,
     Recv, Erase, ProcessMessage, RefuseEarly, HandleVersion, HandleTestNet, HandleNodeMode,
     HandleRequest, HandleNotice, HandleListRequest, HandleList, TypeInv
<1>2. broken => broken'
  BY DEF Next, vars, Connect, Accept, Break, MaintainPing, MaintainRequest, PassEnds, Send,
     Recv, Erase, ProcessMessage, RefuseEarly, HandleVersion, HandleTestNet, HandleNodeMode,
     HandleRequest, HandleNotice, HandleListRequest, HandleList
<1> QED
  BY <1>1, <1>2, TwoNodes DEF Cut

\* A node that is refused is not heard again.
LEMMA RefuseDeafens ==
    ASSUME TypeInv, NEW n \in Nodes, Refuse(n)
    PROVE  Deaf(n)'
  BY Marked DEF Refuse, Deaf

LEMMA DeafStays ==
    ASSUME TypeInv, NEW n \in Nodes, Deaf(n), [Next]_vars
    PROVE  Deaf(n)'
<1> USE DEF mntVars
<1>0. flags \in [Nodes -> EntryType] /\ Dialer \in Nodes
  BY DEF TypeInv, Nodes
<1>1. late' = late \/ late' = "none" \/ ~flags[Dialer].destroy
  BY DEF Next, vars, Connect, Accept, Break, MaintainPing, MaintainRequest, PassEnds, Send,
     Recv, Erase, ProcessMessage, RefuseEarly, HandleVersion, HandleTestNet, HandleNodeMode,
     HandleRequest, HandleNotice, HandleListRequest, HandleList, Refuse
<1>2. flags'[n].destroy
  <2>1. CASE flags' = flags
    BY <2>1 DEF Deaf
  <2>2. CASE \E k \in Nodes : MarkDestroy(k)
    BY <2>2, Marked DEF Deaf
  <2>3. CASE MaintainPing
    <3>1. flags' = flags
      \/ flags' = [flags EXCEPT ![Dialer].pong = FALSE] \/ MarkDestroy(Dialer)
      BY <2>3 DEF MaintainPing
    <3>2. CASE flags' = [flags EXCEPT ![Dialer].pong = FALSE]
      BY <1>0, <3>2 DEF Deaf, EntryType
    <3> QED
      BY <1>0, <2>1, <2>2, <3>1, <3>2
  <2>4. ASSUME NEW k \in Nodes, ProcessMessage(k)
        PROVE  flags'[n].destroy
    <3>1. CASE RefuseEarly(k) \/ HandleTestNet(k) \/ HandleRequest(k) \/ HandleListRequest(k)
               \/ HandleList(k)
      BY <2>1, <2>2, <3>1 DEF RefuseEarly, HandleTestNet, HandleRequest, HandleListRequest,
         HandleList, Refuse
    <3>2. CASE HandleVersion(k)
      <4>1. CASE flags' = [flags EXCEPT ![k].valid = TRUE]
        BY <1>0, <4>1 DEF Deaf, EntryType
      <4> QED
        BY <2>1, <2>2, <3>2, <4>1 DEF HandleVersion, Refuse
    <3>3. CASE HandleNodeMode(k) \/ HandleNotice(k)
      BY <1>0, <3>3 DEF HandleNodeMode, HandleNotice, Deaf, EntryType
    <3> QED
      BY <2>4, <3>1, <3>2, <3>3 DEF ProcessMessage
  <2>5. CASE \E k \in Nodes : Send(k) \/ Recv(k) \/ Erase(k)
    BY <2>1, <2>2, <2>5 DEF Send, Recv, Erase
  <2>6. CASE Connect \/ Accept \/ Break \/ MaintainRequest \/ PassEnds \/ UNCHANGED vars
    BY <2>1, <2>6 DEF Connect, Accept, Break, MaintainRequest, PassEnds, vars
  <2> QED
    BY <2>3, <2>4, <2>5, <2>6 DEF Next
<1> QED
  BY <1>1, <1>2 DEF Deaf

\* Nothing of it moves.
LEMMA OrderSame ==
    ASSUME TypeInv, NEW m \in Nodes, OrderInv(m), [Next]_vars,
           inbox'[Other(m)] = inbox[Other(m)], wire'[m] = wire[m], outbox'[m] = outbox[m],
           flags'[m].valid => flags[m].valid
    PROVE  OrderInv(m)'
<1>1. Deaf(Other(m)) => Deaf(Other(m))'
  BY DeafStays, TwoNodes
<1>2. Cut(m) => Cut(m)'
  BY CutStays
<1> QED
  BY <1>1, <1>2 DEF OrderInv, InOrder, Told

\* More is said.
LEMMA OrderQueued ==
    ASSUME TypeInv, QueueInv, NEW m \in Nodes, OrderInv(m), [Next]_vars,
           NEW msgs \in Seq(From(m)),
           inbox'[Other(m)] = inbox[Other(m)], wire'[m] = wire[m],
           outbox'[m] = outbox[m] \o msgs,
           NamedFirst(msgs) \/ flags[m].valid,
           flags'[m].valid => flags[m].valid \/ Named(msgs)
    PROVE  OrderInv(m)'
<1>1. Deaf(Other(m)) => Deaf(Other(m))'
  BY DeafStays, TwoNodes
<1>2. Cut(m) => Cut(m)'
  BY CutStays
<1>3. outbox[m] \in Seq(From(m))
  BY DEF QueueInv
<1>4. /\ NamedFirst(outbox[m]) /\ (Named(outbox[m]) \/ NamedFirst(msgs))
            => NamedFirst(outbox'[m])
      /\ Named(outbox'[m]) <=> Named(outbox[m]) \/ Named(msgs)
  BY <1>3, ConcatNamed
<1> QED
  BY <1>1, <1>2, <1>4 DEF OrderInv, InOrder, Told

\* The other node takes a message.
LEMMA OrderTaken ==
    ASSUME TypeInv, QueueInv, NEW m \in Nodes, OrderInv(m), [Next]_vars,
           inbox[Other(m)] # <<>>, inbox'[Other(m)] = Tail(inbox[Other(m)]),
           wire'[m] = wire[m], outbox'[m] = outbox[m],
           flags'[m].valid => flags[m].valid,
           IsTestNet(Head(inbox[Other(m)])) => Deaf(Other(m))'
    PROVE  OrderInv(m)'
<1>1. Deaf(Other(m)) => Deaf(Other(m))'
  BY DeafStays, TwoNodes
<1>2. Cut(m) => Cut(m)'
  BY CutStays
<1>3. inbox[Other(m)] \in Seq(From(m))
  BY DEF QueueInv
<1>4. ~IsTestNet(Head(inbox[Other(m)])) =>
        /\ NamedFirst(inbox[Other(m)]) => NamedFirst(inbox'[Other(m)])
        /\ Named(inbox[Other(m)]) => Named(inbox'[Other(m)])
  BY <1>3, HeadNamed
<1> QED
  BY <1>1, <1>2, <1>4 DEF OrderInv, InOrder, Told

\* What nodes say before and in their greetings.
LEMMA Greetings ==
    ASSUME NEW n \in Nodes
    PROVE  /\ NamedFirst(Hello(n)) /\ NamedFirst(Greeting(n)) /\ Named(Greeting(n))
           /\ NamedFirst(<<Newer>>) /\ NamedFirst(<<Ping>>) /\ NamedFirst(<<PeerListSend>>)
<1>1. /\ Len(Greeting(n)) = 3 /\ Greeting(n)[1] = Version(n)
      /\ Greeting(n)[2] = TestNet(n) /\ Greeting(n)[3] = NodeMode(n)
  BY DEF Greeting
<1>2. /\ ~Tells(Version(n)) /\ ~Tells(TestNet(n)) /\ IsTestNet(TestNet(n))
      /\ ~Tells(Newer) /\ ~Tells(Ping) /\ ~Tells(PeerListSend)
  BY DEF Tells, IsTestNet, Version, TestNet, Newer, Ping, PeerListSend
<1>3. Named(Greeting(n))
  BY <1>1, <1>2 DEF Named
<1>4. NamedFirst(Greeting(n))
  <2> SUFFICES ASSUME NEW i \in 1..3, Tells(Greeting(n)[i])
               PROVE  \E j \in 1..(i - 1) : IsTestNet(Greeting(n)[j])
    BY <1>1 DEF NamedFirst
  <2>1. i = 3
    BY <1>1, <1>2
  <2> QED
    BY <1>1, <1>2, <2>1
<1>5. \A x : ~Tells(x) => NamedFirst(<<x>>)
  BY DEF NamedFirst
<1> QED
  BY <1>2, <1>3, <1>4, <1>5 DEF Hello

LEMMA ProcessMix ==
    ASSUME TypeInv, QueueInv, MixInv, DifferentNetworks, NEW n \in Nodes,
           ProcessMessage(n), [Next]_vars
    PROVE  \A k \in Nodes : ~Knows(k)' /\ OrderInv(k)'
<1> DEFINE m == Other(n)
           h == Head(inbox[n])
<1>0. /\ m \in Nodes /\ m # n /\ Other(m) = n /\ Nodes = {n, m}
      /\ flags \in [Nodes -> EntryType] /\ learnt \in [Nodes -> SUBSET Modes]
      /\ DOMAIN outbox = Nodes /\ DOMAIN inbox = Nodes
      /\ ~Knows(n) /\ ~Knows(m) /\ OrderInv(n) /\ OrderInv(m)
  BY TwoNodes DEF TypeInv, QueueInv, MixInv
<1>1. /\ Serves("msghand", n) /\ inbox[n] # <<>>
      /\ inbox' = [inbox EXCEPT ![n] = Tail(@)] /\ wire' = wire
  BY DEF ProcessMessage, RefuseEarly, HandleVersion, HandleTestNet, HandleNodeMode,
         HandleRequest, HandleNotice, HandleListRequest, HandleList, Takes
<1>2. ~Tells(h)
  <2>1. ~Deaf(n)
    BY <1>1 DEF Serves, Deaf
  <2>2. NamedFirst(inbox[n]) /\ inbox[n] \in Seq(From(m))
    BY <1>0, <2>1 DEF OrderInv, InOrder, QueueInv
  <2> QED
    BY <1>1, <2>2, HeadNamed
<1>3. inbox'[m] = inbox[m] /\ inbox'[n] = Tail(inbox[n])
  BY <1>0, <1>1
<1> HIDE DEF m
\* What the other node says loses its first message, ...
<1>4. ASSUME outbox'[m] = outbox[m], flags'[m].valid = flags[m].valid,
             IsTestNet(h) => Deaf(n)'
      PROVE  OrderInv(m)'
  BY <1>0, <1>1, <1>3, <1>4, OrderTaken
\* ... and what this one says stays or gets longer.
<1>5. ASSUME outbox'[n] = outbox[n], flags'[n].valid => flags[n].valid
      PROVE  OrderInv(n)'
  BY <1>0, <1>1, <1>3, <1>5, OrderSame DEF m
<1>6. ASSUME NEW msgs \in Seq(From(n)), Queue(n, msgs), NamedFirst(msgs) \/ flags[n].valid,
             flags'[n].valid => flags[n].valid \/ Named(msgs)
      PROVE  OrderInv(n)'
  <2>1. outbox'[n] = outbox[n] \o msgs
    BY <1>0, <1>6 DEF Queue
  <2> QED
    BY <1>0, <1>1, <1>3, <1>6, <2>1, OrderQueued DEF m
<1>7. \A msgs : Queue(n, msgs) => outbox'[m] = outbox[m]
  BY <1>0 DEF Queue
<1>8. ASSUME Refuse(n)
      PROVE  /\ Deaf(n)' /\ flags'[m].valid = flags[m].valid /\ flags'[n].valid = flags[n].valid
             /\ learnt' = learnt => ~Knows(n)' /\ ~Knows(m)'
  BY <1>0, <1>8, RefuseDeafens, Marked DEF Refuse, Knows
<1>9. CASE RefuseEarly(n) \/ (HandleTestNet(n) /\ Refuse(n))
  <2>1. Refuse(n) /\ outbox' = outbox /\ learnt' = learnt
    BY <1>9 DEF RefuseEarly, HandleTestNet
  <2> QED
    BY <1>0, <1>4, <1>5, <1>8, <2>1
<1>10. CASE HandleTestNet(n) /\ ~Refuse(n)
  <2>1. h.testnet = node[n].testnet /\ h.subject = "TESTNET"
    BY <1>10 DEF HandleTestNet, SameNetwork, Takes
  <2>2. h.testnet = node[m].testnet
    BY <1>0, <1>1, <2>1, TakenIsFrom, Subject DEF m
  <2> QED
    BY <1>0, <2>1, <2>2 DEF DifferentNetworks, Nodes
<1>11. CASE HandleVersion(n)
  <2>1. ~IsTestNet(h) /\ learnt' = learnt
    BY <1>11 DEF HandleVersion, Takes, IsTestNet
  <2>2. CASE UNCHANGED <<flags, outbox>>
    BY <1>0, <1>4, <1>5, <2>1, <2>2 DEF Knows
  <2>3. CASE flags' = [flags EXCEPT ![n].valid = TRUE] /\ Queue(n, Greeting(n))
    <3>1. flags'[m] = flags[m] /\ flags'[n].mode = flags[n].mode /\ flags'[n].port = flags[n].port
      BY <1>0, <2>3 DEF EntryType
    <3>2. ~Knows(n)' /\ ~Knows(m)'
      BY <1>0, <2>1, <3>1 DEF Knows
    <3> QED
      BY <1>0, <1>4, <1>6, <1>7, <2>1, <2>3, <3>1, <3>2, Greetings, MayBeSaid
  <2>4. CASE Refuse(n) /\ Queue(n, <<Newer>>) /\ Older(n, h.version)
    <3>1. node[m].version < node[n].version
      <4>1. h.subject = "VERSION"
        BY <1>11 DEF HandleVersion, Takes
      <4> QED
        BY <1>0, <1>1, <2>4, <4>1, TakenIsFrom, Subject DEF m, Older
    <3>2. <<Newer>> \in Seq(From(n))
      BY <3>1, MayBeSaid DEF m
    <3> QED
      BY <1>0, <1>4, <1>6, <1>7, <1>8, <2>1, <2>4, <3>2, Greetings
  <2>5. CASE Refuse(n) /\ outbox' = outbox
    BY <1>0, <1>4, <1>5, <1>8, <2>1, <2>5
  <2> QED
    BY <1>11, <2>2, <2>3, <2>4, <2>5 DEF HandleVersion
<1>12. CASE HandleNodeMode(n) \/ HandleList(n)
  BY <1>2, <1>12 DEF HandleNodeMode, HandleList, Takes, Tells
<1>13. CASE HandleRequest(n) \/ HandleListRequest(n)
  <2>1. ~IsTestNet(h) /\ learnt' = learnt /\ flags' = flags /\ flags[n].valid
    BY <1>13 DEF HandleRequest, HandleListRequest, Takes, IsTestNet, MaySpeak
  <2>2. outbox' = outbox \/ \E msgs \in Seq(From(n)) : Queue(n, msgs)
    <3>1. CASE HandleRequest(n)
      BY <3>1, MayBeSaid DEF HandleRequest
    <3>2. CASE HandleListRequest(n)
      <4>1. PICK others \in OtherPeers :
              IF others = {} THEN UNCHANGED outbox
              ELSE Queue(n, <<PeerListGet(IF flags[n].mode = "fn" THEN others ELSE {})>>)
        BY <3>2 DEF HandleListRequest
      <4>2. others \in SUBSET Modes /\ {} \in SUBSET Modes
        BY LimitsAssumption
      <4> QED
        BY <4>1, <4>2, MayBeSaid
    <3> QED
      BY <1>13, <3>1, <3>2
  <2>3. ~Knows(n)' /\ ~Knows(m)'
    BY <1>0, <2>1 DEF Knows
  <2> QED
    BY <1>0, <1>4, <1>5, <1>6, <1>7, <2>1, <2>2, <2>3
<1>14. CASE HandleNotice(n)
  <2>1. /\ ~IsTestNet(h) /\ h.subject # "PORT_SEND" /\ learnt' = learnt /\ outbox' = outbox
        /\ flags' = [flags EXCEPT ![n].port = @ \/ h.subject = "PORT_SEND",
                                  ![n].pong = @ \/ h.subject = "PONG"]
    BY <1>2, <1>14 DEF HandleNotice, Takes, IsTestNet, Tells
  <2>2. /\ flags'[m] = flags[m] /\ flags'[n].mode = flags[n].mode
        /\ flags'[n].valid = flags[n].valid /\ (flags'[n].port <=> flags[n].port)
    BY <1>0, <2>1 DEF EntryType
  <2>3. ~Knows(n)' /\ ~Knows(m)'
    BY <1>0, <2>1, <2>2 DEF Knows
  <2> QED
    BY <1>0, <1>4, <1>5, <2>1, <2>2, <2>3
<1> QED
  BY <1>9, <1>10, <1>11, <1>12, <1>13, <1>14 DEF ProcessMessage

LEMMA KnowsSame ==
    ASSUME TypeInv, NEW n \in Nodes, flags' = flags \/ MarkDestroy(n), learnt' = learnt
    PROVE  \A k \in Nodes : Knows(k)' = Knows(k) /\ flags'[k].valid = flags[k].valid
  BY Marked DEF Knows

LEMMA SendMix ==
    ASSUME TypeInv, QueueInv, MixInv, DifferentNetworks, NEW n \in Nodes, Send(n),
           [Next]_vars
    PROVE  \A k \in Nodes : ~Knows(k)' /\ OrderInv(k)'
<1> DEFINE m == Other(n)
<1>0. /\ m \in Nodes /\ m # n /\ Other(m) = n /\ Nodes = {n, m}
      /\ DOMAIN outbox = Nodes /\ DOMAIN wire = Nodes
      /\ ~Knows(n) /\ ~Knows(m) /\ OrderInv(n) /\ OrderInv(m)
      /\ outbox[n] \in Seq(From(n)) /\ wire[n] \in Seq(From(n)) /\ outbox[n] # <<>>
  BY TwoNodes DEF QueueInv, MixInv, Send
<1>1. inbox' = inbox /\ learnt' = learnt /\ (flags' = flags \/ MarkDestroy(n))
  BY DEF Send
<1>2. \A k \in Nodes : ~Knows(k)' /\ flags'[k].valid = flags[k].valid
  BY <1>0, <1>1, KnowsSame
<1>3. \/ UNCHANGED <<wire, outbox>>
      \/ HungUp(n) /\ wire' = wire /\ outbox' = [outbox EXCEPT ![n] = Tail(@)]
      \/ /\ wire' = [wire EXCEPT ![n] = Append(@, Head(outbox[n]))]
         /\ outbox' = [outbox EXCEPT ![n] = Tail(@)]
  BY DEF Send
<1>4. wire'[m] = wire[m] /\ outbox'[m] = outbox[m]
  BY <1>0, <1>3
<1>5. OrderInv(m)'
  BY <1>0, <1>1, <1>2, <1>4, OrderSame
<1>6. Deaf(m) => Deaf(m)'
  BY <1>0, DeafStays
<1>7. Cut(n) => Cut(n)'
  BY CutStays
<1>8. OrderInv(n)'
  <2>1. CASE UNCHANGED <<wire, outbox>>
    BY <1>0, <1>1, <1>2, <2>1, OrderSame
  <2>2. CASE HungUp(n) /\ wire' = wire
    <3>1. Cut(n)
      BY <2>2 DEF HungUp, Cut
    <3> QED
      BY <1>1, <1>0, <1>6, <1>7, <2>2, <3>1 DEF OrderInv, InOrder, Told
  <2>3. CASE /\ wire' = [wire EXCEPT ![n] = Append(@, Head(outbox[n]))]
             /\ outbox' = [outbox EXCEPT ![n] = Tail(@)]
    <3> DEFINE h == Head(outbox[n])
    <3>1. /\ wire'[n] = wire[n] \o <<h>> /\ outbox'[n] = Tail(outbox[n])
          /\ h \in From(n) /\ <<h>> \in Seq(From(n))
      BY <1>0, <2>3
    <3> HIDE DEF h
    <3>2. /\ Named(<<h>>) <=> IsTestNet(h)
          /\ NamedFirst(<<h>>) <=> ~Tells(h)
      BY DEF Named, NamedFirst
    <3>3. /\ NamedFirst(wire[n]) /\ (Named(wire[n]) \/ NamedFirst(<<h>>))
                => NamedFirst(wire'[n])
          /\ Named(wire'[n]) <=> Named(wire[n]) \/ Named(<<h>>)
      <4>1. /\ NamedFirst(wire[n]) /\ (Named(wire[n]) \/ NamedFirst(<<h>>))
                  => NamedFirst(wire[n] \o <<h>>)
            /\ Named(wire[n] \o <<h>>) <=> Named(wire[n]) \/ Named(<<h>>)
        BY <1>0, <3>1, ConcatNamed, Zenon
      <4> QED
        BY <3>1, <4>1, Zenon
    <3>4. /\ NamedFirst(outbox[n]) => ~Tells(h)
          /\ NamedFirst(outbox[n]) /\ ~IsTestNet(h) => NamedFirst(outbox'[n])
          /\ Named(outbox[n]) /\ ~IsTestNet(h) => Named(outbox'[n])
      BY <1>0, <3>1, HeadNamed DEF h
    <3>5. CASE Deaf(m) \/ Named(inbox[m]) \/ Named(wire[n]) \/ ~Cut(n)
      BY <1>0, <1>1, <1>2, <1>6, <1>7, <3>2, <3>3, <3>4, <3>5 DEF OrderInv, InOrder, Told
    <3>6. CASE Cut(n) /\ ~HungUp(n)
      BY <3>6 DEF Cut, HungUp, Send, Served, Serves
    <3>7. CASE HungUp(n)
      <4>1. wire' = wire
        BY <3>7, <2>3, <1>0 DEF Send
      <4> QED
        BY <2>2, <3>7, <4>1
    <3> QED
      BY <3>5, <3>6, <3>7
  <2> QED
    BY <1>3, <2>1, <2>2, <2>3
<1> QED
  BY <1>0, <1>2, <1>5, <1>8

LEMMA RecvMix ==
    ASSUME TypeInv, QueueInv, MixInv, DifferentNetworks, MaxMsgQueue >= 3,
           NEW n \in Nodes, Near(Other(n)), Recv(n), [Next]_vars
    PROVE  \A k \in Nodes : ~Knows(k)' /\ OrderInv(k)'
<1> DEFINE m == Other(n)
<1>0. /\ m \in Nodes /\ m # n /\ Other(m) = n /\ Nodes = {n, m}
      /\ DOMAIN inbox = Nodes /\ DOMAIN wire = Nodes
      /\ ~Knows(n) /\ ~Knows(m) /\ OrderInv(n) /\ OrderInv(m)
      /\ inbox[n] \in Seq(From(m)) /\ wire[m] \in Seq(From(m))
      /\ By3(Len(inbox[n]), wire[m])
  BY TwoNodes DEF QueueInv, MixInv, Near
<1>1. outbox' = outbox /\ learnt' = learnt /\ (flags' = flags \/ MarkDestroy(n))
  BY DEF Recv
<1>2. \A k \in Nodes : ~Knows(k)' /\ flags'[k].valid = flags[k].valid
  BY <1>0, <1>1, KnowsSame
<1> HIDE DEF m
<1>3. CASE UNCHANGED <<wire, inbox>>
  BY <1>0, <1>1, <1>2, <1>3, OrderSame DEF m
<1>4. ASSUME NEW k \in 1..Len(wire[m]),
             wire' = [wire EXCEPT ![m] = SubSeq(@, k + 1, Len(@))],
             inbox' = [inbox EXCEPT ![n] = @ \o SubSeq(wire[m], 1,
                IF k < MaxMsgQueue - Len(inbox[n]) THEN k ELSE MaxMsgQueue - Len(inbox[n]))]
      PROVE  OrderInv(n)' /\ OrderInv(m)'
  <2> DEFINE room == MaxMsgQueue - Len(inbox[n])
             t == IF k < room THEN k ELSE room
             c == SubSeq(wire[m], 1, k)
             a == SubSeq(wire[m], 1, t)
             b == SubSeq(wire[m], k + 1, Len(wire[m]))
  <2>0. room \in Nat /\ Len(inbox[n]) \in Nat /\ Len(wire[m]) \in Nat
    BY <1>0, LimitsAssumption DEF Recv, Served
  <2>1. t \in 0..k /\ k \in 0..Len(wire[m])
    BY <2>0
  <2>2. /\ inbox'[n] = inbox[n] \o a /\ inbox'[m] = inbox[m]
        /\ wire'[m] = b /\ wire'[n] = wire[n]
    BY <1>0, <1>4
  <2>3. /\ a \in Seq(From(m)) /\ b \in Seq(From(m))
        /\ NamedFirst(wire[m]) => NamedFirst(a) /\ (Named(a) \/ NamedFirst(b))
        /\ Named(wire[m]) => Named(a) \/ Named(b)
    <3>1. /\ c \in Seq(From(m)) /\ b \in Seq(From(m))
          /\ NamedFirst(wire[m]) => NamedFirst(c) /\ (Named(c) \/ NamedFirst(b))
          /\ Named(wire[m]) => Named(c) \/ Named(b)
      BY <1>0, <2>1, SplitNamed
    <3>2. Len(c) = k /\ a = SubSeq(c, 1, t) /\ \A i \in 1..k : c[i] = wire[m][i]
      BY <1>0, <2>1
    <3>3. a \in Seq(From(m)) /\ (NamedFirst(c) => NamedFirst(a))
      BY <2>1, <3>1, <3>2, SplitNamed
    \* What does not fit comes after TESTNET.
    <3>4. ASSUME Named(c)
          PROVE  Named(a)
      <4>1. PICK i \in 1..k : IsTestNet(wire[m][i])
        BY <3>2, <3>4 DEF Named
      <4>2. Len(inbox[n]) + i <= 3
        BY <1>0, <2>0, <4>1 DEF By3
      <4>3. i \in 1..t
        BY <2>0, <4>2, LimitsAssumption
      <4>4. Len(a) = t /\ a[i] = wire[m][i]
        BY <1>0, <2>1, <4>3
      <4> QED
        BY <4>1, <4>3, <4>4 DEF Named
    <3> QED
      BY <3>1, <3>3, <3>4
  <2> HIDE DEF a, b, c, t, room
  <2>4. /\ NamedFirst(inbox[n]) /\ (Named(inbox[n]) \/ NamedFirst(a)) => NamedFirst(inbox'[n])
        /\ Named(inbox'[n]) <=> Named(inbox[n]) \/ Named(a)
    BY <1>0, <2>2, <2>3, ConcatNamed
  <2>5. OrderInv(n)'
    BY <1>0, <1>1, <1>2, <2>2, OrderSame DEF m
  <2>6. (Deaf(n) => Deaf(n)') /\ (Cut(m) => Cut(m)')
    BY <1>0, DeafStays, CutStays
  <2>7. OrderInv(m)'
    BY <1>0, <1>1, <1>2, <2>2, <2>3, <2>4, <2>6 DEF OrderInv, InOrder, Told
  <2> QED
    BY <2>5, <2>7
<1>5. OrderInv(n)' /\ OrderInv(m)'
  BY <1>0, <1>3, <1>4 DEF Recv, m
<1> QED
  BY <1>0, <1>2, <1>3, <1>5

LEMMA EraseMix ==
    ASSUME TypeInv, QueueInv, MixInv, DifferentNetworks, NEW n \in Nodes, Erase(n),
           [Next]_vars
    PROVE  \A k \in Nodes : ~Knows(k)' /\ OrderInv(k)'
<1> DEFINE m == Other(n)
<1>0. /\ m \in Nodes /\ m # n /\ Other(m) = n /\ Nodes = {n, m}
      /\ DOMAIN inbox = Nodes /\ DOMAIN wire = Nodes
      /\ ~Knows(n) /\ ~Knows(m) /\ OrderInv(n) /\ OrderInv(m)
  BY TwoNodes DEF QueueInv, MixInv
<1>1. flags' = flags /\ learnt' = learnt /\ inbox' = [inbox EXCEPT ![n] = <<>>]
  BY DEF Erase
<1>2. \A k \in Nodes : ~Knows(k)' /\ flags'[k].valid = flags[k].valid
  BY <1>0, <1>1, KnowsSame
\* The node that erased its entry hears nothing, ...
<1>3. OrderInv(m)'
  <2>1. Deaf(n)
    BY DEF Erase, Deaf
  <2>2. Deaf(n)'
    BY <2>1, DeafStays
  <2> QED
    BY <1>0, <2>2 DEF OrderInv
\* ... and what it has not sent does not arrive.
<1>4. OrderInv(n)'
  <2>1. Cut(n)'
    BY DEF Erase, Cut, TypeInv
  <2>2. wire'[n] = wire[n] \/ wire'[n] = <<>>
    BY <1>0 DEF Erase
  <2>3. inbox'[m] = inbox[m]
    BY <1>0, <1>1
  <2>4. Deaf(m) => Deaf(m)'
    BY <1>0, DeafStays
  <2>5. InOrder(n) => InOrder(n)'
    BY <2>1, <2>2, <2>3, EmptyNamed DEF InOrder
  <2> QED
    BY <1>0, <2>1, <2>4, <2>5 DEF OrderInv, Told
<1> QED
  BY <1>0, <1>2, <1>3, <1>4

\* Steps that are no thread's reading or writing of the socket.
LEMMA OtherMix ==
    ASSUME TypeInv, QueueInv, MixInv, DifferentNetworks, [Next]_vars,
           Connect \/ Accept \/ Break \/ MaintainPing \/ MaintainRequest \/ PassEnds
             \/ UNCHANGED vars
    PROVE  \A k \in Nodes : ~Knows(k)' /\ OrderInv(k)'
<1>0. /\ Dialer \in Nodes /\ Acceptor \in Nodes /\ Dialer # Acceptor
      /\ \A k \in Nodes : k = Dialer \/ k = Acceptor
      /\ DOMAIN outbox = Nodes /\ flags \in [Nodes -> EntryType]
      /\ \A k \in Nodes : ~Knows(k) /\ OrderInv(k)
  BY NodesAssumption DEF Nodes, QueueInv, MixInv, TypeInv
<1>1. /\ learnt' = learnt /\ inbox' = inbox
      /\ \/ flags' = flags \/ MarkDestroy(Dialer)
         \/ flags' = [flags EXCEPT ![Dialer].pong = FALSE]
  BY DEF Connect, Accept, Break, MaintainPing, MaintainRequest, PassEnds, vars
<1>2. \A k \in Nodes : ~Knows(k)' /\ flags'[k].valid = flags[k].valid
  <2>1. CASE flags' = flags \/ MarkDestroy(Dialer)
    BY <1>0, <1>1, <2>1, KnowsSame
  <2>2. CASE flags' = [flags EXCEPT ![Dialer].pong = FALSE]
    <3>1. \A k \in Nodes : /\ flags'[k].valid = flags[k].valid
                           /\ flags'[k].mode = flags[k].mode /\ flags'[k].port = flags[k].port
      BY <1>0, <2>2 DEF EntryType
    <3> QED
      BY <1>0, <1>1, <3>1 DEF Knows
  <2> QED
    BY <1>1, <2>1, <2>2
<1>3. CASE UNCHANGED <<wire, outbox>>
  BY <1>0, <1>1, <1>2, <1>3, OrderSame
<1>4. ASSUME wire' = wire, NEW n \in Nodes, NEW msgs \in Seq(From(n)), Queue(n, msgs),
             NamedFirst(msgs)
      PROVE  \A k \in Nodes : OrderInv(k)'
  <2>1. /\ outbox'[n] = outbox[n] \o msgs
        /\ \A k \in Nodes : k # n => outbox'[k] = outbox[k]
    BY <1>0, <1>4 DEF Queue
  <2>2. OrderInv(n)'
    BY <1>0, <1>1, <1>2, <1>4, <2>1, OrderQueued
  <2>3. ASSUME NEW k \in Nodes, k # n
        PROVE  OrderInv(k)'
    BY <1>0, <1>1, <1>2, <1>4, <2>1, <2>3, OrderSame
  <2> QED
    BY <2>2, <2>3
<1>5. CASE Connect \/ PassEnds \/ UNCHANGED vars
  BY <1>2, <1>3, <1>5 DEF Connect, PassEnds, vars
<1>6. CASE Accept
  BY <1>0, <1>2, <1>4, <1>6, Greetings, MayBeSaid DEF Accept
<1>7. CASE MaintainPing
  BY <1>0, <1>2, <1>3, <1>4, <1>7, Greetings, MayBeSaid DEF MaintainPing
<1>8. CASE MaintainRequest
  BY <1>0, <1>2, <1>3, <1>4, <1>8, Greetings, MayBeSaid DEF MaintainRequest
<1>9. CASE Break
  <2> SUFFICES ASSUME NEW k \in Nodes
               PROVE  OrderInv(k)'
    BY <1>2
  <2>1. Cut(k)' /\ outbox' = outbox
    BY <1>9 DEF Break, Cut
  <2>2. wire'[k] = wire[k] \/ wire'[k] = <<>>
    BY <1>9 DEF Break
  <2>3. Deaf(Other(k)) => Deaf(Other(k))'
    BY TwoNodes, DeafStays
  <2>4. InOrder(k) => InOrder(k)'
    BY <1>1, <2>1, <2>2, EmptyNamed DEF InOrder
  <2> QED
    BY <1>0, <2>1, <2>3, <2>4 DEF OrderInv, Told
<1> QED
  BY <1>5, <1>6, <1>7, <1>8, <1>9

LEMMA MixStep ==
    ASSUME TypeInv, QueueInv, MixInv, MaxMsgQueue >= 3, \A n \in Nodes : Near(n), [Next]_vars
    PROVE  MixInv'
<1>1. DifferentNetworks' <=> DifferentNetworks
  BY NodeStays DEF DifferentNetworks
<1>2. ASSUME DifferentNetworks
      PROVE  \A k \in Nodes : ~Knows(k)' /\ OrderInv(k)'
  <2>1. ASSUME NEW n \in Nodes, Send(n) \/ Recv(n) \/ Erase(n) \/ ProcessMessage(n)
        PROVE  \A k \in Nodes : ~Knows(k)' /\ OrderInv(k)'
    BY <1>2, <2>1, TwoNodes, SendMix, RecvMix, EraseMix, ProcessMix
  <2> QED
    BY <1>2, <2>1, OtherMix DEF Next
<1> QED
  BY <1>1, <1>2 DEF MixInv

LEMMA MixInit == Init => MixInv
<1> SUFFICES ASSUME Init, NEW n \in Nodes
             PROVE  ~Knows(n) /\ OrderInv(n)
  BY DEF MixInv
<1>1. ~Knows(n) /\ ~flags[n].valid
  BY DEF Init, Knows, Entry
<1>2. inbox[Other(n)] = <<>> /\ wire[n] = <<>> /\ outbox[n] = <<>>
  BY TwoNodes DEF Init
<1> QED
  BY <1>1, <1>2, EmptyNamed DEF OrderInv, InOrder

-----------------------------------------------------------------------------
(***************************************************************************)
(* How many messages may be pending: each message counts with those that   *)
(* answering it brings about, on either side.                              *)
(***************************************************************************)

If(p, k) == IF p THEN k ELSE 0

Count(q, S) == Cardinality({i \in 1..Len(q) : q[i].subject \in S})

\* Subjects that are answered with one message; PONG allows for another PING.
Answered == {"PORT_GET", "PEER_LIST_SEND", "PING", "PONG"}

\* Messages that q leads to on the side of its sender, itself included, and on the
\* other: NODEMODE is answered with two, each of which is answered with one.
Own(q) == Len(q) + 2 * Count(q, {"NODEMODE"})
Others(q) == 2 * Count(q, {"NODEMODE"}) + Count(q, Answered)

LEMMA CountEmpty == \A S : Count(<<>>, S) = 0
<1>1. \A S : {i \in 1..Len(<<>>) : <<>>[i].subject \in S} = {}
  OBVIOUS
<1> QED
  BY <1>1, FS_EmptySet DEF Count

LEMMA CountAppend ==
    ASSUME NEW M, NEW q \in Seq(M), NEW m \in M, NEW S
    PROVE  /\ Count(q, S) \in Nat
           /\ Count(Append(q, m), S) = Count(q, S) + If(m.subject \in S, 1)
<1> DEFINE n == Len(q)
           r == Append(q, m)
           at(s) == {i \in 1..Len(s) : s[i].subject \in S}
<1>1. /\ n \in Nat /\ Len(r) = n + 1 /\ r[n + 1] = m
      /\ \A i \in 1..n : r[i] = q[i]
  BY AppendProperties
<1> HIDE DEF r
<1>2. IsFiniteSet(at(q)) /\ Cardinality(at(q)) \in Nat /\ n + 1 \notin at(q)
  <2>1. IsFiniteSet(1..n)
    BY <1>1, FS_Interval
  <2>2. IsFiniteSet(at(q))
    BY <2>1, FS_Subset
  <2> QED
    BY <1>1, <2>2, FS_CardinalityType
<1>3. 1..(n + 1) = (1..n) \cup {n + 1}
  BY <1>1
<1>4. at(r) = IF m.subject \in S THEN at(q) \cup {n + 1} ELSE at(q)
  BY <1>1, <1>3
<1> HIDE DEF at, n
<1>5. Cardinality(at(q) \cup {n + 1}) = Cardinality(at(q)) + 1
  BY <1>2, FS_AddElement
<1>6. Cardinality(at(r)) = Cardinality(at(q)) + If(m.subject \in S, 1)
  BY <1>2, <1>4, <1>5 DEF If
<1> QED
  BY <1>2, <1>6 DEF Count, at, r

LEMMA CountType ==
    ASSUME NEW M, NEW q \in Seq(M), NEW S
    PROVE  Count(q, S) \in Nat
<1>1. Len(q) \in Nat
  OBVIOUS
<1>2. IsFiniteSet(1..Len(q))
  BY <1>1, FS_Interval
<1>3. IsFiniteSet({i \in 1..Len(q) : q[i].subject \in S})
  BY <1>2, FS_Subset
<1> QED
  BY <1>3, FS_CardinalityType DEF Count

LEMMA CountConcat ==
    ASSUME NEW M, NEW p \in Seq(M), NEW q \in Seq(M), NEW S
    PROVE  Count(p \o q, S) = Count(p, S) + Count(q, S)
<1> DEFINE T == {n \in Nat : \A s \in Seq(M) :
                   Len(s) = n => Count(p \o s, S) = Count(p, S) + Count(s, S)}
<1>1. 0 \in T
  <2> SUFFICES ASSUME NEW s \in Seq(M), Len(s) = 0
               PROVE  Count(p \o s, S) = Count(p, S) + Count(s, S)
    OBVIOUS
  <2>1. s = <<>> /\ p \o s = p
    BY ConcatEmptySeq
  <2> QED
    BY <2>1, CountEmpty, CountType
<1>2. ASSUME NEW n \in Nat, n \in T
      PROVE  n + 1 \in T
  <2> SUFFICES ASSUME NEW s \in Seq(M), Len(s) = n + 1
               PROVE  Count(p \o s, S) = Count(p, S) + Count(s, S)
    OBVIOUS
  <2>1. PICK f \in Seq(M), e \in M : s = Append(f, e)
    <3>1. s # <<>>
      BY <1>2
    <3> QED
      BY <3>1, SequenceEmptyOrAppend
  <2>2. Len(f) = n /\ p \o f \in Seq(M)
    BY <1>2, <2>1
  <2>3. p \o s = Append(p \o f, e)
    <3>1. <<e>> \in Seq(M) /\ s = f \o <<e>> /\ Append(p \o f, e) = (p \o f) \o <<e>>
      BY <2>1, <2>2, AppendIsConcat
    <3> QED
      BY <3>1, ConcatAssociative
  <2>4. Count(p \o f, S) = Count(p, S) + Count(f, S)
    BY <1>2, <2>2
  <2>5. /\ Count(s, S) = Count(f, S) + If(e.subject \in S, 1)
        /\ Count(p \o s, S) = Count(p \o f, S) + If(e.subject \in S, 1)
    <3>1. Count(Append(f, e), S) = Count(f, S) + If(e.subject \in S, 1)
      BY <2>1, CountAppend
    <3>2. Count(Append(p \o f, e), S) = Count(p \o f, S) + If(e.subject \in S, 1)
      BY <2>1, <2>2, CountAppend
    <3> QED
      BY <2>1, <2>3, <3>1, <3>2
  <2>6. Count(p, S) \in Nat /\ Count(f, S) \in Nat /\ If(e.subject \in S, 1) \in Nat
    BY CountType DEF If
  <2> QED
    BY <2>4, <2>5, <2>6
<1> HIDE DEF T
<1>3. Len(q) \in T
  BY <1>1, <1>2, SetInduction
<1> QED
  BY <1>3 DEF T

\* What a sequence of messages leads to is what its parts lead to.
LEMMA LeadsTo ==
    ASSUME NEW M, NEW p \in Seq(M), NEW q \in Seq(M)
    PROVE  /\ Own(p) \in Nat /\ Others(p) \in Nat /\ Len(p) <= Own(p)
           /\ Own(p \o q) = Own(p) + Own(q) /\ Others(p \o q) = Others(p) + Others(q)
<1>1. \A S : /\ Count(p, S) \in Nat /\ Count(q, S) \in Nat
             /\ Count(p \o q, S) = Count(p, S) + Count(q, S)
  BY CountType, CountConcat
<1>2. Len(p) \in Nat /\ Len(q) \in Nat /\ Len(p \o q) = Len(p) + Len(q)
  OBVIOUS
<1> DEFINE a(s) == Count(s, {"NODEMODE"})
           b(s) == Count(s, Answered)
<1>3. /\ a(p) \in Nat /\ a(q) \in Nat /\ a(p \o q) = a(p) + a(q)
      /\ b(p) \in Nat /\ b(q) \in Nat /\ b(p \o q) = b(p) + b(q)
  BY <1>1
<1>4. /\ Own(p) = Len(p) + 2 * a(p) /\ Others(p) = 2 * a(p) + b(p)
      /\ Own(q) = Len(q) + 2 * a(q) /\ Others(q) = 2 * a(q) + b(q)
      /\ Own(p \o q) = Len(p \o q) + 2 * a(p \o q) /\ Others(p \o q) = 2 * a(p \o q) + b(p \o q)
  BY DEF Own, Others
<1> HIDE DEF a, b
<1>5. Own(p) \in Nat /\ Others(p) \in Nat /\ Len(p) <= Own(p)
  <2>1. \A x, y \in Nat : y + 2 * x \in Nat /\ 2 * x + y \in Nat /\ y <= y + 2 * x
    OBVIOUS
  <2>2. /\ Len(p) + 2 * a(p) \in Nat /\ Len(p) <= Len(p) + 2 * a(p)
        /\ 2 * a(p) + b(p) \in Nat
    BY <1>2, <1>3, <2>1
  <2> QED
    BY <1>4, <2>2, Zenon
<1>6. Own(p \o q) = Own(p) + Own(q)
  BY <1>2, <1>3, <1>4
<1>7. Others(p \o q) = Others(p) + Others(q)
  BY <1>3, <1>4
<1> QED
  BY <1>5, <1>6, <1>7

LEMMA LeadsToEmpty == Own(<<>>) = 0 /\ Others(<<>>) = 0
  BY CountEmpty DEF Own, Others

\* A single message.
LEMMA LeadsToOne ==
    ASSUME NEW m
    PROVE  /\ Own(<<m>>) = 1 + If(m.subject = "NODEMODE", 2)
           /\ Others(<<m>>) = If(m.subject = "NODEMODE", 2) + If(m.subject \in Answered, 1)
<1>1. <<>> \in Seq({m}) /\ m \in {m} /\ Append(<<>>, m) = <<m>>
  OBVIOUS
<1>2. \A S : Count(<<m>>, S) = If(m.subject \in S, 1)
  <2> SUFFICES ASSUME NEW S
               PROVE  Count(<<m>>, S) = If(m.subject \in S, 1)
    OBVIOUS
  <2>1. Count(Append(<<>>, m), S) = Count(<<>>, S) + If(m.subject \in S, 1)
    BY <1>1, CountAppend
  <2> QED
    BY <1>1, <2>1, CountEmpty DEF If
<1>3. Len(<<m>>) = 1
  OBVIOUS
<1> QED
  BY <1>2, <1>3 DEF Own, Others, If

\* Messages that those of node n lead to, wherever they are.
OwnOf(n) == Own(outbox[n]) + Own(wire[n]) + Own(inbox[Other(n)])
OthersOf(n) == Others(outbox[n]) + Others(wire[n]) + Others(inbox[Other(n)])

\* A node that has not taken a version yet may send its greeting, and is answered.
MayGreet(n) == ~flags[n].valid /\ ~Deaf(n)

Reserve(n) ==
    If(MayGreet(n), 5) + If(MayGreet(Other(n)), 1)
      + If(flags[Dialer].pong, 1) + If(n = Acceptor /\ state[n] = "none", 1)

Load(n) == OwnOf(n) + OthersOf(Other(n)) + Reserve(n)

\* Eight messages at most for one handshake and one PING; each round of Maintainer asks
\* for one more list.
LoadInv == \A n \in Nodes : Load(n) <= 8 + rounds

RoundInv ==
    /\ mnt \in {"idle", "request"} /\ rounds \in 0..MaxRounds
    /\ mnt = "request" => rounds < MaxRounds

LEMMA LoadType ==
    ASSUME QueueInv, NEW n \in Nodes
    PROVE  /\ OwnOf(n) \in Nat /\ OthersOf(n) \in Nat /\ Reserve(n) \in Nat
           /\ Len(Pending(n)) <= OwnOf(n)
<1>1. ASSUME NEW q \in Seq(From(n))
      PROVE  Own(q) \in Nat /\ Others(q) \in Nat /\ Len(q) <= Own(q) /\ Len(q) \in Nat
  BY LeadsTo
<1>2. Len(Pending(n)) = Len(outbox[n]) + Len(wire[n]) + Len(inbox[Other(n)])
  BY DEF QueueInv, Pending
<1>3. Reserve(n) \in Nat
  BY DEF Reserve, If
<1> DEFINE o == outbox[n]
           w == wire[n]
           i == inbox[Other(n)]
<1>4. o \in Seq(From(n)) /\ w \in Seq(From(n)) /\ i \in Seq(From(n))
  BY DEF QueueInv
<1>5. /\ OwnOf(n) = Own(o) + Own(w) + Own(i) /\ OthersOf(n) = Others(o) + Others(w) + Others(i)
      /\ Len(Pending(n)) = Len(o) + Len(w) + Len(i)
  BY <1>2 DEF OwnOf, OthersOf
<1> HIDE DEF o, w, i
<1>6. /\ Own(o) \in Nat /\ Others(o) \in Nat /\ Len(o) <= Own(o) /\ Len(o) \in Nat
      /\ Own(w) \in Nat /\ Others(w) \in Nat /\ Len(w) <= Own(w) /\ Len(w) \in Nat
      /\ Own(i) \in Nat /\ Others(i) \in Nat /\ Len(i) <= Own(i) /\ Len(i) \in Nat
  BY <1>1, <1>4
<1>7. OwnOf(n) \in Nat /\ OthersOf(n) \in Nat /\ Len(Pending(n)) <= OwnOf(n)
  BY <1>5, <1>6
<1> QED
  BY <1>3, <1>7

LEMMA AddFirst ==
    \A a, b, c, d \in Nat : (a + d) + b + c = (a + b + c) + d
  OBVIOUS

LEMMA AddLast ==
    \A a, b, c, d \in Nat : a + b + (d + c) = (a + b + c) + d
  OBVIOUS

LEMMA AddThree == \A a, b, c \in Nat : a + b + c \in Nat
  OBVIOUS

\* A node takes messages of the other and queues some of its own.
LEMMA LoadMoves ==
    ASSUME QueueInv, NEW n \in Nodes, NEW taken \in Seq(From(Other(n))), NEW msgs \in Seq(From(n)),
           outbox'[n] = outbox[n] \o msgs, outbox'[Other(n)] = outbox[Other(n)],
           wire' = wire, inbox[n] = taken \o inbox'[n], inbox'[n] \in Seq(From(Other(n))),
           inbox'[Other(n)] = inbox[Other(n)]
    PROVE  /\ OwnOf(n)' = OwnOf(n) + Own(msgs)
           /\ OthersOf(n)' = OthersOf(n) + Others(msgs)
           /\ OwnOf(Other(n)) = OwnOf(Other(n))' + Own(taken)
           /\ OthersOf(Other(n)) = OthersOf(Other(n))' + Others(taken)
           /\ OwnOf(Other(n))' \in Nat /\ OthersOf(Other(n))' \in Nat
<1> DEFINE m == Other(n)
<1>0. m \in Nodes /\ Other(m) = n
  BY TwoNodes
<1>1. /\ outbox[n] \in Seq(From(n)) /\ wire[n] \in Seq(From(n)) /\ inbox[m] \in Seq(From(n))
      /\ outbox[m] \in Seq(From(m)) /\ wire[m] \in Seq(From(m))
  BY <1>0 DEF QueueInv
<1>2. /\ Own(outbox[n]) \in Nat /\ Own(wire[n]) \in Nat /\ Own(inbox[m]) \in Nat
      /\ Others(outbox[n]) \in Nat /\ Others(wire[n]) \in Nat /\ Others(inbox[m]) \in Nat
      /\ Own(outbox[m]) \in Nat /\ Own(wire[m]) \in Nat
      /\ Others(outbox[m]) \in Nat /\ Others(wire[m]) \in Nat
      /\ Own(inbox'[n]) \in Nat /\ Others(inbox'[n]) \in Nat
      /\ Own(taken) \in Nat /\ Others(taken) \in Nat
      /\ Own(msgs) \in Nat /\ Others(msgs) \in Nat
  BY <1>1, LeadsTo
<1>3. /\ Own(outbox'[n]) = Own(outbox[n]) + Own(msgs)
      /\ Others(outbox'[n]) = Others(outbox[n]) + Others(msgs)
  BY <1>1, LeadsTo
<1>4. /\ Own(inbox[n]) = Own(taken) + Own(inbox'[n])
      /\ Others(inbox[n]) = Others(taken) + Others(inbox'[n])
  BY LeadsTo
<1>5. /\ OwnOf(n)' = Own(outbox'[n]) + Own(wire[n]) + Own(inbox[m])
      /\ OthersOf(n)' = Others(outbox'[n]) + Others(wire[n]) + Others(inbox[m])
      /\ OwnOf(m)' = Own(outbox[m]) + Own(wire[m]) + Own(inbox'[n])
      /\ OthersOf(m)' = Others(outbox[m]) + Others(wire[m]) + Others(inbox'[n])
  BY <1>0 DEF OwnOf, OthersOf
<1>6. /\ OwnOf(n) = Own(outbox[n]) + Own(wire[n]) + Own(inbox[m])
      /\ OthersOf(n) = Others(outbox[n]) + Others(wire[n]) + Others(inbox[m])
      /\ OwnOf(m) = Own(outbox[m]) + Own(wire[m]) + Own(inbox[n])
      /\ OthersOf(m) = Others(outbox[m]) + Others(wire[m]) + Others(inbox[n])
  BY <1>0 DEF OwnOf, OthersOf
<1> HIDE DEF m
<1>7. OwnOf(n)' = OwnOf(n) + Own(msgs) /\ OthersOf(n)' = OthersOf(n) + Others(msgs)
  <2>1. OwnOf(n)' = (Own(outbox[n]) + Own(msgs)) + Own(wire[n]) + Own(inbox[m])
    BY <1>3, <1>5, Zenon
  <2>2. OthersOf(n)' = (Others(outbox[n]) + Others(msgs)) + Others(wire[n]) + Others(inbox[m])
    BY <1>3, <1>5, Zenon
  <2>3. (Own(outbox[n]) + Own(msgs)) + Own(wire[n]) + Own(inbox[m])
          = (Own(outbox[n]) + Own(wire[n]) + Own(inbox[m])) + Own(msgs)
    <3> DEFINE a == Own(outbox[n])
               b == Own(wire[n])
               c == Own(inbox[m])
               d == Own(msgs)
    <3>1. a \in Nat /\ b \in Nat /\ c \in Nat /\ d \in Nat
      BY <1>2
    <3> HIDE DEF a, b, c, d
    <3>2. (a + d) + b + c = (a + b + c) + d
      BY <3>1, AddFirst
    <3> QED
      BY <3>2 DEF a, b, c, d
  <2>4. (Others(outbox[n]) + Others(msgs)) + Others(wire[n]) + Others(inbox[m])
          = (Others(outbox[n]) + Others(wire[n]) + Others(inbox[m])) + Others(msgs)
    <3> DEFINE a == Others(outbox[n])
               b == Others(wire[n])
               c == Others(inbox[m])
               d == Others(msgs)
    <3>1. a \in Nat /\ b \in Nat /\ c \in Nat /\ d \in Nat
      BY <1>2
    <3> HIDE DEF a, b, c, d
    <3>2. (a + d) + b + c = (a + b + c) + d
      BY <3>1, AddFirst
    <3> QED
      BY <3>2 DEF a, b, c, d
  <2> QED
    BY <1>6, <2>1, <2>2, <2>3, <2>4, Zenon
<1>8. OwnOf(m) = OwnOf(m)' + Own(taken) /\ OwnOf(m)' \in Nat
  <2>1. OwnOf(m) = Own(outbox[m]) + Own(wire[m]) + (Own(taken) + Own(inbox'[n]))
    BY <1>4, <1>6, Zenon
  <2>2. Own(outbox[m]) + Own(wire[m]) + (Own(taken) + Own(inbox'[n]))
          = (Own(outbox[m]) + Own(wire[m]) + Own(inbox'[n])) + Own(taken)
    <3> DEFINE a == Own(outbox[m])
               b == Own(wire[m])
               c == Own(inbox'[n])
               d == Own(taken)
    <3>1. a \in Nat /\ b \in Nat /\ c \in Nat /\ d \in Nat
      BY <1>2
    <3> HIDE DEF a, b, c, d
    <3>2. a + b + (d + c) = (a + b + c) + d
      BY <3>1, AddLast
    <3> QED
      BY <3>2 DEF a, b, c, d
  <2>3. Own(outbox[m]) + Own(wire[m]) + Own(inbox'[n]) \in Nat
    BY <1>2, AddThree, Zenon
  <2> QED
    BY <1>5, <2>1, <2>2, <2>3, Zenon
<1>9. OthersOf(m) = OthersOf(m)' + Others(taken) /\ OthersOf(m)' \in Nat
  <2>1. OthersOf(m) = Others(outbox[m]) + Others(wire[m]) + (Others(taken) + Others(inbox'[n]))
    BY <1>4, <1>6, Zenon
  <2>2. Others(outbox[m]) + Others(wire[m]) + (Others(taken) + Others(inbox'[n]))
          = (Others(outbox[m]) + Others(wire[m]) + Others(inbox'[n])) + Others(taken)
    <3> DEFINE a == Others(outbox[m])
               b == Others(wire[m])
               c == Others(inbox'[n])
               d == Others(taken)
    <3>1. a \in Nat /\ b \in Nat /\ c \in Nat /\ d \in Nat
      BY <1>2
    <3> HIDE DEF a, b, c, d
    <3>2. a + b + (d + c) = (a + b + c) + d
      BY <3>1, AddLast
    <3> QED
      BY <3>2 DEF a, b, c, d
  <2>3. Others(outbox[m]) + Others(wire[m]) + Others(inbox'[n]) \in Nat
    BY <1>2, AddThree, Zenon
  <2> QED
    BY <1>5, <2>1, <2>2, <2>3, Zenon
<1> QED
  BY <1>7, <1>8, <1>9 DEF m

-----------------------------------------------------------------------------
(* What is kept in reserve *)

LEMMA ValidStays ==
    ASSUME TypeInv, NEW n \in Nodes, flags[n].valid, [Next]_vars
    PROVE  flags'[n].valid
<1> USE DEF mntVars
<1>0. flags \in [Nodes -> EntryType] /\ Dialer \in Nodes
  BY DEF TypeInv, Nodes
<1>1. CASE flags' = flags
  BY <1>1
<1>2. CASE \E k \in Nodes : MarkDestroy(k)
  BY <1>2, Marked
<1>3. CASE MaintainPing
  <2>1. CASE flags' = [flags EXCEPT ![Dialer].pong = FALSE]
    BY <1>0, <2>1 DEF EntryType
  <2> QED
    BY <1>0, <1>1, <1>2, <1>3, <2>1 DEF MaintainPing
<1>4. ASSUME NEW k \in Nodes, ProcessMessage(k)
      PROVE  flags'[n].valid
  <2>1. CASE RefuseEarly(k) \/ HandleTestNet(k) \/ HandleRequest(k) \/ HandleListRequest(k)
             \/ HandleList(k)
    BY <1>1, <1>2, <2>1 DEF RefuseEarly, HandleTestNet, HandleRequest, HandleListRequest,
       HandleList, Refuse
  <2>2. CASE HandleVersion(k)
    <3>1. CASE flags' = [flags EXCEPT ![k].valid = TRUE]
      BY <1>0, <3>1 DEF EntryType
    <3> QED
      BY <1>1, <1>2, <2>2, <3>1 DEF HandleVersion, Refuse
  <2>3. CASE HandleNodeMode(k) \/ HandleNotice(k)
    BY <1>0, <2>3 DEF HandleNodeMode, HandleNotice, EntryType
  <2> QED
    BY <1>4, <2>1, <2>2, <2>3 DEF ProcessMessage
<1>5. CASE \E k \in Nodes : Send(k) \/ Recv(k) \/ Erase(k)
  BY <1>1, <1>2, <1>5 DEF Send, Recv, Erase
<1>6. CASE Connect \/ Accept \/ Break \/ MaintainRequest \/ PassEnds \/ UNCHANGED vars
  BY <1>1, <1>6 DEF Connect, Accept, Break, MaintainRequest, PassEnds, vars
<1> QED
  BY <1>3, <1>4, <1>5, <1>6 DEF Next

LEMMA GreetedStays ==
    ASSUME TypeInv, NEW n \in Nodes, MayGreet(n)', [Next]_vars
    PROVE  MayGreet(n)
  BY ValidStays, DeafStays DEF MayGreet

LEMMA AcceptedStays ==
    ASSUME TypeInv, NEW n \in Nodes, state'[n] = "none", [Next]_vars
    PROVE  state[n] = "none"
<1>0. DOMAIN state = Nodes
  BY DEF TypeInv
<1>1. CASE state' = state
  BY <1>1
<1>2. ASSUME NEW k \in Nodes, NEW x, x # "none", state' = [state EXCEPT ![k] = x]
      PROVE  state[n] = "none"
  BY <1>0, <1>2
<1>3. CASE Connect \/ Accept \/ \E k \in Nodes : Erase(k)
  BY <1>2, <1>3 DEF Connect, Accept, Erase, Nodes
<1>4. CASE Break \/ MaintainPing \/ MaintainRequest \/ PassEnds \/ UNCHANGED vars
  BY <1>1, <1>4 DEF Break, MaintainPing, MaintainRequest, PassEnds, vars
<1>5. CASE \E k \in Nodes : Send(k) \/ Recv(k)
  BY <1>1, <1>5 DEF Send, Recv
<1>6. CASE \E k \in Nodes : ProcessMessage(k)
  BY <1>1, <1>6 DEF ProcessMessage, RefuseEarly, HandleVersion, HandleTestNet,
     HandleNodeMode, HandleRequest, HandleNotice, HandleListRequest, HandleList
<1> QED
  BY <1>3, <1>4, <1>5, <1>6 DEF Next

\* What a step frees of the reserve.
Freed(n, greeted, answered, pinged, accepted) ==
    If(greeted, 5) + If(answered, 1) + If(pinged, 1) + If(n = Acceptor /\ accepted, 1)

\* The reserve grows only when a PONG comes.
LEMMA ReserveFalls ==
    ASSUME TypeInv, [Next]_vars, NEW n \in Nodes
    PROVE  /\ Reserve(n) \in Nat /\ Reserve(n)' \in Nat
           /\ Reserve(n)' + Freed(n, MayGreet(n) /\ ~MayGreet(n)',
                                  MayGreet(Other(n)) /\ ~MayGreet(Other(n))',
                                  flags[Dialer].pong /\ ~flags'[Dialer].pong,
                                  state[n] = "none" /\ state'[n] # "none")
                <= Reserve(n) + If(~flags[Dialer].pong /\ flags'[Dialer].pong, 1)
<1> DEFINE m == Other(n)
           a == MayGreet(n)
           b == MayGreet(m)
           c == flags[Dialer].pong
           d == state[n] = "none"
           e == n = Acceptor
<1>1. m \in Nodes /\ (a' => a) /\ (b' => b)
  BY TwoNodes, GreetedStays
<1>2. d' => d
  BY AcceptedStays
<1>3. /\ Reserve(n) = If(a, 5) + If(b, 1) + If(c, 1) + If(e /\ d, 1)
      /\ Reserve(n)' = If(a', 5) + If(b', 1) + If(c', 1) + If(e /\ d', 1)
  BY DEF Reserve, If
<1> HIDE DEF a, b, c, d, e
<1>4. /\ If(a', 5) + If(a /\ ~a', 5) = If(a, 5) /\ If(b', 1) + If(b /\ ~b', 1) = If(b, 1)
      /\ If(c', 1) + If(c /\ ~c', 1) = If(c, 1) + If(~c /\ c', 1)
      /\ If(e /\ d', 1) + If(e /\ (d /\ ~d'), 1) = If(e /\ d, 1)
  BY <1>1, <1>2 DEF If
<1>5. \A p : If(p, 5) \in Nat /\ If(p, 1) \in Nat
  BY DEF If
<1>6. Reserve(n)' + Freed(n, a /\ ~a', b /\ ~b', c /\ ~c', d /\ ~d')
        = Reserve(n) + If(~c /\ c', 1)
  BY <1>3, <1>4, <1>5 DEF Freed, e
<1>7. Reserve(n) \in Nat /\ Reserve(n)' \in Nat
  BY <1>3, <1>5
<1>8. Reserve(n) + If(~c /\ c', 1) \in Nat
  BY <1>5, <1>7
<1> QED
  BY <1>6, <1>7, <1>8 DEF a, b, c, d, m

-----------------------------------------------------------------------------
(* Each step takes at least as much from the load as it adds *)

\* Messages on their way: part of a sequence leads to no more than the whole.
LEMMA PartLess ==
    ASSUME NEW M, NEW s \in Seq(M), NEW k \in 0..Len(s), NEW t \in 0..k
    PROVE  /\ Own(SubSeq(s, 1, t)) + Own(SubSeq(s, k + 1, Len(s))) <= Own(s)
           /\ Others(SubSeq(s, 1, t)) + Others(SubSeq(s, k + 1, Len(s))) <= Others(s)
<1> DEFINE a == SubSeq(s, 1, t)
           b == SubSeq(s, t + 1, k)
           c == SubSeq(s, k + 1, Len(s))
<1>1. a \in Seq(M) /\ b \in Seq(M) /\ c \in Seq(M)
  OBVIOUS
<1>2. Len(s) \in Nat /\ k \in Nat /\ t \in Nat /\ t <= k /\ k <= Len(s)
  OBVIOUS
<1>3. s = (a \o b) \o c
  <2>1. /\ 1 \in 1..Len(s) + 1 /\ t \in 1 - 1..Len(s) /\ k \in t..Len(s)
        /\ k \in 1 - 1..Len(s) /\ Len(s) \in k..Len(s)
    BY <1>2
  <2>2. a \o b = SubSeq(s, 1, k)
    BY <2>1, ConcatAdjacentSubSeq
  <2>3. SubSeq(s, 1, k) \o c = SubSeq(s, 1, Len(s))
    BY <2>1, ConcatAdjacentSubSeq
  <2> QED
    BY <2>2, <2>3, SubSeqFull
<1> HIDE DEF a, b, c
<1>4. a \o b \in Seq(M)
  BY <1>1
<1>5. /\ Own(s) = Own(a \o b) + Own(c) /\ Own(a \o b) = Own(a) + Own(b)
      /\ Others(s) = Others(a \o b) + Others(c) /\ Others(a \o b) = Others(a) + Others(b)
  BY <1>1, <1>3, <1>4, LeadsTo
<1>6. /\ Own(a) \in Nat /\ Own(b) \in Nat /\ Own(c) \in Nat
      /\ Others(a) \in Nat /\ Others(b) \in Nat /\ Others(c) \in Nat
  BY <1>1, LeadsTo
<1>7. Own(a) + Own(c) <= Own(s)
  BY <1>5, <1>6
<1>8. Others(a) + Others(c) <= Others(s)
  BY <1>5, <1>6
<1> QED
  BY <1>7, <1>8 DEF a, c

Lighter(k) ==
    /\ OwnOf(k)' <= OwnOf(k) /\ OthersOf(k)' <= OthersOf(k)
    /\ OwnOf(k)' \in Nat /\ OthersOf(k)' \in Nat

\* What is cleared and what is left alone.
LEMMA LoadCleared ==
    ASSUME QueueInv, NEW k \in Nodes,
           outbox'[k] \in {outbox[k], <<>>}, wire'[k] \in {wire[k], <<>>},
           inbox'[Other(k)] \in {inbox[Other(k)], <<>>}
    PROVE  Lighter(k)
<1> DEFINE m == Other(k)
<1>1. outbox[k] \in Seq(From(k)) /\ wire[k] \in Seq(From(k)) /\ inbox[m] \in Seq(From(k))
  BY DEF QueueInv
<1>2. ASSUME NEW q \in Seq(From(k)), NEW r \in {q, <<>>}
      PROVE  /\ Own(r) <= Own(q) /\ Own(r) \in Nat /\ Own(q) \in Nat
             /\ Others(r) <= Others(q) /\ Others(r) \in Nat /\ Others(q) \in Nat
  <2>1. Own(q) \in Nat /\ Others(q) \in Nat
    BY LeadsTo
  <2> QED
    BY <2>1, LeadsToEmpty
<1>3. /\ OwnOf(k)' = Own(outbox'[k]) + Own(wire'[k]) + Own(inbox'[m])
      /\ OthersOf(k)' = Others(outbox'[k]) + Others(wire'[k]) + Others(inbox'[m])
      /\ OwnOf(k) = Own(outbox[k]) + Own(wire[k]) + Own(inbox[m])
      /\ OthersOf(k) = Others(outbox[k]) + Others(wire[k]) + Others(inbox[m])
  BY DEF OwnOf, OthersOf
<1> HIDE DEF m
<1>4. \A a, b, c, d, e, f \in Nat : a <= d /\ b <= e /\ c <= f =>
        a + b + c <= d + e + f /\ a + b + c \in Nat
  OBVIOUS
<1>5. /\ Own(outbox'[k]) <= Own(outbox[k]) /\ Own(outbox'[k]) \in Nat /\ Own(outbox[k]) \in Nat
      /\ Own(wire'[k]) <= Own(wire[k]) /\ Own(wire'[k]) \in Nat /\ Own(wire[k]) \in Nat
      /\ Own(inbox'[m]) <= Own(inbox[m]) /\ Own(inbox'[m]) \in Nat /\ Own(inbox[m]) \in Nat
  BY <1>1, <1>2 DEF m
<1>6. /\ Others(outbox'[k]) <= Others(outbox[k])
      /\ Others(outbox'[k]) \in Nat /\ Others(outbox[k]) \in Nat
      /\ Others(wire'[k]) <= Others(wire[k])
      /\ Others(wire'[k]) \in Nat /\ Others(wire[k]) \in Nat
      /\ Others(inbox'[m]) <= Others(inbox[m])
      /\ Others(inbox'[m]) \in Nat /\ Others(inbox[m]) \in Nat
  BY <1>1, <1>2 DEF m
<1>7. OwnOf(k)' <= OwnOf(k) /\ OwnOf(k)' \in Nat
  BY <1>3, <1>4, <1>5
<1>8. OthersOf(k)' <= OthersOf(k) /\ OthersOf(k)' \in Nat
  BY <1>3, <1>4, <1>6
<1> QED
  BY <1>7, <1>8 DEF Lighter

LEMMA SendLoad ==
    ASSUME QueueInv, NEW n \in Nodes, Send(n)
    PROVE  \A k \in Nodes : Lighter(k)
<1> DEFINE m == Other(n)
           h == Head(outbox[n])
           r == Tail(outbox[n])
<1>0. /\ m \in Nodes /\ m # n /\ Other(m) = n /\ Nodes = {n, m}
      /\ DOMAIN outbox = Nodes /\ DOMAIN wire = Nodes
      /\ outbox[n] \in Seq(From(n)) /\ wire[n] \in Seq(From(n)) /\ inbox[m] \in Seq(From(n))
      /\ outbox[n] # <<>> /\ inbox' = inbox
  BY TwoNodes DEF QueueInv, Send
<1>1. \/ UNCHANGED <<wire, outbox>>
      \/ outbox' = [outbox EXCEPT ![n] = r] /\ wire' = wire
      \/ outbox' = [outbox EXCEPT ![n] = r] /\ wire' = [wire EXCEPT ![n] = Append(@, h)]
  BY DEF Send
<1>2. Lighter(m)
  <2>1. outbox'[m] = outbox[m] /\ wire'[m] = wire[m] /\ inbox'[n] = inbox[n]
    BY <1>0, <1>1
  <2> QED
    BY <1>0, <2>1, LoadCleared
<1>3. Lighter(n)
  <2>1. CASE UNCHANGED <<wire, outbox>>
    BY <1>0, <2>1, LoadCleared
  <2>2. /\ h \in From(n) /\ <<h>> \in Seq(From(n)) /\ r \in Seq(From(n))
        /\ outbox[n] = <<h>> \o r /\ Append(wire[n], h) = wire[n] \o <<h>>
    BY <1>0
  <2> HIDE DEF h, r
  <2>3. /\ Own(outbox[n]) = Own(<<h>>) + Own(r) /\ Own(wire[n] \o <<h>>) = Own(wire[n]) + Own(<<h>>)
        /\ Others(outbox[n]) = Others(<<h>>) + Others(r)
        /\ Others(wire[n] \o <<h>>) = Others(wire[n]) + Others(<<h>>)
    BY <1>0, <2>2, LeadsTo
  <2>4. /\ Own(<<h>>) \in Nat /\ Own(r) \in Nat /\ Own(wire[n]) \in Nat /\ Own(inbox[m]) \in Nat
        /\ Others(<<h>>) \in Nat /\ Others(r) \in Nat /\ Others(wire[n]) \in Nat
        /\ Others(inbox[m]) \in Nat
    BY <1>0, <2>2, LeadsTo
  <2>5. CASE outbox' = [outbox EXCEPT ![n] = r]
             /\ (wire' = wire \/ wire' = [wire EXCEPT ![n] = Append(@, h)])
    <3>1. outbox'[n] = r /\ wire'[n] \in {wire[n], wire[n] \o <<h>>} /\ inbox'[m] = inbox[m]
      BY <1>0, <2>2, <2>5
    <3>2. /\ OwnOf(n)' = Own(r) + Own(wire'[n]) + Own(inbox[m])
          /\ OthersOf(n)' = Others(r) + Others(wire'[n]) + Others(inbox[m])
          /\ OwnOf(n) = Own(outbox[n]) + Own(wire[n]) + Own(inbox[m])
          /\ OthersOf(n) = Others(outbox[n]) + Others(wire[n]) + Others(inbox[m])
      BY <3>1 DEF OwnOf, OthersOf
    <3>3. \A a, b, c, d \in Nat :
             /\ b + c + d <= (a + b) + c + d /\ b + c + d \in Nat
             /\ b + (c + a) + d <= (a + b) + c + d /\ b + (c + a) + d \in Nat
      OBVIOUS
    <3>4. OwnOf(n)' <= OwnOf(n) /\ OwnOf(n)' \in Nat
      <4>1. OwnOf(n) = (Own(<<h>>) + Own(r)) + Own(wire[n]) + Own(inbox[m])
        BY <2>3, <3>2, Zenon
      <4>2. CASE wire'[n] = wire[n]
        <5>1. OwnOf(n)' = Own(r) + Own(wire[n]) + Own(inbox[m])
          BY <3>2, <4>2, Zenon
        <5> QED
          BY <2>4, <3>3, <4>1, <5>1
      <4>3. CASE wire'[n] = wire[n] \o <<h>>
        <5>1. OwnOf(n)' = Own(r) + (Own(wire[n]) + Own(<<h>>)) + Own(inbox[m])
          BY <2>3, <3>2, <4>3, Zenon
        <5> QED
          BY <2>4, <3>3, <4>1, <5>1
      <4> QED
        BY <3>1, <4>2, <4>3
    <3>5. OthersOf(n)' <= OthersOf(n) /\ OthersOf(n)' \in Nat
      <4>1. OthersOf(n) = (Others(<<h>>) + Others(r)) + Others(wire[n]) + Others(inbox[m])
        BY <2>3, <3>2, Zenon
      <4>2. CASE wire'[n] = wire[n]
        <5>1. OthersOf(n)' = Others(r) + Others(wire[n]) + Others(inbox[m])
          BY <3>2, <4>2, Zenon
        <5> QED
          BY <2>4, <3>3, <4>1, <5>1
      <4>3. CASE wire'[n] = wire[n] \o <<h>>
        <5>1. OthersOf(n)' = Others(r) + (Others(wire[n]) + Others(<<h>>)) + Others(inbox[m])
          BY <2>3, <3>2, <4>3, Zenon
        <5> QED
          BY <2>4, <3>3, <4>1, <5>1
      <4> QED
        BY <3>1, <4>2, <4>3
    <3> QED
      BY <3>4, <3>5 DEF Lighter
  <2> QED
    BY <1>1, <2>1, <2>5
<1> QED
  BY <1>0, <1>2, <1>3

LEMMA RecvLoad ==
    ASSUME QueueInv, NEW n \in Nodes, Recv(n)
    PROVE  \A k \in Nodes : Lighter(k)
<1> DEFINE m == Other(n)
           room == MaxMsgQueue - Len(inbox[n])
<1>0. /\ m \in Nodes /\ m # n /\ Other(m) = n /\ Nodes = {n, m}
      /\ DOMAIN inbox = Nodes /\ DOMAIN wire = Nodes
      /\ outbox[m] \in Seq(From(m)) /\ wire[m] \in Seq(From(m)) /\ inbox[n] \in Seq(From(m))
      /\ outbox' = outbox
  BY TwoNodes DEF QueueInv, Recv
<1>1. room \in Nat
  BY <1>0, LimitsAssumption DEF Recv, Served
<1>2. CASE UNCHANGED <<wire, inbox>>
  BY <1>0, <1>2, LoadCleared
<1>3. ASSUME NEW k \in 1..Len(wire[m]),
             wire' = [wire EXCEPT ![m] = SubSeq(@, k + 1, Len(@))],
             inbox' = [inbox EXCEPT ![n] =
                         @ \o SubSeq(wire[m], 1, IF k < room THEN k ELSE room)]
      PROVE  Lighter(n) /\ Lighter(m)
  <2> DEFINE t == IF k < room THEN k ELSE room
             a == SubSeq(wire[m], 1, t)
             b == SubSeq(wire[m], k + 1, Len(wire[m]))
  <2>1. k \in 0..Len(wire[m]) /\ t \in 0..k
    BY <1>0, <1>1
  <2>2. a \in Seq(From(m)) /\ b \in Seq(From(m))
    BY <1>0, <2>1
  <2>3. wire'[m] = b /\ inbox'[n] = inbox[n] \o a /\ wire'[n] = wire[n] /\ inbox'[m] = inbox[m]
    BY <1>0, <1>3
  <2>4. Own(a) + Own(b) <= Own(wire[m]) /\ Others(a) + Others(b) <= Others(wire[m])
    BY <1>0, <2>1, PartLess
  <2> HIDE DEF t, a, b
  <2>5. /\ Own(inbox[n] \o a) = Own(inbox[n]) + Own(a)
        /\ Others(inbox[n] \o a) = Others(inbox[n]) + Others(a)
    BY <1>0, <2>2, LeadsTo
  <2>6. /\ Own(a) \in Nat /\ Own(b) \in Nat /\ Own(wire[m]) \in Nat
        /\ Own(outbox[m]) \in Nat /\ Own(inbox[n]) \in Nat
        /\ Others(a) \in Nat /\ Others(b) \in Nat /\ Others(wire[m]) \in Nat
        /\ Others(outbox[m]) \in Nat /\ Others(inbox[n]) \in Nat
    BY <1>0, <2>2, LeadsTo
  <2>7. /\ OwnOf(m)' = Own(outbox[m]) + Own(b) + Own(inbox[n] \o a)
        /\ OthersOf(m)' = Others(outbox[m]) + Others(b) + Others(inbox[n] \o a)
        /\ OwnOf(m) = Own(outbox[m]) + Own(wire[m]) + Own(inbox[n])
        /\ OthersOf(m) = Others(outbox[m]) + Others(wire[m]) + Others(inbox[n])
    BY <1>0, <2>3 DEF OwnOf, OthersOf
  <2>8. \A o, x, y, w, i \in Nat : x + y <= w =>
          o + y + (i + x) <= o + w + i /\ o + y + (i + x) \in Nat
    OBVIOUS
  <2>9. OwnOf(m)' <= OwnOf(m) /\ OwnOf(m)' \in Nat
    <3>1. OwnOf(m)' = Own(outbox[m]) + Own(b) + (Own(inbox[n]) + Own(a))
      BY <2>5, <2>7, Zenon
    <3>2. /\ Own(outbox[m]) + Own(b) + (Own(inbox[n]) + Own(a))
               <= Own(outbox[m]) + Own(wire[m]) + Own(inbox[n])
          /\ Own(outbox[m]) + Own(b) + (Own(inbox[n]) + Own(a)) \in Nat
      BY <2>4, <2>6, <2>8
    <3> QED
      BY <2>7, <3>1, <3>2, Zenon
  <2>10. OthersOf(m)' <= OthersOf(m) /\ OthersOf(m)' \in Nat
    <3>1. OthersOf(m)' = Others(outbox[m]) + Others(b) + (Others(inbox[n]) + Others(a))
      BY <2>5, <2>7, Zenon
    <3>2. /\ Others(outbox[m]) + Others(b) + (Others(inbox[n]) + Others(a))
               <= Others(outbox[m]) + Others(wire[m]) + Others(inbox[n])
          /\ Others(outbox[m]) + Others(b) + (Others(inbox[n]) + Others(a)) \in Nat
      BY <2>4, <2>6, <2>8
    <3> QED
      BY <2>7, <3>1, <3>2, Zenon
  <2>11. Lighter(n)
    BY <1>0, <2>3, LoadCleared
  <2> QED
    BY <2>9, <2>10, <2>11 DEF Lighter
<1>4. Lighter(n) /\ Lighter(m)
  BY <1>0, <1>2, <1>3 DEF Recv
<1> QED
  BY <1>0, <1>4

LEMMA OthersLoad ==
    ASSUME QueueInv, Break \/ Connect \/ PassEnds \/ UNCHANGED vars
                       \/ \E n \in Nodes : Send(n) \/ Recv(n) \/ Erase(n)
    PROVE  \A k \in Nodes : Lighter(k)
<1>1. ASSUME NEW k \in Nodes, outbox' = outbox, inbox' = inbox,
             wire'[k] \in {wire[k], <<>>}
      PROVE  Lighter(k)
  BY <1>1, LoadCleared
<1>2. CASE Connect \/ PassEnds \/ UNCHANGED vars
  BY <1>1, <1>2 DEF Connect, PassEnds, vars
<1>3. CASE Break
  BY <1>1, <1>3 DEF Break
<1>4. ASSUME NEW n \in Nodes, Erase(n)
      PROVE  \A k \in Nodes : Lighter(k)
  <2> SUFFICES ASSUME NEW k \in Nodes
               PROVE  Lighter(k)
    OBVIOUS
  <2>1. Other(k) \in Nodes /\ DOMAIN outbox = Nodes /\ DOMAIN inbox = Nodes
        /\ DOMAIN wire = Nodes
    BY TwoNodes DEF QueueInv
  <2>2. /\ outbox' = [outbox EXCEPT ![n] = <<>>] /\ inbox' = [inbox EXCEPT ![n] = <<>>]
        /\ wire' = [wire EXCEPT ![Other(n)] = <<>>] \/ wire' = [j \in Nodes |-> <<>>]
    BY <1>4 DEF Erase
  <2>3. /\ outbox'[k] \in {outbox[k], <<>>} /\ wire'[k] \in {wire[k], <<>>}
        /\ inbox'[Other(k)] \in {inbox[Other(k)], <<>>}
    BY <2>1, <2>2
  <2> QED
    BY <2>3, LoadCleared
<1> QED
  BY <1>2, <1>3, <1>4, SendLoad, RecvLoad

\* A node takes messages of the other, if any, and queues some of its own, if any.
Moves(n, taken, msgs) ==
    /\ taken \in Seq(From(Other(n))) /\ msgs \in Seq(From(n))
    /\ outbox'[n] = outbox[n] \o msgs /\ outbox'[Other(n)] = outbox[Other(n)]
    /\ wire' = wire
    /\ inbox[n] = taken \o inbox'[n] /\ inbox'[n] \in Seq(From(Other(n)))
    /\ inbox'[Other(n)] = inbox[Other(n)]

LEMMA Balance ==
    ASSUME NEW a \in Nat, NEW b \in Nat, NEW c \in Nat, NEW r \in Nat, NEW s \in Nat,
           NEW d \in Nat, NEW e \in Nat, NEW k \in Nat, NEW x \in Nat,
           a + b + r <= 8 + k, d + s <= e + r + x, b = c + e
    PROVE  (a + d) + c + s <= 8 + (k + x)
  OBVIOUS

\* What the messages it queues lead to has to be met by those it takes, what is freed of
\* the reserve, and a round of Maintainer.
LEMMA LoadBalance ==
    ASSUME QueueInv, QueueInv', LoadInv, NEW n \in Nodes, NEW taken, NEW msgs,
           Moves(n, taken, msgs), NEW x \in Nat, rounds \in Nat, rounds' = rounds + x,
           Own(msgs) + Reserve(n)' <= Others(taken) + Reserve(n) + x,
           Others(msgs) + Reserve(Other(n))' <= Own(taken) + Reserve(Other(n)) + x
    PROVE  LoadInv'
<1> DEFINE m == Other(n)
<1>0. m \in Nodes /\ Other(m) = n /\ Nodes = {n, m}
  BY TwoNodes
<1>1. /\ OwnOf(n)' = OwnOf(n) + Own(msgs) /\ OthersOf(n)' = OthersOf(n) + Others(msgs)
      /\ OwnOf(m) = OwnOf(m)' + Own(taken) /\ OthersOf(m) = OthersOf(m)' + Others(taken)
      /\ OwnOf(m)' \in Nat /\ OthersOf(m)' \in Nat
  BY LoadMoves DEF Moves
<1>2. /\ OwnOf(n) \in Nat /\ OthersOf(n) \in Nat /\ OwnOf(m) \in Nat /\ OthersOf(m) \in Nat
      /\ Reserve(n) \in Nat /\ Reserve(m) \in Nat
  BY <1>0, LoadType
<1>3. Reserve(n)' \in Nat /\ Reserve(m)' \in Nat
  BY DEF Reserve, If
<1>4. /\ Own(msgs) \in Nat /\ Others(msgs) \in Nat
      /\ Own(taken) \in Nat /\ Others(taken) \in Nat
  BY LeadsTo DEF Moves
<1>5. /\ OwnOf(n) + OthersOf(m) + Reserve(n) <= 8 + rounds
      /\ OwnOf(m) + OthersOf(n) + Reserve(m) <= 8 + rounds
  BY <1>0 DEF LoadInv, Load
<1>6. Load(n)' = (OwnOf(n) + Own(msgs)) + OthersOf(m)' + Reserve(n)'
  BY <1>0, <1>1 DEF Load
<1>7. Load(m)' = OwnOf(m)' + (OthersOf(n) + Others(msgs)) + Reserve(m)'
  BY <1>0, <1>1 DEF Load
<1> HIDE DEF m
<1>8. Load(n)' <= 8 + (rounds + x)
  <2>1. (OwnOf(n) + Own(msgs)) + OthersOf(m)' + Reserve(n)' <= 8 + (rounds + x)
    BY <1>1, <1>2, <1>3, <1>4, <1>5, Balance
  <2> QED
    BY <1>6, <2>1, Zenon
<1>9. Load(m)' <= 8 + (rounds + x)
  <2>1. \A a, b, c \in Nat : a + b + c = b + a + c
    OBVIOUS
  <2>2. OthersOf(n) + OwnOf(m) + Reserve(m) <= 8 + rounds
    BY <1>2, <1>5, <2>1
  <2>3. (OthersOf(n) + Others(msgs)) + OwnOf(m)' + Reserve(m)' <= 8 + (rounds + x)
    BY <1>1, <1>2, <1>3, <1>4, <2>2, Balance DEF m
  <2>4. OwnOf(m)' + (OthersOf(n) + Others(msgs)) + Reserve(m)'
          = (OthersOf(n) + Others(msgs)) + OwnOf(m)' + Reserve(m)'
    <3>1. OthersOf(n) + Others(msgs) \in Nat
      BY <1>2, <1>4
    <3> QED
      BY <1>1, <1>3, <2>1, <3>1
  <2> QED
    BY <1>7, <2>3, <2>4, Zenon
<1>10. \A k \in Nodes : Load(k)' <= 8 + rounds'
  BY <1>0, <1>8, <1>9
<1> QED
  BY <1>10 DEF LoadInv

LEMMA ReserveKept ==
    ASSUME TypeInv, [Next]_vars, NEW n \in Nodes, flags'[Dialer].pong => flags[Dialer].pong
    PROVE  Reserve(n)' <= Reserve(n) /\ Reserve(n)' \in Nat /\ Reserve(n) \in Nat
<1>1. \A a, b, c, d : Freed(n, a, b, c, d) \in Nat
  BY DEF Freed, If
<1>2. If(~flags[Dialer].pong /\ flags'[Dialer].pong, 1) = 0
  BY DEF If
<1> QED
  BY <1>1, <1>2, ReserveFalls

\* What is freed at least.
FreedBy(n) == Freed(n, MayGreet(n) /\ ~MayGreet(n)', MayGreet(Other(n)) /\ ~MayGreet(Other(n))',
                    flags[Dialer].pong /\ ~flags'[Dialer].pong,
                    state[n] = "none" /\ state'[n] # "none")

LEMMA ReserveFreed ==
    ASSUME TypeInv, [Next]_vars, NEW n \in Nodes, flags'[Dialer].pong => flags[Dialer].pong,
           NEW f \in Nat, f <= FreedBy(n)
    PROVE  Reserve(n)' + f <= Reserve(n)
<1>1. \A a, b, c, d : Freed(n, a, b, c, d) \in Nat
  BY DEF Freed, If
<1>2. FreedBy(n) \in Nat
  BY <1>1 DEF FreedBy
<1>3. If(~flags[Dialer].pong /\ flags'[Dialer].pong, 1) = 0
  BY DEF If
<1>4. Reserve(n)' + FreedBy(n) <= Reserve(n) + If(~flags[Dialer].pong /\ flags'[Dialer].pong, 1)
  BY ReserveFalls DEF FreedBy
<1>5. Reserve(n) \in Nat /\ Reserve(n)' \in Nat
  BY ReserveFalls
<1> QED
  BY <1>2, <1>3, <1>4, <1>5

\* A greeting, or the news of an older version, comes out of the reserve.
LEMMA ReserveGreets ==
    ASSUME TypeInv, [Next]_vars, NEW n \in Nodes, flags'[Dialer].pong => flags[Dialer].pong,
           MayGreet(n), ~MayGreet(n)'
    PROVE  /\ Reserve(n)' + 5 <= Reserve(n) /\ Reserve(n)' \in Nat /\ Reserve(n) \in Nat
           /\ Reserve(Other(n))' + 1 <= Reserve(Other(n))
           /\ Reserve(Other(n))' \in Nat /\ Reserve(Other(n)) \in Nat
<1>1. Other(n) \in Nodes /\ Other(Other(n)) = n
  BY TwoNodes
<1>2. 5 <= FreedBy(n)
  BY DEF FreedBy, Freed, If
<1>3. 1 <= FreedBy(Other(n))
  <2>1. MayGreet(Other(Other(n))) /\ ~MayGreet(Other(Other(n)))'
    BY <1>1
  <2> QED
    BY <2>1 DEF FreedBy, Freed, If
<1>4. Reserve(n)' + 5 <= Reserve(n)
  BY <1>2, ReserveFreed
<1>5. Reserve(Other(n))' + 1 <= Reserve(Other(n))
  BY <1>1, <1>3, ReserveFreed
<1>6. /\ Reserve(n)' \in Nat /\ Reserve(n) \in Nat
      /\ Reserve(Other(n))' \in Nat /\ Reserve(Other(n)) \in Nat
  BY <1>1, ReserveFalls
<1> QED
  BY <1>4, <1>5, <1>6

\* So does a PING.
LEMMA ReservePings ==
    ASSUME TypeInv, [Next]_vars, NEW n \in Nodes, flags[Dialer].pong, ~flags'[Dialer].pong
    PROVE  Reserve(n)' + 1 <= Reserve(n) /\ Reserve(n)' \in Nat /\ Reserve(n) \in Nat
<1>1. 1 <= FreedBy(n)
  BY DEF FreedBy, Freed, If
<1> QED
  BY <1>1, ReserveFreed, ReserveFalls

LEMMA ReservePongs ==
    ASSUME TypeInv, [Next]_vars, NEW n \in Nodes
    PROVE  Reserve(n)' <= Reserve(n) + 1 /\ Reserve(n)' \in Nat /\ Reserve(n) \in Nat
<1>1. \A a, b, c, d : Freed(n, a, b, c, d) \in Nat
  BY DEF Freed, If
<1>2. If(~flags[Dialer].pong /\ flags'[Dialer].pong, 1) \in {0, 1}
  BY DEF If
<1>3. PICK f \in Nat, g \in {0, 1} : Reserve(n)' + f <= Reserve(n) + g
  BY <1>1, <1>2, ReserveFalls
<1> QED
  BY <1>3, ReserveFalls

LEMMA ReserveAccepts ==
    ASSUME TypeInv, [Next]_vars, flags' = flags, state[Acceptor] = "none",
           state'[Acceptor] # "none"
    PROVE  /\ Reserve(Acceptor)' + 1 <= Reserve(Acceptor)
           /\ Reserve(Acceptor)' \in Nat /\ Reserve(Acceptor) \in Nat
<1>0. Acceptor \in Nodes
  BY DEF Nodes
<1>1. 1 <= FreedBy(Acceptor)
  BY DEF FreedBy, Freed, If
<1> QED
  BY <1>0, <1>1, ReserveFreed, ReserveFalls

-----------------------------------------------------------------------------
(* No step adds more to the load than it takes from it *)

LEMMA LoadLighter ==
    ASSUME TypeInv, QueueInv, LoadInv, RoundInv, [Next]_vars, \A k \in Nodes : Lighter(k),
           flags'[Dialer].pong => flags[Dialer].pong, rounds' = rounds
    PROVE  LoadInv'
<1> SUFFICES ASSUME NEW n \in Nodes
             PROVE  Load(n)' <= 8 + rounds'
  BY DEF LoadInv
<1> DEFINE m == Other(n)
<1>1. m \in Nodes
  BY TwoNodes
<1>2. /\ OwnOf(n)' <= OwnOf(n) /\ OwnOf(n)' \in Nat
      /\ OthersOf(m)' <= OthersOf(m) /\ OthersOf(m)' \in Nat
  BY <1>1 DEF Lighter
<1>3. OwnOf(n) \in Nat /\ OthersOf(m) \in Nat
  BY <1>1, LoadType
<1>4. Reserve(n)' <= Reserve(n) /\ Reserve(n)' \in Nat /\ Reserve(n) \in Nat
  BY ReserveKept
<1>5. /\ Load(n) = OwnOf(n) + OthersOf(m) + Reserve(n)
      /\ Load(n)' = OwnOf(n)' + OthersOf(m)' + Reserve(n)'
  BY DEF Load
<1> HIDE DEF m
<1>6. OwnOf(n)' + OthersOf(m)' + Reserve(n)' <= OwnOf(n) + OthersOf(m) + Reserve(n)
  BY <1>2, <1>3, <1>4
<1>7. OwnOf(n) + OthersOf(m) + Reserve(n) <= 8 + rounds /\ rounds \in Nat
  BY <1>5, LimitsAssumption DEF LoadInv, RoundInv
<1>8. OwnOf(n)' + OthersOf(m)' + Reserve(n)' <= 8 + rounds
  BY <1>2, <1>3, <1>4, <1>6, <1>7
<1> QED
  BY <1>5, <1>8

\* Where nothing of the reserve is needed.
LEMMA LoadKept ==
    ASSUME TypeInv, QueueInv, QueueInv', LoadInv, RoundInv, [Next]_vars,
           NEW n \in Nodes, NEW taken, NEW msgs, Moves(n, taken, msgs),
           NEW x \in Nat, rounds' = rounds + x,
           flags'[Dialer].pong => flags[Dialer].pong,
           Own(msgs) <= Others(taken) + x, Others(msgs) <= Own(taken) + x
    PROVE  LoadInv'
<1>1. Other(n) \in Nodes /\ rounds \in Nat
  BY TwoNodes, LimitsAssumption DEF RoundInv
<1>2. /\ Own(msgs) \in Nat /\ Others(msgs) \in Nat
      /\ Own(taken) \in Nat /\ Others(taken) \in Nat
  BY LeadsTo DEF Moves
<1>3. /\ Reserve(n)' <= Reserve(n) /\ Reserve(n)' \in Nat /\ Reserve(n) \in Nat
      /\ Reserve(Other(n))' <= Reserve(Other(n))
      /\ Reserve(Other(n))' \in Nat /\ Reserve(Other(n)) \in Nat
  BY <1>1, ReserveKept
<1>4. \A a, b, r, s \in Nat : a <= b + x /\ r <= s => a + r <= b + s + x
  OBVIOUS
<1>5. /\ Own(msgs) + Reserve(n)' <= Others(taken) + Reserve(n) + x
      /\ Others(msgs) + Reserve(Other(n))' <= Own(taken) + Reserve(Other(n)) + x
  BY <1>2, <1>3, <1>4
<1> QED
  BY <1>1, <1>5, LoadBalance

\* Where a node leaves the state in which it may greet.
LEMMA LoadGreets ==
    ASSUME TypeInv, QueueInv, QueueInv', LoadInv, RoundInv, [Next]_vars,
           NEW n \in Nodes, NEW taken, NEW msgs, Moves(n, taken, msgs), rounds' = rounds,
           flags'[Dialer].pong => flags[Dialer].pong, MayGreet(n), ~MayGreet(n)',
           Own(msgs) <= 5, Others(msgs) <= Own(taken) + 1
    PROVE  LoadInv'
<1>1. Other(n) \in Nodes /\ rounds \in Nat /\ rounds' = rounds + 0
  BY TwoNodes, LimitsAssumption DEF RoundInv
<1>2. /\ Own(msgs) \in Nat /\ Others(msgs) \in Nat
      /\ Own(taken) \in Nat /\ Others(taken) \in Nat
  BY LeadsTo DEF Moves
<1>3. /\ Reserve(n)' + 5 <= Reserve(n) /\ Reserve(n)' \in Nat /\ Reserve(n) \in Nat
      /\ Reserve(Other(n))' + 1 <= Reserve(Other(n))
      /\ Reserve(Other(n))' \in Nat /\ Reserve(Other(n)) \in Nat
  BY ReserveGreets
<1>4. \A a, b, r, s \in Nat : /\ a <= 5 /\ r + 5 <= s => a + r <= b + s + 0
                              /\ a <= b + 1 /\ r + 1 <= s => a + r <= b + s + 0
  OBVIOUS
<1>5. /\ Own(msgs) + Reserve(n)' <= Others(taken) + Reserve(n) + 0
      /\ Others(msgs) + Reserve(Other(n))' <= Own(taken) + Reserve(Other(n)) + 0
  BY <1>2, <1>3, <1>4
<1> QED
  BY <1>1, <1>5, LoadBalance

\* Taking the first message, and queueing an answer or none.
LEMMA MovesTaken ==
    ASSUME QueueInv, NEW n \in Nodes, NEW msgs \in Seq(From(n)),
           inbox[n] # <<>>, inbox' = [inbox EXCEPT ![n] = Tail(@)], wire' = wire,
           Queue(n, msgs) \/ (outbox' = outbox /\ msgs = <<>>)
    PROVE  Moves(n, <<Head(inbox[n])>>, msgs)
<1>1. /\ Other(n) \in Nodes /\ Other(n) # n /\ DOMAIN inbox = Nodes /\ DOMAIN outbox = Nodes
      /\ inbox[n] \in Seq(From(Other(n))) /\ outbox[n] \in Seq(From(n))
  BY TwoNodes DEF QueueInv
<1>2. /\ Head(inbox[n]) \in From(Other(n)) /\ Tail(inbox[n]) \in Seq(From(Other(n)))
      /\ inbox[n] = <<Head(inbox[n])>> \o Tail(inbox[n])
  BY <1>1
<1>3. outbox'[n] = outbox[n] \o msgs /\ outbox'[Other(n)] = outbox[Other(n)]
  BY <1>1, ConcatEmptySeq DEF Queue
<1> QED
  BY <1>1, <1>2, <1>3 DEF Moves

LEMMA MovesQueued ==
    ASSUME QueueInv, NEW n \in Nodes, NEW msgs \in Seq(From(n)),
           inbox' = inbox, wire' = wire,
           Queue(n, msgs) \/ (outbox' = outbox /\ msgs = <<>>)
    PROVE  Moves(n, <<>>, msgs)
<1>1. /\ Other(n) \in Nodes /\ Other(n) # n /\ DOMAIN outbox = Nodes
      /\ inbox[n] \in Seq(From(Other(n))) /\ outbox[n] \in Seq(From(n))
      /\ inbox[Other(n)] = inbox'[Other(n)]
  BY TwoNodes DEF QueueInv
<1>2. inbox[n] = <<>> \o inbox[n] /\ <<>> \in Seq(From(Other(n)))
  BY <1>1, ConcatEmptySeq
<1>3. outbox'[n] = outbox[n] \o msgs /\ outbox'[Other(n)] = outbox[Other(n)]
  BY <1>1, ConcatEmptySeq DEF Queue
<1> QED
  BY <1>1, <1>2, <1>3 DEF Moves

\* What the answers lead to.
LEMMA AnswersLeadTo ==
    ASSUME NEW n \in Nodes
    PROVE  /\ Own(Hello(n)) = 1 /\ Others(Hello(n)) = 0
           /\ Own(Greeting(n)) = 5 /\ Others(Greeting(n)) = 2
           /\ Own(<<Newer>>) = 1 /\ Others(<<Newer>>) = 0
           /\ Own(<<PortGet>> \o <<PeerListSend>>) = 2
           /\ Others(<<PortGet>> \o <<PeerListSend>>) = 2
           /\ Own(<<>> \o <<PeerListSend>>) = 1 /\ Others(<<>> \o <<PeerListSend>>) = 1
           /\ Own(<<PeerListSend>>) = 1 /\ Others(<<PeerListSend>>) = 1
           /\ Own(<<Ping>>) = 1 /\ Others(<<Ping>>) = 1
           /\ Own(<<Pong>>) = 1 /\ Others(<<Pong>>) = 1
           /\ Own(<<PortSend>>) = 1 /\ Others(<<PortSend>>) = 0
           /\ \A modes : Own(<<PeerListGet(modes)>>) = 1 /\ Others(<<PeerListGet(modes)>>) = 0
<1>1. /\ Own(<<Version(n)>>) = 1 /\ Others(<<Version(n)>>) = 0
      /\ Own(<<TestNet(n)>>) = 1 /\ Others(<<TestNet(n)>>) = 0
      /\ Own(<<Newer>>) = 1 /\ Others(<<Newer>>) = 0
  BY LeadsToOne DEF Version, TestNet, Newer, Answered, If
<1>2. Own(<<NodeMode(n)>>) = 3 /\ Others(<<NodeMode(n)>>) = 2
  BY LeadsToOne DEF NodeMode, Answered, If
<1>3. /\ Own(<<PeerListSend>>) = 1 /\ Others(<<PeerListSend>>) = 1
      /\ Own(<<PortGet>>) = 1 /\ Others(<<PortGet>>) = 1
      /\ Own(<<Ping>>) = 1 /\ Others(<<Ping>>) = 1
      /\ Own(<<Pong>>) = 1 /\ Others(<<Pong>>) = 1
  BY LeadsToOne DEF PeerListSend, PortGet, Ping, Pong, Answered, If
<1>4. /\ Own(<<PortSend>>) = 1 /\ Others(<<PortSend>>) = 0
      /\ \A modes : Own(<<PeerListGet(modes)>>) = 1 /\ Others(<<PeerListGet(modes)>>) = 0
  BY LeadsToOne DEF PortSend, PeerListGet, Answered, If
<1> DEFINE v == <<Version(n)>>
           t == <<TestNet(n)>>
           o == <<NodeMode(n)>>
           S == {Version(n), TestNet(n), NodeMode(n), PortGet, PeerListSend}
<1>5. /\ v \in Seq(S) /\ t \in Seq(S) /\ o \in Seq(S) /\ v \o t \in Seq(S)
      /\ Greeting(n) = (v \o t) \o o /\ Hello(n) = v
  BY DEF Greeting, Hello
<1>6. /\ Own(v \o t) = Own(v) + Own(t) /\ Others(v \o t) = Others(v) + Others(t)
      /\ Own((v \o t) \o o) = Own(v \o t) + Own(o)
      /\ Others((v \o t) \o o) = Others(v \o t) + Others(o)
  BY <1>5, LeadsTo
<1>7. Own(Greeting(n)) = 5 /\ Others(Greeting(n)) = 2
  BY <1>1, <1>2, <1>5, <1>6
<1>8. <<PortGet>> \in Seq(S) /\ <<PeerListSend>> \in Seq(S) /\ <<>> \in Seq(S)
  OBVIOUS
<1>9. /\ Own(<<PortGet>> \o <<PeerListSend>>) = Own(<<PortGet>>) + Own(<<PeerListSend>>)
      /\ Others(<<PortGet>> \o <<PeerListSend>>)
           = Others(<<PortGet>>) + Others(<<PeerListSend>>)
  BY <1>8, LeadsTo
<1>10. <<>> \o <<PeerListSend>> = <<PeerListSend>>
  OBVIOUS
<1>11. Own(<<PortGet>> \o <<PeerListSend>>) = 2 /\ Others(<<PortGet>> \o <<PeerListSend>>) = 2
  BY <1>3, <1>9
<1>12. Own(Hello(n)) = 1 /\ Others(Hello(n)) = 0
  BY <1>1, <1>5
<1>13. Own(<<>> \o <<PeerListSend>>) = 1 /\ Others(<<>> \o <<PeerListSend>>) = 1
  BY <1>3, <1>10
<1> QED
  BY <1>1, <1>3, <1>4, <1>7, <1>11, <1>12, <1>13

LEMMA ProcessLoad ==
    ASSUME TypeInv, QueueInv, QueueInv', LoadInv, RoundInv, NEW n \in Nodes, ProcessMessage(n)
    PROVE  LoadInv'
<1> DEFINE h == Head(inbox[n])
<1> USE DEF mntVars
<1>0. flags \in [Nodes -> EntryType] /\ Dialer \in Nodes /\ n \in Nodes
  BY DEF TypeInv, Nodes
<1>1. /\ inbox[n] # <<>> /\ inbox' = [inbox EXCEPT ![n] = Tail(@)] /\ wire' = wire
      /\ rounds' = rounds /\ Serves("msghand", n)
  BY DEF ProcessMessage, RefuseEarly, HandleVersion, HandleTestNet, HandleNodeMode,
         HandleRequest, HandleNotice, HandleListRequest, HandleList, Takes
<1>2. [Next]_vars
  BY DEF Next
<1>3. rounds' = rounds + 0 /\ rounds \in Nat
  BY <1>1, LimitsAssumption DEF RoundInv
<1>4. /\ Own(<<h>>) = 1 + If(h.subject = "NODEMODE", 2)
      /\ Others(<<h>>) = If(h.subject = "NODEMODE", 2) + If(h.subject \in Answered, 1)
      /\ Own(<<h>>) >= 1 /\ Own(<<h>>) \in Nat /\ Others(<<h>>) \in Nat
  BY LeadsToOne DEF If
<1>5. outbox' = outbox => Moves(n, <<h>>, <<>>)
  <2>1. <<>> \in Seq(From(n))
    OBVIOUS
  <2> QED
    BY <1>1, <2>1, MovesTaken
<1> HIDE DEF h
\* Nothing is queued, or no more than what is taken leads to.
<1>6. ASSUME outbox' = outbox, flags'[Dialer].pong => flags[Dialer].pong
      PROVE  LoadInv'
  <2>1. Own(<<>>) <= Others(<<h>>) + 0 /\ Others(<<>>) <= Own(<<h>>) + 0
    BY <1>4, LeadsToEmpty
  <2> QED
    BY <1>2, <1>3, <1>5, <1>6, <2>1, LoadKept
<1>7. ASSUME NEW msgs \in Seq(From(n)), Queue(n, msgs),
             flags'[Dialer].pong => flags[Dialer].pong,
             Own(msgs) <= Others(<<h>>) + 0, Others(msgs) <= Own(<<h>>) + 0
      PROVE  LoadInv'
  <2>1. Moves(n, <<h>>, msgs)
    BY <1>1, <1>7, MovesTaken DEF h
  <2> QED
    BY <1>2, <1>3, <1>7, <2>1, LoadKept
<1>8. ASSUME NEW msgs \in Seq(From(n)), Queue(n, msgs), MayGreet(n), ~MayGreet(n)',
             flags'[Dialer].pong => flags[Dialer].pong,
             Own(msgs) <= 5, Others(msgs) <= Own(<<h>>) + 1
      PROVE  LoadInv'
  <2>1. Moves(n, <<h>>, msgs)
    BY <1>1, <1>8, MovesTaken DEF h
  <2> QED
    BY <1>1, <1>2, <1>8, <2>1, LoadGreets
<1>9. Refuse(n) => flags'[Dialer].pong = flags[Dialer].pong
  BY <1>0, Marked DEF Refuse
<1>10. CASE RefuseEarly(n)
  BY <1>6, <1>9, <1>10 DEF RefuseEarly
<1>11. CASE HandleTestNet(n)
  BY <1>6, <1>9, <1>11 DEF HandleTestNet
<1>12. CASE HandleList(n)
  BY <1>6, <1>12 DEF HandleList
<1>13. CASE HandleVersion(n)
  <2>1. ~flags[n].valid => MayGreet(n)
    BY <1>1 DEF MayGreet, Deaf, Serves
  <2>2. CASE flags' = flags /\ outbox' = outbox
    BY <1>6, <2>2
  <2>3. CASE Refuse(n) /\ outbox' = outbox
    BY <1>6, <1>9, <2>3
  <2>4. CASE ~flags[n].valid /\ flags' = [flags EXCEPT ![n].valid = TRUE] /\ Queue(n, Greeting(n))
    <3>1. flags'[n].valid /\ flags'[Dialer].pong = flags[Dialer].pong
      BY <1>0, <2>4 DEF EntryType
    <3>2. ~MayGreet(n)'
      BY <3>1 DEF MayGreet
    <3>3. Own(Greeting(n)) <= 5 /\ Others(Greeting(n)) <= Own(<<h>>) + 1
      BY <1>4, AnswersLeadTo
    <3> QED
      BY <1>8, <2>1, <2>4, <3>1, <3>2, <3>3, MayBeSaid
  <2>5. CASE /\ ~flags[n].valid /\ Older(n, h.version)
             /\ Queue(n, <<Newer>>) /\ Refuse(n)
    <3>1. ~MayGreet(n)'
      BY <2>5, RefuseDeafens DEF MayGreet
    <3>2. node[Other(n)].version < node[n].version
      <4>1. h.subject = "VERSION"
        BY <1>13 DEF HandleVersion, Takes, h
      <4> QED
        BY <1>1, <2>5, <4>1, TakenIsFrom, TwoNodes, Subject DEF Older, h
    <3>3. Own(<<Newer>>) <= 5 /\ Others(<<Newer>>) <= Own(<<h>>) + 1
      BY <1>4, AnswersLeadTo
    <3>4. <<Newer>> \in Seq(From(n))
      BY <3>2, MayBeSaid
    <3> QED
      BY <1>8, <1>9, <2>1, <2>5, <3>1, <3>3, <3>4
  <2> QED
    BY <1>13, <2>2, <2>3, <2>4, <2>5 DEF HandleVersion, IgnoresVersion, h
<1>14. CASE HandleNodeMode(n)
  <2>1. h.subject = "NODEMODE"
    BY <1>14 DEF HandleNodeMode, Takes, h
  <2>2. Own(<<h>>) = 3 /\ Others(<<h>>) = 2
    BY <1>4, <2>1 DEF If, Answered
  <2>3. flags' = [flags EXCEPT ![n].mode = ModeOf(h.fn)]
    BY <1>14 DEF HandleNodeMode, h
  <2>4. flags'[Dialer].pong = flags[Dialer].pong
    BY <1>0, <2>3 DEF EntryType
  <2>5. PICK msgs \in {<<PortGet>> \o <<PeerListSend>>, <<>> \o <<PeerListSend>>} :
           Queue(n, msgs)
    BY <1>14 DEF HandleNodeMode, h
  <2>6. /\ \/ Own(msgs) = 2 /\ Others(msgs) = 2
           \/ Own(msgs) = 1 /\ Others(msgs) = 1
        /\ msgs \in Seq(From(n))
    BY <2>5, AnswersLeadTo, MayBeSaid, Zenon
  <2> QED
    BY <1>7, <2>2, <2>4, <2>5, <2>6
<1>15. CASE HandleRequest(n)
  <2>1. h.subject \in {"PORT_GET", "PING"}
    BY <1>15 DEF HandleRequest, Takes, h
  <2>2. Own(<<h>>) = 1 /\ Others(<<h>>) = 1
    BY <1>4, <2>1 DEF If, Answered
  <2>3. PICK msgs \in {<<Pong>>, <<PortSend>>} : Queue(n, msgs)
    BY <1>15 DEF HandleRequest
  <2>4. /\ Own(msgs) = 1 /\ (Others(msgs) = 0 \/ Others(msgs) = 1)
        /\ msgs \in Seq(From(n))
    BY <2>3, AnswersLeadTo, MayBeSaid, Zenon
  <2>5. flags' = flags
    BY <1>15 DEF HandleRequest
  <2> QED
    BY <1>7, <2>2, <2>3, <2>4, <2>5
<1>16. CASE HandleListRequest(n)
  <2>1. PICK others \in OtherPeers :
          IF others = {} THEN UNCHANGED outbox
          ELSE Queue(n, <<PeerListGet(IF flags[n].mode = "fn" THEN others ELSE {})>>)
    BY <1>16 DEF HandleListRequest
  <2>2. others \in SUBSET Modes /\ {} \in SUBSET Modes
    BY LimitsAssumption
  <2>3. flags' = flags /\ h.subject = "PEER_LIST_SEND"
    BY <1>16 DEF HandleListRequest, Takes, h
  <2>4. Own(<<h>>) = 1 /\ Others(<<h>>) = 1
    BY <1>4, <2>3 DEF If, Answered
  <2>5. CASE outbox' = outbox
    BY <1>6, <2>3, <2>5
  <2>6. ASSUME NEW modes \in SUBSET Modes, Queue(n, <<PeerListGet(modes)>>)
        PROVE  LoadInv'
    <3>1. /\ Own(<<PeerListGet(modes)>>) <= 1 + 0 /\ Others(<<PeerListGet(modes)>>) <= 1 + 0
          /\ <<PeerListGet(modes)>> \in Seq(From(n))
      BY AnswersLeadTo, MayBeSaid
    <3> QED
      BY <1>7, <2>3, <2>4, <2>6, <3>1
  <2> QED
    BY <2>1, <2>2, <2>5, <2>6
<1>17. CASE HandleNotice(n)
  <2>1. outbox' = outbox
    BY <1>17 DEF HandleNotice
  <2>2. CASE h.subject = "PONG"
    <3>1. Moves(n, <<h>>, <<>>)
      BY <1>5, <2>1
    <3>2. Own(<<h>>) = 1 /\ Others(<<h>>) = 1
      BY <1>4, <2>2 DEF If, Answered
    <3>3. Other(n) \in Nodes
      BY TwoNodes
    <3>4. /\ Reserve(n)' <= Reserve(n) + 1 /\ Reserve(n)' \in Nat /\ Reserve(n) \in Nat
          /\ Reserve(Other(n))' <= Reserve(Other(n)) + 1
          /\ Reserve(Other(n))' \in Nat /\ Reserve(Other(n)) \in Nat
      BY <1>2, <3>3, ReservePongs
    <3>5. /\ Own(<<>>) + Reserve(n)' <= Others(<<h>>) + Reserve(n) + 0
          /\ Others(<<>>) + Reserve(Other(n))' <= Own(<<h>>) + Reserve(Other(n)) + 0
      BY <3>2, <3>4, LeadsToEmpty
    <3> QED
      BY <1>3, <3>1, <3>5, LoadBalance
  <2>3. CASE h.subject # "PONG"
    <3>1. flags' = [flags EXCEPT ![n] = [[flags[n] EXCEPT !.port = @ \/ h.subject = "PORT_SEND"]
                                            EXCEPT !.pong = @ \/ h.subject = "PONG"]]
      BY <1>0, <1>17 DEF HandleNotice, EntryType, h
    <3>2. flags'[Dialer].pong => flags[Dialer].pong
      BY <1>0, <2>3, <3>1 DEF EntryType
    <3> QED
      BY <1>6, <2>1, <3>2
  <2> QED
    BY <2>2, <2>3
<1> QED
  BY <1>10, <1>11, <1>12, <1>13, <1>14, <1>15, <1>16, <1>17 DEF ProcessMessage

LEMMA RoundStep ==
    ASSUME RoundInv, [Next]_vars
    PROVE  RoundInv'
<1>1. MaxRounds \in Nat
  BY LimitsAssumption
<1>2. CASE MaintainPing
  BY <1>2 DEF MaintainPing, RoundInv
<1>3. CASE MaintainRequest
  BY <1>1, <1>3 DEF MaintainRequest, RoundInv
<1>4. CASE UNCHANGED <<mnt, rounds>>
  BY <1>4 DEF RoundInv
<1> QED
  BY <1>2, <1>3, <1>4 DEF Next, vars, mntVars, Connect, Accept, Break, PassEnds, Send, Recv,
     Erase, ProcessMessage, RefuseEarly, HandleVersion, HandleTestNet, HandleNodeMode,
     HandleRequest, HandleNotice, HandleListRequest, HandleList

LEMMA LoadInit == Init => LoadInv /\ RoundInv
<1> SUFFICES ASSUME Init PROVE LoadInv /\ RoundInv
  OBVIOUS
<1>1. RoundInv
  BY LimitsAssumption DEF Init, RoundInv
<1>2. ASSUME NEW n \in Nodes
      PROVE  OwnOf(n) = 0 /\ OthersOf(n) = 0
  <2>1. outbox[n] = <<>> /\ wire[n] = <<>> /\ inbox[Other(n)] = <<>>
    BY TwoNodes DEF Init
  <2> QED
    BY <2>1, LeadsToEmpty DEF OwnOf, OthersOf
<1>3. \A n \in Nodes : Reserve(n) <= 8 /\ Reserve(n) \in Nat
  BY DEF Reserve, If
<1>4. \A n \in Nodes : Load(n) <= 8 + rounds
  BY <1>2, <1>3, TwoNodes DEF Load, Init
<1> QED
  BY <1>1, <1>4 DEF LoadInv

LEMMA LoadStep ==
    ASSUME TypeInv, QueueInv, QueueInv', LoadInv, RoundInv, [Next]_vars
    PROVE  LoadInv'
<1> USE DEF mntVars
<1>0. /\ flags \in [Nodes -> EntryType] /\ Dialer \in Nodes /\ Acceptor \in Nodes
      /\ Other(Acceptor) = Dialer /\ Other(Dialer) = Acceptor
      /\ rounds \in Nat /\ rounds + 0 = rounds
  BY NodesAssumption, LimitsAssumption DEF TypeInv, Nodes, Other, RoundInv
<1>1. CASE \/ Break \/ Connect \/ PassEnds \/ UNCHANGED vars
           \/ \E n \in Nodes : Send(n) \/ Recv(n) \/ Erase(n)
  <2>1. \A k \in Nodes : Lighter(k)
    BY <1>1, OthersLoad
  <2>2. rounds' = rounds
    BY <1>1 DEF Break, Connect, PassEnds, vars, Send, Recv, Erase
  <2>3. flags' = flags \/ \E n \in Nodes : MarkDestroy(n)
    BY <1>1 DEF Break, Connect, PassEnds, vars, Send, Recv, Erase
  <2>4. flags'[Dialer].pong = flags[Dialer].pong
    BY <1>0, <2>3, Marked
  <2> QED
    BY <2>1, <2>2, <2>4, LoadLighter
<1>2. CASE Accept
  <2>1. /\ flags' = flags /\ rounds' = rounds + 0 /\ Queue(Acceptor, Hello(Acceptor))
        /\ inbox' = inbox /\ wire' = wire
        /\ state[Acceptor] = "none" /\ state'[Acceptor] # "none"
    BY <1>0, <1>2 DEF Accept, TypeInv
  <2>2. Moves(Acceptor, <<>>, Hello(Acceptor))
    BY <1>0, <2>1, MovesQueued, MayBeSaid
  <2>3. /\ Reserve(Acceptor)' + 1 <= Reserve(Acceptor)
        /\ Reserve(Acceptor)' \in Nat /\ Reserve(Acceptor) \in Nat
    BY <2>1, ReserveAccepts
  <2>4. /\ Reserve(Dialer)' <= Reserve(Dialer)
        /\ Reserve(Dialer)' \in Nat /\ Reserve(Dialer) \in Nat
    BY <1>0, <2>1, ReserveKept
  <2>5. Own(Hello(Acceptor)) = 1 /\ Others(Hello(Acceptor)) = 0
    BY <1>0, AnswersLeadTo
  <2>6. /\ Own(Hello(Acceptor)) + Reserve(Acceptor)' <= Others(<<>>) + Reserve(Acceptor) + 0
        /\ Others(Hello(Acceptor)) + Reserve(Dialer)' <= Own(<<>>) + Reserve(Dialer) + 0
    BY <2>3, <2>4, <2>5, LeadsToEmpty
  <2> QED
    BY <1>0, <2>1, <2>2, <2>6, LoadBalance
<1>3. CASE MaintainPing
  <2>1. inbox' = inbox /\ wire' = wire /\ rounds' = rounds + 0
    BY <1>0, <1>3 DEF MaintainPing
  <2>2. CASE outbox' = outbox /\ (flags' = flags \/ MarkDestroy(Dialer))
    <3>1. flags'[Dialer].pong = flags[Dialer].pong
      BY <1>0, <2>2, Marked
    <3>2. Moves(Dialer, <<>>, <<>>)
      <4>1. <<>> \in Seq(From(Dialer))
        OBVIOUS
      <4> QED
        BY <1>0, <2>1, <2>2, <4>1, MovesQueued
    <3>3. Own(<<>>) <= Others(<<>>) + 0 /\ Others(<<>>) <= Own(<<>>) + 0
      BY LeadsToEmpty
    <3> QED
      BY <1>0, <2>1, <3>1, <3>2, <3>3, LoadKept
  <2>3. CASE /\ flags[Dialer].pong /\ Queue(Dialer, <<Ping>>)
             /\ flags' = [flags EXCEPT ![Dialer].pong = FALSE]
    <3>1. ~flags'[Dialer].pong
      BY <1>0, <2>3 DEF EntryType
    <3>2. Moves(Dialer, <<>>, <<Ping>>)
      BY <1>0, <2>1, <2>3, MovesQueued, MayBeSaid
    <3>3. /\ Reserve(Dialer)' + 1 <= Reserve(Dialer)
          /\ Reserve(Dialer)' \in Nat /\ Reserve(Dialer) \in Nat
          /\ Reserve(Acceptor)' + 1 <= Reserve(Acceptor)
          /\ Reserve(Acceptor)' \in Nat /\ Reserve(Acceptor) \in Nat
      BY <1>0, <2>3, <3>1, ReservePings
    <3>4. Own(<<Ping>>) = 1 /\ Others(<<Ping>>) = 1
      BY <1>0, AnswersLeadTo
    <3>5. /\ Own(<<Ping>>) + Reserve(Dialer)' <= Others(<<>>) + Reserve(Dialer) + 0
          /\ Others(<<Ping>>) + Reserve(Acceptor)' <= Own(<<>>) + Reserve(Acceptor) + 0
      BY <3>3, <3>4, LeadsToEmpty
    <3> QED
      BY <1>0, <2>1, <3>2, <3>5, LoadBalance
  <2> QED
    BY <1>3, <2>2, <2>3 DEF MaintainPing
<1>4. CASE MaintainRequest
  <2>1. inbox' = inbox /\ wire' = wire /\ rounds' = rounds + 1 /\ flags' = flags
    BY <1>4 DEF MaintainRequest
  <2>2. CASE outbox' = outbox
    <3>1. Moves(Dialer, <<>>, <<>>)
      <4>1. <<>> \in Seq(From(Dialer))
        OBVIOUS
      <4> QED
        BY <1>0, <2>1, <2>2, <4>1, MovesQueued
    <3>2. Own(<<>>) <= Others(<<>>) + 1 /\ Others(<<>>) <= Own(<<>>) + 1
      BY LeadsToEmpty
    <3> QED
      BY <1>0, <2>1, <3>1, <3>2, LoadKept
  <2>3. CASE Queue(Dialer, <<PeerListSend>>)
    <3>1. Moves(Dialer, <<>>, <<PeerListSend>>)
      BY <1>0, <2>1, <2>3, MovesQueued, MayBeSaid
    <3>2. /\ Own(<<PeerListSend>>) <= Others(<<>>) + 1
          /\ Others(<<PeerListSend>>) <= Own(<<>>) + 1
      BY <1>0, AnswersLeadTo, LeadsToEmpty
    <3> QED
      BY <1>0, <2>1, <3>1, <3>2, LoadKept
  <2> QED
    BY <1>4, <2>2, <2>3 DEF MaintainRequest
<1>5. CASE \E n \in Nodes : ProcessMessage(n)
  BY <1>5, ProcessLoad
<1> QED
  BY <1>1, <1>2, <1>3, <1>4, <1>5 DEF Next

-----------------------------------------------------------------------------
(* Never more is pending than the queue of received messages takes *)

\* The queue takes the messages of a handshake, a PING, and a list for each round.
Roomy == 8 + MaxRounds <= MaxMsgQueue

\* What is pending never leads to more than eight messages, and one for each round of
\* Maintainer that has ended.
THEOREM LoadTheorem == Spec => [](LoadInv /\ RoundInv)
<1>1. Init => LoadInv /\ RoundInv
  BY LoadInit
<1>2. IndInv /\ IndInv' /\ LoadInv /\ RoundInv /\ [Next]_vars => LoadInv' /\ RoundInv'
  BY LoadStep, RoundStep DEF IndInv
<1> QED
  BY <1>1, <1>2, IndInvTheorem, PTL DEF Spec

LEMMA PendingFits ==
    ASSUME Roomy, QueueInv, LoadInv, RoundInv, NEW n \in Nodes
    PROVE  Len(Pending(n)) <= MaxMsgQueue
<1>1. Other(n) \in Nodes
  BY TwoNodes
<1>2. /\ OwnOf(n) \in Nat /\ OthersOf(Other(n)) \in Nat /\ Reserve(n) \in Nat
      /\ Len(Pending(n)) <= OwnOf(n)
  BY <1>1, LoadType
<1>3. OwnOf(n) + OthersOf(Other(n)) + Reserve(n) <= 8 + rounds
  BY DEF LoadInv, Load
<1>4. rounds \in Nat /\ rounds <= MaxRounds /\ MaxRounds \in Nat /\ MaxMsgQueue \in Nat
  BY LimitsAssumption DEF RoundInv
<1>5. 8 + rounds <= MaxMsgQueue
  BY <1>4 DEF Roomy
<1>6. OwnOf(n) <= MaxMsgQueue
  BY <1>2, <1>3, <1>4, <1>5
<1>7. Len(Pending(n)) \in Nat
  <2>1. outbox[n] \in Seq(From(n)) /\ wire[n] \in Seq(From(n)) /\ inbox[Other(n)] \in Seq(From(n))
    BY DEF QueueInv
  <2>2. Pending(n) \in Seq(From(n))
    BY <2>1 DEF Pending
  <2> QED
    BY <2>2
<1>8. \A a, b, c \in Nat : a <= b /\ b <= c => a <= c
  OBVIOUS
<1> QED
  BY <1>2, <1>4, <1>6, <1>7, <1>8

\* Every variable stays in its range, and ReceiveMsgBytes (io/netPeers.cpp) never gets to
\* drop the rest of a buffer: the queue of received messages takes what is pending.
THEOREM TypeTheorem ==
    ASSUME Roomy
    PROVE  Spec => []TypeOK
<1>1. IndInv /\ LoadInv /\ RoundInv => TypeOK
  <2> SUFFICES ASSUME IndInv, LoadInv, RoundInv
               PROVE  TypeOK
    OBVIOUS
  <2>1. TypeInv /\ QueueInv
    BY DEF IndInv
  <2>2. ASSUME NEW n \in Nodes
        PROVE  MessageSubjects(Pending(n)) \subseteq Subjects /\ Len(Pending(n)) <= MaxMsgQueue
    <3>1. Pending(n) \in Seq(From(n))
      BY <2>1 DEF Pending, QueueInv
    <3>2. \A i \in DOMAIN Pending(n) : Pending(n)[i] \in From(n)
      BY <3>1
    <3> QED
      BY <2>1, <3>2, Subject, PendingFits DEF MessageSubjects
  <2> QED
    BY <2>1, <2>2 DEF TypeOK, TypeInv, EntryType, RoundInv
<1> QED
  BY <1>1, IndInvTheorem, LoadTheorem, PTL

-----------------------------------------------------------------------------
(***************************************************************************)
(* Why TESTNET is among the first three: before a node is valid it says at *)
(* most one thing, and with the answer that makes it valid, its network.   *)
(***************************************************************************)

\* Messages of node m that are pending, and how many of them it may have said before it
\* is valid: the greeting of the accepting node, the first PING of the dialling one, and
\* VERSION_NEWER, after which it takes no more messages.
Said(m) == Len(inbox[Other(m)]) + Len(wire[m]) + Len(outbox[m])

Spoken(m) ==
    If(m = Acceptor /\ state[m] # "none", 1) + If(m = Dialer /\ ~flags[m].pong, 1)
      + If(Deaf(m), 1)

Early(m) == ~flags[m].valid => Said(m) <= Spoken(m)

GreetInv == \A m \in Nodes : Near(m) /\ Early(m)

LEMMA By3Less ==
    ASSUME NEW j \in Nat, NEW k \in Nat, j <= k, NEW M, NEW s \in Seq(M), By3(k, s)
    PROVE  By3(j, s)
  BY DEF By3

LEMMA By3Empty == \A k : By3(k, <<>>)
  BY DEF By3

LEMMA By3None ==
    ASSUME NEW s, NEW k, ~Named(s)
    PROVE  By3(k, s)
  BY DEF By3, Named

LEMMA By3Concat ==
    ASSUME NEW M, NEW p \in Seq(M), NEW q \in Seq(M), NEW k \in Nat
    PROVE  By3(k, p \o q) <=> By3(k, p) /\ By3(k + Len(p), q)
<1> DEFINE r == p \o q
<1>1. /\ Len(r) = Len(p) + Len(q) /\ Len(p) \in Nat /\ Len(q) \in Nat
      /\ \A i \in 1..(Len(p) + Len(q)) : r[i] = IF i <= Len(p) THEN p[i] ELSE q[i - Len(p)]
  BY ConcatProperties
<1> HIDE DEF r
<1>2. ASSUME By3(k, r), NEW i \in 1..Len(p), IsTestNet(p[i])
      PROVE  k + i <= 3
  <2>1. i \in 1..Len(r) /\ r[i] = p[i]
    BY <1>1
  <2> QED
    BY <1>2, <2>1 DEF By3
<1>3. ASSUME By3(k, r), NEW i \in 1..Len(q), IsTestNet(q[i])
      PROVE  (k + Len(p)) + i <= 3
  <2>1. /\ Len(p) + i \in 1..Len(r) /\ Len(p) + i \in 1..(Len(p) + Len(q))
        /\ ~(Len(p) + i <= Len(p)) /\ (Len(p) + i) - Len(p) = i
    BY <1>1
  <2>2. r[Len(p) + i] = q[i]
    BY <1>1, <2>1
  <2>3. k + (Len(p) + i) <= 3
    BY <1>3, <2>1, <2>2 DEF By3
  <2> QED
    BY <1>1, <2>3
<1>4. ASSUME By3(k, p), By3(k + Len(p), q), NEW i \in 1..Len(r), IsTestNet(r[i])
      PROVE  k + i <= 3
  <2>1. i \in 1..(Len(p) + Len(q))
    BY <1>1
  <2>2. CASE i <= Len(p)
    <3>1. i \in 1..Len(p) /\ r[i] = p[i]
      BY <1>1, <2>1, <2>2
    <3> QED
      BY <1>4, <3>1 DEF By3
  <2>3. CASE ~(i <= Len(p))
    <3>1. i - Len(p) \in 1..Len(q) /\ r[i] = q[i - Len(p)]
      BY <1>1, <2>1, <2>3
    <3>2. (k + Len(p)) + (i - Len(p)) <= 3
      BY <1>4, <3>1 DEF By3
    <3> QED
      BY <1>1, <3>2
  <2> QED
    BY <2>2, <2>3
<1>5. By3(k, r) => By3(k, p)
  BY <1>2 DEF By3
<1>6. By3(k, r) => By3(k + Len(p), q)
  BY <1>3 DEF By3
<1>7. By3(k, p) /\ By3(k + Len(p), q) => By3(k, r)
  BY <1>4 DEF By3
<1> QED
  BY <1>5, <1>6, <1>7 DEF r

\* Before the connection is valid PONG is not noted.
LEMMA PongWaits ==
    ASSUME TypeInv, [Next]_vars, ~flags[Dialer].pong, ~flags'[Dialer].valid
    PROVE  ~flags'[Dialer].pong
<1> USE DEF mntVars
<1>0. flags \in [Nodes -> EntryType] /\ Dialer \in Nodes /\ ~flags[Dialer].valid
  BY ValidStays DEF TypeInv, Nodes
<1>1. CASE flags' = flags \/ \E k \in Nodes : MarkDestroy(k)
  BY <1>1, <1>0, Marked
<1>2. CASE MaintainPing
  BY <1>0, <1>1, <1>2 DEF MaintainPing
<1>3. ASSUME NEW k \in Nodes, ProcessMessage(k)
      PROVE  ~flags'[Dialer].pong
  <2>1. CASE RefuseEarly(k) \/ HandleTestNet(k) \/ HandleRequest(k) \/ HandleListRequest(k)
             \/ HandleList(k)
    BY <1>1, <2>1 DEF RefuseEarly, HandleTestNet, HandleRequest, HandleListRequest,
       HandleList, Refuse
  <2>2. CASE HandleVersion(k)
    <3>1. CASE flags' = [flags EXCEPT ![k].valid = TRUE]
      BY <1>0, <3>1 DEF EntryType
    <3> QED
      BY <1>1, <2>2, <3>1 DEF HandleVersion, Refuse
  <2>3. CASE HandleNodeMode(k) \/ HandleNotice(k)
    <3>1. CASE k = Dialer
      BY <1>0, <2>3, <3>1 DEF HandleNodeMode, HandleNotice, MaySpeak
    <3>2. CASE k # Dialer
      BY <1>0, <2>3, <3>2 DEF HandleNodeMode, HandleNotice
    <3> QED
      BY <3>1, <3>2
  <2> QED
    BY <1>3, <2>1, <2>2, <2>3 DEF ProcessMessage
<1>4. CASE \E k \in Nodes : Send(k) \/ Recv(k) \/ Erase(k)
  BY <1>1, <1>4 DEF Send, Recv, Erase
<1>5. CASE Connect \/ Accept \/ Break \/ MaintainRequest \/ PassEnds \/ UNCHANGED vars
  BY <1>1, <1>5 DEF Connect, Accept, Break, MaintainRequest, PassEnds, vars
<1> QED
  BY <1>2, <1>3, <1>4, <1>5 DEF Next

LEMMA SpokenGrows ==
    ASSUME TypeInv, [Next]_vars, NEW m \in Nodes
    PROVE  /\ Spoken(m) \in Nat /\ Spoken(m)' \in Nat
           /\ ~flags'[m].valid => Spoken(m) <= Spoken(m)'
           /\ ~Deaf(m) => Spoken(m) <= 1
<1> DEFINE a == m = Acceptor /\ state[m] # "none"
           b == m = Dialer /\ ~flags[m].pong
           c == Deaf(m)
<1>1. a => a'
  BY AcceptedStays DEF Nodes
<1>2. ~flags'[m].valid => (b => b')
  BY PongWaits
<1>3. c => c'
  BY DeafStays
<1>4. ~(a /\ b)
  BY NodesAssumption
<1>5. /\ Spoken(m) = If(a, 1) + If(b, 1) + If(c, 1)
      /\ Spoken(m)' = If(a', 1) + If(b', 1) + If(c', 1)
  BY DEF Spoken, If
<1> HIDE DEF a, b
<1> QED
  BY <1>1, <1>2, <1>3, <1>4, <1>5 DEF If

\* What is pending of a node does not grow, and TESTNET does not fall back.
Shrinks(m) == Near(m)' /\ Said(m)' <= Said(m)

LEMMA SaidType ==
    ASSUME QueueInv, NEW m \in Nodes
    PROVE  /\ outbox[m] \in Seq(From(m)) /\ wire[m] \in Seq(From(m))
           /\ inbox[Other(m)] \in Seq(From(m))
           /\ Len(outbox[m]) \in Nat /\ Len(wire[m]) \in Nat /\ Len(inbox[Other(m)]) \in Nat
           /\ Said(m) \in Nat
<1>1. /\ outbox[m] \in Seq(From(m)) /\ wire[m] \in Seq(From(m))
      /\ inbox[Other(m)] \in Seq(From(m))
  BY DEF QueueInv
<1>2. Len(outbox[m]) \in Nat /\ Len(wire[m]) \in Nat /\ Len(inbox[Other(m)]) \in Nat
  BY <1>1
<1>3. \A a, b, c \in Nat : a + b + c \in Nat
  OBVIOUS
<1> QED
  BY <1>1, <1>2, <1>3, Zenon DEF Said

LEMMA ShrinksCleared ==
    ASSUME QueueInv, NEW m \in Nodes, Near(m),
           outbox'[m] \in {outbox[m], <<>>}, wire'[m] \in {wire[m], <<>>},
           inbox'[Other(m)] \in {inbox[Other(m)], <<>>}
    PROVE  Shrinks(m)
<1> DEFINE o == outbox[m]
           w == wire[m]
           i == inbox[Other(m)]
           p == outbox'[m]
           v == wire'[m]
           j == inbox'[Other(m)]
<1>1. /\ o \in Seq(From(m)) /\ w \in Seq(From(m)) /\ i \in Seq(From(m))
      /\ Len(o) \in Nat /\ Len(w) \in Nat /\ Len(i) \in Nat
  BY SaidType
<1>2. Len(<<>>) = 0
  OBVIOUS
<1>3. By3(0, i) /\ By3(Len(i), w) /\ By3(Len(i) + Len(w), o)
  BY DEF Near
<1>4. p \in {o, <<>>} /\ v \in {w, <<>>} /\ j \in {i, <<>>}
  OBVIOUS
<1>5. Said(m) = Len(i) + Len(w) + Len(o) /\ Said(m)' = Len(j) + Len(v) + Len(p)
  BY DEF Said
<1>6. Near(m)' <=> By3(0, j) /\ By3(Len(j), v) /\ By3(Len(j) + Len(v), p)
  BY DEF Near
<1> HIDE DEF o, w, i, p, v, j
<1>7. /\ Len(p) \in Nat /\ Len(p) <= Len(o) /\ Len(v) \in Nat /\ Len(v) <= Len(w)
      /\ Len(j) \in Nat /\ Len(j) <= Len(i)
  BY <1>1, <1>2, <1>4
<1>8. By3(0, j)
  BY <1>3, <1>4, By3Empty
<1>9. By3(Len(j), v)
  BY <1>1, <1>3, <1>4, <1>7, By3Empty, By3Less
<1>10. By3(Len(j) + Len(v), p)
  <2>1. Len(j) + Len(v) <= Len(i) + Len(w) /\ Len(j) + Len(v) \in Nat /\ Len(i) + Len(w) \in Nat
    BY <1>1, <1>7
  <2> QED
    BY <1>1, <1>3, <1>4, <2>1, By3Empty, By3Less
<1>11. Said(m)' <= Said(m)
  BY <1>1, <1>5, <1>7
<1> QED
  BY <1>6, <1>8, <1>9, <1>10, <1>11 DEF Shrinks

LEMMA SendShrinks ==
    ASSUME QueueInv, NEW n \in Nodes, Send(n), Near(n), Near(Other(n))
    PROVE  \A k \in Nodes : Shrinks(k)
<1> DEFINE m == Other(n)
           h == Head(outbox[n])
           r == Tail(outbox[n])
           w == wire[n]
           i == inbox[m]
<1>0. /\ m \in Nodes /\ m # n /\ Other(m) = n /\ Nodes = {n, m}
      /\ DOMAIN outbox = Nodes /\ DOMAIN wire = Nodes
      /\ outbox[n] # <<>> /\ inbox' = inbox
  BY TwoNodes DEF QueueInv, Send
<1>1. \/ UNCHANGED <<wire, outbox>>
      \/ outbox' = [outbox EXCEPT ![n] = r] /\ wire' = wire
      \/ outbox' = [outbox EXCEPT ![n] = r] /\ wire' = [wire EXCEPT ![n] = Append(@, h)]
  BY DEF Send
<1>2. Shrinks(m)
  <2>1. outbox'[m] = outbox[m] /\ wire'[m] = wire[m] /\ inbox'[n] = inbox[n]
    BY <1>0, <1>1
  <2> QED
    BY <1>0, <2>1, ShrinksCleared
<1>3. Shrinks(n)
  <2>1. CASE UNCHANGED <<wire, outbox>>
    BY <1>0, <2>1, ShrinksCleared
  <2>2. /\ outbox[n] \in Seq(From(n)) /\ w \in Seq(From(n)) /\ i \in Seq(From(n))
        /\ Len(w) \in Nat /\ Len(i) \in Nat
    BY <1>0, SaidType
  <2>3. /\ <<h>> \in Seq(From(n)) /\ r \in Seq(From(n)) /\ outbox[n] = <<h>> \o r
        /\ Append(w, h) = w \o <<h>> /\ w \o <<h>> \in Seq(From(n))
        /\ Len(<<h>>) = 1 /\ Len(r) \in Nat /\ Len(outbox[n]) = Len(r) + 1
        /\ Len(w \o <<h>>) = Len(w) + 1
    BY <1>0, <2>2
  <2>4. By3(0, i) /\ By3(Len(i), w) /\ By3(Len(i) + Len(w), outbox[n])
    BY DEF Near
  <2>5. inbox'[m] = i /\ outbox'[n] \in {outbox[n], r} /\ wire'[n] \in {w, w \o <<h>>}
    BY <1>0, <1>1, <2>3
  <2>6. CASE outbox'[n] = r /\ (wire'[n] = w \/ wire'[n] = w \o <<h>>)
    <3> HIDE DEF h, r, w, i
    <3>1. Len(i) + Len(w) \in Nat /\ (Len(i) + Len(w)) + 1 \in Nat
      BY <2>2
    <3>2. By3(Len(i) + Len(w), <<h>>) /\ By3((Len(i) + Len(w)) + 1, r)
      <4>1. By3(Len(i) + Len(w), <<h>>) /\ By3((Len(i) + Len(w)) + Len(<<h>>), r)
        <5>1. By3(Len(i) + Len(w), <<h>> \o r)
          BY <2>3, <2>4
        <5> QED
          BY <2>3, <3>1, <5>1, By3Concat, Zenon
      <4> QED
        BY <2>3, <4>1
    <3>3. /\ Said(n) = Len(i) + Len(w) + (Len(r) + 1)
          /\ Said(n)' = Len(i) + Len(wire'[n]) + Len(r)
      BY <2>3, <2>5, <2>6, Zenon DEF Said, m, i, w
    <3>4. Near(n)' <=> By3(0, i) /\ By3(Len(i), wire'[n]) /\ By3(Len(i) + Len(wire'[n]), r)
      BY <2>5, <2>6, Zenon DEF Near, m
    <3>5. CASE wire'[n] = w
      <4>1. By3(Len(i) + Len(w), r)
        BY <2>3, <3>1, <3>2, By3Less
      <4>2. Said(n)' = Len(i) + Len(w) + Len(r)
        BY <3>3, <3>5, Zenon
      <4>3. Said(n)' <= Said(n)
        BY <2>2, <2>3, <3>3, <4>2
      <4>4. Near(n)'
        BY <2>4, <3>4, <3>5, <4>1, Zenon
      <4> QED
        BY <4>3, <4>4 DEF Shrinks
    <3>6. CASE wire'[n] = w \o <<h>>
      <4>1. By3(Len(i), w \o <<h>>)
        BY <2>2, <2>3, <2>4, <3>2, By3Concat
      <4>2. Len(i) + Len(w \o <<h>>) = (Len(i) + Len(w)) + 1
        BY <2>2, <2>3
      <4>3. Near(n)'
        BY <2>4, <3>2, <3>4, <3>6, <4>1, <4>2, Zenon
      <4>4. Said(n)' = Len(i) + Len(w \o <<h>>) + Len(r)
        BY <3>3, <3>6, Zenon
      <4>5. Said(n)' <= Said(n)
        BY <2>2, <2>3, <3>3, <4>2, <4>4
      <4> QED
        BY <4>3, <4>5 DEF Shrinks
    <3> QED
      BY <2>6, <3>5, <3>6
  <2> QED
    BY <1>0, <1>1, <2>1, <2>3, <2>6
<1> QED
  BY <1>0, <1>2, <1>3

LEMMA RecvShrinks ==
    ASSUME QueueInv, NEW n \in Nodes, Recv(n), Near(n), Near(Other(n))
    PROVE  \A k \in Nodes : Shrinks(k)
<1> DEFINE m == Other(n)
           room == MaxMsgQueue - Len(inbox[n])
<1>0. /\ m \in Nodes /\ m # n /\ Other(m) = n /\ Nodes = {n, m}
      /\ DOMAIN inbox = Nodes /\ DOMAIN wire = Nodes /\ outbox' = outbox
  BY TwoNodes DEF QueueInv, Recv
<1>1. /\ outbox[m] \in Seq(From(m)) /\ wire[m] \in Seq(From(m)) /\ inbox[n] \in Seq(From(m))
      /\ Len(outbox[m]) \in Nat /\ Len(wire[m]) \in Nat /\ Len(inbox[n]) \in Nat
  BY <1>0, SaidType
<1>2. room \in Nat
  BY <1>1, LimitsAssumption DEF Recv, Served
<1>3. CASE UNCHANGED <<wire, inbox>>
  BY <1>0, <1>3, ShrinksCleared
<1>4. ASSUME NEW k \in 1..Len(wire[m]),
             wire' = [wire EXCEPT ![m] = SubSeq(@, k + 1, Len(@))],
             inbox' = [inbox EXCEPT ![n] =
                         @ \o SubSeq(wire[m], 1, IF k < room THEN k ELSE room)]
      PROVE  Shrinks(n) /\ Shrinks(m)
  <2> DEFINE t == IF k < room THEN k ELSE room
             w == wire[m]
             i == inbox[n]
             o == outbox[m]
             a == SubSeq(w, 1, t)
             b == SubSeq(w, k + 1, Len(w))
  <2>1. k \in 0..Len(w) /\ t \in 0..k
    BY <1>1, <1>2
  <2>2. wire'[m] = b /\ inbox'[n] = i \o a /\ wire'[n] = wire[n] /\ inbox'[m] = inbox[m]
    BY <1>0, <1>4
  <2>3. /\ a \in Seq(From(m)) /\ b \in Seq(From(m)) /\ Len(a) = t /\ Len(b) = Len(w) - k
        /\ \A j \in 1..t : a[j] = w[j]
        /\ \A j \in 1..Len(w) - k : b[j] = w[k + j]
    <3>1. a \in Seq(From(m)) /\ Len(a) = t /\ \A j \in 1..t : a[j] = w[j]
      BY <1>1, <2>1
    <3>2. b \in Seq(From(m)) /\ Len(b) = Len(w) - k /\ \A j \in 1..Len(w) - k : b[j] = w[k + j]
      BY <1>1, <2>1
    <3> QED
      BY <3>1, <3>2
  <2>4. By3(0, i) /\ By3(Len(i), w) /\ By3(Len(i) + Len(w), o)
    BY <1>0 DEF Near
  <2>5. /\ i \o a \in Seq(From(m)) /\ Len(i \o a) = Len(i) + t
    BY <1>1, <2>3
  <2> HIDE DEF t, a, b, w, i, o
  <2>6. Len(i) \in Nat /\ Len(w) \in Nat /\ Len(o) \in Nat /\ i \in Seq(From(m))
        /\ o \in Seq(From(m))
    BY <1>1 DEF i, w, o
  <2>7. By3(0, i \o a)
    <3>1. By3(Len(i), a)
      BY <2>1, <2>3, <2>4, <2>6 DEF By3
    <3>2. 0 + Len(i) = Len(i)
      BY <2>6
    <3> QED
      BY <2>3, <2>4, <2>6, <3>1, <3>2, By3Concat
  <2>8. By3(Len(i) + t, b)
    <3> SUFFICES ASSUME NEW j \in 1..Len(b), IsTestNet(b[j])
                 PROVE  (Len(i) + t) + j <= 3
      BY DEF By3
    <3>1. j \in 1..(Len(w) - k) /\ k + j \in 1..Len(w) /\ IsTestNet(w[k + j])
      BY <2>1, <2>3, <2>6
    <3>2. Len(i) + (k + j) <= 3
      BY <2>4, <3>1 DEF By3
    <3> QED
      BY <2>1, <2>6, <3>1, <3>2
  <2>9. /\ (Len(i) + t) + Len(b) <= Len(i) + Len(w)
        /\ (Len(i) + t) + Len(b) \in Nat /\ Len(i) + Len(w) \in Nat
    BY <2>1, <2>3, <2>6
  <2>10. By3((Len(i) + t) + Len(b), o)
    BY <2>4, <2>6, <2>9, By3Less
  <2>11. Near(m)'
    <3>1. Near(m)' <=> By3(0, i \o a) /\ By3(Len(i \o a), b) /\ By3(Len(i \o a) + Len(b), o)
      BY <1>0, <2>2, Zenon DEF Near, o
    <3> QED
      BY <2>5, <2>7, <2>8, <2>10, <3>1, Zenon
  <2>12. Said(m)' <= Said(m)
    <3>1. /\ Said(m) = Len(i) + Len(w) + Len(o)
          /\ Said(m)' = Len(i \o a) + Len(b) + Len(o)
      BY <1>0, <2>2, Zenon DEF Said, i, w, o
    <3>2. Said(m)' = (Len(i) + t) + Len(b) + Len(o)
      BY <2>5, <3>1, Zenon
    <3> QED
      BY <2>6, <2>9, <3>1, <3>2
  <2>13. Shrinks(n)
    BY <1>0, <2>2, ShrinksCleared
  <2> QED
    BY <2>11, <2>12, <2>13 DEF Shrinks
<1> QED
  BY <1>0, <1>3, <1>4 DEF Recv

\* Steps that neither say nor hear anything new.
LEMMA OthersShrink ==
    ASSUME QueueInv, \A k \in Nodes : Near(k),
           Break \/ Connect \/ PassEnds \/ UNCHANGED vars
             \/ \E n \in Nodes : Send(n) \/ Recv(n) \/ Erase(n)
    PROVE  \A k \in Nodes : Shrinks(k)
<1>1. ASSUME NEW k \in Nodes, outbox' = outbox, inbox' = inbox,
             wire'[k] \in {wire[k], <<>>}
      PROVE  Shrinks(k)
  BY <1>1, ShrinksCleared
<1>2. CASE Connect \/ PassEnds \/ UNCHANGED vars
  BY <1>1, <1>2 DEF Connect, PassEnds, vars
<1>3. CASE Break
  BY <1>1, <1>3 DEF Break
<1>4. ASSUME NEW n \in Nodes, Erase(n)
      PROVE  \A k \in Nodes : Shrinks(k)
  <2> SUFFICES ASSUME NEW k \in Nodes
               PROVE  Shrinks(k)
    OBVIOUS
  <2>1. Other(k) \in Nodes /\ DOMAIN outbox = Nodes /\ DOMAIN inbox = Nodes
        /\ DOMAIN wire = Nodes
    BY TwoNodes DEF QueueInv
  <2>2. /\ outbox' = [outbox EXCEPT ![n] = <<>>] /\ inbox' = [inbox EXCEPT ![n] = <<>>]
        /\ wire' = [wire EXCEPT ![Other(n)] = <<>>] \/ wire' = [j \in Nodes |-> <<>>]
    BY <1>4 DEF Erase
  <2>3. /\ outbox'[k] \in {outbox[k], <<>>} /\ wire'[k] \in {wire[k], <<>>}
        /\ inbox'[Other(k)] \in {inbox[Other(k)], <<>>}
    BY <2>1, <2>2
  <2> QED
    BY <2>3, ShrinksCleared
<1>5. \A n \in Nodes : Send(n) \/ Recv(n) => \A k \in Nodes : Shrinks(k)
  BY SendShrinks, RecvShrinks, TwoNodes
<1> QED
  BY <1>2, <1>3, <1>4, <1>5

LEMMA ShrinkKeeps ==
    ASSUME TypeInv, QueueInv, QueueInv', [Next]_vars, NEW m \in Nodes, Shrinks(m), Early(m)
    PROVE  Near(m)' /\ Early(m)'
<1>1. Near(m)' /\ Said(m)' <= Said(m)
  BY DEF Shrinks
<1>2. Said(m) \in Nat /\ Said(m)' \in Nat
  <2>1. Said(m) \in Nat
    BY SaidType
  <2>2. outbox'[m] \in Seq(From(m)') /\ wire'[m] \in Seq(From(m)')
        /\ inbox'[Other(m)] \in Seq(From(m)')
    BY DEF QueueInv
  <2>3. Len(outbox'[m]) \in Nat /\ Len(wire'[m]) \in Nat /\ Len(inbox'[Other(m)]) \in Nat
    BY <2>2
  <2>4. \A a, b, c \in Nat : a + b + c \in Nat
    OBVIOUS
  <2>5. Said(m)' = Len(inbox'[Other(m)]) + Len(wire'[m]) + Len(outbox'[m])
    BY DEF Said
  <2>6. Len(inbox'[Other(m)]) + Len(wire'[m]) + Len(outbox'[m]) \in Nat
    BY <2>3, <2>4, Zenon
  <2> QED
    BY <2>1, <2>5, <2>6, Zenon
<1>3. ASSUME ~flags'[m].valid
      PROVE  Said(m)' <= Spoken(m)'
  <2>1. Said(m) <= Spoken(m)
    BY <1>3, ValidStays DEF Early
  <2>2. Spoken(m) \in Nat /\ Spoken(m)' \in Nat /\ Spoken(m) <= Spoken(m)'
    BY <1>3, SpokenGrows
  <2> QED
    BY <1>1, <1>2, <2>1, <2>2
<1> QED
  BY <1>1, <1>3 DEF Early

\* A node queues messages.
LEMMA SaysMore ==
    ASSUME TypeInv, QueueInv, [Next]_vars, NEW n \in Nodes, Near(n), Early(n),
           NEW msgs \in Seq(From(n)), outbox'[n] = outbox[n] \o msgs,
           wire'[n] = wire[n], inbox'[Other(n)] = inbox[Other(n)],
           By3(Said(n), msgs),
           ~flags'[n].valid => Spoken(n)' >= Spoken(n) + Len(msgs)
    PROVE  Near(n)' /\ Early(n)'
<1> DEFINE o == outbox[n]
           w == wire[n]
           i == inbox[Other(n)]
<1>1. /\ o \in Seq(From(n)) /\ Len(o) \in Nat /\ Len(w) \in Nat /\ Len(i) \in Nat
      /\ Said(n) = Len(i) + Len(w) + Len(o)
      /\ Said(n)' = Len(i) + Len(w) + Len(outbox'[n])
  BY SaidType DEF Said
<1>2. /\ By3(0, i) /\ By3(Len(i), w) /\ By3(Len(i) + Len(w), o)
      /\ Near(n)' <=> By3(0, i) /\ By3(Len(i), w) /\ By3(Len(i) + Len(w), outbox'[n])
  BY DEF Near
<1> HIDE DEF w, i
<1>3. Len(i) + Len(w) \in Nat
  BY <1>1
<1>4. By3(Len(i) + Len(w), o \o msgs)
  <2>1. By3((Len(i) + Len(w)) + Len(o), msgs)
    BY <1>1, Zenon
  <2> QED
    BY <1>1, <1>2, <1>3, <2>1, By3Concat
<1>5. Len(outbox'[n]) = Len(o) + Len(msgs) /\ Len(msgs) \in Nat
  BY <1>1
<1> HIDE DEF o
<1>6. Near(n)'
  BY <1>2, <1>4, Zenon DEF o
<1>7. Said(n)' = Said(n) + Len(msgs) /\ Said(n) \in Nat
  <2>1. Said(n)' = Len(i) + Len(w) + (Len(o) + Len(msgs))
    BY <1>1, <1>5, Zenon
  <2> QED
    BY <1>1, <1>5, <2>1
<1>8. ASSUME ~flags'[n].valid
      PROVE  Said(n)' <= Spoken(n)'
  <2>1. Said(n) <= Spoken(n)
    BY <1>8, ValidStays DEF Early
  <2>2. Spoken(n) \in Nat /\ Spoken(n)' \in Nat
    BY SpokenGrows
  <2> QED
    BY <1>5, <1>7, <1>8, <2>1, <2>2
<1> QED
  BY <1>6, <1>8 DEF Early

\* The other node takes the first message.
LEMMA HeardShrinks ==
    ASSUME QueueInv, NEW m \in Nodes, Near(m), inbox[Other(m)] # <<>>,
           inbox'[Other(m)] = Tail(inbox[Other(m)]), wire'[m] = wire[m], outbox'[m] = outbox[m]
    PROVE  Shrinks(m)
<1> DEFINE o == outbox[m]
           w == wire[m]
           i == inbox[Other(m)]
           t == Tail(i)
<1>1. /\ o \in Seq(From(m)) /\ w \in Seq(From(m)) /\ i \in Seq(From(m)) /\ i # <<>>
      /\ Len(o) \in Nat /\ Len(w) \in Nat /\ Len(i) \in Nat
  BY SaidType
<1>2. /\ t \in Seq(From(m)) /\ Len(i) = Len(t) + 1 /\ Len(t) \in Nat
      /\ \A j \in 1..Len(t) : t[j] = i[j + 1]
  BY <1>1
<1>3. /\ By3(0, i) /\ By3(Len(i), w) /\ By3(Len(i) + Len(w), o)
      /\ Near(m)' <=> By3(0, t) /\ By3(Len(t), w) /\ By3(Len(t) + Len(w), o)
      /\ Said(m) = Len(i) + Len(w) + Len(o) /\ Said(m)' = Len(t) + Len(w) + Len(o)
  BY DEF Near, Said
<1> HIDE DEF o, w, i, t
<1>4. By3(0, t)
  <2> SUFFICES ASSUME NEW j \in 1..Len(t), IsTestNet(t[j])
               PROVE  0 + j <= 3
    BY DEF By3
  <2>1. j + 1 \in 1..Len(i) /\ IsTestNet(i[j + 1])
    BY <1>2
  <2>2. 0 + (j + 1) <= 3
    BY <1>3, <2>1 DEF By3
  <2> QED
    BY <2>2
<1>5. By3(Len(t), w)
  BY <1>1, <1>2, <1>3, By3Less
<1>6. By3(Len(t) + Len(w), o)
  <2>1. /\ Len(t) + Len(w) <= Len(i) + Len(w)
        /\ Len(t) + Len(w) \in Nat /\ Len(i) + Len(w) \in Nat
    BY <1>1, <1>2
  <2> QED
    BY <1>1, <1>3, <2>1, By3Less
<1>7. Said(m)' <= Said(m)
  BY <1>1, <1>2, <1>3
<1> QED
  BY <1>3, <1>4, <1>5, <1>6, <1>7 DEF Shrinks

\* What names the network is the greeting alone.
LEMMA NamesNothing ==
    /\ \A m : ~IsTestNet(m) => ~Named(<<m>>) /\ ~Named(<<m>> \o <<PeerListSend>>)
    /\ ~Named(<<>> \o <<PeerListSend>>)
    /\ \A n \in Nodes : ~IsTestNet(Version(n)) /\ ~IsTestNet(NodeMode(n))
    /\ ~IsTestNet(Newer) /\ ~IsTestNet(Ping) /\ ~IsTestNet(Pong) /\ ~IsTestNet(PortGet)
    /\ ~IsTestNet(PortSend) /\ ~IsTestNet(PeerListSend)
    /\ \A modes : ~IsTestNet(PeerListGet(modes))
<1>1. /\ \A n \in Nodes : ~IsTestNet(Version(n)) /\ ~IsTestNet(NodeMode(n))
      /\ ~IsTestNet(Newer) /\ ~IsTestNet(Ping) /\ ~IsTestNet(Pong) /\ ~IsTestNet(PortGet)
      /\ ~IsTestNet(PortSend) /\ ~IsTestNet(PeerListSend)
      /\ \A modes : ~IsTestNet(PeerListGet(modes))
  BY DEF IsTestNet, Version, NodeMode, Newer, Ping, Pong, PortGet, PortSend, PeerListSend,
         PeerListGet
<1>2. ASSUME NEW m, ~IsTestNet(m)
      PROVE  ~Named(<<m>>) /\ ~Named(<<m>> \o <<PeerListSend>>)
  <2>1. \A x : ~IsTestNet(x) => ~Named(<<x>>)
    BY DEF Named
  <2>2. <<m>> \in Seq({m, PeerListSend}) /\ <<PeerListSend>> \in Seq({m, PeerListSend})
    OBVIOUS
  <2>3. Named(<<m>> \o <<PeerListSend>>) <=> Named(<<m>>) \/ Named(<<PeerListSend>>)
    BY <2>2, ConcatNamed, Zenon
  <2> QED
    BY <1>1, <1>2, <2>1, <2>3, Zenon
<1>3. <<>> \o <<PeerListSend>> = <<PeerListSend>>
  OBVIOUS
<1>4. ~Named(<<>> \o <<PeerListSend>>)
  BY <1>1, <1>2, <1>3, Zenon
<1> QED
  BY <1>1, <1>2, <1>4, Zenon

LEMMA ProcessGreet ==
    ASSUME TypeInv, QueueInv, QueueInv', GreetInv, NEW n \in Nodes, ProcessMessage(n)
    PROVE  GreetInv'
<1> DEFINE m == Other(n)
           h == Head(inbox[n])
<1> USE DEF mntVars
<1>0. /\ m \in Nodes /\ m # n /\ Other(m) = n /\ Nodes = {n, m}
      /\ flags \in [Nodes -> EntryType] /\ DOMAIN outbox = Nodes /\ DOMAIN inbox = Nodes
      /\ Near(n) /\ Early(n) /\ Near(m) /\ Early(m)
  BY TwoNodes DEF TypeInv, QueueInv, GreetInv
<1>1. /\ inbox[n] # <<>> /\ inbox' = [inbox EXCEPT ![n] = Tail(@)] /\ wire' = wire
      /\ Serves("msghand", n)
  BY DEF ProcessMessage, RefuseEarly, HandleVersion, HandleTestNet, HandleNodeMode,
         HandleRequest, HandleNotice, HandleListRequest, HandleList, Takes
<1>2. [Next]_vars
  BY DEF Next
<1>3. inbox'[n] = Tail(inbox[n]) /\ inbox'[m] = inbox[m] /\ wire'[n] = wire[n] /\ wire'[m] = wire[m]
  BY <1>0, <1>1
<1> HIDE DEF m
\* What the other node says is heard, ...
<1>4. ASSUME outbox'[m] = outbox[m]
      PROVE  Near(m)' /\ Early(m)'
  BY <1>0, <1>1, <1>2, <1>3, <1>4, HeardShrinks, ShrinkKeeps
\* ... and this one says nothing or something.
<1>5. ASSUME outbox' = outbox
      PROVE  GreetInv'
  <2>1. Shrinks(n)
    BY <1>0, <1>3, <1>5, ShrinksCleared DEF m
  <2> QED
    BY <1>0, <1>2, <1>4, <1>5, <2>1, ShrinkKeeps DEF GreetInv
<1>6. ASSUME NEW msgs \in Seq(From(n)), Queue(n, msgs), By3(Said(n), msgs),
             ~flags'[n].valid => Spoken(n)' >= Spoken(n) + Len(msgs)
      PROVE  GreetInv'
  <2>1. outbox'[n] = outbox[n] \o msgs /\ outbox'[m] = outbox[m]
    BY <1>0, <1>6 DEF Queue
  <2>2. Near(n)' /\ Early(n)'
    BY <1>0, <1>2, <1>3, <1>6, <2>1, SaysMore DEF m
  <2> QED
    BY <1>0, <1>4, <2>1, <2>2 DEF GreetInv
<1>7. ASSUME NEW msgs \in Seq(From(n)), Queue(n, msgs), ~Named(msgs), flags[n].valid
      PROVE  GreetInv'
  BY <1>2, <1>6, <1>7, By3None, ValidStays
<1>8. CASE RefuseEarly(n) \/ HandleTestNet(n) \/ HandleNotice(n) \/ HandleList(n)
  BY <1>5, <1>8 DEF RefuseEarly, HandleTestNet, HandleNotice, HandleList
<1>9. CASE HandleVersion(n)
  <2>1. ~flags[n].valid => ~Deaf(n) /\ Said(n) <= 1 /\ Said(n) \in Nat
    <3> SUFFICES ASSUME ~flags[n].valid
                 PROVE  ~Deaf(n) /\ Said(n) <= 1 /\ Said(n) \in Nat
      OBVIOUS
    <3>1. ~Deaf(n)
      BY <1>1 DEF Deaf, Serves
    <3>2. Said(n) <= Spoken(n) /\ Spoken(n) <= 1 /\ Spoken(n) \in Nat
      BY <1>0, <1>2, <3>1, SpokenGrows DEF Early
    <3>3. Said(n) \in Nat
      BY SaidType
    <3> QED
      BY <3>1, <3>2, <3>3
  <2>2. CASE outbox' = outbox
    BY <1>5, <2>2
  <2>3. CASE ~flags[n].valid /\ flags' = [flags EXCEPT ![n].valid = TRUE] /\ Queue(n, Greeting(n))
    <3>1. flags'[n].valid
      BY <1>0, <2>3 DEF EntryType
    <3>2. /\ Len(Greeting(n)) = 3 /\ Greeting(n)[1] = Version(n)
          /\ Greeting(n)[2] = TestNet(n) /\ Greeting(n)[3] = NodeMode(n)
      BY DEF Greeting
    <3>3. By3(Said(n), Greeting(n))
      <4> SUFFICES ASSUME NEW i \in 1..3, IsTestNet(Greeting(n)[i])
                   PROVE  Said(n) + i <= 3
        BY <3>2 DEF By3
      <4>1. i = 2
        BY <3>2, NamesNothing
      <4> QED
        BY <2>1, <2>3, <4>1
    <3> QED
      BY <1>6, <2>3, <3>1, <3>3, MayBeSaid
  <2>4. CASE /\ ~flags[n].valid /\ Older(n, h.version)
             /\ Queue(n, <<Newer>>) /\ Refuse(n)
    <3>1. Deaf(n)'
      BY <2>4, RefuseDeafens
    <3>2. state' = state /\ flags'[n].pong = flags[n].pong
      BY <1>0, <1>9, <2>4, Marked DEF HandleVersion, Refuse
    <3>3. Spoken(n)' = Spoken(n) + 1
      <4>1. If(Deaf(n)', 1) = 1 /\ If(Deaf(n), 1) = 0
        BY <2>1, <2>4, <3>1 DEF If
      <4>2. \A p : If(p, 1) \in Nat
        BY DEF If
      <4> DEFINE a == If(n = Acceptor /\ state[n] # "none", 1)
                 b == If(n = Dialer /\ ~flags[n].pong, 1)
      <4>3. Spoken(n)' = a + b + If(Deaf(n)', 1) /\ Spoken(n) = a + b + If(Deaf(n), 1)
        BY <3>2 DEF Spoken, If
      <4>4. a \in Nat /\ b \in Nat
        BY <4>2
      <4> HIDE DEF a, b
      <4> QED
        BY <4>1, <4>3, <4>4
    <3>4. node[Other(n)].version < node[n].version
      <4>1. h.subject = "VERSION"
        BY <1>9 DEF HandleVersion, Takes, h
      <4> QED
        BY <1>1, <2>4, <4>1, TakenIsFrom, TwoNodes, Subject DEF Older, h
    <3>5. <<Newer>> \in Seq(From(n)) /\ Len(<<Newer>>) = 1
      BY <3>4, MayBeSaid
    <3>6. By3(Said(n), <<Newer>>)
      BY NamesNothing, By3None
    <3>7. Spoken(n) \in Nat
      BY <1>2, SpokenGrows
    <3>8. Spoken(n)' >= Spoken(n) + Len(<<Newer>>)
      BY <3>3, <3>5, <3>7
    <3> QED
      BY <1>6, <2>4, <3>5, <3>6, <3>8
  <2> QED
    BY <1>9, <2>2, <2>3, <2>4 DEF HandleVersion, IgnoresVersion, h
<1>10. CASE HandleNodeMode(n)
  <2>1. flags[n].valid
    BY <1>10 DEF HandleNodeMode, MaySpeak
  <2>2. PICK msgs \in {<<PortGet>> \o <<PeerListSend>>, <<>> \o <<PeerListSend>>} :
           Queue(n, msgs)
    BY <1>10 DEF HandleNodeMode
  <2>3. msgs \in Seq(From(n)) /\ ~Named(msgs)
    BY <2>2, MayBeSaid, NamesNothing, Zenon
  <2> QED
    BY <1>7, <2>1, <2>2, <2>3
<1>11. CASE HandleRequest(n)
  <2>1. flags[n].valid
    BY <1>11 DEF HandleRequest, MaySpeak
  <2>2. PICK msgs \in {<<Pong>>, <<PortSend>>} : Queue(n, msgs)
    BY <1>11 DEF HandleRequest
  <2>3. msgs \in Seq(From(n)) /\ ~Named(msgs)
    BY <2>2, MayBeSaid, NamesNothing, Zenon
  <2> QED
    BY <1>7, <2>1, <2>2, <2>3
<1>12. CASE HandleListRequest(n)
  <2>1. flags[n].valid
    BY <1>12 DEF HandleListRequest, MaySpeak
  <2>2. PICK others \in OtherPeers :
          IF others = {} THEN UNCHANGED outbox
          ELSE Queue(n, <<PeerListGet(IF flags[n].mode = "fn" THEN others ELSE {})>>)
    BY <1>12 DEF HandleListRequest
  <2>3. others \in SUBSET Modes /\ {} \in SUBSET Modes
    BY LimitsAssumption
  <2>4. \A modes \in SUBSET Modes :
           <<PeerListGet(modes)>> \in Seq(From(n)) /\ ~Named(<<PeerListGet(modes)>>)
    BY MayBeSaid, NamesNothing
  <2> QED
    BY <1>5, <1>7, <2>1, <2>2, <2>3, <2>4
<1> QED
  BY <1>8, <1>9, <1>10, <1>11, <1>12 DEF ProcessMessage

LEMMA GreetStep ==
    ASSUME TypeInv, QueueInv, QueueInv', GreetInv, [Next]_vars
    PROVE  GreetInv'
<1> USE DEF mntVars
<1>0. /\ flags \in [Nodes -> EntryType] /\ Dialer \in Nodes /\ Acceptor \in Nodes
      /\ Dialer # Acceptor /\ Nodes = {Dialer, Acceptor}
      /\ DOMAIN outbox = Nodes /\ state \in [Nodes -> {"none", "up", "gone", "dropped"}]
      /\ \A k \in Nodes : Near(k) /\ Early(k)
  BY NodesAssumption DEF TypeInv, QueueInv, Nodes, GreetInv
<1>1. ASSUME \A k \in Nodes : Shrinks(k)
      PROVE  GreetInv'
  BY <1>0, <1>1, ShrinkKeeps DEF GreetInv
<1>2. ASSUME UNCHANGED <<outbox, wire, inbox>>
      PROVE  GreetInv'
  BY <1>0, <1>1, <1>2, ShrinksCleared
<1>3. ASSUME NEW n \in Nodes, NEW m, Queue(n, <<m>>), <<m>> \in Seq(From(n)), ~IsTestNet(m),
             UNCHANGED <<wire, inbox>>,
             ~flags'[n].valid => Spoken(n)' >= Spoken(n) + 1
      PROVE  GreetInv'
  <2>1. outbox'[n] = outbox[n] \o <<m>> /\ \A k \in Nodes : k # n => outbox'[k] = outbox[k]
    BY <1>0, <1>3 DEF Queue
  <2>2. By3(Said(n), <<m>>) /\ Len(<<m>>) = 1
    BY <1>3, NamesNothing, By3None
  <2>3. Near(n)' /\ Early(n)'
    BY <1>0, <1>3, <2>1, <2>2, SaysMore
  <2>4. ASSUME NEW k \in Nodes, k # n
        PROVE  Near(k)' /\ Early(k)'
    BY <1>0, <1>3, <2>1, <2>4, ShrinksCleared, ShrinkKeeps
  <2> QED
    BY <2>3, <2>4 DEF GreetInv
<1>4. CASE \/ Break \/ Connect \/ PassEnds \/ UNCHANGED vars
           \/ \E n \in Nodes : Send(n) \/ Recv(n) \/ Erase(n)
  BY <1>0, <1>1, <1>4, OthersShrink
<1>5. CASE Accept
  <2>1. /\ Queue(Acceptor, <<Version(Acceptor)>>) /\ UNCHANGED <<wire, inbox, flags, late>>
        /\ state[Acceptor] = "none" /\ state'[Acceptor] # "none"
    BY <1>0, <1>5 DEF Accept, Hello
  <2>2. Spoken(Acceptor)' = 1 + If(Deaf(Acceptor), 1) /\ Spoken(Acceptor) = If(Deaf(Acceptor), 1)
    BY <1>0, <2>1 DEF Spoken, If, Deaf
  <2>3. Spoken(Acceptor)' >= Spoken(Acceptor) + 1
    BY <2>2 DEF If
  <2>4. <<Version(Acceptor)>> \in Seq(From(Acceptor)) /\ ~IsTestNet(Version(Acceptor))
    BY <1>0, MayBeSaid, NamesNothing DEF Hello
  <2> QED
    BY <1>0, <1>3, <2>1, <2>3, <2>4
<1>6. CASE MaintainPing
  <2>1. UNCHANGED <<wire, inbox>>
    BY <1>6 DEF MaintainPing
  <2>2. CASE outbox' = outbox
    BY <1>2, <2>1, <2>2
  <2>3. CASE /\ ~flags[Dialer].destroy /\ flags[Dialer].pong /\ Queue(Dialer, <<Ping>>)
             /\ flags' = [flags EXCEPT ![Dialer].pong = FALSE]
    <3>1. ~flags'[Dialer].pong /\ ~flags'[Dialer].destroy
      BY <1>0, <2>3 DEF EntryType
    <3>2. Spoken(Dialer) = 0 /\ Spoken(Dialer)' = 1
      BY <1>0, <2>3, <3>1 DEF Spoken, Deaf, If
    <3>3. <<Ping>> \in Seq(From(Dialer)) /\ ~IsTestNet(Ping)
      BY <1>0, MayBeSaid, NamesNothing
    <3> QED
      BY <1>0, <1>3, <2>1, <2>3, <3>2, <3>3
  <2> QED
    BY <1>6, <2>2, <2>3 DEF MaintainPing
<1>7. CASE MaintainRequest
  <2>1. UNCHANGED <<wire, inbox, flags>>
    BY <1>7 DEF MaintainRequest
  <2>2. CASE outbox' = outbox
    BY <1>2, <2>1, <2>2
  <2>3. CASE flags[Dialer].valid /\ Queue(Dialer, <<PeerListSend>>)
    BY <1>0, <1>3, <2>1, <2>3, MayBeSaid, NamesNothing
  <2> QED
    BY <1>7, <2>2, <2>3 DEF MaintainRequest
<1>8. CASE \E n \in Nodes : ProcessMessage(n)
  BY <1>8, ProcessGreet
<1> QED
  BY <1>4, <1>5, <1>6, <1>7, <1>8 DEF Next

LEMMA GreetInit == Init => GreetInv
<1> SUFFICES ASSUME Init, NEW m \in Nodes
             PROVE  Near(m) /\ Early(m)
  BY DEF GreetInv
<1>1. outbox[m] = <<>> /\ wire[m] = <<>> /\ inbox[Other(m)] = <<>>
  BY TwoNodes DEF Init
<1>2. Said(m) = 0 /\ Near(m)
  BY <1>1, By3Empty DEF Said, Near
<1>3. Spoken(m) >= 0
  BY DEF Spoken, If
<1> QED
  BY <1>2, <1>3 DEF Early

\* Before a node is valid it has said at most one thing that is still pending, or two when
\* it refused the other, and TESTNET is among the first three that are.
THEOREM GreetTheorem == Spec => []GreetInv
<1>1. IndInv /\ IndInv' /\ GreetInv /\ [Next]_vars => GreetInv'
  BY GreetStep DEF IndInv
<1> QED
  BY <1>1, GreetInit, IndInvTheorem, PTL DEF Spec

\* Nodes of different networks or versions exchange nothing but their greetings: a node
\* names its network before it tells anything else, who hears another name hears no more,
\* and a full queue of received messages never loses the name
\* (VERSION and TESTNET, NetworkManager.cpp:687 and 770).
THEOREM NetworksNeverMixTheorem ==
    ASSUME MaxMsgQueue >= 3
    PROVE  Spec => []NetworksNeverMix
<1>1. Init => MixInv
  BY MixInit
<1>2. IndInv /\ MixInv /\ GreetInv /\ [Next]_vars => MixInv'
  BY MixStep DEF IndInv, GreetInv
<1>3. IndInv /\ MixInv => NetworksNeverMix
  <2> SUFFICES ASSUME IndInv, MixInv, NEW n \in Nodes, Knows(n)
               PROVE  Compatible
    BY DEF NetworksNeverMix, Knows
  <2>1. flags[n].valid /\ node[n].version = node[Other(n)].version
    BY DEF IndInv, VersionInv
  <2>2. node[Dialer].version = node[Acceptor].version
    BY <2>1 DEF Other, Nodes
  <2>3. ~DifferentNetworks
    BY DEF MixInv
  <2> QED
    BY <2>2, <2>3 DEF Compatible, DifferentNetworks
<1> QED
  BY <1>1, <1>2, <1>3, IndInvTheorem, GreetTheorem, PTL DEF Spec

=============================================================================
