-------------------------------- MODULE Framing --------------------------------
(***************************************************************************)
(* Messages on the bytes of one connection between two nodes: the rounds   *)
(* of the socket thread (network/NetworkManager.cpp, handlePeers), the     *)
(* assembly of messages (network/netMessage.cpp, readData, and             *)
(* io/netPeers.cpp, ReceiveMsgBytes) and the queue the message thread      *)
(* empties.                                                                *)
(*                                                                         *)
(* The stream is counted in units: a message is a header unit with subject *)
(* and size, a header unit with the checksum, and the units of its payload.*)
(* Units that do not begin with a message's own two header units are read  *)
(* as a header nobody wrote: any size may result, and a wrong checksum.    *)
(***************************************************************************)
EXTENDS Integers, SequencesExt, FiniteSets

CONSTANTS
    Node,            \* the two ends
    PayloadLens,     \* payload sizes of messages that are sent
    WrongLens,       \* sizes that a header nobody wrote may announce
    MaxPayload,      \* MAX_PAYLOAD_SIZE
    MaxQueue,        \* MAX_MSG_QUEUE
    Capacity,        \* units that the connection holds in each direction
    Noise,           \* a message without payload from a header nobody wrote
    MaxMessages,     \* bound of the model: messages each end sends
    MaxParts         \* bound of the model: times a message is sent in part

ASSUME FramingAssumption ==
    /\ IsFiniteSet(Node) /\ Cardinality(Node) = 2
    /\ MaxPayload \in Nat
    /\ PayloadLens \subseteq 0..MaxPayload /\ WrongLens \subseteq Nat
    /\ MaxQueue \in Nat \ {0} /\ Capacity \in Nat \ {0} /\ MaxMessages \in [Node -> Nat]
    /\ MaxParts \in Nat

HeaderLen == 2
Messages == [id : UNION {1..MaxMessages[n] : n \in Node}, len : PayloadLens]
Units(m) == [i \in 1..(HeaderLen + m.len) |-> <<m, i>>]
IsLastUnit(u) == u[2] = HeaderLen + u[1].len

ASSUME NoiseAssumption == Noise \notin Messages

VARIABLES
    listSend,        \* messages that wait to be sent
    submitted,       \* messages ever put there
    wire,            \* units on their way from a node to the other
    chunk,           \* what recv returned and readData has not seen
    netMsg,          \* m_netMsg: units read of the message, and its size
    queue,           \* m_queueMessages
    parts,           \* how often a message was sent in part
    received,        \* history: messages processed
    disturbed,       \* history: a message to the node was sent in part, or units
                     \* for it were dropped
    open             \* no end has marked the connection to be destroyed

vars == <<listSend, submitted, wire, chunk, netMsg, queue, parts, received, disturbed, open>>

Fresh == [units |-> <<>>, size |-> 0]

Init ==
    /\ listSend = [n \in Node |-> <<>>]
    /\ submitted = [n \in Node |-> 0]
    /\ wire = [n \in Node |-> <<>>]
    /\ chunk = [n \in Node |-> <<>>]
    /\ netMsg = [n \in Node |-> Fresh]
    /\ queue = [n \in Node |-> <<>>]
    /\ parts = 0
    /\ received = [n \in Node |-> <<>>]
    /\ disturbed = [n \in Node |-> FALSE]
    /\ open = TRUE

Other(n) == CHOOSE m \in Node : m # n

\* A chunk is read, to its end, under the lock of the peer list: the socket thread
\* and the message thread of the node do nothing else meanwhile, and what the other
\* node and the threads that queue messages do commutes with it.
Settled == open /\ \A n \in Node : chunk[n] = <<>>

-----------------------------------------------------------------------------
(* Sending *)

\* Any thread queues a message.
Submit(n, len) ==
    /\ Settled
    /\ submitted[n] < MaxMessages[n]
    /\ submitted' = [submitted EXCEPT ![n] = @ + 1]
    /\ listSend' = [listSend EXCEPT ![n] = Append(@, [id |-> submitted'[n], len |-> len])]
    /\ UNCHANGED <<wire, chunk, netMsg, queue, parts, received, disturbed, open>>

Stream(list) == FlattenSeq([i \in DOMAIN list |-> Units(list[i])])

\* The t-th unit of what waits ends a message, or the message is sent in part.
SentInPart(list, t) == ~IsLastUnit(Stream(list)[t])
LastOf(list, t) == CHOOSE k \in DOMAIN list : list[k] = Stream(list)[t][1]

\* Mutant: the message sent last stays as well.
KeepsLast(list, t) == SubSeq(list, LastOf(list, t), Len(list))
\* What stays in the list: a message that was sent in part stays whole, and will
\* be sent again from its first unit.
Unsent(list, t) ==
    SubSeq(list, LastOf(list, t) + (IF SentInPart(list, t) THEN 0 ELSE 1), Len(list))

\* MAX_MSG_QUEUE: the socket thread passes a peer over whose queue is full.
ReadStop(n) == Len(queue[n]) >= MaxQueue

\* A round that finds something to send, and is selected for it: the connection
\* takes t units of all that waits.
SendUnits(n, t) ==
    LET stream == Stream(listSend[n])
    IN /\ Settled
       /\ ~ReadStop(n)
       /\ t \in 1..Len(stream)
       /\ t <= Capacity - Len(wire[n])
       /\ wire' = [wire EXCEPT ![n] = @ \o SubSeq(stream, 1, t)]
       /\ listSend' = [listSend EXCEPT ![n] = Unsent(@, t)]
       /\ IF SentInPart(listSend[n], t)
          THEN /\ parts < MaxParts
               /\ parts' = parts + 1
               /\ disturbed' = [disturbed EXCEPT ![Other(n)] = TRUE]
          ELSE UNCHANGED <<parts, disturbed>>
       /\ UNCHANGED <<submitted, chunk, netMsg, queue, received, open>>

Send(n) == \E t \in 1..Capacity : SendUnits(n, t)

-----------------------------------------------------------------------------
(* Receiving *)

\* A round receives only if nothing waits to be sent and the queue has room.
Receive(n) ==
    LET from == Other(n)
    IN /\ Settled
       /\ listSend[n] = <<>>
       /\ ~ReadStop(n)
       /\ \E k \in 1..Len(wire[from]) :
            /\ chunk' = [chunk EXCEPT ![n] = SubSeq(wire[from], 1, k)]
            /\ wire' = [wire EXCEPT ![from] = SubSeq(@, k + 1, Len(@))]
       /\ UNCHANGED <<listSend, submitted, netMsg, queue, parts, received, disturbed, open>>

\* The queue became full while the chunk was read: what is left of it is dropped.
DropRest(n) ==
    /\ open
    /\ chunk[n] # <<>>
    /\ ReadStop(n)
    /\ chunk' = [chunk EXCEPT ![n] = <<>>]
    /\ disturbed' = [disturbed EXCEPT ![n] = TRUE]
    /\ UNCHANGED <<listSend, submitted, wire, netMsg, queue, parts, received, open>>

\* The message whose header the units begin with, and the one its checksum is of.
IsHeaderOf(units, m) == units[1] = <<m, 1>> /\ units[2] = <<m, 2>>
ChecksumOf(units) == IF units[2][2] = 2 THEN {units[2][1]} ELSE {}

Sizes(units) ==
    LET own == {m \in Messages : IsHeaderOf(units, m)}
    IN IF own # {} THEN {m.len : m \in own} ELSE WrongLens

\* Mutant: the checksum is not looked at.
AnyPayload(units) == TRUE
PayloadIntact(units) ==
    \E m \in ChecksumOf(units) :
        SubSeq(units, HeaderLen + 1, Len(units)) =
            SubSeq(Units(m), HeaderLen + 1, HeaderLen + m.len)

Meaning(units) ==
    LET own == {m \in Messages : IsHeaderOf(units, m)}
    IN IF own # {} THEN CHOOSE m \in own : TRUE ELSE Noise

\* The message is complete: it is queued, and the next one begins.
Complete(n, units) ==
    /\ queue' = [queue EXCEPT ![n] = Append(@, Meaning(units))]
    /\ netMsg' = [netMsg EXCEPT ![n] = Fresh]
    /\ UNCHANGED open

\* readData returned -1.
Destroy ==
    /\ open' = FALSE
    /\ UNCHANGED <<netMsg, queue>>

GoOn(n, units, size) ==
    /\ netMsg' = [netMsg EXCEPT ![n] = [units |-> units, size |-> size]]
    /\ UNCHANGED <<queue, open>>

InHeader(n) == Len(netMsg[n].units) < HeaderLen

\* Mutant: all of the chunk is taken for the message.
TakesAll(n) == Len(chunk[n])
\* What one call of readData takes of the chunk.
Wanted(n) ==
    (IF InHeader(n) THEN HeaderLen ELSE HeaderLen + netMsg[n].size) - Len(netMsg[n].units)
TakenBy(n) == IF Wanted(n) < Len(chunk[n]) THEN Wanted(n) ELSE Len(chunk[n])

\* The message so far, with what this call takes.
UnitsRead(n) == netMsg[n].units \o SubSeq(chunk[n], 1, TakenBy(n))

ReadData(n) ==
    /\ open
    /\ chunk[n] # <<>>
    /\ ~ReadStop(n)
    /\ chunk' = [chunk EXCEPT ![n] = SubSeq(@, TakenBy(n) + 1, Len(@))]
    /\ UNCHANGED <<listSend, submitted, wire, parts, received, disturbed>>

ReadHeader(n) ==
    LET units == UnitsRead(n)
    IN /\ InHeader(n)
       /\ ReadData(n)
       /\ IF Len(units) < HeaderLen THEN GoOn(n, units, 0)
          ELSE \E size \in Sizes(units) :
                 IF size > MaxPayload THEN Destroy
                 ELSE IF size = 0 THEN Complete(n, units)
                 ELSE GoOn(n, units, size)

ReadPayload(n) ==
    LET units == UnitsRead(n)
    IN /\ ~InHeader(n)
       /\ ReadData(n)
       /\ IF Len(units) < HeaderLen + netMsg[n].size THEN GoOn(n, units, netMsg[n].size)
          ELSE IF PayloadIntact(units) THEN Complete(n, units)
          ELSE Destroy

\* The message thread processes a message.
Process(n) ==
    /\ Settled
    /\ queue[n] # <<>>
    /\ received' = [received EXCEPT ![n] = Append(@, Head(queue[n]))]
    /\ queue' = [queue EXCEPT ![n] = Tail(@)]
    /\ UNCHANGED <<listSend, submitted, wire, chunk, netMsg, parts, disturbed, open>>

-----------------------------------------------------------------------------

Next ==
    \E n \in Node :
        \/ \E len \in PayloadLens : Submit(n, len)
        \/ Send(n) \/ Receive(n) \/ DropRest(n)
        \/ ReadHeader(n) \/ ReadPayload(n) \/ Process(n)

Spec == Init /\ [][Next]_vars

\* The threads go on; and a sender that again and again finds room for the whole of
\* its first message is not always scheduled when there is room for a part of it.
FirstWhole(n) ==
    /\ listSend[n] # <<>>
    /\ \E t \in 1..Capacity : SendUnits(n, t) /\ listSend'[n] # listSend[n]

Fairness ==
    \A n \in Node :
        /\ SF_vars(FirstWhole(n))
        /\ WF_vars(Receive(n))
        /\ WF_vars(DropRest(n) \/ ReadHeader(n) \/ ReadPayload(n))
        /\ WF_vars(Process(n))

FairSpec == Spec /\ Fairness

-----------------------------------------------------------------------------
(* Properties *)

AllUnits == UNION {{Units(m)[i] : i \in DOMAIN Units(m)} : m \in Messages}
MessagesSeen(s) == \A i \in DOMAIN s : s[i] \in Messages \cup {Noise}

\* Types; a connection holds no more than it can, a queue no more than its limit,
\* and a message no more units than its size says (the buffer readData allocates).
TypeOK ==
    /\ \A n \in Node :
        /\ \A i \in DOMAIN listSend[n] : listSend[n][i] \in Messages
        /\ submitted[n] \in 0..MaxMessages[n]
        /\ Len(wire[n]) <= Capacity /\ Range(wire[n]) \subseteq AllUnits
        /\ Range(chunk[n]) \subseteq AllUnits
        /\ Range(netMsg[n].units) \subseteq AllUnits
        /\ netMsg[n].size \in 0..MaxPayload
        /\ Len(netMsg[n].units) <= HeaderLen + netMsg[n].size
        /\ Len(queue[n]) <= MaxQueue /\ MessagesSeen(queue[n])
        /\ MessagesSeen(received[n])
        /\ disturbed[n] \in BOOLEAN
    /\ open \in BOOLEAN /\ parts \in 0..MaxParts

Arrived(n) == received[n] \o queue[n]

HasPayload(m) == m # Noise /\ m.len > 0

\* Whatever is sent in part or dropped, a message with a payload arrives whole, at
\* most once, and after the ones sent before it (the checksum in readData).
PayloadsInOrder ==
    \A n \in Node : \A i, j \in DOMAIN Arrived(n) :
        i < j /\ HasPayload(Arrived(n)[i]) /\ HasPayload(Arrived(n)[j])
            => Arrived(n)[i].id < Arrived(n)[j].id

\* As long as no message was sent in part and the queue never became full within a
\* chunk, what arrived is what was sent first, nothing missing and nothing else.
ExactUntilDisturbed ==
    \A n \in Node : ~disturbed[n] =>
        /\ open \/ disturbed[Other(n)]
        /\ \A i \in DOMAIN Arrived(n) :
             Arrived(n)[i] # Noise /\ Arrived(n)[i].id = i

\* A node that has something to send does not receive: if both have, and neither's
\* connection takes a whole message any more, both wait for ever.
BothFull ==
    \A n \in Node : listSend[n] # <<>> /\
        Capacity - Len(wire[n]) < HeaderLen + Head(listSend[n]).len

\* That is the only way for a message to wait for ever (handlePeers).
SentUnlessBothFull ==
    \A n \in Node :
        listSend[n] # <<>> ~> (listSend[n] = <<>> \/ ~open \/ BothFull)
================================================================================
