--------------------------- MODULE PeerTableProofs ---------------------------
(***************************************************************************)
(* Proofs of the safety properties of PeerTable, for any number of peers,  *)
(* any limits and any ban list.  IndInv is the inductive invariant; its    *)
(* parts are preserved together, because which peer has a permit depends   *)
(* on where opencon is, and TypeOK's bound on tries on which peer it has.  *)
(***************************************************************************)
EXTENDS PeerTable, FiniteSetTheorems, TLAPS

\* IndInv without its type part, the passes and the count of permits.
CoreInv == HeldInv /\ GrantInv /\ TriesInv /\ BanInv /\ BannedNotServed

LEMMA IndInvParts ==
  IndInv <=> TypeOK /\ PassInv /\ CoreInv /\ PermitsConserved
  BY DEF IndInv, CoreInv

\* A constructed entry is a netPeers object.
LEMMA FreshType == Fresh \in PeerObjects
  BY LimitsAssumption DEF Fresh, PeerObjects

LEMMA PermitsType == \A p : Permits(p) \in {0, 1}
  BY DEF Permits

-----------------------------------------------------------------------------
(* The initial states *)

LEMMA InitIndInv == Init => IndInv
  <1> SUFFICES ASSUME Init PROVE IndInv
    OBVIOUS
  <1> USE DEF Init
  <1>1. listed \subseteq Peers /\ peer \in [Peers -> PeerObjects]
    BY FreshType DEF Peers
  <1>2. TypeOK
    <2>1. /\ semOut \in Nat /\ semIn \in Nat /\ lost \in Nat /\ counted \in Nat
          /\ threads \subseteq Servers /\ freed = {}
      BY LimitsAssumption
    <2>2. oc \in OcStates /\ mnt = "idle"
      BY DEF OcStates
    <2>3. QED
      BY <1>1, <2>1, <2>2 DEF TypeOK
  <1>3. \A p \in Peers : peer[p] = Fresh
    OBVIOUS
  <1>4. HeldInv /\ TriesInv /\ BannedNotServed
    BY <1>3, LimitsAssumption
    DEF HeldInv, Dialing, TriesInv, BannedNotServed, Fresh, Peers
  <1>5. GrantInv
    BY <1>3 DEF GrantInv, Fresh, Peers
  <1>6. BanInv
    BY PeersAssumption DEF BanInv
  <1>7. PermitsConserved
    <2>1. Holders = {}
      BY <1>3 DEF Holders, Fresh, Peers
    <2>2. Cardinality(Holders) = 0 /\ OcPermit = 0
      BY <2>1, FS_EmptySet DEF OcPermit, OcHolding
    <2>3. QED
      BY <2>2, LimitsAssumption DEF PermitsConserved
  <1>8. PassInv
    BY DEF PassInv, Servers
  <1>9. QED
    BY <1>2, <1>4, <1>5, <1>6, <1>7, <1>8 DEF IndInv

-----------------------------------------------------------------------------
(* opencon *)

LEMMA CoreOpenConnections ==
  ASSUME TypeOK, CoreInv, OpenConnections
  PROVE  CoreInv'
  <1> USE PeersAssumption, LimitsAssumption
      DEF TypeOK, CoreInv, Dialing, OcAt
  <1>1. CASE OcCheck
    BY <1>1 DEF OcCheck, GoOn, HeldInv, GrantInv, TriesInv, BanInv,
                BannedNotServed
  <1>2. CASE OcWait
    BY <1>2 DEF OcWait, GoOn, HeldInv, GrantInv, TriesInv, BanInv,
                BannedNotServed
  <1>3. CASE OcPick
    <2>1. HeldInv'
      BY <1>3 DEF OcPick, NextRound, Dialable, HeldInv, GrantInv
    <2>2. GrantInv'
      BY <1>3 DEF OcPick, NextRound, Dialable, HeldInv, GrantInv
    <2>3. TriesInv' /\ BanInv' /\ BannedNotServed'
      BY <1>3 DEF OcPick, NextRound, TriesInv, BanInv, BannedNotServed
    <2>4. QED
      BY <2>1, <2>2, <2>3
  <1>4. CASE OcTry
    <2>0. /\ held \in listed \cap OutPeers
          /\ oc = "try" /\ "opencon" \notin freed
          /\ freed' = freed /\ held' = held /\ listed' = listed
          /\ oc' \in {"connecting", "failed"}
          /\ ~peer[held].conn /\ ~peer[held].grant
      BY <1>4 DEF OcTry, GoOn, HeldInv
    <2>1. \A q \in Peers : /\ peer'[q].conn = peer[q].conn
                           /\ peer'[q].grant = peer[q].grant
                           /\ peer'[q].destroy = peer[q].destroy
                           /\ peer'[q].valid = peer[q].valid
                           /\ peer'[q].queue = peer[q].queue
                           /\ q # held => peer'[q] = peer[q]
      BY <1>4 DEF OcTry, PeerObjects
    <2>2. TriesInv'
      BY <1>4, <2>0, <2>1 DEF OcTry, GoOn, PeerObjects, TriesInv, Peers
    <2>3. HeldInv'
      BY <2>0, <2>1 DEF HeldInv, Peers
    <2>4. GrantInv'
      BY <2>0, <2>1 DEF GrantInv, Peers
    <2>5. BanInv' /\ BannedNotServed'
      BY <2>0, <2>1 DEF BanInv, BannedNotServed, Peers
    <2>6. QED
      BY <2>2, <2>3, <2>4, <2>5
  <1>5. CASE OcConnected
    <2>0. /\ held \in listed \cap OutPeers
          /\ oc = "connecting" /\ "opencon" \notin freed
          /\ freed' = freed /\ held' = held /\ listed' = listed
          /\ ~peer[held].conn /\ ~peer[held].grant
      BY <1>5 DEF OcConnected, GoOn, HeldInv
    <2>1. \A q \in Peers : /\ peer'[q].grant = peer[q].grant
                           /\ peer'[q].destroy = peer[q].destroy
                           /\ peer'[q].valid = peer[q].valid
                           /\ peer'[q].queue = peer[q].queue
                           /\ peer'[q].tries = peer[q].tries
                           /\ q # held => peer'[q] = peer[q]
      BY <1>5 DEF OcConnected, PeerObjects
    <2>2. \/ oc' = "move" /\ peer'[held].conn
          \/ oc' = "failed" /\ ~peer'[held].conn
      BY <1>5, <2>0 DEF OcConnected, GoOn, PeerObjects, Peers
    <2>3. HeldInv'
      BY <2>0, <2>1, <2>2 DEF HeldInv, Peers
    <2>4. GrantInv'
      BY <2>0, <2>1, <2>2 DEF GrantInv, Peers
    <2>5. TriesInv' /\ BanInv' /\ BannedNotServed'
      BY <2>0, <2>1, <2>2 DEF TriesInv, BanInv, BannedNotServed, Peers
    <2>6. QED
      BY <2>3, <2>4, <2>5
  <1>6. CASE OcMove
    <2>0. /\ held \in listed \cap OutPeers
          /\ oc = "move" /\ "opencon" \notin freed /\ listed' = listed
          /\ oc' = "check" /\ held' = None /\ "opencon" \notin freed'
          /\ peer[held].conn
      BY <1>6 DEF OcMove, NextRound, HeldInv
    <2>1. \A q \in Peers : /\ peer'[q].conn = peer[q].conn
                           /\ peer'[q].destroy = peer[q].destroy
                           /\ peer'[q].valid = peer[q].valid
                           /\ peer'[q].queue = peer[q].queue
                           /\ peer'[q].tries = peer[q].tries
                           /\ q # held => peer'[q] = peer[q]
      BY <1>6 DEF OcMove, PeerObjects
    <2>2. peer'[held].grant
      BY <1>6, <2>0 DEF OcMove, PeerObjects, Peers
    <2>3. HeldInv'
      BY <2>0 DEF HeldInv
    <2>4. GrantInv'
      BY <2>0, <2>1, <2>2 DEF GrantInv, Peers
    <2>5. TriesInv' /\ BanInv' /\ BannedNotServed'
      BY <2>0, <2>1 DEF TriesInv, BanInv, BannedNotServed, Peers
    <2>6. QED
      BY <2>3, <2>4, <2>5
  <1>7. CASE OcFailed
    <2>0. /\ held \in listed \cap OutPeers /\ held \in Peers
          /\ oc = "failed" /\ "opencon" \notin freed
          /\ oc' = "check" /\ held' = None /\ "opencon" \notin freed'
      BY <1>7 DEF OcFailed, HeldInv, Peers
    <2>1. /\ listed' \subseteq listed
          /\ \A q \in listed \ listed' : q = held
          /\ \A q \in Peers : peer'[q] = peer[q] \/ (q = held /\ peer'[q] = Fresh)
          /\ held \notin listed' => peer'[held] = Fresh
      BY <1>7, <2>0 DEF OcFailed, DropEntry
    <2>2. peer'[held].tries < MaxTries
      BY <1>7, <2>0 DEF OcFailed, DropEntry, PeerObjects, Fresh
    <2>3. HeldInv'
      BY <2>0 DEF HeldInv
    <2>4. GrantInv'
      BY <2>0, <2>1 DEF GrantInv, Fresh, Peers
    <2>5. TriesInv' /\ BannedNotServed'
      BY <2>0, <2>1, <2>2 DEF TriesInv, BannedNotServed, Fresh, Peers
    <2>6. BanInv'
      BY <2>0, <2>1 DEF BanInv, Peers
    <2>7. QED
      BY <2>3, <2>4, <2>5, <2>6
  <1>8. CASE OcUseFreed
    BY <1>8 DEF OcUseFreed, NextRound, ocVars, HeldInv, GrantInv, TriesInv,
                BanInv, BannedNotServed
  <1>9. QED
    BY <1>1, <1>2, <1>3, <1>4, <1>5, <1>6, <1>7, <1>8 DEF OpenConnections

-----------------------------------------------------------------------------
(* The other threads *)

\* A step that leaves the lists, the entries and opencon alone.
LEMMA CoreStutter ==
  ASSUME CoreInv, UNCHANGED <<listed, peer, oc, held, freed>>
  PROVE  CoreInv'
  BY DEF CoreInv, HeldInv, GrantInv, TriesInv, BanInv, BannedNotServed

\* Erasing: the entry is gone, and opencon's iterator dangles if it was there.
LEMMA CoreErase ==
  ASSUME TypeOK, CoreInv, NEW p \in Peers, EraseByLoop(p)
  PROVE  CoreInv'
  <1> USE PeersAssumption, LimitsAssumption DEF TypeOK, CoreInv, Dialing
  <1>0. /\ p \in listed /\ listed' = listed \ {p}
        /\ peer' = [peer EXCEPT ![p] = Fresh]
        /\ oc' = oc /\ held' = held
        /\ held = p => "opencon" \in freed'
        /\ held # p => ("opencon" \in freed' <=> "opencon" \in freed)
    BY DEF EraseByLoop, Erasable, DropEntry, ocVars
  <1>1. \A q \in Peers : peer'[q] = IF q = p THEN Fresh ELSE peer[q]
    BY <1>0
  <1>2. HeldInv'
    BY <1>0, <1>1 DEF HeldInv, Peers
  <1>3. GrantInv'
    BY <1>0, <1>1 DEF GrantInv, Fresh, Peers
  <1>4. TriesInv' /\ BannedNotServed'
    BY <1>0, <1>1 DEF TriesInv, BannedNotServed, Fresh, Peers
  <1>5. BanInv'
    BY <1>0, <1>1 DEF BanInv, Peers
  <1>6. QED
    BY <1>2, <1>3, <1>4, <1>5

LEMMA CoreAccept ==
  ASSUME TypeOK, CoreInv, NEW i \in Peers, Accept(i)
  PROVE  CoreInv'
  <1> USE PeersAssumption, LimitsAssumption DEF TypeOK, CoreInv, Dialing
  <1>0. /\ i \in InPeers \ OutPeers /\ i \notin listed /\ listed' = listed \cup {i}
        /\ oc' = oc /\ held' = held /\ freed' = freed
        /\ \A q \in Peers : q # i => peer'[q] = peer[q]
    BY DEF Accept, ocVars, Peers
  <1>1. /\ peer'[i].tries = 0 /\ ~peer'[i].valid /\ peer'[i].queue = 0
        /\ i \in Banned => peer'[i].destroy
    <2>1. PICK s \in {"open", "invalid"}, usable \in BOOLEAN :
            peer'[i] = Accepted(i, usable /\ semIn >= 1, s)
      BY DEF Accept
    <2>2. QED
      BY <2>1 DEF Accepted, Fresh, Dropped
  <1>2. HeldInv'
    BY <1>0 DEF HeldInv, Peers
  <1>3. GrantInv'
    BY <1>0 DEF GrantInv, Peers
  <1>4. TriesInv' /\ BannedNotServed' /\ BanInv'
    BY <1>0, <1>1 DEF TriesInv, BannedNotServed, BanInv, Peers
  <1>5. QED
    BY <1>2, <1>3, <1>4

\* Serving one entry, and learning outbound addresses.  Neither a permit nor
\* opencon is involved, so which peers have a permit does not change either.
LEMMA CoreServe ==
  ASSUME TypeOK, CoreInv, NEW p \in listed, p \notin InPeers \cap Banned,
         NEW r \in PeerObjects, peer' = [peer EXCEPT ![p] = r],
         r.conn = peer[p].conn, r.grant = peer[p].grant, r.tries = peer[p].tries,
         listed \subseteq listed', listed' \ listed \subseteq OutPeers,
         UNCHANGED <<oc, held, freed>>
  PROVE  /\ CoreInv'
         /\ peer' \in [Peers -> PeerObjects]
         /\ Holders' = Holders
  <1> USE PeersAssumption, LimitsAssumption DEF TypeOK, CoreInv, Dialing
  <1>1. /\ p \in Peers
        /\ \A q \in Peers : /\ peer'[q].conn = peer[q].conn
                            /\ peer'[q].grant = peer[q].grant
                            /\ peer'[q].tries = peer[q].tries
                            /\ q # p => peer'[q] = peer[q]
    OBVIOUS
  <1>2. HeldInv'
    BY <1>1 DEF HeldInv, Peers
  <1>3. GrantInv'
    BY <1>1 DEF GrantInv, Peers
  <1>4. TriesInv' /\ BannedNotServed' /\ BanInv'
    BY <1>1 DEF TriesInv, BannedNotServed, BanInv, Peers
  <1>5. \A q \in Peers \ listed : ~peer[q].grant
    BY DEF GrantInv, Fresh
  <1>6. Holders' = Holders
    BY <1>1, <1>5 DEF Holders, Peers
  <1>7. QED
    BY <1>2, <1>3, <1>4, <1>6

\* Reading and writing only queues messages and marks the entry.
LEMMA ServeSocketIO ==
  ASSUME TypeOK, PassInv, CoreInv, NEW p \in Peers, SocketIO(p)
  PROVE  CoreInv' /\ peer' \in [Peers -> PeerObjects] /\ Holders' = Holders
  <1> USE LimitsAssumption DEF TypeOK
  <1>1. PICK n \in 0..Room(p), bad \in BOOLEAN :
          peer' = [peer EXCEPT ![p].queue = peer[p].queue + n,
                               ![p].destroy = \/ peer[p].destroy \/ bad
                                              \/ peer[p].sock = "invalid"]
    BY DEF SocketIO
  <1> DEFINE k == peer[p].queue + n
  <1> DEFINE d == peer[p].destroy \/ bad \/ peer[p].sock = "invalid"
  <1> DEFINE r == [peer[p] EXCEPT !.queue = k, !.destroy = d]
  <1>2. /\ p \in listed
        /\ p \in InPeers => ~peer[p].destroy
        /\ UNCHANGED <<listed, oc, held, freed>>
    BY PeersAssumption DEF SocketIO, PassInv, Servers, ocVars
  <1>3. p \notin InPeers \cap Banned
    BY <1>2 DEF CoreInv, BanInv
  <1>4. peer[p] \in PeerObjects /\ k \in 0..MaxMsgQueue /\ d \in BOOLEAN
    <2>1. peer[p] \in PeerObjects
      OBVIOUS
    <2>2. peer[p].queue \in 0..MaxMsgQueue
      BY <2>1 DEF PeerObjects
    <2>3. k \in 0..MaxMsgQueue
      BY <2>2 DEF Room
    <2>4. QED
      BY <2>1, <2>3
  <1>5. peer' = [peer EXCEPT ![p] = r]
    BY <1>1
  <1> HIDE DEF k, d
  <1>6. /\ r \in PeerObjects
        /\ r.conn = peer[p].conn /\ r.grant = peer[p].grant
        /\ r.tries = peer[p].tries
    BY <1>4 DEF PeerObjects
  <1> HIDE DEF r
  <1>7. QED
    BY <1>2, <1>3, <1>5, <1>6, CoreServe

\* What the flags of an entry are set to in one step leaves it an entry, with the
\* connection, the permit and the tries it had.
LEMMA MarkKeeps ==
  ASSUME NEW e \in PeerObjects
  PROVE  /\ [e EXCEPT !.destroy = TRUE] \in PeerObjects
         /\ [e EXCEPT !.destroy = TRUE].conn = e.conn
         /\ [e EXCEPT !.destroy = TRUE].grant = e.grant
         /\ [e EXCEPT !.destroy = TRUE].tries = e.tries
  BY DEF PeerObjects

LEMMA PingPongKeeps ==
  ASSUME NEW e \in PeerObjects
  PROVE  /\ PingPong(e) \in PeerObjects
         /\ PingPong(e).conn = e.conn /\ PingPong(e).grant = e.grant
         /\ PingPong(e).tries = e.tries
  <1>1. CASE e.destroy
    BY <1>1 DEF PingPong
  <1>2. CASE ~e.destroy /\ e.pong
    <2>1. PingPong(e) = [e EXCEPT !.pong = FALSE]
      BY <1>2 DEF PingPong
    <2>2. [e EXCEPT !.pong = FALSE] \in PeerObjects
      BY DEF PeerObjects
    <2>3. QED
      BY <2>1, <2>2 DEF PeerObjects
  <1>3. CASE ~e.destroy /\ ~e.pong
    <2>1. PingPong(e) = [e EXCEPT !.destroy = TRUE]
      BY <1>3 DEF PingPong
    <2>2. QED
      BY <2>1, MarkKeeps
  <1>4. QED
    BY <1>1, <1>2, <1>3

LEMMA ProcessedKeeps ==
  ASSUME NEW e \in PeerObjects, NEW m \in Messages
  PROVE  /\ Processed(e, m) \in PeerObjects
         /\ Processed(e, m).conn = e.conn /\ Processed(e, m).grant = e.grant
         /\ Processed(e, m).tries = e.tries
  <1> DEFINE v == e.valid \/ m = "version"
             f == IF m \in {"fullNode", "client"} THEN m = "fullNode" ELSE e.fn
             g == e.pong \/ m = "pong"
  <1>1. Processed(e, m) = [e EXCEPT !.valid = v, !.fn = f, !.pong = g]
    BY DEF Processed
  <1>2. v \in BOOLEAN /\ f \in BOOLEAN /\ g \in BOOLEAN
    BY DEF PeerObjects
  <1> HIDE DEF v, f, g
  <1>3. [e EXCEPT !.valid = v, !.fn = f, !.pong = g] \in PeerObjects
    BY <1>2 DEF PeerObjects
  <1>4. QED
    BY <1>1, <1>3 DEF PeerObjects

\* Processing a message pops it and sets flags of the entry.
LEMMA ServeHandleMessage ==
  ASSUME TypeOK, PassInv, CoreInv, NEW p \in Peers, HandleMessage(p)
  PROVE  /\ CoreInv' /\ peer' \in [Peers -> PeerObjects] /\ Holders' = Holders
         /\ listed' \subseteq Peers
  <1> USE LimitsAssumption DEF TypeOK
  <1> DEFINE popped == [peer[p] EXCEPT !.queue = peer[p].queue - 1]
  <1>1. /\ p \in listed /\ peer[p].queue > 0
        /\ p \in InPeers => ~peer[p].destroy
        /\ UNCHANGED <<oc, held, freed>>
    BY PeersAssumption DEF HandleMessage, PassInv, Servers, ocVars
  <1>2. p \notin InPeers \cap Banned
    BY <1>1 DEF CoreInv, BanInv
  <1>3. /\ popped \in PeerObjects
        /\ popped.conn = peer[p].conn /\ popped.grant = peer[p].grant
        /\ popped.tries = peer[p].tries
    BY <1>1 DEF PeerObjects
  <1>4. PICK m \in Messages :
          IF Refuses(popped, m)
          THEN /\ peer' = [peer EXCEPT ![p] = [popped EXCEPT !.destroy = TRUE]]
               /\ UNCHANGED listed
          ELSE /\ peer' = [peer EXCEPT ![p] = Processed(popped, m)]
               /\ \E new \in SUBSET (OutPeers \ Banned) :
                    /\ m # "peerList" => new = {}
                    /\ new # {} => pass["net"] \notin OutPeers
                    /\ listed' = listed \cup new
    BY DEF HandleMessage
  <1>5. /\ listed \subseteq listed' /\ listed' \ listed \subseteq OutPeers
        /\ listed' \subseteq Peers
    BY <1>4 DEF Peers
  <1> DEFINE r == IF Refuses(popped, m) THEN [popped EXCEPT !.destroy = TRUE]
                  ELSE Processed(popped, m)
  <1>6. peer' = [peer EXCEPT ![p] = r]
    BY <1>4
  <1> HIDE DEF popped
  <1>7. /\ r \in PeerObjects
        /\ r.conn = popped.conn /\ r.grant = popped.grant
        /\ r.tries = popped.tries
    <2>1. CASE Refuses(popped, m)
      BY <1>3, <2>1, MarkKeeps
    <2>2. CASE ~Refuses(popped, m)
      BY <1>3, <2>2, ProcessedKeeps
    <2>3. QED
      BY <2>1, <2>2
  <1> HIDE DEF r
  <1>8. QED
    BY <1>1, <1>2, <1>3, <1>5, <1>6, <1>7, CoreServe

\* Maintainer's loops touch bPingPong and the destroy mark only.
LEMMA ServeMntVisit ==
  ASSUME TypeOK, CoreInv, NEW p \in OutPeers, MntVisit(p)
  PROVE  CoreInv' /\ peer' \in [Peers -> PeerObjects] /\ Holders' = Holders
  <1> USE LimitsAssumption DEF TypeOK
  <1>1. p \in listed /\ UNCHANGED <<listed, oc, held, freed>>
    BY DEF MntVisit, Unvisited, ocVars
  <1>2. p \notin InPeers \cap Banned
    BY PeersAssumption
  <1> DEFINE r == IF mnt = "ping" THEN PingPong(peer[p]) ELSE peer[p]
  <1>3. /\ r \in PeerObjects
        /\ r.conn = peer[p].conn /\ r.grant = peer[p].grant
        /\ r.tries = peer[p].tries
    <2>1. peer[p] \in PeerObjects
      BY DEF Peers
    <2>2. QED
      BY <2>1, PingPongKeeps
  <1>4. peer' = [peer EXCEPT ![p] = r]
    BY DEF MntVisit
  <1> HIDE DEF r
  <1>5. QED
    BY <1>1, <1>2, <1>3, <1>4, CoreServe

-----------------------------------------------------------------------------
(* Type correctness *)

LEMMA TypeOpenConnections ==
  ASSUME TypeOK, CoreInv, OpenConnections
  PROVE  TypeOK'
  <1> USE FreshType, LimitsAssumption DEF TypeOK, OcStates
  <1>1. CASE OcCheck
    BY <1>1 DEF OcCheck, GoOn, runVars, mainVars, mntVars
  <1>2. CASE OcWait
    BY <1>2 DEF OcWait, GoOn, runVars, mainVars, mntVars
  <1>3. CASE OcPick
    <2>1. held' \in OutPeers \cup {None} /\ oc' \in OcStates
      BY <1>3 DEF OcPick, NextRound, Dialable
    <2>2. freed' \subseteq {"opencon", "maintainer"}
      BY <1>3 DEF OcPick, NextRound
    <2>3. semOut' = semOut \/ semOut' = semOut + 1
      BY <1>3 DEF OcPick
    <2>4. semOut' \in Nat
      BY <2>3
    <2>5. QED
      BY <1>3, <2>1, <2>2, <2>4 DEF OcPick, runVars, mainVars, mntVars
  <1>4. CASE OcTry
    <2>1. held \in Peers /\ peer[held].tries < MaxTries
      BY <1>4 DEF OcTry, OcAt, CoreInv, HeldInv, TriesInv, Dialing, Peers
    <2>2. PICK s \in {"none", "invalid", "open"} :
            peer' = [peer EXCEPT ![held].tries = peer[held].tries + 1,
                                 ![held].sock = s]
      BY <1>4 DEF OcTry
    <2> DEFINE k == peer[held].tries + 1
    <2> DEFINE r == [peer[held] EXCEPT !.tries = k, !.sock = s]
    <2>3. peer[held] \in PeerObjects /\ k \in 0..MaxTries
      BY <2>1 DEF PeerObjects
    <2> HIDE DEF k
    <2>4. r \in PeerObjects
      BY <2>3 DEF PeerObjects
    <2>5. peer' = [peer EXCEPT ![held] = r]
      BY <2>2 DEF k
    <2> HIDE DEF r
    <2>6. peer' \in [Peers -> PeerObjects]
      BY <2>1, <2>4, <2>5
    <2>7. QED
      BY <1>4, <2>6 DEF OcTry, GoOn, runVars, mainVars, mntVars
  <1>5. CASE OcConnected
    <2>1. held \in Peers /\ peer[held] \in PeerObjects
      BY <1>5 DEF OcConnected, OcAt, CoreInv, HeldInv, Dialing, Peers
    <2>2. /\ [peer[held] EXCEPT !.conn = TRUE] \in PeerObjects
          /\ [peer[held] EXCEPT !.sock = "invalid"] \in PeerObjects
      BY <2>1 DEF PeerObjects
    <2>3. \E r \in PeerObjects : peer' = [peer EXCEPT ![held] = r]
      BY <1>5, <2>2 DEF OcConnected
    <2>4. peer' \in [Peers -> PeerObjects]
      BY <2>1, <2>3
    <2>5. QED
      BY <1>5, <2>4 DEF OcConnected, GoOn, runVars, mainVars, mntVars
  <1>6. CASE OcMove
    <2>1. held \in Peers /\ peer[held] \in PeerObjects
      BY <1>6 DEF OcMove, OcAt, CoreInv, HeldInv, Dialing, Peers
    <2>2. [peer[held] EXCEPT !.grant = TRUE] \in PeerObjects
      BY <2>1 DEF PeerObjects
    <2>3. peer' \in [Peers -> PeerObjects]
      BY <1>6, <2>1, <2>2 DEF OcMove
    <2>4. semOut' \in Nat
      BY <1>6, PermitsType DEF OcMove
    <2>5. QED
      BY <1>6, <2>3, <2>4 DEF OcMove, NextRound, runVars, mainVars, mntVars
  <1>7. CASE OcFailed
    <2>1. peer' \in [Peers -> PeerObjects] /\ listed' \subseteq Peers
      BY <1>7 DEF OcFailed, DropEntry
    <2>2. freed' \subseteq {"opencon", "maintainer"}
      BY <1>7 DEF OcFailed
    <2>3. semOut' = semOut + 1 + Permits(held) \/ semOut' = semOut + 1
      BY <1>7 DEF OcFailed
    <2>4. semOut' \in Nat
      BY <2>3, PermitsType
    <2>5. QED
      BY <1>7, <2>1, <2>2, <2>4 DEF OcFailed, runVars, mainVars, mntVars
  <1>8. CASE OcUseFreed
    <2>1. semOut' \in Nat /\ lost' \in Nat
      <3>1. CASE UNCHANGED <<semOut, lost>>
        BY <3>1
      <3>2. CASE \E leak \in {0, 1} : /\ lost' = lost + leak
                                     /\ semOut' = semOut + 1 - leak
        BY <3>2
      <3>3. QED
        BY <1>8, <3>1, <3>2 DEF OcUseFreed
    <2>2. /\ oc' \in OcStates /\ held' \in OutPeers \cup {None}
          /\ freed' \subseteq {"opencon", "maintainer"}
          /\ alive' \in BOOLEAN
      BY <1>8 DEF OcUseFreed, NextRound, ocVars
    <2>3. QED
      BY <1>8, <2>1, <2>2 DEF OcUseFreed, runVars, mainVars, mntVars
  <1>9. QED
    BY <1>1, <1>2, <1>3, <1>4, <1>5, <1>6, <1>7, <1>8 DEF OpenConnections

LEMMA TypeErase ==
  ASSUME TypeOK, NEW p \in Peers, EraseByLoop(p)
  PROVE  TypeOK'
  <1> USE FreshType DEF TypeOK
  <1>1. peer' \in [Peers -> PeerObjects] /\ listed' \subseteq Peers
    BY DEF EraseByLoop, DropEntry
  <1>2. semOut' \in Nat /\ semIn' \in Nat
    BY DEF EraseByLoop, Permits
  <1>3. freed' \subseteq {"opencon", "maintainer"}
    BY DEF EraseByLoop
  <1>4. QED
    BY <1>1, <1>2, <1>3 DEF EraseByLoop, runVars, mainVars, ocVars, mntVars

LEMMA TypeAccept ==
  ASSUME TypeOK, NEW i \in Peers, Accept(i)
  PROVE  TypeOK'
  <1> USE DEF TypeOK
  <1>1. PICK s \in {"open", "invalid"}, usable \in BOOLEAN :
          peer' = [peer EXCEPT ![i] = Accepted(i, usable /\ semIn >= 1, s)]
    BY DEF Accept
  <1> DEFINE granted == usable /\ semIn >= 1
  <1>2. granted \in BOOLEAN /\ Dropped(i, granted) \in BOOLEAN
    BY <1>1 DEF Dropped
  <1> HIDE DEF granted
  <1>3. Accepted(i, granted, s) \in PeerObjects
    <2> DEFINE d == Dropped(i, granted)
    <2>1. Accepted(i, granted, s) =
            [Fresh EXCEPT !.sock = s, !.conn = granted, !.grant = granted,
                          !.destroy = d]
      BY DEF Accepted
    <2>2. d \in BOOLEAN
      BY <1>2
    <2> HIDE DEF d
    <2>3. QED
      BY <1>2, <2>1, <2>2, FreshType DEF PeerObjects
  <1>4. peer' \in [Peers -> PeerObjects]
    BY <1>1, <1>3 DEF granted
  <1>5. QED
    BY <1>4 DEF Accept, runVars, mainVars, ocVars, mntVars

\* Maintainer's own variables, and those of main and of the threads that end.
LEMMA TypeMntVisit ==
  ASSUME TypeOK, CoreInv, NEW p \in OutPeers, MntVisit(p)
  PROVE  TypeOK'
  <1> USE DEF TypeOK
  <1>1. peer' \in [Peers -> PeerObjects]
    BY ServeMntVisit
  <1>2. counted' \in Nat
    BY DEF MntVisit
  <1>3. QED
    BY <1>1, <1>2 DEF MntVisit, runVars, mainVars, ocVars

LEMMA TypeMntLoopEnd == TypeOK /\ MntLoopEnd => TypeOK'
  <1> SUFFICES ASSUME TypeOK, MntLoopEnd PROVE TypeOK'
    OBVIOUS
  <1> USE DEF TypeOK
  <1>1. mnt' \in {"idle", "clean"} \cup MntLoops
    BY DEF MntLoopEnd, MntAt, AfterLoop, MntLoops
  <1>2. sync' \in BOOLEAN
    BY DEF MntLoopEnd
  <1>3. QED
    BY <1>1, <1>2 DEF MntLoopEnd, runVars, mainVars, ocVars

-----------------------------------------------------------------------------
(* The count of permits *)

LEMMA FiniteHolders ==
  ASSUME TypeOK
  PROVE  IsFiniteSet(Holders) /\ Cardinality(Holders) \in Nat
  <1>1. Holders \subseteq Peers
    BY DEF Holders, Peers
  <1>2. QED
    BY <1>1, PeersAssumption, FS_Subset, FS_CardinalityType

\* A step that moves no permit.
LEMMA PermitsStutter ==
  ASSUME PermitsConserved, Holders' = Holders, UNCHANGED <<semOut, oc, lost>>
  PROVE  PermitsConserved'
  BY DEF PermitsConserved, OcPermit

\* Erasing an entry takes exactly its permit away from the holders.
LEMMA DropHolder ==
  ASSUME TypeOK, NEW p \in listed, DropEntry(p)
  PROVE  Cardinality(Holders') + (IF p \in OutPeers THEN Permits(p) ELSE 0)
           = Cardinality(Holders)
  <1> USE DEF TypeOK
  <1>1. /\ p \in Peers /\ listed' = listed \ {p}
        /\ \A q \in Peers \ {p} : peer'[q] = peer[q]
    BY DEF DropEntry
  <1>2. Holders' = Holders \ {p}
    BY <1>1 DEF Holders, Peers
  <1>3. p \in Holders <=> (p \in OutPeers /\ peer[p].grant)
    BY DEF Holders
  <1>4. CASE p \in Holders
    <2>1. Cardinality(Holders \ {p}) = Cardinality(Holders) - 1
      BY <1>4, FiniteHolders, FS_RemoveElement
    <2>2. p \in OutPeers /\ Permits(p) = 1
      BY <1>3, <1>4 DEF Permits
    <2>3. QED
      BY <1>2, <2>1, <2>2, FiniteHolders
  <1>5. CASE p \notin Holders
    <2>1. Holders' = Holders
      BY <1>2, <1>5
    <2>2. (IF p \in OutPeers THEN Permits(p) ELSE 0) = 0
      BY <1>3, <1>5 DEF Permits
    <2>3. QED
      BY <2>1, <2>2, FiniteHolders
  <1>6. QED
    BY <1>4, <1>5

LEMMA PermitsErase ==
  ASSUME TypeOK, PermitsConserved, NEW p \in Peers, EraseByLoop(p)
  PROVE  PermitsConserved'
  <1>1. /\ p \in listed /\ DropEntry(p) /\ oc' = oc /\ lost' = lost
        /\ semOut' = semOut + (IF p \in OutPeers THEN Permits(p) ELSE 0)
    BY DEF EraseByLoop, Erasable, ocVars
  <1> DEFINE k == IF p \in OutPeers THEN Permits(p) ELSE 0
  <1>2. k \in Nat
    BY PermitsType
  <1>3. Cardinality(Holders') + k = Cardinality(Holders)
    BY <1>1, DropHolder
  <1>4. OcPermit' = OcPermit /\ OcPermit \in Nat
    BY <1>1 DEF OcPermit
  <1>5. Cardinality(Holders') \in Nat
    <2>1. TypeOK'
      BY TypeErase
    <2>2. Holders' \subseteq Peers
      BY DEF Holders, Peers
    <2>3. QED
      BY <2>2, PeersAssumption, FS_Subset, FS_CardinalityType
  <1>6. semOut' = semOut + k
    BY <1>1
  <1> HIDE DEF k
  <1>7. QED
    BY <1>1, <1>2, <1>3, <1>4, <1>5, <1>6, FiniteHolders
    DEF PermitsConserved, TypeOK

LEMMA PermitsOpenConnections ==
  ASSUME TypeOK, CoreInv, PermitsConserved, OpenConnections
  PROVE  PermitsConserved'
  <1>0. /\ Cardinality(Holders) \in Nat /\ semOut \in Nat /\ lost \in Nat
        /\ semOut + Cardinality(Holders) + OcPermit + lost = MaxOut
    BY FiniteHolders DEF TypeOK, PermitsConserved
  <1> USE DEF OcAt, OcPermit, OcHolding
  <1>1. CASE OcCheck
    <2>1. Holders' = Holders
      BY <1>1 DEF OcCheck, Holders
    <2>2. QED
      BY <1>0, <1>1, <2>1 DEF OcCheck, GoOn, PermitsConserved
  <1>2. CASE OcWait
    <2>1. Holders' = Holders
      BY <1>2 DEF OcWait, Holders
    <2>2. QED
      BY <1>0, <1>2, <2>1 DEF OcWait, GoOn, PermitsConserved
  <1>3. CASE OcPick
    <2>1. Holders' = Holders
      BY <1>3 DEF OcPick, Holders
    <2>2. \/ oc' = "try" /\ semOut' = semOut
          \/ oc' = "check" /\ semOut' = semOut + 1
      BY <1>3 DEF OcPick, NextRound
    <2>3. oc = "pick" /\ lost' = lost
      BY <1>3 DEF OcPick
    <2>4. QED
      BY <1>0, <2>1, <2>2, <2>3 DEF PermitsConserved
  <1>4. CASE OcTry
    <2>1. \A q \in Peers : peer'[q].grant = peer[q].grant
      BY <1>4 DEF OcTry, TypeOK, PeerObjects
    <2>2. Holders' = Holders
      BY <1>4, <2>1 DEF OcTry, Holders, Peers
    <2>3. oc = "try" /\ oc' \in {"connecting", "failed"}
      BY <1>4 DEF OcTry, GoOn
    <2>4. QED
      BY <1>0, <1>4, <2>2, <2>3 DEF OcTry, PermitsConserved
  <1>5. CASE OcConnected
    <2>1. \A q \in Peers : peer'[q].grant = peer[q].grant
      BY <1>5 DEF OcConnected, TypeOK, PeerObjects
    <2>2. Holders' = Holders
      BY <1>5, <2>1 DEF OcConnected, Holders, Peers
    <2>3. oc = "connecting" /\ oc' \in {"move", "failed"}
      BY <1>5 DEF OcConnected, GoOn
    <2>4. QED
      BY <1>0, <1>5, <2>2, <2>3 DEF OcConnected, PermitsConserved
  <1>6. CASE OcMove
    <2>1. held \in listed \cap OutPeers /\ held \in Peers /\ ~peer[held].grant
      BY <1>6 DEF OcMove, CoreInv, HeldInv, Dialing, Peers
    <2>2. /\ \A q \in Peers : q # held => peer'[q] = peer[q]
          /\ peer'[held].grant /\ listed' = listed
      BY <1>6, <2>1 DEF OcMove, TypeOK, PeerObjects
    <2>3. Holders' = Holders \cup {held}
      BY <2>1, <2>2 DEF Holders, Peers
    <2>4. held \notin Holders
      BY <2>1 DEF Holders
    <2>5. Cardinality(Holders') = Cardinality(Holders) + 1
      BY <2>3, <2>4, FiniteHolders, FS_AddElement
    <2>6. semOut' = semOut
      BY <1>0, <1>6, <2>1 DEF OcMove, Permits
    <2>7. oc = "move" /\ oc' = "check" /\ lost' = lost
      BY <1>6 DEF OcMove, NextRound
    <2>8. QED
      BY <1>0, <2>5, <2>6, <2>7 DEF PermitsConserved
  <1>7. CASE OcFailed
    <2>1. held \in listed \cap OutPeers /\ ~peer[held].grant
      BY <1>7 DEF OcFailed, CoreInv, HeldInv, Dialing
    <2>2. Permits(held) = 0
      BY <2>1 DEF Permits
    <2>3. Cardinality(Holders') = Cardinality(Holders)
      <3>1. CASE DropEntry(held)
        <4>1. held \notin Holders /\ held \in Peers
          BY <2>1 DEF Holders, Peers
        <4>2. Holders' = Holders
          BY <3>1, <4>1 DEF DropEntry, Holders, Peers, TypeOK
        <4>3. QED
          BY <4>2
      <3>2. CASE UNCHANGED <<listed, peer>>
        BY <3>2 DEF Holders
      <3>3. QED
        BY <1>7, <3>1, <3>2 DEF OcFailed
    <2>4. semOut' = semOut + 1
      BY <1>0, <1>7, <2>2 DEF OcFailed
    <2>5. oc = "failed" /\ oc' = "check" /\ lost' = lost
      BY <1>7 DEF OcFailed
    <2>6. QED
      BY <1>0, <2>3, <2>4, <2>5 DEF PermitsConserved
  <1>8. CASE OcUseFreed
    <2>1. Holders' = Holders
      BY <1>8 DEF OcUseFreed, Holders
    <2>2. CASE UNCHANGED <<oc, semOut, lost>>
      BY <1>0, <2>1, <2>2 DEF PermitsConserved
    <2>3. CASE /\ oc' = "check"
               /\ \E leak \in {0, 1} : /\ lost' = lost + leak
                                       /\ semOut' = semOut + 1 - leak
      <3>1. oc \in {"try", "connecting", "move", "failed"}
        BY <1>8 DEF OcUseFreed, CoreInv, HeldInv, Dialing
      <3>2. semOut' + lost' = semOut + lost + 1 /\ semOut' \in Nat /\ lost' \in Nat
        BY <1>0, <2>3
      <3>3. QED
        BY <1>0, <2>1, <2>3, <3>1, <3>2 DEF PermitsConserved
    <2>4. QED
      BY <1>8, <2>2, <2>3 DEF OcUseFreed, NextRound, ocVars
  <1>9. QED
    BY <1>1, <1>2, <1>3, <1>4, <1>5, <1>6, <1>7, <1>8 DEF OpenConnections

-----------------------------------------------------------------------------
(* Passes: who holds a list's lock keeps others from erasing in it *)

\* Nobody is served in a list that is unlocked.
LEMMA UnlockedNotServed ==
  ASSUME NEW p \in Peers, Unlocked(p), NEW t \in Servers
  PROVE  pass[t] # p
  BY PeersAssumption DEF Unlocked

\* A step that changes no pass keeps PassInv if it leaves the peers alone that
\* are served: listed, and with their queue and, when inbound, their mark.
LEMMA PassKeep ==
  ASSUME TypeOK, PassInv, pass' = pass,
         \A q \in listed :
           (\E t \in Servers : pass[t] = q) =>
              /\ q \in listed'
              /\ peer'[q].queue = peer[q].queue
              /\ q \in InPeers => peer'[q].destroy = peer[q].destroy
  PROVE  PassInv'
  BY DEF PassInv, Servers

LEMMA PassOpenConnections ==
  ASSUME TypeOK, PassInv, CoreInv, OpenConnections
  PROVE  PassInv'
  <1>1. pass' = pass
    BY DEF OpenConnections, OcCheck, OcWait, OcPick, OcTry, OcConnected, OcMove,
           OcFailed, OcUseFreed, runVars
  <1>2. CASE OcTry \/ OcConnected \/ OcMove
    <2>1. listed' = listed
      BY <1>2 DEF OcTry, OcConnected, OcMove
    <2>2. \A q \in Peers : /\ peer'[q].queue = peer[q].queue
                           /\ peer'[q].destroy = peer[q].destroy
      <3>1. CASE OcTry
        BY <3>1 DEF OcTry, TypeOK, PeerObjects
      <3>2. CASE OcConnected
        BY <3>2 DEF OcConnected, TypeOK, PeerObjects
      <3>3. CASE OcMove
        BY <3>3 DEF OcMove, TypeOK, PeerObjects
      <3>4. QED
        BY <1>2, <3>1, <3>2, <3>3
    <2>3. QED
      BY <1>1, <2>1, <2>2, PassKeep DEF TypeOK
  <1>3. CASE OcFailed
    <2>1. held \in Peers
      BY <1>3 DEF OcFailed, OcAt, CoreInv, HeldInv, Dialing, Peers
    <2>2. CASE DropEntry(held) /\ Unlocked(held)
      <3>1. \A t \in Servers : pass[t] # held
        BY <2>1, <2>2, UnlockedNotServed
      <3>2. \A q \in listed : q # held => q \in listed' /\ peer'[q] = peer[q]
        BY <2>2 DEF DropEntry, TypeOK
      <3>3. QED
        BY <1>1, <3>1, <3>2, PassKeep
    <2>3. CASE UNCHANGED <<listed, peer>>
      BY <1>1, <2>3, PassKeep
    <2>4. QED
      BY <1>3, <2>2, <2>3 DEF OcFailed
  <1>4. CASE OcCheck \/ OcWait \/ OcPick \/ OcUseFreed
    <2>1. UNCHANGED <<listed, peer>>
      BY <1>4 DEF OcCheck, OcWait, OcPick, OcUseFreed
    <2>2. QED
      BY <1>1, <2>1, PassKeep
  <1>5. QED
    BY <1>2, <1>3, <1>4 DEF OpenConnections

LEMMA PassErase ==
  ASSUME TypeOK, PassInv, NEW p \in Peers, EraseByLoop(p)
  PROVE  PassInv'
  <1>1. \A t \in Servers : pass[t] # p
    BY UnlockedNotServed DEF EraseByLoop
  <1>2. \A q \in listed : q # p => q \in listed' /\ peer'[q] = peer[q]
    BY DEF EraseByLoop, DropEntry, TypeOK
  <1>3. pass' = pass
    BY DEF EraseByLoop, runVars
  <1>4. QED
    BY <1>1, <1>2, <1>3, PassKeep

LEMMA PassAccept ==
  ASSUME TypeOK, PassInv, NEW i \in Peers, Accept(i)
  PROVE  PassInv'
  <1>1. \A q \in listed : q \in listed' /\ peer'[q] = peer[q]
    BY DEF Accept, TypeOK
  <1>2. pass' = pass
    BY DEF Accept, runVars
  <1>3. QED
    BY <1>1, <1>2, PassKeep

LEMMA PassMntVisit ==
  ASSUME TypeOK, PassInv, NEW p \in OutPeers, MntVisit(p)
  PROVE  PassInv'
  <1>1. \A q \in Peers : /\ peer'[q].queue = peer[q].queue
                         /\ q # p => peer'[q] = peer[q]
    BY DEF MntVisit, PingPong, TypeOK, PeerObjects
  <1>2. pass' = pass /\ listed' = listed
    BY DEF MntVisit, runVars
  <1>3. QED
    BY <1>1, <1>2, PassKeep, PeersAssumption DEF TypeOK

LEMMA PassNetBegin ==
  ASSUME TypeOK, PassInv, NEW p \in Peers, NetBegin(p)
  PROVE  PassInv'
  <1>1. pass["msghand"] # p
    BY UnlockedNotServed DEF NetBegin, Servers
  <1>2. /\ pass' = [pass EXCEPT !["net"] = p] /\ p \in listed /\ ~peer[p].destroy
        /\ UNCHANGED <<listed, peer>>
    BY DEF NetBegin
  <1>3. pass'["net"] = p /\ pass'["msghand"] = pass["msghand"]
    BY <1>2 DEF TypeOK, Servers
  <1>4. QED
    BY <1>1, <1>2, <1>3 DEF PassInv, Servers

LEMMA PassMsgBegin ==
  ASSUME TypeOK, PassInv, NEW p \in Peers, MsgBegin(p)
  PROVE  PassInv'
  <1>1. pass["net"] # p
    BY UnlockedNotServed DEF MsgBegin, Servers
  <1>2. /\ pass' = [pass EXCEPT !["msghand"] = p]
        /\ p \in listed /\ ~peer[p].destroy /\ peer[p].queue > 0
        /\ UNCHANGED <<listed, peer>>
    BY DEF MsgBegin, HasWork
  <1>3. pass'["msghand"] = p /\ pass'["net"] = pass["net"]
    BY <1>2 DEF TypeOK, Servers
  <1>4. QED
    BY <1>1, <1>2, <1>3 DEF PassInv, Servers

LEMMA PassSocketIO ==
  ASSUME TypeOK, PassInv, NEW p \in Peers, SocketIO(p)
  PROVE  PassInv'
  <1>1. /\ pass["net"] = p /\ pass' = [pass EXCEPT !["net"] = None]
        /\ listed' = listed
        /\ \A q \in Peers : q # p => peer'[q] = peer[q]
    BY DEF SocketIO, TypeOK
  <1>2. pass'["net"] = None /\ pass'["msghand"] = pass["msghand"]
    BY <1>1 DEF TypeOK, Servers
  <1>3. pass["msghand"] # p
    BY <1>1, PeersAssumption DEF PassInv
  <1>4. QED
    BY <1>1, <1>2, <1>3 DEF PassInv, TypeOK, Servers

LEMMA PassHandleMessage ==
  ASSUME TypeOK, PassInv, NEW p \in Peers, HandleMessage(p)
  PROVE  PassInv'
  <1> DEFINE popped == [peer[p] EXCEPT !.queue = peer[p].queue - 1]
  <1>1. /\ pass["msghand"] = p /\ listed \subseteq listed'
        /\ \A q \in Peers : q # p => peer'[q] = peer[q]
    BY DEF HandleMessage, TypeOK
  <1>2. pass["net"] # p
    BY <1>1, PeersAssumption DEF PassInv
  <1>3. popped \in PeerObjects /\ popped.destroy = peer[p].destroy
    <2>1. peer[p] \in PeerObjects /\ peer[p].queue > 0
      BY <1>1, PeersAssumption DEF TypeOK, PassInv
    <2>2. peer[p].queue - 1 \in 0..MaxMsgQueue
      BY <2>1, LimitsAssumption DEF PeerObjects
    <2>3. QED
      BY <2>1, <2>2 DEF PeerObjects
  <1>4. \/ pass' = [pass EXCEPT !["msghand"] = None]
        \/ /\ pass' = pass
           /\ popped.queue # 0
           /\ \E m \in Messages : peer' = [peer EXCEPT ![p] = Processed(popped, m)]
    BY DEF HandleMessage
  <1>5. CASE pass' = [pass EXCEPT !["msghand"] = None]
    <2>1. pass'["msghand"] = None /\ pass'["net"] = pass["net"]
      BY <1>5 DEF TypeOK, Servers
    <2>2. QED
      BY <1>1, <1>2, <2>1 DEF PassInv, TypeOK, Servers
  <1>6. CASE /\ pass' = pass
             /\ popped.queue # 0
             /\ \E m \in Messages : peer' = [peer EXCEPT ![p] = Processed(popped, m)]
    <2>1. PICK m \in Messages : peer' = [peer EXCEPT ![p] = Processed(popped, m)]
      BY <1>6
    <2> DEFINE r == Processed(popped, m)
    <2>2. r.queue = popped.queue /\ r.destroy = popped.destroy
      BY <1>3 DEF Processed, PeerObjects
    <2>3. peer'[p] = r
      BY <2>1 DEF TypeOK
    <2> HIDE DEF r, popped
    <2>4. popped.queue > 0
      <3>1. popped.queue \in 0..MaxMsgQueue
        BY <1>3 DEF PeerObjects
      <3>2. QED
        BY <1>6, <3>1, LimitsAssumption
    <2>5. peer'[p].queue > 0 /\ peer'[p].destroy = peer[p].destroy
      BY <1>3, <2>2, <2>3, <2>4
    <2>6. QED
      BY <1>1, <1>2, <1>6, <2>5 DEF PassInv, TypeOK, Servers
  <1>7. QED
    BY <1>4, <1>5, <1>6

-----------------------------------------------------------------------------
(* The invariant *)

LEMMA NextIndInv == IndInv /\ [Next]_vars => IndInv'
  <1> SUFFICES ASSUME IndInv, [Next]_vars PROVE IndInv'
    OBVIOUS
  <1>0. TypeOK /\ PassInv /\ CoreInv /\ PermitsConserved
    BY IndInvParts
  <1> SUFFICES TypeOK' /\ PassInv' /\ CoreInv' /\ PermitsConserved'
    BY DEF IndInv, CoreInv
  <1> USE <1>0
  <1>1. CASE OpenConnections
    BY <1>1, TypeOpenConnections, PassOpenConnections, CoreOpenConnections,
       PermitsOpenConnections
  <1>2. ASSUME NEW p \in Peers, EraseByLoop(p)
        PROVE  TypeOK' /\ PassInv' /\ CoreInv' /\ PermitsConserved'
    BY <1>2, TypeErase, PassErase, CoreErase, PermitsErase
  <1>3. ASSUME NEW p \in OutPeers, MntVisit(p)
        PROVE  TypeOK' /\ PassInv' /\ CoreInv' /\ PermitsConserved'
    <2>1. UNCHANGED <<semOut, oc, lost>>
      BY <1>3 DEF MntVisit, ocVars
    <2>2. QED
      BY <1>3, <2>1, TypeMntVisit, PassMntVisit, ServeMntVisit, PermitsStutter
  <1>4. ASSUME UNCHANGED <<listed, peer, pass, semOut, ocVars, freed, lost>>
        PROVE  PassInv' /\ CoreInv' /\ PermitsConserved'
    <2>1. Holders' = Holders
      BY <1>4 DEF Holders
    <2>2. QED
      BY <1>4, <2>1, PassKeep, CoreStutter, PermitsStutter DEF ocVars
  <1>5. CASE MntLoopEnd
    <2>1. UNCHANGED <<listed, peer, pass, semOut, ocVars, freed, lost>>
      BY <1>5 DEF MntLoopEnd, runVars
    <2>2. QED
      BY <1>4, <1>5, <2>1, TypeMntLoopEnd
  <1>6. CASE MntStart \/ MntUseFreed \/ MntEnd
    <2>1. UNCHANGED <<listed, peer, pass, semOut, ocVars, freed, lost>>
      BY <1>6 DEF MntStart, MntUseFreed, MntEnd, runVars
    <2>2. TypeOK'
      <3>1. CASE MntStart
        BY <3>1 DEF MntStart, MntLoops, TypeOK, runVars, mainVars, ocVars
      <3>2. CASE MntUseFreed
        BY <3>2 DEF MntUseFreed, TypeOK, runVars, mainVars, ocVars, mntVars
      <3>3. CASE MntEnd
        BY <3>3 DEF MntEnd, TypeOK, runVars, mainVars, ocVars
      <3>4. QED
        BY <1>6, <3>1, <3>2, <3>3
    <2>3. QED
      BY <1>4, <2>1, <2>2
  <1>7. CASE Activate \/ Interrupt \/ \E t \in threads : ThreadReturns(t)
    <2>1. UNCHANGED <<listed, peer, pass, semOut, ocVars, freed, lost>>
      BY <1>7 DEF Activate, Interrupt, ThreadReturns
    <2>2. TypeOK'
      BY <1>7 DEF Activate, Interrupt, ThreadReturns, TypeOK, ocVars, mntVars
    <2>3. QED
      BY <1>4, <2>1, <2>2
  <1>8. ASSUME NEW p \in Peers, Accept(p)
        PROVE  TypeOK' /\ PassInv' /\ CoreInv' /\ PermitsConserved'
    <2>1. UNCHANGED <<semOut, oc, lost>> /\ p \in InPeers
      BY <1>8 DEF Accept, ocVars
    <2>2. Holders' = Holders
      BY <1>8, <2>1, PeersAssumption DEF Accept, Holders, TypeOK, Peers
    <2>3. QED
      BY <1>8, <2>1, <2>2, TypeAccept, PassAccept, CoreAccept, PermitsStutter
  <1>9. ASSUME NEW p \in Peers, SocketIO(p)
        PROVE  TypeOK' /\ PassInv' /\ CoreInv' /\ PermitsConserved'
    <2>1. UNCHANGED <<listed, semOut, semIn, mainVars, ocVars, mntVars, freed,
                      lost, alive>>
      BY <1>9 DEF SocketIO
    <2>2. CoreInv' /\ peer' \in [Peers -> PeerObjects] /\ Holders' = Holders
      BY <1>9, ServeSocketIO
    <2>3. pass' \in [Servers -> Peers \cup {None}]
      BY <1>9 DEF SocketIO, TypeOK
    <2>4. TypeOK'
      BY <2>1, <2>2, <2>3 DEF TypeOK, mainVars, ocVars, mntVars
    <2>5. QED
      BY <1>9, <2>1, <2>2, <2>4, PassSocketIO, PermitsStutter DEF ocVars
  <1>10. ASSUME NEW p \in Peers, HandleMessage(p)
         PROVE  TypeOK' /\ PassInv' /\ CoreInv' /\ PermitsConserved'
    <2>1. UNCHANGED <<semOut, semIn, mainVars, ocVars, mntVars, freed, lost,
                      alive>>
      BY <1>10 DEF HandleMessage
    <2>2. /\ CoreInv' /\ peer' \in [Peers -> PeerObjects] /\ Holders' = Holders
          /\ listed' \subseteq Peers
      BY <1>10, ServeHandleMessage
    <2>3. pass' \in [Servers -> Peers \cup {None}]
      <3>1. pass' = [pass EXCEPT !["msghand"] = None] \/ pass' = pass
        BY <1>10 DEF HandleMessage
      <3>2. QED
        BY <3>1 DEF TypeOK
    <2>4. TypeOK'
      BY <2>1, <2>2, <2>3 DEF TypeOK, mainVars, ocVars, mntVars
    <2>5. QED
      BY <1>10, <2>1, <2>2, <2>4, PassHandleMessage, PermitsStutter DEF ocVars
  <1>11. CASE UNCHANGED vars
    <2>1. UNCHANGED <<listed, peer, pass, semOut, ocVars, freed, lost>>
      BY <1>11 DEF vars, runVars
    <2>2. TypeOK'
      BY <1>11 DEF TypeOK, vars, runVars, mainVars, ocVars, mntVars
    <2>3. QED
      BY <1>4, <2>1, <2>2
  <1>12. ASSUME NEW p \in Peers, NetBegin(p) \/ MsgBegin(p)
         PROVE  TypeOK' /\ PassInv' /\ CoreInv' /\ PermitsConserved'
    <2>1. /\ UNCHANGED <<listed, peer, semOut, semIn, mainVars, ocVars, mntVars,
                         freed, lost, alive>>
          /\ pass' \in [Servers -> Peers \cup {None}]
      BY <1>12 DEF NetBegin, MsgBegin, TypeOK
    <2>2. TypeOK'
      BY <2>1 DEF TypeOK, mainVars, ocVars, mntVars
    <2>3. Holders' = Holders
      BY <2>1 DEF Holders
    <2>4. CoreInv' /\ PermitsConserved'
      BY <2>1, <2>3, CoreStutter, PermitsStutter DEF ocVars
    <2>5. QED
      BY <1>12, <2>2, <2>4, PassNetBegin, PassMsgBegin
  <1>13. QED
    BY <1>1, <1>2, <1>3, <1>5, <1>6, <1>7, <1>8, <1>9, <1>10, <1>11, <1>12
    DEF Next, Maintainer, MntErase, NetErase, Peers

-----------------------------------------------------------------------------
(* The theorems *)

\* Every step of every thread preserves the inductive invariant.
THEOREM IndInvTheorem == Spec => []IndInv
  BY InitIndInv, NextIndInv, PTL DEF Spec

\* All variables stay in their ranges: the semaphores never run below zero, no
\* entry is tried more often, or queues more messages, than its limit.
THEOREM TypeTheorem == Spec => []TypeOK
  <1>1. IndInv => TypeOK
    BY DEF IndInv
  <1>2. QED
    BY <1>1, IndInvTheorem, PTL

\* No interleaving of dialling, erasing and maintaining makes or loses an
\* outbound permit, but for those moved into an entry that was erased already.
THEOREM PermitsConservedTheorem == Spec => []PermitsConserved
  <1>1. IndInv => PermitsConserved
    BY DEF IndInv
  <1>2. QED
    BY <1>1, IndInvTheorem, PTL

\* A banned host is never served, whatever it sends and whenever net gets to
\* erase its entry.
THEOREM BannedNotServedTheorem == Spec => []BannedNotServed
  <1>1. IndInv => BannedNotServed
    BY DEF IndInv
  <1>2. QED
    BY <1>1, IndInvTheorem, PTL

\* The semaphore bounds the outbound connections: a connected peer has a permit
\* of its own, or is the one whose permit opencon is about to move.
THEOREM OutboundBoundTheorem == Spec => []OutboundBound
  <1>1. IndInv => OutboundBound
    <2> SUFFICES ASSUME IndInv PROVE OutboundBound
      OBVIOUS
    <2>1. TypeOK /\ GrantInv /\ PermitsConserved
      BY DEF IndInv
    <2> DEFINE Dialed == IF oc = "move" THEN {held} ELSE {}
    <2>2. Connected \subseteq Holders \cup Dialed
      BY <2>1 DEF Connected, Holders, GrantInv
    <2>3. IsFiniteSet(Dialed) /\ Cardinality(Dialed) <= OcPermit
      <3>1. CASE oc = "move"
        <4>1. Dialed = {held} /\ OcPermit = 1
          BY <3>1 DEF OcPermit, OcHolding
        <4>2. IsFiniteSet({held}) /\ Cardinality({held}) = 1
          BY FS_Singleton
        <4>3. QED
          BY <4>1, <4>2
      <3>2. CASE oc # "move"
        <4>1. Dialed = {} /\ OcPermit \in {0, 1}
          BY <3>2 DEF OcPermit
        <4>2. QED
          BY <4>1, FS_EmptySet
      <3>3. QED
        BY <3>1, <3>2
    <2>4. /\ IsFiniteSet(Holders \cup Dialed)
          /\ Cardinality(Holders \cup Dialed)
               <= Cardinality(Holders) + Cardinality(Dialed)
      <3>1. /\ IsFiniteSet(Holders \cup Dialed)
            /\ Cardinality(Holders \cup Dialed)
                 = Cardinality(Holders) + Cardinality(Dialed)
                     - Cardinality(Holders \cap Dialed)
        BY <2>1, <2>3, FiniteHolders, FS_Union
      <3>2. Cardinality(Holders \cap Dialed) \in Nat
        BY <2>3, FS_Intersection, FS_CardinalityType
      <3>3. Cardinality(Dialed) \in Nat
        BY <2>3, FS_CardinalityType
      <3> HIDE DEF Dialed
      <3>4. QED
        BY <2>1, <3>1, <3>2, <3>3, FiniteHolders
    <2>5. /\ Cardinality(Connected) <= Cardinality(Holders \cup Dialed)
          /\ Cardinality(Connected) \in Nat
      BY <2>2, <2>4, FS_Subset, FS_CardinalityType
    <2>6. /\ Cardinality(Dialed) \in Nat /\ OcPermit \in Nat
          /\ Cardinality(Holders \cup Dialed) \in Nat
      BY <2>3, <2>4, FS_CardinalityType DEF OcPermit
    <2> HIDE DEF Dialed
    <2>7. /\ semOut \in Nat /\ lost \in Nat /\ Cardinality(Holders) \in Nat
          /\ semOut + Cardinality(Holders) + OcPermit + lost = MaxOut
      BY <2>1, FiniteHolders DEF TypeOK, PermitsConserved
    <2>8. QED
      BY <2>3, <2>4, <2>5, <2>6, <2>7, LimitsAssumption DEF OutboundBound
  <1>2. QED
    BY <1>1, IndInvTheorem, PTL

-----------------------------------------------------------------------------
(* Marked entries *)

\* What DestroyedIsInert asks of one step for one entry.
Inert(p) ==
    peer[p].destroy =>
      /\ peer'[p].destroy
      /\ \A t \in Servers : pass'[t] = p => pass[t] = p
      /\ (p \in InPeers \/ \A t \in Servers : pass[t] # p) =>
           /\ peer'[p].valid = peer[p].valid
           /\ peer'[p].fn = peer[p].fn
           /\ peer'[p].queue = peer[p].queue

LEMMA NextInert ==
  ASSUME IndInv, [Next]_vars, NEW p \in listed, p \in listed'
  PROVE  Inert(p)
  <1>0. TypeOK /\ PassInv /\ CoreInv /\ p \in Peers /\ peer[p] \in PeerObjects
    BY DEF IndInv, CoreInv, TypeOK
  <1>1. CASE peer'[p] = peer[p] /\ pass' = pass
    BY <1>1 DEF Inert
  <1>2. CASE OpenConnections
    <2>1. CASE OcTry \/ OcConnected \/ OcMove
      <3>1. /\ peer'[p].destroy = peer[p].destroy
            /\ peer'[p].valid = peer[p].valid
            /\ peer'[p].fn = peer[p].fn
            /\ peer'[p].queue = peer[p].queue
          /\ pass' = pass
        <4>1. CASE OcTry
          BY <1>0, <4>1 DEF OcTry, TypeOK, PeerObjects, runVars
        <4>2. CASE OcConnected
          BY <1>0, <4>2 DEF OcConnected, TypeOK, PeerObjects, runVars
        <4>3. CASE OcMove
          BY <1>0, <4>3 DEF OcMove, TypeOK, PeerObjects, runVars
        <4>4. QED
          BY <2>1, <4>1, <4>2, <4>3
      <3>2. QED
        BY <3>1 DEF Inert
    <2>2. CASE OcFailed
      BY <1>0, <1>1, <2>2 DEF OcFailed, DropEntry, TypeOK, runVars
    <2>3. CASE OcCheck \/ OcWait \/ OcPick \/ OcUseFreed
      BY <1>1, <2>3 DEF OcCheck, OcWait, OcPick, OcUseFreed, runVars
    <2>4. QED
      BY <1>2, <2>1, <2>2, <2>3 DEF OpenConnections
  <1>3. ASSUME NEW q \in Peers, EraseByLoop(q)
        PROVE  Inert(p)
    BY <1>0, <1>1, <1>3 DEF EraseByLoop, DropEntry, TypeOK, runVars
  <1>4. ASSUME NEW q \in OutPeers, MntVisit(q)
        PROVE  Inert(p)
    BY <1>0, <1>4 DEF MntVisit, PingPong, Inert, TypeOK, PeerObjects, runVars
  <1>5. ASSUME NEW q \in Peers, Accept(q)
        PROVE  Inert(p)
    BY <1>0, <1>1, <1>5 DEF Accept, TypeOK, runVars
  <1>6. ASSUME NEW q \in Peers, SocketIO(q)
        PROVE  Inert(p)
    <2>1. /\ pass["net"] = q /\ pass' = [pass EXCEPT !["net"] = None]
          /\ p # q => peer'[p] = peer[p]
      BY <1>0, <1>6 DEF SocketIO, TypeOK
    <2>2. \A t \in Servers : pass'[t] = p => pass[t] = p
      BY <1>0, <2>1, PeersAssumption DEF TypeOK, Servers
    <2>3. CASE p = q
      <3>1. peer[p].destroy => p \notin InPeers
        BY <1>0, <2>1, <2>3, PeersAssumption DEF PassInv, Servers
      <3>2. peer[p].destroy => peer'[p].destroy
        BY <1>0, <1>6, <2>3 DEF SocketIO, TypeOK, PeerObjects
      <3>3. QED
        BY <2>1, <2>2, <2>3, <3>1, <3>2 DEF Inert, Servers
    <2>4. CASE p # q
      BY <2>1, <2>2, <2>4 DEF Inert
    <2>5. QED
      BY <2>3, <2>4
  <1>7. ASSUME NEW q \in Peers, HandleMessage(q)
        PROVE  Inert(p)
    <2>1. /\ pass["msghand"] = q
          /\ pass' = pass \/ pass' = [pass EXCEPT !["msghand"] = None]
          /\ p # q => peer'[p] = peer[p]
      BY <1>0, <1>7 DEF HandleMessage, TypeOK
    <2>2. \A t \in Servers : pass'[t] = p => pass[t] = p
      BY <1>0, <2>1, PeersAssumption DEF TypeOK, Servers
    <2>3. CASE p = q
      <3>1. peer[p].destroy => p \notin InPeers
        BY <1>0, <2>1, <2>3, PeersAssumption DEF PassInv, Servers
      <3>2. peer[p].destroy => peer'[p].destroy
        <4> DEFINE popped == [peer[p] EXCEPT !.queue = peer[p].queue - 1]
        <4>1. PICK m \in Messages :
                \/ peer' = [peer EXCEPT ![p] = [popped EXCEPT !.destroy = TRUE]]
                \/ peer' = [peer EXCEPT ![p] = Processed(popped, m)]
          BY <1>7, <2>3 DEF HandleMessage
        <4>2. popped.destroy = peer[p].destroy
          BY <1>0 DEF PeerObjects
        <4>3. /\ [popped EXCEPT !.destroy = TRUE].destroy
              /\ Processed(popped, m).destroy = popped.destroy
          BY <1>0 DEF Processed, PeerObjects
        <4> HIDE DEF popped
        <4>4. QED
          BY <1>0, <4>1, <4>2, <4>3 DEF TypeOK
      <3>3. QED
        BY <2>1, <2>2, <2>3, <3>1, <3>2 DEF Inert, Servers
    <2>4. CASE p # q
      BY <2>1, <2>2, <2>4 DEF Inert
    <2>5. QED
      BY <2>3, <2>4
  <1>8. ASSUME NEW q \in Peers, NetBegin(q) \/ MsgBegin(q)
        PROVE  Inert(p)
    <2>1. /\ peer' = peer /\ ~peer[q].destroy
          /\ \E t \in Servers : pass' = [pass EXCEPT ![t] = q]
      BY <1>8 DEF NetBegin, MsgBegin, HasWork, Servers
    <2>2. CASE p = q
      BY <2>1, <2>2 DEF Inert
    <2>3. CASE p # q
      BY <1>0, <2>1, <2>3 DEF Inert, TypeOK
    <2>4. QED
      BY <2>2, <2>3
  <1>9. CASE MntStart \/ MntLoopEnd \/ MntUseFreed \/ MntEnd \/ UNCHANGED vars
    BY <1>1, <1>9 DEF MntStart, MntLoopEnd, MntUseFreed, MntEnd, vars, runVars
  <1>10. CASE Activate \/ Interrupt \/ \E t \in threads : ThreadReturns(t)
    BY <1>1, <1>10 DEF Activate, Interrupt, ThreadReturns
  <1>11. QED
    BY <1>2, <1>3, <1>4, <1>5, <1>6, <1>7, <1>8, <1>9, <1>10
    DEF Next, Maintainer, MntErase, NetErase, Peers

\* A marked entry stays marked, and no thread begins to serve it any more.
THEOREM DestroyedIsInertTheorem == Spec => DestroyedIsInert
  <1>1. ASSUME IndInv, [Next]_vars
        PROVE  [\A p \in listed \cap listed' :
                  peer[p].destroy =>
                    /\ peer'[p].destroy
                    /\ \A t \in Servers : pass'[t] = p => pass[t] = p
                    /\ (p \in InPeers \/ \A t \in Servers : pass[t] # p) =>
                         /\ peer'[p].valid = peer[p].valid
                         /\ peer'[p].fn = peer[p].fn
                         /\ peer'[p].queue = peer[p].queue]_vars
    <2>1. \A p \in listed \cap listed' : Inert(p)
      BY <1>1, NextInert
    <2>2. QED
      BY <2>1 DEF Inert
  <1>2. QED
    BY <1>1, IndInvTheorem, PTL DEF Spec, DestroyedIsInert
=============================================================================
