------------------------------ MODULE Joining ------------------------------
(***************************************************************************)
(* How nodes meet: a node dials the addresses it was given when it starts, *)
(* admits or refuses who connects, records it, tells it about the peers it *)
(* has seen lately, and dials those it is told about. Each end of a        *)
(* connection has a goroutine of its own (handleConn) that runs OnPeer and *)
(* later OnPeerDisconnect; announceTo and discoverPeers run beside it.     *)
(*                                                                         *)
(* A node is known by its listening address and its identity, one for the  *)
(* other. Handshake.tla says how the ends of a connection learn them; here *)
(* a connection starts where GetHandshakeFunc has returned on both ends.   *)
(***************************************************************************)
EXTENDS Naturals, FiniteSets

CONSTANTS
    Nodes,
    Boot,         \* node -> the addresses it is started with
    Placements,   \* ways the nodes are spread over hosts
    Loopback,     \* hosts that IsLoopbackHost exempts
    MaxPeersPerHost,
    MaxAttempts,  \* dials per list of peers (10 in the code)
    MaxEvents,    \* bound: connections made, and faults: nodes that stop (and
                  \* may start again), connections that break, rows that pass
                  \* peerRecency; all of them together
    None

ASSUME JoiningAssumption ==
    /\ IsFiniteSet(Nodes)
    /\ Boot \in [Nodes -> SUBSET Nodes]
    /\ MaxPeersPerHost \in Nat /\ MaxAttempts \in Nat
    /\ MaxEvents \in Nat
    /\ None \notin Nat

Conns == 1 .. MaxEvents

VARIABLES
    host,      \* node -> host; never changes
    running,   \* nodes that are running
    todo,      \* node -> bootstrap addresses still to dial
    link,      \* connection -> its two nodes, or {}
    closed,    \* connections that one side has closed
    stage,     \* connection -> node -> how far its end is
    peers,     \* node -> the peer set: node -> connection
    rows,      \* node -> table peers: node -> "none", "recent", "old"
    owed,      \* ends <<c, n>> whose announcement is to be made
    list,      \* connection -> node -> addresses told to it, still to look at
    tries,     \* connection -> node -> dials made for that list
    raced,     \* history: <<n, h>> where admissions overlapped
    faults, aged

vars == <<host, running, todo, link, closed, stage, peers, rows, owed, list,
          tries, raced, faults, aged>>

Stages == {"none", "new", "admitted", "up", "gone"}

TypeOK ==
    /\ host \in Placements
    /\ running \subseteq Nodes
    /\ todo \in [Nodes -> SUBSET Nodes]
    /\ link \in [Conns -> SUBSET Nodes]
    /\ closed \subseteq Conns
    /\ stage \in [Conns -> [Nodes -> Stages]]
    /\ peers \in [Nodes -> [Nodes -> Conns \cup {None}]]
    /\ rows \in [Nodes -> [Nodes -> {"none", "recent", "old"}]]
    /\ owed \subseteq Conns \X Nodes
    /\ list \in [Conns -> [Nodes -> SUBSET Nodes]]
    /\ tries \in [Conns -> [Nodes -> 0 .. MaxAttempts]]
    /\ raced \subseteq Nodes \X UNION {{p[n] : n \in Nodes} : p \in Placements}
    /\ faults \in 0 .. MaxEvents /\ aged \in BOOLEAN

Each(v) == [n \in Nodes |-> v]

(* All nodes have bound their sockets and are about to dial. *)
Init ==
    /\ host \in Placements
    /\ running = Nodes
    /\ todo = Boot
    /\ link = [c \in Conns |-> {}]
    /\ closed = {}
    /\ stage = [c \in Conns |-> Each("none")]
    /\ peers = Each(Each(None))
    /\ rows = Each(Each("none"))
    /\ owed = {}
    /\ list = [c \in Conns |-> Each({})]
    /\ tries = [c \in Conns |-> Each(0)]
    /\ raced = {}
    /\ faults = 0 /\ aged = FALSE

Other(c, n) == CHOOSE m \in link[c] : m # n

-----------------------------------------------------------------------------
(* Dialling.                                                               *)

Made == {c \in Conns : link[c] # {}}

Spare == Cardinality(Made) + faults < MaxEvents

(* Dial, the accept at the other side, and the handshake. A node that is   *)
(* not running cannot be reached; one that dials itself is refused.        *)
Dial(n, m) ==
    IF m \in running /\ m # n
      THEN /\ Spare
           /\ LET next == CHOOSE c \in Conns : c \notin Made IN
                /\ link' = [link EXCEPT ![next] = {n, m}]
                /\ stage' = [stage EXCEPT ![next][n] = "new", ![next][m] = "new"]
      ELSE UNCHANGED <<link, stage>>

(* Listen, of a node that starts again: the socket is bound, then every    *)
(* bootstrap node is dialled, once.                                        *)
Start(n) ==
    /\ n \notin running
    /\ running' = running \cup {n}
    /\ todo' = [todo EXCEPT ![n] = Boot[n]]
    /\ UNCHANGED <<host, link, closed, stage, peers, rows, owed, list, tries,
                   raced, faults, aged>>

Bootstrap(n, m) ==
    /\ m \in todo[n]
    /\ todo' = [todo EXCEPT ![n] = @ \ {m}]
    /\ Dial(n, m)
    /\ UNCHANGED <<host, running, closed, peers, rows, owed, list, tries,
                   raced, faults, aged>>

-----------------------------------------------------------------------------
(* OnPeer and OnPeerDisconnect.                                            *)

(* CountActivePeersForHost *)
KnownAt(n, h) == {m \in Nodes : host[m] = h /\ rows[n][m] = "recent"}

(* Ends at n that have been admitted and are not recorded yet. *)
Entering(n, h) ==
    {c \in Conns : stage[c][n] = "admitted" /\ host[Other(c, n)] = h}

(* Mutation for checking: one identity too many. *)
AdmitsOneMore(n, m) ==
    \/ host[m] \in Loopback
    \/ peers[n][m] # None
    \/ Cardinality(KnownAt(n, host[m])) <= MaxPeersPerHost

(* admit. The count and the look at the peer set are one step: only the    *)
(* latter decides once the limit is reached.                               *)
Admits(n, m) ==
    \/ host[m] \in Loopback
    \/ peers[n][m] # None
    \/ Cardinality(KnownAt(n, host[m])) < MaxPeersPerHost

Admit(c, n) ==
    /\ stage[c][n] = "new"
    /\ LET m == Other(c, n) IN
         /\ Admits(n, m)
         /\ raced' = IF Entering(n, host[m]) # {} THEN raced \cup {<<n, host[m]>>}
                                                  ELSE raced
    /\ stage' = [stage EXCEPT ![c][n] = "admitted"]
    /\ UNCHANGED <<host, running, todo, link, closed, peers, rows, owed, list,
                   tries, faults, aged>>

(* OnPeer returns an error, and handleConn closes the connection. *)
Refuse(c, n) ==
    /\ stage[c][n] = "new"
    /\ ~Admits(n, Other(c, n))
    /\ stage' = [stage EXCEPT ![c][n] = "gone"]
    /\ closed' = closed \cup {c}
    /\ UNCHANGED <<host, running, todo, link, peers, rows, owed, list, tries,
                   raced, faults, aged>>

(* Mutation for checking: the peer is recorded when it leaves only. *)
RecordLate(c, n) ==
    /\ stage[c][n] = "admitted"
    /\ stage' = [stage EXCEPT ![c][n] = "up"]
    /\ peers' = [peers EXCEPT ![n][Other(c, n)] = c]
    /\ owed' = owed \cup {<<c, n>>}
    /\ UNCHANGED <<host, running, todo, link, closed, rows, list, tries,
                   raced, faults, aged>>

(* The rest of OnPeer: the peer goes into the peer set and into the        *)
(* database, and announceTo is started.                                    *)
Record(c, n) ==
    /\ stage[c][n] = "admitted"
    /\ stage' = [stage EXCEPT ![c][n] = "up"]
    /\ peers' = [peers EXCEPT ![n][Other(c, n)] = c]
    /\ rows' = [rows EXCEPT ![n][Other(c, n)] = "recent"]
    /\ owed' = owed \cup {<<c, n>>}
    /\ UNCHANGED <<host, running, todo, link, closed, list, tries,
                   raced, faults, aged>>

(* Mutation for checking: the peer set is not touched. *)
DisconnectUnseen(c, n) ==
    /\ stage[c][n] = "up" /\ c \in closed
    /\ stage' = [stage EXCEPT ![c][n] = "gone"]
    /\ rows' = [rows EXCEPT ![n][Other(c, n)] = "recent"]
    /\ UNCHANGED <<host, running, todo, link, closed, peers, owed, list, tries,
                   raced, faults, aged>>

(* A read fails and OnPeerDisconnect takes whatever has the peer's address *)
(* out of the peer set, and records when it was seen last.                 *)
Disconnect(c, n) ==
    /\ stage[c][n] = "up" /\ c \in closed
    /\ stage' = [stage EXCEPT ![c][n] = "gone"]
    /\ peers' = [peers EXCEPT ![n][Other(c, n)] = None]
    /\ rows' = [rows EXCEPT ![n][Other(c, n)] = "recent"]
    /\ UNCHANGED <<host, running, todo, link, closed, owed, list, tries,
                   raced, faults, aged>>

-----------------------------------------------------------------------------
(* announceTo and discoverPeers.                                           *)

(* GetActivePeers: seen within peerRecency, a limited number per host.     *)
Gossip(n) ==
    {l \in SUBSET {m \in Nodes : rows[n][m] = "recent"} :
       \A h \in {host[m] : m \in Nodes} :
         LET here == KnownAt(n, h) IN
         IF h \in Loopback \/ Cardinality(here) <= MaxPeersPerHost
           THEN here \subseteq l
           ELSE Cardinality(here \cap l) = MaxPeersPerHost}

(* sendPeerExchange: the peer is looked up by its address again. The list  *)
(* is on its way until its receiver takes it up, which passes over itself. *)
Announce(c, n) ==
    /\ <<c, n>> \in owed
    /\ LET m == Other(c, n) IN
         /\ peers[n][m] # None
         /\ \E l \in Gossip(n) :
              list' = IF peers[n][m] \in closed THEN list
                      ELSE [list EXCEPT ![c][m] = l \ {m}]
    /\ owed' = owed \ {<<c, n>>}
    /\ UNCHANGED <<host, running, todo, link, closed, stage, peers, rows, tries,
                   raced, faults, aged>>

(* The peer has gone, at every attempt. *)
GiveUp(c, n) ==
    /\ <<c, n>> \in owed
    /\ peers[n][Other(c, n)] = None
    /\ owed' = owed \ {<<c, n>>}
    /\ UNCHANGED <<host, running, todo, link, closed, stage, peers, rows, list,
                   tries, raced, faults, aged>>

(* The connection it was sent on ended first. *)
ListLost(c, n) ==
    /\ list[c][n] # {} /\ tries[c][n] = 0
    /\ \E d \in closed : link[d] = link[c]
    /\ list' = [list EXCEPT ![c][n] = {}]
    /\ UNCHANGED <<host, running, todo, link, closed, stage, peers, rows, owed,
                   tries, raced, faults, aged>>

(* One entry of the list: a peer that is connected is passed over. *)
Discover(c, n, m) ==
    /\ m \in list[c][n]
    /\ IF peers[n][m] = None /\ tries[c][n] < MaxAttempts
         THEN /\ tries' = [tries EXCEPT ![c][n] = @ + 1]
              /\ Dial(n, m)
         ELSE UNCHANGED <<tries, link, stage>>
    /\ list' = [list EXCEPT ![c][n] = @ \ {m}]
    /\ UNCHANGED <<host, running, todo, closed, peers, rows, owed, raced,
                   faults, aged>>

-----------------------------------------------------------------------------
(* What happens to them.                                                   *)

(* A process ends; its database stays. *)
Stop(n) ==
    /\ n \in running
    /\ Spare
    /\ faults' = faults + 1
    /\ running' = running \ {n}
    /\ todo' = [todo EXCEPT ![n] = {}]
    /\ closed' = closed \cup {c \in Conns : n \in link[c]}
    /\ stage' = [c \in Conns |->
                   IF n \in link[c] THEN [stage[c] EXCEPT ![n] = "gone"] ELSE stage[c]]
    /\ peers' = [peers EXCEPT ![n] = Each(None)]
    /\ owed' = {o \in owed : o[2] # n}
    /\ list' = [c \in Conns |-> [list[c] EXCEPT ![n] = {}]]
    /\ UNCHANGED <<host, link, rows, tries, raced, aged>>

Break(c) ==
    /\ link[c] # {} /\ c \notin closed
    /\ Spare
    /\ faults' = faults + 1
    /\ closed' = closed \cup {c}
    /\ UNCHANGED <<host, running, todo, link, stage, peers, rows, owed, list,
                   tries, raced, aged>>

(* Half an hour after a row was written. *)
GrowOld(n, m) ==
    /\ rows[n][m] = "recent"
    /\ Spare
    /\ faults' = faults + 1
    /\ aged' = TRUE
    /\ rows' = [rows EXCEPT ![n][m] = "old"]
    /\ UNCHANGED <<host, running, todo, link, closed, stage, peers, owed, list,
                   tries, raced>>

(* The cleanup command: rows not seen for an hour are removed, be their    *)
(* peers connected or not.                                                 *)
CleanupStalePeers(n) ==
    /\ \E stale \in SUBSET {m \in Nodes : rows[n][m] = "old"} :
         /\ stale # {}
         /\ rows' = [rows EXCEPT ![n] =
                      [m \in Nodes |-> IF m \in stale THEN "none" ELSE rows[n][m]]]
    /\ UNCHANGED <<host, running, todo, link, closed, stage, peers, owed, list,
                   tries, raced, faults, aged>>

-----------------------------------------------------------------------------
PeerStep(c, n) ==
    \/ Admit(c, n) \/ Refuse(c, n) \/ Record(c, n) \/ Disconnect(c, n)

TalkStep(c, n) ==
    Announce(c, n) \/ GiveUp(c, n) \/ \E m \in Nodes : Discover(c, n, m)

Next ==
    \/ \E n \in Nodes :
         \/ Start(n) \/ Stop(n) \/ CleanupStalePeers(n)
         \/ \E m \in Nodes : Bootstrap(n, m) \/ GrowOld(n, m)
    \/ \E c \in Conns : Break(c) \/ \E n \in Nodes : PeerStep(c, n) \/ TalkStep(c, n) \/ ListLost(c, n)

Spec == Init /\ [][Next]_vars

-----------------------------------------------------------------------------
(* Properties.                                                             *)

Joined(n, m) == peers[n][m] # None /\ peers[m][n] # None

(* Where no host has more identities than any node accepts. *)
Roomy ==
    \A h \in {host[n] : n \in Nodes} :
        h \in Loopback \/ Cardinality({n \in Nodes : host[n] = h}) <= MaxPeersPerHost

(* Nothing is left to be dialled, admitted, told or noticed. *)
AtRest ==
    /\ \A n \in Nodes : todo[n] = {}
    /\ owed = {}
    /\ \A c \in Conns, n \in Nodes :
         /\ list[c][n] = {}
         /\ stage[c][n] \in {"none", "up", "gone"}
         /\ stage[c][n] = "up" => c \notin closed

(* README.md:50, server.go:1378-1382: once the network has come to rest,   *)
(* two nodes that are joined to a third are joined to each other, in       *)
(* whatever order they arrived: a peer is recorded before it is told of    *)
(* others, so that the later one is told of the earlier one. (As long as   *)
(* no node has stopped, no connection has been lost and no row is older    *)
(* than peerRecency.)                                                      *)
EveryoneMeets ==
    AtRest /\ Roomy /\ faults = 0 =>
      \A n, m, l \in Nodes :
        n # m /\ Joined(l, n) /\ Joined(l, m) => Joined(n, m)

(* server.go:1132-1135: the identities accepted from one host are capped.  *)
(* More get in only while admissions overlap, or after rows of peers that  *)
(* are still connected have grown old.                                     *)
HostCapped ==
    \A n \in Nodes, h \in {host[m] : m \in Nodes} :
        \/ h \in Loopback
        \/ <<n, h>> \in raced
        \/ aged
        \/ Cardinality(KnownAt(n, h)) <= MaxPeersPerHost

(* An entry of a peer set is an end of this node's that is past OnPeer and *)
(* has not been through OnPeerDisconnect, and the peer has been recorded,  *)
(* unless its row has grown old since.                                     *)
JoiningInv ==
    /\ TypeOK
    /\ \A n, m \in Nodes, c \in Conns :
         peers[n][m] = c =>
           /\ link[c] = {n, m} /\ n # m /\ n \in running
           /\ stage[c][n] = "up" /\ (aged \/ rows[n][m] = "recent")
    /\ \A c \in Conns, n \in Nodes :
         stage[c][n] # "none" => n \in link[c]
=============================================================================
