---------------------------- MODULE Connections ----------------------------
(***************************************************************************)
(* The receiving side of a node: one goroutine per connection decodes      *)
(* frames (handleConn), one server loop handles them. A transfer is an     *)
(* announcement, a stream tag and a body; while the loop reads the body    *)
(* off the connection, the goroutine waits for CloseStream. Frames reach   *)
(* the loop with the address of the peer only, and the loop finds the      *)
(* connection again in the peer set, by that address.                      *)
(*                                                                         *)
(* A body is Pieces units long; a decoder that meets one in the place of a *)
(* frame is out of step with the sender.                                   *)
(***************************************************************************)
EXTENDS Integers, Sequences

CONSTANTS
    Addrs,       \* peers, by the address they can be reached on
    Conns,       \* connections; each is opened and closed once
    AddrOf,      \* the peer each connection leads to
    None,
    Pieces,
    QueueSize,   \* capacity of rpcChan (1024 in the code)
    MaxSends,    \* bound: transfers peers send
    MaxFaults,   \* bound: bodies left half sent or half read
    Overlap      \* a peer may connect again before this node has seen its
                 \* earlier connection end

ASSUME ConnectionsAssumption ==
    /\ AddrOf \in [Conns -> Addrs]
    /\ None \notin Conns
    /\ Pieces \in Nat \ {0} /\ QueueSize \in Nat \ {0}
    /\ MaxSends \in Nat /\ MaxFaults \in Nat
    /\ Overlap \in BOOLEAN

Transfers == 1 .. MaxSends

VARIABLES
    st,        \* per connection: where its handleConn goroutine is
    wire,      \* per connection: units sent and not yet read
    lost,      \* per connection: nothing more arrives
    wg,        \* per connection: its WaitGroup counter
    peers,     \* the peer set: address -> connection
    rpcs,      \* rpcChan
    pending,   \* pendingFileTransfers: address -> announced transfer (0: none)
    rcv,       \* the body the loop is reading
    panicked,  \* "sync: negative WaitGroup counter"
    kept,      \* transfers received and verified
    via,       \* history: the connection each transfer was sent on
    short,     \* history: connections on which a sender gave up half way
    unread,    \* history: connections on which this node stopped reading half way
    faults

skews == <<short, unread, faults>>

vars == <<st, wire, lost, wg, peers, rpcs, pending, rcv, panicked, kept, via, skews>>

Idle == [conn |-> None, id |-> 0, left |-> 0, good |-> TRUE]

Unit  == [kind : {"announce", "tag", "body"}, id : Transfers, piece : 0 .. Pieces]
Frame == [kind : {"announce", "stream", "garbage"}, from : Addrs, id : 0 .. MaxSends]

TypeOK ==
    /\ st \in [Conns -> {"new", "reading", "waiting", "closing", "closed"}]
    /\ wire \in [Conns -> Seq(Unit)]
    /\ lost \in [Conns -> BOOLEAN]
    /\ wg \in [Conns -> Nat]
    /\ peers \in [Addrs -> Conns \cup {None}]
    /\ rpcs \in Seq(Frame)
    /\ pending \in [Addrs -> 0 .. MaxSends]
    /\ rcv \in [conn : Conns, id : Transfers, left : 1 .. Pieces, good : BOOLEAN] \cup {Idle}
    /\ panicked \in BOOLEAN
    /\ kept \subseteq Transfers
    /\ via \in [Transfers -> Conns \cup {None}]
    /\ short \subseteq Conns /\ unread \subseteq Conns
    /\ faults \in 0 .. MaxFaults

Init ==
    /\ st = [c \in Conns |-> "new"]
    /\ wire = [c \in Conns |-> <<>>]
    /\ lost = [c \in Conns |-> FALSE]
    /\ wg = [c \in Conns |-> 0]
    /\ peers = [a \in Addrs |-> None]
    /\ rpcs = <<>>
    /\ pending = [a \in Addrs |-> 0]
    /\ rcv = Idle
    /\ panicked = FALSE
    /\ kept = {}
    /\ via = [t \in Transfers |-> None]
    /\ short = {} /\ unread = {}
    /\ faults = 0

-----------------------------------------------------------------------------
(* The peer's end of a connection.                                         *)

Live(c) == st[c] \in {"reading", "waiting"}

(* sendFile: announcement, tag and body leave under one lock, so that no    *)
(* other frame of this connection comes between them.                      *)
Part(kind, t, k) == [kind |-> kind, id |-> t, piece |-> k]

Transfer(t, pieces) ==
    <<Part("announce", t, 0), Part("tag", t, 0)>> \o [k \in 1 .. pieces |-> Part("body", t, k)]

Sent(c, t, pieces) ==
    /\ Live(c)
    /\ ~lost[c]
    /\ via[t] = None
    /\ \A u \in 1 .. t - 1 : via[u] # None
    /\ via' = [via EXCEPT ![t] = c]
    /\ wire' = [wire EXCEPT ![c] = @ \o Transfer(t, pieces)]
    /\ UNCHANGED <<st, lost, wg, peers, rpcs, pending, rcv, panicked, kept>>

SendFile(c, t) == Sent(c, t, Pieces) /\ UNCHANGED skews

(* SendStream, its io.Copy: the sender's file cannot be read or decrypted  *)
(* to the end. It logs that and goes on; the connection stays up, and the  *)
(* receiver has been promised more than it gets.                           *)
SendFails(c, t) ==
    /\ faults < MaxFaults
    /\ faults' = faults + 1
    /\ \E k \in 0 .. Pieces - 1 : Sent(c, t, k)
    /\ short' = short \cup {c}
    /\ unread' = unread

(* The connection breaks; some of what was sent never arrives. *)
Lose(c) ==
    /\ Live(c)
    /\ ~lost[c]
    /\ lost' = [lost EXCEPT ![c] = TRUE]
    /\ \E k \in 0 .. Len(wire[c]) : wire' = [wire EXCEPT ![c] = SubSeq(@, 1, k)]
    /\ UNCHANGED <<st, wg, peers, rpcs, pending, rcv, panicked, kept, via, skews>>

-----------------------------------------------------------------------------
(* handleConn: handshake, OnPeer, the read loop, OnPeerDisconnect.         *)

Open(c) == st[c] \notin {"new", "closed"}

(* OnPeer: the connection becomes the one its address is reached by. *)
OnPeer(c) ==
    /\ ~panicked
    /\ st[c] = "new"
    /\ Overlap \/ \A o \in Conns : AddrOf[o] = AddrOf[c] => ~Open(o)
    /\ st' = [st EXCEPT ![c] = "reading"]
    /\ peers' = [peers EXCEPT ![AddrOf[c]] = c]
    /\ UNCHANGED <<wire, lost, wg, rpcs, pending, rcv, panicked, kept, via, skews>>

Enqueue(c, kind, id) ==
    /\ Len(rpcs) < QueueSize
    /\ rpcs' = Append(rpcs, [kind |-> kind, from |-> AddrOf[c], id |-> id])

Next1(c, kind) ==
    /\ ~panicked
    /\ st[c] = "reading"
    /\ wire[c] # <<>>
    /\ Head(wire[c]).kind = kind

(* Decode, an announcement. *)
ReadMessage(c) ==
    /\ Next1(c, "announce")
    /\ Enqueue(c, "announce", Head(wire[c]).id)
    /\ wire' = [wire EXCEPT ![c] = Tail(@)]
    /\ UNCHANGED <<st, lost, wg, peers, pending, rcv, panicked, kept, via, skews>>

(* A stream tag: the counter goes up, the loop is told, and the goroutine  *)
(* waits. The first byte of a stray piece of body may look like a tag too. *)
ReadStream(c) ==
    /\ Next1(c, "tag") \/ Next1(c, "body")
    /\ Enqueue(c, "stream", 0)
    /\ wg' = [wg EXCEPT ![c] = @ + 1]
    /\ st' = [st EXCEPT ![c] = "waiting"]
    /\ wire' = [wire EXCEPT ![c] = Tail(@)]
    /\ UNCHANGED <<lost, peers, pending, rcv, panicked, kept, via, skews>>

(* What may be left of a unit that was read in part. *)
Rests(u) == {<<>>} \cup (IF u.piece = 0 /\ u.kind = "body" THEN {} ELSE {<<Part("body", u.id, 0)>>})

(* It may look like a message, whose length swallows what follows it, to   *)
(* the middle of a frame perhaps; the loop cannot decode the payload and   *)
(* ignores it.                                                             *)
ReadGarbage(c) ==
    /\ Next1(c, "body")
    /\ Enqueue(c, "garbage", 0)
    /\ \E k \in 1 .. Len(wire[c]) : \E rest \in Rests(wire[c][k]) :
         wire' = [wire EXCEPT ![c] = rest \o SubSeq(@, k + 1, Len(@))]
    /\ UNCHANGED <<st, lost, wg, peers, pending, rcv, panicked, kept, via, skews>>

(* Or it is an unknown tag, or the connection has ended: Decode fails and  *)
(* the connection is closed.                                               *)
ReadFails(c) ==
    /\ ~panicked
    /\ st[c] = "reading"
    /\ Next1(c, "body") \/ (lost[c] /\ wire[c] = <<>>)
    /\ st' = [st EXCEPT ![c] = "closing"]
    /\ UNCHANGED <<wire, lost, wg, peers, rpcs, pending, rcv, panicked, kept, via, skews>>

(* Mutation for checking: the goroutine does not wait. *)
ReleasedAtOnce(c) == TRUE

(* wg.Wait returns. *)
Released(c) == wg[c] = 0

Resume(c) ==
    /\ ~panicked
    /\ st[c] = "waiting"
    /\ Released(c)
    /\ st' = [st EXCEPT ![c] = "reading"]
    /\ UNCHANGED <<wire, lost, wg, peers, rpcs, pending, rcv, panicked, kept, via, skews>>

(* OnPeerDisconnect: the address leaves the peer set, whichever connection *)
(* it stands for by now.                                                   *)
OnPeerDisconnect(c) ==
    /\ ~panicked
    /\ st[c] = "closing"
    /\ st' = [st EXCEPT ![c] = "closed"]
    /\ peers' = [peers EXCEPT ![AddrOf[c]] = None]
    /\ UNCHANGED <<wire, lost, wg, rpcs, pending, rcv, panicked, kept, via, skews>>

-----------------------------------------------------------------------------
(* The server loop.                                                        *)

NextFrame(kind) ==
    /\ ~panicked
    /\ rcv = Idle
    /\ rpcs # <<>>
    /\ Head(rpcs).kind = kind

(* handleMessageStoreFile *)
HandleStoreFile ==
    /\ NextFrame("announce")
    /\ pending' = [pending EXCEPT ![Head(rpcs).from] = Head(rpcs).id]
    /\ rpcs' = Tail(rpcs)
    /\ UNCHANGED <<st, wire, lost, wg, peers, rcv, panicked, kept, via, skews>>

(* loop: a payload that does not decode is dropped. *)
DropGarbage ==
    /\ NextFrame("garbage")
    /\ rpcs' = Tail(rpcs)
    /\ UNCHANGED <<st, wire, lost, wg, peers, pending, rcv, panicked, kept, via, skews>>

(* CloseStream: wg.Done panics on a counter that is zero. *)
CloseStream(c) ==
    IF wg[c] = 0 THEN panicked' = TRUE /\ wg' = wg
                 ELSE wg' = [wg EXCEPT ![c] = @ - 1] /\ panicked' = FALSE

(* Mutation for checking: nobody is released when nothing was announced. *)
HandleStreamUnreleased ==
    /\ NextFrame("stream")
    /\ LET a == Head(rpcs).from
           c == peers[a]
           t == pending[a] IN
         /\ pending' = [pending EXCEPT ![a] = 0]
         /\ IF c = None \/ t = 0
              THEN UNCHANGED <<rcv, wg, panicked>>
              ELSE /\ rcv' = [conn |-> c, id |-> t, left |-> Pieces, good |-> TRUE]
                   /\ UNCHANGED <<wg, panicked>>
    /\ rpcs' = Tail(rpcs)
    /\ UNCHANGED <<st, wire, lost, peers, kept, via, skews>>

(* handleStream up to the first read: without a peer of that address       *)
(* nobody is released; without an announcement only that.                  *)
HandleStream ==
    /\ NextFrame("stream")
    /\ LET a == Head(rpcs).from
           c == peers[a]
           t == pending[a] IN
         /\ pending' = [pending EXCEPT ![a] = 0]
         /\ \/ c = None /\ UNCHANGED <<rcv, wg, panicked>>
            \/ c # None /\ t = 0 /\ CloseStream(c) /\ rcv' = rcv
            \/ /\ c # None /\ t # 0
               /\ rcv' = [conn |-> c, id |-> t, left |-> Pieces, good |-> TRUE]
               /\ UNCHANGED <<wg, panicked>>
    /\ rpcs' = Tail(rpcs)
    /\ UNCHANGED <<st, wire, lost, peers, kept, via, skews>>

(* The next piece of the body is read off the connection. *)
Expected == Head(wire[rcv.conn]) = Part("body", rcv.id, Pieces - rcv.left + 1)

MayRead == ~panicked /\ rcv # Idle /\ wire[rcv.conn] # <<>>

ReadPiece ==
    /\ MayRead /\ Expected
    /\ rcv.left > 1
    /\ rcv' = [rcv EXCEPT !.left = @ - 1]
    /\ wire' = [wire EXCEPT ![rcv.conn] = Tail(@)]
    /\ UNCHANGED <<st, lost, wg, peers, rpcs, pending, panicked, kept, via, skews>>

(* Mutation for checking: the stream is released on the success path and   *)
(* by the deferred call.                                                   *)
ReadLastPieceTwice ==
    /\ MayRead /\ Expected
    /\ rcv.left = 1
    /\ kept' = IF rcv.good THEN kept \cup {rcv.id} ELSE kept
    /\ wire' = [wire EXCEPT ![rcv.conn] = Tail(@)]
    /\ IF wg[rcv.conn] < 2
         THEN panicked' = TRUE /\ wg' = wg
         ELSE wg' = [wg EXCEPT ![rcv.conn] = @ - 2] /\ panicked' = FALSE
    /\ rcv' = Idle
    /\ UNCHANGED <<st, lost, peers, rpcs, pending, via, skews>>

(* Mutation for checking: the last piece stays on the connection. *)
ReadLastPieceShort ==
    /\ MayRead /\ Expected
    /\ rcv.left = 1
    /\ kept' = IF rcv.good THEN kept \cup {rcv.id} ELSE kept
    /\ CloseStream(rcv.conn)
    /\ rcv' = Idle
    /\ UNCHANGED <<st, wire, lost, peers, rpcs, pending, via, skews>>

(* The last piece: contents that match their digest are kept (or, when     *)
(* they were deleted here, were only drained), others are discarded.       *)
ReadLastPiece ==
    /\ MayRead /\ Expected
    /\ rcv.left = 1
    /\ kept' = IF rcv.good THEN kept \cup {rcv.id} ELSE kept
    /\ wire' = [wire EXCEPT ![rcv.conn] = Tail(@)]
    /\ CloseStream(rcv.conn)
    /\ rcv' = Idle
    /\ UNCHANGED <<st, lost, peers, rpcs, pending, via, skews>>

(* Something else stands where the rest of the body should: it is taken    *)
(* for contents, as much of it as was announced and to the middle of a     *)
(* frame perhaps. The contents then do not match their digest.             *)
ReadAmiss ==
    /\ MayRead /\ ~Expected
    /\ \E n \in 0 .. rcv.left : \E rest \in Rests(Head(wire[rcv.conn])) :
         /\ rest # <<>> => n = rcv.left
         /\ wire' = [wire EXCEPT ![rcv.conn] = rest \o Tail(@)]
         /\ IF n = rcv.left
              THEN CloseStream(rcv.conn) /\ rcv' = Idle
              ELSE /\ rcv' = [rcv EXCEPT !.left = @ - n, !.good = FALSE]
                   /\ UNCHANGED <<wg, panicked>>
    /\ UNCHANGED <<st, lost, peers, rpcs, pending, kept, via, skews>>

(* The connection ends before the body does. *)
Truncated ==
    /\ ~panicked
    /\ rcv # Idle
    /\ wire[rcv.conn] = <<>> /\ lost[rcv.conn]
    /\ CloseStream(rcv.conn)
    /\ rcv' = Idle
    /\ UNCHANGED <<st, wire, lost, peers, rpcs, pending, kept, via, skews>>

(* The temporary file cannot be created, written or renamed; the rest of   *)
(* the body stays on the connection.                                       *)
WriteFails ==
    /\ ~panicked
    /\ rcv # Idle
    /\ faults < MaxFaults
    /\ faults' = faults + 1
    /\ unread' = unread \cup {rcv.conn}
    /\ short' = short
    /\ CloseStream(rcv.conn)
    /\ rcv' = Idle
    /\ UNCHANGED <<st, wire, lost, peers, rpcs, pending, kept, via>>

-----------------------------------------------------------------------------
HandleConn(c) ==
    \/ ReadMessage(c) \/ ReadStream(c) \/ ReadGarbage(c) \/ ReadFails(c)
    \/ Resume(c)
    \/ OnPeerDisconnect(c)

Loop ==
    \/ HandleStoreFile \/ DropGarbage \/ HandleStream
    \/ ReadPiece \/ ReadLastPiece \/ ReadAmiss \/ Truncated

Next ==
    \/ \E c \in Conns : OnPeer(c) \/ HandleConn(c) \/ Lose(c)
    \/ \E c \in Conns, t \in Transfers : SendFile(c, t) \/ SendFails(c, t)
    \/ Loop
    \/ WriteFails

Spec == Init /\ [][Next]_vars

(* The goroutines of this node are scheduled. Nothing is assumed of its    *)
(* peers and connections: none need send, break or go on with a body.      *)
Fairness ==
    /\ \A c \in Conns : WF_vars(HandleConn(c))
    /\ WF_vars(Loop)

FairSpec == Spec /\ Fairness

-----------------------------------------------------------------------------
(* No read has a deadline (server.go:160): where a sender has given up half *)
(* way through a body, and the connection carries nothing more, the loop   *)
(* waits, and with it every connection of the node.                        *)
Stuck ==
    /\ rcv # Idle
    /\ rcv.conn \in short
    /\ wire[rcv.conn] = <<>> /\ ~lost[rcv.conn]

(* server.go:148-150: the read loop stays blocked until CloseStream, so    *)
(* every stream is closed, however its handling ends - unless the loop     *)
(* comes to wait for ever for what a sender gave up on; nothing else stops *)
(* it.                                                                     *)
WaitersResume ==
    <>[]Stuck \/ \A c \in Conns : st[c] = "waiting" ~> st[c] # "waiting"

(* A transfer sent on a connection that lasts, and on which no body was    *)
(* left half sent or half read, is received and kept: frames, bodies,      *)
(* announcements and releases of several connections never get in each     *)
(* other's way, and what goes wrong on one does not reach another - except *)
(* by keeping the loop waiting for ever.                                   *)
TransfersArrive ==
    \/ <>[]Stuck
    \/ \A t \in Transfers, c \in Conns :
         via[t] = c ~> (t \in kept \/ lost[c] \/ c \in short \cup unread)

(* On such a connection the loop reads exactly the body whose announcement *)
(* it is working from, piece by piece, whatever happened on others.        *)
InStep ==
    rcv # Idle /\ wire[rcv.conn] # <<>> /\ rcv.conn \notin short \cup unread => Expected

-----------------------------------------------------------------------------
(* What makes the single peer set and the single loop work while no two    *)
(* connections of a peer overlap.                                          *)
Streams(a) == {k \in DOMAIN rpcs : rpcs[k].kind = "stream" /\ rpcs[k].from = a}

(* One connection per peer is open, and it is the one in the peer set. *)
Listed ==
    \A c \in Conns : Open(c) <=> peers[AddrOf[c]] = c

(* A goroutine waits for one stream: in the queue, being read, or closed. *)
OneStream ==
    \A c \in Conns :
        /\ wg[c] \in {0, 1}
        /\ wg[c] = 1 => st[c] = "waiting"
        /\ wg[c] = 1 <=> \/ rcv.conn = c
                         \/ Open(c) /\ Streams(AddrOf[c]) # {}

OneReader ==
    \A a \in Addrs :
        /\ \A j, k \in Streams(a) : j = k
        /\ Streams(a) # {} => peers[a] # None /\ rcv.conn # peers[a]

ConnInv ==
    /\ TypeOK
    /\ ~panicked
    /\ Listed
    /\ OneStream
    /\ OneReader
=============================================================================
