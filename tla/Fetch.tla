-------------------------------- MODULE Fetch --------------------------------
(***************************************************************************)
(* Get, the retrieval protocol between nodes: every connected peer is      *)
(* asked and answers either way, one peer that has the file is asked for   *)
(* its contents, and streams them. A Get is a goroutine of its own; all    *)
(* messages of a node, and the bodies of transfers in both directions, are *)
(* handled by its one server loop.                                         *)
(*                                                                         *)
(* A connection holds any number of messages (they are read into rpcChan)  *)
(* but only Window pieces of a body: a body is read by the loop alone. A   *)
(* body that ends early is made up of whatever follows it.                 *)
(***************************************************************************)
EXTENDS Integers, Sequences, FiniteSets

CONSTANTS
    Nodes, Names, Digests, None,
    Requests,    \* calls of Get
    Plans,       \* sets of calls that are made together
    Asker,       \* the node each call is made on
    NameOf,      \* the name, which may be a digest, each call asks for
    FirstRows,   \* what each node has filed under each name to begin with
    Links,       \* pairs of nodes that are connected to begin with
    Pieces,      \* length of a body
    Window,      \* pieces of it a connection takes before they are read
    MaxFaults    \* bound: disconnections, deletions, stops, and calls of the
                 \* store or the database that fail

Keys == Names \cup Digests

ASSUME FetchAssumption ==
    /\ Plans \subseteq SUBSET Requests
    /\ Asker \in [Requests -> Nodes] /\ NameOf \in [Requests -> Keys]
    /\ FirstRows \in [Nodes -> [Keys -> Digests \cup {None}]]
    /\ Links \subseteq {{i, j} : i, j \in Nodes}
    /\ \A i \in Nodes : {i} \notin Links
    /\ None \notin Nodes \cup Digests
    /\ Pieces \in Nat \ {0} /\ Window \in Nat \ {0} /\ MaxFaults \in Nat
    /\ IsFiniteSet(Nodes)

VARIABLES
    wire,     \* per pair of nodes: units sent and not yet handled
    up,       \* pairs of nodes that are connected
    stopped,  \* nodes whose quitch is closed
    blobs,    \* contents each node holds
    rows,     \* the digest each node has filed under each name
    gone,     \* names and digests each node has deleted
    loop,     \* what each server loop is in the middle of
    get,      \* the calls of Get and their fileRequest
    offered,  \* history: nodes that said they have the file, and its digest
    served,   \* history: nodes that began to stream it
    skew,     \* pairs of nodes: the decoder of the second may be in the middle
              \* of a unit of the first
    faults

vars == <<wire, up, stopped, blobs, rows, gone, loop, get, offered, served, skew, faults>>

Digest0 == Digests \cup {None}
Unit == [kind : {"query", "offer", "fetch", "transfer", "body"},
         req : Requests, digest : Digest0]
Msg(k, r, d) == [kind |-> k, req |-> r, digest |-> d]

IdleLoop == [st |-> "idle"]
BusyLoop == [st : {"sending", "receiving"}, peer : Nodes, req : Requests,
             digest : Digests, left : 1 .. Pieces,
             refused : BOOLEAN, spoilt : BOOLEAN]

Outcomes == {"open", "local", "unasked", "nobody", "timeout", "lost", "ok", "failed", "stopped"}

NewGet == [st |-> "new", todo |-> {}, cap |-> 0, asked |-> 0, replies |-> 0,
           offers |-> <<>>, from |-> None, digest |-> None, done |-> "open",
           outcome |-> "open"]

(* A call nobody makes. *)
Unmade == [NewGet EXCEPT !.st = "returned"]

TypeOK ==
    /\ wire \in [Nodes -> [Nodes -> Seq(Unit)]]
    /\ up \subseteq SUBSET Nodes
    /\ stopped \subseteq Nodes
    /\ blobs \in [Nodes -> SUBSET Digests]
    /\ rows \in [Nodes -> [Keys -> Digest0]]
    /\ gone \in [Nodes -> SUBSET (Keys \X Digests)]
    /\ loop \in [Nodes -> BusyLoop \cup {IdleLoop}]
    /\ get \in [Requests ->
         [st : {"new", "asking", "offers", "chosen", "fetching", "returned"},
          todo : SUBSET Nodes, cap : Nat, asked : Nat, replies : Nat,
          offers : Seq(Nodes \X Digest0),
          from : Nodes \cup {None}, digest : Digest0,
          done : {"open", "ok", "failed"}, outcome : Outcomes]]
    /\ offered \in [Requests -> SUBSET (Nodes \X Digests)]
    /\ served \in [Requests -> SUBSET Nodes]
    /\ skew \subseteq Nodes \X Nodes
    /\ faults \in 0 .. MaxFaults

Init ==
    /\ wire = [i \in Nodes |-> [j \in Nodes |-> <<>>]]
    /\ up = Links
    /\ stopped = {}
    /\ rows = FirstRows
    /\ blobs = [i \in Nodes |-> {FirstRows[i][n] : n \in Keys} \ {None}]
    /\ gone = [i \in Nodes |-> {}]
    /\ loop = [i \in Nodes |-> IdleLoop]
    /\ \E plan \in Plans : get = [r \in Requests |-> IF r \in plan THEN NewGet ELSE Unmade]
    /\ offered = [r \in Requests |-> {}]
    /\ served = [r \in Requests |-> {}]
    /\ skew = {}
    /\ faults = 0

-----------------------------------------------------------------------------
(* resolve: what a name is filed for, or the contents it is the digest of. *)
Resolve(i, n) ==
    IF rows[i][n] \in blobs[i] THEN rows[i][n]
    ELSE IF n \in blobs[i] THEN n ELSE None

Peers(i) == {j \in Nodes : {i, j} \in up /\ i # j}

Sending(i, j) == loop[i].st = "sending" /\ loop[i].peer = j

Put(i, j, m)  == [wire EXCEPT ![i][j] = Append(@, m)]
Take(i, j)    == [wire EXCEPT ![j][i] = Tail(@)]
Answer(i, j, m) == [wire EXCEPT ![j][i] = Tail(@), ![i][j] = Append(@, m)]

Fault    == faults < MaxFaults /\ faults' = faults + 1
Goes(ok) == IF ok THEN faults' = faults ELSE Fault

(* A connection ends. *)
Cut(i, j) ==
    /\ up' = up \ {{i, j}}
    /\ wire' = [wire EXCEPT ![i][j] = <<>>, ![j][i] = <<>>]
    /\ skew' = skew \ {<<i, j>>, <<j, i>>}

(* The request is known to its node until Get returns. *)
Registered(r) == get[r].st \notin {"new", "returned"}

(* What is left of the call is its result. *)
Return(r, outcome) ==
    get' = [get EXCEPT ![r] = [NewGet EXCEPT !.st = "returned", !.outcome = outcome,
                               !.from = get[r].from, !.digest = get[r].digest]]

-----------------------------------------------------------------------------
(* Get, up to the queries. *)

Start(r) ==
    LET i == Asker[r] IN
    /\ get[r].st = "new"
    /\ i \notin stopped
    /\ IF Resolve(i, NameOf[r]) # None THEN Return(r, "local")
       ELSE IF Peers(i) = {} THEN Return(r, "unasked")
       ELSE get' = [get EXCEPT ![r].st = "asking", ![r].todo = Peers(i),
                               ![r].cap = Cardinality(Peers(i))]
    /\ UNCHANGED <<wire, up, stopped, blobs, rows, gone, loop, offered, served, skew, faults>>

(* A query waits for a body the loop is writing on the same connection; a  *)
(* peer whose connection has ended is not counted. After the last, Get     *)
(* waits for answers, if it could ask anyone.                              *)
Ask(r, j) ==
    LET i == Asker[r]
        reached == j \in Peers(i)
        asked == get[r].asked + (IF reached THEN 1 ELSE 0)
        last == get[r].todo = {j} IN
    /\ get[r].st = "asking"
    /\ j \in get[r].todo
    /\ ~Sending(i, j)
    /\ wire' = IF reached THEN Put(i, j, Msg("query", r, None)) ELSE wire
    /\ IF last /\ asked = 0
         THEN Return(r, "unasked")
         ELSE get' = [get EXCEPT ![r].todo = @ \ {j}, ![r].asked = asked,
                                 ![r].st = IF last THEN "offers" ELSE @]
    /\ UNCHANGED <<up, stopped, blobs, rows, gone, loop, offered, served, skew, faults>>

-----------------------------------------------------------------------------
(* awaitOffer *)

(* Mutation for checking: the wait ends one answer early. *)
TakeOfferEarly(r) ==
    LET o == Head(get[r].offers) IN
    /\ get[r].st = "offers"
    /\ get[r].offers # <<>>
    /\ IF o[2] # None
         THEN get' = [get EXCEPT ![r].st = "chosen", ![r].from = o[1], ![r].digest = o[2],
                                 ![r].replies = @ + 1, ![r].offers = Tail(@)]
       ELSE IF get[r].replies + 2 >= get[r].asked
         THEN Return(r, "nobody")
       ELSE get' = [get EXCEPT ![r].replies = @ + 1, ![r].offers = Tail(@)]
    /\ UNCHANGED <<wire, up, stopped, blobs, rows, gone, loop, offered, served, skew, faults>>

TakeOffer(r) ==
    LET o == Head(get[r].offers) IN
    /\ get[r].st = "offers"
    /\ get[r].offers # <<>>
    /\ \/ /\ o[2] # None
          /\ get' = [get EXCEPT ![r].st = "chosen", ![r].from = o[1], ![r].digest = o[2],
                                ![r].replies = @ + 1, ![r].offers = Tail(@)]
       \/ /\ o[2] = None /\ get[r].replies + 1 = get[r].asked
          /\ Return(r, "nobody")
       \/ /\ o[2] = None /\ get[r].replies + 1 < get[r].asked
          /\ get' = [get EXCEPT ![r].replies = @ + 1, ![r].offers = Tail(@)]
    /\ UNCHANGED <<wire, up, stopped, blobs, rows, gone, loop, offered, served, skew, faults>>

OfferTimeout(r) ==
    /\ get[r].st = "offers"
    /\ Return(r, "timeout")
    /\ UNCHANGED <<wire, up, stopped, blobs, rows, gone, loop, offered, served, skew, faults>>

-----------------------------------------------------------------------------
(* The second round. *)

SendFetch(r) ==
    LET i == Asker[r]
        j == get[r].from IN
    /\ get[r].st = "chosen"
    /\ \/ /\ j \in Peers(i)
          /\ ~Sending(i, j)
          /\ wire' = Put(i, j, Msg("fetch", r, get[r].digest))
          /\ get' = [get EXCEPT ![r].st = "fetching"]
       \/ /\ j \notin Peers(i)
          /\ Return(r, "lost")
          /\ UNCHANGED wire
    /\ UNCHANGED <<up, stopped, blobs, rows, gone, loop, offered, served, skew, faults>>

(* req.done is closed; what was fetched may have been deleted again before *)
(* it is read.                                                             *)
Done(r) ==
    /\ get[r].st = "fetching"
    /\ get[r].done # "open"
    /\ Return(r, IF get[r].done = "ok" /\ get[r].digest \in blobs[Asker[r]]
                 THEN "ok" ELSE "failed")
    /\ UNCHANGED <<wire, up, stopped, blobs, rows, gone, loop, offered, served, skew, faults>>

DownloadTimeout(r) ==
    /\ get[r].st = "fetching"
    /\ Return(r, "timeout")
    /\ UNCHANGED <<wire, up, stopped, blobs, rows, gone, loop, offered, served, skew, faults>>

(* quitch is closed while Get waits. *)
GetStopped(r) ==
    /\ get[r].st \in {"offers", "fetching"}
    /\ Asker[r] \in stopped
    /\ Return(r, "stopped")
    /\ UNCHANGED <<wire, up, stopped, blobs, rows, gone, loop, offered, served, skew, faults>>

-----------------------------------------------------------------------------
(* The server loop. *)

Arrived(i, j, kind) ==
    /\ i \notin stopped
    /\ loop[i] = IdleLoop
    /\ wire[j][i] # <<>>
    /\ Head(wire[j][i]).kind = kind

(* Mutation for checking: a peer that has the file answers no first.       *)
HandleGetFileTwice(i, j) ==
    LET r == Head(wire[j][i]).req
        d == Resolve(i, NameOf[r]) IN
    /\ Arrived(i, j, "query")
    /\ offered' = [offered EXCEPT ![r] = IF d = None THEN @ ELSE @ \cup {<<i, d>>}]
    /\ wire' = [wire EXCEPT ![j][i] = Tail(@),
                            ![i][j] = @ \o <<Msg("offer", r, None), Msg("offer", r, d)>>]
    /\ UNCHANGED <<up, stopped, blobs, rows, gone, loop, get, served, skew, faults>>

(* Mutation for checking: a peer that has the file sends it at once. *)
HandleGetFileStreams(i, j) ==
    LET r == Head(wire[j][i]).req
        d == Resolve(i, NameOf[r]) IN
    /\ Arrived(i, j, "query")
    /\ offered' = [offered EXCEPT ![r] = IF d = None THEN @ ELSE @ \cup {<<i, d>>}]
    /\ IF d = None
         THEN wire' = Answer(i, j, Msg("offer", r, d)) /\ UNCHANGED <<loop, served>>
         ELSE /\ wire' = Answer(i, j, Msg("transfer", r, d))
              /\ loop' = [loop EXCEPT ![i] = [st |-> "sending", peer |-> j, req |-> r,
                                              digest |-> d, left |-> Pieces, refused |-> FALSE,
                                          spoilt |-> FALSE]]
              /\ served' = [served EXCEPT ![r] = @ \cup {i}]
    /\ UNCHANGED <<up, stopped, blobs, rows, gone, get, skew, faults>>

(* handleMessageGetFile: a look that fails is answered no. *)
HandleGetFile(i, j) ==
    LET r == Head(wire[j][i]).req IN
    /\ Arrived(i, j, "query")
    /\ \E d \in {Resolve(i, NameOf[r]), None} :
         /\ Goes(d = Resolve(i, NameOf[r]))
         /\ offered' = [offered EXCEPT ![r] = IF d = None THEN @ ELSE @ \cup {<<i, d>>}]
         /\ wire' = Answer(i, j, Msg("offer", r, d))
    /\ UNCHANGED <<up, stopped, blobs, rows, gone, loop, get, served, skew>>

(* Mutation for checking: the buffer takes one answer. *)
HandleFileOfferShort(i, j) ==
    LET u == Head(wire[j][i]) IN
    /\ Arrived(i, j, "offer")
    /\ get' = IF Registered(u.req) /\ get[u.req].offers = <<>>
              THEN [get EXCEPT ![u.req].offers = Append(@, <<j, u.digest>>)]
              ELSE get
    /\ wire' = Take(i, j)
    /\ UNCHANGED <<up, stopped, blobs, rows, gone, loop, offered, served, skew, faults>>

(* handleMessageFileOffer: an answer nobody waits for, or one too many, is *)
(* dropped.                                                                *)
HandleFileOffer(i, j) ==
    LET u == Head(wire[j][i]) IN
    /\ Arrived(i, j, "offer")
    /\ get' = IF Registered(u.req) /\ Len(get[u.req].offers) < get[u.req].cap
              THEN [get EXCEPT ![u.req].offers = Append(@, <<j, u.digest>>)]
              ELSE get
    /\ wire' = Take(i, j)
    /\ UNCHANGED <<up, stopped, blobs, rows, gone, loop, offered, served, skew, faults>>

(* handleMessageFetchFile: contents that are gone by now, or cannot be     *)
(* opened, are not sent, and the requester is not told.                    *)
HandleFetchFile(i, j) ==
    LET u == Head(wire[j][i]) IN
    /\ Arrived(i, j, "fetch")
    /\ \/ /\ Goes(u.digest \notin blobs[i])
          /\ wire' = Take(i, j)
          /\ UNCHANGED <<loop, served>>
       \/ /\ u.digest \in blobs[i]
          /\ wire' = Answer(i, j, Msg("transfer", u.req, u.digest))
          /\ loop' = [loop EXCEPT ![i] = [st |-> "sending", peer |-> j, req |-> u.req,
                                          digest |-> u.digest, left |-> Pieces,
                                          refused |-> FALSE, spoilt |-> FALSE]]
          /\ served' = [served EXCEPT ![u.req] = @ \cup {i}]
          /\ faults' = faults
    /\ UNCHANGED <<up, stopped, blobs, rows, gone, get, offered, skew>>

(* SendStream: io.Copy blocks while the connection takes no more. *)
InFlight(i, j) == Cardinality({k \in DOMAIN wire[i][j] : wire[i][j][k].kind = "body"})

SendPiece(i) ==
    LET l == loop[i] IN
    /\ l.st = "sending"
    /\ {i, l.peer} \in up
    /\ InFlight(i, l.peer) < Window
    /\ wire' = Put(i, l.peer, Msg("body", l.req, l.digest))
    /\ loop' = [loop EXCEPT ![i] = IF l.left = 1 THEN IdleLoop ELSE [l EXCEPT !.left = @ - 1]]
    /\ UNCHANGED <<up, stopped, blobs, rows, gone, get, offered, served, skew, faults>>

SendFails(i) ==
    /\ loop[i].st = "sending"
    /\ {i, loop[i].peer} \notin up
    /\ loop' = [loop EXCEPT ![i] = IdleLoop]
    /\ UNCHANGED <<wire, up, stopped, blobs, rows, gone, get, offered, served, skew, faults>>

(* Its io.Copy: the file cannot be read or decrypted to its end. That is   *)
(* logged; the connection stays up, and the peer has been promised more.   *)
ReadFails(i) ==
    /\ loop[i].st = "sending"
    /\ {i, loop[i].peer} \in up
    /\ Fault
    /\ loop' = [loop EXCEPT ![i] = IdleLoop]
    /\ UNCHANGED <<wire, up, stopped, blobs, rows, gone, get, offered, served, skew>>

(* Mutation for checking: a transfer nobody waits for is passed over: its  *)
(* body is left on the connection, which is not read any further.          *)
HandleStreamUndrained(i, j) ==
    LET u == Head(wire[j][i]) IN
    /\ Arrived(i, j, "transfer")
    /\ wire' = Take(i, j)
    /\ loop' = IF Registered(u.req)
               THEN [loop EXCEPT ![i] = [st |-> "receiving", peer |-> j, req |-> u.req,
                        digest |-> u.digest, left |-> Pieces, spoilt |-> FALSE,
                        refused |-> <<NameOf[u.req], u.digest>> \in gone[i]]]
               ELSE loop
    /\ UNCHANGED <<up, stopped, blobs, rows, gone, get, offered, served, skew, faults>>

(* handleStream, up to the body: whether it was deleted here is looked up  *)
(* before it is read; a look that fails is a no.                           *)
HandleStream(i, j) ==
    LET u == Head(wire[j][i])
        deleted == <<NameOf[u.req], u.digest>> \in gone[i] IN
    /\ Arrived(i, j, "transfer")
    /\ wire' = Take(i, j)
    /\ \E refused \in {deleted, FALSE} :
         /\ Goes(refused = deleted)
         /\ loop' = [loop EXCEPT ![i] = [st |-> "receiving", peer |-> j, req |-> u.req,
                         digest |-> u.digest, left |-> Pieces,
                         refused |-> refused, spoilt |-> FALSE]]
    /\ UNCHANGED <<up, stopped, blobs, rows, gone, get, offered, served, skew>>

(* completeRequest, failRequest: the first call decides. *)
Decide(r, how) ==
    get' = IF Registered(r) /\ get[r].done = "open" THEN [get EXCEPT ![r].done = how] ELSE get

BodyArrived(i) ==
    /\ loop[i].st = "receiving"
    /\ wire[loop[i].peer][i] # <<>>
    /\ Head(wire[loop[i].peer][i]).kind = "body"

ReceivePiece(i) ==
    /\ BodyArrived(i)
    /\ loop[i].left > 1
    /\ wire' = Take(i, loop[i].peer)
    /\ loop' = [loop EXCEPT ![i].left = @ - 1]
    /\ UNCHANGED <<up, stopped, blobs, rows, gone, get, offered, served, skew, faults>>

FiledUnder(i, n, d) == IF rows[i][n] \in {None, d} THEN n ELSE d

(* The rest of handleStream: what was deleted here, or is made up of other *)
(* things, is discarded; what matches its digest is kept and filed, under  *)
(* that when the name is in use. (Two rows may then have the digest for a  *)
(* name; they say the same.)                                               *)
ReceiveLast(i) ==
    LET l == loop[i]
        n == NameOf[l.req] IN
    /\ BodyArrived(i)
    /\ l.left = 1
    /\ wire' = Take(i, l.peer)
    /\ loop' = [loop EXCEPT ![i] = IdleLoop]
    /\ skew' = IF l.spoilt THEN skew \cup {<<l.peer, i>>} ELSE skew
    /\ IF l.refused \/ l.spoilt
         THEN Decide(l.req, "failed") /\ UNCHANGED <<blobs, rows>>
         ELSE /\ Decide(l.req, "ok")
              /\ blobs' = [blobs EXCEPT ![i] = @ \cup {l.digest}]
              /\ rows' = [rows EXCEPT ![i][FiledUnder(i, n, l.digest)] = l.digest]
    /\ UNCHANGED <<up, stopped, gone, offered, served, faults>>

(* Something else follows where the rest of the body should: it is read as *)
(* contents, as much of it as was promised and to the middle of a unit     *)
(* perhaps. The whole then does not match its digest.                      *)
ReceiveAmiss(i) ==
    LET l == loop[i] IN
    /\ l.st = "receiving"
    /\ wire[l.peer][i] # <<>> /\ Head(wire[l.peer][i]).kind # "body"
    /\ wire' = Take(i, l.peer)
    /\ \/ \E n \in 0 .. l.left - 1 :
            /\ loop' = [loop EXCEPT ![i].left = @ - n, ![i].spoilt = TRUE]
            /\ UNCHANGED <<get, skew>>
       \/ /\ loop' = [loop EXCEPT ![i] = IdleLoop]
          /\ Decide(l.req, "failed")
          /\ skew' = skew \cup {<<l.peer, i>>}
    /\ UNCHANGED <<up, stopped, blobs, rows, gone, offered, served, faults>>

(* The contents do not match their digest though they are complete. *)
ReceiveRejected(i) ==
    /\ BodyArrived(i)
    /\ loop[i].left = 1
    /\ ~loop[i].refused /\ ~loop[i].spoilt
    /\ Fault
    /\ wire' = Take(i, loop[i].peer)
    /\ loop' = [loop EXCEPT ![i] = IdleLoop]
    /\ Decide(loop[i].req, "failed")
    /\ UNCHANGED <<up, stopped, blobs, rows, gone, offered, served, skew>>

(* They cannot be written: the rest of the body stays on the connection.   *)
WriteFails(i) ==
    LET l == loop[i] IN
    /\ l.st = "receiving" /\ ~l.refused
    /\ Fault
    /\ loop' = [loop EXCEPT ![i] = IdleLoop]
    /\ skew' = skew \cup {<<l.peer, i>>}
    /\ Decide(l.req, "failed")
    /\ UNCHANGED <<wire, up, stopped, blobs, rows, gone, offered, served>>

(* The connection ends before the body does. Draining a refused body does  *)
(* not wake the Get when the connection was reset.                         *)
ReceiveCut(i) ==
    LET l == loop[i] IN
    /\ l.st = "receiving"
    /\ wire[l.peer][i] = <<>> /\ {i, l.peer} \notin up
    /\ loop' = [loop EXCEPT ![i] = IdleLoop]
    /\ Decide(l.req, "failed") \/ (l.refused /\ get' = get)
    /\ UNCHANGED <<wire, up, stopped, blobs, rows, gone, offered, served, skew, faults>>

(* handleConn, out of step with the sender: what it reads is no frame, and *)
(* it closes the connection; or it looks like one, which the loop cannot   *)
(* make sense of and drops.                                                *)
Derailed(i, j) ==
    /\ <<j, i>> \in skew
    /\ wire[j][i] # <<>>
    /\ ~(loop[i].st = "receiving" /\ loop[i].peer = j)
    /\ Cut(i, j) \/ (wire' = Take(i, j) /\ UNCHANGED <<up, skew>>)
    /\ UNCHANGED <<stopped, blobs, rows, gone, loop, get, offered, served, faults>>

-----------------------------------------------------------------------------
(* What may go wrong meanwhile. *)

(* A connection ends; nothing wakes the Gets that count on it. *)
Disconnect(i, j) ==
    /\ Fault
    /\ {i, j} \in up
    /\ Cut(i, j)
    /\ UNCHANGED <<stopped, blobs, rows, gone, loop, get, offered, served>>

(* A name is deleted on a node, its contents with it unless another name   *)
(* has them.                                                               *)
Forget(i, n) ==
    LET d == rows[i][n] IN
    /\ Fault
    /\ d # None
    /\ rows' = [rows EXCEPT ![i][n] = None]
    /\ gone' = [gone EXCEPT ![i] = @ \cup {<<n, d>>}]
    /\ blobs' = [blobs EXCEPT ![i] =
                    IF \E m \in Keys \ {n} : rows[i][m] = d THEN @ ELSE @ \ {d}]
    /\ UNCHANGED <<wire, up, stopped, loop, get, offered, served, skew>>

(* Stop *)
Stop(i) ==
    /\ Fault
    /\ i \notin stopped
    /\ stopped' = stopped \cup {i}
    /\ up' = {e \in up : i \notin e}
    /\ wire' = [k \in Nodes |-> [j \in Nodes |-> IF i \in {k, j} THEN <<>> ELSE wire[k][j]]]
    /\ skew' = {e \in skew : i \notin {e[1], e[2]}}
    /\ UNCHANGED <<blobs, rows, gone, loop, get, offered, served>>

-----------------------------------------------------------------------------
Handle(i) ==
    \E j \in Nodes :
        \/ HandleGetFile(i, j)
        \/ HandleFileOffer(i, j)
        \/ HandleFetchFile(i, j)
        \/ HandleStream(i, j)

Loop(i) ==
    \/ Handle(i)
    \/ SendPiece(i) \/ SendFails(i)
    \/ ReceivePiece(i) \/ ReceiveLast(i) \/ ReceiveAmiss(i) \/ ReceiveCut(i)

Steps(i) == Loop(i) \/ \E j \in Nodes : Derailed(i, j)

Answered(r) ==
    \/ \E j \in Nodes : Ask(r, j)
    \/ TakeOffer(r) \/ SendFetch(r) \/ Done(r) \/ GetStopped(r)

Timeout(r) == OfferTimeout(r) \/ DownloadTimeout(r)

Next ==
    \/ \E r \in Requests : Start(r) \/ Answered(r) \/ Timeout(r)
    \/ \E i \in Nodes : Steps(i) \/ Stop(i)
    \/ \E i \in Nodes : ReadFails(i) \/ ReceiveRejected(i) \/ WriteFails(i)
    \/ \E i, j \in Nodes : Disconnect(i, j)
    \/ \E i \in Nodes, n \in Keys : Forget(i, n)

Spec == Init /\ [][Next]_vars

(* Goroutines are scheduled and connections deliver: nothing stands still  *)
(* while one of them can go on. (Each has finitely many steps to make, so  *)
(* that is as much as fairness to each.) That a timer fires first is       *)
(* possible and never relied on, and nothing has to fail.                  *)
Fairness ==
    WF_vars((\E i \in Nodes : Steps(i)) \/ (\E r \in Requests : Answered(r)))

FairSpec == Spec /\ Fairness

-----------------------------------------------------------------------------
(* server.go:877: "Every peer answered and none of them holds it" is never *)
(* said of a file that a peer did offer, however answers and queries cross.*)
NobodyMeansNobody ==
    \A r \in Requests : get[r].outcome = "nobody" => offered[r] = {}

(* Exactly one peer streams the contents of a Get: the one chosen, and the *)
(* digest it is asked for is the one it offered.                           *)
OneStreamer ==
    \A r \in Requests :
        /\ served[r] \subseteq {get[r].from}
        /\ get[r].from # None => <<get[r].from, get[r].digest>> \in offered[r]

(* No read and no write has a deadline. Loops of nodes that write bodies   *)
(* to each other, in a circle, wait for each other for ever; and so does a *)
(* loop for the rest of a body that its sender could not read to the end,  *)
(* on a connection that carries nothing more.                              *)
Circle ==
    \E S \in SUBSET Nodes \ {{}} : \A i \in S :
        /\ loop[i].st = "sending" /\ loop[i].peer \in S
        /\ InFlight(i, loop[i].peer) >= Window

Starved(i) ==
    LET j == loop[i].peer IN
    /\ loop[i].st = "receiving"
    /\ {i, j} \in up /\ wire[j][i] = <<>> /\ ~Sending(j, i)

(* While nothing fails, every Get ends by the answers it gets: it never    *)
(* needs its timeouts, however its answers and bodies cross those of other *)
(* Gets - unless loops come to write to each other in a circle.            *)
AnswersSuffice ==
    <>[](Circle \/ \A r \in Requests : Registered(r) => faults > 0)

(* Nothing but that keeps a server loop from getting to the end of every   *)
(* body it sends or receives, be it wanted or not, complete or not, and    *)
(* whoever disconnects meanwhile.                                          *)
LoopsMoveOn ==
    <>[](\/ Circle
         \/ \E i \in Nodes : Starved(i)
         \/ \A i \in Nodes : loop[i] = IdleLoop)

-----------------------------------------------------------------------------
(* Where the answer of each peer asked is. *)
InWire(r, j, k) ==
    LET i == Asker[r] IN
    {p \in DOMAIN wire[i][j] : wire[i][j][p].req = r /\ wire[i][j][p].kind = "query" /\ k = "query"}
      \cup {p \in DOMAIN wire[j][i] : wire[j][i][p].req = r /\ wire[j][i][p].kind = "offer" /\ k = "offer"}

Unread(r, j) == {p \in DOMAIN get[r].offers : get[r].offers[p][1] = j}

(* A peer is asked at most once, so at most one answer of each is on its   *)
(* way or in the buffer; none that says yes is ever lost while it matters. *)
Accounted ==
    \A r \in Requests :
        /\ get[r].replies + Len(get[r].offers) <= get[r].asked
        /\ get[r].asked <= get[r].cap
        /\ \A j \in Nodes :
             /\ Cardinality(InWire(r, j, "query")) + Cardinality(InWire(r, j, "offer"))
                  + Cardinality(Unread(r, j)) <= 1
             /\ j \in get[r].todo =>
                  InWire(r, j, "query") \cup InWire(r, j, "offer") \cup Unread(r, j) = {}

FetchInv == TypeOK /\ Accounted
=============================================================================
