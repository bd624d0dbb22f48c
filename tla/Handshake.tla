----------------------------- MODULE Handshake -----------------------------
(***************************************************************************)
(* GetHandshakeFunc, run by the connection goroutines at both ends of      *)
(* every new connection at once: each says who it is and what it wants     *)
(* signed, signs what the other wants signed, and checks what it gets.     *)
(* Then the connection is used for frames.                                 *)
(*                                                                         *)
(* An end either has a mate, the end at which its bytes arrive, or it is   *)
(* carried: whoever accepted or opened the connection says what it likes,  *)
(* including anything that has been said on other connections. Keys stand  *)
(* for node ids, and only their node can sign with them. A challenge is    *)
(* 32 random bytes and stands for the end that made it.                    *)
(***************************************************************************)
EXTENDS Naturals, Sequences, SequencesExt, FiniteSets

CONSTANTS
    Nodes, Ends,
    NodeOf,      \* end -> its node
    Mate,        \* end -> the end it is connected to, or Nobody
    Carriers,    \* nodes behind carried connections, with keys of their own
    Versions,    \* values of ProtocolVersion in the builds around
    Nobody,      \* no end, no node, a malformed value
    MaxFaults    \* bound: connections that break

Honest == Nodes \ Carriers
Mated  == {e \in Ends : Mate[e] # Nobody}

(* The type Handshake, with a listen port or without. A challenge made by  *)
(* a carrier of its own is named after it.                                 *)
Hello == [version : Versions, key : Nodes \cup {Nobody}, port : BOOLEAN,
          challenge : Ends \cup Carriers \cup {Nobody}]

ASSUME HandshakeAssumption ==
    /\ Nobody \notin Nodes \cup Ends \cup Hello
    /\ Ends \cap Nodes = {}
    /\ Carriers \subseteq Nodes
    /\ NodeOf \in [Ends -> Honest]
    /\ Mate \in [Ends -> Ends \cup {Nobody}]
    /\ \A e \in Ends : e \in Mated => Mate[Mate[e]] = e
    /\ Versions \subseteq Nat
    /\ MaxFaults \in Nat

VARIABLES
    speaks,   \* node -> the ProtocolVersion of its build; never changes
    stage,    \* end -> "new", "greeted", "proving", "up" or "closed"
    remote,   \* end -> the hello it has accepted
    wire,     \* end -> what it has written and its mate has not read
    told,     \* ends that have sent their first frame
    faults

vars == <<speaks, stage, remote, wire, told, faults>>

(* A frame can be read in part. *)
Pieces == {"hello", "proof", "frame", "rest"}

TypeOK ==
    /\ speaks \in [Honest -> Versions]
    /\ stage \in [Ends -> {"new", "greeted", "proving", "up", "closed"}]
    /\ remote \in [Ends -> Hello \cup {Nobody}]
    /\ wire \in [Ends -> Seq(Pieces)]
    /\ told \subseteq Ends
    /\ faults \in 0 .. MaxFaults

Init ==
    /\ speaks \in [Honest -> Versions]
    /\ stage = [e \in Ends |-> "new"]
    /\ remote = [e \in Ends |-> Nobody]
    /\ wire = [e \in Ends |-> <<>>]
    /\ told = {}
    /\ faults = 0

-----------------------------------------------------------------------------
(* What is said.                                                           *)

(* The hello of an end; a node always listens, so there is a port in it. *)
HelloOf(e) == [version |-> speaks[NodeOf[e]], key |-> NodeOf[e],
               port |-> TRUE, challenge |-> e]

Begun == {e \in Ends : stage[e] # "new"}

(* Mutation for checking: the transcript leaves out the peer. *)
TranscriptAnyPeer(signer, peer, challenge) == <<signer, Nobody, challenge>>

(* handshakeTranscript *)
Transcript(signer, peer, challenge) == <<signer, peer, challenge>>

(* The proof an end has sent once it has accepted a hello; signing it and  *)
(* the transcript are one thing here, since a signature verifies for its   *)
(* own transcript only.                                                    *)
Signature(e) == Transcript(NodeOf[e], remote[e].key, remote[e].challenge)

Signed == {Signature(e) : e \in {f \in Ends : remote[f] # Nobody}}

(* Carried connections deliver any hello with a challenge that exists      *)
(* already, and every signature made so far or made with a carrier's key.  *)
Hellos(e) ==
    IF e \in Mated THEN {HelloOf(Mate[e])}
    ELSE [version : Versions, key : Nodes \cup {Nobody},
          port : BOOLEAN, challenge : Begun \cup Carriers \cup {Nobody}]

-----------------------------------------------------------------------------
(* The handshake.                                                          *)

Said(e, piece) == IF e \notin Mated THEN wire
                  ELSE [wire EXCEPT ![e] = Append(@, piece)]

(* Step 1: this node's hello. *)
Greet(e) ==
    /\ stage[e] = "new"
    /\ stage' = [stage EXCEPT ![e] = "greeted"]
    /\ wire' = Said(e, "hello")
    /\ UNCHANGED <<speaks, remote, told, faults>>

(* The next thing to read is there: from the mate, or from a carrier. *)
Ready(e, piece) ==
    e \in Mated => wire[Mate[e]] # <<>> /\ Head(wire[Mate[e]]) = piece

(* w without what e has read of it. *)
Consumed(w, e, k) ==
    IF e \notin Mated THEN w
    ELSE [w EXCEPT ![Mate[e]] = SubSeq(@, k + 1, Len(@))]

(* Mutation for checking: any version will do. *)
SettlesAnyVersion(e, h) ==
    /\ h.key \in Nodes \ {NodeOf[e]}
    /\ h.challenge # Nobody
    /\ h.port

(* The checks on a hello: version, usable identity, not this node, size of *)
(* the challenge, listen port.                                             *)
Settles(e, h) ==
    /\ h.version = speaks[NodeOf[e]]
    /\ h.key \in Nodes \ {NodeOf[e]}
    /\ h.challenge # Nobody
    /\ h.port

(* Step 2: a hello that passes is answered with the proof. *)
HearHello(e) ==
    /\ stage[e] = "greeted"
    /\ Ready(e, "hello")
    /\ \E h \in Hellos(e) :
         /\ Settles(e, h)
         /\ remote' = [remote EXCEPT ![e] = h]
    /\ stage' = [stage EXCEPT ![e] = "proving"]
    /\ wire' = Consumed(Said(e, "proof"), e, 1)
    /\ UNCHANGED <<speaks, told, faults>>

(* Mutation for checking: the goroutine returns and leaves the connection. *)
LeaveOpen(e) ==
    /\ stage[e] = "greeted"
    /\ Ready(e, "hello")
    /\ \E h \in Hellos(e) : ~Settles(e, h)
    /\ wire' = Consumed(wire, e, 1)
    /\ UNCHANGED <<speaks, stage, remote, told, faults>>

(* One that does not ends the connection: handleConn closes it. *)
RefuseHello(e) ==
    /\ stage[e] = "greeted"
    /\ Ready(e, "hello")
    /\ \E h \in Hellos(e) : ~Settles(e, h)
    /\ stage' = [stage EXCEPT ![e] = "closed"]
    /\ wire' = Consumed(wire, e, 1)
    /\ UNCHANGED <<speaks, remote, told, faults>>

(* Mutation for checking: any challenge of this node's will do. *)
VerifiesStale(e, s) == \E c \in Ends : s = Transcript(remote[e].key, NodeOf[e], c)

(* verifyByNode of the key in the hello, over this end's own challenge. *)
Verifies(e, s) == s = Transcript(remote[e].key, NodeOf[e], e)

Proven(e) ==
    IF e \in Mated THEN Verifies(e, Signature(Mate[e]))
    ELSE \/ \E s \in Signed : Verifies(e, s)
         \/ \E k \in Carriers : Verifies(e, Transcript(k, NodeOf[e], e))

(* Reading the proof. The gob decoder buffers its reads, and whatever one  *)
(* read returns beyond the proof goes with the decoder when the handshake  *)
(* is over: frames of a mate that was quick, whole or in part.             *)
HearProof(e) ==
    /\ stage[e] = "proving"
    /\ Ready(e, "proof")
    /\ \E k \in 1 .. (IF e \notin Mated THEN 1 ELSE Len(wire[Mate[e]])) :
         wire' = Consumed(wire, e, k)
    /\ stage' = [stage EXCEPT ![e] = IF Proven(e) THEN "up" ELSE "closed"]
    /\ UNCHANGED <<speaks, remote, told, faults>>

(* Nobody has to send a carried end a proof that verifies. *)
RefuseProof(e) ==
    /\ stage[e] = "proving"
    /\ e \notin Mated
    /\ stage' = [stage EXCEPT ![e] = "closed"]
    /\ UNCHANGED <<speaks, remote, wire, told, faults>>

-----------------------------------------------------------------------------
(* The connection after it.                                                *)

(* announceTo, the first to write a frame. *)
Announce(e) ==
    /\ e \in Mated /\ stage[e] = "up"
    /\ e \notin told
    /\ told' = told \cup {e}
    /\ wire' = [wire EXCEPT ![e] = @ \o <<"frame", "rest">>]
    /\ UNCHANGED <<speaks, stage, remote, faults>>

(* DefaultDecoder, on the connection itself. *)
ReadFrame(e) ==
    /\ e \in Mated /\ stage[e] = "up"
    /\ Ready(e, "frame")
    /\ wire' = Consumed(wire, e, 2)
    /\ UNCHANGED <<speaks, stage, remote, told, faults>>

(* What is left of a frame does not look like one (what happens when it    *)
(* does is in Connections.tla).                                            *)
ReadRest(e) ==
    /\ e \in Mated /\ stage[e] = "up"
    /\ Ready(e, "rest")
    /\ stage' = [stage EXCEPT ![e] = "closed"]
    /\ wire' = Consumed(wire, e, 1)
    /\ UNCHANGED <<speaks, remote, told, faults>>

(* The other side has closed the connection: reads and writes fail. *)
Hangup(e) ==
    /\ stage[e] \notin {"new", "closed"}
    /\ e \in Mated => stage[Mate[e]] = "closed"
    /\ stage' = [stage EXCEPT ![e] = "closed"]
    /\ UNCHANGED <<speaks, remote, wire, told, faults>>

Break(e) ==
    /\ stage[e] \notin {"new", "closed"}
    /\ faults < MaxFaults
    /\ faults' = faults + 1
    /\ stage' = [stage EXCEPT ![e] = "closed"]
    /\ UNCHANGED <<speaks, remote, wire, told>>

HandshakeStep(e) ==
    Greet(e) \/ HearHello(e) \/ RefuseHello(e) \/ HearProof(e) \/ RefuseProof(e)

ConnectionStep(e) == Announce(e) \/ ReadFrame(e) \/ ReadRest(e) \/ Hangup(e)

Next == \E e \in Ends : HandshakeStep(e) \/ ConnectionStep(e) \/ Break(e)

Spec == Init /\ [][Next]_vars

(* Goroutines run, bytes arrive, and the end of a connection is seen.      *)
(* Nobody carries anything on a carried connection if it does not want to. *)
Fairness ==
    \A e \in Mated : WF_vars(HandshakeStep(e) \/ ConnectionStep(e))

FairSpec == Spec /\ Fairness

-----------------------------------------------------------------------------
(* Properties.                                                             *)

(* What the two ends of the abstract exchange have said and accepted. *)
Vouched ==
    [e \in Ends |->
       IF remote[e] = Nobody THEN Nobody
       ELSE <<IF remote[e].challenge \in Ends THEN remote[e].challenge ELSE Nobody,
              remote[e].key>>]

Accepted == [e \in Ends |-> IF stage[e] = "up" THEN remote[e].key ELSE Nobody]

Auth == INSTANCE Authentication
          WITH begun <- Begun, vouched <- Vouched, accepted <- Accepted

(* server.go:1258-1266 and identity.go:97-103: who a peer is, is proved:   *)
(* an end that is up talks to a node of which some end has signed for this *)
(* very exchange, towards this very node. What was captured on another     *)
(* connection, or signed towards another peer, does not help.              *)
Authenticated == Auth!Spec

(* server.go:1258-1260: what is settled is settled for both: two ends of   *)
(* one connection that are up, or have been led to sign, speak the same    *)
(* version, are different nodes and each knows the other.                  *)
SettledByBoth ==
    \A e \in Mated :
        stage[e] = "up" =>
          /\ remote[e] = HelloOf(Mate[e]) /\ remote[Mate[e]] = HelloOf(e)
          /\ NodeOf[e] # NodeOf[Mate[e]]
          /\ speaks[NodeOf[e]] = speaks[NodeOf[Mate[e]]]

(* The inductive invariant: an end signs once, for a hello that it has     *)
(* settled with; its mate's bytes are its mate's; and who is up has seen   *)
(* a signature made for it.                                                *)
StageFits(e) ==
    /\ stage[e] \in {"new", "greeted"} => remote[e] = Nobody
    /\ stage[e] \in {"proving", "up"} => remote[e] # Nobody

WireFits(e) ==
    /\ wire[e] # <<>> => stage[e] # "new"
    /\ Contains(wire[e], "proof") => remote[e] # Nobody

HelloSettled(e) ==
    remote[e] # Nobody =>
      /\ Settles(e, remote[e])
      /\ remote[e].challenge \in Begun \cup Carriers
      /\ e \in Mated => remote[e] = HelloOf(Mate[e])

ProofSeen(e) ==
    stage[e] = "up" =>
      /\ \/ remote[e].key \in Carriers
         \/ \E f \in Ends :
              /\ remote[f] # Nobody
              /\ Signature(f) = Transcript(remote[e].key, NodeOf[e], e)
      /\ e \in Mated => remote[Mate[e]] # Nobody

HandshakeInv ==
    /\ TypeOK
    /\ \A e \in Ends :
         StageFits(e) /\ WireFits(e) /\ HelloSettled(e) /\ ProofSeen(e)

(* handleConn: a handshake comes to an end, for both ends alike. No end    *)
(* goes on waiting for one that has refused it, and none stays up when the *)
(* other does not get there.                                               *)
HandshakeEnds ==
    \A e \in Mated :
        stage[e] # "new" ~>
          \/ stage[e] = "closed"
          \/ stage[e] = "up" /\ stage[Mate[e]] = "up"
=============================================================================
