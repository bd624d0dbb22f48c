--------------------------- MODULE Authentication ---------------------------
(***************************************************************************)
(* What a handshake promises: an end of a connection takes the other side  *)
(* for node n only after an end of n, opened for this purpose, has vouched *)
(* for exactly this exchange and this partner. An end vouches once.        *)
(***************************************************************************)
CONSTANTS
    Nodes, Ends,
    NodeOf,      \* the node an end belongs to
    Carriers,    \* nodes that do not follow the protocol
    Nobody

VARIABLES
    begun,       \* ends that have asked to be convinced
    vouched,     \* end -> the exchange <<end, node>> it has vouched for
    accepted     \* end -> the node it is convinced to be talking to

Init ==
    /\ begun = {}
    /\ vouched = [e \in Ends |-> Nobody]
    /\ accepted = [e \in Ends |-> Nobody]

Begin(e) ==
    /\ begun' = begun \cup {e}
    /\ UNCHANGED <<vouched, accepted>>

(* f answers what e, or nobody in particular, asks, and takes n to ask it. *)
Vouch(f, e, n) ==
    /\ f \in begun
    /\ vouched[f] = Nobody
    /\ e \in begun \cup {Nobody}
    /\ vouched' = [vouched EXCEPT ![f] = <<e, n>>]
    /\ UNCHANGED <<begun, accepted>>

Accept(e, n) ==
    /\ e \in begun
    /\ \/ n \in Carriers
       \/ \E f \in Ends : NodeOf[f] = n /\ vouched[f] = <<e, NodeOf[e]>>
    /\ accepted' = [accepted EXCEPT ![e] = n]
    /\ UNCHANGED <<begun, vouched>>

Part(e) ==
    /\ accepted' = [accepted EXCEPT ![e] = Nobody]
    /\ UNCHANGED <<begun, vouched>>

Next ==
    \E e \in Ends :
        \/ Begin(e) \/ Part(e)
        \/ \E n \in Nodes :
             \/ Accept(e, n)
             \/ \E f \in Ends \cup {Nobody} : Vouch(e, f, n)

Spec == Init /\ [][Next]_<<begun, vouched, accepted>>
=============================================================================
