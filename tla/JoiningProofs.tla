---------------------------- MODULE JoiningProofs ----------------------------
(* The invariants of Joining: whose entry is in a peer set, how many       *)
(* identities a host may have, and that nodes which share a peer meet.     *)
EXTENDS Joining, FiniteSetTheorems, TLAPS

Alive == {"new", "admitted", "up"}

Pairs ==
    \A c \in Conns :
        link[c] = {} \/ \E n, m \in Nodes : n # m /\ link[c] = {n, m}

(* The ends of a connection: who has one, and whose process is still there. *)
Ends ==
    \A c \in Conns, n \in Nodes :
        /\ stage[c][n] # "none" => n \in link[c]
        /\ stage[c][n] \in Alive => n \in running
        /\ n \in link[c] /\ c \notin closed => stage[c][n] \in Alive

(* What a process has still to do ends with it. *)
Errands ==
    /\ \A n \in Nodes : todo[n] # {} => n \in running
    /\ \A o \in owed : o[2] \in link[o[1]]
    /\ \A c \in Conns, n \in Nodes :
         list[c][n] # {} => n \in link[c] /\ n \in running /\ n \notin list[c][n]

Entries ==
    \A n, m \in Nodes, c \in Conns :
        peers[n][m] = c => link[c] = {n, m} /\ n # m /\ stage[c][n] = "up"

Recorded ==
    ~aged => /\ \A n, m \in Nodes : rows[n][m] # "old"
             /\ \A c \in Conns, n \in Nodes :
                  stage[c][n] = "up" => rows[n][Other(c, n)] = "recent"

Core == TypeOK /\ Pairs /\ Ends /\ Errands /\ Entries /\ Recorded

-----------------------------------------------------------------------------
(* Between its admission and its record a peer is covered by the count     *)
(* that admitted it, unless another admission came between.                *)
Exempt(n, h) == h \in Loopback \/ <<n, h>> \in raced \/ aged

Covered ==
    \A c \in Conns, n \in Nodes :
        LET m == Other(c, n)
            h == host[m]
        IN stage[c][n] = "admitted" =>
             \/ Exempt(n, h)
             \/ /\ rows[n][m] = "recent" \/ Cardinality(KnownAt(n, h)) < MaxPeersPerHost
                /\ \A d \in Conns : stage[d][n] = "admitted" /\ host[Other(d, n)] = h => d = c

-----------------------------------------------------------------------------
(* n has met m, or has been or will be told of m by l.                     *)
Told(l, n, m) ==
    \/ \E d \in Conns : link[d] = {n, m}
    \/ \E c \in Conns : link[c] = {l, n} /\ (<<c, l>> \in owed \/ m \in list[c][n])

Calm ==
    /\ closed = {} /\ ~aged /\ running = Nodes
    /\ \A c \in Conns, n \in Nodes :
         /\ stage[c][n] # "gone"
         /\ stage[c][n] = "up" => peers[n][Other(c, n)] # None
    /\ \A n, m \in Nodes : rows[n][m] = "recent" => peers[n][m] # None

(* A list is told once, after its end is up, and each of its entries is    *)
(* dialled once.                                                           *)
Untold(c, n) == tries[c][n] = 0 /\ list[c][n] = {}

OnceAt(c, n) ==
    /\ tries[c][n] + Cardinality(list[c][n]) < Cardinality(Nodes)
    /\ link[c] = {} => Untold(c, n)
    /\ n \in link[c] /\ stage[c][Other(c, n)] \in {"new", "admitted"} => Untold(c, n)
    /\ <<c, n>> \in owed => stage[c][n] = "up" /\ Untold(c, Other(c, n))

ToldOnce == \A c \in Conns, n \in Nodes : OnceAt(c, n)

AllTold ==
    \A l, n, m \in Nodes :
        n # m /\ peers[l][n] # None /\ peers[l][m] # None => Told(l, n, m) \/ Told(l, m, n)

Meeting == faults = 0 /\ Roomy => Calm /\ ToldOnce /\ AllTold

-----------------------------------------------------------------------------
(* The two ends of a connection.                                           *)

LEMMA OtherIs ==
    ASSUME NEW c, NEW n, NEW m, n # m
    PROVE  /\ link[c] = {n, m} => Other(c, n) = m /\ Other(c, m) = n
           /\ link'[c] = {n, m} => Other(c, n)' = m /\ Other(c, m)' = n
<1>1. ASSUME NEW S, S = {n, m}
      PROVE  (CHOOSE k \in S : k # n) = m /\ (CHOOSE k \in S : k # m) = n
  BY <1>1
<1>2. QED  BY <1>1 DEF Other

LEMMA OtherOf ==
    ASSUME TypeOK, Pairs, NEW c \in Conns, NEW n \in link[c]
    PROVE  /\ n \in Nodes /\ Other(c, n) \in Nodes /\ Other(c, n) # n
           /\ link[c] = {n, Other(c, n)} /\ Other(c, Other(c, n)) = n
<1>1. PICK i, j \in Nodes : i # j /\ link[c] = {i, j}
  BY DEF Pairs
<1>2. Other(c, i) = j /\ Other(c, j) = i
  BY <1>1, OtherIs
<1>3. n = i \/ n = j
  BY <1>1
<1>4. QED  BY <1>1, <1>2, <1>3

LEMMA OtherKept ==
    ASSUME TypeOK, Pairs, NEW c \in Conns, NEW n \in link[c], link'[c] = link[c]
    PROVE  Other(c, n)' = Other(c, n)
<1>1. Other(c, n) # n /\ link'[c] = {n, Other(c, n)}
  BY OtherOf
<1>2. PICK m : m = Other(c, n)
  OBVIOUS
<1>3. QED  BY <1>1, <1>2, OtherIs

LEMMA EndsOf ==
    ASSUME Core, NEW c \in Conns, NEW n \in Nodes, stage[c][n] # "none"
    PROVE  /\ n \in link[c] /\ Other(c, n) \in Nodes /\ Other(c, n) # n
           /\ link[c] = {n, Other(c, n)} /\ Other(c, Other(c, n)) = n
  BY OtherOf DEF Core, Ends

-----------------------------------------------------------------------------
(* Types.                                                                  *)

LEMMA MadeFinite ==
    /\ IsFiniteSet(Conns) /\ Cardinality(Conns) = MaxEvents
    /\ IsFiniteSet(Made) /\ Cardinality(Made) \in Nat
<1>1. IsFiniteSet(Conns) /\ Cardinality(Conns) = MaxEvents
  <2>1. 1 \in Int /\ MaxEvents \in Int /\ MaxEvents >= 0
    BY JoiningAssumption
  <2>2. IsFiniteSet(Conns) /\ Cardinality(Conns) = IF 1 > MaxEvents THEN 0 ELSE MaxEvents - 1 + 1
    BY <2>1, FS_Interval DEF Conns
  <2>3. QED  BY <2>1, <2>2
<1>2. Made \subseteq Conns
  BY DEF Made
<1>3. QED  BY <1>1, <1>2, FS_Subset, FS_CardinalityType

(* A dial that succeeds makes a connection that was not used before. *)
LEMMA Dialled ==
    ASSUME TypeOK, NEW n \in Nodes, NEW m \in Nodes, Dial(n, m)
    PROVE  \/ UNCHANGED <<link, stage>> /\ (m \notin running \/ m = n)
           \/ /\ m \in running /\ m # n
              /\ \E x \in Conns :
                   /\ link[x] = {}
                   /\ link' = [link EXCEPT ![x] = {n, m}]
                   /\ stage' = [stage EXCEPT ![x] = [@ EXCEPT ![n] = "new", ![m] = "new"]]
<1>1. CASE ~(m \in running /\ m # n)
  BY <1>1 DEF Dial
<1>2. CASE m \in running /\ m # n
  <2> DEFINE x == CHOOSE c \in Conns : c \notin Made
  <2>1. /\ Spare /\ link' = [link EXCEPT ![x] = {n, m}]
        /\ stage' = [stage EXCEPT ![x][n] = "new", ![x][m] = "new"]
    BY <1>2 DEF Dial
  <2>2. \E c \in Conns : c \notin Made
    <3>1. faults \in Nat /\ MaxEvents \in Nat
      BY JoiningAssumption DEF TypeOK
    <3>2. Cardinality(Made) # MaxEvents
      BY <2>1, <3>1, MadeFinite DEF Spare
    <3>3. Made # Conns
      BY <3>2, MadeFinite
    <3>4. QED  BY <3>3 DEF Made
  <2>3. x \in Conns /\ x \notin Made
    BY <2>2
  <2> HIDE DEF x
  <2>4. link[x] = {}
    BY <2>3 DEF Made
  <2>5. stage' = [stage EXCEPT ![x] = [@ EXCEPT ![n] = "new", ![m] = "new"]]
    BY <2>1, <2>3 DEF TypeOK
  <2>6. QED  BY <1>2, <2>1, <2>3, <2>4, <2>5
<1>3. QED  BY <1>1, <1>2

LEMMA TypeInit == Init => TypeOK
<1> SUFFICES ASSUME Init
             PROVE  TypeOK
  OBVIOUS
<1>1. 0 \in 0 .. MaxAttempts /\ 0 \in 0 .. MaxEvents
  BY JoiningAssumption
<1>2. Boot \in [Nodes -> SUBSET Nodes]
  BY JoiningAssumption
<1>3. /\ Each("none") \in [Nodes -> Stages] /\ Each({}) \in [Nodes -> SUBSET Nodes]
      /\ Each(0) \in [Nodes -> 0 .. MaxAttempts]
      /\ Each(Each(None)) \in [Nodes -> [Nodes -> Conns \cup {None}]]
      /\ Each(Each("none")) \in [Nodes -> [Nodes -> {"none", "recent", "old"}]]
  BY <1>1 DEF Each, Stages
<1>4. QED  BY <1>1, <1>2, <1>3 DEF Init, TypeOK

LEMMA DialTypes ==
    ASSUME TypeOK, NEW n \in Nodes, NEW m \in Nodes, Dial(n, m)
    PROVE  link' \in [Conns -> SUBSET Nodes] /\ stage' \in [Conns -> [Nodes -> Stages]]
<1>1. /\ link \in [Conns -> SUBSET Nodes] /\ {n, m} \in SUBSET Nodes
      /\ stage \in [Conns -> [Nodes -> Stages]]
  BY DEF TypeOK
<1>2. CASE UNCHANGED <<link, stage>>
  BY <1>1, <1>2
<1>3. CASE ~UNCHANGED <<link, stage>>
  <2>1. PICK x \in Conns :
            /\ link' = [link EXCEPT ![x] = {n, m}]
            /\ stage' = [stage EXCEPT ![x] = [@ EXCEPT ![n] = "new", ![m] = "new"]]
    BY <1>3, Dialled
  <2>2. [stage[x] EXCEPT ![n] = "new", ![m] = "new"] \in [Nodes -> Stages]
    BY <1>1 DEF Stages
  <2>3. stage' = [stage EXCEPT ![x] = [stage[x] EXCEPT ![n] = "new", ![m] = "new"]]
    BY <2>1
  <2>4. stage' \in [Conns -> [Nodes -> Stages]]
    BY <1>1, <2>2, <2>3
  <2>5. QED  BY <1>1, <2>1, <2>4
<1>4. QED  BY <1>2, <1>3

LEMMA TypeStep ==
    ASSUME Core, [Next]_vars
    PROVE  TypeOK'
<1> USE DEF TypeOK
<1>0. TypeOK
  BY DEF Core
<1>1. Spare => faults + 1 \in 0 .. MaxEvents
  BY <1>0, MadeFinite, JoiningAssumption DEF Spare
<1>2. \A n \in Nodes, m \in Nodes : Dial(n, m) =>
          link' \in [Conns -> SUBSET Nodes] /\ stage' \in [Conns -> [Nodes -> Stages]]
  BY DialTypes DEF Core
<1>3. ASSUME NEW c \in Conns, NEW n \in Nodes, NEW s \in Stages, stage' = [stage EXCEPT ![c][n] = s]
      PROVE  stage' \in [Conns -> [Nodes -> Stages]]
  BY <1>0, <1>3
<1>4. ASSUME NEW n \in Nodes, Start(n)
      PROVE  TypeOK'
  BY <1>0, <1>4, JoiningAssumption DEF Start
<1>5. ASSUME NEW n \in Nodes, Stop(n)
      PROVE  TypeOK'
  <2>1. stage' \in [Conns -> [Nodes -> Stages]]
    BY <1>0, <1>5 DEF Stop, Stages
  <2>2. peers' \in [Nodes -> [Nodes -> Conns \cup {None}]]
    BY <1>0, <1>5 DEF Stop, Each
  <2>3. list' \in [Conns -> [Nodes -> SUBSET Nodes]]
    BY <1>0, <1>5 DEF Stop
  <2>4. /\ running' \subseteq Nodes /\ todo' \in [Nodes -> SUBSET Nodes] /\ closed' \subseteq Conns
        /\ owed' \subseteq Conns \X Nodes /\ faults' \in 0 .. MaxEvents
    BY <1>0, <1>1, <1>5 DEF Stop
  <2>5. QED  BY <1>0, <1>5, <2>1, <2>2, <2>3, <2>4 DEF Stop
<1>6. ASSUME NEW n \in Nodes, CleanupStalePeers(n)
      PROVE  TypeOK'
  <2>1. PICK stale : rows' = [rows EXCEPT ![n] =
                         [m \in Nodes |-> IF m \in stale THEN "none" ELSE rows[n][m]]]
    BY <1>6 DEF CleanupStalePeers
  <2>2. [m \in Nodes |-> IF m \in stale THEN "none" ELSE rows[n][m]] \in [Nodes -> {"none", "recent", "old"}]
    BY <1>0
  <2>3. rows' \in [Nodes -> [Nodes -> {"none", "recent", "old"}]]
    BY <1>0, <2>1, <2>2
  <2>4. QED  BY <1>0, <1>6, <2>3 DEF CleanupStalePeers
<1>7. ASSUME NEW n \in Nodes, NEW m \in Nodes, Bootstrap(n, m)
      PROVE  TypeOK'
  BY <1>0, <1>2, <1>7 DEF Bootstrap
<1>8. ASSUME NEW n \in Nodes, NEW m \in Nodes, GrowOld(n, m)
      PROVE  TypeOK'
  BY <1>0, <1>1, <1>8 DEF GrowOld
<1>9. ASSUME NEW c \in Conns, Break(c)
      PROVE  TypeOK'
  BY <1>0, <1>1, <1>9 DEF Break
<1>10. ASSUME NEW c \in Conns, NEW n \in Nodes, Admit(c, n)
       PROVE  TypeOK'
  <2>1. Other(c, n) \in Nodes /\ host' = host
    BY <1>10, EndsOf DEF Admit
  <2>2. <<n, host[Other(c, n)]>> \in Nodes \X UNION {{p[k] : k \in Nodes} : p \in Placements}
    <3>1. host \in Placements /\ host[Other(c, n)] \in {host[k] : k \in Nodes}
      BY <1>0, <2>1
    <3>2. {host[k] : k \in Nodes} \in {{p[k] : k \in Nodes} : p \in Placements}
      BY <3>1
    <3>3. QED  BY <3>1, <3>2
  <2>3. raced' \subseteq Nodes \X UNION {{p[k] : k \in Nodes} : p \in Placements}
    BY <1>0, <1>10, <2>2 DEF Admit
  <2>4. stage' \in [Conns -> [Nodes -> Stages]]
    BY <1>3, <1>10 DEF Admit, Stages
  <2>5. QED  BY <1>0, <1>10, <2>3, <2>4 DEF Admit
<1>11. ASSUME NEW c \in Conns, NEW n \in Nodes, Refuse(c, n)
       PROVE  TypeOK'
  <2>1. stage' \in [Conns -> [Nodes -> Stages]]
    BY <1>3, <1>11 DEF Refuse, Stages
  <2>2. QED  BY <1>0, <1>11, <2>1 DEF Refuse
<1>12. ASSUME NEW c \in Conns, NEW n \in Nodes, Record(c, n) \/ Disconnect(c, n)
       PROVE  TypeOK'
  <2>1. Other(c, n) \in Nodes
    BY <1>12, EndsOf DEF Record, Disconnect
  <2>2. stage' \in [Conns -> [Nodes -> Stages]]
    BY <1>3, <1>12 DEF Record, Disconnect, Stages
  <2> DEFINE e == IF stage[c][n] = "admitted" THEN c ELSE None
  <2>3. /\ peers' = [peers EXCEPT ![n][Other(c, n)] = e]
        /\ rows' = [rows EXCEPT ![n][Other(c, n)] = "recent"] /\ e \in Conns \cup {None}
    BY <1>12 DEF Record, Disconnect
  <2> HIDE DEF e
  <2>6. /\ peers' \in [Nodes -> [Nodes -> Conns \cup {None}]]
        /\ rows' \in [Nodes -> [Nodes -> {"none", "recent", "old"}]]
    BY <1>0, <2>1, <2>3
  <2>4. owed' \subseteq Conns \X Nodes
    BY <1>0, <1>12 DEF Record, Disconnect
  <2>5. QED  BY <1>0, <1>12, <2>2, <2>4, <2>6 DEF Record, Disconnect
<1>13. ASSUME NEW c \in Conns, NEW n \in Nodes, Announce(c, n)
       PROVE  TypeOK'
  <2>1. n \in link[c]
    BY <1>13 DEF Announce, Core, Errands
  <2>2. Other(c, n) \in Nodes
    BY <2>1, OtherOf DEF Core
  <2>3. PICK l \in Gossip(n) : list' = IF peers[n][Other(c, n)] \in closed THEN list
                                       ELSE [list EXCEPT ![c][Other(c, n)] = l \ {Other(c, n)}]
    BY <1>13 DEF Announce
  <2>4. l \subseteq Nodes
    BY DEF Gossip
  <2>5. list' \in [Conns -> [Nodes -> SUBSET Nodes]]
    BY <1>0, <2>2, <2>3, <2>4
  <2>6. QED  BY <1>0, <1>13, <2>5 DEF Announce
<1>14. ASSUME NEW c \in Conns, NEW n \in Nodes, GiveUp(c, n) \/ ListLost(c, n)
       PROVE  TypeOK'
  <2>1. CASE GiveUp(c, n)
    BY <1>0, <2>1 DEF GiveUp
  <2>2. CASE ListLost(c, n)
    <3>1. list' \in [Conns -> [Nodes -> SUBSET Nodes]]
      BY <1>0, <2>2 DEF ListLost
    <3>2. QED  BY <1>0, <2>2, <3>1 DEF ListLost
  <2>3. QED  BY <1>14, <2>1, <2>2
<1>15. ASSUME NEW c \in Conns, NEW n \in Nodes, NEW m \in Nodes, Discover(c, n, m)
       PROVE  TypeOK'
  <2>1. list' \in [Conns -> [Nodes -> SUBSET Nodes]]
    BY <1>0, <1>15 DEF Discover
  <2>2. CASE peers[n][m] = None /\ tries[c][n] < MaxAttempts
    <3>1. tries[c][n] + 1 \in 0 .. MaxAttempts
      <4>1. tries[c][n] \in 0 .. MaxAttempts
        BY <1>0
      <4>2. \A i \in 0 .. MaxAttempts : i < MaxAttempts => i + 1 \in 0 .. MaxAttempts
        BY JoiningAssumption
      <4>3. QED  BY <2>2, <4>1, <4>2
    <3>2. tries' \in [Conns -> [Nodes -> 0 .. MaxAttempts]]
      <4>1. tries' = [tries EXCEPT ![c][n] = tries[c][n] + 1]
        BY <1>15, <2>2 DEF Discover
      <4>2. PICK t \in 0 .. MaxAttempts : t = tries[c][n] + 1
        BY <3>1
      <4>3. tries' = [tries EXCEPT ![c][n] = t]
        BY <4>1, <4>2
      <4>4. QED  BY <1>0, <4>3
    <3>3. link' \in [Conns -> SUBSET Nodes] /\ stage' \in [Conns -> [Nodes -> Stages]]
      BY <1>2, <1>15, <2>2 DEF Discover
    <3>4. QED  BY <1>0, <1>15, <2>1, <3>2, <3>3 DEF Discover
  <2>3. CASE ~(peers[n][m] = None /\ tries[c][n] < MaxAttempts)
    BY <1>0, <1>15, <2>1, <2>3 DEF Discover
  <2>4. QED  BY <2>2, <2>3
<1>16. CASE UNCHANGED vars
  BY <1>0, <1>16 DEF vars
<1>17. QED
  BY <1>4, <1>5, <1>6, <1>7, <1>8, <1>9, <1>10, <1>11, <1>12, <1>13, <1>14, <1>15, <1>16
     DEF Next, PeerStep, TalkStep

-----------------------------------------------------------------------------
(* What a step does to the connections.                                    *)

(* x becomes a connection of n and m. *)
Opened(x, n, m) ==
    /\ link[x] = {} /\ n # m /\ n \in running /\ m \in running
    /\ link' = [link EXCEPT ![x] = {n, m}]
    /\ stage' = [stage EXCEPT ![x] = [@ EXCEPT ![n] = "new", ![m] = "new"]]

(* The steps that dial. *)
Dials(n, m) == Bootstrap(n, m) \/ \E c \in Conns : Discover(c, n, m)

(* A step that dials makes one new connection between nodes that run, or   *)
(* none at all.                                                            *)
LEMMA Connecting ==
    ASSUME Core, NEW n \in Nodes, NEW m \in Nodes, Dials(n, m)
    PROVE  /\ UNCHANGED <<host, running, closed, peers, rows, owed, raced, faults, aged>>
           /\ \/ UNCHANGED <<link, stage>>
              \/ \E x \in Conns : Opened(x, n, m)
<1>1. n \in running /\ UNCHANGED <<host, running, closed, peers, rows, owed, raced, faults, aged>>
  <2>1. CASE Bootstrap(n, m)
    BY <2>1 DEF Bootstrap, Core, Errands
  <2>2. CASE \E c \in Conns : Discover(c, n, m)
    BY <2>2 DEF Discover, Core, Errands
  <2>3. QED  BY <2>1, <2>2 DEF Dials
<1>2. CASE UNCHANGED <<link, stage>>
  BY <1>1, <1>2
<1>3. CASE Dial(n, m)
  BY <1>1, <1>3, Dialled DEF Core, Opened
<1>4. QED  BY <1>2, <1>3 DEF Dials, Bootstrap, Discover

(* A new connection touches nothing that is there. *)
LEMMA Fresh ==
    ASSUME Core, NEW n \in Nodes, NEW m \in Nodes, NEW x \in Conns, Opened(x, n, m)
    PROVE  /\ link'[x] = {n, m}
           /\ \A k \in Nodes : stage[x][k] = "none" /\ list[x][k] = {}
           /\ \A k \in Nodes : stage'[x][k] = IF k \in {n, m} THEN "new" ELSE "none"
           /\ \A d \in Conns : d # x => link'[d] = link[d] /\ stage'[d] = stage[d]
           /\ \A d \in Conns, k \in Nodes :
                link[d] # {} => d # x /\ Other(d, k)' = Other(d, k)
<1>1. link \in [Conns -> SUBSET Nodes] /\ stage \in [Conns -> [Nodes -> Stages]]
  BY DEF Core, TypeOK
<1>2. link'[x] = {n, m} /\ \A d \in Conns : d # x => link'[d] = link[d] /\ stage'[d] = stage[d]
  BY <1>1 DEF Opened
<1>3. \A k \in Nodes : stage[x][k] = "none" /\ list[x][k] = {}
  BY DEF Core, Ends, Errands, Opened
<1>4. stage'[x] = [stage[x] EXCEPT ![n] = "new", ![m] = "new"]
  BY <1>1 DEF Opened
<1>5. \A k \in Nodes : stage'[x][k] = IF k \in {n, m} THEN "new" ELSE "none"
  BY <1>1, <1>3, <1>4
<1>6. ASSUME NEW d \in Conns, NEW k \in Nodes, link[d] # {}
      PROVE  d # x /\ Other(d, k)' = Other(d, k)
  <2>1. d # x /\ link'[d] = link[d]
    BY <1>2, <1>6 DEF Opened
  <2>2. QED  BY <2>1 DEF Other
<1>7. QED  BY <1>2, <1>3, <1>5, <1>6

(* Every other step leaves the connections themselves alone. *)
LEMMA NextIs ==
    ASSUME [Next]_vars
    PROVE  \/ \E n, m \in Nodes : Dials(n, m)
           \/ /\ UNCHANGED link
              /\ \A c, k : Other(c, k)' = Other(c, k)
              /\ \/ \E n \in Nodes : Start(n) \/ Stop(n) \/ CleanupStalePeers(n)
                 \/ \E n, m \in Nodes : GrowOld(n, m)
                 \/ \E c \in Conns : Break(c)
                 \/ \E c \in Conns, n \in Nodes :
                      \/ Admit(c, n) \/ Refuse(c, n) \/ Record(c, n) \/ Disconnect(c, n)
                      \/ Announce(c, n) \/ GiveUp(c, n) \/ ListLost(c, n)
                 \/ UNCHANGED vars
<1>1. UNCHANGED link => \A c, k : Other(c, k)' = Other(c, k)
  BY DEF Other
<1>2. CASE Next
  <2>1. CASE \E n \in Nodes : Start(n) \/ Stop(n) \/ CleanupStalePeers(n)
    BY <1>1, <2>1 DEF Start, Stop, CleanupStalePeers
  <2>2. CASE \E n, m \in Nodes : Bootstrap(n, m)
    BY <2>2 DEF Dials
  <2>3. CASE \E n, m \in Nodes : GrowOld(n, m)
    BY <1>1, <2>3 DEF GrowOld
  <2>4. CASE \E c \in Conns : Break(c)
    BY <1>1, <2>4 DEF Break
  <2>5. CASE \E c \in Conns, n \in Nodes : PeerStep(c, n)
    BY <1>1, <2>5 DEF PeerStep, Admit, Refuse, Record, Disconnect
  <2>6. CASE \E c \in Conns, n \in Nodes : Announce(c, n) \/ GiveUp(c, n) \/ ListLost(c, n)
    BY <1>1, <2>6 DEF Announce, GiveUp, ListLost
  <2>7. CASE \E c \in Conns, n, m \in Nodes : Discover(c, n, m)
    BY <2>7 DEF Dials
  <2>8. QED  BY <1>2, <2>1, <2>2, <2>3, <2>4, <2>5, <2>6, <2>7 DEF Next, TalkStep
<1>3. CASE UNCHANGED vars
  BY <1>1, <1>3 DEF vars
<1>4. QED  BY <1>2, <1>3

LEMMA PairsStep ==
    ASSUME Core, [Next]_vars
    PROVE  Pairs'
<1>1. ASSUME NEW n \in Nodes, NEW m \in Nodes, Dials(n, m)
      PROVE  Pairs'
  <2>1. CASE UNCHANGED link
    BY <2>1 DEF Core, Pairs
  <2>2. CASE ~UNCHANGED link
    <3>1. m # n /\ \E x \in Conns : link' = [link EXCEPT ![x] = {n, m}]
      BY <1>1, <2>2, Connecting DEF Opened
    <3>2. QED  BY <3>1 DEF Core, TypeOK, Pairs
  <2>3. QED  BY <2>1, <2>2
<1>2. CASE UNCHANGED link
  BY <1>2 DEF Core, Pairs
<1>3. QED  BY <1>1, <1>2, NextIs

LEMMA EndsStep ==
    ASSUME Core, [Next]_vars
    PROVE  Ends'
<1>1. /\ stage \in [Conns -> [Nodes -> Stages]] /\ Ends
  BY DEF Core, TypeOK
<1>2. ASSUME NEW n \in Nodes, NEW m \in Nodes, Dials(n, m)
      PROVE  Ends'
  <2>1. CASE UNCHANGED <<link, stage>>
    BY <1>1, <1>2, <2>1, Connecting DEF Ends
  <2>2. CASE ~UNCHANGED <<link, stage>>
    <3>1. PICK x \in Conns : Opened(x, n, m)
      BY <1>2, <2>2, Connecting
    <3>2. m \in running /\ n \in running /\ UNCHANGED <<running, closed>>
      BY <1>2, <3>1, Connecting DEF Opened
    <3>3. /\ link'[x] = {n, m}
          /\ \A k \in Nodes : stage'[x][k] = IF k \in {n, m} THEN "new" ELSE "none"
          /\ \A d \in Conns : d # x => link'[d] = link[d] /\ stage'[d] = stage[d]
      BY <3>1, Fresh
    <3>4. QED  BY <1>1, <3>2, <3>3 DEF Ends, Alive
  <2>3. QED  BY <2>1, <2>2
<1>3. ASSUME NEW n \in Nodes, Start(n)
      PROVE  Ends'
  BY <1>1, <1>3 DEF Ends, Start
<1>4. ASSUME NEW n \in Nodes, Stop(n)
      PROVE  Ends'
  <2>1. /\ running' = running \ {n} /\ link' = link
        /\ \A d \in Conns : d \in closed' <=> d \in closed \/ n \in link[d]
    BY <1>4 DEF Stop, Core, TypeOK
  <2>2. \A d \in Conns, k \in Nodes :
           stage'[d][k] = IF k = n /\ n \in link[d] THEN "gone" ELSE stage[d][k]
    BY <1>1, <1>4 DEF Stop
  <2>3. QED  BY <1>1, <2>1, <2>2 DEF Ends, Alive
<1>5. ASSUME NEW c \in Conns, NEW n \in Nodes, Admit(c, n) \/ Record(c, n)
      PROVE  Ends'
  <2>1. stage[c][n] \in Alive /\ \E s \in Alive \ {"none"} : stage' = [stage EXCEPT ![c][n] = s]
    BY <1>5 DEF Admit, Record, Alive
  <2>2. link' = link /\ running' = running /\ closed' = closed
    BY <1>5 DEF Admit, Record
  <2>3. QED  BY <1>1, <2>1, <2>2 DEF Ends, Alive
<1>6. ASSUME NEW c \in Conns, NEW n \in Nodes, Refuse(c, n) \/ Disconnect(c, n)
      PROVE  Ends'
  <2>1. stage[c][n] \in Alive /\ stage' = [stage EXCEPT ![c][n] = "gone"]
    BY <1>6 DEF Refuse, Disconnect, Alive
  <2>2. link' = link /\ running' = running /\ closed' = closed \cup {c}
    BY <1>6 DEF Refuse, Disconnect
  <2>3. QED  BY <1>1, <2>1, <2>2 DEF Ends, Alive
<1>7. ASSUME NEW c \in Conns, Break(c)
      PROVE  Ends'
  BY <1>1, <1>7 DEF Ends, Break
<1>8. CASE UNCHANGED <<link, running, closed, stage>>
  BY <1>1, <1>8 DEF Ends
<1>9. QED
  BY <1>2, <1>3, <1>4, <1>5, <1>6, <1>7, <1>8, NextIs
     DEF CleanupStalePeers, GrowOld, Announce, GiveUp, ListLost, vars

LEMMA ErrandsStep ==
    ASSUME Core, [Next]_vars
    PROVE  Errands'
<1>1. /\ todo \in [Nodes -> SUBSET Nodes] /\ list \in [Conns -> [Nodes -> SUBSET Nodes]]
      /\ running \subseteq Nodes /\ owed \subseteq Conns \X Nodes /\ Errands
  BY DEF Core, TypeOK
<1>2. ASSUME NEW n \in Nodes, NEW m \in Nodes, Dials(n, m)
      PROVE  Errands'
  <2>1. UNCHANGED <<running, owed>>
    BY <1>2, Connecting
  <2>2. /\ \A k \in Nodes : todo'[k] \subseteq todo[k]
        /\ \A d \in Conns, k \in Nodes : list'[d][k] \subseteq list[d][k]
    BY <1>1, <1>2 DEF Dials, Bootstrap, Discover
  <2>3. \A d \in Conns, k \in Nodes : k \in link[d] => k \in link'[d]
    <3>1. CASE UNCHANGED link
      BY <3>1
    <3>2. CASE ~UNCHANGED link
      <4>1. PICK x \in Conns : Opened(x, n, m)
        BY <1>2, <3>2, Connecting
      <4>2. \A d \in Conns : link[d] # {} => link'[d] = link[d]
        BY <4>1, Fresh DEF Opened
      <4>3. QED  BY <4>2
    <3>3. QED  BY <3>1, <3>2
  <2>4. QED  BY <1>1, <2>1, <2>2, <2>3 DEF Errands
<1>3. ASSUME NEW n \in Nodes, Start(n)
      PROVE  Errands'
  BY <1>1, <1>3 DEF Errands, Start
<1>4. ASSUME NEW n \in Nodes, Stop(n)
      PROVE  Errands'
  <2>1. /\ running' = running \ {n} /\ link' = link /\ owed' \subseteq owed
        /\ \A k \in Nodes : todo'[k] = IF k = n THEN {} ELSE todo[k]
        /\ \A d \in Conns, k \in Nodes : list'[d][k] = IF k = n THEN {} ELSE list[d][k]
    BY <1>1, <1>4 DEF Stop
  <2>2. QED  BY <1>1, <2>1 DEF Errands
<1>5. ASSUME NEW c \in Conns, NEW n \in Nodes, Record(c, n)
      PROVE  Errands'
  <2>1. n \in link[c]
    BY <1>5, EndsOf DEF Record
  <2>2. QED  BY <1>1, <1>5, <2>1 DEF Errands, Record
<1>6. ASSUME NEW c \in Conns, NEW n \in Nodes, Announce(c, n)
      PROVE  Errands'
  <2> DEFINE m == Other(c, n)
  <2>1. /\ n \in link[c] /\ peers[n][m] # None /\ owed' \subseteq owed
        /\ UNCHANGED <<running, link, todo>>
    BY <1>1, <1>6 DEF Announce, Errands
  <2>2. m \in Nodes /\ m # n /\ link[c] = {n, m}
    BY <2>1, OtherOf DEF Core
  <2> HIDE DEF m
  <2>3. CASE peers[n][m] \in closed
    <3>1. list' = list
      BY <1>6, <2>3 DEF Announce, m
    <3>2. QED  BY <1>1, <2>1, <3>1 DEF Errands
  <2>4. CASE peers[n][m] \notin closed
    <3>1. PICK e \in Conns : e = peers[n][m]
      BY <2>1, <2>2 DEF Core, TypeOK
    <3>2. m \in running
      BY <2>2, <2>4, <3>1 DEF Core, Entries, Ends
    <3>3. PICK l \in Gossip(n) : list' = [list EXCEPT ![c][m] = l \ {m}]
      BY <1>6, <2>4 DEF Announce, m
    <3>4. \A d \in Conns, k \in Nodes :
             list'[d][k] = IF d = c /\ k = m THEN l \ {m} ELSE list[d][k]
      BY <1>1, <3>3
    <3>5. QED  BY <1>1, <2>1, <2>2, <3>2, <3>4 DEF Errands
  <2>5. QED  BY <2>3, <2>4
<1>7. ASSUME NEW c \in Conns, NEW n \in Nodes, ListLost(c, n)
      PROVE  Errands'
  <2>1. \A d \in Conns, k \in Nodes : list'[d][k] \subseteq list[d][k]
    BY <1>1, <1>7 DEF ListLost
  <2>2. QED  BY <1>1, <1>7, <2>1 DEF Errands, ListLost
<1>8. CASE UNCHANGED <<link, running, todo, list>> /\ owed' \subseteq owed
  BY <1>1, <1>8 DEF Errands
<1>9. ASSUME NEW c \in Conns, NEW n \in Nodes,
             Admit(c, n) \/ Refuse(c, n) \/ Disconnect(c, n) \/ GiveUp(c, n)
      PROVE  UNCHANGED <<link, running, todo, list>> /\ owed' \subseteq owed
  BY <1>9 DEF Admit, Refuse, Disconnect, GiveUp
<1>10. ASSUME \/ \E n \in Nodes : CleanupStalePeers(n)
              \/ \E n, m \in Nodes : GrowOld(n, m)
              \/ \E c \in Conns : Break(c)
       PROVE  UNCHANGED <<link, running, todo, list, owed>>
  BY <1>10 DEF CleanupStalePeers, GrowOld, Break
<1>11. QED
  BY <1>2, <1>3, <1>4, <1>5, <1>6, <1>7, <1>8, <1>9, <1>10, NextIs DEF vars

LEMMA EntriesStep ==
    ASSUME Core, [Next]_vars
    PROVE  Entries'
<1>1. /\ stage \in [Conns -> [Nodes -> Stages]] /\ peers \in [Nodes -> [Nodes -> Conns \cup {None}]]
      /\ Entries
  BY DEF Core, TypeOK
<1>2. None \notin Conns
  BY JoiningAssumption DEF Conns
<1>0. ASSUME \A i, j \in Nodes, d \in Conns :
               peers'[i][j] = d =>
                 \/ peers[i][j] = d /\ link'[d] = link[d] /\ stage'[d][i] = stage[d][i]
                 \/ link'[d] = {i, j} /\ i # j /\ stage'[d][i] = "up"
      PROVE  Entries'
  <2> SUFFICES ASSUME NEW i \in Nodes, NEW j \in Nodes, NEW d \in Conns, peers'[i][j] = d
               PROVE  link'[d] = {i, j} /\ i # j /\ stage'[d][i] = "up"
    BY DEF Entries
  <2>1. peers[i][j] = d => link[d] = {i, j} /\ i # j /\ stage[d][i] = "up"
    BY DEF Core, Entries
  <2>2. QED  BY <1>0, <2>1
<1>3. ASSUME NEW n \in Nodes, NEW m \in Nodes, Dials(n, m)
      PROVE  Entries'
  <2>1. UNCHANGED peers
    BY <1>3, Connecting
  <2>2. CASE UNCHANGED <<link, stage>>
    BY <1>0, <2>1, <2>2
  <2>3. CASE ~UNCHANGED <<link, stage>>
    <3>1. PICK x \in Conns : Opened(x, n, m)
      BY <1>3, <2>3, Connecting
    <3>2. \A d \in Conns : link[d] # {} => link'[d] = link[d] /\ stage'[d] = stage[d]
      BY <3>1, Fresh DEF Opened
    <3>3. \A i, j \in Nodes, d \in Conns : peers[i][j] = d => link[d] # {}
      BY DEF Core, Entries
    <3>4. QED  BY <1>0, <2>1, <3>2, <3>3
  <2>4. QED  BY <2>2, <2>3
<1>4. ASSUME NEW n \in Nodes, Stop(n)
      PROVE  Entries'
  <2>1. /\ link' = link
        /\ \A k, i \in Nodes : peers'[k][i] = IF k = n THEN None ELSE peers[k][i]
        /\ \A d \in Conns, k \in Nodes : k # n => stage'[d][k] = stage[d][k]
    BY <1>1, <1>4 DEF Stop, Each
  <2>2. QED  BY <1>0, <1>2, <2>1
<1>5. ASSUME NEW c \in Conns, NEW n \in Nodes, Admit(c, n) \/ Refuse(c, n)
      PROVE  Entries'
  <2>1. /\ UNCHANGED <<link, peers>> /\ stage[c][n] = "new"
        /\ \E s \in Stages : stage' = [stage EXCEPT ![c][n] = s]
    BY <1>5 DEF Admit, Refuse, Stages
  <2>2. \A d \in Conns, k \in Nodes : stage[d][k] = "up" => stage'[d][k] = "up"
    BY <1>1, <2>1
  <2>3. \A i, j \in Nodes, d \in Conns : peers[i][j] = d => stage[d][i] = "up"
    BY DEF Core, Entries
  <2>4. QED  BY <1>0, <2>1, <2>2, <2>3
<1>6. ASSUME NEW c \in Conns, NEW n \in Nodes, Record(c, n)
      PROVE  Entries'
  <2>1. Other(c, n) \in Nodes /\ Other(c, n) # n /\ link[c] = {n, Other(c, n)}
    BY <1>6, EndsOf DEF Record
  <2>2. \A d \in Conns, k \in Nodes : stage'[d][k] = IF d = c /\ k = n THEN "up" ELSE stage[d][k]
    BY <1>1, <1>6 DEF Record
  <2>3. \A k, i \in Nodes :
           peers'[k][i] = IF k = n /\ i = Other(c, n) THEN c ELSE peers[k][i]
    BY <1>1, <1>6 DEF Record
  <2>4. link' = link
    BY <1>6 DEF Record
  <2>5. stage[c][n] = "admitted"
    BY <1>6 DEF Record
  <2>6. \A i, j \in Nodes, d \in Conns : peers[i][j] = d => stage[d][i] = "up"
    BY DEF Core, Entries
  <2>7. QED  BY <1>0, <2>1, <2>2, <2>3, <2>4, <2>5, <2>6
<1>7. ASSUME NEW c \in Conns, NEW n \in Nodes, Disconnect(c, n)
      PROVE  Entries'
  <2>1. Other(c, n) \in Nodes /\ Other(c, n) # n /\ link[c] = {n, Other(c, n)}
    BY <1>7, EndsOf DEF Disconnect
  <2>2. \A d \in Conns, k \in Nodes : stage'[d][k] = IF d = c /\ k = n THEN "gone" ELSE stage[d][k]
    BY <1>1, <1>7 DEF Disconnect
  <2>3. \A k, i \in Nodes :
           peers'[k][i] = IF k = n /\ i = Other(c, n) THEN None ELSE peers[k][i]
    BY <1>1, <1>7 DEF Disconnect
  <2>4. link' = link
    BY <1>7 DEF Disconnect
  <2>5. \A i, j \in Nodes : peers[i][j] = c /\ i = n => j = Other(c, n)
    <3> SUFFICES ASSUME NEW j \in Nodes, peers[n][j] = c
                 PROVE  j = Other(c, n)
      OBVIOUS
    <3>1. link[c] = {n, j} /\ n # j
      BY DEF Core, Entries
    <3>2. QED  BY <2>1, <3>1
  <2>6. QED  BY <1>0, <1>2, <2>1, <2>2, <2>3, <2>4, <2>5
<1>8. CASE UNCHANGED <<link, stage, peers>>
  BY <1>0, <1>8
<1>9. QED
  BY <1>3, <1>4, <1>5, <1>6, <1>7, <1>8, NextIs
     DEF Start, CleanupStalePeers, GrowOld, Break, Announce, GiveUp, ListLost, vars

LEMMA RecordedStep ==
    ASSUME Core, [Next]_vars
    PROVE  Recorded'
<1>1. /\ stage \in [Conns -> [Nodes -> Stages]] /\ aged \in BOOLEAN
      /\ rows \in [Nodes -> [Nodes -> {"none", "recent", "old"}]]
  BY DEF Core, TypeOK
<1>0. ASSUME /\ ~aged' => ~aged
             /\ ~aged => \A i, j \in Nodes : rows'[i][j] = rows[i][j] \/ rows'[i][j] = "recent"
             /\ \A d \in Conns, i \in Nodes :
                  stage'[d][i] = "up" =>
                    \/ stage[d][i] = "up" /\ Other(d, i)' = Other(d, i)
                    \/ rows'[i][Other(d, i)'] = "recent"
      PROVE  Recorded'
  <2> SUFFICES ASSUME ~aged'
               PROVE  /\ \A i, j \in Nodes : rows'[i][j] # "old"
                      /\ \A d \in Conns, i \in Nodes :
                           stage'[d][i] = "up" => rows'[i][Other(d, i)'] = "recent"
    BY DEF Recorded
  <2>1. ~aged /\ Recorded
    BY <1>0 DEF Core
  <2>2. \A i, j \in Nodes : rows'[i][j] # "old"
    BY <1>0, <2>1 DEF Recorded
  <2>3. ASSUME NEW d \in Conns, NEW i \in Nodes, stage'[d][i] = "up"
        PROVE  rows'[i][Other(d, i)'] = "recent"
    <3>1. CASE stage[d][i] = "up" /\ Other(d, i)' = Other(d, i)
      <4>1. Other(d, i) \in Nodes /\ rows[i][Other(d, i)] = "recent"
        BY <2>1, <3>1, EndsOf DEF Recorded
      <4>2. QED  BY <1>0, <2>1, <3>1, <4>1
    <3>2. QED  BY <1>0, <2>3, <3>1
  <2>4. QED  BY <2>2, <2>3
<1>2. ASSUME NEW n \in Nodes, NEW m \in Nodes, Dials(n, m)
      PROVE  Recorded'
  <2>1. UNCHANGED <<rows, aged>>
    BY <1>2, Connecting
  <2>2. \A d \in Conns, i \in Nodes :
           stage'[d][i] = "up" => stage[d][i] = "up" /\ Other(d, i)' = Other(d, i)
    <3>1. CASE UNCHANGED <<link, stage>>
      BY <3>1 DEF Other
    <3>2. CASE ~UNCHANGED <<link, stage>>
      <4>1. PICK x \in Conns : Opened(x, n, m)
        BY <1>2, <3>2, Connecting
      <4>2. /\ \A k \in Nodes : stage'[x][k] # "up"
            /\ \A d \in Conns : d # x => link'[d] = link[d] /\ stage'[d] = stage[d]
        BY <4>1, Fresh
      <4>3. QED  BY <4>2 DEF Other
    <3>3. QED  BY <3>1, <3>2
  <2>3. QED  BY <1>0, <2>1, <2>2
<1>3. ASSUME NEW n \in Nodes, Stop(n), \A d, i : Other(d, i)' = Other(d, i)
      PROVE  Recorded'
  <2>1. /\ UNCHANGED <<rows, aged>>
        /\ \A d \in Conns, i \in Nodes : stage'[d][i] = "up" => stage[d][i] = "up"
    BY <1>1, <1>3 DEF Stop
  <2>2. QED  BY <1>0, <1>3, <2>1
<1>4. ASSUME NEW n \in Nodes, CleanupStalePeers(n), \A d, i : Other(d, i)' = Other(d, i)
      PROVE  Recorded'
  <2>1. UNCHANGED <<stage, aged>>
    BY <1>4 DEF CleanupStalePeers
  <2>2. aged
    <3>1. \E m \in Nodes : rows[n][m] = "old"
      BY <1>4 DEF CleanupStalePeers
    <3>2. QED  BY <3>1 DEF Core, Recorded
  <2>3. QED  BY <2>1, <2>2 DEF Recorded
<1>5. ASSUME NEW n \in Nodes, NEW m \in Nodes, GrowOld(n, m)
      PROVE  Recorded'
  BY <1>5 DEF GrowOld, Recorded
<1>6. ASSUME NEW c \in Conns, NEW n \in Nodes, Admit(c, n) \/ Refuse(c, n),
             \A d, i : Other(d, i)' = Other(d, i)
      PROVE  Recorded'
  <2>1. /\ UNCHANGED <<rows, aged>>
        /\ \E s \in {"admitted", "gone"} : stage' = [stage EXCEPT ![c][n] = s]
    BY <1>6 DEF Admit, Refuse
  <2>2. \A d \in Conns, i \in Nodes : stage'[d][i] = "up" => stage[d][i] = "up"
    BY <1>1, <2>1
  <2>3. QED  BY <1>0, <1>6, <2>1, <2>2
<1>7. ASSUME NEW c \in Conns, NEW n \in Nodes, Record(c, n) \/ Disconnect(c, n),
             \A d, i : Other(d, i)' = Other(d, i)
      PROVE  Recorded'
  <2>1. /\ UNCHANGED aged /\ stage[c][n] # "none"
        /\ rows' = [rows EXCEPT ![n][Other(c, n)] = "recent"]
        /\ \E s \in {"up", "gone"} : stage' = [stage EXCEPT ![c][n] = s]
    BY <1>7 DEF Record, Disconnect
  <2>2. Other(c, n) \in Nodes
    BY <2>1, EndsOf
  <2>3. \A i, j \in Nodes :
           rows'[i][j] = IF i = n /\ j = Other(c, n) THEN "recent" ELSE rows[i][j]
    BY <1>1, <2>1
  <2>4. \A d \in Conns, i \in Nodes : stage'[d][i] = "up" => stage[d][i] = "up" \/ (d = c /\ i = n)
    BY <1>1, <2>1
  <2>5. QED  BY <1>0, <1>7, <2>1, <2>2, <2>3, <2>4
<1>8. ASSUME UNCHANGED <<rows, aged, stage>>, \A d, i : Other(d, i)' = Other(d, i)
      PROVE  Recorded'
  BY <1>0, <1>8
<1>9. ASSUME NEW c \in Conns, NEW n \in Nodes, Announce(c, n) \/ GiveUp(c, n) \/ ListLost(c, n)
      PROVE  UNCHANGED <<rows, aged, stage>>
  BY <1>9 DEF Announce, GiveUp, ListLost
<1>10. ASSUME (\E n \in Nodes : Start(n)) \/ (\E c \in Conns : Break(c)) \/ UNCHANGED vars
       PROVE  UNCHANGED <<rows, aged, stage>>
  BY <1>10 DEF Start, Break, vars
<1>11. QED
  BY <1>2, <1>3, <1>4, <1>5, <1>6, <1>7, <1>8, <1>9, <1>10, NextIs

LEMMA CoreInit == Init => Core
<1> SUFFICES ASSUME Init
             PROVE  Core
  OBVIOUS
<1>1. TypeOK
  BY TypeInit
<1>2. None \notin Conns
  BY JoiningAssumption DEF Conns
<1>3. /\ link = [c \in Conns |-> {}] /\ running = Nodes /\ todo = Boot /\ owed = {}
      /\ \A c \in Conns, n \in Nodes : stage[c][n] = "none" /\ list[c][n] = {}
      /\ \A n, m \in Nodes : peers[n][m] = None /\ rows[n][m] = "none"
  BY DEF Init, Each
<1>4. Pairs /\ Ends /\ Errands /\ Entries /\ Recorded
  BY <1>2, <1>3 DEF Pairs, Ends, Errands, Entries, Recorded, Alive
<1>5. QED  BY <1>1, <1>4 DEF Core

LEMMA CoreStep == Core /\ [Next]_vars => Core'
  BY TypeStep, PairsStep, EndsStep, ErrandsStep, EntriesStep, RecordedStep DEF Core

(* Whatever stops, breaks or grows old: an end of a connection belongs to  *)
(* one of its two nodes, what a process has still to announce or to dial   *)
(* ends with it, and an end that is up has been recorded by OnPeer.        *)
THEOREM CoreHolds == Spec => []Core
<1>1. QED  BY CoreInit, CoreStep, PTL DEF Spec

(* For any number of nodes, hosts and connections: an entry of a node's    *)
(* peer set is a connection of its own to that peer, whose OnPeer has run  *)
(* and whose OnPeerDisconnect has not, and the peer is in its table unless *)
(* a row has grown old (server.go, OnPeer and OnPeerDisconnect).           *)
THEOREM PeersAreConnected == Spec => []JoiningInv
<1>1. Core => JoiningInv
  <2> SUFFICES ASSUME Core
               PROVE  JoiningInv
    OBVIOUS
  <2>1. ASSUME NEW n \in Nodes, NEW m \in Nodes, NEW c \in Conns, peers[n][m] = c
        PROVE  /\ link[c] = {n, m} /\ n # m /\ n \in running
               /\ stage[c][n] = "up" /\ (aged \/ rows[n][m] = "recent")
    <3>1. link[c] = {n, m} /\ n # m /\ stage[c][n] = "up"
      BY <2>1 DEF Core, Entries
    <3>2. n \in running
      <4>1. stage[c][n] \in Alive
        BY <3>1 DEF Alive
      <4>2. QED  BY <4>1 DEF Core, Ends
    <3>3. Other(c, n) = m
      <4>1. link[c] = {n, m} /\ n # m
        BY <3>1
      <4>2. QED  BY <4>1, OtherIs
    <3>4. aged \/ rows[n][m] = "recent"
      BY <3>1, <3>3 DEF Core, Recorded
    <3>5. QED  BY <3>1, <3>2, <3>4
  <2>2. \A n, m \in Nodes, c \in Conns :
           peers[n][m] = c => /\ link[c] = {n, m} /\ n # m /\ n \in running
                              /\ stage[c][n] = "up" /\ (aged \/ rows[n][m] = "recent")
    BY <2>1
  <2>3. TypeOK /\ \A c \in Conns, n \in Nodes : stage[c][n] # "none" => n \in link[c]
    BY DEF Core, Ends
  <2>4. QED  BY <2>2, <2>3 DEF JoiningInv
<1>2. QED  BY <1>1, CoreHolds, PTL

-----------------------------------------------------------------------------
(* How many of a host.                                                     *)

LEMMA KnownFinite ==
    \A n, h : IsFiniteSet(KnownAt(n, h)) /\ Cardinality(KnownAt(n, h)) \in Nat
<1>1. \A n, h : KnownAt(n, h) \subseteq Nodes
  BY DEF KnownAt
<1>2. QED  BY <1>1, JoiningAssumption, FS_Subset, FS_CardinalityType

(* Hosts do not change, and what has been noted of the past stays. *)
LEMMA Noted ==
    ASSUME Core, [Next]_vars
    PROVE  host' = host /\ raced \subseteq raced' /\ (aged => aged')
<1>1. ASSUME NEW n \in Nodes, NEW m \in Nodes, Dials(n, m)
      PROVE  UNCHANGED <<host, raced, aged>>
  BY <1>1, Connecting
<1>2. ASSUME (\E n \in Nodes : Start(n) \/ Stop(n) \/ CleanupStalePeers(n))
             \/ (\E c \in Conns : Break(c)) \/ UNCHANGED vars
      PROVE  UNCHANGED <<host, raced, aged>>
  BY <1>2 DEF Start, Stop, CleanupStalePeers, Break, vars
<1>3. ASSUME NEW n \in Nodes, NEW m \in Nodes, GrowOld(n, m)
      PROVE  UNCHANGED <<host, raced>> /\ aged'
  BY <1>3 DEF GrowOld
<1>4. ASSUME NEW c \in Conns, NEW n \in Nodes, Admit(c, n)
      PROVE  UNCHANGED <<host, aged>> /\ raced \subseteq raced'
  BY <1>4 DEF Admit
<1>5. ASSUME NEW c \in Conns, NEW n \in Nodes, Refuse(c, n) \/ Record(c, n) \/ Disconnect(c, n)
             \/ Announce(c, n) \/ GiveUp(c, n) \/ ListLost(c, n)
      PROVE  UNCHANGED <<host, raced, aged>>
  BY <1>5 DEF Refuse, Record, Disconnect, Announce, GiveUp, ListLost
<1>6. QED  BY <1>1, <1>2, <1>3, <1>4, <1>5, NextIs

(* As long as no row grows old, only Record changes what is known. *)
LEMMA RowsKept ==
    ASSUME Core, [Next]_vars, ~aged', NEW k \in Nodes,
           \A c \in Conns, n \in Nodes : ~Record(c, n)
    PROVE  \A i \in Nodes : rows'[k][i] = rows[k][i]
<1>0. ~aged /\ rows \in [Nodes -> [Nodes -> {"none", "recent", "old"}]]
  BY Noted DEF Core, TypeOK
<1>1. ASSUME NEW n \in Nodes, NEW m \in Nodes, Dials(n, m)
      PROVE  UNCHANGED rows
  BY <1>1, Connecting
<1>2. ASSUME (\E n \in Nodes : Start(n) \/ Stop(n)) \/ (\E c \in Conns : Break(c)) \/ UNCHANGED vars
      PROVE  UNCHANGED rows
  BY <1>2 DEF Start, Stop, Break, vars
<1>3. ASSUME NEW n \in Nodes, CleanupStalePeers(n)
      PROVE  FALSE
  <2>1. \E m \in Nodes : rows[n][m] = "old"
    BY <1>3 DEF CleanupStalePeers
  <2>2. QED  BY <1>0, <2>1 DEF Core, Recorded
<1>4. ASSUME NEW n \in Nodes, NEW m \in Nodes, GrowOld(n, m)
      PROVE  FALSE
  BY <1>4 DEF GrowOld
<1>5. ASSUME NEW c \in Conns, NEW n \in Nodes, Admit(c, n) \/ Refuse(c, n)
             \/ Announce(c, n) \/ GiveUp(c, n) \/ ListLost(c, n)
      PROVE  UNCHANGED rows
  BY <1>5 DEF Admit, Refuse, Announce, GiveUp, ListLost
<1>6. ASSUME NEW c \in Conns, NEW n \in Nodes, Disconnect(c, n)
      PROVE  \A i \in Nodes : rows'[k][i] = rows[k][i]
  <2>1. /\ stage[c][n] = "up"
        /\ rows' = [rows EXCEPT ![n][Other(c, n)] = "recent"]
    BY <1>6 DEF Disconnect
  <2>2. Other(c, n) \in Nodes /\ rows[n][Other(c, n)] = "recent"
    BY <1>0, <2>1, EndsOf DEF Core, Recorded
  <2>3. QED  BY <1>0, <2>1, <2>2
<1>7. QED  BY <1>1, <1>2, <1>3, <1>4, <1>5, <1>6, NextIs

LEMMA CapFrame ==
    ASSUME Core, HostCapped, Covered, [Next]_vars,
           \A c \in Conns, n \in Nodes : ~Record(c, n),
           \A c \in Conns, n \in Nodes :
             stage'[c][n] = "admitted" =>
               stage[c][n] = "admitted" /\ Other(c, n)' = Other(c, n)
    PROVE  HostCapped' /\ Covered'
<1>1. /\ host' = host /\ \A n, h : Exempt(n, h) => Exempt(n, h)'
      /\ \A n, h : Exempt(n, h)' <=> h \in Loopback \/ <<n, h>> \in raced' \/ aged'
  BY Noted DEF Exempt
<1>2. CASE aged'
  BY <1>2 DEF HostCapped, Covered, Exempt
<1>3. CASE ~aged'
  <2>1. \A n \in Nodes : \A m \in Nodes : rows'[n][m] = rows[n][m]
    BY <1>3, RowsKept
  <2>2. \A n \in Nodes : \A h : KnownAt(n, h)' = KnownAt(n, h)
    BY <1>1, <2>1 DEF KnownAt
  <2>3. HostCapped'
    <3> SUFFICES ASSUME NEW n \in Nodes, NEW h \in {host[m] : m \in Nodes}, ~Exempt(n, h)'
                 PROVE  Cardinality(KnownAt(n, h)') <= MaxPeersPerHost
      BY <1>1 DEF HostCapped, Exempt
    <3>1. Cardinality(KnownAt(n, h)) <= MaxPeersPerHost
      BY <1>1 DEF HostCapped, Exempt
    <3>2. QED  BY <2>2, <3>1
  <2>4. Covered'
    <3> SUFFICES ASSUME NEW c \in Conns, NEW n \in Nodes, stage'[c][n] = "admitted",
                        ~Exempt(n, host[Other(c, n)])'
                 PROVE  /\ \/ rows'[n][Other(c, n)'] = "recent"
                           \/ Cardinality(KnownAt(n, host[Other(c, n)])') < MaxPeersPerHost
                        /\ \A d \in Conns :
                             stage'[d][n] = "admitted" /\ host'[Other(d, n)'] = host'[Other(c, n)']
                               => d = c
      BY <1>1 DEF Covered
    <3>1. stage[c][n] = "admitted" /\ Other(c, n)' = Other(c, n) /\ Other(c, n) \in Nodes
      BY EndsOf
    <3>2. PICK m \in Nodes : m = Other(c, n) /\ m = Other(c, n)'
      BY <3>1
    <3>3. ~Exempt(n, host[m])
      BY <1>1, <3>2
    <3>4. /\ rows[n][m] = "recent" \/ Cardinality(KnownAt(n, host[m])) < MaxPeersPerHost
          /\ \A d \in Conns : stage[d][n] = "admitted" /\ host[Other(d, n)] = host[m] => d = c
      BY <3>1, <3>2, <3>3 DEF Covered
    <3>5. KnownAt(n, host[Other(c, n)])' = KnownAt(n, host[m])
      BY <1>1, <2>2, <3>2
    <3>6. QED  BY <1>1, <2>1, <3>2, <3>4, <3>5
  <2>5. QED  BY <2>3, <2>4
<1>4. QED  BY <1>2, <1>3

(* An admission that nothing overlaps leaves room for its record. *)
LEMMA CapAdmit ==
    ASSUME Core, HostCapped, Covered, [Next]_vars, NEW c \in Conns, NEW n \in Nodes, Admit(c, n)
    PROVE  HostCapped' /\ Covered'
<1>1. PICK m \in Nodes : m = Other(c, n)
  BY EndsOf DEF Admit
<1>2. /\ stage[c][n] = "new" /\ stage' = [stage EXCEPT ![c][n] = "admitted"]
      /\ UNCHANGED <<host, rows, link, aged>> /\ Admits(n, m)
      /\ raced' = IF Entering(n, host[m]) # {} THEN raced \cup {<<n, host[m]>>} ELSE raced
  BY <1>1 DEF Admit
<1>3. /\ \A k, h : KnownAt(k, h)' = KnownAt(k, h) /\ (Exempt(k, h) => Exempt(k, h)')
      /\ \A d, k : Other(d, k)' = Other(d, k)
      /\ \A k, h : Exempt(k, h)' <=> h \in Loopback \/ <<k, h>> \in raced' \/ aged
  BY <1>2 DEF KnownAt, Exempt, Other
<1>4. HostCapped'
  BY <1>2, <1>3 DEF HostCapped, Exempt
<1>5. \A d \in Conns, k \in Nodes :
         stage'[d][k] = "admitted" <=> stage[d][k] = "admitted" \/ (d = c /\ k = n)
  BY <1>2 DEF Core, TypeOK
<1>6. ASSUME NEW d \in Conns, NEW k \in Nodes, stage'[d][k] = "admitted",
             NEW h, h = host[Other(d, k)], ~Exempt(k, h)'
      PROVE  /\ rows[k][Other(d, k)] = "recent" \/ Cardinality(KnownAt(k, h)) < MaxPeersPerHost
             /\ \A e \in Conns : stage'[e][k] = "admitted" /\ host[Other(e, k)] = h => e = d
  <2>1. CASE k = n /\ h = host[m]
    <3>1. Entering(n, h) = {}
      BY <1>2, <1>3, <1>6, <2>1
    <3>2. \A e \in Conns : stage'[e][n] = "admitted" /\ host[Other(e, n)] = h => e = c
      BY <1>5, <3>1 DEF Entering
    <3>3. d = c
      BY <1>6, <2>1, <3>2
    <3>4. h \notin Loopback /\ ~aged
      BY <1>3, <1>6
    <3>5. CASE peers[n][m] # None
      <4>1. PICK e \in Conns : peers[n][m] = e
        BY <3>5 DEF Core, TypeOK
      <4>2. link[e] = {n, m} /\ n # m /\ stage[e][n] = "up"
        BY <4>1 DEF Core, Entries
      <4>3. Other(e, n) = m
        BY <4>2, OtherIs
      <4>4. rows[n][m] = "recent"
        BY <3>4, <4>2, <4>3 DEF Core, Recorded
      <4>5. QED  BY <1>1, <2>1, <3>2, <3>3, <4>4
    <3>6. CASE Cardinality(KnownAt(n, h)) < MaxPeersPerHost
      BY <2>1, <3>2, <3>3, <3>6
    <3>7. QED  BY <1>2, <2>1, <3>4, <3>5, <3>6 DEF Admits
  <2>2. CASE ~(k = n /\ h = host[m])
    <3>1. stage[d][k] = "admitted" /\ ~Exempt(k, h)
      BY <1>1, <1>3, <1>5, <1>6, <2>2
    <3>2. /\ rows[k][Other(d, k)] = "recent" \/ Cardinality(KnownAt(k, h)) < MaxPeersPerHost
          /\ \A e \in Conns : stage[e][k] = "admitted" /\ host[Other(e, k)] = h => e = d
      BY <1>6, <3>1 DEF Covered
    <3>3. QED  BY <1>1, <1>5, <2>2, <3>2
  <2>3. QED  BY <2>1, <2>2
<1>7. Covered'
  BY <1>2, <1>3, <1>6 DEF Covered
<1>8. QED  BY <1>4, <1>7

(* A record takes the room that its admission left. *)
LEMMA CapRecord ==
    ASSUME Core, HostCapped, Covered, [Next]_vars, NEW c \in Conns, NEW n \in Nodes, Record(c, n)
    PROVE  HostCapped' /\ Covered'
<1>1. PICK m \in Nodes : m = Other(c, n)
  BY EndsOf DEF Record
<1>2. /\ stage[c][n] = "admitted" /\ stage' = [stage EXCEPT ![c][n] = "up"]
      /\ rows' = [rows EXCEPT ![n][m] = "recent"]
      /\ UNCHANGED <<host, link, raced, aged>>
  BY <1>1 DEF Record
<1>0. PICK g : g = host[m]
  OBVIOUS
<1>3. /\ \A k, h : Exempt(k, h)' <=> Exempt(k, h)
      /\ \A d, k : Other(d, k)' = Other(d, k)
  BY <1>2 DEF Exempt, Other
<1>4. \A d \in Conns, k \in Nodes :
         stage'[d][k] = "admitted" => stage[d][k] = "admitted" /\ ~(d = c /\ k = n)
  BY <1>2 DEF Core, TypeOK
<1>5. \A k, i \in Nodes : rows'[k][i] = IF k = n /\ i = m THEN "recent" ELSE rows[k][i]
  BY <1>2 DEF Core, TypeOK
<1>6. \A k \in Nodes : \A h : ~(k = n /\ h = g) => KnownAt(k, h)' = KnownAt(k, h)
  BY <1>0, <1>2, <1>5 DEF KnownAt
<1>7. KnownAt(n, g)' = KnownAt(n, g) \cup {m}
  BY <1>0, <1>2, <1>5 DEF KnownAt
<1>8. ASSUME ~Exempt(n, g)
      PROVE  /\ Cardinality(KnownAt(n, g)') <= MaxPeersPerHost
             /\ \A d \in Conns : stage[d][n] = "admitted" /\ host[Other(d, n)] = g => d = c
  <2>1. /\ rows[n][m] = "recent" \/ Cardinality(KnownAt(n, g)) < MaxPeersPerHost
        /\ \A d \in Conns : stage[d][n] = "admitted" /\ host[Other(d, n)] = g => d = c
    BY <1>0, <1>1, <1>2, <1>8 DEF Covered
  <2>2. Cardinality(KnownAt(n, g)) <= MaxPeersPerHost
    BY <1>0, <1>8 DEF HostCapped, Exempt
  <2>3. Cardinality(KnownAt(n, g)') =
           IF m \in KnownAt(n, g) THEN Cardinality(KnownAt(n, g))
                                        ELSE Cardinality(KnownAt(n, g)) + 1
    BY <1>7, KnownFinite, FS_AddElement
  <2>4. rows[n][m] = "recent" => m \in KnownAt(n, g)
    BY <1>0 DEF KnownAt
  <2>5. Cardinality(KnownAt(n, g)) \in Nat /\ MaxPeersPerHost \in Nat
    BY KnownFinite, JoiningAssumption
  <2>6. Cardinality(KnownAt(n, g)') <= MaxPeersPerHost
    <3>1. CASE rows[n][m] = "recent"
      BY <2>2, <2>3, <2>4, <3>1
    <3>2. CASE Cardinality(KnownAt(n, g)) < MaxPeersPerHost
      BY <2>2, <2>3, <2>5, <3>2
    <3>3. QED  BY <2>1, <3>1, <3>2
  <2>7. QED  BY <2>1, <2>6
<1>9. HostCapped'
  <2> SUFFICES ASSUME NEW k \in Nodes, NEW h \in {host[i] : i \in Nodes}, ~Exempt(k, h)
               PROVE  Cardinality(KnownAt(k, h)') <= MaxPeersPerHost
    BY <1>2, <1>3 DEF HostCapped, Exempt
  <2>1. Cardinality(KnownAt(k, h)) <= MaxPeersPerHost
    BY DEF HostCapped, Exempt
  <2>2. QED  BY <1>6, <1>8, <2>1
<1>10. ASSUME NEW d \in Conns, NEW k \in Nodes, stage'[d][k] = "admitted",
              NEW h, h = host[Other(d, k)], ~Exempt(k, h)
       PROVE  /\ rows'[k][Other(d, k)] = "recent" \/ Cardinality(KnownAt(k, h)') < MaxPeersPerHost
              /\ \A e \in Conns : stage'[e][k] = "admitted" /\ host[Other(e, k)] = h => e = d
  <2>1. stage[d][k] = "admitted" /\ Other(d, k) \in Nodes
    BY <1>4, <1>10, EndsOf
  <2>2. /\ rows[k][Other(d, k)] = "recent" \/ Cardinality(KnownAt(k, h)) < MaxPeersPerHost
        /\ \A e \in Conns : stage[e][k] = "admitted" /\ host[Other(e, k)] = h => e = d
    BY <1>10, <2>1 DEF Covered
  <2>3. ~(k = n /\ h = g)
    BY <1>0, <1>1, <1>2, <1>4, <1>10, <2>2
  <2>4. KnownAt(k, h)' = KnownAt(k, h)
    BY <1>6, <2>3
  <2>5. rows[k][Other(d, k)] = "recent" => rows'[k][Other(d, k)] = "recent"
    BY <1>5, <2>1
  <2>6. \A e \in Conns : stage'[e][k] = "admitted" => stage[e][k] = "admitted"
    BY <1>4
  <2>7. QED  BY <2>2, <2>4, <2>5, <2>6
<1>11. Covered'
  BY <1>2, <1>3, <1>10 DEF Covered
<1>12. QED  BY <1>9, <1>11

LEMMA CapStep ==
    ASSUME Core, HostCapped, Covered, [Next]_vars
    PROVE  HostCapped' /\ Covered'
<1>1. CASE \E c \in Conns, n \in Nodes : Admit(c, n)
  BY <1>1, CapAdmit
<1>2. CASE \E c \in Conns, n \in Nodes : Record(c, n)
  BY <1>2, CapRecord
<1>3. CASE \A c \in Conns, n \in Nodes : ~Admit(c, n) /\ ~Record(c, n)
  <2>0. stage \in [Conns -> [Nodes -> Stages]]
    BY DEF Core, TypeOK
  <2>1. ASSUME NEW n \in Nodes, NEW m \in Nodes, Dials(n, m),
               NEW d \in Conns, NEW k \in Nodes, stage'[d][k] = "admitted"
        PROVE  stage[d][k] = "admitted" /\ Other(d, k)' = Other(d, k)
    <3>1. CASE UNCHANGED <<link, stage>>
      BY <2>1, <3>1 DEF Other
    <3>2. CASE ~UNCHANGED <<link, stage>>
      <4>1. PICK x \in Conns : Opened(x, n, m)
        BY <2>1, <3>2, Connecting
      <4>2. stage'[x][k] # "admitted" /\ (d # x => link'[d] = link[d] /\ stage'[d] = stage[d])
        BY <4>1, Fresh
      <4>3. QED  BY <2>1, <4>2 DEF Other
    <3>3. QED  BY <3>1, <3>2
  <2>2. ASSUME NEW n \in Nodes, Stop(n), NEW d \in Conns, NEW k \in Nodes, stage'[d][k] = "admitted"
        PROVE  stage[d][k] = "admitted"
    BY <2>0, <2>2 DEF Stop
  <2>3. ASSUME NEW c \in Conns, NEW n \in Nodes, Refuse(c, n) \/ Disconnect(c, n),
               NEW d \in Conns, NEW k \in Nodes, stage'[d][k] = "admitted"
        PROVE  stage[d][k] = "admitted"
    <3>1. stage' = [stage EXCEPT ![c][n] = "gone"]
      BY <2>3 DEF Refuse, Disconnect
    <3>2. QED  BY <2>0, <2>3, <3>1
  <2>4. ASSUME NEW c \in Conns, NEW n \in Nodes, Announce(c, n) \/ GiveUp(c, n) \/ ListLost(c, n)
        PROVE  UNCHANGED stage
    BY <2>4 DEF Announce, GiveUp, ListLost
  <2>5. ASSUME (\E n \in Nodes : Start(n) \/ CleanupStalePeers(n)) \/ (\E n, m \in Nodes : GrowOld(n, m))
               \/ (\E c \in Conns : Break(c)) \/ UNCHANGED vars
        PROVE  UNCHANGED stage
    BY <2>5 DEF Start, CleanupStalePeers, GrowOld, Break, vars
  <2>6. ASSUME NEW d \in Conns, NEW k \in Nodes, stage'[d][k] = "admitted"
        PROVE  stage[d][k] = "admitted" /\ Other(d, k)' = Other(d, k)
    BY <1>3, <2>1, <2>2, <2>3, <2>4, <2>5, <2>6, NextIs
  <2>7. QED  BY <1>3, <2>6, CapFrame
<1>4. QED  BY <1>1, <1>2, <1>3

(* For any number of nodes on any hosts: a node has no more recently seen  *)
(* peers of one host than MaxPeersPerHost, loopback apart, unless two      *)
(* admissions from that host overlapped or rows of peers that may still be *)
(* connected have grown old (server.go:1132-1135, admit).                  *)
THEOREM HostsAreCapped == Spec => []HostCapped
<1>1. Init => HostCapped /\ Covered
  <2> SUFFICES ASSUME Init
               PROVE  HostCapped /\ Covered
    OBVIOUS
  <2>1. /\ \A c \in Conns, n \in Nodes : stage[c][n] = "none"
        /\ \A n, m \in Nodes : rows[n][m] = "none"
    BY DEF Init, Each
  <2>2. \A n \in Nodes : \A h : KnownAt(n, h) = {}
    BY <2>1 DEF KnownAt
  <2>3. Cardinality({}) <= MaxPeersPerHost
    BY FS_EmptySet, JoiningAssumption
  <2>4. QED  BY <2>1, <2>2, <2>3 DEF HostCapped, Covered
<1>2. (Core /\ HostCapped /\ Covered) /\ [Next]_vars => (Core /\ HostCapped /\ Covered)'
  BY CoreStep, CapStep
<1>3. QED  BY CoreInit, <1>1, <1>2, PTL DEF Spec

-----------------------------------------------------------------------------
(* Meeting: nothing has failed, and every host has room for its nodes.     *)

Peaceful == Core /\ faults = 0 /\ Roomy /\ Calm /\ ToldOnce

LEMMA NodesFinite == IsFiniteSet(Nodes) /\ Cardinality(Nodes) \in Nat
  BY JoiningAssumption, FS_CardinalityType

(* A finite set without one of its elements. *)
LEMMA OneLess ==
    ASSUME NEW S, IsFiniteSet(S), NEW x \in S, NEW T \in SUBSET (S \ {x})
    PROVE  /\ IsFiniteSet(T) /\ Cardinality(T) \in Nat /\ Cardinality(S) \in Nat
           /\ Cardinality(T) < Cardinality(S)
<1>1. /\ IsFiniteSet(S \ {x}) /\ Cardinality(S \ {x}) = Cardinality(S) - 1
      /\ Cardinality(S) \in Nat
  BY FS_RemoveElement, FS_CardinalityType
<1>2. IsFiniteSet(T) /\ Cardinality(T) <= Cardinality(S \ {x}) /\ Cardinality(T) \in Nat
  BY <1>1, FS_Subset, FS_CardinalityType
<1>3. QED  BY <1>1, <1>2

(* Nobody is refused. *)
LEMMA Welcome ==
    ASSUME Peaceful, NEW c \in Conns, NEW n \in Nodes, stage[c][n] = "new"
    PROVE  Admits(n, Other(c, n))
<1>1. PICK m \in Nodes : m = Other(c, n)
  BY EndsOf DEF Peaceful
<1>2. CASE host[m] \notin Loopback /\ peers[n][m] = None
  <2> DEFINE here == {k \in Nodes : host[k] = host[m]}
  <2>1. Cardinality(here) <= MaxPeersPerHost
    BY <1>2 DEF Peaceful, Roomy
  <2>2. IsFiniteSet(here) /\ m \in here
    BY NodesFinite, FS_Subset
  <2>3. rows[n][m] # "recent"
    BY <1>2 DEF Peaceful, Calm
  <2>4. KnownAt(n, host[m]) \subseteq here \ {m}
    BY <2>3 DEF KnownAt
  <2> HIDE DEF here
  <2>5. /\ Cardinality(KnownAt(n, host[m])) < Cardinality(here)
        /\ Cardinality(KnownAt(n, host[m])) \in Nat /\ Cardinality(here) \in Nat
    BY <2>2, <2>4, OneLess
  <2>6. Cardinality(KnownAt(n, host[m])) < MaxPeersPerHost
    BY <2>1, <2>5, JoiningAssumption
  <2>7. QED  BY <1>1, <2>6 DEF Admits
<1>3. QED  BY <1>1, <1>2 DEF Admits

(* Everybody seen lately is told of. *)
LEMMA Everybody ==
    ASSUME Peaceful, NEW n \in Nodes, NEW l \in Gossip(n), NEW m \in Nodes, rows[n][m] = "recent"
    PROVE  m \in l
<1> DEFINE h == host[m]
<1>1. m \in KnownAt(n, h)
  BY DEF KnownAt
<1>2. CASE h \in Loopback
  BY <1>1, <1>2 DEF Gossip
<1>3. CASE h \notin Loopback
  <2>1. Cardinality({k \in Nodes : host[k] = h}) <= MaxPeersPerHost
    BY <1>3 DEF Peaceful, Roomy
  <2>2. KnownAt(n, h) \subseteq {k \in Nodes : host[k] = h}
    BY DEF KnownAt
  <2>3. IsFiniteSet({k \in Nodes : host[k] = h})
    BY NodesFinite, FS_Subset
  <2>4. /\ Cardinality(KnownAt(n, h)) <= Cardinality({k \in Nodes : host[k] = h})
        /\ Cardinality({k \in Nodes : host[k] = h}) \in Nat /\ Cardinality(KnownAt(n, h)) \in Nat
    BY <2>2, <2>3, KnownFinite, FS_Subset, FS_CardinalityType
  <2>5. Cardinality(KnownAt(n, h)) <= MaxPeersPerHost
    BY <2>1, <2>4, JoiningAssumption
  <2>6. QED  BY <1>1, <2>5 DEF Gossip
<1>4. QED  BY <1>2, <1>3

(* What is left to happen as long as nothing fails. *)
LEMMA QuietNext ==
    ASSUME Peaceful, [Next]_vars, faults' = 0
    PROVE  \/ \E n, m \in Nodes : Dials(n, m)
           \/ /\ UNCHANGED link
              /\ \A c, k : Other(c, k)' = Other(c, k)
              /\ \/ \E c \in Conns, n \in Nodes : Admit(c, n) \/ Record(c, n) \/ Announce(c, n)
                 \/ UNCHANGED vars
<1>1. ASSUME NEW n \in Nodes, Start(n) \/ Stop(n) \/ CleanupStalePeers(n)
      PROVE  FALSE
  <2>1. CASE Start(n)
    BY <2>1 DEF Start, Peaceful, Calm
  <2>2. CASE Stop(n)
    BY <2>2 DEF Stop, Peaceful
  <2>3. CASE CleanupStalePeers(n)
    <3>1. \E m \in Nodes : rows[n][m] = "old"
      BY <2>3 DEF CleanupStalePeers
    <3>2. QED  BY <3>1 DEF Peaceful, Calm, Core, Recorded
  <2>4. QED  BY <1>1, <2>1, <2>2, <2>3
<1>2. ASSUME (\E n, m \in Nodes : GrowOld(n, m)) \/ (\E c \in Conns : Break(c))
      PROVE  FALSE
  BY <1>2 DEF GrowOld, Break, Peaceful
<1>3. ASSUME NEW c \in Conns, NEW n \in Nodes, Refuse(c, n)
      PROVE  FALSE
  BY <1>3, Welcome DEF Refuse
<1>4. ASSUME NEW c \in Conns, NEW n \in Nodes, Disconnect(c, n) \/ ListLost(c, n)
      PROVE  FALSE
  BY <1>4 DEF Disconnect, ListLost, Peaceful, Calm
<1>5. ASSUME NEW c \in Conns, NEW n \in Nodes, GiveUp(c, n)
      PROVE  FALSE
  <2>1. stage[c][n] = "up" /\ peers[n][Other(c, n)] = None
    BY <1>5 DEF GiveUp, Peaceful, ToldOnce, OnceAt
  <2>2. QED  BY <2>1 DEF Peaceful, Calm
<1>6. QED  BY <1>1, <1>2, <1>3, <1>4, <1>5, NextIs

(* Whoever is told of a node dials it, unless they are connected. *)
LEMMA DialsAll ==
    ASSUME Peaceful, Cardinality(Nodes) <= MaxAttempts + 1,
           NEW c \in Conns, NEW n \in Nodes, NEW m \in Nodes, Discover(c, n, m)
    PROVE  \E d \in Conns : link'[d] = {n, m}
<1>1. /\ m \in list[c][n] /\ list[c][n] \subseteq Nodes /\ n # m
      /\ tries[c][n] + Cardinality(list[c][n]) < Cardinality(Nodes) /\ tries[c][n] \in Nat
  <2>1. m \in list[c][n] /\ n \notin list[c][n]
    BY DEF Discover, Peaceful, Core, Errands
  <2>2. tries[c][n] + Cardinality(list[c][n]) < Cardinality(Nodes)
    BY DEF Peaceful, ToldOnce, OnceAt
  <2>3. tries[c][n] \in Nat /\ list[c][n] \subseteq Nodes
    BY DEF Peaceful, Core, TypeOK
  <2>4. QED  BY <2>1, <2>2, <2>3
<1>2. tries[c][n] < MaxAttempts
  <2>1. {} \in SUBSET (list[c][n] \ {m}) /\ IsFiniteSet(list[c][n])
    BY <1>1, NodesFinite, FS_Subset
  <2>2. Cardinality({}) < Cardinality(list[c][n]) /\ Cardinality(list[c][n]) \in Nat
    BY <1>1, <2>1, OneLess
  <2>3. Cardinality({}) = 0
    BY FS_EmptySet
  <2>4. QED  BY <1>1, <2>2, <2>3, NodesFinite, JoiningAssumption
<1>3. CASE peers[n][m] = None
  <2>1. Dial(n, m) /\ m \in running
    BY <1>2, <1>3 DEF Discover, Peaceful, Calm
  <2>2. PICK x \in Conns : link' = [link EXCEPT ![x] = {n, m}]
    BY <1>1, <2>1, Dialled DEF Peaceful, Core
  <2>3. link'[x] = {n, m}
    BY <2>2 DEF Peaceful, Core, TypeOK
  <2>4. QED  BY <2>3
<1>4. CASE peers[n][m] # None
  <2>1. PICK d \in Conns : peers[n][m] = d
    BY <1>4 DEF Peaceful, Core, TypeOK
  <2>2. link[d] = {n, m}
    BY <2>1 DEF Peaceful, Core, Entries
  <2>3. UNCHANGED link
    BY <1>4 DEF Discover
  <2>4. QED  BY <2>2, <2>3
<1>5. QED  BY <1>3, <1>4

LEMMA CalmStep ==
    ASSUME Peaceful, [Next]_vars, faults' = 0
    PROVE  Calm'
<1>1. stage \in [Conns -> [Nodes -> Stages]] /\ peers \in [Nodes -> [Nodes -> Conns \cup {None}]]
      /\ rows \in [Nodes -> [Nodes -> {"none", "recent", "old"}]]
  BY DEF Peaceful, Core, TypeOK
<1>2. ASSUME NEW n \in Nodes, NEW m \in Nodes, Dials(n, m)
      PROVE  Calm'
  <2>1. UNCHANGED <<closed, aged, running, peers, rows>>
    BY <1>2, Connecting DEF Peaceful
  <2>2. CASE UNCHANGED <<link, stage>>
    BY <2>1, <2>2 DEF Peaceful, Calm, Other
  <2>3. CASE ~UNCHANGED <<link, stage>>
    <3>1. PICK x \in Conns : Opened(x, n, m)
      BY <1>2, <2>3, Connecting DEF Peaceful
    <3>2. /\ \A k \in Nodes : stage'[x][k] \notin {"up", "gone"}
          /\ \A d \in Conns : d # x => link'[d] = link[d] /\ stage'[d] = stage[d]
      BY <3>1, Fresh DEF Peaceful
    <3>3. ASSUME NEW d \in Conns, NEW k \in Nodes
          PROVE  /\ stage'[d][k] # "gone"
                 /\ stage'[d][k] = "up" => peers[k][Other(d, k)'] # None
      <4>1. CASE d = x
        BY <3>2, <4>1
      <4>2. CASE d # x
        BY <3>2, <4>2 DEF Peaceful, Calm, Other
      <4>3. QED  BY <4>1, <4>2
    <3>4. QED  BY <2>1, <3>3 DEF Peaceful, Calm
  <2>4. QED  BY <2>2, <2>3
<1>3. ASSUME NEW c \in Conns, NEW n \in Nodes, Admit(c, n), \A d, k : Other(d, k)' = Other(d, k)
      PROVE  Calm'
  <2>1. /\ UNCHANGED <<closed, aged, running, peers, rows>>
        /\ \A d \in Conns, k \in Nodes :
             stage'[d][k] = IF d = c /\ k = n THEN "admitted" ELSE stage[d][k]
    BY <1>1, <1>3 DEF Admit
  <2>2. QED  BY <1>3, <2>1 DEF Peaceful, Calm
<1>4. ASSUME NEW c \in Conns, NEW n \in Nodes, Record(c, n), \A d, k : Other(d, k)' = Other(d, k)
      PROVE  Calm'
  <2>1. PICK m \in Nodes : m = Other(c, n)
    BY <1>4, EndsOf DEF Record, Peaceful
  <2>2. None \notin Conns
    BY JoiningAssumption DEF Conns
  <2>3. /\ UNCHANGED <<closed, aged, running>>
        /\ \A d \in Conns, k \in Nodes :
             stage'[d][k] = IF d = c /\ k = n THEN "up" ELSE stage[d][k]
        /\ \A k, i \in Nodes : peers'[k][i] = IF k = n /\ i = m THEN c ELSE peers[k][i]
        /\ \A k, i \in Nodes : rows'[k][i] = IF k = n /\ i = m THEN "recent" ELSE rows[k][i]
    BY <1>1, <1>4, <2>1 DEF Record
  <2>4. ASSUME NEW d \in Conns, NEW k \in Nodes
        PROVE  /\ stage'[d][k] # "gone"
               /\ stage'[d][k] = "up" => peers'[k][Other(d, k)'] # None
    <3>1. CASE d = c /\ k = n
      BY <1>4, <2>1, <2>2, <2>3, <3>1
    <3>2. CASE ~(d = c /\ k = n)
      <4>1. stage'[d][k] = stage[d][k] /\ stage[d][k] # "gone"
        BY <2>3, <3>2 DEF Peaceful, Calm
      <4>2. ASSUME stage[d][k] = "up"
            PROVE  peers'[k][Other(d, k)'] # None
        <5>1. Other(d, k) \in Nodes
          BY <4>2, EndsOf DEF Peaceful
        <5>2. peers[k][Other(d, k)] # None
          BY <4>2 DEF Peaceful, Calm
        <5>3. QED  BY <1>4, <2>2, <2>3, <5>1, <5>2
      <4>3. QED  BY <4>1, <4>2
    <3>3. QED  BY <3>1, <3>2
  <2>5. \A k, i \in Nodes : rows'[k][i] = "recent" => peers'[k][i] # None
    BY <2>2, <2>3 DEF Peaceful, Calm
  <2>6. QED  BY <2>3, <2>4, <2>5 DEF Peaceful, Calm
<1>5. ASSUME NEW c \in Conns, NEW n \in Nodes, Announce(c, n), \A d, k : Other(d, k)' = Other(d, k)
      PROVE  Calm'
  BY <1>5 DEF Announce, Peaceful, Calm
<1>6. CASE UNCHANGED vars
  BY <1>6 DEF vars, Peaceful, Calm, Other
<1>7. QED  BY <1>2, <1>3, <1>4, <1>5, <1>6, QuietNext

(* A dial takes an entry off a list, and the others keep their place. *)
LEMMA ToldDial ==
    ASSUME Peaceful, NEW n \in Nodes, NEW m \in Nodes, Dials(n, m),
           \A d \in Conns, k \in Nodes :
             \/ tries'[d][k] = tries[d][k] /\ list'[d][k] = list[d][k]
             \/ list[d][k] # {} /\ tries'[d][k] + Cardinality(list'[d][k]) < Cardinality(Nodes)
    PROVE  ToldOnce'
<1> SUFFICES ASSUME NEW d \in Conns, NEW k \in Nodes
             PROVE  OnceAt(d, k)'
  BY DEF ToldOnce
<1>1. owed' = owed /\ OnceAt(d, k)
  BY Connecting DEF Peaceful, ToldOnce
<1>2. \/ link'[d] = link[d] /\ stage'[d] = stage[d]
      \/ link[d] = {} /\ link'[d] # {}
  <2>1. CASE UNCHANGED <<link, stage>>
    BY <2>1
  <2>2. CASE ~UNCHANGED <<link, stage>>
    <3>1. PICK x \in Conns : Opened(x, n, m)
      BY <2>2, Connecting DEF Peaceful
    <3>2. /\ link'[x] = {n, m}
          /\ d # x => link'[d] = link[d] /\ stage'[d] = stage[d]
      BY <3>1, Fresh DEF Peaceful
    <3>3. link[x] = {}
      BY <3>1 DEF Opened
    <3>4. QED  BY <3>2, <3>3
  <2>3. QED  BY <2>1, <2>2
<1>3. Untold(d, k) => Untold(d, k)'
  BY DEF Untold
<1>4. tries'[d][k] + Cardinality(list'[d][k]) < Cardinality(Nodes)
  BY <1>1 DEF OnceAt
<1>5. link'[d] = {} => Untold(d, k)'
  BY <1>1, <1>2, <1>3 DEF OnceAt
<1>6. k \in link'[d] /\ stage'[d][Other(d, k)'] \in {"new", "admitted"} => Untold(d, k)'
  BY <1>1, <1>2, <1>3 DEF OnceAt, Other
<1>7. ASSUME <<d, k>> \in owed
      PROVE  /\ stage'[d][k] = "up"
             /\ tries'[d][Other(d, k)'] = 0 /\ list'[d][Other(d, k)'] = {}
  <2>1. k \in link[d]
    BY <1>7 DEF Peaceful, Core, Errands
  <2>2. PICK i \in Nodes : i = Other(d, k)
    BY <2>1, OtherOf DEF Peaceful, Core
  <2>3. link'[d] = link[d] /\ stage'[d] = stage[d] /\ Other(d, k)' = i
    BY <1>2, <2>1, <2>2 DEF Other
  <2>4. stage[d][k] = "up" /\ tries[d][i] = 0 /\ list[d][i] = {}
    BY <1>1, <1>7, <2>2 DEF OnceAt, Untold
  <2>5. QED  BY <2>3, <2>4
<1>8. QED  BY <1>1, <1>4, <1>5, <1>6, <1>7 DEF OnceAt, Untold

LEMMA ToldOnceStep ==
    ASSUME Peaceful, [Next]_vars, faults' = 0
    PROVE  ToldOnce'
<1>1. /\ stage \in [Conns -> [Nodes -> Stages]] /\ tries \in [Conns -> [Nodes -> 0 .. MaxAttempts]]
      /\ list \in [Conns -> [Nodes -> SUBSET Nodes]]
      /\ \A d \in Conns, k \in Nodes : OnceAt(d, k)
  BY DEF Peaceful, Core, TypeOK, ToldOnce
<1>2. ASSUME NEW n \in Nodes, NEW m \in Nodes, Bootstrap(n, m)
      PROVE  ToldOnce'
  <2>1. Dials(n, m) /\ UNCHANGED <<tries, list>>
    BY <1>2 DEF Dials, Bootstrap
  <2>2. QED  BY <2>1, ToldDial
<1>3. ASSUME NEW c \in Conns, NEW n \in Nodes, NEW m \in Nodes, Discover(c, n, m)
      PROVE  ToldOnce'
  <2>1. Dials(n, m)
    BY <1>3 DEF Dials
  <2>2. /\ m \in list[c][n] /\ list[c][n] \subseteq Nodes
        /\ tries[c][n] + Cardinality(list[c][n]) < Cardinality(Nodes) /\ tries[c][n] \in Nat
    <3>1. m \in list[c][n]
      BY <1>3 DEF Discover
    <3>2. tries[c][n] + Cardinality(list[c][n]) < Cardinality(Nodes)
      BY <1>1 DEF OnceAt
    <3>3. tries[c][n] \in Nat /\ list[c][n] \subseteq Nodes
      BY <1>1
    <3>4. QED  BY <3>1, <3>2, <3>3
  <2>3. /\ Cardinality(list[c][n] \ {m}) < Cardinality(list[c][n])
        /\ Cardinality(list[c][n] \ {m}) \in Nat /\ Cardinality(list[c][n]) \in Nat
    <3>1. IsFiniteSet(list[c][n]) /\ list[c][n] \ {m} \in SUBSET (list[c][n] \ {m})
      BY <2>2, NodesFinite, FS_Subset
    <3>2. QED  BY <2>2, <3>1, OneLess
  <2>4. list'[c][n] = list[c][n] \ {m} /\ tries'[c][n] \in {tries[c][n], tries[c][n] + 1}
    BY <1>1, <1>3 DEF Discover
  <2>5. tries'[c][n] + Cardinality(list'[c][n]) < Cardinality(Nodes)
    <3>1. tries'[c][n] = tries[c][n] \/ tries'[c][n] = tries[c][n] + 1
      BY <2>4
    <3>2. Cardinality(list'[c][n]) = Cardinality(list[c][n] \ {m})
      BY <2>4
    <3>3. QED  BY <2>2, <2>3, <3>1, <3>2, NodesFinite
  <2>6. \A d \in Conns, k \in Nodes :
           ~(d = c /\ k = n) => tries'[d][k] = tries[d][k] /\ list'[d][k] = list[d][k]
    BY <1>1, <1>3 DEF Discover
  <2>7. \A d \in Conns, k \in Nodes :
             \/ tries'[d][k] = tries[d][k] /\ list'[d][k] = list[d][k]
             \/ list[d][k] # {} /\ tries'[d][k] + Cardinality(list'[d][k]) < Cardinality(Nodes)
    BY <2>2, <2>5, <2>6
  <2>8. QED  BY <2>1, <2>7, ToldDial
<1>4. ASSUME NEW c \in Conns, NEW n \in Nodes, Admit(c, n), \A d, k : Other(d, k)' = Other(d, k)
      PROVE  ToldOnce'
  <2> SUFFICES ASSUME NEW d \in Conns, NEW k \in Nodes
               PROVE  OnceAt(d, k)'
    BY DEF ToldOnce
  <2>1. /\ UNCHANGED <<link, owed, tries, list>> /\ stage[c][n] = "new"
        /\ \A e \in Conns, i \in Nodes :
             stage'[e][i] = IF e = c /\ i = n THEN "admitted" ELSE stage[e][i]
    BY <1>1, <1>4 DEF Admit
  <2>2. k \in link[d] => Other(d, k) \in Nodes
    BY OtherOf DEF Peaceful, Core
  <2>3. k \in link[d] /\ stage'[d][Other(d, k)] \in {"new", "admitted"}
           => stage[d][Other(d, k)] \in {"new", "admitted"}
    BY <2>1, <2>2
  <2>4. stage[d][k] = "up" => stage'[d][k] = "up"
    BY <2>1
  <2>5. QED  BY <1>1, <1>4, <2>1, <2>3, <2>4 DEF OnceAt, Untold
<1>5. ASSUME NEW c \in Conns, NEW n \in Nodes, Record(c, n), \A d, k : Other(d, k)' = Other(d, k)
      PROVE  ToldOnce'
  <2> SUFFICES ASSUME NEW d \in Conns, NEW k \in Nodes
               PROVE  OnceAt(d, k)'
    BY DEF ToldOnce
  <2>1. /\ UNCHANGED <<link, tries, list>> /\ owed' = owed \cup {<<c, n>>}
        /\ stage[c][n] = "admitted"
        /\ \A e \in Conns, i \in Nodes :
             stage'[e][i] = IF e = c /\ i = n THEN "up" ELSE stage[e][i]
    BY <1>1, <1>5 DEF Record
  <2>2. k \in link[d] => Other(d, k) \in Nodes
    BY OtherOf DEF Peaceful, Core
  <2>3. k \in link[d] /\ stage'[d][Other(d, k)] \in {"new", "admitted"}
           => stage[d][Other(d, k)] \in {"new", "admitted"}
    BY <2>1, <2>2
  <2>4. stage[d][k] = "up" => stage'[d][k] = "up"
    BY <2>1
  <2>5. ASSUME <<d, k>> \in owed'
        PROVE  stage'[d][k] = "up" /\ Untold(d, Other(d, k))
    <3>1. CASE <<d, k>> \in owed
      BY <1>1, <2>4, <3>1 DEF OnceAt
    <3>2. CASE d = c /\ k = n
      <4>1. PICK i \in Nodes : i = Other(c, n) /\ i \in link[c] /\ Other(c, i) = n
        BY <2>1, EndsOf DEF Peaceful
      <4>2. Untold(c, i)
        BY <1>1, <2>1, <4>1 DEF OnceAt
      <4>3. QED  BY <2>1, <3>2, <4>1, <4>2
    <3>3. QED  BY <2>1, <2>5, <3>1, <3>2
  <2>6. QED  BY <1>1, <1>5, <2>1, <2>3, <2>5 DEF OnceAt, Untold
<1>6. ASSUME NEW c \in Conns, NEW n \in Nodes, Announce(c, n), \A d, k : Other(d, k)' = Other(d, k)
      PROVE  ToldOnce'
  <2> SUFFICES ASSUME NEW d \in Conns, NEW k \in Nodes
               PROVE  OnceAt(d, k)'
    BY DEF ToldOnce
  <2>1. PICK p \in Nodes : /\ p = Other(c, n) /\ p # n /\ link[c] = {n, p} /\ Other(c, p) = n
                           /\ stage[c][n] = "up" /\ tries[c][p] = 0
    <3>1. <<c, n>> \in owed
      BY <1>6 DEF Announce
    <3>2. stage[c][n] = "up" /\ tries[c][Other(c, n)] = 0
      BY <1>1, <3>1 DEF OnceAt, Untold
    <3>3. QED  BY <3>2, EndsOf DEF Peaceful
  <2>2. PICK l : list' = [list EXCEPT ![c][p] = l \ {p}] /\ l \subseteq Nodes
    BY <1>6, <2>1 DEF Announce, Peaceful, Calm, Gossip
  <2>3. /\ UNCHANGED <<link, stage, tries>> /\ owed' = owed \ {<<c, n>>}
    BY <1>6 DEF Announce
  <2>4. \A e \in Conns, i \in Nodes :
           list'[e][i] = IF e = c /\ i = p THEN l \ {p} ELSE list[e][i]
    BY <1>1, <2>2
  <2>5. tries'[d][k] + Cardinality(list'[d][k]) < Cardinality(Nodes)
    <3>1. CASE d = c /\ k = p
      <4>1. Cardinality(l \ {p}) < Cardinality(Nodes) /\ Cardinality(l \ {p}) \in Nat
        BY <2>2, NodesFinite, OneLess
      <4>2. tries'[d][k] = 0 /\ list'[d][k] = l \ {p}
        BY <2>1, <2>3, <2>4, <3>1
      <4>3. QED  BY <4>1, <4>2
    <3>2. CASE ~(d = c /\ k = p)
      BY <1>1, <2>3, <2>4, <3>2 DEF OnceAt
    <3>3. QED  BY <3>1, <3>2
  <2>6. ~(d = c /\ k = p) /\ Untold(d, k) => Untold(d, k)'
    BY <2>3, <2>4 DEF Untold
  <2>7. link'[d] = {} => Untold(d, k)'
    BY <1>1, <2>1, <2>3, <2>6 DEF OnceAt
  <2>8. k \in link'[d] /\ stage'[d][Other(d, k)'] \in {"new", "admitted"} => Untold(d, k)'
    <3>1. d = c /\ k = p => stage[d][Other(d, k)] = "up"
      BY <2>1
    <3>2. QED  BY <1>1, <1>6, <2>3, <2>6, <3>1 DEF OnceAt
  <2>9. ASSUME <<d, k>> \in owed'
        PROVE  /\ stage'[d][k] = "up"
               /\ tries'[d][Other(d, k)'] = 0 /\ list'[d][Other(d, k)'] = {}
    <3>1. <<d, k>> \in owed /\ ~(d = c /\ k = n)
      BY <2>3, <2>9
    <3>2. k \in link[d]
      BY <3>1 DEF Peaceful, Core, Errands
    <3>3. PICK i \in Nodes : i = Other(d, k)
      BY <3>2, OtherOf DEF Peaceful, Core
    <3>4. ~(d = c /\ i = p)
      BY <2>1, <3>1, <3>2, <3>3
    <3>5. stage[d][k] = "up" /\ tries[d][i] = 0 /\ list[d][i] = {}
      BY <1>1, <3>1, <3>3 DEF OnceAt, Untold
    <3>6. QED  BY <1>6, <2>3, <2>4, <3>3, <3>4, <3>5
  <2>10. QED  BY <2>5, <2>7, <2>8, <2>9 DEF OnceAt, Untold
<1>7. CASE UNCHANGED vars
  <2> SUFFICES ASSUME NEW d \in Conns, NEW k \in Nodes
               PROVE  OnceAt(d, k)'
    BY DEF ToldOnce
  <2>1. UNCHANGED <<link, stage, owed, tries, list>> /\ Other(d, k)' = Other(d, k)
    BY <1>7 DEF vars, Other
  <2>2. QED  BY <1>1, <2>1 DEF OnceAt, Untold
<1>8. QED  BY <1>2, <1>3, <1>4, <1>5, <1>6, <1>7, QuietNext DEF Dials

LEMMA AllToldStep ==
    ASSUME Peaceful, AllTold, [Next]_vars, faults' = 0, Cardinality(Nodes) <= MaxAttempts + 1
    PROVE  AllTold'
<1>0. ASSUME NEW l \in Nodes, NEW n \in Nodes, NEW m \in Nodes, n # m,
             peers[l][n] # None, peers[l][m] # None
      PROVE  Told(l, n, m) \/ Told(l, m, n)
  BY <1>0 DEF AllTold
<1>1. ASSUME NEW n \in Nodes, NEW m \in Nodes, Dials(n, m)
      PROVE  AllTold'
  <2>1. UNCHANGED <<peers, owed>>
    BY <1>1, Connecting DEF Peaceful
  <2>2. \A d \in Conns : link[d] # {} => link'[d] = link[d]
    <3>1. CASE UNCHANGED link
      BY <3>1
    <3>2. CASE ~UNCHANGED link
      <4>1. PICK x \in Conns : Opened(x, n, m)
        BY <1>1, <3>2, Connecting DEF Peaceful
      <4>2. QED  BY <4>1, Fresh DEF Peaceful, Opened
    <3>3. QED  BY <3>1, <3>2
  <2>3. \A c \in Conns, k, i \in Nodes :
           i \in list[c][k] => i \in list'[c][k] \/ \E d \in Conns : link'[d] = {k, i}
    <3>1. CASE Bootstrap(n, m)
      BY <3>1 DEF Bootstrap
    <3>2. CASE \E c \in Conns : Discover(c, n, m)
      <4>1. PICK c \in Conns : Discover(c, n, m)
        BY <3>2
      <4>2. \E d \in Conns : link'[d] = {n, m}
        BY <4>1, DialsAll
      <4>3. list' = [list EXCEPT ![c][n] = @ \ {m}]
        BY <4>1 DEF Discover
      <4>4. QED  BY <4>2, <4>3 DEF Peaceful, Core, TypeOK
    <3>3. QED  BY <1>1, <3>1, <3>2 DEF Dials
  <2>4. ASSUME NEW l \in Nodes, NEW k \in Nodes, NEW i \in Nodes, Told(l, k, i)
        PROVE  Told(l, k, i)'
    <3>1. CASE \E d \in Conns : link[d] = {k, i}
      <4>1. PICK d \in Conns : link[d] = {k, i}
        BY <3>1
      <4>2. link'[d] = {k, i}
        BY <2>2, <4>1
      <4>3. QED  BY <4>2 DEF Told
    <3>2. CASE \E c \in Conns : link[c] = {l, k} /\ (<<c, l>> \in owed \/ i \in list[c][k])
      <4>1. PICK c \in Conns : link[c] = {l, k} /\ (<<c, l>> \in owed \/ i \in list[c][k])
        BY <3>2
      <4>2. link'[c] = {l, k}
        BY <2>2, <4>1
      <4>3. QED  BY <2>1, <2>3, <4>1, <4>2 DEF Told
    <3>3. QED  BY <2>4, <3>1, <3>2 DEF Told
  <2>5. QED  BY <2>1, <2>4 DEF AllTold
<1>2. ASSUME NEW c \in Conns, NEW n \in Nodes, Record(c, n)
      PROVE  AllTold'
  <2>1. PICK p \in Nodes : p = Other(c, n) /\ link[c] = {n, p} /\ link[c] = {p, n}
    BY <1>2, EndsOf DEF Record, Peaceful
  <2>2. /\ UNCHANGED <<link, list>> /\ owed' = owed \cup {<<c, n>>}
        /\ peers' = [peers EXCEPT ![n][p] = c]
    BY <1>2, <2>1 DEF Record
  <2>3. \A l, k, i \in Nodes : Told(l, k, i) => Told(l, k, i)'
    BY <2>2 DEF Told
  <2>4. \A i \in Nodes : Told(n, p, i)'
    BY <2>1, <2>2 DEF Told
  <2>5. \A l, k \in Nodes : ~(l = n /\ k = p) => peers'[l][k] = peers[l][k]
    BY <2>2 DEF Peaceful, Core, TypeOK
  <2>6. ASSUME NEW l \in Nodes, NEW k \in Nodes, NEW i \in Nodes, k # i,
               peers'[l][k] # None, peers'[l][i] # None
        PROVE  Told(l, k, i)' \/ Told(l, i, k)'
    <3>1. CASE l = n /\ (k = p \/ i = p)
      BY <2>4, <3>1
    <3>2. CASE ~(l = n /\ (k = p \/ i = p))
      <4>1. peers[l][k] # None /\ peers[l][i] # None
        BY <2>5, <2>6, <3>2
      <4>2. QED  BY <1>0, <2>3, <2>6, <4>1
    <3>3. QED  BY <3>1, <3>2
  <2>7. QED  BY <2>6 DEF AllTold
<1>3. ASSUME NEW c \in Conns, NEW n \in Nodes, Announce(c, n)
      PROVE  AllTold'
  <2>0. n \in link[c] /\ OnceAt(c, n) /\ <<c, n>> \in owed
    BY <1>3 DEF Announce, Peaceful, Core, Errands, ToldOnce
  <2>1. PICK p \in Nodes : p = Other(c, n) /\ p # n /\ link[c] = {n, p} /\ list[c][p] = {}
    BY <2>0, OtherOf DEF Peaceful, Core, OnceAt, Untold
  <2>2. PICK h \in Gossip(n) : list' = [list EXCEPT ![c][p] = h \ {p}]
    BY <1>3, <2>1 DEF Announce, Peaceful, Calm
  <2>3. /\ UNCHANGED <<link, peers>> /\ owed' = owed \ {<<c, n>>}
    BY <1>3 DEF Announce
  <2>4. \A d \in Conns, k \in Nodes :
           list'[d][k] = IF d = c /\ k = p THEN h \ {p} ELSE list[d][k]
    BY <2>2 DEF Peaceful, Core, TypeOK
  <2>5. ASSUME NEW i \in Nodes, i # p, peers[n][i] # None
        PROVE  i \in list'[c][p]
    <3>1. PICK e \in Conns : peers[n][i] = e
      BY <2>5 DEF Peaceful, Core, TypeOK
    <3>2. link[e] = {n, i} /\ n # i /\ stage[e][n] = "up"
      BY <3>1 DEF Peaceful, Core, Entries
    <3>3. Other(e, n) = i
      <4>1. n \in link[e]
        BY <3>2
      <4>2. Other(e, n) # n /\ link[e] = {n, Other(e, n)}
        BY <4>1, OtherOf DEF Peaceful, Core
      <4>3. QED  BY <3>2, <4>2
    <3>4. rows[n][i] = "recent"
      BY <3>2, <3>3 DEF Peaceful, Calm, Core, Recorded
    <3>5. i \in h
      BY <3>4, Everybody
    <3>6. QED  BY <2>4, <2>5, <3>5
  <2>6. ASSUME NEW l \in Nodes, NEW k \in Nodes, NEW i \in Nodes, k # i, l # k,
               peers[l][i] # None, Told(l, k, i)
        PROVE  Told(l, k, i)'
    <3>1. CASE \E d \in Conns : link[d] = {k, i}
      BY <2>3, <3>1 DEF Told
    <3>2. CASE \E d \in Conns : link[d] = {l, k} /\ (<<d, l>> \in owed \/ i \in list[d][k])
      <4>1. PICK d \in Conns : link[d] = {l, k} /\ (<<d, l>> \in owed \/ i \in list[d][k])
        BY <3>2
      <4>2. <<d, l>> \in owed' \/ i \in list'[d][k]
        <5>1. CASE i \in list[d][k]
          BY <2>1, <2>4, <5>1
        <5>2. CASE <<d, l>> \in owed /\ ~(d = c /\ l = n)
          BY <2>3, <5>2
        <5>3. CASE d = c /\ l = n
          <6>1. k = p
            BY <2>1, <2>6, <4>1, <5>3
          <6>2. QED  BY <2>5, <2>6, <5>3, <6>1
        <5>4. QED  BY <4>1, <5>1, <5>2, <5>3
      <4>3. link'[d] = {l, k}
        BY <2>3, <4>1
      <4>4. QED  BY <4>2, <4>3 DEF Told
    <3>3. QED  BY <2>6, <3>1, <3>2 DEF Told
  <2>7. ASSUME NEW l \in Nodes, NEW k \in Nodes, peers[l][k] # None
        PROVE  l # k
    BY <2>7 DEF Peaceful, Core, TypeOK, Entries
  <2>8. ASSUME NEW l \in Nodes, NEW k \in Nodes, NEW i \in Nodes, k # i,
               peers'[l][k] # None, peers'[l][i] # None
        PROVE  Told(l, k, i)' \/ Told(l, i, k)'
    BY <1>0, <2>3, <2>6, <2>7, <2>8
  <2>9. QED  BY <2>8 DEF AllTold
<1>4. ASSUME UNCHANGED <<link, peers, owed, list>>
      PROVE  AllTold'
  <2>1. \A l, n, m : Told(l, n, m)' <=> Told(l, n, m)
    BY <1>4 DEF Told
  <2>2. QED  BY <1>0, <1>4, <2>1 DEF AllTold
<1>5. ASSUME (\E c \in Conns, n \in Nodes : Admit(c, n)) \/ UNCHANGED vars
      PROVE  UNCHANGED <<link, peers, owed, list>>
  BY <1>5 DEF Admit, vars
<1>6. QED  BY <1>1, <1>2, <1>3, <1>4, <1>5, QuietNext

LEMMA MeetingInit == Init => Meeting
<1> SUFFICES ASSUME Init
             PROVE  Calm /\ ToldOnce /\ AllTold
  BY DEF Meeting
<1>1. /\ closed = {} /\ ~aged /\ running = Nodes /\ owed = {}
      /\ \A c \in Conns, n \in Nodes :
           /\ stage[c][n] = "none" /\ tries[c][n] = 0 /\ list[c][n] = {}
      /\ \A n, m \in Nodes : peers[n][m] = None /\ rows[n][m] = "none"
  BY DEF Init, Each
<1>2. Calm /\ AllTold
  BY <1>1 DEF Calm, AllTold
<1>3. ASSUME NEW n \in Nodes
      PROVE  0 + Cardinality({}) < Cardinality(Nodes)
  <2>1. Cardinality({}) < Cardinality(Nodes) /\ Cardinality({}) \in Nat
    BY NodesFinite, OneLess
  <2>2. QED  BY <2>1
<1>4. ToldOnce
  BY <1>1, <1>3 DEF ToldOnce, OnceAt, Untold
<1>5. QED  BY <1>2, <1>4

LEMMA MeetingStep ==
    ASSUME Core, Meeting, [Next]_vars, Cardinality(Nodes) <= MaxAttempts + 1
    PROVE  Meeting'
<1> SUFFICES ASSUME faults' = 0, Roomy'
             PROVE  Calm' /\ ToldOnce' /\ AllTold'
  BY DEF Meeting
<1>1. Roomy
  BY Noted DEF Roomy
<1>2. faults = 0
  <2>1. faults \in Nat
    BY DEF Core, TypeOK
  <2>2. ASSUME NEW n \in Nodes, NEW m \in Nodes, Dials(n, m)
        PROVE  UNCHANGED faults
    BY <2>2, Connecting
  <2>3. ASSUME NEW c \in Conns, NEW n \in Nodes, Admit(c, n) \/ Refuse(c, n) \/ Record(c, n)
               \/ Disconnect(c, n) \/ Announce(c, n) \/ GiveUp(c, n) \/ ListLost(c, n)
        PROVE  UNCHANGED faults
    BY <2>3 DEF Admit, Refuse, Record, Disconnect, Announce, GiveUp, ListLost
  <2>4. ASSUME (\E n \in Nodes : Start(n) \/ CleanupStalePeers(n)) \/ UNCHANGED vars
        PROVE  UNCHANGED faults
    BY <2>4 DEF Start, CleanupStalePeers, vars
  <2>5. ASSUME (\E n \in Nodes : Stop(n)) \/ (\E n, m \in Nodes : GrowOld(n, m))
               \/ (\E c \in Conns : Break(c))
        PROVE  faults' = faults + 1
    BY <2>5 DEF Stop, GrowOld, Break
  <2>6. faults' = faults \/ faults' = faults + 1
    BY <2>2, <2>3, <2>4, <2>5, NextIs
  <2>7. QED  BY <2>1, <2>6
<1>3. Peaceful /\ AllTold
  BY <1>1, <1>2 DEF Peaceful, Meeting
<1>4. QED  BY <1>3, CalmStep, ToldOnceStep, AllToldStep

(* For any number of nodes that a list of peers may name (discoverPeers    *)
(* dials at most MaxAttempts, ten in the code, so eleven nodes): nodes     *)
(* that are joined to a common peer are joined to each other once the      *)
(* network has come to rest and nothing has failed meanwhile, in whatever  *)
(* order they arrived (server.go:1378-1382, OnPeer records before it       *)
(* announces).                                                             *)
THEOREM NodesMeet ==
    ASSUME Cardinality(Nodes) <= MaxAttempts + 1
    PROVE  Spec => []EveryoneMeets
<1>1. Core /\ Meeting => EveryoneMeets
  <2> SUFFICES ASSUME Core, Meeting, AtRest, Roomy, faults = 0,
                      NEW n \in Nodes, NEW m \in Nodes, NEW l \in Nodes,
                      n # m, Joined(l, n), Joined(l, m)
               PROVE  Joined(n, m)
    BY DEF EveryoneMeets
  <2>1. Calm /\ AllTold
    BY DEF Meeting
  <2>2. Told(l, n, m) \/ Told(l, m, n)
    BY <2>1 DEF AllTold, Joined
  <2>3. PICK d \in Conns : link[d] = {n, m}
    <3>1. {m, n} = {n, m}
      OBVIOUS
    <3>2. QED  BY <2>2, <3>1 DEF Told, AtRest
  <2>4. n \in link[d] /\ m \in link[d] /\ d \notin closed
    BY <2>1, <2>3 DEF Calm
  <2>5. stage[d][n] \in Alive /\ stage[d][m] \in Alive
    BY <2>4 DEF Core, Ends
  <2>6. stage[d][n] = "up" /\ stage[d][m] = "up"
    BY <2>5 DEF AtRest, Alive
  <2>7. Other(d, n) = m /\ Other(d, m) = n
    BY <2>3, OtherIs
  <2>8. QED  BY <2>1, <2>6, <2>7 DEF Calm, Joined
<1>2. Core /\ Meeting /\ [Next]_vars => (Core /\ Meeting)'
  BY CoreStep, MeetingStep
<1>3. QED  BY CoreInit, MeetingInit, <1>1, <1>2, PTL DEF Spec
=============================================================================
