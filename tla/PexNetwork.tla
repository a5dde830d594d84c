----------------------------- MODULE PexNetwork -----------------------------
(***************************************************************************)
(* Peer exchange (network/src/pex.rs, network/src/pex_wire.rs): nodes that *)
(* each keep a PexManager and send one another the peers they know.        *)
(*                                                                         *)
(* The manager's methods are translated from the source; when they are     *)
(* called is up to the node that embeds it, and modelled as the methods'   *)
(* comments describe: exchanges go to connected peers, when should_send    *)
(* says so.  Instants are modelled by their age, capped where it no longer *)
(* matters.                                                                *)
(***************************************************************************)
EXTENDS Topology, Naturals, FiniteSets

CONSTANTS
  Never,       \* no entry in last_sent
  Interval,    \* interval between exchanges
  MaxShare,    \* max_share
  MaxAge,      \* max_age given to cleanup_stale_peers
  MaxInFlight, \* bound on the exchanges on their way at a time
  MaxRemovals, \* bound on the calls of remove_peer by the host
  MaxCleanups, \* bound on the calls of cleanup_stale_peers
  MaxLosses    \* bound on the messages that are lost or do not decode

AgeCap == (IF Interval > MaxAge THEN Interval ELSE MaxAge) + 1
Ages == 0..AgeCap \cup {Never}

ASSUME PexAssumption ==
  /\ MaxInFlight \in Nat
  /\ Interval \in Nat /\ MaxAge \in Nat /\ MaxShare \in Nat
  /\ MaxRemovals \in Nat /\ MaxCleanups \in Nat /\ MaxLosses \in Nat
  /\ Never \notin Nat

VARIABLES
  known_peers,  \* node -> the peers it has addresses of
  last_sent,    \* link -> age of the last exchange sent over it
  network,      \* exchanges on their way
  removals, cleanups, losses

vars == <<known_peers, last_sent, network, removals, cleanups, losses>>

Messages == [from : Nodes, to : Nodes, peers : SUBSET Nodes]

Init ==
  /\ known_peers = [n \in Nodes |-> {}]
  /\ last_sent = [l \in Links |-> Never]
  /\ network = {}
  /\ removals = 0 /\ cleanups = 0 /\ losses = 0

-----------------------------------------------------------------------------
\* A connection to m brings its addresses; without any, add_peer returns.
AddPeer(n, m, addressed) ==
  /\ <<n, m>> \in Links
  /\ known_peers' = [known_peers EXCEPT ![n] = IF addressed THEN @ \cup {m} ELSE @]
  /\ UNCHANGED <<last_sent, network, removals, cleanups, losses>>

\* What remove_peer does for the peers in R.
ForgetPeers(n, R) ==
  /\ known_peers' = [known_peers EXCEPT ![n] = @ \ R]
  /\ last_sent' = [l \in Links |-> IF l[1] = n /\ l[2] \in R THEN Never ELSE last_sent[l]]

RemovePeer(n, m) ==
  /\ removals < MaxRemovals
  /\ removals' = removals + 1
  /\ ForgetPeers(n, {m})
  /\ UNCHANGED <<network, cleanups, losses>>

\* Faulty variant of PeersToShare: the receiver is not left out.
PeersToShare_All(n, exclude) ==
  {S \in SUBSET known_peers[n] : Cardinality(S) <= MaxShare}

\* The first max_share entries of a hash map are any of its entries.
PeersToShare(n, exclude) ==
  LET others == known_peers[n] \ {exclude}
  IN  {S \in SUBSET others :
         Cardinality(S) = IF Cardinality(others) < MaxShare
                          THEN Cardinality(others) ELSE MaxShare}

ShouldSend(n, m) ==
  last_sent[<<n, m>>] # Never => last_sent[<<n, m>>] >= Interval

SendPex(n, m) ==
  /\ <<n, m>> \in Links
  /\ m \in known_peers[n]
  /\ ShouldSend(n, m)
  /\ Cardinality(network) < MaxInFlight
  /\ \E S \in PeersToShare(n, m) :
       network' = network \cup {[from |-> n, to |-> m, peers |-> S]}
  /\ last_sent' = [last_sent EXCEPT ![<<n, m>>] = 0]
  /\ UNCHANGED <<known_peers, removals, cleanups, losses>>

\* Faulty variant of ReceivePex: the peers are returned to the host, not kept.
ReceivePex_Forget(msg) ==
  /\ msg \in network
  /\ network' = network \ {msg}
  /\ UNCHANGED <<known_peers, last_sent, removals, cleanups, losses>>

\* receive_pex adds every peer; the list of new ones goes to the host.
ReceivePex(msg) ==
  /\ msg \in network
  /\ network' = network \ {msg}
  /\ known_peers' = [known_peers EXCEPT ![msg.to] = @ \cup msg.peers]
  /\ UNCHANGED <<last_sent, removals, cleanups, losses>>

\* A stream is reset, or one entry does not decode: to_peers fails as a whole.
LosePex(msg) ==
  /\ msg \in network
  /\ losses < MaxLosses
  /\ losses' = losses + 1
  /\ network' = network \ {msg}
  /\ UNCHANGED <<known_peers, last_sent, removals, cleanups>>

StalePeers(n) ==
  {m \in Nodes : /\ <<n, m>> \in Links
                 /\ last_sent[<<n, m>>] # Never
                 /\ last_sent[<<n, m>>] > MaxAge}

CleanupStalePeers(n) ==
  /\ cleanups < MaxCleanups
  /\ cleanups' = cleanups + 1
  /\ ForgetPeers(n, StalePeers(n))
  /\ UNCHANGED <<network, removals, losses>>

Older(age) == IF age = Never \/ age = AgeCap THEN age ELSE age + 1

Tick ==
  /\ last_sent' = [l \in Links |-> Older(last_sent[l])]
  /\ UNCHANGED <<known_peers, network, removals, cleanups, losses>>

Next ==
  \/ \E l \in Links : SendPex(l[1], l[2])
  \/ \E l \in Links : \E addressed \in BOOLEAN : AddPeer(l[1], l[2], addressed)
  \/ \E l \in Links : RemovePeer(l[1], l[2])
  \/ \E msg \in network : ReceivePex(msg) \/ LosePex(msg)
  \/ \E n \in Nodes : CleanupStalePeers(n)
  \/ Tick

Spec == Init /\ [][Next]_vars

ReceiveOver(l) ==
  \E msg \in network : <<msg.from, msg.to>> = l /\ ReceivePex(msg)

(***************************************************************************)
(* Linked nodes keep connecting and exchanging, every link delivers and    *)
(* time passes.  Removals, clean-ups and losses are not fair.              *)
(***************************************************************************)
FairSpec ==
  /\ Spec
  /\ \A l \in Links :
       /\ WF_vars(AddPeer(l[1], l[2], TRUE))
       /\ SF_vars(SendPex(l[1], l[2]))
       /\ WF_vars(ReceiveOver(l))
  /\ WF_vars(Tick)

-----------------------------------------------------------------------------
\* Every variable keeps its type.
TypeOK ==
  /\ known_peers \in [Nodes -> SUBSET Nodes]
  /\ last_sent \in [Links -> Ages]
  /\ network \subseteq Messages
  /\ removals \in Nat /\ cleanups \in Nat /\ losses \in Nat

\* No node takes itself for a peer, though receive_pex checks nothing: the
\* sender leaves the receiver out of every exchange.
NeverItself == \A n \in Nodes : n \notin known_peers[n]

\* No exchange on its way names its receiver.
ReceiverLeftOut == \A msg \in network : msg.to \notin msg.peers

PexInv == TypeOK /\ NeverItself /\ ReceiverLeftOut

\* Nodes joined by links: m is reached from n.
Reaches(n, m) ==
  \E S \in SUBSET Nodes :
    /\ {n, m} \subseteq S
    /\ \A T \in SUBSET S :
         T # {} /\ T # S => \E l \in Links : l[1] \in T /\ l[2] \in S \ T

\* Every node learns of every node it is linked to through others, whatever
\* finitely many messages, peers and clean-ups take away, and does not lose
\* it again, provided an exchange can hold all peers.
Discovery ==
  MaxShare + 1 >= Cardinality(Nodes) =>
    \A n, m \in Nodes : n # m /\ Reaches(n, m) => <>[](m \in known_peers[n])
=============================================================================
