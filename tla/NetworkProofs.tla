---------------------------- MODULE NetworkProofs ----------------------------
(***************************************************************************)
(* Proofs about the network modules, for any nodes and connections: the    *)
(* DHTs of a swarm keep their records apart, a query finds what a peer     *)
(* holds for it all along, gossip gives a message to the application once  *)
(* (CraftSwarm); peer exchange never tells a node about itself             *)
(* (PexNetwork); frames written byte by byte arrive whole and in order:    *)
(* FrameStream implements FrameLink.                                       *)
(***************************************************************************)
EXTENDS CraftSwarm, PexNetwork, FrameStream, ArithmeticProofs, FiniteSetTheorems,
        SequenceTheorems, TLAPS

Records == [key : Keys, size : Nat, under : STRING]

Queries ==
  [state : {"asking", "ended"}, node : Nodes, dht : Dhts, key : Keys, todo : SUBSET Nodes,
   found : SUBSET Records, due : SUBSET Nodes]

DhtTypeOK ==
  /\ table \in [Nodes -> [Dhts -> SUBSET Nodes]]
  /\ store \in [Nodes -> [Dhts -> SUBSET Records]]
  /\ known \in [Nodes -> SUBSET Nodes]
  /\ query \in Queries \cup {NoQuery}

\* RecordsIsolated is inductive once tables name nodes and the query is of a
\* node: what travels comes from a DHT of the same protocol.
SwarmInv == DhtTypeOK /\ RecordsIsolated

\* A record in a store has the store's prefix.
StoresApart == \A n \in Nodes, k \in Dhts : \A r \in store[n][k] : r.under = PrefixOf(n, k)

\* A record the query found has the prefix of the DHT that asked.
QueryApart == query # NoQuery => \A r \in query.found : r.under = PrefixOf(query.node, query.dht)

\* StreamProtocol of build_full: DHTs that speak to each other have one prefix.
LEMMA SameProtocol ==
  ASSUME NEW n \in Nodes, NEW p \in Nodes, NEW k \in Dhts, NEW i \in Counterparts(n, k, p)
  PROVE  i \in Dhts /\ PrefixOf(p, i) = PrefixOf(n, k)
BY DEF Counterparts, Protocol

\* Both prefixes of a node are strings.
LEMMA PrefixString ==
  ASSUME NEW n \in Nodes, NEW k \in Dhts
  PROVE  PrefixOf(n, k) \in STRING
BY SwarmAssumption DEF PrefixOf, Dhts

\* NetworkConfig: a swarm that is built has the types.
LEMMA TableBuilt ==
  ASSUME NEW n \in Nodes
  PROVE  BuiltTable(n) \in [Dhts -> SUBSET Nodes]
BY SwarmAssumption DEF BuiltTable

\* A query with fewer peers to count on is still a query with what it found.
LEMMA QueryKept ==
  ASSUME DhtTypeOK, QueryApart, NEW p \in Nodes, query' = Without(p)
  PROVE  query' \in Queries \cup {NoQuery} /\ QueryApart'
<1>1. CASE query = NoQuery
  BY <1>1 DEF Without, QueryApart
<1>2. CASE query # NoQuery
  <2>1. query \in Queries
    BY <1>2 DEF DhtTypeOK
  <2>2. query' = [query EXCEPT !.due = @ \ {p}]
    BY <1>2 DEF Without
  <2>3. query' \in Queries
    BY <2>1, <2>2 DEF Queries
  <2>4. query'.found = query.found /\ query'.node = query.node /\ query'.dht = query.dht
    BY <2>1, <2>2 DEF Queries
  <2> QED
    BY <1>2, <2>3, <2>4 DEF QueryApart, PrefixOf
<1> QED
  BY <1>1, <1>2

\* The record store of libp2p: a record of the right prefix keeps stores apart.
LEMMA StoredKept ==
  ASSUME SwarmInv, NEW n \in Nodes, NEW k \in Dhts, NEW r \in Records,
         r.under = PrefixOf(n, k), Stored(n, k, r), UNCHANGED <<table, known>>
  PROVE  SwarmInv'
<1> USE DEF SwarmInv
<1>1. store' = [store EXCEPT ![n][k] = OfOtherKeys(@, r.key) \cup {r}]
  BY DEF Stored
<1>2. store' \in [Nodes -> [Dhts -> SUBSET Records]]
  BY <1>1 DEF DhtTypeOK, OfOtherKeys
<1>3. StoresApart'
  <2> SUFFICES ASSUME NEW m \in Nodes, NEW i \in Dhts, NEW s \in store'[m][i]
               PROVE  s.under = PrefixOf(m, i)
    BY DEF StoresApart, PrefixOf
  <2>1. (s = r /\ m = n /\ i = k) \/ s \in store[m][i]
    BY <1>1 DEF DhtTypeOK, OfOtherKeys
  <2> QED
    BY <2>1 DEF RecordsIsolated
<1>4. query' = query \/ query' = Without(n)
  BY DEF Stored
<1>5. query' \in Queries \cup {NoQuery} /\ QueryApart'
  BY <1>4, QueryKept DEF RecordsIsolated, QueryApart, DhtTypeOK, PrefixOf
<1> QED
  BY <1>2, <1>3, <1>5 DEF DhtTypeOK, RecordsIsolated, StoresApart, QueryApart, PrefixOf

\* build_swarm starts with empty stores.
LEMMA SwarmInvInit == SwarmInit => SwarmInv
<1> SUFFICES ASSUME SwarmInit PROVE SwarmInv
  OBVIOUS
<1>1. table \in [Nodes -> [Dhts -> SUBSET Nodes]]
  BY TableBuilt DEF SwarmInit, DhtInit
<1>2. store = [n \in Nodes |-> [k \in Dhts |-> {}]] /\ known = BootstrapPeers /\ query = NoQuery
  BY DEF SwarmInit, DhtInit
<1> QED
  BY <1>1, <1>2, SwarmAssumption DEF SwarmInv, DhtTypeOK, RecordsIsolated

-----------------------------------------------------------------------------
\* bootstrap learns nodes from nodes.
LEMMA BootstrapKept ==
  ASSUME SwarmInv, NEW n \in Nodes, NEW k \in Dhts, Bootstrap(n, k)
  PROVE  SwarmInv'
<1>1. PICK p \in table[n][k] : \E i \in Counterparts(n, k, p) :
        table' = [table EXCEPT ![n][k] = @ \cup (table[p][i] \ {n})]
  BY DEF Bootstrap
<1>2. p \in Nodes
  BY DEF SwarmInv, DhtTypeOK
<1>3. PICK i \in Dhts : table' = [table EXCEPT ![n][k] = @ \cup (table[p][i] \ {n})]
  BY <1>1, <1>2 DEF Counterparts
<1>4. table' \in [Nodes -> [Dhts -> SUBSET Nodes]]
  BY <1>2, <1>3 DEF SwarmInv, DhtTypeOK
<1>5. UNCHANGED <<store, known, query>>
  BY DEF Bootstrap
<1> QED
  BY <1>4, <1>5 DEF SwarmInv, DhtTypeOK, RecordsIsolated, PrefixOf

\* A replica goes to a DHT of the same protocol.
LEMMA ReplicateKept ==
  ASSUME SwarmInv, NEW n \in Nodes, NEW k \in Dhts, Replicate(n, k)
  PROVE  SwarmInv'
<1>1. PICK r \in store[n][k], p \in table[n][k] : \E i \in Counterparts(n, k, p) :
        Stored(p, i, r) /\ UNCHANGED <<table, known>>
  BY DEF Replicate
<1>2. p \in Nodes /\ r \in Records /\ r.under = PrefixOf(n, k)
  BY DEF SwarmInv, DhtTypeOK, RecordsIsolated
<1>3. PICK i \in Counterparts(n, k, p) : Stored(p, i, r)
  BY <1>1
<1>4. i \in Dhts /\ PrefixOf(p, i) = PrefixOf(n, k)
  BY <1>2, SameProtocol
<1> QED
  BY <1>1, <1>2, <1>3, <1>4, StoredKept

\* stop_providing and expiry only take records away.
LEMMA RemoveKept ==
  ASSUME SwarmInv, NEW n \in Nodes, NEW k \in Dhts, RemoveRecord(n, k)
  PROVE  SwarmInv'
<1>1. PICK r \in store[n][k] : store' = [store EXCEPT ![n][k] = @ \ {r}]
  BY DEF RemoveRecord
<1>2. query' = Without(n) /\ UNCHANGED <<table, known>>
  BY DEF RemoveRecord
<1>3. store' \in [Nodes -> [Dhts -> SUBSET Records]]
  BY <1>1 DEF SwarmInv, DhtTypeOK
<1>4. \A m \in Nodes, i \in Dhts : store'[m][i] \subseteq store[m][i]
  BY <1>1 DEF SwarmInv, DhtTypeOK
<1>5. query' \in Queries \cup {NoQuery} /\ QueryApart'
  BY <1>2, QueryKept DEF SwarmInv, RecordsIsolated, QueryApart
<1> QED
  BY <1>2, <1>3, <1>4, <1>5 DEF SwarmInv, DhtTypeOK, RecordsIsolated, QueryApart, PrefixOf

\* get_record starts with what the own store has.
LEMMA GetKept ==
  ASSUME SwarmInv, NEW n \in Nodes, NEW k \in Dhts, NEW key \in Keys, GetRecord(n, k, key)
  PROVE  SwarmInv'
<1> DEFINE own == {r \in store[n][k] : r.key = key}
<1>1. query' = [state |-> "asking", node |-> n, dht |-> k, key |-> key, todo |-> table[n][k],
                found |-> own, due |-> Due(n, k, key)]
  BY DEF GetRecord
<1>2. own \subseteq Records /\ table[n][k] \in SUBSET Nodes /\ Due(n, k, key) \in SUBSET Nodes
  BY DEF SwarmInv, DhtTypeOK, Due
<1>3. query' \in Queries
  BY <1>1, <1>2 DEF Queries
<1>4. \A r \in own : r.under = PrefixOf(n, k)
  BY DEF SwarmInv, RecordsIsolated
<1>5. UNCHANGED <<table, store, known>>
  BY DEF GetRecord
<1>6. QueryApart'
  BY <1>1, <1>4 DEF QueryApart, PrefixOf
<1> QED
  BY <1>3, <1>5, <1>6 DEF SwarmInv, DhtTypeOK, RecordsIsolated, QueryApart, PrefixOf

\* Only DHTs of the same protocol answer.
LEMMA AskKept ==
  ASSUME SwarmInv, Ask
  PROVE  SwarmInv'
<1>1. PICK p \in query.todo :
        query' = [query EXCEPT !.todo = @ \ {p}, !.found = @ \cup Answer(p)]
  BY DEF Ask
<1>2. query.state = "asking"
  BY DEF Ask
<1>3. query \in Queries /\ query # NoQuery
  BY <1>2 DEF SwarmInv, DhtTypeOK, NoQuery
<1>4. query.node \in Nodes /\ query.dht \in Dhts /\ p \in Nodes
  BY <1>3 DEF Queries
<1>5. \A r \in Answer(p) : r \in Records /\ r.under = PrefixOf(query.node, query.dht)
  <2> SUFFICES ASSUME NEW r \in Answer(p)
               PROVE  r \in Records /\ r.under = PrefixOf(query.node, query.dht)
    OBVIOUS
  <2>1. PICK i \in Counterparts(query.node, query.dht, p) : r \in store[p][i]
    BY DEF Answer
  <2>2. i \in Dhts /\ PrefixOf(p, i) = PrefixOf(query.node, query.dht)
    BY <1>4, SameProtocol
  <2> QED
    BY <1>4, <2>1, <2>2 DEF SwarmInv, DhtTypeOK, RecordsIsolated
<1>6. query' \in Queries
  BY <1>1, <1>3, <1>5 DEF Queries
<1>7. query'.node = query.node /\ query'.dht = query.dht
      /\ query'.found = query.found \cup Answer(p)
  BY <1>1, <1>3 DEF Queries
<1>8. QueryApart'
  BY <1>3, <1>5, <1>7 DEF QueryApart, SwarmInv, RecordsIsolated, PrefixOf
<1>9. UNCHANGED <<table, store, known>>
  BY DEF Ask
<1> QED
  BY <1>6, <1>8, <1>9 DEF SwarmInv, DhtTypeOK, RecordsIsolated, QueryApart, PrefixOf

\* A query that ends keeps what it found.
LEMMA EndKept ==
  ASSUME SwarmInv, EndQuery
  PROVE  SwarmInv'
<1>1. query \in Queries /\ query # NoQuery /\ query' = [query EXCEPT !.state = "ended"]
  BY DEF EndQuery, SwarmInv, DhtTypeOK, NoQuery
<1>2. query' \in Queries
  BY <1>1 DEF Queries
<1>3. query'.node = query.node /\ query'.dht = query.dht /\ query'.found = query.found
  BY <1>1 DEF Queries
<1>4. UNCHANGED <<table, store, known>>
  BY DEF EndQuery
<1> QED
  BY <1>1, <1>2, <1>3, <1>4 DEF SwarmInv, DhtTypeOK, RecordsIsolated, PrefixOf

\* build_swarm: a node that starts again has empty stores.
LEMMA RestartKept ==
  ASSUME SwarmInv, NEW n \in Nodes, Restart(n)
  PROVE  SwarmInv'
<1>1. table' = [table EXCEPT ![n] = BuiltTable(n)] /\ known' = [known EXCEPT ![n] = BootstrapPeers[n]]
      /\ store' = [store EXCEPT ![n] = [k \in Dhts |-> {}]]
  BY DEF Restart
<1>2. table' \in [Nodes -> [Dhts -> SUBSET Nodes]] /\ known' \in [Nodes -> SUBSET Nodes]
  BY <1>1, TableBuilt, SwarmAssumption DEF SwarmInv, DhtTypeOK
<1>3. store' \in [Nodes -> [Dhts -> SUBSET Records]]
  BY <1>1 DEF SwarmInv, DhtTypeOK
<1>4. \A m \in Nodes, i \in Dhts : store'[m][i] \subseteq store[m][i]
  BY <1>1 DEF SwarmInv, DhtTypeOK
<1>5. query' = NoQuery \/ query' = Without(n)
  BY DEF Restart
<1>6. query' \in Queries \cup {NoQuery} /\ QueryApart'
  BY <1>5, QueryKept DEF SwarmInv, RecordsIsolated, QueryApart
<1> QED
  BY <1>2, <1>3, <1>4, <1>6 DEF SwarmInv, DhtTypeOK, RecordsIsolated, QueryApart, PrefixOf

\* Every call on a swarm, and every step of the library, keeps the records apart.
LEMMA SwarmInvNext ==
  SwarmInv /\ [DhtNext \/ GossipNext]_swarmVars => SwarmInv'
<1> SUFFICES ASSUME SwarmInv, [DhtNext \/ GossipNext]_swarmVars PROVE SwarmInv'
  OBVIOUS
<1> DEFINE Same == UNCHANGED <<table, store, known, query>>
<1>0. Same => SwarmInv'
  BY DEF SwarmInv, DhtTypeOK, RecordsIsolated, PrefixOf
<1>1. ASSUME NEW n \in Nodes, NEW p \in Nodes, AddAddress(n, p) PROVE SwarmInv'
  <2>1. UNCHANGED <<store, query>>
    BY <1>1 DEF AddAddress
  <2>2. table' \in [Nodes -> [Dhts -> SUBSET Nodes]] /\ known' \in [Nodes -> SUBSET Nodes]
    BY <1>1 DEF AddAddress, SwarmInv, DhtTypeOK
  <2> QED
    BY <2>1, <2>2 DEF SwarmInv, DhtTypeOK, RecordsIsolated, PrefixOf
<1>2. ASSUME NEW n \in Nodes, ModeChanges(n) PROVE SwarmInv'
  <2>1. UNCHANGED <<table, store, known>> /\ (query' = query \/ query' = Without(n))
    BY <1>2 DEF ModeChanges
  <2>2. query' \in Queries \cup {NoQuery} /\ QueryApart'
    BY <2>1, QueryKept DEF SwarmInv, DhtTypeOK, RecordsIsolated, QueryApart, PrefixOf
  <2> QED
    BY <2>1, <2>2 DEF SwarmInv, DhtTypeOK, RecordsIsolated, QueryApart, PrefixOf
<1>3. ASSUME NEW p \in Puts,
             PutRecord(p[1], p[2], [key |-> p[3], size |-> p[4], under |-> PrefixOf(p[1], p[2])])
      PROVE  SwarmInv'
  <2> DEFINE r == [key |-> p[3], size |-> p[4], under |-> PrefixOf(p[1], p[2])]
  <2>1. p[1] \in Nodes /\ p[2] \in Dhts /\ p[3] \in Keys /\ p[4] \in Nat
    BY SwarmAssumption DEF Dhts
  <2>2. r \in Records /\ r.under = PrefixOf(p[1], p[2])
    BY <2>1, PrefixString DEF Records
  <2>3. Stored(p[1], p[2], r) /\ UNCHANGED <<table, known>>
    BY <1>3 DEF PutRecord
  <2> QED
    BY <2>1, <2>2, <2>3, StoredKept
<1>4. CASE DhtNext
  BY <1>1, <1>2, <1>3, <1>4, BootstrapKept, ReplicateKept, RemoveKept, GetKept, AskKept,
     EndKept, RestartKept DEF DhtNext
<1>5. CASE GossipNext
  <2>1. ASSUME NEW n \in Nodes, NEW t \in Topics,
               SubscribeTopic(n, t) \/ UnsubscribeTopic(n, t) \/ \E d \in Data : Publish(n, t, d)
        PROVE  Same
    BY <2>1 DEF SubscribeTopic, UnsubscribeTopic, Publish, dhtVars
  <2>2. ASSUME NEW n \in Nodes, Forget(n) PROVE Same
    BY <2>2 DEF Forget, dhtVars
  <2>3. ASSUME NEW c \in copies, ReceiveCopy(c) PROVE Same
    BY <2>3 DEF ReceiveCopy, dhtVars
  <2> QED
    BY <1>0, <1>5, <2>1, <2>2, <2>3, RestartKept DEF GossipNext
<1>6. CASE UNCHANGED swarmVars
  BY <1>0, <1>6 DEF swarmVars
<1> QED
  BY <1>4, <1>5, <1>6

\* "share peer connections while keeping DHT records isolated": for any nodes,
\* prefixes, roles and bootstrap peers, no store holds and no query returns a
\* record of another prefix.
THEOREM RecordsStayApart == SwarmSpec => []RecordsIsolated
<1>1. SwarmInv => RecordsIsolated
  BY DEF SwarmInv
<1> QED
  BY <1>1, SwarmInvInit, SwarmInvNext, PTL DEF SwarmSpec
-----------------------------------------------------------------------------
(***************************************************************************)
(* Queries.  A peer that a query counts on is in its list of peers to ask  *)
(* and able to answer, until something is found: it was told of, and a     *)
(* routing table names whom its node was told of.                          *)
(***************************************************************************)
Able(p) ==
  \E i \in Counterparts(query.node, query.dht, p) :
    server[p][i] /\ Holds(p, i, query.key, query.dht)

KnownListed == \A n \in Nodes, k \in Dhts : Enabled(n, k) => known[n] \subseteq table[n][k]

\* set_mode of build_full: an enabled secondary DHT never stops being a server.
SecondaryServes ==
  /\ server \in [Nodes -> [Dhts -> BOOLEAN]]
  /\ \A n \in Nodes : Enabled(n, "secondary") => server[n]["secondary"]

DueAnswers ==
  query # NoQuery /\ query.found = {} =>
    /\ query.state = "ended" => query.due = {}
    /\ query.state = "asking" => \A p \in query.due : p \in query.todo /\ Able(p)

FindInv == SwarmInv /\ KnownListed /\ SecondaryServes /\ DueAnswers


\* What a query counts on shrinks to peers in G, and these stay able to answer.
LEMMA DueKept ==
  ASSUME DueAnswers, NEW G \in SUBSET Nodes, query \in Queries, query' \in Queries,
         query'.state = query.state, query'.node = query.node, query'.dht = query.dht,
         query'.key = query.key, query'.todo = query.todo, query'.found = query.found,
         query'.due \subseteq query.due \cap G,
         \A q \in G, i \in Dhts : server[q][i] => server'[q][i],
         \A q \in G, i \in Dhts : store[q][i] \subseteq store'[q][i]
  PROVE  DueAnswers'
<1>0. query # NoQuery
  BY DEF Queries, NoQuery
<1>1. ASSUME NEW q \in G, Able(q) PROVE Able(q)'
  <2>1. PICK i \in Counterparts(query.node, query.dht, q) :
          server[q][i] /\ Holds(q, i, query.key, query.dht)
    BY <1>1 DEF Able
  <2>2. i \in Dhts
    BY DEF Counterparts
  <2>3. Holds(q, i, query.key, query.dht)'
    BY <2>1, <2>2 DEF Holds
  <2>4. i \in Counterparts(query.node, query.dht, q)'
    BY <2>1
  <2> QED
    BY <2>1, <2>2, <2>3, <2>4 DEF Able, Counterparts, Enabled, Protocol, PrefixOf
<1> QED
  BY <1>0, <1>1 DEF DueAnswers

\* The query no longer counts on p, or is left alone.
LEMMA WithoutKept ==
  ASSUME DhtTypeOK, DueAnswers, NEW p \in Nodes, NEW G \in SUBSET Nodes,
         \/ query' = query /\ G = Nodes
         \/ query' = Without(p) /\ G = Nodes \ {p},
         \A q \in G, i \in Dhts : server[q][i] => server'[q][i],
         \A q \in G, i \in Dhts : store[q][i] \subseteq store'[q][i]
  PROVE  DueAnswers'
<1>1. CASE query = NoQuery
  <2>1. query' = NoQuery
    BY <1>1 DEF Without
  <2> QED
    BY <2>1 DEF DueAnswers, NoQuery
<1>2. CASE query # NoQuery
  <2>1. query \in Queries
    BY <1>2 DEF DhtTypeOK
  <2>2. CASE query' = query /\ G = Nodes
    <3>1. query.due \subseteq Nodes
      BY <2>1 DEF Queries
    <3> QED
      BY <2>1, <2>2, <3>1, DueKept
  <2>3. CASE query' = Without(p) /\ G = Nodes \ {p}
    <3>1. query' = [query EXCEPT !.due = @ \ {p}]
      BY <1>2, <2>3 DEF Without
    <3>2. /\ query' \in Queries /\ query'.state = query.state /\ query'.node = query.node
          /\ query'.dht = query.dht /\ query'.key = query.key
          /\ query'.todo = query.todo /\ query'.found = query.found
          /\ query'.due = query.due \ {p} /\ query.due \subseteq Nodes
      BY <2>1, <3>1 DEF Queries
    <3> QED
      BY <2>1, <2>3, <3>2, DueKept
  <2> QED
    BY <2>2, <2>3
<1> QED
  BY <1>1, <1>2

\* A record that is stored takes only a record of its key away.
LEMMA StoredFinds ==
  ASSUME FindInv, NEW n \in Nodes, NEW k \in Dhts, NEW r, Stored(n, k, r), server' = server
  PROVE  DueAnswers'
<1>0. DhtTypeOK /\ DueAnswers
  BY DEF FindInv, SwarmInv
<1>1. store' = [store EXCEPT ![n][k] = OfOtherKeys(@, r.key) \cup {r}]
  BY DEF Stored
<1>2. \A q \in Nodes \ {n}, i \in Dhts : store[q][i] \subseteq store'[q][i]
  BY <1>0, <1>1 DEF DhtTypeOK
<1>3. CASE \E o \in store[n][k] : o.key = r.key
  <2>1. query' = Without(n)
    BY <1>3 DEF Stored
  <2> QED
    BY <1>0, <1>2, <2>1, WithoutKept
<1>4. CASE ~ \E o \in store[n][k] : o.key = r.key
  <2>1. query' = query
    BY <1>4 DEF Stored
  <2>2. \A q \in Nodes, i \in Dhts : store[q][i] \subseteq store'[q][i]
    BY <1>0, <1>1, <1>4 DEF DhtTypeOK, OfOtherKeys
  <2> QED
    BY <1>0, <2>1, <2>2, WithoutKept
<1> QED
  BY <1>3, <1>4

\* A query starts: those it counts on are in the routing table.
LEMMA GetFinds ==
  ASSUME FindInv, NEW n \in Nodes, NEW k \in Dhts, NEW key \in Keys, GetRecord(n, k, key)
  PROVE  DueAnswers'
<1>1. /\ query' = [state |-> "asking", node |-> n, dht |-> k, key |-> key, todo |-> table[n][k],
                   found |-> {r \in store[n][k] : r.key = key}, due |-> Due(n, k, key)]
      /\ UNCHANGED <<server, store>> /\ Enabled(n, k)
  BY DEF GetRecord
<1>2. /\ query'.state = "asking" /\ query'.node = n /\ query'.dht = k /\ query'.key = key
      /\ query'.todo = table[n][k] /\ query'.due = Due(n, k, key)
  BY <1>1
<1>3. ASSUME NEW p \in Due(n, k, key) PROVE p \in table[n][k] /\ Able(p)'
  <2>1. p \in known[n] /\ p \in Nodes
    BY DEF Due, FindInv, SwarmInv, DhtTypeOK
  <2>2. p \in table[n][k]
    BY <1>1, <2>1 DEF FindInv, KnownListed
  <2>3. PICK i \in Dhts : /\ Enabled(p, i) /\ PrefixOf(p, i) = PrefixOf(n, k)
                          /\ i = "secondary" \/ server[p][i]
                          /\ Holds(p, i, key, k)
    BY DEF Due
  <2>4. server[p][i]
    BY <2>1, <2>3 DEF FindInv, SecondaryServes
  <2>5. i \in Counterparts(n, k, p)
    BY <2>3 DEF Counterparts, Protocol
  <2>6. Holds(p, i, key, k)'
    BY <1>1, <2>3 DEF Holds
  <2> QED
    BY <1>1, <1>2, <2>2, <2>4, <2>5, <2>6 DEF Able, Counterparts, Enabled, Protocol, PrefixOf
<1> QED
  BY <1>2, <1>3 DEF DueAnswers

\* A peer that is asked and able to answer is not counted on any more: the
\* query has found something.
LEMMA AskFinds ==
  ASSUME FindInv, Ask
  PROVE  DueAnswers'
<1>1. PICK p \in query.todo :
        query' = [query EXCEPT !.todo = @ \ {p}, !.found = @ \cup Answer(p)]
  BY DEF Ask
<1>2. query.state = "asking" /\ UNCHANGED <<server, store>>
  BY DEF Ask
<1>3. query \in Queries /\ query # NoQuery
  BY <1>2 DEF FindInv, SwarmInv, DhtTypeOK, NoQuery
<1>4. /\ query'.state = "asking" /\ query'.node = query.node /\ query'.dht = query.dht
      /\ query'.key = query.key /\ query'.todo = query.todo \ {p}
      /\ query'.found = query.found \cup Answer(p) /\ query'.due = query.due
  BY <1>1, <1>2, <1>3 DEF Queries
<1>5. ASSUME Able(p) PROVE Answer(p) # {}
  <2>1. PICK i \in Counterparts(query.node, query.dht, p) :
          server[p][i] /\ Holds(p, i, query.key, query.dht)
    BY <1>5 DEF Able
  <2>2. PICK r \in store[p][i] : r.key = query.key
    BY <2>1 DEF Holds
  <2> QED
    BY <2>1, <2>2 DEF Answer
<1>6. ASSUME NEW q, Able(q) PROVE Able(q)'
  BY <1>2, <1>4, <1>6 DEF Able, Holds, Counterparts, Enabled, Protocol, PrefixOf
<1> QED
  BY <1>2, <1>3, <1>4, <1>5, <1>6 DEF FindInv, DueAnswers

\* A query ends once it has asked everyone or found something.
LEMMA EndFinds ==
  ASSUME FindInv, EndQuery
  PROVE  DueAnswers'
<1>1. query \in Queries /\ query # NoQuery /\ query' = [query EXCEPT !.state = "ended"]
  BY DEF EndQuery, FindInv, SwarmInv, DhtTypeOK, NoQuery
<1>2. /\ query'.state = "ended" /\ query'.found = query.found /\ query'.due = query.due
      /\ query.due \subseteq Nodes
  BY <1>1 DEF Queries
<1>3. query.state = "asking" /\ (query.todo = {} \/ query.found # {})
  BY DEF EndQuery
<1> QED
  BY <1>1, <1>2, <1>3 DEF FindInv, DueAnswers

\* A node that starts again is built with its bootstrap peers.
LEMMA RestartFinds ==
  ASSUME FindInv, NEW n \in Nodes, Restart(n)
  PROVE  KnownListed' /\ SecondaryServes' /\ DueAnswers'
<1>0. DhtTypeOK /\ KnownListed /\ SecondaryServes /\ DueAnswers
  BY DEF FindInv, SwarmInv
<1>1. /\ server' = [server EXCEPT ![n] = [k \in Dhts |-> SetMode(n, k)]]
      /\ table' = [table EXCEPT ![n] = BuiltTable(n)]
      /\ store' = [store EXCEPT ![n] = [k \in Dhts |-> {}]]
      /\ known' = [known EXCEPT ![n] = BootstrapPeers[n]]
      /\ query' = NoQuery \/ query' = Without(n)
  BY DEF Restart
<1>2. KnownListed'
  BY <1>0, <1>1 DEF KnownListed, DhtTypeOK, BuiltTable, Enabled
<1>3. SecondaryServes'
  <2>1. [k \in Dhts |-> SetMode(n, k)] \in [Dhts -> BOOLEAN]
    BY DEF SetMode
  <2>2. server' \in [Nodes -> [Dhts -> BOOLEAN]]
    BY <1>0, <1>1, <2>1 DEF SecondaryServes
  <2>3. ASSUME NEW m \in Nodes, Enabled(m, "secondary") PROVE server'[m]["secondary"]
    BY <1>0, <1>1, <2>3 DEF SecondaryServes, SetMode, Dhts
  <2> QED
    BY <2>2, <2>3 DEF SecondaryServes, Enabled
<1>4. DueAnswers'
  <2>1. CASE query' = NoQuery
    BY <2>1 DEF DueAnswers
  <2>2. CASE query' = Without(n)
    <3>1. \A q \in Nodes \ {n}, i \in Dhts : server[q][i] => server'[q][i]
      BY <1>0, <1>1 DEF SecondaryServes
    <3>2. \A q \in Nodes \ {n}, i \in Dhts : store[q][i] \subseteq store'[q][i]
      BY <1>0, <1>1 DEF DhtTypeOK
    <3> QED
      BY <1>0, <2>2, <3>1, <3>2, WithoutKept
  <2> QED
    BY <1>1, <2>1, <2>2
<1> QED
  BY <1>2, <1>3, <1>4

\* No call and no step of the library loses a peer that a query counts on.
LEMMA FindInvNext ==
  FindInv /\ [DhtNext \/ GossipNext]_swarmVars => FindInv'
<1> SUFFICES ASSUME FindInv, [DhtNext \/ GossipNext]_swarmVars PROVE FindInv'
  OBVIOUS
<1>0. SwarmInv' /\ DhtTypeOK /\ KnownListed /\ SecondaryServes /\ DueAnswers
  BY SwarmInvNext DEF FindInv, SwarmInv
<1> DEFINE Rest == KnownListed' /\ SecondaryServes' /\ DueAnswers'
<1>1. (UNCHANGED <<table, known>> => KnownListed') /\ (UNCHANGED server => SecondaryServes')
  BY <1>0 DEF KnownListed, SecondaryServes, Enabled
<1>2. UNCHANGED <<server, store, query>> => DueAnswers'
  BY <1>0 DEF DueAnswers, Able, Holds, Counterparts, Enabled, Protocol, PrefixOf
<1>3. ASSUME NEW n \in Nodes, NEW p \in Nodes, AddAddress(n, p) PROVE Rest
  <2>1. KnownListed'
    BY <1>0, <1>3 DEF AddAddress, KnownListed, DhtTypeOK, Enabled
  <2> QED
    BY <1>1, <1>2, <1>3, <2>1 DEF AddAddress
<1>4. ASSUME NEW n \in Nodes, ModeChanges(n) PROVE Rest
  <2>1. /\ server' = [server EXCEPT ![n]["primary"] = ~@]
        /\ query' = IF server[n]["primary"] THEN Without(n) ELSE query
        /\ UNCHANGED <<table, store, known>>
    BY <1>4 DEF ModeChanges
  <2>2. SecondaryServes'
    <3>1. server' \in [Nodes -> [Dhts -> BOOLEAN]]
      BY <1>0, <2>1 DEF SecondaryServes
    <3>2. \A m \in Nodes : server'[m]["secondary"] = server[m]["secondary"]
      BY <1>0, <2>1 DEF SecondaryServes, Dhts
    <3> QED
      BY <1>0, <3>1, <3>2 DEF SecondaryServes, Enabled
  <2>3. DueAnswers'
    <3>1. \A q \in Nodes \ {n}, i \in Dhts : server[q][i] => server'[q][i]
      BY <1>0, <2>1 DEF SecondaryServes
    <3>2. CASE server[n]["primary"]
      BY <1>0, <2>1, <3>1, <3>2, WithoutKept
    <3>3. CASE ~server[n]["primary"]
      <4>1. \A q \in Nodes, i \in Dhts : server[q][i] => server'[q][i]
        BY <1>0, <2>1, <3>3 DEF SecondaryServes
      <4> QED
        BY <1>0, <2>1, <3>3, <4>1, WithoutKept
    <3> QED
      BY <3>2, <3>3
  <2> QED
    BY <1>1, <2>1, <2>2, <2>3
<1>5. ASSUME NEW n \in Nodes, NEW k \in Dhts, Bootstrap(n, k) PROVE Rest
  <2>1. \E new : table' = [table EXCEPT ![n][k] = @ \cup new]
    BY <1>5 DEF Bootstrap
  <2>2. \A m \in Nodes, i \in Dhts : table[m][i] \subseteq table'[m][i]
    BY <1>0, <2>1 DEF DhtTypeOK
  <2>3. UNCHANGED <<server, store, known, query>>
    BY <1>5 DEF Bootstrap
  <2>4. KnownListed'
    BY <1>0, <2>2, <2>3 DEF KnownListed, Enabled
  <2> QED
    BY <1>1, <1>2, <2>3, <2>4
<1>6. ASSUME NEW n \in Nodes, NEW k \in Dhts, Replicate(n, k) PROVE Rest
  <2>1. PICK r \in store[n][k], p \in table[n][k], i \in Dhts :
          Stored(p, i, r) /\ UNCHANGED <<server, table, known>>
    BY <1>6 DEF Replicate, Counterparts
  <2>2. p \in Nodes
    BY <1>0 DEF DhtTypeOK
  <2> QED
    BY <1>1, <2>1, <2>2, StoredFinds
<1>7. ASSUME NEW n \in Nodes, NEW k \in Dhts, RemoveRecord(n, k) PROVE Rest
  <2>1. PICK r \in store[n][k] : store' = [store EXCEPT ![n][k] = @ \ {r}]
    BY <1>7 DEF RemoveRecord
  <2>2. query' = Without(n) /\ UNCHANGED <<server, table, known>>
    BY <1>7 DEF RemoveRecord
  <2>3. \A q \in Nodes \ {n}, i \in Dhts : store[q][i] \subseteq store'[q][i]
    BY <1>0, <2>1 DEF DhtTypeOK
  <2>4. DueAnswers'
    BY <1>0, <2>2, <2>3, WithoutKept
  <2> QED
    BY <1>1, <2>2, <2>4
<1>8. ASSUME NEW n \in Nodes, NEW k \in Dhts, NEW key \in Keys, GetRecord(n, k, key) PROVE Rest
  BY <1>1, <1>8, GetFinds DEF GetRecord
<1>9. ASSUME NEW p \in Puts, NEW r, PutRecord(p[1], p[2], r) PROVE Rest
  <2>1. p[1] \in Nodes /\ p[2] \in Dhts
    BY SwarmAssumption DEF Dhts
  <2> QED
    BY <1>1, <1>9, <2>1, StoredFinds DEF PutRecord
<1>10. ASSUME Ask PROVE Rest
  <2>1. UNCHANGED <<server, table, known>>
    BY <1>10 DEF Ask
  <2>2. DueAnswers'
    BY <1>10, AskFinds
  <2> QED
    BY <1>1, <2>1, <2>2
<1>11. ASSUME EndQuery PROVE Rest
  <2>1. UNCHANGED <<server, table, known>>
    BY <1>11 DEF EndQuery
  <2>2. DueAnswers'
    BY <1>11, EndFinds
  <2> QED
    BY <1>1, <2>1, <2>2
<1>12. ASSUME NEW n \in Nodes, Restart(n) PROVE Rest
  BY <1>12, RestartFinds
<1>13. UNCHANGED dhtVars => Rest
  BY <1>1, <1>2 DEF dhtVars
<1>14. CASE DhtNext
  BY <1>0, <1>3, <1>4, <1>5, <1>6, <1>7, <1>8, <1>9, <1>10, <1>11, <1>12, <1>14
     DEF DhtNext, FindInv
<1>15. CASE GossipNext
  <2>1. ASSUME NEW n \in Nodes, NEW t \in Topics,
               SubscribeTopic(n, t) \/ UnsubscribeTopic(n, t) \/ \E e \in Data : Publish(n, t, e)
        PROVE  Rest
    BY <1>13, <2>1 DEF SubscribeTopic, UnsubscribeTopic, Publish
  <2>2. ASSUME NEW n \in Nodes, Forget(n) PROVE Rest
    BY <1>13, <2>2 DEF Forget
  <2>3. ASSUME NEW c \in copies, ReceiveCopy(c) PROVE Rest
    BY <1>13, <2>3 DEF ReceiveCopy
  <2> QED
    BY <1>0, <1>12, <1>15, <2>1, <2>2, <2>3 DEF GossipNext, FindInv
<1>16. CASE UNCHANGED swarmVars
  BY <1>0, <1>13, <1>16 DEF swarmVars, dhtVars, FindInv
<1> QED
  BY <1>14, <1>15, <1>16

\* build_swarm lists the bootstrap peers; nothing is asked yet.
LEMMA FindInvInit == SwarmInit => FindInv
<1> SUFFICES ASSUME SwarmInit PROVE FindInv
  OBVIOUS
<1>1. /\ server = [n \in Nodes |-> [k \in Dhts |-> SetMode(n, k)]]
      /\ table = [n \in Nodes |-> BuiltTable(n)] /\ known = BootstrapPeers /\ query = NoQuery
  BY DEF SwarmInit, DhtInit
<1>2. KnownListed
  BY <1>1 DEF KnownListed, BuiltTable
<1>3. SecondaryServes
  BY <1>1 DEF SecondaryServes, SetMode, Dhts
<1> QED
  BY <1>1, <1>2, <1>3, SwarmInvInit DEF FindInv, DueAnswers

\* "Server mode: respond to DHT queries from other peers": for any nodes,
\* records, roles and restarts, a query ends empty-handed only if no peer it
\* could count on stayed able to answer from its beginning to its end.
THEOREM QueriesFind == SwarmSpec => []FoundWhenHeld
<1>1. FindInv => FoundWhenHeld
  BY DEF FindInv, DueAnswers, FoundWhenHeld, NoQuery
<1> QED
  BY <1>1, FindInvInit, FindInvNext, PTL DEF SwarmSpec

-----------------------------------------------------------------------------
(***************************************************************************)
(* Gossip.  GossipMessages have one number each; what is on its way, and what    *)
(* the caches know, was published.                                         *)
(***************************************************************************)
GossipMessages == [topic : Topics, data : Data, source : Nodes, via : Nodes, number : Nat]

GossipTypeOK ==
  /\ topics \in [Nodes -> SUBSET Topics]
  /\ cache \in [Nodes -> SUBSET (Data \X Nodes)]
  /\ copies \in SUBSET [to : Nodes, msg : GossipMessages]
  /\ inbox \in [Nodes -> Seq(GossipMessages)]
  /\ owed \in [Nodes -> SUBSET GossipMessages]
  /\ published \in SUBSET GossipMessages /\ IsFiniteSet(published)

Twins(m, o) ==
  m.topic = o.topic /\ m.data = o.data /\ m.source = o.source /\ m.number = o.number

Numbered ==
  /\ \A m \in published : m.number < Cardinality(published)
  /\ \A m, o \in published : m.number = o.number => m = o
  /\ \A n \in Nodes : \A i \in DOMAIN inbox[n] : inbox[n][i].number < Cardinality(published)

OfPublished ==
  /\ \A c \in copies : \E m \in published : Twins(m, c.msg)
  /\ \A n \in Nodes : \A id \in cache[n] : \E m \in published : MessageId(m) = id
  /\ \A r \in refused : \E m \in published : Alike(m, r)

\* While a copy of a message is on its way, to whomever, every node that has
\* got the message knows its id; Forget keeps it that long.
GotOnce ==
  /\ \A n \in Nodes : \A i, j \in DOMAIN inbox[n] :
       inbox[n][i].number = inbox[n][j].number => i = j
  /\ \A c \in copies, n \in Nodes : \A i \in DOMAIN inbox[n] :
       inbox[n][i].number = c.msg.number => MessageId(c.msg) \in cache[n]

\* A message that a listener has not got is on its way from its author, who
\* still knows the id and so has not published its like again.
OwedComes ==
  \A n \in Nodes : \A m \in owed[n] :
    /\ m \in published /\ m.source # n /\ m.via = m.source /\ m.topic \in topics[n]
    /\ MessageId(m) \notin cache[n] /\ MessageId(m) \in cache[m.source]
    /\ [to |-> n, msg |-> m] \in copies
    /\ \A o \in published : Alike(o, m) => o = m

GossipInv == GossipTypeOK /\ Numbered /\ OfPublished /\ GotOnce /\ OwedComes

\* What leaves gossip alone.
LEMMA GossipQuiet ==
  ASSUME GossipInv, UNCHANGED gossipVars
  PROVE  GossipInv'
<1>0. UNCHANGED <<topics, cache, copies, inbox, owed, published, refused>>
  BY DEF gossipVars
<1>1. GossipTypeOK'
  BY <1>0 DEF GossipInv, GossipTypeOK
<1>2. Numbered' /\ GotOnce'
  BY <1>0 DEF GossipInv, Numbered, GotOnce, MessageId
<1>3. OfPublished' /\ OwedComes'
  BY <1>0 DEF GossipInv, OfPublished, OwedComes, Twins, Alike, MessageId
<1> QED
  BY <1>1, <1>2, <1>3 DEF GossipInv

\* A topic is subscribed to: a node listens to more.
LEMMA SubscribeKept ==
  ASSUME GossipInv, NEW n \in Nodes, NEW t \in Topics, SubscribeTopic(n, t)
  PROVE  GossipInv'
<1>1. /\ topics' = [topics EXCEPT ![n] = @ \cup {t}]
      /\ UNCHANGED <<cache, copies, inbox, owed, published, refused>>
  BY DEF SubscribeTopic
<1>2. topics' \in [Nodes -> SUBSET Topics] /\ \A m \in Nodes : topics[m] \subseteq topics'[m]
  BY <1>1 DEF GossipInv, GossipTypeOK
<1>3. GossipTypeOK'
  BY <1>1, <1>2 DEF GossipInv, GossipTypeOK
<1>4. OwedComes'
  BY <1>1, <1>2 DEF GossipInv, OwedComes, MessageId, Alike
<1> QED
  BY <1>1, <1>3, <1>4 DEF GossipInv, Numbered, OfPublished, GotOnce, Twins, Alike, MessageId

\* A topic is given up, and with it what is owed on it.
LEMMA UnsubscribeKept ==
  ASSUME GossipInv, NEW n \in Nodes, NEW t \in Topics, UnsubscribeTopic(n, t)
  PROVE  GossipInv'
<1>1. /\ topics' = [topics EXCEPT ![n] = @ \ {t}]
      /\ owed' = [owed EXCEPT ![n] = {m \in @ : m.topic # t}]
      /\ UNCHANGED <<cache, copies, inbox, published, refused>>
  BY DEF UnsubscribeTopic
<1>2. /\ topics' \in [Nodes -> SUBSET Topics] /\ owed' \in [Nodes -> SUBSET GossipMessages]
      /\ \A p \in Nodes : \A m \in owed'[p] :
           m \in owed[p] /\ (m.topic \in topics[p] => m.topic \in topics'[p])
  BY <1>1 DEF GossipInv, GossipTypeOK
<1>3. GossipTypeOK'
  BY <1>1, <1>2 DEF GossipInv, GossipTypeOK
<1>4. OwedComes'
  BY <1>1, <1>2 DEF GossipInv, OwedComes, MessageId, Alike
<1> QED
  BY <1>1, <1>3, <1>4 DEF GossipInv, Numbered, OfPublished, GotOnce, Twins, Alike, MessageId

\* An id is forgotten when no copy is on its way: nothing depends on it.
LEMMA ForgetKept ==
  ASSUME GossipInv, NEW n \in Nodes, Forget(n)
  PROVE  GossipInv'
<1>1. PICK id \in cache[n] :
        /\ \A c \in copies : MessageId(c.msg) # id
        /\ cache' = [cache EXCEPT ![n] = @ \ {id}]
        /\ UNCHANGED <<topics, copies, inbox, owed, published, refused>>
  BY DEF Forget
<1>2. /\ cache' \in [Nodes -> SUBSET (Data \X Nodes)]
      /\ \A p \in Nodes : cache'[p] \subseteq cache[p]
      /\ \A p \in Nodes : \A i \in cache[p] : i # id => i \in cache'[p]
  BY <1>1 DEF GossipInv, GossipTypeOK
<1>3. GossipTypeOK'
  BY <1>1, <1>2 DEF GossipInv, GossipTypeOK
<1>4. OfPublished'
  BY <1>1, <1>2 DEF GossipInv, OfPublished, Twins, Alike, MessageId
<1>5. GotOnce'
  BY <1>1, <1>2 DEF GossipInv, GotOnce, MessageId
<1>6. OwedComes'
  <2> SUFFICES ASSUME NEW p \in Nodes, NEW m \in owed[p]
               PROVE  MessageId(m) \notin cache'[p] /\ MessageId(m) \in cache'[m.source]
    BY <1>1 DEF GossipInv, OwedComes, MessageId, Alike
  <2>1. /\ [to |-> p, msg |-> m] \in copies
        /\ MessageId(m) \notin cache[p] /\ MessageId(m) \in cache[m.source]
        /\ m.source \in Nodes
    BY DEF GossipInv, OwedComes, GossipTypeOK, GossipMessages
  <2>2. MessageId(m) # id
    BY <1>1, <2>1
  <2> QED
    BY <1>2, <2>1, <2>2
<1> QED
  BY <1>1, <1>3, <1>4, <1>5, <1>6 DEF GossipInv, Numbered

\* A node that starts again has nothing; what its neighbours pass on is lost.
LEMMA RestartGossip ==
  ASSUME GossipInv, NEW n \in Nodes, Restart(n)
  PROVE  GossipInv'
<1>1. /\ topics' = [topics EXCEPT ![n] = {}]
      /\ cache' = [cache EXCEPT ![n] = {}]
      /\ copies' = {c \in copies : c.to # n /\ c.msg.via # n}
      /\ inbox' = [inbox EXCEPT ![n] = <<>>]
      /\ owed' = [p \in Nodes |-> IF p = n THEN {} ELSE {m \in owed[p] : m.source # n}]
      /\ UNCHANGED <<published, refused>>
  BY DEF Restart
<1>2. GossipTypeOK'
  <2>1. <<>> \in Seq(GossipMessages)
    OBVIOUS
  <2>2. inbox' \in [Nodes -> Seq(GossipMessages)]
    BY <1>1, <2>1 DEF GossipInv, GossipTypeOK
  <2> QED
    BY <1>1, <2>2 DEF GossipInv, GossipTypeOK
<1>3. \A p \in Nodes \ {n} :
        /\ topics'[p] = topics[p] /\ cache'[p] = cache[p] /\ inbox'[p] = inbox[p]
        /\ owed'[p] = {m \in owed[p] : m.source # n}
  BY <1>1 DEF GossipInv, GossipTypeOK
<1>4. inbox'[n] = <<>> /\ cache'[n] = {} /\ owed'[n] = {} /\ copies' \subseteq copies
  BY <1>1 DEF GossipInv, GossipTypeOK
<1>5. DOMAIN inbox'[n] = {}
  BY <1>4
<1>6. Numbered'
  BY <1>1, <1>3, <1>5 DEF GossipInv, Numbered
<1>7. OfPublished'
  BY <1>1, <1>3, <1>4 DEF GossipInv, OfPublished, Twins, Alike, MessageId
<1>8. GotOnce'
  BY <1>3, <1>4, <1>5 DEF GossipInv, GotOnce, MessageId
<1>9. OwedComes'
  <2> SUFFICES ASSUME NEW p \in Nodes, NEW m \in owed'[p]
               PROVE  /\ m \in published /\ m.source # p /\ m.via = m.source
                      /\ m.topic \in topics'[p]
                      /\ MessageId(m) \notin cache'[p] /\ MessageId(m) \in cache'[m.source]
                      /\ [to |-> p, msg |-> m] \in copies'
                      /\ \A o \in published : Alike(o, m) => o = m
    BY <1>1, ZenonT(60) DEF OwedComes, MessageId, Alike
  <2>1. p # n /\ m \in owed[p] /\ m.source # n /\ m.source \in Nodes
    BY <1>3, <1>4 DEF GossipInv, GossipTypeOK, GossipMessages
  <2>2. /\ m \in published /\ m.source # p /\ m.via = m.source /\ m.topic \in topics[p]
        /\ MessageId(m) \notin cache[p] /\ MessageId(m) \in cache[m.source]
        /\ [to |-> p, msg |-> m] \in copies
        /\ \A o \in published : Alike(o, m) => o = m
    BY <2>1 DEF GossipInv, OwedComes
  <2>3. [to |-> p, msg |-> m] \in copies'
    BY <1>1, <2>1, <2>2
  <2> QED
    BY <1>3, <2>1, <2>2, <2>3
<1> QED
  BY <1>2, <1>6, <1>7, <1>8, <1>9 DEF GossipInv

\* publish_to_topic: a new message has a new number and, as its author does
\* not know the id, is like none that a listener waits for.
LEMMA PublishKept ==
  ASSUME GossipInv, NEW n \in Nodes, NEW t \in Topics, NEW d \in Data, Publish(n, t, d)
  PROVE  GossipInv'
<1> DEFINE N == Cardinality(published)
           m == [topic |-> t, data |-> d, source |-> n, via |-> n, number |-> N]
           listeners == {p \in Linked(n) : t \in topics[p]}
<1>0. GossipTypeOK /\ Numbered /\ OfPublished /\ GotOnce /\ OwedComes
  BY DEF GossipInv
<1>1. N \in Nat
  BY <1>0, FS_CardinalityType DEF GossipTypeOK
<1>2. /\ m \in GossipMessages /\ m.topic = t /\ m.data = d /\ m.source = n /\ m.via = n
      /\ m.number = N /\ MessageId(m) = <<d, n>>
  BY <1>1 DEF GossipMessages, MessageId
<1>3. UNCHANGED <<topics, inbox>>
  BY DEF Publish
<1>a. ASSUME NEW p \in Nodes, NEW i \in DOMAIN inbox[p]
      PROVE  inbox[p][i].number < N /\ inbox[p][i].number \in Nat
  <2>1. inbox[p] \in Seq(GossipMessages)
    BY <1>0 DEF GossipTypeOK
  <2>2. inbox[p][i] \in GossipMessages
    BY <2>1
  <2> QED
    BY <1>0, <2>2 DEF Numbered, GossipMessages
<1>4. CASE /\ MessageId(m) \in cache[n]
           /\ refused' = refused \cup {[source |-> n, data |-> d]}
           /\ UNCHANGED <<cache, copies, owed, published>>
  <2>1. PICK o \in published : MessageId(o) = MessageId(m)
    BY <1>0, <1>4 DEF OfPublished
  <2>2. o.data = d /\ o.source = n
    BY <1>2, <2>1 DEF MessageId
  <2>3. Alike(o, [source |-> n, data |-> d])
    BY <2>2 DEF Alike
  <2>4. OfPublished'
    BY <1>0, <1>4, <2>3 DEF OfPublished, Twins, Alike, MessageId
  <2>5. GossipTypeOK' /\ Numbered' /\ GotOnce'
    BY <1>0, <1>3, <1>4 DEF GossipTypeOK, Numbered, GotOnce, MessageId
  <2>6. OwedComes'
    BY <1>0, <1>3, <1>4 DEF OwedComes, Alike, MessageId
  <2> QED
    BY <2>4, <2>5, <2>6 DEF GossipInv
<1>5. CASE /\ MessageId(m) \notin cache[n]
           /\ cache' = [cache EXCEPT ![n] = @ \cup {MessageId(m)}]
           /\ copies' = copies \cup CopiesOf(m, n, listeners)
           /\ published' = published \cup {m}
           /\ owed' = [p \in Nodes |->
                IF p \in listeners /\ \A o \in published : ~Alike(o, m)
                THEN owed[p] \cup {m} ELSE owed[p]]
           /\ UNCHANGED refused
  <2>1. \A p \in listeners : p \in Nodes /\ p # n /\ t \in topics[p]
    BY TopologyAssumption DEF Linked
  <2>2. [m EXCEPT !.via = n] = m
    BY DEF m
  <2>3. /\ m \notin published /\ \A o \in published : o.number < N /\ o \in GossipMessages
        /\ \A o \in published : o.number # N
    BY <1>0, <1>1, <1>2 DEF Numbered, GossipTypeOK, GossipMessages
  <2>4. IsFiniteSet(published') /\ Cardinality(published') = N + 1
    BY <1>0, <1>5, <2>3, FS_AddElement DEF GossipTypeOK
  <2> HIDE DEF m, listeners, N
  <2>5. \A c : c \in copies' <=> c \in copies \/ \E p \in listeners : c = [to |-> p, msg |-> m]
    BY <1>5, <2>2 DEF CopiesOf
  <2>6. /\ cache' \in [Nodes -> SUBSET (Data \X Nodes)]
        /\ \A p \in Nodes \ {n} : cache'[p] = cache[p]
        /\ cache'[n] = cache[n] \cup {MessageId(m)}
    BY <1>0, <1>2, <1>5 DEF GossipTypeOK
  <2>7. GossipTypeOK'
    <3>1. copies' \in SUBSET [to : Nodes, msg : GossipMessages]
      BY <1>0, <1>2, <2>1, <2>5 DEF GossipTypeOK
    <3>2. owed' \in [Nodes -> SUBSET GossipMessages] /\ published' \in SUBSET GossipMessages
      BY <1>0, <1>2, <1>5 DEF GossipTypeOK
    <3> QED
      BY <1>0, <1>3, <2>4, <2>6, <3>1, <3>2 DEF GossipTypeOK
  <2>8. Numbered'
    <3>1. \A o \in published' : o.number < N + 1
      BY <1>1, <1>2, <1>5, <2>3 DEF GossipMessages
    <3>2. \A o, q \in published' : o.number = q.number => o = q
      BY <1>0, <1>2, <1>5, <2>3 DEF Numbered
    <3>4. \A p \in Nodes : \A i \in DOMAIN inbox'[p] : inbox'[p][i].number < N + 1
      BY <1>1, <1>3, <1>a
    <3> QED
      BY <2>4, <3>1, <3>2, <3>4 DEF Numbered
  <2>9. OfPublished'
    <3>1. ASSUME NEW c \in copies' PROVE \E o \in published' : Twins(o, c.msg)
      BY <1>0, <1>5, <2>5 DEF OfPublished, Twins
    <3>2. ASSUME NEW p \in Nodes, NEW id \in cache'[p]
          PROVE  \E o \in published' : MessageId(o) = id
      BY <1>0, <1>5, <2>6 DEF OfPublished
    <3>3. \A r \in refused' : \E o \in published' : Alike(o, r)
      BY <1>0, <1>5 DEF OfPublished
    <3> QED
      BY <3>1, <3>2, <3>3 DEF OfPublished, Twins, Alike, MessageId
  <2>10. GotOnce'
    <3>1. ASSUME NEW c \in copies', NEW p \in Nodes, NEW i \in DOMAIN inbox[p],
                 inbox[p][i].number = c.msg.number
          PROVE  MessageId(c.msg) \in cache'[p]
      <4>1. CASE c \in copies
        BY <1>0, <2>6, <3>1, <4>1 DEF GotOnce
      <4>2. CASE c.msg = m
        BY <1>1, <1>2, <1>a, <3>1, <4>2
      <4> QED
        BY <2>5, <4>1, <4>2
    <3> QED
      BY <1>0, <1>3, <3>1 DEF GotOnce, MessageId
  <2>11. OwedComes'
    <3> SUFFICES ASSUME NEW p \in Nodes, NEW o \in owed'[p]
                 PROVE  /\ o \in published' /\ o.source # p /\ o.via = o.source
                        /\ o.topic \in topics[p]
                        /\ MessageId(o) \notin cache'[p] /\ MessageId(o) \in cache'[o.source]
                        /\ [to |-> p, msg |-> o] \in copies'
                        /\ \A q \in published' : Alike(q, o) => q = o
      BY <1>3 DEF OwedComes, MessageId, Alike
    <3>1. CASE o \in owed[p]
      <4>1. /\ o \in published /\ o.source # p /\ o.via = o.source /\ o.topic \in topics[p]
            /\ MessageId(o) \notin cache[p] /\ MessageId(o) \in cache[o.source]
            /\ [to |-> p, msg |-> o] \in copies
            /\ \A q \in published : Alike(q, o) => q = o
            /\ o.source \in Nodes
        BY <1>0, <3>1 DEF OwedComes, GossipTypeOK, GossipMessages
      <4>2. MessageId(o) = <<o.data, o.source>>
        BY DEF MessageId
      <4>3. MessageId(o) # MessageId(m)
        BY <1>2, <1>5, <4>1, <4>2
      <4>4. ~Alike(m, o)
        BY <1>2, <4>2, <4>3 DEF Alike
      <4>5. MessageId(o) \notin cache'[p] /\ MessageId(o) \in cache'[o.source]
        BY <2>6, <4>1, <4>3
      <4> QED
        BY <1>5, <2>5, <4>1, <4>4, <4>5
    <3>2. CASE o = m /\ p \in listeners /\ \A q \in published : ~Alike(q, m)
      <4>1. p # n /\ t \in topics[p]
        BY <2>1, <3>2
      <4>2. MessageId(m) \notin cache[p]
        <5>1. ASSUME NEW q \in published, MessageId(q) = MessageId(m) PROVE FALSE
          <6>1. q.data = d /\ q.source = n
            BY <1>2, <5>1 DEF MessageId
          <6> QED
            BY <1>2, <3>2, <6>1 DEF Alike
        <5> QED
          BY <1>0, <5>1 DEF OfPublished
      <4>3. MessageId(m) \notin cache'[p] /\ MessageId(m) \in cache'[n]
        BY <2>6, <4>1, <4>2
      <4> QED
        BY <1>2, <1>5, <2>5, <3>2, <4>1, <4>3
    <3> QED
      BY <1>5, <3>1, <3>2
  <2> QED
    BY <2>7, <2>8, <2>9, <2>10, <2>11 DEF GossipInv
<1> QED
  BY <1>4, <1>5 DEF Publish

\* A copy arrives: every copy with its id is of the same message if a listener
\* waits for it, and no node that has got the message gets it again.
LEMMA ReceiveKept ==
  ASSUME GossipInv, NEW c \in copies, ReceiveCopy(c)
  PROVE  GossipInv'
<1> DEFINE n == c.to
           m == c.msg
           taken == MessageId(m) \notin cache[n] /\ m.topic \in topics[n]
           others == {p \in Linked(n) : m.topic \in topics[p] /\ p \notin {m.via, m.source}}
<1>0. GossipTypeOK /\ Numbered /\ OfPublished /\ GotOnce /\ OwedComes
  BY DEF GossipInv
<1>1. /\ n \in Nodes /\ m \in GossipMessages /\ MessageId(m) = <<m.data, m.source>>
      /\ \A p \in others : p \in Nodes
  BY <1>0 DEF GossipTypeOK, MessageId, Linked
<1>2. /\ cache' = [cache EXCEPT ![n] = @ \cup {MessageId(m)}]
      /\ copies' = (copies \ {c}) \cup (IF taken THEN CopiesOf(m, n, others) ELSE {})
      /\ taken => /\ inbox' = [inbox EXCEPT ![n] = Append(@, m)]
                  /\ owed' = [owed EXCEPT ![n] = {o \in @ : o.number # m.number}]
      /\ ~taken => UNCHANGED <<inbox, owed>>
      /\ UNCHANGED <<topics, published, refused>>
  BY DEF ReceiveCopy
<1>3. PICK pub \in published : Twins(pub, m)
  BY <1>0 DEF OfPublished
<1>4. /\ cache' \in [Nodes -> SUBSET (Data \X Nodes)]
      /\ \A p \in Nodes \ {n} : cache'[p] = cache[p]
      /\ cache'[n] = cache[n] \cup {MessageId(m)}
  BY <1>0, <1>1, <1>2 DEF GossipTypeOK, GossipMessages
<1>5. [m EXCEPT !.via = n] \in GossipMessages
      /\ Twins(m, [m EXCEPT !.via = n]) /\ MessageId([m EXCEPT !.via = n]) = MessageId(m)
  BY <1>1 DEF GossipMessages, Twins, MessageId
<1> HIDE DEF n, m, taken, others
<1>6. \A e \in copies' : \/ e \in copies
                          \/ /\ taken /\ e \in [to : Nodes, msg : GossipMessages]
                             /\ Twins(m, e.msg) /\ MessageId(e.msg) = MessageId(m)
  BY <1>1, <1>2, <1>5 DEF CopiesOf
<1>7. \A p \in Nodes \ {n} : inbox'[p] = inbox[p] /\ owed'[p] = owed[p]
  BY <1>0, <1>2 DEF GossipTypeOK
<1>8. /\ inbox[n] \in Seq(GossipMessages)
      /\ taken => inbox'[n] = Append(inbox[n], m)
      /\ ~taken => inbox'[n] = inbox[n]
  BY <1>0, <1>1, <1>2 DEF GossipTypeOK
<1>9. taken => /\ DOMAIN inbox'[n] = DOMAIN inbox[n] \cup {Len(inbox[n]) + 1}
               /\ Len(inbox[n]) + 1 \notin DOMAIN inbox[n]
               /\ inbox'[n][Len(inbox[n]) + 1] = m
               /\ \A i \in DOMAIN inbox[n] : inbox'[n][i] = inbox[n][i]
  BY <1>1, <1>8, SMTT(40)
<1>10. GossipTypeOK'
  <2>1. copies' \in SUBSET [to : Nodes, msg : GossipMessages]
    BY <1>0, <1>6 DEF GossipTypeOK
  <2>2. inbox' \in [Nodes -> Seq(GossipMessages)]
    <3>1. Append(inbox[n], m) \in Seq(GossipMessages)
      BY <1>1, <1>8
    <3> QED
      BY <1>0, <1>1, <1>2, <3>1 DEF GossipTypeOK
  <2>3. owed' \in [Nodes -> SUBSET GossipMessages]
    BY <1>0, <1>1, <1>2, ZenonT(60) DEF GossipTypeOK
  <2> QED
    BY <1>0, <1>2, <1>4, <2>1, <2>2, <2>3 DEF GossipTypeOK
<1>11. Numbered'
  <2>1. m.number < Cardinality(published)
    BY <1>0, <1>3 DEF Numbered, Twins
  <2>2. ASSUME NEW p \in Nodes, NEW i \in DOMAIN inbox'[p]
        PROVE  inbox'[p][i].number < Cardinality(published)
    BY <1>0, <1>7, <1>8, <1>9, <2>1 DEF Numbered
  <2> QED
    BY <1>0, <1>2, <2>2 DEF Numbered
<1>12. OfPublished'
  <2>1. ASSUME NEW e \in copies' PROVE \E o \in published : Twins(o, e.msg)
    BY <1>0, <1>3, <1>6 DEF OfPublished, Twins
  <2>2. MessageId(pub) = MessageId(m)
    BY <1>3 DEF Twins, MessageId
  <2>3. ASSUME NEW p \in Nodes, NEW id \in cache'[p]
        PROVE  \E o \in published : MessageId(o) = id
    BY <1>0, <1>4, <2>2 DEF OfPublished
  <2> QED
    BY <1>0, <1>2, <2>1, <2>3 DEF OfPublished, Twins, Alike, MessageId
<1>13. \A e \in copies : e.msg.number = m.number => MessageId(e.msg) = MessageId(m)
  <2> SUFFICES ASSUME NEW e \in copies, e.msg.number = m.number
               PROVE  MessageId(e.msg) = MessageId(m)
    OBVIOUS
  <2>1. PICK o \in published : Twins(o, e.msg)
    BY <1>0 DEF OfPublished
  <2>2. o = pub
    BY <1>0, <1>3, <2>1 DEF Numbered, Twins
  <2> QED
    BY <1>3, <2>1, <2>2 DEF Twins, MessageId
<1>14. taken => \A i \in DOMAIN inbox[n] : inbox[n][i].number # m.number
  BY <1>0, <1>1 DEF GotOnce, taken, m, n
<1>15. GotOnce'
  <2>1. ASSUME NEW p \in Nodes, NEW i \in DOMAIN inbox'[p], NEW j \in DOMAIN inbox'[p],
               inbox'[p][i].number = inbox'[p][j].number
        PROVE  i = j
    <3>1. CASE p # n \/ ~taken
      BY <1>0, <1>7, <1>8, <2>1, <3>1 DEF GotOnce
    <3>2. CASE p = n /\ taken
      BY <1>0, <1>1, <1>9, <1>14, <2>1, <3>2 DEF GotOnce
    <3> QED
      BY <3>1, <3>2
  <2>2. ASSUME NEW e \in copies', NEW p \in Nodes, NEW i \in DOMAIN inbox'[p],
               inbox'[p][i].number = e.msg.number
        PROVE  MessageId(e.msg) \in cache'[p]
    <3>1. PICK b \in copies : b.msg.number = e.msg.number /\ MessageId(b.msg) = MessageId(e.msg)
      BY <1>6 DEF Twins, m
    <3>2. CASE inbox'[p][i].number = m.number /\ p = n
      BY <1>4, <1>13, <2>2, <3>1, <3>2
    <3>3. CASE \E j \in DOMAIN inbox[p] : inbox[p][j].number = inbox'[p][i].number
      <4>1. MessageId(b.msg) \in cache[p]
        BY <1>0, <2>2, <3>1, <3>3 DEF GotOnce
      <4> QED
        BY <1>4, <3>1, <4>1
    <3> QED
      BY <1>7, <1>8, <1>9, <3>2, <3>3
  <2> QED
    BY <2>1, <2>2 DEF GotOnce, MessageId
<1>16. OwedComes'
  <2> SUFFICES ASSUME NEW p \in Nodes, NEW o \in owed'[p]
               PROVE  /\ o \in published /\ o.source # p /\ o.via = o.source
                      /\ o.topic \in topics[p]
                      /\ MessageId(o) \notin cache'[p] /\ MessageId(o) \in cache'[o.source]
                      /\ [to |-> p, msg |-> o] \in copies'
                      /\ \A q \in published : Alike(q, o) => q = o
    BY <1>2 DEF OwedComes, MessageId, Alike
  <2>1. o \in owed[p] /\ (p = n /\ taken => o.number # m.number)
    BY <1>0, <1>1, <1>2 DEF GossipTypeOK
  <2>2. /\ o \in published /\ o.source # p /\ o.via = o.source /\ o.topic \in topics[p]
        /\ MessageId(o) \notin cache[p] /\ MessageId(o) \in cache[o.source]
        /\ [to |-> p, msg |-> o] \in copies
        /\ \A q \in published : Alike(q, o) => q = o
        /\ o.source \in Nodes
    BY <1>0, <2>1 DEF OwedComes, GossipTypeOK, GossipMessages
  <2>3. ASSUME p = n PROVE MessageId(o) # MessageId(m)
    <3> SUFFICES ASSUME MessageId(o) = MessageId(m) PROVE FALSE
      OBVIOUS
    <3>1. pub.data = o.data /\ pub.source = o.source
      BY <1>3 DEF MessageId, Twins
    <3>2. pub = o
      BY <2>2, <3>1 DEF Alike
    <3>3. m.topic = o.topic /\ m.number = o.number
      BY <1>3, <3>2 DEF Twins
    <3>4. taken
      BY <2>2, <2>3, <3>3 DEF taken
    <3> QED
      BY <2>1, <2>3, <3>3, <3>4
  <2>4. MessageId(o) \notin cache'[p] /\ MessageId(o) \in cache'[o.source]
    BY <1>1, <1>4, <2>2, <2>3
  <2>5. [to |-> p, msg |-> o] # c
    BY <2>3 DEF n, m
  <2> QED
    BY <1>2, <2>2, <2>4, <2>5
<1> QED
  BY <1>10, <1>11, <1>12, <1>15, <1>16 DEF GossipInv

\* Every call on a swarm, and every step of the library, keeps gossip in order.
LEMMA GossipInvNext ==
  GossipInv /\ [DhtNext \/ GossipNext]_swarmVars => GossipInv'
<1> SUFFICES ASSUME GossipInv, [DhtNext \/ GossipNext]_swarmVars PROVE GossipInv'
  OBVIOUS
<1>1. CASE DhtNext
  <2>1. ASSUME NEW n \in Nodes, Restart(n) PROVE GossipInv'
    BY <2>1, RestartGossip
  <2>2. ASSUME NEW n \in Nodes, (\E p \in Nodes : AddAddress(n, p)) \/ ModeChanges(n)
        PROVE  UNCHANGED gossipVars
    BY <2>2 DEF AddAddress, ModeChanges
  <2>3. ASSUME NEW n \in Nodes, NEW k \in Dhts,
               Bootstrap(n, k) \/ Replicate(n, k) \/ RemoveRecord(n, k)
                 \/ \E key \in Keys : GetRecord(n, k, key)
        PROVE  UNCHANGED gossipVars
    BY <2>3 DEF Bootstrap, Replicate, RemoveRecord, GetRecord
  <2>4. ASSUME NEW n, NEW k, NEW r, PutRecord(n, k, r) PROVE UNCHANGED gossipVars
    BY <2>4 DEF PutRecord
  <2>5. Ask \/ EndQuery => UNCHANGED gossipVars
    BY DEF Ask, EndQuery
  <2> QED
    BY <1>1, <2>1, <2>2, <2>3, <2>4, <2>5, GossipQuiet DEF DhtNext
<1>2. CASE GossipNext
  BY <1>2, SubscribeKept, UnsubscribeKept, PublishKept, ForgetKept, RestartGossip, ReceiveKept
     DEF GossipNext
<1>3. CASE UNCHANGED swarmVars
  BY <1>3, GossipQuiet DEF swarmVars, gossipVars
<1> QED
  BY <1>1, <1>2, <1>3

\* At the start nothing is published.
LEMMA GossipInvInit == SwarmInit => GossipInv
<1> SUFFICES ASSUME SwarmInit PROVE GossipInv
  OBVIOUS
<1>1. /\ topics = [n \in Nodes |-> {}] /\ cache = [n \in Nodes |-> {}] /\ copies = {}
      /\ inbox = [n \in Nodes |-> <<>>] /\ owed = [n \in Nodes |-> {}]
      /\ published = {} /\ refused = {}
  BY DEF SwarmInit, GossipInit
<1>2. <<>> \in Seq(GossipMessages) /\ DOMAIN <<>> = {} /\ IsFiniteSet(published)
  BY <1>1, FS_EmptySet
<1>3. GossipTypeOK
  BY <1>1, <1>2 DEF GossipTypeOK
<1>4. \A n \in Nodes : DOMAIN inbox[n] = {}
  BY <1>1, <1>2
<1>5. Numbered /\ OfPublished /\ GotOnce
  BY <1>1, <1>4 DEF Numbered, OfPublished, GotOnce
<1>6. OwedComes
  BY <1>1 DEF OwedComes
<1> QED
  BY <1>3, <1>5, <1>6 DEF GossipInv

\* message_id_fn: for any nodes, links, topics and contents, whatever leaves,
\* returns and forgets, the application gets a message once, a publication is
\* refused only to a peer that published the content before, and a listener
\* waits for a message only while a copy is on its way.
THEOREM MessagesOnce == SwarmSpec => []EachMessageOnce
<1>1. GossipInv => EachMessageOnce
  BY DEF GossipInv, OfPublished, GotOnce, OwedComes, EachMessageOnce
<1> QED
  BY <1>1, GossipInvInit, GossipInvNext, PTL DEF SwarmSpec

-----------------------------------------------------------------------------
(***************************************************************************)
(* Peer exchange.                                                          *)
(***************************************************************************)

\* Ages stay ages.
LEMMA OlderType ==
  ASSUME NEW a \in Ages
  PROVE  Older(a) \in Ages
<1>1. AgeCap \in Nat
  BY PexAssumption DEF AgeCap
<1> QED
  BY <1>1, PexAssumption DEF Ages, Older

\* What peers_to_share returns is known and leaves out the receiver.
LEMMA SharedLeavesOut ==
  ASSUME NEW n, NEW m, NEW S \in PeersToShare(n, m)
  PROVE  S \subseteq known_peers[n] /\ m \notin S
  BY DEF PeersToShare

\* The invariant holds initially.
LEMMA PexInvInit == Init => PexInv
  BY DEF Init, PexInv, TypeOK, NeverItself, ReceiverLeftOut, Ages

\* Every step preserves it: a node's peers come from its own connections or
\* from an exchange that leaves it out.
LEMMA PexStep == PexInv /\ [Next]_vars => PexInv'
<1> SUFFICES ASSUME PexInv, [Next]_vars PROVE PexInv'
  OBVIOUS
<1> USE DEF PexInv
<1>0. 0 \in Ages /\ Never \in Ages /\ AgeCap \in Nat
  BY PexAssumption DEF Ages, AgeCap
<1>1. ASSUME NEW l \in Links, SendPex(l[1], l[2]) PROVE PexInv'
  <2>1. l[1] \in Nodes /\ l[2] \in Nodes /\ <<l[1], l[2]>> \in Links
    BY <1>1, TopologyAssumption DEF SendPex
  <2>2. PICK S \in PeersToShare(l[1], l[2]) :
          network' = network \cup {[from |-> l[1], to |-> l[2], peers |-> S]}
    BY <1>1 DEF SendPex
  <2>3. S \subseteq Nodes /\ l[2] \notin S
    BY <2>1, <2>2, SharedLeavesOut DEF TypeOK
  <2>4. last_sent' \in [Links -> Ages]
    BY <1>0, <1>1 DEF SendPex, TypeOK
  <2>5. network' \subseteq Messages
    BY <2>1, <2>2, <2>3 DEF TypeOK, Messages
  <2>6. TypeOK'
    BY <1>1, <2>4, <2>5 DEF SendPex, TypeOK
  <2>7. NeverItself'
    BY <1>1 DEF SendPex, NeverItself
  <2>8. ReceiverLeftOut'
    BY <2>2, <2>3 DEF ReceiverLeftOut
  <2> QED
    BY <2>6, <2>7, <2>8
<1>2. ASSUME NEW l \in Links, NEW addressed \in BOOLEAN,
             AddPeer(l[1], l[2], addressed)
      PROVE  PexInv'
  <2>1. l[1] \in Nodes /\ l[2] \in Nodes /\ l[1] # l[2]
    BY TopologyAssumption
  <2>3. TypeOK'
    BY <1>2, <2>1 DEF AddPeer, TypeOK
  <2>4. NeverItself'
    BY <1>2, <2>1 DEF AddPeer, NeverItself, TypeOK
  <2>5. ReceiverLeftOut'
    BY <1>2 DEF AddPeer, ReceiverLeftOut
  <2> QED
    BY <2>3, <2>4, <2>5
<1>3. ASSUME NEW n \in Nodes, NEW R, ForgetPeers(n, R),
             UNCHANGED <<network, losses>>,
             removals' \in Nat, cleanups' \in Nat
      PROVE  PexInv'
  <2>1. last_sent' \in [Links -> Ages]
    BY <1>0, <1>3 DEF ForgetPeers, TypeOK
  <2>2. known_peers' \in [Nodes -> SUBSET Nodes]
    BY <1>3 DEF ForgetPeers, TypeOK
  <2>3. NeverItself'
    BY <1>3 DEF ForgetPeers, NeverItself, TypeOK
  <2> QED
    BY <1>3, <2>1, <2>2, <2>3 DEF TypeOK, ReceiverLeftOut
<1>4. ASSUME NEW l \in Links, RemovePeer(l[1], l[2]) PROVE PexInv'
  <2>1. l[1] \in Nodes
    BY TopologyAssumption
  <2> QED
    BY <1>3, <1>4, <2>1 DEF RemovePeer, TypeOK
<1>5. ASSUME NEW n \in Nodes, CleanupStalePeers(n) PROVE PexInv'
  BY <1>3, <1>5 DEF CleanupStalePeers, TypeOK
<1>6. ASSUME NEW msg \in network, ReceivePex(msg) PROVE PexInv'
  <2>1. msg \in Messages /\ msg.to \notin msg.peers
    BY DEF TypeOK, ReceiverLeftOut
  <2>2. TypeOK'
    BY <1>6, <2>1 DEF ReceivePex, TypeOK, Messages
  <2>3. NeverItself'
    BY <1>6, <2>1 DEF ReceivePex, NeverItself, TypeOK, Messages
  <2> QED
    BY <1>6, <2>2, <2>3 DEF ReceivePex, ReceiverLeftOut
<1>7. ASSUME NEW msg \in network, LosePex(msg) PROVE PexInv'
  BY <1>7 DEF LosePex, TypeOK, NeverItself, ReceiverLeftOut
<1>8. ASSUME Tick PROVE PexInv'
  <2>1. last_sent' \in [Links -> Ages]
    BY <1>8, OlderType, PexAssumption DEF Tick, TypeOK
  <2> QED
    BY <1>8, <2>1 DEF Tick, TypeOK, NeverItself, ReceiverLeftOut
<1>9. ASSUME UNCHANGED vars PROVE PexInv'
  BY <1>9 DEF vars, TypeOK, NeverItself, ReceiverLeftOut
<1> QED
  BY <1>1, <1>2, <1>4, <1>5, <1>6, <1>7, <1>8, <1>9 DEF Next

\* The peer lists keep their types, no node is in its own, and the list in a
\* message does not name the node it is on its way to (peers_to_share).
THEOREM PexInvariance == Spec => []PexInv
BY PexInvInit, PexStep, PTL DEF Spec

\* No node ever takes itself for a peer, although receive_pex does not look.
THEOREM NeverItselfTheorem == Spec => []NeverItself
<1>1. PexInv => NeverItself
  BY DEF PexInv
<1> QED
  BY PexInvariance, <1>1, PTL

-----------------------------------------------------------------------------
(***************************************************************************)
(* Frames on a stream: FrameStream implements FrameLink.                   *)
(***************************************************************************)
Byte == 0..(ByteBase - 1)

\* Reversing the bytes of a number twice.
LEMMA ReverseTwice ==
  ASSUME NEW S, NEW s \in Seq(S)
  PROVE  Reverse(s) \in Seq(S) /\ Len(Reverse(s)) = Len(s) /\ Reverse(Reverse(s)) = s
<1> DEFINE n == Len(s)
           r == Reverse(s)
<1>1. n \in Nat /\ \A i \in 1..n : s[i] \in S
  OBVIOUS
<1>2. r = [i \in 1..n |-> s[(n - i) + 1]]
  BY DEF Reverse
<1>3. \A i \in 1..n : (n - i) + 1 \in 1..n /\ (n - ((n - i) + 1)) + 1 = i
  BY <1>1
<1>4. IsList(r, n) /\ r \in Seq(S)
  BY <1>1, <1>2, <1>3 DEF IsList
<1> HIDE DEF r
<1>5. Len(r) = n
  BY <1>4, ListLen
<1> HIDE DEF n
<1>6. Reverse(r) = [i \in 1..n |-> r[(n - i) + 1]]
  BY <1>5 DEF Reverse
<1>7. Reverse(r) = [i \in 1..n |-> s[i]]
  BY <1>2, <1>3, <1>6
<1>8. s = [i \in 1..n |-> s[i]]
  BY DEF n
<1> QED
  BY <1>4, <1>5, <1>7, <1>8 DEF r, n

\* to_be_bytes and from_be_bytes.
LEMMA BigEndianRead ==
  ASSUME NEW w \in Nat, NEW n \in Nat, n < Power(ByteBase, w)
  PROVE  /\ BigEndian(n, w) \in Seq(Byte) /\ Len(BigEndian(n, w)) = w
         /\ FromBigEndian(BigEndian(n, w)) = n
<1> DEFINE d == Digits(n, ByteBase, w)
<1>1. ByteBase \in Nat \ {0}
  BY FrameAssumption
<1>2. IsList(d, w) /\ (\A i \in 1..w : d[i] \in Byte) /\ ValueOf(d, ByteBase) = n
  BY <1>1, DigitsRead DEF Byte
<1> HIDE DEF d
<1>3. d \in Seq(Byte) /\ Len(d) = w
  <2>1. Len(d) = w
    BY <1>2, ListLen
  <2>2. d \in [1..w -> Byte]
    BY <1>2 DEF IsList
  <2> QED
    BY <2>1, <2>2
<1>4. Reverse(d) \in Seq(Byte) /\ Len(Reverse(d)) = w /\ Reverse(Reverse(d)) = d
  BY <1>3, ReverseTwice
<1> QED
  BY <1>2, <1>4 DEF BigEndian, FromBigEndian, d

\* Frames that write_raw_frame takes on.
Writable == {f \in Frames : Len(f.payload) <= MaxFramePayload}

\* Encode and what read_raw_frame makes of the bytes: the length is known once
\* the header is, and the whole decodes to the frame.
LEMMA EncodeRead ==
  ASSUME NEW f \in Writable
  PROVE  /\ Encode(f) \in Seq(Byte) /\ HeaderLen \in Nat \ {0}
         /\ Len(Encode(f)) = HeaderLen + Len(f.payload) /\ Len(f.payload) \in Nat
         /\ Len(f.payload) <= MaxFramePayload
         /\ \A b \in Seq(Byte) :
              Len(b) >= HeaderLen /\ (\A i \in 1..HeaderLen : b[i] = Encode(f)[i])
                => LengthIn(b) = Len(f.payload)
         /\ Decode(Encode(f)) = f
<1> DEFINE S == SeqWidth
           L == LenWidth
           H == HeaderLen
           p == f.payload
           n == Len(p)
           a == BigEndian(f.seq_id, S)
           t == <<f.msg_type>>
           l == BigEndian(n, L)
           x == a \o t
           y == x \o l
           e == y \o p
<1>1. /\ S \in Nat \ {0} /\ L \in Nat \ {0} /\ H = S + 1 + L /\ ByteBase \in Nat \ {0}
      /\ f = [seq_id |-> f.seq_id, msg_type |-> f.msg_type, payload |-> p]
      /\ f.seq_id \in Nat /\ f.seq_id < Power(ByteBase, S)
      /\ f.msg_type \in Byte /\ p \in Seq(Byte)
      /\ n \in Nat /\ n <= MaxFramePayload /\ MaxFramePayload \in Nat
      /\ MaxFramePayload < Power(ByteBase, L) /\ Power(ByteBase, L) \in Nat
  <2>1. f \in Frames /\ n <= MaxFramePayload
    BY DEF Writable
  <2>2. S \in Nat \ {0} /\ L \in Nat \ {0} /\ ByteBase \in Nat \ {0} /\ MaxFramePayload \in Nat
        /\ MaxFramePayload < Power(ByteBase, L)
    BY FrameAssumption
  <2>3. /\ f = [seq_id |-> f.seq_id, msg_type |-> f.msg_type, payload |-> p]
        /\ f.seq_id \in 0..(Power(ByteBase, S) - 1) /\ f.msg_type \in Byte /\ p \in Seq(Byte)
    BY <2>1, FrameAssumption DEF Byte
  <2>4. Power(ByteBase, S) \in Nat /\ Power(ByteBase, L) \in Nat
    BY <2>2, PowerType
  <2>5. n \in Nat
    BY <2>3, LenProperties
  <2>6. H = S + 1 + L
    BY DEF HeaderLen
  <2>7. f.seq_id \in Nat /\ f.seq_id < Power(ByteBase, S)
    BY <2>3, <2>4
  <2> QED
    BY <2>1, <2>2, <2>3, <2>4, <2>5, <2>6, <2>7
<1>2. a \in Seq(Byte) /\ Len(a) = S /\ FromBigEndian(a) = f.seq_id
  BY <1>1, BigEndianRead
<1>3. l \in Seq(Byte) /\ Len(l) = L /\ FromBigEndian(l) = n
  <2>1. n < Power(ByteBase, L)
    BY <1>1
  <2> QED
    BY <1>1, <2>1, BigEndianRead
<1>4. t \in Seq(Byte) /\ Len(t) = 1 /\ t[1] = f.msg_type
  BY <1>1
<1>5. Encode(f) = e
  BY DEF Encode
<1>6. H = HeaderLen
  OBVIOUS
<1> HIDE DEF S, L, H, p, n, a, t, l
<1>num. S \in Nat \ {0} /\ L \in Nat \ {0} /\ n \in Nat /\ H = S + 1 + L /\ H \in Nat \ {0}
  BY <1>1
<1>7. /\ x \in Seq(Byte) /\ Len(x) = S + 1
      /\ \A i \in 1..S : x[i] = a[i]
      /\ x[S + 1] = f.msg_type
  <2>1. /\ x \in Seq(Byte) /\ Len(x) = Len(a) + Len(t)
        /\ \A i \in 1..(Len(a) + Len(t)) : x[i] = IF i <= Len(a) THEN a[i] ELSE t[i - Len(a)]
    BY <1>2, <1>4, ConcatProperties
  <2> HIDE DEF x
  <2>2. \A i \in 1..(S + 1) : x[i] = IF i <= S THEN a[i] ELSE t[i - S]
    BY <1>2, <1>4, <2>1
  <2>3. (S + 1) - S = 1 /\ S + 1 \in 1..(S + 1) /\ ~(S + 1 <= S)
    BY <1>num
  <2>4. \A i \in 1..S : i \in 1..(S + 1) /\ i <= S
    BY <1>num
  <2> QED
    BY <1>2, <1>4, <2>1, <2>2, <2>3, <2>4
<1> HIDE DEF x
<1>8. /\ y \in Seq(Byte) /\ Len(y) = H
      /\ \A i \in 1..(S + 1) : y[i] = x[i]
      /\ \A i \in 1..L : y[(S + 1) + i] = l[i]
  <2>1. /\ y \in Seq(Byte) /\ Len(y) = Len(x) + Len(l)
        /\ \A i \in 1..(Len(x) + Len(l)) : y[i] = IF i <= Len(x) THEN x[i] ELSE l[i - Len(x)]
    BY <1>3, <1>7, ConcatProperties
  <2> HIDE DEF y
  <2>2. H = (S + 1) + L
    BY <1>num
  <2>3. \A i \in 1..((S + 1) + L) : y[i] = IF i <= S + 1 THEN x[i] ELSE l[i - (S + 1)]
    BY <1>3, <1>7, <2>1
  <2>4. \A i \in 1..L : (S + 1) + i \in 1..((S + 1) + L) /\ ~((S + 1) + i <= S + 1)
                        /\ ((S + 1) + i) - (S + 1) = i
    BY <1>num
  <2>5. \A i \in 1..(S + 1) : i \in 1..((S + 1) + L) /\ i <= S + 1
    BY <1>num
  <2> QED
    BY <1>3, <1>7, <2>1, <2>2, <2>3, <2>4, <2>5
<1> HIDE DEF y
<1>9. /\ e \in Seq(Byte) /\ Len(e) = H + n
      /\ \A i \in 1..H : e[i] = y[i]
      /\ \A i \in 1..n : e[H + i] = p[i]
  <2>1. /\ e \in Seq(Byte) /\ Len(e) = Len(y) + Len(p)
        /\ \A i \in 1..(Len(y) + Len(p)) : e[i] = IF i <= Len(y) THEN y[i] ELSE p[i - Len(y)]
    BY <1>1, <1>8, ConcatProperties
  <2> HIDE DEF e
  <2>2. Len(p) = n /\ H \in Nat
    BY <1>1 DEF n
  <2>3. \A i \in 1..(H + n) : e[i] = IF i <= H THEN y[i] ELSE p[i - H]
    BY <1>8, <2>1, <2>2
  <2>4. \A i \in 1..n : H + i \in 1..(H + n) /\ ~(H + i <= H) /\ (H + i) - H = i
    BY <1>num
  <2>5. \A i \in 1..H : i \in 1..(H + n) /\ i <= H
    BY <1>num
  <2> QED
    BY <1>8, <2>1, <2>2, <2>3, <2>4, <2>5
<1> HIDE DEF e
<1>10. H \in Nat \ {0} /\ S + 2 \in Int /\ H - (S + 2) + 1 = L /\ S + 2 <= H /\ S <= H /\ S + 1 <= H
  BY <1>num
<1>11. ASSUME NEW b \in Seq(Byte), Len(b) >= H, \A i \in 1..H : b[i] = e[i]
       PROVE  LengthIn(b) = n
  <2>1. \A i \in (S + 2)..H : b[i] \in Byte
    <3>1. Len(b) \in Nat /\ \A i \in 1..Len(b) : b[i] \in Byte
      BY LenProperties
    <3> QED
      BY <1>num, <1>11, <3>1
  <2>2. /\ SubSeq(b, S + 2, H) \in Seq(Byte)
        /\ Len(SubSeq(b, S + 2, H)) = IF S + 2 <= H THEN H - (S + 2) + 1 ELSE 0
        /\ \A i \in 1..(H - (S + 2) + 1) : SubSeq(b, S + 2, H)[i] = b[(S + 2) + i - 1]
    BY <1>10, <2>1, SubSeqProperties
  <2>3. \A i \in 1..L : SubSeq(b, S + 2, H)[i] = l[i]
    <3> TAKE i \in 1..L
    <3>1. (S + 2) + i - 1 = (S + 1) + i /\ (S + 1) + i \in 1..H
      BY <1>num
    <3>2. SubSeq(b, S + 2, H)[i] = b[(S + 1) + i]
      BY <1>10, <2>2, <3>1
    <3> QED
      BY <1>8, <1>9, <1>11, <3>1, <3>2
  <2>4. SubSeq(b, S + 2, H) = l
    BY <1>3, <1>10, <2>2, <2>3, SeqEqual
  <2> QED
    BY <1>3, <2>4 DEF LengthIn, H, S
<1>12. \A i \in 1..(H + n) : e[i] \in Byte
  BY <1>9, LenProperties
<1>13. SubSeq(e, 1, S) = a
  <2>1. \A i \in 1..S : e[i] \in Byte
    BY <1>num, <1>12
  <2>2. /\ SubSeq(e, 1, S) \in Seq(Byte)
        /\ Len(SubSeq(e, 1, S)) = IF 1 <= S THEN S - 1 + 1 ELSE 0
        /\ \A i \in 1..(S - 1 + 1) : SubSeq(e, 1, S)[i] = e[1 + i - 1]
    BY <1>num, <2>1, SubSeqProperties
  <2>3. S - 1 + 1 = S /\ 1 <= S /\ \A i \in 1..S : 1 + i - 1 = i /\ i \in 1..H /\ i \in 1..(S + 1)
    BY <1>num
  <2>4. \A i \in 1..S : SubSeq(e, 1, S)[i] = a[i]
    BY <1>7, <1>8, <1>9, <2>2, <2>3
  <2>5. Len(SubSeq(e, 1, S)) = S
    BY <2>2, <2>3
  <2> QED
    BY <1>2, <2>2, <2>4, <2>5, SeqEqual
<1>14. e[S + 1] = f.msg_type
  <2>1. S + 1 \in 1..H /\ S + 1 \in 1..(S + 1)
    BY <1>num
  <2> QED
    BY <1>7, <1>8, <1>9, <2>1
<1>15. SubSeq(e, H + 1, H + n) = p
  <2>1. \A i \in (H + 1)..(H + n) : e[i] \in Byte
    BY <1>num, <1>12
  <2>2. /\ SubSeq(e, H + 1, H + n) \in Seq(Byte)
        /\ Len(SubSeq(e, H + 1, H + n)) = IF H + 1 <= H + n THEN (H + n) - (H + 1) + 1 ELSE 0
        /\ \A i \in 1..((H + n) - (H + 1) + 1) : SubSeq(e, H + 1, H + n)[i] = e[(H + 1) + i - 1]
    <3>1. H + 1 \in Int /\ H + n \in Int
      BY <1>num
    <3> QED
      BY <2>1, <3>1, SubSeqProperties
  <2>3. (H + n) - (H + 1) + 1 = n /\ \A i \in 1..n : (H + 1) + i - 1 = H + i
    BY <1>num
  <2>4. \A i \in 1..n : SubSeq(e, H + 1, H + n)[i] = p[i]
    BY <1>9, <2>2, <2>3
  <2>5. Len(SubSeq(e, H + 1, H + n)) = n
    BY <1>num, <2>2, <2>3
  <2> QED
    BY <1>1, <2>2, <2>4, <2>5, SeqEqual DEF n
<1>16. Decode(e) = f
  <2>1. Decode(e) = [seq_id |-> f.seq_id, msg_type |-> f.msg_type, payload |-> p]
    BY <1>2, <1>9, <1>13, <1>14, <1>15 DEF Decode, H, S
  <2> QED
    BY <1>1, <2>1
<1> QED
  BY <1>1, <1>5, <1>9, <1>10, <1>11, <1>16 DEF H, n, p

-----------------------------------------------------------------------------
\* Bytes move from the front of one sequence to the end of the one before it.
LEMMA ShiftByte ==
  ASSUME NEW S, NEW x \in Seq(S), NEW y \in Seq(S), y # <<>>
  PROVE  /\ Append(x, Head(y)) \in Seq(S) /\ Tail(y) \in Seq(S) /\ Head(y) \in S
         /\ Len(Append(x, Head(y))) = Len(x) + 1 /\ Len(Tail(y)) = Len(y) - 1
         /\ Append(x, Head(y)) \o Tail(y) = x \o y
<1> DEFINE u == Append(x, Head(y))
           v == Tail(y)
           m == Len(x)
           n == Len(y)
<1>1. /\ v \in Seq(S) /\ Len(v) = n - 1 /\ Head(y) \in S /\ Head(y) = y[1]
      /\ \A i \in 1..(n - 1) : v[i] = y[i + 1]
  <2>1. Head(y) \in S /\ v \in Seq(S) /\ Len(v) = n - 1 /\ \A i \in 1..Len(v) : v[i] = y[i + 1]
    BY HeadTailProperties
  <2>2. Head(y) = y[1]
    OBVIOUS
  <2> QED
    BY <2>1, <2>2
<1>2. u \in Seq(S) /\ Len(u) = m + 1 /\ u[m + 1] = y[1] /\ \A i \in 1..m : u[i] = x[i]
  BY <1>1
<1>3. m \in Nat /\ n \in Nat \ {0}
  BY EmptySeq
<1> HIDE DEF u, v
<1>4. /\ u \o v \in Seq(S) /\ Len(u \o v) = m + n
      /\ \A i \in 1..(m + n) : (u \o v)[i] = IF i <= m + 1 THEN u[i] ELSE v[i - (m + 1)]
  <2>1. /\ u \o v \in Seq(S) /\ Len(u \o v) = Len(u) + Len(v)
        /\ \A i \in 1..(Len(u) + Len(v)) : (u \o v)[i] = IF i <= Len(u) THEN u[i] ELSE v[i - Len(u)]
    BY <1>1, <1>2, ConcatProperties
  <2>2. Len(u) = m + 1 /\ Len(v) = n - 1 /\ (m + 1) + (n - 1) = m + n
    BY <1>1, <1>2, <1>3
  <2> QED
    BY <2>1, <2>2
<1>5. /\ x \o y \in Seq(S) /\ Len(x \o y) = m + n
      /\ \A i \in 1..(m + n) : (x \o y)[i] = IF i <= m THEN x[i] ELSE y[i - m]
  BY ConcatProperties
<1> HIDE DEF m, n
<1>6. \A i \in 1..(m + n) : (u \o v)[i] = (x \o y)[i]
  <2> TAKE i \in 1..(m + n)
  <2>1. CASE i <= m
    <3>1. i \in 1..m /\ i <= m + 1
      BY <1>3, <2>1
    <3> QED
      BY <1>2, <1>4, <1>5, <3>1
  <2>2. CASE i = m + 1
    <3>1. ~(i <= m) /\ i <= m + 1 /\ i - m = 1
      BY <1>3, <2>2
    <3> QED
      BY <1>2, <1>4, <1>5, <2>2, <3>1
  <2>3. CASE i > m + 1
    <3>1. /\ ~(i <= m) /\ ~(i <= m + 1) /\ i - (m + 1) \in 1..(n - 1)
          /\ (i - (m + 1)) + 1 = i - m
      BY <1>3, <2>3
    <3>2. v[i - (m + 1)] = y[i - m]
      BY <1>1, <3>1
    <3> QED
      BY <1>4, <1>5, <3>1, <3>2
  <2>4. i <= m \/ i = m + 1 \/ i > m + 1
    BY <1>3
  <2> QED
    BY <2>1, <2>2, <2>3, <2>4
<1>7. u \o v = x \o y
  BY <1>4, <1>5, <1>6, SeqEqual
<1> QED
  BY <1>1, <1>2, <1>7 DEF u, v, m, n

\* Concatenation, kept folded: the provers take \o apart byte by byte.
Join(x, y) == x \o y

\* The bytes that are under way, first those the reader has taken.
Line(g, w, b, e) == Join(g, Join(w, Join(b, e)))

Pipe == Line(got, wire, buffer, rest)

\* The frames' encodings follow each other in all; at[i] is where frame i ends.
Framed(all, at, frames) ==
  /\ at \in [Nat -> Nat] /\ at[0] = 0
  /\ \A i, j \in 0..Len(frames) : i <= j => at[i] <= at[j]
  /\ \A i \in 1..Len(frames) :
       /\ at[i] = at[i - 1] + Len(Encode(frames[i]))
       /\ \A j \in 1..Len(Encode(frames[i])) : all[at[i - 1] + j] = Encode(frames[i])[j]

\* The bytes p are those of all from position k on, all of them up to the end
\* if the stream is open.
Aligned(all, k, end, p) ==
  /\ k + Len(p) <= end /\ (~closed => k + Len(p) = end)
  /\ \A i \in 1..Len(p) : p[i] = all[k + i]

StreamTypes ==
  /\ writer \in {"idle", "write_all", "flush"} /\ closed \in BOOLEAN
  /\ reader \in {"reading", "failed"}
  /\ rest \in Seq(Byte) /\ buffer \in Seq(Byte) /\ wire \in Seq(Byte) /\ got \in Seq(Byte)
  /\ sent \in Seq(Writable) /\ received \in Seq(Writable)

\* Where the calls are.
CallsOK ==
  /\ writer # "write_all" => rest = <<>>
  /\ writer = "write_all" => rest # <<>> /\ Len(rest) <= Len(Encode(Last(sent)))
  /\ writer # "idle" => sent # <<>> /\ ~closed
  /\ closed => buffer = <<>>
  /\ reader = "failed" => closed

ReceivedPrefix ==
  /\ Len(received) <= Len(sent)
  /\ \A i \in 1..Len(received) : received[i] = sent[i]

\* The bytes under way are those of the frames that are sent and not received,
\* and what the reader has taken is less than a frame.
BytesOK ==
  LET r == Len(received)
  IN  /\ \E all, at : Framed(all, at, sent) /\ Aligned(all, at[r], at[Len(sent)], Pipe)
      /\ got # <<>> => r < Len(sent) /\ Len(got) < Len(Encode(sent[r + 1]))

StreamInv ==
  /\ cut \in BOOLEAN
  /\ ~cut => StreamTypes /\ CallsOK /\ ReceivedPrefix /\ (reader = "reading" => BytesOK)

\* The sent frames as FrameLink sees them.
Begun == IF rest # <<>> /\ rest = Encode(Last(sent)) THEN Front(sent) ELSE sent

LEMMA FramesOK ==
  ASSUME NEW fs \in Seq(Writable)
  PROVE  /\ Len(fs) \in Nat
         /\ \A i \in 1..Len(fs) : /\ fs[i] \in Writable /\ Encode(fs[i]) \in Seq(Byte)
                                  /\ Len(Encode(fs[i])) \in Nat \ {0}
<1>1. Len(fs) \in Nat /\ \A i \in 1..Len(fs) : fs[i] \in Writable
  BY LenProperties
<1>2. \A f \in Writable : Encode(f) \in Seq(Byte) /\ Len(Encode(f)) \in Nat \ {0}
  <2> TAKE f \in Writable
  <2>1. /\ Encode(f) \in Seq(Byte) /\ HeaderLen \in Nat \ {0} /\ Len(f.payload) \in Nat
        /\ Len(Encode(f)) = HeaderLen + Len(f.payload)
    BY EncodeRead
  <2> QED
    BY <2>1
<1> QED
  BY <1>1, <1>2

\* A frame more at the end.
LEMMA FramedMore ==
  ASSUME NEW fs \in Seq(Writable), NEW f \in Writable, NEW all, NEW at, Framed(all, at, fs)
  PROVE  \E a, t : /\ Framed(a, t, Append(fs, f))
                   /\ \A i \in 0..Len(fs) : t[i] = at[i]
                   /\ t[Len(fs) + 1] = at[Len(fs)] + Len(Encode(f))
                   /\ \A k \in 1..at[Len(fs)] : a[k] = all[k]
                   /\ \A j \in 1..Len(Encode(f)) : a[at[Len(fs)] + j] = Encode(f)[j]
<1> DEFINE n == Len(fs)
           e == Encode(f)
           end == at[n]
           t == [i \in Nat |-> IF i = n + 1 THEN end + Len(e) ELSE at[i]]
           a == [k \in 1..(end + Len(e)) |-> IF k <= end THEN all[k] ELSE e[k - end]]
           gs == Append(fs, f)
<1>1. /\ n \in Nat /\ e \in Seq(Byte) /\ Len(e) \in Nat \ {0}
      /\ \A i \in 1..n : Len(Encode(fs[i])) \in Nat \ {0}
  <2>1. n \in Nat /\ \A i \in 1..n : Len(Encode(fs[i])) \in Nat \ {0}
    BY FramesOK
  <2>2. /\ e \in Seq(Byte) /\ HeaderLen \in Nat \ {0} /\ Len(f.payload) \in Nat
        /\ Len(e) = HeaderLen + Len(f.payload)
    BY EncodeRead
  <2> QED
    BY <2>1, <2>2
<1>2. /\ at \in [Nat -> Nat] /\ at[0] = 0 /\ end \in Nat
      /\ \A i, j \in 0..n : i <= j => at[i] <= at[j]
      /\ \A i \in 1..n : at[i] = at[i - 1] + Len(Encode(fs[i]))
      /\ \A i \in 1..n : \A j \in 1..Len(Encode(fs[i])) : all[at[i - 1] + j] = Encode(fs[i])[j]
  BY <1>1 DEF Framed
<1>3. Len(gs) = n + 1 /\ gs[n + 1] = f /\ \A i \in 1..n : gs[i] = fs[i]
  BY <1>1
<1> HIDE DEF e, n, gs, end
<1>4. t \in [Nat -> Nat] /\ (\A i \in 0..n : t[i] = at[i]) /\ t[n + 1] = end + Len(e)
  BY <1>1, <1>2
<1>5. (\A k \in 1..end : a[k] = all[k]) /\ \A j \in 1..Len(e) : a[end + j] = e[j]
  <2>1. ASSUME NEW k \in 1..end
        PROVE  a[k] = all[k]
    BY <1>1, <1>2
  <2>2. ASSUME NEW j \in 1..Len(e)
        PROVE  a[end + j] = e[j]
    <3>1. end + j \in 1..(end + Len(e)) /\ ~(end + j <= end) /\ (end + j) - end = j
      BY <1>1, <1>2
    <3> QED
      BY <3>1
  <2> QED
    BY <2>1, <2>2
<1> HIDE DEF a, t
<1>6. \A i, j \in 0..(n + 1) : i <= j => t[i] <= t[j]
  <2> TAKE i, j \in 0..(n + 1)
  <2> HAVE i <= j
  <2>1. CASE j \in 0..n
    <3>1. i \in 0..n
      BY <1>1, <2>1
    <3> QED
      BY <1>2, <1>4, <2>1, <3>1
  <2>2. CASE j = n + 1 /\ i \in 0..n
    <3>1. n \in 0..n /\ i <= n
      BY <1>1, <2>2
    <3>2. at[i] <= end /\ at[i] \in Nat
      BY <1>2, <2>2, <3>1 DEF end
    <3> QED
      BY <1>1, <1>2, <1>4, <2>2, <3>2
  <2>3. CASE j = n + 1 /\ i = n + 1
    BY <1>1, <1>2, <1>4, <2>3
  <2> QED
    BY <1>1, <2>1, <2>2, <2>3
<1>7. ASSUME NEW i \in 1..(n + 1)
      PROVE  /\ t[i] = t[i - 1] + Len(Encode(gs[i]))
             /\ \A j \in 1..Len(Encode(gs[i])) : a[t[i - 1] + j] = Encode(gs[i])[j]
  <2>1. CASE i = n + 1
    <3>1. i - 1 = n /\ n \in 0..n
      BY <1>1, <2>1
    <3>2. t[i - 1] = end /\ Encode(gs[i]) = e
      BY <1>3, <1>4, <2>1, <3>1 DEF end, e
    <3> QED
      BY <1>4, <1>5, <2>1, <3>2
  <2>2. CASE i \in 1..n
    <3>1. i \in 0..n /\ i - 1 \in 0..n /\ n \in 0..n /\ i <= n
      BY <1>1, <2>2
    <3>2. t[i] = at[i] /\ t[i - 1] = at[i - 1] /\ gs[i] = fs[i]
      BY <1>3, <1>4, <2>2, <3>1
    <3>3. at[i] = at[i - 1] + Len(Encode(fs[i])) /\ at[i] <= end /\ at[i - 1] \in Nat /\ at[i] \in Nat
      BY <1>2, <2>2, <3>1 DEF end
    <3>4. Len(Encode(fs[i])) \in Nat
      BY <1>1, <2>2
    <3>5. ASSUME NEW j \in 1..Len(Encode(fs[i]))
          PROVE  a[at[i - 1] + j] = Encode(fs[i])[j]
      <4>1. at[i - 1] + j \in 1..end
        <5>1. end \in Nat
          BY <1>2
        <5>2. j \in Nat /\ 1 <= j /\ j <= Len(Encode(fs[i]))
          BY <3>4
        <5> QED
          BY <3>3, <3>4, <5>1, <5>2
      <4> QED
        BY <1>2, <1>5, <2>2, <4>1
    <3> QED
      BY <3>2, <3>3, <3>5
  <2> QED
    BY <1>1, <2>1, <2>2
<1>8. t[0] = 0
  <2>1. 0 \in 0..n
    BY <1>1
  <2> QED
    BY <1>2, <1>4, <2>1
<1>9. Framed(a, t, gs)
  BY <1>3, <1>4, <1>6, <1>7, <1>8 DEF Framed
<1> QED
  BY <1>4, <1>5, <1>9, ZenonT(60) DEF gs, n, e, end

\* A frame less at the end.
LEMMA FramedLess ==
  ASSUME NEW fs \in Seq(Writable), fs # <<>>, NEW all, NEW at, Framed(all, at, fs)
  PROVE  /\ Framed(all, at, Front(fs)) /\ Len(Front(fs)) = Len(fs) - 1 /\ Front(fs) \in Seq(Writable)
         /\ at[Len(fs)] = at[Len(fs) - 1] + Len(Encode(Last(fs)))
         /\ \A i \in 1..(Len(fs) - 1) : Front(fs)[i] = fs[i]
<1> DEFINE n == Len(fs)
           gs == Front(fs)
<1>1. n \in Nat \ {0} /\ \A i \in 1..n : fs[i] \in Writable
  BY EmptySeq, LenProperties
<1>2. Last(fs) = fs[n]
  BY DEF Last
<1>3. gs \in Seq(Writable) /\ Len(gs) = n - 1 /\ \A i \in 1..(n - 1) : gs[i] = fs[i]
  <2>1. gs = SubSeq(fs, 1, n - 1)
    BY DEF Front
  <2>2. \A i \in 1..(n - 1) : fs[i] \in Writable
    BY <1>1
  <2>3. /\ SubSeq(fs, 1, n - 1) \in Seq(Writable)
        /\ Len(SubSeq(fs, 1, n - 1)) = IF 1 <= n - 1 THEN (n - 1) - 1 + 1 ELSE 0
        /\ \A i \in 1..((n - 1) - 1 + 1) : SubSeq(fs, 1, n - 1)[i] = fs[1 + i - 1]
    <3>1. n - 1 \in Int /\ 1 \in Int
      BY <1>1
    <3> HIDE DEF n
    <3> QED
      BY <2>2, <3>1, SubSeqProperties
  <2> HIDE DEF gs, n
  <2>4. (n - 1) - 1 + 1 = n - 1 /\ (IF 1 <= n - 1 THEN (n - 1) - 1 + 1 ELSE 0) = n - 1
        /\ \A i \in 1..(n - 1) : 1 + i - 1 = i
    BY <1>1
  <2> QED
    BY <2>1, <2>3, <2>4
<1> HIDE DEF gs, n
<1>4. Framed(all, at, gs)
  <2>1. 0..(n - 1) \subseteq 0..n /\ 1..(n - 1) \subseteq 1..n
    BY <1>1
  <2>2. /\ at \in [Nat -> Nat] /\ at[0] = 0
        /\ \A i, j \in 0..n : i <= j => at[i] <= at[j]
        /\ \A i \in 1..n : at[i] = at[i - 1] + Len(Encode(fs[i]))
        /\ \A i \in 1..n : \A j \in 1..Len(Encode(fs[i])) : all[at[i - 1] + j] = Encode(fs[i])[j]
    BY DEF Framed, n
  <2>3. \A i, j \in 0..(n - 1) : i <= j => at[i] <= at[j]
    BY <2>1, <2>2
  <2>4. \A i \in 1..(n - 1) : at[i] = at[i - 1] + Len(Encode(gs[i]))
    BY <1>3, <2>1, <2>2
  <2>5. \A i \in 1..(n - 1) : \A j \in 1..Len(Encode(gs[i])) : all[at[i - 1] + j] = Encode(gs[i])[j]
    BY <1>3, <2>1, <2>2, ZenonT(60)
  <2> QED
    BY <1>3, <2>2, <2>3, <2>4, <2>5 DEF Framed
<1>5. at[n] = at[n - 1] + Len(Encode(fs[n]))
  <2>1. n \in 1..n
    BY <1>1
  <2> QED
    BY <2>1 DEF Framed, n
<1> QED
  BY <1>2, <1>3, <1>4, <1>5 DEF gs, n
-----------------------------------------------------------------------------
\* An element of a concatenation.
LEMMA JoinAt ==
  ASSUME NEW x \in Seq(Byte), NEW y \in Seq(Byte)
  PROVE  /\ Join(x, y) \in Seq(Byte)
         /\ Len(x) \in Nat /\ Len(y) \in Nat /\ Len(Join(x, y)) = Len(x) + Len(y)
         /\ \A i \in 1..Len(x) : Join(x, y)[i] = x[i]
         /\ \A i \in 1..Len(y) : Join(x, y)[Len(x) + i] = y[i]
<1> DEFINE m == Len(x)
           n == Len(y)
           z == Join(x, y)
<1>1. m \in Nat /\ n \in Nat
  BY LenProperties
<1>2. /\ z \in Seq(Byte) /\ Len(z) = m + n
      /\ \A i \in 1..(m + n) : z[i] = IF i <= m THEN x[i] ELSE y[i - m]
  BY ConcatProperties DEF Join
<1> HIDE DEF m, n, z
<1>3. \A i \in 1..m : i \in 1..(m + n) /\ i <= m
  BY <1>1
<1>4. \A i \in 1..n : m + i \in 1..(m + n) /\ ~(m + i <= m) /\ (m + i) - m = i
  BY <1>1
<1> QED
  BY <1>1, <1>2, <1>3, <1>4 DEF m, n, z

LEMMA JoinLen ==
  \A x, y \in Seq(Byte) : Join(x, y) \in Seq(Byte) /\ Len(Join(x, y)) = Len(x) + Len(y)
BY JoinAt

LEMMA JoinNone ==
  ASSUME NEW x \in Seq(Byte)
  PROVE  Join(x, <<>>) = x /\ Join(<<>>, x) = x
BY ConcatEmptySeq DEF Join

\* Concatenation is associative.
LEMMA JoinThree ==
  \A x, y, z \in Seq(Byte) : Join(x, Join(y, z)) = Join(Join(x, y), z)
BY ConcatAssociative, SMTT(40) DEF Join

\* What is left to write is the end of what is under way.
LEMMA LineEnds ==
  \A g, w, b, e \in Seq(Byte) :
    /\ Line(g, w, b, e) \in Seq(Byte)
    /\ Len(Line(g, w, b, e)) = Len(g) + (Len(w) + (Len(b) + Len(e)))
    /\ Line(g, w, b, <<>>) \in Seq(Byte)
    /\ Len(Line(g, w, b, <<>>)) = Len(g) + (Len(w) + Len(b))
    /\ Line(g, w, b, e) = Join(Line(g, w, b, <<>>), e)
    /\ Len(g) \in Nat /\ Len(w) \in Nat /\ Len(b) \in Nat /\ Len(e) \in Nat
<1> TAKE g, w, b, e \in Seq(Byte)
<1> DEFINE be == Join(b, e)
           wb == Join(w, b)
           wbe == Join(w, be)
           gwb == Join(g, wb)
<1>1. Line(g, w, b, <<>>) = gwb /\ Line(g, w, b, e) = Join(g, wbe)
  BY JoinNone DEF Line
<1>2. wbe = Join(wb, e)
  BY JoinThree
<1>3. be \in Seq(Byte) /\ Len(be) = Len(b) + Len(e)
  BY JoinLen
<1>4. wb \in Seq(Byte) /\ Len(wb) = Len(w) + Len(b)
  BY JoinLen
<1> HIDE DEF be, wb
<1>5. Join(g, Join(wb, e)) = Join(gwb, e)
  BY <1>4, JoinThree
<1>6. wbe \in Seq(Byte) /\ Len(wbe) = Len(w) + Len(be)
  BY <1>3, JoinLen
<1>7. gwb \in Seq(Byte) /\ Len(gwb) = Len(g) + Len(wb)
  BY <1>4, JoinLen
<1> HIDE DEF wbe, gwb
<1>8. Join(g, wbe) \in Seq(Byte) /\ Len(Join(g, wbe)) = Len(g) + Len(wbe)
  BY <1>6, JoinLen
<1>9. Len(g) \in Nat /\ Len(w) \in Nat /\ Len(b) \in Nat /\ Len(e) \in Nat
  BY LenProperties
<1> QED
  BY <1>1, <1>2, <1>3, <1>4, <1>5, <1>6, <1>7, <1>8, <1>9

\* Nothing that tells the frames apart has changed.
LEMMA BytesSame ==
  ASSUME BytesOK, Pipe' = Pipe,
         UNCHANGED <<sent, received, closed, got>>
  PROVE  BytesOK'
<1> DEFINE r == Len(received)
<1>1. PICK all, at : Framed(all, at, sent) /\ Aligned(all, at[r], at[Len(sent)], Pipe)
  BY DEF BytesOK
<1>2. Framed(all, at, sent') /\ Aligned(all, at[r], at[Len(sent)], Pipe)'
  BY <1>1 DEF Framed, Aligned
<1>3. got' # <<>> => r < Len(sent') /\ Len(got') < Len(Encode(sent'[r + 1]))
  BY DEF BytesOK
<1> QED
  BY <1>2, <1>3 DEF BytesOK

\* The stream before a byte is written.
LEMMA StreamInvInit == StreamInit => StreamInv
<1> SUFFICES ASSUME StreamInit PROVE StreamInv
  OBVIOUS
<1>1. StreamTypes /\ CallsOK /\ ReceivedPrefix
  <2>1. <<>> \in Seq(Byte) /\ <<>> \in Seq(Writable) /\ Len(<<>>) = 0
    OBVIOUS
  <2>2. StreamTypes
    BY <2>1 DEF StreamInit, StreamTypes
  <2>3. CallsOK
    BY DEF StreamInit, CallsOK
  <2>4. Len(received) = 0 /\ Len(sent) = 0
    BY <2>1 DEF StreamInit
  <2>5. ReceivedPrefix
    BY <2>4 DEF ReceivedPrefix
  <2> QED
    BY <2>2, <2>3, <2>5
<1>2. BytesOK
  <2> DEFINE at == [i \in Nat |-> 0]
  <2>1. Len(sent) = 0 /\ Len(received) = 0 /\ sent = <<>> /\ got = <<>>
    BY DEF StreamInit
  <2>2. Pipe = <<>> /\ Len(Pipe) = 0
    BY DEF StreamInit, Pipe, Line, Join
  <2>3. Framed(<<>>, at, sent)
    BY <2>1 DEF Framed
  <2>4. Aligned(<<>>, at[0], at[0], Pipe)
    <3>1. at[0] = 0
      OBVIOUS
    <3> HIDE DEF at
    <3> QED
      BY <2>2, <3>1 DEF Aligned
  <2> HIDE DEF at
  <2> QED
    BY <2>1, <2>3, <2>4 DEF BytesOK
<1>3. cut \in BOOLEAN
  BY DEF StreamInit
<1> QED
  BY <1>1, <1>2, <1>3 DEF StreamInv

\* What StreamInv says while no call was dropped inside a frame.
LEMMA StreamFacts ==
  ASSUME StreamInv, ~cut
  PROVE  /\ StreamTypes /\ CallsOK /\ ReceivedPrefix /\ (reader = "reading" => BytesOK)
         /\ Len(received) \in Nat /\ Len(sent) \in Nat /\ Len(received) <= Len(sent)
         /\ (~closed => reader = "reading")
<1>1. StreamTypes /\ CallsOK /\ ReceivedPrefix /\ (reader = "reading" => BytesOK)
  BY DEF StreamInv
<1>2. Len(received) \in Nat /\ Len(sent) \in Nat
  BY <1>1, LenProperties DEF StreamTypes
<1> QED
  BY <1>1, <1>2 DEF ReceivedPrefix, CallsOK, StreamTypes

\* write_raw_frame takes a frame on.
LEMMA WriteFrameKept ==
  ASSUME StreamInv, ~cut, NEW f \in Frames, WriteFrame(f)
  PROVE  StreamInv'
<1> DEFINE r == Len(received)
           n == Len(sent)
           e == Encode(f)
<1>1. /\ StreamTypes /\ CallsOK /\ ReceivedPrefix /\ BytesOK /\ r \in Nat /\ n \in Nat /\ r <= n
      /\ ~closed /\ reader = "reading" /\ writer = "idle" /\ rest = <<>>
  <2>1. writer = "idle" /\ ~closed
    BY DEF WriteFrame
  <2> QED
    BY <2>1, StreamFacts DEF CallsOK
<1>2. f \in Writable
  BY DEF WriteFrame, Writable
<1>3. e \in Seq(Byte) /\ Len(e) \in Nat \ {0}
  <2>1. /\ e \in Seq(Byte) /\ HeaderLen \in Nat \ {0} /\ Len(f.payload) \in Nat
        /\ Len(e) = HeaderLen + Len(f.payload)
    BY <1>2, EncodeRead
  <2> QED
    BY <2>1
<1>4. /\ rest' = e /\ sent' = Append(sent, f) /\ writer' = "write_all"
      /\ UNCHANGED <<buffer, wire, closed, reader, got, received, cut>>
  BY DEF WriteFrame
<1>5. /\ sent' \in Seq(Writable) /\ Len(sent') = n + 1 /\ sent'[n + 1] = f
      /\ \A i \in 1..n : sent'[i] = sent[i]
  BY <1>1, <1>2, <1>4 DEF StreamTypes
<1>6. Last(sent') = f
  BY <1>5 DEF Last
<1>7. StreamTypes'
  BY <1>1, <1>3, <1>4, <1>5 DEF StreamTypes
<1>8. CallsOK'
  <2>1. rest' # <<>>
    BY <1>3, <1>4, EmptySeq
  <2>2. sent' # <<>>
    BY <1>1, <1>5, EmptySeq
  <2>3. Len(rest') <= Len(Encode(Last(sent')))
    BY <1>3, <1>4, <1>6
  <2> QED
    BY <1>1, <1>4, <2>1, <2>2, <2>3 DEF CallsOK
<1>9. ReceivedPrefix'
  <2>1. \A i \in 1..r : i \in 1..n
    BY <1>1
  <2> QED
    BY <1>1, <1>4, <1>5, <2>1 DEF ReceivedPrefix
<1>10. BytesOK'
  <2>1. PICK all, at : Framed(all, at, sent) /\ Aligned(all, at[r], at[n], Pipe)
    BY <1>1 DEF BytesOK
  <2>2. PICK a, t : /\ Framed(a, t, Append(sent, f))
                    /\ \A i \in 0..n : t[i] = at[i]
                    /\ t[n + 1] = at[n] + Len(e)
                    /\ \A k \in 1..at[n] : a[k] = all[k]
                    /\ \A j \in 1..Len(e) : a[at[n] + j] = e[j]
    <3>1. sent \in Seq(Writable)
      BY <1>1 DEF StreamTypes
    <3> QED
      BY <1>2, <2>1, <3>1, FramedMore
  <2>3. Pipe \in Seq(Byte) /\ Pipe' = Join(Pipe, e)
    <3>1. got \in Seq(Byte) /\ wire \in Seq(Byte) /\ buffer \in Seq(Byte)
      BY <1>1 DEF StreamTypes
    <3>2. Pipe = Line(got, wire, buffer, <<>>) /\ Pipe' = Line(got, wire, buffer, e)
      BY <1>1, <1>4 DEF Pipe
    <3> HIDE DEF e
    <3> QED
      BY <1>3, <3>1, <3>2, LineEnds, SMTT(40)
  <2> DEFINE p == Pipe
             l == Len(p)
             k == at[r]
             z == at[n]
  <2>4. k \in Nat /\ z \in Nat /\ l \in Nat /\ k + l = z /\ \A i \in 1..l : p[i] = all[k + i]
    <3>1. at \in [Nat -> Nat]
      BY <2>1 DEF Framed
    <3>2. k \in Nat /\ z \in Nat /\ l \in Nat
      BY <1>1, <2>3, <3>1, LenProperties
    <3> QED
      BY <1>1, <2>1, <3>2 DEF Aligned
  <2>5. /\ Len(Join(p, e)) = l + Len(e)
        /\ \A i \in 1..l : Join(p, e)[i] = p[i]
        /\ \A i \in 1..Len(e) : Join(p, e)[l + i] = e[i]
    BY <1>3, <2>3, JoinAt
  <2>6. t[r] = k /\ t[n + 1] = z + Len(e)
    <3>1. r \in 0..n
      BY <1>1
    <3> QED
      BY <2>2, <3>1
  <2> HIDE DEF p, l, k, z
  <2> HIDE DEF e
  <2>7. k + Len(Join(p, e)) = z + Len(e)
    <3>1. \A m \in Nat : k + (l + m) = z + m
      BY <2>4
    <3> QED
      BY <1>3, <2>5, <3>1
  <2>8. ASSUME NEW i \in 1..Len(Join(p, e))
        PROVE  Join(p, e)[i] = a[k + i]
    <3>1. CASE i \in 1..l
      <4>1. k + i \in 1..z
        BY <2>4, <3>1
      <4> QED
        BY <2>2, <2>4, <2>5, <3>1, <4>1 DEF z
    <3>2. CASE i \notin 1..l
      <4>1. i - l \in 1..Len(e) /\ l + (i - l) = i /\ z + (i - l) = k + i
        BY <1>3, <2>4, <2>5, <3>2
      <4>2. Join(p, e)[i] = e[i - l]
        BY <2>5, <4>1
      <4>3. a[z + (i - l)] = e[i - l]
        BY <2>2, <4>1 DEF z
      <4> QED
        BY <4>1, <4>2, <4>3
    <3> QED
      BY <3>1, <3>2
  <2>9. Aligned(a, t[Len(received)], t[Len(sent)], Pipe)'
    <3>1. Pipe' = Join(p, e) /\ k + Len(Join(p, e)) <= z + Len(e)
      <4>1. k + Len(Join(p, e)) \in Nat
        BY <1>3, <2>4, <2>7
      <4> QED
        BY <2>3, <2>7, <4>1 DEF p
    <3> QED
      BY <1>4, <1>5, <2>6, <2>7, <2>8, <3>1 DEF Aligned
  <2>10. got' # <<>> => r < n + 1 /\ Len(got') < Len(Encode(sent'[r + 1]))
    <3> HAVE got' # <<>>
    <3>1. r < n /\ Len(got) < Len(Encode(sent[r + 1]))
      BY <1>1, <1>4 DEF BytesOK
    <3>2. r + 1 \in 1..n /\ r < n + 1
      BY <1>1, <3>1
    <3> QED
      BY <1>4, <1>5, <3>1, <3>2
  <2> QED
    <3>1. Framed(a, t, sent)'
      BY <1>4, <2>2 DEF Framed
    <3> QED
      BY <1>4, <1>5, <2>9, <2>10, <3>1 DEF BytesOK
<1> QED
  BY <1>1, <1>4, <1>7, <1>8, <1>9, <1>10 DEF StreamInv

\* Bytes go from the call to the transport and from there to the wire.
LEMMA MoveKept ==
  ASSUME StreamInv, ~cut, WriteByte \/ Flush \/ Push
  PROVE  StreamInv'
<1>1. StreamTypes /\ CallsOK /\ ReceivedPrefix /\ (reader = "reading" => BytesOK)
  BY StreamFacts
<1>2. /\ got \in Seq(Byte) /\ wire \in Seq(Byte) /\ buffer \in Seq(Byte) /\ rest \in Seq(Byte)
      /\ UNCHANGED <<closed, reader, got, sent, received, cut>>
  BY <1>1 DEF StreamTypes, WriteByte, Flush, Push
<1>3. SUFFICES StreamTypes' /\ CallsOK' /\ Pipe' = Pipe
  <2>1. ReceivedPrefix'
    BY <1>1, <1>2 DEF ReceivedPrefix
  <2>2. Pipe' = Pipe /\ reader = "reading" => BytesOK'
    BY <1>1, <1>2, BytesSame
  <2> QED
    BY <1>2, <2>1, <2>2 DEF StreamInv
<1>4. CASE WriteByte
  <2>1. /\ writer = "write_all" /\ ~closed /\ buffer' = Append(buffer, Head(rest)) /\ rest' = Tail(rest)
        /\ writer' = IF rest' = <<>> THEN "flush" ELSE "write_all"
        /\ wire' = wire
    BY <1>4 DEF WriteByte
  <2>2. rest # <<>> /\ Len(rest) <= Len(Encode(Last(sent))) /\ sent # <<>>
    BY <1>1, <2>1 DEF CallsOK
  <2>3. /\ buffer' \in Seq(Byte) /\ rest' \in Seq(Byte) /\ Len(rest') = Len(rest) - 1
        /\ Join(buffer', rest') = Join(buffer, rest)
    <3>1. /\ Append(buffer, Head(rest)) \in Seq(Byte) /\ Tail(rest) \in Seq(Byte)
          /\ Len(Tail(rest)) = Len(rest) - 1
          /\ Join(Append(buffer, Head(rest)), Tail(rest)) = Join(buffer, rest)
      BY <1>2, <2>2, ShiftByte DEF Join
    <3> QED
      BY <2>1, <3>1
  <2>4. StreamTypes'
    <3>1. writer' \in {"idle", "write_all", "flush"}
      BY <2>1
    <3> QED
      BY <1>1, <1>2, <2>1, <2>3, <3>1 DEF StreamTypes
  <2>5. Pipe' = Pipe
    BY <1>2, <2>1, <2>3 DEF Pipe, Line
  <2>6. Len(rest') <= Len(Encode(Last(sent')))
    <3>1. Last(sent) \in Writable
      <4>1. sent \in Seq(Writable) /\ Len(sent) \in Nat \ {0}
        BY <1>1, <2>2, EmptySeq, LenProperties DEF StreamTypes
      <4>2. Len(sent) \in 1..Len(sent)
        BY <4>1
      <4> QED
        BY <4>1, <4>2, LenProperties DEF Last
    <3>2. Len(Encode(Last(sent))) \in Nat /\ Len(rest) \in Nat
      BY <1>2, <3>1, EncodeRead, LenProperties
    <3> QED
      BY <1>2, <2>2, <2>3, <3>2
  <2>7. CallsOK'
    BY <1>1, <1>2, <2>1, <2>2, <2>6 DEF CallsOK
  <2> QED
    BY <2>4, <2>5, <2>7
<1>5. CASE Flush
  <2>1. writer = "flush" /\ ~closed /\ wire' = wire \o buffer /\ buffer' = <<>> /\ writer' = "idle" /\ rest' = rest
    BY <1>5 DEF Flush
  <2>2. wire' \in Seq(Byte) /\ Join(wire', rest) = Join(wire, Join(buffer, rest))
    <3>1. wire' = Join(wire, buffer)
      BY <2>1 DEF Join
    <3> QED
      BY <1>2, <3>1, JoinLen, JoinThree
  <2>3. Join(buffer', rest') = rest
    BY <1>2, <2>1, JoinNone
  <2>4. Pipe' = Pipe
    BY <1>2, <2>2, <2>3 DEF Pipe, Line
  <2>5. StreamTypes'
    BY <1>1, <1>2, <2>1, <2>2 DEF StreamTypes
  <2>6. CallsOK'
    BY <1>1, <1>2, <2>1 DEF CallsOK
  <2> QED
    BY <2>4, <2>5, <2>6
<1>6. CASE Push
  <2>1. buffer # <<>> /\ wire' = Append(wire, Head(buffer)) /\ buffer' = Tail(buffer) /\ writer' = writer /\ rest' = rest
    BY <1>6 DEF Push
  <2>2. wire' \in Seq(Byte) /\ buffer' \in Seq(Byte) /\ Join(wire', buffer') = Join(wire, buffer)
    BY <1>2, <2>1, ShiftByte, SMTT(40) DEF Join
  <2>4. Join(wire', Join(buffer', rest')) = Join(wire, Join(buffer, rest))
    <3>1. Join(wire', Join(buffer', rest)) = Join(Join(wire', buffer'), rest)
      BY <1>2, <2>2, JoinThree
    <3>2. Join(wire, Join(buffer, rest)) = Join(Join(wire, buffer), rest)
      BY <1>2, JoinThree
    <3> QED
      BY <2>1, <2>2, <3>1, <3>2
  <2>5. Pipe' = Pipe
    BY <1>2, <2>4 DEF Pipe, Line
  <2>6. StreamTypes'
    BY <1>1, <1>2, <2>1, <2>2 DEF StreamTypes
  <2>7. CallsOK'
    BY <1>1, <1>2, <2>1 DEF CallsOK
  <2> QED
    BY <2>5, <2>6, <2>7
<1> QED
  BY <1>4, <1>5, <1>6

\* A frame that ends later comes later.
LEMMA EndsLater ==
  ASSUME NEW fs \in Seq(Writable), NEW all, NEW at, Framed(all, at, fs),
         NEW i \in 0..Len(fs), NEW j \in 0..Len(fs), at[i] < at[j]
  PROVE  i < j
<1>1. Len(fs) \in Nat /\ i \in Nat /\ j \in Nat
  BY LenProperties
<1>2. at[i] \in Nat /\ at[j] \in Nat
  BY <1>1 DEF Framed
<1>3. j <= i => at[j] <= at[i]
  BY DEF Framed
<1> QED
  BY <1>1, <1>2, <1>3

\* The next frame is at the front of what is under way.
LEMMA FrameAhead ==
  ASSUME StreamTypes, ReceivedPrefix, NEW all, NEW at, Framed(all, at, sent),
         Aligned(all, at[Len(received)], at[Len(sent)], Pipe), Len(Pipe) \in Nat \ {0}
  PROVE  LET r == Len(received)
             e == Encode(sent[r + 1])
         IN  /\ r \in Nat /\ Len(sent) \in Nat /\ r < Len(sent) /\ r + 1 \in 1..Len(sent)
             /\ sent[r + 1] \in Writable /\ e \in Seq(Byte) /\ Len(e) \in Nat \ {0}
             /\ at[r] \in Nat /\ at[r + 1] = at[r] + Len(e)
             /\ \A i \in 1..Len(Pipe) : i <= Len(e) => Pipe[i] = e[i]
<1> DEFINE r == Len(received)
           n == Len(sent)
           e == Encode(sent[r + 1])
           l == Len(Pipe)
<1>1. sent \in Seq(Writable) /\ r \in Nat /\ n \in Nat /\ r <= n /\ l \in Nat \ {0}
  BY LenProperties DEF StreamTypes, ReceivedPrefix
<1>2. at[r] \in Nat /\ at[n] \in Nat
  BY <1>1 DEF Framed
<1>3. at[r] + l <= at[n] /\ \A i \in 1..l : Pipe[i] = all[at[r] + i]
  BY DEF Aligned
<1> HIDE DEF r, n, l
<1>4. r < n /\ r + 1 \in 1..n /\ (r + 1) - 1 = r
  <2>1. r # n
    BY <1>1, <1>2, <1>3
  <2> QED
    BY <1>1, <2>1
<1>5. sent[r + 1] \in Writable /\ e \in Seq(Byte) /\ Len(e) \in Nat \ {0}
  BY <1>1, <1>4, FramesOK DEF n
<1>6. at[r + 1] = at[(r + 1) - 1] + Len(e) /\ \A j \in 1..Len(e) : all[at[(r + 1) - 1] + j] = e[j]
  BY <1>4 DEF Framed, n
<1> HIDE DEF e
<1>7. ASSUME NEW i \in 1..l, i <= Len(e)
      PROVE  Pipe[i] = e[i]
  <2>1. i \in 1..Len(e)
    BY <1>1, <1>5, <1>7
  <2> QED
    BY <1>3, <1>4, <1>6, <2>1
<1> QED
  BY <1>1, <1>2, <1>4, <1>5, <1>6, <1>7 DEF r, n, e, l

\* The stream closes: an end of what is under way is lost.
LEMMA CloseKept ==
  ASSUME StreamInv, ~cut, Close
  PROVE  StreamInv'
<1> DEFINE r == Len(received)
           n == Len(sent)
<1>1. /\ StreamTypes /\ CallsOK /\ ReceivedPrefix /\ BytesOK /\ r \in Nat /\ n \in Nat /\ r <= n
      /\ ~closed /\ reader = "reading"
  <2>1. ~closed
    BY DEF Close
  <2> QED
    BY <2>1, StreamFacts
<1>2. /\ closed' = TRUE /\ writer' = "idle" /\ rest' = <<>> /\ buffer' = <<>>
      /\ UNCHANGED <<reader, got, sent, received, cut>>
  BY DEF Close
<1>3. /\ got \in Seq(Byte) /\ wire \in Seq(Byte) /\ buffer \in Seq(Byte) /\ rest \in Seq(Byte)
      /\ sent \in Seq(Writable)
  BY <1>1 DEF StreamTypes
<1>4. PICK k \in 0..Len(wire) : wire' = SubSeq(wire, 1, k)
  BY DEF Close
<1> DEFINE w == SubSeq(wire, 1, k)
<1>5. w \in Seq(Byte) /\ Len(w) = k /\ k \in Nat /\ k <= Len(wire) /\ \A i \in 1..k : w[i] = wire[i]
  <2>1. Len(wire) \in Nat /\ \A i \in 1..Len(wire) : wire[i] \in Byte
    BY <1>3, LenProperties
  <2>2. k \in Nat /\ k <= Len(wire) /\ \A i \in 1..k : wire[i] \in Byte
    BY <2>1
  <2>3. /\ w \in Seq(Byte) /\ Len(w) = (IF 1 <= k THEN k - 1 + 1 ELSE 0)
        /\ \A i \in 1..(k - 1 + 1) : w[i] = wire[1 + i - 1]
    BY <2>2, SubSeqProperties
  <2> HIDE DEF w
  <2>4. (IF 1 <= k THEN k - 1 + 1 ELSE 0) = k /\ k - 1 + 1 = k /\ \A i \in 1..k : 1 + i - 1 = i
    BY <2>2
  <2> QED
    BY <2>2, <2>3, <2>4
<1> HIDE DEF w
<1>6. wire' = w
  BY <1>4 DEF w
<1>7. StreamTypes'
  <2>1. <<>> \in Seq(Byte)
    OBVIOUS
  <2> QED
    BY <1>1, <1>2, <1>5, <1>6, <2>1 DEF StreamTypes
<1>8. CallsOK' /\ ReceivedPrefix'
  BY <1>1, <1>2 DEF CallsOK, ReceivedPrefix
<1>9. BytesOK'
  <2> DEFINE p == Pipe
             m == Len(got)
             q == Join(got, w)
             x == Join(wire, Join(buffer, rest))
  <2>1. x \in Seq(Byte) /\ Len(x) \in Nat /\ k <= Len(x) /\ \A i \in 1..k : x[i] = wire[i]
    <3> DEFINE y == Join(buffer, rest)
    <3>1. y \in Seq(Byte)
      BY <1>3, JoinLen
    <3> HIDE DEF y
    <3>2. /\ Join(wire, y) \in Seq(Byte) /\ Len(wire) \in Nat /\ Len(y) \in Nat
          /\ Len(Join(wire, y)) = Len(wire) + Len(y)
          /\ \A i \in 1..Len(wire) : Join(wire, y)[i] = wire[i]
      BY <1>3, <3>1, JoinAt
    <3>3. k \in Nat /\ k <= Len(wire)
      BY <1>5
    <3>4. \A i \in 1..k : i \in 1..Len(wire)
      BY <3>2, <3>3
    <3>5. Len(Join(wire, y)) \in Nat /\ k <= Len(Join(wire, y))
      BY <3>2, <3>3
    <3> QED
      BY <3>2, <3>4, <3>5 DEF y
  <2>2. Pipe = Join(got, x)
    BY DEF Pipe, Line
  <2>3. Pipe' = q
    <3>1. Join(<<>>, <<>>) = <<>>
      BY DEF Join
    <3>2. Pipe' = Join(got, Join(w, <<>>))
      BY <1>2, <1>6, <3>1 DEF Pipe, Line
    <3> QED
      BY <1>5, <3>2, JoinNone
  <2> HIDE DEF x
  <2>4. /\ Len(got) \in Nat /\ Len(Join(got, x)) = Len(got) + Len(x)
        /\ \A i \in 1..Len(got) : Join(got, x)[i] = got[i]
        /\ \A i \in 1..Len(x) : Join(got, x)[Len(got) + i] = x[i]
    BY <1>3, <2>1, JoinAt
  <2>5. /\ Len(q) = Len(got) + k
        /\ \A i \in 1..Len(got) : q[i] = got[i]
        /\ \A i \in 1..k : q[Len(got) + i] = w[i]
    BY <1>3, <1>5, JoinAt
  <2> HIDE DEF q, m
  <2>6. Len(q) \in Nat /\ Len(Pipe) \in Nat /\ Len(q) <= Len(Pipe)
    BY <1>5, <2>1, <2>2, <2>4, <2>5
  <2>7. ASSUME NEW i \in 1..Len(q)
        PROVE  q[i] = Pipe[i]
    <3>1. CASE i \in 1..Len(got)
      BY <2>2, <2>4, <2>5, <3>1
    <3>2. CASE i \notin 1..Len(got)
      <4>1. PICK j \in 1..k : i = Len(got) + j
        <5>1. i - Len(got) \in 1..k /\ i = Len(got) + (i - Len(got))
          BY <1>5, <2>4, <2>5, <3>2
        <5> QED
          BY <5>1
      <4>2. j \in 1..Len(x)
        BY <1>5, <2>1
      <4> QED
        BY <1>5, <2>1, <2>2, <2>4, <2>5, <4>1, <4>2
    <3> QED
      BY <3>1, <3>2
  <2>8. PICK all, at : Framed(all, at, sent) /\ Aligned(all, at[r], at[n], Pipe)
    BY <1>1 DEF BytesOK
  <2>9. at[r] + Len(Pipe) <= at[n] /\ at[r] \in Nat /\ at[n] \in Nat
        /\ \A i \in 1..Len(Pipe) : Pipe[i] = all[at[r] + i]
    BY <1>1, <2>8 DEF Framed, Aligned
  <2>10. at[r] + Len(q) <= at[n]
    BY <2>6, <2>9
  <2>11. \A i \in 1..Len(q) : q[i] = all[at[r] + i]
    <3>1. \A i \in 1..Len(q) : i \in 1..Len(Pipe)
      BY <2>6
    <3> QED
      BY <2>7, <2>9, <3>1
  <2>12. Aligned(all, at[Len(received)], at[Len(sent)], Pipe)'
    BY <1>2, <2>3, <2>10, <2>11 DEF Aligned
  <2>13. Framed(all, at, sent)'
    BY <1>2, <2>8 DEF Framed
  <2>14. got' # <<>> => Len(received') < Len(sent') /\ Len(got') < Len(Encode(sent'[Len(received') + 1]))
    BY <1>1, <1>2 DEF BytesOK
  <2> QED
    BY <2>12, <2>13, <2>14 DEF BytesOK
<1> QED
  BY <1>1, <1>2, <1>7, <1>8, <1>9 DEF StreamInv

\* The end of the stream, and a call that is dropped inside a frame.
LEMMA EndKeptOrCut ==
  ASSUME StreamInv, ~cut, ReadEof \/ AbandonRead
  PROVE  StreamInv'
<1>1. CASE ReadEof
  <2>1. /\ closed /\ reader' = "failed" /\ got' = <<>> /\ <<>> \in Seq(Byte)
        /\ UNCHANGED <<writer, rest, buffer, wire, closed, sent, received, cut>>
    BY <1>1 DEF ReadEof
  <2>2. StreamTypes /\ CallsOK /\ ReceivedPrefix
    BY StreamFacts
  <2>3. StreamTypes'
    BY <2>1, <2>2 DEF StreamTypes
  <2>4. CallsOK' /\ ReceivedPrefix'
    BY <2>1, <2>2 DEF CallsOK, ReceivedPrefix
  <2> QED
    BY <2>1, <2>3, <2>4 DEF StreamInv
<1>2. CASE AbandonRead
  BY <1>2 DEF AbandonRead, StreamInv
<1> QED
  BY <1>1, <1>2

\* The last frame that was taken on, and what is left of it.
LEMMA LastFrame ==
  ASSUME StreamInv, ~cut, sent # <<>>
  PROVE  /\ Len(sent) \in Nat \ {0} /\ Last(sent) = sent[Len(sent)] /\ Last(sent) \in Writable
         /\ Encode(Last(sent)) \in Seq(Byte) /\ Len(Encode(Last(sent))) \in Nat \ {0}
         /\ Encode(Last(sent)) # <<>>
<1>1. sent \in Seq(Writable)
  BY StreamFacts DEF StreamTypes
<1>2. Len(sent) \in Nat \ {0} /\ Len(sent) \in 1..Len(sent)
  BY <1>1, EmptySeq, LenProperties
<1>3. Last(sent) = sent[Len(sent)]
  BY DEF Last
<1>4. /\ Last(sent) \in Writable /\ Encode(Last(sent)) \in Seq(Byte)
      /\ Len(Encode(Last(sent))) \in Nat \ {0}
  BY <1>1, <1>2, <1>3, FramesOK
<1> QED
  BY <1>2, <1>3, <1>4, EmptySeq

\* write_raw_frame is dropped: before its first byte the frame is not sent,
\* after its last byte nothing is missing.
LEMMA AbandonWriteKept ==
  ASSUME StreamInv, ~cut, AbandonWrite
  PROVE  StreamInv'
<1> DEFINE r == Len(received)
           n == Len(sent)
           e == Encode(Last(sent))
<1>1. /\ StreamTypes /\ CallsOK /\ ReceivedPrefix /\ BytesOK /\ r \in Nat /\ n \in Nat /\ r <= n
      /\ ~closed /\ reader = "reading" /\ sent # <<>>
  <2>1. writer # "idle"
    BY DEF AbandonWrite
  <2>2. StreamTypes /\ CallsOK /\ ReceivedPrefix /\ r \in Nat /\ n \in Nat /\ r <= n
    BY StreamFacts
  <2>3. ~closed /\ sent # <<>>
    BY <2>1, <2>2 DEF CallsOK
  <2> QED
    BY <2>2, <2>3, StreamFacts
<1>2. /\ writer' = "idle" /\ rest' = <<>> /\ sent' = (IF rest = e THEN Front(sent) ELSE sent)
      /\ cut' = (cut \/ (rest # <<>> /\ rest # e))
      /\ UNCHANGED <<buffer, wire, closed, reader, got, received>>
  BY DEF AbandonWrite
<1>3. /\ got \in Seq(Byte) /\ wire \in Seq(Byte) /\ buffer \in Seq(Byte) /\ rest \in Seq(Byte)
      /\ sent \in Seq(Writable)
  BY <1>1 DEF StreamTypes
<1>4. n \in Nat \ {0} /\ e \in Seq(Byte) /\ Len(e) \in Nat \ {0} /\ e # <<>>
  BY <1>1, LastFrame
<1>5. cut' \in BOOLEAN
  BY <1>2
<1>6. CASE rest # <<>> /\ rest # e
  BY <1>2, <1>6 DEF StreamInv
<1>7. CASE rest = <<>>
  <2>1. sent' = sent /\ cut' = FALSE /\ rest' = rest
    BY <1>2, <1>4, <1>7
  <2>2. Pipe' = Pipe
    BY <1>2, <2>1 DEF Pipe
  <2>3. BytesOK'
    BY <1>1, <1>2, <2>1, <2>2, BytesSame
  <2>4. StreamTypes' /\ CallsOK' /\ ReceivedPrefix'
    BY <1>1, <1>2, <2>1 DEF StreamTypes, CallsOK, ReceivedPrefix
  <2> QED
    BY <1>5, <2>3, <2>4 DEF StreamInv
<1>8. CASE rest = e
  <2>1. sent' = Front(sent) /\ cut' = FALSE
    BY <1>2, <1>8
  <2> DEFINE p == Line(got, wire, buffer, <<>>)
             l == Len(p)
  <2>2. p \in Seq(Byte) /\ Pipe = Join(p, e) /\ Pipe' = p /\ l = Len(got) + (Len(wire) + Len(buffer))
    <3>1. Pipe = Line(got, wire, buffer, e) /\ Pipe' = p
      BY <1>2, <1>8 DEF Pipe
    <3> HIDE DEF e
    <3>2. Line(got, wire, buffer, e) = Join(Line(got, wire, buffer, <<>>), e)
      BY <1>3, <1>4, LineEnds
    <3>3. /\ Line(got, wire, buffer, <<>>) \in Seq(Byte)
          /\ Len(Line(got, wire, buffer, <<>>)) = Len(got) + (Len(wire) + Len(buffer))
      BY <1>3, <1>4, LineEnds
    <3> QED
      BY <3>1, <3>2, <3>3
  <2>3. Len(got) \in Nat /\ Len(wire) \in Nat /\ Len(buffer) \in Nat /\ l \in Nat
    BY <1>3, <2>2, LenProperties
  <2>4. Len(Pipe) = l + Len(e) /\ \A i \in 1..l : Pipe[i] = p[i]
    <3> HIDE DEF e, p
    <3> QED
      BY <1>4, <2>2, JoinAt
  <2>5. PICK all, at : Framed(all, at, sent) /\ Aligned(all, at[r], at[n], Pipe)
    BY <1>1 DEF BytesOK
  <2>6. /\ Framed(all, at, Front(sent)) /\ Len(Front(sent)) = n - 1 /\ Front(sent) \in Seq(Writable)
        /\ at[n] = at[n - 1] + Len(e)
        /\ \A i \in 1..(n - 1) : Front(sent)[i] = sent[i]
    BY <1>1, <1>3, <2>5, FramedLess
  <2> HIDE DEF p, l, e
  <2>7. n - 1 \in Nat /\ at[r] \in Nat /\ at[n] \in Nat /\ at[n - 1] \in Nat
    <3>1. n - 1 \in Nat
      BY <1>4
    <3> QED
      BY <1>1, <2>5, <3>1 DEF Framed
  <2>8. at[r] + Len(Pipe) = at[n] /\ \A i \in 1..Len(Pipe) : Pipe[i] = all[at[r] + i]
    BY <1>1, <2>5 DEF Aligned
  <2>9. at[r] + l = at[n - 1]
    <3>1. at[r] + (l + Len(e)) = at[n - 1] + Len(e)
      BY <2>4, <2>6, <2>8
    <3> DEFINE x == at[r]
               y == Len(e)
               z == at[n - 1]
    <3>2. x \in Nat /\ y \in Nat /\ z \in Nat /\ l \in Nat /\ x + (l + y) = z + y
      BY <1>4, <2>3, <2>7, <3>1
    <3> HIDE DEF x, y, z
    <3>3. x + l = z
      BY <3>2
    <3> QED
      BY <3>3 DEF x, z
  <2>10. \A i \in 1..l : p[i] = all[at[r] + i]
    <3>1. \A i \in 1..l : i \in 1..Len(Pipe)
      BY <1>4, <2>3, <2>4
    <3> QED
      BY <2>4, <2>8, <3>1
  <2>11. r <= n - 1
    <3> DEFINE x == at[r]
               y == Len(e)
               z == at[n - 1]
    <3>1. at[r] < at[n]
      <4>1. /\ x \in Nat /\ y \in Nat \ {0} /\ z \in Nat /\ l \in Nat /\ x + l = z
            /\ at[n] = z + y
        BY <1>4, <2>3, <2>6, <2>7, <2>9
      <4> HIDE DEF x, y, z
      <4>2. x < z + y
        BY <4>1
      <4> QED
        BY <4>1, <4>2 DEF x
    <3>2. r \in 0..n /\ n \in 0..n
      BY <1>1
    <3>3. r < n
      BY <1>3, <2>5, <3>1, <3>2, EndsLater
    <3> QED
      BY <1>1, <3>3
  <2>12. Aligned(all, at[Len(received)], at[Len(sent)], Pipe)'
    <3>1. at[r] + Len(p) <= at[n - 1] /\ at[r] + Len(p) = at[n - 1]
      BY <2>3, <2>7, <2>9 DEF l
    <3> QED
      BY <1>2, <2>1, <2>2, <2>6, <2>10, <3>1 DEF Aligned, l
  <2>13. got # <<>> => r < n - 1 /\ Len(got) < Len(Encode(Front(sent)[r + 1]))
    <3> HAVE got # <<>>
    <3>1. Len(got) \in Nat \ {0}
      BY <1>3, EmptySeq, LenProperties
    <3>2. at[r] < at[n - 1]
      BY <2>2, <2>3, <2>7, <2>9, <3>1
    <3>3. r \in 0..n /\ n - 1 \in 0..n
      BY <1>1, <2>7
    <3>4. r < n - 1
      BY <1>3, <2>5, <3>2, <3>3, EndsLater
    <3>5. r + 1 \in 1..(n - 1)
      BY <1>1, <2>7, <3>4
    <3>6. Len(got) < Len(Encode(sent[r + 1]))
      BY <1>1 DEF BytesOK
    <3> QED
      BY <2>6, <3>4, <3>5, <3>6
  <2>14. BytesOK'
    <3>1. Framed(all, at, sent)'
      BY <2>1, <2>6 DEF Framed
    <3>2. got' # <<>> => Len(received') < Len(sent') /\ Len(got') < Len(Encode(sent'[Len(received') + 1]))
      BY <1>2, <2>1, <2>6, <2>13
    <3> QED
      BY <2>12, <3>1, <3>2 DEF BytesOK
  <2>15. StreamTypes'
    <3>1. <<>> \in Seq(Byte)
      OBVIOUS
    <3> QED
      BY <1>1, <1>2, <2>1, <2>6, <3>1 DEF StreamTypes
  <2>16. CallsOK'
    BY <1>1, <1>2 DEF CallsOK
  <2>17. ReceivedPrefix'
    <3>1. \A i \in 1..r : i \in 1..(n - 1)
      BY <1>1, <2>7, <2>11
    <3> QED
      BY <1>1, <1>2, <2>1, <2>6, <2>11, <3>1 DEF ReceivedPrefix
  <2> QED
    BY <1>5, <2>14, <2>15, <2>16, <2>17 DEF StreamInv
<1> QED
  BY <1>6, <1>7, <1>8

\* The sent frames that have begun, as a sequence.
LEMMA BegunFrames ==
  ASSUME StreamInv, ~cut
  PROVE  \/ Begun = sent
         \/ /\ sent # <<>> /\ rest = Encode(Last(sent)) /\ Begun = Front(sent)
            /\ Len(Begun) = Len(sent) - 1 /\ \A i \in 1..(Len(sent) - 1) : Begun[i] = sent[i]
<1>1. CASE Begun = sent
  BY <1>1
<1>2. CASE rest # <<>> /\ rest = Encode(Last(sent)) /\ Begun = Front(sent)
  <2>1. CallsOK /\ writer \in {"idle", "write_all", "flush"} /\ sent \in Seq(Writable)
    BY StreamFacts DEF StreamTypes
  <2>2. sent # <<>>
    BY <1>2, <2>1 DEF CallsOK
  <2>3. Len(sent) \in Nat \ {0} /\ \A i \in 1..Len(sent) : sent[i] \in Writable
    BY <2>1, <2>2, EmptySeq, LenProperties
  <2> DEFINE n == Len(sent)
             m == n - 1
             b == SubSeq(sent, 1, m)
  <2>4. m \in Nat /\ n = m + 1
    BY <2>3
  <2>5. \A i \in 1..m : sent[i] \in Writable
    BY <2>3
  <2>6. Begun = b
    BY <1>2 DEF Front
  <2> HIDE DEF n, m
  <2>7. /\ b \in Seq(Writable) /\ Len(b) = (IF 1 <= m THEN m - 1 + 1 ELSE 0)
        /\ \A i \in 1..(m - 1 + 1) : b[i] = sent[1 + i - 1]
    BY <2>4, <2>5, SubSeqProperties
  <2> HIDE DEF b
  <2>8. (IF 1 <= m THEN m - 1 + 1 ELSE 0) = m /\ m - 1 + 1 = m /\ \A i \in 1..m : 1 + i - 1 = i
    BY <2>4
  <2>9. Len(b) = m /\ \A i \in 1..m : b[i] = sent[i]
    BY <2>7, <2>8
  <2> QED
    BY <1>2, <2>2, <2>6, <2>9 DEF m, n
<1> QED
  BY <1>1, <1>2 DEF Begun

\* read_exact takes a byte: a frame that is returned is the next one that was
\* sent, and its writing has begun.
LEMMA ReadByteKept ==
  ASSUME StreamInv, ~cut, ReadByte
  PROVE  /\ StreamInv'
         /\ \/ UNCHANGED received
            \/ /\ Len(received) < Len(Begun)
               /\ received' = Append(received, Begun[Len(received) + 1])
<1> DEFINE r == Len(received)
           n == Len(sent)
           bytes == Append(got, Head(wire))
           e == Encode(sent[r + 1])
           y == Join(buffer, rest)
           x == Join(Tail(wire), y)
<1>1. /\ StreamTypes /\ CallsOK /\ ReceivedPrefix /\ BytesOK /\ r \in Nat /\ n \in Nat /\ r <= n
      /\ reader = "reading" /\ wire # <<>>
  <2>1. reader = "reading" /\ wire # <<>>
    BY DEF ReadByte
  <2> QED
    BY <2>1, StreamFacts
<1>2. wire' = Tail(wire) /\ UNCHANGED <<writer, rest, buffer, closed, sent, cut>>
  BY DEF ReadByte
<1>3. /\ got \in Seq(Byte) /\ wire \in Seq(Byte) /\ buffer \in Seq(Byte) /\ rest \in Seq(Byte)
      /\ sent \in Seq(Writable) /\ received \in Seq(Writable)
  BY <1>1 DEF StreamTypes
<1>4. /\ bytes \in Seq(Byte) /\ Len(bytes) = Len(got) + 1 /\ Len(got) \in Nat
      /\ Tail(wire) \in Seq(Byte) /\ Join(bytes, Tail(wire)) = Join(got, wire)
  BY <1>1, <1>3, ShiftByte, LenProperties DEF Join
<1>5. y \in Seq(Byte) /\ Len(y) = Len(buffer) + Len(rest) /\ Len(buffer) \in Nat /\ Len(rest) \in Nat
  BY <1>3, JoinLen, LenProperties
<1> HIDE DEF bytes, y
<1>6. x \in Seq(Byte) /\ Len(x) = Len(Tail(wire)) + Len(y) /\ Len(Tail(wire)) \in Nat
  BY <1>4, <1>5, JoinLen, LenProperties
<1>7. Pipe = Join(bytes, x)
  <2>1. Pipe = Join(got, Join(wire, y))
    BY DEF Pipe, Line, y
  <2>2. Join(got, Join(wire, y)) = Join(Join(got, wire), y)
    BY <1>3, <1>5, JoinThree
  <2>3. Join(bytes, x) = Join(Join(bytes, Tail(wire)), y)
    BY <1>4, <1>5, JoinThree
  <2> QED
    BY <1>4, <2>1, <2>2, <2>3
<1> HIDE DEF x
<1>8. /\ Pipe \in Seq(Byte) /\ Len(Pipe) = Len(bytes) + Len(x) /\ Len(x) \in Nat
      /\ \A i \in 1..Len(bytes) : Pipe[i] = bytes[i]
      /\ \A i \in 1..Len(x) : Pipe[Len(bytes) + i] = x[i]
  BY <1>4, <1>6, <1>7, JoinAt
<1>9. /\ Len(bytes) \in Nat \ {0} /\ Len(Pipe) \in Nat \ {0} /\ Len(bytes) <= Len(Pipe)
      /\ Len(rest) + 1 <= Len(Pipe)
  BY <1>4, <1>5, <1>6, <1>8
<1>10. PICK all, at : Framed(all, at, sent) /\ Aligned(all, at[r], at[n], Pipe)
  BY <1>1 DEF BytesOK
<1>11. /\ r < n /\ r + 1 \in 1..n /\ sent[r + 1] \in Writable
       /\ e \in Seq(Byte) /\ Len(e) \in Nat \ {0}
       /\ at[r] \in Nat /\ at[r + 1] = at[r] + Len(e)
       /\ \A i \in 1..Len(Pipe) : i <= Len(e) => Pipe[i] = e[i]
  BY <1>1, <1>9, <1>10, FrameAhead
<1>12. Len(bytes) <= Len(e)
  <2>1. CASE got = <<>>
    <3>1. Len(got) = 0
      BY <2>1
    <3> HIDE DEF e
    <3> QED
      BY <1>4, <1>11, <3>1
  <2>2. CASE got # <<>>
    <3>1. Len(got) < Len(e)
      BY <1>1, <2>2 DEF BytesOK
    <3> HIDE DEF e
    <3> QED
      BY <1>4, <1>11, <3>1
  <2> QED
    BY <2>1, <2>2
<1>13. /\ HeaderLen \in Nat \ {0} /\ Len(e) = HeaderLen + Len(sent[r + 1].payload)
       /\ Len(sent[r + 1].payload) \in Nat /\ Len(sent[r + 1].payload) <= MaxFramePayload
       /\ Decode(e) = sent[r + 1]
       /\ \A b \in Seq(Byte) :
            Len(b) >= HeaderLen /\ (\A i \in 1..HeaderLen : b[i] = e[i])
              => LengthIn(b) = Len(sent[r + 1].payload)
  BY <1>11, EncodeRead
<1> DEFINE pay == Len(sent[r + 1].payload)
<1> HIDE DEF e, pay
<1>14. \A i \in 1..Len(bytes) : bytes[i] = e[i]
  <2>1. \A i \in 1..Len(bytes) : i \in 1..Len(Pipe) /\ i <= Len(e)
    BY <1>9, <1>11, <1>12
  <2> QED
    BY <1>8, <1>11, <2>1
<1>15. Len(bytes) >= HeaderLen => LengthIn(bytes) = pay
  <2> HAVE Len(bytes) >= HeaderLen
  <2>1. \A i \in 1..HeaderLen : i \in 1..Len(bytes)
    BY <1>9, <1>13
  <2>2. \A i \in 1..HeaderLen : bytes[i] = e[i]
    BY <1>14, <2>1
  <2> QED
    BY <1>4, <1>13, <2>2 DEF pay
<1>16. pay \in Nat /\ pay <= MaxFramePayload /\ MaxFramePayload \in Nat /\ Len(e) = HeaderLen + pay
  BY <1>13, FrameAssumption DEF pay
<1>17. at[r] \in Nat /\ at[n] \in Nat /\ at[r] + Len(Pipe) <= at[n] /\ (~closed => at[r] + Len(Pipe) = at[n])
       /\ \A i \in 1..Len(Pipe) : Pipe[i] = all[at[r] + i]
  BY <1>1, <1>10 DEF Framed, Aligned
<1>18. \/ /\ Len(bytes) = Len(e) /\ received' = Append(received, Decode(bytes)) /\ got' = <<>> /\ reader' = reader
       \/ /\ Len(bytes) < Len(e) /\ got' = bytes /\ reader' = reader /\ received' = received
  <2> DEFINE header == Len(bytes) >= HeaderLen
  <2>1. \/ header /\ LengthIn(bytes) > MaxFramePayload
        \/ /\ header /\ Len(bytes) = HeaderLen + LengthIn(bytes)
           /\ received' = Append(received, Decode(bytes)) /\ got' = <<>> /\ reader' = reader
        \/ /\ header => Len(bytes) < HeaderLen + LengthIn(bytes)
           /\ got' = bytes /\ reader' = reader /\ received' = received
    BY DEF ReadByte, bytes
  <2>2. ~(header /\ LengthIn(bytes) > MaxFramePayload)
    BY <1>15, <1>16
  <2>3. header => HeaderLen + LengthIn(bytes) = Len(e)
    BY <1>15, <1>16
  <2>4. ~header => Len(bytes) < Len(e)
    BY <1>9, <1>13, <1>16
  <2> QED
    BY <2>1, <2>2, <2>3, <2>4
<1>19. CASE Len(bytes) < Len(e) /\ got' = bytes /\ reader' = reader /\ received' = received
  <2>1. Pipe' = Pipe
    <3>1. Pipe' = Join(bytes, x)
      BY <1>2, <1>19 DEF Pipe, Line, x, y
    <3> QED
      BY <1>7, <3>1
  <2>2. StreamTypes' /\ CallsOK' /\ ReceivedPrefix'
    BY <1>1, <1>2, <1>4, <1>19 DEF StreamTypes, CallsOK, ReceivedPrefix
  <2>3. BytesOK'
    <3>1. Framed(all, at, sent)' /\ Aligned(all, at[Len(received)], at[Len(sent)], Pipe)'
      BY <1>2, <1>10, <1>19, <2>1 DEF Framed, Aligned
    <3>2. Len(received') < Len(sent') /\ Len(got') < Len(Encode(sent'[Len(received') + 1]))
      BY <1>2, <1>11, <1>19 DEF e
    <3> QED
      BY <3>1, <3>2 DEF BytesOK
  <2> QED
    BY <1>2, <1>19, <2>2, <2>3 DEF StreamInv
<1>20. CASE /\ Len(bytes) = Len(e) /\ received' = Append(received, Decode(bytes))
            /\ got' = <<>> /\ reader' = reader
  <2>1. bytes = e
    BY <1>4, <1>11, <1>14, <1>20, SeqEqual
  <2>2. received' = Append(received, sent[r + 1])
    BY <1>13, <1>20, <2>1
  <2>3. /\ received' \in Seq(Writable) /\ Len(received') = r + 1 /\ received'[r + 1] = sent[r + 1]
        /\ \A i \in 1..r : received'[i] = received[i]
    BY <1>3, <1>11, <2>2
  <2>4. Pipe' = x
    <3>1. Pipe' = Join(<<>>, x)
      BY <1>2, <1>20 DEF Pipe, Line, x, y
    <3> QED
      BY <1>6, <3>1, JoinNone
  <2>5. StreamTypes'
    <3>1. <<>> \in Seq(Byte)
      OBVIOUS
    <3> QED
      BY <1>1, <1>2, <1>4, <1>20, <2>3, <3>1 DEF StreamTypes
  <2>6. CallsOK'
    BY <1>1, <1>2, <1>20 DEF CallsOK
  <2>7. ReceivedPrefix'
    <3>1. r + 1 <= n
      BY <1>1, <1>11
    <3>2. ASSUME NEW i \in 1..(r + 1)
          PROVE  received'[i] = sent[i]
      <4>1. i = r + 1 \/ i \in 1..r
        BY <1>1
      <4> QED
        BY <1>1, <2>3, <4>1 DEF ReceivedPrefix
    <3> QED
      BY <1>2, <2>3, <3>1, <3>2 DEF ReceivedPrefix
  <2>8. BytesOK'
    <3> DEFINE k == at[r + 1]
               l == Len(bytes)
    <3>1. k \in Nat /\ k = at[r] + l /\ l \in Nat
      BY <1>9, <1>11, <1>20
    <3>2. k + Len(x) = at[r] + Len(Pipe)
      BY <1>8, <1>17, <3>1
    <3>3. ASSUME NEW i \in 1..Len(x)
          PROVE  x[i] = all[k + i]
      <4>1. l + i \in 1..Len(Pipe) /\ at[r] + (l + i) = k + i
        BY <1>8, <1>17, <3>1
      <4>2. Pipe[l + i] = all[at[r] + (l + i)]
        BY <1>17, <4>1
      <4> QED
        BY <1>8, <4>1, <4>2
    <3>4. Framed(all, at, sent)'
      BY <1>2, <1>10 DEF Framed
    <3>5. Aligned(all, at[Len(received)], at[Len(sent)], Pipe)'
      <4>1. k + Len(x) <= at[n] /\ (~closed => k + Len(x) = at[n])
        BY <1>17, <3>2
      <4> QED
        BY <1>2, <2>3, <2>4, <3>3, <4>1 DEF Aligned
    <3> QED
      BY <1>20, <3>4, <3>5 DEF BytesOK
  <2>9. r < Len(Begun) /\ Begun[r + 1] = sent[r + 1]
    <3>1. CASE Begun = sent
      BY <1>11, <3>1
    <3>2. CASE /\ sent # <<>> /\ rest = Encode(Last(sent))
               /\ Len(Begun) = n - 1 /\ \A i \in 1..(n - 1) : Begun[i] = sent[i]
      <4>1. at[n] = at[n - 1] + Len(rest)
        BY <1>3, <1>10, <3>2, FramedLess
      <4>2. n - 1 \in Nat /\ at[n - 1] \in Nat
        <5>1. n - 1 \in Nat
          BY <1>1, <1>11
        <5> QED
          BY <1>10, <5>1 DEF Framed
      <4>3. at[r] < at[n - 1]
        <5> DEFINE u == at[r]
                   v == at[n - 1]
                   w == at[n]
                   s == Len(rest)
                   t == Len(Pipe)
        <5>1. /\ u \in Nat /\ v \in Nat /\ w \in Nat /\ s \in Nat /\ t \in Nat
              /\ u + t <= w /\ s + 1 <= t /\ w = v + s
          BY <1>5, <1>9, <1>17, <4>1, <4>2
        <5> HIDE DEF u, v, w, s, t
        <5>2. u < v
          BY <5>1
        <5> QED
          BY <5>2 DEF u, v
      <4>4. r \in 0..n /\ n - 1 \in 0..n
        BY <1>1, <4>2
      <4>5. r < n - 1
        BY <1>3, <1>10, <4>3, <4>4, EndsLater
      <4>6. r + 1 \in 1..(n - 1)
        BY <1>1, <4>2, <4>5
      <4> QED
        BY <3>2, <4>5, <4>6
    <3> QED
      BY <3>1, <3>2, BegunFrames
  <2> QED
    BY <1>1, <1>2, <1>20, <2>2, <2>5, <2>6, <2>7, <2>8, <2>9 DEF StreamInv
<1> QED
  BY <1>18, <1>19, <1>20

\* StreamInv is inductive: once a call was dropped inside a frame it says
\* nothing, before that each action keeps it.
LEMMA StreamInvNext == StreamInv /\ [StreamNext]_streamVars => StreamInv'
<1> SUFFICES ASSUME StreamInv, [StreamNext]_streamVars PROVE StreamInv'
  OBVIOUS
<1>1. CASE cut
  <2>1. cut' = TRUE
    BY <1>1 DEF StreamInv, StreamNext, streamVars, WriteFrame, WriteByte, Flush, Push, Close,
                ReadByte, ReadEof, AbandonWrite, AbandonRead
  <2> QED
    BY <2>1 DEF StreamInv
<1>2. CASE ~cut /\ UNCHANGED streamVars
  <2>1. UNCHANGED <<writer, rest, buffer, wire, closed, reader, got, sent, received, cut>>
    BY <1>2 DEF streamVars
  <2>2. StreamTypes /\ CallsOK /\ ReceivedPrefix /\ (reader = "reading" => BytesOK)
    BY <1>2, StreamFacts
  <2>3. Pipe' = Pipe
    BY <2>1 DEF Pipe
  <2>4. reader = "reading" => BytesOK'
    BY <2>1, <2>2, <2>3, BytesSame
  <2>5. StreamTypes' /\ CallsOK' /\ ReceivedPrefix'
    BY <2>1, <2>2 DEF StreamTypes, CallsOK, ReceivedPrefix
  <2> QED
    BY <1>2, <2>1, <2>4, <2>5 DEF StreamInv
<1>3. ASSUME ~cut, NEW f \in Frames, WriteFrame(f)
      PROVE  StreamInv'
  BY <1>3, WriteFrameKept
<1>4. CASE ~cut /\ (WriteByte \/ Flush \/ Push)
  BY <1>4, MoveKept
<1>5. CASE ~cut /\ Close
  BY <1>5, CloseKept
<1>6. CASE ~cut /\ ReadByte
  BY <1>6, ReadByteKept
<1>7. CASE ~cut /\ (ReadEof \/ AbandonRead)
  BY <1>7, EndKeptOrCut
<1>8. CASE ~cut /\ AbandonWrite
  BY <1>8, AbandonWriteKept
<1> QED
  BY <1>1, <1>2, <1>3, <1>4, <1>5, <1>6, <1>7, <1>8 DEF StreamNext

\* A frame that was not begun is sent with its first byte, or its error.
LEMMA SentWhenBegun ==
  ASSUME StreamInv, ~cut, sent' = sent, Begun' = sent, UNCHANGED <<received, cut>>
  PROVE  [Link!Next]_<<Begun, received, cut>>
<1>1. CASE Begun = sent
  BY <1>1
<1>2. CASE /\ sent # <<>> /\ Begun = Front(sent) /\ Len(Begun) = Len(sent) - 1
  <2>1. Len(sent) \in Nat \ {0}
    BY <1>2, LastFrame
  <2>2. Len(Begun') = Len(Begun) + 1
    BY <1>2, <2>1
  <2>3. SubSeq(Begun', 1, Len(Begun)) = Begun
    BY <1>2 DEF Front
  <2>4. Link!Send
    BY <2>2, <2>3 DEF Link!Send, Begun
  <2> QED
    BY <2>4 DEF Link!Next
<1> QED
  BY <1>1, <1>2, BegunFrames

\* What each step of the stream is on the link.
LEMMA StreamStep ==
  StreamInv /\ [StreamNext]_streamVars => [Link!Next]_<<Begun, received, cut>>
<1> SUFFICES ASSUME StreamInv, [StreamNext]_streamVars
             PROVE  [Link!Next]_<<Begun, received, cut>>
  OBVIOUS
<1>1. CASE cut
  <2>1. cut' = TRUE
    BY <1>1 DEF StreamInv, StreamNext, streamVars, WriteFrame, WriteByte, Flush, Push, Close,
                ReadByte, ReadEof, AbandonWrite, AbandonRead
  <2>2. Link!Unframed
    BY <1>1, <2>1 DEF Link!Unframed
  <2> QED
    BY <2>2 DEF Link!Next
<1>2. CASE UNCHANGED <<rest, sent, received, cut>>
  <2>1. Begun' = Begun
    BY <1>2 DEF Begun
  <2> QED
    BY <1>2, <2>1
<1>3. ASSUME ~cut, NEW f \in Frames, WriteFrame(f)
      PROVE  UNCHANGED <<Begun, received, cut>>
  <2>1. writer = "idle" /\ rest' = Encode(f) /\ sent' = Append(sent, f) /\ UNCHANGED <<received, cut>>
        /\ f \in Writable
    BY <1>3 DEF WriteFrame, Writable
  <2>2. CallsOK /\ sent \in Seq(Writable)
    BY <1>3, StreamFacts DEF StreamTypes
  <2>3. Begun = sent
    BY <2>1, <2>2 DEF CallsOK, Begun
  <2>4. Last(sent') = f /\ Front(sent') = sent
    BY <2>1, <2>2 DEF Last, Front
  <2>5. rest' # <<>>
    <3>1. Encode(f) \in Seq(Byte) /\ HeaderLen \in Nat \ {0} /\ Len(f.payload) \in Nat
          /\ Len(Encode(f)) = HeaderLen + Len(f.payload)
      BY <2>1, EncodeRead
    <3>2. Len(Encode(f)) # 0
      BY <3>1
    <3> QED
      BY <2>1, <3>1, <3>2, EmptySeq
  <2>6. Begun' = sent
    BY <2>1, <2>4, <2>5 DEF Begun
  <2> QED
    BY <2>1, <2>3, <2>6
<1>4. CASE ~cut /\ WriteByte
  <2>1. writer = "write_all" /\ rest' = Tail(rest) /\ UNCHANGED <<sent, received, cut>>
    BY <1>4 DEF WriteByte
  <2>2. /\ rest \in Seq(Byte) /\ rest # <<>> /\ sent # <<>> /\ Len(rest) <= Len(Encode(Last(sent)))
    BY <1>4, <2>1, StreamFacts DEF StreamTypes, CallsOK
  <2>3. Len(rest) \in Nat /\ Len(Tail(rest)) = Len(rest) - 1
    BY <2>2, HeadTailProperties, LenProperties
  <2>4. Len(Encode(Last(sent))) \in Nat
    BY <1>4, <2>2, LastFrame
  <2>5. Tail(rest) # Encode(Last(sent))
    BY <2>2, <2>3, <2>4
  <2>6. Begun' = sent
    BY <2>1, <2>5 DEF Begun
  <2> QED
    BY <1>4, <2>1, <2>6, SentWhenBegun
<1>5. CASE ~cut /\ Close
  <2>1. rest' = <<>> /\ UNCHANGED <<sent, received, cut>>
    BY <1>5 DEF Close
  <2>2. Begun' = sent
    BY <2>1 DEF Begun
  <2> QED
    BY <1>5, <2>1, <2>2, SentWhenBegun
<1>6. CASE ~cut /\ ReadByte
  <2>1. UNCHANGED <<rest, sent, cut>>
    BY <1>6 DEF ReadByte
  <2>2. Begun' = Begun
    BY <2>1 DEF Begun
  <2>3. CASE UNCHANGED received
    BY <2>1, <2>2, <2>3
  <2>4. CASE /\ Len(received) < Len(Begun)
             /\ received' = Append(received, Begun[Len(received) + 1])
    <3>1. Link!Deliver
      BY <1>6, <2>1, <2>2, <2>4 DEF Link!Deliver, Begun
    <3> QED
      BY <3>1 DEF Link!Next
  <2> QED
    BY <1>6, <2>3, <2>4, ReadByteKept
<1>7. CASE ~cut /\ AbandonRead
  <2>1. cut' /\ UNCHANGED <<rest, sent, received>>
    BY <1>7 DEF AbandonRead
  <2>2. Begun' = Begun
    BY <2>1 DEF Begun
  <2>3. Link!Abandon
    BY <2>1, <2>2 DEF Link!Abandon, Begun
  <2> QED
    BY <2>3 DEF Link!Next
<1>8. CASE ~cut /\ AbandonWrite
  <2> DEFINE e == Encode(Last(sent))
  <2>1. /\ writer # "idle" /\ rest' = <<>> /\ sent' = (IF rest = e THEN Front(sent) ELSE sent)
        /\ cut' = (cut \/ (rest # <<>> /\ rest # e)) /\ received' = received
    BY <1>8 DEF AbandonWrite
  <2>2. sent # <<>>
    BY <1>8, <2>1, StreamFacts DEF CallsOK
  <2>3. e # <<>>
    BY <1>8, <2>2, LastFrame
  <2>4. Begun' = sent'
    BY <2>1 DEF Begun
  <2>5. Begun = sent'
    BY <2>1, <2>3 DEF Begun
  <2>6. CASE rest = e \/ rest = <<>>
    <3>1. cut' = cut
      BY <1>8, <2>1, <2>6 DEF StreamInv
    <3> QED
      BY <2>1, <2>4, <2>5, <3>1
  <2>7. CASE rest # e /\ rest # <<>>
    <3>1. Link!Abandon
      BY <2>1, <2>4, <2>5, <2>7 DEF Link!Abandon, Begun
    <3> QED
      BY <3>1 DEF Link!Next
  <2> QED
    BY <2>6, <2>7
<1>9. Flush \/ Push \/ ReadEof \/ UNCHANGED streamVars => UNCHANGED <<rest, sent, received, cut>>
  BY DEF Flush, Push, ReadEof, streamVars
<1> QED
  BY <1>1, <1>2, <1>3, <1>4, <1>5, <1>6, <1>7, <1>8, <1>9 DEF StreamNext

\* Frames arrive whole, once and in order, for frames, payloads and field widths
\* of any size, until a call is dropped inside a frame: write_raw_frame and
\* read_raw_frame implement the link.
THEOREM FramesImplementLink == StreamSpec => LinkSpec
<1>1. StreamSpec => []StreamInv
  <2>1. StreamInit => StreamInv
    BY StreamInvInit
  <2>2. StreamInv /\ [StreamNext]_streamVars => StreamInv'
    BY StreamInvNext
  <2> QED
    BY <2>1, <2>2, PTL DEF StreamSpec
<1>2. StreamInit => Link!Init
  BY DEF StreamInit, Link!Init
<1>3. StreamInv /\ [StreamNext]_streamVars => [Link!Next]_<<Begun, received, cut>>
  BY StreamStep
<1>4. StreamInit /\ []StreamInv /\ [][StreamNext]_streamVars => Link!Init /\ [][Link!Next]_<<Begun, received, cut>>
  BY <1>2, <1>3, PTL
<1>5. Link!Init /\ [][Link!Next]_<<Begun, received, cut>> => LinkSpec
  BY DEF LinkSpec, Link!Spec, Begun
<1> QED
  BY <1>1, <1>4, <1>5, PTL DEF StreamSpec
=============================================================================
