------------------------------ MODULE CraftSwarm ------------------------------
(***************************************************************************)
(* Nodes with a CraftBehaviour (network/src/behaviour.rs), built by        *)
(* build_swarm (network/src/node.rs) and driven by the calls that          *)
(* SharedSwarmCommand lists (network/src/shared.rs): one or two Kademlia   *)
(* DHTs on one swarm, and gossip.  What libp2p does with a call is         *)
(* external; sizes are in KiB.                                             *)
(***************************************************************************)
EXTENDS Topology, Naturals, FiniteSets, Sequences

CONSTANTS
  Prefix,           \* protocol_prefix of each node
  SecondaryPrefix,  \* secondary_protocol_prefix of each node, or NoPrefix
  NoPrefix,
  BootstrapPeers,   \* bootstrap_peers of each node
  Contacts,         \* pairs of a node and a peer whose address it may be given
  Keys,             \* keys of DHT records
  Puts,             \* node, DHT, key and size of the records that may be put
  Topics, Data,
  Interests,        \* gossip: pairs of a node and a topic it may subscribe to
  MaxDepartures,    \* bound on restarts and unsubscriptions
  MaxPublished      \* bound on publications

ASSUME SwarmAssumption ==
  /\ Prefix \in [Nodes -> STRING \ {NoPrefix}]
  /\ SecondaryPrefix \in [Nodes -> STRING]
  /\ \A n \in Nodes : Prefix[n] # SecondaryPrefix[n]
  /\ BootstrapPeers \in [Nodes -> SUBSET Nodes] /\ Contacts \subseteq Nodes \X Nodes
  /\ Puts \subseteq Nodes \X {"primary", "secondary"} \X Keys \X Nat
  /\ Interests \subseteq Nodes \X Topics
  /\ MaxDepartures \in Nat /\ MaxPublished \in Nat

VARIABLES
  server,    \* whether a DHT of a node answers others
  table,     \* routing table of each DHT of a node
  store,     \* records in the store of each DHT of a node
  known,     \* history: peers whose address was added
  query,     \* one DHT query, of any node: queries do not disturb each other
  topics,    \* topics a node has subscribed to
  cache,     \* ids of messages a node has seen lately
  copies,    \* copies of messages on their way
  inbox,     \* history: messages a node's application got, with repetitions
  owed,      \* history: messages with content new from their author, for a node that
             \* has not got them yet
  published, \* history: messages that were published
  refused,   \* history: publications refused as duplicates
  departures \* number of restarts and unsubscriptions

dhtVars == <<server, table, store, known, query>>
gossipVars == <<topics, cache, copies, inbox, owed, published, refused>>
swarmVars == <<server, table, store, known, query, topics, cache, copies, inbox,
               owed, published, refused, departures>>

-----------------------------------------------------------------------------
(***************************************************************************)
(* The DHTs of a node, as build_full configures them.                      *)
(***************************************************************************)
Dhts == {"primary", "secondary"}

Enabled(n, k) == k = "primary" \/ SecondaryPrefix[n] # NoPrefix

PrefixOf(n, k) == IF k = "primary" THEN Prefix[n] ELSE SecondaryPrefix[n]

\* Faulty variant of Protocol: both DHTs get the primary prefix.
Protocol_Primary(n, k) == <<Prefix[n], "kad/1.0.0">>

Protocol(n, k) == <<PrefixOf(n, k), "kad/1.0.0">>

\* The secondary DHT keeps the limits of the library.  That a store is full, with
\* 4096 records or 1024, is left out.
MaxValueBytes(k) == IF k = "primary" THEN 256 ELSE 65
MaxPacketSize(k) == IF k = "primary" THEN 512 ELSE 16

\* Faulty variant of SetMode: the mode is left to the library.
SetMode_Automatic(n, k) == FALSE

\* The secondary DHT is a server from the start; the primary one becomes one
\* when the library learns an external address.
SetMode(n, k) == k = "secondary" /\ Enabled(n, k)

\* The DHT of peer p that speaks the protocol of DHT k of n.
Counterparts(n, k, p) == {i \in Dhts : Enabled(p, i) /\ Protocol(p, i) = Protocol(n, k)}

Travels(size, k, i) == size <= MaxPacketSize(k) /\ size <= MaxPacketSize(i)

OfOtherKeys(records, key) == {r \in records : r.key # key}

NoQuery == [state |-> "none"]

\* build_swarm adds the bootstrap peers' addresses to every DHT.
BuiltTable(n) == [k \in Dhts |-> IF Enabled(n, k) THEN BootstrapPeers[n] ELSE {}]

DhtInit ==
  /\ server = [n \in Nodes |-> [k \in Dhts |-> SetMode(n, k)]]
  /\ table = [n \in Nodes |-> BuiltTable(n)]
  /\ store = [n \in Nodes |-> [k \in Dhts |-> {}]]
  /\ known = BootstrapPeers
  /\ query = NoQuery

\* The query no longer counts on peer p.
Without(p) == IF query = NoQuery THEN NoQuery ELSE [query EXCEPT !.due = @ \ {p}]

\* A record takes the place of one with its key.
Stored(n, k, r) ==
  /\ r.size <= MaxValueBytes(k)
  /\ store' = [store EXCEPT ![n][k] = OfOtherKeys(@, r.key) \cup {r}]
  /\ query' = IF \E o \in store[n][k] : o.key = r.key THEN Without(n) ELSE query

AddAddress(n, p) ==
  /\ <<n, p>> \in Contacts
  /\ table' = [table EXCEPT ![n] =
       [k \in Dhts |-> IF Enabled(n, k) THEN @[k] \cup {p} ELSE @[k]]]
  /\ known' = [known EXCEPT ![n] = @ \cup {p}]
  /\ UNCHANGED <<server, store, query, gossipVars, departures>>

\* AutoNAT finds an external address, or loses it.
ModeChanges(n) ==
  /\ server' = [server EXCEPT ![n]["primary"] = ~@]
  /\ query' = IF server[n]["primary"] THEN Without(n) ELSE query
  /\ UNCHANGED <<table, store, known, gossipVars, departures>>

\* bootstrap and bootstrap_secondary: the peers of a peer that answers become
\* known; without peers the call fails.
Bootstrap(n, k) ==
  \E p \in table[n][k] : \E i \in Counterparts(n, k, p) :
    /\ Enabled(n, k) /\ server[p][i]
    /\ table' = [table EXCEPT ![n][k] = @ \cup (table[p][i] \ {n})]
    /\ UNCHANGED <<server, store, known, query, gossipVars, departures>>

\* put_record and start_providing, and their secondary forms: nothing without a
\* secondary DHT, an error when the store does not take the record.
PutRecord(n, k, r) ==
  /\ Enabled(n, k)
  /\ Stored(n, k, r)
  /\ UNCHANGED <<server, table, known, gossipVars, departures>>

\* A record that was put is sent to a peer of the routing table.
Replicate(n, k) ==
  \E r \in store[n][k], p \in table[n][k] : \E i \in Counterparts(n, k, p) :
    /\ server[p][i] /\ Travels(r.size, k, i)
    /\ Stored(p, i, r)
    /\ UNCHANGED <<server, table, known, gossipVars, departures>>

\* stop_providing removes the node's own record, and a record expires anywhere.
RemoveRecord(n, k) ==
  \E r \in store[n][k] :
    /\ store' = [store EXCEPT ![n][k] = @ \ {r}]
    /\ query' = Without(n)
    /\ UNCHANGED <<server, table, known, gossipVars, departures>>

Holds(p, i, key, k) == \E r \in store[p][i] : r.key = key /\ Travels(r.size, k, i)

\* Peers a query of n must get an answer from: those n was told of, whose DHT
\* is meant to be a server and holds the record.
Due(n, k, key) ==
  {p \in known[n] : \E i \in Dhts :
     /\ Enabled(p, i) /\ PrefixOf(p, i) = PrefixOf(n, k)
     /\ i = "secondary" \/ server[p][i]
     /\ Holds(p, i, key, k)}

\* get_record and get_providers, and their secondary forms, start a query.
GetRecord(n, k, key) ==
  /\ Enabled(n, k)
  /\ query.state # "asking"
  /\ query' = [state |-> "asking", node |-> n, dht |-> k, key |-> key, todo |-> table[n][k],
               found |-> {r \in store[n][k] : r.key = key}, due |-> Due(n, k, key)]
  /\ UNCHANGED <<server, table, store, known, gossipVars, departures>>

\* What the servers among the DHTs of p answer to the query.
Answer(p) ==
  LET k == query.dht
  IN  {r \in UNION {store[p][i] : i \in {j \in Counterparts(query.node, k, p) :
                                         server[p][j] /\ Holds(p, j, query.key, k)}} :
         r.key = query.key}

Ask ==
  /\ query.state = "asking"
  /\ \E p \in query.todo :
       query' = [query EXCEPT !.todo = @ \ {p}, !.found = @ \cup Answer(p)]
  /\ UNCHANGED <<server, table, store, known, gossipVars, departures>>

EndQuery ==
  /\ query.state = "asking"
  /\ query.todo = {} \/ query.found # {}
  /\ query' = [query EXCEPT !.state = "ended"]
  /\ UNCHANGED <<server, table, store, known, gossipVars, departures>>

-----------------------------------------------------------------------------
(***************************************************************************)
(* Gossip.  A 64-bit hash is taken to be free of collisions.               *)
(***************************************************************************)
\* Faulty variant of MessageId: without the author.
MessageId_DataOnly(m) == <<m.data>>

MessageId(m) == <<m.data, m.source>>

GossipInit ==
  /\ topics = [n \in Nodes |-> {}]
  /\ cache = [n \in Nodes |-> {}]
  /\ copies = {}
  /\ inbox = [n \in Nodes |-> <<>>]
  /\ owed = [n \in Nodes |-> {}]
  /\ published = {} /\ refused = {}

Linked(n) == {p \in Nodes : <<n, p>> \in Links}

SubscribeTopic(n, t) ==
  /\ <<n, t>> \in Interests /\ t \notin topics[n]
  /\ topics' = [topics EXCEPT ![n] = @ \cup {t}]
  /\ UNCHANGED <<dhtVars, cache, copies, inbox, owed, published, refused, departures>>

UnsubscribeTopic(n, t) ==
  /\ t \in topics[n]
  /\ departures < MaxDepartures
  /\ departures' = departures + 1
  /\ topics' = [topics EXCEPT ![n] = @ \ {t}]
  /\ owed' = [owed EXCEPT ![n] = {m \in @ : m.topic # t}]
  /\ UNCHANGED <<dhtVars, cache, copies, inbox, published, refused>>

\* The same content from the same peer, on whatever topic.
Alike(m, o) == m.data = o.data /\ m.source = o.source

CopiesOf(m, from, to) == {[to |-> p, msg |-> [m EXCEPT !.via = from]] : p \in to}

\* publish_to_topic: an error if nobody listens, or if the id is known.
Publish(n, t, d) ==
  LET m == [topic |-> t, data |-> d, source |-> n, via |-> n,
            number |-> Cardinality(published)]
      listeners == {p \in Linked(n) : t \in topics[p]}
  IN  /\ Cardinality(published) < MaxPublished
      /\ \/ /\ MessageId(m) \in cache[n]
            /\ refused' = refused \cup {[source |-> n, data |-> d]}
            /\ UNCHANGED <<cache, copies, owed, published>>
         \/ /\ MessageId(m) \notin cache[n] /\ listeners # {}
            /\ cache' = [cache EXCEPT ![n] = @ \cup {MessageId(m)}]
            /\ copies' = copies \cup CopiesOf(m, n, listeners)
            /\ published' = published \cup {m}
            /\ owed' = [p \in Nodes |->
                 IF p \in listeners /\ \A o \in published : ~Alike(o, m)
                 THEN owed[p] \cup {m} ELSE owed[p]]
            /\ UNCHANGED refused
      /\ UNCHANGED <<dhtVars, topics, inbox, departures>>

\* A known message is ignored.  A new one is given to the application and
\* passed on to the others if the node listens to its topic.
ReceiveCopy(c) ==
  LET n == c.to
      m == c.msg
      new == MessageId(m) \notin cache[n]
      listens == m.topic \in topics[n]
      others == {p \in Linked(n) : m.topic \in topics[p] /\ p \notin {m.via, m.source}}
  IN  /\ cache' = [cache EXCEPT ![n] = @ \cup {MessageId(m)}]
      /\ copies' = (copies \ {c}) \cup
                     (IF new /\ listens THEN CopiesOf(m, n, others) ELSE {})
      /\ IF new /\ listens
         THEN /\ inbox' = [inbox EXCEPT ![n] = Append(@, m)]
              /\ owed' = [owed EXCEPT ![n] = {o \in @ : o.number # m.number}]
         ELSE UNCHANGED <<inbox, owed>>
      /\ UNCHANGED <<dhtVars, topics, published, refused, departures>>

\* An id leaves the cache of a node after a minute, when no copy of the message
\* is on its way any more.
Forget(n) ==
  \E id \in cache[n] :
    /\ \A c \in copies : MessageId(c.msg) # id
    /\ cache' = [cache EXCEPT ![n] = @ \ {id}]
    /\ UNCHANGED <<dhtVars, topics, copies, inbox, owed, published, refused, departures>>

-----------------------------------------------------------------------------
\* The process ends and build_swarm makes a new swarm: nothing is kept.
Restart(n) ==
  /\ departures < MaxDepartures
  /\ departures' = departures + 1
  /\ server' = [server EXCEPT ![n] = [k \in Dhts |-> SetMode(n, k)]]
  /\ table' = [table EXCEPT ![n] = BuiltTable(n)]
  /\ store' = [store EXCEPT ![n] = [k \in Dhts |-> {}]]
  /\ known' = [known EXCEPT ![n] = BootstrapPeers[n]]
  /\ query' = IF query # NoQuery /\ query.node = n THEN NoQuery ELSE Without(n)
  /\ topics' = [topics EXCEPT ![n] = {}]
  /\ cache' = [cache EXCEPT ![n] = {}]
  /\ copies' = {c \in copies : c.to # n /\ c.msg.via # n}
  /\ inbox' = [inbox EXCEPT ![n] = <<>>]
  /\ owed' = [p \in Nodes |-> IF p = n THEN {} ELSE {m \in owed[p] : m.source # n}]
  /\ UNCHANGED <<published, refused>>

SwarmInit == DhtInit /\ GossipInit /\ departures = 0

DhtNext ==
  \/ \E n \in Nodes :
       \/ \E p \in Nodes : AddAddress(n, p)
       \/ ModeChanges(n)
       \/ \E k \in Dhts :
            \/ Bootstrap(n, k)
            \/ Replicate(n, k)
            \/ RemoveRecord(n, k)
            \/ \E key \in Keys : GetRecord(n, k, key)
       \/ Restart(n)
  \/ \E p \in Puts :
       PutRecord(p[1], p[2], [key |-> p[3], size |-> p[4], under |-> PrefixOf(p[1], p[2])])
  \/ Ask
  \/ EndQuery

GossipNext ==
  \/ \E n \in Nodes :
       \/ \E t \in Topics :
            \/ SubscribeTopic(n, t)
            \/ UnsubscribeTopic(n, t)
            \/ \E d \in Data : Publish(n, t, d)
       \/ Forget(n)
       \/ Restart(n)
  \/ \E c \in copies : ReceiveCopy(c)

SwarmSpec == SwarmInit /\ [][DhtNext \/ GossipNext]_swarmVars

-----------------------------------------------------------------------------
\* "share peer connections while keeping DHT records isolated": no store ever
\* holds a record, and no query returns one, that was put under another prefix,
\* although the DHTs of two nodes may play opposite roles.
RecordsIsolated ==
  /\ \A n \in Nodes, k \in Dhts : \A r \in store[n][k] : r.under = PrefixOf(n, k)
  /\ query # NoQuery => \A r \in query.found : r.under = PrefixOf(query.node, query.dht)

\* "Server mode: respond to DHT queries from other peers.  Without this [...]":
\* a query ends empty-handed only if no peer it could count on was there from
\* its beginning to its end: one whose address add_address was given, whose
\* DHT is a server and holds the record in a packet it can send.
FoundWhenHeld ==
  query.state = "ended" => query.found # {} \/ query.due = {}

\* message_id_fn: the copies of a message that come by several ways are one
\* message to the application, and peers that publish the same content do not
\* disturb each other.  A publication is refused only to a peer that published
\* the content before, and when no copy is on its way every listener has got
\* what is new from its author.
EachMessageOnce ==
  /\ \A n \in Nodes : \A i, j \in DOMAIN inbox[n] :
       inbox[n][i].number = inbox[n][j].number => i = j
  /\ \A r \in refused : \E m \in published : Alike(m, r)
  /\ copies = {} => \A n \in Nodes : owed[n] = {}
=============================================================================
