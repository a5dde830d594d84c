------------------------------ MODULE MCNetwork ------------------------------
(***************************************************************************)
(* The network layer for TLC, in three parts of one state space that do    *)
(* not touch each other: DHTs, gossip and frames on a stream.  Nodes a and *)
(* b have two DHTs with opposite roles, c has one and starts from a.       *)
(***************************************************************************)
EXTENDS CraftSwarm, FrameStream, TLC

VARIABLE part

MCPrefix == "a" :> "craftobj" @@ "b" :> "craftnet" @@ "c" :> "craftobj"
MCSecondary == "a" :> "craftnet" @@ "b" :> "craftobj" @@ "c" :> "none"
MCBootstrap == "a" :> {} @@ "b" :> {} @@ "c" :> {"a"}
MCContacts == {<<"a", "b">>}
MCLinks == {l \in {"a", "b", "c"} \X {"a", "b", "c"} : l[1] # l[2]}
MCInterests == {"b", "c"} \X {"t"} \cup {<<"c", "u">>}
MCPuts == {<<"a", "secondary", 1, 10>>, <<"b", "primary", 1, 10>>, <<"b", "secondary", 1, 10>>,
           <<"b", "secondary", 1, 100>>, <<"c", "primary", 1, 40>>}
MCFrames == {[seq_id |-> 1, msg_type |-> 0, payload |-> p] :
               p \in {<<>>, <<1>>, <<1, 0>>, <<1, 1, 1>>}}

Init == SwarmInit /\ StreamInit /\ part \in {"dht", "gossip", "stream"}

Next ==
  /\ part' = part
  /\ \/ part = "dht" /\ DhtNext /\ UNCHANGED streamVars
     \/ part = "gossip" /\ GossipNext /\ UNCHANGED streamVars
     \/ part = "stream" /\ StreamNext /\ UNCHANGED swarmVars

Spec == Init /\ [][Next]_<<swarmVars, streamVars, part>> /\ StreamFairness
=============================================================================
