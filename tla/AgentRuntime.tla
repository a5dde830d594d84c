---------------------------- MODULE AgentRuntime ----------------------------
(***************************************************************************)
(* Sandboxed agents and their host functions (crates/agent-runtime/src):   *)
(* load_agent, start_agent and stop_agent of lifecycle.rs, the functions   *)
(* of host_fns.rs with their permission checks, the fuel of sandbox.rs and *)
(* the database files of the agents.                                       *)
(*                                                                         *)
(* A guest is any program with given imports and exports, with or without  *)
(* a start section.  While it is called it may compute, call every         *)
(* function it imports, return, trap, or panic in a host function.  Fuel   *)
(* is counted in such steps.  A database call hands SQLite any statement:  *)
(* it may never end, and as nothing restricts what it names, an ATTACHed   *)
(* file or the target of a VACUUM INTO, it may change every agent's file.  *)
(* The WebAssembly engine, SQLite and the program that calls the lifecycle *)
(* functions are external.                                                 *)
(***************************************************************************)
EXTENDS Naturals, FiniteSets

CONSTANTS Slots,          \* the places of a host program for instances
          Cids,           \* content ids of agents
          Programs,       \* [imports, exports, start] of their WASM modules
          Grants,         \* the permission sets a host program gives out
          Blobs,          \* the data of rows and stored blobs
          FuelLimit,      \* SandboxConfig::fuel_limit
          MaxLoads        \* bound: calls of load_agent

ASSUME AgentAssumption ==
  /\ FuelLimit \in Nat /\ MaxLoads \in Nat
  /\ \A program \in Programs : program.start \in BOOLEAN
  /\ \A permissions \in Grants :
       permissions \subseteq {"ReadOwnDb", "WriteOwnDb", "StorageRead", "StorageWrite",
                             "NetworkSend", "DhtAccess", "SpawnAgent"}

VARIABLES agent,    \* by slot: the AgentInstance, or NotLoaded
          rows,     \* by agent: the rows in its database file, each with its writer
          blobs,    \* the AgentStore the host program shares, each with its writer
          loads

agentVars == <<agent, rows, blobs, loads>>

-----------------------------------------------------------------------------
Capability == {"ReadOwnDb", "WriteOwnDb", "StorageRead", "StorageWrite",
               "NetworkSend", "DhtAccess", "SpawnAgent"}

DbCapability == {"ReadOwnDb", "WriteOwnDb"}

StandardFns == {"log", "current_time", "emit_event", "db_execute", "db_query",
                "get_config"}
Tier1Fns == {"storage_put", "storage_get", "network_send", "dht_put", "dht_get"}

\* The capability a host function checks first.
Required == [db_execute |-> "WriteOwnDb", db_query |-> "ReadOwnDb",
             storage_put |-> "StorageWrite", storage_get |-> "StorageRead",
             network_send |-> "NetworkSend", dht_put |-> "DhtAccess", dht_get |-> "DhtAccess"]

\* The functions that go on to read an argument from the guest's memory.
ReadingFns == {"log", "emit_event", "db_execute", "db_query", "get_config",
               "storage_put", "storage_get"}

EntryPoints == {"_init", "_start"}

Tiers == {1, 2}

NotLoaded == [call |-> "none"]

IsLoaded(i) == agent[i] # NotLoaded

\* Who acts, as far as a later reader of a row or blob could ask.
Identity(a) == [cid |-> a.cid, tier |-> a.tier, permissions |-> a.permissions]

Identities == [cid : Cids, tier : Tiers, permissions : SUBSET Capability]

\* Faulty variant: the linker offers the extra functions to everyone.
Linked_All(tier) == StandardFns \cup Tier1Fns

\* The functions load_agent registers in the linker.
Linked(tier) == IF tier = 1 THEN StandardFns \cup Tier1Fns ELSE StandardFns

\* What instantiate makes: the start section of a module that has one runs first.
Instantiated(cid, tier, permissions, program) ==
  [cid |-> cid, tier |-> tier, permissions |-> permissions, program |-> program,
   hasStore |-> FALSE, fuel |-> FuelLimit, worked |-> 0, statement |-> FALSE,
   call |-> IF program.start THEN "instantiate" ELSE "idle"]

-----------------------------------------------------------------------------
AgentInit ==
  /\ agent = [i \in Slots |-> NotLoaded]
  /\ rows = [c \in Cids |-> {}]
  /\ blobs = {}
  /\ loads = 0

\* Faulty variant: creating the observability tables starts a new file.
LoadAgent_Fresh(i, cid, tier, permissions) ==
  /\ ~IsLoaded(i)
  /\ loads < MaxLoads
  /\ loads' = loads + 1
  /\ \/ UNCHANGED agent
     \/ \E program \in {p \in Programs : p.imports \subseteq Linked(tier)} :
          agent' = [agent EXCEPT ![i] = Instantiated(cid, tier, permissions, program)]
  /\ rows' = [rows EXCEPT ![cid] = {}]
  /\ UNCHANGED blobs

(* The database is opened and its tables created before the module is      *)
(* compiled, its memory imports bounded and its imports resolved: files    *)
(* stay as they are wherever the load fails (slot i stays free).           *)
LoadAgent(i, cid, tier, permissions) ==
  /\ ~IsLoaded(i)
  /\ loads < MaxLoads
  /\ loads' = loads + 1
  /\ \/ UNCHANGED agent
     \/ \E program \in {p \in Programs : p.imports \subseteq Linked(tier)} :
          agent' = [agent EXCEPT ![i] = Instantiated(cid, tier, permissions, program)]
  /\ UNCHANGED <<rows, blobs>>

\* load_agent's HostState has no store; the host program may set its field.
GiveStore(i) ==
  /\ agent[i].call = "idle"
  /\ agent' = [agent EXCEPT ![i].hasStore = TRUE]
  /\ UNCHANGED <<rows, blobs, loads>>

\* Faulty variant: a start fills the fuel up again.
StartAgent_Refuel(i) ==
  /\ agent[i].call = "idle"
  /\ agent[i].program.exports \cap EntryPoints # {}
  /\ agent' = [agent EXCEPT ![i].call = IF "_init" \in agent[i].program.exports
                                        THEN "_init" ELSE "_start",
                            ![i].fuel = FuelLimit]
  /\ UNCHANGED <<rows, blobs, loads>>

(* start_agent calls _init, or _start if there is no _init, or answers     *)
(* NoEntryPoint.                                                           *)
StartAgent(i) ==
  /\ agent[i].call = "idle"
  /\ agent[i].program.exports \cap EntryPoints # {}
  /\ agent' = [agent EXCEPT ![i].call = IF "_init" \in agent[i].program.exports
                                        THEN "_init" ELSE "_start"]
  /\ UNCHANGED <<rows, blobs, loads>>

\* stop_agent leaves an instance that may be started again.
StopAgent(i) ==
  /\ agent[i].call = "idle"
  /\ "_shutdown" \in agent[i].program.exports
  /\ agent' = [agent EXCEPT ![i].call = "_shutdown"]
  /\ UNCHANGED <<rows, blobs, loads>>

\* The host program drops an instance that is not being called.
Drop(i) ==
  /\ agent[i].call = "idle"
  /\ agent' = [agent EXCEPT ![i] = NotLoaded]
  /\ UNCHANGED <<rows, blobs, loads>>

-----------------------------------------------------------------------------
(* What a guest does while it is called. *)

Running(i) == agent[i].call \notin {"none", "idle"}

InStatement(i) == Running(i) /\ agent[i].statement

\* Guest code runs, not SQLite.
InGuest(i) == Running(i) /\ ~agent[i].statement

(* The call ends: it returned, trapped on a fault, or ran out of fuel.  A  *)
(* start section that traps takes the instance with it.                    *)
EndCall(i) ==
  /\ InGuest(i)
  /\ \/ agent' = [agent EXCEPT ![i].call = "idle"]
     \/ agent[i].call = "instantiate" /\ agent' = [agent EXCEPT ![i] = NotLoaded]
  /\ UNCHANGED <<rows, blobs, loads>>

\* Faulty variant: host calls are free.
Burn_Nothing(i, statement) ==
  agent' = [agent EXCEPT ![i].statement = statement]

\* Every call costs fuel; `worked` counts what an instance has done with it.
Burn(i, statement) ==
  agent' = [agent EXCEPT ![i].fuel = @ - 1, ![i].worked = @ + 1,
                         ![i].statement = statement]

\* A stretch of the guest's own instructions.
Compute(i) ==
  /\ InGuest(i)
  /\ agent[i].fuel > 0
  /\ Burn(i, FALSE)
  /\ UNCHANGED <<rows, blobs, loads>>

MayCall(i, fn) ==
  InGuest(i) /\ agent[i].fuel > 0 /\ fn \in agent[i].program.imports

\* It has the capability, and the function found the memory its arguments are in.
Reads(i, fn) ==
  /\ fn \in ReadingFns
  /\ fn \in DOMAIN Required => Required[fn] \in agent[i].permissions
  /\ "memory" \in agent[i].program.exports

(* An argument out of the memory's range is sliced without a check: the    *)
(* panic goes up through the call to the owner of the instance.            *)
HostPanic(i) ==
  /\ \E fn \in ReadingFns : MayCall(i, fn) /\ Reads(i, fn)
  /\ agent' = [agent EXCEPT ![i] = NotLoaded]
  /\ UNCHANGED <<rows, blobs, loads>>

DbExecute(i) ==
  /\ MayCall(i, "db_execute")
  /\ Burn(i, Reads(i, "db_execute"))
  /\ UNCHANGED <<rows, blobs, loads>>

\* prepare and query_map run whatever statement they are given.
DbQuery(i) ==
  /\ MayCall(i, "db_query")
  /\ Burn(i, Reads(i, "db_query"))
  /\ UNCHANGED <<rows, blobs, loads>>

(* SQLite is done with the statement (or refuses it, or gives up on a file *)
(* another connection has locked): with what it and the transaction it     *)
(* commits deleted and inserted, in whichever files.                       *)
EndStatement(i) ==
  /\ InStatement(i)
  /\ agent' = [agent EXCEPT ![i].statement = FALSE]
  /\ \E gone \in SUBSET UNION {{c} \X rows[c] : c \in Cids},
        new \in [Cids -> SUBSET [blob : Blobs, by : {Identity(agent[i])}]] :
       rows' = [c \in Cids |-> {r \in rows[c] : <<c, r>> \notin gone} \cup new[c]]
  /\ UNCHANGED <<blobs, loads>>

\* Without a store the guest gets a hash and nothing is kept.
StoragePut(i) ==
  /\ MayCall(i, "storage_put")
  /\ Burn(i, FALSE)
  /\ \E b \in Blobs :
       blobs' = IF Reads(i, "storage_put") /\ agent[i].hasStore
                THEN blobs \cup {[blob |-> b, by |-> Identity(agent[i])]}
                ELSE blobs
  /\ UNCHANGED <<rows, loads>>

\* Calls that change nothing a property tells apart.
OtherCall(i) ==
  /\ \E fn \in (StandardFns \cup Tier1Fns) \ {"db_execute", "db_query", "storage_put"} :
       MayCall(i, fn)
  /\ Burn(i, FALSE)
  /\ UNCHANGED <<rows, blobs, loads>>

\* The steps the engine takes without waiting for SQLite.
GuestStep(i) ==
  \/ EndCall(i) \/ Compute(i) \/ HostPanic(i)
  \/ DbExecute(i) \/ DbQuery(i) \/ StoragePut(i) \/ OtherCall(i)

-----------------------------------------------------------------------------
\* The host program ends: instances and the MemoryStore go, the files stay.
AgentExit ==
  /\ agent' = [i \in Slots |-> NotLoaded]
  /\ blobs' = {}
  /\ UNCHANGED <<rows, loads>>

AgentNext ==
  \/ \E i \in Slots, cid \in Cids, tier \in Tiers, permissions \in Grants :
       LoadAgent(i, cid, tier, permissions)
  \/ \E i \in Slots : \/ GiveStore(i) \/ StartAgent(i) \/ StopAgent(i) \/ Drop(i)
                      \/ GuestStep(i) \/ EndStatement(i)
  \/ AgentExit

AgentSpec == AgentInit /\ [][AgentNext]_agentVars

(* The engine goes on with a call until it ends.  Nothing is assumed of    *)
(* SQLite: no time limit, fuel or interrupt ends a statement.              *)
FairSpec == AgentSpec /\ \A i \in Slots : WF_agentVars(GuestStep(i))

-----------------------------------------------------------------------------
(* Properties. *)

(* The fuel of create_store bounds all an instance does in its life, from  *)
(* the start section of its module over any sequence of starts and stops:  *)
(* no start_agent gives it more.                                           *)
FuelBoundsWork ==
  \A i \in Slots : IsLoaded(i) => agent[i].worked + agent[i].fuel <= FuelLimit

(* Rows outlive instances, failed loads (after a start section that ran    *)
(* statements, too), stops and the host program: the rows of any file      *)
(* change only by a statement of an instance with a capability for its     *)
(* database, and what is added has that instance for its writer.           *)
KeepsRows ==
  \A c \in Cids :
    \/ rows'[c] = rows[c]
    \/ \E i \in Slots :
         /\ InStatement(i) /\ ~InStatement(i)'
         /\ agent[i].permissions \cap DbCapability # {}
         /\ \A r \in rows'[c] \ rows[c] : r.by = Identity(agent[i])

RowsKept == [][KeepsRows]_agentVars

(* Only a tier 1 instance that was given StorageWrite puts anything into   *)
(* the store the host program shares between agents, whatever a tier 2     *)
(* program imports and whatever it was granted.                            *)
StoreOnlyTier1 ==
  \A b \in blobs : b.by.tier = 1 /\ "StorageWrite" \in b.by.permissions

(* Every call of load_agent, start_agent and stop_agent returns, unless    *)
(* SQLite never comes back from a statement of it: a guest that goes on    *)
(* forever runs out of fuel.                                               *)
EveryCallReturns ==
  \A i \in Slots : ([]<>~InStatement(i)) => (Running(i) ~> ~Running(i))
=============================================================================
