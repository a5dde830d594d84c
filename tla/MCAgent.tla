------------------------------ MODULE MCAgent ------------------------------
(* An instance of AgentRuntime for TLC. *)
EXTENDS AgentRuntime, TLC

\* An agent that stores, and one whose start section uses the database.
MCPrograms ==
  {[imports |-> {"storage_put"}, exports |-> {"memory", "_init", "_shutdown"}, start |-> FALSE],
   [imports |-> {"log", "db_execute", "db_query"}, exports |-> {"memory", "_start"}, start |-> TRUE]}

\* TIER1_PERMISSIONS, and one that may read its database and the store.
MCGrants ==
  {Capability, {"ReadOwnDb", "StorageRead"}}
=============================================================================
