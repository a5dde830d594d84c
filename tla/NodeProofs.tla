----------------------------- MODULE NodeProofs -----------------------------
(***************************************************************************)
(* Proofs about the two parts of a node program: the start of its daemon   *)
(* (DaemonHost) and the agents it runs (AgentRuntime).  Each has its own   *)
(* variables, specification and invariant.                                 *)
(***************************************************************************)
EXTENDS DaemonHost, AgentRuntime, TLAPS

(***************************************************************************)
(* The daemon, for any number of processes, starts, saves, crashes and     *)
(* failing file operations.  The invariant says where a process must be to *)
(* have a key, settings or a server, that processes which do not overlap   *)
(* are alone, and what the files hold for one that is alone.               *)
(***************************************************************************)

HasKeyAt == {"cfg_check", "cfg_read", "cfg_create", "cfg_write",
             "save_create", "save_write", "built"}

\* The types of the variables.
HostTypes ==
  /\ pc \in [Procs -> Building \cup Saving \cup {"off", "built", "failed"}]
  /\ key \in [Procs -> Nat]
  /\ config \in [Procs -> Configs \cup {"none"}]
  /\ server \in [Procs -> {"none", "bind", "bind_ws", "serving", "refused"}]
  /\ key_file \in Keys \cup {Absent, Empty}
  /\ settings_file \in Configs \cup {Absent, Empty, "mixed"}
  /\ socket \in Procs \cup {Absent}
  /\ port \in Procs \cup {"free"}
  /\ generated \in Nat /\ contended \in BOOLEAN
  /\ crashes \in Nat /\ faults \in Nat

\* What a process has, by where it is.
Phases ==
  \A p \in Procs :
    /\ pc[p] \in HasKeyAt => key[p] \in Keys
    /\ key[p] # 0 => pc[p] \in HasKeyAt \cup {"failed"}
    /\ pc[p] \in Saving \cup {"built"} => config[p] \in Configs
    /\ server[p] # "none" => pc[p] \in Saving \cup {"built"}
    /\ port = p => server[p] = "serving"

\* Processes that have never overlapped: at most one is not off.
Alone ==
  ~contended => \A p, q \in Procs : p = q \/ pc[p] = "off" \/ pc[q] = "off"

KeyInUse ==
  ~contended => \A p \in Procs : key[p] # 0 => key_file = key[p]

\* The socket at the path is the one of a process that is alone.
SocketHeld ==
  ~contended =>
    \A p \in Procs :
      /\ server[p] # "refused"
      /\ server[p] = "bind" => socket = Absent
      /\ server[p] \in {"bind_ws", "serving"} => socket = p

\* Without crashes and faults the files are whole unless the one process is
\* in the middle of writing them.
FilesWhole ==
  ~contended /\ crashes = 0 /\ faults = 0 =>
    /\ \/ key_file \in Keys \cup {Absent}
       \/ \E p \in Procs : pc[p] = "key_write"
    /\ \/ settings_file \in Configs \cup {Absent}
       \/ \E p \in Procs : pc[p] \in {"cfg_write", "save_write"}
    /\ \A p \in Procs :
         /\ pc[p] # "failed"
         /\ pc[p] = "key_read" => key_file \in Keys
         /\ pc[p] = "cfg_read" => settings_file \in Configs
         /\ pc[p] \in {"cfg_write", "save_write"} => settings_file = Empty
         /\ pc[p] = "built" => settings_file = config[p]

HostInv ==
  HostTypes /\ Phases /\ Alone /\ KeyInUse /\ SocketHeld /\ FilesWhole

-----------------------------------------------------------------------------
LEMMA HostInit == Init => HostInv
<1> SUFFICES ASSUME Init PROVE HostInv
  OBVIOUS
<1>1. HostTypes
  BY DEF Init, HostTypes, Building, Saving, Keys, Configs
<1>2. Phases
  BY HostAssumption DEF Init, Phases, HasKeyAt, Saving
<1>3. Alone /\ KeyInUse /\ SocketHeld /\ FilesWhole
  BY DEF Init, Alone, KeyInUse, SocketHeld, FilesWhole
<1> QED BY <1>1, <1>2, <1>3 DEF HostInv

\* What one process does once it has started.
RunStep(p) ==
  \/ BuildStep(p) \/ ServerStep(p) \/ Exit(p) \/ Crash(p)
  \/ \E c \in Configs : Save(p, c)
  \/ IoError(p)

LEMMA TypesStep ==
  ASSUME HostTypes, Phases, NEW p \in Procs, Start(p) \/ RunStep(p)
  PROVE  HostTypes'
<1> USE DEF HostTypes, Building, Saving, Keys, Configs, Goto, files, bounds
<1>1. CASE Start(p)
  BY <1>1 DEF Start
<1>2. CASE KeyExists(p) \/ ReadKey(p) \/ CreateKeyFile(p) \/ WriteKeyFile(p)
  BY <1>2 DEF KeyExists, ReadKey, CreateKeyFile, WriteKeyFile
<1>3. CASE SettingsExist(p) \/ ReadSettings(p) \/ CreateSettingsFile(p)
  BY <1>3 DEF SettingsExist, ReadSettings, CreateSettingsFile
<1>4. CASE WriteSettingsFile(p)
  <2>1. \A new \in Configs :
          Overwritten(settings_file, new) \in Configs \cup {"mixed"}
    BY DEF Overwritten
  <2>2. pc[p] = "save_write" => config[p] \in Configs
    BY DEF Phases
  <2> QED BY <1>4, <2>1, <2>2 DEF WriteSettingsFile
<1>5. CASE ServerStep(p)
  BY <1>5 DEF ServerStep, RemoveSocket, BindSocket, BindPort
<1>6. CASE Exit(p) \/ Crash(p)
  BY <1>6 DEF Exit, Crash, Gone
<1>7. ASSUME NEW c \in Configs, Save(p, c) PROVE HostTypes'
  BY <1>7 DEF Save
<1>8. CASE IoError(p)
  BY <1>8 DEF IoError
<1> QED BY <1>1, <1>2, <1>3, <1>4, <1>5, <1>6, <1>7, <1>8 DEF RunStep, BuildStep

LEMMA PhasesStep ==
  ASSUME HostTypes, Phases, NEW p \in Procs, Start(p) \/ RunStep(p)
  PROVE  Phases'
<1> USE HostAssumption DEF HostTypes, Phases, HasKeyAt, Building, Saving, Keys, Configs, Goto, files, bounds
<1>1. CASE Start(p)
  BY <1>1 DEF Start
<1>2. CASE KeyExists(p) \/ ReadKey(p) \/ CreateKeyFile(p)
  BY <1>2 DEF KeyExists, ReadKey, CreateKeyFile
<1>3. CASE WriteKeyFile(p)
  BY <1>3 DEF WriteKeyFile
<1>4. CASE SettingsExist(p) \/ ReadSettings(p) \/ CreateSettingsFile(p)
  BY <1>4 DEF SettingsExist, ReadSettings, CreateSettingsFile
<1>5. CASE WriteSettingsFile(p)
  BY <1>5 DEF WriteSettingsFile
<1>6. CASE ServerStep(p)
  BY <1>6 DEF ServerStep, RemoveSocket, BindSocket, BindPort
<1>7. CASE Exit(p) \/ Crash(p)
  BY <1>7 DEF Exit, Crash, Gone
<1>8. ASSUME NEW c \in Configs, Save(p, c) PROVE Phases'
  BY <1>8 DEF Save
<1>9. CASE IoError(p)
  BY <1>9 DEF IoError
<1> QED BY <1>1, <1>2, <1>3, <1>4, <1>5, <1>6, <1>7, <1>8, <1>9 DEF RunStep, BuildStep

\* A process that runs moves only itself, and keeps `contended`.
LEMMA RunFrame ==
  ASSUME HostTypes, Phases, NEW p \in Procs, RunStep(p)
  PROVE  /\ pc[p] # "off" /\ UNCHANGED contended
         /\ \A q \in Procs : q # p =>
              pc'[q] = pc[q] /\ key'[q] = key[q] /\ server'[q] = server[q]
<1> USE DEF HostTypes, Saving, Goto, files, bounds
<1>1. CASE BuildStep(p)
  BY <1>1 DEF BuildStep, KeyExists, ReadKey, CreateKeyFile, WriteKeyFile, SettingsExist,
     ReadSettings, CreateSettingsFile, WriteSettingsFile
<1>2. CASE ServerStep(p)
  BY <1>2 DEF ServerStep, RemoveSocket, BindSocket, BindPort, Phases
<1>3. CASE Exit(p) \/ Crash(p)
  BY <1>3 DEF Exit, Crash, Gone
<1>4. ASSUME NEW c \in Configs, Save(p, c)
      PROVE  /\ pc[p] # "off" /\ UNCHANGED contended
             /\ \A q \in Procs : q # p =>
                  pc'[q] = pc[q] /\ key'[q] = key[q] /\ server'[q] = server[q]
  BY <1>4 DEF Save
<1>5. CASE IoError(p)
  BY <1>5 DEF IoError
<1> QED BY <1>1, <1>2, <1>3, <1>4, <1>5 DEF RunStep

LEMMA AloneStep ==
  ASSUME HostTypes, Phases, Alone, NEW p \in Procs, Start(p) \/ RunStep(p)
  PROVE  Alone'
<1>1. CASE Start(p)
  BY <1>1 DEF Start, Alone, HostTypes, Goto
<1>2. CASE RunStep(p)
  BY <1>2, RunFrame DEF Alone
<1> QED BY <1>1, <1>2

\* Beside a process that runs without overlap, all others are off.
LEMMA OthersOff ==
  ASSUME HostTypes, Phases, Alone, ~contended, NEW p \in Procs, RunStep(p)
  PROVE  \A q \in Procs : q # p =>
           pc[q] = "off" /\ key[q] = 0 /\ server[q] = "none" /\ port # q
<1>1. pc[p] # "off"
  BY RunFrame
<1>2. \A q \in Procs : q # p => pc[q] = "off"
  BY <1>1 DEF Alone
<1> QED BY <1>2 DEF Phases, HasKeyAt, Saving

\* A process that starts without overlap finds all others off.
LEMMA StartAlone ==
  ASSUME Phases, HostTypes, NEW p \in Procs, Start(p), ~contended'
  PROVE  /\ ~contended
         /\ \A q \in Procs : pc[q] = "off" /\ key[q] = 0 /\ server[q] = "none"
<1>1. \A q \in Procs : pc[q] = "off"
  BY DEF Start
<1>2. ~contended
  BY DEF Start, HostTypes
<1> QED BY <1>1, <1>2 DEF Phases, HasKeyAt, Saving

LEMMA KeyInUseStep ==
  ASSUME HostTypes, Phases, Alone, KeyInUse, NEW p \in Procs, Start(p) \/ RunStep(p)
  PROVE  KeyInUse'
<1> SUFFICES ASSUME ~contended', NEW q \in Procs, key'[q] # 0
             PROVE  key_file' = key'[q]
  BY DEF KeyInUse
<1>1. CASE Start(p)
  BY <1>1, StartAlone DEF Start
<1>2. CASE RunStep(p)
  <2>1. ~contended /\ (q # p => key[q] = 0)
    BY <1>2, RunFrame, OthersOff
  <2>2. q = p
    BY <1>2, <2>1, RunFrame
  <2>3. key[p] # 0 => key_file = key[p] /\ pc[p] \in HasKeyAt \cup {"failed"}
    BY <2>1 DEF KeyInUse, Phases
  <2> USE DEF HostTypes, Goto, HasKeyAt, files, bounds
  <2>4. CASE KeyExists(p) \/ ReadKey(p) \/ CreateKeyFile(p) \/ WriteKeyFile(p)
    BY <2>2, <2>3, <2>4 DEF KeyExists, ReadKey, CreateKeyFile, WriteKeyFile
  <2>5. CASE SettingsExist(p) \/ ReadSettings(p) \/ CreateSettingsFile(p) \/ WriteSettingsFile(p)
    BY <2>2, <2>3, <2>5 DEF SettingsExist, ReadSettings, CreateSettingsFile, WriteSettingsFile
  <2>6. CASE ServerStep(p)
    BY <2>2, <2>3, <2>6 DEF ServerStep, RemoveSocket, BindSocket, BindPort
  <2>7. CASE Exit(p) \/ Crash(p)
    BY <2>2, <2>7 DEF Exit, Crash, Gone
  <2>8. CASE \E c \in Configs : Save(p, c)
    BY <2>2, <2>3, <2>8 DEF Save
  <2>9. CASE IoError(p)
    BY <2>2, <2>3, <2>9 DEF IoError
  <2> QED BY <1>2, <2>4, <2>5, <2>6, <2>7, <2>8, <2>9 DEF RunStep, BuildStep
<1> QED BY <1>1, <1>2

LEMMA SocketHeldStep ==
  ASSUME HostTypes, Phases, Alone, SocketHeld, NEW p \in Procs, Start(p) \/ RunStep(p)
  PROVE  SocketHeld'
<1> SUFFICES ASSUME ~contended', NEW q \in Procs
             PROVE  /\ server'[q] # "refused"
                    /\ server'[q] = "bind" => socket' = Absent
                    /\ server'[q] \in {"bind_ws", "serving"} => socket' = q
  BY DEF SocketHeld
<1>1. CASE Start(p)
  BY <1>1, StartAlone DEF Start
<1>2. CASE RunStep(p)
  <2>1. ~contended /\ (q # p => server[q] = "none")
    BY <1>2, RunFrame, OthersOff
  <2>2. CASE q # p
    BY <1>2, <2>1, <2>2, RunFrame
  <2>3. CASE q = p
    <3>1. /\ server[p] # "refused"
          /\ server[p] = "bind" => socket = Absent
          /\ server[p] \in {"bind_ws", "serving"} => socket = p
      BY <2>1 DEF SocketHeld
    <3>2. server[p] = "bind_ws" => port = "free"
      BY <1>2, <2>1, OthersOff DEF Phases, HostTypes
    <3> USE DEF HostTypes, files
    <3>3. CASE BuildStep(p)
      BY <2>3, <3>1, <3>3 DEF BuildStep, KeyExists, ReadKey, CreateKeyFile, WriteKeyFile,
         SettingsExist, ReadSettings, CreateSettingsFile, WriteSettingsFile
    <3>4. CASE RemoveSocket(p)
      BY <2>3, <3>4 DEF RemoveSocket
    <3>5. CASE BindSocket(p)
      BY <2>3, <3>1, <3>5 DEF BindSocket
    <3>6. CASE BindPort(p)
      BY <2>3, <3>1, <3>2, <3>6 DEF BindPort
    <3>7. CASE Exit(p) \/ Crash(p)
      BY <2>3, <3>7 DEF Exit, Crash, Gone
    <3>8. CASE (\E c \in Configs : Save(p, c)) \/ IoError(p)
      BY <2>3, <3>1, <3>8 DEF Save, IoError
    <3> QED BY <1>2, <3>3, <3>4, <3>5, <3>6, <3>7, <3>8 DEF RunStep, ServerStep
  <2> QED BY <2>2, <2>3
<1> QED BY <1>1, <1>2

\* What FilesWhole says of one process that is alone.
WholeFor(p) ==
  /\ pc[p] # "key_write" => key_file \in Keys \cup {Absent}
  /\ pc[p] \notin {"cfg_write", "save_write"} => settings_file \in Configs \cup {Absent}
  /\ pc[p] # "failed"
  /\ pc[p] = "key_read" => key_file \in Keys
  /\ pc[p] = "cfg_read" => settings_file \in Configs
  /\ pc[p] \in {"cfg_write", "save_write"} => settings_file = Empty
  /\ pc[p] = "built" => settings_file = config[p]

LEMMA FilesWholeStep ==
  ASSUME HostTypes, Phases, Alone, FilesWhole, HostTypes',
         NEW p \in Procs, Start(p) \/ RunStep(p)
  PROVE  FilesWhole'
<1> SUFFICES ASSUME ~contended', crashes' = 0, faults' = 0
             PROVE  FilesWhole'
  BY DEF FilesWhole
<1>1. crashes = 0 /\ faults = 0 /\ ~IoError(p) /\ ~Crash(p)
  BY DEF Start, RunStep, BuildStep, KeyExists, ReadKey, CreateKeyFile, WriteKeyFile,
     SettingsExist, ReadSettings, CreateSettingsFile, WriteSettingsFile, ServerStep,
     RemoveSocket, BindSocket, BindPort, Exit, Crash, Save, IoError, bounds, HostTypes
<1>2. /\ ~contended
      /\ \A q \in Procs : q # p => pc[q] = "off" /\ pc'[q] = "off"
  <2>1. CASE Start(p)
    BY <2>1, StartAlone DEF Start, HostTypes, Goto
  <2>2. CASE RunStep(p)
    BY <2>2, RunFrame, OthersOff
  <2> QED BY <2>1, <2>2
<1>3. WholeFor(p)
  BY <1>1, <1>2 DEF FilesWhole, WholeFor
<1>4. WholeFor(p)'
  <2> USE HostAssumption, <1>3 DEF WholeFor, HostTypes, Goto, Keys, Configs, files, bounds
  <2>1. CASE Start(p)
    BY <2>1 DEF Start
  <2>2. CASE KeyExists(p)
    BY <2>2 DEF KeyExists
  <2>3. CASE ReadKey(p)
    BY <2>3 DEF ReadKey
  <2>4. CASE CreateKeyFile(p)
    BY <2>4 DEF CreateKeyFile
  <2>5. CASE WriteKeyFile(p)
    BY <2>5 DEF WriteKeyFile
  <2>6. CASE SettingsExist(p)
    BY <2>6 DEF SettingsExist
  <2>7. CASE ReadSettings(p)
    BY <2>7 DEF ReadSettings
  <2>8. CASE CreateSettingsFile(p)
    BY <2>8 DEF CreateSettingsFile
  <2>9. CASE WriteSettingsFile(p)
    <3>1. pc[p] = "save_write" => config[p] \in Configs
      BY DEF Phases, Saving
    <3> QED BY <2>9, <3>1 DEF WriteSettingsFile, Overwritten
  <2>10. CASE ServerStep(p)
    BY <2>10 DEF ServerStep, RemoveSocket, BindSocket, BindPort
  <2>11. CASE Exit(p)
    BY <2>11 DEF Exit, Gone
  <2>12. ASSUME NEW c \in Configs, Save(p, c) PROVE WholeFor(p)'
    BY <2>12 DEF Save
  <2> QED BY <1>1, <2>1, <2>2, <2>3, <2>4, <2>5, <2>6, <2>7, <2>8, <2>9, <2>10, <2>11, <2>12
      DEF RunStep, BuildStep
<1> QED BY <1>2, <1>4 DEF FilesWhole, WholeFor

LEMMA HostStep == HostInv /\ [Next]_vars => HostInv'
<1> SUFFICES ASSUME HostInv, [Next]_vars PROVE HostInv'
  OBVIOUS
<1>1. ASSUME NEW p \in Procs, Start(p) \/ RunStep(p) PROVE HostInv'
  BY <1>1, TypesStep, PhasesStep, AloneStep, KeyInUseStep, SocketHeldStep, FilesWholeStep
     DEF HostInv
<1>2. CASE UNCHANGED vars
  BY <1>2 DEF vars, procVars, files, bounds, HostInv, HostTypes, Phases, Alone, KeyInUse,
     SocketHeld, FilesWhole
<1>3. (\E p \in Procs : Start(p) \/ RunStep(p)) \/ UNCHANGED vars
  BY DEF Next, RunStep
<1> QED BY <1>1, <1>2, <1>3

-----------------------------------------------------------------------------
\* Where a process is, what it has, and what the files hold for one that is
\* alone (build, save, IpcServer::run and their failures).
THEOREM HostInvariance == Spec => []HostInv
BY HostInit, HostStep, PTL DEF Spec

\* No application is built with a torn key or torn settings, whoever else
\* creates, truncates and writes the files meanwhile (load_from_file, load).
THEOREM BuiltWholeTheorem == Spec => []BuiltWhole
<1>1. HostInv => BuiltWhole
  BY DEF HostInv, Phases, BuiltWhole, HasKeyAt, Saving
<1> QED BY HostInvariance, <1>1, PTL

\* A service whose processes never overlapped signs with the keypair on disk,
\* over any number of crashes and failing writes (load_or_generate_keypair).
THEOREM KeySavedTheorem == Spec => []KeySavedInTurn
<1>1. HostInv => KeySavedInTurn
  BY DEF HostInv, KeyInUse, KeySavedInTurn, KeySaved
<1> QED BY HostInvariance, <1>1, PTL

\* Processes that never overlapped start, and are reached through the socket,
\* whatever earlier ones left behind (build, IpcServer::run, ServerBuilder).
THEOREM StartsTheorem == Spec => []StartsInTurn
<1>1. HostInv => StartsInTurn
  BY DEF HostInv, SocketHeld, FilesWhole, StartsInTurn
<1> QED BY HostInvariance, <1>1, PTL

\* A whole key on disk that no process is about to write is never replaced.
THEOREM IdentityTheorem == Spec => IdentitySettled
<1>1. HostInv /\ [Next]_vars => [Settled => Settled' /\ key_file' = key_file]_vars
  <2> SUFFICES ASSUME HostTypes, Phases, [Next]_vars, Settled
               PROVE  Settled' /\ key_file' = key_file
    BY DEF HostInv
  <2> USE HostAssumption DEF Settled, Keys, HostTypes, Goto, files, bounds
  <2>1. ASSUME NEW p \in Procs, BuildStep(p) PROVE Settled' /\ key_file' = key_file
    BY <2>1 DEF BuildStep, KeyExists, ReadKey, CreateKeyFile, WriteKeyFile, SettingsExist,
       ReadSettings, CreateSettingsFile, WriteSettingsFile
  <2>2. ASSUME NEW p \in Procs, ServerStep(p) PROVE Settled' /\ key_file' = key_file
    BY <2>2 DEF ServerStep, RemoveSocket, BindSocket, BindPort
  <2>3. ASSUME NEW p \in Procs, Start(p) \/ Exit(p) \/ Crash(p) \/ IoError(p)
        PROVE  Settled' /\ key_file' = key_file
    BY <2>3 DEF Start, Exit, Crash, Gone, IoError
  <2>4. ASSUME NEW p \in Procs, NEW c \in Configs, Save(p, c)
        PROVE  Settled' /\ key_file' = key_file
    BY <2>4 DEF Save
  <2>5. CASE UNCHANGED vars
    BY <2>5 DEF vars, procVars
  <2> QED BY <2>1, <2>2, <2>3, <2>4, <2>5 DEF Next
<1> QED BY HostInvariance, <1>1, PTL DEF Spec, IdentitySettled

-----------------------------------------------------------------------------
(***************************************************************************)
(* Agents, for any number of instances, agents, programs and grants and    *)
(* any amount of fuel.  The invariant says of an instance, besides its     *)
(* type, what its load and its host functions saw to: it imports only what *)
(* its tier was offered, its fuel and work are within the limit, and while *)
(* it is in a statement it has a capability for its database.              *)
(***************************************************************************)

Calling == {"instantiate", "_init", "_start", "_shutdown"}

Instances ==
  [cid : Cids, tier : Tiers, permissions : SUBSET Capability, program : Programs,
   hasStore : BOOLEAN, fuel : Nat, worked : Nat, statement : BOOLEAN,
   call : Calling \cup {"idle"}]

\* What load_agent and the host functions keep true of an instance.
Fits(a) ==
  /\ a.program.imports \subseteq Linked(a.tier)
  /\ a.worked + a.fuel <= FuelLimit
  /\ a.statement => a.permissions \cap DbCapability # {}

FitInstances == {a \in Instances : Fits(a)}

Written == [blob : Blobs, by : Identities]

SlotsFit == agent \in [Slots -> FitInstances \cup {NotLoaded}]

AgentInv ==
  /\ SlotsFit
  /\ rows \in [Cids -> SUBSET Written]
  /\ blobs \subseteq Written
  /\ StoreOnlyTier1

-----------------------------------------------------------------------------
LEMMA LoadedFits ==
  ASSUME SlotsFit, NEW i \in Slots, agent[i].call # "none"
  PROVE  agent[i] \in Instances /\ Fits(agent[i])
BY DEF SlotsFit, FitInstances, NotLoaded

LEMMA InstanceLoaded ==
  ASSUME NEW a \in Instances
  PROVE  a # NotLoaded
<1>1. a.call # "none"
  BY DEF Instances, Calling
<1> QED BY <1>1 DEF NotLoaded

\* What acts in a slot has an identity.
LEMMA IdentityType ==
  ASSUME NEW a \in Instances
  PROVE  /\ Identity(a) \in Identities
         /\ Identity(a).tier = a.tier /\ Identity(a).permissions = a.permissions
BY DEF Instances, Identity, Identities

\* A slot is given an instance that fits, or none.
LEMMA ChangeSlot ==
  ASSUME SlotsFit, NEW i \in Slots, NEW a \in FitInstances \cup {NotLoaded},
         agent' = [agent EXCEPT ![i] = a]
  PROVE  SlotsFit'
BY DEF SlotsFit

\* Starting, stopping and returning change only the entry point.
LEMMA ChangeCall ==
  ASSUME SlotsFit, NEW i \in Slots, agent[i].call # "none",
         NEW c \in Calling \cup {"idle"}, agent' = [agent EXCEPT ![i].call = c]
  PROVE  SlotsFit'
<1> DEFINE a == [agent[i] EXCEPT !.call = c]
<1>1. agent[i] \in Instances /\ Fits(agent[i])
  BY LoadedFits
<1>2. a \in FitInstances
  BY <1>1 DEF FitInstances, Fits, Instances
<1>3. agent' = [agent EXCEPT ![i] = a]
  OBVIOUS
<1> HIDE DEF a
<1> QED BY <1>2, <1>3, ChangeSlot

\* A unit of fuel becomes a unit of work.
LEMMA BurnStep ==
  ASSUME SlotsFit, NEW i \in Slots, Running(i), agent[i].fuel > 0, NEW s \in BOOLEAN,
         Burn(i, s), s => agent[i].permissions \cap DbCapability # {}
  PROVE  SlotsFit'
<1> DEFINE a == [agent[i] EXCEPT !.fuel = @ - 1, !.worked = @ + 1, !.statement = s]
<1>1. agent[i] \in Instances /\ Fits(agent[i])
  BY LoadedFits DEF Running
<1>2. /\ a \in Instances
      /\ a.program = agent[i].program /\ a.tier = agent[i].tier
      /\ a.permissions = agent[i].permissions /\ a.statement = s
      /\ a.worked = agent[i].worked + 1 /\ a.fuel = agent[i].fuel - 1
  <2>1. agent[i].fuel - 1 \in Nat /\ agent[i].worked + 1 \in Nat
    BY <1>1 DEF Instances
  <2>2. a = [agent[i] EXCEPT !.fuel = agent[i].fuel - 1, !.worked = agent[i].worked + 1,
                             !.statement = s]
    OBVIOUS
  <2> QED BY <1>1, <2>1, <2>2 DEF Instances
<1>3. Fits(a)
  <2>1. /\ agent[i].worked + agent[i].fuel <= FuelLimit
        /\ agent[i].worked \in Nat /\ agent[i].fuel \in Nat
    BY <1>1 DEF Fits, Instances
  <2> HIDE DEF a
  <2>2. a.worked + a.fuel <= FuelLimit
    BY <1>2, <2>1, AgentAssumption
  <2>3. a.program.imports \subseteq Linked(a.tier)
    BY <1>1, <1>2 DEF Fits
  <2> QED BY <1>2, <2>2, <2>3 DEF Fits
<1>4. agent' = [agent EXCEPT ![i] = a]
  BY DEF Burn
<1> HIDE DEF a
<1> QED BY <1>2, <1>3, <1>4, ChangeSlot DEF FitInstances

\* A step of the slots that leaves files and store alone keeps the rest.
LEMMA RestKept ==
  ASSUME AgentInv, UNCHANGED <<rows, blobs>>, SlotsFit'
  PROVE  AgentInv'
BY DEF AgentInv, StoreOnlyTier1

\* A database call begins a statement only with the capability it checks.
LEMMA DatabaseCall ==
  ASSUME AgentInv, NEW i \in Slots, DbExecute(i) \/ DbQuery(i)
  PROVE  AgentInv'
<1>1. Running(i) /\ agent[i].fuel > 0 /\ UNCHANGED <<rows, blobs>>
  BY DEF DbExecute, DbQuery, MayCall, InGuest
<1>2. \E s \in BOOLEAN : Burn(i, s) /\ (s => agent[i].permissions \cap DbCapability # {})
  <2>1. Required.db_execute = "WriteOwnDb" /\ Required.db_query = "ReadOwnDb"
    BY DEF Required
  <2>2. "db_execute" \in DOMAIN Required /\ "db_query" \in DOMAIN Required
    BY DEF Required
  <2>3. CASE DbExecute(i)
    <3>1. Reads(i, "db_execute") => "WriteOwnDb" \in agent[i].permissions
      BY <2>1, <2>2 DEF Reads
    <3>2. Reads(i, "db_execute") \in BOOLEAN
      BY Zenon DEF Reads
    <3> QED BY <2>3, <3>1, <3>2 DEF DbExecute, DbCapability
  <2>4. CASE DbQuery(i)
    <3>1. Reads(i, "db_query") => "ReadOwnDb" \in agent[i].permissions
      BY <2>1, <2>2 DEF Reads
    <3>2. Reads(i, "db_query") \in BOOLEAN
      BY Zenon DEF Reads
    <3> QED BY <2>4, <3>1, <3>2 DEF DbQuery, DbCapability
  <2> QED BY <2>3, <2>4
<1>3. SlotsFit'
  BY <1>1, <1>2, BurnStep DEF AgentInv
<1> QED BY <1>1, <1>3, RestKept

\* What a statement adds has the instance that runs it for its writer.
LEMMA StatementEnds ==
  ASSUME AgentInv, NEW i \in Slots, EndStatement(i)
  PROVE  AgentInv' /\ KeepsRows
<1> DEFINE a == [agent[i] EXCEPT !.statement = FALSE]
           by == Identity(agent[i])
<1>1. agent[i] \in Instances /\ Fits(agent[i]) /\ agent[i].statement
  BY LoadedFits DEF AgentInv, EndStatement, InStatement, Running
<1>2. SlotsFit' /\ ~agent'[i].statement
  <2>1. a \in FitInstances /\ ~a.statement
    BY <1>1 DEF FitInstances, Fits, Instances
  <2>2. agent' = [agent EXCEPT ![i] = a] /\ agent'[i] = a
    BY DEF EndStatement, AgentInv, SlotsFit
  <2> HIDE DEF a
  <2> QED BY <2>1, <2>2, ChangeSlot DEF AgentInv
<1>3. PICK gone \in SUBSET UNION {{c} \X rows[c] : c \in Cids},
           new \in [Cids -> SUBSET [blob : Blobs, by : {by}]] :
        rows' = [c \in Cids |-> {r \in rows[c] : <<c, r>> \notin gone} \cup new[c]]
  BY DEF EndStatement
<1>4. by \in Identities
  BY <1>1, IdentityType
<1> HIDE DEF by
<1>5. \A c \in Cids : \A r \in rows'[c] : r \in rows[c] \/ (r \in Written /\ r.by = by)
  <2> SUFFICES ASSUME NEW c \in Cids, NEW r \in rows'[c], r \notin rows[c]
               PROVE  r \in Written /\ r.by = by
    OBVIOUS
  <2>1. r \in new[c] /\ new[c] \subseteq [blob : Blobs, by : {by}]
    BY <1>3
  <2> QED BY <1>4, <2>1 DEF Written
<1>6. rows' \in [Cids -> SUBSET Written]
  <2>1. rows' = [c \in Cids |-> rows'[c]]
    BY <1>3
  <2>2. \A c \in Cids : rows'[c] \subseteq Written
    BY <1>5 DEF AgentInv
  <2> QED BY <2>1, <2>2
<1>7. AgentInv'
  BY <1>2, <1>6 DEF AgentInv, EndStatement, StoreOnlyTier1
<1>8. InStatement(i) /\ ~InStatement(i)'
  BY <1>2 DEF EndStatement, InStatement
<1>9. KeepsRows
  BY <1>1, <1>5, <1>8 DEF KeepsRows, Fits, by
<1> QED BY <1>7, <1>9

\* Only an instance whose linker had storage_put can call it, which is one of
\* tier 1.
LEMMA StoreStep ==
  ASSUME AgentInv, NEW i \in Slots, StoragePut(i)
  PROVE  AgentInv'
<1>1. /\ Running(i) /\ agent[i].fuel > 0 /\ Burn(i, FALSE) /\ UNCHANGED rows
      /\ "storage_put" \in agent[i].program.imports
  BY DEF StoragePut, MayCall, InGuest
<1>2. agent[i] \in Instances /\ Fits(agent[i])
  BY <1>1, LoadedFits DEF Running, AgentInv
<1>3. SlotsFit'
  BY <1>1, BurnStep DEF AgentInv
<1>4. agent[i].tier = 1
  <2>1. "storage_put" \in Linked(agent[i].tier)
    BY <1>1, <1>2 DEF Fits
  <2> QED BY <2>1 DEF Linked, StandardFns
<1>5. CASE UNCHANGED blobs
  BY <1>1, <1>3, <1>5, RestKept
<1>6. ASSUME NEW b \in Blobs, Reads(i, "storage_put"),
             blobs' = blobs \cup {[blob |-> b, by |-> Identity(agent[i])]}
      PROVE  AgentInv'
  <2>1. "StorageWrite" \in agent[i].permissions
    BY <1>6 DEF Reads, Required
  <2>2. /\ Identity(agent[i]) \in Identities /\ Identity(agent[i]).tier = 1
        /\ "StorageWrite" \in Identity(agent[i]).permissions
    BY <1>2, <1>4, <2>1, IdentityType
  <2>3. blobs' \subseteq Written /\ StoreOnlyTier1'
    BY <1>6, <2>2 DEF AgentInv, Written, StoreOnlyTier1
  <2> QED BY <1>1, <1>3, <2>3 DEF AgentInv
<1> QED BY <1>5, <1>6 DEF StoragePut

LEMMA GuestStepKeeps ==
  ASSUME AgentInv, NEW i \in Slots, GuestStep(i)
  PROVE  AgentInv'
<1>1. CASE EndCall(i)
  <2>1. CASE agent' = [agent EXCEPT ![i].call = "idle"]
    <3>1. SlotsFit'
      BY <1>1, <2>1, ChangeCall DEF AgentInv, EndCall, InGuest, Running
    <3> QED BY <1>1, <3>1, RestKept DEF EndCall
  <2>2. CASE agent' = [agent EXCEPT ![i] = NotLoaded]
    BY <1>1, <2>2, ChangeSlot, RestKept DEF AgentInv, EndCall
  <2> QED BY <1>1, <2>1, <2>2 DEF EndCall
<1>2. CASE Compute(i)
  BY <1>2, BurnStep, RestKept DEF AgentInv, Compute, InGuest
<1>3. CASE HostPanic(i)
  BY <1>3, ChangeSlot, RestKept DEF AgentInv, HostPanic
<1>4. CASE DbExecute(i) \/ DbQuery(i)
  BY <1>4, DatabaseCall
<1>5. CASE StoragePut(i)
  BY <1>5, StoreStep
<1>6. CASE OtherCall(i)
  BY <1>6, BurnStep, RestKept DEF AgentInv, OtherCall, MayCall, InGuest
<1> QED BY <1>1, <1>2, <1>3, <1>4, <1>5, <1>6 DEF GuestStep

LEMMA LoadKeeps ==
  ASSUME AgentInv, NEW i \in Slots, NEW cid \in Cids, NEW tier \in Tiers,
         NEW permissions \in Grants, LoadAgent(i, cid, tier, permissions)
  PROVE  AgentInv'
<1>1. ASSUME NEW program \in Programs, program.imports \subseteq Linked(tier),
             agent' = [agent EXCEPT ![i] = Instantiated(cid, tier, permissions, program)]
      PROVE  SlotsFit'
  <2> DEFINE a == Instantiated(cid, tier, permissions, program)
  <2>1. a \in Instances
    BY AgentAssumption DEF Instantiated, Instances, Calling, Capability
  <2>2. Fits(a)
    BY <1>1, AgentAssumption DEF Instantiated, Fits
  <2> HIDE DEF a
  <2>3. agent' = [agent EXCEPT ![i] = a]
    BY <1>1 DEF a
  <2> QED BY <2>1, <2>2, <2>3, ChangeSlot DEF AgentInv, FitInstances
<1>2. ASSUME UNCHANGED agent PROVE SlotsFit'
  BY <1>2 DEF AgentInv, SlotsFit
<1>3. SlotsFit'
  BY <1>1, <1>2 DEF LoadAgent
<1> QED BY <1>3, RestKept DEF LoadAgent

LEMMA AgentInvInit == AgentInit => AgentInv
BY DEF AgentInit, AgentInv, SlotsFit, StoreOnlyTier1

LEMMA AgentInvNext == AgentInv /\ [AgentNext]_agentVars => AgentInv'
<1> SUFFICES ASSUME AgentInv, [AgentNext]_agentVars PROVE AgentInv'
  OBVIOUS
<1>1. ASSUME NEW i \in Slots, NEW cid \in Cids, NEW tier \in Tiers,
             NEW permissions \in Grants, LoadAgent(i, cid, tier, permissions)
      PROVE  AgentInv'
  BY <1>1, LoadKeeps
<1>2. ASSUME NEW i \in Slots, GiveStore(i) PROVE AgentInv'
  <2> DEFINE a == [agent[i] EXCEPT !.hasStore = TRUE]
  <2>1. agent[i] \in Instances /\ Fits(agent[i])
    BY <1>2, LoadedFits DEF GiveStore, AgentInv
  <2>2. a \in FitInstances
    BY <2>1 DEF FitInstances, Fits, Instances
  <2>3. agent' = [agent EXCEPT ![i] = a]
    BY <1>2 DEF GiveStore
  <2> HIDE DEF a
  <2>4. SlotsFit'
    BY <2>2, <2>3, ChangeSlot DEF AgentInv
  <2> QED BY <1>2, <2>4, RestKept DEF GiveStore
<1>3. ASSUME NEW i \in Slots, StartAgent(i) PROVE AgentInv'
  BY <1>3, ChangeCall, RestKept DEF AgentInv, StartAgent, Calling
<1>4. ASSUME NEW i \in Slots, StopAgent(i) PROVE AgentInv'
  BY <1>4, ChangeCall, RestKept DEF AgentInv, StopAgent, Calling
<1>5. ASSUME NEW i \in Slots, Drop(i) PROVE AgentInv'
  BY <1>5, ChangeSlot, RestKept DEF AgentInv, Drop
<1>6. ASSUME NEW i \in Slots, GuestStep(i) PROVE AgentInv'
  BY <1>6, GuestStepKeeps
<1>7. ASSUME NEW i \in Slots, EndStatement(i) PROVE AgentInv'
  BY <1>7, StatementEnds
<1>8. CASE AgentExit
  BY <1>8 DEF AgentExit, AgentInv, SlotsFit, StoreOnlyTier1
<1>9. CASE UNCHANGED agentVars
  BY <1>9 DEF agentVars, AgentInv, SlotsFit, StoreOnlyTier1
<1> QED BY <1>1, <1>2, <1>3, <1>4, <1>5, <1>6, <1>7, <1>8, <1>9 DEF AgentNext

-----------------------------------------------------------------------------
\* The types, what instances keep to and who filled the store, together
\* (load_agent, the fuel of create_store and the checks of the host functions).
THEOREM AgentInvariance == AgentSpec => []AgentInv
BY AgentInvInit, AgentInvNext, PTL DEF AgentSpec

\* No instance does more than the fuel it was created with allows, from its
\* start section on and however often it is started (sandbox.rs, start_agent).
THEOREM FuelTheorem == AgentSpec => []FuelBoundsWork
<1>1. AgentInv => FuelBoundsWork
  BY DEF AgentInv, SlotsFit, FitInstances, Fits, FuelBoundsWork, IsLoaded
<1> QED BY AgentInvariance, <1>1, PTL

\* The shared store holds nothing of an agent of tier 2, nor of one without
\* StorageWrite (the linker of load_agent with the check of storage_put).
THEOREM StoreTheorem == AgentSpec => []StoreOnlyTier1
<1>1. AgentInv => StoreOnlyTier1
  BY DEF AgentInv
<1> QED BY AgentInvariance, <1>1, PTL

\* Rows change only where a statement ends, one of an instance that has a
\* capability for its database, and it wrote what is new: no load, failed load,
\* trap, panic, drop or exit changes a file (load_agent, db_execute, db_query).
THEOREM RowsTheorem == AgentSpec => RowsKept
<1>1. AgentInv /\ [AgentNext]_agentVars => [KeepsRows]_agentVars
  <2> SUFFICES ASSUME AgentInv, [AgentNext]_agentVars PROVE KeepsRows
    OBVIOUS
  <2>1. ASSUME NEW i \in Slots, EndStatement(i) PROVE KeepsRows
    BY <2>1, StatementEnds
  <2>2. CASE UNCHANGED rows
    BY <2>2 DEF KeepsRows
  <2>3. ASSUME NEW i \in Slots, GuestStep(i) PROVE UNCHANGED rows
    BY <2>3 DEF GuestStep, EndCall, Compute, HostPanic, DbExecute, DbQuery, StoragePut, OtherCall
  <2>4. (\E i \in Slots : EndStatement(i)) \/ UNCHANGED rows
    BY <2>3 DEF AgentNext, agentVars, LoadAgent, GiveStore, StartAgent, StopAgent, Drop, AgentExit
  <2> QED BY <2>1, <2>2, <2>4
<1> QED BY AgentInvariance, <1>1, PTL DEF AgentSpec, RowsKept
=============================================================================
