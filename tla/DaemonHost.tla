----------------------------- MODULE DaemonHost -----------------------------
(***************************************************************************)
(* The processes of one service on one host: what AppBuilder::build        *)
(* (app/src/lib.rs) does when a daemon, a CLI or a desktop app starts, the *)
(* files they share and the socket the daemon is reached through.          *)
(*                                                                         *)
(*   key file       keystore/src/lib.rs                                    *)
(*   settings file  settings/src/lib.rs                                    *)
(*   socket path    ipc/src/server.rs                                      *)
(*                                                                         *)
(* Every system call is a step: other processes run between an existence   *)
(* check and what follows it, and between fs::write's truncation of a file *)
(* and its writing.                                                        *)
(***************************************************************************)
EXTENDS Naturals, FiniteSets

CONSTANTS
  Procs,       \* the processes
  Absent,      \* what there is at a path without a file
  Empty,       \* the content of a file that was created or truncated
  WebSocket,   \* those that run a ServerBuilder with a port, not an IpcServer
  MaxStarts,   \* bound on the number of starts
  MaxSaves,    \* bound on the number of saves of edited settings
  MaxCrashes,  \* bound on the number of crashes
  MaxFaults    \* bound on the number of file operations that fail

ASSUME HostAssumption ==
  /\ Absent \notin Procs \cup Nat \cup {"default", "edited", "mixed"}
  /\ Empty \notin Nat \cup {"default", "edited", "mixed"} /\ Empty # Absent
  /\ "free" \notin Procs
  /\ WebSocket \subseteq Procs
  /\ MaxStarts \in Nat /\ MaxSaves \in Nat
  /\ MaxCrashes \in Nat /\ MaxFaults \in Nat

VARIABLES
  pc,        \* process -> where build or save is
  key,       \* process -> its keypair, 0 before it has one
  config,    \* process -> its settings, "none" before it has any
  server,    \* process -> where its IPC server is
  key_file, settings_file,
  socket,    \* the process whose socket is at the path, or Absent
  port,      \* the process that listens on the WebSocket port, or "free"
  generated, \* number of keypairs generated
  contended, \* TRUE once two processes have run at the same time
  starts, saves, crashes, faults

files == <<key_file, settings_file, socket, port, generated>>
procVars == <<pc, key, config, server>>
bounds == <<contended, starts, saves, crashes, faults>>
vars == <<procVars, files, bounds>>

\* Keypairs are numbered as they are generated: each one is new.
Keys == Nat \ {0}

\* The edited settings are longer than the default ones in the file.
Configs == {"default", "edited"}

Building == {"key_check", "key_read", "key_create", "key_write",
             "cfg_check", "cfg_read", "cfg_create", "cfg_write"}

Init ==
  /\ pc = [p \in Procs |-> "off"]
  /\ key = [p \in Procs |-> 0]
  /\ config = [p \in Procs |-> "none"]
  /\ server = [p \in Procs |-> "none"]
  /\ key_file = Absent /\ settings_file = Absent
  /\ socket = Absent /\ port = "free" /\ generated = 0
  /\ contended = FALSE
  /\ starts = 0 /\ saves = 0 /\ crashes = 0 /\ faults = 0

Goto(p, l) == pc' = [pc EXCEPT ![p] = l]

\* create_dir_all, open or write returns an error: build or save gives up.
IoError(p) ==
  /\ faults < MaxFaults
  /\ faults' = faults + 1
  /\ \/ pc[p] \in {"key_create", "key_write", "cfg_create", "cfg_write"} /\ Goto(p, "failed")
     \/ pc[p] \in {"save_create", "save_write"} /\ Goto(p, "built")
  /\ UNCHANGED <<key, config, server, files, contended, starts, saves, crashes>>

Start(p) ==
  /\ pc[p] = "off"
  /\ starts < MaxStarts
  /\ starts' = starts + 1
  /\ contended' = (contended \/ \E q \in Procs : pc[q] # "off")
  /\ Goto(p, "key_check")
  /\ UNCHANGED <<key, config, server, files, saves, crashes, faults>>

-----------------------------------------------------------------------------
(***************************************************************************)
(* load_or_generate_keypair.                                               *)
(***************************************************************************)

\* Faulty variant of KeyExists: a key is generated at every start.
KeyExists_Never(p) ==
  /\ pc[p] = "key_check"
  /\ Goto(p, "key_create")
  /\ UNCHANGED <<key, config, server, files, bounds>>

KeyExists(p) ==
  /\ pc[p] = "key_check"
  /\ Goto(p, IF key_file = Absent THEN "key_create" ELSE "key_read")
  /\ UNCHANGED <<key, config, server, files, bounds>>

\* Faulty variant of ReadKey: the length of the file is not checked.
ReadKey_AnyLength(p) ==
  /\ pc[p] = "key_read"
  /\ key' = [key EXCEPT ![p] = IF key_file \in Keys THEN key_file ELSE 0]
  /\ Goto(p, "cfg_check")
  /\ UNCHANGED <<config, server, files, bounds>>

\* Anything but 32 bytes is InvalidFormat.
ReadKey(p) ==
  /\ pc[p] = "key_read"
  /\ \/ /\ key_file \in Keys
        /\ key' = [key EXCEPT ![p] = key_file]
        /\ Goto(p, "cfg_check")
     \/ /\ key_file \notin Keys
        /\ Goto(p, "failed")
        /\ UNCHANGED key
  /\ UNCHANGED <<config, server, files, bounds>>

CreateKeyFile(p) ==
  /\ pc[p] = "key_create"
  /\ key_file' = Empty
  /\ Goto(p, "key_write")
  /\ UNCHANGED <<key, config, server, settings_file, socket, port, generated, bounds>>

\* Faulty variant of WriteKeyFile: a failure to save the key is ignored.
WriteKeyFile_Ignore(p) ==
  /\ pc[p] = "key_write"
  /\ generated' = generated + 1
  /\ key_file' \in {key_file, generated + 1}
  /\ key' = [key EXCEPT ![p] = generated + 1]
  /\ Goto(p, "cfg_check")
  /\ UNCHANGED <<config, server, settings_file, socket, port, bounds>>

WriteKeyFile(p) ==
  /\ pc[p] = "key_write"
  /\ generated' = generated + 1
  /\ key_file' = generated + 1
  /\ key' = [key EXCEPT ![p] = generated + 1]
  /\ Goto(p, "cfg_check")
  /\ UNCHANGED <<config, server, settings_file, socket, port, bounds>>

-----------------------------------------------------------------------------
(***************************************************************************)
(* Settings::load_or_default and Settings::save.                           *)
(***************************************************************************)
SettingsExist(p) ==
  /\ pc[p] = "cfg_check"
  /\ Goto(p, IF settings_file = Absent THEN "cfg_create" ELSE "cfg_read")
  /\ UNCHANGED <<key, config, server, files, bounds>>

\* Anything that does not parse is a ParseError.
ReadSettings(p) ==
  /\ pc[p] = "cfg_read"
  /\ \/ /\ settings_file \in Configs
        /\ config' = [config EXCEPT ![p] = settings_file]
        /\ Goto(p, "built")
     \/ /\ settings_file \notin Configs
        /\ Goto(p, "failed")
        /\ UNCHANGED config
  /\ UNCHANGED <<key, server, files, bounds>>

CreateSettingsFile(p) ==
  /\ \/ pc[p] = "cfg_create" /\ Goto(p, "cfg_write")
     \/ pc[p] = "save_create" /\ Goto(p, "save_write")
  /\ settings_file' = Empty
  /\ UNCHANGED <<key, config, server, key_file, socket, port, generated, bounds>>

\* Writing from the start of the file leaves the end of a longer content.
Overwritten(old, new) ==
  IF new = "default" /\ old \in {"edited", "mixed"} THEN "mixed" ELSE new

WriteSettingsFile(p) ==
  /\ \/ /\ pc[p] = "cfg_write"
        /\ settings_file' = Overwritten(settings_file, "default")
        /\ config' = [config EXCEPT ![p] = "default"]
     \/ /\ pc[p] = "save_write"
        /\ settings_file' = Overwritten(settings_file, config[p])
        /\ UNCHANGED config
  /\ Goto(p, "built")
  /\ UNCHANGED <<key, server, key_file, socket, port, generated, bounds>>

\* The host changes its settings, to either value, and saves them.
Save(p, c) ==
  /\ pc[p] = "built"
  /\ saves < MaxSaves
  /\ saves' = saves + 1
  /\ config' = [config EXCEPT ![p] = c]
  /\ Goto(p, "save_create")
  /\ UNCHANGED <<key, server, files, contended, starts, crashes, faults>>

-----------------------------------------------------------------------------
(***************************************************************************)
(* The IPC server: remove the socket file, bind the socket, bind the port. *)
(***************************************************************************)

\* Faulty variant of RemoveSocket: a file that is there is left there.
RemoveSocket_Keep(p) ==
  /\ pc[p] = "built" /\ server[p] = "none"
  /\ server' = [server EXCEPT ![p] = "bind"]
  /\ UNCHANGED <<pc, key, config, files, bounds>>

RemoveSocket(p) ==
  /\ pc[p] = "built" /\ server[p] = "none"
  /\ socket' = Absent
  /\ server' = [server EXCEPT ![p] = "bind"]
  /\ UNCHANGED <<pc, key, config, key_file, settings_file, port, generated, bounds>>

\* bind fails when there is a file at the path.
BindSocket(p) ==
  /\ server[p] = "bind"
  /\ IF socket = Absent
     THEN /\ socket' = p
          /\ server' = [server EXCEPT ![p] = IF p \in WebSocket THEN "bind_ws" ELSE "serving"]
     ELSE /\ server' = [server EXCEPT ![p] = "refused"]
          /\ UNCHANGED socket
  /\ UNCHANGED <<pc, key, config, key_file, settings_file, port, generated, bounds>>

\* The listener on the socket is polled together with the bind of the port;
\* when that fails, run removes the socket file and returns.
BindPort(p) ==
  /\ server[p] = "bind_ws"
  /\ IF port = "free"
     THEN /\ port' = p
          /\ server' = [server EXCEPT ![p] = "serving"]
          /\ UNCHANGED socket
     ELSE /\ socket' = Absent
          /\ server' = [server EXCEPT ![p] = "refused"]
          /\ UNCHANGED port
  /\ UNCHANGED <<pc, key, config, key_file, settings_file, generated, bounds>>

-----------------------------------------------------------------------------
Gone(p) ==
  /\ Goto(p, "off")
  /\ key' = [key EXCEPT ![p] = 0]
  /\ config' = [config EXCEPT ![p] = "none"]
  /\ server' = [server EXCEPT ![p] = "none"]
  /\ port' = IF port = p THEN "free" ELSE port
  /\ UNCHANGED <<key_file, settings_file, generated>>

\* An orderly exit drops the server; IpcServer's Drop removes the file at the
\* path, ServerBuilder has no Drop.
Exit(p) ==
  /\ pc[p] \in {"built", "failed"}
  /\ Gone(p)
  /\ socket' = IF server[p] # "none" /\ p \notin WebSocket THEN Absent ELSE socket
  /\ UNCHANGED bounds

Crash(p) ==
  /\ pc[p] # "off"
  /\ crashes < MaxCrashes
  /\ crashes' = crashes + 1
  /\ Gone(p)
  /\ UNCHANGED <<socket, contended, starts, saves, faults>>

BuildStep(p) ==
  \/ KeyExists(p) \/ ReadKey(p) \/ CreateKeyFile(p) \/ WriteKeyFile(p)
  \/ SettingsExist(p) \/ ReadSettings(p)
  \/ CreateSettingsFile(p) \/ WriteSettingsFile(p)

ServerStep(p) == RemoveSocket(p) \/ BindSocket(p) \/ BindPort(p)

Next ==
  \E p \in Procs :
    \/ Start(p) \/ BuildStep(p) \/ ServerStep(p) \/ Exit(p) \/ Crash(p)
    \/ \E c \in Configs : Save(p, c)
    \/ IoError(p)

Spec == Init /\ [][Next]_vars

-----------------------------------------------------------------------------
Saving == {"save_create", "save_write"}

\* An application that was built has a whole keypair and whole settings, even
\* when it read the files while another process was writing them.
BuiltWhole ==
  \A p \in Procs :
    pc[p] \in Saving \cup {"built"} => key[p] \in Keys /\ config[p] \in Configs

Settled ==
  /\ key_file \in Keys
  /\ \A p \in Procs : pc[p] \notin {"key_create", "key_write"}

\* Once a keypair is on disk and no process is generating one, the identity
\* of the service is settled: no start, crash or failed write replaces it.
IdentitySettled == [][Settled => Settled' /\ key_file' = key_file]_vars

\* "generates a new keypair and saves it": when no process is generating one,
\* the keypair an application signs with is what the next start will load.
KeySaved ==
  (\A p \in Procs : pc[p] \notin {"key_create", "key_write"})
    => \A p \in Procs : key[p] # 0 => key_file = key[p]

\* As long as the processes have run one after another, the keypair in use is
\* the one on disk, across crashes and failing writes.
KeySavedInTurn == ~contended => KeySaved

\* As long as they have run one after another, a server gets its socket,
\* whatever a crash or an exit left at the path, and is reached through it;
\* and if none has died or met a failing disk ("or create defaults"), a start
\* succeeds and loads what the last save wrote.
StartsInTurn ==
  ~contended =>
    \A p \in Procs :
      /\ server[p] # "refused" /\ (server[p] = "serving" => socket = p)
      /\ crashes = 0 /\ faults = 0 =>
           pc[p] # "failed" /\ (pc[p] = "built" => settings_file = config[p])
=============================================================================
