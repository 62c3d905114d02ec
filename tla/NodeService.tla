---------------------------- MODULE NodeService ----------------------------
(***************************************************************************)
(* The life of one chain node process: blockchain/node/src/service.rs      *)
(* (new_partial, new_full) run by blockchain/node/src/command.rs.          *)
(*                                                                         *)
(* A launch builds the components one after the other; each `?` may end    *)
(* it.  Components leave tasks behind that run while the launch goes on.   *)
(* The end of a task spawned by the essential handle closes a channel; the *)
(* runner of a node looks at it once the launch has handed the task        *)
(* manager over, the runner of a subcommand never does.  Dropping the task *)
(* manager stops all tasks.                                                *)
(*                                                                         *)
(* sc_service's task manager and the tasks' code are outside the           *)
(* repository: here a task authors, votes or ends, at any time it may.     *)
(***************************************************************************)
EXTENDS Naturals

CONSTANT Configs  \* the configurations a launch may have

Flags == {"node", "authority", "grandpa", "offchain", "telemetry"}

\* A configuration is the set of what is on.  Without "node" the launch is a
\* subcommand over the partial components (check, export, import, revert).
ASSUME ConfigsAssumption == Configs \subseteq SUBSET Flags

Tasks == {"telemetry", "txpool", "import-worker", "network-worker",
          "offchain-worker", "rpc", "aura", "grandpa-voter"}

Stages == {"off", "new_full_parts", "telemetry", "txpool", "grandpa_import", "import_queue",
           "build_network", "offchain", "spawn_tasks", "aura", "grandpa", "start_network",
           "running", "closing"}

VARIABLES
  config,            \* configuration of this launch
  stage,             \* where the launch has got to
  task,              \* state of each task of this launch
  essential,         \* the tasks spawned by the essential handle
  essential_failed,  \* the channel that an ending essential task closes
  network,           \* the network worker waits for network_starter or is open
  keystore,          \* on disk: does the keystore hold authority keys
  voter_keystore,    \* does the voter have the keystore
  effects            \* what this launch has done to others

vars == <<config, stage, task, essential, essential_failed, network, keystore,
          voter_keystore, effects>>

Runs(t) == task[t] = "running"

-----------------------------------------------------------------------------
(* The task manager. *)

\* spawn_handle().spawn: nobody looks at how the task ends.
Spawn(t) ==
  /\ task' = [task EXCEPT ![t] = "running"]
  /\ UNCHANGED essential

\* spawn_essential_handle().spawn
SpawnEssential(t) ==
  /\ task' = [task EXCEPT ![t] = "running"]
  /\ essential' = essential \cup {t}

SpawnNothing == UNCHANGED <<task, essential>>

\* One stage of the launch is done.
Stage(s, next) ==
  /\ stage = s /\ stage' = next
  /\ UNCHANGED <<config, essential_failed, keystore, effects>>

\* A `?` returns: the task manager goes out of scope.
Fails(s) ==
  /\ Stage(s, "closing")
  /\ UNCHANGED <<task, essential, network, voter_keystore>>

-----------------------------------------------------------------------------
Init ==
  /\ config = {}
  /\ stage = "off"
  /\ task = [t \in Tasks |-> "none"]
  /\ essential = {}
  /\ essential_failed = FALSE
  /\ network = "none"
  /\ keystore = FALSE
  /\ voter_keystore = FALSE
  /\ effects = {}

\* The operator runs the program; only the disk is as before.
Launch ==
  /\ stage = "off"
  /\ config' \in Configs
  /\ stage' = "new_full_parts"
  /\ task' = [t \in Tasks |-> "none"]
  /\ essential' = {}
  /\ essential_failed' = FALSE
  /\ network' = "none"
  /\ voter_keystore' = FALSE
  /\ effects' = {}
  /\ UNCHANGED keystore

(* new_partial *)

NewFullParts ==
  \/ Fails("new_full_parts")
  \/ /\ Stage("new_full_parts", "telemetry")
     /\ SpawnNothing /\ UNCHANGED <<network, voter_keystore>>

TelemetryWorker ==
  /\ Stage("telemetry", "txpool")
  /\ IF "telemetry" \in config THEN Spawn("telemetry") ELSE SpawnNothing
  /\ UNCHANGED <<network, voter_keystore>>

TransactionPool ==
  /\ Stage("txpool", "grandpa_import")
  /\ SpawnEssential("txpool")
  /\ UNCHANGED <<network, voter_keystore>>

\* block_import and slot_duration
GrandpaBlockImport ==
  \/ Fails("grandpa_import")
  \/ /\ Stage("grandpa_import", "import_queue")
     /\ SpawnNothing /\ UNCHANGED <<network, voter_keystore>>

\* Slip: the import queue is given the plain handle.
ImportQueueInessential ==
  \/ Fails("import_queue")
  \/ /\ Stage("import_queue", IF "node" \in config THEN "build_network" ELSE "running")
     /\ Spawn("import-worker") /\ UNCHANGED <<network, voter_keystore>>

\* The last component of new_partial; a subcommand then runs its own future.
ImportQueue ==
  \/ Fails("import_queue")
  \/ /\ Stage("import_queue", IF "node" \in config THEN "build_network" ELSE "running")
     /\ SpawnEssential("import-worker") /\ UNCHANGED <<network, voter_keystore>>

(* new_full *)

\* Slip: the network starts as soon as it is built.
BuildNetworkOpen ==
  \/ Fails("build_network")
  \/ /\ Stage("build_network", "offchain")
     /\ Spawn("network-worker")
     /\ network' = "open" /\ UNCHANGED voter_keystore

\* The network worker waits for network_starter.
BuildNetwork ==
  \/ Fails("build_network")
  \/ /\ Stage("build_network", "offchain")
     /\ Spawn("network-worker")
     /\ network' = "waiting" /\ UNCHANGED voter_keystore

OffchainWorkers ==
  /\ Stage("offchain", "spawn_tasks")
  /\ IF "offchain" \in config THEN Spawn("offchain-worker") ELSE SpawnNothing
  /\ UNCHANGED <<network, voter_keystore>>

SpawnTasks ==
  \/ Fails("spawn_tasks")
  \/ /\ Stage("spawn_tasks", "aura")
     /\ Spawn("rpc") /\ UNCHANGED <<network, voter_keystore>>

\* role.is_authority(): slot_duration and start_aura may fail, then the task runs.
Aura ==
  \/ "authority" \in config /\ Fails("aura")
  \/ /\ Stage("aura", "grandpa")
     /\ IF "authority" \in config THEN SpawnEssential("aura") ELSE SpawnNothing
     /\ UNCHANGED <<network, voter_keystore>>

\* Slip: the voter gets the keystore whatever the role.
GrandpaKeystoreAlways ==
  \/ "grandpa" \in config /\ Fails("grandpa")
  \/ /\ Stage("grandpa", "start_network")
     /\ IF "grandpa" \in config
          THEN SpawnEssential("grandpa-voter") /\ voter_keystore' = TRUE
          ELSE SpawnNothing /\ UNCHANGED voter_keystore
     /\ UNCHANGED network

\* enable_grandpa: the voter of a node that is no authority has no keystore.
Grandpa ==
  \/ "grandpa" \in config /\ Fails("grandpa")
  \/ /\ Stage("grandpa", "start_network")
     /\ IF "grandpa" \in config
          THEN SpawnEssential("grandpa-voter") /\ voter_keystore' = ("authority" \in config)
          ELSE SpawnNothing /\ UNCHANGED voter_keystore
     /\ UNCHANGED network

\* network_starter.start_network(), then Ok(task_manager)
StartNetwork ==
  /\ Stage("start_network", "running")
  /\ SpawnNothing
  /\ network' = IF Runs("network-worker") THEN "open" ELSE "none"
  /\ UNCHANGED voter_keystore

-----------------------------------------------------------------------------
(* The runner: run_node_until_exit of a node, async_run of a subcommand. *)

\* An essential task has ended, now or during the launch: run_node_until_exit, which
\* waits for the task manager's future, stops everything.  async_run waits for the
\* subcommand's own future only.
EssentialFailed ==
  /\ "node" \in config
  /\ essential_failed
  /\ Fails("running")

\* A signal, or the subcommand has done its work.  Nothing says that it ever does.
Stopped == Fails("running")

\* The tasks have stopped, or a minute has passed: the process ends.
Exit ==
  /\ stage = "closing"
  /\ stage' = "off"
  /\ task' = [t \in Tasks |-> IF Runs(t) THEN "stopped" ELSE task[t]]
  /\ network' = "none"
  /\ UNCHANGED <<config, essential, essential_failed, keystore, voter_keystore, effects>>

\* kill -9, as run_network.sh does at its end.
Kill ==
  /\ stage # "off"
  /\ stage' = "off"
  /\ task' = [t \in Tasks |-> IF Runs(t) THEN "stopped" ELSE task[t]]
  /\ network' = "none"
  /\ UNCHANGED <<config, essential, essential_failed, keystore, voter_keystore, effects>>

-----------------------------------------------------------------------------
(* The tasks. *)

\* A task returns or panics.
TaskEnds(t) ==
  /\ Runs(t)
  /\ task' = [task EXCEPT ![t] = "ended"]
  /\ essential_failed' = (essential_failed \/ t \in essential)
  /\ network' = IF t = "network-worker" THEN "none" ELSE network
  /\ UNCHANGED <<config, stage, essential, keystore, voter_keystore, effects>>

\* Aura claims a slot with a key of its keystore.  It may wait for peers first, unless
\* it is forced or the only authority.
Author ==
  /\ Runs("aura") /\ keystore
  /\ effects' = effects \cup {"authored"}
  /\ UNCHANGED <<config, stage, task, essential, essential_failed, network, keystore, voter_keystore>>

\* The voter signs a vote with a key of the keystore it was given.
Vote ==
  /\ Runs("grandpa-voter") /\ voter_keystore /\ keystore
  /\ network = "open"
  /\ effects' = effects \cup {"voted"}
  /\ UNCHANGED <<config, stage, task, essential, essential_failed, network, keystore, voter_keystore>>

\* A peer gets an answer.
ServePeer ==
  /\ network = "open"
  /\ effects' = effects \cup {"served"}
  /\ UNCHANGED <<config, stage, task, essential, essential_failed, network, keystore, voter_keystore>>

\* The operator inserts authority keys by RPC; they stay on the disk.
InsertKey ==
  /\ Runs("rpc") /\ ~ keystore
  /\ keystore' = TRUE
  /\ UNCHANGED <<config, stage, task, essential, essential_failed, network, voter_keystore, effects>>

-----------------------------------------------------------------------------
\* The stages of a launch, in the order of the source.
LaunchStep ==
  \/ NewFullParts \/ TelemetryWorker \/ TransactionPool \/ GrandpaBlockImport \/ ImportQueue
  \/ BuildNetwork \/ OffchainWorkers \/ SpawnTasks \/ Aura \/ Grandpa \/ StartNetwork

Next ==
  \/ Launch \/ LaunchStep
  \/ EssentialFailed \/ Stopped \/ Exit \/ Kill
  \/ \E t \in Tasks : TaskEnds(t)
  \/ Author \/ Vote \/ ServePeer \/ InsertKey

\* A launch goes on, the runner of a node is woken by the channel, and a closing
\* process ends.  Nothing makes tasks work, or fail, or a subcommand finish.
Spec ==
  /\ Init /\ [][Next]_vars
  /\ WF_vars(LaunchStep) /\ WF_vars(EssentialFailed) /\ WF_vars(Exit)

-----------------------------------------------------------------------------
(* Properties. *)

\* The tasks that take the service down with them.
EssentialTasks == {"txpool", "import-worker", "aura", "grandpa-voter"}

\* Every variable has its type, and of the tasks spawned so far exactly the
\* EssentialTasks were spawned by the essential handle.
TypeOK ==
  /\ config \in Configs \cup {{}}
  /\ stage \in Stages
  /\ task \in [Tasks -> {"none", "running", "ended", "stopped"}]
  /\ essential = {t \in EssentialTasks : task[t] # "none"}
  /\ essential_failed \in BOOLEAN
  /\ network \in {"none", "waiting", "open"}
  /\ keystore \in BOOLEAN /\ voter_keystore \in BOOLEAN
  /\ effects \in SUBSET {"authored", "voted", "served"}

\* The tasks the configuration asks of a node.
Wanted ==
  {"txpool", "import-worker", "network-worker", "rpc"}
    \cup (IF "authority" \in config THEN {"aura"} ELSE {})
    \cup (IF "grandpa" \in config THEN {"grandpa-voter"} ELSE {})

\* No peer is ever served by a half-built node: when start_network lets the network
\* worker go, every task the role asks for has been spawned, and no later step of
\* the launch can fail.
ServedByWholeNode ==
  "served" \in effects => \A t \in Wanted : task[t] # "none"

\* A node that is not run as an authority neither authors nor votes, although keys
\* of an earlier launch may lie in its keystore (service.rs:297-299).
NonAuthorityIsSilent ==
  "authority" \notin config => effects \cap {"authored", "voted"} = {}

\* When the transaction pool, the import queue, block authoring or the voter of a node
\* ends, at whatever moment of the launch or after it, the whole process ends
\* (service.rs:289-290, 331-332; command.rs:201): no node lingers without them.  A
\* subcommand may: it ends by its own work or a signal (command.rs:61-118).
NoLingering ==
  \A t \in EssentialTasks :
    ("node" \in config /\ task[t] = "ended") ~> stage = "off"
=============================================================================
