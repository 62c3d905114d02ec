------------------------- MODULE NodeServiceProofs -------------------------
(***************************************************************************)
(* Theorems about NodeService, for any set of configurations.              *)
(***************************************************************************)
EXTENDS NodeService, TLAPS

Spawned(t) == task[t] # "none"

\* What a launch has built when it reaches a stage.
Built ==
  /\ stage \in {"grandpa_import", "import_queue", "build_network", "offchain", "spawn_tasks",
                "aura", "grandpa", "start_network"} => Spawned("txpool")
  /\ stage \in {"build_network", "offchain", "spawn_tasks", "aura", "grandpa", "start_network"}
       => Spawned("import-worker")
  /\ stage \in {"offchain", "spawn_tasks", "aura", "grandpa", "start_network"}
       => Spawned("network-worker")
  /\ stage \in {"aura", "grandpa", "start_network"} => Spawned("rpc")
  /\ stage \in {"grandpa", "start_network"} /\ "authority" \in config => Spawned("aura")
  /\ stage = "start_network" /\ "grandpa" \in config => Spawned("grandpa-voter")

\* Peers are let in, or were served, only with every wanted task spawned.
Whole == network = "open" \/ "served" \in effects => \A t \in Wanted : Spawned(t)

\* Only an authority has the tasks and the keys that sign.
Roles ==
  /\ Spawned("aura") => "authority" \in config
  /\ voter_keystore => "authority" \in config
  /\ NonAuthorityIsSilent

\* The inductive invariant.
Inv == TypeOK /\ Built /\ Whole /\ Roles

-----------------------------------------------------------------------------
\* Tasks are spawned and end; within a launch none is forgotten.
LEMMA InitInv == Init => Inv
BY DEF Init, Inv, TypeOK, Built, Whole, Roles, Spawned, Wanted, NonAuthorityIsSilent,
       Tasks, Stages, EssentialTasks

\* The task manager's part of TypeOK, and the rest.
TasksOK ==
  /\ task \in [Tasks -> {"none", "running", "ended", "stopped"}]
  /\ essential = {t \in EssentialTasks : task[t] # "none"}

RestOK ==
  /\ config \in Configs \cup {{}}
  /\ stage \in Stages
  /\ essential_failed \in BOOLEAN
  /\ network \in {"none", "waiting", "open"}
  /\ keystore \in BOOLEAN /\ voter_keystore \in BOOLEAN
  /\ effects \in SUBSET {"authored", "voted", "served"}

LEMMA TypeParts == TypeOK <=> TasksOK /\ RestOK
BY DEF TypeOK, TasksOK, RestOK

\* Spawning by the handle a task is meant for keeps the account of essential tasks.
LEMMA SpawnKeeps ==
  ASSUME TasksOK, NEW t \in Tasks,
         (t \in EssentialTasks /\ SpawnEssential(t)) \/ (t \notin EssentialTasks /\ Spawn(t))
  PROVE  TasksOK' /\ Spawned(t)' /\ \A u \in Tasks \ {t} : task'[u] = task[u]
<1>1. /\ task \in [Tasks -> {"none", "running", "ended", "stopped"}]
      /\ essential = {u \in EssentialTasks : task[u] # "none"}
      /\ EssentialTasks \subseteq Tasks
  BY DEF TasksOK, EssentialTasks, Tasks
<1>2. task' = [task EXCEPT ![t] = "running"]
  BY DEF Spawn, SpawnEssential
<1>3. /\ task' \in [Tasks -> {"none", "running", "ended", "stopped"}]
      /\ task'[t] = "running"
      /\ \A u \in Tasks \ {t} : task'[u] = task[u]
  BY <1>1, <1>2
<1>4. essential' = {u \in EssentialTasks : task'[u] # "none"}
  <2>1. CASE t \in EssentialTasks
    <3>1. essential' = essential \cup {t}
      BY <2>1 DEF SpawnEssential
    <3> QED
      BY <1>1, <1>3, <2>1, <3>1
  <2>2. CASE t \notin EssentialTasks
    <3>1. essential' = essential
      BY <2>2 DEF Spawn
    <3> QED
      BY <1>1, <1>3, <2>2, <3>1
  <2> QED
    BY <2>1, <2>2
<1> QED
  BY <1>3, <1>4 DEF TasksOK, Spawned, EssentialTasks

\* What a step of the launch, or of the tasks it has spawned, does to the tasks: all
\* but t stay as they are, and none is forgotten.
Grows ==
  /\ TasksOK'
  /\ \A t \in Tasks : Spawned(t) => Spawned(t)'

LEMMA NothingGrows == ASSUME TasksOK, UNCHANGED <<task, essential>> PROVE Grows
BY DEF TasksOK, Grows, Spawned, EssentialTasks, Tasks

LEMMA SpawnGrows ==
  ASSUME TasksOK, NEW t \in Tasks,
         (t \in EssentialTasks /\ SpawnEssential(t)) \/ (t \notin EssentialTasks /\ Spawn(t))
  PROVE  Grows /\ Spawned(t)'
<1>1. TasksOK' /\ Spawned(t)' /\ \A u \in Tasks \ {t} : task'[u] = task[u]
  BY SpawnKeeps
<1> QED
  BY <1>1 DEF Grows, Spawned

\* Tasks that end or are stopped were spawned.
LEMMA EndGrows ==
  ASSUME TasksOK, UNCHANGED essential, NEW S \in SUBSET Tasks, NEW e \in {"ended", "stopped"},
         \A t \in S : task[t] = "running",
         task' = [t \in Tasks |-> IF t \in S THEN e ELSE task[t]]
  PROVE  Grows
BY DEF TasksOK, Grows, Spawned, EssentialTasks, Tasks

-----------------------------------------------------------------------------
\* A step within one launch keeps the invariant if it loses no task, keeps the network
\* closed unless all is spawned, and gives no signing task or key to a non-authority.
LEMMA WithinLaunch ==
  ASSUME Inv, Grows, RestOK', config' = config, Built',
         network' = "open" => network = "open" \/ \A t \in Wanted : Spawned(t),
         "served" \in effects' => "served" \in effects \/ network = "open",
         Spawned("aura")' => "authority" \in config,
         voter_keystore' => "authority" \in config,
         NonAuthorityIsSilent'
  PROVE  Inv'
<1>1. TypeOK'
  BY TypeParts DEF Grows, TypeOK, TasksOK, RestOK
<1>2. Whole'
  <2>1. Wanted' = Wanted /\ Wanted \subseteq Tasks
    BY DEF Wanted, Tasks
  <2>2. ASSUME network' = "open" \/ "served" \in effects' PROVE \A t \in Wanted : Spawned(t)
    BY <2>2 DEF Inv, Whole
  <2> QED
    BY <2>1, <2>2 DEF Whole, Grows
<1> QED
  BY <1>1, <1>2 DEF Inv, Roles

LEMMA LaunchInv == ASSUME Inv, LaunchStep PROVE Inv'
<1>0. TasksOK /\ RestOK /\ Built /\ Roles
  BY TypeParts DEF Inv
<1>1. config' = config /\ effects' = effects /\ essential_failed' = essential_failed
      /\ keystore' = keystore
  BY DEF LaunchStep, NewFullParts, TelemetryWorker, TransactionPool, GrandpaBlockImport,
         ImportQueue, BuildNetwork, OffchainWorkers, SpawnTasks, Aura, Grandpa, StartNetwork,
         Fails, Stage
<1>2. NonAuthorityIsSilent'
  BY <1>0, <1>1 DEF Roles, NonAuthorityIsSilent
\* What is left to show when the step neither opens the network nor gives keys.
<1>3. ASSUME Grows, stage' \in Stages, Built', network' \in {network, "none", "waiting"},
             UNCHANGED voter_keystore, Spawned("aura")' => Spawned("aura") \/ "authority" \in config
      PROVE  Inv'
  <2>1. RestOK'
    BY <1>0, <1>1, <1>3 DEF RestOK
  <2>2. Spawned("aura")' => "authority" \in config
    BY <1>0, <1>3 DEF Roles
  <2>3. voter_keystore' => "authority" \in config
    BY <1>0, <1>3 DEF Roles
  <2>4. network' = "open" => network = "open"
    BY <1>3
  <2> QED
    BY <1>1, <1>2, <1>3, <2>1, <2>2, <2>3, <2>4, WithinLaunch
<1>4. ASSUME NEW s, Fails(s) PROVE Inv'
  <2>1. stage' = "closing" /\ task' = task /\ essential' = essential /\ network' = network
        /\ voter_keystore' = voter_keystore
    BY <1>4 DEF Fails, Stage
  <2>2. Grows
    BY <1>0, <2>1, NothingGrows
  <2>3. Built'
    BY <2>1 DEF Built
  <2> QED
    BY <1>3, <2>1, <2>2, <2>3 DEF Stages, Spawned
<1>5. CASE NewFullParts
  <2>1. CASE Stage("new_full_parts", "telemetry") /\ SpawnNothing /\ UNCHANGED <<network, voter_keystore>>
    <3>1. Grows
      BY <1>0, <2>1, NothingGrows DEF SpawnNothing
    <3> QED
      BY <1>3, <2>1, <3>1 DEF Stage, SpawnNothing, Stages, Built, Spawned
  <2> QED
    BY <1>4, <1>5, <2>1 DEF NewFullParts
<1>6. CASE TelemetryWorker
  <2>1. Grows /\ task'["aura"] = task["aura"]
    <3>1. CASE "telemetry" \in config
      <4>1. Spawn("telemetry")
        BY <1>6, <3>1 DEF TelemetryWorker
      <4> QED
        BY <1>0, <4>1, SpawnGrows, SpawnKeeps DEF Tasks, EssentialTasks
    <3>2. CASE "telemetry" \notin config
      BY <1>0, <1>6, <3>2, NothingGrows DEF TelemetryWorker, SpawnNothing
    <3> QED
      BY <3>1, <3>2
  <2> QED
    BY <1>3, <1>6, <2>1 DEF TelemetryWorker, Stage, Stages, Built, Spawned
<1>7. CASE TransactionPool
  <2>1. Grows /\ Spawned("txpool")' /\ task'["aura"] = task["aura"]
    BY <1>0, <1>7, SpawnGrows, SpawnKeeps DEF TransactionPool, Tasks, EssentialTasks
  <2> QED
    BY <1>3, <1>7, <2>1 DEF TransactionPool, Stage, Stages, Built, Spawned
<1>8. CASE GrandpaBlockImport
  <2>1. CASE Stage("grandpa_import", "import_queue") /\ SpawnNothing /\ UNCHANGED <<network, voter_keystore>>
    <3>1. Grows
      BY <1>0, <2>1, NothingGrows DEF SpawnNothing
    <3> QED
      BY <1>0, <1>3, <2>1, <3>1 DEF Stage, SpawnNothing, Stages, Built, Spawned
  <2> QED
    BY <1>4, <1>8, <2>1 DEF GrandpaBlockImport
<1>g. ASSUME Grows PROVE \A t \in {"txpool", "import-worker", "network-worker", "rpc", "aura",
                                  "grandpa-voter"} : Spawned(t) => Spawned(t)'
  BY <1>g DEF Grows, Tasks
<1>9. CASE ImportQueue
  <2>1. CASE /\ Stage("import_queue", IF "node" \in config THEN "build_network" ELSE "running")
             /\ SpawnEssential("import-worker") /\ UNCHANGED <<network, voter_keystore>>
    <3>1. Grows /\ Spawned("import-worker")' /\ task'["aura"] = task["aura"]
      BY <1>0, <2>1, SpawnGrows, SpawnKeeps DEF Tasks, EssentialTasks
    <3>2. stage = "import_queue" /\ stage' \in {"build_network", "running"}
      BY <2>1 DEF Stage
    <3>3. Built'
      BY <1>0, <1>g, <3>1, <3>2 DEF Built
    <3> QED
      BY <1>3, <2>1, <3>1, <3>2, <3>3 DEF Stages, Spawned
  <2> QED
    BY <1>4, <1>9, <2>1 DEF ImportQueue
<1>10. CASE BuildNetwork
  <2>1. CASE /\ Stage("build_network", "offchain")
             /\ Spawn("network-worker")
             /\ network' = "waiting" /\ UNCHANGED voter_keystore
    <3>1. Grows /\ Spawned("network-worker")' /\ task'["aura"] = task["aura"]
      BY <1>0, <2>1, SpawnGrows, SpawnKeeps DEF Tasks, EssentialTasks
    <3>2. stage = "build_network" /\ stage' = "offchain"
      BY <2>1 DEF Stage
    <3>3. Built'
      BY <1>0, <1>g, <3>1, <3>2 DEF Built
    <3> QED
      BY <1>3, <2>1, <3>1, <3>2, <3>3 DEF Stages, Spawned
  <2> QED
    BY <1>4, <1>10, <2>1 DEF BuildNetwork
<1>11. CASE OffchainWorkers
  <2>1. Grows /\ task'["aura"] = task["aura"]
    <3>1. CASE "offchain" \in config
      <4>1. Spawn("offchain-worker")
        BY <1>11, <3>1 DEF OffchainWorkers
      <4> QED
        BY <1>0, <4>1, SpawnGrows, SpawnKeeps DEF Tasks, EssentialTasks
    <3>2. CASE "offchain" \notin config
      BY <1>0, <1>11, <3>2, NothingGrows DEF OffchainWorkers, SpawnNothing
    <3> QED
      BY <3>1, <3>2
  <2>2. stage = "offchain" /\ stage' = "spawn_tasks"
    BY <1>11 DEF OffchainWorkers, Stage
  <2>3. Built'
    BY <1>0, <1>g, <2>1, <2>2 DEF Built
  <2> QED
    BY <1>3, <1>11, <2>1, <2>2, <2>3 DEF OffchainWorkers, Stages, Spawned
<1>12. CASE SpawnTasks
  <2>1. CASE Stage("spawn_tasks", "aura") /\ Spawn("rpc") /\ UNCHANGED <<network, voter_keystore>>
    <3>1. Grows /\ Spawned("rpc")' /\ task'["aura"] = task["aura"]
      BY <1>0, <2>1, SpawnGrows, SpawnKeeps DEF Tasks, EssentialTasks
    <3>2. stage = "spawn_tasks" /\ stage' = "aura"
      BY <2>1 DEF Stage
    <3>3. Built'
      BY <1>0, <1>g, <3>1, <3>2 DEF Built
    <3> QED
      BY <1>3, <2>1, <3>1, <3>2, <3>3 DEF Stages, Spawned
  <2> QED
    BY <1>4, <1>12, <2>1 DEF SpawnTasks
<1>13. CASE Aura
  <2>1. CASE /\ Stage("aura", "grandpa")
             /\ IF "authority" \in config THEN SpawnEssential("aura") ELSE SpawnNothing
             /\ UNCHANGED <<network, voter_keystore>>
    <3>1. Grows /\ ("authority" \in config => Spawned("aura")')
                /\ ("authority" \notin config => task' = task)
      <4>1. CASE "authority" \in config
        <5>1. SpawnEssential("aura")
          BY <2>1, <4>1
        <5> QED
          BY <1>0, <4>1, <5>1, SpawnGrows DEF Tasks, EssentialTasks
      <4>2. CASE "authority" \notin config
        BY <1>0, <2>1, <4>2, NothingGrows DEF SpawnNothing
      <4> QED
        BY <4>1, <4>2
    <3>2. stage = "aura" /\ stage' = "grandpa"
      BY <2>1 DEF Stage
    <3>3. Built'
      BY <1>0, <1>1, <1>g, <3>1, <3>2 DEF Built
    <3> QED
      BY <1>3, <2>1, <3>1, <3>2, <3>3 DEF Stages, Spawned
  <2> QED
    BY <1>4, <1>13, <2>1 DEF Aura
<1>14. CASE Grandpa
  <2>1. CASE /\ Stage("grandpa", "start_network")
             /\ IF "grandpa" \in config
                  THEN SpawnEssential("grandpa-voter") /\ voter_keystore' = ("authority" \in config)
                  ELSE SpawnNothing /\ UNCHANGED voter_keystore
             /\ UNCHANGED network
    <3>1. /\ Grows /\ task'["aura"] = task["aura"]
          /\ "grandpa" \in config => Spawned("grandpa-voter")'
      <4>1. CASE "grandpa" \in config
        <5>1. SpawnEssential("grandpa-voter")
          BY <2>1, <4>1
        <5> QED
          BY <1>0, <4>1, <5>1, SpawnGrows, SpawnKeeps DEF Tasks, EssentialTasks
      <4>2. CASE "grandpa" \notin config
        BY <1>0, <2>1, <4>2, NothingGrows DEF SpawnNothing
      <4> QED
        BY <4>1, <4>2
    <3>2. stage = "grandpa" /\ stage' = "start_network"
      BY <2>1 DEF Stage
    <3>3. Built'
      BY <1>0, <1>1, <1>g, <3>1, <3>2 DEF Built
    <3>4. voter_keystore' \in BOOLEAN /\ (voter_keystore' => "authority" \in config)
      <4>1. CASE "grandpa" \in config
        <5>1. voter_keystore' = ("authority" \in config)
          BY <2>1, <4>1
        <5>2. voter_keystore' \in BOOLEAN
          BY ONLY <5>1
        <5>3. voter_keystore' => "authority" \in config
          BY ONLY <5>1
        <5> QED
          BY <5>2, <5>3
      <4>2. CASE "grandpa" \notin config
        BY <1>0, <2>1, <4>2 DEF Roles, RestOK
      <4> QED
        BY <4>1, <4>2
    <3>5. RestOK'
      BY <1>0, <1>1, <2>1, <3>2, <3>4 DEF RestOK, Stages
    <3>6. Spawned("aura")' => "authority" \in config
      BY <1>0, <3>1 DEF Roles, Spawned
    <3> QED
      BY <1>1, <1>2, <2>1, <3>1, <3>3, <3>4, <3>5, <3>6, WithinLaunch
  <2> QED
    BY <1>4, <1>14, <2>1 DEF Grandpa
<1>15. CASE StartNetwork
  <2>1. /\ stage = "start_network" /\ stage' = "running"
        /\ task' = task /\ essential' = essential
        /\ network' \in {"open", "none"} /\ voter_keystore' = voter_keystore
    BY <1>15 DEF StartNetwork, Stage, SpawnNothing
  <2>2. Grows
    BY <1>0, <2>1, NothingGrows
  <2>3. \A t \in Wanted : Spawned(t)
    BY <1>0, <2>1 DEF Built, Wanted
  <2>4. Built'
    BY <2>1 DEF Built
  <2>5. RestOK'
    BY <1>0, <1>1, <2>1 DEF RestOK, Stages
  <2>6. (Spawned("aura")' => "authority" \in config) /\ (voter_keystore' => "authority" \in config)
    BY <1>0, <2>1 DEF Roles, Spawned
  <2> QED
    BY <1>1, <1>2, <2>2, <2>3, <2>4, <2>5, <2>6, WithinLaunch
<1> QED
  BY <1>5, <1>6, <1>7, <1>8, <1>9, <1>10, <1>11, <1>12, <1>13, <1>14, <1>15 DEF LaunchStep

-----------------------------------------------------------------------------
LEMMA InvStep == Inv /\ [Next]_vars => Inv'
<1> SUFFICES ASSUME Inv, [Next]_vars PROVE Inv'
  OBVIOUS
<1>0. TasksOK /\ RestOK /\ Built /\ Whole /\ Roles
  BY TypeParts DEF Inv
<1>1. CASE Launch
  <2>1. TasksOK'
    <3>1. task' = [t \in Tasks |-> "none"] /\ essential' = {}
      BY <1>1 DEF Launch
    <3> QED
      BY <3>1 DEF TasksOK, Tasks, EssentialTasks
  <2>3. RestOK'
    BY <1>0, <1>1 DEF Launch, RestOK, Stages
  <2>2. Built' /\ Whole' /\ Roles'
    BY <1>1 DEF Launch, Built, Whole, Roles, Spawned, NonAuthorityIsSilent, Tasks
  <2> QED
    BY <2>1, <2>2, <2>3 DEF Inv, TypeOK, TasksOK, RestOK
<1>2. CASE LaunchStep
  BY <1>2, LaunchInv
<1>3. CASE EssentialFailed \/ Stopped
  <2>1. /\ stage' = "closing" /\ UNCHANGED <<task, essential, network, voter_keystore, config,
                                            essential_failed, keystore, effects>>
    BY <1>3 DEF EssentialFailed, Stopped, Fails, Stage
  <2>2. Grows
    BY <1>0, <2>1, NothingGrows
  <2>3. Built' /\ RestOK'
    BY <1>0, <2>1 DEF Built, RestOK, Stages
  <2>4. NonAuthorityIsSilent' /\ (Spawned("aura")' => "authority" \in config)
          /\ (voter_keystore' => "authority" \in config)
    BY <1>0, <2>1 DEF Roles, NonAuthorityIsSilent, Spawned
  <2> QED
    BY <2>1, <2>2, <2>3, <2>4, WithinLaunch
<1>4. CASE Exit \/ Kill
  <2>1. /\ stage' = "off" /\ network' = "none"
        /\ task' = [t \in Tasks |-> IF Runs(t) THEN "stopped" ELSE task[t]]
        /\ UNCHANGED <<config, essential, essential_failed, keystore, voter_keystore, effects>>
    BY <1>4 DEF Exit, Kill
  <2>2. Grows /\ (Spawned("aura")' => Spawned("aura"))
    BY <1>0, <2>1 DEF Grows, TasksOK, Runs, Spawned, Tasks, EssentialTasks
  <2>3. Built' /\ RestOK'
    BY <1>0, <2>1 DEF Built, RestOK, Stages
  <2>4. NonAuthorityIsSilent' /\ (Spawned("aura")' => "authority" \in config)
          /\ (voter_keystore' => "authority" \in config)
    BY <1>0, <2>1, <2>2 DEF Roles, NonAuthorityIsSilent
  <2> QED
    BY <2>1, <2>2, <2>3, <2>4, WithinLaunch
<1>5. ASSUME NEW t \in Tasks, TaskEnds(t) PROVE Inv'
  <2>1. /\ task[t] = "running" /\ task' = [task EXCEPT ![t] = "ended"]
        /\ network' \in {network, "none"}
        /\ UNCHANGED <<config, stage, essential, keystore, voter_keystore, effects>>
    BY <1>5 DEF TaskEnds, Runs
  <2>2. /\ task' \in [Tasks -> {"none", "running", "ended", "stopped"}]
        /\ \A u \in Tasks : task'[u] # "none" <=> task[u] # "none"
    BY <1>0, <2>1 DEF TasksOK
  <2>3. Grows
    BY <1>0, <2>1, <2>2 DEF Grows, TasksOK, Spawned, EssentialTasks, Tasks
  <2>4. Built'
    BY <1>0, <2>1, <2>2 DEF Built, Spawned, Tasks
  <2>5. essential_failed' \in BOOLEAN
    BY <1>0, <1>5 DEF TaskEnds, RestOK
  <2>6. RestOK'
    BY <1>0, <2>1, <2>5 DEF RestOK
  <2>7. Spawned("aura")' => "authority" \in config
    BY <1>0, <2>2 DEF Roles, Spawned, Tasks
  <2>8. NonAuthorityIsSilent' /\ (voter_keystore' => "authority" \in config)
    BY <1>0, <2>1 DEF Roles, NonAuthorityIsSilent
  <2> QED
    BY <2>1, <2>3, <2>4, <2>6, <2>7, <2>8, WithinLaunch
<1>6. CASE Author \/ Vote \/ ServePeer \/ InsertKey
  <2>1. /\ UNCHANGED <<config, stage, task, essential, essential_failed, network, voter_keystore>>
        /\ keystore' \in BOOLEAN
    BY <1>0, <1>6 DEF Author, Vote, ServePeer, InsertKey, RestOK
  <2>2. \/ effects' = effects
        \/ effects' = effects \cup {"authored"} /\ Runs("aura")
        \/ effects' = effects \cup {"voted"} /\ voter_keystore
        \/ effects' = effects \cup {"served"} /\ network = "open"
    BY <1>6 DEF Author, Vote, ServePeer, InsertKey
  <2>3. Grows
    BY <1>0, <2>1, NothingGrows
  <2>4. Built' /\ (Spawned("aura")' => "authority" \in config)
          /\ (voter_keystore' => "authority" \in config)
    BY <1>0, <2>1 DEF Built, Roles, Spawned
  <2>5. RestOK'
    BY <1>0, <2>1, <2>2 DEF RestOK
  <2>6. Runs("aura") => "authority" \in config
    BY <1>0 DEF Roles, Runs, Spawned
  <2>7. NonAuthorityIsSilent'
    BY <1>0, <2>1, <2>2, <2>6 DEF Roles, NonAuthorityIsSilent
  <2>8. "served" \in effects' => "served" \in effects \/ network = "open"
    BY <2>2
  <2> QED
    BY <2>1, <2>3, <2>4, <2>5, <2>7, <2>8, WithinLaunch
<1>7. CASE UNCHANGED vars
  BY <1>7 DEF vars, Inv, TypeOK, Built, Whole, Roles, Spawned, Wanted, NonAuthorityIsSilent
<1> QED
  BY <1>1, <1>2, <1>3, <1>4, <1>5, <1>6, <1>7 DEF Next

LEMMA Invariance == Spec => []Inv
BY InitInv, InvStep, PTL DEF Spec

\* The account of essential tasks is right at every moment of every launch, whatever
\* fails and whenever the process is killed.
THEOREM ServiceTyped == Spec => []TypeOK
<1>1. Inv => TypeOK
  BY DEF Inv
<1> QED
  BY Invariance, <1>1, PTL

\* For every set of configurations, peers are served by whole nodes only.
THEOREM PeersSeeWholeNodes == Spec => []ServedByWholeNode
<1>1. Inv => ServedByWholeNode
  BY DEF Inv, Whole, ServedByWholeNode, Spawned
<1> QED
  BY Invariance, <1>1, PTL

\* For every history of launches and inserted keys, a node that is no authority
\* neither authors nor votes.
THEOREM NonAuthoritiesAreSilent == Spec => []NonAuthorityIsSilent
<1>1. Inv => NonAuthorityIsSilent
  BY DEF Inv, Roles
<1> QED
  BY Invariance, <1>1, PTL
-----------------------------------------------------------------------------
\* The channel of the essential tasks knows of every one that has ended.
Noticed == \A t \in EssentialTasks : task[t] = "ended" => essential_failed

LEMMA NoticedStep == Inv /\ Noticed /\ [Next]_vars => Noticed'
<1> SUFFICES ASSUME Inv, Noticed, [Next]_vars PROVE Noticed'
  OBVIOUS
<1>1. task \in [Tasks -> {"none", "running", "ended", "stopped"}]
      /\ essential = {t \in EssentialTasks : task[t] # "none"} /\ EssentialTasks \subseteq Tasks
  BY DEF Inv, TypeOK, EssentialTasks, Tasks
<1>2. ASSUME essential_failed' = essential_failed,
             \A t \in EssentialTasks : task'[t] = "ended" => task[t] = "ended"
      PROVE  Noticed'
  BY <1>2 DEF Noticed, EssentialTasks
<1>3. CASE Launch
  <2>1. task' = [t \in Tasks |-> "none"]
    BY <1>3 DEF Launch
  <2> QED BY <1>1, <2>1 DEF Noticed, EssentialTasks
<1>4. CASE LaunchStep
  <2>1. essential_failed' = essential_failed
    BY <1>4 DEF LaunchStep, NewFullParts, TelemetryWorker, TransactionPool, GrandpaBlockImport,
                ImportQueue, BuildNetwork, OffchainWorkers, SpawnTasks, Aura, Grandpa,
                StartNetwork, Stage, Fails
  <2>2. task' = task \/ \E u \in Tasks : task' = [task EXCEPT ![u] = "running"]
    BY <1>4 DEF LaunchStep, NewFullParts, TelemetryWorker, TransactionPool, GrandpaBlockImport,
                ImportQueue, BuildNetwork, OffchainWorkers, SpawnTasks, Aura, Grandpa,
                StartNetwork, Fails, Spawn, SpawnEssential, SpawnNothing, Tasks
  <2>3. \A t \in EssentialTasks : task'[t] = "ended" => task[t] = "ended"
    BY <1>1, <2>2
  <2> QED BY <1>2, <2>1, <2>3
<1>5. CASE EssentialFailed \/ Stopped \/ Author \/ Vote \/ ServePeer \/ InsertKey \/ UNCHANGED vars
  <2>1. essential_failed' = essential_failed /\ task' = task
    BY <1>5 DEF EssentialFailed, Stopped, Fails, Stage, Author, Vote, ServePeer, InsertKey, vars
  <2> QED BY <1>2, <2>1
<1>6. CASE Exit \/ Kill
  <2>1. /\ essential_failed' = essential_failed
        /\ task' = [t \in Tasks |-> IF Runs(t) THEN "stopped" ELSE task[t]]
    BY <1>6 DEF Exit, Kill
  <2>2. \A t \in EssentialTasks : task'[t] = "ended" => task[t] = "ended"
    BY <1>1, <2>1
  <2> QED BY <1>2, <2>1, <2>2
<1>7. ASSUME NEW t \in Tasks, TaskEnds(t) PROVE Noticed'
  <2>1. /\ task[t] = "running" /\ task' = [task EXCEPT ![t] = "ended"]
        /\ essential_failed' = (essential_failed \/ t \in essential)
    BY <1>7 DEF TaskEnds, Runs
  <2>2. ASSUME NEW u \in EssentialTasks, task'[u] = "ended" PROVE essential_failed'
    <3>1. CASE u = t
      <4>1. t \in essential
        BY <1>1, <2>1, <2>2, <3>1
      <4> QED BY <2>1, <4>1
    <3>2. CASE u # t
      <4>1. task[u] = "ended"
        BY <1>1, <2>1, <2>2, <3>2
      <4>2. essential_failed
        BY <2>2, <4>1 DEF Noticed
      <4> QED BY <2>1, <4>2
    <3> QED BY <3>1, <3>2
  <2> QED BY <2>2 DEF Noticed, EssentialTasks
<1> QED BY <1>3, <1>4, <1>5, <1>6, <1>7 DEF Next

\* When the transaction pool, the import queue, block authoring or the voter ends, in
\* whatever stage of the launch, the channel is closed (service.rs:292, 333): the signal
\* is there when the launch is over and the runner of a node looks (command.rs:201), and
\* is never lost.  It is what NoLingering needs besides fairness.
THEOREM EndsAreNoticed ==
  Spec => [](\A t \in EssentialTasks : task[t] = "ended" => essential_failed)
<1>1. Init => Noticed
  BY DEF Init, Noticed, EssentialTasks, Tasks
<1> QED
  BY <1>1, NoticedStep, Invariance, PTL DEF Spec, Noticed
=============================================================================
