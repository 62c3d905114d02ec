---------------------------- MODULE PortListener ----------------------------
(***************************************************************************)
(* The start of both express nodes: guillotine-node/express/src/index.js   *)
(* and guillotine-local-node/express/src/index.js, which differ in a log   *)
(* line only.  Several such processes, and other programs, want the same   *)
(* port.                                                                   *)
(*                                                                         *)
(* A process is one event loop.  Node binds a socket inside listen and     *)
(* queues the 'listening' or 'error' event as a next tick, which runs      *)
(* before any timer does.                                                  *)
(***************************************************************************)
EXTENDS Integers

CONSTANTS
  Processes,  \* operating system processes that run one of the two scripts
  Ports,      \* TCP ports
  port,       \* port[p]: the port of process p, from its environment
  NoOne,      \* nobody is bound to a port
  Other       \* any program that is not a node process

ASSUME PortAssumption == port \in [Processes -> Ports]
ASSUME HolderAssumption ==
  /\ NoOne \notin Processes /\ Other \notin Processes /\ NoOne # Other
  /\ {"idle", "running"} \cap (Processes \cup {NoOne}) = {}

TRIES == 2  \* the initial triesRemaining

VARIABLES
  holder,          \* operating system: who is bound to each port
  status,          \* life of each process
  triesRemaining,  \* the counter of each process
  nextTry,         \* is the timer of the second try pending
  tick,            \* the event of listen that waits in the next tick queue
  netstat,         \* the netstat child: idle, running, or what it has found
  advice           \* processes each process has advised to kill

vars == <<holder, status, triesRemaining, nextTry, tick, netstat, advice>>

Serving(p) == holder[port[p]] = p

-----------------------------------------------------------------------------
Init ==
  /\ holder \in [Ports -> {NoOne, Other}]
  /\ status = [p \in Processes |-> "absent"]
  /\ triesRemaining = [p \in Processes |-> TRIES]
  /\ nextTry = [p \in Processes |-> FALSE]
  /\ tick = [p \in Processes |-> "none"]
  /\ netstat = [p \in Processes |-> "idle"]
  /\ advice = [p \in Processes |-> {}]

\* tryToListen: any number but zero is true, and the counter goes down even if it
\* is false.  The bind fails if the port is taken, and may fail for other reasons.
TryToListen(p) ==
  /\ triesRemaining' = [triesRemaining EXCEPT ![p] = @ - 1]
  /\ \/ triesRemaining[p] = 0 /\ UNCHANGED <<holder, tick>>
     \/ /\ triesRemaining[p] # 0
        /\ holder[port[p]] = NoOne
        /\ holder' = [holder EXCEPT ![port[p]] = p]
        /\ tick' = [tick EXCEPT ![p] = "listening"]
     \/ /\ triesRemaining[p] # 0
        /\ holder[port[p]] # NoOne
        /\ tick' = [tick EXCEPT ![p] = "EADDRINUSE"]
        /\ UNCHANGED holder
     \/ /\ triesRemaining[p] # 0
        /\ tick' = [tick EXCEPT ![p] = "other error"]
        /\ UNCHANGED holder

\* The script runs to its end: the first try, then the timer for the second one.
Start(p) ==
  /\ status[p] = "absent"
  /\ status' = [status EXCEPT ![p] = "running"]
  /\ TryToListen(p)
  /\ nextTry' = [nextTry EXCEPT ![p] = TRUE]
  /\ UNCHANGED <<netstat, advice>>

\* Slip: the callback of listen does not clear the counter.
ListeningKeepsTries(p) ==
  /\ tick[p] = "listening"
  /\ tick' = [tick EXCEPT ![p] = "none"]
  /\ UNCHANGED <<holder, status, triesRemaining, nextTry, netstat, advice>>

\* The callback of listen: no further try.
Listening(p) ==
  /\ tick[p] = "listening"
  /\ tick' = [tick EXCEPT ![p] = "none"]
  /\ triesRemaining' = [triesRemaining EXCEPT ![p] = 0]
  /\ UNCHANGED <<holder, status, nextTry, netstat, advice>>

\* The error handler: once a taken port leaves no try, ask netstat who has it.
ListenError(p) ==
  /\ tick[p] \in {"EADDRINUSE", "other error"}
  /\ tick' = [tick EXCEPT ![p] = "none"]
  /\ netstat' = [netstat EXCEPT ![p] =
       IF tick[p] = "EADDRINUSE" /\ triesRemaining[p] = 0 THEN "running" ELSE @]
  /\ UNCHANGED <<holder, status, triesRemaining, nextTry, advice>>

\* Slip: the second try repeats (setInterval).
NextTryForever(p) ==
  /\ nextTry[p] /\ tick[p] = "none"
  /\ TryToListen(p)
  /\ UNCHANGED <<status, nextTry, netstat, advice>>

\* Slip: the second try repeats (setInterval), until the counter is zero.
NextTryRepeats(p) ==
  /\ nextTry[p] /\ tick[p] = "none"
  /\ \/ triesRemaining[p] # 0 /\ TryToListen(p)
     \/ triesRemaining[p] = 0 /\ UNCHANGED <<holder, triesRemaining, tick>>
  /\ UNCHANGED <<status, nextTry, netstat, advice>>

\* The timer of the second try, after the events of the first one.
NextTry(p) ==
  /\ nextTry[p] /\ tick[p] = "none"
  /\ nextTry' = [nextTry EXCEPT ![p] = FALSE]
  /\ TryToListen(p)
  /\ UNCHANGED <<status, netstat, advice>>

-----------------------------------------------------------------------------
(* The operating system. *)

\* netstat prints the node processes bound to ports; grep may pick the line of any
\* of them, or none: the holder is no node process, has gone, or is listed under
\* the name of a service instead of a number.
NetstatScans(p) ==
  /\ netstat[p] = "running"
  /\ \E seen \in {q \in Processes : Serving(q)} \cup {NoOne} :
       netstat' = [netstat EXCEPT ![p] = seen]
  /\ UNCHANGED <<holder, status, triesRemaining, nextTry, tick, advice>>

\* The callback of exec.  Without a match it indexes null: the exception is not
\* caught and the process dies.
NetstatReturns(p) ==
  /\ netstat[p] \in Processes \cup {NoOne}
  /\ netstat' = [netstat EXCEPT ![p] = "idle"]
  /\ \/ netstat[p] \in Processes
        /\ advice' = [advice EXCEPT ![p] = @ \cup {netstat[p]}]
        /\ UNCHANGED <<holder, status, nextTry>>
     \/ netstat[p] = NoOne
        /\ status' = [status EXCEPT ![p] = "crashed"]
        /\ nextTry' = [nextTry EXCEPT ![p] = FALSE]
        /\ holder' = [holder EXCEPT ![port[p]] = IF @ = p THEN NoOne ELSE @]
        /\ UNCHANGED advice
  /\ UNCHANGED <<triesRemaining, tick>>

\* An event loop with nothing left to wait for ends its process.
Drained(p) ==
  /\ status[p] = "running"
  /\ ~ Serving(p) /\ ~ nextTry[p] /\ tick[p] = "none" /\ netstat[p] = "idle"
  /\ status' = [status EXCEPT ![p] = "exited"]
  /\ UNCHANGED <<holder, triesRemaining, nextTry, tick, netstat, advice>>

\* SIGHUP: the handler exits at once, between two callbacks.
Hangup(p) ==
  /\ status[p] = "running" /\ tick[p] = "none"
  /\ status' = [status EXCEPT ![p] = "exited"]
  /\ holder' = [holder EXCEPT ![port[p]] = IF @ = p THEN NoOne ELSE @]
  /\ nextTry' = [nextTry EXCEPT ![p] = FALSE]
  /\ netstat' = [netstat EXCEPT ![p] = "idle"]
  /\ UNCHANGED <<triesRemaining, tick, advice>>

\* Another program takes or releases a port.
OtherBinds(t) ==
  /\ holder[t] = NoOne
  /\ holder' = [holder EXCEPT ![t] = Other]
  /\ UNCHANGED <<status, triesRemaining, nextTry, tick, netstat, advice>>

OtherCloses(t) ==
  /\ holder[t] = Other
  /\ holder' = [holder EXCEPT ![t] = NoOne]
  /\ UNCHANGED <<status, triesRemaining, nextTry, tick, netstat, advice>>

-----------------------------------------------------------------------------
\* What the event loop of p does by itself.
EventLoop(p) ==
  Listening(p) \/ ListenError(p) \/ NextTry(p) \/ NetstatReturns(p) \/ Drained(p)

Next ==
  \/ \E p \in Processes : Start(p) \/ EventLoop(p) \/ NetstatScans(p) \/ Hangup(p)
  \/ \E t \in Ports : OtherBinds(t) \/ OtherCloses(t)

\* The event loop runs what is due, and netstat ends.
Spec ==
  /\ Init /\ [][Next]_vars
  /\ \A p \in Processes : WF_vars(EventLoop(p)) /\ WF_vars(NetstatScans(p))

-----------------------------------------------------------------------------
(* Properties. *)

\* Every variable has its type; the counter stops at -1, after the only try that
\* finds it zero.
TypeOK ==
  /\ holder \in [Ports -> Processes \cup {NoOne, Other}]
  /\ status \in [Processes -> {"absent", "running", "exited", "crashed"}]
  /\ triesRemaining \in [Processes -> -1..TRIES]
  /\ nextTry \in [Processes -> BOOLEAN]
  /\ tick \in [Processes -> {"none", "listening", "EADDRINUSE", "other error"}]
  /\ netstat \in [Processes -> {"idle", "running"} \cup Processes \cup {NoOne}]
  /\ advice \in [Processes -> SUBSET Processes]

\* The second try never runs against the process's own first one: no process finds
\* itself on its port and advises to kill itself, because 'listening' clears the
\* counter before the timer runs.
NeverAdvisesItself == \A p \in Processes : p \notin advice[p]

\* A process that serves its port is not brought down by its own start-up code: it
\* leaves the port by SIGHUP only, and never by the exception in the callback of exec.
ServingIsSafe ==
  [][\A p \in Processes : Serving(p) => status'[p] # "crashed"]_vars

\* A started process comes to serve its port or ends: it does not linger, retrying
\* or waiting, without a socket.
Settles ==
  \A p \in Processes : status[p] = "running" ~> (Serving(p) \/ status[p] # "running")
=============================================================================
