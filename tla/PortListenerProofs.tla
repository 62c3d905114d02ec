------------------------- MODULE PortListenerProofs -------------------------
(***************************************************************************)
(* Theorems about PortListener, for any number of processes and ports.     *)
(***************************************************************************)
EXTENDS PortListener, TLAPS

\* A process that was not started.
Absent(p) ==
  /\ status[p] = "absent" => /\ triesRemaining[p] = TRIES /\ ~ nextTry[p]
                             /\ tick[p] = "none" /\ netstat[p] = "idle" /\ ~ Serving(p)

\* The timer pends while one try is left, or after the callback of listen.
TimerPends(p) ==
  nextTry[p] => /\ status[p] = "running"
                /\ \/ triesRemaining[p] = 1
                   \/ triesRemaining[p] = 0 /\ tick[p] = "none"

\* A serving process waits for its callback, or can try no more.
ServingIsDone(p) ==
  /\ tick[p] = "listening" => Serving(p)
  /\ Serving(p) => /\ status[p] = "running" /\ netstat[p] = "idle"
                   /\ \/ tick[p] = "listening"
                      \/ tick[p] = "none" /\ (triesRemaining[p] = 0 \/ ~ nextTry[p])

\* A process that asks netstat has no try left and no socket, and is not seen.
AskingIsLast(p) ==
  netstat[p] # "idle" => /\ ~ nextTry[p] /\ tick[p] = "none" /\ ~ Serving(p)
                         /\ netstat[p] # p

\* The inductive invariant.
Inv ==
  /\ TypeOK
  /\ NeverAdvisesItself
  /\ \A p \in Processes : Absent(p) /\ TimerPends(p) /\ ServingIsDone(p) /\ AskingIsLast(p)

-----------------------------------------------------------------------------
\* What a process must satisfy, apart from the types.
Local(p) == Absent(p) /\ TimerPends(p) /\ ServingIsDone(p) /\ AskingIsLast(p)

\* A try to listen takes a free port, touches no other process's event loop, and
\* leaves the socket and the event as it found them if the counter was zero.
Tried(p) ==
  /\ holder' \in [Ports -> Processes \cup {NoOne, Other}]
  /\ tick' \in [Processes -> {"none", "listening", "EADDRINUSE", "other error"}]
  /\ triesRemaining' \in [Processes -> -1..TRIES]
  /\ triesRemaining'[p] = triesRemaining[p] - 1
  /\ \A q \in Processes \ {p} :
       /\ holder'[port[q]] = q <=> holder[port[q]] = q
       /\ tick'[q] = tick[q]
       /\ triesRemaining'[q] = triesRemaining[q]
  /\ \/ holder'[port[p]] = p /\ tick'[p] = "listening"
     \/ /\ holder'[port[p]] = p <=> holder[port[p]] = p
        /\ \/ triesRemaining[p] = 0 /\ tick'[p] = tick[p]
           \/ triesRemaining[p] # 0 /\ tick'[p] \in {"EADDRINUSE", "other error"}

LEMMA TryTakesFreePort ==
  ASSUME TypeOK, NEW p \in Processes, TryToListen(p), triesRemaining[p] \in 0..TRIES
  PROVE  Tried(p)
<1>1. /\ port \in [Processes -> Ports]
      /\ NoOne \notin Processes
  BY PortAssumption, HolderAssumption
<1>2. /\ holder \in [Ports -> Processes \cup {NoOne, Other}]
      /\ tick \in [Processes -> {"none", "listening", "EADDRINUSE", "other error"}]
      /\ triesRemaining \in [Processes -> -1..2]
  BY DEF TypeOK, TRIES
<1>3. triesRemaining' = [triesRemaining EXCEPT ![p] = triesRemaining[p] - 1]
  BY DEF TryToListen
<1>4. /\ triesRemaining'[p] = triesRemaining[p] - 1
      /\ \A q \in Processes \ {p} : triesRemaining'[q] = triesRemaining[q]
  BY <1>2, <1>3
<1>5. triesRemaining' \in [Processes -> -1..TRIES]
  <2>1. triesRemaining[p] - 1 \in -1..TRIES
    BY DEF TRIES
  <2> QED
    BY ONLY <2>1, <1>2, <1>3, p \in Processes DEF TRIES
<1>6. \/ triesRemaining[p] = 0 /\ holder' = holder /\ tick' = tick
      \/ /\ triesRemaining[p] # 0
         /\ holder[port[p]] = NoOne
         /\ holder' = [holder EXCEPT ![port[p]] = p]
         /\ tick' = [tick EXCEPT ![p] = "listening"]
      \/ /\ triesRemaining[p] # 0
         /\ \E e \in {"EADDRINUSE", "other error"} : tick' = [tick EXCEPT ![p] = e]
         /\ holder' = holder
  BY DEF TryToListen
<1>7. /\ holder' \in [Ports -> Processes \cup {NoOne, Other}]
      /\ tick' \in [Processes -> {"none", "listening", "EADDRINUSE", "other error"}]
  BY ONLY <1>1, <1>2, <1>6, p \in Processes
<1>8. ASSUME NEW q \in Processes \ {p}
      PROVE  (holder'[port[q]] = q <=> holder[port[q]] = q) /\ tick'[q] = tick[q]
  <2>1. tick'[q] = tick[q]
    BY ONLY <1>2, <1>6, p \in Processes, q \in Processes \ {p}
  <2>2. holder' = holder \/ (holder[port[p]] = NoOne /\ holder' = [holder EXCEPT ![port[p]] = p])
    BY <1>6
  <2>3. holder'[port[q]] = q <=> holder[port[q]] = q
    BY ONLY <1>1, <1>2, <2>2, p \in Processes, q \in Processes \ {p}
  <2> QED
    BY <2>1, <2>3
<1>9. \/ holder'[port[p]] = p /\ tick'[p] = "listening"
      \/ /\ holder'[port[p]] = p <=> holder[port[p]] = p
         /\ \/ triesRemaining[p] = 0 /\ tick'[p] = tick[p]
            \/ triesRemaining[p] # 0 /\ tick'[p] \in {"EADDRINUSE", "other error"}
  BY ONLY <1>1, <1>2, <1>6, p \in Processes
<1> QED
  BY <1>4, <1>5, <1>7, <1>8, <1>9 DEF Tried

LEMMA InitInv == Init => Inv
BY PortAssumption, HolderAssumption
   DEF Init, Inv, TypeOK, NeverAdvisesItself, Absent, TimerPends, ServingIsDone,
       AskingIsLast, Serving, TRIES

\* Nothing that Local speaks of changes for q.
Same(q) ==
  /\ Serving(q)' <=> Serving(q)
  /\ status'[q] = status[q] /\ triesRemaining'[q] = triesRemaining[q]
  /\ nextTry'[q] = nextTry[q] /\ tick'[q] = tick[q] /\ netstat'[q] = netstat[q]

LEMMA Frame == ASSUME NEW q \in Processes, Local(q), Same(q) PROVE Local(q)'
BY DEF Local, Same, Absent, TimerPends, ServingIsDone, AskingIsLast, TRIES

LEMMA InvStep == Inv /\ [Next]_vars => Inv'
<1> SUFFICES ASSUME Inv, [Next]_vars PROVE Inv'
  OBVIOUS
<1> USE PortAssumption, HolderAssumption
<1>0. TypeOK /\ NeverAdvisesItself /\ \A q \in Processes : Local(q)
  BY DEF Inv, Local
<1>i. ASSUME NEW p \in Processes, TypeOK', UNCHANGED advice, Local(p)',
             \A q \in Processes \ {p} : Same(q)
      PROVE  Inv'
  <2>1. \A q \in Processes \ {p} : Local(q)'
    BY <1>0, <1>i, Frame
  <2>2. NeverAdvisesItself'
    BY <1>0, <1>i DEF NeverAdvisesItself
  <2> QED
    BY <1>i, <2>1, <2>2 DEF Inv, Local
<1>1. ASSUME NEW p \in Processes, Start(p) PROVE Inv'
  <2>1. /\ TryToListen(p)
        /\ status[p] = "absent"
        /\ status' = [status EXCEPT ![p] = "running"]
        /\ nextTry' = [nextTry EXCEPT ![p] = TRUE]
        /\ netstat' = netstat /\ advice' = advice
    BY <1>1 DEF Start
  <2>2. triesRemaining[p] = 2 /\ ~ Serving(p) /\ netstat[p] = "idle"
    BY <1>0, <2>1 DEF Local, Absent, TRIES
  <2>3. triesRemaining[p] \in 0..TRIES
    BY <2>2 DEF TRIES
  <2>t. Tried(p)
    BY <1>0, <2>1, <2>3, TryTakesFreePort
  <2>4. TypeOK'
    BY <1>0, <2>1, <2>t DEF TypeOK, Tried
  <2>5. Local(p)'
    <3>a. status'[p] = "running"
      BY <1>0, <2>1 DEF TypeOK
    <3>b. triesRemaining'[p] = 1
      <4>1. triesRemaining'[p] = triesRemaining[p] - 1
        BY <2>t DEF Tried
      <4>2. triesRemaining[p] = 2
        BY <2>2
      <4> QED
        BY ONLY <4>1, <4>2
    <3>c. netstat'[p] = "idle"
      BY <2>1, <2>2
    <3>1. status'[p] = "running" /\ triesRemaining'[p] = 1 /\ netstat'[p] = "idle"
      BY <3>a, <3>b, <3>c
    <3>2. \/ Serving(p)' /\ tick'[p] = "listening"
          \/ ~ Serving(p)' /\ tick'[p] \in {"EADDRINUSE", "other error"}
      <4>1. \/ holder'[port[p]] = p /\ tick'[p] = "listening"
            \/ /\ holder'[port[p]] = p <=> holder[port[p]] = p
               /\ \/ triesRemaining[p] = 0
                  \/ tick'[p] \in {"EADDRINUSE", "other error"}
        BY <2>t DEF Tried
      <4>2. triesRemaining[p] # 0
        BY <2>2
      <4>3. holder[port[p]] # p
        BY <2>2 DEF Serving
      <4> QED
        BY ONLY <4>1, <4>2, <4>3 DEF Serving
    <3> QED
      BY <3>1, <3>2 DEF Local, Absent, TimerPends, ServingIsDone, AskingIsLast
  <2>6. ASSUME NEW q \in Processes \ {p} PROVE Same(q)
    BY <1>0, <2>1, <2>t DEF Same, Serving, TypeOK, Tried
  <2> QED
    BY <1>i, <2>1, <2>4, <2>5, <2>6
<1>2. ASSUME NEW p \in Processes, Listening(p) PROVE Inv'
  <2>1. TypeOK'
    <3>1. triesRemaining' = [triesRemaining EXCEPT ![p] = 0] /\ 0 \in -1..TRIES
      BY <1>2 DEF Listening, TRIES
    <3>2. triesRemaining' \in [Processes -> -1..TRIES]
      BY ONLY <1>0, <3>1 DEF TypeOK
    <3> QED
      BY <1>0, <1>2, <3>2 DEF Listening, TypeOK
  <2>2. Local(p)'
    <3>1. Serving(p) /\ netstat[p] = "idle" /\ status[p] = "running"
      BY <1>0, <1>2 DEF Listening, Local, ServingIsDone
    <3>2. /\ triesRemaining'[p] = 0 /\ tick'[p] = "none"
          /\ Serving(p)' /\ netstat'[p] = "idle" /\ status'[p] = "running"
      BY <1>0, <1>2, <3>1 DEF Listening, Serving, TypeOK
    <3> QED
      BY <3>2 DEF Local, Absent, TimerPends, ServingIsDone, AskingIsLast
  <2>3. ASSUME NEW q \in Processes \ {p} PROVE Same(q)
    BY <1>0, <1>2 DEF Listening, Same, Serving, TypeOK
  <2> QED
    BY <1>i, <1>2, <2>1, <2>2, <2>3 DEF Listening
<1>3. ASSUME NEW p \in Processes, ListenError(p) PROVE Inv'
  <2>1. TypeOK'
    BY <1>0, <1>3 DEF ListenError, TypeOK
  <2>2. Local(p)'
    <3>a. tick[p] \in {"EADDRINUSE", "other error"}
      BY <1>3 DEF ListenError
    <3>b. ~ Serving(p) /\ status[p] # "absent" /\ netstat[p] = "idle"
      BY <1>0, <3>a DEF Local, Absent, ServingIsDone, AskingIsLast
    <3>c. nextTry[p] => triesRemaining[p] = 1 /\ status[p] = "running"
      BY <1>0, <3>a DEF Local, TimerPends
    <3>d. /\ ~ Serving(p)' /\ status'[p] = status[p]
          /\ triesRemaining'[p] = triesRemaining[p] /\ nextTry'[p] = nextTry[p]
      BY <1>3, <3>b DEF ListenError, Serving
    <3>e. tick'[p] = "none"
      BY <1>0, <1>3 DEF ListenError, TypeOK
    <3>f. netstat'[p] = "idle" \/ (netstat'[p] = "running" /\ triesRemaining[p] = 0)
      <4>1. netstat'[p] = IF tick[p] = "EADDRINUSE" /\ triesRemaining[p] = 0
                          THEN "running" ELSE netstat[p]
        BY <1>0, <1>3 DEF ListenError, TypeOK
      <4> QED
        BY <3>b, <4>1
    <3>g. netstat'[p] # p
      BY <3>f, HolderAssumption
    <3> QED
      BY <3>b, <3>c, <3>d, <3>e, <3>f, <3>g DEF Local, Absent, TimerPends, ServingIsDone, AskingIsLast
  <2>3. ASSUME NEW q \in Processes \ {p} PROVE Same(q)
    BY <1>0, <1>3 DEF ListenError, Same, Serving, TypeOK
  <2> QED
    BY <1>i, <1>3, <2>1, <2>2, <2>3 DEF ListenError
<1>4. ASSUME NEW p \in Processes, NextTry(p) PROVE Inv'
  <2>1. /\ TryToListen(p)
        /\ nextTry[p] /\ tick[p] = "none"
        /\ nextTry' = [nextTry EXCEPT ![p] = FALSE]
        /\ status' = status /\ netstat' = netstat /\ advice' = advice
    BY <1>4 DEF NextTry
  <2>2. /\ triesRemaining[p] \in {0, 1}
        /\ netstat[p] = "idle" /\ status[p] = "running"
        /\ Serving(p) => triesRemaining[p] = 0
    BY <1>0, <2>1 DEF Local, Absent, TimerPends, ServingIsDone, AskingIsLast
  <2>3. triesRemaining[p] \in 0..TRIES
    BY <2>2 DEF TRIES
  <2>t. Tried(p)
    BY <1>0, <2>1, <2>3, TryTakesFreePort
  <2>4. TypeOK'
    BY <1>0, <2>1, <2>t DEF TypeOK, Tried
  <2>5. Local(p)'
    <3>1. status'[p] = "running" /\ netstat'[p] = "idle"
      BY <2>1, <2>2
    <3>2. ~ nextTry'[p]
      BY <1>0, <2>1 DEF TypeOK
    <3>3. \/ Serving(p)' /\ tick'[p] \in {"listening", "none"}
          \/ ~ Serving(p)' /\ tick'[p] # "listening"
      <4>1. \/ holder'[port[p]] = p /\ tick'[p] = "listening"
            \/ /\ holder'[port[p]] = p <=> holder[port[p]] = p
               /\ \/ triesRemaining[p] = 0 /\ tick'[p] = tick[p]
                  \/ triesRemaining[p] # 0 /\ tick'[p] \in {"EADDRINUSE", "other error"}
        BY <2>t DEF Tried
      <4>2. holder[port[p]] = p => triesRemaining[p] = 0
        BY <2>2 DEF Serving
      <4> QED
        BY ONLY <2>1, <4>1, <4>2 DEF Serving
    <3> QED
      BY <3>1, <3>2, <3>3 DEF Local, Absent, TimerPends, ServingIsDone, AskingIsLast
  <2>6. ASSUME NEW q \in Processes \ {p} PROVE Same(q)
    BY <1>0, <2>1, <2>t DEF Same, Serving, TypeOK, Tried
  <2> QED
    BY <1>i, <2>1, <2>4, <2>5, <2>6
<1>5. ASSUME NEW p \in Processes, NetstatScans(p) PROVE Inv'
  <2>1. PICK seen \in {q \in Processes : Serving(q)} \cup {NoOne} :
          netstat' = [netstat EXCEPT ![p] = seen]
    BY <1>5 DEF NetstatScans
  <2>2. TypeOK'
    BY <1>0, <1>5, <2>1 DEF NetstatScans, TypeOK
  <2>3. Local(p)'
    <3>1. netstat[p] # "idle"
      BY <1>5 DEF NetstatScans
    <3>2. ~ nextTry[p] /\ tick[p] = "none" /\ ~ Serving(p) /\ status[p] # "absent"
      BY <1>0, <3>1 DEF Local, Absent, AskingIsLast
    <3>3. ~ nextTry'[p] /\ tick'[p] = "none" /\ ~ Serving(p)' /\ status'[p] # "absent"
      BY <1>5, <3>2 DEF NetstatScans, Serving
    <3>4. netstat'[p] = seen /\ seen # p
      BY <1>0, <2>1, <3>2 DEF TypeOK
    <3> QED
      BY <3>3, <3>4 DEF Local, Absent, TimerPends, ServingIsDone, AskingIsLast
  <2>4. ASSUME NEW q \in Processes \ {p} PROVE Same(q)
    BY <1>0, <1>5, <2>1 DEF NetstatScans, Same, Serving, TypeOK
  <2> QED
    BY <1>i, <1>5, <2>2, <2>3, <2>4 DEF NetstatScans
<1>6. ASSUME NEW p \in Processes, NetstatReturns(p) PROVE Inv'
  <2>1. ~ nextTry[p] /\ tick[p] = "none" /\ ~ Serving(p) /\ netstat[p] # p /\ status[p] # "absent"
    BY <1>0, <1>6 DEF NetstatReturns, Local, Absent, AskingIsLast
  <2>2. holder' = holder /\ triesRemaining' = triesRemaining /\ tick' = tick
    <3>1. \/ holder' = holder
          \/ holder' = [holder EXCEPT ![port[p]] =
                          IF holder[port[p]] = p THEN NoOne ELSE holder[port[p]]]
      BY <1>6 DEF NetstatReturns
    <3>2. holder' = holder
      BY <1>0, <2>1, <3>1 DEF TypeOK, Serving
    <3> QED
      BY <1>6, <3>2 DEF NetstatReturns
  <2>3. /\ nextTry' = nextTry \/ nextTry' = [nextTry EXCEPT ![p] = FALSE]
        /\ status' = status \/ status' = [status EXCEPT ![p] = "crashed"]
        /\ netstat' = [netstat EXCEPT ![p] = "idle"]
        /\ \/ advice' = advice
           \/ netstat[p] \in Processes /\ advice' = [advice EXCEPT ![p] = @ \cup {netstat[p]}]
    BY <1>6 DEF NetstatReturns
  <2>4. TypeOK'
    <3>1. advice' \in [Processes -> SUBSET Processes]
      <4>1. advice \in [Processes -> SUBSET Processes]
        BY <1>0 DEF TypeOK
      <4>2. CASE advice' = advice
        BY <4>1, <4>2
      <4>3. CASE netstat[p] \in Processes /\ advice' = [advice EXCEPT ![p] = @ \cup {netstat[p]}]
        <5>1. advice[p] \cup {netstat[p]} \in SUBSET Processes
          BY <4>1, <4>3
        <5> QED
          BY <4>1, <4>3, <5>1
      <4> QED
        BY <2>3, <4>2, <4>3
    <3>2. nextTry' \in [Processes -> BOOLEAN]
      BY <1>0, <2>3 DEF TypeOK
    <3>3. status' \in [Processes -> {"absent", "running", "exited", "crashed"}]
      BY <1>0, <2>3 DEF TypeOK
    <3>4. netstat' \in [Processes -> {"idle", "running"} \cup Processes \cup {NoOne}]
      BY <1>0, <2>3 DEF TypeOK
    <3> QED
      BY <1>0, <2>2, <3>1, <3>2, <3>3, <3>4 DEF TypeOK
  <2>5. NeverAdvisesItself'
    <3>1. \A q \in Processes : q \notin advice[q]
      BY <1>0 DEF NeverAdvisesItself
    <3>2. CASE advice' = advice
      BY <3>1, <3>2 DEF NeverAdvisesItself
    <3>3. CASE advice' = [advice EXCEPT ![p] = advice[p] \cup {netstat[p]}]
      <4>1. advice \in [Processes -> SUBSET Processes]
        BY <1>0 DEF TypeOK
      <4> QED
        BY ONLY <2>1, <3>1, <3>3, <4>1, p \in Processes DEF NeverAdvisesItself
    <3> QED
      BY <2>3, <3>2, <3>3
  <2>6. Local(p)'
    <3>1. ~ nextTry'[p] /\ tick'[p] = "none" /\ ~ Serving(p)'
      BY <1>0, <2>1, <2>2, <2>3 DEF TypeOK, Serving
    <3>2. netstat'[p] = "idle" /\ status'[p] # "absent"
      BY <1>0, <2>1, <2>3 DEF TypeOK
    <3> QED
      BY <3>1, <3>2 DEF Local, Absent, TimerPends, ServingIsDone, AskingIsLast
  <2>7. ASSUME NEW q \in Processes \ {p} PROVE Local(q)'
    <3>1. Same(q)
      BY <1>0, <2>2, <2>3 DEF Same, Serving, TypeOK
    <3> QED
      BY <1>0, <3>1, Frame
  <2> QED
    BY <2>4, <2>5, <2>6, <2>7 DEF Inv, Local
<1>7. ASSUME NEW p \in Processes, Drained(p) PROVE Inv'
  <2>1. TypeOK'
    BY <1>0, <1>7 DEF Drained, TypeOK
  <2>2. Local(p)'
    <3>1. ~ nextTry[p] /\ tick[p] = "none" /\ ~ Serving(p) /\ netstat[p] = "idle"
      BY <1>7 DEF Drained
    <3>2. /\ ~ nextTry'[p] /\ tick'[p] = "none" /\ ~ Serving(p)' /\ netstat'[p] = "idle"
          /\ status'[p] = "exited"
      BY <1>0, <1>7, <3>1 DEF Drained, Serving, TypeOK
    <3> QED
      BY <3>2 DEF Local, Absent, TimerPends, ServingIsDone, AskingIsLast
  <2>3. ASSUME NEW q \in Processes \ {p} PROVE Same(q)
    BY <1>0, <1>7 DEF Drained, Same, Serving, TypeOK
  <2> QED
    BY <1>i, <1>7, <2>1, <2>2, <2>3 DEF Drained
<1>8. ASSUME NEW p \in Processes, Hangup(p) PROVE Inv'
  <2>1. /\ \/ holder' = holder /\ holder[port[p]] # p
           \/ holder' = [holder EXCEPT ![port[p]] = NoOne] /\ holder[port[p]] = p
        /\ port[p] \in Ports
    BY <1>0, <1>8 DEF Hangup, TypeOK
  <2>2. TypeOK'
    BY <1>0, <1>8, <2>1 DEF Hangup, TypeOK
  <2>3. Local(p)'
    <3>1. ~ Serving(p)'
      BY <1>0, <2>1 DEF Serving, TypeOK
    <3>2. ~ nextTry'[p] /\ tick'[p] = "none" /\ netstat'[p] = "idle" /\ status'[p] = "exited"
      BY <1>0, <1>8 DEF Hangup, TypeOK
    <3> QED
      BY <3>1, <3>2 DEF Local, Absent, TimerPends, ServingIsDone, AskingIsLast
  <2>4. ASSUME NEW q \in Processes \ {p} PROVE Same(q)
    <3>1. Serving(q)' <=> Serving(q)
      BY <1>0, <2>1 DEF Serving, TypeOK
    <3> QED
      BY <1>0, <1>8, <3>1 DEF Hangup, Same, TypeOK
  <2> QED
    BY <1>i, <1>8, <2>2, <2>3, <2>4 DEF Hangup
<1>9. ASSUME NEW t \in Ports, OtherBinds(t) \/ OtherCloses(t) PROVE Inv'
  <2>1. TypeOK'
    BY <1>0, <1>9 DEF OtherBinds, OtherCloses, TypeOK
  <2>2. ASSUME NEW q \in Processes PROVE Same(q)
    BY <1>0, <1>9 DEF OtherBinds, OtherCloses, Same, Serving, TypeOK
  <2>3. NeverAdvisesItself'
    BY <1>0, <1>9 DEF OtherBinds, OtherCloses, NeverAdvisesItself
  <2> QED
    BY <1>0, <2>1, <2>2, <2>3, Frame DEF Inv, Local
<1>10. CASE UNCHANGED vars
  BY <1>0, <1>10 DEF vars, Inv, TypeOK, NeverAdvisesItself, Local, Absent, TimerPends,
                     ServingIsDone, AskingIsLast, Serving
<1> QED
  BY <1>1, <1>2, <1>3, <1>4, <1>5, <1>6, <1>7, <1>8, <1>9, <1>10 DEF Next, EventLoop

LEMMA Invariance == Spec => []Inv
BY InitInv, InvStep, PTL DEF Spec

\* Every variable has its type: no path of a start makes the counter fall below -1.
THEOREM TypeCorrect == Spec => []TypeOK
<1>1. Inv => TypeOK
  BY DEF Inv
<1> QED
  BY Invariance, <1>1, PTL

\* No process advises to kill itself, however many processes compete for a port and
\* whatever netstat shows (index.js:10-33 of both nodes).
THEOREM NoSelfAdvice == Spec => []NeverAdvisesItself
<1>1. Inv => NeverAdvisesItself
  BY DEF Inv
<1> QED
  BY Invariance, <1>1, PTL

\* No process that serves its port is brought down by its own start-up code.
THEOREM ServingSurvives == Spec => ServingIsSafe
<1>1. ASSUME Inv, [Next]_vars
      PROVE  [\A p \in Processes : Serving(p) => status'[p] # "crashed"]_vars
  <2> SUFFICES ASSUME Next, NEW p \in Processes, Serving(p) PROVE status'[p] # "crashed"
    BY <1>1
  <2>1. netstat[p] = "idle" /\ status[p] = "running"
    BY <1>1 DEF Inv, ServingIsDone
  <2>2. status \in [Processes -> {"absent", "running", "exited", "crashed"}]
    BY <1>1 DEF Inv, TypeOK
  <2>3. ASSUME NEW q \in Processes, NetstatReturns(q) PROVE status'[p] # "crashed"
    <3>1. netstat[q] \in Processes \cup {NoOne}
      BY <2>3 DEF NetstatReturns
    <3>2. q # p
      BY <2>1, <3>1, HolderAssumption
    <3> QED
      BY <2>1, <2>2, <2>3, <3>2 DEF NetstatReturns
  <2>4. ASSUME NEW q \in Processes,
               Start(q) \/ Listening(q) \/ ListenError(q) \/ NextTry(q) \/ NetstatScans(q)
                 \/ Drained(q) \/ Hangup(q)
        PROVE  status'[p] # "crashed"
    BY <2>1, <2>2, <2>4
       DEF Start, Listening, ListenError, NextTry, NetstatScans, Drained, Hangup
  <2>5. ASSUME NEW t \in Ports, OtherBinds(t) \/ OtherCloses(t) PROVE status'[p] # "crashed"
    BY <2>1, <2>5 DEF OtherBinds, OtherCloses
  <2> QED
    BY <2>3, <2>4, <2>5 DEF Next, EventLoop
<1> QED
  BY Invariance, <1>1, PTL DEF Spec, ServingIsSafe

-----------------------------------------------------------------------------
(* A start does not go on for ever. *)

\* Bounds on the steps that a process's life, its timer, its event and its netstat
\* child still allow: each step of a process uses up more than it makes possible.
LifeSteps(p) == IF status[p] = "absent" THEN 11 ELSE IF status[p] = "running" THEN 1 ELSE 0
TimerSteps(p) == IF nextTry[p] THEN 5 ELSE 0
EventSteps(p) == IF tick[p] = "none" THEN 0 ELSE 4
NetstatSteps(p) == IF netstat[p] = "idle" THEN 0 ELSE IF netstat[p] = "running" THEN 2 ELSE 1

StepsLeft(p) == LifeSteps(p) + TimerSteps(p) + EventSteps(p) + NetstatSteps(p)

\* Nothing of the event loop of p changes.
SameLoop(p) ==
  /\ status'[p] = status[p] /\ triesRemaining'[p] = triesRemaining[p]
  /\ nextTry'[p] = nextTry[p] /\ tick'[p] = tick[p] /\ netstat'[p] = netstat[p]

LEMMA StepsAreCounted ==
  ASSUME NEW p
  PROVE  /\ LifeSteps(p) \in {0, 1, 11} /\ LifeSteps(p)' \in {0, 1, 11}
         /\ TimerSteps(p) \in {0, 5} /\ TimerSteps(p)' \in {0, 5}
         /\ EventSteps(p) \in {0, 4} /\ EventSteps(p)' \in {0, 4}
         /\ NetstatSteps(p) \in {0, 1, 2} /\ NetstatSteps(p)' \in {0, 1, 2}
BY Zenon DEF LifeSteps, TimerSteps, EventSteps, NetstatSteps

\* A part of the count that is left alone stays.
LEMMA PartsKept ==
  ASSUME NEW p
  PROVE  /\ status'[p] = status[p] => LifeSteps(p)' = LifeSteps(p)
         /\ nextTry'[p] = nextTry[p] => TimerSteps(p)' = TimerSteps(p)
         /\ tick'[p] = tick[p] => EventSteps(p)' = EventSteps(p)
         /\ netstat'[p] = netstat[p] => NetstatSteps(p)' = NetstatSteps(p)
BY Zenon DEF LifeSteps, TimerSteps, EventSteps, NetstatSteps

\* However the tries, the netstat child, the other processes and programs interleave, every
\* step that touches the event loop of a process brings its end nearer: it takes at most
\* eleven of them, and no other process takes it back (index.js:7-38 of both nodes).
THEOREM StartsEnd ==
  Spec => [][\A p \in Processes :
               /\ StepsLeft(p) \in 0..11
               /\ StepsLeft(p)' < StepsLeft(p) \/ SameLoop(p)]_vars
<1> USE PortAssumption, HolderAssumption
<1>1. ASSUME Inv, NEW p \in Processes, Start(p)
      PROVE  StepsLeft(p)' < StepsLeft(p)
  <2>1. LifeSteps(p) = 11 /\ LifeSteps(p)' = 1 /\ NetstatSteps(p)' = NetstatSteps(p)
    <3>1. status[p] = "absent" /\ status'[p] = "running" /\ netstat'[p] = netstat[p]
      BY <1>1 DEF Start, Inv, TypeOK
    <3> QED BY <3>1, PartsKept DEF LifeSteps
  <2> QED BY <2>1, StepsAreCounted, SMT DEF StepsLeft
<1>2. ASSUME Inv, NEW p \in Processes, Listening(p) \/ ListenError(p)
      PROVE  StepsLeft(p)' < StepsLeft(p)
  <2>1. /\ tick[p] # "none" /\ tick'[p] = "none"
        /\ status'[p] = status[p] /\ nextTry'[p] = nextTry[p]
        /\ netstat'[p] = netstat[p] \/ netstat'[p] = "running"
    BY <1>2 DEF Listening, ListenError, Inv, TypeOK
  <2>2. EventSteps(p) = 4 /\ EventSteps(p)' = 0
    BY <2>1 DEF EventSteps
  <2>3. NetstatSteps(p)' = NetstatSteps(p) \/ NetstatSteps(p)' = 2
    BY <2>1, StepsAreCounted DEF NetstatSteps
  <2>4. LifeSteps(p)' = LifeSteps(p) /\ TimerSteps(p)' = TimerSteps(p)
    BY <2>1, PartsKept
  <2> QED BY <2>2, <2>3, <2>4, StepsAreCounted, SMT DEF StepsLeft
<1>3. ASSUME Inv, NEW p \in Processes, NextTry(p)
      PROVE  StepsLeft(p)' < StepsLeft(p)
  <2>1. /\ nextTry[p] /\ ~ nextTry'[p] /\ tick[p] = "none"
        /\ status'[p] = status[p] /\ netstat'[p] = netstat[p]
    BY <1>3 DEF NextTry, Inv, TypeOK
  <2>2. TimerSteps(p) = 5 /\ TimerSteps(p)' = 0 /\ EventSteps(p) = 0
    BY <2>1, Zenon DEF TimerSteps, EventSteps
  <2>3. LifeSteps(p)' = LifeSteps(p) /\ NetstatSteps(p)' = NetstatSteps(p)
    BY <2>1, PartsKept
  <2> QED BY <2>2, <2>3, StepsAreCounted, SMT DEF StepsLeft
<1>4. ASSUME Inv, NEW p \in Processes, NetstatScans(p)
      PROVE  StepsLeft(p)' < StepsLeft(p)
  <2>1. /\ netstat[p] = "running" /\ netstat'[p] # "running" /\ netstat'[p] # "idle"
        /\ status'[p] = status[p] /\ nextTry'[p] = nextTry[p] /\ tick'[p] = tick[p]
    BY <1>4 DEF NetstatScans, Inv, TypeOK
  <2>2. NetstatSteps(p) = 2 /\ NetstatSteps(p)' = 1
    BY <2>1 DEF NetstatSteps
  <2>3. /\ LifeSteps(p)' = LifeSteps(p) /\ TimerSteps(p)' = TimerSteps(p)
        /\ EventSteps(p)' = EventSteps(p)
    BY <2>1, PartsKept
  <2> QED BY <2>2, <2>3, StepsAreCounted, SMT DEF StepsLeft
<1>5. ASSUME Inv, NEW p \in Processes, NetstatReturns(p)
      PROVE  StepsLeft(p)' < StepsLeft(p)
  <2>1. /\ netstat[p] # "running" /\ netstat[p] # "idle" /\ netstat'[p] = "idle"
        /\ tick'[p] = tick[p]
    BY <1>5 DEF NetstatReturns, Inv, TypeOK
  <2>2. NetstatSteps(p) = 1 /\ NetstatSteps(p)' = 0 /\ EventSteps(p)' = EventSteps(p)
    BY <2>1, PartsKept DEF NetstatSteps
  <2>3. /\ status'[p] = status[p] \/ status'[p] = "crashed"
        /\ nextTry'[p] = nextTry[p] \/ ~ nextTry'[p]
    BY <1>5 DEF NetstatReturns, Inv, TypeOK
  <2>4. /\ LifeSteps(p)' = LifeSteps(p) \/ LifeSteps(p)' = 0
        /\ TimerSteps(p)' = TimerSteps(p) \/ TimerSteps(p)' = 0
    BY <2>3, PartsKept, Zenon DEF LifeSteps, TimerSteps
  <2> QED BY <2>2, <2>4, StepsAreCounted, SMT DEF StepsLeft
<1>6. ASSUME Inv, NEW p \in Processes, Drained(p) \/ Hangup(p)
      PROVE  StepsLeft(p)' < StepsLeft(p)
  <2>1. /\ status[p] = "running" /\ status'[p] = "exited" /\ tick'[p] = tick[p]
        /\ nextTry'[p] = nextTry[p] \/ ~ nextTry'[p]
        /\ netstat'[p] = netstat[p] \/ netstat'[p] = "idle"
    BY <1>6 DEF Drained, Hangup, Inv, TypeOK
  <2>2. LifeSteps(p) = 1 /\ LifeSteps(p)' = 0 /\ EventSteps(p)' = EventSteps(p)
    BY <2>1, PartsKept DEF LifeSteps
  <2>3. /\ TimerSteps(p)' = TimerSteps(p) \/ TimerSteps(p)' = 0
        /\ NetstatSteps(p)' = NetstatSteps(p) \/ NetstatSteps(p)' = 0
    BY <2>1, PartsKept, Zenon DEF TimerSteps, NetstatSteps
  <2> QED BY <2>2, <2>3, StepsAreCounted, SMT DEF StepsLeft
<1>7. ASSUME Inv, NEW p \in Processes, NEW q \in Processes \ {p},
             Start(q) \/ EventLoop(q) \/ NetstatScans(q) \/ Hangup(q)
      PROVE  SameLoop(p)
  <2>1. CASE Start(q) \/ NextTry(q)
    <3>1. TryToListen(q) /\ triesRemaining[q] \in 0..TRIES
      BY <1>7, <2>1 DEF Start, NextTry, Inv, Absent, TimerPends, TRIES
    <3>2. Tried(q)
      BY <1>7, <3>1, TryTakesFreePort DEF Inv
    <3>3. tick'[p] = tick[p] /\ triesRemaining'[p] = triesRemaining[p]
      BY <3>2 DEF Tried
    <3>4. status'[p] = status[p] /\ nextTry'[p] = nextTry[p] /\ netstat'[p] = netstat[p]
      BY <1>7, <2>1 DEF Start, NextTry, Inv, TypeOK
    <3> QED BY <3>3, <3>4 DEF SameLoop
  <2>2. CASE Listening(q) \/ ListenError(q) \/ NetstatScans(q)
    BY <1>7, <2>2 DEF Listening, ListenError, NetstatScans, SameLoop, Inv, TypeOK
  <2>3. CASE NetstatReturns(q) \/ Drained(q) \/ Hangup(q)
    BY <1>7, <2>3 DEF NetstatReturns, Drained, Hangup, SameLoop, Inv, TypeOK
  <2> QED BY <1>7, <2>1, <2>2, <2>3 DEF EventLoop
<1>8. ASSUME NEW p \in Processes, NEW t \in Ports, OtherBinds(t) \/ OtherCloses(t)
      PROVE  SameLoop(p)
  BY <1>8 DEF OtherBinds, OtherCloses, SameLoop
<1>9. ASSUME Inv, Next, NEW p \in Processes
      PROVE  StepsLeft(p)' < StepsLeft(p) \/ SameLoop(p)
  <2>1. CASE \E q \in Processes : Start(q) \/ EventLoop(q) \/ NetstatScans(q) \/ Hangup(q)
    <3>1. PICK q \in Processes : Start(q) \/ EventLoop(q) \/ NetstatScans(q) \/ Hangup(q)
      BY <2>1
    <3>2. CASE q = p
      BY <1>1, <1>2, <1>3, <1>4, <1>5, <1>6, <1>9, <3>1, <3>2, Zenon DEF EventLoop
    <3>3. CASE q # p
      BY <1>7, <1>9, <3>1, <3>3
    <3> QED BY <3>2, <3>3
  <2>2. CASE \E t \in Ports : OtherBinds(t) \/ OtherCloses(t)
    BY <1>8, <2>2
  <2> QED BY <1>9, <2>1, <2>2 DEF Next
<1>10. ASSUME Inv, NEW p \in Processes PROVE StepsLeft(p) \in 0..11
  <2>1. CASE status[p] = "absent"
    <3>1. ~ nextTry[p] /\ tick[p] = "none" /\ netstat[p] = "idle"
      BY <1>10, <2>1 DEF Inv, Absent
    <3>2. LifeSteps(p) = 11 /\ TimerSteps(p) = 0 /\ EventSteps(p) = 0 /\ NetstatSteps(p) = 0
      BY <2>1, <3>1, Zenon DEF LifeSteps, TimerSteps, EventSteps, NetstatSteps
    <3> QED BY <3>2, SMT DEF StepsLeft
  <2>2. CASE status[p] # "absent"
    <3>1. LifeSteps(p) \in {0, 1}
      BY <2>2, Zenon DEF LifeSteps
    <3>2. netstat[p] # "idle" => ~ nextTry[p] /\ tick[p] = "none"
      BY <1>10 DEF Inv, AskingIsLast
    <3>3. NetstatSteps(p) = 0 \/ (TimerSteps(p) = 0 /\ EventSteps(p) = 0)
      BY <3>2, Zenon DEF TimerSteps, EventSteps, NetstatSteps
    <3> QED BY <3>1, <3>3, StepsAreCounted, SMT DEF StepsLeft
  <2> QED BY <2>1, <2>2
<1>11. Inv /\ [Next]_vars => [\A p \in Processes :
                                /\ StepsLeft(p) \in 0..11
                                /\ StepsLeft(p)' < StepsLeft(p) \/ SameLoop(p)]_vars
  BY <1>9, <1>10
<1> QED BY Invariance, <1>11, PTL DEF Spec
=============================================================================
