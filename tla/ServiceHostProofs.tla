-------------------------- MODULE ServiceHostProofs --------------------------
(***************************************************************************)
(* Theorems about ServiceHost, for any number of programs and of controls. *)
(***************************************************************************)
EXTENDS ServiceHost, TLAPS

\* Where the threads can be. A control that is being handled has a name.
ControlOK ==
    /\ control.op = "none" => control.pc = "none"
    /\ control.op = "stop" => control.pc \in {"end", "terminate", "next", "stopped"}
    /\ control.op \in {"bounce", "all"}
          => control.pc \in {"end", "terminate", "next", "start"}

\* Before ServiceMain has called SetServiceStatus there are no controls.
BeforeRunning ==
    /\ main.pc = "wait" => status = "pending"
    /\ status = "pending" => control.op = "none" /\ \A i \in Index : handle[i] = "null"
    /\ status = "pending" => main.pc \in {"wait", "done"} /\ monitor.pc # "start"

\* The threads that are yet to call CreateProcess for program i
MonitorTo(i) == monitor.pc = "start" /\ monitor.i = i
MainTo(i) ==
    \/ main.pc \in {"wait", "names"}
    \/ main.pc \in {"reset", "start"} /\ main.i <= i
HandlerTo(i) ==
    \/ control.op = "bounce" /\ control.i = i
    \/ control.op = "all" /\ (control.pc # "start" \/ control.i <= i)

\* What pProcInfo[i] counts for: a process that runs, or one that has ended and
\* that the monitor has not yet seen.
Known(i) ==
    IF handle[i] = "running" \/ (handle[i] = "ended" /\ ~MonitorTo(i)) THEN 1 ELSE 0

One(p) == IF p THEN 1 ELSE 0

\* The processes that run and those that will be started are one of each
\* program, and one for each bounce.
Counted ==
    \A i \in Index :
        stray[i] + Known(i) + One(MonitorTo(i)) + One(MainTo(i)) + One(HandlerTo(i))
            <= bounces[i] + 1

\* The handler ends the programs from the last to the first.
Stopping ==
    /\ ~started <=> control.op = "stop"
    /\ control.pc = "stopped" => control.i = 0
    /\ ~late /\ control.op = "stop" =>
          \A i \in Index :
             i > control.i \/ (i = control.i /\ control.pc \in {"next", "stopped"})
                => handle[i] # "running"
    /\ ~host => control.pc = "stopped" \/ main.pc = "wait"

HostInv == TypeOK /\ ControlOK /\ BeforeRunning /\ Counted /\ Stopping

LEMMA HostInit == Init => HostInv
  <1> SUFFICES ASSUME Init
               PROVE  HostInv
    OBVIOUS
  <1>1. 0 \in Index
    BY ServiceHostAssumption DEF Index
  <1>2. TypeOK
    <2>1. /\ main \in [pc : {"wait", "names", "reset", "start", "done"}, i : Index]
          /\ monitor \in [pc : {"none", "test", "check", "start", "done"}, i : Index]
          /\ control \in [op : {"none", "stop", "bounce", "all"},
                          pc : {"none", "end", "terminate", "next", "start", "stopped"},
                          i : Index]
      BY <1>1 DEF Init, At, Idle
    <2>2. /\ bounces \in [Index -> 0..MaxBounces]
          /\ stray \in [Index -> Nat]
      BY ServiceHostAssumption DEF Init
    <2>3. /\ names \in [Index -> {"null", "set", "freed"}]
          /\ handle \in [Index -> {"null", "running", "ended"}]
      BY DEF Init
    <2> QED
      BY <2>1, <2>2, <2>3 DEF Init, TypeOK
  <1>3. ControlOK /\ BeforeRunning
    BY DEF Init, ControlOK, BeforeRunning, At, Idle
  <1>4. ASSUME NEW i \in Index
        PROVE  /\ stray[i] = 0 /\ bounces[i] = 0 /\ Known(i) = 0
               /\ ~MonitorTo(i) /\ ~HandlerTo(i) /\ MainTo(i)
    BY DEF Init, Known, MonitorTo, HandlerTo, MainTo, At, Idle
  <1>5. Counted
    BY <1>4 DEF Counted, One
  <1>6. Stopping
    BY DEF Init, Stopping, At, Idle
  <1> QED
    BY <1>2, <1>3, <1>5, <1>6 DEF HostInv

-----------------------------------------------------------------------------
(* Type correctness *)

LEMMA StartType ==
    ASSUME TypeOK, NEW i \in Index, StartProcess(i)
    PROVE  /\ handle' \in [Index -> {"null", "running", "ended"}]
           /\ stray' \in [Index -> Nat]
           /\ late' \in BOOLEAN
  <1>1. CASE UNCHANGED <<handle, stray, late>>
    BY <1>1 DEF TypeOK
  <1>2. CASE ~UNCHANGED <<handle, stray, late>>
    <2>1. /\ handle' = [handle EXCEPT ![i] = "running"]
          /\ stray' = [stray EXCEPT ![i] = @ + IF handle[i] = "running" THEN 1 ELSE 0]
          /\ late' = (late \/ ~started)
      BY <1>2 DEF StartProcess
    <2>2. stray[i] + (IF handle[i] = "running" THEN 1 ELSE 0) \in Nat
      BY DEF TypeOK
    <2>3. stray' \in [Index -> Nat]
      BY <2>1, <2>2 DEF TypeOK
    <2>4. handle' \in [Index -> {"null", "running", "ended"}]
      BY <2>1 DEF TypeOK
    <2>5. late' \in BOOLEAN
      BY <2>1 DEF TypeOK
    <2> QED
      BY <2>3, <2>4, <2>5
  <1> QED
    BY <1>1, <1>2

LEMMA IndexNext ==
    ASSUME NEW i \in Index
    PROVE  /\ 0 \in Index /\ NumProcess - 1 \in Index
           /\ i < NumProcess - 1 => i + 1 \in Index
           /\ i > 0 => i - 1 \in Index
  BY ServiceHostAssumption DEF Index

LEMMA HostType ==
    ASSUME TypeOK, ControlOK, [Next]_vars
    PROVE  TypeOK'
  <1> USE ServiceHostAssumption DEF TypeOK, At
  <1>1. CASE ServiceMain
    <2>1. 0 \in Index
      BY DEF Index
    <2> QED
      BY <1>1, <2>1 DEF ServiceMain
  <1>2. CASE AttachProcessNames
    <2>1. 0 \in Index
      BY DEF Index
    <2> QED
      BY <1>2, <2>1 DEF AttachProcessNames
  <1>3. CASE MainReset
    <2>1. stray[main.i] + (IF handle[main.i] = "running" THEN 1 ELSE 0) \in Nat
      OBVIOUS
    <2>2. stray' \in [Index -> Nat]
      BY <1>3, <2>1 DEF MainReset
    <2>3. handle' \in [Index -> {"null", "running", "ended"}]
      BY <1>3 DEF MainReset
    <2> QED
      BY <1>3, <2>2, <2>3 DEF MainReset
  <1>4. CASE MainStart
    <2>1. main' \in [pc : {"wait", "names", "reset", "start", "done"}, i : Index]
      <3>1. main.i < NumProcess - 1 => main.i + 1 \in Index
        BY IndexNext
      <3>2. 0 \in Index
        BY DEF Index
      <3> QED
        BY <1>4, <3>1, <3>2 DEF MainStart
    <2> QED
      BY <1>4, <2>1, StartType DEF MainStart
  <1>5. CASE HandlerPost
    BY <1>5 DEF HandlerPost
  <1>6. CASE HandlerTerminate
    BY <1>6 DEF HandlerTerminate, Terminate
  <1>7. CASE HandlerNext
    <2>1. control.i > 0 => control.i - 1 \in Index
      BY IndexNext
    <2>2. control' \in [op : {"none", "stop", "bounce", "all"},
                        pc : {"none", "end", "terminate", "next", "start", "stopped"},
                        i : Index]
      BY <1>7, <2>1 DEF HandlerNext
    <2>3. names' \in [Index -> {"null", "set", "freed"}]
      BY <1>7 DEF HandlerNext
    <2> QED
      BY <1>7, <2>2, <2>3 DEF HandlerNext
  <1>8. CASE HandlerStart
    <2>1. control' \in [op : {"none", "stop", "bounce", "all"},
                        pc : {"none", "end", "terminate", "next", "start", "stopped"},
                        i : Index]
      <3>1. control.i < NumProcess - 1 => control.i + 1 \in Index
        BY IndexNext
      <3>2. 0 \in Index
        BY DEF Index
      <3> QED
        BY <1>8, <3>1, <3>2 DEF HandlerStart, Idle
    <2> QED
      BY <1>8, <2>1, StartType DEF HandlerStart
  <1>9. CASE MonitorTest
    <2>1. 0 \in Index
      BY DEF Index
    <2> QED
      BY <1>9, <2>1 DEF MonitorTest
  <1>10. AfterCheck(monitor.i)
            \in [pc : {"none", "test", "check", "start", "done"}, i : Index]
    <2>1. monitor.i < NumProcess - 1 => monitor.i + 1 \in Index
      BY IndexNext
    <2>2. 0 \in Index
      BY DEF Index
    <2> QED
      BY <2>1, <2>2 DEF AfterCheck
  <1>11. CASE MonitorCheck
    BY <1>10, <1>11 DEF MonitorCheck
  <1>12. CASE MonitorStart
    BY <1>10, <1>12, StartType DEF MonitorStart
  <1>13. CASE Stop
    <2>1. NumProcess - 1 \in Index
      BY DEF Index
    <2> QED
      BY <1>13, <2>1 DEF Stop
  <1>14. CASE Pause
    BY <1>14 DEF Pause
  <1>15. CASE BounceAll
    <2>1. NumProcess - 1 \in Index
      BY DEF Index
    <2>2. \A i \in Index : bounces[i] + 1 \in 0..MaxBounces
      BY <1>15 DEF BounceAll
    <2> QED
      BY <1>15, <2>1, <2>2 DEF BounceAll
  <1>16. CASE HostExit
    BY <1>16, ZenonT(60) DEF HostExit
  <1>17. ASSUME NEW i \in Index, Bounce(i)
         PROVE  TypeOK'
    <2>1. bounces[i] + 1 \in 0..MaxBounces
      BY <1>17 DEF Bounce
    <2> QED
      BY <1>17, <2>1 DEF Bounce
  <1>18. ASSUME NEW i \in Index, ProcessEnds(i)
         PROVE  TypeOK'
    BY <1>18 DEF ProcessEnds, Terminate
  <1>19. CASE UNCHANGED vars
    BY <1>19 DEF vars
  <1> QED
    BY <1>1, <1>2, <1>3, <1>4, <1>5, <1>6, <1>7, <1>8, <1>9, <1>11, <1>12, <1>13,
       <1>14, <1>15, <1>16, <1>17, <1>18, <1>19
       DEF Next, MainStep, HandlerStep, MonitorStep

-----------------------------------------------------------------------------
(* Where the threads are *)

LEMMA HostControl ==
    ASSUME TypeOK, ControlOK, [Next]_vars
    PROVE  ControlOK'
  <1> USE DEF ControlOK
  <1>1. CASE HandlerPost \/ HandlerTerminate
    BY <1>1 DEF HandlerPost, HandlerTerminate, TypeOK
  <1>2. CASE HandlerNext
    BY <1>2 DEF HandlerNext, TypeOK
  <1>3. CASE HandlerStart
    BY <1>3 DEF HandlerStart, Idle, TypeOK
  <1>4. CASE Stop \/ BounceAll \/ \E i \in Index : Bounce(i)
    BY <1>4 DEF Stop, BounceAll, Bounce
  <1>5. CASE MainStep \/ MonitorStep
    BY <1>5 DEF MainStep, MonitorStep, ServiceMain, AttachProcessNames, MainReset,
                MainStart, MonitorTest, MonitorCheck, MonitorStart
  <1>6. CASE Pause \/ HostExit \/ (\E i \in Index : ProcessEnds(i)) \/ UNCHANGED vars
    BY <1>6 DEF Pause, HostExit, ProcessEnds, vars
  <1> QED
    BY <1>1, <1>2, <1>3, <1>4, <1>5, <1>6 DEF Next, HandlerStep

LEMMA HostBefore ==
    ASSUME TypeOK, ControlOK, BeforeRunning, [Next]_vars
    PROVE  BeforeRunning'
  <1> USE DEF BeforeRunning, ControlOK, At
  <1>1. CASE ServiceMain
    BY <1>1 DEF ServiceMain
  <1>2. CASE AttachProcessNames
    BY <1>2 DEF AttachProcessNames
  <1>3. CASE MainReset
    BY <1>3 DEF MainReset
  <1>4. CASE MainStart
    BY <1>4 DEF MainStart
  <1>5. CASE HandlerStep
    BY <1>5 DEF HandlerStep, HandlerPost, HandlerTerminate, HandlerNext, HandlerStart
  <1>6. CASE MonitorTest \/ MonitorCheck
    BY <1>6 DEF MonitorTest, MonitorCheck, AfterCheck, TypeOK
  <1>7. CASE MonitorStart
    BY <1>7 DEF MonitorStart
  <1>8. CASE Stop \/ Pause \/ BounceAll \/ \E i \in Index : Bounce(i)
    BY <1>8 DEF Stop, Pause, BounceAll, Bounce, Ready
  <1>9. CASE HostExit \/ UNCHANGED vars
    BY <1>9 DEF HostExit, vars
  <1>10. ASSUME NEW i \in Index, ProcessEnds(i)
         PROVE  BeforeRunning'
    <2>1. status = "pending" => handle' = handle
      BY <1>10 DEF ProcessEnds
    <2> QED
      BY <1>10, <2>1 DEF ProcessEnds
  <1> QED
    BY <1>1, <1>2, <1>3, <1>4, <1>5, <1>6, <1>7, <1>8, <1>9, <1>10
       DEF Next, MainStep, MonitorStep

-----------------------------------------------------------------------------
(* How many processes run *)

\* Starting a program adds one process, at most.
LEMMA StartCount ==
    ASSUME TypeOK, NEW i \in Index, StartProcess(i)
    PROVE  /\ stray'[i] + Known(i)' <= stray[i] + Known(i) + 1
           /\ \A j \in Index \ {i} : stray'[j] = stray[j] /\ handle'[j] = handle[j]
  <1>1. stray[i] \in Nat /\ handle[i] \in {"null", "running", "ended"}
    BY DEF TypeOK
  <1>2. Known(i) \in {0, 1} /\ Known(i)' \in {0, 1}
    BY DEF Known
  <1>3. CASE UNCHANGED <<handle, stray, late>>
    BY <1>1, <1>2, <1>3
  <1>4. CASE ~UNCHANGED <<handle, stray, late>>
    <2>1. /\ handle' = [handle EXCEPT ![i] = "running"]
          /\ stray' = [stray EXCEPT ![i] = @ + IF handle[i] = "running" THEN 1 ELSE 0]
      BY <1>4 DEF StartProcess
    <2>2. stray'[i] = stray[i] + IF handle[i] = "running" THEN 1 ELSE 0
      BY <2>1 DEF TypeOK
    <2>3. handle[i] = "running" => Known(i) = 1
      BY DEF Known
    <2>4. \A j \in Index \ {i} : stray'[j] = stray[j] /\ handle'[j] = handle[j]
      BY <2>1 DEF TypeOK
    <2> QED
      BY <1>1, <1>2, <2>2, <2>3, <2>4
  <1> QED
    BY <1>3, <1>4

LEMMA HostCounted ==
    ASSUME TypeOK, ControlOK, Counted, [Next]_vars
    PROVE  Counted'
  <1> SUFFICES ASSUME NEW j \in Index
               PROVE  stray'[j] + Known(j)' + One(MonitorTo(j))' + One(MainTo(j))'
                         + One(HandlerTo(j))' <= bounces'[j] + 1
    BY DEF Counted
  <1>1. stray[j] + Known(j) + One(MonitorTo(j)) + One(MainTo(j)) + One(HandlerTo(j))
           <= bounces[j] + 1
    BY DEF Counted
  <1>2. /\ stray[j] \in Nat /\ bounces[j] \in Int
        /\ handle[j] \in {"null", "running", "ended"}
        /\ main.i \in Index /\ monitor.i \in Index /\ control.i \in Index
    BY ServiceHostAssumption DEF TypeOK
  <1>3. /\ Index \subseteq Int
        /\ \A i \in Index : 0 <= i
    BY DEF Index
  <1>4. /\ Known(j) \in {0, 1} /\ Known(j)' \in {0, 1}
        /\ One(MonitorTo(j)) \in {0, 1} /\ One(MonitorTo(j))' \in {0, 1}
        /\ One(MainTo(j)) \in {0, 1} /\ One(MainTo(j))' \in {0, 1}
        /\ One(HandlerTo(j)) \in {0, 1} /\ One(HandlerTo(j))' \in {0, 1}
    BY DEF Known, One
  <1>5. TypeOK'
    BY HostType
  <1>6. stray'[j] \in Nat /\ bounces'[j] \in Int
    BY <1>5, ServiceHostAssumption DEF TypeOK
  <1>7. CASE ServiceMain \/ AttachProcessNames
    <2>1. UNCHANGED <<handle, stray, monitor, control, bounces>>
      BY <1>7 DEF ServiceMain, AttachProcessNames
    <2>2. MainTo(j)
      BY <1>7 DEF ServiceMain, AttachProcessNames, MainTo
    <2>3. /\ Known(j)' = Known(j) /\ One(MonitorTo(j))' = One(MonitorTo(j))
          /\ One(HandlerTo(j))' = One(HandlerTo(j)) /\ One(MainTo(j)) = 1
      BY <2>1, <2>2 DEF Known, One, MonitorTo, HandlerTo
    <2> QED
      BY <1>1, <1>2, <1>4, <2>1, <2>3
  <1>8. CASE MainReset
    <2>1. UNCHANGED <<monitor, control, bounces>>
      BY <1>8 DEF MainReset
    <2>2. MainTo(j)' => MainTo(j)
      BY <1>8 DEF MainReset, MainTo, At
    <2>3. One(MainTo(j))' <= One(MainTo(j))
      BY <2>2 DEF One
    <2>4. stray'[j] + Known(j)' <= stray[j] + Known(j)
      BY <1>2, <1>8, <2>1 DEF MainReset, Known, MonitorTo, TypeOK
    <2>5. /\ One(MonitorTo(j))' = One(MonitorTo(j))
          /\ One(HandlerTo(j))' = One(HandlerTo(j))
      BY <2>1 DEF One, MonitorTo, HandlerTo
    <2> QED
      BY <1>1, <1>2, <1>4, <1>6, <2>1, <2>3, <2>4, <2>5
  <1>9. CASE MainStart
    <2>1. UNCHANGED <<monitor, control, bounces>> /\ StartProcess(main.i)
      BY <1>9 DEF MainStart
    <2>2. /\ One(MonitorTo(j))' = One(MonitorTo(j))
          /\ One(HandlerTo(j))' = One(HandlerTo(j))
      BY <2>1 DEF One, MonitorTo, HandlerTo
    <2>3. CASE j = main.i
      <3>1. MainTo(j) /\ ~MainTo(j)'
        BY <1>2, <1>3, <1>9, <2>3 DEF MainStart, MainTo, At
      <3>2. One(MainTo(j)) = 1 /\ One(MainTo(j))' = 0
        BY <3>1 DEF One
      <3>3. stray'[j] + Known(j)' <= stray[j] + Known(j) + 1
        BY <2>1, <2>3, StartCount
      <3> QED
        BY <1>1, <1>2, <1>4, <1>6, <2>1, <2>2, <3>2, <3>3
    <2>4. CASE j # main.i
      <3>1. stray'[j] = stray[j] /\ handle'[j] = handle[j]
        BY <1>2, <2>1, <2>4, StartCount
      <3>2. Known(j)' = Known(j)
        BY <2>1, <3>1 DEF Known, MonitorTo
      <3>3. MainTo(j)' => MainTo(j)
        <4>1. main.pc = "start" /\ (main' = At("reset", main.i + 1) \/ main' = At("done", 0))
          BY <1>9 DEF MainStart
        <4>2. MainTo(j)' => main.i + 1 <= j
          BY <4>1 DEF MainTo, At
        <4>3. main.i \in Int /\ j \in Int
          BY <1>2, <1>3
        <4> QED
          BY <4>1, <4>2, <4>3 DEF MainTo
      <3>4. One(MainTo(j))' <= One(MainTo(j))
        BY <3>3 DEF One
      <3> QED
        BY <1>1, <1>2, <1>4, <2>1, <2>2, <3>1, <3>2, <3>4
    <2> QED
      BY <2>3, <2>4
  <1>10. CASE HandlerPost \/ HandlerTerminate \/ HandlerNext
    <2>1. UNCHANGED <<stray, main, monitor, bounces>>
      BY <1>10 DEF HandlerPost, HandlerTerminate, HandlerNext
    <2>2. HandlerTo(j)' => HandlerTo(j)
      BY <1>2, <1>3, <1>10
         DEF HandlerPost, HandlerTerminate, HandlerNext, HandlerTo, ControlOK, TypeOK
    <2>3. One(HandlerTo(j))' <= One(HandlerTo(j))
      BY <2>2 DEF One
    <2>4. Known(j)' <= Known(j)
      <3>1. handle'[j] = handle[j] \/ (handle[j] = "running" /\ handle'[j] = "ended")
        BY <1>2, <1>10
           DEF HandlerPost, HandlerTerminate, HandlerNext, Terminate, TypeOK
      <3> QED
        BY <1>2, <2>1, <3>1 DEF Known, MonitorTo
    <2>5. /\ One(MonitorTo(j))' = One(MonitorTo(j))
          /\ One(MainTo(j))' = One(MainTo(j))
      BY <2>1 DEF One, MonitorTo, MainTo
    <2> QED
      BY <1>1, <1>2, <1>4, <2>1, <2>3, <2>4, <2>5
  <1>11. CASE HandlerStart
    <2>1. UNCHANGED <<monitor, main, bounces>> /\ StartProcess(control.i)
      BY <1>11 DEF HandlerStart
    <2>2. /\ One(MonitorTo(j))' = One(MonitorTo(j))
          /\ One(MainTo(j))' = One(MainTo(j))
      BY <2>1 DEF One, MonitorTo, MainTo
    <2>3. /\ HandlerTo(j)' => HandlerTo(j)
          /\ j = control.i => HandlerTo(j) /\ ~HandlerTo(j)'
      BY <1>2, <1>3, <1>11 DEF HandlerStart, HandlerTo, ControlOK, Idle, TypeOK
    <2>4. CASE j = control.i
      <3>1. One(HandlerTo(j)) = 1 /\ One(HandlerTo(j))' = 0
        BY <2>3, <2>4 DEF One
      <3>2. stray'[j] + Known(j)' <= stray[j] + Known(j) + 1
        BY <2>1, <2>4, StartCount
      <3> QED
        BY <1>1, <1>2, <1>4, <1>6, <2>1, <2>2, <3>1, <3>2
    <2>5. CASE j # control.i
      <3>1. stray'[j] = stray[j] /\ handle'[j] = handle[j]
        BY <1>2, <2>1, <2>5, StartCount
      <3>2. Known(j)' = Known(j)
        BY <2>1, <3>1 DEF Known, MonitorTo
      <3>3. One(HandlerTo(j))' <= One(HandlerTo(j))
        BY <2>3 DEF One
      <3> QED
        BY <1>1, <1>2, <1>4, <2>1, <2>2, <3>1, <3>2, <3>3
    <2> QED
      BY <2>4, <2>5
  <1>12. CASE MonitorTest
    <2>1. UNCHANGED <<handle, stray, main, control, bounces>>
      BY <1>12 DEF MonitorTest
    <2>2. ~MonitorTo(j) /\ ~MonitorTo(j)'
      BY <1>12 DEF MonitorTest, MonitorTo, At
    <2>3. /\ Known(j)' = Known(j) /\ One(MonitorTo(j))' = One(MonitorTo(j))
          /\ One(MainTo(j))' = One(MainTo(j)) /\ One(HandlerTo(j))' = One(HandlerTo(j))
      BY <2>1, <2>2 DEF Known, One, MainTo, HandlerTo
    <2> QED
      BY <1>1, <2>1, <2>3
  <1>13. CASE MonitorCheck
    <2>1. UNCHANGED <<handle, stray, main, control, bounces>>
      BY <1>13 DEF MonitorCheck
    <2>2. ~MonitorTo(j)
      BY <1>13 DEF MonitorCheck, MonitorTo
    <2>3. MonitorTo(j)' => handle[j] = "ended"
      BY <1>2, <1>13 DEF MonitorCheck, MonitorTo, AfterCheck, At
    <2>4. Known(j)' + One(MonitorTo(j))' <= Known(j) + One(MonitorTo(j))
      BY <1>2, <2>1, <2>2, <2>3 DEF Known, One
    <2>5. /\ One(MainTo(j))' = One(MainTo(j))
          /\ One(HandlerTo(j))' = One(HandlerTo(j))
      BY <2>1 DEF One, MainTo, HandlerTo
    <2> QED
      BY <1>1, <1>2, <1>4, <2>1, <2>4, <2>5
  <1>14. CASE MonitorStart
    <2>1. UNCHANGED <<main, control, bounces>> /\ StartProcess(monitor.i)
      BY <1>14 DEF MonitorStart
    <2>2. /\ One(MainTo(j))' = One(MainTo(j))
          /\ One(HandlerTo(j))' = One(HandlerTo(j))
      BY <2>1 DEF One, MainTo, HandlerTo
    <2>3. ~MonitorTo(j)' /\ (j = monitor.i <=> MonitorTo(j))
      BY <1>14 DEF MonitorStart, MonitorTo, AfterCheck, At
    <2>4. CASE j = monitor.i
      <3>1. One(MonitorTo(j)) = 1 /\ One(MonitorTo(j))' = 0
        BY <2>3, <2>4 DEF One
      <3>2. stray'[j] + Known(j)' <= stray[j] + Known(j) + 1
        BY <2>1, <2>4, StartCount
      <3> QED
        BY <1>1, <1>2, <1>4, <1>6, <2>1, <2>2, <3>1, <3>2
    <2>5. CASE j # monitor.i
      <3>1. stray'[j] = stray[j] /\ handle'[j] = handle[j]
        BY <1>2, <2>1, <2>5, StartCount
      <3>2. Known(j)' = Known(j) /\ One(MonitorTo(j))' = One(MonitorTo(j))
        BY <2>3, <2>5, <3>1 DEF Known, One
      <3> QED
        BY <1>1, <2>1, <2>2, <3>1, <3>2
    <2> QED
      BY <2>4, <2>5
  <1>15. CASE Stop \/ BounceAll \/ \E i \in Index : Bounce(i)
    <2>1. UNCHANGED <<handle, stray, main, monitor>>
      BY <1>15 DEF Stop, BounceAll, Bounce
    <2>2. ~HandlerTo(j)
      BY <1>15 DEF Stop, BounceAll, Bounce, Ready, Idle, HandlerTo
    <2>3. HandlerTo(j)' => bounces'[j] = bounces[j] + 1
      BY <1>2, <1>15 DEF Stop, BounceAll, Bounce, HandlerTo, TypeOK
    <2>4. bounces[j] <= bounces'[j]
      BY <1>2, <1>15 DEF Stop, BounceAll, Bounce, TypeOK
    <2>5. One(HandlerTo(j)) = 0 /\ One(HandlerTo(j))' <= bounces'[j] - bounces[j]
      BY <1>2, <1>6, <2>2, <2>3, <2>4 DEF One
    <2>6. /\ Known(j)' = Known(j) /\ One(MonitorTo(j))' = One(MonitorTo(j))
          /\ One(MainTo(j))' = One(MainTo(j))
      BY <2>1 DEF Known, One, MonitorTo, MainTo
    <2> QED
      BY <1>1, <1>2, <1>4, <1>6, <2>1, <2>5, <2>6
  <1>16. CASE Pause \/ HostExit \/ UNCHANGED vars
    <2>1. UNCHANGED <<handle, stray, main, monitor, control, bounces>>
      BY <1>16 DEF Pause, HostExit, vars
    <2>2. /\ Known(j)' = Known(j) /\ One(MonitorTo(j))' = One(MonitorTo(j))
          /\ One(MainTo(j))' = One(MainTo(j)) /\ One(HandlerTo(j))' = One(HandlerTo(j))
      BY <2>1 DEF Known, One, MonitorTo, MainTo, HandlerTo
    <2> QED
      BY <1>1, <2>1, <2>2
  <1>17. ASSUME NEW i \in Index, ProcessEnds(i)
         PROVE  stray'[j] + Known(j)' + One(MonitorTo(j))' + One(MainTo(j))'
                   + One(HandlerTo(j))' <= bounces'[j] + 1
    <2>1. UNCHANGED <<main, monitor, control, bounces>>
      BY <1>17 DEF ProcessEnds
    <2>2. /\ stray'[j] <= stray[j]
          /\ handle'[j] = handle[j] \/ (handle[j] = "running" /\ handle'[j] = "ended")
      BY <1>2, <1>17 DEF ProcessEnds, Terminate, TypeOK
    <2>3. Known(j)' <= Known(j)
      BY <1>2, <2>1, <2>2 DEF Known, MonitorTo
    <2>4. /\ One(MonitorTo(j))' = One(MonitorTo(j))
          /\ One(MainTo(j))' = One(MainTo(j)) /\ One(HandlerTo(j))' = One(HandlerTo(j))
      BY <2>1 DEF One, MonitorTo, MainTo, HandlerTo
    <2> QED
      BY <1>1, <1>2, <1>4, <1>6, <2>1, <2>2, <2>3, <2>4
  <1> QED
    BY <1>7, <1>8, <1>9, <1>10, <1>11, <1>12, <1>13, <1>14, <1>15, <1>16, <1>17
       DEF Next, MainStep, HandlerStep, MonitorStep

-----------------------------------------------------------------------------
(* What the control to stop ends *)

\* A program that is started after the control to stop is late.
LEMMA StartLate ==
    ASSUME NEW i \in Index, StartProcess(i)
    PROVE  /\ late => late'
           /\ ~started /\ ~late' => UNCHANGED handle
  <1>1. CASE late' = (late \/ ~started)
    BY <1>1, Zenon
  <1>2. CASE UNCHANGED <<handle, stray, late>>
    BY <1>2
  <1> QED
    BY <1>1, <1>2 DEF StartProcess

LEMMA HostStopping ==
    ASSUME TypeOK, ControlOK, BeforeRunning, Stopping, [Next]_vars
    PROVE  Stopping'
  <1> USE DEF Stopping
  <1>1. /\ main.i \in Index /\ monitor.i \in Index /\ control.i \in Index
        /\ Index \subseteq Int
        /\ \A i \in Index : 0 <= i
    BY DEF TypeOK, Index
  <1>2. CASE ServiceMain \/ AttachProcessNames
    BY <1>2 DEF ServiceMain, AttachProcessNames, At
  <1>3. CASE MainReset
    <2>1. \A i \in Index : handle'[i] = "running" => handle[i] = "running"
      BY <1>3 DEF MainReset, TypeOK
    <2> QED
      BY <1>3, <2>1 DEF MainReset, At
  <1>4. CASE MainStart \/ MonitorStart
    <2>1. host /\ UNCHANGED <<host, started, control>>
      BY <1>4 DEF MainStart, MonitorStart
    <2>2. \E i \in Index : StartProcess(i)
      BY <1>1, <1>4 DEF MainStart, MonitorStart
    <2>3. ~started /\ ~late' => ~late /\ UNCHANGED handle
      BY <2>2, StartLate
    <2> QED
      BY <2>1, <2>3
  <1>5. CASE HandlerPost
    <2>1. /\ host /\ UNCHANGED <<host, started, late, handle>>
          /\ control.pc = "end"
          /\ control' = [control EXCEPT !.pc =
                            IF handle[control.i] = "null" THEN "next" ELSE "terminate"]
      BY <1>5 DEF HandlerPost
    <2>2. /\ control'.op = control.op /\ control'.i = control.i
          /\ control'.pc \in {"next", "terminate"}
          /\ control'.pc = "next" => handle[control.i] = "null"
      BY <2>1 DEF TypeOK
    <2> QED
      BY <2>1, <2>2
  <1>6. CASE HandlerTerminate
    <2>1. /\ host /\ UNCHANGED <<host, started, late>>
          /\ control' = [control EXCEPT !.pc = "next"]
      BY <1>6 DEF HandlerTerminate
    <2>2. /\ control'.op = control.op /\ control'.i = control.i
          /\ control'.pc = "next"
      BY <2>1 DEF TypeOK
    <2>3. /\ \A i \in Index : handle'[i] = "running" => handle[i] = "running"
          /\ handle'[control.i] # "running"
      BY <1>1, <1>6 DEF HandlerTerminate, Terminate, TypeOK
    <2> QED
      BY <2>1, <2>2, <2>3
  <1>7. CASE HandlerNext
    <2>1. host /\ UNCHANGED <<host, started, late, handle>> /\ control.pc = "next"
      BY <1>7 DEF HandlerNext
    <2>2. control'.op = control.op
      BY <1>7 DEF HandlerNext, TypeOK
    <2>3. control.op = "stop" =>
             \/ control.i > 0 /\ control'.pc = "end" /\ control'.i = control.i - 1
             \/ control.i = 0 /\ control'.pc = "stopped" /\ control'.i = 0
      BY <1>1, <1>7 DEF HandlerNext, TypeOK
    <2>4. control.op # "stop" => control'.pc # "stopped"
      BY <1>7 DEF HandlerNext, TypeOK
    <2>5. ASSUME NEW i \in Index, i > control.i - 1
          PROVE  i > control.i \/ i = control.i
      <3>1. i \in Int /\ control.i \in Int
        BY <1>1
      <3> QED
        BY <2>5, <3>1
    <2>6. ASSUME ~late, control.op = "stop", NEW i \in Index,
                 i > control'.i \/ (i = control'.i /\ control'.pc \in {"next", "stopped"})
          PROVE  handle[i] # "running"
      BY <2>1, <2>3, <2>5, <2>6
    <2> QED
      BY <2>1, <2>2, <2>3, <2>4, <2>6 DEF ControlOK
  <1>8. CASE HandlerStart
    <2>1. control.op # "stop"
      BY <1>8 DEF HandlerStart, ControlOK
    <2>2. control'.op # "stop" /\ control'.pc # "stopped"
      BY <1>8, <2>1 DEF HandlerStart, Idle, TypeOK
    <2> QED
      BY <1>8, <2>1, <2>2 DEF HandlerStart
  <1>9. CASE MonitorTest \/ MonitorCheck
    BY <1>9 DEF MonitorTest, MonitorCheck
  <1>10. CASE Stop
    <2>1. /\ host' /\ ~started' /\ UNCHANGED <<late, handle>>
          /\ control' = [op |-> "stop", pc |-> "end", i |-> NumProcess - 1]
      BY <1>10 DEF Stop, Ready
    <2>2. \A i \in Index : ~(i > NumProcess - 1)
      BY ServiceHostAssumption DEF Index
    <2> QED
      BY <2>1, <2>2
  <1>11. CASE BounceAll \/ \E i \in Index : Bounce(i)
    <2>1. /\ host /\ host' /\ control.op = "none" /\ UNCHANGED started
          /\ control'.op \in {"bounce", "all"} /\ control'.pc = "end"
      BY <1>11 DEF BounceAll, Bounce, Ready, Idle
    <2> QED
      BY <2>1
  <1>12. CASE Pause \/ HostExit \/ UNCHANGED vars
    BY <1>12 DEF Pause, HostExit, vars
  <1>13. ASSUME NEW i \in Index, ProcessEnds(i)
         PROVE  Stopping'
    <2>1. \A k \in Index : handle'[k] = "running" => handle[k] = "running"
      BY <1>13 DEF ProcessEnds, Terminate, TypeOK
    <2> QED
      BY <1>13, <2>1 DEF ProcessEnds
  <1> QED
    BY <1>2, <1>3, <1>4, <1>5, <1>6, <1>7, <1>8, <1>9, <1>10, <1>11, <1>12, <1>13
       DEF Next, MainStep, HandlerStep, MonitorStep

-----------------------------------------------------------------------------
LEMMA HostInvariant == Spec => []HostInv
  <1>1. HostInv /\ [Next]_vars => HostInv'
    BY HostType, HostControl, HostBefore, HostCounted, HostStopping DEF HostInv
  <1> QED
    BY HostInit, <1>1, PTL DEF Spec

\* Type correctness of the service host
THEOREM HostTypeCorrect == Spec => []TypeOK
  <1>1. HostInv => TypeOK
    BY DEF HostInv
  <1> QED
    BY HostInvariant, <1>1, PTL

\* However the three threads interleave: at most one process of each program,
\* and one for each time it was bounced.
THEOREM FewRunningTheorem == Spec => []FewRunning
  <1>1. HostInv => FewRunning
    <2> SUFFICES ASSUME HostInv, NEW i \in Index
                 PROVE  stray[i] + (IF handle[i] = "running" THEN 1 ELSE 0)
                           <= bounces[i] + 1
      BY DEF FewRunning
    <2>1. stray[i] + Known(i) + One(MonitorTo(i)) + One(MainTo(i)) + One(HandlerTo(i))
             <= bounces[i] + 1
      BY DEF HostInv, Counted
    <2>2. stray[i] \in Nat /\ bounces[i] \in Int
      BY ServiceHostAssumption DEF HostInv, TypeOK
    <2>3. /\ One(MonitorTo(i)) \in {0, 1} /\ One(MainTo(i)) \in {0, 1}
          /\ One(HandlerTo(i)) \in {0, 1} /\ Known(i) \in {0, 1}
          /\ handle[i] = "running" => Known(i) = 1
      BY DEF One, Known
    <2> QED
      BY <2>1, <2>2, <2>3
  <1> QED
    BY HostInvariant, <1>1, PTL

\* The control to stop ends every program, if none is started after it.
THEOREM StopEndsAllTheorem == Spec => []StopEndsAll
  <1>1. HostInv => StopEndsAll
    <2> SUFFICES ASSUME HostInv, ~host, ~late, NEW i \in Index
                 PROVE  handle[i] # "running"
      BY DEF StopEndsAll
    <2>1. CASE control.pc = "stopped"
      <3>1. control.op = "stop" /\ control.i = 0
        BY <2>1 DEF HostInv, ControlOK, Stopping, TypeOK
      <3>2. i > 0 \/ i = 0
        BY DEF Index
      <3> QED
        BY <2>1, <3>1, <3>2 DEF HostInv, Stopping
    <2>2. CASE main.pc = "wait"
      BY <2>2 DEF HostInv, BeforeRunning
    <2> QED
      BY <2>1, <2>2 DEF HostInv, Stopping
  <1> QED
    BY HostInvariant, <1>1, PTL
=============================================================================
