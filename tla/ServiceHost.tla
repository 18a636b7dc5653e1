----------------------------- MODULE ServiceHost -----------------------------
(***************************************************************************)
(* The service host of StatSimSvc.h, which runs a few programs and starts  *)
(* again those that end.                                                   *)
(*                                                                         *)
(* Three threads share pProcInfo and take no lock: ServiceMain starts the  *)
(* programs, ServiceHandler is called with the controls, one at a time,    *)
(* and ProcMonitorThread watches. An action is what a thread does between  *)
(* two accesses to the shared state. A program is a process, or several:   *)
(* one that is started takes the place of the handle of the one before.    *)
(***************************************************************************)
EXTENDS Integers

CONSTANTS
    NumProcess,  \* MAX_NUM_OF_PROCESS
    MaxBounces   \* bound on how often a program is bounced

ASSUME ServiceHostAssumption ==
    /\ NumProcess \in Nat \ {0}
    /\ MaxBounces \in Nat

VARIABLES
    host,     \* the host's own process exists
    started,  \* ProcessStarted
    status,   \* ServiceStatus.dwCurrentState
    names,    \* ProcessNames[i]: "null", "set", "freed"
    handle,   \* pProcInfo[i].hProcess: "null", or that of a process that is
              \* "running" or has "ended"
    stray,    \* how many processes run that pProcInfo[i] does not know any more
    main,     \* where ServiceMain is
    monitor,  \* where ProcMonitorThread is
    control,  \* where ServiceHandler is
    bounces,  \* how often each program was to be bounced (history)
    late      \* a program was started after the control to stop (history)

vars == <<host, started, status, names, handle, stray, main, monitor, control,
          bounces, late>>

Index == 0..(NumProcess - 1)

At(pc, i) == [pc |-> pc, i |-> i]
Idle == [op |-> "none", pc |-> "none", i |-> 0]

Init ==
    /\ host = TRUE /\ started = TRUE
    /\ status = "pending"
    /\ names = [i \in Index |-> "null"]
    /\ handle = [i \in Index |-> "null"]
    /\ stray = [i \in Index |-> 0]
    /\ main = At("wait", 0)
    /\ monitor \in {At("test", 0), At("none", 0)}  \* _beginthread may fail
    /\ control = Idle
    /\ bounces = [i \in Index |-> 0]
    /\ late = FALSE

-----------------------------------------------------------------------------
(* StartProcess, EndProcess *)

\* A handle that is overwritten is lost. CreateProcess may fail, and does with a
\* name that is not there yet; with one that was freed it does either.
StartProcess(i) ==
    \/ /\ names[i] # "null"
       /\ handle' = [handle EXCEPT ![i] = "running"]
       /\ stray' = [stray EXCEPT ![i] = @ + IF handle[i] = "running" THEN 1 ELSE 0]
       /\ late' = (late \/ ~started)
    \/ UNCHANGED <<handle, stray, late>>

\* TerminateProcess, with the handle that is there after the message to quit was
\* posted and one second has passed.
Terminate(i) ==
    handle' = [handle EXCEPT ![i] = IF @ = "running" THEN "ended" ELSE @]

-----------------------------------------------------------------------------
(* ServiceMain *)

\* Up to RUNNING; it returns at once if it cannot register its handler.
ServiceMain ==
    /\ host /\ main.pc = "wait"
    /\ \/ main' = At("names", 0) /\ status' = "running"
       \/ main' = At("done", 0) /\ status' = status
    /\ UNCHANGED <<host, started, names, handle, stray, monitor, control, bounces,
                   late>>

AttachProcessNames ==
    /\ host /\ main.pc = "names"
    /\ names' = [i \in Index |-> "set"]
    /\ main' = At("reset", 0)
    /\ UNCHANGED <<host, started, status, handle, stray, monitor, control, bounces,
                   late>>

\* pProcInfo[iLoop].hProcess = 0
MainReset ==
    /\ host /\ main.pc = "reset"
    /\ handle' = [handle EXCEPT ![main.i] = "null"]
    /\ stray' = [stray EXCEPT ![main.i] =
                    @ + IF handle[main.i] = "running" THEN 1 ELSE 0]
    /\ main' = At("start", main.i)
    /\ UNCHANGED <<host, started, status, names, monitor, control, bounces, late>>

\* Mutant: every program is started twice, before the loop and in it.
M_MainStart ==
    /\ host /\ main.pc \in {"reset", "start"}
    /\ StartProcess(main.i)
    /\ main' = IF main.pc = "reset" THEN At("start", main.i)
               ELSE IF main.i < NumProcess - 1 THEN At("reset", main.i + 1)
                                          ELSE At("done", 0)
    /\ UNCHANGED <<host, started, status, names, monitor, control, bounces>>

MainStart ==
    /\ host /\ main.pc = "start"
    /\ StartProcess(main.i)
    /\ main' = IF main.i < NumProcess - 1 THEN At("reset", main.i + 1)
                                          ELSE At("done", 0)
    /\ UNCHANGED <<host, started, status, names, monitor, control, bounces>>

-----------------------------------------------------------------------------
(* ServiceHandler *)

\* A control comes when the service runs, and when the one before has returned.
Ready == host /\ control = Idle /\ status \in {"running", "paused"}

Stop ==
    /\ Ready
    /\ started' = FALSE
    /\ status' = "stopped"
    /\ control' = [op |-> "stop", pc |-> "end", i |-> NumProcess - 1]
    /\ UNCHANGED <<host, names, handle, stray, main, monitor, bounces, late>>

\* SERVICE_CONTROL_PAUSE and _CONTINUE
Pause ==
    /\ Ready
    /\ status' \in {"running", "paused"}
    /\ UNCHANGED <<host, started, names, handle, stray, main, monitor, control,
                   bounces, late>>

Bounce(i) ==
    /\ Ready
    /\ bounces[i] < MaxBounces
    /\ bounces' = [bounces EXCEPT ![i] = @ + 1]
    /\ control' = [op |-> "bounce", pc |-> "end", i |-> i]
    /\ UNCHANGED <<host, started, status, names, handle, stray, main, monitor, late>>

BounceAll ==
    /\ Ready
    /\ \A i \in Index : bounces[i] < MaxBounces
    /\ bounces' = [i \in Index |-> bounces[i] + 1]
    /\ control' = [op |-> "all", pc |-> "end", i |-> NumProcess - 1]
    /\ UNCHANGED <<host, started, status, names, handle, stray, main, monitor, late>>

\* EndProcess up to its Sleep; nothing is done without a handle.
HandlerPost ==
    /\ host /\ control.pc = "end"
    /\ control' = [control EXCEPT !.pc =
                      IF handle[control.i] = "null" THEN "next" ELSE "terminate"]
    /\ UNCHANGED <<host, started, status, names, handle, stray, main, monitor,
                   bounces, late>>

HandlerTerminate ==
    /\ host /\ control.pc = "terminate"
    /\ Terminate(control.i)
    /\ control' = [control EXCEPT !.pc = "next"]
    /\ UNCHANGED <<host, started, status, names, stray, main, monitor, bounces, late>>

\* Mutant: the first program is left out of the loops.
M_HandlerNext ==
    /\ host /\ control.pc = "next"
    /\ names' = IF control.op = "stop" THEN [names EXCEPT ![control.i] = "freed"]
                                       ELSE names
    /\ control' = IF control.op # "bounce" /\ control.i > 1
                  THEN [control EXCEPT !.pc = "end", !.i = @ - 1]
                  ELSE IF control.op = "stop" THEN [control EXCEPT !.pc = "stopped"]
                                              ELSE [control EXCEPT !.pc = "start"]
    /\ UNCHANGED <<host, started, status, handle, stray, main, monitor, bounces, late>>

\* Mutant: the index is unsigned, so the loops do not end.
M_HandlerNextUnsigned ==
    /\ host /\ control.pc = "next"
    /\ names' = IF control.op = "stop" THEN [names EXCEPT ![control.i] = "freed"]
                                       ELSE names
    /\ control' = IF control.op # "bounce"
                  THEN [control EXCEPT !.pc = "end",
                                       !.i = (@ + NumProcess - 1) % NumProcess]
                  ELSE [control EXCEPT !.pc = "start"]
    /\ UNCHANGED <<host, started, status, handle, stray, main, monitor, bounces, late>>

\* EndProcess has returned; delete ProcessNames[i] is part of the loop that stops.
HandlerNext ==
    /\ host /\ control.pc = "next"
    /\ names' = IF control.op = "stop" THEN [names EXCEPT ![control.i] = "freed"]
                                       ELSE names
    /\ control' = IF control.op # "bounce" /\ control.i > 0
                  THEN [control EXCEPT !.pc = "end", !.i = @ - 1]
                  ELSE IF control.op = "stop" THEN [control EXCEPT !.pc = "stopped"]
                                              ELSE [control EXCEPT !.pc = "start"]
    /\ UNCHANGED <<host, started, status, handle, stray, main, monitor, bounces, late>>

\* Mutant: the loop that starts all goes one program too far.
M_HandlerStart ==
    /\ host /\ control.pc = "start"
    /\ StartProcess(control.i)
    /\ control' = IF control.op = "all" /\ control.i <= NumProcess - 1
                  THEN [control EXCEPT !.i = @ + 1]
                  ELSE Idle
    /\ UNCHANGED <<host, started, status, names, main, monitor, bounces>>

HandlerStart ==
    /\ host /\ control.pc = "start"
    /\ StartProcess(control.i)
    /\ control' = IF control.op = "all" /\ control.i < NumProcess - 1
                  THEN [control EXCEPT !.i = @ + 1]
                  ELSE Idle
    /\ UNCHANGED <<host, started, status, names, main, monitor, bounces>>

\* SERVICE_STOPPED is set, StartServiceCtrlDispatcher returns, and the process
\* of the host ends with all of its threads. It also returns when it fails,
\* before ServiceMain is called.
HostExit ==
    /\ host
    /\ control.pc = "stopped" \/ main.pc = "wait"
    /\ host' = FALSE
    /\ UNCHANGED <<started, status, names, handle, stray, main, monitor, control,
                   bounces, late>>

-----------------------------------------------------------------------------
(* ProcMonitorThread *)

MonitorTest ==
    /\ host /\ monitor.pc = "test"
    /\ monitor' = IF started THEN At("check", 0) ELSE At("done", 0)
    /\ UNCHANGED <<host, started, status, names, handle, stray, main, control,
                   bounces, late>>

\* Mutant: the last program is not looked at.
M_AfterCheck(i) == IF i < NumProcess - 2 THEN At("check", i + 1) ELSE At("test", 0)

AfterCheck(i) == IF i < NumProcess - 1 THEN At("check", i + 1) ELSE At("test", 0)

\* GetExitCodeProcess(pProcInfo[iLoop].hProcess, &dwCode), not STILL_ACTIVE
MonitorCheck ==
    /\ host /\ monitor.pc = "check"
    /\ monitor' = IF handle[monitor.i] = "ended" THEN At("start", monitor.i)
                  ELSE AfterCheck(monitor.i)
    /\ UNCHANGED <<host, started, status, names, handle, stray, main, control,
                   bounces, late>>

MonitorStart ==
    /\ host /\ monitor.pc = "start"
    /\ StartProcess(monitor.i)
    /\ monitor' = AfterCheck(monitor.i)
    /\ UNCHANGED <<host, started, status, names, main, control, bounces>>

-----------------------------------------------------------------------------
(* The processes: one may end at any time, by itself or by the message to quit *)

ProcessEnds(i) ==
    /\ \/ handle[i] = "running" /\ Terminate(i) /\ stray' = stray
       \/ stray[i] > 0 /\ stray' = [stray EXCEPT ![i] = @ - 1] /\ handle' = handle
    /\ UNCHANGED <<host, started, status, names, main, monitor, control, bounces,
                   late>>

-----------------------------------------------------------------------------
MainStep == ServiceMain \/ AttachProcessNames \/ MainReset \/ MainStart
HandlerStep == HandlerPost \/ HandlerTerminate \/ HandlerNext \/ HandlerStart
MonitorStep == MonitorTest \/ MonitorCheck \/ MonitorStart

Next ==
    \/ MainStep \/ HandlerStep \/ MonitorStep
    \/ Stop \/ Pause \/ BounceAll
    \/ HostExit
    \/ \E i \in Index : Bounce(i) \/ ProcessEnds(i)

\* Each thread goes on, and the process of the host ends when main returns.
Fairness ==
    /\ WF_vars(MainStep) /\ WF_vars(HandlerStep) /\ WF_vars(MonitorStep)
    /\ WF_vars(HostExit /\ control.pc = "stopped")

Spec == Init /\ [][Next]_vars /\ Fairness

-----------------------------------------------------------------------------
(* Properties *)

TypeOK ==
    /\ host \in BOOLEAN /\ started \in BOOLEAN /\ late \in BOOLEAN
    /\ status \in {"pending", "running", "paused", "stopped"}
    /\ names \in [Index -> {"null", "set", "freed"}]
    /\ handle \in [Index -> {"null", "running", "ended"}]
    /\ stray \in [Index -> Nat]
    /\ main \in [pc : {"wait", "names", "reset", "start", "done"}, i : Index]
    /\ monitor \in [pc : {"none", "test", "check", "start", "done"}, i : Index]
    /\ control \in [op : {"none", "stop", "bounce", "all"},
                    pc : {"none", "end", "terminate", "next", "start", "stopped"},
                    i : Index]
    /\ bounces \in [Index -> 0..MaxBounces]

\* "bounce a single process": however ServiceMain, the handler and the monitor
\* interleave, at most one process of a program runs, and one more for each time
\* the program was bounced.
FewRunning ==
    \A i \in Index :
        stray[i] + (IF handle[i] = "running" THEN 1 ELSE 0) <= bounces[i] + 1

\* "terminate all processes started by this service before shutdown": when the
\* host is gone none of those it knows of runs, unless the monitor, or ServiceMain,
\* started one after the control to stop.
StopEndsAll == ~host /\ ~late => \A i \in Index : handle[i] # "running"

\* While the service runs, a program that ended is started again, if CreateProcess
\* can: the monitor comes to it wherever it was, whatever else is going on.
EndedIsRestarted ==
    \A i \in Index :
        handle[i] = "ended" /\ monitor.pc # "none"
            ~> handle[i] # "ended" \/ ~started \/ monitor = At("start", i)

\* A service that is told to stop stops.
StopCompletes == status = "stopped" ~> ~host
=============================================================================
