----------------------------- MODULE HostLifecycle -----------------------------
(***************************************************************************)
(* Start and stop of an Admin process: its hosted services start together, *)
(* StartupBackgroundService initializes the rest, the loops of             *)
(* TelemetryService and QueuedHostedService wait for that, and the host    *)
(* stops all three in reverse order.  From Shared/Services/                *)
(* StartupHealthCheck.cs and TaskQueuingService.cs, Admin/Services/        *)
(* StartupBackgroundService.cs and Telemetry.cs.  External: the host, its  *)
(* BackgroundService and CancellationTokenSource, whose Cancel may run     *)
(* what waits for the token before it returns.                             *)
(***************************************************************************)
EXTENDS Integers, Sequences, Functions

VARIABLES
    startup,          \* where StartupBackgroundService is
    startupCompleted, \* StartupHealthCheck.StartupCompleted
    noticed,          \* whether its CancellationTokenSource is cancelled
    loop,             \* where each loop is
    stopping,         \* whether ApplicationStopping is signalled
    stopped,          \* how many services the host has asked to stop
    inline,           \* the loops that run within the host's call of Cancel
    exited            \* whether the process has ended

startupVars == <<startup, startupCompleted, noticed>>
hostVars == <<stopping, stopped, inline, exited>>
vars == <<startupVars, loop, hostVars>>

\* The hosted services in the order of their registration.
Services == <<"StartupBackgroundService", "TelemetryService", "QueuedHostedService">>
Loops == Range(Tail(Services))

\* The host stops the last one first.
StopOrder == <<"QueuedHostedService", "TelemetryService", "StartupBackgroundService">>

Init ==
    /\ startup = "initializing" /\ startupCompleted = FALSE /\ noticed = FALSE
    /\ loop = [l \in Loops |-> "top"]
    /\ stopping = FALSE /\ stopped = 0 /\ inline = {} /\ exited = FALSE

\* stoppingToken of a service.
StoppingToken(s) == \E i \in 1 .. stopped : StopOrder[i] = s

-------------------------------------------------------------------------------
(* StartupBackgroundService *)

Initialized ==
    /\ ~exited /\ startup = "initializing"
    /\ startup' = "completed" /\ startupCompleted' = TRUE
    /\ UNCHANGED <<noticed, loop, hostVars>>

\* Mutant: the loops are left to their timers.
CancelAsync_Forgotten ==
    /\ ~exited /\ startup = "completed"
    /\ startup' = "ended"
    /\ UNCHANGED <<startupCompleted, noticed, loop, hostVars>>

CancelAsync ==
    /\ ~exited /\ startup = "completed"
    /\ startup' = "ended" /\ noticed' = TRUE
    /\ UNCHANGED <<startupCompleted, loop, hostVars>>

\* Initialize throws: the process is to stop.
InitializeFails ==
    /\ ~exited /\ startup = "initializing"
    /\ startup' = "ended" /\ stopping' = TRUE
    /\ UNCHANGED <<startupCompleted, noticed, loop, stopped, inline, exited>>

-------------------------------------------------------------------------------
(* The loops *)

\* A loop that ends lets the call of Cancel return that it runs in.
Goes(l, pc) ==
    /\ ~exited
    /\ loop' = [loop EXCEPT ![l] = pc]
    /\ inline' = IF pc = "ended" THEN inline \ {l} ELSE inline
    /\ UNCHANGED <<startupVars, stopping, stopped, exited>>

\* Mutant: the loop does not test its token.
Top_Forever(l) == loop[l] = "top" /\ Goes(l, "waiting")

\* while (!stoppingToken.IsCancellationRequested)
Top(l) == loop[l] = "top" /\ Goes(l, IF StoppingToken(l) THEN "ended" ELSE "waiting")

\* WaitUntilReady: while (!StartupCompleted)
IsReady(l) == loop[l] = "waiting" /\ Goes(l, IF startupCompleted THEN "working" ELSE "delay")

\* The linked token is cancelled, or was when the delay began.
Cancelled(l) == StoppingToken(l) \/ noticed

DelayCancelled(l) == loop[l] = "delay" /\ Cancelled(l) /\ Goes(l, "waiting")

\* Five minutes have passed.
DelayPasses(l) == loop[l] = "delay" /\ ~Cancelled(l) /\ Goes(l, "waiting")

\* Dequeue, a task or the delay between two measurements throws
\* OperationCanceledException.
WorkCancelled(l) == loop[l] = "working" /\ StoppingToken(l) /\ Goes(l, "top")

\* A task has run or thrown, or it is time for another measurement.
WorkDone(l) == loop[l] = "working" /\ ~StoppingToken(l) /\ Goes(l, "top")

-------------------------------------------------------------------------------
(* The host *)

\* SIGTERM
StopApplication ==
    /\ ~exited /\ ~stopping /\ stopping' = TRUE
    /\ UNCHANGED <<startupVars, loop, stopped, inline, exited>>

Ended(s) == IF s \in Loops THEN loop[s] = "ended" ELSE startup = "ended"

\* Cancels the next service's token, and may run the loop that waits for it.
StopNext ==
    /\ ~exited /\ stopped' = stopped + 1
    /\ inline' = {} \/ inline' = {l \in {StopOrder[stopped + 1]} \intersect Loops : loop[l] = "delay"}
    /\ UNCHANGED <<startupVars, loop, stopping, exited>>

\* StopAsync: the service before has ended.
StopAsync ==
    /\ stopping /\ stopped < Len(StopOrder) /\ inline = {}
    /\ stopped > 0 => Ended(StopOrder[stopped])
    /\ StopNext

\* ShutdownTimeout is over, which is seen between two calls of Cancel only.
StopAsyncGivesUp ==
    /\ stopped \in 1 .. Len(StopOrder) - 1 /\ inline = {}
    /\ ~Ended(StopOrder[stopped])
    /\ StopNext

Exits ==
    /\ exited' = TRUE
    /\ UNCHANGED <<startupVars, loop, stopping, stopped, inline>>

Exit ==
    /\ ~exited /\ stopped = Len(StopOrder) /\ inline = {}
    /\ \A i \in 1 .. Len(StopOrder) : Ended(StopOrder[i])
    /\ Exits

\* Not all services have ended at ShutdownTimeout.
ExitGivesUp ==
    /\ ~exited /\ stopped = Len(StopOrder) /\ inline = {}
    /\ \E i \in 1 .. Len(StopOrder) : ~Ended(StopOrder[i])
    /\ Exits

LoopStep(l) ==
    Top(l) \/ IsReady(l) \/ DelayCancelled(l) \/ WorkCancelled(l)

Next ==
    \/ Initialized \/ CancelAsync \/ InitializeFails
    \/ \E l \in Loops : LoopStep(l) \/ DelayPasses(l) \/ WorkDone(l)
    \/ StopApplication \/ StopAsync \/ StopAsyncGivesUp \/ Exit \/ ExitGivesUp

Spec == Init /\ [][Next]_vars

\* What is ready to run runs; nothing is assumed of timers, of Initialize or of
\* ShutdownTimeout.
Fairness ==
    /\ WF_vars(CancelAsync)
    /\ \A l \in Loops : WF_vars(LoopStep(l))
    /\ WF_vars(StopAsync) /\ WF_vars(Exit)

FairSpec == Spec /\ Fairness

-------------------------------------------------------------------------------
(* Properties *)

\* Every variable has its type.
TypeOK ==
    /\ startup \in {"initializing", "completed", "ended"}
    /\ {startupCompleted, noticed, stopping, exited} \subseteq BOOLEAN
    /\ loop \in [Loops -> {"top", "waiting", "delay", "working", "ended"}]
    /\ stopped \in 0 .. Len(StopOrder) /\ inline \subseteq Loops

\* Once startup is complete the loops go to work, or end with the process, without
\* their timers of five minutes: no wake-up falls between the test and the delay.
ReadyIsNoticed ==
    \A l \in Loops :
        startupCompleted /\ loop[l] \in {"waiting", "delay"}
        ~> loop[l] \notin {"waiting", "delay"} \/ exited

\* A process that was ready stops in the end with all services ended and no need of
\* ShutdownTimeout, also when it is told to stop while startup completes.  (When
\* startup fails the loops that wait never end: WaitUntilReady tests
\* StartupCompleted and not the token.)
StopsOnceReady == stopping /\ startupCompleted ~> exited
===============================================================================
