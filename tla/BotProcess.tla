----------------------------- MODULE BotProcess -----------------------------
(***************************************************************************)
(* The life of the bot's process (main.py): start-up, the watchdog of the  *)
(* polling connection, FatalPollingDetector, the signal handler and        *)
(* stop(), composed with the cluster probe that start() and stop() manage. *)
(* The container starts a new process when one exits.                      *)
(*                                                                         *)
(* The main coroutine and the tasks a signal starts interleave at their    *)
(* awaits; an action is what one of them does in between.  Time is counted *)
(* in the five minutes between two checks of the watchdog.                 *)
(*                                                                         *)
(* External, from its use and its contract: python-telegram-bot, whose     *)
(* Updater.stop raises unless it is running and whose start_polling        *)
(* returns also when the new connection hears nothing.                     *)
(***************************************************************************)
EXTENDS ClusterProbe

CONSTANTS
    RestartAfter,   \* checks without an update until polling is restarted: 6
    ExitAfter,      \* checks without an update until the process exits: 18
    WedgeThreshold  \* POOL_WEDGE_THRESHOLD

ASSUME ProcessAssumption ==
    /\ RestartAfter \in Nat \ {0} /\ ExitAfter \in Nat
    /\ RestartAfter < ExitAfter
    /\ WedgeThreshold \in Nat \ {0}

VARIABLES
    main,           \* where main() is; "down" when there is no process
    stop,           \* stop[c]: where the stop() called by c is
    built,          \* self.application exists
    polling,        \* updater.running
    deaf,           \* the polling connection hears nothing, and says nothing
    idle,           \* checks since last_update_time
    restarts,       \* polling_restarts
    hits,           \* len(_wedge_hits)
    alive,          \* health: bot_alive
    executor,       \* the pool of Holmes threads accepts work
    signalled       \* SIGTERM or SIGINT was received

processVars == <<main, stop, built, polling, deaf, idle, restarts, hits, alive,
                 executor, signalled>>
vars == <<processVars, probeVars>>

(* stop() is called by the signal handler and by main()'s finally.         *)
Caller == {"signal", "finally"}

TypeOK ==
    /\ ProbeTypeOK
    /\ main \in {"init", "starting", "loop", "restarting", "final", "down"}
    /\ stop \in [Caller -> {"uncalled", "application", "services", "probe",
                            "executor", "ended"}]
    /\ {built, polling, deaf, alive, executor, signalled} \subseteq BOOLEAN
    /\ idle \in 0 .. ExitAfter
    /\ restarts \in 0 .. ExitAfter
    /\ hits \in 0 .. WedgeThreshold - 1

Init ==
    /\ main = "init"
    /\ stop = [c \in Caller |-> "uncalled"]
    /\ built = FALSE /\ polling = FALSE /\ deaf = FALSE
    /\ idle = 0 /\ restarts = 0 /\ hits = 0
    /\ alive = TRUE /\ executor = TRUE
    /\ signalled = FALSE
    /\ ProbeInit

----------------------------------------------------------------------------
(* Start-up. *)

(* initialize() is over: a failure of memory or consolidator is survived,  *)
(* any other one ends main() through its finally.                          *)
Initialize ==
    /\ main = "init"
    /\ \/ main' = "starting" /\ built' = TRUE
       \/ main' = "final" /\ UNCHANGED built
    /\ UNCHANGED <<stop, polling, deaf, idle, restarts, hits, alive, executor,
                   signalled, probeVars>>

(* start(): polling begins and the probe task is created.                  *)
Start ==
    /\ main = "starting"
    /\ polling' = TRUE /\ alive' = TRUE /\ idle' = 0
    /\ main' = "loop"
    /\ ProbeStart
    /\ UNCHANGED <<stop, built, deaf, restarts, hits, executor, signalled>>

StartFails ==
    /\ main = "starting"
    /\ main' = "final"
    /\ UNCHANGED <<stop, built, polling, deaf, idle, restarts, hits, alive,
                   executor, signalled, probeVars>>

----------------------------------------------------------------------------
(* The polling connection. *)

(* _update_tracker sees every message, before any other handler.           *)
Update ==
    /\ polling /\ ~deaf
    /\ idle' = 0 /\ restarts' = 0
    /\ UNCHANGED <<main, stop, built, polling, deaf, hits, alive, executor,
                   signalled, probeVars>>

GoDeaf ==
    /\ polling /\ ~deaf
    /\ deaf' = TRUE
    /\ UNCHANGED <<main, stop, built, polling, idle, restarts, hits, alive,
                   executor, signalled, probeVars>>

(* The process ends; what it keeps in memory is gone.                      *)
Dies ==
    /\ main' = "down"
    /\ stop' = [c \in Caller |-> "uncalled"]
    /\ built' = FALSE /\ polling' = FALSE /\ deaf' = FALSE
    /\ idle' = 0 /\ restarts' = 0 /\ hits' = 0
    /\ alive' = FALSE /\ executor' = FALSE
    /\ Vanish
    /\ UNCHANGED signalled

(* FatalPollingDetector: a certificate error ends the process at once, a   *)
(* pool error when enough of them fell into the window; older hits drop    *)
(* out of it first.                                                        *)
CertificateError == polling /\ Dies

PoolError ==
    /\ polling
    /\ \E recent \in 0 .. hits :
          IF recent + 1 >= WedgeThreshold
          THEN Dies
          ELSE /\ hits' = recent + 1
               /\ UNCHANGED <<main, stop, built, polling, deaf, idle, restarts,
                              alive, executor, signalled, probeVars>>

(* Killed from outside, or out of memory.                                  *)
Crash == main # "down" /\ Dies

----------------------------------------------------------------------------
(* The watchdog. *)

(* An updater that is stopped already is restarted like a running one.     *)
WrongCheck ==
    /\ main = "loop"
    /\ idle' = idle + 1
    /\ IF idle' >= ExitAfter
       THEN main' = "final" /\ UNCHANGED <<restarts, polling>>
       ELSE IF idle' >= RestartAfter
       THEN /\ restarts' = restarts + 1
            /\ main' = "restarting"
            /\ polling' = FALSE
       ELSE UNCHANGED <<main, restarts, polling>>
    /\ UNCHANGED <<stop, built, deaf, hits, alive, executor, signalled,
                   probeVars>>

(* The five-minute check of main(): long silence ends the process, shorter *)
(* silence stops the updater, which raises, and so ends the process, when  *)
(* the updater was stopped already.                                        *)
Check ==
    /\ main = "loop"
    /\ idle' = idle + 1
    /\ IF idle' >= ExitAfter
       THEN main' = "final" /\ UNCHANGED <<restarts, polling>>
       ELSE IF idle' >= RestartAfter
       THEN /\ restarts' = restarts + 1
            /\ main' = IF polling THEN "restarting" ELSE "final"
            /\ polling' = FALSE
       ELSE UNCHANGED <<main, restarts, polling>>
    /\ UNCHANGED <<stop, built, deaf, hits, alive, executor, signalled,
                   probeVars>>

(* A restart is taken for an update: the clock starts again.               *)
WrongRestartPolling ==
    /\ main = "restarting"
    /\ main' = "loop" /\ polling' = TRUE /\ deaf' \in {FALSE, deaf}
    /\ idle' = 0 /\ restarts' = 0
    /\ UNCHANGED <<stop, built, hits, alive, executor, signalled, probeVars>>

(* After its sleep of two seconds: polling starts again, cured or not.     *)
RestartPolling ==
    /\ main = "restarting"
    /\ \/ main' = "loop" /\ polling' = TRUE /\ deaf' \in {FALSE, deaf}
       \/ main' = "final" /\ UNCHANGED <<polling, deaf>>
    /\ UNCHANGED <<stop, built, idle, restarts, hits, alive, executor,
                   signalled, probeVars>>

(* Updates fetched before the restart are still handled during it.         *)
LateUpdate ==
    /\ main = "restarting" /\ ~deaf
    /\ idle' = 0 /\ restarts' = 0
    /\ UNCHANGED <<main, stop, built, polling, deaf, hits, alive, executor,
                   signalled, probeVars>>

----------------------------------------------------------------------------
(* stop(). *)

(* Its first await is Updater.stop, which raises unless polling runs: the  *)
(* rest is then skipped.  Without an application there is nothing to stop  *)
(* first.                                                                  *)
StopBegins(c) ==
    /\ alive' = FALSE
    /\ polling' = FALSE
    /\ stop' = [stop EXCEPT ![c] = IF ~built THEN "services"
                                   ELSE IF polling THEN "application"
                                   ELSE "ended"]
    /\ UNCHANGED <<built, deaf, idle, restarts, hits, executor, probeVars>>

(* The signal handler starts stop() in a task and leaves main() alone.     *)
Signal ==
    /\ main # "down" /\ stop["signal"] = "uncalled"
    /\ StopBegins("signal")
    /\ signalled' = TRUE
    /\ UNCHANGED main

Finally ==
    /\ main = "final" /\ stop["finally"] = "uncalled"
    /\ StopBegins("finally")
    /\ UNCHANGED <<main, signalled>>

StopApplication(c) ==
    /\ stop[c] = "application"
    /\ stop' = [stop EXCEPT ![c] = "services"]
    /\ UNCHANGED <<main, built, polling, deaf, idle, restarts, hits, alive,
                   executor, signalled, probeVars>>

(* Holmes, file sender, memory, consolidator and fact cache.               *)
StopServices(c) ==
    /\ stop[c] = "services"
    /\ stop' = [stop EXCEPT ![c] = "probe"]
    /\ UNCHANGED <<main, built, polling, deaf, idle, restarts, hits, alive,
                   executor, signalled, probeVars>>

(* cluster_probe_service.stop cancels the task, if there is one.           *)
StopProbe(c) ==
    /\ stop[c] = "probe"
    /\ stop' = [stop EXCEPT ![c] = "executor"]
    /\ IF task = "none" THEN UNCHANGED probeVars ELSE Cancel
    /\ UNCHANGED <<main, built, polling, deaf, idle, restarts, hits, alive,
                   executor, signalled>>

(* The executor waits for its threads, MongoDB is closed.                  *)
StopExecutor(c) ==
    /\ stop[c] = "executor"
    /\ stop' = [stop EXCEPT ![c] = "ended"]
    /\ executor' = FALSE
    /\ UNCHANGED <<main, built, polling, deaf, idle, restarts, hits, alive,
                   signalled, probeVars>>

Exit ==
    /\ main = "final" /\ stop["finally"] = "ended"
    /\ Dies

(* The container's restart policy; a container stopped by a signal stays   *)
(* down.                                                                   *)
Boot ==
    /\ main = "down" /\ ~signalled
    /\ main' = "init"
    /\ alive' = TRUE /\ executor' = TRUE
    /\ UNCHANGED <<stop, built, polling, deaf, idle, restarts, hits, signalled,
                   probeVars>>

StopStep(c) ==
    StopApplication(c) \/ StopServices(c) \/ StopProbe(c) \/ StopExecutor(c)

MainStep ==
    \/ Initialize
    \/ Start
    \/ StartFails
    \/ Check
    \/ RestartPolling
    \/ Finally
    \/ Exit

Next ==
    \/ MainStep
    \/ \E c \in Caller : StopStep(c)
    \/ Update
    \/ LateUpdate
    \/ GoDeaf
    \/ CertificateError
    \/ PoolError
    \/ Crash
    \/ Signal
    \/ Boot
    \/ ProbeStep /\ main # "down" /\ UNCHANGED processVars

Spec == Init /\ [][Next]_vars

(* The event loop runs every task; the container restarts what exited; the *)
(* threads of the executor end, so that its shutdown does.                 *)
LiveSpec ==
    /\ Spec
    /\ WF_vars(MainStep)
    /\ \A c \in Caller : WF_vars(StopStep(c))
    /\ WF_vars(Boot)

----------------------------------------------------------------------------
(* Properties *)

(* A polling connection that hears nothing does not stay: in-place         *)
(* restarts or, when they do not help, a new process end the silence       *)
(* (main(), the recovery in tiers).                                        *)
SilenceIsCured == deaf ~> ~deaf

(* A signal whose stop() finds polling running ends the process, though    *)
(* stop() itself ends nothing: the watchdog finds the updater stopped when *)
(* it wants to restart it (signal_handler, main()).                        *)
StoppedProcessEnds == stop["signal"] = "application" ~> main = "down"

(* A signal ends the process.                                              *)
SignalEndsProcess == signalled ~> main = "down"

=============================================================================
