----------------------------- MODULE SandboxTimer -----------------------------
(***************************************************************************)
(* The time a sandbox has left.  Its FastAPI application, one of the       *)
(* processes supervisord runs, keeps one deadline and one sleeping task    *)
(* that asks supervisord to shut down; requests extend, set or cancel it,  *)
(* and every other API request extends it by the configured default as     *)
(* long as nobody manages it by hand.  supervisord is external.            *)
(***************************************************************************)
EXTENDS Naturals

CONSTANTS Minutes,         \* what a request may ask for; 0 stands for the default
          MaxSets       \* bound on requests that set the deadline, and on app restarts

ASSUME TimerAssumption == Minutes \subseteq Nat /\ MaxSets \in Nat

VARIABLES default,         \* SERVICE_TIMEOUT_MINUTES, 0 when there is none
          active, auto,    \* timeout_active, _auto_expand_enabled
          deadline,        \* shutdown_time, as minutes to go
          timers,          \* minutes to go of the tasks asleep; shutdown_task is the one at deadline
          rpcs,            \* calls to supervisord that a thread has under way
          overtaken,       \* deadlines moved while the shutdown was already under way
          state,           \* of the services: "up", "stopped", "down"
          sets

timerVars == <<default, active, auto, deadline, timers, rpcs, overtaken, state, sets>>

\* __init__: a configured timeout starts with the process.
Fresh == /\ active' = (default > 0) /\ auto' = TRUE /\ deadline' = default
         /\ timers' = {default} \ {0}

TimerInit ==
  /\ default \in Minutes /\ active = (default > 0) /\ auto = TRUE /\ deadline = default
  /\ timers = {default} \ {0}
  /\ rpcs = {} /\ overtaken = FALSE /\ state = "up" /\ sets = 0

Counted == sets < MaxSets /\ sets' = sets + 1
Overtakes == overtaken' = (overtaken \/ "timeout" \in rpcs)

\* activate_timeout and extend_timeout: the task asleep is replaced by one for the new deadline.
SetTimer(m) ==
  /\ active' = TRUE /\ deadline' = m
  /\ timers' = (timers \ {deadline}) \cup {m}
  /\ Overtakes

\* Refused when neither the request nor the configuration names a time.
Extend ==
  /\ state = "up" /\ Counted
  /\ \E m \in Minutes : LET asked == IF m = 0 THEN default ELSE m
                        IN  asked # 0 /\ SetTimer(asked)
  /\ auto' = FALSE
  /\ UNCHANGED <<default, rpcs, state>>

\* The middleware, on any other API request.
AutoExtend ==
  /\ state = "up" /\ default # 0 /\ active /\ auto /\ Counted
  /\ SetTimer(default)
  /\ UNCHANGED <<default, auto, rpcs, state>>

Cancel ==
  /\ state = "up" /\ active /\ Counted
  /\ active' = FALSE /\ auto' = TRUE /\ deadline' = 0 /\ timers' = timers \ {deadline}
  /\ Overtakes /\ UNCHANGED <<default, rpcs, state>>

\* A minute passes; nobody ticks past a task that is due.
Tick ==
  /\ state = "up" /\ 0 \notin timers /\ deadline > 0
  /\ deadline' = deadline - 1 /\ timers' = {t - 1 : t \in timers}
  /\ UNCHANGED <<default, active, auto, rpcs, overtaken, state, sets>>

-----------------------------------------------------------------------------
(* Calls to supervisord, each in a thread that no cancellation stops.       *)

\* shutdown_after_timeout wakes up.
Wake ==
  /\ state = "up" /\ 0 \in timers
  /\ timers' = timers \ {0} /\ rpcs' = rpcs \cup {"timeout"}
  /\ UNCHANGED <<default, active, auto, deadline, overtaken, state, sets>>

\* shutdown, stop_all_services, restart_all_services on request.
Ask(what) ==
  /\ state = "up" /\ what \notin rpcs /\ Counted
  /\ rpcs' = rpcs \cup {what}
  /\ UNCHANGED <<default, active, auto, deadline, timers, overtaken, state>>

\* supervisord obeys.  The application is one of the processes it stops, so that the second
\* half of a restart, which starts them again, has nobody left to ask for it.
Obeyed(what) ==
  /\ what \in rpcs /\ state = "up"
  /\ state' = IF what \in {"timeout", "shutdown"} THEN "down" ELSE "stopped"
  /\ rpcs' = {what} /\ timers' = {}
  /\ UNCHANGED <<default, active, auto, deadline, overtaken, sets>>

\* The call fails: it is not made again, not even for the deadline.
Refused(what) ==
  /\ what \in rpcs /\ state = "up" /\ rpcs' = rpcs \ {what}
  /\ UNCHANGED <<default, active, auto, deadline, timers, overtaken, state, sets>>

\* The application ends and supervisord starts it again, with the deadline of its configuration.
AppRestart ==
  /\ state = "up" /\ Counted /\ Fresh
  /\ \E kept \in SUBSET rpcs : rpcs' = kept          \* calls that had already been sent
  /\ Overtakes /\ UNCHANGED <<default, state>>

Services == {"shutdown", "stop", "restart"}
TimerNext == \/ Extend \/ AutoExtend \/ Cancel \/ Tick \/ Wake \/ AppRestart
             \/ \E what \in Services : Ask(what)
             \/ \E what \in Services \cup {"timeout"} : Obeyed(what) \/ Refused(what)

TimerSpec == TimerInit /\ [][TimerNext]_timerVars

-----------------------------------------------------------------------------
TimerTypeOK ==
  /\ default \in Minutes /\ active \in BOOLEAN /\ auto \in BOOLEAN
  /\ deadline \in Nat /\ timers \subseteq Nat /\ rpcs \subseteq Services \cup {"timeout"}
  /\ overtaken \in BOOLEAN /\ state \in {"up", "stopped", "down"} /\ sets \in 0..MaxSets

(* While the sandbox is up, what get_timeout_status says is what will       *)
(* happen: no task sleeps towards any other time than the deadline it       *)
(* reports, none at all when it reports none, and the one of a deadline     *)
(* ahead is there.  When the timeout has shut the sandbox down the deadline *)
(* had come, unless it was moved while the call was already under way.      *)
DeadlineKept ==
  /\ timers \subseteq (IF active THEN {deadline} ELSE {})
  /\ state = "up" /\ active /\ deadline > 0 => timers # {}
  /\ state = "down" /\ rpcs = {"timeout"} => (active /\ deadline = 0) \/ overtaken
=============================================================================
