------------------------------- MODULE Tunnel -------------------------------
(***************************************************************************)
(* The tunnel manager (tunnel.rs): start and stop hold the lifecycle lock, *)
(* the start task brings cloudflared up, a health loop watches it, and a   *)
(* restart sleeps until its turn.  What was begun for an older generation  *)
(* gives up.  Aborting a task takes effect where it waits: a health loop   *)
(* in the middle of a turn still ends that turn, and a start task that has *)
(* spawned its process may still go on with it.  The metrics port and the  *)
(* progress of an install, which only the status shows, are left out.      *)
(***************************************************************************)
EXTENDS Integers, FiniteSets

CONSTANTS
  Configs,       \* what the source may hold: ok, disabled, missing (or empty), unreadable
  MaxAttempts,   \* MAX_RESTART_ATTEMPTS
  MaxGeneration  \* bound on starts and stops

VARIABLES
  state, generation, attempts,  \* the manager's fields
  child,       \* the child slot: a process, running or exited
  processes,   \* the cloudflared processes that run
  starters,    \* the start tasks: the one in its slot, and those aborted and not yet ended
  binary,      \* the managed cloudflared: none, partial, ready
  writing,     \* a thread is writing it
  loops,       \* the health loops
  sleeping,    \* generations for which a restart sleeps
  stopping,    \* where a stop is: waiting for the start task, or for a process
  config,      \* what the config source holds
  last,        \* the last of: start called, stop called, an exit noted since that stop
  overtaken    \* an aborted health loop was the last to set the state

tunnelVars == <<state, generation, attempts, child, processes, starters, binary, writing,
                loops, sleeping, stopping, config, last, overtaken>>

NoProcess == 0      \* a process is named by the generation that spawned it
NoStop    == -1     \* no stop is under way
Awaits    == -2     \* a stop waits for the start task to end
install   == <<binary, writing>>

TunnelInit ==
  /\ state = "stopped" /\ generation = 0 /\ attempts = 0
  /\ child = NoProcess /\ processes = {} /\ starters = {} /\ loops = {} /\ sleeping = {}
  /\ stopping = NoStop /\ config \in Configs
  /\ last = "stop" /\ overtaken = FALSE
  /\ binary \in {"none", "ready"} /\ writing = FALSE
-----------------------------------------------------------------------------
\* abort(): a task that waits is gone, one that runs is marked
MidTurn == {"acting", "exited"}
Aborted(hs) == {[h EXCEPT !.aborted = TRUE] : h \in {g \in hs : g.at \in MidTurn}}
Owning  == {"spawned", "owned"}    \* the process is the task's: it dies when that is dropped
Running == Owning \cup {"placed"}
AbortedTasks(ts) == {[t EXCEPT !.aborted = TRUE] : t \in {u \in ts : u.at \in Running}}

\* start_from_config, with the lifecycle lock held: `g` is the generation a restart is for
\* and NoGeneration for a call of start()
NoGeneration == -1
NeverOutdated(g) == FALSE
Outdated(g) == g # NoGeneration /\ g # generation

\* nothing to do: the restart is outdated, the config cannot be read or is switched off, or
\* the tunnel is up or on its way
NothingToDo(g) ==
  \/ Outdated(g) \/ config = "unreadable"
  \/ config = "disabled" /\ g # NoGeneration
  \/ config \in {"ok", "disabled"} /\ state \in {"starting", "connected"}

\* the start task there was is aborted, and not waited for
StartFromConfig(g) ==
  \/ NothingToDo(g) /\ UNCHANGED <<state, generation, starters, overtaken>>
  \/ /\ ~NothingToDo(g) /\ config = "missing"
     /\ state' = "error" /\ overtaken' = FALSE /\ UNCHANGED <<generation, starters>>
  \/ /\ ~NothingToDo(g) /\ config # "missing"
     /\ generation' = generation + 1
     /\ state' = "starting" /\ overtaken' = FALSE
     /\ starters' = AbortedTasks(starters) \cup
          {[at |-> "finding", of |-> generation + 1, system |-> FALSE, aborted |-> FALSE]}

Start ==
  /\ stopping = NoStop /\ generation < MaxGeneration
  /\ attempts' = 0
  /\ StartFromConfig(NoGeneration)
  /\ last' = "start"
  /\ UNCHANGED <<install, child, processes, loops, sleeping, stopping, config>>

\* a restart whose sleep is over
WakeRestart(g) ==
  /\ g \in sleeping /\ stopping = NoStop /\ generation < MaxGeneration
  /\ sleeping' = sleeping \ {g}
  /\ StartFromConfig(g)
  /\ UNCHANGED <<install, attempts, child, processes, loops, stopping, config, last>>
-----------------------------------------------------------------------------
IsCurrent(g) == generation = g

\* set_error_if_current
NoError(g) == UNCHANGED <<state, overtaken>>
ErrorIfCurrent(g) ==
  /\ state' = IF IsCurrent(g) THEN "error" ELSE state
  /\ overtaken' = (overtaken /\ ~IsCurrent(g))

TaskEnds(t) == starters' = starters \ {t}
TaskMoves(t, at) == starters' = (starters \ {t}) \cup {[t EXCEPT !.at = at]}
Proceeds(t) == IF IsCurrent(t.of) THEN TaskMoves(t, "placing") ELSE TaskEnds(t)
Fails(t) == TaskEnds(t) /\ ErrorIfCurrent(t.of)

\* start_inner, from one wait to the next.  which_cloudflared takes the managed binary when
\* its file exists, else the system's, else it installs one
FindBinary(t, system) ==
  /\ t.at = "finding"
  /\ CASE binary # "none"           -> Proceeds(t)
       [] binary = "none" /\ system ->
            IF IsCurrent(t.of)
            THEN starters' = (starters \ {t}) \cup {[t EXCEPT !.at = "placing", !.system = TRUE]}
            ELSE TaskEnds(t)
       [] OTHER                     -> TaskMoves(t, "downloading")
  /\ UNCHANGED <<install, state, generation, attempts, child, processes, loops, sleeping,
                 stopping, config, last, overtaken>>

Download(t, ok) ==
  /\ t.at = "downloading"
  /\ IF ok THEN /\ TaskMoves(t, "extracting")
                /\ writing' = TRUE /\ binary' = "partial"
                /\ UNCHANGED <<state, overtaken>>
           ELSE Fails(t) /\ UNCHANGED <<writing, binary>>
  /\ UNCHANGED <<generation, attempts, child, processes, loops, sleeping, stopping, config,
                 last>>

\* the thread that writes goes on when the start task is aborted
WriteBinary(ok) ==
  /\ writing
  /\ writing' = FALSE
  /\ binary' = IF ok THEN "ready" ELSE binary
  /\ UNCHANGED <<state, generation, attempts, child, processes, starters, loops, sleeping,
                 stopping, config, last, overtaken>>

Extracted(t) ==
  /\ t.at = "extracting" /\ ~writing
  /\ IF binary = "ready" THEN Proceeds(t) /\ UNCHANGED <<state, overtaken>> ELSE Fails(t)
  /\ UNCHANGED <<install, generation, attempts, child, processes, loops, sleeping, stopping,
                 config, last>>

\* orphans are reaped, a port is chosen, and the process spawned, or one of them fails
Spawn(t, ok) ==
  /\ t.at = "placing" /\ (ok => t.system \/ binary = "ready")
  /\ IF ok /\ IsCurrent(t.of)
     THEN TaskMoves(t, "spawned") /\ processes' = processes \cup {t.of}
     ELSE TaskEnds(t) /\ UNCHANGED processes
  /\ IF ok THEN UNCHANGED <<state, overtaken>> ELSE ErrorIfCurrent(t.of)
  /\ UNCHANGED <<install, generation, attempts, child, loops, sleeping, stopping, config,
                 last>>

\* a task that was overtaken while it spawned kills its process; else it goes on, and asks
\* no more
Recheck(t) ==
  /\ t.at = "spawned"
  /\ IF IsCurrent(t.of) THEN TaskMoves(t, "owned") /\ UNCHANGED processes
                        ELSE TaskEnds(t) /\ processes' = processes \ {t.of}
  /\ UNCHANGED <<install, state, generation, attempts, child, loops, sleeping, stopping,
                 config, last, overtaken>>

\* the child slot holds one process: the one that was there is killed
LeavesExisting == processes
KillsExisting == processes \ {child}

PlaceChild(t) ==
  /\ t.at = "owned"
  /\ child' = t.of /\ processes' = KillsExisting
  /\ TaskMoves(t, "placed")
  /\ UNCHANGED <<install, state, generation, attempts, loops, sleeping, stopping, config,
                 last, overtaken>>

StartHealthLoop(t) ==
  /\ t.at = "placed"
  /\ loops' = Aborted(loops) \cup {[of |-> t.of, at |-> "check", ready |-> FALSE,
                                   aborted |-> FALSE]}
  /\ TaskEnds(t)
  /\ UNCHANGED <<install, state, generation, attempts, child, processes, sleeping,
                 stopping, config, last, overtaken>>

\* an aborted task that comes to wait for a lock is dropped, and its process with it
DropTask(t) ==
  /\ t.aborted
  /\ TaskEnds(t)
  /\ processes' = IF t.at \in Owning THEN processes \ {t.of} ELSE processes
  /\ UNCHANGED <<install, state, generation, attempts, child, loops, sleeping, stopping,
                 config, last, overtaken>>
-----------------------------------------------------------------------------
\* stop, up to its wait for the start task: the health loop is still at work
StopBegin ==
  /\ stopping = NoStop /\ generation < MaxGeneration
  /\ generation' = generation + 1
  /\ starters' = AbortedTasks(starters)
  /\ stopping' = Awaits /\ last' = "stop"
  /\ UNCHANGED <<install, state, attempts, child, processes, loops, sleeping, config,
                 overtaken>>

\* that task, the one of the generation before, has ended: the health loop is aborted and
\* the child taken
StopTakes ==
  /\ stopping = Awaits /\ \A t \in starters : t.of # generation - 1
  /\ loops' = Aborted(loops)
  /\ stopping' = child /\ child' = NoProcess
  /\ UNCHANGED <<install, state, generation, attempts, processes, starters, sleeping, config,
                 last, overtaken>>

\* it has exited by itself or was killed after five seconds
StopEnd ==
  /\ stopping \notin {NoStop, Awaits}
  /\ processes' = processes \ {stopping}
  /\ state' = "stopped" /\ overtaken' = FALSE
  /\ stopping' = NoStop
  /\ UNCHANGED <<install, generation, attempts, child, starters, loops, sleeping, config, last>>
-----------------------------------------------------------------------------
RestartDelay(attempt) == attempt \in 1..MaxAttempts

Ends(h) == loops' = loops \ {h}
Moves(h, at) == loops' = (loops \ {h}) \cup {[h EXCEPT !.at = at]}

\* the loop looks at the child: gone, running, or exited and then taken from its slot
CheckChild(h) ==
  /\ h.at = "check"
  /\ CASE child = NoProcess -> Ends(h) /\ UNCHANGED child
       [] child # NoProcess /\ child \in processes -> Moves(h, "probe") /\ UNCHANGED child
       [] child # NoProcess /\ child \notin processes ->
            Moves(h, "exited") /\ child' = NoProcess
  /\ UNCHANGED <<install, state, generation, attempts, processes, starters, sleeping,
                 stopping, config, last, overtaken>>

UntoldExit == state
ToldExit == "error"

\* schedule_restart reads the generation there is now
NotesExit(h) ==
  /\ h.at = "exited"
  /\ state' = ToldExit /\ overtaken' = h.aborted
  /\ attempts' = attempts + 1
  /\ sleeping' = IF RestartDelay(attempts + 1) THEN sleeping \cup {generation} ELSE sleeping
  /\ last' = IF last = "stop" THEN "exit" ELSE last
  /\ Ends(h)
  /\ UNCHANGED <<install, generation, child, processes, starters, stopping, config>>

Probe(h, ready) ==
  /\ h.at = "probe" /\ (ready => child \in processes)
  /\ loops' = (loops \ {h}) \cup {[h EXCEPT !.at = "acting", !.ready = ready]}
  /\ UNCHANGED <<install, state, generation, attempts, child, processes, starters,
                 sleeping, stopping, config, last, overtaken>>

\* the answer is acted on; the loop sleeps, and an aborted one is over
ActOnProbe(h) ==
  /\ h.at = "acting"
  /\ state' = (IF h.ready THEN "connected" ELSE "starting") /\ overtaken' = h.aborted
  /\ attempts' = IF h.ready THEN 0 ELSE attempts
  /\ IF h.aborted THEN Ends(h) ELSE Moves(h, "check")
  /\ UNCHANGED <<install, generation, child, processes, starters, sleeping, stopping, config,
                 last>>

Exit(p) ==
  /\ p \in processes
  /\ processes' = processes \ {p}
  /\ UNCHANGED <<install, state, generation, attempts, child, starters, loops,
                 sleeping, stopping, config, last, overtaken>>

Configure(c) ==
  /\ config' = c /\ c # config
  /\ UNCHANGED <<install, state, generation, attempts, child, processes, starters,
                 loops, sleeping, stopping, last, overtaken>>

StartTask(g) ==
  \E t \in {u \in starters : u.of = g} :
     \/ \E ok \in BOOLEAN : FindBinary(t, ok) \/ Download(t, ok) \/ Spawn(t, ok)
     \/ Extracted(t) \/ Recheck(t) \/ PlaceChild(t) \/ StartHealthLoop(t) \/ DropTask(t)
HealthLoop(g) ==
  \E h \in {l \in loops : l.of = g} :
     \/ CheckChild(h) \/ NotesExit(h) \/ ActOnProbe(h)
     \/ \E ready \in BOOLEAN : Probe(h, ready)

TunnelNext ==
  \/ Start \/ (\E g \in sleeping : WakeRestart(g))
  \/ StopBegin \/ StopTakes \/ StopEnd
  \/ (\E g \in 1..MaxGeneration : StartTask(g) \/ HealthLoop(g))
  \/ (\E ok \in BOOLEAN : WriteBinary(ok))
  \/ (\E p \in processes : Exit(p))
  \/ (\E c \in Configs : Configure(c))

\* tasks that were spawned run, sleeps end, and a stop that waits is given its five seconds
TunnelFairness ==
  /\ WF_tunnelVars(StopTakes \/ StopEnd)
  /\ WF_tunnelVars(\E ok \in BOOLEAN : WriteBinary(ok))
  /\ \A g \in 1..MaxGeneration : WF_tunnelVars(StartTask(g)) /\ WF_tunnelVars(HealthLoop(g))
  /\ WF_tunnelVars(\E g \in sleeping : WakeRestart(g))

TunnelSpec == TunnelInit /\ [][TunnelNext]_tunnelVars /\ TunnelFairness
-----------------------------------------------------------------------------
\* No cloudflared runs that nobody looks after: every process is in the child slot, with
\* a start task that spawned it, or with the stop that ends it, whatever starts, stops and
\* restarts overlap (tunnel.rs start_inner, stop).
NoStrayProcess == processes \subseteq {child, stopping} \cup {t.of : t \in starters}

\* A tunnel that says it is starting or connected has somebody at work on it: a start task,
\* a health loop, or a stop.  start() relies on it, since it does nothing in these states.
\* The one exception is what an aborted health loop writes when it ends its turn, until the
\* state is written again (tunnel.rs start_from_config, set_error_if_current,
\* run_health_loop).
SomebodyAtWork ==
  state \in {"starting", "connected"} /\ ~overtaken =>
    starters # {} \/ loops # {} \/ stopping # NoStop

\* A stop outlasts the restarts that sleep through it: from its first step on no start task
\* is at work that was not aborted, until start() is called or a health loop notes an exit.
\* That loop may be one the stop has not aborted yet or one that ends its turn, and reads
\* the generation of the stop (tunnel.rs start_from_config, schedule_restart, stop).
StoppedStaysStopped == last = "stop" => \A t \in starters : t.aborted

\* The tunnel does not go on saying that it is starting or connected once its child has
\* exited: the exit is noticed, or another child takes its place, unless an aborted loop was
\* the last to set the state (tunnel.rs run_health_loop).
ExitIsTold ==
  child # NoProcess /\ child \notin processes ~>
    state \in {"error", "stopped"} \/ child \in processes \/ overtaken
=============================================================================
