--------------------------- MODULE DailyLifecycle ---------------------------
(***************************************************************************)
(* The lifecycle controller of the daily profile                           *)
(* (scripts/q3ple_daily_profile.py): the `launch`, `save`, `restore` and   *)
(* `stop` commands, each one a process of its own, and the detached        *)
(* watchdogs they leave behind.  They share three things and no lock: the  *)
(* record server.json, the table of operating-system processes, and the    *)
(* server's port.                                                          *)
(*                                                                         *)
(* A process is named by its birth, a number no two processes share; a     *)
(* birth stands for the ownership fields (pid, create_time, exe, command)  *)
(* that identity_matches compares.  Pids are reused.                       *)
(***************************************************************************)
EXTENDS Naturals, FiniteSets

CONSTANTS
    Ctl,        \* the operator's shells: each runs one command at a time
    Pids,       \* process identifiers the operating system hands out
    MaxBirth,   \* bound: processes ever started
    Ops,        \* the commands in use, a subset of AllOps
    MaxGivenUp, \* bound: processes that run on when a check or a kill gives up on them
    CanCrash,   \* a command may be interrupted between two of its steps
    CanExit,    \* a server may die by itself
    CanRaise    \* a watchdog's access to its files may raise

AllOps == {"launch", "api", "stop", "stop_save"}

ASSUME MaxBirthAssumption == MaxBirth \in Nat
ASSUME MaxGivenUpAssumption == MaxGivenUp \in Nat
ASSUME OpsAssumption == Ops \subseteq AllOps
ASSUME FlagsAssumption == {CanCrash, CanExit, CanRaise} \subseteq BOOLEAN

VARIABLES
    \* operating system
    last,       \* births handed out so far
    alive,      \* the births of the processes that run
    pid,        \* birth -> process identifier
    kind,       \* birth -> what the process is
    port,       \* the server that holds the port, 0 when it is free
    \* server.json
    file,
    \* the command run by each shell: its position and its locals
    pc, state, latest, server, watcher, kill, seen,
    \* each watchdog, by birth: its position, its --pid argument and its locals
    wpc, warg, wtarget, wlatest, wkill, wseen,
    telemetry,  \* the servers whose telemetry file has a line
    \* what an observer remembers
    misfires,   \* terminations that hit a process other than the recorded one
    givenup     \* processes that a check or a termination gave up on as they ran

osVars   == <<last, alive, pid, kind, port>>
ctlVars  == <<pc, state, latest, server, watcher, kill, seen>>
wdVars   == <<wpc, warg, wtarget, wlatest, wkill, wseen, telemetry>>
history  == <<misfires, givenup>>
vars == <<osVars, file, ctlVars, wdVars, history>>

Births == 1..MaxBirth
NoBirth == 0
BirthOrNone == 0..MaxBirth
NoPid == "no pid"

Status == {"none", "starting", "running", "failed", "failed_closed", "stopped"}
WatcherStatus == {"none", "starting", "running", "stopped", "not-owned-or-exited"}

\* server.json, and every copy of it that a process holds.  The fields kept
\* are the ones some branch of the code reads.
Record == [status : Status, srv : BirthOrNone,
           wstatus : WatcherStatus, wd : BirthOrNone]
NoRecord == [status |-> "none", srv |-> NoBirth, wstatus |-> "none", wd |-> NoBirth]

LaunchBodyPc == {"publish", "health", "set_running", "write_final",
                 "confirm_read", "confirm_write"}
LaunchWatchPc == {"announce", "spawn", "await_telemetry", "verify"}
StopPc == {"stop_watcher", "stop_server", "write_stopped"}
PcSet == {"idle", "port_check", "popen", "identify", "confirm", "inner_handler",
          "outer_handler", "handler_read", "handler_write",
          "api_call", "api_write", "save_check", "save_call", "save_write"}
         \cup LaunchBodyPc \cup LaunchWatchPc \cup StopPc
WatchBodyPc == {"init", "poll", "snapshot", "stop_target", "read", "write"}
WatchHandlerPc == {"handler_stop", "handler_read", "handler_write"}
WatchPc == {"none"} \cup WatchBodyPc \cup WatchHandlerPc

Init ==
    /\ last = 0 /\ alive = {} /\ port = NoBirth
    /\ pid = [b \in Births |-> NoPid]
    /\ kind = [b \in Births |-> "none"]
    /\ file = NoRecord
    /\ pc = [c \in Ctl |-> "idle"]
    /\ state = [c \in Ctl |-> NoRecord] /\ latest = [c \in Ctl |-> NoRecord]
    /\ server = [c \in Ctl |-> NoBirth] /\ watcher = [c \in Ctl |-> NoBirth]
    /\ kill = [c \in Ctl |-> "no"] /\ seen = [c \in Ctl |-> 0]
    /\ wpc = [b \in Births |-> "none"]
    /\ warg = [b \in Births |-> NoBirth] /\ wtarget = [b \in Births |-> NoBirth]
    /\ wlatest = [b \in Births |-> NoRecord]
    /\ wkill = [b \in Births |-> "no"] /\ wseen = [b \in Births |-> 0]
    /\ telemetry = {} /\ misfires = {} /\ givenup = {}

-----------------------------------------------------------------------------
(* The operating system *)

\* A launching command holds the Popen handles of the two processes it
\* started, so their pids are not reused before it ends.
Held == {server[c] : c \in Ctl} \cup {watcher[c] : c \in Ctl}
FreePids == {p \in Pids : \A b \in Births : (b \in alive \cup Held) => pid[b] # p}

\* A new process of kind k; its birth is last'.
Spawn(k) ==
    /\ last < MaxBirth
    /\ last' = last + 1
    /\ alive' = alive \cup {last + 1}
    /\ \E p \in FreePids : pid' = [pid EXCEPT ![last + 1] = p]
    /\ kind' = [kind EXCEPT ![last + 1] = k]
    /\ UNCHANGED port

Die(b) ==
    /\ alive' = alive \ {b}
    /\ port' = IF port = b THEN NoBirth ELSE port
    /\ UNCHANGED <<last, pid, kind>>

\* Another program starts, perhaps under a pid that was used before.
ForeignStart ==
    /\ Spawn("foreign")
    /\ UNCHANGED <<file, ctlVars, wdVars, history>>

\* llama-server binds its port; a server that finds it taken exits instead.
ServerBind(b) ==
    /\ b \in alive /\ kind[b] = "server" /\ port # b
    /\ IF port = NoBirth THEN port' = b /\ UNCHANGED <<last, alive, pid, kind>>
                         ELSE Die(b)
    /\ UNCHANGED <<file, ctlVars, wdVars, history>>

ServerExit(b) ==
    /\ CanExit /\ b \in alive /\ kind[b] = "server"
    /\ Die(b)
    /\ UNCHANGED <<file, ctlVars, wdVars, history>>

\* A signal that somebody sent and did not wait for takes its process later.
LateExit(b) ==
    /\ b \in givenup /\ b \in alive
    /\ Die(b)
    /\ UNCHANGED <<file, ctlVars, wdVars, history>>

\* The processes that psutil.Process(pid) would resolve to.
AtPid(b) == {x \in alive : b # NoBirth /\ pid[x] = pid[b]}

\* identity_matches answers yes only for the recorded process, under its pid.
Mutant_Matches_pid_only(b) == AtPid(b) # {}
Matches(b) == b \in alive

\* It answers no for a process that is gone, and also for one that runs when
\* psutil cannot inspect it.  A termination fails in the same two ways: the
\* process is gone, or it cannot be signalled or outlives kill() and its wait.
\* One that runs is given up on.
Spare(b) ==
    \/ b \notin alive /\ UNCHANGED givenup
    \/ /\ b \in alive /\ (b \in givenup \/ Cardinality(givenup) < MaxGivenUp)
       /\ givenup' = givenup \cup {b}

\* psutil.Process(pid).terminate(): whatever holds the pid now is hit.  A
\* process that is not the recorded one is remembered with the last birth at
\* the time of the identity check.
Hit(v, target, since) ==
    misfires' = IF v = target THEN misfires ELSE misfires \cup {<<v, since>>}
Strike(v, target, since) == Die(v) /\ Hit(v, target, since)

-----------------------------------------------------------------------------
(* Steps shared by the commands *)

Goto(c, to) == pc' = [pc EXCEPT ![c] = to]

\* The command's process ends: its locals are gone.
Finish(c) ==
    /\ Goto(c, "idle")
    /\ state' = [state EXCEPT ![c] = NoRecord]
    /\ latest' = [latest EXCEPT ![c] = NoRecord]
    /\ server' = [server EXCEPT ![c] = NoBirth]
    /\ watcher' = [watcher EXCEPT ![c] = NoBirth]
    /\ kill' = [kill EXCEPT ![c] = "no"]
    /\ seen' = [seen EXCEPT ![c] = 0]

locals == <<state, latest, server, watcher, kill, seen>>

\* Ctrl-C, a closed terminal or a power loss of the command's process.
Crash(c) ==
    /\ CanCrash /\ pc[c] # "idle"
    /\ Finish(c)
    /\ UNCHANGED <<osVars, file, wdVars, history>>

\* The sites that call _stop_process_exact or terminate the watcher, the
\* process they aim at, and where they go on when it is gone.
KillSites == {"inner_handler", "outer_handler", "stop_watcher", "stop_server"}
Target(c) == IF pc[c] = "stop_watcher" THEN state[c].wd ELSE state[c].srv
Mutant_After_stop_skips_server(site) ==
    CASE site = "inner_handler" -> "outer_handler"
      [] site = "outer_handler" -> "handler_read"
      [] site \in {"stop_watcher", "stop_server"} -> "write_stopped"
After(site) == CASE site = "inner_handler" -> "outer_handler"
                 [] site = "outer_handler" -> "handler_read"
                 [] site = "stop_watcher"  -> "stop_server"
                 [] site = "stop_server"   -> "write_stopped"

\* The watcher's record after the attempt to stop it.
Mutant_WatcherMarked_unknown_status(c, w) ==
    IF pc[c] = "stop_watcher" THEN [state EXCEPT ![c].wstatus = "exited"] ELSE state
WatcherMarked(c, w) ==
    IF pc[c] = "stop_watcher" THEN [state EXCEPT ![c].wstatus = w] ELSE state

\* The site is done with its target.
Leave(c, mark) ==
    /\ Goto(c, After(pc[c]))
    /\ state' = WatcherMarked(c, mark)
    /\ kill' = [kill EXCEPT ![c] = "no"]
    /\ seen' = [seen EXCEPT ![c] = 0]
    /\ UNCHANGED <<latest, server, watcher>>

\* A termination raises: that ends `stop`; in `launch` it leads to the outer
\* handler, which swallows an exception of its own.
KillRaises(c) ==
    IF pc[c] \in {"stop_watcher", "stop_server"} THEN Finish(c) ELSE Leave(c, "none")

\* The identity check that opens each site.  Only a watcher recorded as
\* running is looked at.  A mismatch raises in `stop`, before anything is
\* written; a handler of `launch` takes it that nothing is left to stop, and a
\* watcher is marked gone.
KillCheck(c) ==
    /\ pc[c] \in KillSites /\ kill[c] = "no"
    /\ \/ /\ pc[c] = "stop_watcher" /\ state[c].wstatus # "running"
          /\ Leave(c, state[c].wstatus) /\ UNCHANGED givenup
       \/ /\ pc[c] = "stop_watcher" => state[c].wstatus = "running"
          /\ Matches(Target(c))
          /\ kill' = [kill EXCEPT ![c] = "armed"]
          /\ seen' = [seen EXCEPT ![c] = last]
          /\ UNCHANGED <<pc, state, latest, server, watcher, givenup>>
       \/ /\ pc[c] = "stop_watcher" => state[c].wstatus = "running"
          /\ Spare(Target(c))
          /\ IF pc[c] = "stop_server" THEN Finish(c)
                                      ELSE Leave(c, "not-owned-or-exited")
    /\ UNCHANGED <<osVars, file, wdVars, misfires>>

\* psutil.Process(pid), which raises with nothing at the pid, and terminate.
\* The process exits, or outlives the wait.
KillFirst(c) ==
    /\ pc[c] \in KillSites /\ kill[c] = "armed"
    /\ \/ \E v \in AtPid(Target(c)) :
             \/ Strike(v, Target(c), seen[c]) /\ Leave(c, "stopped") /\ UNCHANGED givenup
             \/ /\ Hit(v, Target(c), seen[c])
                /\ kill' = [kill EXCEPT ![c] = "slow"]
                /\ UNCHANGED <<osVars, givenup, pc, state, latest, server, watcher, seen>>
       \/ Spare(Target(c)) /\ KillRaises(c) /\ UNCHANGED <<osVars, misfires>>
    /\ UNCHANGED <<file, wdVars>>

\* The wait timed out: the identity is checked again before kill() and a second
\* wait.  (The psutil handle is bound to the process, so no replacement is hit.)
\* A mismatch or a second timeout raises; a watcher that no longer matches is
\* left and recorded as stopped.
KillAgain(c) ==
    /\ pc[c] \in KillSites /\ kill[c] = "slow"
    /\ \/ /\ Matches(Target(c)) /\ Strike(Target(c), Target(c), seen[c])
          /\ Leave(c, "stopped") /\ UNCHANGED givenup
       \/ /\ Spare(Target(c))
          /\ KillRaises(c) \/ (pc[c] = "stop_watcher" /\ Leave(c, "stopped"))
          /\ UNCHANGED <<osVars, misfires>>
    /\ UNCHANGED <<file, wdVars>>

-----------------------------------------------------------------------------
(* launch *)

Owned == file.status = "running" /\ Matches(file.srv)
OwnershipDenied == IF file.status = "running" THEN Spare(file.srv) ELSE UNCHANGED givenup

LaunchBegin(c) ==
    /\ "launch" \in Ops /\ pc[c] = "idle"
    /\ OwnershipDenied
    /\ Goto(c, "port_check")
    /\ UNCHANGED <<osVars, file, locals, wdVars, misfires>>

\* _port_free and preflight, both before anything is started.
LaunchPreflight(c) ==
    /\ pc[c] = "port_check"
    /\ \/ port = NoBirth /\ Goto(c, "popen")
       \/ Goto(c, "idle")
    /\ UNCHANGED <<osVars, file, locals, wdVars, history>>

\* Popen, which may itself raise: then nothing is recorded.
LaunchPopen(c) ==
    /\ pc[c] = "popen"
    /\ \/ /\ Spawn("server")
          /\ server' = [server EXCEPT ![c] = last + 1]
          /\ Goto(c, "identify")
          /\ UNCHANGED <<state, latest, watcher, kill, seen>>
       \/ Finish(c) /\ UNCHANGED osVars
    /\ UNCHANGED <<file, wdVars, history>>

\* _process_identity may fail, with the server dead or with it running; then
\* `state` is never bound and the handler has nothing to stop.
LaunchIdentify(c) ==
    /\ pc[c] = "identify"
    /\ \/ /\ Matches(server[c])
          /\ state' = [state EXCEPT ![c] = [NoRecord EXCEPT !.status = "starting", !.srv = server[c]]]
          /\ Goto(c, "publish")
       \/ Goto(c, "outer_handler") /\ UNCHANGED state
    /\ UNCHANGED <<osVars, file, latest, server, watcher, kill, seen, wdVars, history>>

\* The working-set cap, then the first server.json of this launch.
LaunchPublish(c) ==
    /\ pc[c] = "publish"
    /\ file' = state[c]
    /\ Goto(c, "health")
    /\ UNCHANGED <<osVars, locals, wdVars, history>>

\* _wait_health: the own process has not exited and some server answers 200.
LaunchHealthy(c) ==
    /\ pc[c] = "health"
    /\ server[c] \in alive /\ port # NoBirth
    /\ Goto(c, "set_running")
    /\ UNCHANGED <<osVars, file, locals, wdVars, history>>

LaunchSetRunning(c) ==
    /\ pc[c] = "set_running"
    /\ state' = [state EXCEPT ![c].status = "running"]
    /\ file' = state'[c]
    /\ Goto(c, "announce")
    /\ UNCHANGED <<osVars, latest, server, watcher, kill, seen, wdVars, history>>

\* _spawn_watchdog publishes the telemetry path before it starts the child.
LaunchAnnounce(c) ==
    /\ pc[c] = "announce"
    /\ state' = [state EXCEPT ![c].wstatus = "starting"]
    /\ file' = state'[c]
    /\ Goto(c, "spawn")
    /\ UNCHANGED <<osVars, latest, server, watcher, kill, seen, wdVars, history>>

LaunchSpawnWatchdog(c) ==
    /\ pc[c] = "spawn"
    /\ Spawn("watchdog")
    /\ watcher' = [watcher EXCEPT ![c] = last + 1]
    /\ wpc' = [wpc EXCEPT ![last + 1] = "init"]
    /\ warg' = [warg EXCEPT ![last + 1] = server[c]]
    /\ Goto(c, "await_telemetry")
    /\ UNCHANGED <<file, state, latest, server, kill, seen,
                   wtarget, wlatest, wkill, wseen, telemetry, history>>

\* The own watchdog still runs and the telemetry file has its first line.
LaunchTelemetrySeen(c) ==
    /\ pc[c] = "await_telemetry"
    /\ watcher[c] \in alive /\ server[c] \in telemetry
    /\ Goto(c, "verify")
    /\ UNCHANGED <<osVars, file, locals, wdVars, history>>

\* No telemetry in time: the watchdog, held by its Popen, is terminated
\* if it is identified.
LaunchTelemetryTimeout(c) ==
    /\ pc[c] = "await_telemetry"
    /\ watcher[c] \in alive
    /\ \/ Die(watcher[c]) /\ UNCHANGED givenup
       \/ Spare(watcher[c]) /\ UNCHANGED osVars
    /\ Goto(c, "inner_handler")
    /\ UNCHANGED <<file, locals, wdVars, misfires>>

LaunchVerify(c) ==
    /\ pc[c] = "verify"
    /\ \/ /\ file.status # "failed_closed" /\ Matches(state[c].srv)
          /\ state' = [state EXCEPT ![c].wstatus = "running", ![c].wd = watcher[c]]
          /\ Goto(c, "write_final")
          /\ UNCHANGED givenup
       \/ /\ IF file.status = "failed_closed" THEN UNCHANGED givenup ELSE Spare(state[c].srv)
          /\ Goto(c, "inner_handler")
          /\ UNCHANGED state
    /\ UNCHANGED <<osVars, file, latest, server, watcher, kill, seen, wdVars, misfires>>

LaunchWriteFinal(c) ==
    /\ pc[c] = "write_final"
    /\ file' = state[c]
    /\ Goto(c, "confirm")
    /\ UNCHANGED <<osVars, locals, wdVars, history>>

LaunchConfirm(c) ==
    /\ pc[c] = "confirm"
    /\ \/ Matches(state[c].srv) /\ Matches(state[c].wd) /\ Finish(c) /\ UNCHANGED givenup
       \/ /\ Spare(state[c].srv) \/ (Matches(state[c].srv) /\ Spare(state[c].wd))
          /\ Goto(c, "confirm_read") /\ UNCHANGED locals
    /\ UNCHANGED <<osVars, file, wdVars, misfires>>

\* latest = _read_state() or state
ReadLatest(c) ==
    latest' = [latest EXCEPT ![c] = IF file = NoRecord THEN state[c] ELSE file]

LaunchConfirmRead(c) ==
    /\ pc[c] = "confirm_read"
    /\ ReadLatest(c)
    /\ Goto(c, "confirm_write")
    /\ UNCHANGED <<osVars, file, state, server, watcher, kill, seen, wdVars, history>>

LaunchConfirmWrite(c) ==
    /\ pc[c] = "confirm_write"
    /\ file' = [latest[c] EXCEPT !.status = "failed_closed"]
    /\ Goto(c, "outer_handler")
    /\ UNCHANGED <<osVars, locals, wdVars, history>>

\* Any step of the body may raise: a timeout, an exit of the server or of the
\* watchdog, a failed write, a failed Popen of the watchdog.
Mutant_LaunchRaise_without_cleanup(c) ==
    /\ pc[c] \in LaunchBodyPc \cup LaunchWatchPc
    /\ Goto(c, "handler_read")
    /\ UNCHANGED <<osVars, file, locals, wdVars, history>>
LaunchRaise(c) ==
    /\ \/ pc[c] \in LaunchBodyPc /\ Goto(c, "outer_handler")
       \/ pc[c] \in LaunchWatchPc /\ Goto(c, "inner_handler")
    /\ UNCHANGED <<osVars, file, locals, wdVars, history>>

LaunchHandlerRead(c) ==
    /\ pc[c] = "handler_read"
    /\ ReadLatest(c)
    /\ Goto(c, "handler_write")
    /\ UNCHANGED <<osVars, file, state, server, watcher, kill, seen, wdVars, history>>

\* The failure is recorded, on whatever record was read; the write may fail.
LaunchHandlerWrite(c) ==
    /\ pc[c] = "handler_write"
    /\ \/ file' = [latest[c] EXCEPT !.status =
                     IF latest[c].status = "failed_closed" THEN "failed_closed" ELSE "failed"]
       \/ UNCHANGED file
    /\ Finish(c)
    /\ UNCHANGED <<osVars, wdVars, history>>

-----------------------------------------------------------------------------
(* save and restore, and stop *)

\* _require_owned_state; save and restore differ in what they read and write
\* beside server.json (module SlotManifest), not in what they do to it.
ApiBegin(c) ==
    /\ "api" \in Ops /\ pc[c] = "idle"
    /\ Owned
    /\ state' = [state EXCEPT ![c] = file]
    /\ Goto(c, "api_call")
    /\ UNCHANGED <<osVars, file, latest, server, watcher, kill, seen, wdVars, history>>

\* The validations and the one HTTP call: they succeed only if a server
\* answers, and any of them may raise.
ApiCall(c) ==
    /\ pc[c] = "api_call"
    /\ \/ port # NoBirth /\ Goto(c, "api_write") /\ UNCHANGED locals
       \/ Finish(c)
    /\ UNCHANGED <<osVars, file, wdVars, history>>

\* The record read before the call is written back.
ApiWrite(c) ==
    /\ pc[c] = "api_write"
    /\ file' = state[c]
    /\ Finish(c)
    /\ UNCHANGED <<osVars, wdVars, history>>

StopBegin(c) ==
    /\ pc[c] = "idle" /\ Owned
    /\ state' = [state EXCEPT ![c] = file]
    /\ \/ "stop" \in Ops /\ Goto(c, "stop_watcher")
       \/ "stop_save" \in Ops /\ Goto(c, "save_check")
    /\ UNCHANGED <<osVars, file, latest, server, watcher, kill, seen, wdVars, history>>

\* save() called by stop reads the record again, into a state of its own.
StopSaveCheck(c) ==
    /\ pc[c] = "save_check"
    /\ \/ /\ Owned
          /\ latest' = [latest EXCEPT ![c] = file]
          /\ Goto(c, "save_call")
          /\ UNCHANGED <<state, server, watcher, kill, seen, givenup>>
       \/ OwnershipDenied /\ Finish(c)
    /\ UNCHANGED <<osVars, file, wdVars, misfires>>

\* A save that fails ends the command: the server stays up.
StopSaveCall(c) ==
    /\ pc[c] = "save_call"
    /\ \/ port # NoBirth /\ Goto(c, "save_write") /\ UNCHANGED locals
       \/ Finish(c)
    /\ UNCHANGED <<osVars, file, wdVars, history>>

StopSaveWrite(c) ==
    /\ pc[c] = "save_write"
    /\ file' = latest[c]
    /\ Goto(c, "stop_watcher")
    /\ UNCHANGED <<osVars, locals, wdVars, history>>

StopWrite(c) ==
    /\ pc[c] = "write_stopped"
    /\ file' = [state[c] EXCEPT !.status = "stopped"]
    /\ Finish(c)
    /\ UNCHANGED <<osVars, wdVars, history>>

-----------------------------------------------------------------------------
(* _watchdog_main, one step per read, check or write of shared state *)

WGoto(w, to) == wpc' = [wpc EXCEPT ![w] = to]

\* The watchdog returns: its locals are gone.
WExit(w) ==
    /\ Die(w)
    /\ WGoto(w, "none")
    /\ warg' = [warg EXCEPT ![w] = NoBirth]
    /\ wtarget' = [wtarget EXCEPT ![w] = NoBirth]
    /\ wlatest' = [wlatest EXCEPT ![w] = NoRecord]
    /\ wkill' = [wkill EXCEPT ![w] = "no"]
    /\ wseen' = [wseen EXCEPT ![w] = 0]
    /\ UNCHANGED telemetry

\* An exception in the body leads to the handler, one in the handler to the end.
Mutant_WRaises_without_handler(w) == WExit(w)
WRaises(w) ==
    IF wpc[w] \in WatchHandlerPc THEN WExit(w)
    ELSE /\ WGoto(w, "handler_stop")
         /\ wkill' = [wkill EXCEPT ![w] = "no"]
         /\ wseen' = [wseen EXCEPT ![w] = 0]
         /\ UNCHANGED <<osVars, warg, wtarget, wlatest, telemetry>>

\* The server that w was started for, until it has read the record.
Subject(w) == IF wtarget[w] = NoBirth THEN warg[w] ELSE wtarget[w]

\* The record must name the pid given on the command line, and that process
\* must be the recorded one.
WatchInit(w) ==
    /\ w \in alive /\ wpc[w] = "init"
    /\ IF file.srv # NoBirth /\ pid[file.srv] = pid[warg[w]]
       THEN \/ /\ Matches(file.srv)
               /\ wtarget' = [wtarget EXCEPT ![w] = file.srv]
               /\ WGoto(w, "poll")
               /\ UNCHANGED <<osVars, warg, wlatest, wkill, wseen, telemetry, givenup>>
            \/ Spare(file.srv) /\ WExit(w)
       ELSE WExit(w) /\ UNCHANGED givenup
    /\ UNCHANGED <<file, ctlVars, misfires>>

Mutant_WatchPoll_pid_only(w) ==
    /\ w \in alive /\ wpc[w] = "poll"
    /\ IF file.status \in {"starting", "running"}
       THEN \/ /\ AtPid(wtarget[w]) # {}
               /\ WGoto(w, "snapshot")
               /\ UNCHANGED <<osVars, warg, wtarget, wlatest, wkill, wseen, telemetry, givenup>>
            \/ AtPid(wtarget[w]) = {} /\ WExit(w) /\ UNCHANGED givenup
       ELSE WExit(w) /\ UNCHANGED givenup
    /\ UNCHANGED <<file, ctlVars, misfires>>
WatchPoll(w) ==
    /\ w \in alive /\ wpc[w] = "poll"
    /\ IF file.status \in {"starting", "running"}
       THEN \/ /\ Matches(wtarget[w])
               /\ WGoto(w, "snapshot")
               /\ UNCHANGED <<osVars, warg, wtarget, wlatest, wkill, wseen, telemetry, givenup>>
            \/ Spare(wtarget[w]) /\ WExit(w)
       ELSE WExit(w) /\ UNCHANGED givenup
    /\ UNCHANGED <<file, ctlVars, misfires>>

\* A hard floor may be crossed, or telemetry missing, at any time; the snapshot
\* of a pid at which nothing runs fails.  A line is appended either way.
WatchSnapshot(w) ==
    /\ w \in alive /\ wpc[w] = "snapshot"
    /\ telemetry' = telemetry \cup {wtarget[w]}
    /\ \/ WGoto(w, "stop_target")
       \/ AtPid(wtarget[w]) # {} /\ WGoto(w, "poll")
    /\ UNCHANGED <<osVars, file, ctlVars, warg, wtarget, wlatest, wkill, wseen, history>>

\* The body and the handler each stop the target, and then read and write the
\* record.
WatchSites == {"stop_target", "handler_stop"}
WLeave(w) ==
    /\ WGoto(w, IF wpc[w] = "stop_target" THEN "read" ELSE "handler_read")
    /\ wkill' = [wkill EXCEPT ![w] = "no"]
    /\ wseen' = [wseen EXCEPT ![w] = 0]
    /\ UNCHANGED <<warg, wtarget, wlatest, telemetry>>

\* The identity is checked twice: the first mismatch skips the stop, the second
\* raises.
Mutant_WatchKillCheck_only_records(w) ==
    /\ w \in alive /\ wpc[w] \in WatchSites /\ wkill[w] = "no"
    /\ WLeave(w)
    /\ UNCHANGED <<osVars, file, ctlVars, history>>
WatchKillCheck(w) ==
    /\ w \in alive /\ wpc[w] \in WatchSites /\ wkill[w] = "no"
    /\ \/ /\ Matches(wtarget[w])
          /\ wkill' = [wkill EXCEPT ![w] = "armed"]
          /\ wseen' = [wseen EXCEPT ![w] = last]
          /\ UNCHANGED <<osVars, wpc, warg, wtarget, wlatest, telemetry, givenup>>
       \/ /\ Spare(wtarget[w])
          /\ \/ WLeave(w) /\ UNCHANGED osVars
             \/ wtarget[w] # NoBirth /\ WRaises(w)
    /\ UNCHANGED <<file, ctlVars, misfires>>

WatchKillFirst(w) ==
    /\ w \in alive /\ wpc[w] \in WatchSites /\ wkill[w] = "armed"
    /\ \/ \E v \in AtPid(wtarget[w]) :
             \/ Strike(v, wtarget[w], wseen[w]) /\ WLeave(w) /\ UNCHANGED givenup
             \/ /\ Hit(v, wtarget[w], wseen[w])
                /\ wkill' = [wkill EXCEPT ![w] = "slow"]
                /\ UNCHANGED <<osVars, wpc, warg, wtarget, wlatest, wseen, telemetry, givenup>>
       \/ Spare(wtarget[w]) /\ WRaises(w) /\ UNCHANGED misfires
    /\ UNCHANGED <<file, ctlVars>>

WatchKillAgain(w) ==
    /\ w \in alive /\ wpc[w] \in WatchSites /\ wkill[w] = "slow"
    /\ \/ /\ Matches(wtarget[w]) /\ Strike(wtarget[w], wtarget[w], wseen[w])
          /\ WLeave(w) /\ UNCHANGED givenup
       \/ Spare(wtarget[w]) /\ WRaises(w) /\ UNCHANGED misfires
    /\ UNCHANGED <<file, ctlVars>>

WatchRead(w) ==
    /\ w \in alive /\ wpc[w] \in {"read", "handler_read"}
    /\ wlatest' = [wlatest EXCEPT ![w] = file]
    /\ WGoto(w, IF wpc[w] = "read" THEN "write" ELSE "handler_write")
    /\ UNCHANGED <<osVars, file, ctlVars, warg, wtarget, wkill, wseen, telemetry, history>>

WatchWrite(w) ==
    /\ w \in alive /\ wpc[w] \in {"write", "handler_write"}
    /\ file' = [wlatest[w] EXCEPT !.status = "failed_closed"]
    /\ WExit(w)
    /\ UNCHANGED <<ctlVars, history>>

\* Reading or writing the record or the telemetry file may raise.  A handler
\* that raises ends the watchdog with nothing recorded.
WatchRaise(w) ==
    /\ CanRaise /\ w \in alive /\ wpc[w] \notin {"none"} \cup WatchSites
    /\ IF wpc[w] \in WatchHandlerPc THEN Spare(Subject(w)) ELSE UNCHANGED givenup
    /\ WRaises(w)
    /\ UNCHANGED <<file, ctlVars, misfires>>

-----------------------------------------------------------------------------

Watchdog(w) ==
    \/ WatchInit(w) \/ WatchPoll(w) \/ WatchSnapshot(w)
    \/ WatchKillCheck(w) \/ WatchKillFirst(w) \/ WatchKillAgain(w)
    \/ WatchRead(w) \/ WatchWrite(w) \/ WatchRaise(w)

Kill(c) == KillCheck(c) \/ KillFirst(c) \/ KillAgain(c)

Launch(c) ==
    \/ LaunchPreflight(c) \/ LaunchPopen(c) \/ LaunchIdentify(c) \/ LaunchPublish(c)
    \/ LaunchHealthy(c) \/ LaunchSetRunning(c) \/ LaunchAnnounce(c)
    \/ LaunchSpawnWatchdog(c) \/ LaunchTelemetrySeen(c) \/ LaunchTelemetryTimeout(c)
    \/ LaunchVerify(c) \/ LaunchWriteFinal(c) \/ LaunchConfirm(c)
    \/ LaunchConfirmRead(c) \/ LaunchConfirmWrite(c) \/ LaunchRaise(c)
    \/ LaunchHandlerRead(c) \/ LaunchHandlerWrite(c)

Api(c) == ApiCall(c) \/ ApiWrite(c)
Stop(c) == StopSaveCheck(c) \/ StopSaveCall(c) \/ StopSaveWrite(c) \/ StopWrite(c)

Command(c) == Launch(c) \/ Kill(c) \/ Api(c) \/ Stop(c)
Begin(c) == LaunchBegin(c) \/ ApiBegin(c) \/ StopBegin(c)

Environment ==
    \/ ForeignStart
    \/ \E b \in Births : ServerBind(b) \/ ServerExit(b) \/ LateExit(b)
    \/ \E c \in Ctl : Crash(c)

Next ==
    \/ Environment
    \/ \E c \in Ctl : Begin(c) \/ Command(c)
    \/ \E w \in Births : Watchdog(w)

Spec == Init /\ [][Next]_vars

\* A watchdog is a loop of its own and a command runs to its end: the
\* operating system schedules both.  Nothing else is fair.
Fairness ==
    /\ \A w \in Births : WF_vars(Watchdog(w))
    /\ \A c \in Ctl : WF_vars(Command(c))
FairSpec == Spec /\ Fairness

-----------------------------------------------------------------------------
(* Properties *)

OsType ==
    /\ last \in BirthOrNone /\ alive \subseteq 1..last /\ port \in BirthOrNone
    /\ pid \in [Births -> Pids \cup {NoPid}]
    /\ kind \in [Births -> {"none", "server", "watchdog", "foreign"}]
CtlType ==
    /\ pc \in [Ctl -> PcSet]
    /\ state \in [Ctl -> Record] /\ latest \in [Ctl -> Record]
    /\ server \in [Ctl -> BirthOrNone] /\ watcher \in [Ctl -> BirthOrNone]
    /\ kill \in [Ctl -> {"no", "armed", "slow"}] /\ seen \in [Ctl -> BirthOrNone]
WdType ==
    /\ wpc \in [Births -> WatchPc]
    /\ warg \in [Births -> BirthOrNone] /\ wtarget \in [Births -> BirthOrNone]
    /\ wlatest \in [Births -> Record]
    /\ wkill \in [Births -> {"no", "armed", "slow"}] /\ wseen \in [Births -> BirthOrNone]
    /\ telemetry \subseteq BirthOrNone
TypeOK ==
    /\ OsType /\ CtlType /\ WdType
    /\ file \in Record
    /\ misfires \subseteq (Births \X BirthOrNone) /\ givenup \subseteq Births

\* A process that already ran when the identity was checked is never hit in
\* place of the recorded one: a record left over from a dead server cannot
\* lead `stop`, a failing launch or a watchdog to the process that inherited
\* its pid (identity_matches before every terminate).
NoStaleKill == \A m \in misfires : m[1] > m[2]

\* The documented promise of `stop` and the watchdog: a replacement process that
\* reused a pid is never killed, whenever it started.
NeverKillsReplacement == misfires = {}

\* A record that says "stopped" is true whatever else happened between the
\* steps of `stop`: interleaved launches, watchdogs that write late, stale
\* copies of the record written back by save and restore.
StoppedMeansGone == file.status = "stopped" => file.srv \notin alive

\* A launch that identified its server and then raised has taken the server
\* down by the time it records the failure, at whichever step it raised, unless
\* psutil could not identify or signal the server, or it outlived kill().
RefusedLaunchLeavesNothing ==
    \A c \in Ctl : pc[c] \in {"handler_read", "handler_write"} =>
                       state[c].srv \notin alive \ givenup

\* Watchdog w has server b for its target, or was started for it and has yet to
\* read the record.  (A launch may return before its own watchdog has read it:
\* one that an earlier launch left behind can inherit the pid and write the
\* telemetry line that the launch waits for.)
Tends(w, b) == wpc[w] # "none" /\ Subject(w) = b
Watched(b) == \E w \in alive : Tends(w, b)

\* A command is still working on the server: a launch that has not returned or
\* a stop that has begun to take it down.
InHand(b) == \E c \in Ctl : server[c] = b \/ (pc[c] \in KillSites /\ state[c].srv = b)

\* While server.json says that a server runs, and it does, and no command has
\* it in hand, its watchdog is there too: unless somebody gave up on one of the
\* two.  (A termination that hits the wrong process may hit a watchdog:
\* NoStaleKill bounds those.)
RunningRecordWatched ==
    (misfires = {} /\ Owned /\ ~InHand(file.srv) /\ {file.srv, file.wd} \cap givenup = {})
        => Watched(file.srv)

\* The documented promise of a watchdog that records continuously: it does not
\* walk away from a target that still runs and that no command has in hand.
WatchdogStays ==
    [][\A w \in alive : (WatchPoll(w) /\ wtarget[w] \in alive /\ ~InHand(wtarget[w]))
                            => w \in alive']_vars

\* A watchdog whose target is gone ends, even when the pid has a new owner.
OrphanWatchdogEnds ==
    \A w \in Births :
        (w \in alive /\ wtarget[w] # NoBirth /\ wtarget[w] \notin alive) ~> (w \notin alive)

\* Once a watchdog has seen a violation its target goes down, even if a `stop`
\* or a failing launch takes the watchdog itself down first: unless somebody gave
\* up on the target, or on the watchdog (a `stop` whose wait for a watchdog times
\* out ends before it comes to the server, and the watchdog ends later).  (Unless
\* a termination hit a process that reused a pid: NoStaleKill bounds those.)
ViolationStopsServer ==
    \A w \in Births : \A b \in 1..(w - 1) :
        (w \in alive /\ wpc[w] = "stop_target" /\ wtarget[w] = b)
            ~> (b \notin alive \/ {w, b} \cap givenup # {} \/ misfires # {})
=============================================================================
