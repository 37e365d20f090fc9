------------------------ MODULE DailyLifecycle_proofs ------------------------
(* Theorems about DailyLifecycle, for every number of shells, pids and births. *)
EXTENDS DailyLifecycle, TLAPS

\* The positions of a command and of a watchdog, as facts, so that the proofs
\* below need not expand the sets.
LEMMA Positions ==
    /\ {"idle", "port_check", "popen", "identify", "confirm", "inner_handler",
        "outer_handler", "handler_read", "handler_write", "publish", "health",
        "set_running", "write_final", "confirm_read", "confirm_write",
        "announce", "spawn", "await_telemetry", "verify", "stop_watcher",
        "stop_server", "write_stopped", "api_call", "api_write", "save_check",
        "save_call", "save_write"} \subseteq PcSet
    /\ {"none", "init", "poll", "snapshot", "stop_target", "read", "write",
        "handler_stop", "handler_read", "handler_write"} \subseteq WatchPc
BY DEF PcSet, LaunchBodyPc, LaunchWatchPc, StopPc, WatchPc, WatchBodyPc, WatchHandlerPc

\* server.json keeps its shape under every update the code makes to it.
LEMMA Updates ==
    /\ NoRecord \in Record
    /\ \A b \in BirthOrNone : [NoRecord EXCEPT !.status = "starting", !.srv = b] \in Record
    /\ \A r \in Record :
        /\ r.srv \in BirthOrNone /\ r.wd \in BirthOrNone
        /\ r.status \in Status /\ r.wstatus \in WatcherStatus
        /\ \A s \in Status : [r EXCEPT !.status = s] \in Record
        /\ \A s \in WatcherStatus : [r EXCEPT !.wstatus = s] \in Record
        /\ \A b \in BirthOrNone : [r EXCEPT !.wstatus = "running", !.wd = b] \in Record
<1>1. 0 \in BirthOrNone
  BY MaxBirthAssumption DEF BirthOrNone
<1>2. "none" \in Status /\ "starting" \in Status /\ "none" \in WatcherStatus /\ "running" \in WatcherStatus
  BY DEF Status, WatcherStatus
<1>3. NoRecord \in Record
  BY <1>1, <1>2 DEF Record, NoRecord, NoBirth
<1>4. ASSUME NEW b \in BirthOrNone
      PROVE [NoRecord EXCEPT !.status = "starting", !.srv = b] \in Record
  BY <1>1, <1>2 DEF Record, NoRecord, NoBirth
<1>5. ASSUME NEW r \in Record
      PROVE /\ r.srv \in BirthOrNone /\ r.wd \in BirthOrNone
            /\ r.status \in Status /\ r.wstatus \in WatcherStatus
            /\ \A s \in Status : [r EXCEPT !.status = s] \in Record
            /\ \A s \in WatcherStatus : [r EXCEPT !.wstatus = s] \in Record
            /\ \A b \in BirthOrNone : [r EXCEPT !.wstatus = "running", !.wd = b] \in Record
  BY <1>2 DEF Record
<1> QED BY <1>3, <1>4, <1>5

LEMMA StatusFacts ==
    /\ {"none", "starting", "running", "failed", "failed_closed", "stopped"} \subseteq Status
    /\ {"none", "starting", "running", "stopped", "not-owned-or-exited"} \subseteq WatcherStatus
BY DEF Status, WatcherStatus

LEMMA BirthFacts ==
    /\ NoBirth \in BirthOrNone /\ NoBirth = 0 /\ 0 \in BirthOrNone
    /\ \A b \in Births : b \in BirthOrNone /\ b \in Nat
    /\ \A b \in BirthOrNone : b \in Nat /\ (b < MaxBirth => b + 1 \in Births)
    /\ \A b \in BirthOrNone : 1..b \subseteq Births
BY MaxBirthAssumption DEF NoBirth, BirthOrNone, Births

LEMMA TypeInit == Init => TypeOK
<1> SUFFICES ASSUME Init PROVE TypeOK
  OBVIOUS
<1> USE Positions, Updates, BirthFacts DEF Init
<1>1. OsType BY DEF OsType
<1>2. CtlType BY DEF CtlType
<1>3. WdType BY DEF WdType
<1> QED BY <1>1, <1>2, <1>3 DEF TypeOK

LEMMA SpawnType ==
    ASSUME OsType, NEW k \in {"server", "watchdog", "foreign"}, Spawn(k)
    PROVE  OsType' /\ last + 1 \in Births
<1>1. last + 1 \in Births /\ last' \in BirthOrNone /\ last \in Nat
  BY MaxBirthAssumption DEF OsType, Spawn, BirthOrNone, Births
<1>2. alive' \subseteq 1..last'
  BY <1>1 DEF OsType, Spawn
<1>3. pid' \in [Births -> Pids \cup {NoPid}]
  BY <1>1 DEF OsType, Spawn, FreePids
<1> QED BY <1>1, <1>2, <1>3 DEF OsType, Spawn

LEMMA DieType ==
    ASSUME OsType, NEW b \in Births, Die(b) PROVE OsType'
BY BirthFacts DEF OsType, Die

LEMMA OsUnchanged == ASSUME OsType, UNCHANGED osVars PROVE OsType'
BY DEF OsType, osVars

LEMMA CtlUnchanged == ASSUME CtlType, UNCHANGED ctlVars PROVE CtlType'
BY DEF CtlType, ctlVars

LEMMA WdUnchanged == ASSUME WdType, UNCHANGED wdVars PROVE WdType'
BY DEF WdType, wdVars

LEMMA FinishType ==
    ASSUME CtlType, NEW c \in Ctl, Finish(c) PROVE CtlType'
BY Positions, Updates, BirthFacts DEF CtlType, Finish, Goto

LEMMA GotoType ==
    ASSUME CtlType, NEW c \in Ctl, NEW to \in PcSet, Goto(c, to), UNCHANGED locals PROVE CtlType'
BY DEF CtlType, Goto, locals

LEMMA LeaveType ==
    ASSUME CtlType, NEW c \in Ctl, NEW m \in WatcherStatus, pc[c] \in KillSites, Leave(c, m)
    PROVE  CtlType'
<1>1. After(pc[c]) \in PcSet
  BY Positions DEF KillSites, After
<1>2. WatcherMarked(c, m) \in [Ctl -> Record]
  BY Updates DEF CtlType, WatcherMarked
<1> QED BY <1>1, <1>2, BirthFacts DEF CtlType, Leave, Goto

LEMMA WExitType ==
    ASSUME OsType, WdType, NEW w \in Births, WExit(w) PROVE OsType' /\ WdType'
<1>1. OsType'
  BY DieType DEF WExit
<1>2. WdType'
  BY Positions, Updates, BirthFacts DEF WdType, WExit, WGoto
<1> QED BY <1>1, <1>2

LEMMA WLeaveType ==
    ASSUME WdType, NEW w \in Births, WLeave(w) PROVE WdType'
BY Positions, BirthFacts DEF WdType, WLeave, WGoto

LEMMA WRaisesType ==
    ASSUME OsType, WdType, NEW w \in Births, WRaises(w) PROVE OsType' /\ WdType'
<1>1. CASE wpc[w] \in WatchHandlerPc
  BY <1>1, WExitType DEF WRaises
<1>2. CASE wpc[w] \notin WatchHandlerPc
  <2>1. UNCHANGED osVars /\ wpc' = [wpc EXCEPT ![w] = "handler_stop"]
        /\ wkill' = [wkill EXCEPT ![w] = "no"] /\ wseen' = [wseen EXCEPT ![w] = 0]
        /\ UNCHANGED <<warg, wtarget, wlatest, telemetry>>
    BY <1>2 DEF WRaises, WGoto
  <2>2. WdType'
    BY <2>1, Positions, BirthFacts DEF WdType
  <2> QED BY <2>1, <2>2, OsUnchanged
<1> QED BY <1>1, <1>2

LEMMA HitType ==
    ASSUME misfires \subseteq (Births \X BirthOrNone),
           NEW v \in Births, NEW t, NEW since \in BirthOrNone, Hit(v, t, since)
    PROVE  misfires' \subseteq (Births \X BirthOrNone)
BY DEF Hit

LEMMA StrikeType ==
    ASSUME OsType, misfires \subseteq (Births \X BirthOrNone),
           NEW v \in Births, NEW t, NEW since \in BirthOrNone, Strike(v, t, since)
    PROVE  OsType' /\ (misfires' \subseteq (Births \X BirthOrNone))
BY DieType, HitType DEF Strike

\* Nobody but a check or a termination gives up on a process, and only on one
\* that runs.
LEMMA GivenUp ==
    ASSUME [Next]_vars PROVE givenup' = givenup \/ \E b : Spare(b)
<1> USE DEF history
<1>1. CASE UNCHANGED vars
  BY <1>1 DEF vars
<1>2. CASE Environment
  BY <1>2 DEF Environment, ForeignStart, ServerBind, ServerExit, LateExit, Crash
<1>3. ASSUME NEW c \in Ctl, Begin(c) PROVE givenup' = givenup \/ \E b : Spare(b)
  BY <1>3 DEF Begin, LaunchBegin, OwnershipDenied, ApiBegin, StopBegin
<1>4. ASSUME NEW c \in Ctl, Kill(c) PROVE givenup' = givenup \/ \E b : Spare(b)
  BY <1>4 DEF Kill, KillCheck, KillFirst, KillAgain
<1>5. ASSUME NEW c \in Ctl, Launch(c) PROVE givenup' = givenup \/ \E b : Spare(b)
  <2>1. CASE LaunchTelemetryTimeout(c)
    BY <2>1 DEF LaunchTelemetryTimeout
  <2>2. CASE LaunchVerify(c)
    BY <2>2 DEF LaunchVerify
  <2>3. CASE LaunchConfirm(c)
    BY <2>3 DEF LaunchConfirm
  <2>4. CASE ~(LaunchTelemetryTimeout(c) \/ LaunchVerify(c) \/ LaunchConfirm(c))
    BY <1>5, <2>4 DEF Launch, LaunchPreflight, LaunchPopen, LaunchIdentify, LaunchPublish,
       LaunchHealthy, LaunchSetRunning, LaunchAnnounce, LaunchSpawnWatchdog,
       LaunchTelemetrySeen, LaunchWriteFinal, LaunchConfirmRead, LaunchConfirmWrite,
       LaunchRaise, LaunchHandlerRead, LaunchHandlerWrite
  <2> QED BY <2>1, <2>2, <2>3, <2>4
<1>6. ASSUME NEW c \in Ctl, Api(c) \/ Stop(c) PROVE givenup' = givenup \/ \E b : Spare(b)
  BY <1>6 DEF Api, ApiCall, ApiWrite, Stop, StopSaveCheck, OwnershipDenied, StopSaveCall,
     StopSaveWrite, StopWrite
<1>7. ASSUME NEW w \in Births, Watchdog(w) PROVE givenup' = givenup \/ \E b : Spare(b)
  BY <1>7 DEF Watchdog, WatchInit, WatchPoll, WatchSnapshot, WatchKillCheck, WatchKillFirst,
     WatchKillAgain, WatchRead, WatchWrite, WatchRaise
<1> QED BY <1>1, <1>2, <1>3, <1>4, <1>5, <1>6, <1>7 DEF Next, Command

LEMMA GivenUpGrows == ASSUME [Next]_vars PROVE givenup \subseteq givenup'
BY GivenUp DEF Spare

LEMMA AliveBirths == ASSUME OsType PROVE alive \subseteq Births
BY BirthFacts DEF OsType

LEMMA TypeNext == TypeOK /\ [Next]_vars => TypeOK'
<1> SUFFICES ASSUME TypeOK, [Next]_vars PROVE TypeOK'
  OBVIOUS
<1>a. /\ OsType /\ CtlType /\ WdType /\ file \in Record
      /\ misfires \subseteq (Births \X BirthOrNone)
      /\ alive \subseteq Births /\ givenup \subseteq Births
  BY AliveBirths DEF TypeOK
<1>g. givenup' \subseteq Births
  BY <1>a, GivenUp DEF Spare
<1>b. SUFFICES OsType' /\ CtlType' /\ WdType' /\ file' \in Record
               /\ misfires' \subseteq (Births \X BirthOrNone)
  BY <1>g DEF TypeOK
<1> USE <1>a, <1>g, Positions, Updates, StatusFacts, BirthFacts DEF history
<1>1. CASE UNCHANGED vars
  BY <1>1, OsUnchanged, CtlUnchanged, WdUnchanged DEF vars
<1>2. CASE ForeignStart
  BY <1>2, SpawnType, CtlUnchanged, WdUnchanged DEF ForeignStart
<1>3. ASSUME NEW b \in Births, ServerBind(b) PROVE TypeOK'
  <2>1. OsType'
    BY <1>3, DieType DEF ServerBind, OsType
  <2> QED BY <1>3, <2>1, CtlUnchanged, WdUnchanged DEF ServerBind, TypeOK
<1>4. ASSUME NEW b \in Births, ServerExit(b) PROVE TypeOK'
  BY <1>4, DieType, CtlUnchanged, WdUnchanged DEF ServerExit, TypeOK
<1>12. ASSUME NEW b \in Births, LateExit(b) PROVE TypeOK'
  BY <1>12, DieType, CtlUnchanged, WdUnchanged DEF LateExit, TypeOK
<1>5. ASSUME NEW c \in Ctl, Crash(c) PROVE TypeOK'
  BY <1>5, FinishType, OsUnchanged, WdUnchanged DEF Crash, TypeOK
<1>6. ASSUME NEW c \in Ctl, Begin(c)
      PROVE OsType' /\ CtlType' /\ WdType' /\ file' \in Record
            /\ misfires' \subseteq (Births \X BirthOrNone)
  <2>1. CASE LaunchBegin(c)
    BY <2>1, OsUnchanged, WdUnchanged DEF LaunchBegin, CtlType, Goto, locals
  <2>2. CASE ApiBegin(c)
    BY <2>2, OsUnchanged, WdUnchanged DEF ApiBegin, CtlType, Goto, locals, Owned
  <2>3. CASE StopBegin(c)
    BY <2>3, OsUnchanged, WdUnchanged DEF StopBegin, CtlType, Goto, locals, Owned
  <2> QED BY <1>6, <2>1, <2>2, <2>3 DEF Begin
<1>7. ASSUME NEW c \in Ctl, Kill(c)
      PROVE OsType' /\ CtlType' /\ WdType' /\ file' \in Record
            /\ misfires' \subseteq (Births \X BirthOrNone)
  <2>1. CASE KillCheck(c)
    <3>1. OsType' /\ WdType' /\ file' = file /\ misfires' = misfires
      BY <2>1, OsUnchanged, WdUnchanged DEF KillCheck
    <3>2. ASSUME NEW m \in WatcherStatus, pc[c] \in KillSites, Leave(c, m) PROVE CtlType'
      BY <3>2, LeaveType
    <3>3. ASSUME Finish(c) PROVE CtlType'
      BY <3>3, FinishType
    <3>4. state[c].wstatus \in WatcherStatus
      BY DEF CtlType
    <3>5. ASSUME kill' = [kill EXCEPT ![c] = "armed"], seen' = [seen EXCEPT ![c] = last],
                 UNCHANGED <<pc, state, latest, server, watcher>>
          PROVE CtlType'
      BY <3>5 DEF CtlType, OsType
    <3> QED BY <2>1, <3>1, <3>2, <3>3, <3>4, <3>5 DEF KillCheck
  <2>2. CASE KillFirst(c)
    <3>1. WdType' /\ file' = file /\ seen[c] \in BirthOrNone
      BY <2>2, WdUnchanged DEF KillFirst, CtlType
    <3>2. ASSUME NEW m \in WatcherStatus, pc[c] \in KillSites, Leave(c, m) PROVE CtlType'
      BY <3>2, LeaveType
    <3>3. ASSUME NEW v \in AtPid(Target(c)), Strike(v, Target(c), seen[c]), Leave(c, "stopped")
          PROVE OsType' /\ CtlType' /\ misfires' \subseteq (Births \X BirthOrNone)
      BY <2>2, <3>1, <3>2, <3>3, StrikeType DEF KillFirst, AtPid
    <3>4. ASSUME NEW v \in AtPid(Target(c)), Hit(v, Target(c), seen[c]),
                 kill' = [kill EXCEPT ![c] = "slow"],
                 UNCHANGED <<osVars, pc, state, latest, server, watcher, seen>>
          PROVE OsType' /\ CtlType' /\ misfires' \subseteq (Births \X BirthOrNone)
      <4>1. OsType' /\ CtlType'
        BY <3>4, OsUnchanged DEF CtlType
      <4> QED BY <3>1, <3>4, <4>1, HitType DEF AtPid
    <3>5. ASSUME UNCHANGED <<osVars, misfires>>, KillRaises(c)
          PROVE OsType' /\ CtlType' /\ misfires' \subseteq (Births \X BirthOrNone)
      BY <2>2, <3>2, <3>5, OsUnchanged, FinishType DEF KillFirst, KillRaises
    <3> QED BY <2>2, <3>1, <3>3, <3>4, <3>5 DEF KillFirst
  <2>3. CASE KillAgain(c)
    <3>1. /\ WdType' /\ file' = file /\ seen[c] \in BirthOrNone
          /\ Finish(c) \/ \E m \in WatcherStatus : Leave(c, m)
      BY <2>3, WdUnchanged DEF KillAgain, KillRaises, CtlType
    <3>2. CtlType'
      BY <2>3, <3>1, FinishType, LeaveType DEF KillAgain
    <3>3. OsType' /\ misfires' \subseteq (Births \X BirthOrNone)
      BY <2>3, <3>1, StrikeType, OsUnchanged DEF KillAgain, Matches
    <3> QED BY <3>1, <3>2, <3>3
  <2> QED BY <1>7, <2>1, <2>2, <2>3 DEF Kill
<1>8. ASSUME NEW c \in Ctl, Launch(c)
      PROVE OsType' /\ CtlType' /\ WdType' /\ file' \in Record
            /\ misfires' \subseteq (Births \X BirthOrNone)
  <2>1. CASE LaunchPreflight(c)
    BY <2>1, OsUnchanged, WdUnchanged DEF LaunchPreflight, CtlType, Goto, locals
  <2>2. CASE LaunchPopen(c)
    <3>1. WdType' /\ file' = file /\ misfires' = misfires
      BY <2>2, WdUnchanged DEF LaunchPopen
    <3>2. CASE Spawn("server") /\ server' = [server EXCEPT ![c] = last + 1]
               /\ Goto(c, "identify") /\ UNCHANGED <<state, latest, watcher, kill, seen>>
      <4>1. OsType' /\ last + 1 \in BirthOrNone
        BY <3>2, SpawnType
      <4> QED BY <3>1, <3>2, <4>1 DEF CtlType, Goto
    <3>3. CASE Finish(c) /\ UNCHANGED osVars
      BY <3>1, <3>3, OsUnchanged, FinishType
    <3> QED BY <2>2, <3>2, <3>3 DEF LaunchPopen
  <2>3. CASE LaunchIdentify(c)
    <3>1. server[c] \in BirthOrNone
      BY DEF CtlType
    <3>2. state' \in [Ctl -> Record]
      BY <2>3, <3>1 DEF LaunchIdentify, CtlType
    <3>3. CtlType'
      BY ZenonT(30), <2>3, <3>2 DEF LaunchIdentify, CtlType, Goto
    <3> QED BY <2>3, <3>3, OsUnchanged, WdUnchanged DEF LaunchIdentify
  <2>4. CASE LaunchPublish(c)
    BY <2>4, OsUnchanged, WdUnchanged DEF LaunchPublish, CtlType, Goto, locals
  <2>5. CASE LaunchHealthy(c)
    BY <2>5, OsUnchanged, WdUnchanged DEF LaunchHealthy, CtlType, Goto, locals
  <2>6. CASE LaunchSetRunning(c)
    BY <2>6, OsUnchanged, WdUnchanged DEF LaunchSetRunning, CtlType, Goto, locals
  <2>7. CASE LaunchAnnounce(c)
    BY <2>7, OsUnchanged, WdUnchanged DEF LaunchAnnounce, CtlType, Goto, locals
  <2>8. CASE LaunchSpawnWatchdog(c)
    BY <2>8, SpawnType DEF LaunchSpawnWatchdog, CtlType, Goto, locals, OsType, WdType
  <2>9. CASE LaunchTelemetrySeen(c)
    BY <2>9, OsUnchanged, WdUnchanged DEF LaunchTelemetrySeen, CtlType, Goto, locals
  <2>10. CASE LaunchTelemetryTimeout(c)
    <3>1. CtlType' /\ WdType' /\ file' = file /\ misfires' = misfires
      BY <2>10, WdUnchanged DEF LaunchTelemetryTimeout, CtlType, Goto, locals
    <3>2. watcher[c] \in Births /\ (Die(watcher[c]) \/ UNCHANGED osVars)
      BY <2>10 DEF LaunchTelemetryTimeout
    <3>3. OsType'
      BY <3>2, DieType, OsUnchanged
    <3> QED BY <3>1, <3>3
  <2>11. CASE LaunchVerify(c)
    <3>1. watcher[c] \in BirthOrNone /\ state[c] \in Record
      BY DEF CtlType
    <3>2. [state[c] EXCEPT !.wstatus = "running", !.wd = watcher[c]] \in Record
      BY <3>1
    <3>3. state' \in [Ctl -> Record]
      BY <2>11, <3>2 DEF LaunchVerify, CtlType
    <3>4. CtlType'
      BY <2>11, <3>3 DEF LaunchVerify, CtlType, Goto
    <3> QED BY <2>11, <3>4, OsUnchanged, WdUnchanged DEF LaunchVerify
  <2>12. CASE LaunchWriteFinal(c)
    BY <2>12, OsUnchanged, WdUnchanged DEF LaunchWriteFinal, CtlType, Goto, locals
  <2>13. CASE LaunchConfirm(c)
    BY <2>13, OsUnchanged, WdUnchanged, FinishType DEF LaunchConfirm, CtlType, Goto, locals
  <2>14. CASE LaunchConfirmRead(c)
    BY <2>14, OsUnchanged, WdUnchanged DEF LaunchConfirmRead, CtlType, Goto, locals, ReadLatest
  <2>15. CASE LaunchConfirmWrite(c)
    BY <2>15, OsUnchanged, WdUnchanged DEF LaunchConfirmWrite, CtlType, Goto, locals
  <2>16. CASE LaunchRaise(c)
    BY <2>16, OsUnchanged, WdUnchanged DEF LaunchRaise, CtlType, Goto, locals, LaunchBodyPc, LaunchWatchPc
  <2>17. CASE LaunchHandlerRead(c)
    BY <2>17, OsUnchanged, WdUnchanged DEF LaunchHandlerRead, CtlType, Goto, locals, ReadLatest
  <2>18. CASE LaunchHandlerWrite(c)
    <3>1. latest[c] \in Record
      BY DEF CtlType
    <3>2. file' \in Record
      BY ZenonT(30), <2>18, <3>1 DEF LaunchHandlerWrite
    <3> QED BY <2>18, <3>2, OsUnchanged, WdUnchanged, FinishType DEF LaunchHandlerWrite
  <2> QED BY <1>8, <2>1, <2>2, <2>3, <2>4, <2>5, <2>6, <2>7, <2>8, <2>9, <2>10, <2>11, <2>12, <2>13, <2>14, <2>15, <2>16, <2>17, <2>18 DEF Launch
<1>9. ASSUME NEW c \in Ctl, Api(c)
      PROVE OsType' /\ CtlType' /\ WdType' /\ file' \in Record
            /\ misfires' \subseteq (Births \X BirthOrNone)
  <2>1. CASE ApiCall(c)
    BY <2>1, OsUnchanged, WdUnchanged, FinishType DEF ApiCall, CtlType, Goto, locals
  <2>2. CASE ApiWrite(c)
    BY <2>2, OsUnchanged, WdUnchanged, FinishType DEF ApiWrite, CtlType, Goto, locals
  <2> QED BY <1>9, <2>1, <2>2 DEF Api
<1>10. ASSUME NEW c \in Ctl, Stop(c)
      PROVE OsType' /\ CtlType' /\ WdType' /\ file' \in Record
            /\ misfires' \subseteq (Births \X BirthOrNone)
  <2>1. CASE StopSaveCheck(c)
    BY ZenonT(30), <2>1, OsUnchanged, WdUnchanged, FinishType DEF StopSaveCheck, CtlType, Goto, locals, Owned
  <2>2. CASE StopSaveCall(c)
    BY <2>2, OsUnchanged, WdUnchanged, FinishType DEF StopSaveCall, CtlType, Goto, locals
  <2>3. CASE StopSaveWrite(c)
    BY <2>3, OsUnchanged, WdUnchanged DEF StopSaveWrite, CtlType, Goto, locals
  <2>4. CASE StopWrite(c)
    BY <2>4, OsUnchanged, WdUnchanged, FinishType DEF StopWrite, CtlType, Goto, locals
  <2> QED BY <1>10, <2>1, <2>2, <2>3, <2>4 DEF Stop
<1>11. ASSUME NEW w \in Births, Watchdog(w)
      PROVE OsType' /\ CtlType' /\ WdType' /\ file' \in Record
            /\ misfires' \subseteq (Births \X BirthOrNone)
  <2>1. CASE WatchInit(w)
    <3>1. CtlType' /\ file' = file /\ misfires' = misfires
      BY <2>1, CtlUnchanged DEF WatchInit
    <3>2. CASE WExit(w)
      BY <3>1, <3>2, WExitType
    <3>3. CASE ~WExit(w)
      <4>1. OsType'
        BY <2>1, <3>3, OsUnchanged DEF WatchInit
      <4>2. file.srv \in BirthOrNone
        OBVIOUS
      <4>3. /\ wtarget' = [wtarget EXCEPT ![w] = file.srv]
            /\ wpc' = [wpc EXCEPT ![w] = "poll"]
            /\ UNCHANGED <<warg, wlatest, wkill, wseen, telemetry>>
        BY <2>1, <3>3 DEF WatchInit, WGoto
      <4>4. WdType'
        BY <4>2, <4>3 DEF WdType
      <4> QED BY <3>1, <4>1, <4>4
    <3> QED BY <3>2, <3>3
  <2>2. CASE WatchPoll(w)
    <3>1. CtlType' /\ file' = file /\ misfires' = misfires
      BY <2>2, CtlUnchanged DEF WatchPoll
    <3>2. CASE WExit(w)
      BY <3>1, <3>2, WExitType
    <3>3. CASE ~WExit(w)
      BY <2>2, <3>1, <3>3, OsUnchanged DEF WatchPoll, WdType, WGoto
    <3> QED BY <3>2, <3>3
  <2>3. CASE WatchSnapshot(w)
    <3>1. wtarget[w] \in BirthOrNone
      BY DEF WdType
    <3>2. telemetry' \subseteq BirthOrNone
      BY <2>3, <3>1 DEF WatchSnapshot, WdType
    <3>3. \E to \in WatchPc : wpc' = [wpc EXCEPT ![w] = to]
      BY <2>3 DEF WatchSnapshot, WGoto
    <3>4. WdType'
      BY ZenonT(30), <2>3, <3>2, <3>3 DEF WatchSnapshot, WdType
    <3> QED
      BY <2>3, <3>4, OsUnchanged, CtlUnchanged DEF WatchSnapshot
  <2>4. CASE WatchKillCheck(w)
    <3>1. CtlType' /\ file' = file /\ misfires' = misfires
      BY <2>4, CtlUnchanged DEF WatchKillCheck
    <3>2. CASE /\ wkill' = [wkill EXCEPT ![w] = "armed"]
               /\ wseen' = [wseen EXCEPT ![w] = last]
               /\ UNCHANGED <<osVars, wpc, warg, wtarget, wlatest, telemetry>>
      <4>1. OsType' /\ last \in BirthOrNone
        BY <3>2, OsUnchanged DEF OsType
      <4> QED BY <3>1, <3>2, <4>1 DEF WdType
    <3>3. CASE WLeave(w) /\ UNCHANGED osVars
      BY <3>1, <3>3, WLeaveType, OsUnchanged
    <3>4. CASE WRaises(w)
      BY <3>1, <3>4, WRaisesType
    <3> QED BY <2>4, <3>2, <3>3, <3>4 DEF WatchKillCheck
  <2>5. CASE WatchKillFirst(w)
    <3>1. CtlType' /\ file' = file /\ wseen[w] \in BirthOrNone
      BY <2>5, CtlUnchanged DEF WatchKillFirst, WdType
    <3>2. ASSUME NEW v \in AtPid(wtarget[w]), Strike(v, wtarget[w], wseen[w]), WLeave(w)
          PROVE OsType' /\ WdType' /\ misfires' \subseteq (Births \X BirthOrNone)
      BY <3>1, <3>2, StrikeType, WLeaveType DEF AtPid
    <3>3. ASSUME NEW v \in AtPid(wtarget[w]), Hit(v, wtarget[w], wseen[w]),
                 wkill' = [wkill EXCEPT ![w] = "slow"],
                 UNCHANGED <<osVars, wpc, warg, wtarget, wlatest, wseen, telemetry>>
          PROVE OsType' /\ WdType' /\ misfires' \subseteq (Births \X BirthOrNone)
      <4>1. OsType' /\ WdType'
        BY <3>3, OsUnchanged DEF WdType
      <4> QED BY <3>1, <3>3, <4>1, HitType DEF AtPid
    <3>4. ASSUME misfires' = misfires, WRaises(w)
          PROVE OsType' /\ WdType' /\ misfires' \subseteq (Births \X BirthOrNone)
      BY <3>4, WRaisesType
    <3> QED BY <2>5, <3>1, <3>2, <3>3, <3>4 DEF WatchKillFirst
  <2>6. CASE WatchKillAgain(w)
    <3>1. CtlType' /\ file' = file /\ wseen[w] \in BirthOrNone
      BY <2>6, CtlUnchanged DEF WatchKillAgain, WdType
    <3>2. CASE Matches(wtarget[w]) /\ Strike(wtarget[w], wtarget[w], wseen[w]) /\ WLeave(w)
      BY <3>1, <3>2, StrikeType, WLeaveType DEF Matches
    <3>3. CASE misfires' = misfires /\ WRaises(w)
      BY <3>1, <3>3, WRaisesType
    <3> QED BY <2>6, <3>2, <3>3 DEF WatchKillAgain
  <2>7. CASE WatchRead(w)
    BY <2>7, OsUnchanged, CtlUnchanged DEF WatchRead, WdType, WGoto
  <2>8. CASE WatchWrite(w)
    BY <2>8, CtlUnchanged, WExitType DEF WatchWrite, WdType, WGoto
  <2>9. CASE WatchRaise(w)
    BY <2>9, CtlUnchanged, WRaisesType DEF WatchRaise
  <2> QED BY <1>11, <2>1, <2>2, <2>3, <2>4, <2>5, <2>6, <2>7, <2>8, <2>9 DEF Watchdog
<1> QED
  BY <1>1, <1>2, <1>3, <1>4, <1>5, <1>6, <1>7, <1>8, <1>9, <1>10, <1>11, <1>12 DEF Next, Environment, Begin, Command, TypeOK

\* Every variable of the controller keeps its type.
THEOREM TypeCorrect == Spec => []TypeOK
<1> QED BY TypeInit, TypeNext, PTL DEF Spec
-----------------------------------------------------------------------------
(* Safety.  The inductive invariant says what every copy of server.json is     *)
(* worth, whoever holds it and however old it is: it names processes that were  *)
(* started, and if it says "stopped" its server is gone for good.               *)

SoundIn(r, l, a) ==
    /\ r.srv <= l /\ r.wd <= l
    /\ r.status = "stopped" => r.srv \notin a

\* A termination aimed at t since the birth `since` can only go astray to a
\* process that was born later.
AimIn(t, since, l, a, p) ==
    /\ t \in 1..l /\ since <= l
    /\ \A x \in a : (p[x] = p[t] /\ x # t) => x > since

PidUnique == \A x, y \in alive : pid[x] = pid[y] => x = y
Known ==
    /\ SoundIn(file, last, alive)
    /\ \A c \in Ctl : /\ SoundIn(state[c], last, alive) /\ SoundIn(latest[c], last, alive)
                      /\ server[c] <= last /\ watcher[c] <= last
    /\ \A w \in Births : SoundIn(wlatest[w], last, alive) /\ wtarget[w] <= last
Aims ==
    /\ \A c \in Ctl : kill[c] # "no" => pc[c] \in KillSites
    /\ \A c \in Ctl : kill[c] = "armed" => AimIn(Target(c), seen[c], last, alive, pid)
    /\ \A w \in Births : wkill[w] # "no" => wpc[w] \in WatchSites /\ w <= last /\ wtarget[w] # 0
    /\ \A w \in Births : wkill[w] = "armed" => AimIn(wtarget[w], wseen[w], last, alive, pid)
\* `stop` has ended its server before it writes that; a failing launch has, or
\* has given up on it.
Done == {"handler_read", "handler_write", "write_stopped"}
Ended(srv, at, a, g) == /\ at = "write_stopped" => srv \notin a
                        /\ at \in {"handler_read", "handler_write"} => srv \notin a \ g
Gone == \A c \in Ctl : Ended(state[c].srv, pc[c], alive, givenup)
IInv == TypeOK /\ PidUnique /\ Known /\ Aims /\ Gone /\ NoStaleKill

Shrink == alive' \subseteq alive /\ last' = last /\ pid' = pid
Grow == \E k \in {"server", "watchdog", "foreign"} : Spawn(k)
OsStep == Shrink \/ Grow

\* What a process held before a step about birth and death, it may hold after.
LEMMA Carry ==
    ASSUME TypeOK, PidUnique, OsStep
    PROVE  /\ PidUnique' /\ last <= last' /\ last \in Nat /\ last' \in Nat
           /\ \A r \in Record : SoundIn(r, last, alive) => SoundIn(r, last', alive')
           /\ \A t, s \in BirthOrNone :
                 AimIn(t, s, last, alive, pid) => AimIn(t, s, last', alive', pid')
           /\ \A b \in 0..last : b \notin alive => b \notin alive'
<1>1. last \in Nat /\ alive \subseteq 1..last /\ \A r \in Record : r.srv \in Nat /\ r.wd \in Nat
  BY Updates, BirthFacts DEF TypeOK, OsType
<1>2. CASE Shrink
  BY <1>1, <1>2 DEF Shrink, PidUnique, SoundIn, AimIn
<1>3. ASSUME NEW k \in {"server", "watchdog", "foreign"}, Spawn(k)
      PROVE  /\ PidUnique' /\ last <= last' /\ last \in Nat /\ last' \in Nat
             /\ \A r \in Record : SoundIn(r, last, alive) => SoundIn(r, last', alive')
             /\ \A t, s \in BirthOrNone :
                   AimIn(t, s, last, alive, pid) => AimIn(t, s, last', alive', pid')
             /\ \A b \in 0..last : b \notin alive => b \notin alive'
  <2>1. PICK p \in FreePids : pid' = [pid EXCEPT ![last + 1] = p]
    BY <1>3 DEF Spawn
  <2>2. last + 1 \in Births /\ last' = last + 1 /\ alive' = alive \cup {last + 1}
    BY <1>3, SpawnType DEF TypeOK, Spawn
  <2>3. alive \subseteq Births /\ \A b \in alive : pid[b] # p
    BY <2>1, AliveBirths DEF TypeOK, FreePids
  <2>4. pid'[last + 1] = p /\ \A b \in 1..last : pid'[b] = pid[b]
    <3>1. 1..last \subseteq Births
      BY BirthFacts DEF TypeOK, OsType
    <3> QED BY <1>1, <2>1, <2>2, <3>1 DEF TypeOK, OsType
  <2>5. PidUnique'
    BY <1>1, <2>2, <2>3, <2>4 DEF PidUnique
  <2>6. \A r \in Record : SoundIn(r, last, alive) => SoundIn(r, last', alive')
    BY <1>1, <2>2 DEF SoundIn
  <2>7. \A t, s \in BirthOrNone :
           AimIn(t, s, last, alive, pid) => AimIn(t, s, last', alive', pid')
    BY <1>1, <2>2, <2>4, BirthFacts DEF AimIn
  <2> QED BY <1>1, <2>2, <2>5, <2>6, <2>7
<1> QED BY <1>2, <1>3 DEF OsStep, Grow

\* What the processes hold after a step, judged by the births and deaths before it.
NewKnown ==
    /\ SoundIn(file', last, alive)
    /\ \A c \in Ctl : /\ SoundIn(state'[c], last, alive) /\ SoundIn(latest'[c], last, alive)
                      /\ server'[c] <= last' /\ watcher'[c] <= last'
    /\ \A w \in Births : SoundIn(wlatest'[w], last, alive) /\ wtarget'[w] <= last'

\* A process found dead stays dead, and its records stay sound.
LEMMA KnownNext ==
    ASSUME TypeOK, TypeOK', PidUnique, OsStep, NewKnown
    PROVE  Known' /\ PidUnique'
<1>1. /\ file' \in Record /\ \A c \in Ctl : state'[c] \in Record /\ latest'[c] \in Record
      /\ \A w \in Births : wlatest'[w] \in Record
  BY DEF TypeOK, CtlType, WdType
<1> QED BY <1>1, Carry DEF Known, NewKnown

\* What a step of command c leaves alone: the locals of the other commands and
\* what the watchdogs have read and aim at.
OnlyCommand(c) ==
    /\ \A d \in Ctl : d # c =>
          /\ pc'[d] = pc[d] /\ state'[d] = state[d] /\ latest'[d] = latest[d]
          /\ server'[d] = server[d] /\ watcher'[d] = watcher[d]
          /\ kill'[d] = kill[d] /\ seen'[d] = seen[d]
    /\ wlatest' = wlatest /\ wtarget' = wtarget /\ wkill' = wkill /\ wseen' = wseen
    /\ \A w \in Births : w <= last => wpc'[w] = wpc[w]

LEMMA CommandStep ==
    ASSUME IInv, TypeOK', OsStep, NEW c \in Ctl, OnlyCommand(c),
           SoundIn(file', last, alive),
           SoundIn(state'[c], last, alive), SoundIn(latest'[c], last, alive),
           server'[c] <= last', watcher'[c] <= last',
           kill'[c] # "no" => pc'[c] \in KillSites,
           kill'[c] = "armed" => AimIn(Target(c)', seen'[c], last, alive, pid),
           Ended(state'[c].srv, pc'[c], alive', givenup'), givenup \subseteq givenup',
           NoStaleKill'
    PROVE  IInv'
<1>1. /\ PidUnique /\ Known /\ Aims /\ Gone /\ TypeOK
  BY DEF IInv
<1>2. /\ last <= last' /\ last \in Nat /\ last' \in Nat
      /\ \A t, s \in BirthOrNone :
            AimIn(t, s, last, alive, pid) => AimIn(t, s, last', alive', pid')
      /\ \A b \in 0..last : b \notin alive => b \notin alive'
  BY <1>1, Carry
<1>3. /\ \A d \in Ctl : /\ server[d] \in Nat /\ watcher[d] \in Nat
                        /\ state[d] \in Record /\ seen[d] \in BirthOrNone
                        /\ state'[d] \in Record /\ seen'[d] \in BirthOrNone
      /\ \A w \in Births : wtarget[w] \in BirthOrNone /\ wseen[w] \in BirthOrNone
                            /\ wtarget[w] \in Nat
      /\ BirthOrNone \subseteq Nat
  BY <1>1, BirthFacts DEF TypeOK, CtlType, WdType
<1>4. Known' /\ PidUnique'
  <2>1. \A d \in Ctl : /\ SoundIn(state'[d], last, alive) /\ SoundIn(latest'[d], last, alive)
                       /\ server'[d] <= last' /\ watcher'[d] <= last'
    BY <1>1, <1>2, <1>3 DEF Known, OnlyCommand
  <2>2. ASSUME NEW w \in Births PROVE SoundIn(wlatest'[w], last, alive) /\ wtarget'[w] <= last'
    <3>1. SoundIn(wlatest[w], last, alive) /\ wtarget[w] <= last
      BY <1>1 DEF Known
    <3> QED BY <1>2, <1>3, <3>1 DEF OnlyCommand
  <2>3. NewKnown
    BY <2>1, <2>2 DEF NewKnown
  <2> QED BY <1>1, <2>3, KnownNext
<1>5. Gone'
  <2>1. ASSUME NEW d \in Ctl, d # c PROVE Ended(state'[d].srv, pc'[d], alive', givenup')
    <3>1. state'[d] = state[d] /\ pc'[d] = pc[d] /\ Ended(state[d].srv, pc[d], alive, givenup)
      BY <1>1, <2>1 DEF OnlyCommand, Gone
    <3>2. SoundIn(state[d], last, alive) /\ state[d].srv \in Nat
      BY <1>1, <1>3, Updates DEF Known
    <3>3. state[d].srv \in 0..last
      BY <1>2, <3>2 DEF SoundIn
    <3> QED BY <1>2, <3>1, <3>3 DEF Ended
  <2> QED BY <2>1 DEF Gone
<1>6. Aims'
  <2>1. \A d \in Ctl : kill'[d] # "no" => pc'[d] \in KillSites
    BY <1>1 DEF Aims, OnlyCommand
  <2>2. ASSUME NEW d \in Ctl, kill'[d] = "armed"
        PROVE  AimIn(Target(d)', seen'[d], last', alive', pid')
    <3>1. Target(d)' \in BirthOrNone /\ seen'[d] \in BirthOrNone
      BY <1>3, Updates DEF Target
    <3>2. AimIn(Target(d)', seen'[d], last, alive, pid)
      <4>1. CASE d # c
        BY <1>1, <2>2, <4>1 DEF Aims, OnlyCommand, Target
      <4> QED BY <2>2, <4>1
    <3> QED BY <1>2, <3>1, <3>2
  <2>3. ASSUME NEW w \in Births, wkill'[w] # "no"
        PROVE  wpc'[w] \in WatchSites /\ w <= last' /\ wtarget'[w] # 0
    BY <1>1, <1>2, <2>3, BirthFacts DEF Aims, OnlyCommand
  <2>4. ASSUME NEW w \in Births, wkill'[w] = "armed"
        PROVE  AimIn(wtarget'[w], wseen'[w], last', alive', pid')
    BY <1>1, <1>2, <1>3, <2>4 DEF Aims, OnlyCommand
  <2> QED BY <2>1, <2>2, <2>3, <2>4 DEF Aims, KillSites
<1> QED BY <1>4, <1>5, <1>6 DEF IInv

\* The same for a step of watchdog w.
OnlyWatchdog(w) ==
    /\ \A v \in Births : v # w =>
          /\ wpc'[v] = wpc[v] /\ wlatest'[v] = wlatest[v] /\ wtarget'[v] = wtarget[v]
          /\ wkill'[v] = wkill[v] /\ wseen'[v] = wseen[v]
    /\ UNCHANGED ctlVars

LEMMA WatchdogStep ==
    ASSUME IInv, TypeOK', OsStep, NEW w \in Births, OnlyWatchdog(w),
           SoundIn(file', last, alive), SoundIn(wlatest'[w], last, alive),
           wtarget'[w] <= last',
           wkill'[w] # "no" => wpc'[w] \in WatchSites /\ w <= last /\ wtarget'[w] # 0,
           wkill'[w] = "armed" => AimIn(wtarget'[w], wseen'[w], last, alive, pid),
           givenup \subseteq givenup', NoStaleKill'
    PROVE  IInv'
<1>1. /\ PidUnique /\ Known /\ Aims /\ Gone /\ TypeOK
  BY DEF IInv
<1>2. /\ last <= last' /\ last \in Nat /\ last' \in Nat
      /\ \A t, s \in BirthOrNone :
            AimIn(t, s, last, alive, pid) => AimIn(t, s, last', alive', pid')
      /\ \A b \in 0..last : b \notin alive => b \notin alive'
  BY <1>1, Carry
<1>3. /\ \A d \in Ctl : /\ server[d] \in Nat /\ watcher[d] \in Nat
                        /\ state[d] \in Record /\ seen[d] \in BirthOrNone
      /\ \A v \in Births : wtarget'[v] \in BirthOrNone /\ wseen'[v] \in BirthOrNone
      /\ \A v \in Births : wtarget[v] \in Nat /\ v \in Nat
      /\ BirthOrNone \subseteq Nat
  BY <1>1, BirthFacts DEF TypeOK, CtlType, WdType
<1>4. UNCHANGED <<pc, state, latest, server, watcher, kill, seen>>
  BY DEF OnlyWatchdog, ctlVars
<1>5. Known' /\ PidUnique'
  <2>1. \A d \in Ctl : /\ SoundIn(state'[d], last, alive) /\ SoundIn(latest'[d], last, alive)
                       /\ server'[d] <= last' /\ watcher'[d] <= last'
    BY <1>1, <1>2, <1>3, <1>4 DEF Known
  <2>2. ASSUME NEW v \in Births PROVE SoundIn(wlatest'[v], last, alive) /\ wtarget'[v] <= last'
    <3>1. SoundIn(wlatest[v], last, alive) /\ wtarget[v] <= last
      BY <1>1 DEF Known
    <3> QED BY <1>2, <1>3, <3>1 DEF OnlyWatchdog
  <2>3. NewKnown
    BY <2>1, <2>2 DEF NewKnown
  <2> QED BY <1>1, <2>3, KnownNext
<1>6. Gone'
  <2>1. ASSUME NEW d \in Ctl PROVE state[d].srv \in 0..last
    <3>1. SoundIn(state[d], last, alive) /\ state[d].srv \in Nat
      BY <1>1, <1>3, Updates DEF Known
    <3> QED BY <1>2, <3>1 DEF SoundIn
  <2> QED BY <1>1, <1>2, <1>4, <2>1 DEF Gone, Ended
<1>7. Aims'
  <2>1. \A d \in Ctl : kill'[d] # "no" => pc'[d] \in KillSites
    BY <1>1, <1>4 DEF Aims
  <2>2. ASSUME NEW d \in Ctl, kill'[d] = "armed"
        PROVE  AimIn(Target(d)', seen'[d], last', alive', pid')
    <3>1. Target(d)' = Target(d) /\ Target(d) \in BirthOrNone
      BY <1>3, <1>4, Updates DEF Target
    <3> QED BY <1>1, <1>2, <1>3, <1>4, <2>2, <3>1 DEF Aims
  <2>3. ASSUME NEW v \in Births, wkill'[v] # "no"
        PROVE  wpc'[v] \in WatchSites /\ v <= last' /\ wtarget'[v] # 0
    BY <1>1, <1>2, <1>3, <2>3 DEF Aims, OnlyWatchdog
  <2>4. ASSUME NEW v \in Births, wkill'[v] = "armed"
        PROVE  AimIn(wtarget'[v], wseen'[v], last', alive', pid')
    <3>1. AimIn(wtarget'[v], wseen'[v], last, alive, pid)
      BY <1>1, <2>4 DEF Aims, OnlyWatchdog
    <3> QED BY <1>2, <1>3, <3>1
  <2> QED BY <2>1, <2>2, <2>3, <2>4 DEF Aims, KillSites
<1> QED BY <1>5, <1>6, <1>7 DEF IInv



\* The locals after the command's process has ended.
LEMMA FinishStep ==
    ASSUME TypeOK, NEW c \in Ctl, Finish(c), UNCHANGED wdVars
    PROVE  /\ OnlyCommand(c) /\ pc'[c] = "idle" /\ kill'[c] = "no"
           /\ state'[c] = NoRecord /\ latest'[c] = NoRecord
           /\ server'[c] = 0 /\ watcher'[c] = 0
BY DEF TypeOK, CtlType, Finish, Goto, OnlyCommand, wdVars, NoBirth

LEMMA GotoStep ==
    ASSUME TypeOK, NEW c \in Ctl, NEW to, Goto(c, to), UNCHANGED locals, UNCHANGED wdVars
    PROVE  /\ OnlyCommand(c) /\ pc'[c] = to
           /\ state'[c] = state[c] /\ latest'[c] = latest[c]
           /\ server'[c] = server[c] /\ watcher'[c] = watcher[c]
           /\ kill'[c] = kill[c] /\ seen'[c] = seen[c]
BY DEF TypeOK, CtlType, Goto, locals, OnlyCommand, wdVars

LEMMA NothingSound == ASSUME TypeOK PROVE SoundIn(NoRecord, last, alive)
BY BirthFacts DEF TypeOK, OsType, SoundIn, NoRecord, NoBirth

LEMMA OsQuiet == ASSUME UNCHANGED osVars PROVE OsStep
BY DEF osVars, OsStep, Shrink

LEMMA OsDie == ASSUME NEW b, Die(b) PROVE OsStep
BY DEF Die, OsStep, Shrink

LEMMA OsStrike == ASSUME NEW v, NEW t, NEW s, Strike(v, t, s) PROVE OsStep
BY OsDie DEF Strike

LEMMA OsSpawn == ASSUME NEW k \in {"server", "watchdog", "foreign"}, Spawn(k) PROVE OsStep
BY DEF OsStep, Grow

\* What the invariant says about one command, in the form the steps use.
LEMMA Held1 ==
    ASSUME IInv, NEW c \in Ctl
    PROVE  /\ TypeOK /\ last \in Nat /\ server[c] \in Nat /\ watcher[c] \in Nat
           /\ SoundIn(file, last, alive) /\ file \in Record
           /\ SoundIn(state[c], last, alive) /\ SoundIn(latest[c], last, alive)
           /\ state[c] \in Record /\ latest[c] \in Record
           /\ server[c] <= last /\ watcher[c] <= last
           /\ kill[c] # "no" => pc[c] \in KillSites
           /\ NoStaleKill
BY BirthFacts DEF IInv, TypeOK, OsType, CtlType, Known, Aims

\* What command c may change, and what it must keep sound.
Effect(c) ==
    /\ OnlyCommand(c)
    /\ SoundIn(file', last, alive)
    /\ SoundIn(state'[c], last, alive) /\ SoundIn(latest'[c], last, alive)
    /\ server'[c] <= last' /\ watcher'[c] <= last'

\* Most steps aim at nothing and claim nothing about the server.
Settled(c) == Effect(c) /\ kill'[c] = "no" /\ pc'[c] \notin Done

LEMMA SettledStep ==
    ASSUME IInv, TypeOK', OsStep, NEW c \in Ctl, Settled(c), misfires' = misfires,
           givenup \subseteq givenup'
    PROVE  IInv'
<1>1. Ended(state'[c].srv, pc'[c], alive', givenup')
  BY DEF Settled, Done, Ended
<1> QED BY <1>1, CommandStep DEF Settled, Effect, IInv, NoStaleKill

\* A site that is done with its target, which is gone if it is the server.
LEMMA LeaveStep ==
    ASSUME IInv, TypeOK', OsStep, NEW c \in Ctl, NEW mark \in WatcherStatus,
           pc[c] \in KillSites, Leave(c, mark), file' = file, UNCHANGED wdVars,
           last' = last, NoStaleKill', givenup \subseteq givenup',
           pc[c] = "outer_handler" => state[c].srv \notin alive' \ givenup',
           pc[c] = "stop_server" => state[c].srv \notin alive'
    PROVE  IInv'
<1> USE Held1
<1>1. /\ OnlyCommand(c) /\ kill'[c] = "no" /\ pc'[c] = After(pc[c])
      /\ state'[c] \in {state[c], [state[c] EXCEPT !.wstatus = mark]}
      /\ UNCHANGED <<latest, server, watcher>>
  BY DEF Leave, WatcherMarked, Goto, OnlyCommand, wdVars, TypeOK, CtlType
<1>2. SoundIn(state'[c], last, alive) /\ state'[c].srv = state[c].srv
  BY <1>1 DEF SoundIn, Record
<1>3. Ended(state'[c].srv, pc'[c], alive', givenup')
  BY <1>1, <1>2 DEF After, KillSites, Ended
<1> QED BY <1>1, <1>2, <1>3, CommandStep

\* The same for one watchdog.
LEMMA Held2 ==
    ASSUME IInv, NEW w \in Births
    PROVE  /\ TypeOK /\ last \in Nat /\ alive \subseteq 1..last /\ NoStaleKill
           /\ SoundIn(file, last, alive) /\ file \in Record /\ wlatest[w] \in Record
           /\ SoundIn(wlatest[w], last, alive) /\ wtarget[w] <= last
           /\ wkill[w] # "no" => wpc[w] \in WatchSites /\ w <= last /\ wtarget[w] # 0
           /\ wkill[w] = "armed" => AimIn(wtarget[w], wseen[w], last, alive, pid)
           /\ w \in alive => w <= last
BY BirthFacts DEF IInv, TypeOK, OsType, WdType, Known, Aims

\* Nothing but the processes that run and the port changes.
LEMMA OsAloneStep ==
    ASSUME IInv, TypeOK', OsStep, NEW b \in Births, UNCHANGED <<file, ctlVars, wdVars, history>>
    PROVE  IInv'
<1>1. OnlyWatchdog(b) /\ wlatest' = wlatest /\ wtarget' = wtarget /\ wkill' = wkill
      /\ wseen' = wseen /\ wpc' = wpc /\ file' = file /\ misfires' = misfires
      /\ givenup' = givenup
  BY DEF OnlyWatchdog, wdVars, history
<1>2. last <= last'
  BY Carry DEF IInv
<1>3. wtarget[b] \in Nat /\ last' \in Nat
  BY BirthFacts, Carry DEF IInv, TypeOK, WdType
<1> QED BY <1>1, <1>2, <1>3, Held2, WatchdogStep DEF NoStaleKill

\* The watchdog is done with its target, or never aimed at it.
LEMMA WatchdogSettledStep ==
    ASSUME IInv, TypeOK', OsStep, NEW w \in Births, OnlyWatchdog(w), last' = last,
           SoundIn(file', last, alive), SoundIn(wlatest'[w], last, alive),
           wtarget'[w] <= last, wkill'[w] = "no", NoStaleKill', givenup \subseteq givenup'
    PROVE  IInv'
BY WatchdogStep

\* The three ways in which a watchdog is done with its target, or with itself.
LEMMA WExitStep ==
    ASSUME IInv, TypeOK', NEW w \in Births, WExit(w), UNCHANGED ctlVars,
           SoundIn(file', last, alive), misfires' = misfires, givenup \subseteq givenup'
    PROVE  IInv'
<1>1. /\ OnlyWatchdog(w) /\ wkill'[w] = "no" /\ wtarget'[w] = 0 /\ wlatest'[w] = NoRecord
      /\ last' = last
  BY DEF WExit, WGoto, Die, OnlyWatchdog, IInv, TypeOK, WdType, NoBirth
<1>2. OsStep
  BY OsDie DEF WExit
<1>3. NoStaleKill'
  BY Held2 DEF NoStaleKill
<1> QED BY <1>1, <1>2, <1>3, Held2, NothingSound, WatchdogSettledStep

LEMMA WLeaveStep ==
    ASSUME IInv, TypeOK', OsStep, last' = last, NEW w \in Births, WLeave(w),
           UNCHANGED <<file, ctlVars>>, NoStaleKill', givenup \subseteq givenup'
    PROVE  IInv'
<1>1. /\ OnlyWatchdog(w) /\ wkill'[w] = "no" /\ wtarget' = wtarget /\ wlatest' = wlatest
  BY DEF WLeave, WGoto, OnlyWatchdog, IInv, TypeOK, WdType
<1> QED BY <1>1, Held2, WatchdogSettledStep

LEMMA WRaisesStep ==
    ASSUME IInv, TypeOK', NEW w \in Births, WRaises(w), UNCHANGED <<file, ctlVars>>,
           misfires' = misfires, givenup \subseteq givenup'
    PROVE  IInv'
<1>1. CASE wpc[w] \in WatchHandlerPc
  BY <1>1, Held2, WExitStep DEF WRaises
<1>2. CASE wpc[w] \notin WatchHandlerPc
  <2>1. /\ OnlyWatchdog(w) /\ wkill'[w] = "no" /\ wtarget' = wtarget /\ wlatest' = wlatest
        /\ UNCHANGED osVars
    BY <1>2 DEF WRaises, WGoto, OnlyWatchdog, IInv, TypeOK, WdType
  <2>2. OsStep /\ last' = last /\ NoStaleKill'
    BY <2>1, OsQuiet, Held2 DEF osVars, NoStaleKill
  <2> QED BY <2>1, <2>2, Held2, WatchdogSettledStep
<1> QED BY <1>1, <1>2

LEMMA Inductive == IInv /\ [Next]_vars => IInv'
<1> SUFFICES ASSUME IInv, [Next]_vars PROVE IInv'
  OBVIOUS
<1>t. TypeOK /\ TypeOK' /\ givenup \subseteq givenup'
  BY TypeNext, GivenUpGrows DEF IInv
<1> USE DEF history
<1>1. CASE UNCHANGED vars
  BY <1>1 DEF vars, osVars, ctlVars, wdVars, IInv, TypeOK, OsType, CtlType, WdType, PidUnique,
     Known, SoundIn, Aims, AimIn, Target, Gone, Ended, NoStaleKill
<1>2. ASSUME NEW c \in Ctl, Begin(c) PROVE IInv'
  <2> USE <1>t, Held1, NothingSound
  <2>1. CASE LaunchBegin(c)
    <3>1. OsStep /\ misfires' = misfires
      BY <2>1, OsQuiet DEF LaunchBegin
    <3>2. Settled(c)
      BY <2>1, GotoStep DEF LaunchBegin, Settled, Effect, KillSites, Done, SoundIn, osVars, NoBirth
    <3> QED BY <3>1, <3>2, SettledStep
  <2>2. CASE ApiBegin(c)
    <3>1. OsStep /\ misfires' = misfires
      BY <2>2, OsQuiet DEF ApiBegin
    <3>2. Settled(c)
      BY <2>2 DEF ApiBegin, Owned, Settled, Effect, KillSites, Done, SoundIn, osVars, Goto, OnlyCommand, wdVars, TypeOK, CtlType, NoRecord
    <3> QED BY <3>1, <3>2, SettledStep
  <2>3. CASE StopBegin(c)
    <3>1. OsStep /\ misfires' = misfires
      BY <2>3, OsQuiet DEF StopBegin
    <3>2. Settled(c)
      BY <2>3 DEF StopBegin, Owned, Settled, Effect, KillSites, Done, SoundIn, osVars, Goto, OnlyCommand, wdVars, TypeOK, CtlType, NoRecord
    <3> QED BY <3>1, <3>2, SettledStep
  <2> QED BY <1>2, <2>1, <2>2, <2>3 DEF Begin
<1>3. ASSUME NEW c \in Ctl, Kill(c) PROVE IInv'
  <2> USE <1>t, Held1, NothingSound
  <2>1. CASE KillCheck(c)
    <3>1. /\ OsStep /\ misfires' = misfires /\ file' = file /\ UNCHANGED <<osVars, wdVars>>
          /\ last' = last /\ alive' = alive /\ pc[c] \in KillSites /\ kill[c] = "no" /\ NoStaleKill'
      BY <2>1, OsQuiet DEF KillCheck, osVars, NoStaleKill
    <3>2. CASE pc[c] = "stop_watcher" /\ Leave(c, state[c].wstatus)
      BY <3>1, <3>2, LeaveStep, Updates
    <3>3. CASE /\ Matches(Target(c)) /\ kill' = [kill EXCEPT ![c] = "armed"]
               /\ seen' = [seen EXCEPT ![c] = last]
               /\ UNCHANGED <<pc, state, latest, server, watcher>>
      <4>1. OnlyCommand(c) /\ seen'[c] = last /\ kill'[c] = "armed" /\ pc'[c] \notin Done
        BY <3>1, <3>3 DEF OnlyCommand, wdVars, TypeOK, CtlType, KillSites, Done
      <4>2. Target(c)' = Target(c) /\ Target(c) \in alive /\ Target(c) \in 1..last
        BY <3>3 DEF Matches, Target, TypeOK, OsType
      <4>3. AimIn(Target(c)', seen'[c], last, alive, pid)
        BY <4>1, <4>2 DEF AimIn, PidUnique, IInv
      <4> QED BY <3>1, <3>3, <4>1, <4>3, CommandStep DEF Ended, Done
    <3>4. CASE Spare(Target(c)) /\ pc[c] # "stop_server" /\ Leave(c, "not-owned-or-exited")
      <4>1. pc[c] = "outer_handler" => state[c].srv \notin alive' \ givenup'
        BY <3>1, <3>4 DEF Spare, Target
      <4> QED BY <3>1, <3>4, <4>1, LeaveStep, StatusFacts
    <3>5. CASE Finish(c)
      BY <3>1, <3>5, FinishStep, SettledStep DEF Settled, Effect, Done
    <3> QED BY <2>1, <3>2, <3>3, <3>4, <3>5 DEF KillCheck
  <2>4. ASSUME /\ file' = file /\ UNCHANGED <<osVars, wdVars, misfires>> /\ pc[c] \in KillSites
               /\ Spare(Target(c)) /\ KillRaises(c)
        PROVE  IInv'
    <3>1. OsStep /\ last' = last /\ NoStaleKill'
      BY <2>4, OsQuiet DEF osVars, NoStaleKill
    <3>2. CASE Finish(c)
      BY <2>4, <3>1, <3>2, FinishStep, SettledStep DEF Settled, Effect, Done
    <3>3. CASE pc[c] \in {"inner_handler", "outer_handler"} /\ Leave(c, "none")
      <4>1. pc[c] = "outer_handler" => state[c].srv \notin alive' \ givenup'
        BY <2>4 DEF Spare, Target, osVars
      <4> QED BY <2>4, <3>1, <3>3, <4>1, LeaveStep, StatusFacts
    <3> QED BY <2>4, <3>2, <3>3 DEF KillRaises, KillSites
  <2>2. CASE KillFirst(c)
    <3>1. /\ file' = file /\ UNCHANGED wdVars /\ pc[c] \in KillSites /\ kill[c] = "armed"
          /\ AimIn(Target(c), seen[c], last, alive, pid)
      BY <2>2 DEF KillFirst, IInv, Aims
    <3>2. ASSUME NEW v \in AtPid(Target(c)), Hit(v, Target(c), seen[c]) PROVE NoStaleKill'
      <4>1. v # Target(c) => v > seen[c]
        BY <3>1 DEF AimIn, AtPid
      <4> QED BY <3>2, <4>1 DEF Hit, NoStaleKill
    <3>3. ASSUME NEW v \in AtPid(Target(c)), Strike(v, Target(c), seen[c]), Leave(c, "stopped")
          PROVE  IInv'
      <4>1. v \in alive /\ pid[v] = pid[Target(c)] /\ alive' = alive \ {v} /\ last' = last
        BY <3>3 DEF AtPid, Strike, Die
      <4>2. Target(c) \notin alive'
        BY <4>1 DEF IInv, PidUnique
      <4>3. NoStaleKill'
        BY <3>2, <3>3 DEF Strike
      <4> QED BY <3>1, <3>3, <4>1, <4>2, <4>3, OsStrike, LeaveStep, StatusFacts DEF Target
    <3>4. ASSUME NEW v \in AtPid(Target(c)), Hit(v, Target(c), seen[c]),
                 kill' = [kill EXCEPT ![c] = "slow"],
                 UNCHANGED <<osVars, pc, state, latest, server, watcher, seen>>
          PROVE  IInv'
      <4>1. OsStep /\ last' = last /\ NoStaleKill'
        BY <3>2, <3>4, OsQuiet DEF osVars
      <4>2. OnlyCommand(c) /\ kill'[c] = "slow" /\ pc'[c] \notin Done
        BY <3>1, <3>4 DEF OnlyCommand, wdVars, TypeOK, CtlType, KillSites, Done
      <4> QED BY <3>1, <3>4, <4>1, <4>2, CommandStep DEF Ended, Done
    <3> QED BY <2>2, <2>4, <3>1, <3>3, <3>4 DEF KillFirst
  <2>3. CASE KillAgain(c)
    <3>1. file' = file /\ UNCHANGED wdVars /\ pc[c] \in KillSites
      BY <2>3 DEF KillAgain
    <3>2. CASE /\ Matches(Target(c)) /\ Strike(Target(c), Target(c), seen[c])
               /\ Leave(c, "stopped")
      <4>1. OsStep /\ last' = last /\ misfires' = misfires /\ Target(c) \notin alive'
        BY <3>2, OsStrike DEF Strike, Hit, Die
      <4> QED BY <3>1, <3>2, <4>1, LeaveStep, StatusFacts DEF Target, NoStaleKill
    <3>3. CASE pc[c] = "stop_watcher" /\ Leave(c, "stopped") /\ UNCHANGED <<osVars, misfires>>
      <4>1. OsStep /\ last' = last /\ NoStaleKill'
        BY <3>3, OsQuiet DEF osVars, NoStaleKill
      <4> QED BY <3>1, <3>3, <4>1, LeaveStep, StatusFacts
    <3> QED BY <2>3, <2>4, <3>1, <3>2, <3>3 DEF KillAgain
  <2> QED BY <1>3, <2>1, <2>2, <2>3 DEF Kill
<1>4. ASSUME NEW c \in Ctl, Launch(c) PROVE IInv'
  <2> USE <1>t, Held1, NothingSound
  <2>1. CASE LaunchPreflight(c)
    <3>1. OsStep /\ misfires' = misfires
      BY <2>1, OsQuiet DEF LaunchPreflight
    <3>2. Settled(c)
      BY <2>1, GotoStep DEF LaunchPreflight, Settled, Effect, KillSites, Done, SoundIn, osVars, NoBirth
    <3> QED BY <3>1, <3>2, SettledStep
  <2>2. CASE LaunchPopen(c)
    <3>1. OsStep /\ misfires' = misfires /\ file' = file /\ UNCHANGED wdVars /\ kill[c] = "no"
      BY <2>2, OsQuiet, OsSpawn DEF LaunchPopen, KillSites
    <3>2. CASE Finish(c) /\ UNCHANGED osVars
      <4>1. Settled(c)
        BY <3>1, <3>2, FinishStep DEF Settled, Effect, Done, osVars
      <4> QED BY <3>1, <4>1, SettledStep
    <3>3. CASE /\ Spawn("server") /\ server' = [server EXCEPT ![c] = last + 1]
               /\ Goto(c, "identify") /\ UNCHANGED <<state, latest, watcher, kill, seen>>
      <4>1. /\ last' = last + 1 /\ server' = [server EXCEPT ![c] = last + 1] /\ Goto(c, "identify")
            /\ UNCHANGED <<state, latest, watcher, kill, seen>>
        BY <3>3 DEF Spawn
      <4>2. OnlyCommand(c) /\ pc'[c] = "identify" /\ server'[c] = last + 1
        BY <3>1, <4>1 DEF TypeOK, CtlType, Goto, OnlyCommand, wdVars
      <4>3. Settled(c)
        BY <3>1, <4>1, <4>2 DEF Settled, Effect, Done
      <4> QED BY <3>1, <4>3, SettledStep
    <3> QED BY <2>2, <3>2, <3>3 DEF LaunchPopen
  <2>3. CASE LaunchIdentify(c)
    <3>1. /\ OsStep /\ misfires' = misfires /\ kill[c] = "no" /\ last' = last
          /\ file' = file /\ UNCHANGED <<latest, server, watcher, kill, seen, wdVars>>
      BY <2>3, OsQuiet DEF LaunchIdentify, KillSites, osVars
    <3>2. /\ OnlyCommand(c) /\ pc'[c] \notin Done
          /\ \/ state'[c] = state[c]
             \/ state'[c] = [NoRecord EXCEPT !.status = "starting", !.srv = server[c]]
      BY <2>3, <3>1 DEF LaunchIdentify, Goto, OnlyCommand, wdVars, TypeOK, CtlType, Done
    <3>3. SoundIn(state'[c], last, alive)
      BY <3>2 DEF SoundIn, NoRecord, NoBirth
    <3> QED BY <3>1, <3>2, <3>3, SettledStep DEF Settled, Effect
  <2>4. CASE LaunchPublish(c)
    <3>1. OsStep /\ misfires' = misfires
      BY <2>4, OsQuiet DEF LaunchPublish
    <3>2. Settled(c)
      BY <2>4, GotoStep DEF LaunchPublish, Settled, Effect, KillSites, Done, SoundIn, osVars, NoBirth
    <3> QED BY <3>1, <3>2, SettledStep
  <2>5. CASE LaunchHealthy(c)
    <3>1. OsStep /\ misfires' = misfires
      BY <2>5, OsQuiet DEF LaunchHealthy
    <3>2. Settled(c)
      BY <2>5, GotoStep DEF LaunchHealthy, Settled, Effect, KillSites, Done, SoundIn, osVars, NoBirth
    <3> QED BY <3>1, <3>2, SettledStep
  <2>6. CASE LaunchSetRunning(c)
    <3>1. OsStep /\ misfires' = misfires
      BY <2>6, OsQuiet DEF LaunchSetRunning
    <3>2. Settled(c)
      BY <2>6 DEF LaunchSetRunning, Settled, Effect, KillSites, Done, SoundIn, osVars, Goto, OnlyCommand, wdVars, TypeOK, CtlType, NoRecord
    <3> QED BY <3>1, <3>2, SettledStep
  <2>7. CASE LaunchAnnounce(c)
    <3>1. OsStep /\ misfires' = misfires
      BY <2>7, OsQuiet DEF LaunchAnnounce
    <3>2. Settled(c)
      BY <2>7 DEF LaunchAnnounce, Settled, Effect, KillSites, Done, SoundIn, osVars, Goto, OnlyCommand, wdVars, TypeOK, CtlType, NoRecord
    <3> QED BY <3>1, <3>2, SettledStep
  <2>8. CASE LaunchSpawnWatchdog(c)
    <3>1. /\ OsStep /\ misfires' = misfires /\ kill[c] = "no" /\ file' = file
          /\ UNCHANGED <<state, latest, server, kill, seen, wtarget, wlatest, wkill, wseen>>
      BY <2>8, OsSpawn DEF LaunchSpawnWatchdog, KillSites
    <3>2. /\ last' = last + 1 /\ watcher' = [watcher EXCEPT ![c] = last + 1]
          /\ wpc' = [wpc EXCEPT ![last + 1] = "init"] /\ Goto(c, "await_telemetry")
      BY <2>8 DEF LaunchSpawnWatchdog, Spawn
    <3>3. pc'[c] = "await_telemetry" /\ watcher'[c] = last + 1
      BY <3>2 DEF TypeOK, CtlType, Goto
    <3>4. \A w \in Births : w <= last => wpc'[w] = wpc[w]
      BY <3>2, BirthFacts DEF TypeOK, WdType
    <3>5. OnlyCommand(c)
      BY <3>1, <3>2, <3>4 DEF TypeOK, CtlType, Goto, OnlyCommand
    <3> QED BY <3>1, <3>2, <3>3, <3>5, SettledStep DEF Settled, Effect, Done
  <2>9. CASE LaunchTelemetrySeen(c)
    <3>1. OsStep /\ misfires' = misfires
      BY <2>9, OsQuiet DEF LaunchTelemetrySeen
    <3>2. Settled(c)
      BY <2>9, GotoStep DEF LaunchTelemetrySeen, Settled, Effect, KillSites, Done, SoundIn, osVars, NoBirth
    <3> QED BY <3>1, <3>2, SettledStep
  <2>10. CASE LaunchTelemetryTimeout(c)
    <3>1. OsStep /\ misfires' = misfires
      BY <2>10, OsDie, OsQuiet DEF LaunchTelemetryTimeout
    <3>2. Settled(c)
      BY <2>10, GotoStep DEF LaunchTelemetryTimeout, Die, osVars, Settled, Effect, KillSites, Done, SoundIn
    <3> QED BY <3>1, <3>2, SettledStep
  <2>11. CASE LaunchVerify(c)
    <3>1. /\ OsStep /\ misfires' = misfires /\ kill[c] = "no" /\ last' = last
          /\ file' = file /\ UNCHANGED <<latest, server, watcher, kill, seen, wdVars>>
      BY <2>11, OsQuiet DEF LaunchVerify, KillSites, osVars
    <3>2. /\ OnlyCommand(c) /\ pc'[c] \notin Done
          /\ \/ state'[c] = state[c]
             \/ state'[c] = [state[c] EXCEPT !.wstatus = "running", !.wd = watcher[c]]
      BY <2>11, <3>1 DEF LaunchVerify, Goto, OnlyCommand, wdVars, TypeOK, CtlType, Done
    <3>3. SoundIn(state'[c], last, alive)
      BY <3>2 DEF SoundIn, Record
    <3> QED BY <3>1, <3>2, <3>3, SettledStep DEF Settled, Effect
  <2>12. CASE LaunchWriteFinal(c)
    <3>1. OsStep /\ misfires' = misfires
      BY <2>12, OsQuiet DEF LaunchWriteFinal
    <3>2. Settled(c)
      BY <2>12, GotoStep DEF LaunchWriteFinal, Settled, Effect, KillSites, Done, SoundIn, osVars, NoBirth
    <3> QED BY <3>1, <3>2, SettledStep
  <2>13. CASE LaunchConfirm(c)
    <3>1. OsStep /\ misfires' = misfires
      BY <2>13, OsQuiet DEF LaunchConfirm
    <3>2. Settled(c)
      BY <2>13, GotoStep, FinishStep DEF LaunchConfirm, Settled, Effect, KillSites, Done, SoundIn, osVars, NoBirth
    <3> QED BY <3>1, <3>2, SettledStep
  <2>14. CASE LaunchConfirmRead(c)
    <3>1. OsStep /\ misfires' = misfires
      BY <2>14, OsQuiet DEF LaunchConfirmRead
    <3>2. Settled(c)
      BY <2>14 DEF LaunchConfirmRead, ReadLatest, Settled, Effect, KillSites, Done, SoundIn, osVars, Goto, OnlyCommand, wdVars, TypeOK, CtlType, NoRecord
    <3> QED BY <3>1, <3>2, SettledStep
  <2>15. CASE LaunchConfirmWrite(c)
    <3>1. OsStep /\ misfires' = misfires
      BY <2>15, OsQuiet DEF LaunchConfirmWrite
    <3>2. Settled(c)
      BY <2>15, GotoStep DEF LaunchConfirmWrite, Settled, Effect, KillSites, Done, SoundIn, osVars, NoBirth
    <3> QED BY <3>1, <3>2, SettledStep
  <2>16. CASE LaunchRaise(c)
    <3>1. OsStep /\ misfires' = misfires
      BY <2>16, OsQuiet DEF LaunchRaise
    <3>2. Settled(c)
      BY <2>16, GotoStep DEF LaunchRaise, LaunchBodyPc, LaunchWatchPc, Settled, Effect, KillSites, Done, SoundIn, osVars, NoBirth
    <3> QED BY <3>1, <3>2, SettledStep
  <2>17. CASE LaunchHandlerRead(c)
    <3>1. /\ OsStep /\ misfires' = misfires /\ kill[c] = "no" /\ last' = last /\ alive' = alive
          /\ file' = file /\ UNCHANGED <<state, server, watcher, kill, seen, wdVars>>
      BY <2>17, OsQuiet DEF LaunchHandlerRead, KillSites, osVars
    <3>2. OnlyCommand(c) /\ SoundIn(latest'[c], last, alive)
      BY <2>17, <3>1 DEF LaunchHandlerRead, ReadLatest, Goto, OnlyCommand, wdVars, TypeOK, CtlType
    <3>3. state[c].srv \notin alive \ givenup /\ pc'[c] = "handler_write"
      BY <2>17 DEF LaunchHandlerRead, IInv, Gone, Ended, Goto, TypeOK, CtlType
    <3>4. Ended(state'[c].srv, pc'[c], alive', givenup')
      BY <1>t, <3>1, <3>3 DEF Ended
    <3> QED BY <3>1, <3>2, <3>3, <3>4, CommandStep DEF NoStaleKill
  <2>18. CASE LaunchHandlerWrite(c)
    <3>1. OsStep /\ misfires' = misfires /\ last' = last /\ Finish(c) /\ UNCHANGED wdVars
      BY <2>18, OsQuiet DEF LaunchHandlerWrite, osVars
    <3>2. SoundIn(file', last, alive)
      BY <2>18 DEF LaunchHandlerWrite, SoundIn, Record
    <3> QED BY <3>1, <3>2, FinishStep, SettledStep DEF Settled, Effect, Done
  <2> QED BY <1>4, <2>1, <2>2, <2>3, <2>4, <2>5, <2>6, <2>7, <2>8, <2>9, <2>10, <2>11, <2>12, <2>13, <2>14, <2>15, <2>16, <2>17, <2>18 DEF Launch
<1>5. ASSUME NEW c \in Ctl, Api(c) PROVE IInv'
  <2> USE <1>t, Held1, NothingSound
  <2>1. CASE ApiCall(c)
    <3>1. OsStep /\ misfires' = misfires
      BY <2>1, OsQuiet DEF ApiCall
    <3>2. Settled(c)
      BY <2>1, GotoStep, FinishStep DEF ApiCall, Settled, Effect, KillSites, Done, SoundIn, osVars, NoBirth
    <3> QED BY <3>1, <3>2, SettledStep
  <2>2. CASE ApiWrite(c)
    <3>1. OsStep /\ misfires' = misfires
      BY <2>2, OsQuiet DEF ApiWrite
    <3>2. Settled(c)
      BY <2>2, FinishStep DEF ApiWrite, Settled, Effect, KillSites, Done, SoundIn, osVars
    <3> QED BY <3>1, <3>2, SettledStep
  <2> QED BY <1>5, <2>1, <2>2 DEF Api
<1>6. ASSUME NEW c \in Ctl, Stop(c) PROVE IInv'
  <2> USE <1>t, Held1, NothingSound
  <2>1. CASE StopSaveCheck(c)
    <3>1. /\ OsStep /\ misfires' = misfires /\ kill[c] = "no" /\ last' = last
          /\ file' = file /\ UNCHANGED wdVars
      BY <2>1, OsQuiet DEF StopSaveCheck, KillSites, osVars
    <3>2. CASE Finish(c)
      BY <3>1, <3>2, FinishStep, SettledStep DEF Settled, Effect, Done
    <3>3. CASE ~Finish(c)
      <4>1. /\ latest' = [latest EXCEPT ![c] = file] /\ Goto(c, "save_call")
            /\ UNCHANGED <<state, server, watcher, kill, seen>>
        BY <2>1, <3>3 DEF StopSaveCheck
      <4>2. OnlyCommand(c) /\ pc'[c] = "save_call" /\ latest'[c] = file
        BY <3>1, <4>1 DEF Goto, OnlyCommand, wdVars, TypeOK, CtlType
      <4> QED BY <3>1, <4>1, <4>2, SettledStep DEF Settled, Effect, Done
    <3> QED BY <3>2, <3>3
  <2>2. CASE StopSaveCall(c)
    <3>1. OsStep /\ misfires' = misfires
      BY <2>2, OsQuiet DEF StopSaveCall
    <3>2. Settled(c)
      BY <2>2, GotoStep, FinishStep DEF StopSaveCall, Settled, Effect, KillSites, Done, SoundIn, osVars, NoBirth
    <3> QED BY <3>1, <3>2, SettledStep
  <2>3. CASE StopSaveWrite(c)
    <3>1. OsStep /\ misfires' = misfires
      BY <2>3, OsQuiet DEF StopSaveWrite
    <3>2. Settled(c)
      BY <2>3, GotoStep DEF StopSaveWrite, Settled, Effect, KillSites, Done, SoundIn, osVars, NoBirth
    <3> QED BY <3>1, <3>2, SettledStep
  <2>4. CASE StopWrite(c)
    <3>1. OsStep /\ misfires' = misfires /\ last' = last /\ Finish(c) /\ UNCHANGED wdVars
      BY <2>4, OsQuiet DEF StopWrite, osVars
    <3>2. state[c].srv \notin alive
      BY <2>4 DEF StopWrite, IInv, Gone, Ended
    <3>3. SoundIn(file', last, alive)
      BY <2>4, <3>2 DEF StopWrite, SoundIn, Record
    <3> QED BY <3>1, <3>3, FinishStep, SettledStep DEF Settled, Effect, Done
  <2> QED BY <1>6, <2>1, <2>2, <2>3, <2>4 DEF Stop
<1>7. ASSUME NEW w \in Births, Watchdog(w) PROVE IInv'
  <2> USE <1>t, Held2, NothingSound
  <2> DEFINE Still == /\ OsStep /\ last' = last /\ misfires' = misfires /\ NoStaleKill'
                      /\ w <= last /\ UNCHANGED ctlVars
  <2>1. CASE WatchInit(w)
    <3>1. UNCHANGED <<file, ctlVars, misfires>> /\ w <= last /\ wkill[w] = "no"
      BY <2>1 DEF WatchInit, WatchSites
    <3>2. CASE WExit(w)
      BY <3>1, <3>2, WExitStep
    <3>3. CASE ~WExit(w)
      <4>1. Still /\ wkill' = wkill
        BY <2>1, <3>1, <3>3, OsQuiet DEF WatchInit, osVars, NoStaleKill
      <4>2. OnlyWatchdog(w) /\ SoundIn(wlatest'[w], last, alive) /\ wtarget'[w] <= last
        BY <2>1, <3>1, <3>3 DEF WatchInit, WGoto, OnlyWatchdog, TypeOK, WdType, SoundIn
      <4> QED BY <3>1, <4>1, <4>2, WatchdogSettledStep
    <3> QED BY <3>2, <3>3
  <2>2. CASE WatchPoll(w)
    <3>1. UNCHANGED <<file, ctlVars, misfires>> /\ w <= last /\ wkill[w] = "no"
      BY <2>2 DEF WatchPoll, WatchSites
    <3>2. CASE WExit(w)
      BY <3>1, <3>2, WExitStep
    <3>3. CASE ~WExit(w)
      <4>1. Still /\ wkill' = wkill
        BY <2>2, <3>1, <3>3, OsQuiet DEF WatchPoll, osVars, NoStaleKill
      <4>2. OnlyWatchdog(w) /\ SoundIn(wlatest'[w], last, alive) /\ wtarget'[w] <= last
        BY <2>2, <3>1, <3>3 DEF WatchPoll, WGoto, OnlyWatchdog, TypeOK, WdType
      <4> QED BY <3>1, <4>1, <4>2, WatchdogSettledStep
    <3> QED BY <3>2, <3>3
  <2>3. CASE WatchSnapshot(w)
    <3>1. Still /\ file' = file /\ wkill[w] = "no" /\ wkill' = wkill
      BY <2>3, OsQuiet DEF WatchSnapshot, WatchSites, osVars, NoStaleKill
    <3>2. OnlyWatchdog(w) /\ SoundIn(wlatest'[w], last, alive) /\ wtarget'[w] <= last
      BY <2>3, <3>1 DEF WatchSnapshot, WGoto, OnlyWatchdog, TypeOK, WdType
    <3> QED BY <3>1, <3>2, WatchdogSettledStep
  <2>4. CASE WatchKillCheck(w)
    <3>1. /\ UNCHANGED <<file, ctlVars, misfires>> /\ w <= last /\ NoStaleKill'
          /\ wpc[w] \in WatchSites
      BY <2>4 DEF WatchKillCheck, NoStaleKill
    <3>2. CASE WLeave(w) /\ UNCHANGED osVars
      <4>1. OsStep /\ last' = last
        BY <3>2, OsQuiet DEF osVars
      <4> QED BY <3>1, <3>2, <4>1, WLeaveStep
    <3>3. CASE WRaises(w)
      BY <3>1, <3>3, WRaisesStep
    <3>4. CASE /\ Matches(wtarget[w])
               /\ wkill' = [wkill EXCEPT ![w] = "armed"] /\ wseen' = [wseen EXCEPT ![w] = last]
               /\ UNCHANGED <<osVars, wpc, warg, wtarget, wlatest, telemetry>>
      <4>1. /\ wtarget[w] \in alive /\ wtarget[w] # 0
            /\ wkill'[w] = "armed" /\ wseen'[w] = last
            /\ OnlyWatchdog(w) /\ OsStep /\ last' = last
        BY <3>1, <3>4, OsQuiet DEF Matches, OnlyWatchdog, TypeOK, WdType, osVars
      <4>2. AimIn(wtarget'[w], wseen'[w], last, alive, pid)
        BY <3>4, <4>1 DEF AimIn, PidUnique, IInv
      <4> QED BY <3>1, <3>4, <4>1, <4>2, WatchdogStep
    <3> QED BY <2>4, <3>2, <3>3, <3>4 DEF WatchKillCheck
  <2>5. CASE WatchKillFirst(w)
    <3>1. /\ w <= last /\ UNCHANGED <<file, ctlVars>>
          /\ wpc[w] \in WatchSites /\ AimIn(wtarget[w], wseen[w], last, alive, pid)
          /\ wtarget[w] # 0
      BY <2>5 DEF WatchKillFirst
    <3>2. ASSUME NEW v \in AtPid(wtarget[w]), Hit(v, wtarget[w], wseen[w]) PROVE NoStaleKill'
      <4>1. v # wtarget[w] => v > wseen[w]
        BY <3>1 DEF AimIn, AtPid
      <4> QED BY <3>2, <4>1 DEF Hit, NoStaleKill
    <3>3. ASSUME NEW v \in AtPid(wtarget[w]), Strike(v, wtarget[w], wseen[w]), WLeave(w)
          PROVE  IInv'
      <4>1. OsStep /\ last' = last /\ NoStaleKill'
        BY <3>2, <3>3, OsStrike DEF Strike, Die
      <4> QED BY <3>1, <3>3, <4>1, WLeaveStep
    <3>4. ASSUME NEW v \in AtPid(wtarget[w]), Hit(v, wtarget[w], wseen[w]),
                 wkill' = [wkill EXCEPT ![w] = "slow"],
                 UNCHANGED <<osVars, wpc, warg, wtarget, wlatest, wseen, telemetry>>
          PROVE  IInv'
      <4>1. OsStep /\ last' = last /\ NoStaleKill'
        BY <3>2, <3>4, OsQuiet DEF osVars
      <4>2. wkill'[w] = "slow" /\ OnlyWatchdog(w)
        BY <3>1, <3>4 DEF OnlyWatchdog, TypeOK, WdType
      <4> QED BY <3>1, <3>4, <4>1, <4>2, WatchdogStep
    <3>5. CASE WRaises(w) /\ UNCHANGED misfires
      BY <3>1, <3>5, WRaisesStep
    <3> QED BY <2>5, <3>3, <3>4, <3>5 DEF WatchKillFirst
  <2>6. CASE WatchKillAgain(w)
    <3>1. UNCHANGED <<file, ctlVars>>
      BY <2>6 DEF WatchKillAgain
    <3>2. CASE Strike(wtarget[w], wtarget[w], wseen[w]) /\ WLeave(w)
      <4>1. OsStep /\ last' = last /\ NoStaleKill'
        BY <3>2, OsStrike DEF Strike, Hit, Die, NoStaleKill
      <4> QED BY <3>1, <3>2, <4>1, WLeaveStep
    <3>3. CASE WRaises(w) /\ UNCHANGED misfires
      BY <3>1, <3>3, WRaisesStep
    <3> QED BY <2>6, <3>2, <3>3 DEF WatchKillAgain
  <2>7. CASE WatchRead(w)
    <3>1. Still /\ file' = file /\ wkill[w] = "no" /\ wkill' = wkill
      BY <2>7, OsQuiet DEF WatchRead, WatchSites, osVars, NoStaleKill
    <3>2. OnlyWatchdog(w) /\ SoundIn(wlatest'[w], last, alive) /\ wtarget'[w] <= last
      BY <2>7, <3>1 DEF WatchRead, WGoto, OnlyWatchdog, TypeOK, WdType
    <3> QED BY <3>1, <3>2, WatchdogSettledStep
  <2>8. CASE WatchWrite(w)
    <3>1. SoundIn(file', last, alive)
      BY <2>8 DEF WatchWrite, SoundIn, Record
    <3> QED BY <2>8, <3>1, WExitStep DEF WatchWrite
  <2>9. CASE WatchRaise(w)
    BY <2>9, WRaisesStep DEF WatchRaise
  <2> QED BY <1>7, <2>1, <2>2, <2>3, <2>4, <2>5, <2>6, <2>7, <2>8, <2>9 DEF Watchdog
<1>8. CASE Environment
  <2> USE <1>t
  <2>1. CASE ForeignStart
    <3>1. OsStep /\ last + 1 \in Births
      BY <2>1, OsSpawn, SpawnType DEF ForeignStart, TypeOK, Spawn
    <3> QED BY <2>1, <3>1, OsAloneStep DEF ForeignStart
  <2>2. ASSUME NEW b \in Births, ServerBind(b) PROVE IInv'
    <3>1. OsStep
      BY <2>2, OsDie DEF ServerBind, OsStep, Shrink
    <3> QED BY <2>2, <3>1, OsAloneStep DEF ServerBind
  <2>3. ASSUME NEW b \in Births, ServerExit(b) PROVE IInv'
    BY <2>3, OsDie, OsAloneStep DEF ServerExit
  <2>5. ASSUME NEW b \in Births, LateExit(b) PROVE IInv'
    BY <2>5, OsDie, OsAloneStep DEF LateExit
  <2>4. ASSUME NEW c \in Ctl, Crash(c) PROVE IInv'
    <3>1. OsStep /\ misfires' = misfires /\ last' = last /\ file' = file /\ Finish(c) /\ UNCHANGED wdVars
      BY <2>4, OsQuiet DEF Crash, osVars
    <3> QED BY <3>1, FinishStep, SettledStep, Held1, NothingSound DEF Settled, Effect, Done
  <2> QED BY <1>8, <2>1, <2>2, <2>3, <2>4, <2>5 DEF Environment
<1> QED
  BY <1>1, <1>2, <1>3, <1>4, <1>5, <1>6, <1>7, <1>8 DEF Next, Command

LEMMA InvInit == Init => IInv
<1> SUFFICES ASSUME Init PROVE IInv
  OBVIOUS
<1>1. PidUnique /\ Gone /\ NoStaleKill
  BY DEF Init, PidUnique, Gone, Ended, NoStaleKill
<1>2. Known /\ Aims
  BY DEF Init, Known, Aims, SoundIn, NoRecord, NoBirth
<1> QED BY <1>1, <1>2, TypeInit DEF IInv

THEOREM Invariant == Spec => []IInv
<1> QED BY InvInit, Inductive, PTL DEF Spec

\* No termination ever hits a process that already ran at the time of the
\* identity check, for any number of shells, pids and processes.
THEOREM NoStaleKillHolds == Spec => []NoStaleKill
<1>1. IInv => NoStaleKill
  BY DEF IInv
<1> QED BY <1>1, Invariant, PTL

\* Whatever steps of `stop`, `launch`, `save`, `restore` and the watchdogs
\* interleave, a record that says "stopped" names no live server.
THEOREM StoppedMeansGoneHolds == Spec => []StoppedMeansGone
<1>1. IInv => StoppedMeansGone
  BY DEF IInv, Known, SoundIn, StoppedMeansGone
<1> QED BY <1>1, Invariant, PTL

\* A launch that identified its server and then raised has taken it down by
\* the time it records the failure, unless psutil could not identify or signal
\* the server or it outlived kill().
THEOREM RefusedLaunchHolds == Spec => []RefusedLaunchLeavesNothing
<1>1. IInv => RefusedLaunchLeavesNothing
  BY DEF IInv, Gone, Ended, RefusedLaunchLeavesNothing
<1> QED BY <1>1, Invariant, PTL

-----------------------------------------------------------------------------
(* The watchdogs, and the servers they were started for *)

IsServer(b) == b = 0 \/ kind[b] = "server"
\* Watchdog w was started for server b, as a record or a command has it.
Linked(b, w) == IsServer(b) /\ (b \in alive /\ w \in alive => Tends(w, b))

\* The positions of a watchdog that has read the record and has a target.
Tending == {"poll", "snapshot", "stop_target", "read", "write"}
Kinds ==
    \A w \in Births : /\ wpc[w] # "none" => w <= last /\ kind[w] = "watchdog"
                      /\ wpc[w] \in {"none", "init"} => wtarget[w] = 0
                      /\ wpc[w] \in Tending => wtarget[w] # 0
                      /\ IsServer(wtarget[w])

\* Where a launch is, by what it has of its server.
Bare     == {"idle", "port_check", "popen", "identify"}
InLaunch == {"publish", "health", "set_running", "announce", "spawn", "await_telemetry",
             "verify", "write_final", "confirm", "confirm_read", "confirm_write",
             "inner_handler", "outer_handler", "handler_read", "handler_write"}
Places(c) ==
    /\ pc[c] \in Bare => state[c].srv = 0 /\ watcher[c] = 0
    /\ pc[c] \in InLaunch => state[c].srv \in {0, server[c]}

Links ==
    /\ Linked(file.srv, file.wd)
    /\ \A c \in Ctl : /\ Linked(state[c].srv, state[c].wd) /\ Linked(latest[c].srv, latest[c].wd)
                      /\ Linked(server[c], watcher[c]) /\ Places(c)
    /\ \A w \in Births : Linked(wlatest[w].srv, wlatest[w].wd)

LInv == IInv /\ Kinds /\ Links

\* What a step does to the table of processes.
LEMMA OsForms ==
    ASSUME [Next]_vars
    PROVE  \/ UNCHANGED <<last, alive, pid, kind>>
           \/ \E b : Die(b)
           \/ \E k \in {"server", "watchdog", "foreign"} : Spawn(k)
<1>1. CASE UNCHANGED vars
  BY <1>1 DEF vars, osVars
<1>2. CASE Environment
  <2>1. CASE ForeignStart
    <3>1. Spawn("foreign")
      BY <2>1 DEF ForeignStart
    <3> QED BY <3>1
  <2>2. ASSUME NEW b \in Births, ServerBind(b)
        PROVE  UNCHANGED <<last, alive, pid, kind>> \/ Die(b)
    BY <2>2 DEF ServerBind
  <2>3. ASSUME NEW b \in Births, ServerExit(b) \/ LateExit(b) PROVE Die(b)
    BY <2>3 DEF ServerExit, LateExit
  <2>4. ASSUME NEW c \in Ctl, Crash(c) PROVE UNCHANGED <<last, alive, pid, kind>>
    BY <2>4 DEF Crash, osVars
  <2>5. \/ ForeignStart \/ \E c \in Ctl : Crash(c)
        \/ \E b \in Births : ServerBind(b) \/ ServerExit(b) \/ LateExit(b)
    BY <1>2 DEF Environment
  <2> QED BY <2>1, <2>2, <2>3, <2>4, <2>5
<1>3. ASSUME NEW c \in Ctl, Begin(c) PROVE UNCHANGED osVars
  BY <1>3 DEF Begin, LaunchBegin, ApiBegin, StopBegin
<1>4. ASSUME NEW c \in Ctl, Kill(c) PROVE UNCHANGED osVars \/ \E b : Die(b)
  BY <1>4 DEF Kill, KillCheck, KillFirst, KillAgain, Strike
<1>5. ASSUME NEW c \in Ctl, LaunchPopen(c) \/ LaunchSpawnWatchdog(c) \/ LaunchTelemetryTimeout(c)
      PROVE  \/ UNCHANGED osVars \/ \E b : Die(b)
             \/ \E k \in {"server", "watchdog", "foreign"} : Spawn(k)
  <2>1. LaunchPopen(c) => Spawn("server") \/ UNCHANGED osVars
    BY DEF LaunchPopen
  <2>2. LaunchSpawnWatchdog(c) => Spawn("watchdog")
    BY DEF LaunchSpawnWatchdog
  <2>3. LaunchTelemetryTimeout(c) => Die(watcher[c]) \/ UNCHANGED osVars
    BY DEF LaunchTelemetryTimeout
  <2> QED BY <1>5, <2>1, <2>2, <2>3
<1>6. ASSUME NEW c \in Ctl, Launch(c),
             ~(LaunchPopen(c) \/ LaunchSpawnWatchdog(c) \/ LaunchTelemetryTimeout(c))
      PROVE  UNCHANGED osVars
  BY <1>6 DEF Launch, LaunchPreflight, LaunchIdentify, LaunchPublish, LaunchHealthy,
     LaunchSetRunning, LaunchAnnounce, LaunchTelemetrySeen, LaunchVerify, LaunchWriteFinal,
     LaunchConfirm, LaunchConfirmRead, LaunchConfirmWrite, LaunchRaise, LaunchHandlerRead,
     LaunchHandlerWrite
<1>7. ASSUME NEW c \in Ctl, Api(c) \/ Stop(c) PROVE UNCHANGED osVars
  BY <1>7 DEF Api, Stop, ApiCall, ApiWrite, StopSaveCheck, StopSaveCall, StopSaveWrite, StopWrite
<1>8. ASSUME NEW w \in Births, Watchdog(w) PROVE UNCHANGED osVars \/ \E b : Die(b)
  BY <1>8 DEF Watchdog, WatchInit, WatchPoll, WatchSnapshot, WatchKillCheck, WatchKillFirst,
     WatchKillAgain, WatchRead, WatchWrite, WatchRaise, WExit, WRaises, Strike
<1> QED BY <1>1, <1>2, <1>3, <1>4, <1>5, <1>6, <1>7, <1>8 DEF Next, Command, osVars

\* Nobody comes back, and nobody becomes another.
LEMMA OsSteps ==
    ASSUME TypeOK, TypeOK', [Next]_vars
    PROVE  /\ OsStep /\ last \in Nat /\ last' \in Nat /\ last <= last' /\ alive \subseteq 1 .. last
           /\ \A b \in 0 .. last : b \in alive' => b \in alive
           /\ \A b \in 1 .. last : b \in Births /\ kind'[b] = kind[b]
<1>1. last \in Nat /\ last' \in Nat /\ alive \subseteq 1 .. last /\ 1 .. last \subseteq Births
  BY BirthFacts DEF TypeOK, OsType
<1>2. CASE UNCHANGED <<last, alive, pid, kind>>
  BY <1>1, <1>2 DEF OsStep, Shrink
<1>3. ASSUME NEW b, Die(b) PROVE OsStep /\ last' = last /\ alive' \subseteq alive /\ kind' = kind
  BY <1>3, OsDie DEF Die
<1>4. ASSUME NEW k \in {"server", "watchdog", "foreign"}, Spawn(k)
      PROVE  /\ OsStep /\ last' = last + 1 /\ alive' = alive \cup {last + 1}
             /\ \A b \in 1 .. last : kind'[b] = kind[b]
  <2>1. OsStep
    BY <1>4, OsSpawn
  <2>2. last' = last + 1 /\ alive' = alive \cup {last + 1} /\ kind' = [kind EXCEPT ![last + 1] = k]
    BY <1>4 DEF Spawn
  <2>3. \A b \in 1 .. last : b \in Births /\ b # last + 1
    BY <1>1
  <2> QED BY <2>1, <2>2, <2>3 DEF TypeOK, OsType
<1> QED BY <1>1, <1>2, <1>3, <1>4, OsForms

\* Who changes what a watchdog has read and where it is.
LEMMA WdForms ==
    ASSUME [Next]_vars
    PROVE  \/ UNCHANGED <<wpc, warg, wtarget, wlatest>>
           \/ \E c \in Ctl : LaunchSpawnWatchdog(c)
           \/ \E w \in Births : Watchdog(w)
<1>1. CASE UNCHANGED vars
  BY <1>1 DEF vars, wdVars
<1>2. CASE Environment
  BY <1>2 DEF Environment, ForeignStart, ServerBind, ServerExit, LateExit, Crash, wdVars
<1>3. ASSUME NEW c \in Ctl, Begin(c) \/ Kill(c) \/ Api(c) \/ Stop(c) PROVE UNCHANGED wdVars
  BY <1>3 DEF Begin, LaunchBegin, ApiBegin, StopBegin, Kill, KillCheck, KillFirst, KillAgain,
     Api, Stop, ApiCall, ApiWrite, StopSaveCheck, StopSaveCall, StopSaveWrite, StopWrite
<1>4. ASSUME NEW c \in Ctl, Launch(c), ~LaunchSpawnWatchdog(c) PROVE UNCHANGED wdVars
  BY <1>4 DEF Launch, LaunchPreflight, LaunchPopen, LaunchIdentify, LaunchPublish, LaunchHealthy,
     LaunchSetRunning, LaunchAnnounce, LaunchTelemetrySeen, LaunchTelemetryTimeout, LaunchVerify,
     LaunchWriteFinal, LaunchConfirm, LaunchConfirmRead, LaunchConfirmWrite, LaunchRaise,
     LaunchHandlerRead, LaunchHandlerWrite
<1> QED BY <1>1, <1>2, <1>3, <1>4 DEF Next, Command, wdVars

\* What a watchdog's step may do to itself.
LEMMA WatchdogForms ==
    ASSUME TypeOK, NEW w \in Births, Watchdog(w)
    PROVE  /\ w \in alive /\ wpc[w] # "none"
           /\ \A v \in Births : v # w => /\ wpc'[v] = wpc[v] /\ warg'[v] = warg[v]
                                        /\ wtarget'[v] = wtarget[v] /\ wlatest'[v] = wlatest[v]
           /\ \/ WExit(w) /\ wtarget'[w] = 0 /\ wpc'[w] = "none" /\ wlatest'[w] = NoRecord
              \/ /\ wpc[w] = "init" /\ wpc'[w] = "poll" /\ wtarget'[w] = file.srv
                 /\ file.srv # NoBirth /\ pid[file.srv] = pid[warg[w]] /\ Matches(file.srv)
                 /\ wlatest' = wlatest
              \/ /\ wpc'[w] \notin {"none", "init"} /\ warg' = warg /\ wtarget' = wtarget
                 /\ wpc'[w] \in Tending => wpc[w] \in Tending
                 /\ wlatest'[w] = wlatest[w] \/ wlatest'[w] = file
           /\ UNCHANGED ctlVars
           /\ file' = file \/ file' = [wlatest[w] EXCEPT !.status = "failed_closed"]
<1> USE DEF TypeOK, WdType
<1> DEFINE Others == \A v \in Births : v # w =>
                        /\ wpc'[v] = wpc[v] /\ warg'[v] = warg[v]
                        /\ wtarget'[v] = wtarget[v] /\ wlatest'[v] = wlatest[v]
           Goes   == /\ wpc'[w] \notin {"none", "init"} /\ UNCHANGED <<warg, wtarget>>
                     /\ wpc'[w] \in Tending => wpc[w] \in Tending
                     /\ wlatest'[w] = wlatest[w] \/ wlatest'[w] = file
<1>a. w \in alive /\ wpc[w] # "none"
  BY DEF Watchdog, WatchInit, WatchPoll, WatchSnapshot, WatchKillCheck, WatchKillFirst,
     WatchKillAgain, WatchRead, WatchWrite, WatchRaise, WatchSites
<1>b. ASSUME WExit(w)
      PROVE  Others /\ wtarget'[w] = 0 /\ wpc'[w] = "none" /\ wlatest'[w] = NoRecord
  BY <1>b DEF WExit, WGoto, NoBirth
<1>c. ASSUME WLeave(w), wpc[w] \in WatchSites PROVE Others /\ Goes
  BY <1>c DEF WLeave, WGoto, WatchSites, Tending
<1>d. ASSUME WRaises(w), ~WExit(w) PROVE Others /\ Goes
  BY <1>d DEF WRaises, WGoto, Tending
<1>1. CASE WatchInit(w)
  BY <1>a, <1>b, <1>1 DEF WatchInit, WGoto
<1>2. CASE WatchPoll(w)
  BY <1>a, <1>b, <1>2 DEF WatchPoll, WGoto, Tending
<1>3. CASE WatchSnapshot(w)
  BY <1>a, <1>3 DEF WatchSnapshot, WGoto, Tending
<1>4. CASE WatchKillCheck(w)
  BY <1>a, <1>b, <1>c, <1>d, <1>4 DEF WatchKillCheck, WatchSites
<1>5. CASE WatchKillFirst(w)
  BY <1>a, <1>b, <1>c, <1>d, <1>5 DEF WatchKillFirst, WatchSites
<1>6. CASE WatchKillAgain(w)
  BY <1>a, <1>b, <1>c, <1>d, <1>6 DEF WatchKillAgain
<1>7. CASE WatchRead(w)
  BY <1>a, <1>7 DEF WatchRead, WGoto, Tending
<1>8. CASE WatchWrite(w)
  BY <1>a, <1>b, <1>8 DEF WatchWrite
<1>9. CASE WatchRaise(w)
  BY <1>a, <1>b, <1>d, <1>9 DEF WatchRaise
<1> QED BY <1>1, <1>2, <1>3, <1>4, <1>5, <1>6, <1>7, <1>8, <1>9 DEF Watchdog

\* A watchdog that lives keeps its server: what it reads under the pid it was
\* given is the server that it was started for, while that lives.
LEMMA TendsStays ==
    ASSUME IInv, Kinds, TypeOK', [Next]_vars, NEW w \in 1 .. last, NEW b \in 1 .. last,
           Tends(w, b), w \in alive', b \in alive'
    PROVE  Tends(w, b)'
<1>1. /\ TypeOK /\ PidUnique /\ w \in alive /\ b \in alive /\ w \in Births /\ b \in Births
      /\ last \in Nat
  BY OsSteps DEF IInv
<1>2. CASE UNCHANGED <<wpc, warg, wtarget, wlatest>>
  BY <1>2 DEF Tends, Subject
<1>3. ASSUME NEW c \in Ctl, LaunchSpawnWatchdog(c) PROVE Tends(w, b)'
  <2>1. w # last + 1
    BY <1>1
  <2>2. wpc'[w] = wpc[w] /\ warg'[w] = warg[w] /\ wtarget' = wtarget
    BY <1>1, <1>3, <2>1 DEF LaunchSpawnWatchdog, TypeOK, WdType
  <2> QED BY <2>2 DEF Tends, Subject
<1>4. ASSUME NEW v \in Births, Watchdog(v) PROVE Tends(w, b)'
  <2>1. CASE v # w
    BY <1>1, <1>4, <2>1, WatchdogForms DEF Tends, Subject
  <2>2. CASE v = w /\ WExit(w)
    BY <2>2 DEF WExit, Die
  <2>3. CASE /\ v = w /\ wpc[w] = "init" /\ wpc'[w] = "poll" /\ wtarget'[w] = file.srv
             /\ file.srv # NoBirth /\ pid[file.srv] = pid[warg[w]] /\ Matches(file.srv)
    <3>1. warg[w] = b
      BY <1>1, <2>3 DEF Tends, Subject, Kinds, NoBirth
    <3>2. file.srv = b
      BY <1>1, <2>3, <3>1 DEF PidUnique, Matches
    <3> QED BY <2>3, <3>2 DEF Tends, Subject
  <2>4. CASE v = w /\ wpc'[w] # "none" /\ warg' = warg /\ wtarget' = wtarget
    BY <2>4 DEF Tends, Subject
  <2> QED BY <1>1, <1>4, <2>1, <2>2, <2>3, <2>4, WatchdogForms
<1> QED BY <1>2, <1>3, <1>4, WdForms

LEMMA LinkStays ==
    ASSUME IInv, Kinds, TypeOK', [Next]_vars, NEW w \in 0 .. last, NEW b \in 0 .. last,
           Linked(b, w)
    PROVE  Linked(b, w)'
<1>1. /\ last \in Nat /\ alive \subseteq 1 .. last
      /\ \A x \in 0 .. last : x \in alive' => x \in alive
      /\ \A x \in 1 .. last : kind'[x] = kind[x]
  BY OsSteps DEF IInv
<1>2. b \in 1 .. last => kind'[b] = kind[b]
  BY <1>1
<1>3. IsServer(b)'
  BY <1>1, <1>2 DEF Linked, IsServer
<1>4. ASSUME b \in alive', w \in alive' PROVE Tends(w, b)'
  <2>1. b \in alive /\ w \in alive
    BY <1>1, <1>4
  <2>2. Tends(w, b) /\ b \in 1 .. last /\ w \in 1 .. last
    BY <1>1, <2>1 DEF Linked
  <2> QED BY <1>4, <2>2, TendsStays
<1> QED BY <1>3, <1>4 DEF Linked

LEMMA KindsStep == LInv /\ TypeOK' /\ [Next]_vars => Kinds'
<1> SUFFICES ASSUME LInv, TypeOK', [Next]_vars, NEW w \in Births
             PROVE  /\ wpc'[w] # "none" => w <= last' /\ kind'[w] = "watchdog"
                    /\ wpc'[w] \in {"none", "init"} => wtarget'[w] = 0
                    /\ wpc'[w] \in Tending => wtarget'[w] # 0
                    /\ wtarget'[w] = 0 \/ kind'[wtarget'[w]] = "server"
  BY DEF Kinds, IsServer
<1>1. TypeOK /\ IInv /\ Kinds /\ Linked(file.srv, file.wd)
  BY DEF LInv, IInv, Links
<1>2. /\ last \in Nat /\ last' \in Nat /\ last <= last' /\ alive \subseteq 1 .. last
      /\ \A x \in 1 .. last : kind'[x] = kind[x]
  BY <1>1, OsSteps
<1>3. /\ wtarget[w] \in 0 .. last /\ w \in Nat /\ w > 0 /\ file.srv \in 0 .. last
      /\ wtarget[w] = 0 \/ kind[wtarget[w]] = "server"
      /\ file.srv = 0 \/ kind[file.srv] = "server"
  <2>1. wtarget[w] <= last /\ wtarget[w] \in Nat /\ file.srv <= last /\ file.srv \in Nat
    BY <1>1, BirthFacts, Updates DEF IInv, Known, SoundIn, TypeOK, WdType
  <2>2. w \in Nat /\ w > 0
    BY MaxBirthAssumption DEF Births
  <2> QED BY <1>1, <1>2, <2>1, <2>2 DEF Kinds, Linked, IsServer
<1>4. /\ wpc[w] # "none" => w <= last /\ kind[w] = "watchdog"
      /\ wpc[w] \in {"none", "init"} => wtarget[w] = 0
      /\ wpc[w] \in Tending => wtarget[w] # 0
  BY <1>1 DEF Kinds
<1>5. ASSUME wpc[w] # "none" PROVE w <= last' /\ kind'[w] = "watchdog"
  <2>1. w \in 1 .. last
    BY <1>2, <1>3, <1>4, <1>5
  <2> QED BY <1>2, <1>3, <1>4, <1>5, <2>1
<1>6. ASSUME NEW b \in 0 .. last, b = 0 \/ kind[b] = "server" PROVE b = 0 \/ kind'[b] = "server"
  <2>1. b # 0 => b \in 1 .. last
    BY <1>2
  <2> QED BY <1>2, <1>6, <2>1
<1>7. CASE UNCHANGED <<wpc, warg, wtarget, wlatest>>
  BY <1>3, <1>4, <1>5, <1>6, <1>7
<1>8. ASSUME NEW c \in Ctl, LaunchSpawnWatchdog(c)
      PROVE  /\ wpc'[w] # "none" => w <= last' /\ kind'[w] = "watchdog"
             /\ wpc'[w] \in {"none", "init"} => wtarget'[w] = 0
             /\ wpc'[w] \in Tending => wtarget'[w] # 0
             /\ wtarget'[w] = 0 \/ kind'[wtarget'[w]] = "server"
  <2>1. /\ wtarget' = wtarget /\ last' = last + 1 /\ kind' = [kind EXCEPT ![last + 1] = "watchdog"]
        /\ wpc' = [wpc EXCEPT ![last + 1] = "init"]
    BY <1>8 DEF LaunchSpawnWatchdog, Spawn
  <2>2. CASE w = last + 1
    <3>1. wpc[w] = "none"
      BY <1>2, <1>4, <2>2
    <3> QED BY <1>1, <1>4, <2>1, <2>2, <3>1 DEF TypeOK, OsType, Tending
  <2>3. CASE w # last + 1
    <3>1. wpc'[w] = wpc[w]
      BY <1>1, <2>1, <2>3 DEF TypeOK, WdType
    <3> QED BY <1>3, <1>4, <1>5, <1>6, <2>1, <3>1
  <2> QED BY <2>2, <2>3
<1>9. ASSUME NEW v \in Births, Watchdog(v)
      PROVE  /\ wpc'[w] # "none" => w <= last' /\ kind'[w] = "watchdog"
             /\ wpc'[w] \in {"none", "init"} => wtarget'[w] = 0
             /\ wpc'[w] \in Tending => wtarget'[w] # 0
             /\ wtarget'[w] = 0 \/ kind'[wtarget'[w]] = "server"
  <2>1. wpc'[w] # "none" => wpc[w] # "none"
    BY <1>1, <1>9, WatchdogForms
  <2>2. wtarget'[w] \in {0, wtarget[w], file.srv}
    BY <1>1, <1>9, WatchdogForms
  <2>3. /\ wpc'[w] \in {"none", "init"} => wtarget'[w] = 0
        /\ wpc'[w] \in Tending => wtarget'[w] # 0
    BY <1>1, <1>4, <1>9, WatchdogForms DEF Tending, NoBirth
  <2> QED BY <1>3, <1>5, <1>6, <2>1, <2>2, <2>3
<1> QED BY <1>7, <1>8, <1>9, WdForms

\* Where a record that a command holds or writes comes from.
Origin(c, r) ==
    \/ r.srv = file.srv /\ r.wd = file.wd
    \/ r.srv = state[c].srv /\ r.wd = state[c].wd
    \/ r.srv = latest[c].srv /\ r.wd = latest[c].wd
    \/ r.srv \in {0, server[c]} /\ r.wd = 0
    \/ r.srv = state[c].srv /\ r.srv \in {0, server[c]} /\ r.wd = watcher[c]

\* What a step of command c does to the records and to its place.
Moves(c) ==
    /\ OnlyCommand(c)
    /\ Origin(c, file') /\ Origin(c, state'[c]) /\ Origin(c, latest'[c])
    /\ \/ server'[c] = server[c] /\ watcher'[c] = watcher[c]
       \/ server'[c] = 0 /\ watcher'[c] = 0
       \/ server'[c] = last + 1 /\ watcher'[c] = 0 /\ kind'[last + 1] = "server"
       \/ /\ server'[c] = server[c] /\ watcher'[c] = last + 1
          /\ last + 1 \in Births /\ wpc'[last + 1] = "init" /\ warg'[last + 1] = server[c]
    /\ pc'[c] \in Bare => state'[c].srv = 0 /\ watcher'[c] = 0
    /\ pc'[c] \in InLaunch => state'[c].srv \in {0, server'[c]}

\* The steps that only go on.
LEMMA GotoMoves ==
    ASSUME TypeOK, NEW c \in Ctl, NEW to, Goto(c, to), UNCHANGED locals, UNCHANGED wdVars,
           file' = file \/ file' = state[c] \/ file' = latest[c]
              \/ \E s \in Status : file' = [latest[c] EXCEPT !.status = s],
           Places(c), to \in Bare => pc[c] \in Bare, to \in InLaunch => pc[c] \in InLaunch
    PROVE  Moves(c)
<1>1. /\ OnlyCommand(c) /\ pc'[c] = to /\ state'[c] = state[c] /\ latest'[c] = latest[c]
      /\ server'[c] = server[c] /\ watcher'[c] = watcher[c]
  BY GotoStep
<1>2. Origin(c, file')
  <2>1. ASSUME NEW s \in Status, file' = [latest[c] EXCEPT !.status = s] PROVE Origin(c, file')
    <3>1. latest[c] \in Record
      BY DEF TypeOK, CtlType
    <3>2. file'.srv = latest[c].srv /\ file'.wd = latest[c].wd
      BY <2>1, <3>1 DEF Record
    <3> QED BY <3>2 DEF Origin
  <2> QED BY <2>1 DEF Origin
<1> QED BY <1>1, <1>2 DEF Moves, Origin, Places

\* A command that ends.
LEMMA FinishMoves ==
    ASSUME TypeOK, NEW c \in Ctl, Finish(c), UNCHANGED wdVars,
           file' = file \/ file' = state[c] \/ (\E s \in Status : file' = [state[c] EXCEPT !.status = s])
              \/ \E s \in Status : file' = [latest[c] EXCEPT !.status = s]
    PROVE  Moves(c)
<1>1. /\ OnlyCommand(c) /\ pc'[c] = "idle" /\ state'[c] = NoRecord /\ latest'[c] = NoRecord
      /\ server'[c] = 0 /\ watcher'[c] = 0
  BY FinishStep
<1>2. latest[c] \in Record /\ state[c] \in Record
  BY DEF TypeOK, CtlType
<1>3. Origin(c, file')
  <2>1. ASSUME NEW s \in Status, file' = [latest[c] EXCEPT !.status = s]
        PROVE  file'.srv = latest[c].srv /\ file'.wd = latest[c].wd
    BY <1>2, <2>1 DEF Record
  <2>2. ASSUME NEW s \in Status, file' = [state[c] EXCEPT !.status = s]
        PROVE  file'.srv = state[c].srv /\ file'.wd = state[c].wd
    BY <1>2, <2>2 DEF Record
  <2> QED BY <2>1, <2>2 DEF Origin
<1>4. NoRecord.srv = 0 /\ NoRecord.wd = 0
  BY DEF NoRecord, NoBirth
<1> QED BY <1>1, <1>3, <1>4 DEF Moves, Origin, Bare, InLaunch

\* A kill site that is left.
LEMMA LeaveMoves ==
    ASSUME TypeOK, NEW c \in Ctl, NEW mark \in WatcherStatus, pc[c] \in KillSites, Leave(c, mark),
           file' = file, UNCHANGED wdVars, Places(c)
    PROVE  Moves(c) /\ pc'[c] = After(pc[c]) /\ state'[c].srv = state[c].srv /\ kill'[c] = "no"
<1>1. /\ OnlyCommand(c) /\ pc'[c] = After(pc[c]) /\ kill'[c] = "no"
      /\ state'[c] \in {state[c], [state[c] EXCEPT !.wstatus = mark]}
      /\ UNCHANGED <<latest, server, watcher>>
  BY DEF Leave, WatcherMarked, Goto, OnlyCommand, wdVars, TypeOK, CtlType
<1>2. state'[c].srv = state[c].srv /\ state'[c].wd = state[c].wd
  BY <1>1 DEF TypeOK, CtlType, Record
<1>3. pc'[c] \notin Bare /\ (pc'[c] \in InLaunch => pc[c] \in InLaunch)
  BY <1>1 DEF After, KillSites, Bare, InLaunch
<1> QED BY <1>1, <1>2, <1>3 DEF Moves, Origin, Places

LEMMA BeginMoves ==
    ASSUME TypeOK, NEW c \in Ctl, Begin(c), Places(c)
    PROVE  Moves(c)
<1>1. CASE LaunchBegin(c)
  BY <1>1, GotoMoves DEF LaunchBegin, Bare, InLaunch
<1>2. CASE ApiBegin(c) \/ StopBegin(c)
  <2>1. /\ state' = [state EXCEPT ![c] = file] /\ file' = file
        /\ UNCHANGED <<latest, server, watcher, kill, seen, wdVars>>
    BY <1>2 DEF ApiBegin, StopBegin
  <2>2. pc'[c] \in {"api_call", "stop_watcher", "save_check"} /\ \A d \in Ctl : d # c => pc'[d] = pc[d]
    BY <1>2 DEF ApiBegin, StopBegin, Goto, TypeOK, CtlType
  <2>3. state'[c] = file /\ OnlyCommand(c)
    BY <2>1, <2>2 DEF OnlyCommand, TypeOK, CtlType, wdVars
  <2> QED BY <2>1, <2>2, <2>3 DEF Moves, Origin, Bare, InLaunch
<1> QED BY <1>1, <1>2 DEF Begin

LEMMA KillMoves ==
    ASSUME TypeOK, NEW c \in Ctl, Kill(c), Places(c)
    PROVE  Moves(c)
<1>1. file' = file /\ UNCHANGED wdVars /\ pc[c] \in KillSites /\ state[c].wstatus \in WatcherStatus
  BY Updates DEF Kill, KillCheck, KillFirst, KillAgain, TypeOK, CtlType
<1>2. \/ Finish(c)
      \/ \E mark \in WatcherStatus : Leave(c, mark)
      \/ UNCHANGED <<pc, state, latest, server, watcher>>
            /\ (\A d \in Ctl : d # c => kill'[d] = kill[d] /\ seen'[d] = seen[d])
  BY <1>1, StatusFacts DEF Kill, KillCheck, KillFirst, KillAgain, KillRaises, TypeOK, CtlType
<1>3. CASE /\ UNCHANGED <<pc, state, latest, server, watcher>>
           /\ \A d \in Ctl : d # c => kill'[d] = kill[d] /\ seen'[d] = seen[d]
  BY <1>1, <1>3 DEF Moves, OnlyCommand, Origin, Places, wdVars
<1> QED BY <1>1, <1>2, <1>3, FinishMoves, LeaveMoves

LEMMA OtherMoves ==
    ASSUME TypeOK, NEW c \in Ctl, Api(c) \/ Stop(c) \/ Crash(c), Places(c)
    PROVE  Moves(c)
<1>1. {"stopped", "failed", "failed_closed"} \subseteq Status
  BY DEF Status
<1>2. CASE ApiCall(c)
  BY <1>2, GotoMoves, FinishMoves DEF ApiCall, Bare, InLaunch
<1>3. CASE ApiWrite(c) \/ StopWrite(c) \/ Crash(c)
  BY <1>1, <1>3, FinishMoves DEF ApiWrite, StopWrite, Crash
<1>4. CASE StopSaveCheck(c)
  <2>1. CASE Finish(c)
    BY <1>4, <2>1, FinishMoves DEF StopSaveCheck
  <2>2. CASE ~Finish(c)
    <3>1. /\ latest' = [latest EXCEPT ![c] = file] /\ Goto(c, "save_call") /\ file' = file
          /\ UNCHANGED <<state, server, watcher, kill, seen, wdVars>>
      BY <1>4, <2>2 DEF StopSaveCheck
    <3>2. OnlyCommand(c) /\ pc'[c] = "save_call" /\ latest'[c] = file
      BY <3>1 DEF Goto, OnlyCommand, wdVars, TypeOK, CtlType
    <3> QED BY <3>1, <3>2 DEF Moves, Origin, Bare, InLaunch
  <2> QED BY <2>1, <2>2
<1>5. CASE StopSaveCall(c)
  BY <1>5, GotoMoves, FinishMoves DEF StopSaveCall, Bare, InLaunch
<1>6. CASE StopSaveWrite(c)
  BY <1>6, GotoMoves DEF StopSaveWrite, Bare, InLaunch
<1> QED BY <1>2, <1>3, <1>4, <1>5, <1>6 DEF Api, Stop

LEMMA LaunchMoves ==
    ASSUME TypeOK, NEW c \in Ctl, Launch(c), Places(c)
    PROVE  Moves(c)
<1>1. {"stopped", "failed", "failed_closed", "running", "starting"} \subseteq Status
  BY DEF Status
<1>2. CASE LaunchPreflight(c)
  BY <1>2, GotoMoves DEF LaunchPreflight, Bare, InLaunch
<1>3. CASE LaunchPopen(c)
  <2>1. CASE Finish(c)
    BY <1>3, <2>1, FinishMoves DEF LaunchPopen
  <2>2. CASE ~Finish(c)
    <3>1. /\ Spawn("server") /\ server' = [server EXCEPT ![c] = last + 1] /\ Goto(c, "identify")
          /\ UNCHANGED <<state, latest, watcher, kill, seen>> /\ file' = file /\ UNCHANGED wdVars
      BY <1>3, <2>2 DEF LaunchPopen
    <3>2. last + 1 \in Births /\ kind'[last + 1] = "server"
      BY <3>1, SpawnType DEF Spawn, TypeOK, OsType
    <3>3. OnlyCommand(c) /\ pc'[c] = "identify" /\ server'[c] = last + 1
      BY <3>1 DEF TypeOK, CtlType, Goto, OnlyCommand, wdVars
    <3>4. state[c].srv = 0 /\ watcher[c] = 0
      BY <1>3 DEF LaunchPopen, Places, Bare
    <3> QED BY <3>1, <3>2, <3>3, <3>4 DEF Moves, Origin, Bare, InLaunch
  <2> QED BY <2>1, <2>2
<1>4. CASE LaunchIdentify(c)
  <2>1. /\ file' = file /\ UNCHANGED <<latest, server, watcher, kill, seen, wdVars>>
        /\ state[c].srv = 0 /\ watcher[c] = 0
    BY <1>4 DEF LaunchIdentify, Places, Bare
  <2>2. /\ OnlyCommand(c)
        /\ \/ state'[c] = state[c] /\ pc'[c] = "outer_handler"
           \/ /\ state'[c] = [NoRecord EXCEPT !.status = "starting", !.srv = server[c]]
              /\ pc'[c] = "publish"
    BY <1>4, <2>1 DEF LaunchIdentify, Goto, OnlyCommand, wdVars, TypeOK, CtlType
  <2>3. \/ state'[c].srv = server[c] /\ state'[c].wd = 0
        \/ state'[c] = state[c]
    BY <2>2 DEF NoRecord, NoBirth
  <2> QED BY <2>1, <2>2, <2>3 DEF Moves, Origin, Bare, InLaunch
<1>5. CASE \/ LaunchPublish(c) \/ LaunchHealthy(c) \/ LaunchTelemetrySeen(c)
           \/ LaunchTelemetryTimeout(c) \/ LaunchWriteFinal(c)
  BY <1>5, GotoMoves DEF LaunchPublish, LaunchHealthy, LaunchTelemetrySeen, LaunchTelemetryTimeout,
     LaunchWriteFinal, Bare, InLaunch
<1>6. CASE LaunchSetRunning(c) \/ LaunchAnnounce(c)
  <2>1. /\ file' = state'[c] /\ UNCHANGED <<latest, server, watcher, kill, seen, wdVars>>
        /\ state'[c].srv = state[c].srv /\ state'[c].wd = state[c].wd
        /\ OnlyCommand(c) /\ pc[c] \in InLaunch /\ pc'[c] \in InLaunch /\ pc'[c] \notin Bare
    <3>1. state[c] \in Record
      BY DEF TypeOK, CtlType
    <3>2. /\ file' = state'[c] /\ UNCHANGED <<latest, server, watcher, kill, seen, wdVars>>
          /\ \/ state' = [state EXCEPT ![c].status = "running"]
             \/ state' = [state EXCEPT ![c].wstatus = "starting"]
          /\ Goto(c, "announce") \/ Goto(c, "spawn")
          /\ pc[c] \in InLaunch
      BY <1>6 DEF LaunchSetRunning, LaunchAnnounce, InLaunch
    <3>3. \/ state'[c] = [state[c] EXCEPT !.status = "running"]
          \/ state'[c] = [state[c] EXCEPT !.wstatus = "starting"]
      BY <3>2 DEF TypeOK, CtlType
    <3>4. state'[c].srv = state[c].srv /\ state'[c].wd = state[c].wd
      BY <3>1, <3>3 DEF Record
    <3>5. pc'[c] \in {"announce", "spawn"} /\ OnlyCommand(c)
      BY <3>2 DEF Goto, OnlyCommand, wdVars, TypeOK, CtlType
    <3> QED BY <3>2, <3>4, <3>5 DEF InLaunch, Bare
  <2> QED BY <2>1 DEF Moves, Origin, Places
<1>7. CASE LaunchSpawnWatchdog(c)
  <2>1. /\ UNCHANGED <<state, latest, server, kill, seen, wtarget, wlatest, wkill, wseen>>
        /\ file' = file /\ last' = last + 1 /\ watcher' = [watcher EXCEPT ![c] = last + 1]
        /\ wpc' = [wpc EXCEPT ![last + 1] = "init"] /\ Goto(c, "await_telemetry")
        /\ warg' = [warg EXCEPT ![last + 1] = server[c]] /\ pc[c] = "spawn" /\ Spawn("watchdog")
    BY <1>7 DEF LaunchSpawnWatchdog, Spawn
  <2>2. last + 1 \in Births /\ last \in Nat
    BY <2>1, SpawnType, BirthFacts DEF TypeOK, OsType
  <2>3. pc'[c] = "await_telemetry" /\ watcher'[c] = last + 1 /\ wpc'[last + 1] = "init"
        /\ warg'[last + 1] = server[c]
    BY <2>1, <2>2 DEF TypeOK, CtlType, WdType, Goto
  <2>4. \A w \in Births : w <= last => wpc'[w] = wpc[w]
    BY <2>1, <2>2, BirthFacts DEF TypeOK, WdType
  <2>5. OnlyCommand(c)
    BY <2>1, <2>4 DEF TypeOK, CtlType, Goto, OnlyCommand
  <2> QED BY <2>1, <2>2, <2>3, <2>5 DEF Moves, Origin, Places, Bare, InLaunch
<1>8. CASE LaunchVerify(c)
  <2>1. /\ file' = file /\ UNCHANGED <<latest, server, watcher, kill, seen, wdVars>>
        /\ state[c].srv \in {0, server[c]} /\ state[c] \in Record
    BY <1>8 DEF LaunchVerify, Places, InLaunch, TypeOK, CtlType
  <2>2. /\ OnlyCommand(c) /\ pc'[c] \in {"write_final", "inner_handler"}
        /\ \/ state'[c] = state[c]
           \/ state'[c] = [state[c] EXCEPT !.wstatus = "running", !.wd = watcher[c]]
    BY <1>8, <2>1 DEF LaunchVerify, Goto, OnlyCommand, wdVars, TypeOK, CtlType
  <2>3. \/ state'[c] = state[c]
        \/ state'[c].srv = state[c].srv /\ state'[c].wd = watcher[c]
    BY <2>1, <2>2 DEF Record
  <2> QED BY <2>1, <2>2, <2>3 DEF Moves, Origin, Bare, InLaunch
<1>9. CASE LaunchConfirm(c)
  BY <1>9, GotoMoves, FinishMoves DEF LaunchConfirm, Bare, InLaunch
<1>10. CASE LaunchConfirmRead(c) \/ LaunchHandlerRead(c)
  <2>1. /\ latest'[c] \in {state[c], file} /\ file' = file /\ pc[c] \in InLaunch
        /\ pc'[c] \in {"confirm_write", "handler_write"}
        /\ OnlyCommand(c) /\ UNCHANGED <<state, server, watcher>>
    BY <1>10 DEF LaunchConfirmRead, LaunchHandlerRead, ReadLatest, Goto, OnlyCommand, wdVars,
       TypeOK, CtlType, InLaunch
  <2> QED BY <2>1 DEF Moves, Origin, Places, Bare, InLaunch
<1>11. CASE LaunchConfirmWrite(c)
  BY <1>1, <1>11, GotoMoves DEF LaunchConfirmWrite, Bare, InLaunch
<1>12. CASE LaunchRaise(c)
  BY <1>12, GotoMoves DEF LaunchRaise, LaunchBodyPc, LaunchWatchPc, Bare, InLaunch
<1>13. CASE LaunchHandlerWrite(c)
  BY <1>1, <1>13, FinishMoves DEF LaunchHandlerWrite
<1> QED BY <1>2, <1>3, <1>4, <1>5, <1>6, <1>7, <1>8, <1>9, <1>10, <1>11, <1>12, <1>13 DEF Launch

LEMMA CommandMoves ==
    ASSUME TypeOK, NEW c \in Ctl, Begin(c) \/ Command(c) \/ Crash(c), Places(c)
    PROVE  Moves(c)
BY BeginMoves, KillMoves, OtherMoves, LaunchMoves DEF Command

\* Linked in the next state, of values taken from any state.
LinkedNext(b, w) ==
    /\ b = 0 \/ kind'[b] = "server"
    /\ b \in alive' /\ w \in alive' =>
          wpc'[w] # "none" /\ b = IF wtarget'[w] = 0 THEN warg'[w] ELSE wtarget'[w]

\* Every process that a record or a command names was started.
LEMMA LinkRange ==
    ASSUME IInv
    PROVE  /\ file.srv \in 0 .. last /\ file.wd \in 0 .. last
           /\ \A c \in Ctl : /\ state[c].srv \in 0 .. last /\ state[c].wd \in 0 .. last
                             /\ latest[c].srv \in 0 .. last /\ latest[c].wd \in 0 .. last
                             /\ server[c] \in 0 .. last /\ watcher[c] \in 0 .. last
           /\ \A w \in Births : wlatest[w].srv \in 0 .. last /\ wlatest[w].wd \in 0 .. last
<1>1. TypeOK /\ Known /\ last \in Nat /\ BirthOrNone \subseteq Nat
  BY BirthFacts DEF IInv, TypeOK, OsType
<1>2. ASSUME NEW r \in Record, SoundIn(r, last, alive)
      PROVE  r.srv \in 0 .. last /\ r.wd \in 0 .. last
  <2>1. r.srv \in Nat /\ r.wd \in Nat
    BY <1>1, Updates
  <2> QED BY <1>1, <1>2, <2>1 DEF SoundIn
<1>3. ASSUME NEW c \in Ctl PROVE server[c] \in 0 .. last /\ watcher[c] \in 0 .. last
  <2>1. server[c] \in Nat /\ watcher[c] \in Nat
    BY <1>1 DEF TypeOK, CtlType
  <2> QED BY <1>1, <2>1 DEF Known
<1>4. file \in Record /\ SoundIn(file, last, alive)
  BY <1>1 DEF TypeOK, Known
<1>5. \A c \in Ctl : /\ state[c] \in Record /\ SoundIn(state[c], last, alive)
                     /\ latest[c] \in Record /\ SoundIn(latest[c], last, alive)
  BY <1>1 DEF TypeOK, CtlType, Known
<1>6. \A w \in Births : wlatest[w] \in Record /\ SoundIn(wlatest[w], last, alive)
  BY <1>1 DEF TypeOK, WdType, Known
<1> QED BY <1>2, <1>3, <1>4, <1>5, <1>6

\* A link outlives every step, and a server that nothing is linked to is linked.
LEMMA LinkNext ==
    ASSUME IInv, Kinds, TypeOK', [Next]_vars
    PROVE  /\ \A b, w \in 0 .. last : Linked(b, w) => LinkedNext(b, w) /\ LinkedNext(b, 0)
           /\ \A w : LinkedNext(0, w)
<1>1. last' \in Nat /\ alive' \subseteq 1 .. last'
  BY BirthFacts DEF TypeOK, OsType
<1>2. 0 \notin alive'
  BY <1>1
<1>3. ASSUME NEW b \in 0 .. last, NEW w \in 0 .. last, Linked(b, w) PROVE LinkedNext(b, w)
  <2>1. Linked(b, w)'
    BY <1>3, LinkStays
  <2> QED BY <2>1 DEF Linked, IsServer, Tends, Subject, NoBirth, LinkedNext
<1>4. ASSUME NEW b \in 0 .. last, NEW w \in 0 .. last, Linked(b, w) PROVE LinkedNext(b, 0)
  <2>1. LinkedNext(b, w)
    BY <1>3, <1>4
  <2> QED BY <1>2, <2>1 DEF LinkedNext
<1>5. \A w : LinkedNext(0, w)
  BY <1>2 DEF LinkedNext
<1> QED BY <1>3, <1>4, <1>5

\* The links as the next state has them.
NewLinks ==
    /\ LinkedNext(file'.srv, file'.wd)
    /\ \A c \in Ctl : /\ LinkedNext(state'[c].srv, state'[c].wd)
                      /\ LinkedNext(latest'[c].srv, latest'[c].wd)
                      /\ LinkedNext(server'[c], watcher'[c])
    /\ \A w \in Births : LinkedNext(wlatest'[w].srv, wlatest'[w].wd)

\* Every link there is, held to by the next state.
LEMMA LinksKept ==
    ASSUME LInv, TypeOK', [Next]_vars
    PROVE  /\ LinkedNext(file.srv, file.wd)
           /\ \A c \in Ctl : /\ LinkedNext(state[c].srv, state[c].wd)
                             /\ LinkedNext(latest[c].srv, latest[c].wd)
                             /\ LinkedNext(server[c], watcher[c]) /\ LinkedNext(server[c], 0)
           /\ \A w \in Births : LinkedNext(wlatest[w].srv, wlatest[w].wd)
BY LinkRange, LinkNext DEF LInv, Links

LEMMA LinksStep == LInv /\ TypeOK' /\ [Next]_vars => Links'
<1> SUFFICES ASSUME LInv, TypeOK', [Next]_vars
             PROVE  NewLinks /\ \A c \in Ctl : Places(c)'
  BY DEF Links, NewLinks, Linked, LinkedNext, IsServer, Tends, Subject, NoBirth
<1>1. TypeOK /\ IInv /\ (\A c \in Ctl : Places(c)) /\ (\A w : LinkedNext(0, w))
  BY LinkNext DEF LInv, IInv, Links
<1>2. CASE UNCHANGED <<file, ctlVars, wdVars>>
  <2>1. NewLinks
    BY <1>2, LinksKept DEF NewLinks, ctlVars, wdVars
  <2>2. \A c \in Ctl : Places(c)'
    BY <1>1, <1>2 DEF Places, ctlVars
  <2> QED BY <2>1, <2>2
<1>3. ASSUME NEW c \in Ctl, Begin(c) \/ Command(c) \/ Crash(c)
      PROVE  NewLinks /\ \A d \in Ctl : Places(d)'
  <2>1. Moves(c)
    BY <1>1, <1>3, CommandMoves
  <2>2. OnlyCommand(c) /\ Origin(c, file') /\ Origin(c, state'[c]) /\ Origin(c, latest'[c])
    BY <2>1 DEF Moves
  <2>3. ASSUME NEW r, Origin(c, r) PROVE LinkedNext(r.srv, r.wd)
    BY <1>1, <2>3, LinksKept DEF Origin
  <2>4. LinkedNext(server'[c], watcher'[c])
    <3>1. CASE server'[c] = last + 1 /\ watcher'[c] = 0 /\ kind'[last + 1] = "server"
      <4>1. 0 \notin alive'
        BY BirthFacts DEF TypeOK, OsType
      <4> QED BY <3>1, <4>1 DEF LinkedNext
    <3>2. CASE /\ server'[c] = server[c] /\ watcher'[c] = last + 1
               /\ last + 1 \in Births /\ wpc'[last + 1] = "init" /\ warg'[last + 1] = server[c]
      <4>1. LinkedNext(server[c], 0)
        BY LinksKept
      <4>2. wtarget'[last + 1] = 0
        BY <3>2, KindsStep DEF Kinds
      <4> QED BY <3>2, <4>1, <4>2 DEF LinkedNext
    <3>3. CASE \/ server'[c] = server[c] /\ watcher'[c] = watcher[c]
               \/ server'[c] = 0 /\ watcher'[c] = 0
      BY <1>1, <3>3, LinksKept
    <3> QED BY <2>1, <3>1, <3>2, <3>3 DEF Moves
  <2>5. ASSUME NEW d \in Ctl
        PROVE  /\ LinkedNext(state'[d].srv, state'[d].wd) /\ LinkedNext(latest'[d].srv, latest'[d].wd)
               /\ LinkedNext(server'[d], watcher'[d])
    <3>1. CASE d = c
      BY <2>2, <2>3, <2>4, <3>1
    <3>2. CASE d # c
      BY <2>2, <3>2, LinksKept DEF OnlyCommand
    <3> QED BY <3>1, <3>2
  <2>6. NewLinks
    BY <2>2, <2>3, <2>5, LinksKept DEF NewLinks, OnlyCommand
  <2>7. ASSUME NEW d \in Ctl PROVE Places(d)'
    <3>1. CASE d = c
      BY <2>1, <3>1 DEF Moves, Places
    <3>2. CASE d # c
      BY <1>1, <2>2, <3>2 DEF OnlyCommand, Places
    <3> QED BY <3>1, <3>2
  <2> QED BY <2>6, <2>7
<1>4. ASSUME NEW w \in Births, Watchdog(w) PROVE NewLinks /\ \A c \in Ctl : Places(c)'
  <2>1. /\ UNCHANGED ctlVars
        /\ file' = file \/ file' = [wlatest[w] EXCEPT !.status = "failed_closed"]
        /\ \A v \in Births : wlatest'[v] \in {wlatest[v], file, NoRecord}
    BY <1>1, <1>4, WatchdogForms
  <2>2. wlatest[w] \in Record
    BY <1>1 DEF TypeOK, WdType
  <2>3. \/ file'.srv = file.srv /\ file'.wd = file.wd
        \/ file'.srv = wlatest[w].srv /\ file'.wd = wlatest[w].wd
    BY <2>1, <2>2 DEF Record
  <2>4. NoRecord.srv = 0
    BY DEF NoRecord, NoBirth
  <2>5. UNCHANGED <<pc, state, latest, server, watcher>>
    BY <2>1 DEF ctlVars
  <2>6. ASSUME NEW v \in Births PROVE LinkedNext(wlatest'[v].srv, wlatest'[v].wd)
    <3>1. CASE wlatest'[v] = wlatest[v]
      BY <3>1, LinksKept
    <3>2. CASE wlatest'[v] = file
      BY <3>2, LinksKept
    <3>3. CASE wlatest'[v] = NoRecord
      BY <1>1, <2>4, <3>3
    <3> QED BY <2>1, <3>1, <3>2, <3>3
  <2>7. LinkedNext(file'.srv, file'.wd)
    BY <2>3, LinksKept
  <2>8. NewLinks
    BY <2>5, <2>6, <2>7, LinksKept DEF NewLinks
  <2>9. \A c \in Ctl : Places(c)'
    BY <1>1, <2>5 DEF Places
  <2> QED BY <2>8, <2>9
<1>5. ForeignStart \/ (\E b \in Births : ServerBind(b) \/ ServerExit(b) \/ LateExit(b))
        \/ UNCHANGED vars => UNCHANGED <<file, ctlVars, wdVars>>
  BY DEF ForeignStart, ServerBind, ServerExit, LateExit, vars
<1> QED BY <1>2, <1>3, <1>4, <1>5 DEF Next, Environment

LEMMA LinkedInit == Init => LInv
<1> SUFFICES ASSUME Init PROVE LInv
  OBVIOUS
<1>1. IInv
  BY InvInit
<1>2. Kinds
  BY DEF Init, Kinds, Tending, IsServer, NoBirth
<1>3. Links
  BY DEF Init, Links, Linked, IsServer, Places, NoRecord, NoBirth, Bare, InLaunch
<1> QED BY <1>1, <1>2, <1>3 DEF LInv

LEMMA LinkedInductive == LInv /\ [Next]_vars => LInv'
<1> SUFFICES ASSUME LInv, [Next]_vars PROVE LInv'
  OBVIOUS
<1>1. IInv' /\ TypeOK'
  BY Inductive DEF LInv, IInv
<1> QED BY <1>1, KindsStep, LinksStep DEF LInv

-----------------------------------------------------------------------------
(* One shell, whose commands run to their end.                               *)

\* The server that server.json says is up, and that nobody gave up on.
Up == Owned /\ file.srv \notin givenup

\* What a command that runs knows of the record.  The positions at which a
\* launch is about to return, or a stop has yet to take its server down.
Keeping == {"confirm", "save_check", "save_call", "save_write", "stop_watcher"}
Work(c) ==
    /\ pc[c] # "idle" /\ Up => file.srv = state[c].srv
    /\ pc[c] \in Keeping /\ file.status = "running" =>
          file.srv = state[c].srv /\ file.wd = state[c].wd
    /\ pc[c] \in {"save_call", "save_write"} =>
          latest[c].srv = state[c].srv /\ latest[c].wd = state[c].wd
    /\ pc[c] \notin {"api_call", "api_write"}

\* Positions at which nothing has been started or stopped: a stop that has seen
\* the watchdog and has yet to end it is one of them.
Resting(c) ==
    \/ pc[c] \in {"idle", "save_check", "save_call", "save_write"}
    \/ pc[c] = "stop_watcher" /\ kill[c] # "no"

Guarded ==
    misfires = {} =>
        \A c \in Ctl : Resting(c) /\ Up /\ file.wd \notin givenup => file.wd \in alive

OneShell == \E c \in Ctl : Ctl = {c}
WInv == LInv /\ (\A c \in Ctl : Work(c)) /\ Guarded

LEMMA UpBefore ==
    ASSUME IInv, TypeOK', [Next]_vars, file' = file, Up'
    PROVE  Up
<1>1. file.srv \in 0 .. last
  BY LinkRange
<1> QED BY <1>1, OsSteps, GivenUpGrows DEF IInv, Up, Owned, Matches

\* What the invariant says to a command of a server that is recorded as running.
LEMMA WorkFacts ==
    ASSUME LInv, NEW c \in Ctl, Work(c)
    PROVE  /\ IInv /\ TypeOK /\ Places(c) /\ 0 \notin alive
           /\ kill[c] # "no" => pc[c] \in KillSites
           /\ pc[c] \in {"port_check", "popen", "identify"} => ~Up
           /\ pc[c] \in Done => ~Up
           /\ pc[c] # "idle" /\ Up => /\ state[c].srv = file.srv /\ state[c].srv \in alive
                                      /\ state[c].srv \notin givenup
<1>1. IInv /\ TypeOK /\ Places(c) /\ 0 \notin alive
  BY BirthFacts DEF LInv, Links, IInv, TypeOK, OsType
<1>2. kill[c] # "no" => pc[c] \in KillSites
  BY <1>1, Held1
<1>3. pc[c] # "idle" /\ Up => /\ state[c].srv = file.srv /\ state[c].srv \in alive
                              /\ state[c].srv \notin givenup
  BY DEF Work, Up, Owned, Matches
<1>4. pc[c] \in {"port_check", "popen", "identify"} => ~Up
  BY <1>1, <1>3 DEF Places, Bare
<1>5. pc[c] \in Done => ~Up
  BY <1>1, <1>3 DEF IInv, Gone, Ended, Done
<1> QED BY <1>1, <1>2, <1>3, <1>4, <1>5

\* A command rests only where it rested before, or where it has just seen that
\* the recorded watchdog runs; and it does so without a write or a stop.
Rests(c) ==
    Resting(c)' /\ Up' =>
        /\ file' = file /\ alive' = alive
        /\ Resting(c) \/ ~Up \/ file.wd \in alive

\* A command whose step goes on to `to`, where nothing rests.
LEMMA RestGoto ==
    ASSUME TypeOK, NEW c \in Ctl, NEW to, Goto(c, to),
           to \notin {"idle", "save_check", "save_call", "save_write", "stop_watcher"}
    PROVE  Rests(c)
BY DEF Rests, Resting, Goto, TypeOK, CtlType

LEMMA RestLeave ==
    ASSUME TypeOK, NEW c \in Ctl, NEW mark, pc[c] \in KillSites, Leave(c, mark)
    PROVE  Rests(c)
<1>1. After(pc[c]) \in {"outer_handler", "handler_read", "stop_server", "write_stopped"}
  BY DEF After, KillSites
<1> QED BY <1>1, RestGoto DEF Leave

\* A command that gives up on the server ends its claim, and leaves the rest.
LEMMA RestSpare ==
    ASSUME LInv, NEW c \in Ctl, Work(c), file' = file, alive' = alive, givenup \subseteq givenup',
           \/ Resting(c)
           \/ pc[c] # "idle" /\ Spare(state[c].srv)
    PROVE  Rests(c)
<1>1. CASE Resting(c)
  BY <1>1 DEF Rests
<1>2. CASE pc[c] # "idle" /\ Spare(state[c].srv)
  <2>1. Up' => Up
    BY DEF Up, Owned, Matches
  <2>2. ~Up'
    BY <1>2, <2>1, WorkFacts DEF Spare, Up
  <2> QED BY <2>2 DEF Rests
<1> QED BY <1>1, <1>2

LEMMA RestBegin ==
    ASSUME LInv, NEW c \in Ctl, Work(c), Begin(c), "api" \notin Ops
    PROVE  Rests(c)
<1>1. CASE LaunchBegin(c)
  BY <1>1, WorkFacts, RestGoto DEF LaunchBegin
<1>2. CASE StopBegin(c)
  BY <1>2 DEF StopBegin, Rests, Resting, osVars
<1> QED BY <1>1, <1>2 DEF Begin, ApiBegin

LEMMA RestKill ==
    ASSUME LInv, NEW c \in Ctl, Work(c), Kill(c), givenup \subseteq givenup'
    PROVE  Rests(c)
<1> USE WorkFacts
<1>0. pc[c] \in KillSites /\ pc[c] # "idle" /\ file' = file
  BY DEF Kill, KillCheck, KillFirst, KillAgain, KillSites
<1>1. CASE KillCheck(c)
  <2>1. /\ alive' = alive
        /\ \/ \E mark : Leave(c, mark)
           \/ pc' = pc /\ Matches(Target(c))
           \/ pc[c] = "stop_server" /\ Spare(Target(c))
    BY <1>1 DEF KillCheck, osVars
  <2>2. CASE \E mark : Leave(c, mark)
    BY <1>0, <2>2, RestLeave
  <2>3. CASE pc' = pc /\ Matches(Target(c))
    <3>1. Resting(c)' => pc[c] = "stop_watcher"
      BY <1>0, <2>3 DEF Resting, KillSites
    <3>2. pc[c] = "stop_watcher" => state[c].wd \in alive
      BY <2>3 DEF Matches, Target
    <3>3. pc[c] = "stop_watcher" /\ Up => file.wd = state[c].wd
      BY DEF Work, Keeping, Up, Owned
    <3> QED BY <1>0, <2>1, <3>1, <3>2, <3>3 DEF Rests
  <2>4. CASE pc[c] = "stop_server" /\ Spare(Target(c))
    BY <1>0, <2>1, <2>4, RestSpare DEF Target
  <2> QED BY <2>1, <2>2, <2>3, <2>4
<1>5. ASSUME pc[c] \in KillSites, kill[c] # "no", alive' = alive, Spare(Target(c)), KillRaises(c)
      PROVE  Rests(c)
  <2>1. CASE pc[c] = "stop_watcher"
    BY <1>0, <1>5, <2>1, RestSpare DEF Resting
  <2>2. CASE pc[c] = "stop_server"
    BY <1>0, <1>5, <2>2, RestSpare DEF Target
  <2>3. CASE pc[c] \notin {"stop_watcher", "stop_server"}
    BY <1>5, <2>3, RestLeave DEF KillRaises
  <2> QED BY <2>1, <2>2, <2>3
<1>2. CASE KillFirst(c)
  <2>1. /\ kill[c] = "armed"
        /\ \/ \E mark : Leave(c, mark)
           \/ kill' = [kill EXCEPT ![c] = "slow"] /\ pc' = pc /\ alive' = alive
           \/ Spare(Target(c)) /\ KillRaises(c) /\ alive' = alive
    BY <1>2 DEF KillFirst, osVars
  <2>2. CASE \E mark : Leave(c, mark)
    BY <1>0, <2>2, RestLeave
  <2>3. CASE kill' = [kill EXCEPT ![c] = "slow"] /\ pc' = pc /\ alive' = alive
    <3>1. Resting(c)' => Resting(c)
      BY <1>0, <2>1, <2>3 DEF Resting, KillSites
    <3> QED BY <1>0, <2>3, <3>1 DEF Rests
  <2> QED BY <1>0, <1>5, <2>1, <2>2, <2>3
<1>3. CASE KillAgain(c)
  <2>1. /\ kill[c] = "slow"
        /\ \/ \E mark : Leave(c, mark)
           \/ Spare(Target(c)) /\ KillRaises(c) /\ alive' = alive
    BY <1>3 DEF KillAgain, osVars
  <2> QED BY <1>0, <1>5, <2>1, RestLeave
<1> QED BY <1>1, <1>2, <1>3 DEF Kill

LEMMA RestStop ==
    ASSUME LInv, NEW c \in Ctl, Work(c), Stop(c)
    PROVE  Rests(c)
<1> USE WorkFacts
<1>1. CASE StopSaveCheck(c) \/ StopSaveCall(c)
  BY <1>1 DEF StopSaveCheck, StopSaveCall, Rests, Resting, osVars
<1>2. CASE StopSaveWrite(c)
  <2>1. pc'[c] = "stop_watcher" /\ kill'[c] = kill[c] /\ kill[c] = "no"
    BY <1>2 DEF StopSaveWrite, Goto, locals, KillSites, TypeOK, CtlType
  <2> QED BY <2>1 DEF Rests, Resting
<1>3. CASE StopWrite(c)
  <2>1. file' = [state[c] EXCEPT !.status = "stopped"] /\ state[c] \in Record
    BY <1>3 DEF StopWrite, TypeOK, CtlType
  <2>2. file'.status = "stopped"
    BY <2>1 DEF Record
  <2> QED BY <2>2 DEF Rests, Up, Owned
<1> QED BY <1>1, <1>2, <1>3 DEF Stop

LEMMA RestLaunch ==
    ASSUME LInv, NEW c \in Ctl, Work(c), Launch(c)
    PROVE  Rests(c)
<1> USE WorkFacts
<1>1. CASE LaunchPreflight(c)
  <2>1. ~Up /\ file' = file /\ alive' = alive
    BY <1>1 DEF LaunchPreflight, osVars
  <2> QED BY <2>1 DEF Rests
<1>2. CASE LaunchPopen(c)
  <2>1. ~Up /\ file' = file /\ (Goto(c, "identify") \/ alive' = alive)
    BY <1>2 DEF LaunchPopen, osVars
  <2>2. CASE Goto(c, "identify")
    BY <2>2, RestGoto
  <2>3. CASE alive' = alive
    BY <2>1, <2>3 DEF Rests
  <2> QED BY <2>1, <2>2, <2>3
<1>3. CASE \/ LaunchPublish(c) \/ LaunchHealthy(c) \/ LaunchSetRunning(c) \/ LaunchAnnounce(c)
           \/ LaunchSpawnWatchdog(c) \/ LaunchTelemetrySeen(c) \/ LaunchTelemetryTimeout(c)
           \/ LaunchWriteFinal(c) \/ LaunchConfirmRead(c) \/ LaunchConfirmWrite(c)
           \/ LaunchHandlerRead(c)
  BY <1>3, RestGoto DEF LaunchPublish, LaunchHealthy, LaunchSetRunning, LaunchAnnounce,
     LaunchSpawnWatchdog, LaunchTelemetrySeen, LaunchTelemetryTimeout, LaunchWriteFinal,
     LaunchConfirmRead, LaunchConfirmWrite, LaunchHandlerRead
<1>4. CASE LaunchIdentify(c) \/ LaunchVerify(c) \/ LaunchRaise(c)
  <2>1. \E to \in {"publish", "outer_handler", "write_final", "inner_handler"} : Goto(c, to)
    BY <1>4 DEF LaunchIdentify, LaunchVerify, LaunchRaise
  <2> QED BY <2>1, RestGoto
<1>5. CASE LaunchConfirm(c)
  <2>1. /\ file' = file /\ alive' = alive /\ pc[c] = "confirm"
        /\ state[c].wd \in alive \/ Goto(c, "confirm_read")
    BY <1>5 DEF LaunchConfirm, Matches, osVars
  <2>2. CASE Goto(c, "confirm_read")
    BY <2>2, RestGoto
  <2>3. CASE state[c].wd \in alive
    <3>1. Up => file.wd = state[c].wd
      BY <2>1 DEF Work, Keeping, Up, Owned
    <3> QED BY <2>1, <2>3, <3>1 DEF Rests
  <2> QED BY <2>1, <2>2, <2>3
<1>6. CASE LaunchHandlerWrite(c)
  <2>1. ~Up /\ alive' = alive /\ latest[c] \in Record
    BY <1>6 DEF LaunchHandlerWrite, Done, osVars, TypeOK, CtlType
  <2>2. CASE file' = file
    BY <2>1, <2>2 DEF Rests
  <2>3. CASE file' # file
    <3>1. \E s \in {"failed", "failed_closed"} : file' = [latest[c] EXCEPT !.status = s]
      BY <1>6, <2>3 DEF LaunchHandlerWrite
    <3>2. file'.status \in {"failed", "failed_closed"}
      BY <2>1, <3>1 DEF Record
    <3> QED BY <3>2 DEF Rests, Up, Owned
  <2> QED BY <2>2, <2>3
<1> QED BY <1>1, <1>2, <1>3, <1>4, <1>5, <1>6 DEF Launch

LEMMA RestCommand ==
    ASSUME LInv, NEW c \in Ctl, Work(c), Begin(c) \/ Command(c), "api" \notin Ops,
           givenup \subseteq givenup'
    PROVE  Rests(c)
<1>1. ~Api(c)
  BY DEF Work, Api, ApiCall, ApiWrite
<1> QED BY <1>1, RestBegin, RestKill, RestStop, RestLaunch DEF Command

\* A watchdog that tends the server recorded as running stays, whatever another
\* watchdog does: it leaves only when the record or the server says so, or when
\* it gives up on the server, and what it terminates is the server, unless the
\* pid has gone to another process.
LEMMA WatchdogSpares ==
    ASSUME LInv, NEW v \in Births, Watchdog(v), misfires' = {}, file' = file, Up, Up',
           NEW w \in alive, Tends(w, file.srv)
    PROVE  w \in alive'
<1>1. /\ TypeOK /\ v \in Births /\ w \in Births /\ kind[w] = "watchdog" /\ wpc[w] # "none"
      /\ IsServer(wtarget[v]) /\ 0 \notin alive /\ file.srv \in alive /\ file.srv # 0
      /\ wpc[w] \in {"none", "init"} => wtarget[w] = 0
      /\ wpc[w] \in Tending => wtarget[w] # 0
      /\ wkill[v] # "no" => wtarget[v] # 0
  <2>1. TypeOK /\ w \in Births /\ 0 \notin alive /\ Aims
    BY AliveBirths, BirthFacts DEF LInv, IInv, TypeOK, OsType
  <2>2. wpc[w] # "none" /\ file.srv \in alive
    BY DEF Tends, Up, Owned, Matches
  <2> QED BY <2>1, <2>2 DEF LInv, Kinds, Aims
\* It gives up on no server that stays up.
<1>2. ~Spare(file.srv)
  BY <1>1 DEF Spare, Up
<1>3. ASSUME WExit(v), v # w PROVE w \in alive'
  BY <1>3 DEF WExit, Die
<1>4. ASSUME v = w PROVE Subject(v) = file.srv /\ (wtarget[v] # 0 => wtarget[v] = file.srv)
  BY <1>4 DEF Tends, Subject, NoBirth
<1>5. ASSUME WRaises(v), v = w => wpc[v] \notin WatchHandlerPc PROVE w \in alive'
  BY <1>3, <1>5 DEF WRaises, osVars
<1>6. CASE WatchInit(v)
  <2>1. CASE alive' = alive
    BY <2>1
  <2>2. CASE alive' # alive /\ v = w
    <3>1. warg[v] = file.srv
      BY <1>1, <1>4, <1>6, <2>2 DEF WatchInit, Subject, NoBirth
    <3> QED BY <1>1, <1>2, <1>6, <2>2, <3>1 DEF WatchInit, osVars, NoBirth
  <2> QED BY <1>3, <1>6, <2>1, <2>2 DEF WatchInit, osVars
<1>7. CASE WatchPoll(v)
  <2>1. CASE v = w
    <3>1. wtarget[v] = file.srv /\ file.status = "running"
      BY <1>1, <1>4, <1>7, <2>1 DEF WatchPoll, Tending, Up, Owned
    <3> QED BY <1>2, <1>7, <3>1 DEF WatchPoll, osVars
  <2> QED BY <1>3, <1>7, <2>1 DEF WatchPoll, osVars
<1>8. CASE WatchSnapshot(v) \/ WatchRead(v)
  BY <1>8 DEF WatchSnapshot, WatchRead, osVars
<1>9. CASE WatchKillCheck(v)
  <2>1. CASE alive' = alive
    BY <2>1
  <2>2. CASE Spare(wtarget[v]) /\ wtarget[v] # 0 /\ WRaises(v)
    <3>1. v # w
      BY <1>2, <1>4, <2>2
    <3> QED BY <1>5, <2>2, <3>1
  <2> QED BY <1>9, <2>1, <2>2 DEF WatchKillCheck, osVars, NoBirth
<1>10. CASE WatchKillFirst(v) \/ WatchKillAgain(v)
  <2>1. wtarget[v] # w /\ wtarget[v] # 0
    BY <1>1, <1>10 DEF IsServer, WatchKillFirst, WatchKillAgain
  <2>2. \/ alive' = alive
        \/ \E x : Strike(x, wtarget[v], wseen[v])
        \/ Spare(wtarget[v]) /\ WRaises(v)
    BY <1>10 DEF WatchKillFirst, WatchKillAgain, osVars
  <2>3. ASSUME NEW x, Strike(x, wtarget[v], wseen[v]) PROVE alive' = alive \ {wtarget[v]}
    BY <2>3 DEF Strike, Hit, Die
  <2>4. ASSUME Spare(wtarget[v]), WRaises(v) PROVE w \in alive'
    <3>1. v # w
      BY <1>2, <1>4, <2>1, <2>4
    <3> QED BY <1>5, <2>4, <3>1
  <2> QED BY <2>1, <2>2, <2>3, <2>4
<1>11. CASE WatchWrite(v)
  <2>1. wlatest[v] \in Record /\ file' = [wlatest[v] EXCEPT !.status = "failed_closed"]
    BY <1>1, <1>11 DEF WatchWrite, TypeOK, WdType
  <2>2. file'.status = "failed_closed"
    BY <2>1 DEF Record
  <2> QED BY <2>2 DEF Up, Owned
<1>12. CASE WatchRaise(v)
  BY <1>2, <1>4, <1>5, <1>12 DEF WatchRaise
<1> QED BY <1>6, <1>7, <1>8, <1>9, <1>10, <1>11, <1>12 DEF Watchdog

\* So does whatever happens outside the controller, which kills servers, and
\* processes that somebody gave up on.
LEMMA OutsideSpares ==
    ASSUME LInv, NEW w \in alive, wpc[w] # "none", w \notin givenup,
           ForeignStart \/ \E b \in Births : ServerBind(b) \/ ServerExit(b) \/ LateExit(b)
    PROVE  w \in alive'
<1>1. kind[w] = "watchdog"
  BY AliveBirths DEF LInv, IInv, TypeOK, Kinds
<1>2. ASSUME NEW b \in Births, ServerBind(b) \/ ServerExit(b) \/ LateExit(b) PROVE w \in alive'
  BY <1>1, <1>2 DEF ServerBind, ServerExit, LateExit, Die
<1> QED BY <1>2 DEF ForeignStart, Spawn

LEMMA MisfiresStay == ASSUME [Next]_vars PROVE misfires \subseteq misfires'
<1> USE DEF history
<1>1. ASSUME NEW v, NEW t, NEW since, Hit(v, t, since) PROVE misfires \subseteq misfires'
  BY <1>1 DEF Hit
<1>2. CASE UNCHANGED vars \/ Environment
  BY <1>2 DEF vars, Environment, ForeignStart, ServerBind, ServerExit, LateExit, Crash
<1>3. ASSUME NEW c \in Ctl, Kill(c) PROVE misfires \subseteq misfires'
  BY <1>1, <1>3 DEF Kill, KillCheck, KillFirst, KillAgain, Strike
<1>4. ASSUME NEW c \in Ctl, Begin(c) \/ Api(c) \/ Stop(c) PROVE misfires' = misfires
  BY <1>4 DEF Begin, LaunchBegin, ApiBegin, StopBegin, Api, Stop, ApiCall, ApiWrite,
     StopSaveCheck, StopSaveCall, StopSaveWrite, StopWrite
<1>5. ASSUME NEW c \in Ctl, Launch(c) PROVE misfires' = misfires
  BY <1>5 DEF Launch, LaunchPreflight, LaunchPopen, LaunchIdentify, LaunchPublish, LaunchHealthy,
     LaunchSetRunning, LaunchAnnounce, LaunchSpawnWatchdog, LaunchTelemetrySeen,
     LaunchTelemetryTimeout, LaunchVerify, LaunchWriteFinal, LaunchConfirm, LaunchConfirmRead,
     LaunchConfirmWrite, LaunchRaise, LaunchHandlerRead, LaunchHandlerWrite
<1>6. ASSUME NEW w \in Births, Watchdog(w) PROVE misfires \subseteq misfires'
  BY <1>1, <1>6 DEF Watchdog, WatchInit, WatchPoll, WatchSnapshot, WatchKillCheck, WatchKillFirst,
     WatchKillAgain, WatchRead, WatchWrite, WatchRaise, Strike
<1> QED BY <1>2, <1>3, <1>4, <1>5, <1>6 DEF Next, Command

\* The recorded watchdog and the recorded server, when both run.
LEMMA RecordedTends ==
    ASSUME LInv, Up, file.wd \in alive PROVE Tends(file.wd, file.srv)
BY DEF LInv, Links, Linked, Up, Owned, Matches

LEMMA GuardedStep ==
    ASSUME WInv, TypeOK', [Next]_vars, "api" \notin Ops, ~CanCrash, OneShell
    PROVE  Guarded'
<1> SUFFICES ASSUME misfires' = {}, NEW c \in Ctl, Resting(c)', Up', file'.wd \notin givenup'
             PROVE  file'.wd \in alive'
  BY DEF Guarded
<1>1. /\ LInv /\ IInv /\ TypeOK /\ Work(c) /\ Ctl = {c} /\ misfires = {}
      /\ givenup \subseteq givenup'
      /\ (Resting(c) /\ Up /\ file.wd \notin givenup => file.wd \in alive)
  BY MisfiresStay, GivenUpGrows DEF WInv, LInv, IInv, Guarded, OneShell
<1>2. ASSUME file' = file, Resting(c) PROVE file.wd \in alive /\ Up /\ file.wd \notin givenup
  BY <1>1, <1>2, UpBefore
<1>3. CASE UNCHANGED vars
  <2>1. Resting(c) /\ file' = file /\ alive' = alive
    BY <1>3 DEF vars, ctlVars, osVars, Resting
  <2> QED BY <1>2, <2>1
<1>4. CASE ForeignStart \/ \E b \in Births : ServerBind(b) \/ ServerExit(b) \/ LateExit(b)
  <2>1. Resting(c) /\ file' = file
    BY <1>4 DEF ForeignStart, ServerBind, ServerExit, LateExit, ctlVars, Resting
  <2>2. Tends(file.wd, file.srv)
    BY <1>1, <1>2, <2>1, RecordedTends
  <2> QED BY <1>1, <1>2, <1>4, <2>1, <2>2, OutsideSpares DEF Tends
<1>5. CASE \E d \in Ctl : Begin(d) \/ Command(d)
  <2>1. Rests(c)
    BY <1>1, <1>5, RestCommand
  <2>2. file' = file /\ alive' = alive /\ (Resting(c) \/ ~Up \/ file.wd \in alive)
    BY <2>1 DEF Rests
  <2> QED BY <1>1, <1>2, <2>2, UpBefore
<1>6. ASSUME NEW v \in Births, Watchdog(v) PROVE file'.wd \in alive'
  <2>1. Resting(c) /\ (file' = file \/ file' = [wlatest[v] EXCEPT !.status = "failed_closed"])
    BY <1>1, <1>6, WatchdogForms DEF ctlVars, Resting
  <2>2. file' = file
    <3>1. wlatest[v] \in Record
      BY <1>1 DEF TypeOK, WdType
    <3>2. file'.status = "running"
      BY DEF Up, Owned
    <3> QED BY <2>1, <3>1, <3>2 DEF Record
  <2>3. file.wd \in alive /\ Up /\ Tends(file.wd, file.srv)
    BY <1>1, <1>2, <2>1, <2>2, RecordedTends
  <2> QED BY <1>1, <1>6, <2>2, <2>3, WatchdogSpares
<1> QED BY <1>3, <1>4, <1>5, <1>6 DEF Next, Environment, Crash

\* The record that a command works from keeps to the one on disk.
LEMMA WorkCommand ==
    ASSUME LInv, TypeOK', NEW c \in Ctl, Work(c), Begin(c) \/ Command(c), "api" \notin Ops,
           file' = file /\ Up' => Up
    PROVE  Work(c)'
<1> USE WorkFacts
<1>1. /\ state[c] \in Record /\ latest[c] \in Record
  BY DEF TypeOK, CtlType
<1>2. CASE Begin(c)
  <2>1. CASE LaunchBegin(c)
    <3>1. file' = file /\ alive' = alive /\ pc'[c] = "port_check" /\ OwnershipDenied
      BY <2>1 DEF LaunchBegin, Goto, osVars, TypeOK, CtlType
    <3>2. ~Up'
      BY <3>1 DEF OwnershipDenied, Spare, Up, Owned, Matches
    <3> QED BY <3>1, <3>2 DEF Work, Keeping
  <2>2. CASE StopBegin(c)
    <3>1. file' = file /\ state'[c] = file /\ pc'[c] \in {"stop_watcher", "save_check"}
      BY <2>2 DEF StopBegin, Goto, TypeOK, CtlType
    <3> QED BY <3>1 DEF Work
  <2> QED BY <1>2, <2>1, <2>2 DEF Begin, ApiBegin
<1>3. CASE Kill(c)
  <2>1. file' = file /\ pc[c] \in KillSites
    BY <1>3 DEF Kill, KillCheck, KillFirst, KillAgain
  <2>2. \/ Finish(c)
        \/ \E mark : Leave(c, mark)
        \/ pc' = pc /\ state' = state
    BY <1>3 DEF Kill, KillCheck, KillFirst, KillAgain, KillRaises
  <2>3. CASE Finish(c)
    <3>1. pc'[c] = "idle"
      BY <2>3 DEF Finish, Goto, TypeOK, CtlType
    <3> QED BY <3>1 DEF Work, Keeping
  <2>4. ASSUME NEW mark, Leave(c, mark) PROVE Work(c)'
    <3>1. pc'[c] = After(pc[c]) /\ state'[c] \in {state[c], [state[c] EXCEPT !.wstatus = mark]}
      BY <2>4 DEF Leave, WatcherMarked, Goto, TypeOK, CtlType
    <3>2. state'[c].srv = state[c].srv
      BY <1>1, <3>1 DEF Record
    <3>3. pc'[c] \in {"outer_handler", "handler_read", "stop_server", "write_stopped"}
          /\ pc[c] # "idle"
      BY <2>1, <3>1 DEF After, KillSites
    <3> QED BY <2>1, <3>2, <3>3 DEF Work, Keeping
  <2>5. CASE pc' = pc /\ state' = state
    BY <2>1, <2>5 DEF Work, Keeping, KillSites
  <2> QED BY <2>2, <2>3, <2>4, <2>5
<1>4. CASE Stop(c)
  <2>1. CASE StopSaveCheck(c)
    <3>1. /\ file' = file /\ pc[c] = "save_check"
          /\ \/ Owned /\ latest'[c] = file /\ state'[c] = state[c] /\ pc'[c] = "save_call"
             \/ pc'[c] = "idle"
      BY <2>1 DEF StopSaveCheck, Finish, Goto, TypeOK, CtlType
    <3> QED BY <3>1 DEF Work, Keeping, Owned
  <2>2. CASE StopSaveCall(c)
    <3>1. /\ file' = file /\ pc[c] = "save_call"
          /\ \/ latest'[c] = latest[c] /\ state'[c] = state[c] /\ pc'[c] = "save_write"
             \/ pc'[c] = "idle"
      BY <2>2 DEF StopSaveCall, Finish, Goto, locals, TypeOK, CtlType
    <3> QED BY <3>1 DEF Work, Keeping
  <2>3. CASE StopSaveWrite(c)
    <3>1. /\ file' = latest[c] /\ pc[c] = "save_write" /\ state'[c] = state[c]
          /\ pc'[c] = "stop_watcher"
      BY <2>3 DEF StopSaveWrite, Goto, locals, TypeOK, CtlType
    <3> QED BY <3>1 DEF Work
  <2>4. CASE StopWrite(c)
    <3>1. pc'[c] = "idle"
      BY <2>4 DEF StopWrite, Finish, Goto, TypeOK, CtlType
    <3> QED BY <3>1 DEF Work, Keeping
  <2> QED BY <1>4, <2>1, <2>2, <2>3, <2>4 DEF Stop
<1>5. CASE Launch(c)
  <2>1. CASE LaunchPreflight(c) \/ LaunchPopen(c) \/ LaunchIdentify(c)
    <3>1. file' = file /\ ~Up /\ pc'[c] \in {"popen", "identify", "publish", "outer_handler", "idle"}
      BY <2>1 DEF LaunchPreflight, LaunchPopen, LaunchIdentify, Finish, Goto, TypeOK, CtlType
    <3> QED BY <3>1 DEF Work, Keeping
  <2>2. CASE LaunchPublish(c) \/ LaunchSetRunning(c) \/ LaunchAnnounce(c) \/ LaunchWriteFinal(c)
    <3>1. file' = state'[c] /\ pc'[c] \in {"health", "announce", "spawn", "confirm"}
      BY <2>2 DEF LaunchPublish, LaunchSetRunning, LaunchAnnounce, LaunchWriteFinal, Goto, locals,
         TypeOK, CtlType
    <3> QED BY <3>1 DEF Work
  <2>3. CASE \/ LaunchHealthy(c) \/ LaunchSpawnWatchdog(c) \/ LaunchTelemetrySeen(c)
             \/ LaunchTelemetryTimeout(c) \/ LaunchConfirmRead(c) \/ LaunchHandlerRead(c)
             \/ LaunchRaise(c)
    <3>1. /\ file' = file /\ state'[c] = state[c] /\ pc[c] # "idle"
          /\ pc'[c] \in {"set_running", "await_telemetry", "verify", "inner_handler",
                         "confirm_write", "handler_write", "outer_handler"}
      BY <2>3 DEF LaunchHealthy, LaunchSpawnWatchdog, LaunchTelemetrySeen, LaunchTelemetryTimeout,
         LaunchConfirmRead, LaunchHandlerRead, LaunchRaise, LaunchBodyPc, LaunchWatchPc, Goto,
         locals, TypeOK, CtlType
    <3> QED BY <3>1 DEF Work, Keeping
  <2>4. CASE LaunchVerify(c)
    <3>1. /\ file' = file /\ pc[c] = "verify" /\ pc'[c] \in {"write_final", "inner_handler"}
          /\ state'[c] \in {state[c], [state[c] EXCEPT !.wstatus = "running", !.wd = watcher[c]]}
      BY <2>4 DEF LaunchVerify, Goto, TypeOK, CtlType
    <3>2. state'[c].srv = state[c].srv
      BY <1>1, <3>1 DEF Record
    <3> QED BY <3>1, <3>2 DEF Work, Keeping
  <2>5. CASE LaunchConfirm(c)
    <3>1. /\ file' = file /\ pc[c] = "confirm"
          /\ pc'[c] = "idle" \/ (pc'[c] = "confirm_read" /\ state'[c] = state[c])
      BY <2>5 DEF LaunchConfirm, Finish, Goto, locals, TypeOK, CtlType
    <3> QED BY <3>1 DEF Work, Keeping
  <2>6. CASE LaunchConfirmWrite(c)
    <3>1. file' = [latest[c] EXCEPT !.status = "failed_closed"] /\ pc'[c] = "outer_handler"
      BY <2>6 DEF LaunchConfirmWrite, Goto, TypeOK, CtlType
    <3>2. file'.status = "failed_closed"
      BY <1>1, <3>1 DEF Record
    <3> QED BY <3>1, <3>2 DEF Work, Keeping, Up, Owned
  <2>7. CASE LaunchHandlerWrite(c)
    <3>1. pc'[c] = "idle"
      BY <2>7 DEF LaunchHandlerWrite, Finish, Goto, TypeOK, CtlType
    <3> QED BY <3>1 DEF Work, Keeping
  <2> QED BY <1>5, <2>1, <2>2, <2>3, <2>4, <2>5, <2>6, <2>7 DEF Launch
<1>6. ~Api(c)
  BY DEF Work, Api, ApiCall, ApiWrite
<1> QED BY <1>2, <1>3, <1>4, <1>5, <1>6 DEF Command

LEMMA WorkStep ==
    ASSUME WInv, TypeOK', [Next]_vars, "api" \notin Ops, ~CanCrash, OneShell, NEW c \in Ctl
    PROVE  Work(c)'
<1>1. LInv /\ IInv /\ TypeOK /\ Work(c) /\ Ctl = {c}
  BY DEF WInv, LInv, IInv, OneShell
<1>2. file' = file /\ Up' => Up
  BY <1>1, UpBefore
<1>3. CASE UNCHANGED <<ctlVars, file>>
  BY <1>1, <1>2, <1>3 DEF Work, ctlVars
<1>4. CASE \E d \in Ctl : Begin(d) \/ Command(d)
  BY <1>1, <1>2, <1>4, WorkCommand
<1>5. ASSUME NEW v \in Births, Watchdog(v) PROVE Work(c)'
  <2>1. UNCHANGED ctlVars /\ (file' = file \/ file' = [wlatest[v] EXCEPT !.status = "failed_closed"])
    BY <1>1, <1>5, WatchdogForms
  <2>2. wlatest[v] \in Record
    BY <1>1 DEF TypeOK, WdType
  <2>3. file' # file => file'.status = "failed_closed"
    BY <2>1, <2>2 DEF Record
  <2>4. UNCHANGED <<pc, state, latest>>
    BY <2>1 DEF ctlVars
  <2> QED BY <1>1, <1>2, <2>3, <2>4 DEF Work, Up, Owned
<1>6. UNCHANGED vars \/ Environment => UNCHANGED <<ctlVars, file>>
  BY DEF vars, Environment, ForeignStart, ServerBind, ServerExit, LateExit, Crash
<1> QED BY <1>3, <1>4, <1>5, <1>6 DEF Next

\* The invariant of one shell.
LEMMA WatchedInductive ==
    ASSUME "api" \notin Ops, ~CanCrash, OneShell
    PROVE  WInv /\ [Next]_vars => WInv'
<1> SUFFICES ASSUME WInv, [Next]_vars PROVE WInv'
  OBVIOUS
<1>1. LInv' /\ TypeOK'
  BY LinkedInductive DEF WInv, LInv, IInv
<1>2. \A c \in Ctl : Work(c)'
  BY <1>1, WorkStep
<1>3. Guarded'
  BY <1>1, GuardedStep
<1> QED BY <1>1, <1>2, <1>3 DEF WInv

LEMMA WatchedInit == Init => WInv
<1> SUFFICES ASSUME Init PROVE WInv
  OBVIOUS
<1>1. LInv
  BY LinkedInit
<1>2. (\A c \in Ctl : Work(c)) /\ Guarded
  BY DEF Init, Work, Keeping, Guarded, Up, Owned, NoRecord
<1> QED BY <1>1, <1>2 DEF WInv

\* With one shell, whose commands launch and stop and are not interrupted: at
\* whatever steps a launch fails, the server dies or a watchdog left behind by an
\* earlier launch writes late, a server that server.json records as running, and
\* that runs, is in the hands of a command or has its watchdog, unless somebody
\* gave up on the server or on the watchdog.
THEOREM RunningRecordWatchedHolds ==
    ASSUME OneShell, "api" \notin Ops, ~CanCrash
    PROVE  Spec => []RunningRecordWatched
<1>1. WInv => RunningRecordWatched
  <2> SUFFICES ASSUME WInv, misfires = {}, Owned, ~InHand(file.srv),
                      {file.srv, file.wd} \cap givenup = {}, NEW c \in Ctl, Ctl = {c}
               PROVE  Watched(file.srv)
    BY DEF RunningRecordWatched, OneShell
  <2>1. /\ LInv /\ Work(c) /\ (Resting(c) => file.wd \in alive) /\ pc[c] \in PcSet
        /\ Up /\ file.srv \in alive
    BY DEF WInv, Guarded, Up, Owned, Matches, LInv, IInv, TypeOK, CtlType
  <2>2. ASSUME ~Resting(c) PROVE FALSE
    <3>1. state[c].srv = file.srv /\ pc[c] # "idle" /\ pc[c] \notin Done /\ 0 # file.srv
      BY <2>1, <2>2, WorkFacts DEF Resting
    <3>2. pc[c] \in Bare \cup InLaunch \cup KillSites
      BY <2>1, <2>2, <3>1 DEF Resting, Work, Done, PcSet, LaunchBodyPc, LaunchWatchPc, StopPc,
         KillSites, Bare, InLaunch
    <3>3. pc[c] \notin Bare
      BY <2>1, <3>1, WorkFacts DEF Places
    <3>4. pc[c] \notin KillSites
      BY <3>1 DEF InHand
    <3>5. pc[c] \notin InLaunch
      BY <2>1, <3>1, WorkFacts DEF Places, InHand
    <3> QED BY <3>2, <3>3, <3>4, <3>5
  <2>3. file.wd \in alive
    BY <2>1, <2>2
  <2> QED BY <2>1, <2>3, RecordedTends DEF Watched
<1> QED BY <1>1, WatchedInit, WatchedInductive, PTL DEF Spec
=============================================================================
