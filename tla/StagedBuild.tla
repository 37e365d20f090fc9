--------------------------- MODULE StagedBuild ---------------------------
(* The canonical 60K build (scripts/q3ple_canonical_60k.py): a long prompt *)
(* is evaluated in stages.  Every stage has a server process of its own,   *)
(* which restores the slot file of the stage before, evaluates only the    *)
(* tokens that are new, and saves a slot file again.  A last server        *)
(* restores the final file once more before the result is written.         *)
(*                                                                         *)
(* The canonical prompt is cut into transport chunks, and position p       *)
(* stands for the p-th of them; stage i ends at position Bounds[i].        *)
(* Servers are numbered: 0 renders and tokenizes, 1 .. Last evaluate a     *)
(* stage each, Restart = Last + 1 proves the restore.                      *)
(*                                                                         *)
(* What a slot or a slot file holds is [made, other]: made[p] is the       *)
(* server that evaluated position p, and other says that tokens follow     *)
(* which are not the canonical ones.                                       *)
EXTENDS Naturals, Sequences, FiniteSets

CONSTANTS
    Bounds,        \* the ends of the stages, in chunks
    MaxSpoil,      \* how many slot files may change on the disk
    CanCrash,      \* the build process may be killed
    CanIntrude     \* others may use the port

Last    == Len(Bounds)
Restart == Last + 1
Servers == 0 .. Restart
Unknown == Last + 2          \* evaluated by nobody we know
Foreign == Last + 3          \* the port is another program's
NoOne   == Last + 4          \* the port is free

ASSUME BoundsAssumption ==
    /\ Bounds \in Seq(Nat \ {0}) /\ Bounds # <<>>
    /\ \A i, j \in 1 .. Len(Bounds) : i < j => Bounds[i] < Bounds[j]
ASSUME SwitchAssumption ==
    MaxSpoil \in Nat /\ CanCrash \in BOOLEAN /\ CanIntrude \in BOOLEAN

VARIABLES
    pc,         \* where the build is
    n,          \* the server it works with
    at,         \* chunks submitted: the position reached
    failing,    \* an exception is on its way through a finally clause
    freed,      \* the last teardown found the port free
    where,      \* the directory the failure writer will use
    records,    \* checkpoint["stage_records"] in memory
    partial,    \* what the record of the present stage holds so far
    process,    \* each server's process
    port,       \* who answers on the port
    slot,       \* slot 0 of the server
    mon,        \* the monitor thread of server n
    sampled,    \* servers with a telemetry sample
    violated,   \* servers with a recorded violation
    files,      \* the slot pair of each stage on the disk
    sealed,     \* the pair each stage's record describes by hash
    spoilt,     \* stages whose pair has changed on the disk
    ckpt,       \* checkpoint.json
    result,     \* the status in the result file
    failure,    \* the directory in which a failure result was written
    revived     \* history: what the last server restored

main  == <<pc, n, at, failing, freed, where, records, partial>>
os    == <<process, port, slot>>
watch == <<mon, sampled, violated>>
disk  == <<files, sealed, spoilt>>
proof == <<ckpt, result, failure>>
vars  == <<main, os, watch, disk, proof, revived>>

(***************************************************************************)
(* Contents.                                                               *)
(***************************************************************************)
Empty == [made |-> <<>>, other |-> FALSE]
Contents == [made : Seq(0 .. Unknown), other : BOOLEAN]
Absent == [made |-> <<>>, other |-> TRUE]   \* no file, or one that does not parse

Start(i) == IF i = 1 THEN 0 ELSE Bounds[i - 1]
Total    == Bounds[Last]

\* The content after a server has answered a prompt of the first e chunks
\* and has reused c of them.
Evaluated(content, e, c, s) ==
    [made  |-> [p \in 1 .. e |-> IF p <= c THEN content.made[p] ELSE s],
     other |-> FALSE]

\* The chunks of the prompt that the server may find in its slot: it always
\* evaluates something, and it may reuse less than it holds.
Reusable(content, e) ==
    0 .. (IF Len(content.made) < e THEN Len(content.made) ELSE e - 1)

Spoil(content) ==
    [content EXCEPT !.made = [p \in 1 .. Len(content.made) |-> Unknown]]

NoRecord == [pass |-> FALSE, restored |-> 0, first |-> 0, upto |-> 0]
Record   == [pass : BOOLEAN, restored : Nat, first : Nat, upto : Nat]

Phases == {"none", "allocated", "boundaries_selected", "sealed",
           "restart_restored", "complete", "failed"}
ServerBody == {"start", "monitor", "ready", "probe", "restore", "chunk",
               "save", "gate", "proof", "rehash", "restored"}
BuildBody  == {"probed", "select", "record", "seal", "finish", "result"}
Points == ServerBody \cup BuildBody \cup
    {"allocate", "close", "teardown", "handler", "report", "end", "dead"}

Init ==
    /\ pc = "allocate" /\ n = 0 /\ at = 0 /\ failing = FALSE /\ freed = FALSE
    /\ where = "elsewhere" /\ records = <<>> /\ partial = NoRecord
    /\ process = [s \in Servers |-> "none"] /\ port = NoOne /\ slot = Empty
    /\ mon = "off" /\ sampled = {} /\ violated = {}
    /\ files = [i \in 1 .. Last |-> Absent]
    /\ sealed = [i \in 1 .. Last |-> Absent] /\ spoilt = {}
    /\ ckpt = [phase |-> "none", records |-> <<>>]
    /\ result = "none" /\ failure = "none" /\ revived = Absent

Goto(p) == pc' = p /\ UNCHANGED <<n, at, failing, freed, where, records, partial>>

\* Stage i has passed its pair gate.
Sealed(i) == Len(sealed[i].made) > 0

\* atomic_write_json: the file is replaced by one with this phase.
WriteCheckpoint(phase, rs) ==
    ckpt' = [phase |-> phase, records |-> rs]

Mutant_Abort ==
    /\ pc' = "handler" /\ failing' = TRUE
    /\ UNCHANGED <<n, at, freed, where, records, partial>>

\* An exception inside the try block of a server: its finally clause runs.
Abort ==
    /\ pc' = "close" /\ failing' = TRUE
    /\ UNCHANGED <<n, at, freed, where, records, partial>>

(***************************************************************************)
(* The build, outside its servers.                                         *)
(***************************************************************************)
\* allocate_run_paths, validate_live_inputs, preflight_snapshot and the
\* first checkpoint.
Allocate ==
    /\ pc = "allocate" /\ port = NoOne
    /\ pc' = "start" /\ WriteCheckpoint("allocated", <<>>)
    /\ UNCHANGED <<n, at, failing, freed, where, records, partial, os, watch, disk,
                   result, failure, revived>>

\* All of that is before the try block: main sees the exception itself.
AllocateFails ==
    /\ pc = "allocate" /\ Goto("report")
    /\ UNCHANGED <<os, watch, disk, proof, revived>>

\* resource_summary and combined_resource_summary: every server so far has
\* a sample and none a violation.
Healthy(servers) == servers \subseteq sampled /\ servers \cap violated = {}

\* The probe's server is gone: its evidence is written, then judged.  The
\* growth of the page file over the whole run may fail what each server
\* passes.
Probed ==
    /\ pc = "probed" /\ WriteCheckpoint(ckpt.phase, records)
    /\ \/ ~failing /\ Healthy({0}) /\ freed /\ pc' = "select"
       \/ pc' = "handler"
    /\ UNCHANGED <<n, at, failing, freed, where, records, partial, os, watch, disk,
                   result, failure, revived>>

\* select_stage_boundaries, and the phase that says so.
Select ==
    /\ pc = "select" /\ WriteCheckpoint("boundaries_selected", records)
    /\ pc' = "start" /\ n' = 1
    /\ UNCHANGED <<at, failing, freed, where, records, partial, os, watch, disk,
                   result, failure, revived>>

\* After a stage: its record is appended and written; the build goes on if
\* the record and the rolling resources pass.
RecordStage ==
    /\ pc = "record"
    /\ records' = Append(records, partial)
    /\ WriteCheckpoint(ckpt.phase, records')
    /\ \/ /\ partial.pass /\ Healthy(0 .. n)
          /\ IF n = Last
             THEN pc' = "seal" /\ UNCHANGED <<n, at, partial>>
             ELSE pc' = "start" /\ n' = n + 1 /\ partial' = NoRecord /\ at' = 0
       \/ pc' = "handler" /\ UNCHANGED <<n, at, partial>>
    /\ UNCHANGED <<failing, freed, where, os, watch, disk, result, failure, revived>>

\* The final pair enters the checkpoint; the restart server is next.
Seal ==
    /\ pc = "seal" /\ WriteCheckpoint("sealed", records)
    /\ pc' = "start" /\ n' = Restart /\ at' = 0
    /\ UNCHANGED <<failing, freed, where, records, partial, os, watch, disk, result,
                   failure, revived>>

\* staged_ingestion_proof: the records form an unbroken chain of prefixes
\* that ends with the canonical vector.
IngestionProof(rs) ==
    /\ Len(rs) = Last
    /\ \A i \in DOMAIN rs :
          /\ rs[i].pass /\ rs[i].upto = Bounds[i]
          /\ rs[i].first = Start(i) /\ rs[i].restored = Start(i)

\* The evidence is complete, whatever the local gate will say of it.
Finish ==
    /\ pc = "finish" /\ IngestionProof(records)
    /\ WriteCheckpoint("complete", records) /\ Goto("result")
    /\ UNCHANGED <<os, watch, disk, result, failure, revived>>

Mutant_WriteResult ==
    /\ pc = "result" /\ Goto("end")
    /\ \/ Healthy(0 .. Last) /\ freed /\ result' = "PASS"
       \/ result' = "FAILED"
    /\ UNCHANGED <<os, watch, disk, ckpt, failure, revived>>

\* local_build_gate: resources with the publishable VRAM floor, and the
\* port that the last server's teardown found free.
WriteResult ==
    /\ pc = "result" /\ Goto("end")
    /\ \/ Healthy(Servers) /\ freed /\ result' = "PASS"
       \/ result' = "FAILED"
    /\ UNCHANGED <<os, watch, disk, ckpt, failure, revived>>

\* A step of the build raises: a write fails, a check does not hold, a
\* server's command cannot be put together.  The record of a stage is
\* appended before it is written.
BuildRaise ==
    /\ pc \in BuildBody \cup {"start"} /\ pc' = "handler"
    /\ records' = IF pc = "record" THEN Append(records, partial) ELSE records
    /\ UNCHANGED <<n, at, failing, freed, where, partial, os, watch, disk,
                   proof, revived>>

\* The except clauses: phase failed, and an exception that knows the run's
\* paths.  If the write fails, its own exception leaves, which knows none.
Handle ==
    /\ pc = "handler" /\ pc' = "report"
    /\ \/ where' = "here" /\ WriteCheckpoint("failed", records)
       \/ where' = "elsewhere" /\ UNCHANGED ckpt
    /\ UNCHANGED <<n, at, failing, freed, records, partial, os, watch, disk,
                   result, failure, revived>>

\* write_failure_result: into the run's own directory, unless that has a
\* result, or into a new one.  Each of its writes may fail and end the
\* program.
Report ==
    /\ pc = "report" /\ Goto("end")
    /\ \/ UNCHANGED <<ckpt, failure>>
       \/ /\ where = "here" /\ result = "none"
          /\ WriteCheckpoint("failed", ckpt.records) /\ failure' \in {"none", "here"}
       \/ where = "elsewhere" /\ failure' = "elsewhere" /\ UNCHANGED ckpt
    /\ UNCHANGED <<os, watch, disk, result, revived>>

(***************************************************************************)
(* The life of a server: _execute_staged_stage, and the try blocks of the  *)
(* probe and of the restart in _build_live_staged.                         *)
(***************************************************************************)
\* OwnedServer.start: preflight, Popen.
StartServer ==
    /\ pc = "start" /\ port = NoOne
    /\ process' = [process EXCEPT ![n] = "up"]
    /\ pc' = "monitor"
    /\ at' = IF n \in 1 .. Last THEN Start(n) ELSE 0
    /\ partial' = IF n \in 1 .. Last THEN [NoRecord EXCEPT !.upto = Bounds[n]]
                                     ELSE partial
    /\ UNCHANGED <<n, failing, freed, where, records, port, slot, watch, disk,
                   proof, revived>>

\* The working-set cap, the identity, and the monitor thread.
StartMonitor ==
    /\ pc = "monitor" /\ process[n] = "up"
    /\ mon' = "on" /\ Goto("ready")
    /\ UNCHANGED <<os, sampled, violated, disk, proof, revived>>

\* wait_ready: our process runs, and somebody answers on the port.
Ready ==
    /\ pc = "ready" /\ process[n] = "up" /\ port # NoOne
    /\ Goto(IF n = 0 THEN "probe" ELSE IF n = 1 THEN "chunk" ELSE "restore")
    /\ UNCHANGED <<os, watch, disk, proof, revived>>

\* build_canonical_state: templates and tokens, nothing in the slot.
Probe ==
    /\ pc = "probe" /\ port # NoOne /\ Goto("close")
    /\ UNCHANGED <<os, watch, disk, proof, revived>>

\* slot_restore, require_exact_restore: counts and sizes.  Another program's
\* server has no such file.
RestoreSlot ==
    /\ pc = "restore" /\ port = n
    /\ slot' = files[n - 1]
    /\ Len(slot'.made) = Start(n) /\ ~slot'.other
    /\ pc' = IF n = Restart THEN "proof" ELSE "chunk"
    /\ partial' = IF n = Restart THEN partial
                  ELSE [partial EXCEPT !.restored = Len(slot'.made)]
    /\ revived' = IF n = Restart THEN slot' ELSE revived
    /\ UNCHANGED <<n, at, failing, freed, where, records, process, port,
                   watch, disk, proof>>

Mutant_SubmitChunk ==
    /\ pc = "chunk" /\ at < Bounds[n] /\ port = n
    /\ \E c \in Reusable(slot, at + 1) : slot' = Evaluated(slot, at + 1, c, n)
    /\ at' = at + 1
    /\ partial' = IF at = Start(n) THEN [partial EXCEPT !.first = at] ELSE partial
    /\ UNCHANGED <<pc, n, failing, freed, where, records, process, port, watch,
                   disk, proof, revived>>

\* submit_unseen_suffix_chunks, one chunk: the server says how much of the
\* prompt it had.
SubmitChunk ==
    /\ pc = "chunk" /\ at < Bounds[n] /\ port = n
    /\ \E c \in Reusable(slot, at + 1) :
          /\ slot' = Evaluated(slot, at + 1, c, n)
          /\ IF c = at
             THEN /\ at' = at + 1 /\ pc' = pc /\ UNCHANGED failing
                  /\ partial' = IF at = Start(n)
                                THEN [partial EXCEPT !.first = at] ELSE partial
             ELSE pc' = "close" /\ failing' = TRUE /\ UNCHANGED <<at, partial>>
    /\ UNCHANGED <<n, freed, where, records, process, port, watch, disk, proof,
                   revived>>

\* The same request answered by another program's server, to satisfaction.
SubmitElsewhere ==
    /\ pc = "chunk" /\ at < Bounds[n] /\ port = Foreign
    /\ at' = at + 1
    /\ partial' = IF at = Start(n) THEN [partial EXCEPT !.first = at] ELSE partial
    /\ UNCHANGED <<pc, n, failing, freed, where, records, os, watch, disk,
                   proof, revived>>

AllSubmitted ==
    /\ pc = "chunk" /\ at = Bounds[n] /\ Goto("save")
    /\ UNCHANGED <<os, watch, disk, proof, revived>>

\* slot_save into the stage's own name, and n_saved, which counts the
\* tokens that are not canonical too.  The file may be incomplete.
SaveSlot ==
    /\ pc = "save" /\ port = n
    /\ \E content \in {slot, Absent} : files' = [files EXCEPT ![n] = content]
    /\ IF slot.other THEN Len(slot.made) < Bounds[n] ELSE Len(slot.made) = Bounds[n]
    /\ Goto("gate")
    /\ UNCHANGED <<os, watch, sealed, spoilt, proof, revived>>

\* ... and the same with another count.
SaveDrifts ==
    /\ pc = "save" /\ port = n
    /\ files' = [files EXCEPT ![n] = slot]
    /\ slot.other \/ Len(slot.made) # Bounds[n]
    /\ Abort
    /\ UNCHANGED <<os, watch, sealed, spoilt, proof, revived>>

\* offline_pair_gate: both files parse and hold the stage's tokens.
PairGate ==
    /\ pc = "gate"
    /\ Len(files[n].made) = Bounds[n] /\ ~files[n].other
    /\ sealed' = [sealed EXCEPT ![n] = files[n]]
    /\ Goto("close")
    /\ UNCHANGED <<os, watch, files, spoilt, proof, revived>>

\* The restart's completion: the canonical prompt and a new user message.
\* All of the canonical part must come from the slot.
RestartProof ==
    /\ pc = "proof" /\ port \in {n, Foreign}
    /\ IF port = Foreign THEN UNCHANGED slot
       ELSE /\ Len(slot.made) = Total
            /\ slot' = [slot EXCEPT !.other = TRUE]
    /\ Goto("rehash")
    /\ UNCHANGED <<process, port, watch, disk, proof, revived>>

Mutant_Rehash ==
    /\ pc = "rehash" /\ Goto("restored")
    /\ UNCHANGED <<os, watch, disk, proof, revived>>

\* The sealed pair is hashed again.
Rehash ==
    /\ pc = "rehash" /\ files[Last] = sealed[Last] /\ Goto("restored")
    /\ UNCHANGED <<os, watch, disk, proof, revived>>

Restored ==
    /\ pc = "restored" /\ WriteCheckpoint("restart_restored", records)
    /\ Goto("close")
    /\ UNCHANGED <<os, watch, disk, result, failure, revived>>

\* Any of these raises: a refused preflight, a lost server, a time-out, a
\* check that does not hold, a write that fails.
ServerRaise ==
    /\ pc \in ServerBody /\ Abort
    /\ UNCHANGED <<os, watch, disk, proof, revived>>

Mutant_Close ==
    /\ pc = "close" /\ Goto("teardown")
    /\ UNCHANGED <<os, watch, disk, proof, revived>>

\* OwnedServer.close: the process is terminated and waited for ...
Close ==
    /\ pc = "close" /\ Goto("teardown")
    /\ process' = [process EXCEPT ![n] = IF @ = "none" THEN @ ELSE "gone"]
    /\ port' = IF port = n THEN NoOne ELSE port
    /\ UNCHANGED <<slot, watch, disk, proof, revived>>

\* ... and outlives terminate, kill and both waits: close itself raises.
CloseTimesOut ==
    /\ pc = "close" /\ process[n] \in {"up", "dying"}
    /\ process' = [process EXCEPT ![n] = "dying"]
    /\ mon' = "off" /\ Goto("handler")
    /\ UNCHANGED <<port, slot, sampled, violated, disk, proof, revived>>

\* ... the monitor is joined, the port is looked at, and the evidence taken.
TearDown ==
    /\ pc = "teardown" /\ mon' = "off" /\ freed' = (port = NoOne)
    /\ IF n = 0 THEN pc' = "probed" /\ UNCHANGED <<failing, partial>>
       ELSE IF n = Restart
       THEN pc' = (IF failing THEN "handler" ELSE "finish")
            /\ UNCHANGED <<failing, partial>>
       ELSE /\ pc' = "record" /\ failing' = FALSE
            /\ partial' = [partial EXCEPT
                             !.pass = ~failing /\ Healthy({n}) /\ freed']
    /\ UNCHANGED <<n, at, where, records, os, sampled, violated, disk, proof,
                   revived>>

(***************************************************************************)
(* The monitor thread.                                                     *)
(***************************************************************************)
\* A sample within the floors.  The thread looks whether the server runs
\* before it takes a sample, so one may still come after the server's end.
Sample ==
    /\ mon = "on" /\ sampled' = sampled \cup {n}
    /\ UNCHANGED <<main, os, mon, violated, disk, proof, revived>>

Mutant_Violate ==
    /\ mon = "on" /\ mon' = "stop"
    /\ violated' = violated \cup {n}
    /\ UNCHANGED <<main, os, sampled, disk, proof, revived>>

\* A sample below a floor.
Violate ==
    /\ mon = "on" /\ mon' = "stop"
    /\ sampled' = sampled \cup {n} /\ violated' = violated \cup {n}
    /\ UNCHANGED <<main, os, disk, proof, revived>>

\* The sample is kept but not written: the thread ends before it judges.
SampleLost ==
    /\ mon = "on" /\ mon' = "dead" /\ sampled' = sampled \cup {n}
    /\ UNCHANGED <<main, os, violated, disk, proof, revived>>

\* stop_owned_process in the monitor, which may time out as well.
MonitorStop ==
    /\ mon = "stop" /\ mon' = "off"
    /\ \/ /\ process' = [process EXCEPT ![n] = "gone"]
          /\ port' = IF port = n THEN NoOne ELSE port
       \/ /\ process[n] \in {"up", "dying"}
          /\ process' = [process EXCEPT ![n] = "dying"] /\ UNCHANGED port
    /\ UNCHANGED <<main, slot, sampled, violated, disk, proof, revived>>

(***************************************************************************)
(* The operating system, and others.                                       *)
(***************************************************************************)
\* A server has loaded and listens, with an empty slot.
Bind(s) ==
    /\ process[s] = "up" /\ port = NoOne
    /\ port' = s /\ slot' = Empty
    /\ UNCHANGED <<main, process, watch, disk, proof, revived>>

\* A process ends: by itself, for want of the port, or killed at last.
Exit(s) ==
    /\ process[s] \in {"up", "dying"}
    /\ process' = [process EXCEPT ![s] = "gone"]
    /\ port' = IF port = s THEN NoOne ELSE port
    /\ UNCHANGED <<main, slot, watch, disk, proof, revived>>

\* Another program's server comes to the port, or leaves it.
OtherServer ==
    /\ CanIntrude /\ port \in {NoOne, Foreign}
    /\ port' = IF port = NoOne THEN Foreign ELSE NoOne
    /\ UNCHANGED <<main, process, slot, watch, disk, proof, revived>>

\* Another client's request on our slot: its prompt leaves the canonical one
\* after some chunk.
OtherRequest ==
    /\ CanIntrude /\ port \in Servers
    /\ \E k \in 0 .. Len(slot.made) :
          slot' = [made |-> SubSeq(slot.made, 1, k), other |-> TRUE]
    /\ UNCHANGED <<main, process, port, watch, disk, proof, revived>>

\* A sealed pair changes on the disk, its sizes and tokens do not.
Damage(i) ==
    /\ Sealed(i) /\ i \notin spoilt
    /\ Cardinality(spoilt) < MaxSpoil
    /\ files' = [files EXCEPT ![i] = Spoil(@)] /\ spoilt' = spoilt \cup {i}
    /\ UNCHANGED <<main, os, watch, sealed, proof, revived>>

Crash ==
    /\ CanCrash /\ pc \notin {"end", "dead"} /\ pc' = "dead" /\ mon' = "off"
    /\ UNCHANGED <<n, at, failing, freed, where, records, partial, os, sampled,
                   violated, disk, proof, revived>>

Ended == pc \in {"end", "dead"} /\ UNCHANGED vars

Server == \/ StartServer \/ StartMonitor \/ Ready \/ Probe \/ RestoreSlot
          \/ SubmitChunk \/ SubmitElsewhere \/ AllSubmitted \/ SaveSlot
          \/ SaveDrifts \/ PairGate \/ RestartProof \/ Rehash \/ Restored
          \/ ServerRaise \/ Close \/ CloseTimesOut \/ TearDown
Build  == \/ Allocate \/ AllocateFails \/ Probed \/ Select \/ RecordStage
          \/ Seal \/ Finish \/ WriteResult \/ BuildRaise \/ Handle \/ Report
Monitor == Sample \/ Violate \/ SampleLost \/ MonitorStop
Others == \/ \E s \in Servers : Bind(s) \/ Exit(s)
          \/ OtherServer \/ OtherRequest
          \/ \E i \in 1 .. Last : Damage(i)
          \/ Crash
Next == Server \/ Build \/ Monitor \/ Others \/ Ended

Spec == Init /\ [][Next]_vars

\* Every step of the build ends: its waits and its requests have time-outs.
\* A process that was killed ends at last.
Fairness ==
    /\ WF_vars(Server) /\ WF_vars(Build)
    /\ \A s \in Servers : WF_vars(process[s] = "dying" /\ Exit(s))
FairSpec == Spec /\ Fairness

(***************************************************************************)
(* Properties.                                                             *)
(***************************************************************************)
MainType ==
    /\ pc \in Points /\ n \in Servers /\ at \in 0 .. Total
    /\ failing \in BOOLEAN /\ freed \in BOOLEAN
    /\ where \in {"here", "elsewhere"}
    /\ records \in Seq(Record) /\ partial \in Record
OsType ==
    /\ process \in [Servers -> {"none", "up", "dying", "gone"}]
    /\ port \in Servers \cup {Foreign, NoOne} /\ slot \in Contents
WatchType ==
    /\ mon \in {"off", "on", "stop", "dead"}
    /\ sampled \subseteq Servers /\ violated \subseteq sampled
DiskType ==
    /\ files \in [1 .. Last -> Contents] /\ sealed \in [1 .. Last -> Contents]
    /\ spoilt \subseteq 1 .. Last
ProofType ==
    /\ ckpt \in [phase : Phases, records : Seq(Record)]
    /\ result \in {"none", "PASS", "FAILED"}
    /\ failure \in {"none", "here", "elsewhere"}
    /\ revived \in Contents

\* Types, and: a violation is found in a sample that is kept.
TypeOK == MainType /\ OsType /\ WatchType /\ DiskType /\ ProofType

\* A sealed stage holds, chunk by chunk, what the stage before sealed,
\* followed by what its own server evaluated, whatever other clients and
\* other servers did meanwhile, unless the stage before was damaged on the
\* disk (submit_unseen_suffix_chunks, offline_pair_gate).
StageContinues ==
    \A i \in 1 .. Last :
        Sealed(i) /\ i - 1 \notin spoilt =>
            /\ Len(sealed[i].made) = Bounds[i]
            /\ \A p \in 1 .. Bounds[i] :
                  sealed[i].made[p] =
                      IF p <= Start(i) THEN sealed[i - 1].made[p] ELSE i

\* What load_sealed_base accepts.
Loadable ==
    /\ result = "PASS" /\ ckpt.phase = "complete" /\ IngestionProof(ckpt.records)

\* A build that can be loaded was brought back from its files by a server
\* of its own, exactly as the last stage sealed them (the restart in
\* _build_live_staged).
LoadableWasRestored == Loadable => revived = sealed[Last] /\ Len(revived.made) = Total

\* A build that can be loaded had no server with a recorded violation, be
\* it the probe's, a stage's or the restart's (combined_resource_summary).
LoadableWasQuiet == Loadable => violated = {}

\* The servers of the stages never overlap: the next one starts when the
\* one before is gone (OwnedServer.close).
OneServer ==
    \A s, t \in Servers :
        process[s] \in {"up", "dying"} /\ process[t] \in {"up", "dying"} => s = t

\* Every server that was started ends, unless the build itself is killed
\* (the finally clauses, stop_owned_process).
ServerEnds ==
    \A s \in Servers : process[s] = "up" ~> process[s] = "gone" \/ pc = "dead"
==========================================================================
