--------------------------- MODULE BenchmarkLanes ---------------------------
(* The benchmark of a sealed base: benchmark_live of                        *)
(* scripts/q3ple_canonical_60k.py (2265-2625) with everything it calls.     *)
(*                                                                          *)
(* The sealed slot pair is copied into the run; a target-only server        *)
(* answers every fixture several times, each time from the restored copy;   *)
(* if these answers are fit to be a reference, an MTP server does the same; *)
(* and a verdict is drawn from the rows of both lanes.                      *)
(*                                                                          *)
(* A slot pair is told by its hashes: the sealed one, another one with the  *)
(* same tokens and sizes, or one that does not parse.  A row holds what the *)
(* code records, and two things it cannot see: the pair its slot came from  *)
(* and the server that answered.                                            *)
EXTENDS Naturals, Sequences, FiniteSets

CONSTANTS
    FixtureCount,   \* selected fixtures, in the order of the run
    Wanting,        \* those of code and prose: a draft must have been rejected
    MinRepeats,     \* MIN_REPEATS
    Repeats,        \* --repeats
    Answers,        \* per fixture, the outputs that its scorer accepts
    Fragile,        \* the pairs that may change on the disk
    MaxFaults       \* bound: what goes wrong around the script, in all

ASSUME LanesAssumption ==
    /\ FixtureCount \in Nat \ {0} /\ Wanting \subseteq 1 .. FixtureCount
    /\ MinRepeats \in Nat \ {0} /\ Repeats \in Nat /\ Repeats >= MinRepeats
    /\ DOMAIN Answers = 1 .. FixtureCount
    /\ Fragile \subseteq {"source", "copy"} /\ MaxFaults \in Nat

Fixtures == 1 .. FixtureCount
Lanes    == {"target", "mtp"}
Pairs    == {"sealed", "other", "broken"}
NoPair   == "none"

VARIABLES
    pc, lane,       \* where the script is
    leaving,        \* Ctrl-C came while a lane ran
    source, copy,   \* the pair of the base result, and the run's copy of it
    pin,            \* the hashes taken of the copy
    before,         \* the copy as the lane's first gate saw it
    error,          \* the lane has an error string
    rows,           \* each lane's rows
    record,         \* server_records
    result,         \* the verdict in the result file
    phase,          \* the phase in the checkpoint
    server,         \* the process of each lane's OwnedServer
    port, slot,     \* who answers on the port, and what its slot 0 comes from
    watched,        \* lanes whose monitor thread runs
    late,           \* lanes whose monitor thread outlived close()
    health,         \* the worst that the samples of a lane have shown
    faults          \* servers that die, requests and servers of others, ...

script == <<pc, lane, leaving, before, error>>
files  == <<source, copy, pin>>
evidence == <<rows, record, result, phase>>
procs  == <<server, port, slot, watched, late, health, faults>>
vars   == <<script, files, evidence, procs>>

NoRecord == [status |-> "none", error |-> FALSE, unchanged |-> FALSE,
             free |-> FALSE, health |-> "unseen"]
Skipped  == [NoRecord EXCEPT !.status = "skipped"]

\* A row that no gate accepts, for whatever reason: its answer is wrong or was
\* cut off, the counts do not show that exactly the base was reused, or, from
\* the MTP server, it comes without drafts or with impossible counters.
Unfit  == [answer |-> "unfit", draft |-> "none", from |-> NoPair, by |-> "any"]
Drafts == {"none", "accepted", "rejected"}
Rows   == {Unfit} \cup [answer : UNION {Answers[f] : f \in Fixtures}, draft : Drafts, from : Pairs, by : Lanes]

Verdicts == {"none", "BLOCKED_TARGET_GATE", "PASS_EXACT_PARITY",
             "PASS_TARGET_ONLY_MTP_EXECUTION_FAILED", "FAILED_MTP_EXECUTION",
             "PASS_TARGET_ONLY_MTP_NON_PROMOTABLE", "FAILED_NOT_PROMOTABLE"}
Passes   == {"PASS_EXACT_PARITY", "PASS_TARGET_ONLY_MTP_EXECUTION_FAILED",
             "PASS_TARGET_ONLY_MTP_NON_PROMOTABLE"}

LaneBody == {"before", "start", "ready", "restore", "task"}
Points   == LaneBody \cup {"load", "copy", "close", "after", "judge", "seal",
                           "fail", "end"}
Over     == {"seal", "fail", "end"}   \* nothing is looked at any more

Init ==
    /\ pc = "load" /\ lane = "target" /\ leaving = FALSE
    /\ source = "sealed" /\ copy = NoPair /\ pin = NoPair /\ before = NoPair
    /\ error = FALSE /\ rows = [m \in Lanes |-> <<>>]
    /\ record = [m \in Lanes |-> NoRecord] /\ result = "none" /\ phase = "none"
    /\ server = [m \in Lanes |-> "none"] /\ port = "free" /\ slot = NoPair
    /\ watched = {} /\ late = {} /\ health = [m \in Lanes |-> "unseen"]
    /\ faults = 0

Fault == faults < MaxFaults /\ faults' = faults + 1

Goto(p) == pc' = p /\ UNCHANGED <<lane, leaving, before, error>>

\* offline_pair_gate returns: both files parse to the base's tokens.
Parses(pair) == pair \in {"sealed", "other"}

(***************************************************************************)
(* The rows of a fixture, and what the gates make of them.                 *)
(***************************************************************************)
\* Every repeat goes through the fixtures in order.
FixtureOf(k) == ((k - 1) % FixtureCount) + 1
Planned == Repeats * FixtureCount

Positions(m, f) == {k \in DOMAIN rows[m] : FixtureOf(k) = f}
Measured(m, f)  == {rows[m][k] : k \in Positions(m, f)}

Mutant_Stable(m, f) == TRUE

\* One output over all repeats.
Stable(m, f) == \A r, s \in Measured(m, f) : r.answer = s.answer

Valid(m, f) == Unfit \notin Measured(m, f)

\* Enough repeats, stable and valid: the loop that fills target_checks.
TargetCheck(f) ==
    Cardinality(Positions("target", f)) >= Repeats /\ Stable("target", f)
                                                   /\ Valid("target", f)

Mutant_ComparePair(k) == Unfit \notin {rows["target"][k], rows["mtp"][k]}

\* compare_target_mtp of the rows at one position of both lanes.
ComparePair(k) ==
    /\ Unfit \notin {rows["target"][k], rows["mtp"][k]}
    /\ rows["target"][k].answer = rows["mtp"][k].answer

\* benchmark_promotion_gate for one fixture.
Promotable(f) ==
    /\ \A m \in Lanes : /\ Cardinality(Positions(m, f)) >= Repeats
                        /\ Stable(m, f) /\ Valid(m, f)
    /\ \A k \in Positions("mtp", f) : ComparePair(k)
    /\ f \in Wanting => \E r \in Measured("mtp", f) : r.draft = "rejected"

(***************************************************************************)
(* Before the lanes.                                                       *)
(***************************************************************************)
\* load_sealed_base, the pair against the result's hashes, the fixtures, the
\* run's paths.
Load ==
    /\ pc = "load" /\ source = "sealed" /\ Goto("copy")
    /\ UNCHANGED <<files, evidence, procs>>

Mutant_Copy ==
    /\ pc = "copy" /\ copy' = source /\ pin' = copy' /\ phase' = "allocated"
    /\ Goto("before") /\ UNCHANGED <<source, rows, record, result, procs>>

\* copy_slot_pair, which reads the source once more, and the first checkpoint.
Copy ==
    /\ pc = "copy" /\ Parses(source)
    /\ copy' = source /\ pin' = copy' /\ phase' = "allocated"
    /\ Goto("before") /\ UNCHANGED <<source, rows, record, result, procs>>

(***************************************************************************)
(* run_mode.                                                               *)
(***************************************************************************)
\* The lane's first gate.
GateBefore ==
    /\ pc = "before"
    /\ before' = IF Parses(copy) THEN copy ELSE NoPair
    /\ error' = (copy # pin)
    /\ pc' = IF error' THEN "close" ELSE "start"
    /\ UNCHANGED <<lane, leaving, files, evidence, procs>>

\* OwnedServer.start: preflight, Popen, working set, identity, monitor.
StartServer ==
    /\ pc = "start" /\ port = "free"
    /\ server' = [server EXCEPT ![lane] = "up"] /\ watched' = watched \cup {lane}
    /\ Goto("ready") /\ UNCHANGED <<files, evidence, port, slot, late, health, faults>>

\* It raises behind Popen: the server is held, and nothing watches it.
StartRaises ==
    /\ pc = "start" /\ port = "free"
    /\ server' = [server EXCEPT ![lane] = "up"]
    /\ error' = TRUE /\ pc' = "close" /\ Fault
    /\ UNCHANGED <<lane, leaving, before, files, evidence,
                   port, slot, watched, late, health>>

\* wait_ready: our process runs and somebody is healthy.
Ready ==
    /\ pc = "ready" /\ server[lane] \in {"up", "dying"} /\ port # "free"
    /\ Goto("restore") /\ UNCHANGED <<files, evidence, procs>>

\* slot_restore and require_exact_restore: the count and both sizes.
RestoreCopy ==
    /\ pc = "restore" /\ port = lane /\ Parses(copy) /\ slot' = copy
    /\ Goto("task")
    /\ UNCHANGED <<files, evidence, server, port, watched, late, health, faults>>

\* What the server on the port may answer to fixture f: the draft counters are
\* its own; whether a draft was rejected is told where it is asked for.
Outcomes(f) ==
    {Unfit} \cup (IF slot = NoPair THEN {}
                 ELSE [answer : Answers[f], from : {slot}, by : {port},
                       draft : CASE port = "target"  -> {"none"}
                                 [] f \in Wanting    -> {"accepted", "rejected"}
                                 [] OTHER            -> {"accepted"}])

\* benchmark_one_task, and the row; a recorded violation ends the lane.
Task ==
    /\ pc = "task" /\ port # "free"
    /\ \E r \in Outcomes(FixtureOf(Len(rows[lane]) + 1)) : rows' = [rows EXCEPT ![lane] = Append(@, r)]
    /\ error' = (health[lane] = "violated")
    /\ pc' = IF error' \/ Len(rows'[lane]) = Planned THEN "close" ELSE "restore"
    /\ UNCHANGED <<lane, leaving, before, files, record, result, phase, procs>>

\* Whatever raises in the lane is caught, and its text is the lane's error.
LaneRaises ==
    /\ pc \in LaneBody /\ error' = TRUE /\ pc' = "close"
    /\ UNCHANGED <<lane, leaving, before, files, evidence, procs>>

Mutant_Interrupt ==
    /\ pc \in LaneBody /\ pc' = "end" /\ leaving' = TRUE /\ Fault
    /\ UNCHANGED <<lane, before, error, files, evidence,
                   server, port, slot, watched, late, health>>

\* Ctrl-C in the lane is not caught, but the finally clause runs.
Interrupt ==
    /\ pc \in LaneBody /\ pc' = "close" /\ leaving' = TRUE /\ Fault
    /\ UNCHANGED <<lane, before, error, files, evidence,
                   server, port, slot, watched, late, health>>

\* stop_owned_process has come to its end.
Stopped ==
    /\ server' = [server EXCEPT ![lane] = IF @ = "none" THEN @ ELSE "down"]
    /\ port' = IF port = lane THEN "free" ELSE port
    /\ slot' = IF port = lane THEN NoPair ELSE slot

\* OwnedServer.close: stop, three seconds for the monitor, ten for the port.
Close ==
    /\ pc = "close" /\ Stopped
    /\ watched' \in {watched, watched \ {lane}}
    /\ late' = late \cup (watched' \cap {lane})
    /\ record' = [record EXCEPT ![lane].free = (port' = "free")]
    /\ Goto(IF leaving THEN "end" ELSE "after")
    /\ UNCHANGED <<files, rows, result, phase, health, faults>>

\* The second wait of stop_owned_process runs out: the benchmark ends here, and
\* a Ctrl-C that was on its way up is reported as this time-out.
CloseRaises ==
    /\ pc = "close" /\ server[lane] \in {"up", "dying"}
    /\ server' = [server EXCEPT ![lane] = "dying"]
    /\ watched' = watched \ {lane}
    /\ Goto("fail") /\ Fault
    /\ UNCHANGED <<files, evidence, port, slot, late, health>>

\* The lane's last gate, and what run_mode returns.
LaneRecord ==
    [record[lane] EXCEPT !.status = "ran",
                         !.error = (error \/ copy # pin),
                         !.unchanged = (before = pin /\ copy = pin),
                         !.health = health[lane]]

Mutant_TargetReady ==
    LET target == record'["target"]
    IN  /\ ~target.error /\ target.unchanged /\ target.free
        /\ target.health = "fine"
        /\ \E f \in Fixtures : TargetCheck(f)

\* target_ready.
TargetReady ==
    LET target == record'["target"]
    IN  /\ ~target.error /\ target.unchanged /\ target.free
        /\ target.health = "fine"
        /\ \A f \in Fixtures : TargetCheck(f)

\* The MTP lane runs only behind a target lane that is fit.
TargetDone ==
    /\ pc = "after" /\ lane = "target"
    /\ lane' = "mtp" /\ before' = NoPair /\ error' = FALSE
    /\ \/ /\ record' = [record EXCEPT !["target"] = LaneRecord]
          /\ TargetReady /\ pc' = "before"
       \/ /\ record' = [record EXCEPT !["target"] = LaneRecord, !["mtp"] = Skipped]
          /\ ~TargetReady /\ pc' = "judge"
    /\ UNCHANGED <<leaving, files, rows, result, phase, procs>>

MtpDone ==
    /\ pc = "after" /\ lane = "mtp"
    /\ record' = [record EXCEPT !["mtp"] = LaneRecord]
    /\ Goto("judge") /\ UNCHANGED <<files, rows, result, phase, procs>>

(***************************************************************************)
(* The verdict.                                                            *)
(***************************************************************************)
Mutant_Resources(grown) == ~grown

\* combined_resource_summary and the release floor: no violation in a lane,
\* nor in the growth of the pagefile over both.
Resources(grown) ==
    ~grown /\ \A m \in Lanes : record[m].health = "fine"

Verdict(grown) ==
    LET publishable == copy = pin /\ port = "free"
        exact == /\ publishable /\ Resources(grown)
                 /\ \A f \in Fixtures : Promotable(f)
    IN  CASE record["mtp"].status = "skipped" -> "BLOCKED_TARGET_GATE"
          [] record["mtp"].status = "ran" /\ record["mtp"].error ->
                IF publishable THEN "PASS_TARGET_ONLY_MTP_EXECUTION_FAILED"
                ELSE "FAILED_MTP_EXECUTION"
          [] OTHER ->
                IF exact THEN "PASS_EXACT_PARITY"
                ELSE IF publishable THEN "PASS_TARGET_ONLY_MTP_NON_PROMOTABLE"
                ELSE "FAILED_NOT_PROMOTABLE"

\* The last gate of the copy, which raises if it does not parse, the verdict
\* and the result file.
Judge ==
    /\ pc = "judge" /\ Parses(copy)
    /\ \E grown \in BOOLEAN : result' = Verdict(grown)
    /\ Goto("seal") /\ UNCHANGED <<files, rows, record, phase, procs>>

\* The checkpoint behind it.
Seal ==
    /\ pc = "seal" /\ phase' = "complete" /\ Goto("end")
    /\ UNCHANGED <<files, rows, record, result, procs>>

\* Whatever raises outside of the lanes ends the benchmark.
Raise ==
    /\ pc \in {"load", "copy", "judge", "seal"} /\ Goto("fail")
    /\ UNCHANGED <<files, evidence, procs>>

\* write_failure_result: the failure of a benchmark carries no paths, so it
\* goes to a run directory of its own.
ReportFailure ==
    /\ pc = "fail" /\ Goto("end") /\ UNCHANGED <<files, evidence, procs>>

(***************************************************************************)
(* Around the script.                                                      *)
(***************************************************************************)
\* llama-server binds its port.
Bind(m) ==
    /\ server[m] = "up" /\ port = "free" /\ port' = m /\ slot' = NoPair
    /\ UNCHANGED <<server, watched, late, health, faults>>

Gone(m) ==
    /\ server' = [server EXCEPT ![m] = "down"]
    /\ port' = IF port = m THEN "free" ELSE port
    /\ slot' = IF port = m THEN NoPair ELSE slot
    /\ UNCHANGED <<watched, late, health>>

\* It ends, by itself or because it was told to.
Exit(m) ==
    \/ server[m] = "up" /\ Gone(m) /\ Fault
    \/ server[m] = "dying" /\ Gone(m) /\ UNCHANGED faults

\* The monitor takes a sample, above the hard floors.
Sample(m) ==
    /\ m \in watched
    /\ \/ health[m] = "unseen" /\ health' = [health EXCEPT ![m] = "fine"]
          /\ UNCHANGED faults
       \/ health[m] \in {"unseen", "fine"} /\ Fault
          /\ health' = [health EXCEPT ![m] = "tight"]
    /\ UNCHANGED <<server, port, slot, watched, late>>

\* One below them: the monitor stops the server and ends.
Violate(m) ==
    /\ m \in watched /\ health' = [health EXCEPT ![m] = "violated"] /\ Fault
    /\ watched' = watched \ {m}
    /\ server' = [server EXCEPT ![m] = IF @ = "up" THEN "dying" ELSE @]
    /\ UNCHANGED <<port, slot, late>>

\* The telemetry of the last sample cannot be written: the sample counts,
\* nobody judges it, and the monitor ends.
SampleLost(m) ==
    /\ m \in watched /\ watched' = watched \ {m} /\ Fault
    /\ health[m] # "unseen"
    /\ UNCHANGED <<server, port, slot, late, health>>

\* Another program's server comes and goes on the port.
OtherServer ==
    /\ slot' = NoPair
    /\ \/ port = "free" /\ port' = "foreign" /\ Fault
       \/ port = "foreign" /\ port' = "free" /\ UNCHANGED faults
    /\ UNCHANGED <<server, watched, late, health>>

\* Another client takes slot 0.
OtherRequest ==
    /\ port \in Lanes /\ slot # NoPair /\ slot' = NoPair /\ Fault
    /\ UNCHANGED <<server, port, watched, late, health>>

\* A pair changes on the disk; the source is not read again once it is copied.
Damage ==
    /\ Fault
    /\ \/ "source" \in Fragile /\ source = "sealed" /\ pc \in {"load", "copy"}
          /\ source' \in Pairs \ {source} /\ UNCHANGED copy
       \/ "copy" \in Fragile /\ copy \notin {NoPair, "broken"} /\ copy = pin
          /\ pc \notin Over /\ copy' \in Pairs \ {copy} /\ UNCHANGED source
    /\ UNCHANGED <<script, pin, evidence, server, port, slot, watched, late, health>>

Others ==
    /\ \/ \E m \in Lanes : Bind(m) \/ Exit(m)
       \/ /\ pc \notin Over
          /\ \/ \E m \in Lanes : Sample(m) \/ Violate(m) \/ SampleLost(m)
             \/ OtherServer \/ OtherRequest
    /\ UNCHANGED <<script, files, evidence>>

Finished == pc = "end" /\ UNCHANGED vars

Script ==
    \/ Load \/ Copy \/ GateBefore \/ StartServer \/ StartRaises \/ Ready
    \/ RestoreCopy \/ Task \/ LaneRaises \/ Interrupt \/ Close \/ CloseRaises
    \/ TargetDone \/ MtpDone \/ Judge \/ Seal \/ Raise \/ ReportFailure

Next == Script \/ Others \/ Damage \/ Finished

\* Every wait of the script has a time-out, and a process that was told to
\* end does.
Fairness ==
    /\ WF_vars(Script)
    /\ \A m \in Lanes : WF_vars(server[m] = "dying" /\ Exit(m)
                                /\ UNCHANGED <<script, files, evidence>>)

Spec     == Init /\ [][Next]_vars
FairSpec == Spec /\ Fairness

(***************************************************************************)
(* Properties.                                                             *)
(***************************************************************************)
\* The variables have their types, and nothing is pinned but what was copied.
TypeOK ==
    /\ pc \in Points /\ lane \in Lanes /\ leaving \in BOOLEAN
    /\ source \in Pairs /\ copy \in Pairs \cup {NoPair}
    /\ pin \in {NoPair, "sealed", "other"}
    /\ before \in Pairs \cup {NoPair} /\ error \in BOOLEAN
    /\ rows \in [Lanes -> Seq(Rows)] /\ \A m \in Lanes : Len(rows[m]) <= Planned
    /\ record \in [Lanes -> [status : {"none", "ran", "skipped"}, error : BOOLEAN,
                             unchanged : BOOLEAN, free : BOOLEAN,
                             health : {"unseen", "fine", "tight", "violated"}]]
    /\ result \in Verdicts /\ phase \in {"none", "allocated", "complete"}
    /\ server \in [Lanes -> {"none", "up", "dying", "down"}]
    /\ port \in Lanes \cup {"free", "foreign"} /\ slot \in Pairs \cup {NoPair}
    /\ watched \subseteq Lanes /\ late \subseteq Lanes
    /\ health \in [Lanes -> {"unseen", "fine", "tight", "violated"}]
    /\ faults \in 0 .. MaxFaults

\* All that a lane must have shown: every repeat of every fixture, by its own
\* server, from the pair that was pinned, with one valid answer.
Grounded(m) ==
    \A f \in Fixtures :
        /\ Cardinality(Positions(m, f)) = Repeats
        /\ \A r, s \in Measured(m, f) :
              r.answer = s.answer /\ r.by = m /\ r.from = pin

\* A verdict that passes stands on target rows that are all of this, whatever
\* was done to the port, the slot and the files in the meantime.
PassIsGrounded == result \in Passes => Grounded("target")

\* Exact parity is what it says: both lanes are grounded in the same pair, at
\* every position they gave the same answer, MTP drafted for every row, and
\* where it is asked for a draft was rejected.
ParityIsReal ==
    result = "PASS_EXACT_PARITY" =>
        /\ Grounded("target") /\ Grounded("mtp")
        /\ \A k \in 1 .. Planned : /\ rows["mtp"][k].answer = rows["target"][k].answer
                                   /\ rows["mtp"][k].draft # "none"
        /\ \A f \in Wanting : \E r \in Measured("mtp", f) : r.draft = "rejected"

\* No MTP server is started before the target's is gone and its lane has
\* shown every fixture fit, also when close() raises.
TargetFirst ==
    server["mtp"] # "none" => server["target"] = "down" /\ Grounded("target")

\* A lane that a passing verdict rests on kept its distance from the floors
\* for as long as close() waited for its monitor.
PassWasQuiet ==
    /\ result \in Passes => health["target"] = "fine" \/ "target" \in late
    /\ result = "PASS_EXACT_PARITY" => health["mtp"] = "fine" \/ "mtp" \in late

\* The benchmark's servers end with it, by its own conclusion, an exception or
\* Ctrl-C in a lane.  (A benchmark that is killed closes nothing.)
ServersEnd == <>[](\A m \in Lanes : server[m] \in {"none", "down"})
=============================================================================
