------------------------------ MODULE SlotChain ------------------------------
(* A chain of saved slots: scripts/q3ple_agentic_cache_probe.py evaluates a  *)
(* prompt, saves it and proves the file on a second server; the hashes of    *)
(* that pair are pinned; scripts/q3ple_agentic_slot_extend.py restores a     *)
(* copy of a pinned pair, appends unused corpus text piece by piece, saves,  *)
(* and proves the result on a second server; its result can be the source of *)
(* the next extension.                                                       *)
(*                                                                           *)
(* Run 0 is the probe, runs 1 .. MaxRun are extensions.  Runs share no       *)
(* server, but a run may start while the one before it is still reporting.   *)
EXTENDS OwnedSession

CONSTANTS
    MaxRun,        \* extensions
    BaseTexts,     \* pieces of the corpus in the probe's prompt
    Corpus,        \* pieces in the corpus
    MaxGrow,       \* pieces one extension appends
    Fragile        \* runs whose slot pair may change on the disk

ASSUME ChainAssumption ==
    /\ MaxRun \in Nat /\ MaxServer >= 2 * MaxRun + 2
    /\ BaseTexts \in Nat \ {0} /\ Corpus \in Nat /\ Corpus >= BaseTexts
    /\ MaxGrow \in Nat /\ Fragile \subseteq 0 .. MaxRun

Runs      == 0 .. MaxRun
First(r)  == 2 * r + 1         \* the server that evaluates
Second(r) == 2 * r + 2         \* the server that proves the file

VARIABLES
    run,        \* the run in progress
    pc,         \* where its script is
    second,     \* it works with its second server
    source,     \* the run whose result this one resumes
    goal,       \* the token vector to be saved
    offset,     \* corpus pieces tokenized so far, used or not
    at,         \* pieces of goal submitted
    exact,      \* every count so far was the expected one
    results,    \* what each run has recorded; the status is its result file's
    files,      \* the slot pair in each run's directory
    spoilt,     \* runs whose pair has changed on the disk
    reporting   \* extensions that wrote PASS and have not exited

script == <<run, pc, second, source, goal, offset, at, exact>>
disk   == <<results, files, spoilt>>
vars   == <<script, disk, reporting, own>>

NoResult == [status |-> "none", source |-> 0, texts |-> <<>>, offset |-> 0,
             pin |-> Absent, revived |-> Absent]
Statuses == {"none", "PASS", "BLOCKED", "FAILED"}

Points == {"begin", "offline", "copy", "preflight", "launch", "ready", "plan",
           "restore", "step", "save", "parse", "query", "close", "gate", "report",
           "handler", "finally", "end"}
\* Where an exception is caught.
Body == Points \ {"handler", "finally", "end"}

Init ==
    /\ run = 0 /\ pc = "begin" /\ second = FALSE /\ source = 0 /\ goal = <<>>
    /\ offset = 0 /\ at = 0 /\ exact = TRUE
    /\ results = [r \in Runs |-> NoResult]
    /\ files = [r \in Runs |-> Absent] /\ spoilt = {} /\ reporting = {}
    /\ OwnInit

Goto(p) ==
    pc' = p /\ UNCHANGED <<run, second, source, goal, offset, at, exact>>

Here == IF second THEN Second(run) ELSE First(run)
Probing == run = 0

(***************************************************************************)
(* Before the first server.                                                *)
(***************************************************************************)
\* The probe: allocate_run, the runtime's identity, the preflight.
ProbeBegin ==
    /\ pc = "begin" /\ Probing /\ PortFree /\ Goto("launch")
    /\ UNCHANGED <<disk, reporting, own>>

\* Another hand hashes the probe's pair and writes the hashes down:
\* EXPECTED_BASE_..._SHA256.  An extension's result carries its own.
PinBase ==
    /\ results[0].status = "PASS" /\ results[0].pin = Absent /\ files[0] # Absent
    /\ results' = [results EXCEPT ![0].pin = files[0]]
    /\ UNCHANGED <<script, files, spoilt, reporting, own>>

\* read_source_result, for the source and for the sealed 16K reference.
ReadSource(r) ==
    /\ pc = "begin" /\ ~Probing /\ r < run
    /\ results[r].status = "PASS" /\ results[0].status = "PASS"
    /\ source' = r /\ pc' = "offline"
    /\ UNCHANGED <<run, second, goal, offset, at, exact, disk, reporting, own>>

Mutant_SourceOffset(r) == BaseTexts

\* source_corpus_offset: behind everything the source has tokenized.
SourceOffset(r) == IF r = 0 THEN BaseTexts ELSE results[r].offset

\* offline_slot_pair_check: the pair is the one that was pinned.
OfflineCheck ==
    /\ pc = "offline" /\ files[source] # Absent
    /\ files[source] = results[source].pin
    /\ offset' = SourceOffset(source) /\ pc' = "copy"
    /\ UNCHANGED <<run, second, source, goal, at, exact, disk, reporting, own>>

\* copy_immutable_pair: into the run's own directory; the copy's hashes are
\* those of the check.
CopyPair ==
    /\ pc = "copy"
    /\ files' = [files EXCEPT ![run] = files[source]]
    /\ Goto(IF files'[run] = results[source].pin THEN "preflight" ELSE "handler")
    /\ UNCHANGED <<results, spoilt, reporting, own>>

\* RAM, VRAM, GPU and port.
ExtendPreflight ==
    /\ pc = "preflight" /\ PortFree /\ Goto("launch")
    /\ UNCHANGED <<disk, reporting, own>>

(***************************************************************************)
(* A server's work.                                                        *)
(***************************************************************************)
Launch ==
    /\ pc = "launch" /\ LaunchServer(Here) /\ Goto("ready")
    /\ UNCHANGED <<disk, reporting>>

LaunchFails ==
    /\ pc = "launch" /\ LaunchLeaks(Here) /\ Goto("handler")
    /\ UNCHANGED <<disk, reporting>>

Ready ==
    /\ pc = "ready" /\ SessionReady
    /\ Goto(IF second THEN "restore" ELSE "plan")
    /\ UNCHANGED <<disk, reporting, own>>

\* build_source_material, size_source_content: the front of the corpus.
SourceContent == [i \in 1 .. BaseTexts |-> i]

\* The probe sizes its content and builds its prompt.
ProbePlan ==
    /\ pc = "plan" /\ Probing /\ ~PortFree
    /\ goal' = SourceContent
    /\ pc' = "step" /\ UNCHANGED <<run, second, source, offset, at, exact>>
    /\ UNCHANGED <<disk, reporting, own>>

\* build_literal_extension: n pieces of unused text behind the source's vector.
LiteralExtension(n) ==
    Texts(results[source].pin) \o [i \in 1 .. n |-> offset + i]

\* The base is rebuilt and compared; n pieces are taken from the m that are
\* tokenized.
ExtendPlan(n, m) ==
    /\ pc = "plan" /\ ~Probing /\ ~PortFree
    /\ n <= m /\ offset + m <= Corpus
    /\ SubSeq(Texts(results[source].pin), 1, BaseTexts) = SourceContent
    /\ goal' = LiteralExtension(n)
    /\ offset' = offset + m
    /\ at' = Len(results[source].pin.held)
    /\ pc' = "restore"
    /\ UNCHANGED <<run, second, source, exact, disk, reporting, own>>

\* slot_restore of the copy, and n_restored.
ExtendRestore ==
    /\ pc = "restore" /\ ~second /\ RestoreFrom(files[run])
    /\ Len(slot'.held) = at /\ ~slot'.other
    /\ Goto("step") /\ UNCHANGED <<disk, reporting>>

\* build_prefixes, build_extension_prefixes: literal prefixes of one vector.
Prefix(n) == SubSeq(goal, 1, n)

\* run_prefix_steps, one prefix: whatever the counts are, it goes on.
ProbeStep ==
    /\ pc = "step" /\ Probing /\ at < Len(goal)
    /\ \E c \in 0 .. at + 1 :
          /\ CompletePrefix(Prefix(at + 1), c)
          /\ exact' = (exact /\ c = at)
    /\ at' = at + 1
    /\ UNCHANGED <<run, pc, second, source, goal, offset, disk, reporting>>

Mutant_ExtendStep ==
    /\ pc = "step" /\ ~Probing /\ at < Len(goal)
    /\ \E c \in 0 .. at + 1 : CompletePrefix(Prefix(at + 1), c)
    /\ at' = at + 1 /\ pc' = "step"
    /\ UNCHANGED <<run, second, source, goal, offset, exact, disk, reporting>>

\* completion_prefix, one prefix of build_extension_prefixes: a replayed
\* piece ends the run.
ExtendStep ==
    /\ pc = "step" /\ ~Probing /\ at < Len(goal)
    /\ \E c \in 0 .. at + 1 :
          /\ CompletePrefix(Prefix(at + 1), c)
          /\ pc' = IF c = at THEN "step" ELSE "handler"
    /\ at' = at + 1
    /\ UNCHANGED <<run, second, source, goal, offset, exact, disk, reporting>>

StepsDone ==
    /\ pc = "step" /\ at = Len(goal) /\ Goto("save")
    /\ UNCHANGED <<disk, reporting, own>>

Mutant_SavesFile ==
    /\ port = session /\ session # NoOne
    /\ files' = [files EXCEPT ![source] = slot]
    /\ UNCHANGED <<results, spoilt, reporting, own>>

\* The file a save leaves in the run's directory.
SavesFile ==
    /\ port = session /\ session # NoOne
    /\ files' = [files EXCEPT ![run] = slot]
    /\ UNCHANGED <<results, spoilt, reporting, own>>

\* slot_save by the probe: n_saved is judged at the end.
ProbeSave ==
    /\ pc = "save" /\ Probing /\ SavesFile
    /\ exact' \in {exact /\ Saved(slot, Len(goal)),
                  exact /\ Saved(slot, Len(goal)) /\ ~slot.other}
    /\ pc' = "query"
    /\ UNCHANGED <<run, second, source, goal, offset, at>>

\* slot_save over the copy: the companion is there and n_saved is right.
ExtendSave ==
    /\ pc = "save" /\ ~Probing /\ SavesFile
    /\ Goto(IF Saved(slot, Len(goal)) THEN "parse" ELSE "handler")

\* parse_slot_pair: both files hold the expected tokens; their hashes go
\* into the record.
ParseSaved ==
    /\ pc = "parse" /\ ~files[run].other /\ Texts(files[run]) = goal
    /\ results' = [results EXCEPT ![run].pin = files[run], ![run].texts = goal]
    /\ Goto("query") /\ UNCHANGED <<files, spoilt, reporting, own>>

Mutant_Query ==
    /\ pc = "query"
    /\ \E c \in 0 .. Len(goal) : CompleteQuery(goal, c)
    /\ Goto("close") /\ UNCHANGED <<disk, reporting>>

\* completion_with_output, before and after the restart.
Query ==
    /\ pc = "query"
    /\ \E c \in 0 .. Len(goal) :
          /\ CompleteQuery(goal, c)
          /\ exact' = (exact /\ c = Len(goal))
    /\ pc' = "close"
    /\ UNCHANGED <<run, second, source, goal, offset, at, disk, reporting>>

\* The probe closes its server whatever was recorded.
ProbeClose ==
    /\ pc = "close" /\ Probing /\ Close
    /\ IF second THEN pc' = "gate" /\ UNCHANGED second
       ELSE pc' = "launch" /\ second' = TRUE
    /\ UNCHANGED <<run, source, goal, offset, at, exact, disk, reporting>>

\* An extension closes it if no violation is recorded; the summary its gate
\* will judge is taken here, not later.
ExtendClose ==
    /\ pc = "close" /\ ~Probing /\ session \notin violated /\ Close
    /\ IF second THEN pc' = "gate" /\ UNCHANGED second
       ELSE pc' = "launch" /\ second' = TRUE
    /\ UNCHANGED <<run, source, goal, offset, at, exact, disk, reporting>>

\* After the restart: n_restored is judged at once by an extension, and at
\* the end by the probe.
RestoreAgain ==
    /\ pc = "restore" /\ second /\ RestoreFrom(files[run])
    /\ Probing \/ Saved(slot', Len(goal))
    /\ exact' = (exact /\ Saved(slot', Len(goal)))
    /\ results' = [results EXCEPT ![run].revived = slot']
    /\ pc' = "query"
    /\ UNCHANGED <<run, second, source, goal, offset, at,
                   files, spoilt, reporting>>

(***************************************************************************)
(* The verdict.                                                            *)
(***************************************************************************)
Verdict(status) ==
    results' = [results EXCEPT ![run] =
        IF status = "PASS"
        THEN [@ EXCEPT !.status = status, !.texts = goal, !.source = source,
                       !.offset = offset]
        ELSE [NoResult EXCEPT !.status = status]]

\* No result is written, and what was in memory is lost.
NoVerdict ==
    results' = [results EXCEPT ![run] = IF @.status = "none" THEN NoResult ELSE @]

Mutant_SafetyClear == TRUE

\* No violation is known of either server when the gate looks.
SafetyClear == {First(run), Second(run)} \cap violated = {}

Mutant_ProbeGate ==
    /\ pc = "gate" /\ Probing /\ PortFree
    /\ \/ SafetyClear /\ Verdict("PASS")
       \/ exact /\ SafetyClear /\ Verdict("BLOCKED")
       \/ Verdict("FAILED")
    /\ Goto("report") /\ UNCHANGED <<files, spoilt, reporting, own>>

\* parity, the .dft gate, and the runtime: the frozen one cannot pass.
ProbeGate ==
    /\ pc = "gate" /\ Probing /\ PortFree
    /\ \/ exact /\ SafetyClear /\ Verdict("PASS")
       \/ exact /\ SafetyClear /\ Verdict("BLOCKED")
       \/ Verdict("FAILED")
    /\ Goto("report") /\ UNCHANGED <<files, spoilt, reporting, own>>

\* The checkpoint behind the result, and the print.
ProbeReport ==
    /\ pc = "report" /\ Goto("finally") /\ UNCHANGED <<disk, reporting, own>>

\* The parity gate raises if it fails, so the result says PASS.  The last
\* checkpoint and the report are still to come.
ExtendGate ==
    /\ pc = "gate" /\ ~Probing /\ PortFree
    /\ exact
    /\ Verdict("PASS") /\ reporting' = reporting \cup {run}
    /\ Goto("end") /\ UNCHANGED <<files, spoilt, own>>

ReportDone(r) ==
    /\ r \in reporting /\ reporting' = reporting \ {r}
    /\ UNCHANGED <<script, disk, own>>

\* The checkpoint or the print raises: the handler replaces the result.
ReportRaises(r) ==
    /\ r \in reporting /\ reporting' = reporting \ {r}
    /\ results' = [results EXCEPT ![r].status = "FAILED"]
    /\ UNCHANGED <<script, files, spoilt, own>>

(***************************************************************************)
(* Failures.                                                               *)
(***************************************************************************)
\* Any step in the body may raise: a check, a request, a write, Ctrl-C.
Raise ==
    /\ pc \in Body /\ Goto("handler") /\ UNCHANGED <<disk, reporting, own>>

\* close() raises in the body.
RaiseInClose ==
    /\ pc = "close" /\ CloseRaises /\ Goto("handler")
    /\ UNCHANGED <<disk, reporting>>

Mutant_ProbeHandler ==
    /\ pc = "handler" /\ Probing
    /\ \/ NoVerdict
       \/ Verdict("BLOCKED") \/ Verdict("FAILED")
    /\ Goto("finally") /\ UNCHANGED <<files, spoilt, reporting, own>>

\* The checkpoint first, which may raise; then a result, unless there is one.
ProbeHandler ==
    /\ pc = "handler" /\ Probing
    /\ \/ NoVerdict
       \/ results[run].status = "none" /\ (Verdict("BLOCKED") \/ Verdict("FAILED"))
    /\ Goto("finally") /\ UNCHANGED <<files, spoilt, reporting, own>>

\* finally: close what is still held; the checkpoint says how it ended.
ProbeFinally ==
    /\ pc = "finally"
    /\ IF session = NoOne THEN UNCHANGED own ELSE Close \/ CloseRaises
    /\ Goto("end") /\ UNCHANGED <<disk, reporting>>

Mutant_ExtendHandler ==
    /\ pc = "handler" /\ ~Probing /\ UNCHANGED own
    /\ NoVerdict \/ Verdict("FAILED")
    /\ Goto("end") /\ UNCHANGED <<files, spoilt, reporting>>

\* An extension's handler: close, whatever comes of it, and the result.
ExtendHandler ==
    /\ pc = "handler" /\ ~Probing
    /\ IF session = NoOne THEN UNCHANGED own ELSE Close \/ CloseRaises
    /\ NoVerdict \/ Verdict("FAILED")
    /\ Goto("end") /\ UNCHANGED <<files, spoilt, reporting>>

(***************************************************************************)
(* Around the scripts.                                                     *)
(***************************************************************************)
\* The next run is another process, and what the sessions of the last one
\* knew is gone with it.  Without a base there is nothing to extend.
NextRun ==
    /\ pc = "end" /\ run < MaxRun /\ results[0].status = "PASS"
    /\ run' = run + 1 /\ pc' = "begin" /\ second' = FALSE /\ source' = 0
    /\ goal' = <<>> /\ offset' = 0 /\ at' = 0 /\ exact' = TRUE
    /\ session' = NoOne /\ watched' = {} /\ violated' = {} /\ late' = {}
    /\ UNCHANGED <<disk, reporting, process, port, slot>>

\* A pair changes on the disk, in place: one that is gone only makes a check
\* raise, which it may anyway.
Damage(r) ==
    /\ r \in Fragile \ spoilt /\ files[r] # Absent
    /\ r = run \/ results[r].status = "PASS"
    /\ files' = [files EXCEPT ![r] = Spoil(files[r])]
    /\ spoilt' = spoilt \cup {r}
    /\ UNCHANGED <<script, results, reporting, own>>

AllDone ==
    pc = "end" /\ (run = MaxRun \/ results[0].status # "PASS") /\ UNCHANGED vars

Script ==
    \/ Raise \/ RaiseInClose
    \/ ProbeHandler \/ ProbeFinally \/ ExtendHandler
    \/ ProbeBegin \/ (\E r \in Runs : ReadSource(r))
    \/ OfflineCheck \/ CopyPair \/ ExtendPreflight
    \/ Launch \/ LaunchFails \/ Ready
    \/ ProbePlan \/ (\E n, m \in 1 .. MaxGrow + 1 : n <= MaxGrow /\ ExtendPlan(n, m))
    \/ ExtendRestore \/ ProbeStep \/ ExtendStep \/ StepsDone
    \/ ProbeSave \/ ExtendSave \/ ParseSaved \/ Query
    \/ ProbeClose \/ ExtendClose \/ RestoreAgain
    \/ ProbeGate \/ ProbeReport \/ ExtendGate

Next ==
    \/ Script \/ NextRun \/ PinBase
    \/ (\E r \in Runs : ReportDone(r) \/ ReportRaises(r) \/ Damage(r))
    \/ (Environment /\ UNCHANGED <<script, disk, reporting>>)
    \/ AllDone

\* A script runs on, for every wait of it has a time-out; a process that was
\* told to end does.
Fairness ==
    /\ WF_vars(Script)
    /\ WF_vars(\E s \in Servers : process[s] = "dying" /\ ServerEnds(s)
                                  /\ UNCHANGED <<script, disk, reporting>>)

Spec     == Init /\ [][Next]_vars
FairSpec == Spec /\ Fairness

(***************************************************************************)
(* Properties.                                                             *)
(***************************************************************************)
Passed(r) == results[r].status = "PASS"

\* Each variable has its type, and a script holds the server of its run.
TypeOK ==
    /\ OwnTypeOK
    /\ run \in Runs /\ pc \in Points /\ second \in BOOLEAN /\ source \in Runs
    /\ goal \in Seq(1 .. Corpus) /\ offset \in 0 .. Corpus
    /\ at \in 0 .. Corpus /\ exact \in BOOLEAN
    /\ results \in [Runs -> [status : Statuses, source : Runs,
                             texts : Seq(1 .. Corpus), offset : 0 .. Corpus,
                             pin : Content, revived : Content]]
    /\ files \in [Runs -> Content]
    /\ spoilt \subseteq Runs /\ reporting \subseteq Runs
    /\ session # NoOne => session = Here

\* A result that says PASS pins what its source pinned and, behind it, the
\* work of its own first server: no other client, no other server and no
\* replay is in it, unless the copy changed after it was hashed.
PassContinues ==
    \A r \in Runs \ {0} : Passed(r) /\ r \notin spoilt =>
        LET old == results[results[r].source].pin.held
            new == results[r].pin.held
        IN  /\ Len(new) > Len(old)
            /\ \A i \in DOMAIN new :
                  new[i] = IF i <= Len(old) THEN old[i]
                           ELSE [text |-> results[r].texts[i], by |-> First(r)]

\* The base of the chain is the probe's prompt, evaluated by its first server.
BaseIsOwn ==
    results[0].pin # Absent /\ 0 \notin spoilt =>
        /\ Texts(results[0].pin) = results[0].texts
        /\ ~results[0].pin.other
        /\ \A i \in DOMAIN results[0].pin.held : results[0].pin.held[i].by = First(0)

\* However often a slot is extended, no piece of the corpus is in it twice.
NoTextTwice ==
    \A r \in Runs : Passed(r) =>
        \A i, j \in DOMAIN results[r].texts :
            i # j => results[r].texts[i] # results[r].texts[j]

\* A result that says PASS was restored by a second server, from the pinned
\* pair unless that changed in between, with all tokens in place.
PassWasRevived ==
    \A r \in Runs : Passed(r) =>
        LET revived == results[r].revived
        IN  /\ Texts(revived) = results[r].texts /\ ~revived.other
            /\ r > 0 /\ r \notin spoilt => revived = results[r].pin

\* No later run touches the pair a result pins.
PinnedStays ==
    \A r \in Runs : Passed(r) /\ results[r].pin # Absent /\ r \notin spoilt
                        => files[r] = results[r].pin

\* A violation recorded while the script held the session keeps the run from
\* passing; only a monitor that close() did not wait for may come too late.
PassWasQuiet ==
    Passed(run) => {First(run), Second(run)} \cap violated \subseteq late

\* The probe's result is written once.
ProbeResultFinal ==
    [][results[0].status # "none" => results'[0].status = results[0].status]_vars

\* A session that a script holds comes to be closed, or its server to an end, at
\* whichever step the script raises.  A server that LaunchLeaks leaves behind is
\* held by nobody, and a script that is killed closes nothing: neither is meant.
SessionsEnd == []<>(session = NoOne \/ process[session] = "down")
=============================================================================
