# A verification of the Q3PLE tooling

The repository runs one large local model behind a patched `llama-server` and
drives it with Python scripts. The scripts are where its own control logic
lives: they start, watch and stop the server, checkpoint its slot, hold a chat
client to a fail-closed prefix contract, and build and promote long-context
states. This directory holds TLA+ modules of that logic, TLC configurations
that check them on small instances, and TLAPS proofs about them.

`PROJECT.json` is the index: every component, run, finding, hazard and theorem,
and, for every definition, the source lines it stands for.

## 1. Inventory

Sizes are lines. "State" is what survives a step or is shared.

| Component | Code | State | Operations | Status |
|---|---|---|---|---|
| Daily lifecycle | `scripts/q3ple_daily_profile.py` 355-960, 1339-1471 | `server.json`, processes, the port, telemetry files | `launch`, `stop`, `_watchdog_main`, `status` | modelled (`status`, `show` change nothing) |
| Daily checkpoints | same, 963-985 and 1110-1336; parser in `q3ple_agentic_slot_extend.py` 252-352; patch 0035 | slot files, `.dft` companions, manifests, `latest.json`, the server's slot | `save`, `restore` | partly: not `GenerationStore`, `DailySession` (988-1103) |
| Pi/DSH gateway | `scripts/q3ple_pi_adapter.py` (855) | `session.json`, raw turn files, `turns.jsonl`, the contract in memory | `POST /v1/chat/completions`, `POST /q3ple/align-boundary` | modelled; request rewriting and stream parsing abstracted |
| Canonical 60K build and benchmark | `scripts/q3ple_canonical_60k.py` (2782) | stage bundles, result files, an owned server with a monitor thread | staged ingestion, sealing, benchmark, promotion gate | modelled |
| Agentic slot extension | `scripts/q3ple_agentic_slot_extend.py` (1393) | slot-pair copies, checkpoint and result files, two owned servers in turn | offline check, copy, plan, extension, save, proof on a second server | modelled |
| Agentic cache probe | `scripts/q3ple_agentic_cache_probe.py` (1527) | slot pair, result file, two owned servers with monitor threads | prefixes, save, proof on a second server | modelled |
| Realistic A/B, filled context | two scripts, about 1800 lines | one owned server each | launch, measure, stop | not modelled, see section 5 |
| Benchmark validator | `scripts/benchmark.py` | none | `_topological_order`, row validation | not modelled, see section 5 |
| Reference codec | `scripts/q3_ple_32_reference.py` | none | pack, unpack, quantise | not modelled, see section 5 |
| Agent task, cache run, MTP A/B | three scripts | none of their own | sequential HTTP or subprocess calls | not modelled |
| Release scripts, telemetry capture (PowerShell) | four scripts | none | file scans and copies, counters | not modelled: pure I/O |
| llama.cpp patches | `patches/`, `artifacts/` | - | kernels, loaders, slot save and restore | only slot save and restore (0035), as the checkpoints use it |

**How they interact.** Every daily command is a process of its own. The
commands and the detached watchdogs share `server.json`, the process table and
the port, and hold no lock. `save` and `restore` talk HTTP to the server, whose
slot state goes to files that a later server, of either mode, reads back. The
gateway is a single-threaded HTTP server in front of the same `llama-server`;
it keeps its contract in memory and mirrors it in `session.json` before it
writes evidence. The canonical build starts one server per stage and hands each
stage's slot files to the next through copies sealed by hash. The benchmark
copies the last of them and runs a target-only and an MTP server on the copy, one
after the other. The cache probe makes a slot pair whose hashes are pinned in the
slot extension, which resumes it, or a result of its own, under new text.

**What is hard.** Identity checks and terminations are separate steps and pids
are reused. Read-modify-write of `server.json` by four kinds of actor. A launch
that may raise at any of a dozen steps with the server up. Two slot files that
are not written together, and a manifest and a pointer after them. A gateway
that may die, fail a write, or lose upstream or client between any two steps,
and must not serve a turn on a slot it cannot vouch for. `PROJECT.json`
"hazards" lists each at its line, with the properties that watch it.

**What makes each part correct.**

* Lifecycle: nothing but the recorded process is terminated; a record that says
  stopped is true; a failed launch leaves no server; a running server is
  watched; a violation takes the server down; no watchdog outlives its server.
* Checkpoints: `latest.json` never names half a checkpoint; a server never
  holds a state that a server of another profile computed.
* Gateway: memory and disk agree whenever a request may come; a turn's number is
  used once; a row stands on raw files and a counted turn; a failed inference
  seals the session; two adjacent rows prove the prefix reuse they claim.
* Staged build: a sealed stage holds what the stage before sealed and its own
  chunks behind it; the servers never overlap and each ends, however its stage
  ends; a result that can be loaded was restored from the sealed files by a
  server of its own, and no server had a recorded violation.
* Planners: a plan exists exactly when the boundaries allow one, its stages grow,
  and its chunks submit every token once.
* Benchmark: a passing verdict rests on rows that were all made from the pinned
  pair by the lane's own server; parity is the same answer at every position; the
  MTP lane starts only behind a target lane that has ended and is fit.
* Chain of saved slots: a passing extension holds what its source pinned and its
  own work behind it, no corpus text twice, and was revived by a second server;
  pinned files are never written again; a script closes the session it holds at whichever
  step it raises.

## 2. Modules

| Module | What it is |
|---|---|
| `DailyLifecycle` | the commands, the watchdogs, and the operating system around them |
| `DailyLifecycle_proofs` | its theorems |
| `SlotStore_proofs` | the theorems of `SlotStore` |
| `SlotStore` | save and restore, the slot files, manifests and pointer |
| `ConversationLog` | abstract: what the gateway's durable files promise |
| `PiSession` | the gateway; implements `ConversationLog` |
| `PiSession_proofs` | its theorems, and that it implements `ConversationLog` |
| `StagedBuild` | the canonical build: its servers, monitor, slot files, checkpoint and result |
| `StagedBuild_proofs` | its theorems |
| `StagePlan` | pure: the boundaries of the stages and their chunks |
| `StagePlan_proofs` | its theorems, for every conversation |
| `BenchmarkLanes` | the benchmark of a sealed base: two lanes, their gates and the verdict |
| `BenchmarkLanes_proofs` | its theorems |
| `OwnedSession` | a server that a script owns, its monitor thread, the port and slot 0 |
| `SlotChain` | the cache probe and the slot extensions, as runs on top of `OwnedSession` |
| `OwnedSession_proofs` | what one step of a session may change, as lemmas |
| `SlotChain_proofs` | the theorems of `SlotChain` |
| `MCDailyLifecycle`, `MCSlotStore`, `MCPiSession`, `MCStagedBuild`, `MCBenchmarkLanes`, `MCSlotChain` | instances for TLC: symmetry sets, stages, fixtures; `MCStagedBuild` composes `StagedBuild` with `StagePlan` |

`Mutant_...` definitions beside an operator are plausible wrong versions of it;
nothing refers to them. `PROJECT.json` names the property that each one breaks.

### DailyLifecycle

One action per step between two effects that another process can observe: each
read or write of `server.json`, each spawn, each identity check, each
termination. A shell (`Ctl`) runs one command at a time; `pc` is its position
and `state`, `latest`, `server`, `watcher` are the Python locals of the same
names (`process`, `watchdog`). A watchdog's locals are the `w...` functions,
indexed by its birth.

* A process is a *birth*. It stands for (pid, create time within a second, exe,
  command line), which is what `identity_matches` compares; `pid[b]` is separate
  and is reused once no live process and no Popen handle holds it.
* `server.json` keeps the fields some branch reads: status, the server's
  identity, the watchdog's status and identity. A write replaces the whole file
  (`os.replace`), so readers see one version or the other.
* A termination is three steps, as in `_stop_process_exact`: check the identity
  (`KillCheck`), `psutil.Process(pid).terminate()` and wait (`KillFirst`), and
  after a time-out check again, `kill()` and wait again (`KillAgain`).
  `psutil.Process` binds a handle, so resolving the pid and terminating are one
  step. Between check and resolution the pid may change hands; `misfires`
  remembers that, with the last birth at the check.
* `identity_matches` says yes only of the recorded process, but no also of one that
  runs when psutil fails on it; a termination fails when the process is gone, when it
  cannot be signalled, or when it outlives `kill()` and its wait. `Spare` is all of
  these; a process that ran then is in `givenup` (at most `MaxGivenUp` of them), and
  may end later by the signal it was sent (`LateExit`). What follows depends on
  the caller: an exception of a termination ends `stop`, leads from the inner
  handler of `launch` to the outer one, and is swallowed there (`KillRaises`).
* A launch step that raises goes through `LaunchRaise` to the inner and outer
  handler. A write that fails elsewhere ends the command, which is `Crash`.
* A watchdog's except clause has positions of its own (`WatchHandlerPc`). A
  termination that raises in the body leads there and is tried once more; one that
  raises in the handler ends the watchdog (`WRaises`). `WatchRaise` is a record or a
  telemetry file that cannot be read or written.
* `CanCrash`, `CanExit`, `CanRaise`, `MaxGivenUp` and `Ops` select the adversities of a
  run.

Left out: `status` and `show` (they change nothing), a `server.json` that cannot
be parsed (it is only replaced whole), and the numbers of the preflight and of the
gates, which are a free choice.

### SlotStore

`save` is five steps: read the record, the profile and take a new basename
(`SaveBegin`); the server writes `.dft` then the slot file (`SaveApi`); parse
and hash (`SaveCheck`); manifest; `latest.json`. `restore` is three: choose the
manifest, validate it, one API call. The time stamp of `_slot_basename` is taken
to make names distinct. The parser sees a file's envelope and token vector
only, so a file cut after them is `Readable` but not `Whole`. A profile stands
for everything a manifest copies out of the profile file; a profile number
higher than the present one is a profile never seen before. `Damage` is what
the disk or another program does to a slot file; it spares a file from the
moment before a save has hashed it and after a restore has, where no check in
the scripts could see it. A save that the server reports as a success is taken
to have written whole files: the code that would tell is not in the repository.
The server and its record are one here; `DailyLifecycle` is where they come
apart. `CanEditLive` and `LaunchUnderRestore` are what an operator should not
do; the runs and theorems about `SlotIsOwn` say so.

### PiSession and ConversationLog

The handler's position is `pc`; `contract` is what `_save` writes, `disk` what
it wrote last, `pending` and `completed` the attributes it does not write. The
chat template and tokenizer run upstream, so a request carries any token
vector, and `cache`/`prompt` counts may be anything. `_save` failing leaves the
old file whole (it replaces). `cut` is a history variable of the process: it
started an inference that did not become a saved turn, and why: by a failure that
the handler names, or by one that it lets through. `promoted` remembers turns whose
messages an alignment has replaced. `ConversationLog` knows
turns, history, seal and row numbers only, and `PiSession` implements it by
mapping its *files*, not its memory: that is what a restart finds.

### StagedBuild

The build is one process with one thread per server besides the main one: `pc`
and `n` are the main thread's position and the server it works with, `mon` is the
monitor thread of that server. The canonical prompt is cut into transport
chunks; a slot or a slot file is, chunk by chunk, *which server evaluated it*
(`made`), plus whether other tokens follow (`other`). That is what the counts in
the answers cannot tell, and what the properties are about.

* A server's life is `StartServer` .. `TearDown`, the same for the probe (0), the
  stages (1 .. `Last`) and the restart (`Restart`), as `OwnedServer` is; where the
  three differ, the guard says so. Everything in a `try` may raise
  (`ServerRaise`, `BuildRaise`), and the `finally` clause is `Close`, which may
  raise itself (`CloseTimesOut`).
* `wait_ready` and the completions ask the *port*: `Foreign` is another program's
  server, which answers completions to satisfaction but has no slot files.
  `OtherRequest` is another client of our server, at any moment.
* `slot_restore` compares counts and sizes, so a file that changed in place
  (`Damage`, after its seal) is restored; the last file is hashed again
  (`Rehash`).
* A sample the monitor takes is kept in memory before it is written; a failed
  write ends the thread (`SampleLost`), and the summary passes.
* `Handle` and `Report` are the two failure writers. `where` says whether the
  exception that reaches `main` knows the run's directory.
* The numbers of the resource gates are free choices, except that a violation
  once recorded fails every gate after it.

Left out: the text of the prompt (`Bounds` is any increasing sequence; `StagePlan`
is where it comes from), and `validate_live_inputs`, which reads files and may
raise.

### StagePlan

`select_stage_boundaries` and `suffix_chunk_ranges` with their helpers, as operators
on token counts: the vectors are prefixes of one another, so a count tells a
boundary. A function that raises answers `Raised`. `MCStagedBuild` takes its
instance's `Bounds` from them (`StagesArePlanned`) and checks them against
`SoundPlan` and `CompleteCut`, quantified definitions that know nothing of the loops. What the functions refuse at
once is not among the inputs (`AcceptedTargets`, `AcceptedRange`).

### BenchmarkLanes

`benchmark_live` is one process with a monitor thread per lane; `pc` and `lane` are
its position. A slot pair is told by its hashes: the sealed one, another one of the
same sizes, or one that does not parse. A row has what the code records (its
answer, what became of the drafts) and two things the code cannot see: the pair
the slot came from and the server that answered. Rows that no gate accepts are
all one row, `Unfit`.

* `Task` covers restore, request, row and the look at the violations behind it; an
  exception inside ends the loop (`LaneRaises`), Ctrl-C passes that clause
  (`Interrupt`), and both go through `Close`, which may raise (`CloseRaises`).
* `RestoreCopy` compares counts and sizes, so another pair of the same sizes is
  restored; the hashes before and after the lane must tell.
* `health` is the worst the monitor has seen: fine, below the headroom that a
  release needs, or a violation. `late` are lanes whose thread outlived `close`.
* `Verdict` and `Judge` are the last branch of `benchmark_live`; a passing target
  lane with a failed MTP lane is `PASS_TARGET_ONLY_...`.
* `MaxFaults` counts what others do: a server that dies or outlives its `close`,
  another server, another client, a changed pair, Ctrl-C, a start that raises.

### OwnedSession and SlotChain

`OwnedSession` is `ServerSession` with the helpers that talk to it, and has no
script: `SlotChain` gives it two. Run 0 is the probe's `main`, runs 1, 2, ... are
`main` of the extension, each with a first server that evaluates and a second that
proves the file. A token vector is a sequence of pieces of the corpus; a slot or a
file holds pieces *with the server that evaluated each*, which no answer tells.

* `source` of an extension is any result that says PASS, also one whose run has
  written it and not exited (`reporting`): its handler may still replace it by
  FAILED, and `NextRun` does not wait.
* `SourceOffset` is the corpus offset of `source_corpus_offset`, `LiteralExtension`
  the choice of how much text to append.
* The probe's handler keeps a result that was written (`ProbeHandler`); that of the
  extension does not (`ReportRaises`).
* `LaunchLeaks` is the server nobody holds when `ServerSession` cannot be made; it
  keeps the port, and the next preflight meets it.

## 3. Runs

Passing runs:

| Run | Asks | Instance |
|---|---|---|
| `life_two` | `TypeOK`, `NoStaleKill`, `StoppedMeansGone`, `RefusedLaunchLeavesNothing` | two shells, three processes, two pids; launch, save/restore, stop; commands crash |
| `life_live` | `RefusedLaunchLeavesNothing`, `RunningRecordWatched`, `OrphanWatchdogEnds`, `ViolationStopsServer` | one shell, three processes, two pids; launch, stop with a save first; one process that psutil fails on or that outlives `kill()`, watchdogs' files fail; fair scheduling |
| `slots` | `TypeOK`, `LatestIsWhole`, `SlotIsOwn` | two shells, two saves, two profiles, one damaged file; interrupted saves, failing server saves, servers of either mode in turn |
| `pi_contract` | `TypeOK`, `MemoryIsDurable`, `EvidenceFits`, `EvidenceGrounded`, `NamedCutMeansSealed`, `AdjacentRowsReuse`, `Refinement` | two turns, prompts of up to three tokens, histories of two messages; crashes, failed writes, truncated answers, alignments |
| `staged` | `TypeOK`, `StageContinues`, `LoadableWasRestored`, `LoadableWasQuiet`, `OneServer`, `ServerEnds`, `PlanIsSound`, `EveryTokenOnce` | three stages ending at chunks 1, 2 and 4; other clients and another server, one damaged file, lost telemetry, violations, failing writes, a killed build; all plans of up to three targets over six tokens, chunks of one to four |
| `lanes` | `TypeOK`, `PassIsGrounded`, `ParityIsReal`, `TargetFirst`, `PassWasQuiet`, `ServersEnd` | two fixtures, one with two acceptable answers and one that wants rejected drafts, two repeats, two faults |
| `chain` | `TypeOK`, `PassContinues`, `BaseIsOwn`, `NoTextTwice`, `PassWasRevived`, `PassWasQuiet`, `ProbeResultFinal`, `SessionsEnd` | the probe and two extensions, six servers, a corpus of four pieces, one run whose pair may change; other clients and servers |

Runs that show a disagreement between the code and what is said of it (the
quotations are in `PROJECT.json` "findings"):

* `life_unsupervised`: a watchdog that has stopped its target reads and rewrites
  `server.json` without looking whose record it is. Marked `failed_closed`, the
  *next* launch's record makes the next watchdog walk away from a healthy server.
* `life_replacement`: `_stop_process_exact` compares one handle and signals another,
  resolved from the bare pid behind the check. A server that dies in between hands
  its pid on, and the replacement is killed, which the documentation rules out.
  `NoStaleKill` is what holds: a process that ran at the check is not hit.
* `slots_live_edit`: `save` takes the identity in the manifest from the profile
  file at the time of the save, not from what `launch` recorded for the server;
  edited in between, an old state is stamped and later restored as a new one.
* `pi_truncated`: `http.client.IncompleteRead` is not in the handler's `except`
  list, so a truncated answer leaves the session open (`CutMeansSealed`);
  `NamedCutMeansSealed` is what holds of all others.
* `pi_replay`: the documentation has every turn take at least the previous prompt from
  the cache; the code accepts 16 tokens of tail and 8 of replay less. `AdjacentRowsReuse`
  is the floor of the code.

**Bounds.** `MaxBirth` caps processes ever started. Three are a server, its
watchdog and one more, which may take the pid of either: another program, or the server
of a second launch, which meets the record and the watchdog of the first. Four are two
complete launches in a row, which `life_unsupervised` needs; of more than three, the
invariants are proved.
Two pids force reuse, three leave a choice. Two shells are enough for
every race the record admits, as each race is between one writer and one reader.
`MaxGivenUp` one is enough for a first failure to inspect, signal or end a process in
any position; in `life_two` it is zero, so that its properties hold without an exception.
`MaxSaves` two is an old and a new checkpoint; one damaged
file suffices to exchange the halves of the two. In the gateway the tolerance and the replay
window are 1 and 1 instead of 16 and 8, with prompts of up to three tokens, so
that prefixes inside, at and beyond the window all occur; two messages give a
history that is extended, kept or rewritten; two turns are an adjacent pair of rows,
and between them any failures, crashes and alignments may lie.
Three stages are a first, a middle (restored and restored from) and a last one,
and the last has two chunks, so that a foreign request may fall between the
chunks of a stage; one damaged file suffices, as each stage reads only one.
Six tokens and three targets leave room for a target with no boundary of its
own, a final boundary on or behind the last stage, and chunks that end at,
before and behind a seam. In `lanes` two fixtures and two repeats are the least
where rows of one fixture are compared over repeats and a lane stops between
fixtures; two faults are one to spoil a row and one to hide it (a damaged pair and
the restart of another server, say); samples and late monitors are not counted.
In `chain` the second extension may resume the probe or the first extension, the
least in which an offset is inherited; a corpus of four pieces has two left behind
the probe's prompt, so each extension may find text, and the second may find none.
The largest instances are `slots` with 4.4, `life_two` with 2.6 and `lanes` with 2.2
million states.
No run turns deadlock checking off.

**Fairness.** `life_live`, `staged`, `lanes` and `chain` assume some.
In `life_live`: weak fairness of each watchdog, a
loop with a bounded sleep in a process of its own, and of each started command,
a straight-line program with time-outs on every wait. Nobody is obliged to
begin a command, the server need not bind its port or exit, and violations need
not occur. That run has no crashes of commands: a `stop` killed after it took the
watchdog down leaves the server up, and nothing in the code would end it.
In `staged`, weak fairness of the build's own steps, since each wait and each
request of it has a time-out and a step that waits in vain raises, and of the end
of a process that has been killed. The monitor, other programs and the servers
themselves are under no obligation, and a build that is killed (`pc = "dead"`)
leaves its server up: `ServerEnds` says so. `lanes` and `chain` have the same: weak
fairness of the script, whose every wait has a time-out, and of the end of a
process that was told to end.

One property is narrower than it might look. `RunningRecordWatched` is
checked with one shell, without `save`/`restore` and without crashes: a stale
write-back of `save` can undo a late `failed_closed`, and a dead `stop` can leave
a server unwatched (TLC shows both when the instance allows them); both are
listed as hazards. Its `Watched` counts a watchdog that was
started for the server and has not read the record yet: with six processes (more
than the run has) an earlier launch's watchdog can inherit the server's
pid, take the new record for its own and write the telemetry line the launch
waits for, so that launch returns before its own watchdog has looked. That one then reads
the record, finds its server and watches on.

What is excepted, and why. `RefusedLaunchLeavesNothing`, `RunningRecordWatched` and
`ViolationStopsServer` except processes in `givenup`: the code records a failed launch
(957) behind a termination that raised (951), a watchdog returns when the identity check
of a running target says no (781), and nothing looks at either again. The message of such a launch, "server terminated" (937),
is then wrong. `StoppedMeansGone`
needs no exception: a `stop` records nothing unless its termination of the server
succeeded. `ViolationStopsServer` excepts the watchdog too: a `stop` whose wait for it
times out ends there, and the watchdog may end later by the signal it was sent.
`SessionsEnd` speaks of sessions that a script holds and `ServersEnd` of a benchmark that
ends by itself, by an exception or by Ctrl-C; a process that is killed closes nothing, and
neither model has that.

## 4. Proofs

`DailyLifecycle_proofs` proves, for every number of shells, pids and processes
and every choice of the switches:

| Theorem | Says |
|---|---|
| `TypeCorrect` | `Spec => []TypeOK` |
| `Invariant` | `Spec => []IInv` |
| `NoStaleKillHolds` | a termination never hits a process that already ran at the identity check |
| `StoppedMeansGoneHolds` | a record that says stopped names no live process |
| `RefusedLaunchHolds` | a launch that records its failure has no server left, unless it was given up on |

They assume only the `ASSUME`s of `DailyLifecycle`: the bounds are naturals, the
switches Boolean, `Ops` a set of commands.

*Argument.* `StoppedMeansGone` alone is not inductive: any process may write back
a copy it read long ago. `IInv` therefore speaks of every copy: `Known` says that
each record, wherever it is held, names births already handed out, and that each
one that says stopped names a dead process; since births are never reused and
the dead stay dead, a copy stays true while it is old, and the next write is
true as well. For `NoStaleKill`, `PidUnique` (live processes have distinct pids)
and `Aims` (a kill that has been checked aims at a target that ran at the check,
and `seen` is the last birth then) say that whoever now has the pid was born
after the check. `Gone` ties the positions after a termination to its target
(`Ended`): dead where `stop` is about to say so, dead or given up on where a launch
records its failure; the set of those given up on only grows (`GivenUpGrows`), so this
stays true. The proof treats the operating system abstractly: a step either shrinks the
set of live processes or adds the next birth (`OsStep`), and lemmas `CommandStep`, `WatchdogStep` carry `IInv` over anything that does one of these and
updates copies from sound ones.

The same module proves, for one shell (`OneShell`), no `api` command and no
crashes, and any number of pids and processes:

| Theorem | Says |
|---|---|
| `RunningRecordWatchedHolds` | `Spec => []RunningRecordWatched` |

These are the conditions of `life_live`, and dropping either of the last two makes the
property false. *Argument.* `Links` follows the pair (server, watchdog) through
every copy of the record and every launch: as long as both run, the watchdog
tends that server, because the pid it was given belongs to no other process
while the server lives (`PidUnique`). `Kinds` says that watchdogs aim at servers, so what a
watchdog terminates is no watchdog. `Work` says that the command under way works
on the server of the record, if that is up and was not given up on (`Up`), and, where a
launch is about to return or a stop has its termination ahead (`Keeping`), knows the same
watchdog. `Guarded` is the property itself, with the recorded watchdog alive for witness,
at the positions where a command has touched nothing (`Resting`), among them the stop
that has checked the watchdog and not yet hit it: its termination may raise, and the stop
then ends with the watchdog there or given up on. A command comes to rest only with the
record and the processes as they were, from rest or having just seen the
watchdog alive (`Rests`); a watchdog leaves only when the record or the server
says so (`WatchdogSpares`). An attempt with the narrower `Watched`
failed at `LaunchConfirm`, which is how the behaviour of section 3 was found.

`SlotStore_proofs` proves, for any shells, prompts, profiles and bounds, from the
assumptions of `SlotStore` (profiles are positive numbers, no prompt is called
absent, torn or none):

| Theorem | Says |
|---|---|
| `TypeCorrect` | `Spec => []TypeOK` |
| `LatestIsWholeHolds` | `Spec => []LatestIsWhole` |
| `SlotIsOwnHolds` | `Spec => []SlotIsOwn` if the profile is not edited under a running server and no server starts under a restore |

*Argument.* Each invariant is built on the one before. `TInv` adds to the types
what a command knows at each position (`Locals`): a manifest has its type only
because a save that reaches `save_manifest` has a mode, a loaded profile and a
hash. `CInv` follows a basename through a save (`SaveAt`): unused before the
server writes it (`NewNames`, `Distinct`), whole after the server said so,
pinned as a pair after the check; `ManifestOk` then holds of every manifest,
not of the latest alone, because a basename is never written again. `OInv` adds
that while a save runs the profile only moves forward, so a file written between
loading and hashing the profile is of that profile if both agree (`Stamp`,
`Pinned`), and that what a restore has checked stays true of the server it
speaks to, if there still is one (`Checked`). Where the two switches are on,
`Checked` fails; `slots_live_edit` is the counterexample for the first.

`StagedBuild_proofs` proves, for any increasing sequence of boundaries and every
choice of the switches:

| Theorem | Says |
|---|---|
| `TypeCorrect` | `Spec => []TypeOK` |
| `OneServerHolds` | `Spec => []OneServer` |
| `StageContinuesHolds` | `Spec => []StageContinues` |
| `LoadableWasRestoredHolds` | `Spec => []LoadableWasRestored` |
| `LoadableWasQuietHolds` | `Spec => []LoadableWasQuiet` |

They assume `BoundsAssumption` (a non-empty increasing sequence of positive
numbers) and `SwitchAssumption`.

*Argument.* Five invariants, each on top of those before. `TInv` adds to the
types which server each position is about. `PInv`: only the present server may be
alive, none is between servers, the port belongs to a living process, and a
monitor runs only within a server's life. `SInv`: exactly the stages behind are
sealed. `CInv` carries the chain: while a stage's server is in use, whatever it
holds on the port (`SlotFrom`), in its file (`FileFrom`) or as sealed (`Links`) is
the stage before up to `Start` and its own work behind it, and the chunks
submitted are at least those restored (`Reached`). The last is what makes the
count check sufficient: an answer that reused all chunks before can only be
about a slot that held them. A foreign request only cuts the slot, and damage
only strikes sealed stages, which `Links` then exempts by name. `RInv`: once the last pair
has been hashed again it is undamaged, since a damaged file differs from its
seal in its last chunk, so what was restored before is what was sealed; and a
result is only written with no violation recorded and no monitor left to record
one.

`PiSession_proofs` proves, for any messages and tokens, any tolerance and replay,
any bounds and every choice of the switches:

| Theorem | Says |
|---|---|
| `TypeCorrect` | `Spec => []TypeOK` |
| `MemoryIsDurableHolds` | between requests an open session is what `session.json` holds |
| `NamedCutMeansSealedHolds` | an inference lost to a named failure seals the session |
| `EvidenceFitsHolds` | raw files are never in the way of a turn |
| `EvidenceGroundedHolds` | a row stands on raw files and on a counted turn |
| `AdjacentRowsReuseHolds` | rows prove the reuse of the earlier prompt, across restarts |
| `ImplementsLog` | `Spec => Refinement`: the durable files behave like `ConversationLog` |

They assume `WindowAssumption` and `BoundsAssumption`; the switches may be anything.

*Argument.* Four layers. `TInv` adds to the types what a request and a row are at
each position. `SInv` says how memory and file may differ: not at all between
requests unless memory is sealed (`InStep`), memory at most one turn ahead on the
way to the except clause and always an extension of the file (`Ahead`), and a
sealed file is what memory holds (`SealedForGood`). `EInv` counts the evidence:
raw files are of counted turns (`Counted`), so the number of the turn just saved
is new (`Newest`). `RInv` carries the cache floor from `prepare` to `commit`
(`FloorKept`) and ties each row to whatever session has its count (`Bears`), so
that a later row's `previous` is the earlier row's `tokens`. `common_prefix` is a
CHOOSE of the longest prefix; `CommonPrefixBound` needs that there is a longest,
which `Maximum` takes from the well-foundedness of strict subsets. For
`ImplementsLog`, every step leaves file and rows alone, or writes to an open file
an extension of it (a commit, a boundary, a seal), or appends the row of the last
counted turn, whose number is above all recorded ones by `Newest`; a seal over a
sealed file is a stutter by `SealedForGood`. The prefix order comes from
`PrefixFacts`.

`BenchmarkLanes_proofs` proves, for any fixtures, answers, repeats and faults,
under `LanesAssumption`:

| Theorem | Says |
|---|---|
| `TypeCorrect` | `Spec => []TypeOK` |
| `PassIsGroundedHolds` | `Spec => []PassIsGrounded` |
| `ParityIsRealHolds` | `Spec => []ParityIsReal` |
| `PassWasQuietHolds` | `Spec => []PassWasQuiet` |
| `TargetFirstHolds` | `Spec => []TargetFirst` |

*Argument.* `TInv` adds to the types what a lane has at each position. `SInv` says whose
server has the port and the slot, and that a lane has rows only behind its start.
`RInv` gives every row an owner (`RowOwned`): its lane's server answered, and from the
pinned pair *if the copy still is that pair*, which is all that can be known inside a
lane. Only the hash behind the lane turns this into a fact about the rows, and
`VInv` carries it to the verdict: a lane recorded as run is grounded and quiet
(`Watched`), and MTP follows only such a target (`Fit`). That a lane whose rows
are all fit has each fixture `Repeats` times is a counting argument over
`Positions` (a bijection with the repeats).

`SlotChain_proofs`, on lemmas about the session in `OwnedSession_proofs`, proves, for
any corpus, any lengths and any number of runs and servers, under
`ChainAssumption` and `SessionAssumption`:

| Theorem | Says |
|---|---|
| `TypeCorrect` | `Spec => []TypeOK` |
| `NoTextTwiceHolds` | `Spec => []NoTextTwice` |
| `PassContinuesHolds` | `Spec => []PassContinues` |
| `BaseIsOwnHolds` | `Spec => []BaseIsOwn` |
| `PassWasRevivedHolds` | `Spec => []PassWasRevived` |
| `PassWasQuietHolds` | `Spec => []PassWasQuiet` |
| `PinnedStaysHolds` | the pair that a passing result pins is not touched by a later run |
| `ProbeResultIsFinal` | `Spec => ProbeResultFinal`, an action property |

*Argument.* The layers are types (`TInv`), order (`WInv`), monitors (`QInv`), texts
(`VInv`) and ownership (`OInv`). `WInv` says which results are written and that a
source is an earlier run that is whole (`Resumes`); `ProbeResultFinal` and the
unchanged pairs of earlier runs come from it. `VInv` knows text only, not who
evaluated it: while a vector is submitted, the slot holds a beginning of it, no
longer than the tokens submitted so far (`Begins`, `at`), because every other client
can only cut the slot or fill it with other text; a count that equals the expected
one then leaves one content (`Saved`, `Holds`). The vector itself is the source's
text and, behind that, pieces below the offset that the next run inherits
(`Within`), which is why no piece comes twice. `OInv` adds the servers: the slot starts as `Own`, the
source's pair with this server's work behind it (`ExtensionOwn`), and what is
behind a passing result stays so (`ResultsOwn`), unless the copy was spoilt.

`StagePlan_proofs` proves, for any conversation, any targets and range that the code
accepts, and any chunk size:

| Theorem | Says |
|---|---|
| `EveryPlanIsSound` | `SoundPlan`: there is a plan exactly where the boundaries allow one, and it ends each stage next to its target |
| `EveryPlanIsCut` | `CompleteCut`: the chunks of all stages submit every token once, and their ends are such as `StagedBuild` assumes |
| `PlanIsSoundHolds` | `Spec => []PlanIsSound`, the first over the inputs of the run |
| `EveryTokenOnceHolds` | `Spec => []EveryTokenOnce`, both over the inputs of the run |

*Argument.* A recursive function is a CHOOSE of a solution of its equation, so a
solution must be shown to exist before anything follows from the equation
(`PickedExists`, `CuttingExists`): build it one step longer, and take the least length at
which that fails (`Least`, from the well-foundedness of the numbers; the induction
theorems of the library take an operator as parameter, which the provers cannot
instantiate). Every other induction is the same
descent. That the loop carries the stage before along does not matter because a
boundary picked for stage `i` at or below the target before would have been picked,
or passed over for a larger one, in stage `i - 1` (`PickedIs`). For the chunks,
`Cuts` says of a sequence that it covers the tokens behind a point without gap or
overlap; one chunk more in front keeps it (`OneMorePiece`). A token is then in one
stage, the first that ends at or behind it, and in one chunk of that.

Only model-checked: the liveness properties, as fairness and ENABLED are beyond
the prover.

## 5. Plan, and what is not modelled

Done: `DailyLifecycle`, `SlotStore`, `PiSession` with `ConversationLog`,
`StagedBuild` with `StagePlan`, `BenchmarkLanes`, `SlotChain` on `OwnedSession`, and
the proofs above: every safety invariant that a run checks is a theorem
(`RunningRecordWatched` under the switches of its run, which it needs). `PinnedStays` is
proved only.

Not modelled:

* `GenerationStore` and `DailySession` (`q3ple_daily_profile.py` 988-1103): only the
  tests construct them, so there is no order of calls to take from the program.
* `q3ple_realistic_ab.py` and `q3ple_80k_filled_context.py`: each owns one server with
  a monitor, in the shape that `OwnedSession` and `BenchmarkLanes` model. What is their
  own is the scoring of answers (a walk over a syntax tree) and sums over
  measured floats.
* `benchmark.py`: a validator that reads files and returns; a model of its rules
  would repeat each line.
* `q3_ple_32_reference.py`: its scale and rounding are float arithmetic. What is left
  is a shift and a mask per code, pinned by the tests' known vectors.
* The agent task, cache-run and MTP A/B scripts, release checks and telemetry
  capture: straight-line scripts around subprocesses, HTTP calls and files, with no
  state of their own to keep correct.
* The llama.cpp patches but for slot save and restore: kernels and loaders of a
  program whose source is not here.

Known weak spots that no property claims, since neither code nor docs promise
more: a server of another profile that is launched between the validation and the
API call of `restore` (`q3ple_daily_profile.py` 1322); a server left without a record
when `_process_identity` raises (949); a slot file cut behind its token header under a
reported success (1257); a gateway that dies during an inference
(`q3ple_pi_adapter.py` 336); a session or thread that cannot be made, whose server
nobody closes (`q3ple_agentic_cache_probe.py` 664); and an extension that says PASS
before its last checkpoint and print, which its own handler may replace by FAILED
when another extension already runs on it (`q3ple_agentic_slot_extend.py` 1383).

One weak spot contradicts a doc string and no run states it: `q3ple_canonical_60k.py`
1528-1529 wants the failure writer to point at the run that failed, but the handlers
(2232, 2236) write the checkpoint before they raise the exception that carries the run's
paths. When that write fails too, a plain exception reaches `main` and the failure is
reported in a second, empty directory (2648), away from the sealed files. `StagedBuild`
has these steps (`Handle`, `Report`, `where = "elsewhere"`).
