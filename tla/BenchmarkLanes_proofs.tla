--------------------------- MODULE BenchmarkLanes_proofs ---------------------------
(* Theorems about BenchmarkLanes, for any fixtures, repeats, scorers, fragile *)
(* pairs and number of faults.                                                *)
EXTENDS BenchmarkLanes, FiniteSetTheorems, FunctionTheorems, TLAPS

-----------------------------------------------------------------------------
(* Counting the positions of a fixture *)

LEMMA Numbers ==
    /\ FixtureCount \in Nat \ {0} /\ Repeats \in Nat \ {0}
    /\ Planned \in Nat \ {0} /\ MaxFaults \in Nat
<1>1. FixtureCount \in Nat \ {0} /\ Repeats \in Nat \ {0} /\ MaxFaults \in Nat
  BY LanesAssumption
<1>2. Repeats * FixtureCount \in Nat /\ Repeats * FixtureCount # 0
  BY <1>1
<1> QED BY <1>1, <1>2 DEF Planned

\* Position k is the fixture's q-th repeat, q counted from zero.
LEMMA Division ==
    ASSUME NEW k \in Nat \ {0}
    PROVE  /\ FixtureOf(k) \in Fixtures
           /\ (k - 1) \div FixtureCount \in Nat
           /\ k = FixtureCount * ((k - 1) \div FixtureCount) + FixtureOf(k)
<1>1. k - 1 \in Nat /\ FixtureCount \in Nat \ {0}
  BY Numbers
<1>2. \A a \in Nat : /\ (a % FixtureCount) \in 0 .. FixtureCount - 1 /\ a \div FixtureCount \in Nat
                     /\ a = FixtureCount * (a \div FixtureCount) + (a % FixtureCount)
  BY <1>1
<1> QED BY <1>1, <1>2 DEF FixtureOf, Fixtures

\* No more than Repeats positions of a lane are a fixture's, and the last
\* fixture has as many only in a lane that has come to its end.
LEMMA Repeated ==
    ASSUME NEW n \in Nat, n <= Planned, NEW f \in Fixtures,
           NEW P, P = {k \in 1 .. n : FixtureOf(k) = f}
    PROVE  /\ IsFiniteSet(P) /\ Cardinality(P) \in Nat /\ Cardinality(P) <= Repeats
           /\ f = FixtureCount /\ Cardinality(P) >= Repeats => n = Planned
<1> DEFINE Q == {k \in 1 .. Planned : FixtureOf(k) = f}
           g == [k \in Q |-> (k - 1) \div FixtureCount]
           T == 0 .. Repeats - 1
<1>1. FixtureCount \in Nat \ {0} /\ Repeats \in Nat \ {0} /\ Planned \in Nat \ {0}
      /\ Planned = Repeats * FixtureCount
  BY Numbers DEF Planned
<1>2. \A k \in Q : /\ k \in Nat \ {0} /\ k <= Planned /\ FixtureOf(k) = f /\ g[k] \in Nat
                   /\ k = FixtureCount * g[k] + f
  BY <1>1, Division
<1>3. \A k \in Q : g[k] \in T
  <2> SUFFICES ASSUME NEW k \in Q PROVE g[k] < Repeats
    BY <1>1, <1>2
  <2>1. f \in 1 .. FixtureCount
    BY DEF Fixtures
  <2>2. \A q \in Nat : q >= Repeats => FixtureCount * q >= Repeats * FixtureCount
    BY <1>1
  <2> QED BY <1>1, <1>2, <2>1, <2>2
<1>4. g \in Injection(Q, T)
  <2>1. g \in [Q -> T]
    BY <1>3
  <2>2. \A a, b \in Q : g[a] = g[b] => a = b
    BY <1>2
  <2> QED BY <2>1, <2>2 DEF Injection, IsInjective
<1>5. IsFiniteSet(T) /\ Cardinality(T) = Repeats
  BY <1>1, FS_Interval
<1>6. IsFiniteSet(Q) /\ Cardinality(Q) <= Repeats /\ Cardinality(Q) \in Nat
  BY <1>4, <1>5, FS_Injection, FS_CardinalityType
<1>7. P \in SUBSET Q
  BY <1>1
<1>8. IsFiniteSet(P) /\ Cardinality(P) <= Cardinality(Q) /\ Cardinality(P) \in Nat
      /\ (Cardinality(Q) = Cardinality(P) => Q = P)
  BY <1>6, <1>7, FS_Subset, FS_CardinalityType
<1>9. ASSUME f = FixtureCount, Cardinality(P) >= Repeats PROVE n = Planned
  <2>1. Planned \in Q
    <3>1. PICK q \in Nat, r \in 1 .. FixtureCount :
             r = FixtureOf(Planned) /\ Repeats * FixtureCount = FixtureCount * q + r
      BY <1>1, Division DEF Fixtures
    <3>2. q <= Repeats - 1
      <4>1. q >= Repeats => FixtureCount * q >= Repeats * FixtureCount
        BY <1>1
      <4> QED BY <1>1, <3>1, <4>1
    <3>3. q >= Repeats - 1
      <4>1. q + 2 <= Repeats => FixtureCount * (q + 2) <= Repeats * FixtureCount
        BY <1>1
      <4>2. FixtureCount * (q + 2) = FixtureCount * q + 2 * FixtureCount
        BY <1>1
      <4> QED BY <1>1, <3>1, <4>1, <4>2
    <3>4. q = Repeats - 1
      BY <1>1, <3>2, <3>3
    <3>5. FixtureCount * (Repeats - 1) = Repeats * FixtureCount - FixtureCount
      BY <1>1
    <3>6. r = FixtureCount
      BY <1>1, <3>1, <3>4, <3>5
    <3> QED BY <1>1, <1>9, <3>1, <3>6
  <2>2. Q = P
    BY <1>1, <1>6, <1>8, <1>9
  <2> QED BY <1>1, <2>1, <2>2
<1> QED BY <1>1, <1>6, <1>8, <1>9

-----------------------------------------------------------------------------
(* Type correctness *)

\* What the script knows at its positions.
Locals ==
    /\ pc \in LaneBody \cup {"load", "copy"} => Len(rows[lane]) < Planned
    /\ lane = "target" => rows["mtp"] = <<>>
    /\ pc \in {"load", "copy"} => lane = "target" /\ copy = NoPair /\ pin = NoPair
    /\ slot # NoPair => port \in Lanes

TInv == TypeOK /\ Locals

RecordType == [status : {"none", "ran", "skipped"}, error : BOOLEAN, unchanged : BOOLEAN,
               free : BOOLEAN, health : {"unseen", "fine", "tight", "violated"}]

ScriptOK ==
    /\ pc \in Points /\ lane \in Lanes /\ leaving \in BOOLEAN
    /\ before \in Pairs \cup {NoPair} /\ error \in BOOLEAN
FilesOK ==
    /\ source \in Pairs /\ copy \in Pairs \cup {NoPair}
    /\ pin \in {NoPair, "sealed", "other"}
RowsOK == rows \in [Lanes -> Seq(Rows)] /\ \A m \in Lanes : Len(rows[m]) <= Planned
VerdictOK ==
    /\ record \in [Lanes -> RecordType]
    /\ result \in Verdicts /\ phase \in {"none", "allocated", "complete"}
ProcsOK ==
    /\ server \in [Lanes -> {"none", "up", "dying", "down"}]
    /\ port \in Lanes \cup {"free", "foreign"} /\ slot \in Pairs \cup {NoPair}
    /\ watched \subseteq Lanes /\ late \subseteq Lanes
    /\ health \in [Lanes -> {"unseen", "fine", "tight", "violated"}]
    /\ faults \in 0 .. MaxFaults

LEMMA TypeParts ==
    /\ TypeOK <=> ScriptOK /\ FilesOK /\ RowsOK /\ VerdictOK /\ ProcsOK
    /\ TypeOK' <=> ScriptOK' /\ FilesOK' /\ RowsOK' /\ VerdictOK' /\ ProcsOK'
BY DEF TypeOK, ScriptOK, FilesOK, RowsOK, VerdictOK, ProcsOK, RecordType

\* A part whose variables stay is kept.
LEMMA PartsKept ==
    /\ UNCHANGED script => (ScriptOK' <=> ScriptOK)
    /\ UNCHANGED files => (FilesOK' <=> FilesOK)
    /\ UNCHANGED rows => (RowsOK' <=> RowsOK)
    /\ UNCHANGED <<record, result, phase>> => (VerdictOK' <=> VerdictOK)
    /\ UNCHANGED procs => (ProcsOK' <=> ProcsOK)
BY DEF script, files, procs, ScriptOK, FilesOK, RowsOK, VerdictOK, ProcsOK

LEMMA TypeInit == Init => TInv
<1> SUFFICES ASSUME Init PROVE TInv
  OBVIOUS
<1>1. rows = [m \in Lanes |-> <<>>]
  BY DEF Init
<1>2. RowsOK
  <2>1. <<>> \in Seq(Rows) /\ Len(<<>>) = 0
    OBVIOUS
  <2> QED BY <1>1, <2>1, Numbers DEF RowsOK
<1>3. ScriptOK /\ FilesOK
  BY DEF Init, ScriptOK, FilesOK, Points, Lanes, Pairs, NoPair
<1>4. VerdictOK
  BY DEF Init, VerdictOK, RecordType, NoRecord, Verdicts
<1>5. ProcsOK
  BY Numbers DEF Init, ProcsOK
<1>6. Locals
  BY <1>1, Numbers DEF Init, Locals, LaneBody, Lanes
<1> QED BY <1>2, <1>3, <1>4, <1>5, <1>6, TypeParts DEF TInv

LEMMA TypeCopy == TInv /\ Copy => TInv'
<1> SUFFICES ASSUME TInv, Copy PROVE TInv'
  OBVIOUS
<1>1. ScriptOK' /\ FilesOK' /\ VerdictOK'
  BY TypeParts DEF TInv, Copy, Goto, Parses, ScriptOK, FilesOK, VerdictOK, Points, LaneBody, Pairs
<1>2. Locals'
  BY Numbers DEF TInv, Locals, Copy, Goto, LaneBody, procs
<1> QED BY <1>1, <1>2, TypeParts, PartsKept DEF TInv, Copy

\* A step of the script that touches neither files nor rows.
LEMMA TypeScript ==
    ASSUME TInv, UNCHANGED <<files, rows>>, ScriptOK', VerdictOK', ProcsOK',
           pc' \in LaneBody \cup {"load", "copy"} =>
               \/ pc \in LaneBody \cup {"load", "copy"} /\ UNCHANGED lane
               \/ lane = "target" /\ lane' = "mtp",
           pc' \in {"load", "copy"} => pc \in {"load", "copy"} /\ UNCHANGED lane,
           lane = "mtp" => lane' = "mtp",
           slot' # NoPair => port' \in Lanes
    PROVE  TInv'
<1>1. lane \in Lanes /\ lane' \in Lanes
  BY TypeParts DEF TInv, ScriptOK
<1>2. 0 < Planned /\ Len(<<>>) = 0
  BY Numbers
<1>3. Locals'
  BY <1>1, <1>2 DEF TInv, Locals, files, Lanes
<1> QED BY <1>3, TypeParts, PartsKept DEF TInv

LEMMA TypeTask == TInv /\ Task => TInv'
<1> SUFFICES ASSUME TInv, Task PROVE TInv'
  OBVIOUS
<1>1. /\ lane \in Lanes /\ pc = "task" /\ Len(rows[lane]) < Planned
      /\ rows \in [Lanes -> Seq(Rows)] /\ \A m \in Lanes : Len(rows[m]) <= Planned
      /\ port \in Lanes \cup {"free", "foreign"} /\ slot \in Pairs \cup {NoPair}
      /\ slot # NoPair => port \in Lanes
  BY TypeParts DEF TInv, Task, Locals, ScriptOK, RowsOK, ProcsOK, LaneBody
<1>2. PICK r \in Outcomes(FixtureOf(Len(rows[lane]) + 1)) : rows' = [rows EXCEPT ![lane] = Append(@, r)]
  BY DEF Task
<1>3. r \in Rows
  <2>1. FixtureOf(Len(rows[lane]) + 1) \in Fixtures
    <3>1. Len(rows[lane]) + 1 \in Nat \ {0}
      BY <1>1
    <3> QED BY <3>1, Division
  <2> HIDE DEF FixtureOf, Fixtures
  <2>2. CASE slot = NoPair
    BY <1>2, <2>2 DEF Outcomes, Rows
  <2>3. CASE slot # NoPair
    BY <1>1, <1>2, <2>1, <2>3 DEF Outcomes, Rows, Drafts, Lanes, Pairs, NoPair
  <2> QED BY <2>2, <2>3
<1>4. rows' \in [Lanes -> Seq(Rows)] /\ Len(rows'[lane]) = Len(rows[lane]) + 1
      /\ Len(rows[lane]) \in Nat /\ Planned \in Nat
      /\ \A m \in Lanes : m # lane => rows'[m] = rows[m]
  BY <1>1, <1>2, <1>3, Numbers
<1>5. RowsOK'
  <2>1. ASSUME NEW m \in Lanes PROVE Len(rows'[m]) <= Planned
    <3>1. CASE m = lane
      <4>1. \A l, p \in Nat : l < p => l + 1 <= p
        OBVIOUS
      <4> QED BY <1>1, <1>4, <3>1, <4>1
    <3>2. CASE m # lane
      BY <1>1, <1>4, <3>2
    <3> QED BY <3>1, <3>2
  <2> QED BY <1>4, <2>1 DEF RowsOK
<1>6. ScriptOK' /\ pc' \in {"close", "restore"} /\ (pc' = "restore" => Len(rows'[lane]) # Planned)
  BY TypeParts DEF TInv, Task, ScriptOK, Points, LaneBody
<1>7. UNCHANGED <<lane, files, record, result, phase, procs>>
  BY DEF Task
<1>8. Locals'
  <2>1. pc' \in LaneBody => Len(rows'[lane]) < Planned
    BY <1>1, <1>4, <1>6 DEF LaneBody
  <2>2. lane = "target" => rows'["mtp"] = <<>>
    BY <1>1, <1>4 DEF TInv, Locals, Lanes
  <2> QED BY <1>6, <1>7, <2>1, <2>2 DEF TInv, Locals, files, procs
<1> QED BY <1>5, <1>6, <1>7, <1>8, TypeParts, PartsKept DEF TInv

\* The rest of the script, one action at a time.
LEMMA TypeBefore ==
    ASSUME TInv, Load \/ GateBefore \/ LaneRaises \/ Judge \/ Seal \/ Raise \/ ReportFailure
                 \/ Ready \/ Finished
    PROVE  TInv'
<1>1. UNCHANGED <<files, rows, procs, lane>>
  BY DEF Load, GateBefore, LaneRaises, Judge, Seal, Raise, ReportFailure, Ready, Finished, Goto,
         evidence, vars, script
<1>2. ScriptOK'
  BY TypeParts DEF TInv, ScriptOK, FilesOK, Load, GateBefore, LaneRaises, Judge, Seal, Raise,
                   ReportFailure, Ready, Finished, Goto, vars, script, Points, LaneBody
<1>3. VerdictOK'
  <2>1. \A grown \in BOOLEAN : Verdict(grown) \in Verdicts
    BY DEF Verdict, Verdicts
  <2> QED BY <2>1, TypeParts DEF TInv, VerdictOK, Load, GateBefore, LaneRaises, Judge, Seal, Raise,
                   ReportFailure, Ready, Finished, Goto, vars, evidence
<1>4. /\ pc' \in LaneBody \cup {"load", "copy"} => pc \in LaneBody \cup {"load", "copy"}
      /\ pc' \in {"load", "copy"} => pc \in {"load", "copy"}
  BY DEF Load, GateBefore, LaneRaises, Judge, Seal, Raise, ReportFailure, Ready, Finished, Goto,
         LaneBody, vars, script
<1>5. ProcsOK' /\ (slot' # NoPair => port' \in Lanes)
  BY <1>1, TypeParts, PartsKept DEF TInv, Locals, procs
<1> QED BY <1>1, <1>2, <1>3, <1>4, <1>5, TypeScript

LEMMA TypeServer ==
    ASSUME TInv, StartServer \/ StartRaises \/ RestoreCopy \/ Interrupt \/ Close \/ CloseRaises
    PROVE  TInv'
<1>1. UNCHANGED <<files, rows, lane>>
  BY DEF StartServer, StartRaises, RestoreCopy, Interrupt, Close, CloseRaises, Goto, evidence
<1>2. ScriptOK'
  BY TypeParts DEF TInv, ScriptOK, StartServer, StartRaises, RestoreCopy, Interrupt, Close,
                   CloseRaises, Goto, Points, LaneBody
<1>3. VerdictOK'
  <2>1. record \in [Lanes -> RecordType] /\ lane \in Lanes
    BY TypeParts DEF TInv, VerdictOK, ScriptOK
  <2>2. record[lane] \in RecordType
    BY <2>1
  <2>3. \A b \in BOOLEAN : [record[lane] EXCEPT !.free = b] \in RecordType
    BY <2>2 DEF RecordType
  <2>4. CASE Close
    <3>1. record' = [record EXCEPT ![lane] = [record[lane] EXCEPT !.free = (port' = "free")]]
      BY <2>1, <2>4 DEF Close
    <3>2. record' \in [Lanes -> RecordType]
      BY <2>1, <2>3, <3>1
    <3> QED BY <2>4, <3>2, TypeParts DEF TInv, VerdictOK, Close
  <2>5. CASE ~Close
    BY <2>5, TypeParts DEF TInv, VerdictOK, StartServer, StartRaises, RestoreCopy,
                           Interrupt, CloseRaises, evidence
  <2> QED BY <2>4, <2>5
<1>4. ProcsOK' /\ (slot' # NoPair => port' \in Lanes)
  <2>1. faults' \in 0 .. MaxFaults
    BY TypeParts, Numbers DEF TInv, ProcsOK, StartServer, StartRaises, RestoreCopy, Interrupt,
                              Close, CloseRaises, Stopped, Fault
  <2>2. lane \in Lanes
    BY TypeParts DEF TInv, ScriptOK
  <2>3. CASE StartServer \/ StartRaises \/ Interrupt \/ CloseRaises
    BY <2>1, <2>2, <2>3, TypeParts DEF TInv, Locals, ProcsOK, StartServer, StartRaises,
                                       Interrupt, CloseRaises
  <2>4. CASE RestoreCopy
    BY <2>1, <2>2, <2>4, TypeParts DEF TInv, Locals, ProcsOK, RestoreCopy, Parses, Pairs
  <2>5. CASE Close
    BY <2>1, <2>2, <2>5, TypeParts DEF TInv, Locals, ProcsOK, Close, Stopped
  <2> QED BY <2>3, <2>4, <2>5
<1>5. /\ pc' \in LaneBody \cup {"load", "copy"} => pc \in LaneBody \cup {"load", "copy"}
      /\ pc' \notin {"load", "copy"}
  BY DEF StartServer, StartRaises, RestoreCopy, Interrupt, Close, CloseRaises, Goto, LaneBody
<1> QED BY <1>1, <1>2, <1>3, <1>4, <1>5, TypeScript

LEMMA TypeDone == TInv /\ (TargetDone \/ MtpDone) => TInv'
<1> SUFFICES ASSUME TInv, TargetDone \/ MtpDone PROVE TInv'
  OBVIOUS
<1>1. UNCHANGED <<files, rows, procs>> /\ pc' \in {"before", "judge"}
      /\ lane' = "mtp" /\ (pc' = "before" => lane = "target")
  BY DEF TargetDone, MtpDone, Goto
<1>2. ScriptOK'
  BY <1>1, TypeParts DEF TInv, ScriptOK, TargetDone, MtpDone, Goto, Points, LaneBody, Lanes
<1>3. VerdictOK'
  <2>1. lane \in Lanes /\ record \in [Lanes -> RecordType] /\ health \in [Lanes -> {"unseen", "fine", "tight", "violated"}]
        /\ error \in BOOLEAN
    BY TypeParts DEF TInv, ScriptOK, VerdictOK, ProcsOK
  <2>2. LaneRecord \in RecordType /\ Skipped \in RecordType
    BY <2>1 DEF LaneRecord, RecordType, Skipped, NoRecord
  <2>3. record' \in [Lanes -> RecordType] /\ UNCHANGED <<result, phase>>
    BY <2>1, <2>2 DEF TargetDone, MtpDone
  <2> QED BY <2>3, TypeParts DEF TInv, VerdictOK
<1>4. ProcsOK' /\ (slot' # NoPair => port' \in Lanes)
  BY <1>1, TypeParts, PartsKept DEF TInv, Locals, procs
<1> QED BY <1>1, <1>2, <1>3, <1>4, TypeScript DEF LaneBody

LEMMA TypeOthers == TInv /\ (Others \/ Damage) => TInv'
<1> SUFFICES ASSUME TInv, Others \/ Damage PROVE TInv'
  OBVIOUS
<1>1. CASE Others
  <2>1. UNCHANGED <<script, files, evidence>>
    BY <1>1 DEF Others
  <2>2. ProcsOK' /\ (slot' # NoPair => port' \in Lanes)
    <3>1. faults' \in 0 .. MaxFaults
      BY <1>1, TypeParts, Numbers DEF TInv, ProcsOK, Others, Bind, Exit, Gone, Sample, Violate,
                                      SampleLost, OtherServer, OtherRequest, Fault
    <3>2. CASE \E m \in Lanes : Bind(m) \/ Exit(m)
      BY <3>1, <3>2, TypeParts DEF TInv, Locals, ProcsOK, Bind, Exit, Gone
    <3>3. CASE \E m \in Lanes : Sample(m) \/ Violate(m) \/ SampleLost(m)
      BY <3>1, <3>3, TypeParts DEF TInv, Locals, ProcsOK, Sample, Violate, SampleLost
    <3>4. CASE OtherServer \/ OtherRequest
      BY <3>1, <3>4, TypeParts DEF TInv, Locals, ProcsOK, OtherServer, OtherRequest
    <3> QED BY <1>1, <3>2, <3>3, <3>4 DEF Others
  <2>3. ScriptOK' /\ VerdictOK'
    BY <2>1, TypeParts, PartsKept DEF TInv, evidence
  <2> QED BY <2>1, <2>2, <2>3, TypeScript DEF script, evidence
<1>2. CASE Damage
  <2>1. FilesOK' /\ ProcsOK'
    BY <1>2, TypeParts, Numbers DEF TInv, FilesOK, ProcsOK, Damage, Fault
  <2>2. UNCHANGED <<script, rows, record, result, phase, port, slot>>
    BY <1>2 DEF Damage, evidence
  <2>3. Locals'
    BY <1>2, <2>2 DEF TInv, Locals, Damage, script
  <2> QED BY <2>1, <2>2, <2>3, TypeParts, PartsKept DEF TInv
<1> QED BY <1>1, <1>2

LEMMA TypeNext == TInv /\ [Next]_vars => TInv'
<1> SUFFICES ASSUME TInv, [Next]_vars PROVE TInv'
  OBVIOUS
<1>1. CASE UNCHANGED vars
  <2>1. UNCHANGED <<script, files, evidence, procs>>
    BY <1>1 DEF vars
  <2> QED BY <2>1, TypeParts, PartsKept DEF TInv, Locals, script, files, evidence, procs
<1> QED BY <1>1, TypeCopy, TypeTask, TypeBefore, TypeServer, TypeDone, TypeOthers
        DEF Next, Script

\* The types of the benchmark's variables, in every reachable state.
THEOREM TypeCorrect == Spec => []TypeOK
<1>1. TInv => TypeOK
  BY DEF TInv
<1> QED BY <1>1, TypeInit, TypeNext, PTL DEF Spec

-----------------------------------------------------------------------------
(* The servers of the two lanes *)

Serving == {"ready", "restore", "task"}

\* Who is on the port runs, and a slot holds nothing but what this lane's own
\* server restored; it is the pinned pair if the copy still is.
PortOwned == \A m \in Lanes : port = m => server[m] \in {"up", "dying"}
SlotOwned == slot # NoPair => port = lane /\ (copy = pin => slot = pin)
\* A lane's server is started once, in the lane, and is gone behind it.
Started ==
    /\ pc \in {"load", "copy", "before", "start"} => server[lane] = "none"
    /\ (pc \in Serving \/ rows[lane] # <<>>) => server[lane] # "none"
    /\ pc \in {"after", "judge"} => server[lane] \in {"none", "down"}
Behind ==
    /\ lane = "target" => /\ server["mtp"] = "none"
                          /\ record["mtp"] = NoRecord /\ "mtp" \notin watched
                          /\ pc # "judge"
    /\ lane = "mtp" => /\ server["target"] \in {"none", "down"}
                       /\ (rows["target"] # <<>> => server["target"] = "down")
\* A skipped lane starts nothing.
SkippedIdle ==
    record["mtp"].status = "skipped" =>
        server["mtp"] = "none" /\ pc \in {"judge", "seal", "fail", "end"}

SInv == TInv /\ PortOwned /\ SlotOwned /\ Started /\ Behind /\ SkippedIdle

LEMMA SessionInit == Init => SInv
<1> SUFFICES ASSUME Init PROVE SInv
  OBVIOUS
<1>1. PortOwned /\ SlotOwned /\ Started /\ Behind /\ SkippedIdle
  BY DEF Init, PortOwned, SlotOwned, Started, Behind, SkippedIdle, Serving, Lanes, NoRecord
<1> QED BY <1>1, TypeInit DEF SInv

\* The steps that only move the script.
Moves ==
    /\ UNCHANGED <<files, rows, record, lane, server, port, slot, watched, late, health>>
    /\ result' = result \/ (pc = "judge" /\ pc' = "seal")
    /\ \/ pc' = pc
       \/ pc = "load" /\ pc' = "copy"
       \/ pc = "before" /\ pc' = "start"
       \/ pc = "ready" /\ pc' = "restore"
       \/ pc \in LaneBody /\ pc' = "close"
       \/ pc = "judge" /\ pc' = "seal"
       \/ pc' \in {"fail", "end"}

LEMMA Kinds ==
    ASSUME [Next]_vars
    PROVE  \/ Moves /\ (UNCHANGED result \/ Judge)
           \/ Copy \/ StartServer \/ StartRaises \/ RestoreCopy \/ Task \/ Close
           \/ CloseRaises \/ TargetDone \/ MtpDone \/ Others \/ Damage
<1>1. UNCHANGED vars \/ Finished => Moves /\ UNCHANGED result
  BY DEF vars, script, files, evidence, procs, Finished, Moves
<1>2. Load \/ GateBefore \/ Ready \/ Seal \/ Raise \/ ReportFailure => Moves /\ UNCHANGED result
  BY DEF Load, GateBefore, Ready, Seal, Raise, ReportFailure, Goto, evidence, procs, Moves, LaneBody
<1>3. LaneRaises \/ Interrupt => Moves /\ UNCHANGED result
  BY DEF LaneRaises, Interrupt, evidence, procs, Moves
<1>4. Judge => Moves
  BY DEF Judge, Goto, procs, Moves
<1> QED BY <1>1, <1>2, <1>3, <1>4 DEF Next, Script

LEMMA SessionMoves ==
    ASSUME SInv, Moves
    PROVE  PortOwned' /\ SlotOwned' /\ Started' /\ Behind' /\ SkippedIdle'
<1>1. PortOwned' /\ SlotOwned'
  BY DEF SInv, Moves, files, PortOwned, SlotOwned
<1>2. Started' /\ Behind' /\ SkippedIdle'
  BY DEF SInv, Moves, Started, Behind, SkippedIdle, Serving, LaneBody
<1> QED BY <1>1, <1>2

\* Copying, starting, restoring and answering.
LEMMA SessionWorks ==
    ASSUME SInv, Copy \/ StartServer \/ StartRaises \/ RestoreCopy \/ Task
    PROVE  PortOwned' /\ SlotOwned' /\ Started' /\ Behind' /\ SkippedIdle'
<1>1. lane \in Lanes /\ server \in [Lanes -> {"none", "up", "dying", "down"}]
      /\ rows \in [Lanes -> Seq(Rows)]
  BY TypeParts DEF SInv, TInv, ScriptOK, ProcsOK, RowsOK
<1>2. UNCHANGED lane /\ (pc = "copy" => lane = "target" /\ server[lane] = "none")
  BY DEF SInv, TInv, Locals, Started, Copy, StartServer, StartRaises, RestoreCopy, Task, Goto
<1>3. PortOwned'
  BY <1>1 DEF SInv, PortOwned, Copy, StartServer, StartRaises, RestoreCopy, Task, procs
<1>4. SlotOwned'
  BY <1>1, <1>2 DEF SInv, SlotOwned, PortOwned, Copy, StartServer, StartRaises, RestoreCopy, Task,
                    files, procs
<1>5. Started'
  BY <1>1, <1>2 DEF SInv, TInv, Locals, Started, Serving, Copy, StartServer, StartRaises,
                    RestoreCopy, Task, Goto, evidence, procs
<1>6. Behind'
  BY <1>1, <1>2 DEF SInv, Behind, Lanes, Copy, StartServer, StartRaises, RestoreCopy, Task,
                    Goto, evidence, procs
<1>7. SkippedIdle'
  BY DEF SInv, SkippedIdle, Copy, StartServer, StartRaises, RestoreCopy, Task, Goto, evidence
<1> QED BY <1>3, <1>4, <1>5, <1>6, <1>7

LEMMA SessionEnds ==
    ASSUME SInv, Close \/ CloseRaises \/ TargetDone \/ MtpDone
    PROVE  PortOwned' /\ SlotOwned' /\ Started' /\ Behind' /\ SkippedIdle'
<1>1. lane \in Lanes /\ server \in [Lanes -> {"none", "up", "dying", "down"}]
      /\ rows \in [Lanes -> Seq(Rows)] /\ record \in [Lanes -> RecordType]
      /\ Lanes = {"target", "mtp"}
  BY TypeParts DEF SInv, TInv, ScriptOK, ProcsOK, RowsOK, VerdictOK, Lanes
<1>2. CASE Close
  <2>1. /\ server' = [server EXCEPT ![lane] = IF @ = "none" THEN @ ELSE "down"]
        /\ port' = (IF port = lane THEN "free" ELSE port)
        /\ slot' = (IF port = lane THEN NoPair ELSE slot)
        /\ pc = "close" /\ pc' \in {"end", "after"}
        /\ UNCHANGED <<lane, files, rows>> /\ watched' \subseteq watched
        /\ record' = [record EXCEPT ![lane].free = (port' = "free")]
    BY <1>2 DEF Close, Stopped, Goto
  <2>2. PortOwned' /\ SlotOwned'
    BY <1>1, <2>1 DEF SInv, PortOwned, SlotOwned, files
  <2>3. Started'
    BY <1>1, <2>1 DEF SInv, Started, Serving
  <2>4. record'["mtp"].status = record["mtp"].status /\ (lane = "target" => record'["mtp"] = record["mtp"])
    BY <1>1, <2>1 DEF RecordType
  <2>5. Behind' /\ SkippedIdle'
    BY <1>1, <2>1, <2>4 DEF SInv, Behind, SkippedIdle
  <2> QED BY <2>2, <2>3, <2>5
<1>3. CASE CloseRaises
  <2>1. /\ server' = [server EXCEPT ![lane] = "dying"] /\ server[lane] \in {"up", "dying"}
        /\ pc = "close" /\ pc' = "fail" /\ watched' \subseteq watched
        /\ UNCHANGED <<lane, files, rows, record, port, slot>>
    BY <1>3 DEF CloseRaises, Goto, evidence
  <2> QED BY <1>1, <2>1 DEF SInv, PortOwned, SlotOwned, Started, Behind, SkippedIdle, Serving, files
<1>4. CASE TargetDone \/ MtpDone
  <2>1. /\ pc = "after" /\ lane' = "mtp" /\ UNCHANGED <<files, rows, procs>>
        /\ lane = "target" => pc' \in {"before", "judge"}
        /\ lane = "mtp" => pc' = "judge"
    BY <1>4 DEF TargetDone, MtpDone, Goto
  <2>2. record'["mtp"].status = "skipped" => lane = "target" /\ pc' = "judge"
    <3>1. LaneRecord.status = "ran"
      BY <1>1 DEF LaneRecord, RecordType
    <3>2. CASE TargetDone
      BY <1>1, <3>2 DEF TargetDone, SInv, Behind, NoRecord
    <3>3. CASE MtpDone
      BY <1>1, <3>1, <3>3 DEF MtpDone
    <3> QED BY <1>4, <3>2, <3>3
  <2>3. slot = NoPair
    BY <1>1, <2>1 DEF SInv, SlotOwned, PortOwned, Started
  <2>4. PortOwned' /\ SlotOwned'
    BY <1>1, <2>1, <2>3 DEF SInv, PortOwned, SlotOwned, files, procs
  <2>5. Started' /\ Behind' /\ SkippedIdle'
    BY <1>1, <2>1, <2>2 DEF SInv, TInv, Locals, Started, Behind, SkippedIdle, Serving, procs
  <2> QED BY <2>4, <2>5
<1> QED BY <1>2, <1>3, <1>4

LEMMA SessionOthers ==
    ASSUME SInv, Others \/ Damage
    PROVE  PortOwned' /\ SlotOwned' /\ Started' /\ Behind' /\ SkippedIdle'
<1>1. lane \in Lanes /\ server \in [Lanes -> {"none", "up", "dying", "down"}]
      /\ Lanes = {"target", "mtp"}
  BY TypeParts DEF SInv, TInv, ScriptOK, ProcsOK, Lanes
<1>2. CASE Damage
  <2>1. UNCHANGED <<script, rows, record, server, port, slot, watched, pin>>
        /\ (copy' = copy \/ copy' # pin')
    BY <1>2 DEF Damage, evidence
  <2> QED BY <2>1 DEF SInv, PortOwned, SlotOwned, Started, Behind, SkippedIdle, script
<1>3. CASE Others
  <2>1. UNCHANGED <<script, files, rows, record>> /\ watched' \subseteq watched
    BY <1>3 DEF Others, evidence, Bind, Exit, Gone, Sample, Violate, SampleLost, OtherServer,
               OtherRequest
  <2>2. /\ \A m \in Lanes : \/ server'[m] = server[m]
                            \/ server[m] \in {"up", "dying"} /\ server'[m] = "dying"
                            \/ server[m] \in {"up", "dying"} /\ server'[m] = "down" /\ port' # m
        /\ \A m \in Lanes : port' = m => port = m \/ server'[m] = "up"
        /\ slot' # NoPair => slot' = slot /\ port' = port
    <3>1. CASE \E m \in Lanes : Bind(m) \/ Exit(m)
      BY <1>1, <3>1 DEF Bind, Exit, Gone
    <3>2. CASE \E m \in Lanes : Sample(m) \/ Violate(m) \/ SampleLost(m)
      BY <1>1, <3>2 DEF Sample, Violate, SampleLost
    <3>3. CASE OtherServer \/ OtherRequest
      BY <1>1, <3>3 DEF OtherServer, OtherRequest
    <3> QED BY <1>3, <3>1, <3>2, <3>3 DEF Others
  <2>3. PortOwned' /\ SlotOwned'
    BY <2>1, <2>2 DEF SInv, PortOwned, SlotOwned, script, files
  <2>4. Started' /\ Behind' /\ SkippedIdle'
    BY <1>1, <2>1, <2>2 DEF SInv, Started, Behind, SkippedIdle, script
  <2> QED BY <2>3, <2>4
<1> QED BY <1>2, <1>3

LEMMA SessionNext == SInv /\ [Next]_vars => SInv'
<1> SUFFICES ASSUME SInv, [Next]_vars PROVE SInv'
  OBVIOUS
<1>1. TInv'
  BY TypeNext DEF SInv
<1> QED BY <1>1, Kinds, SessionMoves, SessionWorks, SessionEnds, SessionOthers DEF SInv

-----------------------------------------------------------------------------
(* The rows *)

\* A row that a gate may accept was answered by its own lane's server, from
\* the pinned pair if the copy still is the pinned one.
RowOwned ==
    \A m \in Lanes : \A k \in DOMAIN rows[m] :
        rows[m][k] # Unfit =>
            /\ rows[m][k].by = m /\ (copy = pin => rows[m][k].from = pin)
            /\ m = "mtp" => rows[m][k].draft # "none"

RInv == SInv /\ RowOwned

LEMMA RowsInit == Init => RInv
<1>1. Init => RowOwned
  BY DEF Init, RowOwned
<1> QED BY <1>1, SessionInit DEF RInv

LEMMA RowsTask == RInv /\ Task => RowOwned'
<1> SUFFICES ASSUME RInv, Task PROVE RowOwned'
  OBVIOUS
<1>1. /\ lane \in Lanes /\ rows \in [Lanes -> Seq(Rows)] /\ port \in Lanes \cup {"free", "foreign"}
      /\ UNCHANGED <<lane, copy, pin>>
      /\ slot # NoPair => port = lane /\ (copy = pin => slot = pin)
  BY TypeParts DEF RInv, SInv, TInv, ScriptOK, RowsOK, ProcsOK, SlotOwned, Task, files
<1>2. PICK r \in Outcomes(FixtureOf(Len(rows[lane]) + 1)) : rows' = [rows EXCEPT ![lane] = Append(@, r)]
  BY DEF Task
<1>3. r # Unfit => /\ r.by = lane /\ (copy = pin => r.from = pin)
                   /\ lane = "mtp" => r.draft # "none"
  <2> SUFFICES ASSUME r # Unfit
               PROVE  r.by = lane /\ (copy = pin => r.from = pin) /\ (lane = "mtp" => r.draft # "none")
    OBVIOUS
  <2>1. slot # NoPair
    BY <1>2 DEF Outcomes
  <2>2. /\ r.from = slot /\ r.by = port /\ (port # "target" => r.draft # "none")
    <3> HIDE DEF FixtureOf
    <3> QED BY <1>2, <2>1 DEF Outcomes
  <2> QED BY <1>1, <2>1, <2>2
<1>4. ASSUME NEW m \in Lanes, NEW k \in DOMAIN rows'[m], rows'[m][k] # Unfit
      PROVE  /\ rows'[m][k].by = m /\ (copy = pin => rows'[m][k].from = pin)
             /\ m = "mtp" => rows'[m][k].draft # "none"
  <2>1. CASE m = lane /\ k = Len(rows[lane]) + 1
    BY <1>1, <1>2, <1>3, <1>4, <2>1
  <2>2. CASE ~(m = lane /\ k = Len(rows[lane]) + 1)
    <3>1. k \in DOMAIN rows[m] /\ rows'[m][k] = rows[m][k]
      BY <1>1, <1>2, <2>2
    <3> QED BY <1>4, <3>1 DEF RInv, RowOwned
  <2> QED BY <2>1, <2>2
<1> QED BY <1>1, <1>4 DEF RowOwned

LEMMA RowsNext == RInv /\ [Next]_vars => RInv'
<1> SUFFICES ASSUME RInv, [Next]_vars PROVE RInv'
  OBVIOUS
<1>1. SInv'
  BY SessionNext DEF RInv
<1>2. CASE Copy
  <2>1. rows["target"] = <<>> /\ rows["mtp"] = <<>> /\ UNCHANGED rows
    BY <1>2 DEF RInv, SInv, TInv, Locals, Started, Copy
  <2> QED BY <1>1, <2>1 DEF RInv, RowOwned, Lanes
<1>3. CASE ~Copy /\ ~Task
  <2>1. UNCHANGED <<rows, pin>> /\ (copy' = copy \/ copy' # pin')
    BY <1>3, Kinds DEF Moves, StartServer, StartRaises, RestoreCopy, Close, CloseRaises, TargetDone,
                       MtpDone, Others, Damage, files, evidence
  <2> QED BY <1>1, <2>1 DEF RInv, RowOwned
<1> QED BY <1>1, <1>2, <1>3, RowsTask DEF RInv

-----------------------------------------------------------------------------
(* The records and the verdict *)

Quiet(m) == health[m] = "fine" \/ m \in late
\* A monitor that runs behind close() is one that close() did not wait for.
Watched ==
    /\ pc \in LaneBody \cup {"load", "copy", "close", "after"} => record[lane].status = "none"
    /\ lane = "mtp" => record["target"].status = "ran"
    /\ pc = "after" => (lane \in watched => lane \in late)
    /\ \A m \in Lanes : record[m].status = "ran" =>
          /\ m \in watched => m \in late
          /\ record[m].health = "fine" => Quiet(m)
\* The MTP lane, and what follows it, stand on a target lane that is fit.
Fit == lane = "mtp" /\ record["mtp"].status # "skipped" => Grounded("target") /\ Quiet("target")
Judged ==
    /\ pc = "judge" => record["mtp"].status \in {"ran", "skipped"}
    /\ result # "none" => pc \in Over
VInv == /\ RInv /\ Watched /\ Fit /\ Judged /\ PassIsGrounded /\ ParityIsReal /\ PassWasQuiet

LEMMA GroundedKept ==
    ASSUME NEW m \in Lanes, UNCHANGED pin, rows'[m] = rows[m]
    PROVE  Grounded(m)' <=> Grounded(m)
BY DEF Grounded, Positions, Measured

\* What enough rows of a fixture, stable and valid, show of it.
LEMMA Checked ==
    ASSUME RInv, copy = pin, NEW m \in Lanes, NEW f \in Fixtures,
           Cardinality(Positions(m, f)) >= Repeats, Stable(m, f), Valid(m, f)
    PROVE  /\ Cardinality(Positions(m, f)) = Repeats
           /\ \A r, s \in Measured(m, f) : r.answer = s.answer /\ r.by = m /\ r.from = pin
           /\ f = FixtureCount => Len(rows[m]) = Planned
<1>1. Len(rows[m]) \in Nat /\ Len(rows[m]) <= Planned /\ DOMAIN rows[m] = 1 .. Len(rows[m])
  BY TypeParts DEF RInv, SInv, TInv, RowsOK
<1>2. Positions(m, f) = {k \in 1 .. Len(rows[m]) : FixtureOf(k) = f}
  BY <1>1 DEF Positions
<1>3. Cardinality(Positions(m, f)) \in Nat /\ Cardinality(Positions(m, f)) <= Repeats
      /\ (f = FixtureCount /\ Cardinality(Positions(m, f)) >= Repeats => Len(rows[m]) = Planned)
  BY <1>1, <1>2, Repeated
<1>4. ASSUME NEW r \in Measured(m, f) PROVE r.by = m /\ r.from = pin
  <2>1. PICK k \in DOMAIN rows[m] : r = rows[m][k]
    BY DEF Measured, Positions
  <2>2. r # Unfit
    BY DEF Valid
  <2> QED BY <2>1, <2>2 DEF RInv, RowOwned
<1> QED BY <1>3, <1>4, Numbers DEF Stable

\* Nothing happens any more that a verdict rests on.
LEMMA VerdictKept ==
    ASSUME VInv, UNCHANGED <<rows, pin, result>>,
           \A m \in Lanes : result # "none" /\ Quiet(m) => Quiet(m)'
    PROVE  PassIsGrounded' /\ ParityIsReal' /\ PassWasQuiet'
<1>1. \A m \in Lanes : Grounded(m)' <=> Grounded(m)
  BY GroundedKept
<1>2. PassIsGrounded' /\ PassWasQuiet'
  BY <1>1 DEF VInv, PassIsGrounded, PassWasQuiet, Quiet, Lanes, Passes
<1>3. ParityIsReal'
  BY <1>1 DEF VInv, ParityIsReal, Lanes, Measured, Positions
<1> QED BY <1>2, <1>3

LEMMA VerdictInit == Init => VInv
<1> SUFFICES ASSUME Init PROVE VInv
  OBVIOUS
<1>1. Watched /\ Fit /\ Judged /\ PassIsGrounded /\ ParityIsReal /\ PassWasQuiet
  BY DEF Init, Watched, Fit, Judged, PassIsGrounded, ParityIsReal, PassWasQuiet, Lanes, NoRecord,
         Passes, LaneBody
<1> QED BY <1>1, RowsInit DEF VInv

\* While nothing is recorded and no verdict is due.
LEMMA VerdictGoesOn ==
    ASSUME VInv, UNCHANGED <<pin, result, health, record, lane, late>>,
           lane = "target" \/ rows'["target"] = rows["target"],
           pc' \in LaneBody \cup {"load", "copy", "close"} => pc \in LaneBody \cup {"load", "copy", "close"},
           pc' \notin {"after", "judge"}, result = "none",
           \/ watched' \subseteq watched
           \/ pc = "start" /\ watched' \subseteq watched \cup {lane}
    PROVE  /\ Watched' /\ Fit' /\ Judged'
           /\ PassIsGrounded' /\ ParityIsReal' /\ PassWasQuiet'
<1>1. Watched'
  BY DEF VInv, Watched, Quiet, LaneBody
<1>2. Fit'
  BY GroundedKept DEF VInv, Fit, Quiet, Lanes
<1>3. Judged' /\ PassIsGrounded' /\ ParityIsReal' /\ PassWasQuiet'
  BY DEF VInv, Judged, PassIsGrounded, ParityIsReal, PassWasQuiet, Passes
<1> QED BY <1>1, <1>2, <1>3

LEMMA VerdictWorks ==
    ASSUME VInv, Copy \/ StartServer \/ StartRaises \/ RestoreCopy \/ Task \/ CloseRaises
    PROVE  /\ Watched' /\ Fit' /\ Judged'
           /\ PassIsGrounded' /\ ParityIsReal' /\ PassWasQuiet'
<1>1. result = "none"
  BY DEF VInv, Judged, Over, Copy, StartServer, StartRaises, RestoreCopy, Task, CloseRaises
<1>2. CASE Copy
  <2>1. lane = "target" /\ UNCHANGED <<rows, result, record, lane, procs>> /\ pc = "copy" /\ pc' = "before"
    BY <1>2 DEF VInv, RInv, SInv, TInv, Locals, Copy, Goto
  <2> QED BY <1>1, <2>1 DEF VInv, Watched, Fit, Judged, PassIsGrounded, ParityIsReal, PassWasQuiet,
                            Passes, Quiet, procs, LaneBody
<1>3. CASE StartServer \/ StartRaises \/ RestoreCopy \/ Task \/ CloseRaises
  <2>1. UNCHANGED <<pin, result, health, record, lane, late>>
        /\ (watched' \subseteq watched \/ (pc = "start" /\ watched' \subseteq watched \cup {lane}))
    BY <1>3 DEF StartServer, StartRaises, RestoreCopy, Task, CloseRaises, Goto, files, evidence, procs
  <2>2. lane = "target" \/ rows'["target"] = rows["target"]
    <3>1. lane \in Lanes /\ rows \in [Lanes -> Seq(Rows)]
      BY TypeParts DEF VInv, RInv, SInv, TInv, ScriptOK, RowsOK
    <3> QED BY <1>3, <3>1 DEF StartServer, StartRaises, RestoreCopy, Task, CloseRaises, evidence, Lanes
  <2>3. pc \in LaneBody \cup {"close"} /\ pc' \notin {"after", "judge"}
    BY <1>3 DEF StartServer, StartRaises, RestoreCopy, Task, CloseRaises, Goto, LaneBody
  <2> QED BY <1>1, <2>1, <2>2, <2>3, VerdictGoesOn
<1> QED BY <1>2, <1>3

LEMMA VerdictClose ==
    ASSUME VInv, Close
    PROVE  /\ Watched' /\ Fit' /\ Judged'
           /\ PassIsGrounded' /\ ParityIsReal' /\ PassWasQuiet'
<1>1. /\ lane \in Lanes /\ record \in [Lanes -> RecordType] /\ Lanes = {"target", "mtp"}
      /\ result = "none" /\ record[lane].status = "none"
  BY TypeParts DEF VInv, RInv, SInv, TInv, ScriptOK, VerdictOK, Judged, Watched, Over, Close, Lanes
<1>2. /\ UNCHANGED <<pin, rows, result, health, lane>> /\ pc' \in {"end", "after"}
      /\ watched' \subseteq watched /\ late \subseteq late'
      /\ lane \in watched' => lane \in late'
      /\ record' = [record EXCEPT ![lane].free = (port' = "free")]
  BY DEF Close, Goto, files
<1>3. \A m \in Lanes : record'[m].status = record[m].status /\ record'[m].health = record[m].health
  BY <1>1, <1>2 DEF RecordType
<1>4. Watched'
  BY <1>1, <1>2, <1>3 DEF VInv, Watched, Quiet, LaneBody
<1>5. Fit'
  BY <1>1, <1>2, <1>3, GroundedKept DEF VInv, Fit, Quiet
<1>6. Judged' /\ PassIsGrounded' /\ ParityIsReal' /\ PassWasQuiet'
  BY <1>1, <1>2 DEF VInv, Judged, PassIsGrounded, ParityIsReal, PassWasQuiet, Passes
<1> QED BY <1>4, <1>5, <1>6

LEMMA VerdictDone ==
    ASSUME VInv, TargetDone \/ MtpDone
    PROVE  /\ Watched' /\ Fit' /\ Judged'
           /\ PassIsGrounded' /\ ParityIsReal' /\ PassWasQuiet'
<1>1. /\ lane \in Lanes /\ record \in [Lanes -> RecordType] /\ Lanes = {"target", "mtp"}
      /\ result = "none" /\ pc = "after" /\ record[lane].status = "none"
      /\ lane \in watched => lane \in late
  BY TypeParts DEF VInv, RInv, SInv, TInv, ScriptOK, VerdictOK, Judged, Watched, Over, TargetDone, MtpDone, Lanes
<1>2. /\ UNCHANGED <<files, rows, result, procs>> /\ lane' = "mtp" /\ pc' \in {"before", "judge"}
  BY DEF TargetDone, MtpDone, Goto
<1>3. /\ LaneRecord.status = "ran" /\ LaneRecord.health = health[lane]
      /\ (LaneRecord.unchanged => copy = pin)
  BY <1>1 DEF LaneRecord, RecordType
<1>4. record'[lane] = LaneRecord
  BY <1>1 DEF TargetDone, MtpDone
<1>5. Judged' /\ PassIsGrounded' /\ ParityIsReal' /\ PassWasQuiet'
  <2>1. pc' = "judge" => record'["mtp"].status \in {"ran", "skipped"}
    BY <1>1, <1>3 DEF TargetDone, MtpDone, Skipped, NoRecord
  <2> QED BY <1>1, <1>2, <2>1 DEF VInv, Judged, PassIsGrounded, ParityIsReal, PassWasQuiet, Passes
<1>6. CASE TargetDone
  <2>1. /\ record'["target"] = LaneRecord /\ lane = "target"
        /\ \/ TargetReady /\ pc' = "before" /\ record'["mtp"] = record["mtp"]
           \/ pc' = "judge" /\ record'["mtp"] = Skipped
    BY <1>1, <1>6 DEF TargetDone
  <2>2. record["mtp"] = NoRecord /\ Skipped.status = "skipped"
    BY <2>1 DEF VInv, RInv, SInv, Behind, Skipped, NoRecord
  <2>3. Watched'
    BY <1>1, <1>2, <1>3, <2>1, <2>2 DEF VInv, Watched, Quiet, LaneBody, NoRecord, procs
  <2>4. ASSUME TargetReady PROVE Grounded("target") /\ Quiet("target")
    <3>1. copy = pin /\ health["target"] = "fine" /\ \A f \in Fixtures : TargetCheck(f)
      BY <1>3, <2>1, <2>4 DEF TargetReady
    <3> QED BY <1>1, <3>1, Checked DEF VInv, TargetCheck, Grounded, Quiet
  <2>5. Fit'
    BY <1>1, <1>2, <2>1, <2>2, <2>4, GroundedKept DEF Fit, Quiet, files, procs
  <2> QED BY <1>5, <2>3, <2>5
<1>7. CASE MtpDone
  <2>1. /\ record' = [record EXCEPT !["mtp"] = LaneRecord] /\ lane = "mtp" /\ pc' = "judge"
    BY <1>7 DEF MtpDone, Goto
  <2>2. Watched'
    BY <1>1, <1>2, <1>3, <2>1 DEF VInv, Watched, Quiet, LaneBody, procs
  <2>3. Fit'
    BY <1>1, <1>2, <2>1, GroundedKept DEF VInv, Fit, Quiet, files, procs
  <2> QED BY <1>5, <2>2, <2>3
<1> QED BY <1>6, <1>7

LEMMA VerdictOthers ==
    ASSUME VInv, Others \/ Damage
    PROVE  /\ Watched' /\ Fit' /\ Judged'
           /\ PassIsGrounded' /\ ParityIsReal' /\ PassWasQuiet'
<1>1. /\ UNCHANGED <<script, rows, record, result, pin, late>> /\ watched' \subseteq watched
      /\ \A m \in Lanes : health'[m] = health[m] \/ (m \in watched /\ pc \notin Over)
  <2>1. CASE Damage
    BY <2>1 DEF Damage, evidence
  <2>2. CASE Others
    <3>1. health \in [Lanes -> {"unseen", "fine", "tight", "violated"}]
      BY TypeParts DEF VInv, RInv, SInv, TInv, ProcsOK
    <3> QED BY <2>2, <3>1 DEF Others, files, evidence, Bind, Exit, Gone, Sample, Violate, SampleLost,
                              OtherServer, OtherRequest
  <2> QED BY <2>1, <2>2
<1>2. Watched' /\ Judged'
  BY <1>1 DEF VInv, Watched, Judged, Quiet, script
<1>3. \A m \in Lanes : record[m].status = "ran" \/ pc \in Over => (Quiet(m) => Quiet(m)')
  BY <1>1 DEF VInv, Watched, Quiet
<1>4. Fit'
  BY <1>1, <1>3, GroundedKept DEF VInv, Watched, Fit, script, Lanes
<1>5. result # "none" => pc \in Over
  BY DEF VInv, Judged
<1> QED BY <1>1, <1>2, <1>3, <1>4, <1>5, VerdictKept

LEMMA VerdictMoves ==
    ASSUME VInv, Moves, UNCHANGED result
    PROVE  /\ Watched' /\ Fit' /\ Judged'
           /\ PassIsGrounded' /\ ParityIsReal' /\ PassWasQuiet'
<1>1. UNCHANGED <<rows, pin, health, record, lane, late, watched>>
  BY DEF Moves, files
<1>2. Watched'
  BY <1>1 DEF VInv, Moves, Watched, Quiet, LaneBody
<1>3. Fit'
  BY <1>1, GroundedKept DEF VInv, Fit, Quiet, Lanes
<1>4. Judged'
  BY <1>1 DEF VInv, Moves, Judged, Over, LaneBody
<1> QED BY <1>1, <1>2, <1>3, <1>4, VerdictKept DEF Quiet

\* The verdict is drawn.
LEMMA VerdictJudge ==
    ASSUME VInv, Judge
    PROVE  /\ Watched' /\ Fit' /\ Judged'
           /\ PassIsGrounded' /\ ParityIsReal' /\ PassWasQuiet'
<1>1. /\ pc = "judge" /\ lane = "mtp" /\ Lanes = {"target", "mtp"}
      /\ record["mtp"].status \in {"ran", "skipped"} /\ record["target"].status = "ran"
      /\ UNCHANGED <<files, rows, record, lane, procs>> /\ pc' = "seal"
  <2>1. lane \in Lanes
    BY TypeParts DEF VInv, RInv, SInv, TInv, ScriptOK
  <2> QED BY <2>1 DEF VInv, RInv, SInv, Behind, Judged, Watched, Judge, Goto, Lanes
<1>2. PICK grown \in BOOLEAN : result' = Verdict(grown)
  BY DEF Judge
<1>3. Watched' /\ Judged'
  BY <1>1 DEF VInv, Watched, Judged, Quiet, procs, Over, LaneBody
<1>4. Fit'
  BY <1>1, GroundedKept DEF VInv, Fit, Quiet, files, procs
<1>5. result' \in Passes => record["mtp"].status = "ran" /\ copy = pin
  BY <1>1, <1>2 DEF Verdict, Passes
<1>6. result' \in Passes => Grounded("target") /\ Quiet("target")
  BY <1>1, <1>5 DEF VInv, Fit
<1>7. ASSUME result' = "PASS_EXACT_PARITY"
      PROVE  /\ record["mtp"].status = "ran" /\ copy = pin /\ record["mtp"].health = "fine"
             /\ \A f \in Fixtures : Promotable(f)
  BY <1>1, <1>2, <1>7 DEF Verdict, Resources
<1>8. ASSUME result' = "PASS_EXACT_PARITY"
      PROVE  /\ Grounded("mtp") /\ Quiet("mtp")
             /\ \A k \in 1 .. Planned : /\ rows["mtp"][k].answer = rows["target"][k].answer
                                        /\ rows["mtp"][k].draft # "none"
             /\ \A f \in Wanting : \E r \in Measured("mtp", f) : r.draft = "rejected"
  <2>1. /\ Grounded("mtp")
        /\ \A f \in Fixtures : f = FixtureCount => Len(rows["mtp"]) = Planned
    BY <1>1, <1>7, <1>8, Checked DEF VInv, Promotable, Grounded
  <2>2. FixtureCount \in Fixtures /\ Wanting \subseteq Fixtures
    BY LanesAssumption DEF Fixtures
  <2>3. DOMAIN rows["mtp"] = 1 .. Planned
    BY <1>1, <2>1, <2>2, TypeParts DEF VInv, RInv, SInv, TInv, RowsOK
  <2>4. ASSUME NEW k \in 1 .. Planned
        PROVE  /\ rows["mtp"][k].answer = rows["target"][k].answer
               /\ rows["mtp"][k].draft # "none"
    <3>1. FixtureOf(k) \in Fixtures
      BY Numbers, Division
    <3>2. k \in Positions("mtp", FixtureOf(k))
      BY <2>3 DEF Positions
    <3>3. ComparePair(k)
      BY <1>7, <1>8, <3>1, <3>2 DEF Promotable
    <3>4. rows["mtp"][k] # Unfit
      BY <3>3 DEF ComparePair
    <3> QED BY <1>1, <2>3, <3>3, <3>4 DEF ComparePair, VInv, RInv, RowOwned
  <2>5. \A f \in Wanting : \E r \in Measured("mtp", f) : r.draft = "rejected"
    BY <1>7, <1>8, <2>2 DEF Promotable
  <2>6. Quiet("mtp")
    BY <1>1, <1>7, <1>8 DEF VInv, Watched
  <2> QED BY <2>1, <2>4, <2>5, <2>6
<1>9. \A m \in Lanes : (Grounded(m)' <=> Grounded(m)) /\ (Quiet(m)' <=> Quiet(m))
  BY <1>1, GroundedKept DEF files, procs, Quiet
<1>10. PassIsGrounded' /\ PassWasQuiet'
  BY <1>1, <1>6, <1>8, <1>9 DEF PassIsGrounded, PassWasQuiet, Quiet
<1>11. ParityIsReal'
  <2>1. result' = "PASS_EXACT_PARITY" => result' \in Passes
    BY DEF Passes
  <2> QED BY <1>1, <1>6, <1>8, <1>9, <2>1 DEF ParityIsReal, Measured, Positions
<1> QED BY <1>3, <1>4, <1>10, <1>11

LEMMA VerdictNext == VInv /\ [Next]_vars => VInv'
<1> SUFFICES ASSUME VInv, [Next]_vars PROVE VInv'
  OBVIOUS
<1>1. RInv'
  BY RowsNext DEF VInv
<1> QED BY <1>1, Kinds, VerdictMoves, VerdictJudge, VerdictWorks, VerdictClose, VerdictDone,
           VerdictOthers DEF VInv

LEMMA VerdictInvariant == Spec => []VInv
BY VerdictInit, VerdictNext, PTL DEF Spec

\* A verdict that passes stands on target rows that the target's own server
\* gave, all of them, from the pinned pair, with one answer per fixture.
THEOREM PassIsGroundedHolds == Spec => []PassIsGrounded
<1>1. VInv => PassIsGrounded
  BY DEF VInv
<1> QED BY <1>1, VerdictInvariant, PTL

\* Exact parity means the same answer at every position of two grounded lanes,
\* with drafts in every row of the MTP lane.
THEOREM ParityIsRealHolds == Spec => []ParityIsReal
<1>1. VInv => ParityIsReal
  BY DEF VInv
<1> QED BY <1>1, VerdictInvariant, PTL

\* The lanes that a passing verdict rests on had no violation that close()
\* could have waited for.
THEOREM PassWasQuietHolds == Spec => []PassWasQuiet
<1>1. VInv => PassWasQuiet
  BY DEF VInv
<1> QED BY <1>1, VerdictInvariant, PTL

\* No MTP server starts before the target's is gone and has shown every
\* fixture fit.
THEOREM TargetFirstHolds == Spec => []TargetFirst
<1>1. VInv => TargetFirst
  <2> SUFFICES ASSUME VInv, server["mtp"] # "none"
               PROVE  server["target"] = "down" /\ Grounded("target")
    BY DEF TargetFirst
  <2>1. lane = "mtp" /\ record["mtp"].status # "skipped"
    BY TypeParts DEF VInv, RInv, SInv, TInv, ScriptOK, Behind, SkippedIdle, Lanes
  <2>2. Grounded("target")
    BY <2>1 DEF VInv, Fit
  <2>3. rows["target"] # <<>>
    <3>1. 1 \in Fixtures /\ Repeats > 0
      BY Numbers DEF Fixtures
    <3>2. Cardinality(Positions("target", 1)) > 0
      BY <2>2, <3>1 DEF Grounded
    <3>3. Positions("target", 1) # {}
      BY <3>2, FS_EmptySet
    <3> QED BY <3>3 DEF Positions
  <2> QED BY <2>1, <2>2, <2>3 DEF VInv, RInv, SInv, Behind
<1> QED BY <1>1, VerdictInvariant, PTL
=============================================================================
