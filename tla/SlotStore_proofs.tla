--------------------------- MODULE SlotStore_proofs ---------------------------
(* Theorems about SlotStore, for any shells, prompts, profiles and bounds. *)
EXTENDS SlotStore, TLAPS

-----------------------------------------------------------------------------
(* Type correctness *)

\* What a command knows at each of its positions.
Locals ==
    \A c \in Shell :
        /\ pc[c] \in SavePc =>
              lmode[c] \in Modes /\ lprofile[c] \in Profile /\ name[c] \in 1..last
        /\ pc[c] \in {"save_manifest", "save_point"} => pins[c].hash \in Profile
        /\ pc[c] \in RestorePc => lmode[c] \in Modes /\ name[c] \in Names

\* A server that runs has a slot.
Up == mode # "none" => running \in Profile /\ slot \in State

TInv == TypeOK /\ Locals /\ Up

LEMMA Data ==
    /\ Absent \in File /\ Torn \in File /\ NoPins \in Pins
    /\ \A p \in Prompts, f \in Profile \cup {NoProfile} : [prompt |-> p, profile |-> f] \in File
    /\ \A f \in File : Broken(f) \subseteq File
    /\ \A s \in State : /\ s.prompt \in Prompts /\ s.profile \in Profile
                        /\ s.draft \in Profile \cup {NoProfile}
                        /\ \A p \in Prompts : [s EXCEPT !.prompt = p] \in State
    /\ \A p \in Prompts, f \in Profile, d \in Profile \cup {NoProfile} :
          [prompt |-> p, profile |-> f, draft |-> d] \in State
<1>1. Absent \in File /\ Torn \in File
  BY DEF File
<1>2. NoPins \in Pins
  BY <1>1 DEF NoPins, Pins
<1>3. \A p \in Prompts, f \in Profile \cup {NoProfile} : [prompt |-> p, profile |-> f] \in File
  BY DEF File
<1>4. \A f \in File : Broken(f) \subseteq File
  BY <1>1, <1>3 DEF Broken, Readable, Cut
<1>5. \A s \in State : /\ s.prompt \in Prompts /\ s.profile \in Profile
                       /\ s.draft \in Profile \cup {NoProfile}
                       /\ \A p \in Prompts : [s EXCEPT !.prompt = p] \in State
  BY DEF State
<1>6. \A p \in Prompts, f \in Profile, d \in Profile \cup {NoProfile} :
          [prompt |-> p, profile |-> f, draft |-> d] \in State
  BY DEF State
<1> QED BY <1>1, <1>2, <1>3, <1>4, <1>5, <1>6

LEMMA Numbers ==
    /\ Names \subseteq Nat /\ NoName = 0 /\ NoName \notin Names
    /\ \A n \in 0..MaxSaves : 1..n \subseteq Names /\ n \in Nat
                              /\ (n < MaxSaves => n + 1 \in 0..MaxSaves /\ n + 1 \in 1..(n + 1)
                                                  /\ n + 1 \in Names)
    /\ \A n \in Nat : 1..n \subseteq 1..(n + 1)
BY BoundAssumption DEF Names, NoName

LEMMA PcFacts ==
    /\ {"idle", "save_api", "save_check", "save_manifest", "save_point",
        "restore_check", "restore_api"} \subseteq PcSet
    /\ "idle" \notin SavePc /\ "idle" \notin RestorePc
    /\ SavePc \cap RestorePc = {}
    /\ {"save_api", "save_check", "save_manifest", "save_point"} = SavePc
    /\ {"restore_check", "restore_api"} = RestorePc
    /\ {"save_manifest", "save_point"} \subseteq SavePc
BY DEF PcSet, SavePc, RestorePc

LEMMA ModeFacts == "none" \notin Modes /\ "mtp" \in Modes /\ "target" \in Modes
BY DEF Modes

LEMMA TypeInit == Init => TInv
<1> SUFFICES ASSUME Init PROVE TInv
  OBVIOUS
<1>1. ServerType
  BY DEF Init, ServerType
<1>2. StoreType
  BY Data, Numbers, BoundAssumption DEF Init, StoreType
<1>3. ShellType
  BY Data, PcFacts DEF Init, ShellType
<1>4. Locals /\ Up
  BY PcFacts DEF Init, Locals, Up
<1> QED BY <1>1, <1>2, <1>3, <1>4 DEF TInv, TypeOK

LEMMA FinishType ==
    ASSUME TInv, NEW c \in Shell, Finish(c), last' = last
    PROVE  ShellType' /\ Locals'
<1>1. ShellType'
  BY Data, PcFacts DEF TInv, TypeOK, ShellType, Finish, Goto
<1>2. \A d \in Shell \ {c} : /\ pc'[d] = pc[d] /\ lmode'[d] = lmode[d] /\ name'[d] = name[d]
                             /\ lprofile'[d] = lprofile[d] /\ pins'[d] = pins[d]
  BY DEF TInv, TypeOK, ShellType, Finish, Goto
<1>3. pc'[c] = "idle"
  BY DEF TInv, TypeOK, ShellType, Finish, Goto
<1>4. Locals'
  BY <1>2, <1>3, PcFacts DEF TInv, Locals
<1> QED BY <1>1, <1>4

\* A command goes on and keeps its locals.
LEMMA GotoType ==
    ASSUME TInv, NEW c \in Shell, NEW to \in PcSet, Goto(c, to), UNCHANGED <<locals, last>>,
           to \in SavePc => pc[c] \in SavePc,
           to \in {"save_manifest", "save_point"} => pc[c] \in {"save_manifest", "save_point"},
           to \in RestorePc => pc[c] \in RestorePc
    PROVE  ShellType' /\ Locals'
<1>1. ShellType'
  BY DEF TInv, TypeOK, ShellType, Goto, locals
<1>2. \A d \in Shell \ {c} : pc'[d] = pc[d]
  BY DEF TInv, TypeOK, ShellType, Goto
<1>3. pc'[c] = to
  BY DEF TInv, TypeOK, ShellType, Goto
<1>4. Locals'
  BY <1>2, <1>3 DEF TInv, Locals, locals
<1> QED BY <1>1, <1>4

LEMMA ShellUnchanged ==
    ASSUME TInv, UNCHANGED <<pc, locals, last>> PROVE ShellType' /\ Locals'
BY DEF TInv, TypeOK, ShellType, Locals, locals

LEMMA ServerUnchanged ==
    ASSUME TInv, UNCHANGED <<profile, srvVars>> PROVE ServerType' /\ Up'
BY DEF TInv, TypeOK, ServerType, Up, srvVars

LEMMA StoreUnchanged ==
    ASSUME TInv, UNCHANGED <<files, store, last, damage>> PROVE StoreType'
BY DEF TInv, TypeOK, StoreType, files, store

LEMMA TypeStep == TInv /\ [Next]_vars => TInv'
<1> SUFFICES ASSUME TInv, [Next]_vars PROVE TInv'
  OBVIOUS
<1> USE DEF TInv, TypeOK
<1>1. ASSUME NEW m \in Modes, Launch(m) PROVE TInv'
  <2>1. Fresh(m) \in State
    BY Data DEF Fresh, ServerType, Prompts
  <2>2. ServerType' /\ Up'
    BY <1>1, <2>1, ModeFacts DEF Launch, ServerType, Up
  <2> QED BY <1>1, <2>2, ShellUnchanged, StoreUnchanged DEF Launch
<1>2. CASE Exit
  <2>1. ServerType' /\ Up'
    BY <1>2 DEF Exit, ServerType, Up
  <2> QED BY <1>2, <2>1, ShellUnchanged, StoreUnchanged DEF Exit
<1>3. ASSUME NEW p \in Prompt, Infer(p) PROVE TInv'
  <2>1. ServerType' /\ Up'
    BY <1>3, Data DEF Infer, ServerType, Up, Prompts
  <2> QED BY <1>3, <2>1, ShellUnchanged, StoreUnchanged DEF Infer
<1>4. ASSUME NEW p \in Profile, EditProfile(p) PROVE TInv'
  <2>1. ServerType' /\ Up'
    BY <1>4 DEF EditProfile, ServerType, Up, srvVars
  <2> QED BY <1>4, <2>1, ShellUnchanged, StoreUnchanged DEF EditProfile
<1>5. ASSUME NEW n \in Names, Damage(n) PROVE TInv'
  <2>1. target' \in [Names -> File] /\ draft' \in [Names -> File]
    BY <1>5, Data DEF Damage, StoreType
  <2>2. StoreType'
    BY <1>5, <2>1, BoundAssumption DEF Damage, StoreType, store
  <2> QED BY <1>5, <2>2, ShellUnchanged, ServerUnchanged DEF Damage
<1>6. ASSUME NEW c \in Shell, Abandon(c) PROVE TInv'
  BY <1>6, FinishType, ServerUnchanged, StoreUnchanged DEF Abandon
<1>7. ASSUME NEW c \in Shell, SaveBegin(c) PROVE TInv'
  <2>1. last \in 0..MaxSaves /\ last' \in 0..MaxSaves /\ last' = last + 1 /\ last \in Nat
        /\ last' \in Names /\ last' \in 1..last' /\ 1..last \subseteq 1..last'
    BY <1>7, Numbers DEF SaveBegin, StoreType
  <2>2. StoreType'
    BY <1>7, <2>1 DEF SaveBegin, StoreType, files, store
  <2>3. mode \in Modes /\ profile \in Profile
    BY <1>7 DEF SaveBegin, ServerType
  <2>4. ShellType'
    BY <1>7, <2>1, <2>3, PcFacts DEF SaveBegin, ShellType, Goto
  <2>5. \A d \in Shell \ {c} : /\ pc'[d] = pc[d] /\ lmode'[d] = lmode[d] /\ name'[d] = name[d]
                               /\ lprofile'[d] = lprofile[d] /\ pins'[d] = pins[d]
    BY <1>7 DEF SaveBegin, ShellType, Goto
  <2>6. pc'[c] = "save_api" /\ lmode'[c] = mode /\ lprofile'[c] = profile /\ name'[c] = last'
    BY <1>7 DEF SaveBegin, ShellType, Goto
  <2>7. Locals'
    BY <2>1, <2>3, <2>5, <2>6, PcFacts DEF Locals
  <2> QED BY <1>7, <2>2, <2>4, <2>7, ServerUnchanged DEF SaveBegin
<1>8. ASSUME NEW c \in Shell, SaveApi(c) PROVE TInv'
  <2>1. pc[c] \in SavePc /\ name[c] \in Names
    BY <1>8, PcFacts, Numbers DEF SaveApi, Locals, StoreType
  <2>2. ShellType' /\ Locals'
    <3>1. CASE Finish(c)
      BY <1>8, <3>1, FinishType DEF SaveApi
    <3>2. CASE Goto(c, "save_check") /\ UNCHANGED locals
      BY <1>8, <2>1, <3>2, GotoType, PcFacts DEF SaveApi
    <3> QED BY <1>8, <3>1, <3>2 DEF SaveApi
  <2>3. target' \in [Names -> File] /\ draft' \in [Names -> File]
    <3>1. CASE mode = "none"
      BY <1>8, <3>1 DEF SaveApi, StoreType, files
    <3>2. CASE mode # "none"
      <4>1. TargetHalf \in File /\ DraftHalf \in File
        BY <3>2, Data DEF Up, TargetHalf, DraftHalf
      <4>2. CASE ServerWrites(name[c])
        BY <4>1, <4>2, <2>1 DEF ServerWrites, StoreType
      <4>3. CASE ServerStopsShort(name[c])
        BY <4>1, <4>3, <2>1, Data DEF ServerStopsShort, StoreType
      <4> QED BY <1>8, <3>2, <4>2, <4>3 DEF SaveApi
    <3> QED BY <3>1, <3>2
  <2>4. StoreType'
    BY <1>8, <2>3 DEF SaveApi, StoreType, store
  <2> QED BY <1>8, <2>2, <2>4, ServerUnchanged DEF SaveApi
<1>9. ASSUME NEW c \in Shell, SaveCheck(c) PROVE TInv'
  <2>1. pc[c] \in SavePc /\ name[c] \in Names /\ lmode[c] \in Modes /\ lprofile[c] \in Profile
        /\ name[c] \in 1..last
    BY <1>9, PcFacts, Numbers DEF SaveCheck, Locals, StoreType
  <2>2. CASE ~Paired(c)
    BY <1>9, <2>2, FinishType, ServerUnchanged, StoreUnchanged DEF SaveCheck
  <2>3. CASE Paired(c)
    <3> DEFINE q == [target |-> target[name[c]], hash |-> profile,
                     draft |-> IF lmode[c] = "mtp" THEN draft[name[c]] ELSE Absent]
    <3>1. q \in Pins /\ q.hash \in Profile
      BY <2>1, Data DEF Pins, StoreType, ServerType
    <3>2. pins' = [pins EXCEPT ![c] = q] /\ pc' = [pc EXCEPT ![c] = "save_manifest"]
          /\ UNCHANGED <<lmode, lprofile, name, last>>
      BY <1>9, <2>3 DEF SaveCheck, Goto
    <3> HIDE DEF q
    <3>3. ShellType'
      BY <3>1, <3>2, PcFacts DEF ShellType
    <3>4. pins'[c] = q /\ pc'[c] = "save_manifest"
          /\ \A d \in Shell \ {c} : pins'[d] = pins[d] /\ pc'[d] = pc[d]
      BY <3>2 DEF ShellType
    <3>5. Locals'
      BY <3>1, <3>2, <3>4, <2>1, PcFacts DEF Locals
    <3> QED BY <1>9, <3>3, <3>5, ServerUnchanged, StoreUnchanged DEF SaveCheck
  <2> QED BY <2>2, <2>3
<1>10. ASSUME NEW c \in Shell, SaveManifest(c) PROVE TInv'
  <2>1. pc[c] \in SavePc /\ pc[c] = "save_manifest" /\ name[c] \in Names
        /\ lmode[c] \in Modes /\ lprofile[c] \in Profile /\ pins[c].hash \in Profile
    BY <1>10, PcFacts, Numbers DEF SaveManifest, Locals, StoreType
  <2>2. [mode |-> lmode[c], target |-> pins[c].target, draft |-> pins[c].draft,
         identity |-> lprofile[c], hash |-> pins[c].hash] \in Manifest
    BY <2>1 DEF Manifest, ShellType, Pins
  <2>3. StoreType'
    BY <1>10, <2>2 DEF SaveManifest, StoreType, files
  <2>4. ShellType' /\ Locals'
    BY <1>10, <2>1, GotoType, PcFacts DEF SaveManifest, locals
  <2> QED BY <1>10, <2>3, <2>4, ServerUnchanged DEF SaveManifest
<1>11. ASSUME NEW c \in Shell, SavePoint(c) PROVE TInv'
  <2>1. name[c] \in Names
    BY <1>11, PcFacts, Numbers DEF SavePoint, Locals, StoreType
  <2>2. StoreType'
    BY <1>11, <2>1 DEF SavePoint, StoreType, files
  <2> QED BY <1>11, <2>2, FinishType, ServerUnchanged DEF SavePoint
<1>12. ASSUME NEW c \in Shell, NEW n \in Names, RestoreBegin(c, n) PROVE TInv'
  <2>1. mode \in Modes
    BY <1>12 DEF RestoreBegin, ServerType
  <2>2. ShellType'
    BY <1>12, <2>1, PcFacts DEF RestoreBegin, ShellType, Goto
  <2>3. \A d \in Shell \ {c} : /\ pc'[d] = pc[d] /\ lmode'[d] = lmode[d] /\ name'[d] = name[d]
    BY <1>12 DEF RestoreBegin, ShellType, Goto
  <2>4. pc'[c] = "restore_check" /\ lmode'[c] = mode /\ name'[c] = n
    BY <1>12 DEF RestoreBegin, ShellType, Goto
  <2>5. Locals'
    BY <1>12, <2>1, <2>3, <2>4, PcFacts DEF Locals, RestoreBegin
  <2> QED BY <1>12, <2>2, <2>5, ServerUnchanged, StoreUnchanged DEF RestoreBegin
<1>13. ASSUME NEW c \in Shell, RestoreCheck(c) PROVE TInv'
  <2>1. CASE Finish(c)
    BY <1>13, <2>1, FinishType, ServerUnchanged, StoreUnchanged DEF RestoreCheck
  <2>2. CASE Goto(c, "restore_api") /\ UNCHANGED locals
    <3>1. ShellType' /\ Locals'
      BY <1>13, <2>2, GotoType, PcFacts DEF RestoreCheck
    <3> QED BY <1>13, <3>1, ServerUnchanged, StoreUnchanged DEF RestoreCheck
  <2> QED BY <1>13, <2>1, <2>2 DEF RestoreCheck
<1>14. ASSUME NEW c \in Shell, RestoreApi(c) PROVE TInv'
  <2>1. name[c] \in Names
    BY <1>14, PcFacts DEF RestoreApi, Locals
  <2>2. mode # "none" => slot' \in State
    <3> SUFFICES ASSUME mode # "none" PROVE slot' \in State
      OBVIOUS
    <3>1. slot \in State /\ [slot EXCEPT !.prompt = "empty"] \in State
      BY Data DEF Up, Prompts
    <3>2. ASSUME ServerAccepts(name[c])
          PROVE [prompt |-> target[name[c]].prompt, profile |-> target[name[c]].profile,
                 draft |-> IF mode = "mtp" THEN draft[name[c]].profile ELSE NoProfile] \in State
      <4>1. target[name[c]].prompt \in Prompts /\ target[name[c]].profile \in Profile
        BY <3>2, <2>1 DEF ServerAccepts, Whole, Readable, StoreType, File, Absent, Torn, NoProfile
      <4>2. draft[name[c]].profile \in Profile \cup {NoProfile}
        BY <2>1 DEF StoreType, File, Absent, Torn, NoProfile
      <4> QED BY <4>1, <4>2, Data
    <3> QED BY <1>14, <3>1, <3>2 DEF RestoreApi
  <2>3. ServerType' /\ Up'
    BY <1>14, <2>2 DEF RestoreApi, ServerType, Up
  <2> QED BY <1>14, <2>3, FinishType, StoreUnchanged DEF RestoreApi
<1>15. CASE UNCHANGED vars
  BY <1>15, ShellUnchanged, ServerUnchanged, StoreUnchanged DEF vars
<1> QED BY <1>1, <1>2, <1>3, <1>4, <1>5, <1>6, <1>7, <1>8, <1>9, <1>10, <1>11, <1>12, <1>13,
           <1>14, <1>15 DEF Next, Save, Restore

\* The variables of the checkpoint store keep their types, under every
\* interleaving of saves, restores, servers, edits and damage.
THEOREM TypeCorrect == Spec => []TypeOK
<1>1. TInv => TypeOK
  BY DEF TInv
<1> QED BY <1>1, TypeInit, TypeStep, PTL DEF Spec

-----------------------------------------------------------------------------
(* latest.json never points to half a checkpoint *)

Distinct ==
    \A c, d \in Shell :
        (pc[c] \in SavePc /\ pc[d] \in SavePc /\ name[c] = name[d]) => c = d

NewNames ==
    \A n \in Names : n > last =>
        target[n] = Absent /\ draft[n] = Absent /\ manifest[n] = NoManifest

SlotWhole == mode = "mtp" => slot.draft # NoProfile

\* What a save has established when it reaches each of its positions.
SaveAt(c) ==
    /\ pc[c] = "save_api" =>
          target[name[c]] = Absent /\ draft[name[c]] = Absent /\ manifest[name[c]] = NoManifest
    /\ pc[c] = "save_check" =>
          /\ Whole(target[name[c]]) /\ (draft[name[c]] = Absent \/ Whole(draft[name[c]]))
          /\ manifest[name[c]] = NoManifest
    /\ pc[c] \in {"save_manifest", "save_point"} =>
          /\ Whole(pins[c].target)
          /\ lmode[c] = "mtp" =>
                Whole(pins[c].draft) /\ pins[c].draft.prompt = pins[c].target.prompt
          /\ damage = 0 => /\ target[name[c]] = pins[c].target
                           /\ lmode[c] = "mtp" => draft[name[c]] = pins[c].draft
    /\ pc[c] = "save_point" => manifest[name[c]] # NoManifest

ManifestOk(n) ==
    manifest[n] # NoManifest => Checkpoint(manifest[n]) /\ (damage = 0 => FilesAgree(n))

CInv ==
    /\ TInv /\ Distinct /\ NewNames /\ SlotWhole
    /\ \A c \in Shell : SaveAt(c)
    /\ \A n \in Names : ManifestOk(n)
    /\ latest # NoName => manifest[latest] # NoManifest

LEMMA FileFacts ==
    /\ ~Whole(Absent) /\ ~Readable(Absent) /\ ~Readable(Torn)
    /\ \A f \in File : Whole(f) => f.prompt \in Prompts /\ f.profile \in Profile
    /\ \A p \in Prompts, f \in Profile : Whole([prompt |-> p, profile |-> f])
    /\ NoProfile \notin Profile
    /\ \A f \in File : f.profile \in Profile \cup {NoProfile}
BY PromptAssumption, ProfileAssumption
   DEF Whole, Readable, Absent, Torn, File, NoProfile, Prompts

\* No save moves: a shell that is saving after the step was there before it.
NoSaveMoves ==
    \A d \in Shell : pc'[d] \in SavePc =>
        /\ pc'[d] = pc[d] /\ name'[d] = name[d] /\ lmode'[d] = lmode[d]
        /\ pins'[d] = pins[d] /\ lprofile'[d] = lprofile[d]

LEMMA Carry ==
    ASSUME CInv, TInv', NoSaveMoves, SlotWhole', UNCHANGED <<files, store, last, damage>>
    PROVE  CInv'
<1> USE DEF CInv, files, store
<1>1. Distinct'
  BY DEF Distinct, NoSaveMoves
<1>2. NewNames'
  BY DEF NewNames
<1>3. ASSUME NEW c \in Shell PROVE SaveAt(c)'
  <2>1. CASE pc'[c] \notin SavePc
    BY <2>1, PcFacts DEF SaveAt
  <2>2. CASE pc'[c] \in SavePc
    <3>1. /\ pc'[c] = pc[c] /\ name'[c] = name[c] /\ lmode'[c] = lmode[c] /\ pins'[c] = pins[c]
          /\ SaveAt(c)
      BY <2>2 DEF NoSaveMoves
    <3> QED BY <3>1 DEF SaveAt
  <2> QED BY <2>1, <2>2
<1>4. ASSUME NEW n \in Names PROVE ManifestOk(n)'
  BY DEF ManifestOk, FilesAgree
<1> QED BY <1>1, <1>2, <1>3, <1>4

LEMMA FinishMoves == ASSUME TInv, NEW c \in Shell, Finish(c) PROVE NoSaveMoves
BY PcFacts DEF TInv, TypeOK, ShellType, Finish, Goto, NoSaveMoves

LEMMA QuietMoves == ASSUME UNCHANGED <<pc, locals>> PROVE NoSaveMoves
BY DEF NoSaveMoves, locals

\* Step `c` of a save: the other shells keep what they had.
Others(c) ==
    \A d \in Shell \ {c} : /\ pc'[d] = pc[d] /\ name'[d] = name[d] /\ lmode'[d] = lmode[d]
                            /\ pins'[d] = pins[d] /\ lprofile'[d] = lprofile[d]

LEMMA CheckpointInit == Init => CInv
<1> SUFFICES ASSUME Init PROVE CInv
  OBVIOUS
<1>1. \A c \in Shell : pc[c] = "idle"
  BY DEF Init
<1> QED BY <1>1, TypeInit, PcFacts
        DEF CInv, Init, Distinct, NewNames, SlotWhole, SaveAt, ManifestOk

LEMMA CheckpointStep == CInv /\ [Next]_vars => CInv'
<1> SUFFICES ASSUME CInv, [Next]_vars PROVE CInv'
  OBVIOUS
<1>t. TInv /\ TInv'
  BY TypeStep DEF CInv
<1>s. ASSUME UNCHANGED <<mode, slot>> PROVE SlotWhole'
  BY <1>s DEF CInv, SlotWhole
<1>1. ASSUME NEW m \in Modes, Launch(m) PROVE CInv'
  <2>1. SlotWhole'
    BY <1>1, <1>t, FileFacts DEF Launch, Fresh, SlotWhole, TInv, TypeOK, ServerType
  <2> QED BY <1>1, <1>t, <2>1, QuietMoves, Carry DEF Launch
<1>2. CASE Exit
  <2>1. SlotWhole'
    BY <1>2 DEF Exit, SlotWhole
  <2> QED BY <1>2, <1>t, <2>1, QuietMoves, Carry DEF Exit
<1>3. ASSUME NEW p \in Prompt, Infer(p) PROVE CInv'
  <2>1. slot \in State
    BY <1>3, <1>t DEF Infer, TInv, Up
  <2>2. slot'.draft = slot.draft
    BY <1>3, <2>1 DEF Infer, State
  <2>3. SlotWhole'
    BY <1>3, <2>2 DEF Infer, SlotWhole, CInv
  <2> QED BY <1>3, <1>t, <2>3, QuietMoves, Carry DEF Infer
<1>4. ASSUME NEW p \in Profile, EditProfile(p) PROVE CInv'
  BY <1>4, <1>s, <1>t, QuietMoves, Carry DEF EditProfile, srvVars
<1>5. ASSUME NEW n \in Names, Damage(n) PROVE CInv'
  <2>1. damage' # 0 /\ n \in 1..last /\ UNCHANGED <<last, manifest, latest, pc, name, lmode, pins>>
    BY <1>5, <1>t, BoundAssumption DEF Damage, TInv, TypeOK, StoreType, Names, store, locals
  <2>2. \A k \in Names \ {n} : target'[k] = target[k] /\ draft'[k] = draft[k]
    BY <1>5, <1>t DEF Damage, TInv, TypeOK, StoreType
  <2>3. NewNames'
    <3> SUFFICES ASSUME NEW k \in Names, k > last
                 PROVE  target'[k] = Absent /\ draft'[k] = Absent /\ manifest'[k] = NoManifest
      BY <2>1 DEF NewNames
    <3>1. k # n
      BY <1>t, <2>1, Numbers DEF TInv, TypeOK, StoreType
    <3> QED BY <3>1, <2>1, <2>2 DEF CInv, NewNames
  <2>4. ASSUME NEW c \in Shell PROVE SaveAt(c)'
    <3>1. CASE pc[c] \in {"save_api", "save_check"}
      <4>1. name[c] \in Names /\ name[c] # n
        BY <1>5, <1>t, <3>1, PcFacts, Numbers DEF Damage, TInv, Locals, TypeOK, StoreType
      <4> QED BY <2>1, <2>2, <3>1, <4>1 DEF SaveAt, CInv
    <3>2. CASE pc[c] \notin {"save_api", "save_check"}
      BY <2>1, <3>2 DEF SaveAt, CInv
    <3> QED BY <3>1, <3>2
  <2>5. ASSUME NEW k \in Names PROVE ManifestOk(k)'
    BY <2>1 DEF ManifestOk, CInv
  <2>6. Distinct' /\ SlotWhole'
    BY <1>5, <2>1 DEF Damage, CInv, Distinct, SlotWhole, srvVars
  <2> QED BY <1>t, <2>1, <2>3, <2>4, <2>5, <2>6 DEF CInv
<1>6. ASSUME NEW c \in Shell, Abandon(c) PROVE CInv'
  BY <1>6, <1>s, <1>t, FinishMoves, Carry DEF Abandon, srvVars
<1>7. ASSUME NEW c \in Shell, SaveBegin(c) PROVE CInv'
  <2>1. last \in 0..MaxSaves /\ last' = last + 1 /\ last \in Nat /\ last' \in Names
    BY <1>7, <1>t, Numbers DEF SaveBegin, TInv, TypeOK, StoreType
  <2>2. /\ UNCHANGED <<target, draft, manifest, latest, damage, mode, slot>>
        /\ pc'[c] = "save_api" /\ name'[c] = last' /\ Others(c)
    BY <1>7, <1>t DEF SaveBegin, TInv, TypeOK, ShellType, Goto, Others, files, store, srvVars
  <2>3. \A d \in Shell : pc[d] \in SavePc => name[d] \in 1..last
    BY <1>t DEF TInv, Locals
  <2>4. Distinct'
    BY <2>1, <2>2, <2>3 DEF CInv, Distinct, Others
  <2>5. NewNames'
    BY <2>1, <2>2, Numbers DEF CInv, NewNames
  <2>6. ASSUME NEW d \in Shell PROVE SaveAt(d)'
    <3>1. CASE d = c
      BY <2>1, <2>2, <3>1 DEF CInv, NewNames, SaveAt
    <3>2. CASE d # c
      <4>1. /\ pc'[d] = pc[d] /\ name'[d] = name[d] /\ lmode'[d] = lmode[d] /\ pins'[d] = pins[d]
            /\ SaveAt(d)
        BY <2>2, <3>2 DEF Others, CInv
      <4> QED BY <2>2, <4>1 DEF SaveAt
    <3> QED BY <3>1, <3>2
  <2>7. ASSUME NEW n \in Names PROVE ManifestOk(n)'
    BY <2>2 DEF CInv, ManifestOk, FilesAgree
  <2> QED BY <1>s, <1>t, <2>2, <2>4, <2>5, <2>6, <2>7 DEF CInv
<1>8. ASSUME NEW c \in Shell, SaveApi(c) PROVE CInv'
  <2>1. /\ pc[c] = "save_api" /\ name[c] \in Names /\ name[c] \in 1..last
        /\ pc[c] \in SavePc /\ last \in Nat
    BY <1>8, <1>t, PcFacts, Numbers DEF SaveApi, TInv, Locals, TypeOK, StoreType
  <2>2. /\ UNCHANGED <<manifest, latest, last, damage, mode, slot>> /\ Others(c)
        /\ pc'[c] \in {"idle", "save_check"}
        /\ pc'[c] = "save_check" => /\ mode # "none" /\ ServerWrites(name[c])
                                    /\ UNCHANGED <<name, lmode, pins>>
    BY <1>8, <1>t DEF SaveApi, TInv, TypeOK, ShellType, Goto, Finish, Others, store, srvVars, locals
  <2>3. \A k \in Names \ {name[c]} : target'[k] = target[k] /\ draft'[k] = draft[k]
    BY <1>8, <1>t DEF SaveApi, ServerWrites, ServerStopsShort, files, TInv, TypeOK, StoreType
  <2>4. /\ target[name[c]] = Absent /\ draft[name[c]] = Absent /\ manifest[name[c]] = NoManifest
    BY <2>1 DEF CInv, SaveAt
  <2>5. NewNames'
    <3> SUFFICES ASSUME NEW k \in Names, k > last
                 PROVE  target'[k] = Absent /\ draft'[k] = Absent /\ manifest'[k] = NoManifest
      BY <2>2 DEF NewNames
    <3>1. k # name[c]
      BY <2>1, Numbers
    <3> QED BY <3>1, <2>2, <2>3 DEF CInv, NewNames
  <2>6. Distinct'
    BY <2>1, <2>2, PcFacts DEF CInv, Distinct, Others
  <2>7. ASSUME NEW d \in Shell PROVE SaveAt(d)'
    <3>1. CASE d = c /\ pc'[c] = "idle"
      BY <3>1 DEF SaveAt
    <3>2. CASE d = c /\ pc'[c] = "save_check"
      <4>1. slot.prompt \in Prompts /\ slot.profile \in Profile
            /\ slot.draft \in Profile \cup {NoProfile} /\ (mode = "mtp" => slot.draft \in Profile)
        BY <2>2, <3>2, <1>t, Data DEF TInv, Up, CInv, SlotWhole
      <4>2. Whole(TargetHalf) /\ (mode = "mtp" => Whole(DraftHalf))
        BY <4>1, FileFacts DEF TargetHalf, DraftHalf
      <4>3. target'[name[c]] = TargetHalf
            /\ draft'[name[c]] = IF mode = "mtp" THEN DraftHalf ELSE Absent
        BY <2>1, <2>2, <2>4, <3>2, <1>t DEF ServerWrites, TInv, TypeOK, StoreType
      <4>4. name'[c] = name[c] /\ manifest'[name[c]] = NoManifest
        BY <2>2, <2>4, <3>2
      <4> QED BY <3>2, <4>2, <4>3, <4>4 DEF SaveAt
    <3>3. CASE d # c
      <4>1. /\ pc'[d] = pc[d] /\ name'[d] = name[d] /\ lmode'[d] = lmode[d] /\ pins'[d] = pins[d]
            /\ SaveAt(d)
        BY <2>2, <3>3 DEF Others, CInv
      <4>2. CASE pc[d] \in SavePc
        <5>1. name[d] \in Names /\ name[d] # name[c]
          BY <2>1, <3>3, <4>2, <1>t, Numbers DEF CInv, Distinct, TInv, Locals, TypeOK, StoreType
        <5>2. target'[name[d]] = target[name[d]] /\ draft'[name[d]] = draft[name[d]]
          BY <2>3, <5>1
        <5> QED BY <2>2, <4>1, <5>2 DEF SaveAt
      <4>3. CASE pc[d] \notin SavePc
        BY <4>1, <4>3, PcFacts DEF SaveAt
      <4> QED BY <4>2, <4>3
    <3> QED BY <3>1, <3>2, <3>3, <2>2
  <2>8. ASSUME NEW n \in Names PROVE ManifestOk(n)'
    <3>1. CASE n = name[c]
      BY <2>2, <2>4, <3>1 DEF ManifestOk
    <3>2. CASE n # name[c]
      BY <2>2, <2>3, <3>2 DEF ManifestOk, FilesAgree, CInv
    <3> QED BY <3>1, <3>2
  <2> QED BY <1>s, <1>t, <2>2, <2>5, <2>6, <2>7, <2>8 DEF CInv
<1>9. ASSUME NEW c \in Shell, SaveCheck(c) PROVE CInv'
  <2>1. /\ pc[c] = "save_check" /\ name[c] \in Names /\ pc[c] \in SavePc
    BY <1>9, <1>t, PcFacts, Numbers DEF SaveCheck, TInv, Locals, TypeOK, StoreType
  <2>2. CASE ~Paired(c)
    BY <1>9, <2>2, <1>s, <1>t, FinishMoves, Carry DEF SaveCheck, srvVars
  <2>3. CASE Paired(c)
    <3>1. /\ pins'[c].target = target[name[c]]
          /\ pins'[c].draft = IF lmode[c] = "mtp" THEN draft[name[c]] ELSE Absent
          /\ pc'[c] = "save_manifest" /\ Others(c)
          /\ UNCHANGED <<target, draft, manifest, latest, last, damage, mode, slot, name, lmode>>
      BY <1>9, <2>3, <1>t DEF SaveCheck, Goto, Others, TInv, TypeOK, ShellType, files, store, srvVars
    <3>2. Whole(target[name[c]]) /\ (draft[name[c]] = Absent \/ Whole(draft[name[c]]))
      BY <2>1 DEF CInv, SaveAt
    <3>3. lmode[c] = "mtp" => Whole(draft[name[c]]) /\ draft[name[c]].prompt = target[name[c]].prompt
      BY <2>3, <3>2, FileFacts DEF Paired
    <3>4. ASSUME NEW d \in Shell PROVE SaveAt(d)'
      <4>1. CASE d = c
        BY <3>1, <3>2, <3>3, <4>1 DEF SaveAt
      <4>2. CASE d # c
        <5>1. /\ pc'[d] = pc[d] /\ name'[d] = name[d] /\ lmode'[d] = lmode[d] /\ pins'[d] = pins[d]
              /\ SaveAt(d)
          BY <3>1, <4>2 DEF Others, CInv
        <5> QED BY <3>1, <5>1 DEF SaveAt
      <4> QED BY <4>1, <4>2
    <3>5. Distinct'
      BY <2>1, <3>1 DEF CInv, Distinct, Others
    <3>6. NewNames' /\ \A n \in Names : ManifestOk(n)'
      BY <3>1 DEF CInv, NewNames, ManifestOk, FilesAgree
    <3> QED BY <1>s, <1>t, <3>1, <3>4, <3>5, <3>6 DEF CInv
  <2> QED BY <2>2, <2>3
<1>10. ASSUME NEW c \in Shell, SaveManifest(c) PROVE CInv'
  <2>1. /\ pc[c] = "save_manifest" /\ name[c] \in Names /\ name[c] \in 1..last
        /\ pc[c] \in SavePc /\ last \in Nat /\ lmode[c] \in Modes
    BY <1>10, <1>t, PcFacts, Numbers DEF SaveManifest, TInv, Locals, TypeOK, StoreType
  <2> DEFINE m == [mode |-> lmode[c], target |-> pins[c].target, draft |-> pins[c].draft,
                   identity |-> lprofile[c], hash |-> pins[c].hash]
  <2>2. /\ manifest' = [manifest EXCEPT ![name[c]] = m]
        /\ UNCHANGED <<target, draft, latest, last, damage, mode, slot, name, lmode, pins>>
        /\ pc'[c] = "save_point" /\ Others(c)
    BY <1>10, <1>t DEF SaveManifest, TInv, TypeOK, ShellType, Goto, Others, files, srvVars
  <2>3. m # NoManifest /\ Checkpoint(m)
        /\ (damage = 0 => target[name[c]] = m.target /\ (m.mode = "mtp" => draft[name[c]] = m.draft))
    BY <2>1, ModeFacts DEF CInv, SaveAt, NoManifest, Checkpoint
  <2> HIDE DEF m
  <2>4. manifest'[name[c]] = m /\ \A k \in Names \ {name[c]} : manifest'[k] = manifest[k]
    BY <2>1, <2>2, <1>t DEF TInv, TypeOK, StoreType
  <2>5. ASSUME NEW n \in Names PROVE ManifestOk(n)'
    <3>1. CASE n = name[c]
      BY <2>2, <2>3, <2>4, <3>1 DEF ManifestOk, FilesAgree, Checkpoint
    <3>2. CASE n # name[c]
      BY <2>2, <2>4, <3>2 DEF ManifestOk, FilesAgree, CInv
    <3> QED BY <3>1, <3>2
  <2>6. ASSUME NEW d \in Shell PROVE SaveAt(d)'
    <3>1. CASE d = c
      <4>1. SaveAt(c) /\ manifest'[name'[c]] # NoManifest
        BY <2>2, <2>3, <2>4 DEF CInv
      <4> QED BY <2>1, <2>2, <3>1, <4>1 DEF SaveAt
    <3>2. CASE d # c
      <4>1. /\ pc'[d] = pc[d] /\ name'[d] = name[d] /\ lmode'[d] = lmode[d] /\ pins'[d] = pins[d]
            /\ SaveAt(d)
        BY <2>2, <3>2 DEF Others, CInv
      <4>2. CASE pc[d] \in SavePc
        <5>1. name[d] \in Names /\ name[d] # name[c]
          BY <2>1, <3>2, <4>2, <1>t, Numbers DEF CInv, Distinct, TInv, Locals, TypeOK, StoreType
        <5> QED BY <2>2, <2>4, <4>1, <5>1 DEF SaveAt
      <4>3. CASE pc[d] \notin SavePc
        BY <4>1, <4>3, PcFacts DEF SaveAt
      <4> QED BY <4>2, <4>3
    <3> QED BY <3>1, <3>2
  <2>7. NewNames'
    <3> SUFFICES ASSUME NEW k \in Names, k > last
                 PROVE  target'[k] = Absent /\ draft'[k] = Absent /\ manifest'[k] = NoManifest
      BY <2>2 DEF NewNames
    <3>1. k # name[c]
      BY <2>1, Numbers
    <3> QED BY <3>1, <2>2, <2>4 DEF CInv, NewNames
  <2>8. Distinct'
    BY <2>1, <2>2 DEF CInv, Distinct, Others
  <2>9. latest' # NoName => manifest'[latest'] # NoManifest
    BY <2>2, <2>3, <2>4, <1>t DEF CInv, TInv, TypeOK, StoreType
  <2> QED BY <1>s, <1>t, <2>2, <2>5, <2>6, <2>7, <2>8, <2>9 DEF CInv
<1>11. ASSUME NEW c \in Shell, SavePoint(c) PROVE CInv'
  <2>1. manifest[name[c]] # NoManifest
    BY <1>11 DEF SavePoint, CInv, SaveAt
  <2>2. NoSaveMoves /\ UNCHANGED <<target, draft, manifest, last, damage, mode, slot>> /\ latest' = name[c]
    BY <1>11, <1>t, FinishMoves DEF SavePoint, files, srvVars
  <2>3. ASSUME NEW d \in Shell PROVE SaveAt(d)'
    <3>1. CASE pc'[d] \notin SavePc
      BY <3>1, PcFacts DEF SaveAt
    <3>2. CASE pc'[d] \in SavePc
      <4>1. /\ pc'[d] = pc[d] /\ name'[d] = name[d] /\ lmode'[d] = lmode[d] /\ pins'[d] = pins[d]
            /\ SaveAt(d)
        BY <3>2, <2>2 DEF NoSaveMoves, CInv
      <4> QED BY <2>2, <4>1 DEF SaveAt
    <3> QED BY <3>1, <3>2
  <2>4. Distinct' /\ NewNames' /\ \A n \in Names : ManifestOk(n)'
    BY <2>2 DEF CInv, Distinct, NoSaveMoves, NewNames, ManifestOk, FilesAgree
  <2> QED BY <1>s, <1>t, <2>1, <2>2, <2>3, <2>4 DEF CInv
<1>12. ASSUME NEW c \in Shell, NEW n \in Names, RestoreBegin(c, n) PROVE CInv'
  <2>1. NoSaveMoves
    BY <1>12, <1>t, PcFacts DEF RestoreBegin, Goto, NoSaveMoves, TInv, TypeOK, ShellType
  <2> QED BY <1>12, <1>s, <1>t, <2>1, Carry DEF RestoreBegin, srvVars
<1>13. ASSUME NEW c \in Shell, RestoreCheck(c) PROVE CInv'
  <2>1. CASE Finish(c)
    BY <1>13, <2>1, <1>s, <1>t, FinishMoves, Carry DEF RestoreCheck, srvVars
  <2>2. CASE Goto(c, "restore_api") /\ UNCHANGED locals
    <3>1. NoSaveMoves
      BY <2>2, <1>t, PcFacts DEF Goto, NoSaveMoves, TInv, TypeOK, ShellType, locals
    <3> QED BY <1>13, <3>1, <1>s, <1>t, Carry DEF RestoreCheck, srvVars
  <2> QED BY <1>13, <2>1, <2>2 DEF RestoreCheck
<1>14. ASSUME NEW c \in Shell, RestoreApi(c) PROVE CInv'
  <2>1. SlotWhole'
    <3>1. CASE mode # "mtp"
      BY <1>14, <3>1 DEF RestoreApi, SlotWhole
    <3>2. CASE mode = "mtp" /\ ServerAccepts(name[c])
      BY <1>14, <3>2 DEF RestoreApi, SlotWhole, ServerAccepts, Whole
    <3>3. CASE mode = "mtp" /\ ~ServerAccepts(name[c])
      <4>1. slot \in State
        BY <3>3, <1>t DEF TInv, Up
      <4>2. slot'.draft = slot.draft
        BY <1>14, <3>3, <4>1 DEF RestoreApi, State
      <4> QED BY <1>14, <4>2 DEF RestoreApi, SlotWhole, CInv
    <3> QED BY <3>1, <3>2, <3>3
  <2> QED BY <1>14, <1>t, <2>1, FinishMoves, Carry DEF RestoreApi
<1>15. CASE UNCHANGED vars
  BY <1>15, <1>s, <1>t, QuietMoves, Carry DEF vars, srvVars
<1> QED BY <1>1, <1>2, <1>3, <1>4, <1>5, <1>6, <1>7, <1>8, <1>9, <1>10, <1>11, <1>12, <1>13,
           <1>14, <1>15 DEF Next, Save, Restore

\* latest.json names a whole checkpoint after any interruption of any saves,
\* any failure of the server's own save and any change of servers.
THEOREM LatestIsWholeHolds == Spec => []LatestIsWhole
<1>1. CInv => LatestIsWhole
  BY DEF CInv, TInv, TypeOK, StoreType, LatestIsWhole, ManifestOk
<1> QED BY <1>1, CheckpointInit, CheckpointStep, PTL DEF Spec

-----------------------------------------------------------------------------
(* A server never holds a state of another profile *)

Switches == ~CanEditLive /\ ~LaunchUnderRestore

\* A profile between the one a save loaded and the one in force.
Between(f, c) == f.profile >= lprofile[c] /\ f.profile <= profile

\* While a save runs the profile only moves forward, so a state computed
\* between its start and its check is of the loaded profile whenever that is
\* the one hashed.
Stamp(c) ==
    /\ pc[c] \in SavePc => lprofile[c] <= profile
    /\ pc[c] = "save_check" =>
          Between(target[name[c]], c) /\ (draft[name[c]] = Absent \/ Between(draft[name[c]], c))
    /\ (pc[c] \in {"save_manifest", "save_point"} /\ pins[c].hash = lprofile[c]) =>
          /\ pins[c].target.profile = lprofile[c]
          /\ lmode[c] = "mtp" => pins[c].draft.profile = lprofile[c]

Pinned(n) ==
    (manifest[n] # NoManifest /\ manifest[n].identity = manifest[n].hash) =>
        /\ manifest[n].target.profile = manifest[n].hash
        /\ manifest[n].mode = "mtp" => manifest[n].draft.profile = manifest[n].hash

\* No server starts under a restore: what it read and checked is still true of
\* the server it speaks to, if there still is one.
Checked(c) ==
    /\ pc[c] \in RestorePc => /\ manifest[name[c]] # NoManifest
                              /\ mode # "none" => lmode[c] = mode
    /\ (pc[c] = "restore_api" /\ mode # "none") =>
          /\ target[name[c]].profile = profile
          /\ lmode[c] = "mtp" => draft[name[c]].profile = profile

Own == mode # "none" => /\ running = profile /\ slot.profile = profile
                        /\ mode = "mtp" => slot.draft = profile

OInv ==
    /\ Switches /\ CInv /\ Own
    /\ \A c \in Shell : Stamp(c) /\ Checked(c)
    /\ \A n \in Names : Pinned(n)

LEMMA Order ==
    /\ \A p \in Profile : p \in Nat /\ p <= p
    /\ \A p, q, r \in Profile : (p <= q /\ q < r) => p <= r
    /\ \A p, q \in Profile : (p <= q /\ q <= p) => p = q
BY ProfileAssumption

\* No restore moves forward; the ones that remain keep their locals.
NoRestoreMoves ==
    \A d \in Shell : pc'[d] \in RestorePc =>
        pc'[d] = pc[d] /\ name'[d] = name[d] /\ lmode'[d] = lmode[d]

LEMMA OwnCarry ==
    ASSUME OInv, CInv', Own', NoSaveMoves, NoRestoreMoves,
           UNCHANGED <<profile, files, store>>, mode' = mode
    PROVE  OInv'
<1> USE DEF OInv, files, store
<1>1. ASSUME NEW c \in Shell PROVE Stamp(c)'
  <2>1. CASE pc'[c] \notin SavePc
    BY <2>1, PcFacts DEF Stamp
  <2>2. CASE pc'[c] \in SavePc
    <3>1. /\ pc'[c] = pc[c] /\ name'[c] = name[c] /\ lmode'[c] = lmode[c]
          /\ pins'[c] = pins[c] /\ lprofile'[c] = lprofile[c] /\ Stamp(c)
      BY <2>2 DEF NoSaveMoves
    <3> QED BY <3>1 DEF Stamp, Between
  <2> QED BY <2>1, <2>2
<1>2. ASSUME NEW c \in Shell PROVE Checked(c)'
  <2>1. CASE pc'[c] \notin RestorePc
    BY <2>1, PcFacts DEF Checked
  <2>2. CASE pc'[c] \in RestorePc
    <3>1. pc'[c] = pc[c] /\ name'[c] = name[c] /\ lmode'[c] = lmode[c] /\ Checked(c)
      BY <2>2 DEF NoRestoreMoves
    <3> QED BY <3>1 DEF Checked
  <2> QED BY <2>1, <2>2
<1>3. ASSUME NEW n \in Names PROVE Pinned(n)'
  BY DEF Pinned
<1> QED BY <1>1, <1>2, <1>3 DEF Switches

LEMMA FinishRestores == ASSUME TInv, NEW c \in Shell, Finish(c) PROVE NoRestoreMoves
BY PcFacts DEF TInv, TypeOK, ShellType, Finish, Goto, NoRestoreMoves

LEMMA QuietRestores == ASSUME UNCHANGED <<pc, locals>> PROVE NoRestoreMoves
BY DEF NoRestoreMoves, locals

LEMMA OwnInit == Init /\ Switches => OInv
<1> SUFFICES ASSUME Init, Switches PROVE OInv
  OBVIOUS
<1>1. \A c \in Shell : pc[c] = "idle"
  BY DEF Init
<1> QED BY <1>1, CheckpointInit, PcFacts DEF OInv, Init, Own, Stamp, Checked, Pinned

LEMMA OwnStep == OInv /\ [Next]_vars => OInv'
<1> SUFFICES ASSUME OInv, [Next]_vars PROVE OInv'
  OBVIOUS
<1>t. TInv /\ TInv' /\ CInv /\ CInv'
  BY CheckpointStep DEF OInv, CInv
<1>s. ASSUME UNCHANGED <<profile, mode, running, slot>> PROVE Own'
  BY <1>s DEF OInv, Own
<1>1. ASSUME NEW m \in Modes, Launch(m) PROVE OInv'
  <2>1. UNCHANGED <<profile, files, store, pc, lmode, lprofile, name, pins>>
        /\ \A c \in Shell : pc[c] \notin RestorePc
    BY <1>1 DEF Launch, OInv, Switches, locals
  <2>2. Own'
    BY <1>1 DEF Launch, Fresh, Own
  <2>3. ASSUME NEW c \in Shell PROVE Stamp(c)' /\ Checked(c)'
    <3>1. Stamp(c)
      BY DEF OInv
    <3> QED BY <2>1, <3>1, PcFacts DEF Stamp, Between, Checked, files
  <2>4. ASSUME NEW n \in Names PROVE Pinned(n)'
    BY <2>1 DEF OInv, Pinned, store
  <2> QED BY <1>t, <2>2, <2>3, <2>4 DEF OInv, Switches
<1>2. CASE Exit
  <2>1. UNCHANGED <<profile, files, store, pc, lmode, lprofile, name, pins>> /\ mode' = "none"
    BY <1>2 DEF Exit, locals
  <2>2. ASSUME NEW c \in Shell PROVE Stamp(c)' /\ Checked(c)'
    <3>1. Stamp(c) /\ Checked(c)
      BY DEF OInv
    <3> QED BY <2>1, <3>1 DEF Stamp, Between, Checked, files, store
  <2>3. Own' /\ \A n \in Names : Pinned(n)'
    BY <2>1 DEF OInv, Pinned, store, Own
  <2> QED BY <1>t, <2>2, <2>3 DEF OInv, Switches
<1>3. ASSUME NEW p \in Prompt, Infer(p) PROVE OInv'
  <2>1. slot \in State
    BY <1>3, <1>t DEF Infer, TInv, Up
  <2>2. slot'.draft = slot.draft /\ slot'.profile = slot.profile
    BY <1>3, <2>1 DEF Infer, State
  <2>3. Own'
    BY <1>3, <2>2 DEF Infer, Own, OInv
  <2> QED BY <1>3, <1>t, <2>3, QuietMoves, QuietRestores, OwnCarry DEF Infer
<1>4. ASSUME NEW p \in Profile, EditProfile(p) PROVE OInv'
  <2>1. /\ mode = "none" /\ mode' = "none" /\ profile' = p /\ profile \in Profile
        /\ UNCHANGED <<files, store, pc, lmode, lprofile, name, pins>>
        /\ p > profile \/ \A c \in Shell : pc[c] = "idle"
    BY <1>4, <1>t DEF EditProfile, OInv, Switches, locals, srvVars, TInv, TypeOK, ServerType
  <2>2. ASSUME NEW c \in Shell PROVE Stamp(c)' /\ Checked(c)'
    <3>1. Stamp(c) /\ Checked(c)
      BY DEF OInv
    <3>2. CASE pc[c] = "idle"
      BY <2>1, <3>2, PcFacts DEF Stamp, Checked
    <3>3. CASE pc[c] \in RestorePc
      BY <2>1, <3>1, <3>3, PcFacts DEF Stamp, Checked, store
    <3>4. CASE pc[c] \in SavePc
      <4>1. p > profile /\ lprofile[c] \in Profile /\ name[c] \in Names
        BY <2>1, <3>4, <1>t, PcFacts, Numbers DEF TInv, Locals, TypeOK, StoreType
      <4>2. ASSUME NEW f \in File, Between(f, c), Whole(f) PROVE Between(f, c)'
        <5>1. f.profile \in Profile
          BY <4>2, FileFacts
        <5> QED BY <2>1, <4>1, <4>2, <5>1, Order DEF Between
      <4>3. target[name[c]] \in File /\ draft[name[c]] \in File
        BY <4>1, <1>t DEF TInv, TypeOK, StoreType
      <4>4. pc[c] = "save_check" =>
                Whole(target[name[c]]) /\ (draft[name[c]] = Absent \/ Whole(draft[name[c]]))
        BY <1>t DEF CInv, SaveAt
      <4>5. pc[c] = "save_check" =>
                /\ Between(target[name[c]], c)'
                /\ draft[name[c]] = Absent \/ Between(draft[name[c]], c)'
        BY <2>1, <3>1, <4>2, <4>3, <4>4 DEF Stamp, Between, files
      <4>6. lprofile[c] <= p
        BY <2>1, <3>1, <3>4, <4>1, Order DEF Stamp
      <4> QED BY <2>1, <3>1, <3>4, <4>5, <4>6, PcFacts DEF Stamp, Checked, Between, files
    <3> QED BY <3>2, <3>3, <3>4, <1>t DEF TInv, TypeOK, ShellType, PcSet
  <2>3. Own' /\ \A n \in Names : Pinned(n)'
    BY <2>1 DEF OInv, Pinned, store, Own
  <2> QED BY <1>t, <2>2, <2>3 DEF OInv, Switches
<1>5. ASSUME NEW n \in Names, Damage(n) PROVE OInv'
  <2>1. UNCHANGED <<profile, mode, running, slot, manifest, pc, lmode, lprofile, name, pins>>
    BY <1>5 DEF Damage, srvVars, store, locals
  <2>2. \A k \in Names \ {n} : target'[k] = target[k] /\ draft'[k] = draft[k]
    BY <1>5, <1>t DEF Damage, TInv, TypeOK, StoreType
  <2>3. ASSUME NEW c \in Shell PROVE Stamp(c)' /\ Checked(c)'
    <3>1. Stamp(c) /\ Checked(c)
      BY DEF OInv
    <3>2. CASE pc[c] \in {"save_check", "restore_api"}
      <4>1. name[c] \in Names /\ name[c] # n
        BY <1>5, <1>t, <3>2, PcFacts, Numbers DEF Damage, TInv, Locals, TypeOK, StoreType
      <4>2. target'[name[c]] = target[name[c]] /\ draft'[name[c]] = draft[name[c]]
        BY <2>2, <4>1
      <4> QED BY <2>1, <3>1, <4>2 DEF Stamp, Checked, Between
    <3>3. CASE pc[c] \notin {"save_check", "restore_api"}
      BY <2>1, <3>1, <3>3 DEF Stamp, Checked, Between
    <3> QED BY <3>2, <3>3
  <2>4. Own' /\ \A k \in Names : Pinned(k)'
    BY <2>1, <1>s DEF OInv, Pinned
  <2> QED BY <1>t, <2>3, <2>4 DEF OInv, Switches
<1>6. ASSUME NEW c \in Shell, Abandon(c) PROVE OInv'
  BY <1>6, <1>s, <1>t, FinishMoves, FinishRestores, OwnCarry DEF Abandon, srvVars
<1>7. ASSUME NEW c \in Shell, SaveBegin(c) PROVE OInv'
  <2>1. /\ UNCHANGED <<profile, files, store, mode, running, slot>>
        /\ pc'[c] = "save_api" /\ lprofile'[c] = profile /\ profile \in Profile /\ Others(c)
    BY <1>7, <1>t DEF SaveBegin, srvVars, TInv, TypeOK, ShellType, ServerType, Goto, Others
  <2>2. ASSUME NEW d \in Shell PROVE Stamp(d)' /\ Checked(d)'
    <3>1. CASE d = c
      BY <2>1, <3>1, PcFacts, Order DEF Stamp, Checked
    <3>2. CASE d # c
      <4>1. /\ pc'[d] = pc[d] /\ name'[d] = name[d] /\ lmode'[d] = lmode[d] /\ pins'[d] = pins[d]
            /\ lprofile'[d] = lprofile[d] /\ Stamp(d) /\ Checked(d)
        BY <2>1, <3>2 DEF Others, OInv
      <4> QED BY <2>1, <4>1 DEF Stamp, Checked, Between, files, store
    <3> QED BY <3>1, <3>2
  <2>3. \A n \in Names : Pinned(n)'
    BY <2>1 DEF OInv, Pinned, store
  <2> QED BY <1>s, <1>t, <2>1, <2>2, <2>3 DEF OInv, Switches
<1>8. ASSUME NEW c \in Shell, SaveApi(c) PROVE OInv'
  <2>1. /\ pc[c] = "save_api" /\ name[c] \in Names /\ pc[c] \in SavePc /\ lprofile[c] \in Profile
    BY <1>8, <1>t, PcFacts, Numbers DEF SaveApi, TInv, Locals, TypeOK, StoreType
  <2>2. /\ UNCHANGED <<profile, mode, running, slot, manifest>> /\ Others(c)
        /\ pc'[c] \in {"idle", "save_check"}
        /\ pc'[c] = "save_check" => /\ mode # "none" /\ ServerWrites(name[c])
                                    /\ UNCHANGED <<name, lmode, lprofile, pins>>
    BY <1>8, <1>t DEF SaveApi, TInv, TypeOK, ShellType, Goto, Finish, Others, store, srvVars, locals
  <2>3. \A k \in Names \ {name[c]} : target'[k] = target[k] /\ draft'[k] = draft[k]
    BY <1>8, <1>t DEF SaveApi, ServerWrites, ServerStopsShort, files, TInv, TypeOK, StoreType
  <2>4. draft[name[c]] = Absent /\ manifest[name[c]] = NoManifest
    BY <2>1, <1>t DEF CInv, SaveAt
  <2>5. ASSUME NEW d \in Shell PROVE Stamp(d)' /\ Checked(d)'
    <3>1. CASE d = c /\ pc'[c] = "idle"
      BY <3>1, PcFacts DEF Stamp, Checked
    <3>2. CASE d = c /\ pc'[c] = "save_check"
      <4>1. /\ target'[name[c]] = TargetHalf
            /\ draft'[name[c]] = IF mode = "mtp" THEN DraftHalf ELSE Absent
        BY <2>1, <2>2, <2>4, <3>2, <1>t DEF ServerWrites, TInv, TypeOK, StoreType
      <4>2. TargetHalf.profile = profile /\ (mode = "mtp" => DraftHalf.profile = profile)
        BY <2>2, <3>2 DEF OInv, Own, TargetHalf, DraftHalf
      <4>3. lprofile[c] <= profile /\ profile <= profile
        BY <2>1, <1>t, Order DEF OInv, Stamp, TInv, TypeOK, ServerType
      <4> QED BY <2>2, <3>2, <4>1, <4>2, <4>3, PcFacts DEF Stamp, Checked, Between
    <3>3. CASE d # c
      <4>1. /\ pc'[d] = pc[d] /\ name'[d] = name[d] /\ lmode'[d] = lmode[d] /\ pins'[d] = pins[d]
            /\ lprofile'[d] = lprofile[d] /\ Stamp(d) /\ Checked(d)
        BY <2>2, <3>3 DEF Others, OInv
      <4>2. CASE pc[d] \in SavePc \cup RestorePc
        <5>1. name[d] \in Names
          BY <4>2, <1>t, Numbers DEF TInv, Locals, TypeOK, StoreType
        <5>2. name[d] # name[c]
          BY <2>1, <2>4, <3>3, <4>1, <4>2, <1>t DEF CInv, Distinct, Checked
        <5>3. target'[name[d]] = target[name[d]] /\ draft'[name[d]] = draft[name[d]]
          BY <2>3, <5>1, <5>2
        <5> QED BY <2>2, <4>1, <5>3 DEF Stamp, Checked, Between
      <4>3. CASE pc[d] \notin SavePc \cup RestorePc
        BY <4>1, <4>3, PcFacts DEF Stamp, Checked
      <4> QED BY <4>2, <4>3
    <3> QED BY <3>1, <3>2, <3>3, <2>2
  <2>6. \A n \in Names : Pinned(n)'
    BY <2>2 DEF OInv, Pinned
  <2> QED BY <1>s, <1>t, <2>2, <2>5, <2>6 DEF OInv, Switches
<1>9. ASSUME NEW c \in Shell, SaveCheck(c) PROVE OInv'
  <2>1. /\ pc[c] = "save_check" /\ name[c] \in Names /\ pc[c] \in SavePc /\ lprofile[c] \in Profile
        /\ profile \in Profile
    BY <1>9, <1>t, PcFacts, Numbers DEF SaveCheck, TInv, Locals, TypeOK, StoreType, ServerType
  <2>2. CASE ~Paired(c)
    BY <1>9, <2>2, <1>s, <1>t, FinishMoves, FinishRestores, OwnCarry DEF SaveCheck, srvVars
  <2>3. CASE Paired(c)
    <3>1. /\ pins'[c].target = target[name[c]] /\ pins'[c].hash = profile
          /\ pins'[c].draft = IF lmode[c] = "mtp" THEN draft[name[c]] ELSE Absent
          /\ pc'[c] = "save_manifest" /\ Others(c)
          /\ UNCHANGED <<profile, files, store, mode, running, slot, name, lmode, lprofile>>
      BY <1>9, <2>3, <1>t DEF SaveCheck, Goto, Others, TInv, TypeOK, ShellType, srvVars
    <3>2. Whole(target[name[c]]) /\ (lmode[c] = "mtp" => Whole(draft[name[c]]))
      BY <2>1, <2>3, <1>t, FileFacts DEF CInv, SaveAt, Paired
    <3>3. target[name[c]] \in File /\ draft[name[c]] \in File
      BY <2>1, <1>t DEF TInv, TypeOK, StoreType
    <3>4. profile = lprofile[c] => /\ target[name[c]].profile = lprofile[c]
                                   /\ lmode[c] = "mtp" => draft[name[c]].profile = lprofile[c]
      <4>1. Between(target[name[c]], c)
            /\ (draft[name[c]] = Absent \/ Between(draft[name[c]], c))
        BY <2>1 DEF OInv, Stamp
      <4>2. target[name[c]].profile \in Profile
            /\ (lmode[c] = "mtp" => draft[name[c]].profile \in Profile /\ draft[name[c]] # Absent)
        BY <3>2, <3>3, FileFacts
      <4> QED BY <2>1, <4>1, <4>2, Order DEF Between
    <3>5. ASSUME NEW d \in Shell PROVE Stamp(d)' /\ Checked(d)'
      <4>1. CASE d = c
        <5>1. lprofile[c] <= profile
          BY <2>1 DEF OInv, Stamp
        <5> QED BY <3>1, <3>4, <4>1, <5>1, PcFacts DEF Stamp, Checked
      <4>2. CASE d # c
        <5>1. /\ pc'[d] = pc[d] /\ name'[d] = name[d] /\ lmode'[d] = lmode[d]
              /\ pins'[d] = pins[d] /\ lprofile'[d] = lprofile[d] /\ Stamp(d) /\ Checked(d)
          BY <3>1, <4>2 DEF Others, OInv
        <5> QED BY <3>1, <5>1 DEF Stamp, Checked, Between, files, store
      <4> QED BY <4>1, <4>2
    <3>6. \A n \in Names : Pinned(n)'
      BY <3>1 DEF OInv, Pinned, store
    <3> QED BY <1>s, <1>t, <3>1, <3>5, <3>6 DEF OInv, Switches
  <2> QED BY <2>2, <2>3
<1>10. ASSUME NEW c \in Shell, SaveManifest(c) PROVE OInv'
  <2>1. /\ pc[c] = "save_manifest" /\ name[c] \in Names /\ pc[c] \in SavePc /\ lmode[c] \in Modes
    BY <1>10, <1>t, PcFacts, Numbers DEF SaveManifest, TInv, Locals, TypeOK, StoreType
  <2> DEFINE m == [mode |-> lmode[c], target |-> pins[c].target, draft |-> pins[c].draft,
                   identity |-> lprofile[c], hash |-> pins[c].hash]
  <2>2. /\ manifest' = [manifest EXCEPT ![name[c]] = m]
        /\ UNCHANGED <<profile, files, mode, running, slot, name, lmode, lprofile, pins>>
        /\ pc'[c] = "save_point" /\ Others(c)
    BY <1>10, <1>t DEF SaveManifest, TInv, TypeOK, ShellType, Goto, Others, srvVars
  <2>3. /\ m # NoManifest
        /\ m.identity = m.hash => /\ m.target.profile = m.hash
                                  /\ m.mode = "mtp" => m.draft.profile = m.hash
    BY <2>1, ModeFacts DEF OInv, Stamp, NoManifest
  <2> HIDE DEF m
  <2>4. manifest'[name[c]] = m /\ \A k \in Names \ {name[c]} : manifest'[k] = manifest[k]
    BY <2>1, <2>2, <1>t DEF TInv, TypeOK, StoreType
  <2>5. ASSUME NEW n \in Names PROVE Pinned(n)'
    <3>1. CASE n = name[c]
      BY <2>3, <2>4, <3>1 DEF Pinned
    <3>2. CASE n # name[c]
      BY <2>4, <3>2 DEF Pinned, OInv
    <3> QED BY <3>1, <3>2
  <2>6. ASSUME NEW d \in Shell PROVE Stamp(d)'
    <3>1. pins'[d] = pins[d] /\ lprofile'[d] = lprofile[d] /\ name'[d] = name[d] /\ lmode'[d] = lmode[d]
          /\ Stamp(d)
      BY <2>2 DEF OInv
    <3>2. CASE d = c
      BY <2>1, <2>2, <3>1, <3>2, PcFacts DEF Stamp
    <3>3. CASE d # c
      BY <2>2, <3>1, <3>3 DEF Stamp, Between, Others, files
    <3> QED BY <3>2, <3>3
  <2>7. ASSUME NEW d \in Shell PROVE Checked(d)'
    <3>1. CASE d = c
      BY <2>2, <3>1, PcFacts DEF Checked
    <3>2. CASE d # c /\ pc[d] \notin RestorePc
      BY <2>2, <3>2, PcFacts DEF Checked, Others
    <3>3. CASE d # c /\ pc[d] \in RestorePc
      <4>1. pc'[d] = pc[d] /\ name'[d] = name[d] /\ lmode'[d] = lmode[d] /\ Checked(d)
        BY <2>2, <3>3 DEF Others, OInv
      <4>2. name[d] \in Names
        BY <3>3, <1>t DEF TInv, Locals
      <4>3. manifest'[name[d]] # NoManifest
        BY <2>3, <2>4, <3>3, <4>1, <4>2 DEF Checked
      <4> QED BY <2>2, <4>1, <4>3 DEF Checked, files
    <3> QED BY <3>1, <3>2, <3>3
  <2> QED BY <1>s, <1>t, <2>2, <2>5, <2>6, <2>7 DEF OInv, Switches
<1>11. ASSUME NEW c \in Shell, SavePoint(c) PROVE OInv'
  <2>1. NoSaveMoves /\ NoRestoreMoves
        /\ UNCHANGED <<profile, files, manifest, mode, running, slot>>
    BY <1>11, <1>t, FinishMoves, FinishRestores DEF SavePoint, srvVars
  <2>2. ASSUME NEW d \in Shell PROVE Stamp(d)'
    <3>1. CASE pc'[d] \notin SavePc
      BY <3>1, PcFacts DEF Stamp
    <3>2. CASE pc'[d] \in SavePc
      <4>1. /\ pc'[d] = pc[d] /\ name'[d] = name[d] /\ lmode'[d] = lmode[d]
            /\ pins'[d] = pins[d] /\ lprofile'[d] = lprofile[d] /\ Stamp(d)
        BY <3>2, <2>1 DEF NoSaveMoves, OInv
      <4> QED BY <2>1, <4>1 DEF Stamp, Between, files
    <3> QED BY <3>1, <3>2
  <2>3. ASSUME NEW d \in Shell PROVE Checked(d)'
    <3>1. CASE pc'[d] \notin RestorePc
      BY <3>1, PcFacts DEF Checked
    <3>2. CASE pc'[d] \in RestorePc
      <4>1. pc'[d] = pc[d] /\ name'[d] = name[d] /\ lmode'[d] = lmode[d] /\ Checked(d)
        BY <3>2, <2>1 DEF NoRestoreMoves, OInv
      <4> QED BY <2>1, <4>1 DEF Checked, files
    <3> QED BY <3>1, <3>2
  <2>4. \A n \in Names : Pinned(n)'
    BY <2>1 DEF OInv, Pinned
  <2> QED BY <1>s, <1>t, <2>1, <2>2, <2>3, <2>4 DEF OInv, Switches
<1>12. ASSUME NEW c \in Shell, NEW n \in Names, RestoreBegin(c, n) PROVE OInv'
  <2>1. /\ UNCHANGED <<profile, files, store, mode, running, slot, pins, lprofile>>
        /\ pc'[c] = "restore_check" /\ lmode'[c] = mode /\ name'[c] = n /\ manifest[n] # NoManifest
        /\ \A d \in Shell \ {c} : pc'[d] = pc[d] /\ name'[d] = name[d] /\ lmode'[d] = lmode[d]
    BY <1>12, <1>t DEF RestoreBegin, srvVars, TInv, TypeOK, ShellType, Goto
  <2>2. ASSUME NEW d \in Shell PROVE Stamp(d)' /\ Checked(d)'
    <3>1. CASE d = c
      BY <2>1, <3>1, PcFacts DEF Stamp, Checked, store
    <3>2. CASE d # c
      <4>1. pc'[d] = pc[d] /\ name'[d] = name[d] /\ lmode'[d] = lmode[d] /\ Stamp(d) /\ Checked(d)
        BY <2>1, <3>2 DEF OInv
      <4> QED BY <2>1, <4>1 DEF Stamp, Checked, Between, files, store
    <3> QED BY <3>1, <3>2
  <2>3. \A k \in Names : Pinned(k)'
    BY <2>1 DEF OInv, Pinned, store
  <2> QED BY <1>s, <1>t, <2>1, <2>2, <2>3 DEF OInv, Switches
<1>13. ASSUME NEW c \in Shell, RestoreCheck(c) PROVE OInv'
  <2>1. CASE Finish(c)
    BY <1>13, <2>1, <1>s, <1>t, FinishMoves, FinishRestores, OwnCarry DEF RestoreCheck, srvVars
  <2>2. CASE ~Finish(c)
    <3> DEFINE m == manifest[name[c]]
    <3>1. /\ ProfileAgrees(m) /\ ModeAllowed(m, lmode[c]) /\ FilesAgree(name[c])
          /\ Goto(c, "restore_api") /\ UNCHANGED <<profile, srvVars, files, store, locals>>
          /\ pc[c] = "restore_check"
      BY <1>13, <2>2 DEF RestoreCheck
    <3>2. /\ pc'[c] = "restore_api" /\ UNCHANGED <<mode, running, slot, name, lmode, lprofile, pins>>
          /\ \A d \in Shell \ {c} : pc'[d] = pc[d]
      BY <3>1, <1>t DEF Goto, locals, srvVars, TInv, TypeOK, ShellType
    <3>3. /\ m # NoManifest /\ name[c] \in Names /\ (mode # "none" => lmode[c] = mode) /\ Pinned(name[c])
          /\ lmode[c] \in Modes
      BY <3>1, <1>t, PcFacts DEF OInv, Checked, TInv, Locals
    <3>4. /\ target[name[c]].profile = profile
          /\ m.mode = "mtp" => draft[name[c]].profile = profile
      BY <3>1, <3>3 DEF ProfileAgrees, FilesAgree, Pinned
    <3>5. lmode[c] = "mtp" => m.mode = "mtp"
      <4>1. m \in Manifest
        BY <3>3, <1>t DEF TInv, TypeOK, StoreType
      <4>2. m.mode \in Modes
        BY <4>1 DEF Manifest
      <4> QED BY <3>1, <4>2 DEF ModeAllowed, Modes
    <3>6. ASSUME NEW d \in Shell PROVE Stamp(d)' /\ Checked(d)'
      <4>1. CASE d = c
        BY <3>1, <3>2, <3>3, <3>4, <3>5, <4>1, PcFacts DEF Stamp, Checked, files, store
      <4>2. CASE d # c
        <5>1. pc'[d] = pc[d] /\ Stamp(d) /\ Checked(d)
          BY <3>2, <4>2 DEF OInv
        <5> QED BY <3>1, <3>2, <5>1 DEF Stamp, Checked, Between, files, store
      <4> QED BY <4>1, <4>2
    <3>7. \A n \in Names : Pinned(n)'
      BY <3>1 DEF OInv, Pinned, store
    <3> QED BY <1>s, <1>t, <3>1, <3>2, <3>6, <3>7 DEF OInv, Switches
  <2> QED BY <2>1, <2>2
<1>14. ASSUME NEW c \in Shell, RestoreApi(c) PROVE OInv'
  <2>1. Own'
    <3>1. CASE mode = "none"
      BY <1>14, <3>1 DEF RestoreApi, Own
    <3>2. CASE mode # "none" /\ ServerAccepts(name[c])
      <4>1. /\ target[name[c]].profile = profile /\ running = profile
            /\ mode = "mtp" => draft[name[c]].profile = profile
        BY <1>14, <3>2, PcFacts DEF RestoreApi, OInv, Checked, Own
      <4> QED BY <1>14, <3>2, <4>1 DEF RestoreApi, Own
    <3>3. CASE mode # "none" /\ ~ServerAccepts(name[c])
      <4>1. slot \in State
        BY <3>3, <1>t DEF TInv, Up
      <4>2. slot'.draft = slot.draft /\ slot'.profile = slot.profile
        BY <1>14, <3>3, <4>1 DEF RestoreApi, State
      <4> QED BY <1>14, <3>3, <4>2 DEF RestoreApi, Own, OInv
    <3> QED BY <3>1, <3>2, <3>3
  <2> QED BY <1>14, <1>t, <2>1, FinishMoves, FinishRestores, OwnCarry DEF RestoreApi
<1>15. CASE UNCHANGED vars
  BY <1>15, <1>s, <1>t, QuietMoves, QuietRestores, OwnCarry DEF vars, srvVars
<1> QED BY <1>1, <1>2, <1>3, <1>4, <1>5, <1>6, <1>7, <1>8, <1>9, <1>10, <1>11, <1>12, <1>13,
           <1>14, <1>15 DEF Next, Save, Restore

\* As long as the profile is not edited under a running server and no server
\* starts under a restore, a server holds only states of its own profile.
THEOREM SlotIsOwnHolds == ~CanEditLive /\ ~LaunchUnderRestore => (Spec => []SlotIsOwn)
<1>1. OInv => SlotIsOwn
  BY DEF OInv, Own, SlotIsOwn
<1>2. Switches /\ Init => OInv
  BY OwnInit
<1>3. Switches => (Spec => []SlotIsOwn)
  BY <1>1, <1>2, OwnStep, PTL DEF Spec
<1> QED BY <1>3 DEF Switches
=============================================================================
