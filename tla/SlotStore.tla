------------------------------ MODULE SlotStore ------------------------------
(***************************************************************************)
(* The slot checkpoints of the daily profile: the `save` and `restore`      *)
(* commands of scripts/q3ple_daily_profile.py, the slot files that          *)
(* llama-server writes and reads for them (the patched save and restore of  *)
(* one slot), the versioned manifests, and the pointer latest.json.         *)
(* What the two commands do to server.json is in module DailyLifecycle.     *)
(*                                                                         *)
(* A slot state is a prompt, the profile of the server that computed it and *)
(* the profile of the server that computed its draft half.  The bytes, the  *)
(* hash and the token vector of a file all stand for its content.  A        *)
(* profile stands for everything a manifest copies from the profile file.   *)
(***************************************************************************)
EXTENDS Naturals

CONSTANTS
    Shell,      \* the operator's shells
    Prompt,
    Profile,    \* numbered, to tell a new profile from a revert
    MaxSaves,   \* bound: basenames ever allocated
    CanBreak,   \* a command may be interrupted, a server save may fail
    MaxDamage,  \* bound: slot files lost, cut or replaced from outside
    CanEditLive,        \* the profile file may be edited while a server runs
    LaunchUnderRestore  \* a server may be started while a restore runs

ASSUME BoundAssumption == MaxSaves \in Nat /\ MaxDamage \in Nat
ASSUME PromptAssumption == Prompt \cap {"none", "absent", "torn"} = {}
ASSUME ProfileAssumption == Profile \subseteq Nat \ {0}
ASSUME SwitchAssumption ==
    {CanBreak, CanEditLive, LaunchUnderRestore} \subseteq BOOLEAN

VARIABLES
    profile,        \* what the profile file says
    mode, running,  \* the server's mode and the profile it was started with
    slot,           \* the state of its slot 0
    target, draft,  \* the slot files, by basename
    manifest, latest,   \* the manifests, by basename, and latest.json
    last,           \* basenames allocated so far
    damage,         \* slot files damaged so far
    pc, lmode, lprofile, name, pins     \* each shell: its position and locals

srvVars == <<mode, running, slot>>
files == <<target, draft>>
store == <<manifest, latest>>
locals == <<lmode, lprofile, name, pins>>
vars == <<profile, srvVars, files, store, last, damage, pc, locals>>

Names == 1..MaxSaves
NoName == 0
NoProfile == 0
Modes == {"mtp", "target"}

\* A slot without tokens saves and restores like any other.  A file cut after
\* its token vector still shows the prompt.
Prompts == Prompt \cup {"empty"}
State == [prompt : Prompts, profile : Profile, draft : Profile \cup {NoProfile}]
NoState == [prompt |-> "none", profile |-> NoProfile, draft |-> NoProfile]
Absent == [prompt |-> "absent", profile |-> NoProfile]
Torn == [prompt |-> "torn", profile |-> NoProfile]
Cut(p) == [prompt |-> p, profile |-> NoProfile]
File == [prompt : Prompts, profile : Profile \cup {NoProfile}] \cup {Absent, Torn}
Readable(f) == f.prompt \in Prompts
Whole(f) == Readable(f) /\ f.profile # NoProfile

\* identity is what the manifest copies from the profile as loaded at the
\* start of the save; hash is that of the profile file, taken at the check.
NoManifest == [mode |-> "none", target |-> Absent, draft |-> Absent,
               identity |-> NoProfile, hash |-> NoProfile]
Manifest == [mode : Modes, target : File, draft : File, identity : Profile, hash : Profile]
Pins == [target : File, draft : File, hash : Profile \cup {NoProfile}]
NoPins == [target |-> Absent, draft |-> Absent, hash |-> NoProfile]

SavePc == {"save_api", "save_check", "save_manifest", "save_point"}
RestorePc == {"restore_check", "restore_api"}
PcSet == {"idle"} \cup SavePc \cup RestorePc

Fresh(m) == [prompt |-> "empty", profile |-> profile,
             draft |-> IF m = "mtp" THEN profile ELSE NoProfile]

Init ==
    /\ profile \in Profile
    /\ mode = "none" /\ running = NoProfile /\ slot = NoState
    /\ target = [n \in Names |-> Absent] /\ draft = [n \in Names |-> Absent]
    /\ manifest = [n \in Names |-> NoManifest] /\ latest = NoName
    /\ last = 0 /\ damage = 0
    /\ pc = [c \in Shell |-> "idle"]
    /\ lmode = [c \in Shell |-> "none"] /\ lprofile = [c \in Shell |-> NoProfile]
    /\ name = [c \in Shell |-> NoName] /\ pins = [c \in Shell |-> NoPins]

-----------------------------------------------------------------------------
(* The server, the operator and the disk *)

Launch(m) ==
    /\ mode = "none"
    /\ LaunchUnderRestore \/ \A c \in Shell : pc[c] \notin RestorePc
    /\ mode' = m /\ running' = profile /\ slot' = Fresh(m)
    /\ UNCHANGED <<profile, files, store, last, damage, pc, locals>>

Exit ==
    /\ mode # "none"
    /\ mode' = "none" /\ running' = NoProfile /\ slot' = NoState
    /\ UNCHANGED <<profile, files, store, last, damage, pc, locals>>

\* A request; it builds on what the slot holds.
Infer(p) ==
    /\ mode # "none"
    /\ slot' = [slot EXCEPT !.prompt = p]
    /\ UNCHANGED <<profile, mode, running, files, store, last, damage, pc, locals>>

\* While a command runs the profile is not edited back to an earlier one.
EditProfile(p) ==
    /\ CanEditLive \/ mode = "none"
    /\ p > profile \/ \A c \in Shell : pc[c] = "idle"
    /\ profile' = p
    /\ UNCHANGED <<srvVars, files, store, last, damage, pc, locals>>

Broken(f) == {Absent, Torn} \cup (IF Readable(f) THEN {Cut(f.prompt)} ELSE {})

\* A file of a basename is lost, cut, torn or overwritten by another slot file;
\* not before a save has hashed it, nor after a restore has.
Damage(n) ==
    /\ damage < MaxDamage /\ damage' = damage + 1 /\ n <= last
    /\ \A c \in Shell : name[c] = n => pc[c] \in {"save_manifest", "save_point", "restore_check"}
    /\ \/ \E f \in Broken(target[n]) \cup {target[k] : k \in Names} :
             target' = [target EXCEPT ![n] = f] /\ UNCHANGED draft
       \/ \E f \in Broken(draft[n]) \cup {draft[k] : k \in Names} :
             draft' = [draft EXCEPT ![n] = f] /\ UNCHANGED target
    /\ UNCHANGED <<profile, srvVars, store, last, pc, locals>>

-----------------------------------------------------------------------------
(* Steps of the commands *)

Goto(c, to) == pc' = [pc EXCEPT ![c] = to]

Finish(c) ==
    /\ Goto(c, "idle")
    /\ lmode' = [lmode EXCEPT ![c] = "none"]
    /\ lprofile' = [lprofile EXCEPT ![c] = NoProfile]
    /\ name' = [name EXCEPT ![c] = NoName]
    /\ pins' = [pins EXCEPT ![c] = NoPins]

\* Interrupted between two steps, or a step of it raised.
Abandon(c) ==
    /\ CanBreak /\ pc[c] # "idle"
    /\ Finish(c)
    /\ UNCHANGED <<profile, srvVars, files, store, last, damage>>

\* _require_owned_state and _slot_basename, whose time stamp makes the name new.
Mutant_SaveBegin_profile_not_loaded(c) ==
    /\ pc[c] = "idle" /\ mode # "none"
    /\ last < MaxSaves /\ last' = last + 1
    /\ lmode' = [lmode EXCEPT ![c] = mode]
    /\ name' = [name EXCEPT ![c] = last + 1]
    /\ pc' = [pc EXCEPT ![c] = "save_api"]
    /\ UNCHANGED <<profile, srvVars, files, store, damage, lprofile, pins>>
SaveBegin(c) ==
    /\ pc[c] = "idle" /\ mode # "none"
    /\ last < MaxSaves
    /\ last' = last + 1
    /\ lmode' = [lmode EXCEPT ![c] = mode]
    /\ lprofile' = [lprofile EXCEPT ![c] = profile]
    /\ name' = [name EXCEPT ![c] = last + 1]
    /\ Goto(c, "save_api")
    /\ UNCHANGED <<profile, srvVars, files, store, damage, pins>>

\* The server's save: with a draft context the .dft file first, then the slot
\* file.
TargetHalf == [prompt |-> slot.prompt, profile |-> slot.profile]
DraftHalf == [prompt |-> slot.prompt, profile |-> slot.draft]
ServerWrites(n) ==
    /\ target' = [target EXCEPT ![n] = TargetHalf]
    /\ draft' = IF mode = "mtp" THEN [draft EXCEPT ![n] = DraftHalf] ELSE draft
ServerStopsShort(n) ==
    \/ /\ mode = "mtp"
       /\ \E d \in Broken(DraftHalf) : draft' = [draft EXCEPT ![n] = d]
       /\ UNCHANGED target
    \/ /\ draft' = IF mode = "mtp" THEN [draft EXCEPT ![n] = DraftHalf] ELSE draft
       /\ \E t \in Broken(TargetHalf) : target' = [target EXCEPT ![n] = t]

Mutant_SaveApi_error_ignored(c) ==
    /\ pc[c] = "save_api" /\ mode # "none"
    /\ ServerWrites(name[c]) \/ (CanBreak /\ ServerStopsShort(name[c]))
    /\ Goto(c, "save_check")
    /\ UNCHANGED <<profile, srvVars, store, last, damage, locals>>
SaveApi(c) ==
    /\ pc[c] = "save_api"
    /\ \/ /\ mode # "none" /\ ServerWrites(name[c])
          /\ Goto(c, "save_check") /\ UNCHANGED locals
       \/ CanBreak /\ mode # "none" /\ ServerStopsShort(name[c]) /\ Finish(c)
       \/ mode = "none" /\ Finish(c) /\ UNCHANGED files
    /\ UNCHANGED <<profile, srvVars, store, last, damage>>

\* _parse_target and parse_slot_pair look at the envelope and the token
\* vectors.
Mutant_Paired_one_file(c) == Readable(target[name[c]])
Paired(c) ==
    /\ Readable(target[name[c]])
    /\ lmode[c] = "mtp" =>
          /\ Readable(draft[name[c]])
          /\ draft[name[c]].prompt = target[name[c]].prompt
SaveCheck(c) ==
    /\ pc[c] = "save_check"
    /\ IF Paired(c)
       THEN /\ pins' = [pins EXCEPT ![c] =
                          [target |-> target[name[c]], hash |-> profile,
                           draft |-> IF lmode[c] = "mtp" THEN draft[name[c]] ELSE Absent]]
            /\ Goto(c, "save_manifest")
            /\ UNCHANGED <<lmode, lprofile, name>>
       ELSE Finish(c)
    /\ UNCHANGED <<profile, srvVars, files, store, last, damage>>

SaveManifest(c) ==
    /\ pc[c] = "save_manifest"
    /\ manifest' = [manifest EXCEPT ![name[c]] =
                      [mode |-> lmode[c], target |-> pins[c].target, draft |-> pins[c].draft,
                       identity |-> lprofile[c], hash |-> pins[c].hash]]
    /\ Goto(c, "save_point")
    /\ UNCHANGED <<profile, srvVars, files, latest, last, damage, lmode, lprofile, name, pins>>

SavePoint(c) ==
    /\ pc[c] = "save_point"
    /\ latest' = name[c]
    /\ Finish(c)
    /\ UNCHANGED <<profile, srvVars, files, manifest, last, damage>>

\* _require_owned_state and _manifest_path: the manifest named by --manifest,
\* or the one latest.json points to.
RestoreBegin(c, n) ==
    /\ pc[c] = "idle" /\ mode # "none"
    /\ manifest[n] # NoManifest
    /\ lmode' = [lmode EXCEPT ![c] = mode]
    /\ name' = [name EXCEPT ![c] = n]
    /\ Goto(c, "restore_check")
    /\ UNCHANGED <<profile, srvVars, files, store, last, damage, lprofile, pins>>

\* _validate_manifest: a target server takes an mtp manifest, whose draft
\* file is checked all the same.
Mutant_ProfileAgrees_hash_only(m) == m.hash = profile
ProfileAgrees(m) == m.hash = profile /\ m.identity = profile
Mutant_ModeAllowed_any(m, running_mode) == TRUE
ModeAllowed(m, running_mode) == ~(running_mode = "mtp" /\ m.mode = "target")
FilesAgree(n) ==
    /\ target[n] = manifest[n].target
    /\ manifest[n].mode = "mtp" => /\ draft[n] = manifest[n].draft
                                   /\ draft[n].prompt = target[n].prompt
RestoreCheck(c) ==
    /\ pc[c] = "restore_check"
    /\ \E requested_mode \in Modes \cup {"any"} :
       LET m == manifest[name[c]]
       IN  IF /\ ProfileAgrees(m)
              /\ requested_mode \in {lmode[c], "any"}
              /\ ModeAllowed(m, lmode[c])
              /\ FilesAgree(name[c])
           THEN Goto(c, "restore_api") /\ UNCHANGED locals
           ELSE Finish(c)
    /\ UNCHANGED <<profile, srvVars, files, store, last, damage>>

\* The server's restore.  With a draft context it wants the .dft file too, of
\* the same tokens; a restore that fails may leave the slot empty.
ServerAccepts(n) ==
    /\ Whole(target[n])
    /\ mode = "mtp" => Whole(draft[n]) /\ draft[n].prompt = target[n].prompt
RestoreApi(c) ==
    /\ pc[c] = "restore_api"
    /\ slot' \in IF mode = "none" THEN {slot}
                ELSE IF ServerAccepts(name[c])
                THEN {[prompt |-> target[name[c]].prompt, profile |-> target[name[c]].profile,
                       draft |-> IF mode = "mtp" THEN draft[name[c]].profile ELSE NoProfile]}
                ELSE {slot, [slot EXCEPT !.prompt = "empty"]}
    /\ Finish(c)
    /\ UNCHANGED <<profile, mode, running, files, store, last, damage>>

-----------------------------------------------------------------------------

Save(c) ==
    SaveBegin(c) \/ SaveApi(c) \/ SaveCheck(c) \/ SaveManifest(c) \/ SavePoint(c)
Restore(c) ==
    (\E n \in Names : RestoreBegin(c, n)) \/ RestoreCheck(c) \/ RestoreApi(c)

Next ==
    \/ \E m \in Modes : Launch(m)
    \/ Exit
    \/ \E p \in Prompt : Infer(p)
    \/ \E p \in Profile : EditProfile(p)
    \/ \E n \in Names : Damage(n)
    \/ \E c \in Shell : Save(c) \/ Restore(c) \/ Abandon(c)

Spec == Init /\ [][Next]_vars

-----------------------------------------------------------------------------
(* Properties *)

ServerType ==
    /\ profile \in Profile
    /\ mode \in Modes \cup {"none"} /\ running \in Profile \cup {NoProfile}
    /\ slot \in State \cup {NoState}
StoreType ==
    /\ target \in [Names -> File] /\ draft \in [Names -> File]
    /\ manifest \in [Names -> Manifest \cup {NoManifest}]
    /\ latest \in Names \cup {NoName} /\ last \in 0..MaxSaves /\ damage \in 0..MaxDamage
ShellType ==
    /\ pc \in [Shell -> PcSet]
    /\ lmode \in [Shell -> Modes \cup {"none"}]
    /\ lprofile \in [Shell -> Profile \cup {NoProfile}]
    /\ name \in [Shell -> Names \cup {NoName}]
    /\ pins \in [Shell -> Pins]
TypeOK == ServerType /\ StoreType /\ ShellType

\* The files a manifest pins are a checkpoint: a whole target, and for an MTP
\* save a whole draft of the same prompt.
Checkpoint(m) ==
    /\ Whole(m.target)
    /\ m.mode = "mtp" => Whole(m.draft) /\ m.draft.prompt = m.target.prompt

\* latest.json never points to half a checkpoint: whatever step of whatever
\* save was interrupted, whatever the server left behind when it failed, and
\* even if the server was replaced by one of the other mode in the middle of
\* the save, the manifest it names exists and pins whole files that belong
\* together; nothing but damage changes them afterwards.
LatestIsWhole ==
    latest # NoName =>
        /\ manifest[latest] # NoManifest
        /\ Checkpoint(manifest[latest])
        /\ damage = 0 => FilesAgree(latest)

\* A server never holds a state that a server of another profile computed,
\* neither in the target nor in the draft half: not through an old checkpoint,
\* an edit of the profile in the middle of a save, files lost or exchanged on
\* disk, or a stray .dft beside a target-only save.
SlotIsOwn ==
    mode # "none" =>
        /\ slot.profile = running
        /\ mode = "mtp" => slot.draft = running
=============================================================================
