---------------------------- MODULE OwnedSession ----------------------------
(* A llama-server that a script owns (scripts/q3ple_agentic_cache_probe.py, *)
(* 446-683 and the request helpers behind them): its process, the monitor   *)
(* thread beside it, the port, and slot 0 of whoever answers on the port.   *)
(*                                                                          *)
(* A token vector is a sequence of texts, pieces of the corpus.  A slot, or *)
(* a slot file, is [held, other]: held is a sequence of [text, by], by      *)
(* being the server that evaluated the piece, and other says that tokens    *)
(* follow that belong to nobody's prompt.  The answers of a server tell the *)
(* number of tokens it reused, never who evaluated them.                    *)
EXTENDS Naturals, Sequences, FiniteSets

CONSTANTS
    MaxServer,     \* servers ever started
    CanIntrude     \* other clients and other servers use the port

ASSUME SessionAssumption == MaxServer \in Nat \ {0} /\ CanIntrude \in BOOLEAN

Servers == 1 .. MaxServer
NoOne   == 0                   \* no session, or nobody on the port
Foreign == MaxServer + 1       \* another program's server
Unknown == MaxServer + 2       \* evaluated by nobody we know

VARIABLES
    session,    \* the server the script holds a ServerSession of
    process,    \* each server's process
    port,       \* who answers on the port
    slot,       \* its slot 0
    watched,    \* servers whose monitor thread runs
    violated,   \* servers whose session has a recorded violation
    late        \* servers whose monitor thread outlived close()

own == <<session, process, port, slot, watched, violated, late>>

(***************************************************************************)
(* Contents and counts.                                                    *)
(***************************************************************************)
Piece   == [text : Nat, by : Servers \cup {Foreign, Unknown}]
Content == [held : Seq(Piece), other : BOOLEAN]
Empty   == [held |-> <<>>, other |-> FALSE]
Absent  == [held |-> <<>>, other |-> TRUE]     \* no file, or one cut short

Texts(content) == [i \in DOMAIN content.held |-> content.held[i].text]

\* common_token_prefix_length: how much of the prompt a slot holds.
CommonPrefix(content, prompt) ==
    CHOOSE k \in 0 .. Len(prompt) :
        /\ k <= Len(content.held)
        /\ \A i \in 1 .. k : content.held[i].text = prompt[i]
        /\ k < Len(prompt) /\ k < Len(content.held)
              => content.held[k + 1].text # prompt[k + 1]

\* The slot after its server, by, answered the prompt and reused c pieces.
Evaluated(content, prompt, c, by) ==
    [held  |-> [i \in DOMAIN prompt |->
                   IF i <= c THEN content.held[i]
                   ELSE [text |-> prompt[i], by |-> by]],
     other |-> FALSE]

Spoil(content) ==
    [content EXCEPT !.held =
        [i \in DOMAIN content.held |-> [content.held[i] EXCEPT !.by = Unknown]]]

(***************************************************************************)
(* The port, and the programs around the script.                           *)
(***************************************************************************)
OwnInit ==
    /\ session = NoOne /\ process = [s \in Servers |-> "none"]
    /\ port = NoOne /\ slot = Empty /\ watched = {} /\ violated = {} /\ late = {}

PortFree == port = NoOne

Alive(s) == process[s] \in {"up", "dying"}

\* The server takes its port.
ServerBinds(s) ==
    /\ process[s] = "up" /\ PortFree
    /\ port' = s /\ slot' = Empty
    /\ UNCHANGED <<session, process, watched, violated, late>>

\* A process ends, by itself or because it was told to.
ServerEnds(s) ==
    /\ Alive(s) /\ process' = [process EXCEPT ![s] = "down"]
    /\ IF port = s THEN port' = NoOne /\ slot' = Empty ELSE UNCHANGED <<port, slot>>
    /\ UNCHANGED <<session, watched, violated, late>>

ForeignServer ==
    /\ CanIntrude /\ UNCHANGED <<session, process, watched, violated, late>>
    /\ slot' = Empty
    /\ \/ PortFree /\ port' = Foreign
       \/ port = Foreign /\ port' = NoOne

\* Another client of our server: some of what the slot held stays.
OtherRequest ==
    /\ CanIntrude /\ port \in Servers /\ slot.held # <<>>
    /\ \E k \in 0 .. Len(slot.held) :
          slot' = [held |-> SubSeq(slot.held, 1, k), other |-> TRUE]
    /\ UNCHANGED <<session, process, port, watched, violated, late>>

(***************************************************************************)
(* ServerSession: launch, monitor, close.                                  *)
(***************************************************************************)
\* launch_server: Popen, the session, its monitor thread.
LaunchServer(s) ==
    /\ process[s] = "none" /\ session = NoOne
    /\ process' = [process EXCEPT ![s] = "up"]
    /\ session' = s /\ watched' = watched \cup {s}
    /\ UNCHANGED <<port, slot, violated, late>>

\* The constructor, the thread or the assignment raises after Popen: the
\* process runs and nobody holds it.
LaunchLeaks(s) ==
    /\ process[s] = "none" /\ session = NoOne
    /\ process' = [process EXCEPT ![s] = "up"]
    /\ UNCHANGED <<session, port, slot, watched, violated, late>>

\* _monitor: a limit is passed, the sample or the working-set cap fails.  A
\* thread that close() did not wait for may come to it late.  One that ends
\* because the write of a sample raised is a thread that never comes to it.
Violation(s) ==
    /\ s \in watched /\ watched' = watched \ {s}
    /\ violated' = violated \cup {s}
    /\ process' = [process EXCEPT ![s] = IF @ = "up" THEN "dying" ELSE @]
    /\ UNCHANGED <<session, port, slot, late>>

\* stop_owned_process: terminate, wait, kill, wait.
StopOwned(s) ==
    /\ process' = [process EXCEPT ![s] = "down"]
    /\ IF port = s THEN port' = NoOne /\ slot' = Empty ELSE UNCHANGED <<port, slot>>

\* The second wait runs out: the process will end, but it has not.
StopTimesOut(s) ==
    /\ Alive(s) /\ process' = [process EXCEPT ![s] = "dying"]
    /\ UNCHANGED <<port, slot>>

Mutant_Close ==
    /\ session # NoOne /\ StopOwned(session)
    /\ watched' \in {watched, watched \ {session}}
    /\ late' = late \cup (watched' \cap {session})
    /\ UNCHANGED <<session, violated>>

\* ServerSession.close: the monitor is given two seconds.
Close ==
    /\ session # NoOne /\ StopOwned(session)
    /\ watched' \in {watched, watched \ {session}}
    /\ late' = late \cup (watched' \cap {session})
    /\ session' = NoOne /\ UNCHANGED violated

\* It raises: the script still holds the session.
CloseRaises ==
    /\ session # NoOne
    /\ StopTimesOut(session) \/ StopOwned(session)
    /\ watched' = watched \ {session} /\ UNCHANGED <<session, violated, late>>

\* wait_ready: no violation, our process runs, and somebody is healthy.
SessionReady ==
    /\ session # NoOne /\ session \notin violated
    /\ Alive(session) /\ ~PortFree

(***************************************************************************)
(* Requests.                                                               *)
(***************************************************************************)
\* POST /completion without output: the answer says c pieces were reused.
CompletePrefix(prompt, c) ==
    /\ ~PortFree /\ c <= CommonPrefix(slot, prompt) /\ c < Len(prompt)
    /\ slot' = Evaluated(slot, prompt, c, port)
    /\ UNCHANGED <<session, process, port, watched, violated, late>>

\* completion_with_output: the prompt, a query behind it, and an answer.
CompleteQuery(prompt, c) ==
    /\ ~PortFree /\ c <= CommonPrefix(slot, prompt)
    /\ slot' = [Evaluated(slot, prompt, c, port) EXCEPT !.other = TRUE]
    /\ UNCHANGED <<session, process, port, watched, violated, late>>

\* slot_restore into the server on the port, which knows our directory only
\* if it is ours.
RestoreFrom(file) ==
    /\ port = session /\ session # NoOne /\ file # Absent /\ slot' = file
    /\ UNCHANGED <<session, process, port, watched, violated, late>>

\* slot_save: n_saved counts every token of the slot.
Saved(content, count) ==
    IF content.other THEN count > Len(content.held) ELSE count = Len(content.held)

Environment ==
    \/ \E s \in Servers : \/ ServerBinds(s) \/ ServerEnds(s)
                          \/ Violation(s)
    \/ ForeignServer \/ OtherRequest

OwnTypeOK ==
    /\ session \in Servers \cup {NoOne}
    /\ process \in [Servers -> {"none", "up", "dying", "down"}]
    /\ port \in Servers \cup {NoOne, Foreign}
    /\ slot \in Content
    /\ watched \subseteq Servers /\ violated \subseteq Servers
    /\ late \subseteq Servers
=============================================================================
