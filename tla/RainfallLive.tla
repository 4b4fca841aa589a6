---------------------------- MODULE RainfallLive ----------------------------
(***************************************************************************)
(* fine/rainfall_live.py: the local server that turns submitted texts into *)
(* host transactions and runs every generation it issues on a worker       *)
(* thread.  It composes with RainfallHost, whose variables are the host    *)
(* directory: the server keeps no evidence of its own.                     *)
(*                                                                         *)
(* In one run of the server a generation has at most one worker, so Proc   *)
(* is Generation.  fine-rain-host commands may edit the same directory;    *)
(* commands that run or complete a generation are RainfallHost's concern.  *)
(***************************************************************************)
EXTENDS RainfallHost

CONSTANTS
  Submission,      \* texts a browser may submit
  ExternalEdits    \* may fine-rain-host advance/materialize meanwhile?

ASSUME LiveAssumption ==
  /\ Proc = Generation
  /\ ExternalEdits \in BOOLEAN

VARIABLES
  up,        \* is the server running?
  editor,    \* the request that holds _edit_lock, and how far it is
  spawned    \* worker threads started but not yet past their first section

live == <<up, editor, spawned>>
liveVars == <<display, current, gens, annotations, artifacts, traces, proc, crashes,
              up, editor, spawned>>

NoRequest == [phase |-> "idle"]

(* initialize_session on a directory that `init` just made.                *)
LiveInit ==
  /\ Init
  /\ up = TRUE
  /\ editor = NoRequest
  /\ spawned = {current}

-----------------------------------------------------------------------------
(* replace_source, under _edit_lock: one locked read of the host state ... *)
ReadState(text) ==
  /\ up /\ editor = NoRequest
  /\ LoadState
  /\ LET edits == MinimalEdit(Decode(display.source), text)
     IN  /\ edits # <<>>
         /\ editor' = [phase |-> "read", text |-> text, base |-> display, edits |-> edits]
  /\ UNCHANGED <<vars, up, spawned>>

(* ... then advance, a locked section of its own ...                       *)
SubmitEdit ==
  /\ editor.phase = "read"
  /\ AdvanceLocked(editor.edits)
  /\ editor' = [phase |-> "start", gen |-> current']
  /\ UNCHANGED <<up, spawned>>

(* ... whose errors end the request ...                                    *)
SubmitRefused ==
  /\ editor.phase = "read"
  /\ ~Acceptable(editor.edits)
  /\ editor' = NoRequest
  /\ UNCHANGED <<vars, up, spawned>>

(* ... then start_generation, and the lock is released.                    *)
StartGeneration ==
  /\ editor.phase = "start"
  /\ spawned' = spawned \cup {editor.gen}
  /\ editor' = NoRequest
  /\ UNCHANGED <<vars, up>>

(* A worker's run_generation enters its first section; a HostError there   *)
(* ends the thread.                                                        *)
WorkerRuns(g) ==
  /\ g \in spawned
  /\ spawned' = spawned \ {g}
  /\ \E path \in Path :
       Become(g, IF Loaded(g) THEN [pc |-> "solving", gen |-> g, trace |-> TraceOf(g, path)]
                 ELSE Idle)
  /\ UNCHANGED <<state, files, crashes, up, editor>>

FineExits(p) == FineFails(p) \/ FineSucceeds(p)
Records(p) == CompleteRecord(p) \/ CompleteRefused(p)

(* What is left of run_generation.                                         *)
Continue(g) ==
  /\ FineExits(g) \/ MarkFailed(g) \/ CompleteCheck(g) \/ Records(g)
  /\ UNCHANGED live

-----------------------------------------------------------------------------
(* The server dies with all its threads: between locked sections, inside   *)
(* the second section of a completion, or inside an advance.               *)
ThreadsDie ==
  /\ up /\ up' = FALSE
  /\ Crash
  /\ editor' = NoRequest
  /\ spawned' = {}
  /\ proc' = [g \in Proc |-> Idle]

ServerCrash ==
  /\ ThreadsDie
  /\ UNCHANGED <<state, files>>

ServerCrashInComplete(g) ==
  /\ ThreadsDie
  /\ proc[g].pc = "validated"
  /\ OrphanTrace(g, proc[g].trace)
  /\ UNCHANGED <<state, artifacts>>

ServerCrashInAdvance ==
  /\ ThreadsDie
  /\ editor.phase = "read" /\ Acceptable(editor.edits)
  /\ OrphanFiles
  /\ UNCHANGED <<state, traces>>

\* Mutant: a resumed session waits for the next edit.
ResumeWaiting ==
  /\ ~up /\ up' = TRUE
  /\ UNCHANGED <<vars, editor, spawned>>

(* initialize_session with --resume: the current generation is run again   *)
(* if it has no outcome yet.                                               *)
Resume ==
  /\ ~up /\ up' = TRUE
  /\ LoadState
  /\ spawned' = IF Open(current) THEN {current} ELSE {}
  /\ UNCHANGED <<vars, editor>>

-----------------------------------------------------------------------------
(* fine-rain-host advance or materialize on the same directory.            *)
Command ==
  /\ ExternalEdits
  /\ Materialize \/ \E edits \in EditInput : Advance(edits)
  /\ UNCHANGED live

LiveNext ==
  \/ \E text \in Submission : ReadState(text)
  \/ SubmitEdit \/ SubmitRefused \/ StartGeneration
  \/ \E g \in Generation : WorkerRuns(g) \/ Continue(g) \/ ServerCrashInComplete(g)
  \/ ServerCrash \/ ServerCrashInAdvance \/ Resume
  \/ Command

LiveSafety == LiveInit /\ [][LiveNext]_liveVars

(* Threads are scheduled and the flock is granted; Fine returns; a stopped *)
(* server is started again.  Nobody has to submit anything, and what has   *)
(* been read need not be submitted: no request exists before SubmitEdit.   *)
Fairness ==
  /\ WF_liveVars(StartGeneration)
  /\ WF_liveVars(Resume)
  /\ \A g \in Generation : WF_liveVars(WorkerRuns(g)) /\ WF_liveVars(Continue(g))

LiveSpec == LiveSafety /\ Fairness

-----------------------------------------------------------------------------
(* Type correctness of the server's own state.                             *)
LiveTypeOK ==
  /\ TypeOK
  /\ up \in BOOLEAN
  /\ spawned \subseteq Generation
  /\ editor \in
       [phase : {"read"}, text : Submission, base : Snapshot,
        edits : Seq([from : Nat, to : Nat, insert : Seq(Byte)])]
       \cup [phase : {"start"}, gen : Generation] \cup {NoRequest}

(* An accepted submission is what the host then displays, unless a command *)
(* edited the directory between the two sections of replace_source: the    *)
(* edit was derived in one and is applied in the other.                    *)
SubmittedIsDisplayed ==
  [][editor.phase = "read" /\ editor'.phase = "start" /\ display = editor.base
       => display'.source = Encode(editor.text)]_liveVars

(* No generation the server took on is left open while it is the current   *)
(* one: it is settled or superseded, whatever commands edit meanwhile, and *)
(* over a crash of the server in any step and its --resume.                *)
EveryRunIsAnswered ==
  \A g \in Generation :
    (g \in spawned \/ (editor.phase = "start" /\ editor.gen = g))
      ~> (gens[g].status # "requested")
=============================================================================
