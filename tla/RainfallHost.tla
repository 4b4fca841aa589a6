---------------------------- MODULE RainfallHost ----------------------------
(***************************************************************************)
(* fine/rainfall_host.py and fine/rainfall_generation.py: the directory    *)
(* that owns a displayed Fine document, the generations requested for it   *)
(* and the evidence painted on it, and the processes that work on it.      *)
(*                                                                         *)
(* Every section of the code under the host's flock is one action: no      *)
(* other process sees the inside of it.  A crash inside one is an action   *)
(* of its own, which leaves state.json as it was and whatever files had    *)
(* been written by then.  Solver runs and trace validation happen outside  *)
(* the lock, so a process is between two sections while others act.        *)
(***************************************************************************)
EXTENDS RainfallEdits, FiniteSets

CONSTANTS
  Generation,      \* generation tokens (secrets.token_hex); bounds the revisions
  Proc,            \* processes and threads that run or complete a generation
  Path,            \* spellings of the host directory; Fine records the one it got
  Document,        \* document identifiers a trace may carry
  InitialSource,   \* sources `init` may be given
  EditInput,       \* transactions `advance` may be given, malformed ones included
  ForeignTraces,   \* may `complete` be handed a trace of another request?
  TornWrites,      \* may a crash leave a file half written?
  MaxCrashes       \* bound on the number of crashes

ASSUME HostAssumption ==
  /\ ForeignTraces \in BOOLEAN
  /\ TornWrites \in BOOLEAN
  /\ MaxCrashes \in Nat

VARIABLES
  display,      \* display_snapshot and display_source of state.json
  current,      \* current_generation
  gens,         \* generations: status and request of each
  annotations,  \* annotations
  artifacts,    \* how much of sources/ and requests/ is written for a token
  traces,       \* traces/: the file retained for a token
  proc,         \* what each process holds between two locked sections
  crashes       \* crashes so far

state == <<display, current, gens, annotations>>
files == <<artifacts, traces>>
vars == <<display, current, gens, annotations, artifacts, traces, proc, crashes>>

-----------------------------------------------------------------------------
Snapshot == [document : Document, revision : Nat, source : Seq(Byte)]

OpenStatus == {"requested", "superseded"}
FinalStatus == {"admitted", "discarded", "failed"}

NoRecord == [status |-> "none"]
Record == [status : OpenStatus \cup FinalStatus, request : Snapshot]

Known(g) == gens[g].status # "none"
Open(g) == gens[g].status \in OpenStatus

(* Files are written in place, source first; only then may state.json name them. *)
Progress == {"absent", "source-torn", "source", "request-torn", "durable"}

NoTrace == [state |-> "absent"]
TornTrace == [state |-> "torn"]
Trace == [state : {"whole"}, run : Generation, snapshot : Snapshot, path : Path]

\* Mutant: the arguments of a run are taken from the display, not from its request.
TraceOfDisplay(g, path) ==
  [state |-> "whole", run |-> g, snapshot |-> display, path |-> path]

(* The bytes `fine rain` prints depend on its arguments alone: the request *)
(* of a generation, and the path through which it got the source file.     *)
TraceOf(g, path) ==
  [state |-> "whole", run |-> g, snapshot |-> gens[g].request, path |-> path]

(* Fine's answer, as far as the host looks into it: the spans its evidence *)
(* is about, and the text it found for each hole.                          *)
Claims(source) ==
  (IF source = <<>> THEN {} ELSE {<<0, Len(source)>>})
  \cup {<<i - 1, i>> : i \in {j \in DOMAIN source : source[j] = "?"}}

Holes(source) == SetToSortSeq({i \in DOMAIN source : source[i] = "?"}, <)

Replacements(source) ==
  [n \in DOMAIN Holes(source) |->
     Edit(Holes(source)[n] - 1, Holes(source)[n], <<"b", "b">>)]

-----------------------------------------------------------------------------
(* validate, as far as it compares a trace with a retained source.         *)
Valid(source, t) == t.snapshot.source = source

(* project with no edits: every evidence edge becomes a current annotation. *)
Project(t) ==
  {[claim  |-> [run |-> t.run, snapshot |-> t.snapshot, span |-> s],
    span   |-> s,
    status |-> "current"] : s \in Claims(t.snapshot.source)}

\* Mutant: a trace of the displayed text is taken for one of the displayed revision.
AdmitSameText(request, t) ==
  /\ display.source = request.source
  /\ t.snapshot.document = request.document
  /\ t.snapshot.source = request.source

\* Mutant: an identical generation name is taken for an identical snapshot.
AdmitByRun(request, t) ==
  /\ display.source = request.source
  /\ t.run = current

(* admit: the display must still be what the current request names, and    *)
(* the trace must be of that generation and of that very snapshot.         *)
Admit(request, t) ==
  /\ display.source = request.source
  /\ t.run = current
  /\ t.snapshot.document = request.document
  /\ t.snapshot.revision = request.revision
  /\ t.snapshot.source = request.source

TransportAnnotation(a, edits) ==
  LET span == IF a.span = Unplaced THEN Unplaced
              ELSE TransportRange(a.span[1], a.span[2], edits)
  IN  [claim  |-> a.claim,
       span   |-> span,
       status |-> IF span = Unplaced THEN "unplaced" ELSE "transported"]

TransportAnnotations(edits) == {TransportAnnotation(a, edits) : a \in annotations}

(* load_state, which opens every locked section: the current request names *)
(* the display, and every annotation has a span inside it or none.         *)
LoadState ==
  /\ Known(current)
  /\ gens[current].request = display
  /\ \A a \in annotations :
       IF a.status = "unplaced" THEN a.span = Unplaced
       ELSE /\ a.span # Unplaced
            /\ 0 <= a.span[1] /\ a.span[1] < a.span[2]
            /\ a.span[2] <= Len(display.source)

(* A section that loads the state and goes on only if g is still open.     *)
Loaded(g) == LoadState /\ Open(g)

Fresh == {g \in Generation : ~Known(g) /\ artifacts[g] = "absent"}

-----------------------------------------------------------------------------
(* initialize: revision 0 and its first request.                           *)
Init ==
  \E source \in InitialSource, document \in Document, g \in Generation :
    /\ IsUtf8(source)
    /\ display = [document |-> document, revision |-> 0, source |-> source]
    /\ current = g
    /\ gens = [h \in Generation |->
                 IF h = g THEN [status |-> "requested", request |-> display] ELSE NoRecord]
    /\ annotations = {}
    /\ artifacts = [h \in Generation |-> IF h = g THEN "durable" ELSE "absent"]
    /\ traces = [h \in Generation |-> NoTrace]
    /\ proc = [p \in Proc |-> [pc |-> "idle"]]
    /\ crashes = 0

(* What advance and _advance_locked check before they change anything.     *)
Acceptable(edits) ==
  /\ LoadState
  /\ LoadEdits(edits, Len(display.source))
  /\ edits # <<>>
  /\ IsUtf8(ApplyEdits(display.source, edits))

\* Mutant: a superseded record is rebuilt without its request.
SupersedeBare(record) ==
  IF record.status = "requested" THEN [status |-> "superseded"] ELSE record

Supersede(record) ==
  IF record.status = "requested" THEN [record EXCEPT !.status = "superseded"] ELSE record

(* _advance_locked: the next revision is displayed, the old request is     *)
(* superseded, every annotation is transported, a new request is issued.   *)
AdvanceLocked(edits) ==
  /\ Acceptable(edits)
  /\ display' = [display EXCEPT !.revision = @ + 1, !.source = ApplyEdits(@, edits)]
  /\ annotations' = TransportAnnotations(edits)
  /\ \E g \in Fresh :
       /\ current' = g
       /\ gens' = [gens EXCEPT ![current] = Supersede(@),
                               ![g] = [status |-> "requested", request |-> display']]
       /\ artifacts' = [artifacts EXCEPT ![g] = "durable"]
  /\ UNCHANGED <<traces, proc, crashes>>

\* Mutant: an admitted annotation is carried over an edit unchanged.
AdvanceKeepingCurrent(edits) ==
  /\ Acceptable(edits)
  /\ display' = [display EXCEPT !.revision = @ + 1, !.source = ApplyEdits(@, edits)]
  /\ UNCHANGED annotations
  /\ \E g \in Fresh :
       /\ current' = g
       /\ gens' = [gens EXCEPT ![current] = Supersede(@),
                               ![g] = [status |-> "requested", request |-> display']]
       /\ artifacts' = [artifacts EXCEPT ![g] = "durable"]
  /\ UNCHANGED <<traces, proc, crashes>>

Advance(edits) == AdvanceLocked(edits)

Crash == crashes < MaxCrashes /\ crashes' = crashes + 1

\* Mutant: state.json is replaced before the files it names are written.
AdvanceCrashSavedFirst(edits) ==
  /\ Acceptable(edits)
  /\ Crash
  /\ \E g \in Fresh, done \in Progress \ {"absent"} :
       /\ done \in {"source-torn", "request-torn"} => TornWrites
       /\ display' = [display EXCEPT !.revision = @ + 1, !.source = ApplyEdits(@, edits)]
       /\ current' = g
       /\ gens' = [gens EXCEPT ![current] = Supersede(@),
                               ![g] = [status |-> "requested", request |-> display']]
       /\ annotations' = TransportAnnotations(edits)
       /\ artifacts' = [artifacts EXCEPT ![g] = done]
  /\ UNCHANGED <<traces, proc>>

(* What a crash inside _issue_generation leaves: files no state.json names. *)
OrphanFiles ==
  \E g \in Fresh, done \in Progress \ {"absent"} :
    /\ done \in {"source-torn", "request-torn"} => TornWrites
    /\ artifacts' = [artifacts EXCEPT ![g] = done]

(* A crash inside _advance_locked, before the rename of state.json.        *)
AdvanceCrash(edits) ==
  /\ Acceptable(edits)
  /\ Crash
  /\ OrphanFiles
  /\ UNCHANGED <<state, traces, proc>>

(* materialize: the admitted witness of the current generation, re-read    *)
(* from its retained trace, is one more transaction.                       *)
Witness == Replacements(traces[current].snapshot.source)

Materializable ==
  /\ LoadState
  /\ gens[current].status = "admitted"
  /\ traces[current].state = "whole"
  /\ Valid(display.source, traces[current])
  /\ Witness # <<>>
  /\ \A n \in DOMAIN Witness : display.source[Witness[n].from + 1] = "?"

Materialize == Materializable /\ AdvanceLocked(Witness)

MaterializeCrash == Materializable /\ AdvanceCrash(Witness)

-----------------------------------------------------------------------------
Become(p, next) == proc' = [proc EXCEPT ![p] = next]
Idle == [pc |-> "idle"]

(* run_generation, first section: any open generation may be run, the      *)
(* current one by default, and by several processes at once.               *)
Run(p) ==
  /\ proc[p].pc = "idle"
  /\ \E g \in Generation, path \in Path :
       /\ Loaded(g)
       /\ Become(p, [pc |-> "solving", gen |-> g, trace |-> TraceOf(g, path)])
  /\ UNCHANGED <<state, files, crashes>>

(* The subprocess exits: nonzero, or with a whole trace.                   *)
FineFails(p) ==
  /\ proc[p].pc = "solving"
  /\ Become(p, [pc |-> "failing", gen |-> proc[p].gen])
  /\ UNCHANGED <<state, files, crashes>>

FineSucceeds(p) ==
  /\ proc[p].pc = "solving"
  /\ Become(p, [proc[p] EXCEPT !.pc = "completing"])
  /\ UNCHANGED <<state, files, crashes>>

(* What an external worker may hand to `complete` for generation g.        *)
KnownRequests == {gens[h].request : h \in {x \in Generation : Known(x)}}

ExternalTraces(g) ==
  IF ForeignTraces
    THEN {[state |-> "whole", run |-> h, path |-> path,
           snapshot |-> [document |-> d, revision |-> r.revision, source |-> s.source]] :
            h \in {x \in Generation : Known(x)}, path \in Path, d \in Document,
            r \in KnownRequests, s \in KnownRequests}
    ELSE {TraceOf(g, path) : path \in Path}

(* `complete` from the command line.                                       *)
CompleteExternal(p) ==
  /\ proc[p].pc = "idle"
  /\ \E g \in {x \in Generation : Known(x)} : \E t \in ExternalTraces(g) :
       Become(p, [pc |-> "completing", gen |-> g, trace |-> t])
  /\ UNCHANGED <<state, files, crashes>>

(* mark_failed, or HostError when the generation was settled meanwhile.    *)
MarkFailed(p) ==
  /\ proc[p].pc = "failing"
  /\ gens' = IF Loaded(proc[p].gen)
               THEN [gens EXCEPT ![proc[p].gen].status = "failed"] ELSE gens
  /\ Become(p, Idle)
  /\ UNCHANGED <<display, current, annotations, files, crashes>>

\* Mutant: the trace is not validated against the retained source.
CompleteCheckUnvalidated(p) ==
  /\ proc[p].pc = "completing"
  /\ Become(p, IF Loaded(proc[p].gen) THEN [proc[p] EXCEPT !.pc = "validated"] ELSE Idle)
  /\ UNCHANGED <<state, files, crashes>>

(* complete, first section and the validation that follows it: the         *)
(* retained source is immutable, so it is not copied.                      *)
CompleteCheck(p) ==
  /\ proc[p].pc = "completing"
  /\ LET g == proc[p].gen
     IN  Become(p, IF Loaded(g) /\ Valid(gens[g].request.source, proc[p].trace)
                     THEN [proc[p] EXCEPT !.pc = "validated"] ELSE Idle)
  /\ UNCHANGED <<state, files, crashes>>

\* Mutant: the status is not looked at again after the lock was released.
RecordableUnchecked(g, t) == LoadState /\ traces[g] \in {NoTrace, t}

\* Mutant: any trace already there is taken for the one to retain.
RecordableUncompared(g, t) == Loaded(g)

\* Mutant: a trace file already there is always an error.
RecordableNoOrphan(g, t) == Loaded(g) /\ traces[g] = NoTrace

(* The guards of complete's second section: the generation is still open,  *)
(* and a trace already retained for it has the same bytes.                 *)
Recordable(g, t) == Loaded(g) /\ traces[g] \in {NoTrace, t}

(* complete, second section: admission against the newest display and      *)
(* request, the trace file, and _record_completion.                        *)
CompleteRecord(p) ==
  /\ proc[p].pc = "validated"
  /\ LET g == proc[p].gen
         t == proc[p].trace
         admitted == Admit(gens[current].request, t)
     IN  /\ Recordable(g, t)
         /\ traces' = [traces EXCEPT ![g] = IF @ = NoTrace THEN t ELSE @]
         /\ gens' = [gens EXCEPT ![g].status = IF admitted THEN "admitted" ELSE "discarded"]
         /\ annotations' = IF admitted THEN Project(t) ELSE annotations
  /\ Become(p, Idle)
  /\ UNCHANGED <<display, current, artifacts, crashes>>

(* HostError instead: the completion is dropped, nothing is recorded.      *)
CompleteRefused(p) ==
  /\ proc[p].pc = "validated"
  /\ ~Recordable(proc[p].gen, proc[p].trace)
  /\ Become(p, Idle)
  /\ UNCHANGED <<state, files, crashes>>

(* What a crash inside _record_completion leaves: the trace file, whole or *)
(* in the middle of being written, and the state.json of before.           *)
OrphanTrace(g, t) ==
  /\ Recordable(g, t)
  /\ traces[g] = NoTrace
  /\ \E left \in {t} \cup (IF TornWrites THEN {TornTrace} ELSE {}) :
       traces' = [traces EXCEPT ![g] = left]

CompleteCrash(p) ==
  /\ proc[p].pc = "validated"
  /\ OrphanTrace(proc[p].gen, proc[p].trace)
  /\ Crash
  /\ Become(p, Idle)
  /\ UNCHANGED <<state, artifacts>>

(* A process dies outside every locked section.                            *)
Kill(p) ==
  /\ proc[p].pc # "idle"
  /\ Crash
  /\ Become(p, Idle)
  /\ UNCHANGED <<state, files>>

-----------------------------------------------------------------------------
Next ==
  \/ \E edits \in EditInput : Advance(edits) \/ AdvanceCrash(edits)
  \/ Materialize
  \/ MaterializeCrash
  \/ \E p \in Proc :
       \/ Run(p) \/ FineFails(p) \/ FineSucceeds(p) \/ CompleteExternal(p)
       \/ MarkFailed(p) \/ CompleteCheck(p) \/ CompleteRecord(p)
       \/ CompleteRefused(p) \/ CompleteCrash(p) \/ Kill(p)

Spec == Init /\ [][Next]_vars

-----------------------------------------------------------------------------
Span == {Unplaced} \cup (Nat \X Nat)

Step == [pc : {"solving", "completing", "validated"}, gen : Generation, trace : Trace]
        \cup [pc : {"failing"}, gen : Generation] \cup {Idle}

(* Type correctness of what state.json, the files and the processes hold.  *)
(* Where a transported span may lie is HostStateLoads' concern.            *)
TypeOK ==
  /\ display \in Snapshot
  /\ current \in Generation
  /\ gens \in [Generation -> Record \cup {NoRecord}]
  /\ \A a \in annotations :
       /\ a.status \in {"current", "transported", "unplaced"}
       /\ a.claim \in [run : Generation, snapshot : Snapshot, span : Span]
  /\ artifacts \in [Generation -> Progress]
  /\ traces \in [Generation -> Trace \cup {NoTrace, TornTrace}]
  /\ proc \in [Proc -> Step]
  /\ crashes \in 0..MaxCrashes

(* A marker shown as current is about exactly the displayed revision and   *)
(* text, whatever edits, late solvers, duplicate runs and crashes          *)
(* interleave (admit and _transport_annotations).                          *)
EvidenceIsFresh ==
  \A a \in annotations : a.status = "current" => a.claim.snapshot = display

(* The live page's headline is true (rainfall_live.py:112): markers are    *)
(* current exactly while the current generation is recorded as admitted,   *)
(* and then they are all of that generation.                               *)
CurrentMeansAdmitted ==
  \A a \in annotations :
    /\ a.status = "current" <=> gens[current].status = "admitted"
    /\ a.status = "current" => a.claim.run = current

(* What `complete` established before it released the lock is still true   *)
(* when it takes the lock again: validate ran against the source that the  *)
(* record names now.                                                       *)
ChecksStayTrue ==
  \A p \in Proc :
    proc[p].pc = "validated" =>
      /\ Known(proc[p].gen)
      /\ Valid(gens[proc[p].gen].request.source, proc[p].trace)

(* Without foreign traces, what a process carries from its first section   *)
(* to its last is the trace of the very request the host still records,    *)
(* and the current request is never the superseded one.                    *)
RunsKeepTheirRequest ==
  /\ gens[current].status # "superseded"
  /\ \A p \in Proc :
       proc[p].pc \in {"solving", "completing", "validated"} =>
         /\ Known(proc[p].gen)
         /\ proc[p].trace.run = proc[p].gen
         /\ proc[p].trace.snapshot = gens[proc[p].gen].request

(* Every state.json the host writes is one that load_state accepts, so no  *)
(* sequence of edits, materializations and completions locks the host out. *)
HostStateLoads == LoadState

(* state.json names only files that were completely written before it.     *)
NamedFilesAreDurable ==
  \A g \in Generation :
    /\ Known(g) => artifacts[g] = "durable"
    /\ gens[g].status \in {"admitted", "discarded"} =>
         /\ traces[g].state = "whole"
         /\ Valid(gens[g].request.source, traces[g])

(* An orphan left by a crash between the trace file and state.json does    *)
(* not get in the way: a validated completion of an open generation is     *)
(* always recordable.                                                      *)
OrphanTraceIsTolerated ==
  \A p \in Proc :
    proc[p].pc = "validated" /\ Open(proc[p].gen) => Recordable(proc[p].gen, proc[p].trace)

(* The outcome of a generation is decided once: two runs, a run and an     *)
(* external completion, or a failure and a completion never overwrite each *)
(* other (the status is checked again after the lock was released).        *)
OutcomeIsFinal ==
  [][\A g \in Generation : gens[g].status \in FinalStatus => gens'[g] = gens[g]]_gens

(* A generation is admitted only while it is the current one, and then its *)
(* request is what is displayed; a superseded one never is.                *)
OnlyCurrentIsAdmitted ==
  [][\A g \in Generation :
       gens'[g].status = "admitted" /\ gens[g].status # "admitted" =>
         g = current /\ gens[g] = [status |-> "requested", request |-> display']]_gens

(* "A late completion is retained as historical trace plus a discarded     *)
(* record but does not touch displayed annotations" (ARCHITECTURE.md:579): *)
(* what `complete` records under a superseded generation is a discard.     *)
LateCompletionIsDiscarded ==
  [][\A g \in Generation :
       gens[g].status = "superseded" /\ gens'[g].status \in {"admitted", "discarded"} =>
         gens'[g].status = "discarded" /\ UNCHANGED annotations]_vars

(* The markers an editor sees behave as DisplayedEvidence says: edits only *)
(* age them, only a completion for the displayed snapshot makes them       *)
(* current, and it replaces them whole.  A late completion, a failure or a *)
(* crash is a stuttering step.                                             *)
Evidence == INSTANCE DisplayedEvidence WITH doc <- display, shown <- annotations

ImplementsDisplayedEvidence == Evidence!Spec
=============================================================================
