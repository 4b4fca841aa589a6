------------------------- MODULE RainfallHostSafety -------------------------
(***************************************************************************)
(* What an editor may rely on, proved of RainfallHost for every instance:  *)
(* current markers are about the displayed text, outcomes are final, and   *)
(* the host implements DisplayedEvidence.                                  *)
(***************************************************************************)
EXTENDS RainfallHostProofs

(* state.json changes in three ways only: a transaction, a recorded        *)
(* completion, a recorded failure.                                         *)
LEMMA StateChanges ==
  ASSUME [Next]_vars
  PROVE  \/ \E edits : AdvanceLocked(edits)
         \/ \E p \in Proc : CompleteRecord(p) \/ MarkFailed(p)
         \/ UNCHANGED state
<1>1. CASE UNCHANGED vars
  BY <1>1 DEF vars, state
<1>2. ASSUME NEW edits, Advance(edits) \/ AdvanceCrash(edits)
      PROVE  AdvanceLocked(edits) \/ UNCHANGED state
  BY <1>2 DEF Advance, AdvanceCrash
<1>3. CASE Materialize
  BY <1>3 DEF Materialize
<1>4. CASE MaterializeCrash
  BY <1>4 DEF MaterializeCrash, AdvanceCrash
<1>5. ASSUME NEW p \in Proc,
             \/ Run(p) \/ FineFails(p) \/ FineSucceeds(p) \/ CompleteExternal(p)
             \/ CompleteCheck(p) \/ CompleteRefused(p) \/ CompleteCrash(p) \/ Kill(p)
      PROVE  UNCHANGED state
  BY <1>5 DEF Run, FineFails, FineSucceeds, CompleteExternal, CompleteCheck,
              CompleteRefused, CompleteCrash, Kill
<1> QED
  BY <1>1, <1>2, <1>3, <1>4, <1>5 DEF Next

(* A transported marker keeps its claim, is not current, and has a place   *)
(* only if it had one.                                                     *)
LEMMA TransportedMarkers ==
  ASSUME NEW a, NEW edits
  PROVE  LET b == TransportAnnotation(a, edits)
         IN  /\ b.claim = a.claim
             /\ b.status = IF b.span = <<>> THEN "unplaced" ELSE "transported"
             /\ b.status # "current"
             /\ b.span # <<>> => a.span # <<>>
  BY DEF TransportAnnotation, Unplaced

(* What a recorded completion does to the markers and to the records.      *)
LEMMA RecordedCompletion ==
  ASSUME TypeOK, NEW p \in Proc, CompleteRecord(p)
  PROVE  LET g == proc[p].gen
             t == proc[p].trace
             admitted == Admit(gens[current].request, t)
         IN  /\ g \in Generation /\ t \in Trace
             /\ Loaded(g) /\ traces[g] \in {NoTrace, t}
             /\ UNCHANGED <<display, current>>
             /\ gens' = [gens EXCEPT ![g] =
                           [status  |-> IF admitted THEN "admitted" ELSE "discarded",
                            request |-> gens[g].request]]
             /\ annotations' = IF admitted THEN Project(t) ELSE annotations
             /\ admitted => t.snapshot = display /\ t.run = current
<1> DEFINE g == proc[p].gen
           t == proc[p].trace
           admitted == Admit(gens[current].request, t)
           outcome == IF admitted THEN "admitted" ELSE "discarded"
<1>1. g \in Generation /\ t \in Trace
  BY StepTypes DEF CompleteRecord
<1>2. /\ Loaded(g) /\ traces[g] \in {NoTrace, t}
      /\ UNCHANGED <<display, current>>
      /\ gens' = [gens EXCEPT ![g].status = outcome]
      /\ annotations' = IF admitted THEN Project(t) ELSE annotations
  BY DEF CompleteRecord, Recordable
<1>3. admitted => t.snapshot = display /\ t.run = current
  BY <1>1, <1>2, AdmittedIsDisplayed DEF Loaded, Admit
<1>4. gens[g] \in Record
  BY <1>1, <1>2, KnownTypes DEF Loaded, Open, OpenStatus, Known
<1> HIDE DEF g, t, admitted
<1>5. [gens[g] EXCEPT !.status = outcome] = [status |-> outcome, request |-> gens[g].request]
  BY <1>4 DEF Record
<1>6. gens' = [gens EXCEPT ![g] = [status |-> outcome, request |-> gens[g].request]]
  BY <1>1, <1>2, <1>5 DEF TypeOK
<1> QED
  BY <1>1, <1>2, <1>3, <1>6 DEF g, t, admitted

-----------------------------------------------------------------------------
(* A marker shown as current is about exactly the displayed snapshot.      *)
THEOREM FreshEvidence == Spec => []EvidenceIsFresh
<1>1. Init => EvidenceIsFresh
  BY DEF Init, EvidenceIsFresh
<1>2. ASSUME TypeOK, EvidenceIsFresh, [Next]_vars
      PROVE  EvidenceIsFresh'
  <2>1. ASSUME NEW edits, AdvanceLocked(edits)
        PROVE  EvidenceIsFresh'
    BY <2>1, TransportedMarkers DEF AdvanceLocked, TransportAnnotations, EvidenceIsFresh
  <2>2. ASSUME NEW p \in Proc, CompleteRecord(p)
        PROVE  EvidenceIsFresh'
    <3> DEFINE t == proc[p].trace
    <3>1. CASE Admit(gens[current].request, t)
      <4>1. /\ t \in Trace /\ display' = display
            /\ annotations' = Project(t) /\ t.snapshot = display
        BY <1>2, <2>2, <3>1, RecordedCompletion
      <4> HIDE DEF t
      <4> QED
        BY <4>1, ProjectTypes DEF EvidenceIsFresh
    <3>2. CASE ~Admit(gens[current].request, t)
      <4>1. display' = display /\ annotations' = annotations
        BY <1>2, <2>2, <3>2, RecordedCompletion
      <4> QED
        BY <1>2, <4>1 DEF EvidenceIsFresh
    <3> QED
      BY <3>1, <3>2
  <2>3. ASSUME NEW p \in Proc, MarkFailed(p)
        PROVE  EvidenceIsFresh'
    BY <1>2, <2>3 DEF MarkFailed, EvidenceIsFresh
  <2>4. CASE UNCHANGED state
    BY <1>2, <2>4 DEF state, EvidenceIsFresh
  <2> QED
    BY <1>2, <2>1, <2>2, <2>3, <2>4, StateChanges
<1> QED
  BY <1>1, <1>2, TypeCorrect, PTL DEF Spec

(* The outcome of a generation is decided once.                            *)
THEOREM FinalOutcome == Spec => OutcomeIsFinal
<1>1. ASSUME TypeOK, [Next]_vars, NEW g \in Generation, gens[g].status \in FinalStatus
      PROVE  gens'[g] = gens[g]
  <2>1. ASSUME NEW edits, AdvanceLocked(edits)
        PROVE  gens'[g] = gens[g]
    <3>1. PICK n \in Fresh :
            gens' = [gens EXCEPT ![current] = Supersede(@),
                                 ![n] = [status |-> "requested", request |-> display']]
      BY <2>1 DEF AdvanceLocked
    <3>2. n # g
      BY <1>1 DEF Fresh, Known, FinalStatus
    <3>3. Supersede(gens[g]) = gens[g]
      BY <1>1 DEF Supersede, FinalStatus
    <3> QED
      BY <1>1, <3>1, <3>2, <3>3 DEF TypeOK
  <2>2. ASSUME NEW p \in Proc, CompleteRecord(p)
        PROVE  gens'[g] = gens[g]
    <3>1. proc[p].gen # g
      BY <1>1, <2>2, RecordedCompletion DEF Loaded, Open, OpenStatus, FinalStatus
    <3> QED
      BY <1>1, <2>2, <3>1, RecordedCompletion DEF TypeOK
  <2>3. ASSUME NEW p \in Proc, MarkFailed(p)
        PROVE  gens'[g] = gens[g]
    <3>1. Loaded(proc[p].gen) => proc[p].gen # g
      BY <1>1 DEF Loaded, Open, OpenStatus, FinalStatus
    <3> QED
      BY <1>1, <2>3, <3>1 DEF MarkFailed, TypeOK
  <2>4. CASE UNCHANGED state
    BY <2>4 DEF state
  <2> QED
    BY <1>1, <2>1, <2>2, <2>3, <2>4, StateChanges
<1>2. TypeOK /\ [Next]_vars =>
        [\A g \in Generation : gens[g].status \in FinalStatus => gens'[g] = gens[g]]_gens
  BY <1>1
<1> QED
  BY <1>2, TypeCorrect, PTL DEF Spec, OutcomeIsFinal

(* Generations, files, late solvers and crashes are invisible to an        *)
(* editor: what it sees of the markers is an edit that ages them all, or a *)
(* publication for the displayed snapshot.                                 *)
THEOREM Refinement == Spec => ImplementsDisplayedEvidence
<1>1. Init => Evidence!Init
  BY DEF Init, Evidence!Init
<1>2. ASSUME TypeOK, [Next]_vars
      PROVE  [Evidence!Next]_<<display, annotations>>
  <2>1. ASSUME NEW edits, AdvanceLocked(edits)
        PROVE  Evidence!Edit
    <3>1. /\ display'.revision = display.revision + 1
          /\ display'.document = display.document
      BY <1>2, <2>1 DEF AdvanceLocked, TypeOK, Snapshot
    <3>2. annotations' = {TransportAnnotation(a, edits) : a \in annotations}
      BY <2>1 DEF AdvanceLocked, TransportAnnotations
    <3>3. {y.claim : y \in annotations'} = {x.claim : x \in annotations}
      BY <3>2, TransportedMarkers
    <3>4. \A y \in annotations' : \E x \in annotations :
            /\ y.claim = x.claim
            /\ y.status = IF y.span # <<>> THEN "transported" ELSE "unplaced"
            /\ y.span # <<>> => x.span # <<>>
      BY <3>2, TransportedMarkers
    <3> QED
      BY <3>1, <3>3, <3>4 DEF Evidence!Edit, Evidence!Placed
  <2>2. ASSUME NEW p \in Proc, CompleteRecord(p)
        PROVE  Evidence!Publish \/ UNCHANGED <<display, annotations>>
    <3> DEFINE t == proc[p].trace
    <3>1. CASE Admit(gens[current].request, t)
      <4>1. /\ t \in Trace /\ display' = display
            /\ annotations' = Project(t) /\ t.snapshot = display
        BY <1>2, <2>2, <3>1, RecordedCompletion
      <4> HIDE DEF t
      <4> QED
        BY <4>1, ProjectTypes DEF Evidence!Publish
    <3>2. CASE ~Admit(gens[current].request, t)
      BY <1>2, <2>2, <3>2, RecordedCompletion
    <3> QED
      BY <3>1, <3>2
  <2>3. ASSUME NEW p \in Proc, MarkFailed(p)
        PROVE  UNCHANGED <<display, annotations>>
    BY <2>3 DEF MarkFailed
  <2>4. CASE UNCHANGED state
    BY <2>4 DEF state
  <2> QED
    BY <1>2, <2>1, <2>2, <2>3, <2>4, StateChanges DEF Evidence!Next
<1> QED
  BY <1>1, <1>2, TypeCorrect, PTL DEF Spec, ImplementsDisplayedEvidence, Evidence!Spec

-----------------------------------------------------------------------------
(* A request, once issued, is never forgotten or rewritten.                *)
LEMMA RequestsStay ==
  ASSUME TypeOK, [Next]_vars, NEW g \in Generation, Known(g)
  PROVE  Known(g)' /\ gens'[g].request = gens[g].request
<1>0. gens[g] \in Record
  BY KnownTypes
<1>1. ASSUME NEW edits, AdvanceLocked(edits)
      PROVE  Known(g)' /\ gens'[g].request = gens[g].request
  <2>1. PICK n \in Fresh :
          gens' = [gens EXCEPT ![current] = Supersede(@),
                               ![n] = [status |-> "requested", request |-> display']]
    BY <1>1 DEF AdvanceLocked
  <2>2. n # g
    BY DEF Fresh
  <2>3. gens'[g] \in {gens[g], Supersede(gens[g])}
    BY <2>1, <2>2 DEF TypeOK
  <2> QED
    BY <1>0, <2>3 DEF Supersede, Known, Record
<1>2. ASSUME NEW p \in Proc, CompleteRecord(p)
      PROVE  Known(g)' /\ gens'[g].request = gens[g].request
  <2>1. gens'[g] = gens[g] \/ \E s \in FinalStatus : gens'[g] = [status |-> s, request |-> gens[g].request]
    BY <1>2, RecordedCompletion DEF TypeOK, FinalStatus
  <2> QED
    BY <1>0, <2>1 DEF Known, FinalStatus
<1>3. ASSUME NEW p \in Proc, MarkFailed(p)
      PROVE  Known(g)' /\ gens'[g].request = gens[g].request
  <2>1. gens'[g] \in {gens[g], [gens[g] EXCEPT !.status = "failed"]}
    BY <1>3 DEF MarkFailed, TypeOK
  <2> QED
    BY <1>0, <2>1 DEF Known, Record
<1>4. CASE UNCHANGED state
  BY <1>4 DEF state, Known
<1> QED
  BY <1>1, <1>2, <1>3, <1>4, StateChanges

(* A process has a validated trace because it had it before, or because    *)
(* this step validated it.                                                 *)
LEMMA ValidatedBy ==
  ASSUME TypeOK, [Next]_vars, NEW q \in Proc, proc'[q].pc = "validated"
  PROVE  \/ proc'[q] = proc[q]
         \/ /\ Loaded(proc[q].gen)
            /\ proc[q].gen \in Generation
            /\ Valid(gens[proc[q].gen].request.source, proc[q].trace)
            /\ proc'[q].gen = proc[q].gen /\ proc'[q].trace = proc[q].trace
<1>1. CASE proc' = proc
  BY <1>1
<1>2. ASSUME NEW p \in Proc, NEW next, Become(p, next), next.pc # "validated"
      PROVE  proc'[q] = proc[q]
  BY <1>2 DEF Become, TypeOK
<1>3. ASSUME NEW p \in Proc, CompleteCheck(p), p = q
      PROVE  /\ Loaded(proc[q].gen)
             /\ proc[q].gen \in Generation
             /\ Valid(gens[proc[q].gen].request.source, proc[q].trace)
             /\ proc'[q].gen = proc[q].gen /\ proc'[q].trace = proc[q].trace
  <2>1. /\ proc[q].gen \in Generation
        /\ proc[q] = [pc |-> proc[q].pc, gen |-> proc[q].gen, trace |-> proc[q].trace]
    BY <1>3, StepTypes DEF CompleteCheck
  <2>2. proc'[q] = IF Loaded(proc[q].gen) /\ Valid(gens[proc[q].gen].request.source, proc[q].trace)
                     THEN [proc[q] EXCEPT !.pc = "validated"] ELSE Idle
    BY <1>3 DEF CompleteCheck, Become, TypeOK
  <2> QED
    BY <2>1, <2>2 DEF Idle
<1>4. ASSUME NEW p \in Proc, CompleteCheck(p), p # q
      PROVE  proc'[q] = proc[q]
  BY <1>4 DEF CompleteCheck, Become, TypeOK
<1>5. ASSUME NEW p \in Proc, FineSucceeds(p)
      PROVE  proc'[q] = proc[q]
  <2>1. [proc[p] EXCEPT !.pc = "completing"].pc = "completing"
    BY <1>5, StepTypes DEF FineSucceeds
  <2> QED
    BY <1>2, <1>5, <2>1 DEF FineSucceeds
<1>6. ASSUME NEW p \in Proc, Run(p) \/ FineFails(p) \/ CompleteExternal(p)
      PROVE  proc'[q] = proc[q]
  BY <1>2, <1>6 DEF Run, FineFails, CompleteExternal
<1>7. ASSUME NEW p \in Proc,
             MarkFailed(p) \/ CompleteRecord(p) \/ CompleteRefused(p) \/ CompleteCrash(p) \/ Kill(p)
      PROVE  proc'[q] = proc[q]
  <2>1. Become(p, Idle)
    BY <1>7 DEF MarkFailed, CompleteRecord, CompleteRefused, CompleteCrash, Kill
  <2> QED
    BY <1>2, <2>1 DEF Idle
<1>8. ASSUME NEW edits, AdvanceLocked(edits) \/ AdvanceCrash(edits)
      PROVE  proc' = proc
  BY <1>8 DEF AdvanceLocked, AdvanceCrash
<1> QED
  BY <1>1, <1>3, <1>4, <1>5, <1>6, <1>7, <1>8
  DEF Next, vars, Advance, Materialize, MaterializeCrash

(* The source a trace was validated against is still the one its record    *)
(* names when the completion takes the lock again.                         *)
THEOREM StableChecks == Spec => []ChecksStayTrue
<1>1. Init => ChecksStayTrue
  BY DEF Init, ChecksStayTrue
<1>2. ASSUME TypeOK, ChecksStayTrue, [Next]_vars
      PROVE  ChecksStayTrue'
  <2> SUFFICES ASSUME NEW q \in Proc, proc'[q].pc = "validated"
               PROVE  /\ gens'[proc'[q].gen].status # "none"
                      /\ proc'[q].trace.snapshot.source = gens'[proc'[q].gen].request.source
    BY DEF ChecksStayTrue, Valid, Known
  <2>1. /\ proc'[q].gen = proc[q].gen /\ proc'[q].trace = proc[q].trace
        /\ proc[q].gen \in Generation
        /\ Known(proc[q].gen) /\ Valid(gens[proc[q].gen].request.source, proc[q].trace)
    BY <1>2, ValidatedBy, StepTypes DEF ChecksStayTrue, Loaded, Open, OpenStatus, Known
  <2>2. /\ gens'[proc[q].gen].status # "none"
        /\ gens'[proc[q].gen].request = gens[proc[q].gen].request
    BY <1>2, <2>1, RequestsStay DEF Known
  <2> QED
    BY <2>1, <2>2 DEF Valid
<1> QED
  BY <1>1, <1>2, TypeCorrect, PTL DEF Spec

(* Files of a token that state.json names are not written again.           *)
LEMMA ArtifactsStay ==
  ASSUME TypeOK, [Next]_vars, NEW g \in Generation, gens[g].status # "none"
  PROVE  artifacts'[g] = artifacts[g]
<1>1. ASSUME OrphanFiles
      PROVE  artifacts'[g] = artifacts[g]
  BY <1>1 DEF OrphanFiles, Fresh, Known, TypeOK
<1>2. ASSUME NEW edits, AdvanceLocked(edits) \/ AdvanceCrash(edits)
      PROVE  artifacts'[g] = artifacts[g]
  BY <1>1, <1>2 DEF AdvanceLocked, AdvanceCrash, Fresh, Known, TypeOK
<1>3. ASSUME NEW p \in Proc,
             \/ Run(p) \/ FineFails(p) \/ FineSucceeds(p) \/ CompleteExternal(p)
             \/ MarkFailed(p) \/ CompleteCheck(p) \/ CompleteRecord(p)
             \/ CompleteRefused(p) \/ CompleteCrash(p) \/ Kill(p)
      PROVE  artifacts' = artifacts
  BY <1>3 DEF Run, FineFails, FineSucceeds, CompleteExternal, MarkFailed, CompleteCheck,
              CompleteRecord, CompleteRefused, CompleteCrash, Kill, files
<1> QED
  BY <1>2, <1>3 DEF Next, vars, Advance, Materialize, MaterializeCrash

(* The trace of a settled generation is not written again.                 *)
LEMMA TracesStay ==
  ASSUME TypeOK, [Next]_vars, NEW g \in Generation,
         gens[g].status \in {"admitted", "discarded"}
  PROVE  traces'[g] = traces[g]
<1>1. ASSUME NEW p \in Proc, CompleteRecord(p) \/ CompleteCrash(p)
      PROVE  traces'[g] = traces[g]
  <2>1. Open(proc[p].gen)
    BY <1>1 DEF CompleteRecord, CompleteCrash, OrphanTrace, Recordable, Loaded
  <2>2. proc[p].gen # g
    BY <2>1 DEF Open, OpenStatus
  <2> QED
    BY <1>1, <2>2 DEF CompleteRecord, CompleteCrash, OrphanTrace, TypeOK
<1>2. ASSUME NEW edits, AdvanceLocked(edits) \/ AdvanceCrash(edits)
      PROVE  traces' = traces
  BY <1>2 DEF AdvanceLocked, AdvanceCrash
<1>3. ASSUME NEW p \in Proc,
             \/ Run(p) \/ FineFails(p) \/ FineSucceeds(p) \/ CompleteExternal(p)
             \/ MarkFailed(p) \/ CompleteCheck(p) \/ CompleteRefused(p) \/ Kill(p)
      PROVE  traces' = traces
  BY <1>3 DEF Run, FineFails, FineSucceeds, CompleteExternal, MarkFailed, CompleteCheck,
              CompleteRefused, Kill, files
<1> QED
  BY <1>1, <1>2, <1>3 DEF Next, vars, Advance, Materialize, MaterializeCrash

(* state.json never names a file that was not completely written before    *)
(* it, whatever is torn by crashes: ChecksStayTrue is the strengthening,   *)
(* because a completion retains the trace it validated in an earlier       *)
(* section.                                                                *)
THEOREM DurableFiles == Spec => []NamedFilesAreDurable
<1>1. Init => NamedFilesAreDurable
  BY DEF Init, NamedFilesAreDurable, NoRecord, Known
<1>2. ASSUME TypeOK, ChecksStayTrue, NamedFilesAreDurable, [Next]_vars
      PROVE  NamedFilesAreDurable'
  <2> SUFFICES ASSUME NEW g \in Generation
               PROVE  /\ gens'[g].status # "none" => artifacts'[g] = "durable"
                      /\ gens'[g].status \in {"admitted", "discarded"} =>
                           /\ traces'[g].state = "whole"
                           /\ traces'[g].snapshot.source = gens'[g].request.source
    BY DEF NamedFilesAreDurable, Known, Valid
  <2> DEFINE settled == {"admitted", "discarded"}
  <2>0. /\ gens[g].status # "none" => artifacts[g] = "durable"
        /\ gens[g].status \in settled =>
             traces[g].state = "whole" /\ traces[g].snapshot.source = gens[g].request.source
    BY <1>2 DEF NamedFilesAreDurable, Known, Valid
  <2>1. ASSUME NEW edits, AdvanceLocked(edits)
        PROVE  /\ gens'[g].status # "none" => artifacts'[g] = "durable"
               /\ gens'[g].status \in settled => gens'[g] = gens[g] /\ traces' = traces
    <3>1. PICK n \in Fresh :
            /\ gens' = [gens EXCEPT ![current] = Supersede(@),
                                    ![n] = [status |-> "requested", request |-> display']]
            /\ artifacts' = [artifacts EXCEPT ![n] = "durable"]
      BY <2>1 DEF AdvanceLocked
    <3>2. Known(current)
      BY <2>1 DEF AdvanceLocked, Acceptable, LoadState
    <3>3. CASE n = g
      BY <1>2, <3>1, <3>3 DEF TypeOK
    <3>4. CASE n # g
      <4>1. gens'[g] = IF g = current THEN Supersede(gens[g]) ELSE gens[g]
        BY <1>2, <3>1, <3>4 DEF TypeOK
      <4>2. artifacts'[g] = artifacts[g]
        BY <1>2, <3>1, <3>4 DEF TypeOK
      <4>3. g = current => gens[g] \in Record
        BY <1>2, <3>2, KnownTypes
      <4>4. gens'[g] = gens[g] \/ (gens'[g].status = "superseded" /\ gens[g].status = "requested")
        BY <4>1, <4>3 DEF Supersede, Record
      <4> QED
        BY <2>0, <2>1, <4>2, <4>4 DEF AdvanceLocked
    <3> QED
      BY <3>3, <3>4
  <2>2. ASSUME NEW p \in Proc, CompleteRecord(p)
        PROVE  /\ gens'[g].status # "none" => artifacts'[g] = "durable"
               /\ gens'[g].status \in settled =>
                    /\ traces'[g].state = "whole"
                    /\ traces'[g].snapshot.source = gens'[g].request.source
    <3> DEFINE t == proc[p].trace
    <3>1. /\ proc[p].gen \in Generation /\ t \in Trace /\ Loaded(proc[p].gen)
          /\ traces[proc[p].gen] \in {NoTrace, t}
      BY <1>2, <2>2, RecordedCompletion
    <3>2. artifacts' = artifacts
      BY <2>2 DEF CompleteRecord
    <3>3. CASE g = proc[p].gen
      <4>1. traces'[g] = t
        BY <1>2, <2>2, <3>1, <3>3 DEF CompleteRecord, TypeOK
      <4>2. gens[g].status # "none" /\ t.snapshot.source = gens[g].request.source
        BY <1>2, <2>2, <3>3 DEF CompleteRecord, ChecksStayTrue, Known, Valid
      <4>3. gens'[g].request = gens[g].request
        BY <1>2, <4>2, RequestsStay DEF Known
      <4>4. t.state = "whole"
        BY <3>1 DEF Trace
      <4> QED
        BY <2>0, <3>2, <4>1, <4>2, <4>3, <4>4
    <3>4. CASE g # proc[p].gen
      <4>1. gens'[g] = gens[g]
        BY <1>2, <2>2, <3>4, RecordedCompletion DEF TypeOK
      <4>2. traces'[g] = traces[g]
        BY <1>2, <2>2, <3>1, <3>4 DEF CompleteRecord, TypeOK
      <4> QED
        BY <2>0, <3>2, <4>1, <4>2
    <3> QED
      BY <3>3, <3>4
  <2>3. ASSUME NEW p \in Proc, MarkFailed(p)
        PROVE  /\ gens'[g].status # "none" => artifacts'[g] = "durable"
               /\ gens'[g].status \in settled => gens'[g] = gens[g] /\ traces' = traces
    <3>1. gens'[g] = gens[g] \/ (Open(g) /\ gens'[g] = [gens[g] EXCEPT !.status = "failed"])
      BY <1>2, <2>3 DEF MarkFailed, TypeOK, Loaded
    <3>2. Open(g) => gens[g] \in Record /\ gens[g].status # "none"
      BY <1>2, KnownTypes DEF Open, OpenStatus, Known
    <3>3. gens'[g] = gens[g] \/ (gens'[g].status = "failed" /\ gens[g].status # "none")
      BY <3>1, <3>2 DEF Record
    <3> QED
      BY <2>0, <2>3, <3>3 DEF MarkFailed, files
  <2>4. CASE gens' = gens
    <3>1. gens[g].status # "none" => artifacts'[g] = artifacts[g]
      BY <1>2, <2>4, ArtifactsStay
    <3>2. gens[g].status \in settled => traces'[g] = traces[g]
      BY <1>2, <2>4, TracesStay
    <3> QED
      BY <2>0, <2>4, <3>1, <3>2
  <2> QED
    BY <1>2, <2>0, <2>1, <2>2, <2>3, <2>4, StateChanges DEF state
<1> QED
  BY <1>1, <1>2, TypeCorrect, StableChecks, PTL DEF Spec
=============================================================================
