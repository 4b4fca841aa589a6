------------------------- MODULE RainfallHostProofs -------------------------
(***************************************************************************)
(* Proofs about RainfallHost for every number of generations, processes,   *)
(* documents and paths, and for every set of sources and transactions.     *)
(***************************************************************************)
EXTENDS RainfallHost, TLAPS

(* Validated evidence sits on the text it was found in: the spans a trace  *)
(* claims are well formed, so project publishes well-typed markers.        *)
LEMMA ProjectTypes ==
  ASSUME NEW t \in Trace, NEW a \in Project(t)
  PROVE  /\ a.status = "current"
         /\ a.claim \in [run : Generation, snapshot : Snapshot, span : Span]
         /\ a.claim.run = t.run
         /\ a.claim.snapshot = t.snapshot
         /\ a.span = a.claim.span
<1>1. PICK s \in Claims(t.snapshot.source) :
        a = [claim  |-> [run |-> t.run, snapshot |-> t.snapshot, span |-> s],
             span   |-> s, status |-> "current"]
  BY DEF Project
<1>2. t.run \in Generation /\ t.snapshot \in Snapshot /\ t.snapshot.source \in Seq(Byte)
  BY DEF Trace, Snapshot
<1>3. s \in Nat \X Nat
  BY <1>2 DEF Claims
<1> QED
  BY <1>1, <1>2, <1>3 DEF Span

(* admit accepts a trace only for the displayed snapshot, field by field.  *)
LEMMA AdmittedIsDisplayed ==
  ASSUME TypeOK, LoadState, NEW t \in Trace, Admit(gens[current].request, t)
  PROVE  t.snapshot = display
<1>1. t.snapshot \in Snapshot /\ display \in Snapshot /\ gens[current].request = display
  BY DEF TypeOK, LoadState, Trace
<1>2. /\ t.snapshot.document = display.document
      /\ t.snapshot.revision = display.revision
      /\ t.snapshot.source = display.source
  BY <1>1 DEF Admit
<1> QED
  BY <1>1, <1>2 DEF Snapshot

(* A process between two sections holds a generation and a trace.          *)
LEMMA StepTypes ==
  ASSUME TypeOK, NEW p \in Proc
  PROVE  /\ proc[p].pc \in {"solving", "completing", "validated"} =>
              /\ proc[p].gen \in Generation
              /\ proc[p].trace \in Trace
              /\ proc[p] = [pc |-> proc[p].pc, gen |-> proc[p].gen, trace |-> proc[p].trace]
         /\ proc[p].pc = "failing" => proc[p].gen \in Generation
<1>1. proc[p] \in Step
  BY DEF TypeOK
<1> QED
  BY <1>1 DEF Step, Idle

(* A known generation has a record with a request.                         *)
LEMMA KnownTypes ==
  ASSUME TypeOK, NEW g \in Generation, Known(g)
  PROVE  gens[g] \in Record /\ gens[g].request \in Snapshot
  BY DEF TypeOK, Known, Record, NoRecord

-----------------------------------------------------------------------------
(* The type invariant, one lemma per kind of step.                         *)
LEMMA AdvanceKeepsTypes ==
  ASSUME TypeOK, NEW edits, AdvanceLocked(edits)
  PROVE  TypeOK'
<1>1. ApplyEdits(display.source, edits) \in Seq(Byte)
  BY DEF AdvanceLocked, Acceptable, IsUtf8
<1>2. display' \in Snapshot
  <2>1. display \in Snapshot
    BY DEF TypeOK
  <2>2. display = [document |-> display.document, revision |-> display.revision,
                   source |-> display.source]
    BY <2>1 DEF Snapshot
  <2>3. display' = [document |-> display.document, revision |-> display.revision + 1,
                    source |-> ApplyEdits(display.source, edits)]
    BY <2>2 DEF AdvanceLocked
  <2>4. display.document \in Document /\ display.revision + 1 \in Nat
    BY <2>1 DEF Snapshot
  <2> QED
    BY <1>1, <2>3, <2>4 DEF Snapshot
<1>3. PICK g \in Fresh :
        /\ current' = g
        /\ gens' = [gens EXCEPT ![current] = Supersede(@),
                                ![g] = [status |-> "requested", request |-> display']]
        /\ artifacts' = [artifacts EXCEPT ![g] = "durable"]
  BY DEF AdvanceLocked
<1>4. g \in Generation /\ current \in Generation
  BY DEF Fresh, TypeOK
<1>5. current' \in Generation
  BY <1>3, <1>4
<1>6. gens' \in [Generation -> Record \cup {NoRecord}]
  <2>1. gens[current] \in Record \cup {NoRecord}
    BY <1>4 DEF TypeOK
  <2>2. Supersede(gens[current]) \in Record \cup {NoRecord}
    BY <2>1 DEF Supersede, Record, NoRecord, OpenStatus
  <2>3. [status |-> "requested", request |-> display'] \in Record
    BY <1>2 DEF Record, OpenStatus
  <2> QED
    BY <1>3, <1>4, <2>2, <2>3 DEF TypeOK
<1>7. \A a \in annotations' :
        /\ a.status \in {"current", "transported", "unplaced"}
        /\ a.claim \in [run : Generation, snapshot : Snapshot, span : Span]
  <2> SUFFICES ASSUME NEW b \in annotations'
               PROVE  /\ b.status \in {"current", "transported", "unplaced"}
                      /\ b.claim \in [run : Generation, snapshot : Snapshot, span : Span]
    OBVIOUS
  <2>1. PICK a \in annotations : b = TransportAnnotation(a, edits)
    BY DEF AdvanceLocked, TransportAnnotations
  <2>2. b.claim = a.claim /\ b.status \in {"transported", "unplaced"}
    BY <2>1 DEF TransportAnnotation
  <2> QED
    BY <2>2 DEF TypeOK
<1>8. artifacts' \in [Generation -> Progress]
  BY <1>3, <1>4 DEF TypeOK, Progress
<1> QED
  BY <1>2, <1>5, <1>6, <1>7, <1>8 DEF AdvanceLocked, TypeOK

(* A process step that replaces proc[p] by a member of Step and leaves the *)
(* directory alone.                                                        *)
LEMMA BecomeKeepsTypes ==
  ASSUME TypeOK, NEW p \in Proc, NEW next \in Step, Become(p, next),
         UNCHANGED <<state, files, crashes>>
  PROVE  TypeOK'
<1>1. proc' \in [Proc -> Step]
  BY DEF TypeOK, Become
<1> QED
  BY <1>1 DEF TypeOK, state, files

LEMMA OrphanFilesKeepTypes ==
  ASSUME TypeOK, OrphanFiles
  PROVE  artifacts' \in [Generation -> Progress]
  BY DEF TypeOK, OrphanFiles, Fresh

LEMMA CrashKeepsTypes ==
  ASSUME TypeOK, Crash
  PROVE  crashes' \in 0..MaxCrashes
  BY HostAssumption DEF TypeOK, Crash

LEMMA AdvanceCrashKeepsTypes ==
  ASSUME TypeOK, NEW edits, AdvanceCrash(edits)
  PROVE  TypeOK'
<1>1. artifacts' \in [Generation -> Progress] /\ crashes' \in 0..MaxCrashes
  BY OrphanFilesKeepTypes, CrashKeepsTypes DEF AdvanceCrash
<1> QED
  BY <1>1 DEF AdvanceCrash, TypeOK, state

LEMMA RunKeepsTypes ==
  ASSUME TypeOK, NEW p \in Proc, Run(p)
  PROVE  TypeOK'
<1>1. PICK g \in Generation, path \in Path :
        /\ Loaded(g)
        /\ Become(p, [pc |-> "solving", gen |-> g, trace |-> TraceOf(g, path)])
  BY DEF Run
<1>2. Known(g)
  BY <1>1 DEF Loaded, Open, OpenStatus, Known
<1>3. TraceOf(g, path) \in Trace
  BY <1>2, KnownTypes DEF TraceOf, Trace
<1>4. [pc |-> "solving", gen |-> g, trace |-> TraceOf(g, path)] \in Step
  BY <1>3 DEF Step
<1> QED
  BY <1>1, <1>4, BecomeKeepsTypes DEF Run

LEMMA CompleteExternalKeepsTypes ==
  ASSUME TypeOK, NEW p \in Proc, CompleteExternal(p)
  PROVE  TypeOK'
<1>1. PICK g \in {x \in Generation : Known(x)} : \E t \in ExternalTraces(g) :
        Become(p, [pc |-> "completing", gen |-> g, trace |-> t])
  BY DEF CompleteExternal
<1>2. PICK t \in ExternalTraces(g) :
        Become(p, [pc |-> "completing", gen |-> g, trace |-> t])
  BY <1>1
<1>3. t \in Trace
  <2>1. CASE ForeignTraces
    <3>1. PICK h \in {x \in Generation : Known(x)}, path \in Path, d \in Document,
               r \in KnownRequests, s \in KnownRequests :
            t = [state |-> "whole", run |-> h, path |-> path,
                 snapshot |-> [document |-> d, revision |-> r.revision, source |-> s.source]]
      BY <2>1 DEF ExternalTraces
    <3>2. r \in Snapshot /\ s \in Snapshot
      BY KnownTypes DEF KnownRequests
    <3>3. [document |-> d, revision |-> r.revision, source |-> s.source] \in Snapshot
      BY <3>2 DEF Snapshot
    <3> QED
      BY <3>1, <3>3 DEF Trace
  <2>2. CASE ~ForeignTraces
    <3>1. PICK path \in Path : t = TraceOf(g, path)
      BY <2>2 DEF ExternalTraces
    <3> QED
      BY <3>1, KnownTypes DEF TraceOf, Trace
  <2> QED
    BY <2>1, <2>2
<1>4. [pc |-> "completing", gen |-> g, trace |-> t] \in Step
  BY <1>3 DEF Step
<1> QED
  BY <1>2, <1>4, BecomeKeepsTypes DEF CompleteExternal

LEMMA MarkFailedKeepsTypes ==
  ASSUME TypeOK, NEW p \in Proc, MarkFailed(p)
  PROVE  TypeOK'
<1>1. proc[p].gen \in Generation
  BY StepTypes DEF MarkFailed
<1>2. gens' \in [Generation -> Record \cup {NoRecord}]
  <2>1. CASE Loaded(proc[p].gen)
    <3>1. gens[proc[p].gen] \in Record
      BY <1>1, <2>1, KnownTypes DEF Loaded, Open, OpenStatus, Known
    <3>2. [gens[proc[p].gen] EXCEPT !.status = "failed"] \in Record
      BY <3>1 DEF Record, FinalStatus
    <3>3. gens' = [gens EXCEPT ![proc[p].gen] = [gens[proc[p].gen] EXCEPT !.status = "failed"]]
      BY <1>1, <2>1 DEF MarkFailed, TypeOK
    <3> QED
      BY <1>1, <3>2, <3>3 DEF TypeOK
  <2>2. CASE ~Loaded(proc[p].gen)
    BY <2>2 DEF MarkFailed, TypeOK
  <2> QED
    BY <2>1, <2>2
<1>3. proc' \in [Proc -> Step]
  BY DEF TypeOK, MarkFailed, Become, Step
<1> QED
  BY <1>2, <1>3 DEF MarkFailed, TypeOK, files

LEMMA CompleteRecordKeepsTypes ==
  ASSUME TypeOK, NEW p \in Proc, CompleteRecord(p)
  PROVE  TypeOK'
<1> DEFINE g == proc[p].gen
           t == proc[p].trace
           admitted == Admit(gens[current].request, t)
           outcome == IF admitted THEN "admitted" ELSE "discarded"
<1>1. g \in Generation /\ t \in Trace
  BY StepTypes DEF CompleteRecord
<1>2. /\ Loaded(g)
      /\ traces' = [traces EXCEPT ![g] = IF traces[g] = NoTrace THEN t ELSE traces[g]]
      /\ gens' = [gens EXCEPT ![g].status = outcome]
      /\ annotations' = IF admitted THEN Project(t) ELSE annotations
  BY <1>1 DEF CompleteRecord, Recordable, TypeOK
<1> HIDE DEF g, t, admitted
<1>3. gens' \in [Generation -> Record \cup {NoRecord}]
  <2>1. gens[g] \in Record
    BY <1>1, <1>2, KnownTypes DEF Loaded, Open, OpenStatus, Known
  <2>2. [gens[g] EXCEPT !.status = outcome] \in Record
    BY <2>1 DEF Record, FinalStatus
  <2>3. gens' = [gens EXCEPT ![g] = [gens[g] EXCEPT !.status = outcome]]
    BY <1>1, <1>2 DEF TypeOK
  <2> QED
    BY <1>1, <2>2, <2>3 DEF TypeOK
<1>4. traces' \in [Generation -> Trace \cup {NoTrace, TornTrace}]
  BY <1>1, <1>2 DEF TypeOK
<1>5. \A a \in annotations' :
        /\ a.status \in {"current", "transported", "unplaced"}
        /\ a.claim \in [run : Generation, snapshot : Snapshot, span : Span]
  BY <1>1, <1>2, ProjectTypes DEF TypeOK
<1>6. proc' \in [Proc -> Step]
  BY DEF TypeOK, CompleteRecord, Become, Step
<1> QED
  BY <1>3, <1>4, <1>5, <1>6 DEF CompleteRecord, TypeOK

LEMMA CompleteCrashKeepsTypes ==
  ASSUME TypeOK, NEW p \in Proc, CompleteCrash(p)
  PROVE  TypeOK'
<1>1. proc[p].gen \in Generation /\ proc[p].trace \in Trace
  BY StepTypes DEF CompleteCrash
<1>2. traces' \in [Generation -> Trace \cup {NoTrace, TornTrace}]
  BY <1>1 DEF TypeOK, CompleteCrash, OrphanTrace
<1>3. proc' \in [Proc -> Step] /\ crashes' \in 0..MaxCrashes
  BY CrashKeepsTypes DEF TypeOK, CompleteCrash, Become, Step
<1> QED
  BY <1>2, <1>3 DEF CompleteCrash, TypeOK, state

(* The steps that change nothing but what one process holds.               *)
LEMMA PrivateStepKeepsTypes ==
  ASSUME TypeOK, NEW p \in Proc,
         FineFails(p) \/ FineSucceeds(p) \/ CompleteCheck(p) \/ CompleteRefused(p)
  PROVE  TypeOK'
<1> DEFINE held(c) == [pc |-> c, gen |-> proc[p].gen, trace |-> proc[p].trace]
<1>0. Idle \in Step
  BY DEF Step
<1>1. ASSUME proc[p].pc \in {"solving", "completing", "validated"},
             NEW c \in {"solving", "completing", "validated"}
      PROVE  [proc[p] EXCEPT !.pc = c] \in Step
  <2>1. /\ proc[p].gen \in Generation
        /\ proc[p].trace \in Trace
        /\ proc[p] = held(proc[p].pc)
    BY <1>1, StepTypes
  <2>2. [proc[p] EXCEPT !.pc = c] = held(c)
    BY <2>1
  <2>3. held(c) \in [pc : {"solving", "completing", "validated"},
                    gen : Generation, trace : Trace]
    BY <2>1
  <2> QED
    BY <2>2, <2>3 DEF Step
<1>2. CASE FineFails(p)
  <2>1. [pc |-> "failing", gen |-> proc[p].gen] \in Step
    BY <1>2, StepTypes DEF FineFails, Step
  <2> QED
    BY <1>2, <2>1, BecomeKeepsTypes DEF FineFails
<1>3. CASE FineSucceeds(p)
  <2>1. [proc[p] EXCEPT !.pc = "completing"] \in Step
    BY <1>1, <1>3 DEF FineSucceeds
  <2> QED
    BY <1>3, <2>1, BecomeKeepsTypes DEF FineSucceeds
<1>4. CASE CompleteCheck(p)
  <2>1. [proc[p] EXCEPT !.pc = "validated"] \in Step
    BY <1>1, <1>4 DEF CompleteCheck
  <2> QED
    BY <1>0, <1>4, <2>1, BecomeKeepsTypes DEF CompleteCheck
<1>5. CASE CompleteRefused(p)
  BY <1>0, <1>5, BecomeKeepsTypes DEF CompleteRefused
<1> QED
  BY <1>2, <1>3, <1>4, <1>5

LEMMA KillKeepsTypes ==
  ASSUME TypeOK, NEW p \in Proc, Kill(p)
  PROVE  TypeOK'
<1>1. proc' \in [Proc -> Step] /\ crashes' \in 0..MaxCrashes
  BY CrashKeepsTypes DEF TypeOK, Kill, Become, Step
<1> QED
  BY <1>1 DEF Kill, TypeOK, state, files

LEMMA InitTypes ==
  ASSUME Init
  PROVE  TypeOK
<1>1. PICK source \in InitialSource, document \in Document, g \in Generation :
        /\ IsUtf8(source)
        /\ display = [document |-> document, revision |-> 0, source |-> source]
        /\ current = g
        /\ gens = [h \in Generation |->
             IF h = g THEN [status |-> "requested", request |-> display] ELSE NoRecord]
        /\ annotations = {}
        /\ artifacts = [h \in Generation |-> IF h = g THEN "durable" ELSE "absent"]
        /\ traces = [h \in Generation |-> NoTrace]
        /\ proc = [p \in Proc |-> [pc |-> "idle"]]
        /\ crashes = 0
  BY DEF Init
<1>2. display \in Snapshot
  BY <1>1 DEF Snapshot, IsUtf8
<1>3. [status |-> "requested", request |-> display] \in Record
  BY <1>2 DEF Record, OpenStatus
<1>4. gens \in [Generation -> Record \cup {NoRecord}]
  BY <1>1, <1>3
<1>5. crashes \in 0..MaxCrashes
  BY <1>1, HostAssumption
<1> QED
  BY <1>1, <1>2, <1>4, <1>5 DEF TypeOK, Progress, Step, Idle

(* Every step of every command and process keeps the host well typed.      *)
LEMMA NextKeepsTypes ==
  ASSUME TypeOK, [Next]_vars
  PROVE  TypeOK'
<1>1. CASE UNCHANGED vars
  BY <1>1 DEF vars, TypeOK
<1>2. ASSUME NEW edits, Advance(edits) \/ AdvanceCrash(edits)
      PROVE  TypeOK'
  BY <1>2, AdvanceKeepsTypes, AdvanceCrashKeepsTypes DEF Advance
<1>3. CASE Materialize
  <2>1. PICK w : w = Witness
    OBVIOUS
  <2>2. AdvanceLocked(w)
    BY <1>3, <2>1 DEF Materialize
  <2> QED
    BY <2>2, AdvanceKeepsTypes
<1>4. CASE MaterializeCrash
  <2>1. PICK w : w = Witness
    OBVIOUS
  <2>2. AdvanceCrash(w)
    BY <1>4, <2>1 DEF MaterializeCrash
  <2> QED
    BY <2>2, AdvanceCrashKeepsTypes
<1>5. ASSUME NEW p \in Proc,
             \/ Run(p) \/ FineFails(p) \/ FineSucceeds(p) \/ CompleteExternal(p)
             \/ MarkFailed(p) \/ CompleteCheck(p) \/ CompleteRecord(p)
             \/ CompleteRefused(p) \/ CompleteCrash(p) \/ Kill(p)
      PROVE  TypeOK'
  BY <1>5, RunKeepsTypes, PrivateStepKeepsTypes, CompleteExternalKeepsTypes,
     MarkFailedKeepsTypes, CompleteRecordKeepsTypes, CompleteCrashKeepsTypes, KillKeepsTypes
<1> QED
  BY <1>1, <1>2, <1>3, <1>4, <1>5 DEF Next

(* What state.json, the retained files and the processes hold is well      *)
(* typed after any sequence of commands, runs and crashes.                 *)
THEOREM TypeCorrect == Spec => []TypeOK
<1>1. Init => TypeOK
  BY InitTypes
<1>2. TypeOK /\ [Next]_vars => TypeOK'
  BY NextKeepsTypes
<1> QED
  BY <1>1, <1>2, PTL DEF Spec
=============================================================================
