----------------------- MODULE RainfallHostOwnTraces -----------------------
(***************************************************************************)
(* RainfallHost when `complete` is only handed the trace of the request it *)
(* names, as run_generation does: the page's headline is true, and only    *)
(* the current generation is ever admitted.  (With foreign traces neither  *)
(* holds.)                                                                 *)
(***************************************************************************)
EXTENDS RainfallHostSafety

Carrying == {"solving", "completing", "validated"}

(* A process carries a trace because it did before, or because this step   *)
(* started a run of a known generation.                                    *)
LEMMA CarriedBy ==
  ASSUME ~ForeignTraces, TypeOK, [Next]_vars, NEW q \in Proc, proc'[q].pc \in Carrying
  PROVE  \/ /\ proc[q].pc \in Carrying
            /\ proc'[q].gen = proc[q].gen /\ proc'[q].trace = proc[q].trace
         \/ \E g \in Generation, path \in Path :
              /\ Known(g)
              /\ proc'[q].gen = g /\ proc'[q].trace = TraceOf(g, path)
<1> DEFINE kept == /\ proc[q].pc \in Carrying
                   /\ proc'[q].gen = proc[q].gen /\ proc'[q].trace = proc[q].trace
           started == \E g \in Generation, path \in Path :
                        /\ Known(g)
                        /\ proc'[q].gen = g /\ proc'[q].trace = TraceOf(g, path)
<1>1. proc'[q] = proc[q] => kept
  OBVIOUS
<1>2. ASSUME NEW p \in Proc, NEW next, Become(p, next), p # q
      PROVE  proc'[q] = proc[q]
  BY <1>2 DEF Become, TypeOK
<1>3. ASSUME NEW next, Become(q, next)
      PROVE  proc'[q] = next
  BY <1>3 DEF Become, TypeOK
<1>4. ASSUME NEW p \in Proc, Run(p)
      PROVE  kept \/ started
  <2>1. PICK g \in Generation, path \in Path :
          /\ Loaded(g)
          /\ Become(p, [pc |-> "solving", gen |-> g, trace |-> TraceOf(g, path)])
    BY <1>4 DEF Run
  <2>2. CASE p = q
    <3>1. Known(g)
      BY <2>1 DEF Loaded, Open, OpenStatus, Known
    <3>2. proc'[q].gen = g /\ proc'[q].trace = TraceOf(g, path)
      BY <1>3, <2>1, <2>2
    <3> QED
      BY <3>1, <3>2
  <2> QED
    BY <1>1, <1>2, <2>1, <2>2
<1>5. ASSUME NEW p \in Proc, CompleteExternal(p)
      PROVE  kept \/ started
  <2>1. PICK g \in Generation, path \in Path :
          /\ Known(g)
          /\ Become(p, [pc |-> "completing", gen |-> g, trace |-> TraceOf(g, path)])
    BY <1>5 DEF CompleteExternal, ExternalTraces
  <2>2. CASE p = q
    <3>1. proc'[q].gen = g /\ proc'[q].trace = TraceOf(g, path)
      BY <1>3, <2>1, <2>2
    <3> QED
      BY <2>1, <3>1
  <2> QED
    BY <1>1, <1>2, <2>1, <2>2
<1>6. ASSUME NEW p \in Proc, FineSucceeds(p) \/ CompleteCheck(p)
      PROVE  kept
  <2>1. CASE p # q
    BY <1>1, <1>2, <1>6, <2>1 DEF FineSucceeds, CompleteCheck
  <2>2. CASE p = q
    <3>1. /\ proc[q].pc \in Carrying
          /\ proc[q] = [pc |-> proc[q].pc, gen |-> proc[q].gen, trace |-> proc[q].trace]
      BY <1>6, <2>2, StepTypes DEF FineSucceeds, CompleteCheck, Carrying
    <3>2. proc'[q] = Idle \/ \E c \in Carrying : proc'[q] = [proc[q] EXCEPT !.pc = c]
      BY <1>3, <1>6, <2>2 DEF FineSucceeds, CompleteCheck, Carrying
    <3> QED
      BY <3>1, <3>2 DEF Idle, Carrying
  <2> QED
    BY <2>1, <2>2
<1>7. ASSUME NEW p \in Proc,
             \/ FineFails(p) \/ MarkFailed(p) \/ CompleteRecord(p)
             \/ CompleteRefused(p) \/ CompleteCrash(p) \/ Kill(p)
      PROVE  kept
  <2>1. PICK next : Become(p, next) /\ next.pc \in {"failing", "idle"}
    BY <1>7 DEF FineFails, MarkFailed, CompleteRecord, CompleteRefused, CompleteCrash, Kill, Idle
  <2>2. p # q
    BY <1>3, <2>1 DEF Carrying
  <2> QED
    BY <1>1, <1>2, <2>1, <2>2
<1>8. ASSUME \/ \E edits \in EditInput : Advance(edits) \/ AdvanceCrash(edits)
             \/ Materialize \/ MaterializeCrash \/ UNCHANGED vars
      PROVE  kept
  <2>1. proc' = proc
    BY <1>8 DEF Advance, Materialize, MaterializeCrash, AdvanceLocked, AdvanceCrash, vars
  <2> QED
    BY <1>1, <2>1
<1> HIDE DEF kept, started
<1>9. ASSUME NEW p \in Proc,
             \/ Run(p) \/ FineFails(p) \/ FineSucceeds(p) \/ CompleteExternal(p)
             \/ MarkFailed(p) \/ CompleteCheck(p) \/ CompleteRecord(p)
             \/ CompleteRefused(p) \/ CompleteCrash(p) \/ Kill(p)
      PROVE  kept \/ started
  BY <1>4, <1>5, <1>6, <1>7, <1>9
<1>10. kept \/ started
  BY <1>8, <1>9 DEF Next
<1> QED
  BY <1>10 DEF kept, started

(* A recorded completion settles its own generation and no other.          *)
LEMMA RecordedStatus ==
  ASSUME TypeOK, NEW p \in Proc, CompleteRecord(p), NEW h \in Generation
  PROVE  /\ h # proc[p].gen => gens'[h] = gens[h]
         /\ h = proc[p].gen =>
              gens'[h].status = IF Admit(gens[current].request, proc[p].trace)
                                  THEN "admitted" ELSE "discarded"
<1> DEFINE g == proc[p].gen
           outcome == IF Admit(gens[current].request, proc[p].trace)
                        THEN "admitted" ELSE "discarded"
<1>1. gens' = [gens EXCEPT ![g] = [status |-> outcome, request |-> gens[g].request]]
  BY RecordedCompletion
<1>2. gens \in [Generation -> Record \cup {NoRecord}]
  BY DEF TypeOK
<1> HIDE DEF g, outcome
<1>3. /\ h # g => gens'[h] = gens[h]
      /\ h = g => gens'[h].status = outcome
  BY <1>1, <1>2
<1> QED
  BY <1>3 DEF g, outcome

(* What a process carries over its unlocked steps is the trace of the      *)
(* request the host still records, and the current request is not the      *)
(* superseded one.                                                         *)
THEOREM KeptRequests ==
  ASSUME ~ForeignTraces
  PROVE  Spec => []RunsKeepTheirRequest
<1>1. Init => RunsKeepTheirRequest
  BY DEF Init, RunsKeepTheirRequest
<1>2. ASSUME TypeOK, RunsKeepTheirRequest, [Next]_vars
      PROVE  RunsKeepTheirRequest'
  <2>1. gens'[current'].status # "superseded"
    <3>1. ASSUME NEW edits, AdvanceLocked(edits)
          PROVE  gens'[current'].status # "superseded"
      <4>1. PICK n \in Fresh :
              /\ current' = n
              /\ gens' = [gens EXCEPT ![current] = Supersede(@),
                                      ![n] = [status |-> "requested", request |-> display']]
        BY <3>1 DEF AdvanceLocked
      <4>2. n \in Generation
        BY DEF Fresh
      <4> QED
        BY <1>2, <4>1, <4>2 DEF TypeOK
    <3>2. ASSUME NEW p \in Proc, CompleteRecord(p)
          PROVE  gens'[current'].status # "superseded"
      <4>1. current' = current /\ current \in Generation
        BY <1>2, <3>2 DEF CompleteRecord, TypeOK
      <4>2. gens'[current] = gens[current] \/ gens'[current].status \in FinalStatus
        BY <1>2, <3>2, <4>1, RecordedStatus DEF FinalStatus
      <4> QED
        BY <1>2, <4>1, <4>2 DEF RunsKeepTheirRequest, FinalStatus
    <3>3. ASSUME NEW p \in Proc, MarkFailed(p)
          PROVE  gens'[current'].status # "superseded"
      <4>1. current' = current /\ gens'[current] \in {gens[current], [gens[current] EXCEPT !.status = "failed"]}
        BY <1>2, <3>3 DEF MarkFailed, TypeOK
      <4>2. gens[current] \in Record \cup {NoRecord}
        BY <1>2 DEF TypeOK
      <4> QED
        BY <1>2, <4>1, <4>2 DEF RunsKeepTheirRequest, Record, NoRecord
    <3>4. CASE UNCHANGED state
      BY <1>2, <3>4 DEF state, RunsKeepTheirRequest
    <3> QED
      BY <1>2, <3>1, <3>2, <3>3, <3>4, StateChanges
  <2>2. ASSUME NEW q \in Proc, proc'[q].pc \in Carrying
        PROVE  /\ gens'[proc'[q].gen].status # "none"
               /\ proc'[q].trace.run = proc'[q].gen
               /\ proc'[q].trace.snapshot = gens'[proc'[q].gen].request
    <3>1. PICK g \in Generation :
            /\ Known(g) /\ proc'[q].gen = g
            /\ proc'[q].trace.run = g /\ proc'[q].trace.snapshot = gens[g].request
      <4>1. CASE /\ proc[q].pc \in Carrying
                 /\ proc'[q].gen = proc[q].gen /\ proc'[q].trace = proc[q].trace
        <5>1. proc[q].gen \in Generation
          BY <1>2, <4>1, StepTypes DEF Carrying
        <5> QED
          BY <1>2, <4>1, <5>1 DEF RunsKeepTheirRequest, Carrying
      <4>2. CASE \E g \in Generation, path \in Path :
                   /\ Known(g)
                   /\ proc'[q].gen = g /\ proc'[q].trace = TraceOf(g, path)
        BY <4>2 DEF TraceOf
      <4> QED
        BY <1>2, <2>2, <4>1, <4>2, CarriedBy
    <3>2. gens'[g].status # "none" /\ gens'[g].request = gens[g].request
      BY <1>2, <3>1, RequestsStay DEF Known
    <3> QED
      BY <3>1, <3>2
  <2> QED
    BY <2>1, <2>2 DEF RunsKeepTheirRequest, Known, Carrying
<1> QED
  BY <1>1, <1>2, TypeCorrect, PTL DEF Spec

(* The page's headline: markers are current exactly while the current      *)
(* generation is recorded as admitted, and they are all of it.             *)
THEOREM HeadlineIsTrue ==
  ASSUME ~ForeignTraces
  PROVE  Spec => []CurrentMeansAdmitted
<1>1. Init => CurrentMeansAdmitted
  BY DEF Init, CurrentMeansAdmitted
<1>2. ASSUME TypeOK, RunsKeepTheirRequest, CurrentMeansAdmitted, [Next]_vars
      PROVE  CurrentMeansAdmitted'
  <2>1. ASSUME NEW edits, AdvanceLocked(edits)
        PROVE  CurrentMeansAdmitted'
    <3>1. gens'[current'].status = "requested"
      BY <1>2, <2>1 DEF AdvanceLocked, Fresh, TypeOK
    <3>2. \A b \in annotations' : b.status # "current"
      BY <2>1, TransportedMarkers DEF AdvanceLocked, TransportAnnotations
    <3> QED
      BY <3>1, <3>2 DEF CurrentMeansAdmitted
  <2>2. ASSUME NEW p \in Proc, CompleteRecord(p)
        PROVE  CurrentMeansAdmitted'
    <3> DEFINE g == proc[p].gen
               t == proc[p].trace
    <3>1. /\ g \in Generation /\ t \in Trace /\ Loaded(g) /\ current' = current
          /\ t.run = g
      BY <1>2, <2>2, RecordedCompletion DEF RunsKeepTheirRequest, CompleteRecord
    <3>2. CASE Admit(gens[current].request, t)
      <4>1. /\ annotations' = Project(t) /\ t.run = current
            /\ gens' = [gens EXCEPT ![g] = [status |-> "admitted", request |-> gens[g].request]]
        BY <1>2, <2>2, <3>2, RecordedCompletion
      <4>2. gens'[current].status = "admitted"
        BY <1>2, <3>1, <4>1 DEF TypeOK
      <4> HIDE DEF g, t
      <4> QED
        BY <3>1, <4>1, <4>2, ProjectTypes DEF CurrentMeansAdmitted
    <3>3. CASE ~Admit(gens[current].request, t)
      <4>1. /\ annotations' = annotations
            /\ gens' = [gens EXCEPT ![g] = [status |-> "discarded", request |-> gens[g].request]]
        BY <1>2, <2>2, <3>3, RecordedCompletion
      <4>2. gens'[current].status = "admitted" <=> gens[current].status = "admitted"
        BY <1>2, <3>1, <4>1 DEF TypeOK, Loaded, Open, OpenStatus
      <4> QED
        BY <1>2, <3>1, <4>1, <4>2 DEF CurrentMeansAdmitted
    <3> QED
      BY <3>2, <3>3
  <2>3. ASSUME NEW p \in Proc, MarkFailed(p)
        PROVE  CurrentMeansAdmitted'
    <3>1. annotations' = annotations /\ current' = current
      BY <2>3 DEF MarkFailed
    <3>2. \/ gens'[current] = gens[current]
          \/ Open(current) /\ gens'[current] = [gens[current] EXCEPT !.status = "failed"]
      BY <1>2, <2>3 DEF MarkFailed, Loaded, TypeOK
    <3>3. Open(current) => gens[current] \in Record
      BY <1>2, KnownTypes DEF TypeOK, Open, OpenStatus, Known
    <3>4. gens'[current].status = "admitted" <=> gens[current].status = "admitted"
      BY <3>2, <3>3 DEF Record, Open, OpenStatus
    <3> QED
      BY <1>2, <3>1, <3>4 DEF CurrentMeansAdmitted
  <2>4. CASE UNCHANGED state
    BY <1>2, <2>4 DEF state, CurrentMeansAdmitted
  <2> QED
    BY <1>2, <2>1, <2>2, <2>3, <2>4, StateChanges
<1> QED
  BY <1>1, <1>2, TypeCorrect, KeptRequests, PTL DEF Spec

(* A generation becomes admitted only as the current one, and its request  *)
(* is what is displayed.                                                   *)
THEOREM AdmissionOfCurrent ==
  ASSUME ~ForeignTraces
  PROVE  Spec => OnlyCurrentIsAdmitted
<1>1. ASSUME TypeOK, RunsKeepTheirRequest, [Next]_vars, NEW g \in Generation,
             gens'[g].status = "admitted", gens[g].status # "admitted"
      PROVE  g = current /\ gens[g] = [status |-> "requested", request |-> display']
  <2>0. gens[g] \in Record \cup {NoRecord}
    BY <1>1 DEF TypeOK
  <2>1. ASSUME NEW edits, AdvanceLocked(edits)
        PROVE  FALSE
    <3>1. PICK n \in Fresh :
            gens' = [gens EXCEPT ![current] = Supersede(@),
                                 ![n] = [status |-> "requested", request |-> display']]
      BY <2>1 DEF AdvanceLocked
    <3>2. \/ gens'[g].status = "requested"
          \/ gens'[g] \in {gens[g], Supersede(gens[g])}
      BY <1>1, <3>1 DEF TypeOK
    <3> QED
      BY <1>1, <2>0, <3>2 DEF Supersede, Record, NoRecord
  <2>2. ASSUME NEW p \in Proc, CompleteRecord(p)
        PROVE  g = current /\ gens[g] = [status |-> "requested", request |-> display']
    <3>1. g = proc[p].gen
      BY <1>1, <2>2, RecordedStatus
    <3>2. Admit(gens[current].request, proc[p].trace)
      BY <1>1, <2>2, <3>1, RecordedStatus
    <3>3. /\ g = current /\ Loaded(g) /\ display' = display
      BY <1>1, <2>2, <3>1, <3>2, RecordedCompletion DEF RunsKeepTheirRequest, CompleteRecord
    <3>4. gens[g].status = "requested" /\ gens[g].request = display /\ gens[g] \in Record
      BY <1>1, <3>3, KnownTypes
      DEF Loaded, LoadState, Open, OpenStatus, RunsKeepTheirRequest, Known
    <3> QED
      BY <3>3, <3>4 DEF Record
  <2>3. ASSUME NEW p \in Proc, MarkFailed(p)
        PROVE  FALSE
    <3>1. gens'[g] \in {gens[g], [gens[g] EXCEPT !.status = "failed"]}
      BY <1>1, <2>3 DEF MarkFailed, TypeOK
    <3> QED
      BY <1>1, <2>0, <3>1 DEF Record, NoRecord
  <2>4. CASE UNCHANGED state
    BY <1>1, <2>4 DEF state
  <2> QED
    BY <1>1, <2>1, <2>2, <2>3, <2>4, StateChanges
<1>2. TypeOK /\ RunsKeepTheirRequest /\ [Next]_vars =>
        [\A g \in Generation :
           gens'[g].status = "admitted" /\ gens[g].status # "admitted" =>
             g = current /\ gens[g] = [status |-> "requested", request |-> display']]_gens
  BY <1>1
<1> QED
  BY <1>2, TypeCorrect, KeptRequests, PTL DEF Spec, OnlyCurrentIsAdmitted
=============================================================================
