------------------------------ MODULE Recorder ------------------------------
(***************************************************************************)
(* `fine rain`: the Rainfall recorder (src/src/fine/rainfall.cpp), the     *)
(* observers that Z3 calls back while it solves (clause_observer.cpp,      *)
(* quantifier_observer.cpp, fixedpoint_observer.cpp), and the replay       *)
(* validator that later reads the trace (fine/rainfall_replay.py).         *)
(*                                                                         *)
(* A run executes the solver declarations of a document in order.  The     *)
(* recorder object is one record, `rec`, and every method of it is an      *)
(* operator from recorder to recorder.  A C++ exception is the field       *)
(* `failed`: once it is set, the rest of the handler records nothing.      *)
(***************************************************************************)
EXTENDS Naturals, Sequences, FiniteSets, Functions

CONSTANTS
    Term,          \* the Z3 terms Fine and Z3 hand to the recorder
    Quantifier,    \* those that are quantifiers ...
    Instance,      \* ... and those that are ground bodies of quantifiers
    Literal,       \* clause literals, proof hints, bindings, lemmas, values
    Negated,       \* the instances whose outermost symbol is `not`
    Node,          \* parse-local source nodes
    Document,      \* the documents: sequences of solver declarations
    Unliftable,    \* the choices of terms that lift_rainfall_term refuses
    MaxCallbacks   \* bound: observer callbacks in one run

VARIABLES
    doc,           \* the document being executed
    unliftable,    \* the terms whose lift throws
    rec,           \* the RainfallRecorder
    item,          \* index of the declaration being executed
    phase,         \* "start", "idle" between declarations, "query", "done"
    inflight,      \* Z3: the accepted instance whose lemma is not yet logged
    failure,       \* failure_ of the RainfallFixedpointObserver
    callbacks      \* callbacks so far

vars == <<doc, unliftable, rec, item, phase, inflight, failure, callbacks>>

Kind == {"plain", "induct", "bisim", "spacer"}
Observed == {"induct", "bisim"}
NoInstance == <<>>
Fault == {"no", "lift", "duplicate", "unpaired", "shape", "unknown",
          "identity", "reify", "executable"}

ASSUME RecorderConstants ==
    /\ Quantifier \subseteq Term /\ Instance \subseteq Term
    /\ Literal \subseteq Term /\ Negated \subseteq Instance
    /\ Unliftable \subseteq SUBSET Term
    /\ \A d \in Document :
          /\ d \in Seq([kind : Kind, proof : BOOLEAN, node : Node,
                        theorem : Term, closed : Term])
          /\ \A k \in DOMAIN d : d[k].proof => d[k].kind \in {"plain", "induct"}
          /\ \A k \in DOMAIN d : k < Len(d) => d[k].proof
          /\ \A j, k \in DOMAIN d : d[j].node = d[k].node => j = k
    /\ MaxCallbacks \in Nat

-----------------------------------------------------------------------------
(* The recorder's methods. *)

\* An event keeps the terms it names, the declaration it is recorded in, the
\* event it refers to (an inst clause), and the node or status it carries.
Event(op, ts) ==
    [op |-> op, terms |-> ts, scope |-> item, ref |-> 0, node |-> {},
     status |-> ""]

Throw(r, why) == IF r.failed = "no" THEN [r EXCEPT !.failed = why] ELSE r

Record(r, e) ==
    IF r.failed = "no" THEN [r EXCEPT !.trace = Append(@, e)] ELSE r

\* RainfallRecorder::term: the term is remembered BEFORE it is lifted.
TermOf(r, t) ==
    IF r.failed # "no" \/ t \in Range(r.terms) THEN r
    ELSE LET remembered == [r EXCEPT !.terms = Append(@, t)]
         IN  IF t \in unliftable THEN Throw(remembered, "lift")
             ELSE Record(remembered, Event("term", <<t>>))

SourceNode(r, n) ==
    IF r.failed # "no" \/ n \in r.nodes THEN r
    ELSE Record([r EXCEPT !.nodes = @ \cup {n}],
                [Event("node", <<>>) EXCEPT !.node = {n}])

SourceTerm(r, n, t) ==
    Record(TermOf(SourceNode(r, n), t),
           [Event("edge", <<t>>) EXCEPT !.node = {n}])

Pending(r, q, i) == {p \in r.pending : p.quantifier = q /\ p.instance = i}

\* Mutant: the key's two handles are swapped.
RememberSwapped(r, q, i) ==
    [r EXCEPT !.pending =
        @ \cup {[quantifier |-> i, instance |-> q, event |-> Len(r.trace)]}]

\* The instance event is the one just recorded.
Remember(r, q, i) ==
    IF r.failed # "no" THEN r
    ELSE IF Pending(r, q, i) # {} THEN Throw(r, "duplicate")
    ELSE [r EXCEPT !.pending =
              @ \cup {[quantifier |-> q, instance |-> i,
                       event |-> Len(r.trace)]}]

\* Mutant: the first recorded event for the same terms is the evidence.
TakeFirstSeen(r, q, i) ==
    LET seen == {k \in DOMAIN r.trace :
                   r.trace[k].op = "instance" /\ r.trace[k].terms = <<q, i>>}
    IN  {[quantifier |-> q, instance |-> i, event |-> k] :
            k \in {k \in seen : \A j \in seen : k <= j}}

\* take_quantifier_instance: the evidence it moves out, none if there is none.
Take(r, q, i) == Pending(r, q, i)

\* Mutant: every call starts from the first term again.
ValidateFromZero(r, bad) ==
    IF r.failed # "no" THEN r
    ELSE [r EXCEPT !.trace = @ \o [j \in DOMAIN r.terms |->
                                     Event("validate", <<r.terms[j]>>)],
                   !.validated = Len(r.terms)]

\* validate_terms: every term remembered since the last call is lifted again
\* and reparsed; `bad` is the handle at which that fails, 0 for none.
Validate(r, bad) ==
    IF r.failed # "no" THEN r
    ELSE LET n    == IF bad = 0 THEN Len(r.terms) ELSE bad - 1
             seen == [j \in 1 .. n - r.validated |->
                        Event("validate", <<r.terms[r.validated + j]>>)]
             r1   == [r EXCEPT !.trace = @ \o seen,
                               !.validated = IF bad = 0 THEN n ELSE bad]
         IN  IF bad = 0 THEN r1 ELSE Throw(r1, "reify")

-----------------------------------------------------------------------------
(* The replay validator's rules, for one whole trace. *)

TermsOf(tr, ops) ==
    UNION {Range(tr[k].terms) : k \in {j \in DOMAIN tr : tr[j].op \in ops}}

NodesOf(tr) == UNION {tr[k].node : k \in {j \in DOMAIN tr : tr[j].op = "node"}}

Terminal(e) ==
    \/ e.op = "run.close"
    \/ e.op = "proof.close" /\ e.status # "verified"

Before(tr, k) == SubSeq(tr, 1, k - 1)

AcceptsClause(tr, k) ==
    LET e == tr[k]
        b == Before(tr, k)
    IN  /\ Range(e.terms) \subseteq TermsOf(b, {"term"})
        /\ e.op = "inst" =>
              /\ e.ref \in DOMAIN b
              /\ tr[e.ref].op = "instance"
              /\ tr[e.ref].terms = SubSeq(e.terms, 1, 2)

AcceptsEvent(tr, k) ==
    LET e == tr[k]
        b == Before(tr, k)
    IN  /\ Terminal(e) => k = Len(tr)
        /\ e.op = "snapshot" => \E j \in DOMAIN b : b[j].op = "document"
        /\ e.op = "node" => e.node \cap NodesOf(b) = {}
        /\ e.op = "term" => Range(e.terms) \cap TermsOf(b, {"term"}) = {}
        /\ e.op = "validate" =>
              /\ Range(e.terms) \subseteq TermsOf(b, {"term"})
              /\ Range(e.terms) \cap TermsOf(b, {"validate"}) = {}
        /\ e.op \in {"clause", "inst"} => AcceptsClause(tr, k)

Accepts(tr) ==
    /\ \A op \in {"document", "snapshot"} :
          Cardinality({k \in DOMAIN tr : tr[k].op = op}) = 1
    /\ \A k \in DOMAIN tr : AcceptsEvent(tr, k)
    /\ Terminal(tr[Len(tr)])
    /\ TermsOf(tr, {"term"}) = TermsOf(tr, {"validate"})
    /\ \A k \in DOMAIN tr : tr[k].op = "edge" =>
          /\ Range(tr[k].terms) \subseteq TermsOf(tr, {"term"})
          /\ tr[k].node \subseteq NodesOf(tr)

-----------------------------------------------------------------------------
(* The run. *)

EmptyRecorder ==
    [terms |-> <<>>, validated |-> 0, nodes |-> {}, pending |-> {},
     trace |-> <<>>, failed |-> "no"]

Init ==
    /\ doc \in Document
    /\ unliftable \in Unliftable
    /\ rec = EmptyRecorder
    /\ item = 1
    /\ phase = "start"
    /\ inflight = NoInstance
    /\ failure = "no"
    /\ callbacks = 0

Current == doc[item]

\* An exception that leaves a handler ends the run: main exits with failure.
Proceed(r, next) ==
    /\ rec' = r
    /\ phase' = IF r.failed = "no" THEN next ELSE "done"

\* The recorder's constructor, then declare_document_sources.
Start ==
    /\ phase = "start"
    /\ LET r == Record(Record(rec, Event("document", <<>>)),
                       Event("snapshot", <<>>))
       IN  Proceed([r EXCEPT
               !.nodes = {doc[k].node : k \in DOMAIN doc},
               !.trace = @ \o [k \in DOMAIN doc |->
                   [Event("node", <<>>) EXCEPT !.node = {doc[k].node}]]],
               "idle")
    /\ UNCHANGED <<doc, unliftable, item, inflight, failure, callbacks>>

\* The source edges and events that lead up to the query of a declaration.
OpenQuery ==
    /\ phase = "idle" /\ item \in DOMAIN doc
    /\ LET r1 == SourceTerm(rec, Current.node, Current.theorem)
           r2 == Record(r1, Event("query.open", <<Current.theorem>>))
           r3 == Record(r2, Event("proof.use",
                            [k \in 1 .. item - 1 |-> doc[k].closed]))
       IN  Proceed(r3, "query")
    /\ failure' = "no"
    /\ UNCHANGED <<doc, unliftable, item, inflight, callbacks>>

\* Documents whose last declaration is a verified proof have nothing to
\* execute: Runtime::execute rejects them.
NothingToExecute ==
    /\ phase = "idle" /\ item \notin DOMAIN doc
    /\ Proceed(Throw(rec, "executable"), "done")
    /\ UNCHANGED <<doc, unliftable, item, inflight, failure, callbacks>>

Callback ==
    /\ phase = "query"
    /\ callbacks < MaxCallbacks
    /\ callbacks' = callbacks + 1
    /\ UNCHANGED <<doc, unliftable, item>>

\* qi_queue::instantiate accepts an instance and calls on_binding.  What the
\* queue rejects as redundant is not exposed.
AcceptInstance(q, i) ==
    /\ Callback
    /\ Current.kind \in Observed
    /\ inflight = NoInstance
    /\ LET r == Record(TermOf(TermOf(rec, q), i), Event("instance", <<q, i>>))
       IN  Proceed(Remember(r, q, i), "query")
    /\ inflight' = <<q, i>>
    /\ UNCHANGED failure

\* on_clause for an assumed, deleted or inferred clause with any other hint.
LogClause(l, h) ==
    /\ Callback
    /\ Current.kind \in Observed
    /\ Proceed(Record(TermOf(TermOf(rec, l), h), Event("clause", <<l, h>>)),
               "query")
    /\ UNCHANGED <<inflight, failure>>

\* on_clause for the lemma of the accepted instance.  Z3 builds the hint's
\* second argument with ast_util's mk_not, which strips the `not` of a
\* negated body instead of adding one.
LogInstance(l, h, b) ==
    /\ Callback
    /\ inflight # NoInstance
    /\ LET q      == inflight[1]
           i      == inflight[2]
           r1     == TermOf(TermOf(rec, l), h)
           r2     == IF i \in Negated THEN Throw(r1, "shape")
                     ELSE TermOf(TermOf(r1, q), i)
           taken  == Take(r2, q, i)
           r3     == IF taken = {} THEN Throw(r2, "unpaired")
                     ELSE TermOf([r2 EXCEPT !.pending = @ \ taken], b)
       IN  Proceed(Record(r3, [Event("inst", <<q, i, l, h, b>>) EXCEPT
                      !.ref = IF taken = {} THEN 0
                              ELSE (CHOOSE p \in taken : TRUE).event]),
                   "query")
    /\ inflight' = NoInstance
    /\ UNCHANGED failure

\* Mutant: the callback runs even after a failure.
GuardedForgetful(r) ==
    /\ rec' = [r EXCEPT !.failed = "no"]
    /\ failure' = IF failure # "no" THEN failure ELSE r.failed

\* RainfallFixedpointObserver::guarded: Spacer cannot be unwound, so an
\* exception is kept and later callbacks do nothing.
Guarded(r) ==
    IF failure # "no" THEN UNCHANGED <<rec, failure>>
    ELSE /\ rec' = [r EXCEPT !.failed = "no"]
         /\ failure' = r.failed

SpacerLemma(t) ==
    /\ Callback
    /\ Current.kind = "spacer"
    /\ Guarded(Record(TermOf(rec, t), Event("lemma", <<t>>)))
    /\ UNCHANGED <<phase, inflight>>

\* on_predecessor and on_unfold
SpacerStep ==
    /\ Callback
    /\ Current.kind = "spacer"
    /\ Guarded(Record(rec, Event("step", <<>>)))
    /\ UNCHANGED <<phase, inflight>>

\* A satisfiable query: the model's values are recorded, lifted, printed,
\* parsed and elaborated; the witness is accepted only if that is exact.
AcceptWitness(r, v, exact) ==
    LET r1 == Record(TermOf(r, v), Event("assignment", <<v>>))
    IN  IF exact THEN Record(r1, Event("witness.accept", <<>>))
        ELSE Throw(r1, "identity")

\* What execute_check, execute_bisimulation and the fixedpoint checks record
\* once their query has returned, up to validate_terms.
Conclude(r, result, v, exact) ==
    IF Current.kind = "spacer"
    THEN IF result = "unknown" THEN Throw(r, "unknown")
         ELSE Record(TermOf(r, v), Event("answer", <<v>>))
    ELSE LET r1 == Record(Record(r, Event("result", <<>>)),
                          Event("query.close", <<>>))
             rejected == {"unknown"}
                 \cup (IF Current.kind = "bisim" THEN {"unsat"} ELSE {})
         IN  CASE result \in rejected -> Throw(r1, "unknown")
               [] result = "sat" -> AcceptWitness(r1, v, exact)
               [] OTHER ->
                    IF Current.proof
                    THEN Record(TermOf(r1, Current.closed),
                                Event("proof.admit", <<Current.closed>>))
                    ELSE r1

\* Mutant: a proof is closed like a check.
CloseAsCheck(r, result) == Record(r, Event("run.close", <<>>))

Close(r, result) ==
    Record(r, [Event(IF Current.proof THEN "proof.close" ELSE "run.close", <<>>)
               EXCEPT !.status = IF result = "unsat" THEN "verified"
                                 ELSE "refuted"])

\* The query returns: rethrow_if_failed, the conclusion, validate_terms, close.
\* A verified proof lets the document continue; anything else ends the run.
Answer(result, v, exact, bad) ==
    /\ phase = "query" /\ inflight = NoInstance
    /\ LET r1 == IF failure = "no" THEN rec ELSE Throw(rec, failure)
           r2 == IF r1.failed = "no" THEN Conclude(r1, result, v, exact) ELSE r1
       IN  /\ bad = 0 \/ bad \in r2.validated + 1 .. Len(r2.terms)
           /\ Proceed(Close(Validate(r2, bad), result),
                      IF Current.proof /\ result = "unsat" THEN "idle"
                      ELSE "done")
    /\ item' = IF phase' = "idle" THEN item + 1 ELSE item
    /\ UNCHANGED <<doc, unliftable, inflight, failure, callbacks>>

Next ==
    \/ Start
    \/ OpenQuery
    \/ NothingToExecute
    \/ \E q \in Quantifier, i \in Instance : AcceptInstance(q, i)
    \/ \E l, h \in Literal : LogClause(l, h)
    \/ \E l, h, b \in Literal : LogInstance(l, h, b)
    \/ \E t \in Literal : SpacerLemma(t)
    \/ SpacerStep
    \/ \E result \in {"sat", "unsat", "unknown"}, v \in Literal,
          exact \in BOOLEAN, bad \in 0 .. Cardinality(Term) :
          Answer(result, v, exact, bad)

Spec == Init /\ [][Next]_vars

-----------------------------------------------------------------------------
(* What the recorder promises its readers. *)

Completed == phase = "done" /\ rec.failed = "no"

\* A run that ends without an exception leaves a trace the replay validator
\* accepts: `fine rain` and `rainfall_replay.validate` agree on the format,
\* also when proofs precede the executable declaration or the proof is refuted.
CompletedRunReplays == Completed => Accepts(rec.trace)

\* A trace cut short is never accepted: not the trace of a failed run, and no
\* proper prefix of any trace (record flushes event by event, so that is what
\* the host reads if the process is killed).
TornTraceIsRefused ==
    /\ ~Completed => ~Accepts(rec.trace)
    /\ \A k \in 0 .. Len(rec.trace) - 1 : ~Accepts(SubSeq(rec.trace, 1, k))

\* RainfallRecorder::term remembers a term before its lift, which may throw.
\* Still no event, of a failed run or not, names a term that no earlier event
\* declared.
EventsNameDeclaredTerms ==
    \A k \in DOMAIN rec.trace :
        rec.trace[k].op # "term" =>
            Range(rec.trace[k].terms)
                \subseteq TermsOf(Before(rec.trace, k), {"term"})

\* The evidence of a quantifier lemma is an instance accepted earlier in the
\* same query, and no two lemmas share it (clause_observer.cpp: "Merely being
\* the next event is not evidence").
InstancesJoinTheirOwnQuery ==
    \A k \in DOMAIN rec.trace : rec.trace[k].op = "inst" =>
        LET e == rec.trace[k]
        IN  /\ e.ref \in 1 .. k - 1
            /\ rec.trace[e.ref].op = "instance"
            /\ rec.trace[e.ref].scope = e.scope
            /\ \A j \in DOMAIN rec.trace :
                  rec.trace[j].op = "inst" /\ rec.trace[j].ref = e.ref => j = k

\* pending_quantifier_instances_ lives as long as the recorder, the observers
\* only as long as a query.  It holds at most the instance whose lemma is still
\* to come, so neither of its two exceptions can be thrown, whatever was
\* accepted in earlier queries.
NoInstanceIsLeftPending ==
    /\ phase = "query" /\ inflight # NoInstance =>
          \E n \in DOMAIN rec.trace :
             rec.pending = {[quantifier |-> inflight[1],
                             instance |-> inflight[2], event |-> n]}
    /\ inflight = NoInstance /\ rec.failed = "no" => rec.pending = {}
    /\ rec.failed \notin {"duplicate", "unpaired"}

\* What clause_observer.cpp says of Z3: "qi_queue constructs `(inst q (not body)
\* (bind ...) (gen ...))` from the same q and unsimplified ground body seen by
\* on_binding", so the shape test never throws.
InstHintNegatesItsBody == rec.failed # "shape"
=============================================================================
