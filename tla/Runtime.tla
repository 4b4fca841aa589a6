------------------------------- MODULE Runtime -------------------------------
(***************************************************************************)
(* One document through Runtime::execute: declarations in source order,    *)
(* each `proof` carried out where it stands, the one `check`, `synth` or   *)
(* `solve` kept for the end, and the theorems admitted on the way.         *)
(* Source: src/src/fine/runtime.cpp (execute, execute_check),              *)
(* predicate_runtime.cpp and bisimulation_runtime.cpp.                     *)
(*                                                                         *)
(* A document is a table (the datatype's and the predicates' constructors) *)
(* and a sequence of declarations.  The theory never shrinks while the     *)
(* document is read: a constructor only calls predicates declared before   *)
(* it, so a later declaration does not change an earlier relation.         *)
(***************************************************************************)
EXTENDS Predicates, Bisimulation

CONSTANTS
    Theories,   \* the tables
    Document,   \* the documents over them
    Nothing     \* no declaration, no witness

ASSUME TheoriesAreGenerated ==
    \A theory \in Theories : WellFormed(theory) /\ Generated(theory)

\* A parsed declaration.  `th` is the theorem of a check with parameters,
\* `atom` what a check without any asks for.
Typed(item) ==
    /\ item.op \in {"predicate", "model", "witness", "synth", "solve", "check"}
    /\ item.op = "predicate" => item.pred \in Pred
    /\ item.op = "check" =>
          /\ item.reusable \in BOOLEAN /\ item.ground \in BOOLEAN
          /\ item.induct \in {"none", "parameter", "predicate"}
          /\ IF item.ground THEN item.atom \in Atom ELSE item.th \in Theorem

ASSUME DocumentsAreTyped ==
    \A d \in Document :
        /\ d.table \in Theories
        /\ Len(d.items) \in Nat /\ DOMAIN d.items = 1..Len(d.items)
        /\ \A i \in DOMAIN d.items : Typed(d.items[i])

VARIABLES
    doc,        \* the document
    at,         \* the declaration at hand
    phase,      \* what the interpreter is doing
    declared,   \* predicates_
    hole,       \* is there a model-shaped hole?
    query,      \* the executable declaration kept for the end
    running,    \* the proof or query being carried out
    ctor,       \* the constructor branch of an induction
    admitted,   \* admitted_proofs_
    relation,   \* the relation of the model Z3 returned
    cell,       \* the next cell to evaluate in it
    array,      \* the canonical array
    log,        \* the answers, in order
    exit        \* how the process ended

vars == <<doc, at, phase, declared, hole, query, running, ctor, admitted,
          relation, cell, array, log, exit>>
bisim == <<relation, cell, array>>

T == doc.table
Th == running.th
Item == doc.items[at]

Init ==
    /\ doc \in Document
    /\ at = 1 /\ phase = "declare"
    /\ declared = {} /\ hole = FALSE /\ query = Nothing
    /\ running = Nothing /\ ctor = 1
    /\ admitted = <<>>
    /\ relation = {} /\ cell = 1 /\ array = EmptyArray
    /\ log = <<>> /\ exit = "none"

\* reject and every other exception: main prints it and exits with failure.
Fail == phase' = "done" /\ exit' = "failure"

-----------------------------------------------------------------------------
(* Which procedure a check goes to.  "no": it is rejected.                 *)

\* The direct atoms the induction admits, and all its names are declared.
Inductive(th) ==
    /\ {th.target} \cup OneLayerPredicates(th) \subseteq declared
    /\ th.ensured # {} => th.goal = Place /\ \A f, g \in th.ensured : f = g

Invariant(th) ==
    /\ th.target \in declared
    /\ th.aux = Place /\ th.assumed = {} /\ th.ensured = {}
    /\ HornComplete(T, th.target)

HasRecursivePosition == \E r \in Rules(T) : r.concl[1] = Data /\ r.prem # {}

\* execute_check before a predicate is declared ...
OrdinaryRoute(q) ==
    IF \/ q.ground \/ q.induct = "predicate"
       \/ q.induct = "parameter" /\ ~HasRecursivePosition
       \/ q.th.target # Data \/ q.th.assumed \cup q.th.ensured # {}
    THEN "no" ELSE "counterexample"

\* ... and execute_predicate_check.
PredicateRoute(q) ==
    CASE q.induct = "parameter" -> "no"
      [] q.induct = "predicate" ->
            IF ~q.ground /\ Inductive(q.th) THEN "onelayer" ELSE "no"
      [] q.induct = "none" ->
            IF /\ ~q.reusable
               /\ IF q.ground THEN q.atom[1] \in declared /\ HornComplete(T, q.atom[1])
                              ELSE Invariant(q.th)
            THEN "fixedpoint" ELSE "no"

Route(q) ==
    IF q.op # "check" THEN q.op
    ELSE IF declared = {} THEN OrdinaryRoute(q) ELSE PredicateRoute(q)

Begin(q) ==
    IF Route(q) = "no"
    THEN Fail /\ UNCHANGED <<running, ctor>>
    ELSE /\ running' = q
         /\ phase' = Route(q)
         /\ ctor' = 1
         /\ UNCHANGED exit

-----------------------------------------------------------------------------
(* execute: the declarations.                                              *)

Declaring(op) == phase = "declare" /\ at <= Len(doc.items) /\ Item.op = op

\* A constructor may call the predicates declared so far and its own.
CallsDeclared(p) ==
    \A k \in DOMAIN T[p] : \A r \in T[p][k].rules :
        \A a \in r.prem : a[1] \in declared \cup {p}

DeclarePredicate ==
    /\ Declaring("predicate")
    /\ IF Item.pred \in declared \/ ~CallsDeclared(Item.pred)
       THEN Fail /\ UNCHANGED <<at, declared>>
       ELSE declared' = declared \cup {Item.pred} /\ at' = at + 1 /\ UNCHANGED <<phase, exit>>
    /\ UNCHANGED <<doc, hole, query, running, ctor, admitted, bisim, log>>

DeclareModel ==
    /\ Declaring("model")
    /\ IF hole THEN Fail /\ UNCHANGED <<at, hole>>
       ELSE hole' = TRUE /\ at' = at + 1 /\ UNCHANGED <<phase, exit>>
    /\ UNCHANGED <<doc, declared, query, running, ctor, admitted, bisim, log>>

\* A returned witness is not a declaration.
DeclareCounterexample ==
    /\ Declaring("witness")
    /\ Fail
    /\ UNCHANGED <<doc, at, declared, hole, query, running, ctor, admitted, bisim, log>>

\* A proof is carried out at once, before any executable declaration.
StartProof ==
    /\ Declaring("check") /\ Item.reusable
    /\ IF query # Nothing THEN Fail /\ UNCHANGED <<running, ctor>> ELSE Begin(Item)
    /\ UNCHANGED <<doc, at, declared, hole, query, admitted, bisim, log>>

\* The executable declaration is only remembered.
KeepQuery ==
    /\ \/ Declaring("solve") \/ Declaring("synth")
       \/ Declaring("check") /\ ~Item.reusable
    /\ IF query # Nothing THEN Fail /\ UNCHANGED <<at, query>>
       ELSE query' = Item /\ at' = at + 1 /\ UNCHANGED <<phase, exit>>
    /\ UNCHANGED <<doc, declared, hole, running, ctor, admitted, bisim, log>>

EndOfDocument ==
    /\ phase = "declare" /\ at > Len(doc.items)
    /\ IF \/ query = Nothing
          \/ declared # {} /\ query.op # "check"
          \/ query.op = "solve" /\ ~hole
       THEN Fail /\ UNCHANGED <<running, ctor>>
       ELSE Begin(query)
    /\ UNCHANGED <<doc, at, declared, hole, query, admitted, bisim, log>>

-----------------------------------------------------------------------------
(* The answers.                                                            *)

Answer(verdict, witness) ==
    log' = Append(log, [of |-> running, verdict |-> verdict, witness |-> witness])

IsProof == running.op = "check" /\ running.reusable

\* Mutant: execute does not look at the result of a proof.
ConcludeAnyProof(verdict, witness) ==
    /\ Answer(verdict, witness)
    /\ IF IsProof
       THEN /\ phase' = "declare" /\ at' = at + 1
            /\ admitted' = IF verdict = "verified" THEN Append(admitted, Th) ELSE admitted
            /\ UNCHANGED exit
       ELSE phase' = "done" /\ exit' = "success" /\ UNCHANGED <<at, admitted>>
    /\ UNCHANGED <<doc, declared, hole, query, running, ctor, bisim>>

\* A verified proof is admitted and the document goes on; a refuted one ends
\* it with exit code 1.  Any answer to the executable declaration is success.
Conclude(verdict, witness) ==
    /\ Answer(verdict, witness)
    /\ CASE IsProof /\ verdict = "verified" ->
              /\ admitted' = Append(admitted, Th)
              /\ phase' = "declare" /\ at' = at + 1
              /\ UNCHANGED exit
         [] IsProof /\ verdict # "verified" ->
              phase' = "done" /\ exit' = "refuted" /\ UNCHANGED <<at, admitted>>
         [] OTHER ->
              phase' = "done" /\ exit' = "success" /\ UNCHANGED <<at, admitted>>
    /\ UNCHANGED <<doc, declared, hole, query, running, ctor, bisim>>

Refuse ==
    Fail /\ UNCHANGED <<doc, at, declared, hole, query, running, ctor, admitted, bisim, log>>

\* Z3 may answer "unknown" to any query; a synthesis may fail.
SolverUnknown ==
    /\ \/ phase \in {"counterexample", "onelayer", "fixedpoint", "solve", "synth"}
       \/ phase = "branch" /\ ctor <= Len(T[Th.target])
    /\ Refuse

-----------------------------------------------------------------------------
(* Checks.                                                                 *)

Counterexamples ==
    IF running.induct = "parameter" THEN StructuralCounterexamples(T, admitted, Th)
    ELSE PlainCounterexamples(admitted, Th)

CounterexampleQuery ==
    /\ phase = "counterexample"
    /\ \/ Counterexamples = {} /\ Conclude("verified", Nothing)
       \/ \E w \in Counterexamples : Conclude("refuted", w)

\* The availability of the fields of the predicates used through one_layer.
OneLayerAvailability ==
    /\ phase = "onelayer"
    /\ IF \E p \in OneLayerPredicates(Th) : \E k \in DOMAIN T[p] :
            T[p][k].arbitrary /\ Unavailable(T, admitted, p, k)
       THEN Refuse
       ELSE /\ phase' = "branch"
            /\ UNCHANGED <<doc, at, declared, hole, query, running, ctor, admitted,
                           bisim, log, exit>>

Branch ==
    /\ phase = "branch" /\ ctor <= Len(T[Th.target])
    /\ CASE \/ ~RecursiveOnly(T, Th.target, ctor)
            \/ T[Th.target][ctor].arbitrary /\ Unavailable(T, admitted, Th.target, ctor) ->
              Refuse
         [] OTHER ->
              IF BranchIsSat(T, admitted, Th, ctor)
              THEN Conclude("refuted", Nothing)
              ELSE /\ ctor' = ctor + 1
                   /\ UNCHANGED <<doc, at, phase, declared, hole, query, running,
                                  admitted, bisim, log, exit>>

AllBranches ==
    /\ phase = "branch" /\ ctor > Len(T[Th.target])
    /\ Conclude("verified", Nothing)

\* Membership of a ground atom, or reachability of the counterexample rule.
FixedPointQuery ==
    /\ phase = "fixedpoint"
    /\ IF ~RulesAreInterpreted(T, declared) THEN Refuse
       ELSE LET least == FixedPoint(T, declared)
                reached == \E d \in Index, c \in Context :
                              <<Th.target, d>> \in least /\ <<d, c>> \notin Th.goal
            IN  Conclude(IF running.ground
                         THEN IF running.atom \in least THEN "derived" ELSE "not-derived"
                         ELSE IF reached THEN "refuted" ELSE "verified", Nothing)

\* execute_synthesis, whose search Synthesis models.
SynthQuery ==
    /\ phase = "synth"
    /\ Conclude("synthesized", Nothing)

-----------------------------------------------------------------------------
(* Solve.                                                                  *)

SolveQuery ==
    /\ phase = "solve"
    /\ \/ /\ relation' \in Models(running.system)
          /\ phase' = "cells"
          /\ UNCHANGED <<doc, at, declared, hole, query, running, ctor, admitted,
                         cell, array, log, exit>>
       \/ /\ Models(running.system) = {}
          /\ Answer("unsatisfiable", Nothing) /\ Fail
          /\ UNCHANGED <<doc, at, declared, hole, query, running, ctor, admitted, bisim>>

EvaluateCell ==
    /\ phase = "cells" /\ cell <= Len(Cells(running.system))
    /\ LET key == Cells(running.system)[cell]
       IN  array' = IF key \in relation THEN Store(array, key, TRUE) ELSE array
    /\ cell' = cell + 1
    /\ UNCHANGED <<doc, at, phase, declared, hole, query, running, ctor, admitted,
                   relation, log, exit>>

\* Lift, print, parse, elaborate, and compare with the array.
RoundTrip ==
    /\ phase = "cells" /\ cell > Len(Cells(running.system))
    /\ LET table == LiftTable(array)
       IN  IF DuplicateKey(table) \/ TableValue(table) # array
           THEN /\ Answer("not-identical", table) /\ Fail
                /\ UNCHANGED <<doc, at, declared, hole, query, running, ctor, admitted, bisim>>
           ELSE Conclude("model-witness", table)

Next ==
    \/ DeclarePredicate \/ DeclareModel \/ DeclareCounterexample
    \/ StartProof \/ KeepQuery \/ EndOfDocument
    \/ SolverUnknown \/ CounterexampleQuery
    \/ OneLayerAvailability \/ Branch \/ AllBranches
    \/ FixedPointQuery \/ SynthQuery
    \/ SolveQuery \/ EvaluateCell \/ RoundTrip

Spec == Init /\ [][Next]_vars

-----------------------------------------------------------------------------
(* ARCHITECTURE.md, "Constructor-generated predicates": what Fine reports  *)
(* as verified, by any of its procedures and with any theorems admitted    *)
(* before it, holds in the least constructor-generated interpretation.     *)
VerifiedIsTrue ==
    \A n \in DOMAIN log :
        log[n].verdict = "verified" => True(T, log[n].of.th)

(* The engine is given only part of the predicates; where it answers, its  *)
(* answer is that of the whole theory, in both directions.                 *)
FixedpointIsExact ==
    \A n \in DOMAIN log :
        LET q == log[n].of IN
        /\ log[n].verdict = "derived" => q.atom \in Least(T)
        /\ log[n].verdict = "not-derived" => q.atom \notin Least(T)
        /\ log[n].verdict = "refuted" /\ q.induct = "none" => ~True(T, q.th)

(* A document succeeds only if it ends with the answer to its executable   *)
(* declaration and everything before was a verified proof.                 *)
SuccessIsTheQuerysAnswer ==
    exit = "success" =>
        /\ log # <<>> /\ log[Len(log)].of = query
        /\ \A n \in 1..(Len(log) - 1) :
              log[n].of.reusable /\ log[n].verdict = "verified"

(* The table Fine prints for a `solve` is a bisimulation with the initial  *)
(* pair, read from the source text alone.                                  *)
WitnessIsABisimulation ==
    \A n \in DOMAIN log :
        log[n].verdict = "model-witness" =>
            LET s == log[n].of.system
                R == {p \in Pairs(s) : Reads(log[n].witness, p)}
            IN  s.initial \in R /\ Refine(s, R) = R /\ R \subseteq Bisimilar(s)

(* A model hole is unsatisfiable only when the initial states can be told  *)
(* apart.                                                                  *)
UnsatisfiableMeansDistinguishable ==
    \A n \in DOMAIN log :
        log[n].verdict = "unsatisfiable" =>
            log[n].of.system.initial \notin Bisimilar(log[n].of.system)

(* "parse(print(lift(x)))" is exact: no model is turned down for what the  *)
(* table syntax makes of it.                                               *)
WitnessesSurviveTheRoundTrip ==
    \A n \in DOMAIN log : log[n].verdict # "not-identical"
=============================================================================
