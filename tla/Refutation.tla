------------------------------ MODULE Refutation ------------------------------
(***************************************************************************)
(* RefutationSynthesizer::run and its CandidateEnumerator                  *)
(* (src/fine/synthesis.cpp): search for a term that meets a specification  *)
(* at every input, by refuting the claim that no term does.                *)
(*                                                                         *)
(* Inputs are points; a term is its syntax and its value at each point;    *)
(* a specification gives the results it admits at each point.  The solver  *)
(* is external: it answers by what holds over the points, or gives up.     *)
(***************************************************************************)
EXTENDS Integers, Sequences, FiniteSets, SequencesExt

CONSTANTS
  Point,          \* the inputs; p.at[s] is the value of symbol s at p
  IntSymbol,      \* the symbols of sort Int
  MaxSize,        \* bound: the largest candidate that is looked at
  SolverGivesUp   \* whether the solver may answer unknown

ASSUME SearchAssumption == Point # {} /\ MaxSize \in Nat \ {0} /\ SolverGivesUp \in BOOLEAN

VARIABLES
  pc,             \* where run() or its caller stands
  fault,          \* why the declaration failed
  spec,           \* the specification
  points,         \* the inputs this run quantifies over
  inputs,         \* the grammar's inputs
  strata,         \* by_size_, from size 1
  size, index,    \* current_size_ and current_index_ (from 1)
  candidate,      \* selected
  selections,     \* the terms of the active labelled instances, in order
  core,           \* the selections of the last unsat core
  pos,            \* where the assembly of the core stands
  assembled       \* value of the assembled conditional at each point

search == <<strata, size, index, candidate>>
rvars == <<pc, fault, spec, points, inputs, search, selections, core, pos, assembled>>

-----------------------------------------------------------------------------
(* Terms.                                                                  *)

NoTerm == [syntax |-> <<>>, val |-> <<>>]

Symbol(P, s) == [syntax |-> <<s>>, val |-> [p \in P |-> p.at[s]]]
Numeral(P, n) == [syntax |-> <<ToString(n)>>, val |-> [p \in P |-> n]]
Plus(l, r) == [syntax |-> <<"+", l.syntax, r.syntax>>,
               val |-> [p \in DOMAIN l.val |-> l.val[p] + r.val[p]]]
Minus(l, r) == [syntax |-> <<"-", l.syntax, r.syntax>>,
                val |-> [p \in DOMAIN l.val |-> l.val[p] - r.val[p]]]

(* Q(p, t(p)).                                                             *)
Covers(t, p) == t.val[p] \in spec[p]

(* CandidateEnumerator: the constructor and one round of ensure_size.      *)
(* add_unique never meets a term it has: StrataAreTheGrammar.              *)
Leaves(P, symbols) ==
  LET ints == SelectSeq(symbols, LAMBDA s : s \in IntSymbol)
  IN  [i \in DOMAIN ints |-> Symbol(P, ints[i])] \o <<Numeral(P, 0), Numeral(P, 1)>>

Combined(ls, rs) ==
  FlattenSeq([i \in DOMAIN ls |->
    FlattenSeq([j \in DOMAIN rs |-> <<Plus(ls[i], rs[j]), Minus(ls[i], rs[j])>>])])

\* Mutant: the last split, a large left and a small right, is left out.
StratumShort(bySize, target) ==
  FlattenSeq([l \in 1..(target - 3) |-> Combined(bySize[l], bySize[target - l - 1])])

Stratum(bySize, target) ==
  FlattenSeq([l \in 1..(target - 2) |-> Combined(bySize[l], bySize[target - l - 1])])

EnsureSize(n) == IF n <= Len(strata) THEN strata ELSE Append(strata, Stratum(strata, n))

-----------------------------------------------------------------------------
(* The solver gamma: k ranges over the points, every active label negates  *)
(* one selection's instance.                                               *)

CoveredBy(I, p) == \E i \in I : Covers(selections[i], p)
Active == DOMAIN selections
Uncovered == {p \in points : ~CoveredBy(Active, p)}

Throw(why) == pc' = "failed" /\ fault' = why

(* run() up to its loop.                                                   *)
StartRun(P, symbols) ==
  /\ pc' = "gamma"
  /\ points' = P
  /\ inputs' = symbols
  /\ strata' = <<Leaves(P, symbols)>>
  /\ size' = 1 /\ index' = 1
  /\ candidate' = NoTerm
  /\ selections' = <<>>
  /\ core' = {} /\ pos' = 1
  /\ assembled' = <<>>

(* gamma.check(active): a counterexample is left uncovered ...             *)
GammaSat ==
  /\ pc = "gamma"
  /\ Uncovered # {}
  /\ pc' = "next"
  /\ UNCHANGED <<fault, spec, points, inputs, search, selections, core, pos, assembled>>

(* ... or none is, and Z3 returns some unsatisfiable set of the labels.    *)
GammaUnsat ==
  /\ pc = "gamma"
  /\ Uncovered = {}
  /\ core' \in {C \in SUBSET Active : \A p \in points : CoveredBy(C, p)}
  /\ pc' = "assemble"
  /\ pos' = 1
  /\ UNCHANGED <<fault, spec, points, inputs, search, selections, assembled>>

(* "synthesis context was unknown", "candidate selection was unknown" or   *)
(* "synthesized candidate verification was unknown".                       *)
SolverUnknown ==
  /\ SolverGivesUp
  /\ pc \in {"gamma", "test", "verify"}
  /\ Throw("unknown")
  /\ UNCHANGED <<spec, points, inputs, search, selections, core, pos, assembled>>

(* candidates.next(): the stratum is used up ...                           *)
NextStratum ==
  /\ pc = "next" /\ size <= MaxSize
  /\ strata' = EnsureSize(size)
  /\ index > Len(strata'[size])
  /\ size' = size + 1 /\ index' = 1
  /\ UNCHANGED <<pc, fault, spec, points, inputs, candidate, selections, core, pos, assembled>>

(* ... or has a next term.                                                 *)
NextCandidate ==
  /\ pc = "next" /\ size <= MaxSize
  /\ strata' = EnsureSize(size)
  /\ index <= Len(strata'[size])
  /\ candidate' = strata'[size][index]
  /\ index' = index + 1
  /\ pc' = "test"
  /\ UNCHANGED <<fault, spec, points, inputs, size, selections, core, pos, assembled>>

\* Mutant: the coverage query is asked without the active labels.
UsefulAlone(t) == \E p \in points : Covers(t, p)

\* Mutant: a candidate has to cover all the open counterexamples.
UsefulEverywhere(t) == \A p \in Uncovered : Covers(t, p)

(* gamma with the candidate's instance pushed.                             *)
Useful(t) == \E p \in Uncovered : Covers(t, p)

\* Mutant: after a selection the search goes on with the next size.
SelectNextSize ==
  /\ pc = "test"
  /\ Useful(candidate)
  /\ selections' = Append(selections, candidate)
  /\ candidate' = NoTerm
  /\ size' = size + 1 /\ index' = 1
  /\ pc' = "gamma"
  /\ UNCHANGED <<fault, spec, points, inputs, strata, core, pos, assembled>>

(* The first useful candidate becomes an active negated instance ...       *)
Select ==
  /\ pc = "test"
  /\ Useful(candidate)
  /\ selections' = Append(selections, candidate)
  /\ candidate' = NoTerm
  /\ pc' = "gamma"
  /\ UNCHANGED <<fault, spec, points, inputs, strata, size, index, core, pos, assembled>>

(* ... and the others are never looked at again.                           *)
Reject ==
  /\ pc = "test"
  /\ ~Useful(candidate)
  /\ candidate' = NoTerm
  /\ pc' = "next"
  /\ UNCHANGED <<fault, spec, points, inputs, strata, size, index, selections, core, pos, assembled>>

\* Mutant: the branches of the conditional are swapped.
IteSwapped(t, rest) == [p \in points |-> IF Covers(t, p) THEN rest[p] ELSE t.val[p]]

(* ite(specification[result := t], t, rest).                               *)
Ite(t, rest) == [p \in points |-> IF Covers(t, p) THEN t.val[p] ELSE rest[p]]

(* The core's terms in insertion order: the first is the default, each     *)
(* later one is put around what there is.  An empty core throws.           *)
Assemble ==
  /\ pc = "assemble"
  /\ IF core = {} THEN Throw("empty") /\ UNCHANGED <<pos, assembled>>
     ELSE /\ pos \in Active
          /\ pos' = pos + 1
          /\ assembled' = IF pos \notin core THEN assembled
                          ELSE IF \A i \in core : pos <= i THEN selections[pos].val
                          ELSE Ite(selections[pos], assembled)
          /\ UNCHANGED <<pc, fault>>
  /\ UNCHANGED <<spec, points, inputs, search, selections, core>>

(* simplify keeps the term's value: the witness is assembled's equal.      *)
Assembled ==
  /\ pc = "assemble" /\ core # {} /\ pos > Len(selections)
  /\ pc' = "verify"
  /\ UNCHANGED <<fault, spec, points, inputs, search, selections, core, pos, assembled>>

(* A fresh solver with only the negated specification of the witness.      *)
Verify ==
  /\ pc = "verify"
  /\ IF \E p \in points : assembled[p] \notin spec[p]
     THEN Throw("unverified")
     ELSE pc' = "lift" /\ UNCHANGED fault
  /\ UNCHANGED <<spec, points, inputs, search, selections, core, pos, assembled>>

RunNext ==
  \/ GammaSat \/ GammaUnsat \/ SolverUnknown
  \/ NextStratum \/ NextCandidate \/ Select \/ Reject
  \/ Assemble \/ Assembled \/ Verify

-----------------------------------------------------------------------------
(* The reference grammar: all trees of n nodes over the inputs, 0 and 1.   *)
Grammar(P, symbols) ==
  LET leaves == {Symbol(P, s) : s \in ToSet(symbols) \cap IntSymbol}
                  \cup {Numeral(P, 0), Numeral(P, 1)}
      trees[n \in 1..MaxSize] ==
        IF n = 1 THEN leaves
        ELSE UNION {UNION {{Plus(x, y), Minus(x, y)} : x \in trees[l], y \in trees[n - 1 - l]} :
                      l \in 1..(n - 2)}
  IN  trees

(* What the enumerator has handed out, a term under test excepted.         *)
HandedOut ==
  LET gone(n) == IF n < size THEN Len(strata[n])
                 ELSE IF pc = "test" THEN index - 2 ELSE index - 1
  IN  UNION {{strata[n][k] : k \in 1..gone(n)} : n \in 1..(IF size <= Len(strata) THEN size ELSE Len(strata))}
=============================================================================
