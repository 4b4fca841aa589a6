------------------------------- MODULE Synthesis -------------------------------
(***************************************************************************)
(* Runtime::execute_synthesis and execute_match_synthesis                  *)
(* (src/fine/synthesis_runtime.cpp): a `synth` declaration is one run of   *)
(* the synthesizer, or an exhaustive match with one run per open arm and a *)
(* verification of the whole.                                              *)
(*                                                                         *)
(* A plain declaration is a match on one constructor with one open arm.    *)
(***************************************************************************)
EXTENDS Refutation

CONSTANTS
  Result,         \* the results a specification may admit
  Declaration,    \* [match, cases, arms]; an arm is [con, params, named, hole, val, bad]
  NoHole          \* the hole of a completed arm, whose value is val

(* con: constructor; params: the symbols the arm's specification is over;  *)
(* named: those of sort Int with a name in scope (not "_"); bad: an arity, *)
(* shadowing, nested-hole or type error.                                   *)

(* Every constructor has a value: Z3's sorts are inhabited.                *)
ASSUME DeclarationAssumption ==
  \A d \in Declaration :
    /\ Len(d.arms) \in Nat /\ DOMAIN d.arms = 1..Len(d.arms)
    /\ \A c \in d.cases : \E p \in Point : p.con = c

VARIABLES
  decl,           \* the declaration
  arm,            \* the arm at hand
  branches        \* constructor, hole and value of the arms that are done

svars == <<rvars, decl, arm, branches>>

ArmPoints(a) == {p \in Point : p.con = a.con}
DeclPoints == {p \in Point : p.con \in decl.cases}

(* grammar_inputs, as `synth.hole.declare` records them ...                *)
DeclaredInputs(a) == SelectSeq(a.params, LAMBDA s : s \in a.named)

(* ... and as the synthesizer's constructor takes them.                    *)
RunInputs(a) == IF DeclaredInputs(a) = <<>> THEN a.params ELSE DeclaredInputs(a)

Init ==
  /\ decl \in Declaration
  /\ spec \in [DeclPoints -> SUBSET Result]
  /\ pc = "arm" /\ fault = "none"
  /\ points = {} /\ inputs = <<>>
  /\ strata = <<>> /\ size = 1 /\ index = 1 /\ candidate = NoTerm
  /\ selections = <<>> /\ core = {} /\ pos = 1 /\ assembled = <<>>
  /\ arm = 1 /\ branches = <<>>

-----------------------------------------------------------------------------
AtArm == pc = "arm" /\ arm <= Len(decl.arms)
Here == decl.arms[arm]
Done == {branches[i].con : i \in DOMAIN branches}
Holes == {branches[i].hole : i \in DOMAIN branches} \ {NoHole}

Admissible ==
  /\ Here.con \in decl.cases
  /\ Here.con \notin Done
  /\ ~Here.bad
  /\ Here.hole \notin Holes

Branch(value) == Append(branches, [con |-> Here.con, hole |-> Here.hole, val |-> value])

RejectArm ==
  /\ AtArm /\ ~Admissible
  /\ Throw("rejected")
  /\ UNCHANGED <<spec, points, inputs, search, selections, core, pos, assembled, decl, arm, branches>>

CompletedArm ==
  /\ AtArm /\ Admissible /\ Here.hole = NoHole
  /\ branches' = Branch(Here.val)
  /\ arm' = arm + 1
  /\ UNCHANGED <<rvars, decl>>

OpenArm ==
  /\ AtArm /\ Admissible /\ Here.hole # NoHole
  /\ StartRun(ArmPoints(Here), RunInputs(Here))
  /\ UNCHANGED <<fault, spec, decl, arm, branches>>

(* A term over the named inputs cannot tell points apart that agree there. *)
Nameable(value) ==
  \A p, q \in points :
    (\A s \in Here.named : p.at[s] = q.at[s]) => value[p] = value[q]

\* Mutant: the arm that was closed stays the arm at hand.
CloseArmAgain ==
  /\ pc = "lift"
  /\ Nameable(assembled)
  /\ branches' = Branch(assembled)
  /\ pc' = IF decl.match THEN "arm" ELSE "closed"
  /\ UNCHANGED <<fault, spec, points, inputs, search, selections, core, pos, assembled, decl, arm>>

\* Mutant: the arm takes the last selected term, not the witness.
CloseArmLast ==
  /\ pc = "lift"
  /\ Nameable(assembled)
  /\ branches' = Branch(selections[Len(selections)].val)
  /\ arm' = arm + 1
  /\ pc' = IF decl.match THEN "arm" ELSE "closed"
  /\ UNCHANGED <<fault, spec, points, inputs, search, selections, core, pos, assembled, decl>>

(* lift_expression, print, parse and elaborate give the witness back ...   *)
CloseArm ==
  /\ pc = "lift"
  /\ Nameable(assembled)
  /\ branches' = Branch(assembled)
  /\ arm' = arm + 1
  /\ pc' = IF decl.match THEN "arm" ELSE "closed"
  /\ UNCHANGED <<fault, spec, points, inputs, search, selections, core, pos, assembled, decl>>

(* ... or the simplified witness has an operation or a symbol that the     *)
(* source cannot write.                                                    *)
LiftRefused ==
  /\ pc = "lift"
  /\ Throw("unliftable")
  /\ UNCHANGED <<spec, points, inputs, search, selections, core, pos, assembled, decl, arm, branches>>

-----------------------------------------------------------------------------
AllArmsDone == pc = "arm" /\ arm > Len(decl.arms)

NonExhaustive ==
  /\ AllArmsDone /\ Done # decl.cases
  /\ Throw("rejected")
  /\ UNCHANGED <<spec, points, inputs, search, selections, core, pos, assembled, decl, arm, branches>>

(* Nested conditionals on the recognizers; the last arm is the default.    *)
Body(p) ==
  LET hits == {i \in 1..Len(branches) - 1 : branches[i].con = p.con}
  IN  IF hits = {} THEN branches[Len(branches)].val[p]
      ELSE branches[CHOOSE i \in hits : \A j \in hits : i <= j].val[p]

(* A fresh solver with the negated specification of the whole match.       *)
VerifyMatch ==
  /\ AllArmsDone /\ Done = decl.cases
  /\ \/ /\ \E p \in DeclPoints : Body(p) \notin spec[p]
        /\ Throw("refuted")
     \/ /\ \A p \in DeclPoints : Body(p) \in spec[p]
        /\ pc' = "closed" /\ UNCHANGED fault
     \/ SolverGivesUp /\ Throw("unknown")
  /\ UNCHANGED <<spec, points, inputs, search, selections, core, pos, assembled, decl, arm, branches>>

RunStep == RunNext /\ UNCHANGED <<decl, arm, branches>>

Next ==
  \/ RejectArm \/ CompletedArm \/ OpenArm \/ RunStep
  \/ CloseArm \/ LiftRefused \/ NonExhaustive \/ VerifyMatch

(* One thread that never waits for another; Z3's calls return.             *)
Spec == Init /\ [][Next]_svars
FairSpec == Spec /\ WF_svars(Next)

-----------------------------------------------------------------------------
TypeOK ==
  /\ pc \in {"arm", "gamma", "next", "test", "assemble", "verify", "lift", "closed", "failed"}
  /\ fault \in {"none", "unknown", "empty", "unverified", "rejected",
                "unliftable", "refuted"}
  /\ decl \in Declaration
  /\ points \subseteq DeclPoints
  /\ spec \in [DeclPoints -> SUBSET Result]
  /\ core \subseteq Active
  /\ size \in 1..(MaxSize + 1) /\ index \in Nat \ {0}
  /\ Len(strata) <= MaxSize
  /\ arm \in 1..(Len(decl.arms) + 1)
  /\ Len(branches) = arm - 1

(* Whatever core the solver returns, the conditional built from it meets   *)
(* the specification at every input: the two exceptions for an empty core  *)
(* and for a witness that fails its independent verification are dead.     *)
AssemblyIsSound == fault \notin {"empty", "unverified"}

(* The candidates that were dropped could not cover any counterexample     *)
(* that is still open, so never going back to one loses nothing.           *)
DroppedAreUseless ==
  pc \in {"gamma", "next", "test"} =>
    \A t \in HandedOut, p \in Uncovered : ~Covers(t, p)

(* Each active instance covered, when it was selected, an input that no    *)
(* earlier one covers: there are never more instances than inputs.         *)
SelectionsEarnTheirPlace ==
  \A i \in DOMAIN selections :
    \E p \in points : Covers(selections[i], p) /\ ~CoveredBy(1..(i - 1), p)

(* A stratum, once made, is the grammar's terms of that size, each once.   *)
StrataAreTheGrammar ==
  pc \in {"next", "test"} /\ index <= 2 =>
    \A n \in DOMAIN strata :
      /\ ToSet(strata[n]) = Grammar(points, inputs)[n]
      /\ IsInjective(strata[n])

(* The whole match fails its verification only where an arm that the       *)
(* source completed is wrong at an input of its own constructor.           *)
OnlySourceArmsAreRefuted ==
  fault = "refuted" =>
    \E i \in DOMAIN decl.arms :
      /\ decl.arms[i].hole = NoHole
      /\ \E p \in ArmPoints(decl.arms[i]) : decl.arms[i].val[p] \notin spec[p]

(* ARCHITECTURE.md: "The grammar inputs are precisely the integer          *)
(* parameters still in scope plus integer fields bound by that             *)
(* constructor", the list that `synth.hole.declare` records.               *)
GrammarIsAsDeclared ==
  pc = "gamma" => ToSet(inputs) \cap IntSymbol = ToSet(DeclaredInputs(Here))

(* A specification that terms within the bound can meet piece by piece is  *)
(* met: the search reaches a verified witness.                             *)
Realizable ==
  \A p \in points :
    \E n \in 1..MaxSize : \E t \in Grammar(points, inputs)[n] : Covers(t, p)

RealizableIsFound == (pc = "gamma" /\ Realizable) ~> (pc = "lift")
=============================================================================
