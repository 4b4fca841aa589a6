---------------------------- MODULE RuntimeProofs ----------------------------
(***************************************************************************)
(* What a document reports is right, for every document, table and set of  *)
(* admitted theorems: the soundness of the single procedures               *)
(* (PredicateProofs) carried through the interpreter's states.             *)
(***************************************************************************)
EXTENDS Runtime, PredicateProofs

IsSeq(s) == \E S : s \in Seq(S)

\* What an answer claims.
Right(table, e) ==
    /\ e.verdict = "verified" => True(table, e.of.th)
    /\ e.verdict = "derived" => e.of.atom \in Least(table)
    /\ e.verdict = "not-derived" => e.of.atom \notin Least(table)
    /\ e.verdict = "refuted" /\ e.of.induct = "none" => ~True(table, e.of.th)

IsVerifiedProof(e) == e.of.reusable /\ e.verdict = "verified"

Before == phase = "declare"
Checking == phase \in {"counterexample", "onelayer", "branch", "fixedpoint"}
Busy == Checking \/ phase \in {"solve", "cells", "synth"}

\* What the interpreter knows of the declarations read so far.
Declarations ==
    /\ doc \in Document
    /\ at \in Nat \ {0} /\ ctor \in Nat \ {0}
    /\ declared \in SUBSET Pred /\ CallsWithin(T, declared)
    /\ query = Nothing \/ (/\ Typed(query) /\ query.op \in {"solve", "synth", "check"}
                           /\ query.op = "check" => ~query.reusable)

\* What it knows of the check at hand: the conditions under which the check was
\* sent where it is, and the queries that have come back unsatisfiable.
CheckAtHand ==
    /\ Checking => Typed(running) /\ running.op = "check"
    /\ phase = "counterexample" =>
          /\ ~running.ground /\ running.induct # "predicate"
          /\ Th.target = Data /\ Th.assumed = {} /\ Th.ensured = {}
    /\ phase \in {"onelayer", "branch"} =>
          /\ ~running.ground /\ running.induct = "predicate"
          /\ Inductive(Th)
    /\ phase = "onelayer" => ctor = 1
    /\ phase = "branch" =>
          /\ LayersPassed(T, admitted, Th)
          /\ \A k \in DOMAIN T[Th.target] : k < ctor => BranchPassed(T, admitted, Th, k)
    /\ phase = "fixedpoint" =>
          IF running.ground THEN running.atom[1] \in declared /\ HornComplete(T, running.atom[1])
          ELSE Invariant(Th)

\* The theorems assumed in every query are true.
AdmittedHold ==
    /\ IsSeq(admitted)
    /\ \A n \in DOMAIN admitted : True(T, admitted[n])

Answers == IsSeq(log) /\ \A n \in DOMAIN log : Right(T, log[n])

\* Until the end the log is verified proofs, and what is at hand is a proof or
\* the executable declaration.
Order ==
    /\ Before \/ Busy \/ phase = "done"
    /\ Before \/ Busy => exit = "none" /\ \A n \in DOMAIN log : IsVerifiedProof(log[n])
    /\ Busy => IsProof \/ running = query
    /\ SuccessIsTheQuerysAnswer

RInv == Declarations /\ CheckAtHand /\ AdmittedHold /\ Answers /\ Order

-----------------------------------------------------------------------------
\* Append, as far as it is used.
LEMMA AppendExtends ==
  ASSUME NEW s, IsSeq(s), NEW e
  PROVE  /\ IsSeq(Append(s, e))
         /\ Len(s) \in Nat /\ DOMAIN s = 1..Len(s)
         /\ Len(Append(s, e)) = Len(s) + 1
         /\ DOMAIN Append(s, e) = 1..(Len(s) + 1)
         /\ \A n \in 1..Len(s) : Append(s, e)[n] = s[n]
         /\ Append(s, e)[Len(s) + 1] = e
<1>1. PICK S : s \in Seq(S)
  BY DEF IsSeq
<1>2. s \in Seq(S \cup {e}) /\ e \in S \cup {e}
  BY <1>1
<1>3. Append(s, e) \in Seq(S \cup {e})
  BY <1>2
<1>4. IsSeq(Append(s, e))
  BY <1>3 DEF IsSeq
<1> QED
  BY <1>2, <1>4

\* The table of a document is one of the assumed theories.
LEMMA TableFacts ==
  ASSUME Declarations
  PROVE  WellFormed(T) /\ Generated(T)
  BY TheoriesAreGenerated, DocumentsAreTyped DEF Declarations, T

\* Runtime::execute starts with nothing declared, admitted or answered.
LEMMA InitRInv == Init => RInv
<1> SUFFICES ASSUME Init PROVE RInv
  OBVIOUS
<1>1. Declarations
  BY DEF Init, Declarations, CallsWithin
<1>2. IsSeq(<<>>)
  <2>1. <<>> \in Seq({})
    OBVIOUS
  <2> QED
    BY <2>1 DEF IsSeq
<1>3. AdmittedHold /\ Answers
  BY <1>2 DEF Init, AdmittedHold, Answers
<1>4. CheckAtHand /\ Order
  BY DEF Init, CheckAtHand, Checking, Order, Before, Busy, SuccessIsTheQuerysAnswer
<1> QED
  BY <1>1, <1>3, <1>4 DEF RInv

\* An exception ends the document and changes nothing that was reported.
LEMMA FailKeeps ==
  ASSUME RInv, Fail, UNCHANGED <<doc, at, declared, hole, query, running, ctor, admitted, log>>
  PROVE  RInv'
<1>1. phase' = "done" /\ exit' = "failure"
  BY DEF Fail
<1>2. Declarations'
  BY DEF RInv, Declarations, T, CallsWithin, Typed
<1>3. CheckAtHand'
  BY <1>1 DEF CheckAtHand, Checking
<1>4. AdmittedHold' /\ Answers'
  BY DEF RInv, AdmittedHold, Answers, T
<1>5. Order'
  BY <1>1 DEF Order, Before, Busy, Checking, SuccessIsTheQuerysAnswer
<1> QED
  BY <1>2, <1>3, <1>4, <1>5 DEF RInv

\* A declaration that is only recorded.
LEMMA DeclaringKeeps ==
  ASSUME RInv, Before, Declarations', UNCHANGED <<doc, phase, exit, admitted, log>>
  PROVE  RInv'
<1>1. phase' = "declare" /\ exit' = "none"
  BY DEF RInv, Order, Before
<1>2. CheckAtHand'
  BY <1>1 DEF CheckAtHand, Checking
<1>3. AdmittedHold' /\ Answers'
  BY DEF RInv, AdmittedHold, Answers, T
<1>4. Order'
  BY <1>1 DEF RInv, Order, Before, Busy, Checking, SuccessIsTheQuerysAnswer, IsVerifiedProof
<1> QED
  BY <1>2, <1>3, <1>4 DEF RInv

\* A check is sent to a procedure only under that procedure's conditions.
LEMMA BeginKeeps ==
  ASSUME RInv, Before,
         NEW q, Typed(q), q.op \in {"solve", "synth", "check"},
         (q.op = "check" /\ q.reusable) \/ q = query,
         Begin(q), UNCHANGED <<doc, at, declared, hole, query, admitted, log>>
  PROVE  RInv'
<1>1. CASE Route(q) = "no"
  BY <1>1, FailKeeps DEF Begin
<1>2. CASE Route(q) # "no"
  <2>1. running' = q /\ phase' = Route(q) /\ ctor' = 1 /\ exit' = "none"
    BY <1>2 DEF Begin, RInv, Order
  <2>2. Declarations'
    BY <2>1 DEF RInv, Declarations, T, CallsWithin, Typed
  <2>3. AdmittedHold' /\ Answers'
    BY DEF RInv, AdmittedHold, Answers, T
  <2>4. CASE q.op # "check"
    <3>1. phase' \in {"solve", "synth"}
      BY <2>1, <2>4 DEF Route
    <3>2. CheckAtHand'
      BY <3>1 DEF CheckAtHand, Checking
    <3>3. Order'
      BY <2>1, <2>4, <3>1 DEF RInv, Order, Before, Busy, Checking, SuccessIsTheQuerysAnswer,
                              IsVerifiedProof
    <3> QED
      BY <2>2, <2>3, <3>2, <3>3 DEF RInv
  <2>5. CASE q.op = "check" /\ declared = {}
    <3>1. /\ phase' = "counterexample"
          /\ ~q.ground /\ q.induct # "predicate" /\ q.th.target = Data
          /\ q.th.assumed = {} /\ q.th.ensured = {}
      BY <1>2, <2>1, <2>5 DEF Route, OrdinaryRoute
    <3>2. CheckAtHand'
      BY <2>1, <2>5, <3>1 DEF CheckAtHand, Checking, Th, Typed
    <3>3. Order'
      BY <2>1, <2>5, <3>1 DEF RInv, Order, Before, Busy, Checking, SuccessIsTheQuerysAnswer,
                              IsVerifiedProof, IsProof
    <3> QED
      BY <2>2, <2>3, <3>2, <3>3 DEF RInv
  <2>6. CASE q.op = "check" /\ declared # {}
    <3>1. \/ phase' = "onelayer" /\ ~q.ground /\ q.induct = "predicate" /\ Inductive(q.th)
          \/ /\ phase' = "fixedpoint"
             /\ IF q.ground THEN q.atom[1] \in declared /\ HornComplete(T, q.atom[1])
                ELSE Invariant(q.th)
      BY <1>2, <2>1, <2>6 DEF Route, PredicateRoute, Typed
    <3>2. CheckAtHand'
      BY <2>1, <2>6, <3>1 DEF CheckAtHand, Checking, Th, T, Typed, Inductive, Invariant
    <3>3. Order'
      BY <2>1, <2>6, <3>1 DEF RInv, Order, Before, Busy, Checking, SuccessIsTheQuerysAnswer,
                              IsVerifiedProof, IsProof
    <3> QED
      BY <2>2, <2>3, <3>2, <3>3 DEF RInv
  <2> QED
    BY <2>4, <2>5, <2>6
<1> QED
  BY <1>1, <1>2

\* An answer that is right may be logged, and admitted if it is a proof's.
LEMMA ConcludeKeeps ==
  ASSUME RInv, Busy, NEW verdict, NEW witness, Conclude(verdict, witness),
         Right(T, [of |-> running, verdict |-> verdict, witness |-> witness])
  PROVE  RInv'
<1> DEFINE e == [of |-> running, verdict |-> verdict, witness |-> witness]
<1>1. log' = Append(log, e) /\ UNCHANGED <<doc, declared, hole, query, running, ctor>>
  BY DEF Conclude, Answer
<1>2. \/ /\ IsProof /\ verdict = "verified" /\ admitted' = Append(admitted, Th)
         /\ phase' = "declare" /\ at' = at + 1 /\ exit' = exit
      \/ /\ IsProof /\ phase' = "done" /\ exit' = "refuted" /\ UNCHANGED <<at, admitted>>
      \/ /\ ~IsProof /\ phase' = "done" /\ exit' = "success" /\ UNCHANGED <<at, admitted>>
  BY DEF Conclude
<1>3. T' = T /\ exit = "none"
  BY <1>1 DEF T, RInv, Order
<1>4. Declarations'
  BY <1>1, <1>2 DEF RInv, Declarations, T, CallsWithin, Typed
<1>5. CheckAtHand'
  BY <1>2 DEF CheckAtHand, Checking
<1>6. AdmittedHold'
  <2>1. CASE admitted' = admitted
    BY <1>3, <2>1 DEF RInv, AdmittedHold
  <2>2. CASE verdict = "verified" /\ admitted' = Append(admitted, Th)
    <3>1. True(T, Th)
      BY <2>2 DEF Right, Th
    <3> QED
      BY <1>3, <2>2, <3>1, AppendExtends DEF RInv, AdmittedHold
  <2> QED
    BY <1>2, <2>1, <2>2
<1>7. Answers'
  BY <1>1, <1>3, AppendExtends DEF RInv, Answers
<1>8. Order'
  <2>1. CASE phase' = "declare"
    <3>1. IsVerifiedProof(e)
      BY <1>2, <2>1 DEF IsVerifiedProof, IsProof
    <3>2. \A n \in DOMAIN log' : IsVerifiedProof(log'[n])
      BY <1>1, <3>1, AppendExtends DEF RInv, Order, Answers
    <3> QED
      BY <1>2, <1>3, <2>1, <3>2 DEF Order, Before, Busy, Checking, SuccessIsTheQuerysAnswer,
                                    IsVerifiedProof
  <2>2. CASE phase' = "done" /\ exit' = "refuted"
    BY <2>2 DEF Order, Before, Busy, Checking, SuccessIsTheQuerysAnswer
  <2>3. CASE ~IsProof /\ phase' = "done" /\ exit' = "success"
    <3>1. running = query
      BY <2>3 DEF RInv, Order
    <3>2. /\ Len(log') = Len(log) + 1 /\ Len(log) \in Nat
          /\ log'[Len(log')] = e
          /\ \A n \in 1..Len(log) : log'[n] = log[n]
          /\ DOMAIN log = 1..Len(log)
      BY <1>1, AppendExtends DEF RInv, Answers
    <3>3. log' # <<>>
      BY <3>2
    <3>4. \A n \in 1..(Len(log') - 1) : log'[n].of.reusable /\ log'[n].verdict = "verified"
      BY <3>2 DEF RInv, Order, IsVerifiedProof
    <3> QED
      BY <1>1, <2>3, <3>1, <3>2, <3>3, <3>4
         DEF Order, Before, Busy, Checking, SuccessIsTheQuerysAnswer
  <2> QED
    BY <1>2, <2>1, <2>2, <2>3
<1> QED
  BY <1>4, <1>5, <1>6, <1>7, <1>8 DEF RInv

\* A rejected query changes nothing but the exit.
LEMMA RefuseKeeps == RInv /\ Refuse => RInv'
  BY FailKeeps DEF Refuse

-----------------------------------------------------------------------------
(* One lemma for each group of actions.                                    *)

\* Reading a declaration that starts no proof (execute's loop) answers nothing.
LEMMA DeclarationKeeps ==
  ASSUME RInv, DeclarePredicate \/ DeclareModel \/ DeclareCounterexample \/ StartProof \/ KeepQuery
  PROVE  RInv'
<1>0. /\ phase = "declare" /\ at <= Len(doc.items)
      /\ at \in DOMAIN doc.items /\ Typed(Item)
  <2>1. phase = "declare" /\ at <= Len(doc.items)
    BY DEF DeclarePredicate, DeclareModel, DeclareCounterexample, StartProof, KeepQuery, Declaring
  <2> QED
    BY <2>1, DocumentsAreTyped DEF RInv, Declarations, Item
<1>1. CASE DeclarePredicate
  <2>1. CASE Item.pred \in declared \/ ~CallsDeclared(Item.pred)
    BY <1>1, <2>1, FailKeeps DEF DeclarePredicate
  <2>2. CASE Item.pred \notin declared /\ CallsDeclared(Item.pred)
    <3>1. /\ declared' = declared \cup {Item.pred} /\ at' = at + 1
          /\ UNCHANGED <<doc, phase, exit, query, ctor, admitted, log>>
      BY <1>1, <2>2 DEF DeclarePredicate
    <3>2. Item.pred \in Pred
      BY <1>0, <1>1 DEF DeclarePredicate, Declaring, Typed
    <3>3. CallsWithin(T, declared \cup {Item.pred})
      BY <2>2 DEF CallsDeclared, CallsWithin, RInv, Declarations
    <3>4. Declarations'
      BY <3>1, <3>2, <3>3 DEF RInv, Declarations, T, CallsWithin, Typed
    <3> QED
      BY <1>0, <3>1, <3>4, DeclaringKeeps DEF Before
  <2> QED
    BY <2>1, <2>2
<1>2. CASE DeclareModel
  <2>1. CASE hole
    BY <1>2, <2>1, FailKeeps DEF DeclareModel
  <2>2. CASE ~hole
    <3>1. at' = at + 1 /\ UNCHANGED <<doc, phase, exit, declared, query, ctor, admitted, log>>
      BY <1>2, <2>2 DEF DeclareModel
    <3>2. Declarations'
      BY <3>1 DEF RInv, Declarations, T, CallsWithin, Typed
    <3> QED
      BY <1>0, <3>1, <3>2, DeclaringKeeps DEF Before
  <2> QED
    BY <2>1, <2>2
<1>3. CASE DeclareCounterexample
  BY <1>3, FailKeeps DEF DeclareCounterexample
<1>4. CASE StartProof
  <2>1. CASE query # Nothing
    BY <1>4, <2>1, FailKeeps DEF StartProof
  <2>2. CASE query = Nothing
    <3>1. Begin(Item) /\ UNCHANGED <<doc, at, declared, hole, query, admitted, log>>
      BY <1>4, <2>2 DEF StartProof
    <3>2. Item.op = "check" /\ Item.reusable
      BY <1>4 DEF StartProof, Declaring
    <3> QED
      BY <1>0, <3>1, <3>2, BeginKeeps DEF Before
  <2> QED
    BY <2>1, <2>2
<1>5. CASE KeepQuery
  <2>1. CASE query # Nothing
    BY <1>5, <2>1, FailKeeps DEF KeepQuery
  <2>2. CASE query = Nothing
    <3>1. /\ query' = Item /\ at' = at + 1
          /\ UNCHANGED <<doc, phase, exit, declared, ctor, admitted, log>>
      BY <1>5, <2>2 DEF KeepQuery
    <3>2. Item.op \in {"solve", "synth", "check"} /\ (Item.op = "check" => ~Item.reusable)
      BY <1>5 DEF KeepQuery, Declaring
    <3>3. Declarations'
      BY <1>0, <3>1, <3>2 DEF RInv, Declarations, T, CallsWithin, Typed
    <3> QED
      BY <1>0, <3>1, <3>3, DeclaringKeeps DEF Before
  <2> QED
    BY <2>1, <2>2
<1> QED
  BY <1>1, <1>2, <1>3, <1>4, <1>5

\* At the end of the document execute hands the kept declaration to its
\* procedure, or rejects.
LEMMA EndKeeps == RInv /\ EndOfDocument => RInv'
<1> SUFFICES ASSUME RInv, EndOfDocument PROVE RInv'
  OBVIOUS
<1> DEFINE bad == \/ query = Nothing
                  \/ declared # {} /\ query.op # "check"
                  \/ query.op = "solve" /\ ~hole
<1>1. CASE bad
  BY <1>1, FailKeeps DEF EndOfDocument
<1>2. CASE ~bad
  <2>1. Begin(query) /\ UNCHANGED <<doc, at, declared, hole, query, admitted, log>>
    BY <1>2 DEF EndOfDocument
  <2>2. Typed(query) /\ query.op \in {"solve", "synth", "check"}
    BY <1>2 DEF RInv, Declarations
  <2> QED
    BY <2>1, <2>2, BeginKeeps DEF EndOfDocument, Before
<1> QED
  BY <1>1, <1>2

\* execute_check: both inductions over data and the plain check.
LEMMA CounterexampleKeeps == RInv /\ CounterexampleQuery => RInv'
<1> SUFFICES ASSUME RInv, CounterexampleQuery PROVE RInv'
  OBVIOUS
<1>0. Busy
  BY DEF CounterexampleQuery, Busy, Checking
<1>1. /\ phase = "counterexample" /\ Typed(running) /\ running.op = "check"
      /\ ~running.ground /\ running.induct # "predicate"
      /\ Th.target = Data /\ Th.assumed = {} /\ Th.ensured = {}
  BY DEF CounterexampleQuery, RInv, CheckAtHand, Checking
<1>2. Th \in Theorem
  BY <1>1 DEF Typed, Th
<1>3. WellFormed(T) /\ Generated(T) /\ \A n \in DOMAIN admitted : True(T, admitted[n])
  BY TableFacts DEF RInv, AdmittedHold
<1>4. CASE Counterexamples = {} /\ Conclude("verified", Nothing)
  <2>1. True(T, Th)
    BY <1>2, <1>1, <1>3, <1>4, StructuralInductionIsSound, PlainCheckIsSound DEF Counterexamples
  <2>2. Right(T, [of |-> running, verdict |-> "verified", witness |-> Nothing])
    BY <2>1 DEF Right, Th
  <2> QED
    BY <1>0, <1>4, <2>2, ConcludeKeeps
<1>5. ASSUME NEW w \in Counterexamples, Conclude("refuted", w)
      PROVE  RInv'
  <2>1. ASSUME running.induct = "none" PROVE ~True(T, Th)
    <3>1. w \in PlainCounterexamples(admitted, Th)
      BY <1>5, <2>1 DEF Counterexamples
    <3>2. /\ w \in Place
          /\ \E I \in Interpretations(admitted) :
               Assumptions(Th, I, w[1], w[2]) /\ ~Guarantees(Th, I, w[1], w[2])
      BY <3>1 DEF PlainCounterexamples
    <3>3. w[1] \in Index /\ w[2] \in Context
      BY <3>2 DEF Place
    <3>4. Assumptions(Th, Least(T), w[1], w[2]) /\ ~Guarantees(Th, Least(T), w[1], w[2])
      BY <1>1, <3>2 DEF Assumptions, Guarantees
    <3>5. <<Th.target, w[1]>> \in Least(T)
      BY <1>1, <1>3, <3>3 DEF Generated
    <3> QED
      BY <3>3, <3>4, <3>5 DEF True, Holds, Contextual
  <2>2. Right(T, [of |-> running, verdict |-> "refuted", witness |-> w])
    BY <2>1 DEF Right, Th
  <2> QED
    BY <1>0, <1>5, <2>2, ConcludeKeeps
<1> QED
  BY <1>4, <1>5 DEF CounterexampleQuery

\* execute_predicate_induction: the availability queries, then one branch after
\* the other.  What has come back unsatisfiable is what soundness asks for.
LEMMA InductionKeeps ==
  ASSUME RInv, OneLayerAvailability \/ Branch \/ AllBranches
  PROVE  RInv'
<1>0. Busy /\ phase \in {"onelayer", "branch"}
  BY DEF OneLayerAvailability, Branch, AllBranches, Busy, Checking
<1>1. /\ Typed(running) /\ running.op = "check" /\ ~running.ground
      /\ running.induct = "predicate" /\ Inductive(Th) /\ Th \in Theorem
  BY <1>0 DEF RInv, CheckAtHand, Checking, Typed, Th
<1>2. ASSUME phase' = "branch",
             UNCHANGED <<doc, at, declared, hole, query, running, admitted, log, exit>>,
             ctor' \in Nat \ {0}, LayersPassed(T, admitted, Th),
             \A k \in DOMAIN T[Th.target] : k < ctor' => BranchPassed(T, admitted, Th, k)
      PROVE  RInv'
  <2>1. Declarations'
    BY <1>2 DEF RInv, Declarations, T, CallsWithin, Typed
  <2>2. AdmittedHold' /\ Answers'
    BY <1>2 DEF RInv, AdmittedHold, Answers, T
  <2>3. T' = T /\ Th' = Th
    BY <1>2 DEF T, Th
  <2>4. Inductive(Th)'
    BY <1>1, <1>2, <2>3 DEF Inductive
  <2>5. Typed(running)'
    BY <1>1, <1>2 DEF Typed
  <2>6. CheckAtHand'
    BY <1>1, <1>2, <2>3, <2>4, <2>5 DEF CheckAtHand, Checking
  <2>7. Order'
    BY <1>0, <1>2 DEF RInv, Order, Before, Busy, Checking, SuccessIsTheQuerysAnswer,
                      IsVerifiedProof, IsProof
  <2> QED
    BY <2>1, <2>2, <2>6, <2>7 DEF RInv
<1>3. CASE OneLayerAvailability
  <2> DEFINE bad == \E p \in OneLayerPredicates(Th) : \E k \in DOMAIN T[p] :
                       T[p][k].arbitrary /\ Unavailable(T, admitted, p, k)
  <2>1. CASE bad
    BY <1>3, <2>1, RefuseKeeps DEF OneLayerAvailability
  <2>2. CASE ~bad
    <3>1. /\ phase = "onelayer" /\ phase' = "branch"
          /\ UNCHANGED <<doc, at, declared, hole, query, running, ctor, admitted, log, exit>>
      BY <1>3, <2>2 DEF OneLayerAvailability
    <3>2. LayersPassed(T, admitted, Th)
      BY <2>2 DEF LayersPassed, Passed
    <3>3. ctor' = 1
      BY <3>1 DEF RInv, CheckAtHand
    <3>4. DOMAIN T[Th.target] \subseteq Nat \ {0}
      <4>1. T[Th.target] \in Seq(Constructor)
        BY <1>1, TableFacts DEF RInv, WellFormed, Tables, Theorem
      <4> QED
        BY <4>1
    <3> QED
      BY <1>2, <3>1, <3>2, <3>3, <3>4
  <2> QED
    BY <2>1, <2>2
<1>4. CASE Branch
  <2> DEFINE bad == \/ ~RecursiveOnly(T, Th.target, ctor)
                    \/ T[Th.target][ctor].arbitrary /\ Unavailable(T, admitted, Th.target, ctor)
  <2>0. phase = "branch"
    BY <1>4 DEF Branch
  <2>1. CASE bad
    BY <1>4, <2>1, RefuseKeeps DEF Branch
  <2>2. CASE ~bad /\ BranchIsSat(T, admitted, Th, ctor)
    <3>1. Conclude("refuted", Nothing)
      BY <1>4, <2>2 DEF Branch
    <3>2. Right(T, [of |-> running, verdict |-> "refuted", witness |-> Nothing])
      BY <1>1 DEF Right
    <3> QED
      BY <1>0, <3>1, <3>2, ConcludeKeeps
  <2>3. CASE ~bad /\ ~BranchIsSat(T, admitted, Th, ctor)
    <3>1. /\ ctor' = ctor + 1 /\ phase' = "branch"
          /\ UNCHANGED <<doc, at, declared, hole, query, running, admitted, log, exit>>
      BY <1>4, <2>0, <2>3 DEF Branch
    <3>2. BranchPassed(T, admitted, Th, ctor)
      BY <2>3 DEF BranchPassed, Passed
    <3>3. /\ LayersPassed(T, admitted, Th) /\ ctor \in Nat \ {0}
          /\ \A k \in DOMAIN T[Th.target] : k < ctor => BranchPassed(T, admitted, Th, k)
      BY <2>0 DEF RInv, CheckAtHand, Declarations
    <3>4. DOMAIN T[Th.target] \subseteq Nat
      <4>1. T[Th.target] \in Seq(Constructor)
        BY <1>1, TableFacts DEF RInv, WellFormed, Tables, Theorem
      <4> QED
        BY <4>1
    <3>5. \A k \in DOMAIN T[Th.target] : k < ctor' => BranchPassed(T, admitted, Th, k)
      BY <3>1, <3>2, <3>3, <3>4
    <3> QED
      BY <1>2, <3>1, <3>3, <3>5
  <2> QED
    BY <2>1, <2>2, <2>3
<1>5. CASE AllBranches
  <2>1. phase = "branch" /\ ctor > Len(T[Th.target]) /\ Conclude("verified", Nothing)
    BY <1>5 DEF AllBranches
  <2>2. T[Th.target] \in Seq(Constructor)
    BY <1>1, TableFacts DEF RInv, WellFormed, Tables, Theorem
  <2>3. /\ LayersPassed(T, admitted, Th) /\ ctor \in Nat \ {0}
        /\ \A k \in DOMAIN T[Th.target] : k < ctor => BranchPassed(T, admitted, Th, k)
    BY <2>1 DEF RInv, CheckAtHand, Declarations
  <2>4. \A k \in DOMAIN T[Th.target] : k < ctor
    BY <2>1, <2>2, <2>3
  <2>5. DirectGuarantee(Th)
    BY <1>1 DEF Inductive, DirectGuarantee
  <2>6. WellFormed(T) /\ Generated(T) /\ \A n \in DOMAIN admitted : True(T, admitted[n])
    BY TableFacts DEF RInv, AdmittedHold
  <2>7. True(T, Th)
    BY <1>1, <2>3, <2>4, <2>5, <2>6, PredicateInductionIsSound
  <2>8. Right(T, [of |-> running, verdict |-> "verified", witness |-> Nothing])
    BY <2>7 DEF Right, Th
  <2> QED
    BY <1>0, <2>1, <2>8, ConcludeKeeps
<1> QED
  BY <1>3, <1>4, <1>5

\* Membership and invariants over the least relation.
LEMMA FixedPointKeeps == RInv /\ FixedPointQuery => RInv'
<1> SUFFICES ASSUME RInv, FixedPointQuery PROVE RInv'
  OBVIOUS
<1> DEFINE F == FixedPoint(T, declared)
           reached == \E d \in Index, c \in Context :
                         <<Th.target, d>> \in F /\ <<d, c>> \notin Th.goal
<1>0. Busy /\ phase = "fixedpoint"
  BY DEF FixedPointQuery, Busy, Checking
<1>1. /\ Typed(running) /\ running.op = "check"
      /\ IF running.ground THEN running.atom[1] \in declared /\ HornComplete(T, running.atom[1])
         ELSE Invariant(Th)
  BY <1>0 DEF RInv, CheckAtHand, Checking
<1>2. CASE ~RulesAreInterpreted(T, declared)
  BY <1>2, RefuseKeeps DEF FixedPointQuery
<1>3. CASE RulesAreInterpreted(T, declared)
  <2>1. \A p \in declared, d \in Index :
           HornComplete(T, p) => (<<p, d>> \in F <=> <<p, d>> \in Least(T))
    BY <1>3, TableFacts, FixedPointIsLeast DEF RInv, Declarations
  <2>2. CASE running.ground
    <3>1. Conclude(IF running.atom \in F THEN "derived" ELSE "not-derived", Nothing)
      BY <1>3, <2>2 DEF FixedPointQuery
    <3>2. running.atom \in Pred \X Index
      BY <1>1, <2>2 DEF Typed, Atom
    <3>3. running.atom = <<running.atom[1], running.atom[2]>> /\ running.atom[2] \in Index
      BY <3>2
    <3>4. running.atom \in F <=> running.atom \in Least(T)
      BY <1>1, <2>1, <2>2, <3>3
    <3>5. Right(T, [of |-> running,
                    verdict |-> IF running.atom \in F THEN "derived" ELSE "not-derived",
                    witness |-> Nothing])
      BY <3>4 DEF Right
    <3> QED
      BY <1>0, <3>1, <3>5, ConcludeKeeps
  <2>3. CASE ~running.ground
    <3>1. Conclude(IF reached THEN "refuted" ELSE "verified", Nothing)
      BY <1>3, <2>3 DEF FixedPointQuery
    <3>2. /\ Th.target \in declared /\ Th.aux = Place
          /\ Th.assumed = {} /\ Th.ensured = {} /\ HornComplete(T, Th.target)
      BY <1>1, <2>3 DEF Invariant
    <3>3. \A d \in Index, c \in Context :
             /\ Assumptions(Th, Least(T), d, c)
             /\ Guarantees(Th, Least(T), d, c) <=> <<d, c>> \in Th.goal
      BY <3>2 DEF Assumptions, Guarantees, Place
    <3>4. True(T, Th) <=> ~reached
      BY <2>1, <3>2, <3>3 DEF True, Holds, Contextual
    <3>5. Right(T, [of |-> running, verdict |-> IF reached THEN "refuted" ELSE "verified",
                    witness |-> Nothing])
      BY <3>4 DEF Right, Th
    <3> QED
      BY <1>0, <3>1, <3>5, ConcludeKeeps
  <2> QED
    BY <2>2, <2>3
<1> QED
  BY <1>2, <1>3

\* Synthesis and `solve` add answers that claim nothing of a theorem.
LEMMA OthersKeep ==
  ASSUME RInv, SynthQuery \/ SolveQuery \/ EvaluateCell \/ RoundTrip
  PROVE  RInv'
<1>0. Busy /\ ~Checking
  BY DEF SynthQuery, SolveQuery, EvaluateCell, RoundTrip, Busy, Checking
<1>1. \A verdict \in {"synthesized", "model-witness"} : \A witness :
         Conclude(verdict, witness) => RInv'
  <2>1. SUFFICES ASSUME NEW verdict \in {"synthesized", "model-witness"}, NEW witness,
                        Conclude(verdict, witness)
                 PROVE  RInv'
    OBVIOUS
  <2>2. Right(T, [of |-> running, verdict |-> verdict, witness |-> witness])
    BY DEF Right
  <2> QED
    BY <1>0, <2>1, <2>2, ConcludeKeeps
<1>2. ASSUME NEW verdict \in {"unsatisfiable", "not-identical"}, NEW witness,
             Answer(verdict, witness), Fail,
             UNCHANGED <<doc, at, declared, hole, query, running, ctor, admitted>>
      PROVE  RInv'
  <2> DEFINE e == [of |-> running, verdict |-> verdict, witness |-> witness]
  <2>1. phase' = "done" /\ exit' = "failure" /\ log' = Append(log, e) /\ T' = T
    BY <1>2 DEF Fail, Answer, T
  <2>2. Right(T, e)
    BY DEF Right
  <2>3. Answers'
    BY <2>1, <2>2, AppendExtends DEF RInv, Answers
  <2>4. Declarations'
    BY <1>2 DEF RInv, Declarations, T, CallsWithin, Typed
  <2>5. AdmittedHold'
    BY <1>2, <2>1 DEF RInv, AdmittedHold
  <2>6. CheckAtHand' /\ Order'
    BY <2>1 DEF CheckAtHand, Checking, Order, Before, Busy, SuccessIsTheQuerysAnswer
  <2> QED
    BY <2>3, <2>4, <2>5, <2>6 DEF RInv
<1>3. ASSUME phase' = "cells",
             UNCHANGED <<doc, at, declared, hole, query, running, ctor, admitted, log, exit>>
      PROVE  RInv'
  <2>1. Declarations'
    BY <1>3 DEF RInv, Declarations, T, CallsWithin, Typed
  <2>2. AdmittedHold' /\ Answers'
    BY <1>3 DEF RInv, AdmittedHold, Answers, T
  <2>3. CheckAtHand'
    BY <1>3 DEF CheckAtHand, Checking
  <2>4. Order'
    BY <1>0, <1>3 DEF RInv, Order, Before, Busy, Checking, SuccessIsTheQuerysAnswer,
                      IsVerifiedProof, IsProof
  <2> QED
    BY <2>1, <2>2, <2>3, <2>4 DEF RInv
<1>4. CASE SynthQuery
  BY <1>1, <1>4 DEF SynthQuery
<1>5. CASE SolveQuery
  BY <1>2, <1>3, <1>5 DEF SolveQuery
<1>6. CASE EvaluateCell
  BY <1>3, <1>6 DEF EvaluateCell
<1>7. CASE RoundTrip
  BY <1>1, <1>2, <1>7 DEF RoundTrip
<1> QED
  BY <1>4, <1>5, <1>6, <1>7

\* Every step of Runtime::execute keeps the invariant.
LEMMA NextKeeps == RInv /\ [Next]_vars => RInv'
<1> SUFFICES ASSUME RInv, [Next]_vars PROVE RInv'
  OBVIOUS
<1>1. CASE SolverUnknown
  BY <1>1, RefuseKeeps DEF SolverUnknown
<1>2. CASE UNCHANGED vars
  <2>1. Declarations'
    BY <1>2 DEF vars, RInv, Declarations, T, CallsWithin, Typed
  <2>2. AdmittedHold' /\ Answers'
    BY <1>2 DEF vars, RInv, AdmittedHold, Answers, T
  <2>3. CheckAtHand'
    BY <1>2 DEF vars, RInv, CheckAtHand, Checking, Th, T, Typed, Inductive, Invariant
  <2>4. Order'
    BY <1>2 DEF vars, RInv, Order, Before, Busy, Checking, SuccessIsTheQuerysAnswer,
                IsVerifiedProof, IsProof
  <2> QED
    BY <2>1, <2>2, <2>3, <2>4 DEF RInv
<1> QED
  BY <1>1, <1>2, DeclarationKeeps, EndKeeps, CounterexampleKeeps, InductionKeeps,
     FixedPointKeeps, OthersKeep DEF Next

\* The invariant holds in every state of every document.
THEOREM RuntimeInvariant == Spec => []RInv
  BY InitRInv, NextKeeps, PTL DEF Spec

\* Every theorem that execute_check and execute_predicate_induction assume in a
\* later query is true: reuse cannot make a false theorem provable.
THEOREM AdmittedTheoremsHold == Spec => []AdmittedHold
<1>1. RInv => AdmittedHold
  BY DEF RInv
<1> QED
  BY <1>1, RuntimeInvariant, PTL

\* What is reported as verified holds in the least interpretation.
THEOREM VerifiedTheoremsAreTrue == Spec => []VerifiedIsTrue
<1>1. RInv => VerifiedIsTrue
  BY DEF RInv, Answers, Right, VerifiedIsTrue
<1> QED
  BY <1>1, RuntimeInvariant, PTL

\* The fixedpoint answers and the refutations without induction are exact.
THEOREM FixedpointAnswersAreExact == Spec => []FixedpointIsExact
<1>1. RInv => FixedpointIsExact
  BY DEF RInv, Answers, Right, FixedpointIsExact
<1> QED
  BY <1>1, RuntimeInvariant, PTL

\* A document that succeeds ends with its query's answer, after verified proofs.
THEOREM SuccessAnswersTheQuery == Spec => []SuccessIsTheQuerysAnswer
<1>1. RInv => SuccessIsTheQuerysAnswer
  BY DEF RInv, Order
<1> QED
  BY <1>1, RuntimeInvariant, PTL
=============================================================================
