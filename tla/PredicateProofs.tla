-------------------------- MODULE PredicateProofs --------------------------
(***************************************************************************)
(* The obligations of Predicates are sound for every table, theorem and    *)
(* list of admitted theorems.  No induction over derivations is needed:    *)
(* the least interpretation is contained in every closed set, so it is     *)
(* enough to find a closed set inside which the theorem holds.             *)
(***************************************************************************)
EXTENDS Predicates, TLAPS

\* The rules of a well-formed table are those of its constructors.
LEMMA RuleOfTable ==
  ASSUME NEW T, WellFormed(T), NEW r \in Rules(T)
  PROVE  /\ r \in Rule
         /\ \E k \in DOMAIN T[r.concl[1]] : r \in T[r.concl[1]][k].rules
<1>1. PICK p \in Pred : \E k \in DOMAIN T[p] : r \in T[p][k].rules
  BY DEF Rules
<1>2. PICK k \in DOMAIN T[p] : r \in T[p][k].rules
  BY <1>1
<1>3. T[p] \in Seq(Constructor)
  BY DEF WellFormed, Tables
<1>4. T[p][k] \in Constructor
  BY <1>3
<1>5. r \in Rule
  BY <1>2, <1>4 DEF Constructor
<1>6. r.concl[1] = p
  BY <1>2 DEF WellFormed
<1> QED
  BY <1>2, <1>5, <1>6

\* A constructor's rules are rules of the table.
LEMMA ConstructorsGiveRules ==
  ASSUME NEW T, NEW p \in Pred, NEW k \in DOMAIN T[p], NEW r \in T[p][k].rules
  PROVE  r \in Rules(T)
  BY DEF Rules

\* Least is contained in every closed set.
LEMMA LeastIsLeast ==
  ASSUME NEW T, NEW I \in SUBSET Atom, Closed(T, I)
  PROVE  Least(T) \subseteq I
  BY DEF Least

\* The least interpretation obeys every constructor rule that declare_predicate
\* retained.
LEMMA LeastIsClosed ==
  ASSUME NEW T, WellFormed(T)
  PROVE  Least(T) \in SUBSET Atom /\ Closed(T, Least(T))
<1>1. Least(T) \in SUBSET Atom
  BY DEF Least
<1>2. ASSUME NEW r \in Rules(T), r.prem \cup r.field \subseteq Least(T)
      PROVE  r.concl \in Least(T)
  <2>1. r.concl \in Atom
    BY RuleOfTable DEF Rule
  <2>2. ASSUME NEW I \in SUBSET Atom, Closed(T, I)
        PROVE  r.concl \in I
    <3>1. Least(T) \subseteq I
      BY <2>2, LeastIsLeast
    <3> QED
      BY <1>2, <2>2, <3>1 DEF Closed
  <2> QED
    BY <2>1, <2>2 DEF Least
<1> QED
  BY <1>1, <1>2 DEF Closed

\* Inversion: what is in the least interpretation was produced by a rule whose
\* premises are in it.
LEMMA LeastIsProduced ==
  ASSUME NEW T, WellFormed(T), NEW a \in Least(T)
  PROVE  \E r \in Rules(T) : r.concl = a /\ r.prem \cup r.field \subseteq Least(T)
<1>1. SUFFICES ASSUME ~\E r \in Rules(T) :
                         r.concl = a /\ r.prem \cup r.field \subseteq Least(T)
               PROVE  FALSE
  OBVIOUS
<1> DEFINE S == Least(T) \ {a}
<1>2. S \in SUBSET Atom
  BY LeastIsClosed
<1>3. Closed(T, S)
  <2>1. SUFFICES ASSUME NEW r \in Rules(T), r.prem \cup r.field \subseteq S
                 PROVE  r.concl \in S
    BY DEF Closed
  <2>2. r.prem \cup r.field \subseteq Least(T)
    BY <2>1
  <2>3. r.concl \in Least(T)
    BY <2>2, LeastIsClosed DEF Closed
  <2> QED
    BY <1>1, <2>2, <2>3
<1>4. Least(T) \subseteq S
  BY <1>2, <1>3, LeastIsLeast
<1> QED
  BY <1>4

-----------------------------------------------------------------------------
\* With true theorems admitted, the least interpretation is one of those the
\* solver ranges over: what no interpretation satisfies, it does not satisfy.
LEMMA LeastIsConsidered ==
  ASSUME NEW T, WellFormed(T), Generated(T),
         NEW adm, \A n \in DOMAIN adm : True(T, adm[n])
  PROVE  Least(T) \in Interpretations(adm)
  BY LeastIsClosed DEF Interpretations, Generated, True

\* A constructor that passed its availability query has no vacuous field.
LEMMA PassedIsAvailable ==
  ASSUME NEW T, WellFormed(T), Generated(T),
         NEW adm, \A n \in DOMAIN adm : True(T, adm[n]),
         NEW p \in Pred, NEW k \in DOMAIN T[p],
         ~(T[p][k].arbitrary /\ Unavailable(T, adm, p, k)),
         NEW r \in T[p][k].rules
  PROVE  r.avail
<1>1. CASE T[p][k].arbitrary
  BY <1>1, LeastIsConsidered DEF Unavailable
<1>2. CASE ~T[p][k].arbitrary
  BY <1>2 DEF WellFormed
<1> QED
  BY <1>1, <1>2

\* One-layer inversion of an atom of an available predicate.
LEMMA OneLayerInverts ==
  ASSUME NEW T, WellFormed(T), NEW a \in Least(T),
         \A k \in DOMAIN T[a[1]] : \A r \in T[a[1]][k].rules : r.avail
  PROVE  OneLayer(T, Least(T), a)
<1>1. PICK r \in Rules(T) : r.concl = a /\ r.prem \cup r.field \subseteq Least(T)
  BY LeastIsProduced
<1>2. r.avail
  BY <1>1, RuleOfTable
<1> QED
  BY <1>1, <1>2 DEF OneLayer

\* One-layer construction.
LEMMA OneLayerConstructs ==
  ASSUME NEW T, WellFormed(T), NEW a, OneLayer(T, Least(T), a)
  PROVE  a \in Least(T)
<1>1. PICK r \in Rules(T) : r.concl = a /\ r.prem \subseteq Least(T) /\ r.field \subseteq Least(T)
  BY DEF OneLayer
<1> QED
  BY <1>1, LeastIsClosed DEF Closed

-----------------------------------------------------------------------------
\* What the loop of execute_predicate_induction has established of a
\* constructor once it moves on to the next one.
Passed(T, adm, p, k) == ~(T[p][k].arbitrary /\ Unavailable(T, adm, p, k))

BranchPassed(T, adm, th, k) ==
    /\ RecursiveOnly(T, th.target, k)
    /\ Passed(T, adm, th.target, k)
    /\ ~BranchIsSat(T, adm, th, k)

LayersPassed(T, adm, th) ==
    \A p \in OneLayerPredicates(th) : \A k \in DOMAIN T[p] : Passed(T, adm, p, k)

\* The one direct guarantee of execute_predicate_induction.
DirectGuarantee(th) == th.ensured # {} => th.goal = Place

\* One verified branch: a rule of the constructor carries the theorem from its
\* recursive premises to its conclusion.
LEMMA BranchCarries ==
  ASSUME NEW T, WellFormed(T), Generated(T),
         NEW adm, \A n \in DOMAIN adm : True(T, adm[n]),
         NEW th \in Theorem, DirectGuarantee(th), LayersPassed(T, adm, th),
         NEW k \in DOMAIN T[th.target], BranchPassed(T, adm, th, k),
         NEW r \in T[th.target][k].rules,
         \A a \in r.prem \cup r.field : Contextual(th, Least(T), a[2])
  PROVE  Contextual(th, Least(T), r.concl[2])
<1> DEFINE d == r.concl[2]
<1>0. th.target \in Pred /\ r \in Rules(T) /\ d \in Index
  <2>1. th.target \in Pred
    BY DEF Theorem
  <2>2. r \in Rules(T)
    BY <2>1, ConstructorsGiveRules
  <2> QED
    BY <2>1, <2>2, RuleOfTable DEF Rule, Atom
<1>1. SUFFICES ASSUME NEW c \in Context, Assumptions(th, Least(T), d, c)
               PROVE  Guarantees(th, Least(T), d, c)
  BY DEF Contextual
<1>2. Least(T) \in Interpretations(adm)
  BY LeastIsConsidered
<1>3. Hypotheses(th, Least(T), r)
  <2>1. r.avail
    BY <1>0, PassedIsAvailable DEF BranchPassed, Passed
  <2> QED
    BY <2>1 DEF Hypotheses
<1>4. Resources(T, th, Least(T), d, c)
  <2>1. SUFFICES ASSUME NEW f \in th.assumed
                 PROVE  OneLayer(T, Least(T), f[<<d, c>>])
    BY <1>1 DEF Resources
  <2>2. f[<<d, c>>] \in Least(T)
    BY <1>1 DEF Assumptions
  <2>3. <<d, c>> \in Place
    BY <1>0 DEF Place
  <2>4. f \in [Place -> Atom]
    BY DEF Theorem
  <2>5. f[<<d, c>>][1] \in OneLayerPredicates(th)
    BY <2>3, <2>4 DEF OneLayerPredicates, Atom
  <2>6. f[<<d, c>>][1] \in Pred
    BY <2>3, <2>4 DEF Atom
  <2>7. \A j \in DOMAIN T[f[<<d, c>>][1]] :
           \A q \in T[f[<<d, c>>][1]][j].rules : q.avail
    BY <2>5, <2>6, PassedIsAvailable DEF LayersPassed, Passed
  <2> QED
    BY <2>2, <2>7, OneLayerInverts
<1>5. GoalResource(T, th, Least(T), d, c)
  BY <1>2, <1>3, <1>4 DEF BranchPassed, BranchIsSat
<1>6. CASE th.ensured = {}
  BY <1>5, <1>6 DEF GoalResource, Guarantees
<1>7. CASE th.ensured # {}
  <2>1. <<d, c>> \in th.goal
    BY <1>0, <1>7 DEF DirectGuarantee, Place
  <2>2. \A f \in th.ensured : f[<<d, c>>] \in Least(T)
    BY <1>5, <1>7, OneLayerConstructs DEF GoalResource
  <2> QED
    BY <2>1, <2>2 DEF Guarantees
<1> QED
  BY <1>6, <1>7

\* Rule induction: a theorem that every rule of its target carries from its
\* recursive premises to its conclusion is true.
LEMMA RuleInduction ==
  ASSUME NEW T, WellFormed(T), NEW th,
         \A r \in Rules(T) :
            /\ r.concl[1] = th.target
            /\ \A a \in r.prem \cup r.field : a[1] = th.target => Contextual(th, Least(T), a[2])
            => Contextual(th, Least(T), r.concl[2])
  PROVE  True(T, th)
<1> DEFINE S == {a \in Least(T) : a[1] = th.target => Contextual(th, Least(T), a[2])}
<1>1. S \in SUBSET Atom
  BY LeastIsClosed
<1>2. Closed(T, S)
  <2>1. SUFFICES ASSUME NEW r \in Rules(T), r.prem \cup r.field \subseteq S
                 PROVE  r.concl \in S
    BY DEF Closed
  <2>2. r.prem \cup r.field \subseteq Least(T)
    BY <2>1
  <2>3. r.concl \in Least(T)
    BY <2>2, LeastIsClosed DEF Closed
  <2>4. \A a \in r.prem \cup r.field : a[1] = th.target => Contextual(th, Least(T), a[2])
    BY <2>1
  <2>5. r.concl[1] = th.target => Contextual(th, Least(T), r.concl[2])
    BY <2>4
  <2> QED
    BY <2>3, <2>5
<1>3. Least(T) \subseteq S
  BY <1>1, <1>2, LeastIsLeast
<1>4. ASSUME NEW d \in Index, <<th.target, d>> \in Least(T)
      PROVE  Contextual(th, Least(T), d)
  BY <1>3, <1>4
<1> QED
  BY <1>4 DEF True, Holds

\* execute_predicate_induction reports "verified" only for theorems that hold in
\* the least constructor-generated interpretation.
THEOREM PredicateInductionIsSound ==
  ASSUME NEW T, WellFormed(T), Generated(T),
         NEW adm, \A n \in DOMAIN adm : True(T, adm[n]),
         NEW th \in Theorem, DirectGuarantee(th), LayersPassed(T, adm, th),
         \A k \in DOMAIN T[th.target] : BranchPassed(T, adm, th, k)
  PROVE  True(T, th)
<1>1. ASSUME NEW r \in Rules(T), r.concl[1] = th.target,
             \A a \in r.prem \cup r.field : a[1] = th.target => Contextual(th, Least(T), a[2])
      PROVE  Contextual(th, Least(T), r.concl[2])
  <2>1. PICK k \in DOMAIN T[th.target] : r \in T[th.target][k].rules
    BY <1>1, RuleOfTable
  <2>2. th.target \in Pred
    BY DEF Theorem
  <2>3. \A a \in r.prem \cup r.field : a[1] = th.target
    BY <2>1, <2>2 DEF BranchPassed, RecursiveOnly, WellFormed
  <2>4. \A a \in r.prem \cup r.field : Contextual(th, Least(T), a[2])
    BY <1>1, <2>3
  <2> QED
    BY <2>1, <2>4, BranchCarries
<1> QED
  BY <1>1, RuleInduction

\* execute_check's structural induction on the datatype.
THEOREM StructuralInductionIsSound ==
  ASSUME NEW T, WellFormed(T), Generated(T),
         NEW adm, \A n \in DOMAIN adm : True(T, adm[n]),
         NEW th \in Theorem, th.target = Data,
         StructuralCounterexamples(T, adm, th) = {}
  PROVE  True(T, th)
<1>1. ASSUME NEW r \in Rules(T), r.concl[1] = th.target,
             \A a \in r.prem \cup r.field : a[1] = th.target => Contextual(th, Least(T), a[2])
      PROVE  Contextual(th, Least(T), r.concl[2])
  <2>1. PICK k \in DOMAIN T[Data] : r \in T[Data][k].rules
    BY <1>1, RuleOfTable
  <2>2. Data \in Pred
    BY DEF Theorem
  <2>3. \A a \in r.prem : a[1] = Data
    BY <2>1, <2>2 DEF WellFormed
  <2>4. \A a \in r.prem : Contextual(th, Least(T), a[2])
    BY <1>1, <2>3
  <2>5. r.concl \in Pred \X Index
    BY RuleOfTable DEF Rule, Atom
  <2>6. r.concl = <<Data, r.concl[2]>> /\ r.concl[2] \in Index
    BY <1>1, <2>5
  <2>7. SUFFICES ASSUME NEW c \in Context, Assumptions(th, Least(T), r.concl[2], c),
                        ~Guarantees(th, Least(T), r.concl[2], c)
                 PROVE  FALSE
    BY DEF Contextual
  <2>8. Least(T) \in Interpretations(adm)
    BY LeastIsConsidered
  <2> DEFINE w == <<r.concl[2], c>>
  <2>9. w \in Place /\ w[1] = r.concl[2] /\ w[2] = c
    BY <2>6 DEF Place
  <2>10. w \in StructuralCounterexamples(T, adm, th)
    BY <2>4, <2>6, <2>7, <2>8, <2>9 DEF StructuralCounterexamples
  <2> QED
    BY <2>10
<1> QED
  BY <1>1, RuleInduction

\* A check without induction.
THEOREM PlainCheckIsSound ==
  ASSUME NEW T, WellFormed(T), Generated(T),
         NEW adm, \A n \in DOMAIN adm : True(T, adm[n]),
         NEW th \in Theorem, PlainCounterexamples(adm, th) = {}
  PROVE  True(T, th)
<1>1. Least(T) \in Interpretations(adm)
  BY LeastIsConsidered
<1>2. ASSUME NEW d \in Index, NEW c \in Context, Assumptions(th, Least(T), d, c),
             ~Guarantees(th, Least(T), d, c)
      PROVE  FALSE
  <2>1. <<d, c>> \in PlainCounterexamples(adm, th)
    BY <1>1, <1>2 DEF PlainCounterexamples, Place
  <2> QED
    BY <2>1
<1> QED
  BY <1>2 DEF True, Holds, Contextual

-----------------------------------------------------------------------------
\* Declared predicates call declared predicates only (declare_predicate).
CallsWithin(T, D) ==
    \A p \in D : \A k \in DOMAIN T[p] : \A r \in T[p][k].rules :
        \A a \in r.prem : a[1] \in D

\* A rule given to the fixedpoint engine is a rule of a declared predicate all
\* of whose constructors are free of arbitrary fields.
LEMMA HornRuleOfTable ==
  ASSUME NEW T, WellFormed(T), NEW D \in SUBSET Pred, NEW r \in HornRules(T, D)
  PROVE  /\ r \in Rules(T) /\ r.field = {}
         /\ r.concl[1] \in D /\ HornComplete(T, r.concl[1])
<1>1. PICK p \in D : /\ HornComplete(T, p)
                     /\ \E k \in DOMAIN T[p] : r \in T[p][k].rules
  BY DEF HornRules
<1>2. PICK k \in DOMAIN T[p] : r \in T[p][k].rules
  BY <1>1
<1>3. r \in Rules(T)
  BY <1>2, ConstructorsGiveRules
<1>4. ~T[p][k].arbitrary
  BY <1>1 DEF HornComplete
<1>5. r.field = {} /\ r.concl[1] = p
  BY <1>2, <1>4 DEF WellFormed
<1> QED
  BY <1>1, <1>3, <1>5

\* Where the engine answers, it computes the whole theory's least relation,
\* though it is given the Horn-complete predicates only.
THEOREM FixedPointIsLeast ==
  ASSUME NEW T, WellFormed(T), NEW D \in SUBSET Pred, CallsWithin(T, D),
         RulesAreInterpreted(T, D),
         NEW p \in D, HornComplete(T, p), NEW d \in Index
  PROVE  <<p, d>> \in FixedPoint(T, D) <=> <<p, d>> \in Least(T)
<1> DEFINE H == {q \in D : HornComplete(T, q)}
           F == FixedPoint(T, D)
<1>1. F \in SUBSET Atom
  BY DEF FixedPoint
<1>2. F \subseteq Least(T)
  <2>1. \A r \in HornRules(T, D) : r.prem \subseteq Least(T) => r.concl \in Least(T)
    <3>1. SUFFICES ASSUME NEW r \in HornRules(T, D), r.prem \subseteq Least(T)
                   PROVE  r.concl \in Least(T)
      OBVIOUS
    <3>2. r \in Rules(T) /\ r.prem \cup r.field \subseteq Least(T)
      BY <3>1, HornRuleOfTable
    <3> QED
      BY <3>2, LeastIsClosed DEF Closed
  <2> QED
    BY <2>1, LeastIsClosed DEF FixedPoint
<1>3. ASSUME NEW r \in HornRules(T, D), r.prem \subseteq F
      PROVE  r.concl \in F
  <2>1. r.concl \in Atom
    BY HornRuleOfTable, RuleOfTable DEF Rule
  <2>2. ASSUME NEW I \in SUBSET Atom,
               \A q \in HornRules(T, D) : q.prem \subseteq I => q.concl \in I
        PROVE  r.concl \in I
    <3>1. F \subseteq I
      BY <2>2 DEF FixedPoint
    <3> QED
      BY <1>3, <2>2, <3>1
  <2> QED
    BY <2>1, <2>2 DEF FixedPoint
<1> DEFINE S == {a \in Atom : a[1] \in H => a \in F}
<1>4. Closed(T, S)
  <2>1. SUFFICES ASSUME NEW r \in Rules(T), r.prem \cup r.field \subseteq S, r.concl[1] \in H
                 PROVE  r.concl \in F
    BY RuleOfTable DEF Closed, Rule
  <2>2. PICK k \in DOMAIN T[r.concl[1]] : r \in T[r.concl[1]][k].rules
    BY RuleOfTable
  <2>3. r \in HornRules(T, D)
    BY <2>1, <2>2 DEF HornRules
  <2>4. \A a \in r.prem : a[1] \in H
    BY <2>1, <2>2, <2>3 DEF CallsWithin, RulesAreInterpreted
  <2>5. r.prem \subseteq F
    BY <2>1, <2>4
  <2> QED
    BY <1>3, <2>3, <2>5
<1>5. Least(T) \subseteq S
  BY <1>4, LeastIsLeast
<1> QED
  BY <1>2, <1>5
=============================================================================
