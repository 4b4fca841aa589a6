---------------------------- MODULE SynthesisProofs ----------------------------
(***************************************************************************)
(* Safety of the synthesizer for every set of inputs, every specification  *)
(* and every core a sound solver may return.  MaxSize plays no part.       *)
(***************************************************************************)
EXTENDS Synthesis, TLAPS

IsSeq(s) == \E S : s \in Seq(S)

Running == pc \in {"gamma", "next", "test", "assemble", "verify", "lift"}

(* An open arm is being synthesized on the inputs of its constructor.      *)
RunIsOfArm ==
  Running =>
    /\ arm \in 1..Len(decl.arms)
    /\ Here.con \in decl.cases /\ Here.con \notin Done
    /\ Here.hole # NoHole
    /\ points = ArmPoints(Here)

(* The core covers every input, and what is assembled so far is right      *)
(* wherever a core member before pos covers.                               *)
CoreIsAssembled ==
  /\ pc \in {"assemble", "verify", "lift"} =>
       core \subseteq Active /\ \A p \in points : CoveredBy(core, p)
  /\ pc = "assemble" =>
       /\ pos \in Nat \ {0}
       /\ \A p \in points :
            (\E i \in core : i < pos /\ Covers(selections[i], p)) => assembled[p] \in spec[p]
  /\ pc \in {"verify", "lift"} => \A p \in points : assembled[p] \in spec[p]

(* The arms that are done, in the order of the source.                     *)
BranchesAreArms ==
  /\ arm \in Nat \ {0} /\ Len(branches) = arm - 1 /\ arm <= Len(decl.arms) + 1
  /\ \A b \in DOMAIN branches :
       /\ branches[b].con = decl.arms[b].con
       /\ IF decl.arms[b].hole = NoHole THEN branches[b].val = decl.arms[b].val
          ELSE \A p \in ArmPoints(decl.arms[b]) : branches[b].val[p] \in spec[p]
  /\ \A b, c \in DOMAIN branches : branches[b].con = branches[c].con => b = c

Types ==
  /\ decl \in Declaration
  /\ IsSeq(selections) /\ IsSeq(branches)

IInv ==
  /\ Types
  /\ RunIsOfArm
  /\ CoreIsAssembled
  /\ BranchesAreArms
  /\ SelectionsEarnTheirPlace
  /\ AssemblyIsSound
  /\ OnlySourceArmsAreRefuted

-----------------------------------------------------------------------------
(* Appending keeps what a sequence has.                                    *)
LEMMA AppendToSeq ==
  ASSUME NEW S, NEW s \in Seq(S), NEW e
  PROVE  /\ Append(s, e) \in Seq(S \cup {e})
         /\ Len(s) \in Nat
         /\ DOMAIN s = 1..Len(s)
         /\ Len(Append(s, e)) = Len(s) + 1
         /\ DOMAIN Append(s, e) = 1..(Len(s) + 1)
         /\ \A i \in 1..Len(s) : Append(s, e)[i] = s[i]
         /\ Append(s, e)[Len(s) + 1] = e
<1>1. s \in Seq(S \cup {e})
  OBVIOUS
<1> QED
  BY <1>1

LEMMA AppendKeeps ==
  ASSUME NEW s, NEW e, IsSeq(s)
  PROVE  /\ IsSeq(Append(s, e))
         /\ Len(s) \in Nat
         /\ DOMAIN s = 1..Len(s)
         /\ Len(Append(s, e)) = Len(s) + 1
         /\ DOMAIN Append(s, e) = 1..(Len(s) + 1)
         /\ \A i \in 1..Len(s) : Append(s, e)[i] = s[i]
         /\ Append(s, e)[Len(s) + 1] = e
<1>1. ASSUME NEW S, s \in Seq(S)
      PROVE  /\ IsSeq(Append(s, e))
             /\ Len(s) \in Nat
             /\ DOMAIN s = 1..Len(s)
             /\ Len(Append(s, e)) = Len(s) + 1
             /\ DOMAIN Append(s, e) = 1..(Len(s) + 1)
             /\ \A i \in 1..Len(s) : Append(s, e)[i] = s[i]
             /\ Append(s, e)[Len(s) + 1] = e
  <2>1. IsSeq(Append(s, e))
    BY <1>1, AppendToSeq, Zenon DEF IsSeq
  <2> QED
    BY <1>1, <2>1, AppendToSeq
<1>2. \E S : s \in Seq(S)
  BY Zenon DEF IsSeq
<1> QED
  BY <1>1, <1>2, Zenon

LEMMA EmptyIsSeq == IsSeq(<<>>)
BY DEF IsSeq

LEMMA InitIsRight == Init => IInv
<1> SUFFICES ASSUME Init PROVE IInv
  OBVIOUS
<1>1. Types
  BY EmptyIsSeq DEF Init, Types
<1>2. RunIsOfArm /\ CoreIsAssembled /\ AssemblyIsSound /\ OnlySourceArmsAreRefuted
  BY DEF Init, RunIsOfArm, CoreIsAssembled, AssemblyIsSound, OnlySourceArmsAreRefuted, Running
<1>3. BranchesAreArms
  BY DeclarationAssumption DEF Init, BranchesAreArms
<1>4. SelectionsEarnTheirPlace
  BY DEF Init, SelectionsEarnTheirPlace
<1> QED
  BY <1>1, <1>2, <1>3, <1>4 DEF IInv

-----------------------------------------------------------------------------
(* Steps that only move pc, search and fault.                              *)
LEMMA QuietStep ==
  ASSUME IInv,
         UNCHANGED <<spec, points, selections, core, pos, assembled, decl, arm, branches>>,
         \/ pc \in {"gamma", "next", "test"} /\ pc' \in {"gamma", "next", "test"} /\ fault' = fault
         \/ pc' = "failed" /\ fault' \in {"unknown", "rejected", "unliftable"}
  PROVE  IInv'
<1>1. Types'
  BY DEF IInv, Types, IsSeq
<1>2. RunIsOfArm'
  BY DEF IInv, RunIsOfArm, Running, Here, Done, ArmPoints
<1>3. CoreIsAssembled'
  BY DEF CoreIsAssembled
<1>4. BranchesAreArms'
  BY DEF IInv, BranchesAreArms, ArmPoints
<1>5. SelectionsEarnTheirPlace'
  BY DEF IInv, SelectionsEarnTheirPlace, Covers, CoveredBy
<1>6. AssemblyIsSound'
  BY DEF IInv, AssemblyIsSound
<1>7. OnlySourceArmsAreRefuted'
  BY DEF IInv, OnlySourceArmsAreRefuted, ArmPoints
<1> QED
  BY <1>1, <1>2, <1>3, <1>4, <1>5, <1>6, <1>7 DEF IInv

(* The core that Z3 returns covers every input.                            *)
LEMMA GammaUnsatKeeps ==
  ASSUME IInv, GammaUnsat, UNCHANGED <<decl, arm, branches>>
  PROVE  IInv'
<1> USE DEF GammaUnsat
<1>1. Types'
  BY DEF IInv, Types, IsSeq
<1>2. RunIsOfArm'
  BY DEF IInv, RunIsOfArm, Running, Here, Done, ArmPoints
<1>3. CoreIsAssembled'
  <2>1. Len(selections) \in Nat /\ DOMAIN selections = 1..Len(selections)
    BY AppendKeeps DEF IInv, Types
  <2>2. core' \subseteq 1..Len(selections)
    BY <2>1 DEF Active
  <2>3. \A p \in points' : CoveredBy(core, p)'
    BY DEF CoveredBy, Covers
  <2> QED
    BY <2>1, <2>2, <2>3 DEF CoreIsAssembled, Active
<1>4. BranchesAreArms'
  BY DEF IInv, BranchesAreArms, ArmPoints
<1>5. SelectionsEarnTheirPlace'
  BY DEF IInv, SelectionsEarnTheirPlace, Covers, CoveredBy
<1>6. AssemblyIsSound' /\ OnlySourceArmsAreRefuted'
  BY DEF IInv, AssemblyIsSound, OnlySourceArmsAreRefuted, ArmPoints
<1> QED
  BY <1>1, <1>2, <1>3, <1>4, <1>5, <1>6 DEF IInv

(* A selection covers an input that the others do not.                     *)
LEMMA SelectKeeps ==
  ASSUME IInv, Select, UNCHANGED <<decl, arm, branches>>
  PROVE  IInv'
<1> USE DEF Select
<1>0. IsSeq(selections)
  BY DEF IInv, Types
<1>1. Types'
  BY <1>0, AppendKeeps DEF IInv, Types, IsSeq
<1>2. RunIsOfArm'
  BY DEF IInv, RunIsOfArm, Running, Here, Done, ArmPoints
<1>3. CoreIsAssembled'
  BY DEF CoreIsAssembled
<1>4. BranchesAreArms'
  BY DEF IInv, BranchesAreArms, ArmPoints
<1>5. SelectionsEarnTheirPlace'
  <2>1. /\ Len(selections) \in Nat
        /\ DOMAIN selections = 1..Len(selections)
        /\ DOMAIN selections' = 1..(Len(selections) + 1)
        /\ \A i \in 1..Len(selections) : selections'[i] = selections[i]
        /\ selections'[Len(selections) + 1] = candidate
    BY <1>0, AppendKeeps
  <2>2. PICK p \in points : Covers(candidate, p) /\ ~CoveredBy(Active, p)
    BY DEF Useful, Uncovered
  <2> SUFFICES ASSUME NEW i \in 1..(Len(selections) + 1)
               PROVE  \E q \in points' :
                        /\ Covers(selections[i], q)'
                        /\ \A j \in 1..(i - 1) : ~Covers(selections[j], q)'
    BY <2>1 DEF SelectionsEarnTheirPlace, CoveredBy, Covers
  <2>3. CASE i = Len(selections) + 1
    BY <2>1, <2>2, <2>3 DEF CoveredBy, Active, Covers
  <2>4. CASE i \in 1..Len(selections)
    BY <2>1, <2>4 DEF IInv, SelectionsEarnTheirPlace, CoveredBy, Covers
  <2> QED
    BY <2>1, <2>3, <2>4
<1>6. AssemblyIsSound' /\ OnlySourceArmsAreRefuted'
  BY DEF IInv, AssemblyIsSound, OnlySourceArmsAreRefuted, ArmPoints
<1> QED
  BY <1>1, <1>2, <1>3, <1>4, <1>5, <1>6 DEF IInv

(* One round of the assembly: where pos covers, its term is taken; where   *)
(* it does not, what was right before stays.                               *)
LEMMA AssembleKeeps ==
  ASSUME IInv, Assemble, UNCHANGED <<decl, arm, branches>>
  PROVE  IInv'
<1>1. points # {}
  BY DeclarationAssumption DEF Assemble, IInv, Types, RunIsOfArm, Running, ArmPoints
<1>2. core # {}
  BY <1>1 DEF Assemble, IInv, CoreIsAssembled, CoveredBy
<1>3. Types'
  BY DEF Assemble, IInv, Types, IsSeq
<1>4. RunIsOfArm'
  BY <1>2 DEF Assemble, IInv, RunIsOfArm, Running, Here, Done, ArmPoints
<1>5. BranchesAreArms'
  BY DEF Assemble, IInv, BranchesAreArms, ArmPoints
<1>6. SelectionsEarnTheirPlace'
  BY DEF Assemble, IInv, SelectionsEarnTheirPlace, Covers, CoveredBy
<1>7. AssemblyIsSound' /\ OnlySourceArmsAreRefuted'
  BY <1>2 DEF Assemble, IInv, AssemblyIsSound, OnlySourceArmsAreRefuted, ArmPoints
<1>8. CoreIsAssembled'
  <2>1. Len(selections) \in Nat /\ DOMAIN selections = 1..Len(selections)
    BY AppendKeeps DEF IInv, Types
  <2>2. /\ core \subseteq 1..Len(selections) /\ pos \in Nat \ {0}
        /\ \A p \in points : \E i \in core : Covers(selections[i], p)
        /\ \A p \in points :
             (\E i \in core : i < pos /\ Covers(selections[i], p)) => assembled[p] \in spec[p]
    BY <2>1 DEF Assemble, IInv, CoreIsAssembled, CoveredBy, Active
  <2>3. /\ pc' = "assemble" /\ pos' = pos + 1
        /\ UNCHANGED <<spec, points, selections, core>>
    BY <1>2 DEF Assemble
  <2>4. ASSUME NEW q \in points, NEW k \in core, k < pos + 1, Covers(selections[k], q)
        PROVE  assembled'[q] \in spec[q]
    <3>0. k = pos \/ k < pos
      BY <2>2, <2>4
    <3>1. CASE pos \notin core
      <4>1. assembled' = assembled
        BY <1>2, <3>1 DEF Assemble
      <4> QED
        BY <2>2, <2>4, <3>0, <3>1, <4>1
    <3>2. CASE pos \in core /\ \A j \in core : pos <= j
      <4>1. assembled' = selections[pos].val
        BY <1>2, <3>2 DEF Assemble
      <4>2. k = pos
        BY <2>2, <2>4, <3>0, <3>2
      <4> QED
        BY <2>4, <4>1, <4>2 DEF Covers
    <3>3. CASE pos \in core /\ ~\A j \in core : pos <= j
      <4>1. assembled' = Ite(selections[pos], assembled)
        BY <1>2, <3>3 DEF Assemble
      <4>2. CASE Covers(selections[pos], q)
        BY <4>1, <4>2 DEF Ite, Covers
      <4>3. CASE ~Covers(selections[pos], q)
        <5>1. assembled'[q] = assembled[q]
          BY <4>1, <4>3 DEF Ite
        <5> QED
          BY <2>2, <2>4, <3>0, <4>3, <5>1
      <4> QED
        BY <4>2, <4>3
    <3> QED
      BY <3>1, <3>2, <3>3
  <2>5. pos' \in Nat \ {0}
    BY <2>2, <2>3
  <2>6. \A p \in points' :
          (\E i \in core' : i < pos' /\ Covers(selections[i], p)') => assembled'[p] \in spec'[p]
    BY <2>3, <2>4 DEF Covers
  <2>7. core' \subseteq Active' /\ \A p \in points' : CoveredBy(core, p)'
    BY <2>1, <2>2, <2>3 DEF CoveredBy, Covers, Active
  <2> QED
    BY <2>3, <2>5, <2>6, <2>7 DEF CoreIsAssembled, CoveredBy, Covers
<1> QED
  BY <1>3, <1>4, <1>5, <1>6, <1>7, <1>8 DEF IInv

(* Past the last selection, every core member is behind pos.               *)
LEMMA AssembledKeeps ==
  ASSUME IInv, Assembled, UNCHANGED <<decl, arm, branches>>
  PROVE  IInv'
<1> USE DEF Assembled
<1>1. Types'
  BY DEF IInv, Types, IsSeq
<1>2. RunIsOfArm'
  BY DEF IInv, RunIsOfArm, Running, Here, Done, ArmPoints
<1>3. BranchesAreArms'
  BY DEF IInv, BranchesAreArms, ArmPoints
<1>4. SelectionsEarnTheirPlace'
  BY DEF IInv, SelectionsEarnTheirPlace, Covers, CoveredBy
<1>5. AssemblyIsSound' /\ OnlySourceArmsAreRefuted'
  BY DEF IInv, AssemblyIsSound, OnlySourceArmsAreRefuted, ArmPoints
<1>6. CoreIsAssembled'
  <2>1. Len(selections) \in Nat /\ DOMAIN selections = 1..Len(selections)
    BY AppendKeeps DEF IInv, Types
  <2>2. \A i \in core : i < pos
    BY <2>1 DEF IInv, CoreIsAssembled, Active
  <2>3. \A p \in points : assembled[p] \in spec[p]
    BY <2>2 DEF IInv, CoreIsAssembled, CoveredBy
  <2> QED
    BY <2>3 DEF IInv, CoreIsAssembled, CoveredBy, Covers, Active
<1> QED
  BY <1>1, <1>2, <1>3, <1>4, <1>5, <1>6 DEF IInv

(* So the fresh solver finds no counterexample.                            *)
LEMMA VerifyKeeps ==
  ASSUME IInv, Verify, UNCHANGED <<decl, arm, branches>>
  PROVE  IInv'
<1> USE DEF Verify
<1>1. pc' = "lift" /\ fault' = fault
  BY DEF IInv, CoreIsAssembled
<1>2. Types'
  BY DEF IInv, Types, IsSeq
<1>3. RunIsOfArm'
  BY <1>1 DEF IInv, RunIsOfArm, Running, Here, Done, ArmPoints
<1>4. CoreIsAssembled'
  BY <1>1 DEF IInv, CoreIsAssembled, CoveredBy, Covers, Active
<1>5. BranchesAreArms'
  BY DEF IInv, BranchesAreArms, ArmPoints
<1>6. SelectionsEarnTheirPlace'
  BY DEF IInv, SelectionsEarnTheirPlace, Covers, CoveredBy
<1>7. AssemblyIsSound' /\ OnlySourceArmsAreRefuted'
  BY <1>1 DEF IInv, AssemblyIsSound, OnlySourceArmsAreRefuted, ArmPoints
<1> QED
  BY <1>2, <1>3, <1>4, <1>5, <1>6, <1>7 DEF IInv

-----------------------------------------------------------------------------
(* A branch for the arm at hand, right at its inputs if its hole was open. *)
LEMMA BranchKeeps ==
  ASSUME IInv,
         NEW v,
         arm \in 1..Len(decl.arms), Here.con \notin Done,
         IF Here.hole = NoHole THEN v = Here.val ELSE \A p \in ArmPoints(Here) : v[p] \in spec[p],
         branches' = Branch(v), arm' = arm + 1,
         UNCHANGED <<decl, spec>>
  PROVE  BranchesAreArms' /\ IsSeq(branches')
<1>1. IsSeq(branches)
  BY DEF IInv, Types
<1> DEFINE b0 == [con |-> Here.con, hole |-> Here.hole, val |-> v]
<1>2. /\ IsSeq(branches')
      /\ Len(branches) \in Nat
      /\ DOMAIN branches = 1..Len(branches)
      /\ Len(branches') = Len(branches) + 1
      /\ DOMAIN branches' = 1..(Len(branches) + 1)
      /\ \A b \in 1..Len(branches) : branches'[b] = branches[b]
      /\ branches'[Len(branches) + 1] = b0
  BY <1>1, AppendKeeps DEF Branch
<1>3. arm = Len(branches) + 1 /\ Len(decl.arms) \in Nat /\ arm \in Nat
  BY <1>2, DeclarationAssumption DEF IInv, Types, BranchesAreArms
<1>4. b0.con = decl.arms[arm].con /\ b0.val = v
  BY DEF Here
<1> HIDE DEF b0
<1>5. arm' \in Nat \ {0} /\ Len(branches') = arm' - 1 /\ arm' <= Len(decl'.arms) + 1
  BY <1>2, <1>3
<1>6. ASSUME NEW b \in 1..(Len(branches) + 1)
      PROVE  /\ branches'[b].con = decl.arms[b].con
             /\ IF decl.arms[b].hole = NoHole THEN branches'[b].val = decl.arms[b].val
                ELSE \A p \in ArmPoints(decl.arms[b]) : branches'[b].val[p] \in spec[p]
  <2>1. CASE b = arm
    BY <1>2, <1>3, <1>4, <2>1 DEF Here
  <2>2. CASE b \in 1..Len(branches)
    BY <1>2, <2>2 DEF IInv, BranchesAreArms
  <2> QED
    BY <1>2, <1>3, <2>1, <2>2
<1>7. ASSUME NEW b \in 1..(Len(branches) + 1), NEW c \in 1..(Len(branches) + 1),
             branches'[b].con = branches'[c].con
      PROVE  b = c
  <2>1. \A d \in 1..Len(branches) : branches[d].con # Here.con
    BY <1>2 DEF Done
  <2>2. b0.con = Here.con
    BY <1>4 DEF Here
  <2>3. b \in 1..Len(branches) \/ b = Len(branches) + 1
    BY <1>2
  <2>4. c \in 1..Len(branches) \/ c = Len(branches) + 1
    BY <1>2
  <2>5. \A d, e \in 1..Len(branches) : branches[d].con = branches[e].con => d = e
    BY <1>2 DEF IInv, BranchesAreArms
  <2> QED
    BY <1>2, <1>7, <2>1, <2>2, <2>3, <2>4, <2>5
<1>8. BranchesAreArms'
  BY <1>2, <1>5, <1>6, <1>7 DEF BranchesAreArms, ArmPoints
<1> QED
  BY <1>2, <1>8

LEMMA CompletedArmKeeps == ASSUME IInv, CompletedArm PROVE IInv'
<1> USE DEF CompletedArm, rvars, search
<1>1. arm \in 1..Len(decl.arms)
  BY DeclarationAssumption DEF AtArm, IInv, Types, BranchesAreArms
<1>2. BranchesAreArms' /\ IsSeq(branches')
  BY <1>1, BranchKeeps DEF Admissible
<1>3. Types'
  BY <1>2 DEF IInv, Types, IsSeq
<1>4. RunIsOfArm' /\ CoreIsAssembled'
  BY DEF AtArm, RunIsOfArm, CoreIsAssembled, Running
<1>5. SelectionsEarnTheirPlace'
  BY DEF IInv, SelectionsEarnTheirPlace, Covers, CoveredBy
<1>6. AssemblyIsSound' /\ OnlySourceArmsAreRefuted'
  BY DEF IInv, AssemblyIsSound, OnlySourceArmsAreRefuted, ArmPoints
<1> QED
  BY <1>2, <1>3, <1>4, <1>5, <1>6 DEF IInv

LEMMA OpenArmKeeps == ASSUME IInv, OpenArm PROVE IInv'
<1> USE DEF OpenArm, StartRun
<1>1. Types'
  BY EmptyIsSeq DEF IInv, Types, IsSeq
<1>2. arm \in 1..Len(decl.arms)
  BY DeclarationAssumption DEF AtArm, IInv, Types, BranchesAreArms
<1>3. RunIsOfArm'
  BY <1>2 DEF RunIsOfArm, Running, Admissible, Here, Done, ArmPoints
<1>4. CoreIsAssembled'
  BY DEF CoreIsAssembled
<1>5. BranchesAreArms'
  BY DEF IInv, BranchesAreArms, ArmPoints
<1>6. SelectionsEarnTheirPlace'
  BY DEF SelectionsEarnTheirPlace
<1>7. AssemblyIsSound' /\ OnlySourceArmsAreRefuted'
  BY DEF IInv, AssemblyIsSound, OnlySourceArmsAreRefuted, ArmPoints
<1> QED
  BY <1>1, <1>3, <1>4, <1>5, <1>6, <1>7 DEF IInv

LEMMA CloseArmKeeps == ASSUME IInv, CloseArm PROVE IInv'
<1> USE DEF CloseArm
<1>1. /\ arm \in 1..Len(decl.arms) /\ Here.con \notin Done /\ Here.hole # NoHole
      /\ \A p \in ArmPoints(Here) : assembled[p] \in spec[p]
  BY DEF IInv, RunIsOfArm, Running, CoreIsAssembled
<1>2. BranchesAreArms' /\ IsSeq(branches')
  BY <1>1, BranchKeeps
<1>3. Types'
  BY <1>2 DEF IInv, Types, IsSeq
<1>4. RunIsOfArm' /\ CoreIsAssembled'
  BY DEF RunIsOfArm, CoreIsAssembled, Running
<1>5. SelectionsEarnTheirPlace'
  BY DEF IInv, SelectionsEarnTheirPlace, Covers, CoveredBy
<1>6. AssemblyIsSound' /\ OnlySourceArmsAreRefuted'
  BY DEF IInv, AssemblyIsSound, OnlySourceArmsAreRefuted, ArmPoints
<1> QED
  BY <1>2, <1>3, <1>4, <1>5, <1>6 DEF IInv

(* Constructors are distinct, so the match takes each one's own branch.    *)
LEMMA BodyIsOwnBranch ==
  ASSUME IInv, NEW b \in DOMAIN branches, NEW p, branches[b].con = p.con
  PROVE  Body(p) = branches[b].val[p]
<1>1. Len(branches) \in Nat /\ DOMAIN branches = 1..Len(branches)
  BY AppendKeeps DEF IInv, Types
<1>2. \A c \in 1..Len(branches) : branches[c].con = p.con => c = b
  BY <1>1 DEF IInv, BranchesAreArms
<1> DEFINE hits == {i \in 1..Len(branches) - 1 : branches[i].con = p.con}
<1>3. CASE b = Len(branches)
  <2>1. hits = {}
    BY <1>1, <1>2, <1>3
  <2> QED
    BY <1>3, <2>1 DEF Body
<1>4. CASE b # Len(branches)
  <2>1. hits = {b}
    BY <1>1, <1>2, <1>4
  <2>2. (CHOOSE i \in hits : \A j \in hits : i <= j) = b
    BY <1>1, <2>1
  <2> QED
    BY <2>1, <2>2 DEF Body
<1> QED
  BY <1>3, <1>4

LEMMA VerifyMatchKeeps == ASSUME IInv, VerifyMatch PROVE IInv'
<1> USE DEF VerifyMatch, Throw
<1>1. Types'
  BY DEF IInv, Types, IsSeq
<1>2. RunIsOfArm' /\ CoreIsAssembled'
  BY DEF RunIsOfArm, CoreIsAssembled, Running
<1>3. BranchesAreArms'
  BY DEF IInv, BranchesAreArms, ArmPoints
<1>4. SelectionsEarnTheirPlace'
  BY DEF IInv, SelectionsEarnTheirPlace, Covers, CoveredBy
<1>5. AssemblyIsSound'
  BY DEF IInv, AssemblyIsSound
<1>6. OnlySourceArmsAreRefuted'
  <2>1. CASE fault' # "refuted"
    BY <2>1 DEF OnlySourceArmsAreRefuted
  <2>2. CASE fault = "refuted"
    BY <2>2 DEF IInv, OnlySourceArmsAreRefuted, ArmPoints
  <2>3. CASE fault # "refuted" /\ fault' = "refuted"
    <3>1. PICK p \in DeclPoints : Body(p) \notin spec[p]
      BY <2>3
    <3>2. PICK b \in DOMAIN branches : branches[b].con = p.con
      BY <3>1 DEF DeclPoints, Done
    <3>3. branches[b].val[p] \notin spec[p]
      BY <3>1, <3>2, BodyIsOwnBranch
    <3>4. b \in DOMAIN decl.arms
      <4>1. Len(branches) \in Nat /\ DOMAIN branches = 1..Len(branches)
        BY AppendKeeps DEF IInv, Types
      <4> QED
        BY <4>1, DeclarationAssumption DEF IInv, Types, BranchesAreArms
    <3>5. p \in ArmPoints(decl.arms[b])
      BY <3>1, <3>2 DEF IInv, BranchesAreArms, ArmPoints, DeclPoints
    <3>6. decl.arms[b].hole = NoHole /\ decl.arms[b].val[p] \notin spec[p]
      BY <3>2, <3>3, <3>5 DEF IInv, BranchesAreArms
    <3> QED
      BY <3>4, <3>5, <3>6 DEF OnlySourceArmsAreRefuted, ArmPoints
  <2> QED
    BY <2>1, <2>2, <2>3
<1> QED
  BY <1>1, <1>2, <1>3, <1>4, <1>5, <1>6 DEF IInv

-----------------------------------------------------------------------------
LEMMA RunNextKeeps ==
  ASSUME IInv, RunNext, UNCHANGED <<decl, arm, branches>>
  PROVE  IInv'
<1>1. CASE GammaSat
  BY <1>1, QuietStep DEF GammaSat
<1>2. CASE GammaUnsat
  BY <1>2, GammaUnsatKeeps
<1>3. CASE SolverUnknown
  BY <1>3, QuietStep DEF SolverUnknown, Throw
<1>4. CASE NextStratum
  BY <1>4, QuietStep DEF NextStratum
<1>5. CASE NextCandidate
  BY <1>5, QuietStep DEF NextCandidate
<1>6. CASE Select
  BY <1>6, SelectKeeps
<1>7. CASE Reject
  BY <1>7, QuietStep DEF Reject
<1>8. CASE Assemble
  BY <1>8, AssembleKeeps
<1>9. CASE Assembled
  BY <1>9, AssembledKeeps
<1>10. CASE Verify
  BY <1>10, VerifyKeeps
<1> QED
  BY <1>1, <1>2, <1>3, <1>4, <1>5, <1>6, <1>7, <1>8, <1>9, <1>10 DEF RunNext

LEMMA StutterKeeps == ASSUME IInv, UNCHANGED svars PROVE IInv'
<1> USE DEF svars, rvars, search
<1>1. Types' /\ RunIsOfArm' /\ BranchesAreArms'
  BY DEF IInv, Types, IsSeq, RunIsOfArm, Running, Here, Done, ArmPoints, BranchesAreArms
<1>2. CoreIsAssembled' /\ SelectionsEarnTheirPlace'
  BY DEF IInv, CoreIsAssembled, SelectionsEarnTheirPlace, CoveredBy, Covers, Active
<1>3. AssemblyIsSound' /\ OnlySourceArmsAreRefuted'
  BY DEF IInv, AssemblyIsSound, OnlySourceArmsAreRefuted, ArmPoints
<1> QED
  BY <1>1, <1>2, <1>3 DEF IInv

LEMMA NextKeeps == IInv /\ [Next]_svars => IInv'
<1> SUFFICES ASSUME IInv, [Next]_svars PROVE IInv'
  OBVIOUS
<1>1. CASE RejectArm
  BY <1>1, QuietStep DEF RejectArm, Throw
<1>2. CASE CompletedArm
  BY <1>2, CompletedArmKeeps
<1>3. CASE OpenArm
  BY <1>3, OpenArmKeeps
<1>4. CASE RunStep
  BY <1>4, RunNextKeeps DEF RunStep
<1>5. CASE CloseArm
  BY <1>5, CloseArmKeeps
<1>6. CASE LiftRefused
  BY <1>6, QuietStep DEF LiftRefused, Throw
<1>7. CASE NonExhaustive
  BY <1>7, QuietStep DEF NonExhaustive, Throw
<1>8. CASE VerifyMatch
  BY <1>8, VerifyMatchKeeps
<1>9. CASE UNCHANGED svars
  BY <1>9, StutterKeeps
<1> QED
  BY <1>1, <1>2, <1>3, <1>4, <1>5, <1>6, <1>7, <1>8, <1>9 DEF Next

LEMMA AlwaysIInv == Spec => []IInv
BY InitIsRight, NextKeeps, PTL DEF Spec

(* Whatever cores the solver returns, a declaration never ends in the      *)
(* synthesizer's "empty core" or "failed verification" exceptions.         *)
THEOREM AssemblyIsAlwaysSound == Spec => []AssemblyIsSound
<1>1. IInv => AssemblyIsSound
  BY DEF IInv
<1> QED
  BY <1>1, AlwaysIInv, PTL

(* Every active instance of gamma.check covers an input that no earlier    *)
(* one covers, so a search over finitely many inputs selects finitely many *)
(* candidates.                                                             *)
THEOREM SelectionsAlwaysEarnTheirPlace == Spec => []SelectionsEarnTheirPlace
<1>1. IInv => SelectionsEarnTheirPlace
  BY DEF IInv
<1> QED
  BY <1>1, AlwaysIInv, PTL

(* execute_match_synthesis refutes the whole match only because of an arm  *)
(* that the source completed: synthesized arms are always right, also as   *)
(* the default of the nested conditional.                                  *)
THEOREM OnlySourceArmsAreEverRefuted == Spec => []OnlySourceArmsAreRefuted
<1>1. IInv => OnlySourceArmsAreRefuted
  BY DEF IInv
<1> QED
  BY <1>1, AlwaysIInv, PTL
=============================================================================
