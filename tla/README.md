# A TLA+ model of Fine and Rainfall

Fine is a small proof language on a soft fork of Z3 (`src/fine`, C++). Rainfall
is its evidence trace and the tools that keep that evidence beside a source that
is being edited (`fine/*.py`). This directory models both sides. On the Python
side: the durable host, what it decides to show, and the live server on top of
it, where processes interleave and crash. On the C++ side: the way of a document
through the runtime (proofs, checks, predicates, bisimulation), the
refutation-based synthesizer, and the recorder that Z3 calls back into while it
solves, against the validator that later reads its trace.

## The system

| Part | Source | Module |
| --- | --- | --- |
| byte-edit transactions, range transport | `fine/rainfall_projection.py` | `RainfallEdits` |
| one-edit diff of the browser client | `fine/rainfall_live.py` (`minimal_edit`) | `RainfallEdits` |
| requests and admission | `fine/rainfall_generation.py` | `RainfallHost` |
| durable host and its commands | `fine/rainfall_host.py` | `RainfallHost` |
| what the host promises an editor | (derived from the above) | `DisplayedEvidence` |
| live server, workers, crash and resume | `fine/rainfall_live.py` | `RainfallLive` |
| trace validator | `fine/rainfall_replay.py` | `Accepts` in `Recorder`, `Valid` in `RainfallHost` |
| recorder and Z3 observers | `src/fine/rainfall.cpp`, `*_observer.cpp` | `Recorder` |
| synthesizer | `src/fine/synthesis.cpp` | `Refutation` |
| `synth` declarations and their matches | `src/fine/synthesis_runtime.cpp` | `Synthesis` |
| document runtime | `src/fine/runtime.cpp` (`execute`, `execute_check`) | `Runtime` |
| predicates and their proof obligations | `src/fine/predicate_runtime.cpp` | `Predicates`, `Runtime` |
| `solve bisimulation` and its witness | `src/fine/bisimulation_runtime.cpp` | `Bisimulation`, `Runtime` |
| parser, elaboration, term lifting | `src/fine/parser.cpp`, `rainfall_lift.cpp` | not modelled (below) |
| Z3 itself | the rest of `src/` | not modelled: a library whose answers are inputs |

A host directory holds `state.json` (displayed text and snapshot, current
generation, a record per generation, the painted annotations) and immutable
files (`sources/`, `requests/`, `traces/`). `advance` applies a transaction,
transports every annotation, supersedes the pending request and issues a new
generation. `run` starts Fine without the lock; `complete` validates the trace
without the lock, takes it again and admits or discards. `materialize` turns the
admitted witness into one more transaction. The live server derives one edit per
submitted text, advances, and runs each generation on a thread.

A `synth` declaration asks for an integer term that meets a specification at
every input. The synthesizer keeps a solver `gamma` for "some input is covered
by no selected term", hands out terms of a fixed grammar by size, selects each
one that covers an input still open, and once `gamma` is unsatisfiable builds a
conditional from the members of its unsat core. A fresh solver verifies it, and
the runtime lifts it to source text. A declaration may also be a match on a
datatype with one such run per open arm and a verification of the whole.

A document is read in order. A `proof` is carried out where it stands and, once
verified, is assumed by every later query; the one `check`, `synth` or `solve`
waits for the end. A check goes to an ordinary counterexample query, to the
constructor branches of an induction, or to Z3's fixedpoint engine, depending on
its form and on whether a predicate has been declared by then. `fine rain` runs
the same document with a recorder, which numbers events and terms and pairs the
quantifier instances Z3 accepts with the lemmas it later logs.

## Modules

**`RainfallEdits`** has no state. A source is a sequence of bytes from a
six-letter alphabet: two letters, the `?` of a hole, and two two-byte characters
that share their leading byte. `LoadEdits`, `ApplyEdits`, `TransportRange` and
`MinimalEdit` follow the code; the reference definitions (`Image`,
`KeptCells`, `CoverableCells`) say where each byte ends up.

**`RainfallHost`**. Variables: `display`, `current`, `gens`, `annotations` are
`state.json`; `artifacts` and `traces` are the files; `proc` is what a process
holds between two locked sections; `crashes` counts crashes.

* Each section under the flock is one action (`Advance`, `Materialize`, `Run`,
  `MarkFailed`, `CompleteCheck`, `CompleteRecord`). A section that raises
  without writing is either an explicit step of the process (`CompleteRefused`,
  `MarkFailed`'s and `CompleteCheck`'s else branch) or, for a command, no step.
* `state.json` is replaced by fsync and rename, so a section that crashes leaves
  the old one; `AdvanceCrash`, `MaterializeCrash` and `CompleteCrash` leave the
  files written by then, half written ones too when `TornWrites` holds. `Kill`
  is a death outside the lock.
* A snapshot carries the text itself where the code carries hash and length.
* Fine's trace is a function of its arguments and of the spelling of the source
  path it is given (`TraceOf`); what it found is abstracted to spans (`Claims`)
  and hole replacements. With `ForeignTraces`, `complete` may be handed any mix
  of known run, document, revision and text.

**`DisplayedEvidence`** knows a document and markers only: `Edit` ages every
marker and moves to the next revision, `Publish` replaces them by markers about
the displayed snapshot. `RainfallHost` implements it with
`doc <- display, shown <- annotations`.

**`RainfallLive`** extends `RainfallHost` with the server: `ReadState`,
`SubmitEdit`/`SubmitRefused` and `StartGeneration` are the steps of one request
under `_edit_lock`; a worker is named by its generation; `ServerCrash*` kill all
threads at once; `Resume` is `--resume`; `Command` is `fine-rain-host advance`
or `materialize` on the same directory. Commands that run or complete a
generation beside the server are left to `RainfallHost`. Oversized bodies and
the HTTP checks, which refuse a request before it reaches the host, are left out.

**`Refutation`** is one run of the synthesizer. Inputs are the members of
`Point`; a term is its syntax and its value at each point, a specification the
results it admits there. So Z3's answers are determined by the state (a query is
satisfiable when a point satisfies it), except for what Z3 is free to choose:
`GammaUnsat` takes *any* covering set of labels as the core, and with
`SolverGivesUp` any query may be unknown. `NextStratum` and `NextCandidate` are
`CandidateEnumerator::next`; `Select` and `Reject` the outcome of the pushed
query; `Assemble` one selection of the core, in insertion order; `Verify` the
fresh solver. `add_unique` is left out: it never meets an equal term, which
`StrataAreTheGrammar` checks. `simplify` keeps a term's value.

**`Synthesis`** is the caller: `arm` walks over the arms of the source,
`branches` holds those that are done. `OpenArm` starts a run on the inputs of
the arm's constructor, `CloseArm` and `LiftRefused` are the source round trip
(a witness can be written only if it does not depend on an unnamed or
non-integer symbol; the simplifier may also produce an operation the language
lacks), `VerifyMatch` checks the nested conditional. A plain declaration is a
match on one constructor that needs no second verification.

**`Predicates`** has no state. A constructor is the set of its ground instances:
the atom it concludes, its premise atoms and, for an `arbitrary` field, the
premise atoms of all the values of the field's view and whether the view is
available there. `Least` is the meaning ARCHITECTURE.md gives to a predicate. To
Z3 a predicate is an uninterpreted relation, so a query is satisfiable when
*some* interpretation obeying the admitted theorems (`Interpretations`) satisfies
it: `BranchIsSat`, `Unavailable`, `StructuralCounterexamples` and
`PlainCounterexamples` are the four queries, built from `Hypotheses`,
`Resources`, `GoalResource` and `OneLayer` as the code builds them. The fixedpoint
engine computes the least relation of the rules it was given (`HornRules`).
Abstracted: a view's requirement mentions no predicate (the code admits
predicates declared earlier, which are stratified), and functions that call
predicates do not occur in theorems.

**`Bisimulation`** has no state either: the four clauses of the query, the
canonical array as a sequence of stores, the table it is lifted to and the array
that table elaborates to. `Refine` and `Bisimilar` are the reference.

**`Runtime`** executes a document over them. `at`, `declared`, `hole`, `query`
and `admitted` are the variables of `Runtime::execute` and the members it fills;
`running` and `ctor` the proof or query at hand and its branch; `relation`,
`cell` and `array` the loop over the model; `log` the answers; `exit` how the
process ends. Every rejection is `Fail`; `SolverUnknown` is an unknown answer to
any query. `Synthesis` models what `SynthQuery` stands for. The exact round trip
of an ordinary counterexample's values is taken to succeed here; its failure is
in `Recorder`.

**`Recorder`** is one run of `fine rain`. The recorder is one record (`terms`,
`validated`, `nodes`, `pending`, `trace`, and `failed` for a C++ exception), and
each of its methods an operator on that record. `AcceptInstance`, `LogClause`,
`LogInstance`, `SpacerLemma` and `SpacerStep` are the callbacks, in any order Z3
may call them; of Z3 it assumes only that `qi_queue` logs the lemma of the
instance it accepted before it accepts another, and how it builds the hint.
`Answer` is what follows the query: the rethrow of a kept exception, the result
or witness, `validate_terms`, the close. A lift may throw (`unliftable`), a
reparse may differ at any handle (`bad`), a witness may fail its round trip
(`exact`). `Accepts` is `rainfall_replay.validate` on a whole trace. An event
keeps the terms, node, status and reference that the validator looks at.

`MC*` modules give constants their values. Operators named in a `\* Mutant`
comment are wrong versions of the definition below them; each property is
violated when its mutant takes that definition's place.

## Runs

| Run | Instance | What it shows |
| --- | --- | --- |
| `edits` | up to 3 edits, texts of up to 3 characters | edited text, transported ranges and the diff agree with the byte-by-byte reference |
| `host_races` | 3 generations, 2 processes, 1 crash, 8 transactions of which 4 are malformed | `EvidenceIsFresh`, `CurrentMeansAdmitted`, `HostStateLoads`, `OrphanTraceIsTolerated`, `RunsKeepTheirRequest`, `OutcomeIsFinal`, `OnlyCurrentIsAdmitted`, refinement of `DisplayedEvidence` |
| `host_crash` | 3 generations, 2 processes, 2 path spellings, torn writes | `NamedFilesAreDurable`; the headline stays true |
| `host_foreign` | 2 generations, 2 documents, foreign traces | freshness, refinement and finality do not depend on who calls `complete`; `ChecksStayTrue` |
| `host_misfiled` | as `host_foreign` | `LateCompletionIsDiscarded` is violated (below) |
| `live` | 3 generations, server and commands, 1 crash | `SubmittedIsDisplayed`, `EveryRunIsAnswered` |
| `synth_whole` | 2 parameters over 0..1 (terms of up to 3 nodes), and `none \| some(value)` with 8 arm lists; all specifications over 2 results | `AssemblyIsSound`, `DroppedAreUseless`, `SelectionsEarnTheirPlace`, `OnlySourceArmsAreRefuted` |
| `synth_search` | 1 parameter over 0..2, terms of up to 5 nodes | `StrataAreTheGrammar`, `RealizableIsFound` |
| `synth_grammar` | the matches of `synth_whole` | `GrammarIsAsDeclared` is violated (below) |
| `recorder` | 1 quantifier, 2 instances, documents of up to 2 declarations, up to 5 callbacks | `CompletedRunReplays`, `TornTraceIsRefused`, `EventsNameDeclaredTerms`, `InstancesJoinTheirOwnQuery`, `NoInstanceIsLeftPending` |
| `recorder_shape` | as `recorder`, 2 callbacks | `InstHintNegatesItsBody` is violated (below) |
| `runtime` | 16 theories of 2 predicates over 0..2, 4839 documents, 2048 pairs of 2-state systems | `VerifiedIsTrue`, `FixedpointIsExact`, `SuccessIsTheQuerysAnswer`, `WitnessIsABisimulation`, `UnsatisfiableMeansDistinguishable`, `WitnessesSurviveTheRoundTrip` |

Bounds. Three generations let an edit leave a text and another come back to it
while the first solver is still running; with `host_foreign` two suffice,
because an edit may replace a text by itself. Two processes race for one
generation. One crash reaches every point of a section; the runs that look for
its consequences need one more run afterwards, which is not bounded. Tokens are
never reused, so when they run out no edit is possible: deadlock is not checked,
as a host at rest may stop. The host runs use symmetry (safety only).

The synthesis runs check every specification over their points, unsatisfiable
ones included. `MaxSize` ends a search the code would go on with, and a
declaration that is closed or has failed has no further step: deadlock is not
checked. Four points are enough for cores of several members, for a core that
leaves out a selection and for a default that is wrong at most inputs. Sizes 1,
3 and 5 are separated by empty strata, and size 5 is the first with more than
one split; its results 3 and 6 need the larger terms.

The theories of `runtime` combine predicates with plain recursion, without any,
with a premise on the other predicate, and with arbitrary fields whose view is
empty at 0 or nowhere; theorems come with and without context, predicate
assumptions and a predicate guarantee, and are verified, refuted or rejected. In `recorder` two declarations are what it takes for terms,
pending instances and the validation cursor to outlive a query, and five
callbacks let an instance be accepted and paired in each. Documents and runs end, so
deadlock is not checked in either.

Fairness. `synth_search`: the synthesizer is one thread that waits for nobody,
so some step is taken while there is one; that Z3's calls return is assumed.
`live`: a spawned worker enters its section, continues until it
is done, a request that issued a generation starts it, and a stopped server is
resumed. The first three are thread scheduling, a granted flock and a Fine that
returns; the last is the operator's. Nobody has to submit anything. The server
is the only writer of traces here and its writes are whole (`TornWrites` is
FALSE): see the limits below.

### Three disagreements

`complete` judges a trace against the *current* request and records the verdict
under the generation it was *called with*; nothing compares the two. In
`host_misfiled` the display is edited to the same text, and the trace of the new
generation is completed under the name of the superseded one. It validates (same
text), is admitted, and the superseded generation is recorded as admitted while
the current one stays requested. ARCHITECTURE.md:579 says a late completion is
kept as "a discarded record but does not touch displayed annotations".
`run_generation` never makes this call, and the theorems below show that without
such calls it cannot happen; freshness holds even then.

The synthesizer's constructor replaces an empty list of grammar inputs by all
parameters (the plain declaration passes none). In `synth_grammar` an arm
`some(_)` of a declaration without integer parameters has no input: the hole is
declared with `grammar_inputs: []`, and the search enumerates terms over the
unnamed field. ARCHITECTURE.md:370 says "The grammar inputs are precisely the
integer parameters still in scope plus integer fields bound by that
constructor." A witness that does depend on the field is refused when it is
lifted.

`on_clause` takes the second argument of an `inst` hint apart as a negation, and
clause_observer.cpp:76 says why it may: "qi_queue constructs `(inst q (not body)
(bind ...) (gen ...))` from the same q and unsimplified ground body seen by
on_binding". Z3 builds that argument with `mk_not` (`src/ast/ast_util.cpp:187`),
which strips the `not` of a body that is a negation. In `recorder_shape` such an
instance is accepted and the observer throws "unexpected Z3 inst proof-hint
shape": the document fails under `fine rain` only.

### Limits the code has, and the model shows

* A crash while a trace is written in place leaves a torn file where the rerun
  must write; the rerun is refused for ever (`Recordable`), though `state.json`
  never names the file. The same happens to an orphan trace when the rerun
  spells the host path differently. `OrphanTraceIsTolerated` is therefore
  checked with whole writes and one spelling.
* A command that edits between `ReadState` and `SubmitEdit` has the server's
  edit applied to another text; `SubmittedIsDisplayed` excludes exactly that.
  (ARCHITECTURE.md makes no collaboration claim.)
* A refuted proof exits with 1, so the host records the run as failed although
  its trace is complete and replays (`CompletedRunReplays` covers it).
* A predicate whose constructor has a premise on one with an arbitrary field is
  Horn-complete by itself, but its rule names a relation the engine was not
  given: Z3 throws, and every fixedpoint check of the document fails
  (`RulesAreInterpreted`).

## Proofs

TLAPS proves, for all values of the constants (any number of generations,
processes, documents, paths, any sources and transactions), assuming only
`HostAssumption` (two Booleans and a natural number):

| Theorem | Statement |
| --- | --- |
| `TypeCorrect` | `Spec => []TypeOK` |
| `FreshEvidence` | `Spec => []EvidenceIsFresh` |
| `FinalOutcome` | `Spec => OutcomeIsFinal` |
| `Refinement` | `Spec => ImplementsDisplayedEvidence` |
| `StableChecks` | `Spec => []ChecksStayTrue` |
| `DurableFiles` | `Spec => []NamedFilesAreDurable` |
| `KeptRequests` | `~ForeignTraces`: `Spec => []RunsKeepTheirRequest` |
| `HeadlineIsTrue` | `~ForeignTraces`: `Spec => []CurrentMeansAdmitted` |
| `AdmissionOfCurrent` | `~ForeignTraces`: `Spec => OnlyCurrentIsAdmitted` |

and, for any points, specifications, grammars and matches, assuming
`DeclarationAssumption` (a declaration's arms are a finite list and each
constructor has a value):

| Theorem | Statement |
| --- | --- |
| `AssemblyIsAlwaysSound` | `Spec => []AssemblyIsSound` |
| `SelectionsAlwaysEarnTheirPlace` | `Spec => []SelectionsEarnTheirPlace` |
| `OnlySourceArmsAreEverRefuted` | `Spec => []OnlySourceArmsAreRefuted` |

for any theories, documents and transition systems, assuming
`TheoriesAreGenerated` (constructors are as `declare_predicate` leaves them and a
datatype's values are built by its constructors) and `DocumentsAreTyped`:

| Theorem | Statement |
| --- | --- |
| `PredicateInductionIsSound` | unsatisfiable branches, available fields and true admitted theorems make the theorem true of `Least` |
| `StructuralInductionIsSound` | the same for the one query of an induction on a parameter |
| `FixedPointIsLeast` | on Horn-complete predicates the engine's relation is `Least` |
| `AdmittedTheoremsHold` | `Spec => []AdmittedHold` |
| `VerifiedTheoremsAreTrue` | `Spec => []VerifiedIsTrue` |
| `FixedpointAnswersAreExact` | `Spec => []FixedpointIsExact` |
| `SuccessAnswersTheQuery` | `Spec => []SuccessIsTheQuerysAnswer` |

and for any terms, documents and number of callbacks, assuming
`RecorderConstants` (only the last declaration of a document is not a proof, and
declarations are distinct source nodes):

| Theorem | Statement |
| --- | --- |
| `NamesAreAlwaysDeclared` | `Spec => []EventsNameDeclaredTerms` |
| `LemmasJoinTheirInstance` | `Spec => []InstancesJoinTheirOwnQuery` |
| `NothingIsLeftPending` | `Spec => []NoInstanceIsLeftPending` |

`RainfallHostProofs` proves types, one lemma per kind of step.
`RainfallHostSafety` rests on `StateChanges` (`state.json` changes only by a
transaction, a recorded completion or a recorded failure) and
`RecordedCompletion` (what a completion writes, and that an admitted trace is of
the displayed snapshot). `EvidenceIsFresh` is inductive given `TypeOK`, because
`load_state` guards every section. `NamedFilesAreDurable` is not: a completion
retains a trace it validated in an earlier section, so `ChecksStayTrue` is the
strengthening, and it needs that requests are never rewritten (`RequestsStay`).
`CurrentMeansAdmitted` needs `RunsKeepTheirRequest`: what a process carries over
its unlocked steps is still the trace of its own request. The strengthenings are
checked by TLC as well.

`SynthesisProofs` uses one inductive invariant, `IInv`. `CoreIsAssembled` is why
the assembly is sound: the core covers every point, and before `pos` is reached
the conditional is right wherever a core member behind `pos` covers, because a
later condition takes over only where its own term is right. `RunIsOfArm` ties
the points of a run to the arm at hand, and `BranchesAreArms` carries the result
of each run to the whole match: constructors are distinct, so `Body` takes each
point's own branch (`BodyIsOwnBranch`), also when that is the default.

`PredicateProofs` is the soundness argument of the language. The atoms of `Least`
at which the theorem holds (and all atoms of other predicates) are closed under
every rule, because an unsatisfiable branch says so for the interpretation
`Least` itself; `Least` is contained in every closed set, so the theorem holds
throughout. `Least` is one of the `Interpretations` exactly because the admitted
theorems hold of it, and it satisfies its own inversion (`OneLayer`) where every
field is available: that is why availability is an obligation. `RuntimeProofs`
carries this through a document with `RInv`: `CheckAtHand` says the procedure at
hand was chosen for a check it is sound for and that the branches before `ctor`
were unsatisfiable, `AdmittedHold` and `Answers` that what was admitted and
verified is true, `Order` that only verified proofs precede the query.

`RecorderProofs` shows that every method of the recorder only grows it (`Grows`:
the trace is extended by events that name declared terms, no lemma is added, the
pending map is untouched, no term is forgotten), so each handler needs an
argument only for the one event it adds. `PInv` adds what the properties leave
open: a remembered term is declared unless its lift threw, in which case the run
has failed or a Spacer failure is kept and every later callback is a no-op; the
pending map is the one instance in flight, recorded in the current query and
joined by no lemma (`Awaits`); and the theorems of admitted proofs are declared,
so that `proof.use` may name them.

Only model-checked: `HostStateLoads` and everything about `ApplyEdits`,
`TransportRange` and `MinimalEdit` (folds, which need induction over sequences),
`OrphanTraceIsTolerated`, the live server and `RealizableIsFound` (liveness),
`StrataAreTheGrammar` (recursion), `DroppedAreUseless`, the three properties of
bisimulation witnesses (folds over stores), and `CompletedRunReplays` and
`TornTraceIsRefused`.

## Not modelled

* Z3: some 667,000 of the 675,000 lines of C++ under `src/src`, against about
  7,000 of Fine. Fine uses it through its public interface, and what it answers
  is an input of these modules: any sound answer, or unknown. A model of its
  engines would say nothing about Fine and is out of reach of both tools.
* The parser (`parser.cpp`, `source.cpp`) and the elaboration of types,
  functions, views and expressions (`runtime.cpp`): recursive functions of the
  source text or tree without state. A model would repeat the code, and the
  inputs on which it could go wrong are not small. Documents are given here as
  what they elaborate to.
* Term lifting (`rainfall_lift.cpp`, `internal_rewrite.cpp`): the same, over a
  live Z3 context. Its two failures are inputs of `Recorder`.
* What a synthesis or a predicate induction records: the same recorder methods
  without observers. The validator's rules for holes and match witnesses, which
  only such a trace meets, are left out with it.
* HTML, the page's script, HTTP parsing, command-line parsing, and the wording
  and layout of messages.

## What could be added

`DroppedAreUseless` and `CompletedRunReplays` as theorems (the latter needs the
validator's rules as an invariant of every prefix); `OrphanTraceIsTolerated` from
one path and whole writes; the events of a synthesis in `Recorder`.
