# Verification of lazylean

lazylean checks exports of the Lean proof assistant: it loads a file of
expressions and declarations, and type-checks every declaration with a lazy
evaluation engine. This directory holds TLA+ models of its parts, the TLC
configurations that check them on small instances, and machine-checked proofs
about the driver, the term table, the loader, the sessions, the universe levels and
conversion. Paths are relative to `src/src/` unless they start with
`README.md`, which is the program's own.

## 1. Inventory

| component | state it keeps | operations | module |
|---|---|---|---|
| Driver `main.cpp` | options, the declaration loop, the shared claim flags, stop flag and result slots, worker processes | verify the order of an export, build the environment, fork, claim, check, report, wait, exit status | `Driver` |
| Environment `env.h` | the constants declared so far | find, add, hide, mark, rollback | inside `Driver`, `Sessions` |
| Term table `expr.*`, `common.h` | nodes, literals, permanent and temporary intern tables, watermark | intern, freeze, reclaim, trim | `Tiers` |
| Loader `loader.cpp` | bulk-loaded nodes, the table being indexed by eight threads | load, build_index, reload | `BulkIndex` |
| Engine `nbe.cpp`: sessions | caches of the main and the scratch session, what outlives sessions (parameters of constants, signatures), parameters and safety of the check | check_decl, retry, restart, term-level queries | `Sessions` |
| Engine `nbe.cpp`: evaluation, conversion | closures, steps remembered in values, equal and different pairs, probes | eval, whnf, conv, infer, check_const | `ValueForms`, `Values`, `Conv` |
| Inductive types `inductive.cpp` | the block with its auxiliary types, motives and minor premises, recursors | add_inductive_decl, add_quot_decl | `Binding`, `Inductive`; the sessions' side in `Sessions` |
| Levels, names `level.*`, `name.*` | interned levels and names | smart constructors, normalize, comparison, instantiation | `Levels` |
| Fixpoint rules `fix.*` | one slot per definition, the derivations in progress, pending promotions | fix_rule, derive, fix_before/after_reclaim | derivation in `Fusion`, re-entrancy in `Kam`, life cycle in `Tiers` |
| Term-level interface `kernel.*` | the machine's context, local context | whnf, infer, is_def_eq from outside the engine, mk_pi, mk_lambda | `Sessions` (Facade), `Binding` |
| Lazy machine `kam.*` | thunks, environments, frames, the map of shared closed thunks | whnf, force, read-back | `TermForms`, `Terms`, `Kam` |
| Fusion `fuse.*` | the fused terms of the declaration | fuse_term | `Fusion`, used by `Kam` |
| JSON reader `json.h`, name parsing, tests, scripts | none across calls | pure, or outside the program | not modelled |

How they interact. `main.cpp` loads the export (`loader.cpp`, which fills the
permanent tier of `expr.cpp` and freezes it), then calls `check_decl` (`nbe.cpp`)
for one declaration after the other, in one process or in forked workers that share
claim flags. `check_decl` runs the declaration in the main session, and again
in the scratch session if the first gives up; a block of inductive types goes
through `inductive.cpp`, which declares constants for the time of the check
and asks the scratch session through the term-level interface. The scratch
session hands closed terms to the lazy machine, fused by `fuse.cpp`; the machine fuses the definitions it
unfolds and asks `fix.cpp` for rules;
a derivation asks the term-level interface in turn, in the middle of the check
that needed it. After each declaration the driver reclaims the
temporary tier, around which `fix.cpp` saves and rebuilds the new rules.

What is hard: several processes deciding on one verdict with only flags between
them; workers that die; handles that are used again after a reclaim; a lock-free table;
caches that outlive the declarations they were filled for; a check that is
suspended and resumed; environments with constants that are there only for a
while; comparisons given up half-way whose answer nobody may remember; nested types replaced by auxiliary ones
and put back in derived terms; call-by-need updates in a machine that is re-entered and may fail half-way;
rules guessed from a definition's shape.

What makes each component correct:

- Driver: exit status 0 exactly when what was asked for was accepted; one checker per
  declaration; no circular export accepted; the same verdict in every mode; termination.
- Term table: one handle per term; no handle survives the reclaim of what it names; rules keep
  their meaning over a promotion.
- Loader: a repeated expression is always noticed; every node can be found.
- Sessions: no cache answers from a constant that has changed; verdicts do not depend
  on caches; the environment ends as the export has it.
- Levels: normalisation and comparison agree with the meaning of levels.
- Lazy machine: every value has the meaning of its closure and is in weak-head normal
  form; a value is final; no thunk is part of itself; runs end.
- Fusion and rules: a fused term and an arm of a rule mean what they replace.
- Conversion: "equal" is said of equal values, "different" of different ones unless a budget ran out, and what
  is remembered is final; whatever a probe interrupts goes on as it was.
- Inductive types: exactly the well-formed blocks are accepted; recursors have the types of their rules and
  every induction hypothesis; nothing auxiliary is left in them.

## 2. Modules

`Verdict.tla` is the abstract specification of a run: declarations are accepted (only
if a check in file order accepts them) or rejected, verdicts are final, and an
answer of 0 is given only when everything required was accepted and nothing rejected.

`Driver.tla` models `main.cpp` with one program counter per process (0 is the process
`main()` started). One action per step of `run()` between two accesses to shared
memory or to other processes: the claim (`exchange`), the load of the stop flag, the
check, the store of the stop flag, the report, the exit; for the parent the order check,
the prebuilt environment, each `fork`, each `waitpid`. `check_decl` is abstract: a declaration has
the constants it mentions, those its literals need, and a judgement. `Killed` takes a worker at
any point, `ForkFails` and the second disjunct of `Prebuild` are system calls that fail, `Escape` is
an exception other than `KernelError`. `Driver` implements `Verdict` (`ImplementsVerdict`).

`TermStore.tla` is what the term table and the rule slots promise: a constant's type and a
definition's rule, once set, are never another term. `Tiers.tla` models `ExprTable` and the
slots of `fix.cpp`: a handle is a position in `nodes`, permanent and temporary intern
tables are sets of handles, the watermark splits them. Loading, building terms, deriving rules (nested),
accepting or rejecting a declaration, saving, reclaiming and rebuilding rules are actions.
`Tiers` implements `TermStore` by the terms its handles stand for.

`BulkIndex.tla` models `ExprTable::build_index` and `InternTable::bulk_insert`: threads with a
range of handles each, one action per atomic access (load of a slot, compare-and-swap,
comparison and move to the next slot), any hash function, the join and the second load with ordinary interning.

`Sessions.tla` models the two engines' caches as sets of facts "computed for constant n at levels ls, from its declaration i, read at levels at",
the level substitutions (`c_lsub`), the inferred types with the scope they were checked in, and what no session drops: the parameters of constants by name (`p_plist`)
and the signatures (`c_sig`); `check_decl` as stages
with their own terms and scopes; the environment with what each stage adds, and rollback. A check reads all of these: where something it meets was computed from
another declaration, at other levels, or has a signature of another relevance (`Misread`), its outcome is open.
`Query`/`QueryEnds` are the `Facade` that suspends a check.

`Levels.tla` translates the operators of `level.cpp` (and `name_lt`) and rewrites a
pair of levels step by step; `ValueOf` gives the reference meaning. A function of the source that calls itself is a
constant operator with its name (`normalize`), and what it computes from its calls is the definition of that name in capitals
(`Normalized`). `MCLevels` and the configuration make each constant its definition, so TLC runs the
recursion; the proofs take the equations of the two for a hypothesis (`Recursion`). `std::sort` is what it promises: an ordered permutation.

`ValueForms.tla` has the values of `nbe.cpp` and what is read off their form.
`Values.tla` computes with them: closures over environments cut to the variables of the term, neutral values with their
eliminations, evaluation, weak-head reduction with its order (projections, recursors, literals, unfolding), the types of
values, inference, and the relevance signature of a constant. `check_const` gives the conversions a declaration asks for, in order.
`DefEq` is the reference for conversion: both sides are reduced all the way and compared, with eta, proof irrelevance, unit types and structures.
All of these call one another through one recursive operator, `Engine`.

`Conv.tla` models `conv` as a machine with a stack of callers: one action per decision of
the code (quick answers, the caches of equal and of different pairs, spines, probes, the order of unfolding, eta, structures, unit
types, proof irrelevance) and one per return to a caller. The functions of the evaluator are constants of this module, so that what is
proved of conversion holds of any evaluator; `MCConv` makes them those of `Values` (`whnf` is `Whnf`, as in `Levels`). The three caches live for a session, in which
declarations are checked one after the other; `Fail` drops a conversion anywhere, as a budget does.

`Binding.tla` has terms with types on their binders and the operators on them (instantiation, abstraction, lifting, telescopes);
`Inductive.tla` models `add_inductive_decl` by stages: header, elimination of nested occurrences
one constructor at a time, declaration of the types, checks of types and constructors (universes, positivity), elimination universe,
minor premises one at a time, recursors one at a time, the swap to the exported environment, comparison recursor by recursor, or the rollback.
Its reference, `WellFormed` and what follows it, is a definition of well-formed blocks that knows no auxiliary types.

`TermForms.tla` has the forms of terms, `Terms.tla` their instantiation and abstraction, and the kernel's reduction by
substitution (`Whnf`, `Normal`): the reference for the two modules below.

`Fusion.tla` has `fuse_term` as a recursive operator over a term and the state of a call (`Fuser`: what is kept for good and for the call,
what is left of its limits, how often one cut something short), and the parts of `derive` in `fix.cpp`: opening the fused definition, recognising its
shape, unfolding it on a constructor, replacing recursive calls, verifying the equation, abstracting the arm.

`Kam.tla` models the lazy machine of `kam.cpp` step by step: a head under an environment of
thunks, a stack of frames, one action per kind of head (`BVarStep`, `AppStep`, ...), the unwinding of a value
frame by frame, and the heap the runs share. Thunks are created, shared by the closed term they
hold, forced, marked while they are forced and given their value as in the code;
literals, `Nat.succ` and `Nat.add` are its primitives; recursors (plain, K-like, of a structure), projections,
quotients and definitions reduce as there. A term is fused before it is run, a definition before it is unfolded (`Fuse`). A definition whose fused
value has the shape of a structural recursion suspends the run (`Derive`); the machine reduces the terms of `Queries`, which stand for what the checker has reduced in
a derivation and may meet the next definition; then the rule is derived one arm after the other (`DeriveArm`, `Derived`), or given up at any of them, and the run
resumes. A run may hit a limit at any point, which ends a derivation without a rule and a check with a failure.

The functions of the source that call themselves, and those of `Terms` and `Fusion`, are constant operators of `Kam`: `MCKam` makes each the recursive
operator it stands for, and the proofs take what they need of them. `KamLaws.tla` states that: laws of terms, of reduction and of fusion, each about a set of terms.
`MCKam` has TLC evaluate them on the terms of the instance; `Kam_proofs` assumes them of all terms.

`Driver_proofs.tla` holds the proofs about the processes of `Driver`, then those about what
they decide, count and answer; `Tiers_proofs.tla`, `BulkIndex_proofs.tla`, `Sessions_proofs.tla`, `Levels_proofs.tla`,
`Conv_proofs.tla` and `Kam_proofs.tla` those about the modules they are named for. `NaturalOrder.tla` has the least element of a set of numbers and induction,
for them. The `MC*` modules give constants their values for TLC.

In every module an operator whose comment starts with "Slip" is a deliberately wrong variant of the definition that
follows it; no behaviour uses one. They exist to show that each property
notices a plausible mistake in the code.

## 3. Plan

Done, in this order: `Driver` with `Verdict` and its proofs, because everything
the program says is said there; `Tiers` with `TermStore`; `BulkIndex`; `Sessions`; `Levels`;
`Kam` with `Terms`; `Values` and `Conv`; `Binding` and `Inductive`; `Fusion`, and `Kam` over it. `Sessions` composes the engine's caches with the environment and the retry;
`Kam` composes the machine with fusion and with the derivations that re-enter it; `Driver` takes
a verdict as given, `Sessions` says what it depends on, and `Conv` and `Inductive` what it is.

Then the proofs, in the same order: the processes of `Driver`; `BulkIndex`; `Tiers`; `Sessions`; the verdicts of `Driver`; `Levels`;
`Conv`; `Kam`. The last three were first rewritten with the recursive functions as constants.

What is left is said at the end of section 6.

## 4. Runs and bounds

State counts are those of a complete search.

| run | question | instance | states |
|---|---|---|---|
| `driver` | are exit status, totals and order right, however processes interleave and die? | 8 exports of up to 3 declarations, 14 command lines, up to 2 workers beside the parent | 117 118 |
| `tiers` | is a term one handle, and does nothing outlive a reclaim? | 3 declarations (2 definitions that may have rules, 1 quotient constant), 1 loaded node, 5 nodes, derivations nested twice, `--keep-going` | 332 014 |
| `bulk_index` | does a lock-free build notice each repetition? | 4 exports of 4 lines, 3 threads, every hash function onto two slots of 8, one of them the last | 78 448 |
| `sessions` | do caches ever answer from what is gone, or decide a verdict? | 8 exports of 2 to 3 declarations, queries nested once, `--keep-going` | 314 333 |
| `levels` | do normalisation and comparison agree with the meaning? | every pair of levels of up to 8 nodes together over 2 parameters, values 0 to 3 | 75 305 |
| `kam` | does sharing, with fused terms and derived rules, compute what substitution computes? | 32 programs with limits of fusion, rules derived for the recursive definitions they meet, nested twice, one limit hit anywhere | 14 437 |
| `conv` | is conversion right, and what it remembers, when probes run out and checks are given up? | every pair of declarations from five groups in one session, with and without signatures, probes of two steps, one failure anywhere | 111 748 |
| `inductive` | is a block accepted exactly when it is well-formed, with the right recursors? | 48 blocks, the right ones exported right and altered in six ways, four of them in a seventh: 196 initial states | 3 754 |

Why the bounds are enough to see the interesting cases.

`driver`: two workers with three declarations give every race on a claim, a worker that is
killed with a claim in its hand while the other goes on, a stop flag raised
before, during and after the other's check, and a fork that fails after the first. A third worker
adds no new kind of meeting, as workers meet only in pairs on a flag; the proofs have no such bound.
`ExitZeroMeansAccepted` and `ImplementsVerdict` set aside runs with a failed allocation, which
`driver_escape` shows separately, and `MCExports` sets aside the early literal of `driver_literal`.

`tiers`: one node is permanent from the start, so built terms mix tiers;
two rules can be derived in one declaration, one inside the other, with one of them
referring to the other's definition; after the reclaim three new nodes can take the positions of
dropped ones, which is how a stale handle would go unnoticed.

`bulk_index`: with two slots for all terms each probe sequence collides and one wraps around; with three threads two
can lose the race for a slot to a third. Each export has a repetition of another kind
(none, a leaf, an application, a leaf under applications).

`sessions`: a name can be declared twice, cited before it is declared, or be auxiliary to two blocks (for types that agree; `sessions_reuse` has those that do not); a
declaration has two scopes, so that a cached type may have been
inferred in the wrong one; constants have one of two lists of universe parameters or none and are used at these and at a closed level, two of them in one
term, so that they share substitutions or must not; the retry in the scratch session follows each failure.

`levels`: eight nodes include imax under imax, under max, under succ, with a
parameter or zero on the right, on both sides of a comparison. Values to 3 separate
levels whose offsets differ by at most 3, the largest difference of this size.

`kam`: each program is there for one mechanism (a shared argument, an argument shared
with and without unfolding, a partial application, a K-like recursor, a stuck eliminator, a rule that applies and one
that does not, a literal met as a constructor, wrappers under binders, recursion with a varying argument, through a table of
results and through a projection). A derivation meets the next definition, which meets the third: with `MaxNest` 2 that one is refused, as the ninth is in the code.
The programs for fusion also run with two tight limits, under which terms are cut short by the budget, by the depth and by the copies allowed.

`conv`: with two steps there are probes that answer, probes
that run out and probes inside another; 2048 steps in the code change only how large an argument has to be. Two declarations are
enough for one to read what another left, and one failure for a comparison dropped at each of its steps. The groups keep apart
what does not interact: unfolding, K, proofs, structures with unit types, functions.

`inductive`: a step has no choice, so the run is a search over blocks. They include one block for each way a constructor can go wrong (a negative or nested negative occurrence,
a parameter that varies, a universe too small, a wrong result type), nested occurrences inside one another, under functions, in two mutual types and
in both mutual types of another block, propositions with and without large elimination, and, for exports, every part of a
recursor that is compared. Recursors into `Prop` alone are exported for the propositions that eliminate no further only; `inductive_elim` exports them for the others.

The violation runs are small instances of the same modules, one for each of the
findings below.

## 5. Fairness

`driver`: weak fairness of the parent's steps and of each process's loop. The
operating system schedules every process, and `check_decl` returns (it has budgets for depth and memory).
Nothing is assumed of `Killed`, of failing forks or of failing allocations. Where a worker is
killed the parent still learns of it, because `waitpid` returns.

`bulk_index`: weak fairness of the loading thread and of each indexing thread. A probe ends
because the table has room (`BulkAssumption`, from `reserve`), not because of fairness.

`kam`: a run goes on until it is over. The program is sequential, so this is weak fairness of its next step.
Termination is claimed for the listed programs, which are well-typed.
A term that is not may run until a limit in the code as well.

`tiers`, `sessions`, `levels`, `conv` and `inductive` state safety only. They are sequential loops over finite data; the
ends that matter are that of a conversion, which the code itself does not promise (a step budget stops it, `Fail` here), and that of an inductive block,
whose loop over a growing list of types ends only for the blocks a budget would not stop. No assumption about scheduling would say anything of either.

## 6. Proofs

Every theorem is about every value of the constants that satisfies the module's named assumption, whatever the number of processes, threads,
declarations, handles or names. What a theorem assumes beyond that is a named hypothesis in its statement, there because the property does not hold without it:
the last column says where. Five of the hypotheses exclude what section 7 finds.

| hypothesis | says | where it fails |
|---|---|---|
| `NoEarlyLiteral` | the type of a literal is introduced no later than the literal | `driver_literal`: workers accept what one process rejects |
| `RejectionsReported` | where allocations may fail, there are no workers or no `--keep-going` | a worker counts a rejection, goes on, and a failed allocation loses its report: status 0 with a declaration rejected (`main.cpp:424`) |
| `RulesSurvive` | with `--keep-going`, no declaration fails after a rule was derived for it | the rule's handles are reclaimed before it is promoted (section 7, `TiersTrim.cfg`) |
| `StandardQuot` (a constant of `Tiers`) | the built-in types of the quotient constants are those of the export | `inductive.cpp:777` keeps a temporary handle |
| `NamesAgree` | a name made for one check, where it is used again, is for a constant of the same relevance and universe parameters | `sessions_reuse`: what is remembered by name rejects a valid block |
| `ValuesChecked` | the values of an accepted declaration mention what its checked terms do | recursor rules, which are compared with the derived ones by conversion (`inductive.cpp:682`), may mention what conversion passes over; only `SessionsAreCurrent` needs it, verdicts are not affected |

The instances of the passing runs satisfy all of them.

Three sets of theorems are about functions and relations the modules do not fix, and say what they assume of these.

| hypothesis | says |
|---|---|
| `Recursion` (of `Levels_proofs`) | the constants for recursive functions satisfy the equations of the source, which `levels` gives them by definition; `sort` returns an ordered permutation |
| `Start \subseteq Level \X Level` | the export's levels are levels |
| `Equality` (of `Conv_proofs`) | the relation `Equal` is closed under the rules of definitional equality: reflexivity, symmetry, congruence, reduction, eta for functions and structures, proof irrelevance, unit types |
| `Scoping` | a value at a depth (`Within`) keeps its variables below it under the evaluator's functions, and the questions of a declaration are of such values |
| `TermHyp` (of `Kam_proofs`) | terms have the listed forms, and substitution, application and the stripping of binders do to them what they are for |
| `ReductionHyp` | terms with one normal form are closed under congruence and under the rules: beta, let, definitions, numerals, recursors (with K and structures), fields, quotients; declarations have closed terms |
| `FusionHyp` | a fused term, and the arm of a rule whose equation was verified, are equal by definition to what they replace |
| `Recursion` (of `Kam_proofs`) | the machine's own recursive functions satisfy their equations; `lit_value` looks no further than the chain of successors it reads |

### The driver

Assumption: `DriverAssumption` (exports are finite sequences of declarations, options are options, `MaxJobs` is positive).

| theorem | property |
|---|---|
| `TypeCorrect`, `Invariance`, `VerdictInvariance` | `TypeOK`; the inductive invariants `IInv` and `VInv` |
| `ExitStatus` | `ExitZeroMeansAccepted` |
| `OneChecker` | `CheckedOnce` |
| `NoCircularCitation` | `AcceptedCitesEarlier` |
| `SoundExports` | `SoundExportAccepted` |
| `Totals` | `TotalsAddUp` |
| `AcceptedInFileOrder`, under `NoEarlyLiteral` | `AcceptedInOrder`, the property `driver_literal` violates |
| `Implementation`, under `NoEarlyLiteral` and `RejectionsReported` | `ImplementsVerdict` |

`IInv` is about the processes. That status 0 is right depends on a chain: the parent answers 0
only if it waited for every worker it forked, none of which died or reported a failure (`Waited`); a worker that ended
by itself reported its own count and had gone through the whole export (`Left`, `Progress`); so every selected
declaration was claimed, by itself or by another; and a claimed declaration that is not accepted is
in its claimer's hand, or its claimer counted a failure, or it was killed, or the run was stopped
(`InHand`); and only a worker with a failure stops a run (`StopCause`). `Control` and `Forking` say
which program counters and statuses go together. `OneChecker` needs `Claimed`: whoever checks holds
the claim. `NoCircularCitation` needs `Environments`: the prebuilt environment of a
worker holds every name, so it is the order check before the fork that makes a citation harmless, whereas in
a single process the environment holds only what precedes.

`VInv` is about what they decide. The environments are known exactly (`EnvironmentsExact`): all of the export's names in a
worker, those of the declarations it has passed in a single process. So a declaration that passes in file order passes wherever it
is checked, its own names being hidden (`SoundPasses`), and nothing fails in a run over such declarations (`Unfailing`, which `SoundExports`
reads off). A claimed declaration has no verdict before its claimer gives it one (`Unjudged`); so each verdict adds one declaration to
one of the claimer's two sets, whose cardinalities its counters are (`Counted`), which it reports (`Reported`), and which the parent
sums over the workers it has waited for (`Summed`): `Totals`. For `Implementation` a check is a step of `Verdict` because what a worker accepts is
accepted in file order (`AcceptsInOrder`, from the order check, `NoRedeclaration` and `NoEarlyLiteral`) and conversely (`SoundPasses`),
and an answer is one because of `ExitStatus` and because a run that answers 0 has rejected nothing (`ExitZeroRejectsNothing`).

### The loader

Assumption: `BulkAssumption` (exports refer to earlier lines, every node has a hash, the table has room).

`DupFound` (`DupExact`), `HandlesOfLines` (`OneHandle`), `EveryNodeFound` (`Findable`), from `Invariance`. `IInv`: the nodes are those of the lines read, with the handles of
their children's lines (`Reading`); a hash depends on the node alone (`Hashed`); what is in the table is found there (`Placed`); what a thread's probe
has passed is occupied by other nodes, for good, as slots are written once, and the handles of its range before the one in its hand are in the table unless
a repetition was noticed (`Probing`, in `Phases`); and a repetition that is reported exists (`Repeated`). That equal nodes are equal terms
is an induction over the lines of the export, since a node is compared by the handles of its children.

### The term table

`Invariance`, `HashConsing` (`HashConsed`), `NoDanglingHandle` (`NoHandleAcrossReclaim`) and `Implementation` (`ImplementsStore`). `IInv`: a node is made of
earlier ones (`Built`), none is there twice (`Distinct`), the permanent tier is what lies below the watermark and needs nothing above it (`Tiered`); what the environment
holds is permanent (`Environment`); what a slot holds is permanent, or of this declaration, without local variables, and pending promotion (`Ruled`); and what has been
rebuilt during a promotion is the term that was saved (`Promoted`). The refinement needs that the term of a handle does not change when handles above it are
dropped or added, which is an induction on handles.

### The sessions

Assumption: `SessionsAssumption`; it says of the exports that a block declares types for the time of its check, and that a name
the program made unique is not taken (`inductive.cpp:72`).

`Invariance` and `EnvironmentIsExact` (`EnvExact`) hold without hypotheses; `CachesAreRight`, `VerdictsAreUncached` (`VerdictUncached`) and `SignaturesAreCurrent`
(`SigCurrent`) under `NamesAgree`; `SessionsAreCurrent` (`SessionCurrent`) under `NamesAgree` and `ValuesChecked`. `IInv` says at which stage of which check a session is
(`Course`), what the environment holds in it and is rolled back to (`Environments`), where what is in it comes from (`Origins`) and which scope a suspended check will be
restored to (`Suspended`).

A verdict is that of a checker without caches only if what the check reads is right, and what it reads was put there by earlier checks; so verdicts and caches are
one invariant, `Current`. Parameters and signatures outlive their constant: what they tell is what the constant's declaration tells or, if it is gone, what the last
check that made the name told (`Told`), and `NamesAgree` is that the next one tells the same. From the parameters it follows that a
substitution is filed under the parameters it is for (`Substitutions`), and so that what is computed at levels is read at them; from the
start of a scratch session after a rollback, and because no declared constant changes, that it is from the present declaration (`Facts`), or from before there was one, and then
an earlier declaration cited the constant (`Atoms`). An inferred type kept for a scope could be inferred in it now (`Entries`), and the terms checked off and the stages passed
would pass without caches (`Judged`). Given these nothing is misread. `SessionsAreCurrent` adds when an undeclared constant is met at all: once a rejected declaration has been kept,
or by the rules of a block for its own recursors (`Closed`).

### The levels

Assumption: `LevelsAssumption` (finitely many parameters with names, numbers for values, at least one of them positive).

`MeaningAlways` (`MeaningKept`), `EquivalentAlways` (`EquivalentSound`), `ComparisonsAlways` (`ComparisonsSound`), all from `LevelsInv`, which says that the
two levels are levels and that what the rewritten one means is what it meant; and `ComparisonEnds`. A level is a
term of some depth (`Level` is the union of the depths), so that a fact about levels is proved by induction on depth, which `NaturalOrder` states for sets. For the
normal form: its lists are bounded, so that each loop over one is an induction on its length (`push_max_args` flattens, the sort permutes, explicit
levels and smaller offsets of one base are dropped, the rest is folded with the constructors), and each step keeps the maximum the list stands for. That two normal
forms may be compared as handles needs only that a normal form has the value of its level. The order given
to the sort is a strict total order of levels because names are lexicographically ordered by components and levels by base, then offset. A
comparison normalises its arguments, so that its calls are not on subterms; it ends because normalising adds no weight and each rule removes some. That the comparison is
not complete (it may miss an inequality that holds) is no defect the code has to avoid, and no property says otherwise; the tests of zero are exact.

### Conversion

No assumption about the evaluator, the environment or the budgets, except that probes have a natural number of steps.

`ProbesScoped` (`ProbeScoped`) has no hypotheses. `ProbeInv` says of each position of the stack what the flags were when that caller was called: a comparison of types saves them, a probe
sets them, its return restores what was saved.

`PositivesDerived` and `AcceptedDerived` say that conversion never goes beyond the rules. Every pair in the cache of equal pairs is in `Equal`; and so is every
question that `check_const` asked of an accepted declaration. `Equal` is any relation closed under the rules (`Equality`), so the theorems hold of
the least one: a positive answer is a derivation. Nothing is assumed that depends on the reduction order, on
normal forms or on confluence, and nothing of the caches. The argument follows the stack: a caller that
waits knows enough that the equality it asked for gives the one it was asked (`Owes`, `Owed`), so `Chain` holds of the whole stack whatever is
pushed or popped; the spine caller has compared the arguments before its position, or may skip them (`Walked`), the structure caller the fields before its own; a
comparison of types has no comparison of its own, and answers the caller above it. A remembered step is one the value may take at any
depth (`StepsReduce`), whichever declaration and probe it was found in; a K-like recursor that was not recognised
as one takes another step or none, and still leads to an equal value. `Questions` says that what was asked before the one under way holds, and so
a declaration that is given up anywhere leaves nothing behind. The converse, that equal values are found equal, is
not stated: it depends on reduction being confluent and on every unfolding being tried, and the code gives up where its budgets end.

The proof also found that some `CASE` expressions had overlapping arms, where TLA+ leaves open which one is meant and TLC takes the first. They
now have the guards the order of the code implies.

### The lazy machine

Assumption: `KamAssumption` (programs are declared for both modes, bounds are numbers); hypotheses: the last four of the table, together `Hyp`.
They do not mention the machine: `normal` may be any choice of one term in each class of definitional equality, and no
reduction order, confluence or typing is assumed. TLC evaluates the laws of `KamLaws` on the terms, environments and limits of the instance (`MCKam`), with the
model's own substitution, reduction and fusion for the constants.

`ValuesMean` (`ValueMeaning`), `ResultsMean` (`ResultMeaning`) and `FullValuesStay` (`ValuesFinal`), from `InvAlways`. A thunk is read as the term it was written as: its
closure refers to older thunks only and is never changed, so this reading is defined by going back in the heap and no step disturbs it, although values and the
map of shared thunks refer forward. `Inv` has four parts.

- `ThunksOK`: the value of a thunk, without definitions or with them, is equal by definition to the thunk as written; a thunk in the map of shared ones is the term it is
  filed under; and a thunk whose mark is on a stack, of the run or of a suspended one, is being forced, so it has no value yet.
- `HeadOK`: the stack is a chain of promises (`Chain`). There is a term for each place in it: the machine's head and the arguments gathered so far are equal to the first one; across an argument the
  next one is the application, across a mark it is the same and equal to the thunk that is marked, across a suspended recursor or primitive it is
  that head on the arguments it was left with, across a suspended projection it is that of the one before; the last one is the term the run was given. This is what makes it right to read arguments through marks
  (`take_args`), to assign a mark with the arguments above it, and to answer with what is left when the stack is empty. No two marks are of one thunk (`Distinct`).
- `SessionOK`: suspended runs keep their promises, whatever is forced, assigned or given up above them; no mark of theirs is assigned by the run
  on top; the arms found so far, and the rules, are what the definitions are on the constructors.
- `FusionOK`: what is kept of fusion is equal to what it replaces, under every environment.

The promise is needed because neither property is inductive: a value is written when a mark is reached, long after the evaluation began, in a machine
that has only the stack left to tell what is evaluated. `FullValuesStay` needs that a marked thunk has no full value (`Marked`), hence that no thunk is marked twice, by one run or
by two of which one waits for the other.

The proof found two facts that the code relies on and a run only samples: a hypothesis of a recursor that a branch does not mention may be anything (the placeholder of
`kam.cpp:447`), which needs substitution to ignore variables that do not occur; and a numeral met as a constructor needs one that takes no
primitive but successor.

### What is only model-checked

- Liveness (`Termination` of `driver`, `bulk_index` and `kam`): the prover does not do fairness and `ENABLED`.
- The properties of `Inductive` and `UnfoldingsMeaning`, which is about `Fusion`: the operators are declared `RECURSIVE`, and the prover has no arithmetic in a module
  that reaches one. `Kam_proofs` takes from `Fusion` what `UnfoldingsMeaning` says of the instance.
- Of `Kam`, `Acyclic` and `NoInternalError`, which rest on the programs being well-typed, for a run of an
  ill-typed one may force a thunk from within itself, and `ValueWhnf`, which says how far a value is reduced and not only what it is equal to: its
  second half compares the machine's order of reduction with that of head reduction.
- Of `Conv`, `VerdictRight` and the half of `CachesSound` about different pairs, because a negative answer is right only if conversion is complete; `MemoSound`,
  for the same reason, as the step of a K-like recursor depends on a comparison; `NothingMissing`,
  which is about the evaluator (`fv_mask`), a constant of the module the proofs are about.

## 7. What the code does otherwise than it says

Four runs end in a violation, each of a property that states a sentence of the code or its documentation.

| run | what is said | what happens |
|---|---|---|
| `driver_escape` | status 0: every declaration was accepted (`README.md:561`) | `std::bad_alloc` in a worker ends it with status 0 and an empty result (`main.cpp:424`); with `--keep-going` rejections it has counted are lost with it |
| `driver_literal` | nothing cites a later constant once the order is verified (`main.cpp:226`) | the type of a literal is cited without being mentioned (`nbe.cpp:1500`), so the verdict depends on `-j` |
| `sessions_reuse` | "either way it is the same checker", and the scratch session is emptied (`nbe.cpp:1802`, `README.md:116`); signatures may outlive sessions (`nbe.cpp:1199`) | signatures (`c_sig`) and lists of parameters (`p_plist`) are kept by name; the name of an auxiliary type is used again for a type of another relevance or with other universe parameters, and a valid block is rejected |
| `inductive_elim` | recursors are derived, elimination universe included, and must equal the exported ones (`inductive.cpp:5`) | whether there is one is taken from the exported main recursor (`inductive.cpp:616`): recursors into `Prop` alone are accepted for types that eliminate into every universe. They are weaker and as sound |

Smaller disagreements, met while modelling and taken into the models as the code has them:

- `expr.h:65` says no temporary handle is kept across a reclaim, and `fix.h:24` that a rule is promoted at the end of its declaration. With `--keep-going` the handler of a rejection
  reclaims (`main.cpp:322`) before the rules derived in that check are saved (`main.cpp:329`): their slots point to dropped nodes. `TiersTrim.cfg` has TLC show it
  (`NoHandleAcrossReclaim` of `MCTiers` is violated with `RuledFailure` TRUE).
- `nbe.cpp:611` says no value of the main session mentions an undeclared atom. With `--keep-going` and an export
  out of order one does. The main session may then decline a right declaration and the scratch
  session accepts it; the second disjunct of `SessionCurrent` allows the fact.
  A block whose types unfold to a definition that mentions the block itself, which is as much out of order, may be rejected in the scratch
  session, where an atom of the undeclared type is kept inside values and then compared with the declared one; `VerdictUncached` sets it aside (`Premature`).
- A declined declaration is a failure like any other, status 1 (`kam.cpp:544`), where `README.md:561` says status 2.
- The environment keeps the built-in type of a quotient constant, which may be a temporary handle when the constants are
  checked (`inductive.cpp:777`, against `expr.h:65`); with `StandardQuot` FALSE `Tiers` shows it.
- The name made unique at `inductive.cpp:108` is used and the number it was found for is not, so the numbers of auxiliary types go up by two.
- `fuse.h:24` says results cut short by a limit are not kept. One that was cut short is found again among the results of the call
  (`fuse.cpp:214`), which does not count as a cut, so a term around it is kept although it depends on the limit. Such terms mean the
  same (`UnfoldingsMeaning`); that equal terms fuse to equal terms fails.
- `main.cpp:324` declares the recursors of a rejected block without their major type, unlike `add_unchecked`.
- `take_args` (`kam.cpp:277`) records a definition short of arguments as a full value, which
  a comment calls weak-head normal; `ValueWhnf` exempts it, `ValueMeaning` and `ResultMeaning` do not.
- `kam.h:5` says a thunk refers only to older ones. Values and shared closed thunks refer forward; what holds, and
  what reference counts need, is `Acyclic`.
- A derivation that hits a limit leaves the thunks it was forcing marked as being forced. The caught failure
  resumes the run, which may then meet one and fail with "cyclic thunk" (`kam.cpp:241`): a right declaration is
  declined by that session. `NoInternalError` is therefore about runs in which no limit was hit, and no property is about this failure.

## 8. What is left out

- `Driver`: what a check computes (a judgement), printing, timing, statistics.
- `Tiers`: suspended substitutions (`Clos` nodes), the memoised traversals, memory layout.
- `BulkIndex`: parsing; weak memory (the code's accesses are relaxed; a slot is written once, the nodes were
  written before the threads started, and a stale empty slot read is one read earlier, which the interleavings here include); growth of the table while it is filled, which `reserve` rules out.
- `Sessions`: the values themselves; a fact is what it was computed from. Levels are lists as wholes: a substitution puts one for another, and a signature is one for a
  constant at all levels. A check that misreads something may go either way.
- `Levels`: interning, which is that of terms.
- `Kam`: universe levels, string literals, `Quot.ind`, primitives other than successor and addition, `cheap_proj`,
  failures on unknown constants and `reduceBool`, reference counts and pools. Whether a free variable has a type that
  lets K or eta reduce is given (`Refls`, `Structs`). Values are compared with the reference when a run ends or fails.
- `Fusion`: the sizes and names that make a definition a wrapper (its declaration says whether it is one), universe levels, types of binders,
  parameters of inductive types in rules. What a derivation has the checker reduce is given (`Queries`), and its comparison of the two sides
  of an equation is that of normal forms, which may also fail at any arm.
- `Conv`: universe polymorphism, strings, quotients, local variables, read-back to terms and the lazy machine on closed values, the caches of
  results that depend on nothing but their arguments, masks of more than 64 binders. Equality of values stands for equality of
  pointers, so quick answers come more often than in the code; what they answer is the same.
- `Inductive`: universe parameters, the reserved prefix of auxiliary names, the numbers that are only reported (`numNested`, `isRec`,
  `isReflexive`), reduction beyond beta. The exported recursors are the derived ones altered by `decl.export`, with K and the universe taken from the
  reference. The check of recursor names against the environment at the header is left out.
- `json.h` and name parsing are pure functions with no state across calls; tests and scripts drive the program from outside.
