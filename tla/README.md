# A TLA+ model of the skill lifecycle engine

The program (`src/src/asme`) evolves one agent skill per *domain*. A domain is a directory: an authoritative `state.json`, and governed files (run evidence, wiki, impact history, snapshots, staging). Every command of the command line is one process: it reads the state and some files, decides, and commits one transaction under a file lock. There is no server. What is hard is therefore what happens between processes: two commands at once, a process that dies half-way, a file damaged from outside, and long sequences of legal commands that lead somewhere nobody meant.

The modules model the transaction engine, the lifecycle it protects, the workflow that produces and spends the evidence, the delivery at its end, and the programs around it: the drivers that talk to models, the mirror and the installer. TLC checks them on small instances; TLAPS proves the engine, the lifecycle, the workflow, the delivery and the drivers for every value of the constants.

## Inventory

| Component | State it keeps | Operations | What is hard | What makes it correct |
|---|---|---|---|---|
| Transaction engine (`transaction.py`) | `state.json` with its pending transaction, the initialization envelope, governed files, the flock | `execute`, `recover` | death between any two writes, repeated replay, two planners, outsiders writing | the disk changes in whole transactions; a pending one can always be replayed and gets finished |
| Workspace (`workspace.py`) | none of its own; binds a domain to an engine | `initialize`, `status`, `apply`, `persist`, `recover`, `publish_snapshot`, `rebuild_mirror`, `stage_projection` | `apply` reads the state a second time: a command may be drafted for one state and committed on another | an operation is applied only where it is legal, with the files it was drafted from |
| Lifecycle (`lifecycle.py`, `contract.py`) | `DomainState`: state, iteration, pointers, scores, consumed manifests, tests, delivery ledger | `transition`: 20 operations | several iterations, optional confirmation, two delivery routes | evidence is spent once, promotion only on strict wins, the evolution stops, one delivery |
| Evolution workflow (`workflow.py`, with `manifest.py`, `impact.py`, `wiki.py`, `proposal.py`) | run directories, raw traces, wiki, impact history, candidate records | seed, prepare, record, ingest, finalize, sample, apply-wiki, proposer-context, apply-proposal, gate, abandon, reset | evidence files and state must agree over resets, retries, iterations and concurrent commands | the best score is what the promoted snapshot scored; evidence in use stays; history explains the state |
| Seeding (`seed.py`) | seed packet and seeded wiki pages | validate, roll back | rollback against a baseline in progress | rolled back only before the baseline |
| Delivery and packaging (`delivery.py`, `package.py`) | staging tree, archive, consumed approval | `stage_skill` on the validated or untested route | replay of a delivery that is already there, partial leftovers | one delivery, exact replay, never outside staging |
| Snapshots and mirror (`snapshot.py`) | immutable snapshot directories, disposable mirror | publish, verify, rebuild | mirror of a snapshot that is no longer active | content equals its hash; the mirror follows the pointer |
| Dependency matrix (`dependencies.py`) | static table | coverage and drift checks | an operation that forgets to bind an input | each operation binds what it read |
| Evaluation and evidence (`evaluation.py`, `evidence.py`, `domain.py`, `cartridge.py`) | immutable programs and task sets | score, extract, verify | subprocess failure becomes an invalid score | held-out answers stay out of train material |
| Adapters (`adapter.py`, `adapters/`) | a cached capability report | probe, dispatch | reports carry a timestamp; jobs are locked to one | a capture is bound to its job |
| Role drivers (`scripts/run_*.py`, `model_client.py`, `roles.py`) | attempt files, read journal | bounded retry loops around a model | restart half-way, retry of a step that was done, turn caps | a finished loop applied exactly one answer, with the reads it cites |
| Claims, reports, governance (`claims.py`, `bootstrap.py`, `evalreport.py`, `gate2.py`, ...) | none | pure functions | numeric boundaries | a claim is not stronger than its evidence |
| Skill installation (`skill_install.py`, ...) | an installed directory outside the domain | replace a tree | errors, interrupts and death between remove and rename | the skill appears in one piece; installers do not lose it to each other |
| Command line (`cli.py`, `canonical.py`, `clock.py`) | none | one operation per process | | |

The parts interact through files only. A command of the workflow calls the workspace (`apply` or `persist`), which calls `transition` for the next state and `execute` for the commit; `recover` is the only command that runs without a plan.

`PROJECT.json` lists all components with what is modelled of each, and the hazards, each at the line where it bites, with the properties that cover it or the reason why none does.

## Modules

| Module | Models | Built on |
|---|---|---|
| `Plans` | planned outputs and reads: what a transaction expects of each file and leaves there (`Fits`, `Overlay`) | |
| `AtomicStore` | what the engine promises: state and files change together, in one step, from what they were planned for | `Plans` |
| `Transaction` | the engine step by step, with processes, lock, envelope, replay, recovery, death and outsiders | `Plans`, implements `AtomicStore` |
| `TransactionProofs` | its theorems | `Transaction` |
| `Lifecycle` | `transition()`, one action per operation | |
| `LifecycleProofs` | its theorems | `Lifecycle` |
| `Workflow` | the commands of `EvolutionWorkflow` over the governed files, by several processes | instances of `Lifecycle` and `Plans` |
| `WorkflowProofs` | its theorems: types, refinement, knowledge, evidence | `Workflow`, an instance of `LifecycleProofs` |
| `WorkflowContextProofs` | what each operation does to the state, field by field; the proposer's context | `WorkflowProofs` |
| `WorkflowSerialProofs` | what holds with one command at a time: scores, history, settled evidence, abandon | `WorkflowContextProofs` |
| `Delivery` | the end of a domain: test evidence, staging on both routes, approval, exact replay, damage from outside | `Lifecycle`, an instance of `Plans` |
| `DeliveryProofs` | its theorems | `Delivery`, `LifecycleProofs` |
| `Rollout` | one rollout phase of several tasks, driven by `run_rollout.py` and the direct adapter, and by hand | |
| `Maintainer` | the attempts of `run_maintainer.py` | |
| `Proposer` | the detective loop of `run_proposer.py` | |
| `Mirror` | `rebuild_mirror` against promotions and damage | |
| `SkillInstall` | `skill_install.py`, several installers | |
| `ProgramProofs` | theorems of `Rollout`, `Maintainer`, `Proposer`, `SkillInstall` | those four |
| `MCTransaction`, `MCWorkflow`, `MCDelivery`, `MCPrograms` | symmetry, constant values and, in `MCPrograms`, the sum of the program modules | |

### Plans, AtomicStore, Transaction

`disk` is `state.json`: a revision and the pending transaction `txn`. `file` maps paths to contents, `Absent` if there is none. A record names for each path the output (`before`, `to`, and `same` for `allow_existing_identical`), or `Keep`, and the reads the plan depends on; hashes are the contents themselves, and tree reads and absences are reads of several paths.

A client goes through `ReadState`, `PlanInit` or `PlanMutation` (outside the lock, as `apply` and `persist` do), `Lock`, `Refuse` or `Bind` (the checks of `execute`), `RecordEnvelope` and `RecordIntent`, and then per output `InPlace` (it is there already), or `Inspect`, `Replace` and `Verify` (`_materialize_write` reads the path, replaces it, and reads it back; a deletion is not read back, and `UnlinkFails` if somebody else deleted the file first), or `FailClosed`; then `Commit`, `Finish` (the envelope). `StartRecover` waits for the lock and leads to one of `RecoverPending`, `RecoverEnvelope`, `RecoverSettled`, `RecoverNothing`. `Crash` ends a process anywhere and frees its lock, as the kernel frees a flock. `Drift` is a write by something other than the engine; it is a step of `DriftSpec` only, and may fall between any two of these steps, also between `Inspect` and `Replace`. `target` is the output a client has inspected; `unseen` is a history variable: the paths that an outsider wrote since replay last looked at them.

`Transaction` implements `AtomicStore` under the mapping `absRevision`, `absStore`: a pending transaction counts as done the moment its record is in `state.json`. The intent write maps to `AtomicStore!Commit`, the replacement of the state to the acknowledgement, everything else to a stutter. A property that this refinement is checked or proved for is called `CrashEquality`, after the equality oracle of the contract (section 9.3).

### Lifecycle

`dom` is the `DomainState`. Each branch of `transition` is an action with the branch's guards; a refused operation is a disabled action. `Advance` is `_advance_iteration`, `Consume` is `_consume_manifest`. A manifest is an element of `Manifests`; its score is chosen by the ingest. Scores are `0..Perfect`.

### Workflow

A command has two steps. The *draft* (one action per command, with the command's checks) reads state and files and leaves a record `[op, arg, outs, reads]` in `pending[c]`. The *commit* applies the lifecycle operation to the state as it is THEN, and the outputs if all files are still what the draft read, which is what `DomainWorkspace.apply` does: it reads the status again. `GiveUp` is a command that dies or whose commit is refused. The commit is one step because `Transaction` implements `AtomicStore`.

`Workflow` instantiates `Lifecycle` with manifests that carry their phase, iteration, snapshot and score, so that an operation of the workflow *is* an action of `Lifecycle`; delivery operations are not called (`Deliveries` is empty): they are the matter of `Delivery`. `Damage` corrupts a manifest from outside.

Abstractions, all of data:

* one task stands for a split; a run's aggregate score is its one answer's score, `Invalid` when scoring fails;
* a job is the snapshot it was prepared for; the capability report it is locked to is left out;
* an execution record, its output and its sidecar carry the same answer;
* a wiki is the sequence of lessons, each with the answers its author was shown; pattern pages, index and log change together in the code too;
* the proposer's context is the wiki, the impact history and the active snapshot; proposals are a candidate or nothing;
* drafting is one step: the files read by one command are read at one moment. Between draft and commit a changed file is caught if it is bound. *While* a draft is made that is true only of files whose checked bytes are hashed for the plan; several commands check a file and hash it a second time with `sha256_file` (`workflow.py:707`, `760`, `964`, `1034`, `1407` and others), and a change between those two reads would be bound as expected. The results about `Workflow` assume that no file changes between two reads of one command. `Delivery` makes no such assumption for the evidence of an export.

### Delivery

`Delivery` extends `Lifecycle`: evolution steps are the lifecycle's own (`Evolution`), and the last part adds files. `file` holds the two test run directories and, per snapshot, the staged tree, the archive and the consumed approval. A request is a ledger entry (snapshot and approval, `None` on the validated route), a `variant` (compatibility record and archive time: what the bytes of package and archive are made from) and the capability report. `Requested` is what `stage_skill` asks of every request; `Replayed` is `_exact_existing_delivery`, the answer without a transaction; `StageSkill` reads the state; `CheckTest` reads and checks one test manifest and `BindTest` reads it again for the hash that is bound, as `_verify_validated_evidence` does (`delivery.py:394` and `418`), for the two tests one after the other; `CompleteDraft` finds no trace of the delivery and completes the transaction. Anything may happen between these reads. `Commit` latches the route in the state as it is then and stages, if the bound files still fit; `Tamper` damages a file or carries a staged delivery away. A snapshot's documents declare one route (`Label`), since `_require_document_label` compares the label with the request, so each snapshot has one staging prefix. Labels and compatibility of a request either agree with its report or not (`Fitting`); their text is left out.

### Rollout, Maintainer, Proposer

`Rollout` takes one phase apart into its tasks. A driver probes (each report is new, as it carries its time), prepares all jobs under that report or is refused, and then dispatches, records and ingests; a capture is numbered, since no two executions have the same times. People record answers and ingest by the command line, and reset an invalid manifest. A refused command ends the process (`Die`), and it may be started again. A transport error is an answer no extractor accepts (`Failed`), as it is an empty output in the code. Whole commands are single steps here; `Workflow` has them apart.

`Maintainer` is the attempt loop: `Ask`, `KeepResponse` (the attempt file is written before the response is applied), `ApplyWiki`, with the outcome "committed and reported as refused" that run `tx_envelope` shows to exist. `Proposer` is the loop of turns and tool calls with its log, its budget and its cap; the traces are those of `_build_virtual_filesystem`, and other readable files, which count for nothing, are left out.

### Mirror, SkillInstall

`Mirror` has the four steps of `rebuild_mirror` in their order: verify, compare the mirror, read the state a second time, execute. The transaction binds the second state, not the first. `SkillInstall` follows `_check_target` and `_replace_tree` call by call, with `shutil.rmtree` as opening, unlinking one file after the other, and removing the directory. A file that somebody else removed is an error or is passed over, depending on the version of Python; both are modelled. At every call a process may also fail for a reason of its own (a permission, the disk), be interrupted (`Fails`: the same handler) or die (`InstallerDies`). `accidents` counts those that cut a removal short, between its first unlink and the rename (`Replacing`).

## What is checked

All runs use two workers and end within five minutes. Bounds are constants, given in the `.cfg` files.

| Run | Instance | Shows |
|---|---|---|
| `tx_crash` | 2 clients, 1 path, 2 contents, 2 revisions, 1 death | `TypeOK`; what was checked stays true until the intent is written (`CheckedStaysTrue`); a pending transaction can be replayed (`PendingReplayable`); the refinement (`CrashEquality`) |
| `tx_replay` | 1 client, 2 paths, 1 content, 2 revisions, 1 death, fairness | `CrashEquality` where a replay has several outputs and is cut between them; `PendingResolved`: a pending transaction gets finished |
| `tx_drift` | 2 clients, 1 death, 1 write by an outsider at any moment, fairness | `OutsideContentKept`: content that replay finds at a path and the plan does not know is never overwritten; `PendingResolved` with two clients and an outsider |
| `tx_envelope` | 1 client, 1 death | finding 1 below (`ErrorKeepsState` is violated) |
| `wf` | 1 client, 2 iterations, scores 0..2, failed runs, the final test, 1 damaged manifest | `TypeOK`; evidence in use stays (`EvidenceKept`); a decided candidate leaves no unconsumed evidence (`SettledEvidence`); `BestEvidenced`, `ImpactExplains`, `AbandonOpen`, `KnowledgeKept` |
| `wf_race` | 2 clients, 2 iterations, 2 candidates, scores 0..1 | `BestEvidenced`, `EvidenceKept`, `KnowledgeKept` hold whatever one process commits on a state the other has moved on, and the proposer saw what there is (`ContextCurrent`) |
| `wf_sample`, `wf_orphan`, `wf_stale_confirm` | 1, 1 and 3 clients | findings 2, 3 and 4 below |
| `delivery` | 9 manifests, 3 snapshots, 2 iterations, 3 scores, 2 clients, 2 reports, 2 archive times, 2 approvals, 2 damages | all invariants of the lifecycle and `PromotedOnEvidence`; an untested package is the approved one (`ApprovalCovers`); an export rests on evidence of one runtime (`ExportEvidenced`); what is staged stays (`DeliveredForGood`); a delivery can be asked for again (`ReplayOpen`) |
| `delivery_stale` | 1 client | finding 5 below |
| `programs` | 2 drivers, 3 tasks, 3 probes, 6 captures; 3 attempts, 8 responses; 3 traces, 4 turns of up to 2 calls; 2 rebuilders, 3 skills, 2 files, 2 writes from outside; 3 installers, 2 files, any number of harmless failures and deaths, 1 removal cut short | `OneReport`, `CaptureKept`, `FailuresDoNotScore`; `AppliedKept`; `ProposedOnTraces`, `ProposerEnds`; `MirrorSettles`; `InOnePiece`, `InstalledAtRest` |

Why the bounds are enough. Engine: conflicts are between two planners; a third client only repeats the role of the second, and one death lets the survivor and the restarted client recover over each other's work. Two contents tell a stale plan from a current one, two revisions a transition after an initialization. One path with two clients and two paths with one client separate racing from partial replay; both together exceed the time. Workflow: two iterations are the first and the last; one process through everything and two processes without failed runs cover the sources of trouble apart, together they are out of reach. A third process matters (finding 4): it is there in `wf_stale_confirm`, where only the slow commands are held. Delivery: three scores give a loss, a tie and two wins in a row; nine manifests are more than two iterations and the tests can use (they are numbered and taken in order, because they are compared for equality only); one skill declares each route, two archive times make two different archives of one tree, two approvals are two identities for the same package, and two clients can draft against each other; two processes and damage are followed through the first iteration, and one process, undisturbed, through the second (`Focused`, an action constraint): a delivery does not look at the iteration. Programs: three probes let one process start again and another interfere; three installers are two that remove one tree and one that installs in between; three skills add, change and drop files; the probe, capture, response, tree and damage counts only bound the state space.

The programs of `programs` share no state; the initial state chooses which of them moves (`subject`), so one run checks the sum of their state spaces.

Deadlock is checked in the engine's runs and in `wf_orphan`. It is not checked where the program really can stop: in `wf` and `wf_sample` damage to a consumed manifest leaves no operation that goes on, in `wf_race` and `wf_stale_confirm` an ingest drafted in one iteration and committed in the next does (finding 4); in the `delivery` runs a delivered domain has nothing left to do; in `programs` a session is over or its bounds are used up.

Fairness. `tx_replay` and `tx_drift` use `Persistent`: weak fairness of a client's own steps (a started process runs on until it ends or dies), strong fairness of taking the lock (a flock waiter is served in the end), and strong fairness of starting `recover`: the operator who is told "recover the pending transaction first" keeps trying. Without the last, nothing in the code finishes a dead process's transaction, and nothing in the code is claimed to. `programs` has weak fairness of the proposer's loop as a whole (a running loop goes on, with whatever the model answers, since each request returns or raises) and of each process that rebuilds the mirror (whoever wants the mirror calls `rebuild_mirror` again; nothing rebuilds it by itself). The other modules need none.

### Findings

Each is a run that checks one sentence of the repository's documents and fails. The first four have been reproduced with the code; the fifth follows from reading it along the counterexample.

1. **`tx_envelope`** (`transaction.py:695`). If `initialize` dies after its final commit and before its envelope is removed, the next operation commits and *then* raises `RecoveryCorruption`, and so does `recover`. The contract (`locked/architecture-contract.md:309`) says an error path leaves the state as it was or recoverable.
2. **`wf_sample`** (`workflow.py:846`). A train manifest damaged after sampling is reset and ingested again with another answer. The sample of the first run is still there, `sample_train` refuses to replace it, and `apply_wiki` takes it and consumes the second manifest: the wiki teaches what no consumed run showed (contract, lines 18 and 297).
3. **`wf_orphan`** (`workflow.py:437`). A corrected capture is accepted only while `reset-manifest` is the last history entry. The preparation of the other test in between closes the way for ever (`docs/implementation-parity.md:116`).
4. **`wf_stale_confirm`** (`workspace.py:187`). A draft binds the files it read and not the state it was made for. Process C drafts the confirmation ingest of iteration 1 and stops; the candidate is abandoned. In iteration 2 the next candidate wins its validation run; A drafts the gate (a first win writes nothing), B gates, C commits its old confirmation, A commits its gate. The candidate of iteration 2 is now the active snapshot, with the confirmation score of another candidate, no confirmation run of its own and no impact entry (contract, line 300: "accept only if both aggregates exceed prior best"). With two processes `BestEvidenced` holds (`wf_race`): someone has to move the state while the two stale drafts wait. One stale ingest alone does less harm: it leaves `NEEDS_GATE` without the manifest that gate, abandon and reset all ask for. The run lets a process hold only confirmation ingests and gates (`SlowOnly`), which leaves fewer behaviours and keeps this one.
5. **`delivery_stale`** (`delivery.py:227`). `stage_skill` packages the snapshot that is active when it is called; the commit reads the state again and does not compare. A promotion in between leaves a delivery of the previous snapshot, where `delivery.py:1` says "from one verified active snapshot". On the validated route the test manifests of the delivery are bound and belong to the delivered snapshot, and no promotion follows them, so only `package-untested` is concerned.

Two windows are in the code and in the models. No document speaks of them (`docs/implementation-parity.md:140`, "binds both test manifests to the supplied capability-report hash", does not say which read is meant), so the properties name them instead of denying them.

* **Inspect and replace** (`transaction.py:706`-`714`, `724`-`726`). What an outsider writes between the check of an output and its replacement is overwritten. `OutsideContentKept` excepts this content (`unseen`).
* **Check and bind** (`delivery.py:394`, `418`). A test manifest is checked on the bytes of one read, and the hash the transaction expects is that of a second read. If the file is damaged between the two, the damaged hash is what is bound, and the export commits over it. `ExportEvidenced` excepts a draft that has bound a damaged manifest; damage at any other moment makes the commit refuse. What holds without exception is that the process which exports has found both manifests intact, of one report, of the empty snapshot and of the delivered one.

## What is proved

For every set of clients, paths, contents, manifests, snapshots, deliveries, tasks, traces and installers, and every bound:

* `TransactionProofs`: `TypeCorrect`, `AlwaysReplayable`, `ChecksHold`, `ImplementsAtomicStore` (`Spec => CrashEquality`), and `OutsidersKeepTheirs` (`DriftSpec => OutsideContentKept`).
* `LifecycleProofs`: `TypeCorrect`, `EvidenceSpentOnce`, `ScopedCandidates`, `WonBeforeConfirming`, `Stops`, `DeliveredOnce`, and `PromotionEarned` (`Spec => PromotedOnEvidence`).
* `WorkflowProofs`: `WorkflowTypes`, `WorkflowImplementsLifecycle` (`Spec` of `Workflow` implies `Spec` of `Lifecycle`), `KnowledgeOnlyGrows` (`Spec => KnowledgeKept`), and `EvidenceStays` (`EvidenceKept`, until the first damage).
* `WorkflowContextProofs`: `ContextStaysCurrent` (`Spec => []ContextCurrent`, with any number of processes and any damage).
* `WorkflowSerialProofs`: `SettledIsConsumed`, `BestIsEvidenced`, `HistoryExplains`, `AbandonStaysOpen` (`Spec /\ []Serial` implies `SettledEvidence`, `BestEvidenced`, `ImpactExplains`, `AbandonOpen`): one command at a time, any number of iterations and any damage.
* `DeliveryProofs`: `DeliveryTypes`, `DeliveryImplementsLifecycle` (`DeliverySpec => Spec` of `Lifecycle`, so all lifecycle theorems hold of a delivered domain), `StagedForGood`, `UntestedIsApproved`, `ExportOnEvidence`, `RequestsReplay` (`ReplayOpen`).
* `ProgramProofs`: `PhaseUnderOneReport`, `ScoreWithoutFailures`, `CapturesAreKept`, `WikiIsKept`, `ProposalsRestOnTraces`, `SkillAtRest`, `SkillInOnePiece`.

**The engine's argument.** `PendingReplayable` is not inductive: that an output is in place or still as expected depends on who may write, and when. `TxnInv` adds: exactly the lock holder is inside (`LockInv`); a plan was made for the state its client read, and `state.json` never vanishes once it is there (`PlanInv`); what `execute` checked still holds until the intent is written, since only the lock holder writes (`CheckedStaysTrue`); an envelope holds a founding plan and no file exists before `state.json` does (`EnvelopeInv`); the pending record starts from the revision on disk (`PendingInv`); and what a replaying client has done is in place (`ReplayInv`). There is one lemma per action. The refinement then needs three facts: the intent write is an atomic commit (`PendCommits`: its checks are `Fits` of the abstract store), a replaced output does not change the store seen through the pending record (`ReplaceStutters`), and at the commit that store is the files as they are (`CommitSettles`). Assumed: the constants' types, that the markers are not contents (`EngineConstants`, `MarkersAreNotContents`), and that nothing but the engine writes.

With outsiders most of `TxnInv` is lost: what `execute` checked may change before the intent is written, and an inspected output before it is replaced. `OutsidersKeepTheirs` rests on what no outsider can break (`DriftInv`): the lock is exclusive, so one client at most is at work on an output, and until it has replaced that path the path holds what the plan was made over, unless an outsider wrote it since (`WatchedInv`, `unseen`). A client's only step that changes a file is `Replace`, so content it replaces is content the plan expected, or arrived in the window between look and replacement (`transaction.py:706`-`714`, `724`-`726`). That window is real: outsiders take no lock, so the engine cannot close it, and the property excepts it by name. Everything older is safe, with any number of deaths, recoveries and writes from outside.

**The lifecycle's argument.** `LifecycleInv` is the conjunction of the checked invariants; together they are inductive. `CandidateScope` ties each field to the states it may be set in, which gives the guards of later operations; `ConsumedOnce` follows because an operation consumes only `current` (which ingest admitted only if unspent) or test manifests (kept distinct and unspent); `StopsInTime` follows from `Advance` being the only way to raise the iteration. `PromotionEarned` shows that all actions but the two acceptances leave best score and active snapshot alone. Assumed: `Perfect` is positive, the limit is a natural number, `None` is no value.

**The workflow's argument.** A draft waits while the state moves on, so nothing may be assumed of the state its commit finds, except what holds of every state. What can be assumed of the draft is made part of the invariant: `TypedDraft` (its argument is one the operation takes, its outputs are of their files' kinds) gives `WorkflowTypes`, and, with a lemma per operation, that `Transition` is a step of `Lifecycle` wherever it is committed (`TransitionSteps`); this is the refinement, and carries `LifecycleInv` over through `LP`, the instance of `LifecycleProofs`. `GrowingDraft` (an output for the wiki or the history lengthens the very content it is bound to) gives `KnowledgeOnlyGrows`. `EvidenceKept` is not inductive: a commit may delete or write in a run directory, and the state may come to name a manifest that a draft brings along. `EvidentDraft` says what drafts do there: they delete a manifest only if it was absent, damaged or without a score (`Drops`), repeat what must be the same if it exists (`Repeats`), and bring a manifest only over the job and the answer they are bound to (`Adds`). `OnDisk` adds that any valid manifest lies in its own directory over its own run. Then a valid manifest and its run survive every commit (`RunSurvives`), a new one arrives complete (`RunArrives`), and a step makes the state name no manifest but one it named before or the one its draft carries (`TransitionNames`). Damage breaks `OnDisk`: with two damages a reset drafted for the first may take away evidence of the second, so the theorem ends at the first one; the run `wf` has one damage and one process. Assumed: `LifecycleConstants`, that answers are scores or `Invalid` (`WorkflowConstants`), and that the markers are no contents (`WorkflowMarkers`, `HistoryMarkers`).

**The proposer's context.** `ContextCurrent` speaks of three files and the state, each of which a late commit may move. `ContextFiles` says that a context exists only for an iteration whose wiki is written (`Reached`), and that while a proposal is due the context shows what there is and the wiki ends with this iteration's lesson. What makes it inductive is said of the drafts. A context is drafted in `NEEDS_PROPOSAL`; as long as that very iteration is there, what it shows is current, and later it no longer matters (`ContextDraft`). A drafted wiki is either one entry longer than the wiki on disk, and then for the iteration that is due, or it was made for a shorter wiki and no longer fits (`WikiDraft`): of two maintainers one commits. `Moves` and the `...Effect` lemmas say where each operation leads.

**One command at a time.** The other four properties of the workflow relate the state to the files a whole iteration has left, and they are false of concurrent commands: TLC finds `SettledEvidence`, `ImpactExplains` and `AbandonOpen` violated with two processes and `BestEvidenced` with three (finding 4), because a draft binds files and not the state it was made for. They are therefore proved under `[]Serial`: no two commands are underway at once. Which process runs the next command, whether it commits or dies, how many iterations there are, and how often manifests are damaged, also while a draft is underway, is left open. Nothing in the code enforces `Serial`; it is how the command line is used by one operator, and the specification of run `wf`, with its one client, has no other behaviours. The invariant `SerialInv` says of the state and the files: a candidate is judged by runs that carry its phase, iteration, snapshot and score (`Judging`); per judging phase and iteration, what the manifest file can be: consumed evidence or nothing readable once the iteration is settled, the evidence the state names or its damaged remains while it is judged, nothing readable before (`JudgedFiles`); the judged candidate is the recorded one (`CandidateRecorded`); the same for the baseline (`BaselineFile`); and `ImpactExplains` and `BestEvidenced` themselves. Of a pending draft it says `Fresh`: its outputs are the ones this very state asks for. There is one lemma per draft that it is fresh, and one per operation and part of the invariant that a fresh commit keeps it; damage keeps it because each part allows a damaged manifest where it allows a manifest.

**The delivery's argument.** Every action of `Delivery` takes a step of `Lifecycle` or none (`StepOfLifecycle`), which is the refinement and carries `LifecycleInv` over. A commit writes only where its plan found nothing (`CommitFits`: staging and archive are bound as absent, and the approval's output accepts nothing but itself), which is `StagedForGood`. For `UntestedIsApproved` the invariant adds what a draft on the untested route was checked for, and that a snapshot's files come from the one entry of the ledger. For `ExportOnEvidence` it adds what a draft has seen and bound of each test (`Verified`): what it saw is the manifest of the request, and the second read bound the same or a damaged one; and that from the ingestion of both tests to the export the active snapshot does not move (`DoneStays`, `LatchKeepsState`), so that what was evaluated is what is delivered. For `RequestsReplay` it adds that a draft is on the route its snapshot's documents declare, with a compatibility that fits some report (`DraftsAgreed`), and that, while nobody has touched the files, there is for the delivery in the ledger a variant and a report under which package, archive, approval and test manifests are what `_exact_existing_delivery` looks for (`DeliveryIntact`): the commit makes it so, and the draft's reads bind the tests; afterwards no command writes these files.

**The programs' arguments.** Rollout: jobs are prepared all at once, so all that exist bind one report (`JobsAgree`); executions answer jobs (`AnswersJobs`), and a manifest counts the executions it was built from (`ManifestCounts`), which stay as long as it does. Maintainer: the response being applied is the one kept under its number, and once a wiki is committed with a reported failure the loop goes on with higher numbers only. Proposer: what counts as read is in the log. Installation: as long as no removal was cut short, whoever removes a tree has removed no more than is gone (`BehindOrLevel`), and if the destination is not whole, some process has it in hand, either removing it or about to rename its copy (`InHand`); a process that fails or dies before it has begun to remove is nobody's hand (`Bystander`). So when nobody is inside, it is whole.

Model-checked only: liveness (`PendingResolved`, `ProposerEnds`, `MirrorSettles`), which is out of the prover's reach as it rests on fairness and `ENABLED`; that `EvidenceKept` survives a damage when one process works (`wf`); and that `BestEvidenced` also holds with two commands underway (`wf_race`), where the proof would have to count stale drafts. Every other property of a passing run is a theorem. The properties of the five failing runs are false of the code, and meant to be.

## Not modelled

* Claims, reports, bootstrap statistics and release governance (`claims.py`, `bootstrap.py`, `evalreport.py`, `evolution_eval.py`, `gate2.py`, `governance.py`, `source_registry.py`, `scripts/verify_distribution.py`): pure functions over evidence and static tables, without state and concurrency; the statistics are over real numbers.
* The dependency matrix: a static table. What each command binds is part of its draft.
* Parsing and validation of prompts, seeds, proposals, wiki pages and role output; canonical JSON, hashing, zip archives, labels, the scanners for unsafe content; subprocess scoring and HTTP. They are pure, or pure I/O, and appear as the set of their outcomes.
* The single-shot proposer: one request and one `apply_proposal`.
* Two maintainers for one iteration at once. They share the numbered attempt files and may overwrite the response that was applied; nothing in the code prevents it and no document excludes it.
* What follows a removal that was cut short. `InOnePiece` holds then too, but an installer that fails, is interrupted or dies between the first unlink and its rename leaves a partial destination, or none: the handler (`skill_install.py:144`) deletes the staged copy and puts nothing back, and without its `SKILL.md` no later `--force` install replaces what is left. `InstalledAtRest` claims nothing from then on.

## Plan

Done: the engine, the lifecycle, the workflow, the delivery, the drivers, the mirror and the installation, with the proofs above. Left, in this order:

1. `BestEvidenced` for two processes as a theorem: the invariant has to say which one stale draft can do how much harm.
2. A run in which two processes prepare and ingest phases of several tasks (`Rollout` with the two-step commands of `Workflow`).
3. The reads of a whole workflow command apart, as `Delivery` has them for the tests.
4. The hazards without a property: they are races and damage for which no document says what should happen. They become runs when one does.
