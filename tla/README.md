# Hirz: a TLA+ development of the household's authorization, execution and planning

Hirz lets an assistant propose actions in a home (set a thermostat, start an appliance, open a
door) and decides, from a household constitution, whether an action runs, waits for people, or is
refused; it plans the home's energy, keeps the plans up to date, checks on trusted contacts and
publishes the constitution to a second policy engine. This directory models those parts, checks
them with TLC on small instances and proves what matters most with TLAPS.

Paths below are relative to the repository's `src/`.

## 1. The system

| Component | State | Operations | Why it is hard |
|---|---|---|---|
| Authorization pipeline (`hirz/pipeline`) | `actions`, `approvals`, `votes`, daily usage | `propose`, `enqueue`, `redeem`, `vote`, `claim_execution` | facts, policy, roles, accounts, passkeys and the clock move between any two operations |
| Constitution (`hirz/constitution`), risk (`hirz/risk`) | the active version | conditions, rule and mode resolution, compilation to statements | two evaluators read unknown facts in different ways and must agree |
| Executor (`hirz/executor/service.py`, `storage.py`, `twin.py`) | execution status of `actions`, the sweep lock | `sweep`, `run`, `failure`, `retry`, `complete_plan` | one effect spans several transactions and a device request; crash or loss of the lock in between |
| Plans (`hirz/executor/plans.py`, `budget.py`) | `plans`, `plan_actions`, reservations | record, approve, revise, cancel, schedule, hold, budget transfer | consent and money move from version to version |
| Refresh (`hirz/executor/refresh*.py`, `replanning.py`) | one refresh job per plan, generations | `queue`, `detect`, `batch`, `poll`, `run`, `block` | a result is computed outside any transaction and may be older than what it replaces |
| Link agent (`hirz/link`) | SQLite journal in the home, `last_at` | `receive`, `recover` | duplicates, late envelopes, crashes, a clock that is set back |
| Contacts, check-ins (`hirz/contacts`), courier (`hirz/mcp/trust.py`) | links, cases, receipts, mail and app jobs | enrol, check, reply, time out, warn | a reply races the deadline and the worker that sends |
| Protect (`hirz/protect`), memory (`hirz/memory`), MCP tools (`hirz/mcp`) | receipts of calls, preparations, proposals, readings | retried calls, preparation of plans, extraction, review | a call is retried while its parts wait for votes; work is prepared from facts that move |
| Audit chain (`hirz/pipeline/audit.py`, `hirz/audit`) | hash-chained, signed events and a head pointer | append, verify, export | rows, signatures and files may be altered |
| Companion (`hirz/companion`) | passkeys, tokens, ceremonies, sessions, twin runs, push jobs | register, log in, recover, confirm, replay, notify | one-time ceremonies around a recovery |
| Policy publication (`hirz/companion/policy.py`, `hirz/aws`) | drafts, active versions, the engine row, remote statements | review, activate, publish, recover | remote calls finish later, and a crash may fall between any two |
| Planner (`hirz/planner`), twin (`hirz/twin`) | requests, plan inputs, the lazily advanced world | coordinate, solve, replay, emit, execute, checkpoint | a plan must mean on the devices what the solver promised |
| Graph, host simulator, explainer | see `PROJECT.json` | | storage, demonstration or wording |

**Interaction.** Tool calls and companion requests reach the pipeline. Each pipeline operation is
one database transaction under the household's advisory lock (`GraphRepository.write`), so
operations do not interleave with each other; what interleaves is everything *between* them. The
executor's worker lists due rows, and for each one calls the pipeline (`redeem`,
`claim_execution`, `execution_outcome`) in separate transactions with device requests between
them. Sweeps and refresh batches exclude one another with session-level locks, which are lost with
the session. A refused or failed operation of a plan calls `hold`, which stops what has not
started and queues a refresh. A home without a direct connection is reached through signed
envelopes that the Link agent journals and performs. What the owner activates is compiled and
published; while it is being published, or its engine is not ready, nothing is let through there.

What makes each modelled part correct:

* pipeline: consent is given once, by the right people, for these facts, and used once, in time;
* constitution: both evaluators permit the same, and nothing unknown permits anything;
* executor: no effect twice, none late, none without its recorded ending, nothing forgotten;
* plans: a version in force covers only what people consented to, opens only on the facts it was
  computed from, and holds exactly the money that is committed;
* Link agent: the executor's promise, kept alone in the home through crashes and clock changes;
* contacts: the reply that was accepted in time is the outcome, and messages stay within their caps;
* publication: what the remote engine enforces and what is active here agree;
* companion, household tools: nothing begun before a recovery counts after it, a retried call
  takes effect once, and the audit chain convinces only when it is whole;
* planner and twin: the controls that are emitted deliver the plan that was proved best.

## 2. Modules

Each module's header names its source files and its abstractions. In every module a definition
whose comment begins with `(mutant)` is a plausible mistake in the definition that follows it;
`PROJECT.json` says which property each one breaks. They are used by nothing else.

| Module | What it is | Proofs | TLC instance |
|---|---|---|---|
| `Approvals` | the decision pipeline: proposals, approvals, votes, grants, claims | `DecisionProofs` | `MCApprovals` |
| `Rules` | policies, the evaluation of conditions, the evaluator, the compiled statements, the boundary check | `ConstitutionProofs` | `MCRules` |
| `Conditions` | the parser of conditions, given to `Rules` as its constant `Parser` | | `MCRules` |
| `Executor` | sweeps, claims, dispatch, outcome, failure, retry, endings, and the plan as the executor sees it | `ExecutorProofs` | `MCExecutor` |
| `Plans` | the versions of one plan, its refresh job, the worker, the budget | `PlansProofs` | `MCPlans` |
| `BoundedOnce` | abstract promise about signed commands: claimed once, requested at most once, ended once, targets exclusive | | |
| `Link` | the home agent in detail, and the refinement mapping to `BoundedOnce` | `LinkProofs` | `MCLink` |
| `Contacts` | invitations, links, checks, replies, courier messages and the worker that sends them | `ContactsProofs` | `MCContacts` |
| `Household` | retried tool calls, prepared plans, extraction, memory review, the audit chain | `HouseholdProofs` | `MCHousehold` |
| `Companion` | passkeys, tokens, ceremonies, sessions; twin runs; push notices | `CompanionProofs` | `MCCompanion` |
| `Publication` | drafts, review, activation, publication to the remote engine | `ConstitutionProofs` | `MCPublication` |
| `Twin` | device physics in integers and the lazily advanced world | `DecisionProofs` | |
| `Planner` | the solver's constraints and stages, baseline, replay, emitted commands | `DecisionProofs` | |
| `Coordinator` | members' requests, their conflicts and probes, the input they lead to | `DecisionProofs` | |
| `Energy` | composes `Twin`, `Planner` and `Coordinator` with the executor's commands and checkpoints | `DecisionProofs` | `MCEnergy` |

### Approvals

`approvals`, `votes`, `grant`, `queued`, `attempt` and `proposed` are the tables; `now`, `role`,
`linked`, `revoked`, `facts`, `press`, `ringing` and `policy` are what the pipeline reads and
others write. `Propose`, `Enqueue`, `RedeemGrant` / `RedeemLate` / `RedeemExpired` /
`RedeemIncompatible` (the ends of `authorize`), `VoteOn` / `VoteLate` and `ClaimExecution` are its
operations; `Refuse` is every call that ends in a denial and leaves the tables alone.
`OperationGates` is what `assess_operation` finds for an opening and its ending, `BindingOf` the
approval's binding, and `Compatible` the comparison made again at redemption. `RedeemGrant` takes
a `lag`: the external boundary is asked inside the transaction and the clock may move while it
answers. The risk table and the condition language are reduced to what decides: a base band per
class, the factors present, whether conditions are met, quiet hours and pause.

### Rules

A policy is a record of roles, rules, per-role entries and defaults. A condition is written in
tokens and parsed into the sequence of its nodes, each after its children (`Condition`); which
parser does it is the constant `Parser`, and `Conditions` has the code's, by recursive descent.
`validate_policy` and `load` are the schema. `evaluate` and `resolve` follow the evaluator, which
raises on a fact it cannot resolve; `boundary_input`, `known`, `expression`, `override_path`,
`requirements`, `safe`, `autonomous`, `approve`, `temporal`, `authorize` and `boundary_check`
follow the compiled statements, which test for a fact's presence. The state is the policy, one
request and its approval, the clock, whether the native helper runs and the last check. How the
helper evaluates a statement is external and modelled from its documented meaning. Of the
predicates one stands for all: who is expected, which is an error for an unknown schedule and for
somebody who is no member.

### Executor

One step is one transaction, one device request or one crash; `pc`, `op`, `seen` and `asof` are each
worker's local variables. `Claim` writes the attempt and, for a bounded opening, the ending in the
same step, as `claim_execution` does. `Drop` is the loss of the session: the lock is free for
another worker, a request under way continues (`late`), and an exception that `run()` catches is
handled on a new session without the lock. `plan.idle` and `plan.match` are the two halves of
`fresh()`. An `approved` plan stands for `approved` and `active`, which no step distinguishes. A
retry that is refused leaves a proposal without a schedule in the code (`storage.py:348-358`);
nothing runs it, and it has no row here. `overlapped` is a history variable: `Resume` sets it when
it schedules an opening that is in the way of another. Which operations there are, their windows and
the faults they meet form a *situation*, a value chosen once by `Init` from the constant
`Situations`; one run therefore covers several.

### Plans

`plans`, `ops` and `job` are the rows of one lineage, `usage` its grants minus what was released,
and `work` what each worker holds in memory. The facts a plan depends on are a version number, which
every write by others raises and `detect` compares; an explicit request raises `wishes`. A worker's
batch is `Batch` (lock, schedule, skip what is late), `Poll` / `Ingest` / `ReadsFail` / `Unread`,
`List`, `Start` (claims the generation and reads the rows), `Compute`, a second poll, `Publish` and
`Block` (also for a plan that is over, or a command that is refused); between any two of them
anything else may happen, the worker may stop or lose its session (`Crash`). A batch whose
`schedule()` raises has changed nothing and is a stuttering step. `Replace` is `revise_plan` with
`retained` (what `transfer()` keeps), `needed` (what the new estimate asks for beyond it) and the
consent that is inherited.

### Link and BoundedOnce

`journal` is the `commands` table, `last` is `settings.last_at`; `pc`, `msg`, `todo`, `current`
and `matched` are the local state of the one task that holds the agent's lock, lost by `Crash`.
Each journal transaction, each device request and each crash is a step. An envelope can be
received at any time, any number of times and in any order. `StageOf` maps a row and its request
counter to the stage of `BoundedOnce`.

### Contacts

`links`, `cases`, `jobs` and `receipts` are the tables, `sends` counts what was sent to whom and
when, `mail` is what reached a mailbox; `hand` is the attempt the worker has claimed and not
recorded. The household starts and removes, the contact accepts an
invitation or replies, the worker claims, sends, records, times out and warns. Whether rules, an
approval or a passkey allow a step is a choice here, since `Approvals` is about that.

### Household

Groups of tables that share the audit chain: `receipts`, `approvals` and `done` (a tool call under
a request key and its parts: `Act`, `Profile`, `Vote`, `Revise`, `Plan`, `Assess`, `Verify`),
`requests` and `plan` (first plans prepared by a worker: `Prepare`, `Publish`, `Fail`, `Discard`),
`proposals` and `preference`, a sequence of versions (memory: `Propose`, `Accept`, `Reject`; an
accepted value equal to the stored one writes no version, as `put` does), `cases` and `inferences`
(extraction: `Extract`, `Infer`, `Extracted`, with a worker that may stop between the model's
answer and the record), `log` and `pointer`. `append_many`, `feed`, `verify_database` and
`verify_file` are the code's functions; `Documents` and `Altered` enumerate the exports that drop,
repeat or rewrite rows.

### Companion

A ceremony is begun, consumed in a transaction of its own, and finished under the household lock;
a token, session or ceremony that ran out is simply gone (`Lapse`). `era` counts a member's
recoveries and exists only to state the property. A twin run is commanded by members while the
worker replays it; a push notice is claimed, sent and recorded by a worker that may stop.

### Publication

`drafts`, `proposals`, `active`, `jobs` and `engine` are the tables, `remote` the statements the
remote engine holds, `worker` what the publishing worker has in memory, and `check` a boundary
check in progress. The worker's steps are `Begin`, `Load`, `Step`,
`StepFails`, `Report`, `Commit` and `Restore`. A remote call is
accepted at once and settles later, or fails. One engine serves every routed household, and the
publication of one shuts the others out (`engine.ready`).

### Twin, Planner, Coordinator, Energy

Time is in ticks; energy is in whole units drawn from the grid, so that the car's efficiency is a
change of unit. The solver is untrusted: `solve` is every answer within its constraints, stage by
stage, over the grid `Rates`. For the default objective an answer is optimal within `Gap`, a
thousandth in the code and more here, where figures are coarse (`mip_rel_gap`). `Energy` then
carries the plan out: members ask, change and withdraw, a plan is published, and each row of a
command goes through four steps — its effect is computed on a read of the world, its attempt and
ending are claimed, its checkpoint is committed with the dispatch, and the state is published with
the outcome. An error (`Falter`) or a refusal fails the row; a stop leaves it as it is, and the next
sweep finds an attempt without an outcome and fails it (`Uncertain`, `dispatch_uncertain`). `Settle`
is the rest of `failure()`: one retry if the controls are not as asked for, else the plan is held
and only endings and what was begun go on. `missed` keeps what failed or was held; a checkpointed
effect whose row failed is in the world and not among the verified controls (`applied`). Anyone
reads the world at any time, and the process may stop and resume from its last checkpoint. A sweep
carries out all that is due with the twin's clock stopped (`service.py:82`); the AWS worker passes
`freeze_twin_clock=False` (`aws/worker.py:170`), which the mutant `TickThawed` shows to matter.

Assumed of devices, in `Link` and in `Executor`: a request takes effect before it is given up, or
never; an instant of the clock is longer than a claim and the request that follows it. Both are
marked where they are used (`Post`, `Tick`).

## 3. Runs

| Run | States | What it shows |
|---|---|---|
| `approvals` | 128,078 | two stories told apart by their facts: two actions that fit the cap one at a time in a house that grows riskier, is paused and changes its constitution; and a visitor's unlock asked of all adults while one member's role, account and passkey change and a second visitor rings |
| `rules` | 185,365 | evaluator and compiled statements permit the same for policies with conditions, overrides, per-role modes, inheritance, limited roles and temporal requirements, with unknown facts and a helper that fails |
| `executor` | 1,312,490 | six situations: overlapping requests with a crash; a plan changed twice while it runs; a plan whose opening is resumed over a request queued meanwhile; two visitors at a door; a lost lock on Home Assistant and on a twin |
| `executor_live` | 25,573 | every claimed operation and every ending is resolved, a crash included |
| `executor_cancel` | | the finding of section 6 |
| `plans` | 323,508 | versions of one plan, replaced by members and by a worker that may stop or lose its lock: the reservation, inherited consent, the facts an opening is claimed on, and that every refresh ends |
| `link` | 135,192 | safety, liveness as long as calls keep coming, and the refinement of `BoundedOnce`, with two crashes and a clock set once |
| `contacts` | 288,841 | one check over two links: the reply that counts, the caps, the end of every check |
| `household` | 118,732 | retried calls, preparation, memory and extraction on one audit chain |
| `companion` | 102,930 | ceremonies around a recovery, a twin run commanded while it is replayed, a notice with a crash |
| `publication` | 256,311 | drafts, activation and publication, one remote call at a time |
| `energy` | 746,198 | eight planning problems, each solved stage by stage, published, carried out on the twin with one error or restart, a retry or a hold, and observed |

Several properties are conjunctions of named parts: `ClockIsNoEscape` is `NoLateOpening` and
`NoEndingForgotten`; `OneEffect` is `AtMostOneEffect` and `RetryOnce`; `StepsKeep` the five action
properties of the executor; `BudgetKept` is `ReservationsAccount` and `CommittedIsReserved`;
`ActivatedAsReviewed` includes `ApprovalsFollowPolicy`; `NothingStaleKept` is `PlanIsCurrent` and
`NoLostPreference`; `PermitIsEarned` is `UnknownNeverPermits` and `SecurityNeedsPhone`;
`DeliveryEnds` includes `ThreeAttempts` and `ExtractionEnds` includes `InferredOnce`. Each
`TypeOK` is proved (section 4) where the module has proofs.

**Bounds and why they are enough.** The bounds are constants of the configurations.

* `approvals`: two actions are needed for a budget or an overlap, two approval ids for a renewal
  beside a closed approval. Two members are the least for which `all_adults` differs from `any`;
  only one of them changes, since the other is the standing approver. Two doorbell presses make
  one stale. The facts of the first story only grow riskier, which is the direction in which an
  old approval no longer covers them. `Ids` are symmetric.
* `rules`: five roles cover inheritance, limitation, per-role modes, a claimed role and the unknown
  one; the
  candidate policies take one feature each and the pairs that interact; the voters are one who
  counts everywhere and one whom a domain limit keeps out; two checks let a helper fail between
  two answers.
* `executor`: time has as many instants as there are borders between before, within and after a
  window; any number of operations fits into an instant. Two workers are the number that can
  believe they hold the lock after one loss. One crash per execution is enough because a crash
  leaves only the tables, and every table a crash can leave is also the start of an uninterrupted
  sweep. `Workers` are symmetric.
* `plans`: three versions are a plan, its replacement and the replacement of that; a horizon of
  three instants has offers that end before, at and after the boundary between two shares; one
  event by others makes whatever was read before it stale. One worker; the inductive invariant
  of section 4 was also checked with two.
* `link`: three envelopes are one duplicate by id and one by content. Two crashes, so that a crash
  may also hit the recovery of the first.
* `contacts`: an app and an email link have different lifetimes and claims; the caps are small
  enough (two per instant and contact, three in all) that the retries of one check meet them. One
  crash repeats an attempt nobody recorded.
* `household`: two principals, one of them a child, share three keys over three calls, so that a
  key is retried with the same and with another payload; three proposals over two values
  compete for a preference, also for the value it has already. Two stories are told apart (`Told`):
  memory is reviewed beside the plan worker, whose facts a review may change, or the tools and the
  extraction worker run; the proofs hold without it.
* `companion`: two sessions and two ceremonies of different ages around a recovery; four tokens
  allow an invitation, its recovery code, a recovery and the next code.
* `publication`: a household of each kind — routed and proposing, not routed, routed with a policy
  already in force and no current credential — and two contents, one of which asks.
* `energy`: three slots of two ticks put an instant between slot boundaries; a sunny cheap, a cheap
  and a dear slot make storing worthwhile; the eight inputs are named in `MCEnergy`.
  One error or restart per execution fails, retries or holds a plan wherever it falls, before and
  after each step of a command. `Gap` is a tenth, since costs are coarse whole numbers.

`CHECK_DEADLOCK FALSE` is set where the bounded clock, counters or sets really end a behaviour;
the executor sweeps for ever and is checked for deadlock.

**Fairness.** Only what the code's loops justify.

* `Link`: a started task goes on (one asyncio task under one lock, and every device call has a
  timeout), and time passes. Nothing in `src/` restarts the agent or calls `recover` on its own
  (`docs/adr/ADR-009-signed-commands-home-agent.md` lists the entrypoint and the scheduler as
  outstanding), so neither is assumed. What the agent can promise is conditional, and
  `EveryCallEnds` says it: if calls of the agent keep coming, whichever envelopes they bring, and an
  ending that is tried again and again is not refused for ever, then every claimed bounded command
  is ended, because every call tries the overdue endings first.
* `Executor`: the worker loop always sweeps again and finishes what it started; full sweeps follow
  the sweeps for endings only, so an opening that is due again and again is picked (strong fairness
  of `PickOpening`); time passes. Nothing is assumed about devices, because an unreadable device is
  resolved as a failure.
* `Plans`: the refresh loop runs a batch again and again, and time passes; no facts need to stay
  still, since the events are bounded.
* `Contacts`: the worker loop runs and time passes; attempts to send are not assumed to succeed or
  even to be allowed.
* `Publication`: the scheduled tick runs, a boundary check is answered, and AWS finishes what it
  accepted. `Companion`: the push worker runs. `Household`: the extraction worker runs.

`Approvals`, `Rules` and `Energy` state safety only and assume nothing.

## 4. Proofs

TLAPS checks the theorems of eight modules for every value of the constants that satisfies the
assumption the specification declares (`ConstantsAssumption`, `LinkAssumption`,
`ExecutorAssumption`, `PlansAssumption`, `ContactsAssumption`, `RulesAssumption`, and for energy
`TwinAssumption`, `PlannerAssumption`, `SpecsAssumption`, `PhrasesAssumption`, `EnergyAssumption`),
which TLC evaluates in every run. The assumptions give the constants their types, say that markers
such as `None` are no values, and take finite sets of people, rows and actions where the code counts
them; nothing else bounds the sets, clocks, deadlines, crashes, workers, versions or policies. Each
module has an inductive invariant, the lemmas that each step keeps it, and theorems that follow from
it; TLC checked every invariant on the run's instance before it was proved. `PROJECT.json` lists the
theorems with what each says.

| Module | Theorems that state a run's property | Others |
|---|---|---|
| `DecisionProofs` | `AtMostOneLive`, `GrantsAreCovered`, `SpendingIsCapped`, `NothingIsRevised`, `QuorumIsCurrent`, `VisitorIsCurrent`; of `Energy`: `EveryRequestHonoured`, `TimetableAlwaysKept` | `TypeCorrect`, `VetoIsLasting`, `ClaimsAreFresh`; `EnergyInvariant` |
| `LinkProofs` | `EndingAlwaysOwed`, `ClockNeverEscapes`, `AgentKeepsPromise` | `TypeCorrect`, `DeviceAskedAtMostOnce`, `NoCommandOvertakes`, `OpeningInTime`, `EveryDueEndingListed` |
| `ExecutorProofs` | `EffectIsSingle`, `EffectHasEnding`, `CompletionIsClean`, `OthersAreKept` | `TypeCorrect`, `DispatchedInTime`, `EndingIsRun`, `EvidenceStays`, `UnlockedFromLocked`, `OrderKept`, `NextIsKept`, `OverlapsAreRefused` |
| `PlansProofs` | `BudgetIsKept`, `ConsentIsAsked`, `OpensOnCurrentFacts` | `Invariant`, `TypeCorrect` |
| `ContactsProofs` | `ReplyDecides`, `CapsHold` | `TypeCorrect` |
| `HouseholdProofs` | `CallsTakeEffectOnce`, `StaleWorkIsDropped`, `ChainConvincesOnlyWhole` | `TypeCorrect`, `TextIsReadOnce` |
| `CompanionProofs` | `WayBackIsUnique`, `RecoveryEvicts`, `SnapshotsAreCurrent` | `TypeCorrect`, `NoFourthAttempt` |
| `ConstitutionProofs` | `BoundaryAgreement`, `PermitEarned`, `EngineEnforcesActive`, `PolicyIsReviewed` | `PTypeCorrect`, `TypeCorrect` |

**Approvals.** `Inv` adds to the safety invariants the type invariant, `FreeIsBlank` (an unused
row names no action, so `ask` cannot inherit one) and `PressHappened` (a binding never names a
press of the future, without which a newer press could not be told from the approved one). The
argument goes through the life of a row: `RowMoves` lists the ways a step can change one approval
(opened once, restated, closed once), `TableMoves` shows every action stays within it, and
`VotesMove` and `RowsMove` say who writes votes, grants, claims and the queue. Each invariant is
then preserved by those moves alone. `DailyBudget` is about a sum over a set, which the community
modules define by recursion over subsets. That recursion exists, and its value does not depend on
the order of adding; both are proved from the well-foundedness of strict inclusion among finite
sets, with the induction hypothesis written as a set of subsets because the provers cannot
instantiate an operator. `SumTake` (the sum with one element taken out) is then all that
`SpendingIsCapped` needs: a grant adds its price to the day on which `over_budget` counted it.

**Link.** `Inv` says what the journal knows at each point of the task: `Untouched` (no request
without a claim), `TaskHolds` (endings are listed only while pending; between claim and outcome
the opening's row is its own), `ClaimsExclude`, `OnePending` (one unfinished ending per target)
and `OwnDevice`. `EndingIsOwed` is not inductive by itself: only `TaskHolds` and `OnePending`
exclude that completing the ending of one command discharges another. `AgentKeepsPromise` then
maps each step to a step or a stutter of `BoundedOnce`. `ClockNeverEscapes` needs no monotonic
clock: the window was tested at the claim and `last_at` decides what is due.

**Executor.** `RowsKnow` says what a row tells (an attempt, an ending, a retry), `Knows` and
`Claiming` what a worker at each place of `run()` may rely on. The heart is `OneHolder`: a row is
claimed once, so between a claim and its request one worker stands alone, also after a lost lock.
`OneEffect` and `BoundedUntilEnded` follow in every situation, sessions lost or not. `Exclusive`
holds while no session was lost (`drops = 0`): then one worker sweeps, and what `run()` read
before it asked for the grant still holds at the request. `CompletedLeavesNothing`,
`VerifiedIsFinal` and `DoorOpenedFromLocked` are stated under that condition because without it
the code, and the model, can break them (`hirz/executor/service.py:382`).

That an ending never cuts short the next operation on its device (`NextOperationKept`) is about
four rows: two openings and their two endings, one of which is recorded late. `Turns` lists how a
step can change one row, and `Orderly` follows from it: of two openings that may be in force on a
target at once one has ended (`Clear`, what `check_overlaps` keeps); none is run before what had to
end by its start was ended or failed to (`Passed`, what the order of a sweep keeps, endings before
openings of the same instant); and the openings of a plan are either all unscheduled (`Untouched`)
or do not overlap (`Spread`), so that one that was held can come back beside the others.
`resume()` calls no `check_overlaps` and can put a held opening back over a request queued in its
way (section 6). That is a step of the model, and the theorems hold up to it: the history variable
`overlapped` records that it happened, `Orderly` and `NextOperationKept` are stated for `drops = 0`
and `~overlapped`, and everything else in `StepsKeep` without the second. The situation `Resumed`
of `MCExecutor` has such a plan and such a request; without `~overlapped` TLC finds
`NextOperationKept` violated there. `ExecutorAssumption` says that the bounded operations on one
target are all unlocks or none is: a lock's only bounded operation is `door_unlock`
(`hirz/executor/contracts.py:162-180`), whose ending counts from the claim. For that reason
`OverlapsAreRefused` is stated for homes where nothing opens a door.

**Plans.** A replacement is computed outside any transaction from rows read earlier, and
`transfer()` decides from those rows what to keep. `BudgetKept` is therefore not inductive: one
must know that the rows still tell which openings may be outstanding. `WorkersKnow` says so: as
long as the generation a worker claimed is the job's, nobody asked for anything since, nothing was
opened since, and only endings were recorded. Each action is one of four kinds — `Quiet` (it
neither opens nor replaces), a first version, an approval, or `Publishes` — and each kind keeps
the invariant. `Lineage` (all versions but the last are over; shares belong to grants not newer
than their holder) and `JobKept` (the job answers the last version's facts; a member's wish makes
it explicit) complete it. The sums use the same theory as for `Approvals`, with `SumUnion` for
shares kept and shares added.

**Contacts.** Three parties write a check: the household, the contact, the worker. `JobsFollow`
says how far its job, its case and its receipt agree at every moment, `HandClaimed` what may still
be done with the attempt in the worker's hand. `SendsCapped` compares two sums: the caps are
decided by what the rows count (`Attempted`, a sum over rows) and promise something about what was
sent (a sum over time, in a window that slides). `Covered` relates them: from any instant on, and
for any contacts, the rows count at least what was sent. Time, a crash, a record and the removal
of a contact never lower a count (`Grows`), and the row of an attempt counts one more at once
(`SendCounted`), before anybody knows whether the mail left. `NothingAhead` turns a window that
ends later into the one that ends now, which is the one the worker looked at.

**Household.** One part for each group of tables, disturbed by its own component only. Of memory one
must know that the base of a proposal is a version that exists: an accepted proposal for the stored
value writes no version and leaves the others acceptable, one for another value writes the version
that closes them. The hard part is the audit chain: `ChainIntact` gives the log as a function of its
length, from which `ChainVerifies` and `ChainConvicts` show that of all exports of the newest rows
exactly the unbroken ones convince. Hashes are taken to be injective, and nobody else to be able to
sign.

**Companion.** Passkeys, twin runs and push share only the passkeys a run looks up, so each has an
invariant of its own. `EvictedByRecovery` needs to know of each open ceremony which token or
session it hangs on and in which era that was given (`CeremoniesKnow`); `OneCode` is `OneWayBack`
without counting.

**Rules.** `RulesAssumption` is the schema of a policy and of the facts, and says of the parser
that what it returns is invalid or a sequence of nodes whose children come before them; TLC
evaluates it for `parse` on every condition of the run. The policies themselves are arbitrary: any
number of conditions and overrides, of any depth. Both evaluators compute a value for each node
from the values before it. That such values exist (`Recursion`), and that what each position
inherits from its predecessors all positions have (`Climb`), is proved once from the
well-foundedness of strict inclusion among finite sets. From there `ConditionAgrees`: what the
evaluator can resolve is what the inputs of the boundary answer, and then both compute the same.
`RequirementsAgree`, `MetAgrees`, `OverridePathAgrees`, `SafeAgrees`, `AutonomousAgrees` and
`TemporalAgrees` match the parts of a statement with those of `resolve`. They also show that no
statement ends in an error, which is a matter of order: an expression is read only behind the test
that its facts are known. `Agreement` puts them together for one role. `ConditionStable` and
`ResolveStable` show that what was sanctioned on some facts stays so when others become known,
which is `UnknownNeverPermits`; `SecurityFacts` draws `SecurityNeedsPhone` from what
`validate_policy` demands. The invariant is small (`PTypeOK`): the active policy is a validated
one, and the request and its approval are well formed.

**Publication.** The argument follows the engine row. While no publication holds it, nothing
touches the remote statements and they are the recorded inventory (`Undisturbed`); the one that
holds it is the worker's job (`OneHolds`, `WorkerKnows`); and the inventory moves only with the
version in force (`InventoryInForce`).

**Energy.** The assumptions say that times, figures and tariffs are numbers, that minutes, slots
and cycles are not empty, that the grid `Rates` is finite and holds 0, that a request a member may
make is well formed (`Specified`, on slot boundaries), and that of the member's transitions at
most one of each sort falls on an instant, which `_schedule` checks. The planner, the replay and
the twin compute along an interval: a course, a trim, a temperature, the passage of the world.
Each is a recursive function, and what such a function is must be proved first: `Iterates` builds
the iteration of a step from every value to another, so that the `CHOOSE` by which the function is
defined has something to choose, and `Rising` and `Falling` carry a fact along it. From there
`CourseFacts`: a course has an entry for each slot and never forgets a reason; hence
`ValidCourse`: what `replay` accepts was accepted slot by slot (`SlotAccepted`).

`EveryRequestHonoured` is about requests that come, change, are withdrawn, held or released while
no plan has been made. `Sound` says what all these leave of the records. `CoordinatedFacts` says
what `coordinate` makes of them: each request is a constraint, a held target, or no wider a
deadline or band than it asked for. The solver is not trusted, nor the baselines:
`ProposedFacts` says only that what is proposed passed the replay of the coordinated input and
that no request was in conflict. `ScheduleHonours` then goes through the kinds of request and
finds, for each, the reason for which the replay would have refused the schedule.

`TimetableAlwaysKept` needs more than the world: a command's effect is computed in one step,
committed in another and published in a third, and a restart goes back to the checkpoint. So
`EnergyIInv` says of the world, of the state in hand and of the checkpoint that each tells the
timetable up to its own instant (`Tells`), and of a command under way that the clock has not moved
since (`last = clock`, the frozen clock of a sweep; without it the effect would be laid over
transitions it has not seen, as the mutant `TickThawed` does). `PassageFacts` is the lazily
advanced world: the next boundary lies strictly ahead and no transition comes before it
(`BoundaryFacts`), so that going from boundary to boundary misses none and repeats none, wherever
reads cut the passage.

**Only model-checked.** Liveness and `ENABLED` are outside the prover's reach: `EveryCallEnds`,
`EveryOperationResolved`, `RefreshResolves`, `Settles`, `PublicationEnds`, and the parts of
`DeliveryEnds` and `ExtractionEnds` that are not invariants. Of the invariants of `energy`,
`PlanDelivers` and `OwnEffectsPredicted` compare two integrations of the same physics, cut at
different instants, and integers round at every cut (`\div Loss`, `\div Resistance`): they hold for
figures that divide, as those of `MCEnergy`, or within `Tolerance`, and are no theorem for all.
`OptimalIsBest` compares what the solver calls optimal, within its gap, over the grid `Rates` with
baselines whose rates were trimmed and need not lie on it, so it is a statement about the instance's
grid as well: a loss against a baseline stays within the gap, and is possible there. `Conditions` is
a parser written with `RECURSIVE` operators, in whose modules the prover has no SMT backend: that
`parse` returns what `RulesAssumption` says is checked on the conditions of `rules`.

## 5. Not modelled

`PROJECT.json` lists every component with its status. Within the modelled parts:

* pipeline and rules: adjustments of a reservation after its grant (`service.py:271-285`), which
  only lower the usage; roles a caller claims beyond the one tested in `Rules`, budgets of several
  classes, device bindings (which can make an ending unclaimable), rendering and previews;
* executor and plans: `rollback()`, which has no caller in `src/`; the figures of a plan beyond its
  shares of money per instant;
* contacts: `sync_channels`, organizations, the recipient's own withdrawal and the phone number;
* memory turns and the external provider; exports retained on disk; OAuth, elicitation and HTTP;
* publication: the update of the engine's schema (`Publisher.contract`), the gateway, schedules;
* energy: a command for a car that is not plugged in, since nothing unplugs it in the twin and
  planner input requires it; one zone and no occupants' heat; the car's taper above 80% and the
  meters; `simulate` and `causal_controls`; `baseline_targets`; requests that lower an owner's
  through a claimed role. Solver rates lie on the grid `Rates`, windows on slot boundaries.
  `predicted()` ignores writes of the same instant, as the code does, and polls always refresh, as
  in the callers that serve a household. Whether intake grants a request is a choice;
* the household graph, the host simulator and the explainer.

## 6. Findings

**A cancelled plan comes back** (run `executor_cancel`, `CancelIsFinal`). `await_approval`
(`hirz/executor/plans.py:481`) writes `awaiting_approval` whatever the plan's status; a plan
cancelled after the ask was committed can then be resumed, against the comment at
`hirz/executor/plans.py:1187`.

Two more behaviours are no part of the runs and can be seen with a configuration of their own:

* **A grant refuses its own action** (`tlc -config MCExecutorGrant.cfg MCExecutor`, invariant
  `ReevaluatedAfresh`). When the plan changes between grant and claim, `sweep()` leaves the row
  scheduled "for fresh evaluation on the next tick" (`hirz/executor/service.py:160-162`). The
  grant is already committed, so the next `redeem` answers `DENY_APPROVAL_USED` and the plan is
  held. It fails closed.
* **`resume()` does not look for overlaps** (`tlc -config MCExecutorResume.cfg MCExecutor`,
  invariant `OverlapsRefused`). A held opening is invisible to `check_overlaps`; another bounded
  operation can be queued on its target, and `resume()` (`hirz/executor/plans.py:566`) schedules
  it again beside that one. `hirz/executor/storage.py:161`: "Overlapping bounded operations are
  refused".

Related to the last: `check_overlaps` counts a door's end from its schedule, the recorded ending
counts it from the claim (`hirz/executor/contracts.py:138-142`), so two unlocks that do not overlap
on paper may. The second is refused then, because the door is not locked (`DoorOpenedFromLocked`).

## 7. Plan

1. The modules of section 2 are done. All but `Conditions` are proved about, in eight proof modules.
2. `OptimalIsBest` for the exact program, with rates that are not on a grid.
3. An abstract account of a plan's money that `Plans` implements, and of one operation's life that
   `Executor` implements.
