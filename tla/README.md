# Katapult and cypilot: TLA+ models, checks and proofs

The repository holds two programs. Katapult (Go) moves the contents of Kubernetes
persistent volumes (PVCs) within and between clusters: a control plane accepts
transfer requests, chooses a strategy, commands agents on the worker nodes and follows
their progress reports. cypilot (Python, `cypilot/.core/`) is the tool that keeps the
project's documents and code in step: it installs itself and its kits into the project,
updates them, writes the files coding agents read, and validates artifacts, their
references and the markers in the code.

This directory holds TLA+ models of both, TLC configurations that check small
instances, and TLAPS proofs for instances of every size. Paths below are relative to
the repository; those of cypilot are relative to
`cypilot/.core/skills/cypilot/scripts/cypilot/` unless they begin with `cypilot/`.

## 1. Inventory

| Component | Source | State it keeps | Operations that change it | Talks to |
|---|---|---|---|---|
| Transfer engine | `katapult/internal/transfer/orchestrator.go`, `cleanup.go` | none of its own; it works on copies of rows | `CreateTransfer`, `CancelTransfer`, `HandleProgress`, `ExecuteCleanup` | transfer repository, agents (`AgentCommander`), credential manager, S3, progress hub, metrics |
| Transfer domain and decisions | `katapult/internal/domain/transfer.go`, `transfer/{strategy,validation,retry}.go` | the transition table | pure functions | used by the engine |
| Transfer repository | `katapult/internal/store/postgres/transfer.go` | tables `transfers`, `transfer_events` | one autocommitted statement per method | PostgreSQL |
| Agent registry | `katapult/internal/registry/{service,health,validation}.go`, `domain/agent.go` | none of its own | `RegisterAgent`, `Heartbeat`, `HealthEvaluator.Evaluate` | agent repository |
| Agent repository | `katapult/internal/store/postgres/agent.go` | tables `agents`, `agent_pvcs` | `UpsertAgent`, `UpdateHeartbeat` (transactions), `MarkUnhealthy`, `MarkDisconnected` | PostgreSQL |
| Agent process | `katapult/cmd/agent/main.go`, `internal/agent/{client,discovery,tools}.go` | its agent id | registration with backoff, heartbeat loop, re-registration | registry over gRPC, Kubernetes API |
| Progress hub and SSE | `katapult/internal/observability/hub.go`, `http/sse_handler.go` | subscriber channels per transfer (buffer 16) | `Subscribe`, unsubscribe, `Publish`, `CloseTransfer`, `handleStreamProgress` | engine, HTTP clients |
| Metrics and error enrichment | `katapult/internal/observability/{metrics,errors,progress}.go` | gauges and counters | `OnTransferStateChange`, `OnProgressReport` | engine |
| gRPC and REST servers | `katapult/internal/grpc/`, `internal/http/` | none | map requests to the engine and the registry | clients |
| VolumeTransfer controller | `katapult/internal/controller/volumetransfer_controller.go` | status of the custom resource | `Reconcile` | Kubernetes API, engine |
| CLI, web UI, deployment, test helpers | `katapult/internal/cli`, `web/`, `deploy/`, `katapult/internal/testutil` | no state of the system | | |
| cypilot: v2 to v3 migration | `commands/migrate.py` | the project's files, backup directories | `cpt migrate`: detect, back up, convert, validate, roll back | kits, agent files |
| cypilot: kits | `commands/kit.py`, `utils/{diff_engine,manifest}.py` | installed files, `core.toml`, `.gen/` | `kit install`, `kit update` with a review file by file | releases (cache, GitHub, local) |
| cypilot: project setup | `commands/{init,update}.py`, layout migration in `kit.py`, `utils/toml_utils.py` | `.core/`, `config/`, `kits/`, root `AGENTS.md` and `CLAUDE.md` | `init`, `update` | cache, kits, agent files |
| cypilot: agent files | `commands/agents.py` | an agent's workflow directory and skill output | `generate-agents`, `agents` | workflows of `.core/` and of kits; the user's own files |
| cypilot: validation | `commands/validate.py`, `utils/{constraints,document,codebase,fixing}.py` | none; artifacts and code are the author's | `validate` and the prompts it prints | the author, or a coding agent |
| cypilot: outline and table of contents | `utils/toc.py`, `commands/{toc,validate_toc}.py`, heading contract in `constraints.py` | the tables in Markdown files | `toc`, `validate-toc`, the renewal by `kit update` | validation |
| cypilot: registry, queries, kit self checks, command line, pull request script | `utils/artifacts_meta.py`, `commands/{list_ids,where_used,...}.py`, `commands/{self_check,validate_kits}.py`, `cli.py`, `cypilot/config/kits/sdlc/scripts/pr.py` | none | reads and printing | |

What is hard here, and what a test would hardly reach:

* The engine holds no lock and opens no transaction. A request loads a row, decides
  on the copy and writes back unconditionally several calls later. Every pair of
  cancel, report and creation can interleave between any two calls.
* Each call can fail with or without effect, and the process can die between two
  calls; nothing resumes a half-finished request.
* Agents report late, twice, and after they were cancelled.
* Registration and heartbeat read the agent's row and act on it in a second
  transaction while the health evaluator marks rows.
* Progress streams race with the end of the transfer they follow.
* The controller reconciles from a status that it may have failed to write.
* cypilot rewrites a project in place, file by file, with no transaction: `init`,
  `update`, `migrate` and `kit update` can die or fail between any two operations, and
  are then run again on what is left. They share the project with a user who edits it.
* What a command may delete or overwrite is decided from earlier writes of its own:
  version entries, bindings, backups, generated names and markers.
* The validator's verdict rests on several scanners that have to agree, and its prompts
  are followed one at a time by an author who then validates again.

What makes each part correct:

* Engine: a transfer only makes moves of the transition table; once its outcome is
  settled nothing changes it; data moves only after the strategy and the start are on
  record; retries stay near their budget and are not cut short; what the agents ended
  is cleaned up; the timeline agrees with the row.
* Registry: the two health columns agree; nobody is marked before the timeout; an
  agent id keeps the namespace it registered from; dead agents end up disconnected
  and live ones recover.
* Streams: no goroutine touches a closed channel; the map holds the live streams and
  no others; a client sees events in order; a closed stream ends.
* Controller: one transfer per resource, none orphaned by a deletion, a status that
  ends up telling the outcome.
* cypilot's file commands: nothing of the user's is lost, whatever fails; a command that
  reports success has done all of it; one that was interrupted is taken up again; run
  twice, the second run changes nothing.
* cypilot's validator: a pass means what the documents say it means (references resolve,
  what is done rests on what is done, markers trace to a design), no issue hides between
  two artifacts, and following the prompts ends in a pass.

`PROJECT.json` lists the hazards that the runs of section 4 cover, each at its line.
The code has more; these are covered by one of the further configurations, or by none:

| Line | Hazard | Covered by |
|---|---|---|
| `transfer/orchestrator.go:231` | The destination's command fails after the source was commanded. | refuted: `EndedTransferHasNoAgents` |
| `transfer/orchestrator.go:311` | Cleanup works on a copy whose strategy may not have been chosen. | refuted: `CancelDeletesStagedData` |
| `transfer/orchestrator.go:410` | Cleanup is the last of many calls. | `CompletionCleansUp` |
| `transfer/orchestrator.go:443` | Nobody sends the command of a granted retry. | refuted: `RetryResendsCommand` |
| `store/postgres/agent.go:41`, `:52` | Two first registrations mix their ids and inventories. | refuted: `InventoryIsOneReport`, `UpsertKeepsForeignKey` |
| `store/postgres/agent.go:124` | Lock order of heartbeat and upsert. | PostgreSQL fails one of them, `HandlerFails` |
| `registry/service.go:123` | The evaluator disconnects the row between a heartbeat's check and its UPDATE. | refuted: `DisconnectedNeedsRegistration` |
| `registry/service.go:69` | A slow registration sets `last_heartbeat` back. | modelled; the code keeps no other time to compare with |
| `agent/client.go:198` | An agent whose id was replaced never registers again. | none: it follows from this line alone |
| `http/sse_handler.go:70` | A transfer ends between load and subscription. | refuted: `SettledStreamEnds` |
| `observability/metrics.go:104` | The gauge is changed by different callers. | refuted: `GaugeNotNegative` |
| `controller/volumetransfer_controller.go:55`, `:114` | A status update or a cancel fails between two calls. | not modelled |
| `commands/migrate.py:1541` | A JSON file does not convert. | `PassIsComplete`, `NothingLost` |
| `commands/init.py:437` | The backup before `--force` fails. | `OverwrittenIsBackedUp` |
| `commands/update.py:455` | Scaffolding over edited files. | `UserConfigKept` |
| `commands/update.py:399` | Kits are validated with the context loaded before the update. | none: the validation only reports |
| `utils/toml_utils.py:104` | `core.toml` is rewritten in place. | torn files in `KitUpdate` and `ProjectSetup` |
| `commands/agents.py:73` | Half a copy of the tool counts as an installation. | refuted: `LocalCopyIsWhole` |
| `commands/agents.py:502`, `:636` | Workflows of an unregistered kit; a proxy with the skill output's path. | `NoProxyForForeignKit`, `GenerateIsIdempotent` |
| `utils/constraints.py:1034`, `:2032` | References and required headings that are missing. | `ReferencesResolve`, `PassMeansContract` |

## 2. Plan

1. Katapult: `TransferDomain`, `TransferLifecycle` (the abstract promise), `Orchestrator`
   (the engine over its repository, which implements it), `AgentRegistry`,
   `ProgressStream`, with their `MC` and proof modules.
2. cypilot, the commands that rewrite a project: `CypilotMigration`, `KitUpdate`,
   `ProjectSetup` (which takes a kit's update as one step with the outcomes `KitUpdate`
   gives it), `AgentFiles`.
3. cypilot, the validator: `Validation`, `Outline` (the heading contract) over
   `TableOfContents`.

All of it is done. What stands open is what section 8 lists and what section 6 leaves
to the model checker.

## 3. Modules and how they correspond to the code

### TransferDomain
`validTransferTransitions`, `IsTerminal` and `CanTransition` are the table and the
methods of `domain/transfer.go`. `SelectStrategy`, `ValidRequest` and `RetryAction`
are `strategy.go`, `validation.go` and the decision of `retry.go`. What the lookups of
the validation answer (found or not, empty or not, error) is an input (`Lookups`).

### TransferLifecycle
The abstract specification: a transfer is submitted once and then makes only moves of
the table. It is what the documents promise about the state of a transfer.

### Orchestrator
State: `row` is the `transfers` table (state, strategy, whether `started_at` and
`completed_at` are set, which call wrote `error_message`, `retry_count`,
`retry_max`); `events` the outcomes that `transfer_events` tells of; `agents` what the
agent of either side does for a transfer; `cleaned` the cleanup requests issued;
`closed` whether the progress streams were closed. The rest belongs to the request
goroutines ("handlers"): `pc` is the call made next, `tid` the transfer, `copy` what
`GetTransferByID` returned or what `CreateTransfer` built, `req` and `report` the
input.

Each action is one call and the local computation that follows it. `Statement` is a
repository call whose error returns, `IgnoredStatement` one whose error is dropped,
`Event` is `createEvent`. `Arrive` starts a request, `Step` is the next call of a
running one, `Crash` ends the process.

The input of a handler is restricted to what the program can meet: progress reports
come from agents that were commanded, `retryMax` is a natural number, and the lookups
of the validation may give any answer.

### AgentRegistry
State: `row` is the `agents` table (id, `state`, `healthy`, how long ago
`last_heartbeat` is, `jwt_namespace`), `pvcs` the `agent_pvcs` rows of a node, `bound`
a history of the namespaces an id was recorded with. `hd` are the RPC handlers, `proc`
the agent processes, `eval` and `lag` the health evaluator and the age of its clock
reading.

`SendRegister` and `SendHeartbeat` are the client's calls, with the JWT interceptor as
their guard. `RegLookup`, `UpsertDelete` and `UpsertCommit` are `RegisterAgent` and the
transaction of `UpsertAgent` under READ COMMITTED: rows that another transaction commits
after the DELETE are not deleted (`Residual`), deleted rows are locked until the commit,
and both key constraints are checked. `HeartbeatLoad` and `UpdateHeartbeat` are
`Heartbeat`. `EvalStart`, `MarkUnhealthy`, `MarkDisconnected` are one cycle of the
evaluator. `LoseCall` and `Exit` leave the handler running, so that it races with the
call that replaces it. `HandlerFails` is every failing statement, deadlock victims
included.

Simplifications: the database's and the control plane's clocks are one; a DELETE that
waits for a lock sees the rows as they are when it gets it; the namespace and the
inventory of a registration are chosen anew for every call; tool validation, which
rejects before anything is read, is left out; `NOW()` is taken at the heartbeat's commit.

### ProgressStream
State: `subscribers`, `buf` and `closed` are the hub's map, the channels and the
`closed` flags; `panicked` records a send on or a close of a closed channel; `pc`,
`tid`, `snap`, `sent` belong to the SSE handlers. Of the engine it keeps what a stream
can observe: whether a transfer has ended, the last report persisted, the gauge, and
the handlers between load, persist, publish, settle and close. Each hub operation holds
the hub's mutex and is one action. `CreateFails` may happen as long as the transfer is
active, for agents may report while the destination's command fails; it neither
publishes nor closes. `published` is a history.

### CypilotMigration
`fs` is the project: the paths that exist with the set of things each holds, so that a
copy or a removal that stops half way leaves a subset. `backups` are the backup
directories by the second they were named after, `run` is the process. `Start` and
`Confirm` are `run_migrate` up to the user's answer; `BackupItem`/`WriteManifest` are
`backup_v2_state`; then one action per step of `run_migrate`, in its order; `Validate`
is `validate_migration`; `RollbackUnread`/`RollbackItem`/`RollbackEnd` are `_rollback`.
Each step can raise, with part of its effect, which leads to the rollback, or end the
process; `SkipAgentsMd` is an `AGENTS.md` that cannot be read, which stops nothing
(`run.unread` records it). `origin` and `atStart` are histories.

### KitUpdate
`disk` maps locations to contents (where the text comes from, whether it has a table of
contents, whether its variables are resolved), `entry` is `[kits.<slug>]` of
`core.toml`, `core` whether that file parses. `cmd_kit_install` and `cmd_kit_update`
start a command; `CopyContent`, `PlaceResource`, `ResolveInstalled`,
`_seed_kit_config_files` and `RegisterInstalled` are an installation with and without a
manifest; `AdoptResource`, `RegisterAdopted`, `ResolveAdopted` the adoption of a
manifest by an update; `StartReview`, `ReviewFile`, `RegisterReviewed` the file by file
review of `diff_engine.py` with every answer the prompt offers. `UserEdits` may put
variables (`{id}`) into a file, which `_resolve_template_variables` rewrites in place with
the others below the kit's directory: it passes over a file it cannot read, and a write
that stops leaves the file torn. `before`, `consent` and `open` are histories. Downloading a release is an input. Three conditions on the kit in
hand are named because theorems need them: `Separate`, no file belongs to two resources of
the release; `NoneLeftBehind`, no content file in the kit's directory is bound to another
place; `KeepsRoot`, the command does not work on a kit moved as a whole.

### ProjectSetup
`p` is the project: `.core/` directory by directory, kits in `config/`, `kits/`,
`.gen/kits` and the layout backup item by item, `core.toml`, `artifacts.toml`,
scaffolded files, aggregates, and the managed blocks of the root files. `cmd_init` and
`cmd_update` start a command whose steps are the actions of `Next` in the code's order;
`LayoutKit`, `LayoutGen`, `LayoutPaths`, `LayoutRemove` and their failing variants are
`_detect_and_migrate_layout` of `kit.py`. `Dies` ends the process between two steps, the
`...Dies` and `...Fails` actions inside one. A kit's update is one step with the
outcomes `KitUpdate` has. `prev` and `origin` are histories. `Projects` are the projects
the commands may meet; `PathsAssumption` says that one of them registers a kit outside
`config/` only if it has directories of an older layout, which is where such paths come
from and where `_detect_and_migrate_layout` looks before it corrects them.

### AgentFiles
`dir` is one agent's workflow directory with the skill output: a file is its prefix and
stem, its content whether it opens with `# /`, which workflow it leads to, and the
version it was rendered from. `_ensure_cypilot_local`, `Preview`, `Confirm`, `Rename`,
`Write`, `Delete` and `Skill` are the command; the user writes files and the
installation changes between commands and while one waits for an answer. The table of
agents and their directories is data and left out.

### Validation
`text[d]` is an artifact as scanned: headings, definitions, references and steps outside
fences, in order; `code[f]` a file's markers and the lines between them; an ID is the
tuple of its tokens. `cmd_validate` computes the report of a mode (everything, documents
only, or one artifact) from `IssuesOf`, the checks between artifacts and those against
the code, each issue a code with its place. `Repair` is the author doing what
`_build_fixing_prompt` says of one issue; where a prompt offers two ways out, `Optimist`
says which he takes. `EditText` and `EditCode` undo work in a clean project, and every
change discards `verdict`, the last report. `TraceAssumption` says that the constants are
a project: IDs and kinds the rules name, artifacts as sequences of lines. The names of the
specification are `TraceSpec`, `TraceNext` and so on, because `Validation` and `Outline`
are the two halves of `cpt validate` and share a proof module.

### TableOfContents, Outline
`TableOfContents` are the functions of `toc.py` on sequences of lines: fences, headings,
anchors, finding, building and inserting the list in both forms, validating it.
`Outline` has the state: the file, and the heading contract as the loop it is:
`MatchConstraint` is one constraint with the cursor and the last match of every level.
`cmd_toc`, `cmd_validate_toc`, `RegenerateToc` (the renewal by a kit update) and the
author's edits act on the file. The title of a heading stands for its slug.
`FilesAssumption` says that the files to start from are sequences of lines.

## 4. Runs

Bounds are given in the `.cfg` files. Runs that pass:

| Run | Instance | Shows |
|---|---|---|
| `orchestrator_faults` | one transfer, two handlers, four requests, every call lost or unacknowledged, crashes | `StrategyOnRecord`, `StartedBeforeWork`, `AgentFailureExhaustsRetries`, `RetryOvershootBounded`, `NonTerminalMovesLegal`, `SettledIsFinal` |
| `orchestrator_sequential` | one handler, all faults, crashes | the engine implements `TransferLifecycle` (`LifecycleSpec`) and `TimelineMatchesRow` |
| `registry_identity` | authentication on, two namespaces, two ids, two handlers, failing statements, lost calls, exits | `IdentityKeepsNamespace` |
| `registry_liveness` | no authentication, one handler, exits, fair | `HealthyFlagMatchesState`, `NeverMarkedEarly`, `SilentAgentIsDisconnected`, `RunningAgentIsHealthyAgain` |
| `stream_hub` | two handlers, one stream, buffer of one, failing statements, fair | `NoPanic`, `SubscribersAreLive`, `StreamKeepsOrder`, `ClosedStreamEnds` |
| `migration` | five projects, two runs, one exception or crash | `NothingLost`, `RollbackKeepsItsWord`, `PassIsComplete`, `BackupsAreFrozen` |
| `kit_update` | two releases (one known by its tag only), two files, three commands, one edit, one fault | `EditsSurvive`, `AcceptAllConverges`, `UpdatedAtRegisteredPath`, `InterruptedIsRetried` |
| `project_setup` | six projects, two slugs, two core directories, three commands, one edit, one fault of any kind | `UpdateCompletes`, `OldKitsSurvive`, `UpdateIsIdempotent` |
| `agent_files` | one core and three kit workflows, two files of the user, two runs, two edits, one fault | `GenerateConverges`, `BystandersKept`, `GenerateIsIdempotent` |
| `validation` | two artifacts, one code file, 64 texts by five code files, one edit after a pass, fair | `DoneRestsOnDone`, `CodeIsTraced`, `OneByOneFindsAll`, `RepairsConverge` |
| `outline` | a contract of five headings, six files, one edit | `MatchesFollowContract`, `ValidTocLeads`, `TocSettles`, `TocKeepsProse` |

`setup_doc_layout_lost` must find a violation (section 7). These configurations pass as
well and hold the type invariants and the plainer properties of the same instances:

| Configuration, module | Shows |
|---|---|
| `orchestrator_cleanup`, `MCOrchestrator` | `CompletionCleansUp` (two handlers, no faults, fair) |
| `registry_races`, `MCAgentRegistry` | `TypeOK`, `HealthyFlagMatchesState`, `NeverMarkedEarly`, `BindingInv` (no authentication, two handlers, all faults) |
| `migration_more`, `MCCypilotMigration` | `TypeOK`, and the invariant of the proofs, `SafetyInv` |
| `kit_more`, `MCKitUpdate` | `TypeOK`, `InstalledAtBindings`, and the invariants of the proofs, `KitInv`, `ReportPhase`, `VersionPhase`, `UpdatePhase` and `PathPhase` (four files, one of them the user's own, with seeded configuration files, and manifests that do not parse or do not validate) |
| `setup_more`, `MCProjectSetup` | `TypeOK`, `UserConfigKept`, `OverwrittenIsBackedUp`, and the parts of the invariant of the proofs, `TodoThere`, `UpdatePhase`, `InitPhase`, `ReportPhase`, `PathPhase`, `OldKitsPhase`, `SettledPhase`, `BackupPhase` |
| `agents_more`, `MCAgentFiles` | `TypeOK`, the invariants of the proofs `RunPhase` and `SettledPhase`, `NoProxyForForeignKit` |
| `validation_more`, `MCValidation` | `TraceTypeOK`, `ReferencesResolve`, and the invariant of the proofs, `VerdictTrue` |
| `outline_more`, `MCOutline` | `TypeOK`, `PassMeansContract`, and the invariants of the proofs, `MatchInv`, `PassInv`, `TocReported` and `FileOfLines` |

Why these bounds are enough to meet the interesting cases: transfers and nodes do not
share rows, so one is enough for every race on a row; two handlers give every race of
two requests, and the theorems of section 6 lift the safety properties to any number.
A budget of one retry has both sides of the comparison and an overshoot. Ages count to
four ticks with timeouts of one and two and an evaluation of at most one tick, so a
row can be below, at and above each cutoff while the evaluator's clock is old. A
buffer of one with two reports is full when the second is published (which is then
dropped), drained, and closed while not empty.

For cypilot: a fault is met at every step, and two runs or three commands are what it
takes to fail, be repeated on what is left, and be repeated once more on the result.
The projects of `MCCypilotMigration` have between them every kind of core (plain, clone,
submodule alone or beside another, none), registry and agent directory; those of
`MCProjectSetup` no installation, a current one, both older layouts and both uses of the
legacy slug. A kit of two files has one the second release adds, where
the user may have put one of his own before, and one it changes (with a table of contents
from then on); `kit_more` adds a file of the user's that no release has. One directory of an agent holds each
relation of names: a core and a kit workflow of one name, one only the kit has, one whose
proxy has the skill output's path, and user files with and without the prefix. The two
artifacts of `MCValidation` refer to each other, so that every check between artifacts
has both directions, and start from every combination of boxes. The files of `MCOutline`
have no table, a table in either form, both, fences inside longer fences, front matter,
and repeated titles.

`CHECK_DEADLOCK FALSE` is said where a system really may stop: an engine without
requests, and streams whose reports and clients are used up. The registry never stops
(time passes). cypilot's commands and edits are bounded and come to an end.

Each property has a seeded fault beside the definition it changes (`...Unchecked`,
`...Early`, `...Lax` and so on); with it TLC finds the property violated.

## 5. Fairness

* Engine: weak fairness of each handler's next call (`Step`): a goroutine is scheduled
  and its calls return. Nothing makes requests or reports arrive.
* Registry: weak fairness of handler steps, of an agent's sending (the heartbeat loop's
  ticker), of the evaluator (its ticker) and of time. Nothing makes a process start,
  exit or lose a call. `registry_liveness` lets no call fail for ever, because an agent
  that never gets through is not promised anything.
* Validation: weak fairness of `validate` for the whole project and of working off the
  issues it reported, in any order: a quality gate that is asked again after each round
  of repairs. An author who stops is promised nothing.
* Streams: weak fairness of each handler and of each SSE handler, that is of a client
  that keeps taking what is written to it.

## 6. Proofs

TLAPS checks these for every value of the constants that satisfies the named
assumptions of the modules.

* `OrchestratorProofs`: `TypeCorrect`, `StrategyAlwaysOnRecord`,
  `StartAlwaysPrecedesWork`, `FailureMeansExhausted` and the action property
  `NonTerminalMovesAreLegal`. The safety properties are not inductive: a blind UPDATE is
  only harmless because of where its handler is. `IndInv` adds that a handler at work
  has a row (`HandlerHasRow`), that one handler creates a transfer (`OneCreator`), which
  state the row can be in at each step of its creation (`CreatorPhase`), that transfers
  agents know of have left their creation (`CommandedPhase`), that a reporter's copy
  bounds the row (`ReporterPhase`: `retry_max` is fixed, `retry_count` only grows), and
  that the strategy about to be written is one (`StrategyChosen`).
  In the same module, what requests that race leave: `OvershootAlwaysBounded`, through `GrantsBounded`: once the
  budget is spent nobody is granted a retry any more, so the overshoot and the grants
  outstanding together stay below the number of handlers. `SettledTransfersStay` is the
  action property `SettledIsFinal`: every write of a state is made by a handler that is
  still to write it, so once none is, none becomes one (a new handler loads the ended
  row and turns back). Two results hold when requests about one transfer do not overlap
  (`Serialised`; the races that break them otherwise are in section 7):
  `TimelineTrueWhenSerial` (`TimelineMatchesRow`) and `SerialEngineRefines`, the refinement
  of `TransferLifecycle`, step by step. Both rest on `OutcomeKnown`: at each point of a
  handler, `OutcomeAt` says which states the row may be in, so that the blind UPDATE that
  follows is a move of the table and the event after it tells what the row holds.
  `OneHandlerSuffices` states that a single handler is such an engine, which is the instance
  `orchestrator_sequential` checks. TLC checked `OutcomeKnown` on that instance, and with
  two handlers under `Serialised` as a constraint.
* `AgentRegistryProofs`: `RegistryTypeCorrect`, `FlagAlwaysMatchesState`,
  `AgentsNeverMarkedEarly`, from `RegistryInv` (types, a handler has a node, and per row
  flag and age fit the state); and `IdentityAlwaysKept`, from `BindingInv`: whoever is
  about to write an id's namespace, after a check that may be stale, would write the one
  it already has. This one assumes `TokensNameNamespaces`: every accepted token names a
  namespace. Without it the property fails (section 7).
* `ProgressStreamProofs`: `StreamTypeCorrect`, `HubNeverPanics`,
  `SubscribersAlwaysLive`, from `StreamInv`: the map holds only open channels, a channel
  is open until its stream has subscribed, and whoever closes a transfer names one.
  `StreamsKeepTheirOrder` adds `OrderInv`: a report in flight has a number of its own
  that was never published, so its event can only come last in a channel; what a client
  got and what waits for it is one sequence, which receiving leaves as it is.
* `ValidatorProofs`, the heading contract: `MatchingFollowsContract` and `PassingMeansContract`, for every
  heading contract and every file, with only `ContractAssumption` (the contract is a
  sequence of constraints on Markdown levels). The first is not inductive, because it
  says nothing of `cursor` and `last`, by which a round finds its match. `MatchInv` says
  what they are: every match is before the cursor, and `last[l]` is the match of the last
  constraint on level `l` unless one of a higher rank came after it. The constraint a
  match is nested under is then the one whose section was searched (`ParentIsLast`).
  `PassInv` adds that a report is about the file as it was scanned, and that every round
  either recorded an error or took only headings that are as they should be.
* `ValidatorProofs`, the IDs: `TraceTypeCorrect`, `ReferencesAlwaysResolve`
  (`ReferencesResolve`), `DoneAlwaysRestsOnDone` (`DoneRestsOnDone`), `CodeIsAlwaysTraced`
  (`CodeIsTraced`) and `OneByOneSuffices` (`OneByOneFindsAll`), for every project, set of
  rules and number of changes, with `TraceAssumption`. The promises speak of a project that
  passed and are not inductive; `VerdictTrue` is: the verdict on record is the one the files
  would get again, because every change discards it. The lemmas `Clean...` then say what
  files are like in which the checks find nothing. Three of the theorems have a hypothesis
  without which TLC refutes the property on a small instance of its own:
  `OneDefinitionPerId`, no ID is defined twice in one artifact (two definitions of which
  the first has no box hide the second); `DefsReadable`, every definition with a priority
  has a box (a step under another kind of definition is bound past it, section 7);
  `AllConstrained`, every kind has constraints (an ID of a kind without is looked for in
  the code when its artifact is validated alone).
* `ValidatorProofs`, the table of contents: `CleanListsLead` (`ValidTocLeads`) and the
  action properties `ProseIsKept` (`TocKeepsProse`) and `TocSettlesAtOnce` (`TocSettles`),
  for every file, contract and number of edits, with `FilesAssumption`. All need
  `FileOfLines`, that the file stays a sequence of lines whatever wrote it. The first also needs `TocReported`: a report without codes is
  about the file as it is, or `cypilot toc` found nothing to list. What the list was
  compared with when it passed is what would be written again, so its k-th entry was made
  for the k-th section; lines are ordered by counting those before them, and the number in
  an anchor is such a count, which is why the entry leads to its own heading among equal
  ones. The hypothesis `HasSections` is needed: in a file that has lost its last section a
  list left over passes (section 7). The second shows of each of the three writers
  (`_strip_manual_toc`, `insert_toc_markers`, `insert_toc_heading`) that what it does is
  one splice, that neither what is taken out nor what is put in holds a line of the
  author's, and that the lines around a splice keep their order. The third follows the
  same splices through both fence scanners. A splice that takes no fence out and puts none
  in leaves the state of the one (`SplicedOutside`) and the count of the other
  (`SplicedTicks`) as they were for every line that stays, so the headings are the same
  ones and the list built from them is the same list (`SplicedList`). An orderly file
  without the section a person wrote is `Ready`: no heading of a list, and a block that is
  a frame or none. `insert_toc_markers` makes a `Settled` file of it, whose block holds the
  list of that very file, and of such a file every reader says the same: it is orderly, the
  anchors listed are the ones expected, and writing the list again gives the file back
  (`SettledIsClean`).
* `CypilotMigrationProofs`: `MigrationTypeCorrect`, `NothingIsLost` (`NothingLost`),
  `RollbackHolds` (`RollbackKeepsItsWord`), `PassCarriesOver` (`PassIsComplete`) and the
  action property `CompletedBackupsStay` (`BackupsAreFrozen`), for every project, number
  of runs and faults. `SafetyInv` says which of the project's items the run has left as
  they were at each step: until the manifest is written nothing has changed
  (`BackupPhase`), from then on the backup holds all there was (`BackupCovers`), a
  rollback has restored the items before the one it is at (`RollbackPhase`), and the
  conversion has carried over the kits and rules before the step it is at
  (`ConversionPhase`). Two runs within a second name one backup directory; the first one's
  copy is safe because the second one's copy of the adapter, always the first item, finds
  its target there and fails.
* `KitUpdateProofs`: `KitTypeCorrect`, `UserEditsSurvive` (`EditsSurvive`) and
  `InstalledWhereBound` (`InstalledAtBindings`), for every release, layout of resources,
  manifest and number of commands, edits and faults, with `KitAssumption` (the files are
  enumerated, a release maps some of them to contents, and a manifest the schema accepts
  has a resource). `KitInv` adds to the types what a kit's directory may hold at each step
  (`KitDirPhase`), what a command has decided so far (`CommandPhase`: nothing is accepted
  before the review), and which resources an installation has placed (`InstallPhase`). An edit survives because a location is only written with consent or
  when it holds no edit, which `EditsSurvive` alone does not say of the commands still to
  come. The exception it makes is the text the user wrote with variables of the kit in it,
  which adopting a manifest resolves in place. Such a file is torn only in a command that
  stopped, for which the proof needs that a command has no status before its end
  (`ReportPhase`). `InterruptedUpdatesRetried` (`InterruptedIsRetried`) has the hypothesis `KeepsRoot`,
  that no command works on a kit moved as a whole; it is about updates to another version
  than the one on record (section 7): `VersionPhase` says that `core.toml`
  gets the new version only when the review has come to its end. For a moved kit the
  property fails (section 7). `AcceptedUpdatesConverge` (`AcceptAllConverges`) says that an
  update whose every prompt was accepted leaves exactly the release, each file at its place,
  for releases that are `Separate` and kits with `NoneLeftBehind`; `UpdatePhase` says how far
  the adoption of a manifest and the review have come towards that. With the same condition
  on the release and `KeepsRoot`, `UpdatesWriteAtRegisteredPaths`
  (`UpdatedAtRegisteredPath`) says that an update writes where `core.toml` says the file is,
  through `PathPhase`: the targets of a review are the registered places. Without the
  hypotheses TLC refutes both: a file in two resources is looked for at one place and
  written at the other, and a copy left behind by a moved resource is taken for the file.
* `AgentFilesProofs`: `AgentTypeCorrect`, `CompletedRunsConverge` (`GenerateConverges`) and
  the action properties `RunsAreIdempotent` (`GenerateIsIdempotent`), `BystandersStay`
  (`BystandersKept`) and `ForeignKitsGetNoProxy` (`NoProxyForForeignKit`), for every set of
  workflows, kits and user files and every number of runs, edits and faults, with
  `AgentAssumption` (some file has the name `cypilot`, the user's files are names with or
  without the prefix). A run renames, writes and deletes in separate passes, and nothing in
  the code compares the result with what was wanted. `RunPhase` says what each pass has
  settled: while a run works its sources do not change, so `Desired` is fixed, and what one
  pass wrote the later ones leave, because a file they delete is never a wanted one.
  `SettledPhase` says that after a completed run all of it stays so until someone edits
  something, which is why the next run finds nothing to change.
* `ProjectSetupProofs`: `SetupTypeCorrect`, `UpdatesComplete` (`UpdateCompletes`),
  `OldKitsAreKept` (`OldKitsSurvive`) and the action properties
  `UpdateChangesNothingTwice` (`UpdateIsIdempotent`), `UserConfigSurvives`
  (`UserConfigKept`) and `ReplacedFilesAreBackedUp` (`OverwrittenIsBackedUp`), for every
  set of kits, of directories of `.core/`, of projects to start from, and every number of
  commands, edits and faults, with `SetupAssumption` (the constants fit each other and the
  projects are projects) and `PathsAssumption` (section 3). None of them is inductive:
  each is about the end of a command, or about a write that an earlier step must have
  prepared. `SetupInv` says what has been established at every step. `UpdatePhase` lists
  what the steps of an update behind it have done and the later ones do not undo, which is
  why a report is true whatever an earlier command left. `PathPhase` says that
  a kit registered outside `config/` still has an older layout to be moved from.
  `OldKitsPhase` says that what a kit of an older layout held is in `kits/` until every
  kit has been copied without failure, and in `config/` from then on: the removal is the
  only step that takes `kits/` away, and the directories it trusts are whole because a copy
  that failed forbids it. `SettledPhase` says that after a clean update the project differs
  from what that update left at most in directories of `.core/` an update in progress is
  replacing, so that every later step of it finds nothing to do. `BackupPhase` says that
  what `init --force` is still to replace is in a backup. TLC checks each part on the
  instance of `setup_more`, with all five kinds of fault and three commands.

Model-checked only: the liveness properties (`SilentAgentIsDisconnected`,
`RunningAgentIsHealthyAgain`, `ClosedStreamEnds`, `RepairsConverge`,
`CompletionCleansUp`), because the prover handles neither fairness nor ENABLED. Every
invariant and every action property of a passing run is stated by a theorem. Induction
over the lines of a file, which the library's theorems do not give here, is done over a
set of line numbers (`StepByStep`).

## 7. Where the code and its documents disagree

`setup_doc_layout_lost` must find a violation (`findings` in `PROJECT.json` quotes the
lines): the layout migration backs a kit up with `copytree` (`kit.py:1338`); when that
copy fails half way, the handler (`:1360`) takes the half copy for the backup, deletes
the kit and puts the half copy in its place.

The configurations `*_doc*.cfg`, and comments in `migration_more.cfg`,
`setup_more.cfg` and `agents_more.cfg`, hold what the documents, comments and messages say and
the code does not do, one claim at a time: a claim is checked by removing the comment
in front of it and commenting out the others. TLC refutes each.

| Configuration, module | Property | Said at | What happens |
|---|---|---|---|
| `orchestrator_doc`, `MCOrchestrator` | `TerminalIsFinal` | `docs/feature-transfer-engine/FEATURE.md:284` | A cancel and a completion that both loaded the live row: the later write replaces the terminal state of the earlier. |
| | `RetryResendsCommand` | `docs/feature-transfer-engine/FEATURE.md:187` | A granted retry sends no command; the transfer stays in transferring with nobody at work. |
| | `RetryBudgetRespected` | | Two reports with the same loaded count overrun `retry_max` (by how much is `RetryOvershootBounded`). |
| | `EndedTransferHasNoAgents` | | The destination's command fails, the source works on. |
| | `CancelDeletesStagedData` | | A cancel that loaded the row before the strategy was chosen cleans nothing up. |
| `registry_doc`, `MCAgentRegistry` | `DisconnectedNeedsRegistration` | `docs/feature-agent-system/FEATURE.md:247` | A heartbeat that loaded the row before the evaluator disconnected it makes it healthy without a registration. |
| | `UpsertKeepsForeignKey` | | Two first registrations: the second replaces the id under new PVC rows. |
| | `InventoryIsOneReport` | | Two DELETEs before either INSERT leave a mixture of two reports. |
| `registry_doc_auth`, `MCAgentRegistry` | `RunningAgentIsHealthyAgain` | `docs/feature-agent-system/FEATURE.md:284` | With authentication on, heartbeats carry no token and are rejected; the agent is disconnected and does not register again. |
| | `IdentityKeepsNamespace` | | A row recorded without a namespace accepts any later one. |
| `stream_doc`, `MCProgressStream` | `SettledStreamEnds` | `docs/feature-observability/FEATURE.md:98` | A client subscribes after the close, or its transfer fails in creation: the stream never ends. |
| | `FinalEventSent` | | A cancel closes the streams without an event. |
| | `NothingMissed` | | A report between load and subscription is lost. |
| | `GaugeNotNegative` | | The gauge is only decremented. |
| `migration_more`, `MCCypilotMigration` | `RollbackRestoresState` | `cypilot/.core/architecture/features/v2-v3-migration.md:70` | A rollback restores the items of the backup and leaves what the run had created. |
| | `PassMeansRulesMigrated` | `.../features/v2-v3-migration.md:725` | An `AGENTS.md` that cannot be read is passed over (`migrate.py:742`) and the run still reports PASS; `PassIsComplete` makes this exception, in which a completed backup holds the rules. |
| `kit_doc`, `MCKitUpdate` | `NotDeletedUpstream` | `diff_engine.py:722` | A directory of the manifest outside the content directories counts as deleted upstream. |
| | `EditsPreserved` | `.../architecture/PRD.md:276` | Adopting a manifest resolves `{id}` variables in files of the user's as well, before anything is asked (`kit.py:709`); `EditsSurvive` makes this exception. |
| | `ForceOverwrites` | `kit.py:1474` | `--force` skips the version check and still asks about every file. |
| | `VariablesResolved` | `.../features/kit-management.md:405` | Variables of a file installed outside the kit's directory stay unresolved. |
| | `EveryChangeDecided` | `.../features/kit-management.md:234` | When a table of contents cannot be regenerated and the user stops there, the remaining changed files are never asked about, yet the kit is recorded at the new version. |
| | `UpdatedAtRegisteredPath` | `.../architecture/DESIGN.md:102` | A kit moved as a whole is updated at its default place. |
| | `InterruptedIsRetried`, `MaxFaults = 1` | `kit.py:1505` | The same kit: an interrupted first copy leaves its default directory behind, and the next update, which reads the version recorded there, reports `current` (`:1556`). |
| `setup_more`, `MCProjectSetup` | `LayoutKeepsEdits` | `.../architecture/PRD.md:320` | Edits in `config/kits` are replaced by what `kits/` holds. |
| | `LayoutFailureReported` | `.../features/version-config.md:139` | A kit whose migration failed is not mentioned in the update's status. |
| | `KitRefsResolve` | `update.py:661` | Only the legacy slug is registered: the registry is renamed, the kit is not. |
| | `CoreReplacedAtomically` | `.../architecture/DESIGN.md:229` | A crash between two directories leaves a mixture of versions. |
| | `CoreTomlKept` | `.../features/version-config.md:179` | An update rewrites `core.toml` and drops the user's comments. |
| `agents_more`, `MCAgentFiles` | `QuietMeansNoChange` | `agents.py:1062` | After "No changes needed" the run still deletes a proxy whose workflow is gone: the preview counts no deletions. |
| | `AgentsIsReadOnly` | `agents.py:992` | `cpt agents` copies the tool into the project. |
| | `LocalCopyIsWhole` | | A copy that stopped half way is used by the next run. |
| `validation_doc`, `MCValidation` | `PassingIdsAreUnique` | `.../features/traceability-validation.md:53` | An ID defined twice passes. |
| | `StepsBindToDefinitionAbove` | `document.py:186` | A step binds past a definition with a priority and no box. |
| | `DocsOnlyHasNoMarkers` | `.../features/traceability-validation.md:263` | Markers of a DOCS-ONLY project pass. |
| `validation_doc_prompts`, `MCValidation` | `RepairsConverge` | the prompts | An author who always unticks never comes to an end: two prompts undo each other. |
| `validation_doc_no_code`, `MCValidation` | `FinishedIdsAreInCode` | `codebase.py:324` | Without any code file nothing is checked against the code. |
| `outline_doc`, `MCOutline` | `MatchersAgree` | `constraints.py:93` | Two matchers attribute a heading to different constraints. |
| | `MultipleProhibited` | `constraints.py:1873` | A second match that does not follow the first is not seen. |
| | `ScansOutsideFences` | `cypilot/.core/architecture/specs/kit/constraints.md:242` | Headings inside `~~~` fences are scanned. |
| | `TocAnchorsLead` | `toc.py:9` | A title that also occurs on a level the list leaves out gets the wrong number. |
| | `TocEntriesLead` | `toc.py:608` | When the last section of a file is removed, a list left over in it is not looked at any more (`:634`), and its entries lead nowhere. |
| | `ProseSurvives` | `toc.py:10` | Markers inside a fence are taken for the real ones. |

Seen while modelling, without a configuration: a forced update to the version on record that
stops half way is reported `current` by the next update without `--force` (`kit.py:1506`);
a failing `git submodule deinit` is not
fatal (`migrate.py:440`, against line 105 of the migration's feature document); overlapping
blocks of markers are accepted (against `traceability-validation.md:468`); and a missing
constraints file is filtered out of a report on one artifact (`constraints.py:860`,
`validate.py:331`).

## 8. Not modelled

* The mapping layers (gRPC, REST, CLI, web UI): one call each, no state. The control
  plane wires the gRPC service to no engine (`controlplane/main.go:162`), so progress
  reports are taken as calls of `HandleProgress`.
* What the agents do with a command: the agent process of this commit runs no transfer;
  `agents` holds what the engine told them, and reports come from those it commanded.
* The VolumeTransfer controller: it is one engine call and one status update per event,
  and its command wires it to no engine (`cmd/controller/main.go:47`).
* Progress formatting, error classification and the backoff delay of a retry: functions
  of one message; the delay is computed and only logged.
* TLS, JWT verification itself, PVC discovery, tool verification, configuration.
* cypilot: `migrate-config` (a loop over the JSON conversion that `CypilotMigration`
  has); downloads; parsing of `constraints.toml`, `artifacts.toml` and of IDs, whose
  result is the instance a model starts from; autodetection of artifacts; the read-only
  queries, the kit self checks (the modelled checks on templates and examples), the
  command line, the user interface, and the pull request script, which fetches and
  prints.
