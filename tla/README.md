# Verification of pi-safety

TLA+ models of the permission core of this repository: `extensions/pi-safety`
decides whether a tool call of a coding agent may run, under which sandbox
lease, after which review, and serializes everything that touches the one
sandbox runtime of the process; and of the folding of tool rows in
`extensions/pi-tool-render`. The modules are model-checked with TLC on small
instances; the safety of most of them is proved with TLAPS for every instance.

Paths below are relative to `src/extensions/pi-safety/src/` unless they start
otherwise.

1. [The system](#1-the-system)
2. [Modules](#2-modules)
3. [Runs](#3-runs)
4. [Proofs](#4-proofs)
5. [Remarks on the code](#5-remarks-on-the-code)
6. [Not modelled, and the plan](#6-not-modelled-and-the-plan)

## 1. The system

| component | state it keeps | operations | interacts with |
|---|---|---|---|
| **Engine** (`engine.ts`) | the turn generation, the active turn (snapshot, widened authority, grants, remembered approvals), attempts and reviews in flight, the denial circuit | `beginTurn`, `refreshTurnMode`, `invalidate`, `close`, `submit`/`execute`, inline requests of a running executor | calls the hard policy, the Guardian and the executor, all asynchronous; called by the runtime and by executors |
| **Denial circuit** (`denial-circuit.ts`) | window of results, run of denials, open bit | `recordDenial`, `recordSuccess`, `open`, `readout` | owned by the Engine, replaced with each turn |
| **Lifecycle lease** (`sandbox-lifecycle-lease.ts`) | FIFO queue, reader count, writer bit | `runShared`, `runExclusive`, aborts | tool calls are readers; activations, mode resets, shutdown and delegation drains are writers |
| **SRT coordinator** (`sandbox/srt-coordinator.ts`) | lease bit, FIFO queue, poison reason, draining owner and its timer | `runExclusive`, `runExclusiveDetached`, `markPoisoned`, `clearPoison` | the lock of the SRT manager |
| **SRT manager** (`sandbox/srt-enforcer.ts`) | process-wide runtime configuration, base policy | `activate`, `execute`, `reset`, `waitForIdle` | runs its operations on the coordinator; its network questions go back to the Engine's inline requests |
| **Permission session** (`permission-session.ts`) | generation, turn phase and depth, nested snapshots, delegation stack, mode barrier, tail of mode mutations | turn begin/nest/finish/settle, barriers, mutations | called by the host's event handlers |
| **Safety runtime** (`pi-safety.ts`) | the Engine and a stack of Engines of nested turns | `beginTurn`, `beginNestedTurn`, `closeNestedTurn`, `submit` | host handlers above, Engines below |
| **Mode and wiring** (`state.ts`, `mode-runtime.ts`, `register*.ts`) | mode, sandbox readiness, configuration generation, published record | agents and turns, mode changes, activation, shutdown, delegation | session, lease, SRT manager, runtime |
| **Network boundary, connect guard** (`network-*.ts`, `sandbox/connect-guard.ts`) | lookups in flight, one-shot tickets with an expiry, connections | resolve, admit, issue, consume, dial, reset | the sandbox asks, the Engine reviews, the guard dials |
| **Delegation** (`delegation.ts`, `delegation-policy.ts`) | none of its own: the envelope stack is the session's | narrowing of policies and patterns, depth and re-delegation | the wiring, when a subagent starts |
| **Auto reviewer** (`auto-reviewer.ts`, `auto-review-request.ts`) | one review: attempt, tool rounds, deadline | review; reading of the reply | answers the Engine's `guardian.review` |
| **Guardian session and evidence** (`guardian-session.ts`, `guardian-transcript.ts`, `register.ts`) | the trunk with its turns and cursor; the log with its epoch | open, commit, release, invalidate; append, reset | the reviews, which overlap |
| **Guardian worker** (`guardian-worker-client.ts`, `guardian-worker.mjs`) | pending requests, latched failure, phase; queue, sandbox and scope of the process | execute, abort, terminate, close; the frames of the handshake | the reviewer's tools, over pipes |
| **Risk and command classification** (`risk-policy.ts`, `permissions/*`, `tree-sitter/*`) | the parser slot with its generation, the memo of lines | `evaluateRiskRequest` | the Engine's hard policy |
| **Tool rendering** (`src/extensions/pi-tool-render/src/step-group-fold.ts`) | segments, rows, placements, expansion | session events, results, draws, clicks, resets | the host's transcript |
| **Amendments, Guardian tools, configuration, sandbox policy** | registries, files and static data | validation, narrowing, reading | feed the Engine and the reviewer |
| **Presentation** (`pi-core`, `statusline`, `shared-tool-presentation`, the Go `pig-*` extensions) | rendering state | layout and formatting | the host's terminal; no decision depends on it |

What is hard here is asynchrony. The program is single-threaded, but every
policy check, review, activation and execution is awaited, and between two
awaits the host may close the turn, open another, change its mode or its policy,
abort the call, or shut down. What must hold:

* *Engine*: an executor never works for a turn that is over without having been
  told; authority won in a turn stays in it; nothing runs whose scope was not
  allowed outright, covered, or approved in the same turn; a remembered approval
  is one that could be given now; a native action is replayed once at most, on
  a verdict of its own given after the failure; a call of an ended turn returns.
* *Circuit*: the bounded window, the run counter and the gate tell one story.
* *Lifecycle lease*: a writer is alone; nobody overtakes; an abort in the queue
  wakes whoever it held up.
* *Coordinator and SRT manager*: a command runs to its end under its own policy;
  after an operation the runtime is in its base configuration, wiped or faulted;
  a fault turns away whoever it makes hopeless and is cleared only by an
  activation someone still waits for.
* *Session, runtime and wiring*: depth, snapshots, ceilings and Engine turns
  count the same nesting; a child whose scope could not be resolved gets no
  authority from above; what is published of the sandbox is true and current;
  every handler ends.
* *Network and delegation*: what is dialled is allowed to the command that
  asked, while it runs; a child gets what every ancestor allows and nothing else.
* *Reviews*: a Delta leaves out only what an earlier prompt had before it; the trunk has one writer;
  a verdict is one the whole reply supports, with the tools closed behind it.
* *Worker*: no call hangs; a close that reports nothing has nothing to report.
* *Classification*: within its caps, and where its text is read, no spelling,
  wrapper or composition of a command buys a lighter verdict; a line is read by the parser in force.
* *Fold*: every row shows the state of its step, and nothing vanishes.

`PROJECT.json` lists, under "hazards", the places where each of these can go
wrong, with the properties that watch them.

## 2. Modules

| module | models |
|---|---|
| `DenialCircuit` | the circuit as a record and its pure operations, used by `CircuitHistory` and `Engine` |
| `CircuitHistory` | the circuit alone, next to the full history of the results it was told |
| `Engine` | turns, calls, executors and the circuit; at its end the refinement mapping to `TurnContract` |
| `TurnContract` | abstract: what the Engine promises about turns and executors, with its inductive invariant |
| `LifecycleLease` | the reader/writer lease |
| `SrtCoordinator` | the coordinator's lock, faults and draining (operators, no behaviour of its own) |
| `SrtManager` | the manager's operations on the coordinator, and their behaviour |
| `PermissionSession` | the session's levels and barriers, and the stack of Engine turns of `pi-safety.ts` (operators) |
| `SandboxActivation` | the reload-scoped record and the activation of a config, await by await |
| `SafetyWiring` | the handlers of agents, turns, modes, trees and shutdown over all three: composes them |
| `NetworkPatterns`, `Delegation` | the language of network patterns; the chain of delegated turns |
| `MediatedNetwork` | executions, asks, lookups, reviews, tickets and dials, over `Delegation` |
| `GuardianProcess`, `GuardianWorker` | the worker process; its client, composed with it over pipes |
| `GuardianSession` | the log with its epochs, the windows of the prompts, the trunk and its leases (operators) |
| `AutoReview` | the reading of a reply, and reviews that overlap over the log and the trunk |
| `ShellSyntax`, `CommandSegments`, `GitInvocation`, `CommandRisk` | from the tree of a line to facts, to segments, to remotes, to the static verdict |
| `RiskPolicy` | the evaluation of a call, with the parser's life and the memo |
| `CommandMeaning` | what a line runs, said a second time from the meaning of the shell, and what the verdict promises |
| `StepGroups`, `StepGroupFold` | how a transcript falls into groups; the controller between the session's events and the host's rows |
| `MC*` | instances for TLC; `CircuitHistory`, `LifecycleLease` and `GuardianWorker` need no more than their `.cfg` |
| `*Proofs` | theorems |

Every action stands for one stretch of code between two awaits; a definition
that begins with the comment "Mutant" (or ends in one) is a plausible bug the
runs are tried on, used by no other definition.

### Engine

A call parked at an await is a value of its `pc`: `policy`, `scope`, `review`,
`verdict`, `running`, `settled`, `recheck`, `reconfirm` (the header of the module
says which await each one is). `verdict` and `settled` are the gaps between the
resolution of `runReview`'s or `executeAttempt`'s promise and its caller.

| code | in the model |
|---|---|
| `generation`, `activeState` | `generation`, `active` |
| `TurnState.snapshot` of each turn | `snapshot[g]`; a call reads its own turn's through `call[c].home`, as the closure does |
| `turnNetworkHosts`, `turnNetworkAll`, `turnWriteRoots` | `authority[g]` |
| `approvals` (fingerprints) | `approvals[action]`, a record of what the entry pins |
| `inFlightAttempts` and its controllers | calls with `pc = "running"`; `stop` is the terminal error |
| `reviewControllers` | calls with `pc = "review"` |
| `executeInvocationOwned` | `Submit`, `SubmitUnrestricted`, `PolicyAnswer`, `ScopeAnswer`, `ActOnDenial`, `ActOnApproval`, `Amend`, `Remember`, `Conclude` |
| `runReview` | `Review` (up to its await), `GuardianAnswer` (after it) |
| `executeAttempt` | `Launch`, `Settle` |
| `handleNativeActionFailure` | `Recover`, `RecheckAnswer`, `ReconfirmAnswer` |
| `authorizeInlineCapability`, `rejectInlineCapability` | `InlineRequest`, `InlineAnswer`, `InlineReject` |
| `beginTurn`, `close`, `invalidate`, `refreshTurnMode` | `BeginTurn`, `CloseTurn`, `Invalidate`, `RefreshMode` |

Two histories: `approved[g]` is what the verdicts of turn g approved, and a
call's `own` what the last verdict of its own was about (`Scope`): the scope it
asked, or after a native failure the root of the replay alone. A replay is judged
by `own`, which no other call and no earlier verdict can fill.

Abstractions, and why they keep the control:

* Capabilities are members of small sets. A write root covers only itself (no
  path prefixes), a host has no port; the whole network covers every host that
  is not denied. No base policy is a direct-transport one. The
  private-address gate and the refusals of a conflicting network policy behave
  like a denied capability or a `deny` plan, and are folded into them.
* `ready` stands for "the sandbox is ready and the snapshot has a policy", the
  one test the code makes of both.
* The reasons a review fails (timed out, invalid, threw) are one answer,
  `failed`; they are treated alike by the circuit and by the caller, except an
  abort, which is `cancelled`. A turn always has a Guardian.
* A synchronous refusal, a concurrent use of a call id and a yolo answer to an
  inline request change nothing and are no step. A submission goes through the
  active handle.
* An executor that reports a capability denial ends its call blocked whatever
  the policy then says; it is a `failed` result here.
* Setting and spending the grant of an approval happen in one stretch and
  always match; the grant is not kept as state. The session and configuration
  keys are left out: the circuit is replaced by every `beginTurn` anyway.
* A late inline callback of the first attempt of a replayed call cannot be told
  from one of the second: the code matches by call id, and so does the model.
  Answers to inline requests of a settled executor do nothing and are dropped.
* The read-only queries of the Engine have no state.

### Lifecycle lease

`Acquire`, `Abort` and `Release` are `acquire`, its `onAbort` listener and the
`finally` of the two `run` methods; each ends in `Drain`, as in the code. `Start`
is the moment the operation begins after its promise resolved. An abort after
the grant does not reach the lease (the listener is removed). Several waiters
that share a signal leave one after the other.

### SRT coordinator and manager

A client is one call. It is `granted` until its operation begins, at a stage of
`SrtManager` while the operation awaits, and `ending` between the operation's
settling and the release. `Cancel(S)` aborts the signals of a group at once:
queued members leave, a running one begins to drain. The drain timer may fire at
any moment of a drain. Deadline timers cannot fire in the gap between two
microtasks, while a caller's own signal can (`Cancellable`). Every
`markPoisoned` of the manager is in the last stretch of an operation and is
modelled there. `config` is what the process-wide runtime is configured with,
`basePolicy` the manager's record of it. Tickets of the connect guard appear only
as "the reset of the tickets failed" (`bad`); the child process is a stage that
ends; `askNetwork`, which mutates nothing of the manager, is in
`MediatedNetwork`.

### Session, runtime, activation and wiring

`PermissionSession` is pure: each method, of the session and of the runtime's
stack of turns, is an operator from record to record, under the method's name. A snapshot is known by the turn it
was minted for. `SandboxActivation` cuts `activateConfig` at its awaits (the
header lists them): `reload` is the record of `register-state.ts`, `backend` the
policy `SrtManager` would hold, and the lease is reduced to its exclusion with
any waiter let in first. A rollback reads the readiness it will restore before it
awaits the backend (`register.ts:872`): the activity keeps it in `was`. `SafetyWiring` has the handlers: process 0 is the host,
which awaits each handler before the next; each other process is one event of
the user. `Quiescent` says that no continuation can run: the event loop takes an
event, or an answer from outside, only then. `agents` is what the host believes
is running, with which the levels of session, ceilings and Engine are compared;
`lost` and `implicit` are history variables that name the two situations in
which an agent has no level of its own.

### Delegation and the mediated network

A host is the sequence of its labels, the top-level one first, so that a dotted
suffix is a prefix; a path is the sequence of its components. `levels` is the
chain of turns with their policies and ceilings. `Admit` is the gate a call of a
subagent passes (`register.ts:1458-1470`); `Spawn`, at any later moment and under
whatever turn is on top then, is `mintNestedPermissionTurnOwned` with
`resolveChildEnvelope`. `admitted` counts the calls between the two; a level
remembers in `from`, a history, how deep its call was made. A level without
policy is the sentinel of a scope that could not be resolved. In `MediatedNetwork`
an execution, an ask, a lookup (shared by key), a ticket and a connection have
each their own life: any of them may outlive the one it came from, answer late,
or be answered for another. Time is only "a ticket expired", "a lookup timed
out", "a dial timed out".

### Guardian worker

`GuardianProcess` is `guardian-worker.mjs`: `worker.at` is the await its pump is
in, `worker.down` how far `shutdown()` has come. `GuardianWorker` is the client
with two pipes of frames in order between them; each of `Terminate`, `CloseFrom`,
`CloseEnd` is the method of that name, at its awaits. The worker may crash, hang
or answer at any step; a signal to its group kills it at once and may come before
what it last wrote is read. `heardCleanup` is a history variable.

### Reviews

`GuardianSession` keeps the entries of the log as identities and a turn of the
trunk as its size, the review it came from and the entries it offered;
`AutoReview` keeps the members of a reply's object in order. A prompt spans what
its cursor leaves of the log and offers a window of it: its newest entry and any
others up to `MaxRecent` and the first of the user, which stands for every way the
budgets of characters may fall (`Windows`). A review is a process (`at`) that opens a lease, asks,
uses tools, waits to retry, closes and settles; `Deadline` and `Abort` may come
at any await. `spanned` (in a lease and in the trunk), `spans`, `left` and the
turns' `by` are history. What a window offers (`offers`) is kept to show what the
cursor passes over; the properties speak of what a prompt spans.

### Commands

A line of shell text is its tree and a word is what the classifier can tell of
it (a dash, an assignment, a path, the shell text it spells), so quoting and
offsets are left out; `ShellSyntax` and the modules over it follow the passes of
the code, each clause in its order. Tables are cut to the members the corpus
tells apart. `RiskPolicy` adds the three awaits of `evaluateRiskRequest`, between
which other evaluations fill the memo and may break the parser. Each parse of a
stretch may throw, at the top or one level down, unless the memo has the line: those
of the line (`Begin`) and those of the verdict, the text of a trap and the source
of a wrapper (`Classify`). `Reader` threads the memo and the generation through
them, and `deaf` remembers that a trap text was left unread. The second look at
danger that words the report (`risk.ts:337-339`) changes no verdict and is left
out. `CommandMeaning`
reads the same trees a second time, from what a shell does, and states what the
classifier owes that reading.

### Fold

The host is external: it mounts a row for each call, draws rows again some time
after their `invalidate`, and passes its own expansion with a draw. `dirty` are
the rows it still has to draw.

## 3. Runs

| run | instance | what it shows |
|---|---|---|
| `circuit` | thresholds 3 in a row or 4 of the last 5, histories of up to 9 results | `CircuitTellsHistory`: nothing is lost or counted twice when the window wraps; the gate is open iff a threshold was met in the present run |
| `engine_turns` | two calls, an edit (a file and a host) or an amendment to the whole network each, two turns | `DeadAttemptsStopped`, `AuthorityReviewed`, `RunsReviewed`, `ToldAttemptsEnd`; `DenialsBounded`: parallel reviews pass the denial threshold by at most the other calls in flight; `ImplementsContract`: the Engine refines `TurnContract` |
| `engine_modes` | two edits whose native failure yields a recovery root, one turn switching between two base policies (one denies that root) and yolo, fair | `RememberedIsLive`, `ReplaysOnceReviewed`, and `EndedCallsReturn` (liveness) |
| `lease` | three readers, two writers, fair | `WritersAlone`, `HeadsWaitForConflicts` (whoever is at the head waits for a holder it conflicts with, after an abort too), `NobodyOvertakes`, `WaitersServed` (liveness) |
| `srt` | two executions under different policies, an activation, a reset, a wait | `PoliciesNeverLeak`, `FaultsPersist`, and `QueueMovesOn` (liveness): a drain ends or faults, and a waiter is let in, turned away or cancelled if operations settle |
| `wiring` | two configs, one without a sandbox; four scenarios: three nested agents that may die, two agents beside two events of the user, and two events with awaits that fail, after a first session start and before it, with the shell parser still loading | `LevelsInStep`, `PublishedIsTrue`, `ClosedScopeStaysClosed`, `SupersededNeverPublishes`, and `HandlersEnd` (liveness) |
| `shutdown` | one agent, one tool call that waits for the shell parser, one event of the user | `ShutdownTearsDown` is violated: see section 5 |
| `network` | three delegation configurations with three levels, one call in flight per turn, two executions, one ask and one connection at a time, two targets, two tickets; four more with the chain alone: four levels, two calls in flight per turn, agents that start at any later moment | `TicketCountExact`, `DialledIsAllowed`, `GrantsBelongToTheRunning`, `RequestsEnd` (liveness), and `EnvelopesHold`: levels narrow exactly, and depth is exceeded by late starters only |
| `guardian` | two requests over one worker | `CleanCloseIsEarned`, and `CallsEnd` (liveness) |
| `review` | two reviews under two identities, five replies, a log capped at two entries, a trunk capped at one turn; three histories: a log that outgrows its cap, trunks replaced and dropped under their reviews, reviews that retry and use tools; windows of one entry beside the newest | `NothingSkipped`, `TrunkHeldByOne`, `VerdictsAreEarned`, and `ReviewsStopAndEnd` (its second half is liveness) |
| `commands` | a corpus of lines (wrappers two deep, one of the two plain; nested shells, traps, substitutions, lists, redirections, git; lines at each bound and one over it; lines with text no parser reads) and calls of the other tools under every set of rules; a parser that is missing, comes up or breaks, in the parses of the line or of the verdict | `NoVisibleRemovalAllowed`, `CompositionNeverLightens`, `AllowOverridesNothing`, `ReadingIsCurrent` |
| `fold` | three tools, two of one kind; an empty session and a resumed one; up to four events of the host, three of the user (expansion opened, closed and opened again, clicks before and after) | `RowsAreFresh`, `NothingVanishes`, `GroupsFollowTheHost` |

Bounds, and why they are enough:

* `MaxGeneration` (Engine) bounds the turns begun or invalidated: two
  (`engine_turns`) are enough for a call of a closed turn to meet the next one,
  and a third adds no new pair; one turn that ends and is not replaced is what
  a call must return from (`engine_modes`). Inline requests
  are in `engine_turns` alone and external tools in no instance; the theorems
  cover both. Two calls give every pair of interleaved calls; the thresholds of the
  circuit are 1 in the Engine runs so that two calls pass them. `MaxResults`
  bounds the histories of the circuit, long enough for the window to wrap and a
  run to trip twice over.
* The lease and the SRT model are finite without bounds: clients come back.
* `Scenarios` (wiring) bounds what a behaviour may spend: agents at once, turn
  ids, events, failing awaits. `MaxNestedTurnDepth` is 2 instead of 32, so that
  three agents pass it.
* `Budget` (network) says, by configuration, how many turns may be open, how many
  calls of one turn may wait for their agents, and how many executions begin. The
  chain alone: two calls of one turn are the fewest of which the second starts
  under the first, and four levels leave room for two late starters under a depth
  of one. With executions: a grandchild is the first level with two ancestors to
  be narrowed by, and one call at a time is enough to build that chain.
* `MaxTickets` and executions (network): two tickets pass the cap; the second
  execution is the one that could use what the first left. The names have
  a site with a subdomain, localhost and a raw private address.
* Two requests (guardian): one that runs and one that waits. Nothing else is
  bounded.
* `MaxRaw`, `MaxRecent`, `MaxPairs`, `MaxSize` and `Histories` (review): the
  smallest caps at which the log and the trunk are trimmed under a review at work
  and a window leaves an entry out; a turn of size
  4 fits no trunk, one of size 1 does. Two reviews are an owner and a fork.
* `MaxSegmentWords`, `MaxSubstitutionBodies`, `MaxSubstitutionNesting` and
  `MaxWrapperDepth` (commands) are the code's bounds (1024, 9, 8, 8) made small
  enough for the corpus to reach and pass them: the longest other line has fewer
  than the 12 words of the first. `MemoCapacity` 1 makes any other line evict;
  `MaxGeneration` 3 leaves two parses to throw after the parser came up.
* `Sessions` (fold): a new session sees four events of the host, one resumed
  after two calls sees three, with three steps of the user in each; the resumed
  one is also seen for four events alone. Two steps make a group, a third call or
  a text settles it, and one more event comes after. Three user steps open, close
  and reopen the host's expansion, or put a click between two changes of it.

Symmetry is used for the calls of the Engine in the run that checks no liveness.
Deadlock is checked where the system cannot stop (circuit, lease, srt, network);
elsewhere a bound of the model, or a review, a worker or a session that is over,
ends a behaviour.

Fairness is what the code's scheduling justifies:

* `engine_modes`: the policy and the reviewer answer and promises resolve (the
  policy is expected to answer, reviews have a deadline), but an executor is only
  assumed to settle once its signal is aborted; that is what `EndedCallsReturn`
  is about.
* `lease`: operations that were granted start and settle.
* `srt`: nothing of the operations; the drain timer fires if it stays set.
  `QueueMovesOn` states its own premise where it needs operations to settle.
* `wiring`: continuations that may run do, and each await of the extension
  settles if it may again and again (strong fairness: between them the loop takes
  other events). Nothing of the host or of the user.
* `network`: lookups time out, reviews end, dials time out.
* `guardian`: the client's own timers, nothing of the worker or its pipes.
* `review`: the deadline fires and the loop goes on; nothing of the provider, the
  tools or the key store.

Every property of a passing run is paired with at least one mutant of the modelled code that its
run refutes: a dropped check, a missing wake-up, a swapped turn, an early
release.

## 4. Proofs

| module | theorem | argument |
|---|---|---|
| `EngineProofs` | `TypeCorrect` | `Typed` = `TypeOK` and every call in flight belongs to a turn that was begun; `TypeOK` alone is not inductive, as a call reads its turn's snapshot |
| | `DeadAttemptsAlwaysStopped` | `Typed` with the property: entering an executor asks whether the turn is current, and each of the three ways to end a turn stops every running call |
| | `ToldAttemptsAlwaysEnd` | only a call inside an executor has been told (`ToldWhereHeard`), and every step of such a call keeps what it was told or returns it |
| | `RunsAlwaysReviewed`, `AuthorityAlwaysReviewed`, `RememberedIsAlwaysLive` | one invariant, `Traced`: from its verdict on, what a call's review asked for is approved in its own turn, and what it runs under, adds or leaves behind is within that. None of the three is inductive, since each speaks only of the last place of a trail |
| | `ReplaysAlwaysOnce` | per step, from a part of `Traced` (`ReviewTrail`): a call that is about to replay has the root in its `own`, what verdicts given to that very call have approved, and there only the approving verdict of the retry's review puts it. The retry cannot lead to another |
| | `DenialsAlwaysBounded` | `Metered`: a closed circuit is short of both thresholds, and each call that may still end in a denial began its review while the circuit was closed. For any finite set of calls |
| | `EngineImplementsContract` | initial states map to initial states, and every step to the step of the contract it stands for, or to a stutter |
| | `ContractKept` | of `TurnContract` by itself: the contract keeps executors and authority inside the live turn; its inductive invariant adds that whoever is told is inside |
| `CircuitHistoryProofs` | `CircuitAlwaysTellsHistory` | `Told`: the window is the tail of the history, the run is known by its two ends (that it is all denials, and that none stands before it), and the gate is open iff a threshold was met within it. Stated by ends, no count of a sequence needs induction: one lemma says how a count moves when the window does |
| `LifecycleLeaseProofs` | `WritersAlwaysAlone` | `LeaseInv`: the queue holds exactly the queued clients, once each, and the two counters count exactly the holders; `WritersAlone` alone is not inductive, since a counter that forgot a reader would let a writer in |
| | `HeadsAlwaysWaitForConflicts` | from `LeaseInv` and the property itself; lemma `DrainReachesConflict`: a drain, after an acquire, a release or an abort, stops at a head only for a holder it conflicts with |
| | `NobodyEverOvertakes` | from `LeaseInv`: what `Drain` grants is a prefix of the queue |
| `SrtManagerProofs` | `PoliciesNeverEverLeak`, `FaultsAlwaysPersist` | `OneHolder` (one client at most past the grant, and the lease bit says so, through cancellations and drains) with what the runtime is configured with at each stage of that one operation |
| `AutoReviewProofs` | `TypeCorrect`, `TrunkIsHeldByOne` | `OneWriter`: `TypeOK`, a lease exactly while a review is open, the leases of a trunk were given by it, and the property |
| | `DeltasSkipNothing` | `Told`: what a snapshot holds was appended, a cursor claims no more than what committed prompts of its trunk spanned, and a lease leaves out only that. Positions of the log lose their meaning when it is trimmed: the epoch carries the argument. That the windows of those prompts had room for it all is not claimed, and is not so |
| | `VerdictsAreAlwaysEarned` | `VerdictsKept`: every review is `Sound` (tools open from the lease to the close, no ending before the close, no outcome before the end, an approval only of a reply that parses as one) and the trunk's turns are those of reviews with a verdict, each once. A separate lemma says that an unambiguous reply says each thing once |
| | `DeadReviewsAlwaysStop` | per step, from `VerdictsKept`. It is the action half of the property `ReviewsStopAndEnd` |
| `MediatedNetworkProofs` | `EnvelopesAlwaysHold` | lemmas on the pattern language, one for each operator: `SharedRootsExact`, `MetExact` (what two patterns share is matched by their meet and nothing else, ports and wildcards included), `IntersectPatternsExact`; then `ChildNarrows` for one level, `SpawnFits` and `ReturnFits` for the chain, and `CallsFit`: a call that waits for its agent was let through by a turn with depth left, so that a chain outgrows the depth by as many agents as started late |
| | `DialledIsAlwaysAllowed`, `GrantsAlwaysBelong` | `Inv`: the chain fits its envelopes, an execution fits the chain it was submitted under, an ask, a ticket and a connection fit the execution they are of; an ask that outlived its execution leaves no ticket |
| | `CountAlwaysExact` | `Counted`: the tickets held are finitely many places in the queues, one more after an issue, as many less after a consume as it takes from its queue, none after a reset; a ticket that expires keeps its place |
| `GuardianWorkerProofs` | `ProposalsFollowTheReset` | `Sound`: the pipes carry frames of the protocol, each execute frame is sent once and answers for a request that is on its way or active, never both, the queue holds active requests once each, and a worker past its shutdown has nothing queued and has cancelled what it is at. The property alone is not inductive: a second frame for an active request would leave the sandbox up with nobody to take it down |
| | `CleanClosesAreEarned` | `Inv` adds what the client may rely on: the end of the worker is seen only of one that is gone (`Observed`), a proposal on its way or acknowledged means that the reset is over (`Proposals`), a teardown without an exit has its deadline or has latched that it failed (`TornDown`). Most steps of the client are `Moves`, composed of its helpers one lemma each; the closes are taken one by one |
| `SafetyWiringProofs` | `TypeCorrect` | `Led`: `TypeOK`; each activity is `Sound` (what it has loaded, its target and its generation fit the place it is at and its operation); the lease is held exactly by the one at a place under it; and tasks ahead of the user's events are at rest. `TypeOK` alone is not inductive: the place an activity goes on to reads what it has loaded |
| | `TruthPublished` | `SandboxInv`: with `ReadyIsTruthful`, nothing is published ready while a shutdown resets the backend, and after it whoever is about to reach the backend is current and what is up is published. A rollback publishes what it captured before its await (`was`), and calls ready only what its own activation has brought up. One lemma each for what an activation, a shutdown and a handler do to backend and record |
| | `OnlyTheCurrentPublishes` | per step, from `Led`: each of the few steps that publish has just compared generations, or is the shutdown |
| | `LevelsAligned` | `LevelsInv`, below |
| | `ClosedScopes` | from `LevelsInv`: a blocked agent of this turn stands on a sentinel, sentinels are the innermost levels, and `CurrentSnapshot` reads the innermost |

The argument of `LevelsInv` is the longest. `LevelsInStep` compares lengths and
single levels and is not inductive: what an end or a reset uncovers was parked
long before. The invariant says what is parked. `Aligned`: the levels of the
session are governed down to some k and sentinels from there on; each governed
level is `Under` every one outside it (same mode and readiness, a base policy
within); the Engine's live turn is under level k and each parked one under the
level it was parked at. `Bounded` and `Ends`: no agent carries an id ahead of the
counters, and only the innermost may have ended, which is when a settle is
awaited. `Balanced`: of the agents that stand, the first b are of turns that are
over, and each of the others has its own level of the present turn, counted from
the level of a turn begun without an agent; it is claimed only while no end was
lost (`lost`), as the remarks explain. A step of a handler is then shown to be
one of a few: it moves no level (`Steady`), resets them (`Resets`), opens a turn,
nests one, refreshes the modes of all, ends one, or settles one; each kind has a
lemma for each part.

Each invariant was checked by TLC on the instance of its run before it was
proved.

Assumptions are the named `ASSUME`s of the modules, which TLC evaluates in every
run: some request and snapshot exist and are well formed (`EngineAssumption`);
thresholds are positive (`CircuitAssumption`); readers are finitely many and no
client is both reader and writer (`LeaseAssumption`); each client has a kind and
the stages of an operation are none of the coordinator's own places
(`CoordinatorAssumption`, `ManagerAssumption`); the constants of patterns,
delegation and network have the types their code has (`HostAssumption`,
`DelegationAssumption`, `NetworkAssumption`); caps are numbers and the members of
a reply are a sequence (`SessionAssumption`, `ReviewAssumption`); the ids of a bootstrap and of no request are no request's
(`IdAssumption`); the constants of the wiring have their types
(`DepthAssumption`, `ConfigAssumption`, `WiringAssumption`), and what the code
writes `undefined` is none of its values (`NullAssumption`). `DenialsAlwaysBounded` assumes in addition that the set of
calls is finite, without which the bound has no meaning. None restricts a size.

Only model-checked:

* every liveness property (`EndedCallsReturn`, `WaitersServed`, `QueueMovesOn`,
  `HandlersEnd`, `RequestsEnd`, `CallsEnd`, the second half of
  `ReviewsStopAndEnd`): the prover does not handle fairness and enabledness;
* the command and fold models: their recursion over trees and transcripts is
  declared RECURSIVE, which the prover's backends do not read.

In the modules under proof the branches of a `CASE` exclude one another or are
written with `IF`, since the logic leaves open which of two open branches is
taken. In the modules that only TLC reads (the command models) the branches are
tried in their order, as the passes of the code are.

## 5. Remarks on the code

Seen while modelling. Where a comment and the code differ, the model follows the
code. The first is shown by a run; none of the others violates a property above,
and where one limits what a property may claim, its definition says so.

* "Fail closed: the state stays pending so any racing activation refuses"
  (`register.ts:2189-2190`, in the handler of `session_shutdown`): nothing in an
  unforced activation refuses for a sandbox that is pending (`928-957`); what
  stops a racing one is its generation. `preparePermissionExecution` takes that
  generation at `1203`, after it has awaited the shell parser (`1194`) and a mode
  that was pending (`1201`). A tool call that waits there while the shutdown
  resets the sandbox carries the generation of after it, and brings the sandbox
  up again: the run `shutdown` finds it published ready in the end.
  `PublishedIsTrue` holds of it all the same: what is up after a shutdown is what
  is published.

Engine and circuit:

* "Turn-lease widening voids remembered approvals" (`engine.ts:1611`): a call
  reviewed before an amendment and still running when it completes writes its
  approval after the clear. "The entry pins ... the policy it was approved under"
  (`125-127`): the fingerprint is taken when the entry is written, and
  `refreshTurnMode` may have replaced the policy since the verdict. A call that
  reached its review while the turn was in yolo is approved without the Guardian,
  and remembered if the turn is back in auto when it ends. All three come from
  `writeApprovalCache` being called after the execution; `RememberedIsLive` is
  what holds of it.
* A denial is recorded in the continuation of `runReview`'s promise (`1597`,
  `1702`). When `beginTurn` runs in the microtasks between, it counts in the new
  turn's circuit, although `denial-circuit.ts:16-19` says that none leaks across.
* The lease a native failure is judged by is recomputed after the attempt (`1747`,
  `1759`), while `RuntimeAttemptContext` calls it "the immutable effective lease
  observed by that attempt" (`176`).

Wiring, session and delegation:

* "The ceiling is read at execution time ... whichever turn level submitted this
  action governs it" (`register.ts:1682-1686`): what is read is the ceiling of
  the level on top at that moment.
* "A rollback still runs for obsolete generations" (`839-843`): the handler of
  the failure begins with the check that the activation is current, and throws
  when it is not (`867`).
* "The child may only narrow it" (`delegation.ts:14`, `register.ts:530`): a
  refresh from yolo to auto gives each parked snapshot the base policy of the
  configuration.
* "The next outer beginTurn/resetTurn zeroes it, so the blast radius is one outer
  turn; saturation keeps finishNestedTurn accounting exact"
  (`permission-session.ts:58-63`): an agent past the depth limit opens no level,
  and its end closes one; an `agent_start` with the phase active nests whatever
  leaked before it (`register.ts:2215-2231`), so the depth is zeroed only by a
  turn that begins from idle. `LevelsInStep` speaks of behaviours without either
  (`lost`).
* After `/permissions` in a nested agent the child's Engine turn stays the live
  one for the parent until the next turn.
* "Max nested subagent levels below the outer turn" (`config.ts:79`): the gate
  reads the depth left when a subagent is called (`register.ts:1458-1470`), its
  level is minted when the agent starts, under whatever turn is on top by then
  (`544-680`), and only clamps the depth at zero (`delegation.ts:292`). Of two
  calls let through by one turn, the second agent may start under the first:
  `EnvelopesHold` counts those that do (`Late`).
* `finishPermissionTurn` (`register.ts:719-740`) never gives `agent_settled` a
  turn to close, so that `settleBetween` (`2294-2296`) does not run for a settled
  event without an end: the phase stays "between".
* The remaining depth counts from the outer level when a level has no ceiling
  (`delegation-policy.ts:48`, whose comment calls that level the only one); the
  sentinel of an unresolved scope is another. With delegation disabled, or in
  yolo, `maxDepth` is not counted down.
* A rollback may restore a base policy that was never published. It puts back the
  state it read before its await (`register.ts:872`): what an activation for yolo,
  which takes no lease, published meanwhile is overwritten.

Network:

* The cap of the connect guard counts tickets that have expired until someone
  asks for their target (`connect-guard.ts:335`).

Reviews and worker:

* "A deadline is failure evidence, never close evidence"
  (`guardian-worker-client.ts:802-803`): the deadline of an emergency close ends
  it like the worker's close would, cleanly if every failure was reported, also
  when the worker has exited and its pipes close later.
* After an error frame with a second request queued, the answer to that request
  is "unknown request id", and the worker is killed before it has reset its
  sandbox, although a failure by frame alone "still prefers cooperative
  shutdown" (`877-879`). A shutdown that arrives while a request initializes the
  sandbox proposes to retire with it up (`guardian-worker.mjs:336-338`);
  `ProposesReset` (in `GuardianWorkerProofs`) therefore speaks of workers without
  a request.
* The bootstrap's answer sets the phase to `workload` whatever it was
  (`guardian-worker-client.ts:594-596`). A close that came before it has its
  retirement undone: the worker's proposal is then refused as a protocol error and
  the worker is killed, with a failure latched.
* A review that was aborted and whose tools then fail to close is reported as
  failed, not as cancelled. An abort is not heard while the model and its key are
  resolved.
* "Prior transcript lives in the reviewer session history"
  (`auto-review-request.ts:169-172`): the turns of the trunk are trimmed
  (`guardian-session.ts:91-111`) while the cursor stays, so a Delta may be sent to
  a history that no longer has the entries before it. And the cursor moves to the
  end of the raw log (`guardian-session.ts:213`) while the prompt carries a window
  of it (`guardian-transcript.ts:51-82`): what was crowded out of one prompt is in
  no later Delta either. `NothingSkipped` says that an entry left out stood before
  a committed prompt of the trunk, which is what holds.

Commands:

* "Sole-interpreter: AST at every depth ... abstention is fail-closed (review)"
  (`permissions/shell-segment.ts:964-965`): the text of a trap is parsed when the
  verdict is given (`permissions/risk.ts:198`), and only asked whether a segment of
  it is dangerous. Where that parse throws or abstains, its one segment names no
  program and answers no; the check for unread text (`400-409`) looks at the
  segments of the line itself. The line is allowed. `NoVisibleRemovalAllowed` has
  this as its exception (`deaf`).
* "Reaching the cap changes nothing a consumer can see - it only stops the list
  growing" (`permissions/shell-ast.ts:216-217`): a body past the cap makes no
  segment (`1021`, `permissions/shell-segment.ts:1046-1049`), and
  `substitution_unproven` is a cause nobody reads. `echo $(ls) $(ls) ... $(rm -rf
  x)`, with the removal past the cap, is allowed where the removal alone is
  reviewed.
* "Above this the fold refuses the argv as untrustworthy"
  (`permissions/shell-ast.ts:270`): the segment is dropped (`764`), and only a line
  left without any segment is reviewed for it (`permissions/risk.ts:313-315`); a
  list is judged by the rest. `CompositionNeverLightens` excepts what the two caps
  leave out.
* The carve-out for `rm` inside the working directory is judged against the
  directory of the request, also behind a `cd`.
* A broken parser stays installed in the slot, as a wrapper that abstains
  (`tree-sitter/shell-backend.ts:236-240, 327-331`).
* `shellStateCrossesSegments` (`permissions/shell-segment.ts:1127`) has no caller.

Fold:

* A segment of thoughts without any tool is shown nowhere while the host's own
  thinking lines are off.
* "Anything still on screen re-registers immediately"
  (`src/packages/shared-tool-presentation/src/output-padding.ts:90-101`): a row
  that is on screen and not drawn again is evicted by the 201st and not told.

## 6. Not modelled, and the plan

Next, in this order:

1. The status reporter of `src/extensions/pig-herdr` (its sealed queue and the
   sequence numbers of its frames), whose release at shutdown overtakes a frame
   being sent (`herdr.go:156-185`).
2. `request_permissions` with the registry of amendments, the Guardian's tools,
   the materialization of a sandbox policy.

Hazards known and not in the list of `PROJECT.json`, for its places are taken by
those above: the policy read at `engine.ts:1798`; a second barrier over a refused
one (`permission-session.ts:264`); a verdict heard in one turn and recorded by a
continuation in the next (`engine.ts:1597`); the reset of the guard under open sockets
(`connect-guard.ts:353`); duplicate members of a reply (`auto-review-request.ts:294`,
which `VerdictsAreEarned` covers); and those of the remarks above.

Left out for good: the grammar of the shell, rendering and layout, prompt and
transcript wording, file and socket I/O, the parsing of configuration. The death
of the worker's parent (the end of its stdin) is left out of `GuardianProcess`:
nobody is left to observe what it does. A `sessions.open` that throws after it
took the trunk cannot happen and is not modelled.
