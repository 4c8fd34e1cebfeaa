----------------------------- MODULE SafetyWiring -----------------------------
(***************************************************************************)
(* The handlers by which pi-safety's extension (register.ts) moves the     *)
(* permission session, the Engine turns and the sandbox together: the      *)
(* host's agents, nested last in first out, with their steps and tools,    *)
(* and the user's events, each of which may arrive at any await of any     *)
(* other.                                                                  *)
(*                                                                         *)
(* Process 0 is the host: it awaits each handler before the next, and its  *)
(* tools are sequential. Every other process is one event of the user: a   *)
(* mode cycle, /permissions, a session start, a tree switch, a shutdown.   *)
(* Not modelled: what the Engine does in a turn, the breaker's counters,   *)
(* transcript and reviewer, status and notices.                            *)
(***************************************************************************)
EXTENDS SandboxActivation

CONSTANTS
  Delegated,     \* config.delegation.writeRoots; {} inherits the parent's
  Scenarios      \* bounds, each what a behaviour may spend: agents at once,
                 \* turn ids, events of the user, awaits that fail; whether an
                 \* agent may die without its agent_end; what an earlier
                 \* session_start activated (NoConfig: none did); and whether
                 \* the shell parser it prewarms is still loading

ASSUME WiringAssumption ==
  /\ Procs \subseteq Nat /\ 0 \in Procs
  /\ Delegated \subseteq Roots
  /\ \A s \in Scenarios :
       /\ s.agents \in Nat /\ s.turns \in Nat /\ s.events \in Nat /\ s.faults \in Nat
       /\ s.leaks \in BOOLEAN /\ s.cold \in BOOLEAN
       /\ s.first \in Configs \cup {NoConfig}

VARIABLES
  agents,     \* the agents running, outermost first
  mutations,  \* the queue of mode mutations, the running one first
  pending,    \* turnState's flag: a mode asked for is not yet applied
  budget,     \* what the scenario leaves to spend
  closed,     \* the shutdown has begun; the host sends no more events
  lost,       \* history: an agent of this turn runs without a level
  implicit    \* history: the last turn that began without an agent

hostVars == <<agents, mutations, pending, budget, closed, lost, implicit>>
vars == <<activationVars, hostVars>>

Host == 0
Tasks == Procs \ {Host}
Starting(op) == [Resting EXCEPT !.op = op]

(* Before the first session_start, or after one that went well.            *)
Started(c, mode) ==
  IF c = NoConfig THEN NewReload
  ELSE [Commit(NewReload, c, BaseOf[c], IF BaseOf[c] = NoBase THEN "disabled" ELSE "ready")
          EXCEPT !.mode = mode]

Init ==
  /\ session = NewSession /\ permissions = NewRuntime
  /\ \E s \in Scenarios :
       /\ reload = Started(s.first, "auto") /\ faults = s.faults
       /\ budget = [agents |-> s.agents, turns |-> s.turns, events |-> s.events,
                    leaks |-> s.leaks, cold |-> s.cold]
  /\ backend = InstalledBase /\ holder = NoProc
  /\ run = [p \in Procs |-> Resting] /\ torn = FALSE
  /\ agents = <<>> /\ mutations = <<>> /\ pending = FALSE
  /\ closed = FALSE
  /\ lost = FALSE /\ implicit = NoTurn
-------------------------------------------------------------------------------
(* An agent is the turn in which its start was counted, if it was, and     *)
(* whether it was given a scope; `ended` between its end and its settling. *)
Agent(s, blocked) ==
  [turn |-> s.turn, gen |-> s.generation, blocked |-> blocked, ended |-> FALSE]
Uncounted == Agent(NewSession, FALSE)
HostFree == run[Host] = Resting /\ ~closed
TopRuns == agents # <<>> /\ ~Last(agents).ended

HostGoes(a) == run' = [run EXCEPT ![Host] = a]
HostRests == HostGoes(Resting)

(* resetBranchPermissionContext.                                           *)
BranchReset(s) == ResetTurn(CancelInFlightBarrier(BumpGeneration(s)))

(* captureExecutionSnapshot and beginPermissionTurn.                       *)
Captured(s, t) ==
  CASE s.snapshot # NoSnapshot -> s.snapshot
    [] s.snapshot = NoSnapshot /\ reload.record # NoRecord /\ reload.mode # NoMode ->
         [turn |-> t, mode |-> reload.mode, config |-> reload.record.config,
          base |-> reload.record.base, ready |-> reload.sandbox = "ready"]
    [] OTHER -> NoSnapshot

MintRoot(s, t) ==
  LET snap == Captured(s, t)
  IN /\ session' = SetSnapshot(s, snap)
     /\ permissions' = IF snap = NoSnapshot THEN permissions
                       ELSE BeginRootTurn(permissions, snap)

(* agent_start on an idle session: the turn is open before the handler     *)
(* waits, first for a mode transition that settles, then for a sandbox.    *)
StartTurn(s, t) ==
  /\ pending' = FALSE
  /\ IF reload.mode = NoMode THEN MintRoot(s, t) /\ HostRests
     ELSE /\ HostGoes(Activating([Starting("start") EXCEPT !.turn = t],
                                 s.generation, FALSE, reload.mode, NoConfig))
          /\ session' = s /\ UNCHANGED permissions

OuterStart(s) ==
  LET t == s.turns + 1
      begun == BeginTurn(AllocateTurnId(s), t)
  IN /\ agents' = Append(agents, Agent(begun, FALSE))
     /\ lost' = (lost /\ agents # <<>>)
     /\ IF s.inFlight = NoBarrier THEN StartTurn(begun, t)
        ELSE /\ HostGoes([Starting("start") EXCEPT !.at = "barrier", !.turn = t,
                                                   !.barrier = s.inFlight])
             /\ session' = begun /\ UNCHANGED <<permissions, pending>>

BarrierEnds ==
  /\ run[Host].at = "barrier"
  /\ LET b == run[Host].barrier
         t == run[Host].turn
         s == ClearInFlightIfCurrent(session, b)
     IN /\ session.barriers[b] # "open"
        /\ IF session.barriers[b] = "ready" /\ s.phase = "active" /\ s.turn = t
           THEN StartTurn(s, t)
           ELSE HostRests /\ session' = s /\ UNCHANGED <<permissions, pending>>
  /\ UNCHANGED <<reload, backend, holder, torn, faults,
                 agents, mutations, budget, closed, lost, implicit>>

(* Whatever the activation came to, the snapshot tells what is live.       *)
StartAnswered ==
  /\ run[Host].op = "start" /\ run[Host].at = "answered"
  /\ HostRests
  /\ IF Current(Host) /\ session.phase = "active" /\ session.turn = run[Host].turn
     THEN MintRoot(session, run[Host].turn)
     ELSE UNCHANGED <<session, permissions>>
  /\ UNCHANGED <<reload, backend, holder, torn, faults, hostVars>>
-------------------------------------------------------------------------------
(* Delegation: a nested agent gets an Engine turn of its own, under the    *)
(* parent's base narrowed to the configured roots.                         *)
Narrowed(base) == IF Delegated = {} THEN base ELSE base \cap Delegated

EnvelopeOf(snap) == IF snap.base = NoBase THEN {} ELSE snap.base

ChildOf(parent, child) ==
  [parent EXCEPT !.turn = child,
     !.base = IF parent.mode = "yolo" \/ @ = NoBase THEN @ ELSE Narrowed(@)]

TopIs(agent) == [agents EXCEPT ![Len(agents)] = agent]

(* How a nested start ends, in a session s: with a level of its own, with  *)
(* a sentinel, or with none because the nesting is saturated or the parent *)
(* is no longer current; stack is the host's agents, this one included.    *)
OpenChild(s, stack, snap) ==
  /\ session' = BeginNestedTurn(s, snap, EnvelopeOf(snap))
  /\ permissions' = IF MayNest(s) THEN OpenChildTurn(permissions, snap) ELSE permissions
  /\ agents' = IF MayNest(s) THEN [stack EXCEPT ![Len(stack)] = Agent(s, FALSE)]
               ELSE stack
  /\ lost' = (lost \/ ~MayNest(s))

BlockChild(s, stack) ==
  /\ session' = BeginNestedTurn(s, NoSnapshot, NoEnvelope)
  /\ agents' = IF MayNest(s) THEN [stack EXCEPT ![Len(stack)] = Agent(s, TRUE)]
               ELSE stack
  /\ lost' = (lost \/ ~MayNest(s))
  /\ UNCHANGED permissions

ShareParent(s, stack) ==
  /\ session' = s /\ agents' = stack
  /\ lost' = (lost \/ s.phase = "active")
  /\ UNCHANGED permissions

MustMaterialize(snap) == snap.mode # "yolo" /\ snap.base # NoBase
MustDrain(snap) ==
  MustMaterialize(snap) /\ snap.config \in Unmediated /\ snap.base = BaseOf[snap.config]

ParentIs(s, t) == CurrentSnapshot(s) # NoSnapshot /\ CurrentSnapshot(s).turn = t

Minting(s, parent) ==
  [Starting("nest") EXCEPT !.at = "materializing", !.gen = s.generation,
                           !.parent = parent.turn, !.turn = s.turns + 1]

(* agent_start in an active turn.                                          *)
NestedStart(s) ==
  LET parent == IF s.depth > 1 THEN CurrentSnapshot(s) ELSE AnySnapshot(s)
      stack == Append(agents, Uncounted)
  IN CASE parent = NoSnapshot -> BlockChild(s, stack) /\ HostRests
       [] parent # NoSnapshot /\ MustDrain(parent) ->
            /\ HostGoes([Starting("nest") EXCEPT !.at = "drain-lease", !.gen = s.generation,
                                                 !.parent = parent.turn])
            /\ session' = s /\ agents' = stack /\ UNCHANGED <<permissions, lost>>
       [] parent # NoSnapshot /\ ~MustDrain(parent) /\ MustMaterialize(parent) ->
            /\ HostGoes(Minting(s, parent))
            /\ session' = AllocateTurnId(s) /\ agents' = stack
            /\ UNCHANGED <<permissions, lost>>
       [] OTHER -> /\ HostRests
                   /\ IF ParentIs(s, parent.turn)
                      THEN OpenChild(AllocateTurnId(s), stack, ChildOf(parent, s.turns + 1))
                      ELSE ShareParent(AllocateTurnId(s), stack)

AgentStart ==
  /\ HostFree /\ (agents = <<>> \/ TopRuns)
  /\ Len(agents) < budget.agents /\ session.turns < budget.turns
  /\ LET s == MarkLifecycleEvent(session)
     IN IF s.phase = "active" THEN NestedStart(s) /\ UNCHANGED pending
        ELSE OuterStart(s)
  /\ UNCHANGED <<reload, backend, holder, torn, faults, mutations, budget, closed, implicit>>

(* Unmediated networking is drained first, alone under the lease; a drain  *)
(* that fails or comes too late invalidates the branch.                    *)
DrainBegins ==
  /\ run[Host].at = "drain-lease" /\ holder = NoProc
  /\ Move(Host, "draining") /\ holder' = Host
  /\ UNCHANGED <<session, permissions, reload, backend, torn, faults, hostVars>>

DrainEnds(ok) ==
  /\ run[Host].at = "draining" /\ Outcome(ok)
  /\ IF ok /\ Current(Host) /\ ParentIs(session, run[Host].parent)
     THEN /\ HostGoes(Minting(session, CurrentSnapshot(session)))
          /\ session' = AllocateTurnId(session)
          /\ UNCHANGED <<permissions, pending, holder>>
     ELSE /\ HostRests
          /\ session' = BranchReset(session)
          /\ permissions' = InvalidateTurns(permissions)
          /\ pending' = FALSE
          /\ holder' = NoProc
  /\ UNCHANGED <<reload, backend, torn, agents, mutations, budget, closed, lost, implicit>>

ParentCurrent(p) ==
  Current(p) /\ session.phase = "active" /\ ParentIs(session, run[p].parent)

(* The configured roots have been resolved, or cannot be; the Engine may   *)
(* also refuse the child, which leaves a sentinel.                         *)
MaterializeEnds(ok) ==
  /\ run[Host].at = "materializing" /\ UNCHANGED faults
  /\ HostRests
  /\ holder' = Free(Host)
  /\ CASE ParentCurrent(Host) /\ ok ->
            OpenChild(session, agents, ChildOf(CurrentSnapshot(session), run[Host].turn))
       [] ParentCurrent(Host) /\ ~ok -> BlockChild(session, agents)
       [] OTHER -> ShareParent(session, agents)
  /\ UNCHANGED <<reload, backend, torn, mutations, pending, budget, closed, implicit>>
-------------------------------------------------------------------------------
(* applyPendingTurnModeRefresh: at a step boundary the snapshot and every  *)
(* Engine level take the mode desired. Towards a sandbox, the sandbox      *)
(* comes up first; away from one, authorization changes first. `then` is   *)
(* what the host goes on with.                                             *)
ApplyPending(s, then) ==
  LET snap == AnySnapshot(s)
      mode == reload.mode
      call(op) == Activating([Starting(op) EXCEPT !.next = then.op],
                             s.generation, FALSE, mode, NoConfig)
  IN IF mode = NoMode \/ reload.record = NoRecord \/ s.phase # "active" \/ snap = NoSnapshot
     THEN HostGoes(then) /\ session' = s /\ UNCHANGED <<permissions, pending>>
     ELSE IF snap.mode = mode
     THEN HostGoes(then) /\ pending' = FALSE /\ session' = s /\ UNCHANGED permissions
     ELSE IF RequiresSandbox(mode, reload.record.config)
     THEN HostGoes(call("refresh-up")) /\ session' = s /\ UNCHANGED <<permissions, pending>>
     ELSE /\ HostGoes(call("refresh-down"))
          /\ session' = RefreshSnapshots(s, mode, FALSE, NoBase)
          /\ permissions' = RefreshTurns(permissions, mode, FALSE, NoBase)
          /\ UNCHANGED pending

TurnStart ==
  /\ HostFree /\ TopRuns
  /\ ApplyPending(MarkLifecycleEvent(session), Resting)
  /\ UNCHANGED <<reload, backend, holder, torn, faults,
                 agents, mutations, budget, closed, lost, implicit>>

Preparing == [Starting("prepare") EXCEPT !.at = "begin"]

RefreshAnswered ==
  /\ run[Host].op \in {"refresh-up", "refresh-down"} /\ run[Host].at = "answered"
  /\ HostGoes(IF run[Host].next = "prepare" THEN Preparing ELSE Resting)
  /\ LET mode == run[Host].target
         valid == /\ run[Host].ok /\ Current(Host) /\ session.phase = "active"
                  /\ reload.mode = mode
         up == valid /\ run[Host].op = "refresh-up" /\ reload.sandbox = "ready"
     IN /\ IF up
           THEN /\ session' = RefreshSnapshots(session, mode, TRUE, InstalledBase)
                /\ permissions' = IF AnySnapshot(session) = NoSnapshot THEN permissions
                                  ELSE RefreshTurns(permissions, mode, TRUE, InstalledBase)
           ELSE UNCHANGED <<session, permissions>>
        /\ pending' = (pending /\ ~up /\ ~(valid /\ run[Host].op = "refresh-down"))
  /\ UNCHANGED <<reload, backend, holder, torn, faults,
                 agents, mutations, budget, closed, lost, implicit>>
-------------------------------------------------------------------------------
(* preparePermissionExecution. A tool of a host without lifecycle events   *)
(* applies the pending mode itself, and opens the turn itself; the first   *)
(* of all waits for the shell parser.                                      *)
AppliesItself ==
  IF pending /\ ~session.observed THEN ApplyPending(session, Preparing)
  ELSE HostGoes(Preparing) /\ UNCHANGED <<session, permissions, pending>>

PrepareTool ==
  /\ HostFree /\ (TopRuns \/ (agents = <<>> /\ ~session.observed))
  /\ session.turns < budget.turns \/ session.observed
  /\ IF budget.cold
     THEN /\ HostGoes([Starting("prepare") EXCEPT !.at = "parser"])
          /\ UNCHANGED <<session, permissions, pending>>
     ELSE AppliesItself
  /\ UNCHANGED <<reload, backend, holder, torn, faults,
                 agents, mutations, budget, closed, lost, implicit>>

ParserActivates ==
  /\ run[Host].at = "parser"
  /\ budget' = [budget EXCEPT !.cold = FALSE]
  /\ AppliesItself
  /\ UNCHANGED <<reload, backend, holder, torn, faults,
                 agents, mutations, closed, lost, implicit>>

BeginPrepare ==
  /\ run[Host].op = "prepare" /\ run[Host].at = "begin"
  /\ LET snap == AnySnapshot(session)
     IN HostGoes(Activating(Starting("prepare"), session.generation, FALSE,
                            IF snap = NoSnapshot THEN reload.mode ELSE snap.mode, NoConfig))
  /\ UNCHANGED <<session, permissions, reload, backend, holder, torn, faults, hostVars>>

MayBeginImplicitly(s) ==
  /\ CurrentSnapshot(s) = NoSnapshot
  /\ s.inFlight = NoBarrier /\ s.phase # "between" /\ ~s.observed

(* ensureExecutionSnapshot.                                                *)
Ensured(s) ==
  IF ~MayBeginImplicitly(s) THEN s
  ELSE LET t == s.turns + 1
           begun == BeginTurn(AllocateTurnId(s), t)
       IN SetSnapshot(begun, Captured(begun, t))

(* A readiness bit minted before the sandbox came up is repaired, and an   *)
(* Engine turn that was invalidated meanwhile opened again from the level  *)
(* that governs now.                                                       *)
PrepareAnswered ==
  /\ run[Host].op = "prepare" /\ run[Host].at = "answered"
  /\ LET s == Ensured(session)
         began == s.turns # session.turns
         snap == CurrentSnapshot(s)
         ready == RequiresSandbox(snap.mode, snap.config) /\ reload.sandbox = "ready"
         stale == snap.ready # ready
         repaired == IF stale THEN RefreshSnapshots(s, snap.mode, ready, NoBase) ELSE s
         levels == IF stale THEN RefreshTurns(permissions, snap.mode, ready, NoBase)
                   ELSE permissions
         effective == reload.record # NoRecord /\ reload.record.config = snap.config
     IN IF ~run[Host].ok \/ ~Current(Host)
        THEN HostRests /\ UNCHANGED <<session, permissions, lost, implicit>>
        ELSE /\ implicit' = IF began THEN s.turn ELSE implicit
             /\ lost' = (lost /\ (~began \/ agents # <<>>))
             /\ IF snap = NoSnapshot
                THEN HostRests /\ session' = s /\ UNCHANGED permissions
                ELSE /\ session' = repaired
                     /\ IF ~effective THEN HostRests /\ permissions' = levels
                        ELSE /\ HostGoes([Starting("prepare") EXCEPT !.at = "prepared"])
                             /\ permissions' = IF levels.turn # NoSnapshot THEN levels
                                               ELSE BeginRootTurn(levels, CurrentSnapshot(repaired))
  /\ UNCHANGED <<reload, backend, holder, torn, faults, agents, mutations, pending, budget, closed>>

ToolEnds ==
  /\ run[Host].at = "prepared" /\ HostRests
  /\ UNCHANGED <<session, permissions, reload, backend, holder, torn, faults, hostVars>>
-------------------------------------------------------------------------------
(* finishPermissionTurn: a nested level closes the Engine turn it owns,    *)
(* and only that; the outermost one closes them all.                       *)
FinishEngine(s, r) ==
  IF s.depth > 1 THEN IF ActiveNestedTurnHasSnapshot(s) THEN CloseChildTurn(r) ELSE r
  ELSE IF s.phase = "active" THEN CloseRootTurn(r) ELSE r

(* An agent counted in no level of this turn ends a level all the same.    *)
EndsUncounted(s) == s.phase = "active" /\ Last(agents).turn # s.turn

AgentEnd ==
  /\ HostFree /\ TopRuns
  /\ LET s == MarkLifecycleEvent(session)
     IN /\ session' = IF s.phase = "active" THEN NoteEndAwaitingSettle(FinishNestedTurn(s))
                      ELSE FinishNestedTurn(s)
        /\ permissions' = FinishEngine(s, permissions)
        /\ lost' = (lost \/ EndsUncounted(s))
  /\ agents' = TopIs([Last(agents) EXCEPT !.ended = TRUE])
  /\ UNCHANGED <<reload, backend, holder, run, torn, faults,
                 mutations, pending, budget, closed, implicit>>

(* A settled whose end was counted does not finish again. One whose end    *)
(* was not leaves the session between turns: finishPermissionTurn returns  *)
(* nothing that would have it settled.                                     *)
AgentSettled ==
  /\ HostFree /\ agents # <<>> /\ (Last(agents).ended \/ budget.leaks)
  /\ LET s == MarkLifecycleEvent(session)
     IN IF s.awaiting
        THEN /\ session' = SettleBetween(TakeEndAwaitingSettle(s))
             /\ UNCHANGED <<permissions, lost>>
        ELSE /\ session' = FinishNestedTurn(s)
             /\ permissions' = FinishEngine(s, permissions)
             /\ lost' = (lost \/ EndsUncounted(s))
  /\ agents' = Front(agents)
  /\ UNCHANGED <<reload, backend, holder, run, torn, faults,
                 mutations, pending, budget, closed, implicit>>

(* A subagent crashes and neither event arrives.                           *)
AgentLeaks ==
  /\ budget.leaks /\ HostFree /\ TopRuns /\ Len(agents) > 1
  /\ agents' = Front(agents)
  /\ lost' = TRUE
  /\ UNCHANGED <<activationVars, mutations, pending, budget, closed, implicit>>
-------------------------------------------------------------------------------
(* The user's events. Each is a process of its own, in order of arrival.   *)
Arrives(t) ==
  /\ ~closed /\ t \in Tasks /\ t = budget.events
  /\ budget' = [budget EXCEPT !.events = @ - 1]

Stays == UNCHANGED <<agents, closed, lost, implicit>>

TaskGoes(t, a) == run' = [run EXCEPT ![t] = a]
Done(t) ==
  /\ TaskGoes(t, Resting)
  /\ mutations' = IF mutations # <<>> /\ Head(mutations) = t THEN Tail(mutations)
                  ELSE mutations

Queued(op) == [Starting(op) EXCEPT !.at = "queued"]
Enqueue(t, op, gen) ==
  /\ TaskGoes(t, [Queued(op) EXCEPT !.gen = gen])
  /\ mutations' = Append(mutations, t)

(* shift+tab. In an active turn only the desired mode changes; otherwise   *)
(* the transition blocks the next turn until it has settled.               *)
Cycle(t) ==
  /\ Arrives(t)
  /\ CASE session.phase = "active" /\ reload.mode # NoMode ->
            /\ reload' = [reload EXCEPT !.mode = NextMode(@)]
            /\ pending' = TRUE
            /\ UNCHANGED <<session, run, mutations>>
       [] session.phase = "active" /\ reload.mode = NoMode ->
            /\ TaskGoes(t, Activating(Starting("desire"), session.generation,
                                      FALSE, NoMode, NoConfig))
            /\ UNCHANGED <<session, reload, mutations, pending>>
       [] OTHER ->
            /\ session' = CreateBarrier(session)
            /\ TaskGoes(t, [Queued("cycle") EXCEPT !.gen = session.generation,
                                                   !.barrier = Len(session.barriers) + 1])
            /\ mutations' = Append(mutations, t)
            /\ UNCHANGED <<reload, pending>>
  /\ Stays /\ UNCHANGED <<permissions, backend, holder, torn, faults>>

(* /permissions.                                                           *)
Reload(t) ==
  /\ Arrives(t) /\ Enqueue(t, "reload", session.generation)
  /\ Stays /\ UNCHANGED <<session, permissions, reload, backend, holder, torn, faults, pending>>

(* session_before_tree, and session_tree with the mode its branch records. *)
BranchEvent(t) ==
  /\ Arrives(t)
  /\ session' = BranchReset(session)
  /\ permissions' = InvalidateTurns(permissions)
  /\ pending' = FALSE
  /\ Stays /\ UNCHANGED <<reload, backend, holder, torn, faults>>

BeforeTree(t) == BranchEvent(t) /\ UNCHANGED <<run, mutations>>
Tree(t) == BranchEvent(t) /\ Enqueue(t, "tree", session.generation + 1)

(* session_start: the host starts one when no agent runs.                  *)
SessionStart(t) ==
  /\ Arrives(t) /\ agents = <<>>
  /\ session' = ClearLifecycleEvents(BranchReset(session))
  /\ permissions' = InvalidateTurns(permissions)
  /\ pending' = FALSE
  /\ TaskGoes(t, [Starting("session") EXCEPT !.at = "config",
                                             !.gen = session.generation + 1])
  /\ Stays /\ UNCHANGED <<reload, backend, holder, torn, faults, mutations>>

(* session_shutdown tears the sandbox down behind whoever has the lease.   *)
Shutdown(t) ==
  /\ Arrives(t)
  /\ session' = ResetTurn(CancelInFlightBarrier(BumpGeneration(session)))
  /\ permissions' = InvalidateTurns(permissions)
  /\ closed' = TRUE
  /\ TaskGoes(t, [Starting("shutdown") EXCEPT !.at = "closing-lease"])
  /\ UNCHANGED <<reload, backend, holder, torn, faults, agents, mutations, pending, lost, implicit>>

NoLease(t) == TRUE  \* mutant: the shutdown waits for nobody
ShutdownLease(t) == holder = NoProc

ShutdownBegins(t) ==
  /\ run[t].at = "closing-lease" /\ ShutdownLease(t)
  /\ holder' = t /\ Move(t, "closing")
  /\ reload' = PublishSandbox(reload, "pending")
  /\ UNCHANGED <<session, permissions, backend, torn, faults, hostVars>>

ShutdownEnds(t) ==
  /\ run[t].at = "closing"
  /\ backend' = NoBase /\ holder' = Free(t) /\ TaskGoes(t, Resting)
  /\ UNCHANGED <<session, permissions, reload, torn, faults, hostVars>>
-------------------------------------------------------------------------------
(* runModeMutation: one at a time, in order; one enqueued under an older   *)
(* generation never runs, but its barrier is settled.                      *)
Turnaround(t) == mutations # <<>> /\ Head(mutations) = t /\ run[t].at = "queued"

Superseded(t) ==
  /\ Turnaround(t) /\ ~Current(t)
  /\ session' = IF run[t].op = "cycle" THEN SettleBarrier(session, run[t].barrier, FALSE)
                ELSE session
  /\ Done(t)
  /\ Stays /\ UNCHANGED <<permissions, reload, backend, holder, torn, faults, pending, budget>>

(* An idle cycle revokes what is open, and activates for the next mode;    *)
(* without a runtime it activates the config first.                        *)
CycleForced(t) ==
  Activating(run[t], run[t].gen, TRUE, NextMode(reload.mode), NoConfig)
CycleRuns(t) ==
  /\ Turnaround(t) /\ Current(t) /\ run[t].op = "cycle"
  /\ permissions' = InvalidateTurns(permissions)
  /\ TaskGoes(t, IF reload.mode = NoMode
                 THEN Activating(run[t], run[t].gen, FALSE, NoMode, NoConfig)
                 ELSE CycleForced(t))
  /\ Stays /\ UNCHANGED <<session, reload, backend, holder, torn, faults, mutations, pending, budget>>

CycleAnswered(t) ==
  /\ run[t].op = "cycle" /\ run[t].at = "answered"
  /\ IF run[t].ok /\ Current(t)
     THEN IF run[t].force
          THEN /\ reload' = [reload EXCEPT !.mode = run[t].target]
               /\ session' = SettleBarrier(session, run[t].barrier, TRUE)
               /\ Done(t)
          ELSE LET mode == IF reload.mode = NoMode THEN "auto" ELSE reload.mode
               IN /\ reload' = [reload EXCEPT !.mode = mode]
                  /\ TaskGoes(t, Activating(run[t], run[t].gen, TRUE, NextMode(mode), NoConfig))
                  /\ UNCHANGED <<session, mutations>>
     ELSE /\ session' = SettleBarrier(session, run[t].barrier, FALSE)
          /\ Done(t) /\ UNCHANGED reload
  /\ Stays /\ UNCHANGED <<permissions, backend, holder, torn, faults, pending, budget>>

(* A cycle in a turn whose runtime had to be created first.                *)
DesireAnswered(t) ==
  /\ run[t].op = "desire" /\ run[t].at = "answered"
  /\ IF run[t].ok /\ Current(t)
     THEN /\ pending' = TRUE
          /\ reload' = [reload EXCEPT !.mode = NextMode(IF @ = NoMode THEN "auto" ELSE @)]
     ELSE UNCHANGED <<pending, reload>>
  /\ Done(t)
  /\ Stays /\ UNCHANGED <<session, permissions, backend, holder, torn, faults, budget>>

ReloadRuns(t) ==
  /\ Turnaround(t) /\ Current(t) /\ run[t].op = "reload"
  /\ Move(t, "config")
  /\ Stays /\ UNCHANGED <<session, permissions, reload, backend, holder, torn, faults,
                          mutations, pending, budget>>

(* The config read by the handler itself; `mode` is what the branch's      *)
(* entries restore.                                                        *)
ConfigRead(t, c, mode) ==
  /\ run[t].at = "config" /\ Outcome(c # NoConfig)
  /\ IF c = NoConfig
     THEN /\ reload' = [reload EXCEPT !.configFailed = @ \/ Current(t)]
          /\ Done(t)
     ELSE /\ TaskGoes(t, Activating(run[t], run[t].gen, TRUE, mode, c))
          /\ UNCHANGED <<reload, mutations>>
  /\ Stays /\ UNCHANGED <<session, permissions, backend, holder, torn, pending, budget>>

TreeRuns(t, mode) ==
  /\ Turnaround(t) /\ Current(t) /\ run[t].op = "tree"
  /\ IF reload.record = NoRecord \/ reload.mode = NoMode THEN Done(t)
     ELSE /\ TaskGoes(t, Activating(run[t], run[t].gen, FALSE, mode, reload.record.config))
          /\ UNCHANGED mutations
  /\ Stays /\ UNCHANGED <<session, permissions, reload, backend, holder, torn, faults, pending, budget>>

RestoredAnswered(t) ==
  /\ run[t].op \in {"session", "reload", "tree"} /\ run[t].at = "answered"
  /\ reload' = IF run[t].ok /\ Current(t) THEN [reload EXCEPT !.mode = run[t].target]
               ELSE reload
  /\ Done(t)
  /\ Stays /\ UNCHANGED <<session, permissions, backend, holder, torn, faults, pending, budget>>
-------------------------------------------------------------------------------
(* Who may go on without an event or an I/O result; until nobody may, the  *)
(* event loop takes neither.                                               *)
Ready(p) ==
  \/ ActivationReady(p)
  \/ run[p].at \in {"answered", "begin"}
  \/ run[p].at \in {"drain-lease", "closing-lease"} /\ holder = NoProc
  \/ run[p].at = "barrier" /\ session.barriers[run[p].barrier] # "open"
  \/ p \in Tasks /\ Turnaround(p)
Quiescent == \A p \in Procs : ~Ready(p)

Continues(p) ==
  \/ ActivationContinues(p) /\ UNCHANGED hostVars
  \/ p = Host /\ (\/ BarrierEnds \/ StartAnswered \/ DrainBegins \/ RefreshAnswered
                  \/ BeginPrepare \/ PrepareAnswered)
  \/ p \in Tasks /\ (\/ ShutdownBegins(p) \/ Superseded(p) \/ CycleRuns(p)
                     \/ CycleAnswered(p) \/ DesireAnswered(p) \/ ReloadRuns(p)
                     \/ RestoredAnswered(p) \/ \E mode \in Modes : TreeRuns(p, mode))

IoSettles(p) ==
  \/ ActivationIo(p) /\ UNCHANGED hostVars
  \/ p = Host /\ (ParserActivates \/ \E ok \in BOOLEAN : DrainEnds(ok) \/ MaterializeEnds(ok))
  \/ p \in Tasks /\ (\/ ShutdownEnds(p)
                     \/ \E c \in Configs \cup {NoConfig}, mode \in Modes : ConfigRead(p, c, mode))

HostEvent ==
  \/ AgentStart \/ TurnStart \/ PrepareTool \/ ToolEnds
  \/ AgentEnd \/ AgentSettled \/ AgentLeaks

UserEvent(t) ==
  \/ Cycle(t) \/ Reload(t) \/ BeforeTree(t) \/ Tree(t) \/ SessionStart(t) \/ Shutdown(t)

Step(p) == Continues(p) \/ (Quiescent /\ IoSettles(p))

Next ==
  \/ Quiescent /\ (HostEvent \/ \E t \in Tasks : UserEvent(t))
  \/ \E p \in Procs : Step(p)

Spec == Init /\ [][Next]_vars

(* Some continuation that may run, runs: the event loop drains them all.   *)
(* Every await of the extension settles: files, git and the backend answer *)
(* or time out, and the loop takes each answer between whatever else it    *)
(* takes, again and again. Nothing is asked of the host or of the user.    *)
FairSpec ==
  /\ Spec
  /\ WF_vars(\E p \in Procs : Continues(p))
  /\ \A p \in Procs : SF_vars(Quiescent /\ IoSettles(p))
-------------------------------------------------------------------------------
Snapshots ==
  [turn : Nat, mode : Modes, config : Configs, base : Bases, ready : BOOLEAN]
Levels == Snapshots \cup {NoSnapshot}
Records == [config : Configs, base : Bases]

Sessions ==
  [generation : Nat, phase : {"idle", "active", "between"}, turns : Nat, turn : Nat,
   snapshot : Levels, depth : Nat, nested : Seq(Levels),
   ceilings : Seq((SUBSET Roots) \cup {NoEnvelope}), awaiting : BOOLEAN,
   observed : BOOLEAN, barriers : Seq({"open", "ready", "refused"}), inFlight : Nat]

Reloads ==
  [record : Records \cup {NoRecord}, sandbox : {"pending", "disabled", "ready", "failed"},
   configFailed : BOOLEAN, activationFailed : BOOLEAN, mode : Modes \cup {NoMode}]

HostOps == {"none", "start", "nest", "refresh-up", "refresh-down", "prepare"}
TaskOps == {"none", "desire", "cycle", "reload", "tree", "session", "shutdown"}
Places ==
  {"none", "barrier", "drain-lease", "draining", "materializing", "parser", "begin",
   "prepared", "queued", "config", "closing-lease", "closing", "shared", "lease",
   "loading", "git", "shortcut", "bare", "activating", "restoring", "answered"}

Activities ==
  [op : HostOps \cup TaskOps, at : Places, gen : Nat, target : Modes \cup {NoMode},
   force : BOOLEAN, loaded : Configs \cup {NoConfig},
   previous : Records \cup {NoRecord},
   was : {"pending", "disabled", "ready", "failed"}, ok : BOOLEAN,
   turn : Nat, parent : Nat, barrier : Nat, next : {"none", "prepare"}]

Budgets ==
  [agents : Nat, turns : Nat, events : Nat, leaks : BOOLEAN, cold : BOOLEAN]

TypeOK ==
  /\ session \in Sessions /\ permissions \in [turn : Levels, levels : Seq(Levels)]
  /\ reload \in Reloads /\ backend \in Bases /\ holder \in Procs \cup {NoProc}
  /\ run \in [Procs -> Activities] /\ torn \in BOOLEAN /\ faults \in Nat
  /\ agents \in Seq([turn : Nat, gen : Nat, blocked : BOOLEAN, ended : BOOLEAN])
  /\ mutations \in Seq(Tasks) /\ pending \in BOOLEAN /\ budget \in Budgets
  /\ closed \in BOOLEAN /\ lost \in BOOLEAN /\ implicit \in Nat

(* What the code writes undefined is none of its values.                   *)
ASSUME NullAssumption ==
  /\ NoSnapshot \notin Snapshots /\ NoRecord \notin Records /\ \A b \in SUBSET Roots : b # NoBase
  /\ NoConfig \notin Configs /\ NoMode \notin Modes /\ NoProc \notin Procs

(* The turn's three stacks never drift: an open turn has one ceiling and   *)
(* one snapshot, or sentinel, per nested level of its depth; a closed one  *)
(* has none; and only an open turn has an Engine turn, with no more        *)
(* parents parked than there are levels that own one                       *)
(* (permission-session.ts:42-49, register.ts:719-740).                     *)
OwningLevels == {i \in DOMAIN session.nested : session.nested[i] # NoSnapshot}

StacksAligned ==
  /\ Len(session.nested) = Len(session.ceilings)
  /\ IF session.phase = "active"
     THEN session.depth = 1 + Len(session.nested) /\ session.turn # NoTurn
     ELSE session.depth = 0 /\ session.nested = <<>>
          /\ session.turn = NoTurn /\ session.snapshot = NoSnapshot
  /\ session.depth <= MaxNestedTurnDepth
  /\ session.phase # "active" => permissions = NewRuntime
  /\ Len(permissions.levels) <= Cardinality(OwningLevels)

(* What the Engine enforces is never wider than the level that governs:    *)
(* its live turn has the mode and the readiness of the innermost snapshot, *)
(* and a base within that level's, through every mint, close, refresh and  *)
(* invalidation of either side alone (register.ts:719-740, 1112-1184,      *)
(* 1211-1236).                                                             *)
Within(b, c) == b = c \/ (b # NoBase /\ c # NoBase /\ b \subseteq c)

EngineFollowsSession ==
  LET live == permissions.turn
      top == CurrentSnapshot(session)
  IN live # NoSnapshot /\ top # NoSnapshot =>
       /\ live.mode = top.mode /\ live.ready = top.ready
       /\ Within(live.base, top.base)

(* Every level of the turn is some agent's that has not ended, and every   *)
(* agent counted since the branch was last reset has its level, whatever   *)
(* ends, settles or is superseded in between; a nesting that saturates or  *)
(* a crash are the only exceptions                                         *)
(* (permission-session.ts:40-41, 58-63, register.ts:2277-2297).            *)
Counted(agent) ==
  ~agent.ended /\ agent.turn # NoTurn /\ agent.gen = session.generation

AccountingExact ==
  ~lost =>
    session.depth = Cardinality({i \in DOMAIN agents : Counted(agents[i])})
                    + (IF session.turn # NoTurn /\ implicit = session.turn THEN 1 ELSE 0)

(* Session, ceilings, Engine turns and agents count the same nesting: what *)
(* one handler does to one of them alone leaves the four in step           *)
(* (permission-session.ts:40-63, register.ts:719-740, 2213-2297).          *)
LevelsInStep == StacksAligned /\ EngineFollowsSession /\ AccountingExact

(* An agent whose scope could not be resolved gets no tool prepared, and   *)
(* neither does any agent under it (register.ts:2216-2228).                *)
ToolPrepared == run[Host].at # "prepared" /\ run'[Host].at = "prepared"

ClosedScopeStaysClosed ==
  [][ToolPrepared /\ ~lost =>
       \A i \in DOMAIN agents : agents[i].blocked => agents[i].turn # session'.turn]_vars

(* What is published is published by an activation of the generation that  *)
(* is current, however long it was awaited, or by the shutdown             *)
(* (register.ts:849-853, 2125, 2158, 2511).                                *)
Published(r) == <<r.record, r.sandbox, r.configFailed, r.activationFailed>>

SupersededNeverPublishes ==
  [][Published(reload') # Published(reload) =>
       \E p \in Procs : /\ run'[p] # run[p]
                        /\ Current(p) \/ run[p].op = "shutdown"]_vars

(* Published ready means that the backend holds the policy published with  *)
(* it, unless an activation was superseded or a reset failed since: those  *)
(* leave the backend as it is and publish nothing (register.ts:885-888).   *)
ReadyIsTruthful ==
  (reload.sandbox = "ready" /\ ~torn /\ \A p \in Procs : run[p].at \notin Touching) =>
     backend = InstalledBase /\ backend # NoBase

(* After a shutdown nothing is up that is not published: no activation     *)
(* that was under way, even one that only then reaches the backend, leaves *)
(* a sandbox behind (register.ts:849-853, 2175-2194).                      *)
AtRest == \A p \in Procs : run[p].at \in {"none", "prepared"}
OnlyPublishedIsUp == closed /\ AtRest /\ backend # NoBase =>
  reload.sandbox = "ready" /\ backend = InstalledBase

(* What is published of the sandbox is the truth of its backend, up to and *)
(* behind the shutdown (register.ts:835-888, 2175-2194).                   *)
PublishedIsTrue == ReadyIsTruthful /\ OnlyPublishedIsUp

(* After the shutdown's reset "any racing activation refuses", and none    *)
(* brings a sandbox up (register.ts:2188-2192). An unforced activation     *)
(* does not refuse for a sandbox that is pending, and a tool that was at   *)
(* an earlier await of preparePermissionExecution takes its generation     *)
(* only afterwards (register.ts:1194-1208).                                *)
ShutdownTearsDown == closed /\ AtRest => backend = NoBase /\ reload.sandbox # "ready"

(* Nothing waits for ever: not an agent for a transition that was refused, *)
(* superseded or replaced, not a mutation for the one before it, not an    *)
(* activation for the lease (permission-session.ts:282-287, 310-323,       *)
(* register.ts:2234-2245).                                                 *)
Busy(p) == run[p].at \notin {"none", "prepared"}
HandlersEnd == []<>(\A p \in Procs : ~Busy(p))
===============================================================================
