------------------------------ MODULE SrtManager ------------------------------
(***************************************************************************)
(* SrtSandboxManager (pi-safety/src/sandbox/srt-enforcer.ts) on its        *)
(* coordinator: the operations that mutate the one SRT runtime of the      *)
(* process, at the granularity of their awaits.                            *)
(*                                                                         *)
(*   wiping    awaiting resetSrt, in reset or first thing in activate      *)
(*   init      awaiting the runtime's dependencies, guard and initialize   *)
(*   command   the child runs under the runtime's present config           *)
(*   undo-...  awaiting resetSrt after a failure: of the first reset, of   *)
(*             an initialization, or because the signal had aborted        *)
(***************************************************************************)
EXTENDS SrtCoordinator

CONSTANTS
  Policies,
  PolicyOf,   \* what each client activates, or executes under
  NoPolicy

Stages == {"wiping", "init", "command", "undo-reset", "undo-failed", "undo-aborted"}

ASSUME ManagerAssumption ==
  /\ Busy = Stages
  /\ PolicyOf \in [Client -> Policies]
  /\ NoPolicy \notin Policies

VARIABLES
  basePolicy,  \* processSandboxState's; NoPolicy when not initialized
  config       \* what the SRT runtime is configured with

vars == <<lockVars, basePolicy, config>>

Init == LockInit /\ basePolicy = NoPolicy /\ config = NoPolicy
-------------------------------------------------------------------------------
Poisoned(bad) == IF bad THEN "mark" ELSE "none"

(* A client asks, or the signal of some fires; the abort callback of an    *)
(* activation or a reset that runs clears the process's sandbox state.     *)
Ask(c) == Acquire(c) /\ UNCHANGED <<basePolicy, config>>

AbortCalls(S) ==
  /\ Cancel(S)
  /\ basePolicy' = IF \E c \in S : AllowPoisoned(c) /\ pc[c] \in Busy
                   THEN NoPolicy ELSE basePolicy
  /\ UNCHANGED config

(* activate and reset begin with resetSrt. *)
StartWipe(c) ==
  /\ AllowPoisoned(c)
  /\ Begin(c, "wiping", "none")
  /\ UNCHANGED <<basePolicy, config>>

StartWait(c) ==
  /\ Kind[c] = "wait"
  /\ Begin(c, "ending", "none")
  /\ UNCHANGED <<basePolicy, config>>

(* execute refuses under a fault or a policy SRT cannot enforce, and       *)
(* faults when the guard cannot drop the last execution's tickets.         *)
StartRefused(c, bad) ==
  /\ Kind[c] = "execute"
  /\ poisoned => ~bad
  /\ poisoned \/ bad \/ basePolicy # NoPolicy
  /\ Begin(c, "ending", Poisoned(bad))
  /\ UNCHANGED <<basePolicy, config>>

StartInit(c) ==
  /\ Kind[c] = "execute" /\ ~poisoned /\ basePolicy = NoPolicy
  /\ Begin(c, "init", "none")
  /\ UNCHANGED <<basePolicy, config>>

(* updateConfig to the execution's own policy, and on to the child.        *)
StartCommand(c) ==
  /\ Kind[c] = "execute" /\ ~poisoned /\ basePolicy # NoPolicy
  /\ Begin(c, "command", "none")
  /\ config' = PolicyOf[c]
  /\ UNCHANGED basePolicy

(* resetSrt settles: the reset operation clears the process state and ends; *)
(* an activation goes on, unless the reset failed or its signal has fired. *)
WipeEnds(c, ok) ==
  /\ config' = IF ok THEN NoPolicy ELSE config
  /\ IF Kind[c] = "reset"
     THEN /\ Continue(c, "wiping", "ending", Poisoned(~ok))
          /\ basePolicy' = NoPolicy
     ELSE /\ Continue(c, "wiping", CASE ~ok -> "undo-reset"
                                     [] ok /\ c \in aborted -> "undo-aborted"
                                     [] OTHER -> "init", "none")
          /\ UNCHANGED basePolicy

NeverAbandoned(c) == FALSE  \* mutant: the signal is not read after the awaits
Abandoned(c) == c \in aborted

(* initialize settles for a call that still waits: activate publishes the  *)
(* new base and clears the fault, execute goes on to its child.            *)
Initialized(c, bad) ==
  /\ ~Abandoned(c)
  /\ IF Kind[c] = "activate"
     THEN ~bad /\ Continue(c, "init", "ending", "clear")
     ELSE \/ ~bad /\ Continue(c, "init", "command", "none")
          \/ Continue(c, "init", "ending", Poisoned(bad))  \* unsupported policy
  /\ basePolicy' = PolicyOf[c]
  /\ config' = PolicyOf[c]

(* It fails, or was awaited for a signal that has fired; resetSrt is next. *)
InitFails(c) ==
  /\ \/ Continue(c, "init", "undo-failed", "none") /\ UNCHANGED config
     \/ /\ Abandoned(c) /\ Continue(c, "init", "undo-aborted", "none")
        /\ config' \in {config, PolicyOf[c]}
  /\ UNCHANGED basePolicy

(* A cancelled initialization is no fault, unless it cannot be undone.     *)
UndoEnds(c, from, ok, bad) ==
  /\ from \in {"undo-reset", "undo-failed", "undo-aborted"}
  /\ bad => Kind[c] = "execute"
  /\ Continue(c, from, "ending", Poisoned(~ok \/ bad \/ from # "undo-aborted"))
  /\ basePolicy' = NoPolicy
  /\ config' = IF ok THEN NoPolicy ELSE config

ConfigAsIs == config  \* mutant: the derived policy is left in force
RestoredConfig == basePolicy

(* The child has exited, or was never started: cleanup, restoration of the *)
(* base policy and the ticket reset each happen whatever the others did.   *)
CommandEnds(c, cleaned, restored, bad) ==
  /\ Continue(c, "command", "ending",
              Poisoned(~cleaned \/ bad \/ (PolicyOf[c] # basePolicy /\ ~restored)))
  /\ config' = IF restored THEN RestoredConfig ELSE config
  /\ UNCHANGED basePolicy

LeaveLease(c) == (GiveBack(c) \/ Release(c)) /\ UNCHANGED <<basePolicy, config>>

DrainFault == DrainTimeout /\ UNCHANGED <<basePolicy, config>>

Operate(c) ==
  \/ StartWipe(c) \/ StartWait(c) \/ StartInit(c) \/ StartCommand(c) \/ LeaveLease(c)
  \/ InitFails(c)
  \/ \E bad \in BOOLEAN : StartRefused(c, bad) \/ Initialized(c, bad)
  \/ \E ok, bad \in BOOLEAN :
       \/ WipeEnds(c, ok)
       \/ \E from \in Stages : UndoEnds(c, from, ok, bad)
       \/ \E cleaned \in BOOLEAN : CommandEnds(c, cleaned, ok, bad)

Next == \/ \E c \in Client : Ask(c) \/ Operate(c)
        \/ \E S \in SUBSET Client : AbortCalls(S)
        \/ DrainFault

Spec == Init /\ [][Next]_vars

(* Only the process's own timer is relied on: nothing in the process can   *)
(* force an operation to settle.                                           *)
FairSpec == Spec /\ WF_vars(DrainFault)
-------------------------------------------------------------------------------
(* No config is swapped under a child (srt-coordinator.ts:26-31): a        *)
(* command runs under its own policy to its end, a detached one too.       *)
CommandsKeepTheirPolicy ==
  \A c \in Client : pc[c] = "command" => config = PolicyOf[c]

(* Whatever an operation went through, unless it left a fault the next one *)
(* finds the runtime initialized with the base policy, or wiped            *)
(* (srt-enforcer.ts:713-731).                                              *)
RuntimeLeftClean ==
  (~poisoned /\ \A c \in Client : pc[c] \notin Busy) => config = basePolicy

(* What the process-wide runtime is configured with is some running        *)
(* command's policy or the base, and nothing a finished one widened        *)
(* (srt-coordinator.ts:26-31, srt-enforcer.ts:713-731).                    *)
PoliciesNeverLeak == CommandsKeepTheirPolicy /\ RuntimeLeftClean

(* A fault persists until an activation succeeds for a caller that still   *)
(* waits for it: no reset, no other operation and no cancelled activation  *)
(* clears it, and under it no command starts (srt-enforcer.ts:565-570).    *)
FaultsPersist ==
  [][/\ poisoned /\ ~poisoned' =>
          \E c \in Client : Kind[c] = "activate" /\ pc[c] = "init" /\ c \notin aborted
     /\ \A c \in Client : pc[c] # "command" /\ pc'[c] = "command" => ~poisoned]_vars

(* If operations settle, every waiter is let in, turned away or cancelled  *)
(* (srt-coordinator.ts:107-118, 190-232): neither a fault nor a            *)
(* cancellation between the grant and the start leaves the lease idle.     *)
OperationsSettle == \A c \in Client : WF_vars(Operate(c))

WaitersServed ==
  OperationsSettle => \A c \in Client : pc[c] = "queued" ~> pc[c] # "queued"

(* A cancelled operation that never settles does not hang the executions   *)
(* queued behind it: if it keeps draining, the timeout turns them away     *)
(* (srt-coordinator.ts:13-19, 56-68).                                      *)
DrainingEndsOrFaults ==
  \A c, d \in Client :
    (drainingOwner = d /\ pc[c] = "queued" /\ ~AllowPoisoned(c))
      ~> (drainingOwner # d \/ pc[c] # "queued")

(* The queue before the runtime moves on whether operations settle or not. *)
QueueMovesOn == WaitersServed /\ DrainingEndsOrFaults
===============================================================================
