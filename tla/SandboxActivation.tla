--------------------------- MODULE SandboxActivation ---------------------------
(***************************************************************************)
(* The reload-scoped state of pi-safety (register-state.ts) and the        *)
(* activation of a config and its sandbox (register.ts:784-1035), at the   *)
(* granularity of their awaits. Whoever activates is a process p:          *)
(*                                                                         *)
(*   shared      waits to read the live activation under a shared lease    *)
(*   lease       waits for the exclusive lease; for yolo, starts without   *)
(*   loading     awaiting loadSafetyConfig                                 *)
(*   git         awaiting the discovery of git's protected roots           *)
(*   shortcut    awaiting the reset of a sandbox the mode does not need    *)
(*   bare        the same, for a config that has just been loaded          *)
(*   activating  awaiting the backend                                      *)
(*   restoring   awaiting the backend's return to the previous policy      *)
(*   answered    settled; its caller goes on                               *)
(*                                                                         *)
(* The lease is LifecycleLease reduced to its exclusion, with any waiter   *)
(* let in first; the backend is SrtManager reduced to the policy it holds, *)
(* none while it is reset, being activated or poisoned. One cache key.     *)
(***************************************************************************)
EXTENDS PermissionSession, FiniteSets

CONSTANTS
  Procs, NoProc,
  Configs, NoConfig,
  BaseOf,     \* the sandbox policy of each config; NoBase if it enables none
  Unmediated, \* the configs whose sandbox lets commands out directly
  NoRecord, NoMode

ASSUME ConfigAssumption ==
  /\ BaseOf \in [Configs -> Bases]
  /\ Unmediated \subseteq {c \in Configs : BaseOf[c] # NoBase}

VARIABLES
  session, permissions,
  reload,     \* ReloadScopedState
  backend,    \* the policy SRT holds
  holder,     \* who has the exclusive lease
  run,        \* what each process is doing
  torn,       \* history: the backend was left otherwise than last published
  faults      \* bound: how many more awaits may fail

activationVars == <<session, permissions, reload, backend, holder, run, torn, faults>>

NewReload ==
  [record |-> NoRecord, sandbox |-> "pending", configFailed |-> FALSE,
   activationFailed |-> FALSE, mode |-> NoMode]

Resting ==
  [op |-> "none", at |-> "none", gen |-> 0, target |-> NoMode, force |-> FALSE,
   loaded |-> NoConfig, previous |-> NoRecord, was |-> "pending", ok |-> FALSE,
   turn |-> NoTurn, parent |-> NoTurn, barrier |-> NoBarrier, next |-> "none"]

Touching == {"shortcut", "bare", "activating", "restoring", "closing"}

InstalledBase == IF reload.record = NoRecord THEN NoBase ELSE reload.record.base
RequiresSandbox(mode, c) == mode # "yolo" /\ BaseOf[c] # NoBase
NextMode(mode) == IF mode = "auto" THEN "yolo" ELSE "auto"
Current(p) == run[p].gen = session.generation

Live(r) == r.record # NoRecord
Commit(r, c, base, sandbox) ==
  [r EXCEPT !.record = [config |-> c, base |-> base], !.sandbox = sandbox,
            !.configFailed = FALSE, !.activationFailed = FALSE]
UnpublishPolicyOnly(r, sandbox) ==  \* mutant: the state of the sandbox is not published
  [r EXCEPT !.record = IF @ = NoRecord THEN @ ELSE [@ EXCEPT !.base = NoBase]]
PublishSandbox(r, sandbox) ==
  [r EXCEPT !.sandbox = sandbox,
            !.record = IF @ = NoRecord THEN @ ELSE [@ EXCEPT !.base = NoBase]]
Rollback(r, previous, sandbox) ==
  [r EXCEPT !.record = previous, !.sandbox = sandbox,
            !.activationFailed = @ \/ previous = NoRecord]
-------------------------------------------------------------------------------
Move(p, place) == run' = [run EXCEPT ![p].at = place]
Outcome(ok) ==
  IF ok THEN UNCHANGED faults ELSE faults > 0 /\ faults' = faults - 1
Free(p) == IF holder = p THEN NoProc ELSE holder
Answer(p, ok) ==
  /\ run' = [run EXCEPT ![p] = [@ EXCEPT !.at = "answered", !.ok = ok,
                                         !.loaded = NoConfig, !.previous = NoRecord,
                                         !.was = "pending"]]
  /\ holder' = Free(p)

(* The activity a with its activateConfig just called. A read of what is   *)
(* live comes first, unless the call forces, brings a config or is yolo's. *)
Activating(a, gen, force, target, candidate) ==
  [a EXCEPT !.at = IF ~force /\ candidate = NoConfig /\ target # "yolo"
                   THEN "shared" ELSE "lease",
            !.gen = gen, !.target = target, !.force = force, !.loaded = candidate,
            !.ok = FALSE]

EffectiveMode(p) ==
  IF run[p].target # NoMode THEN run[p].target
  ELSE IF reload.mode # NoMode THEN reload.mode ELSE "auto"

(* For an unmediated config the backend's health is asked too.             *)
SharedRead(p, healthy) ==
  /\ run[p].at = "shared" /\ holder = NoProc /\ Outcome(healthy)
  /\ LET ready == /\ Live(reload) /\ reload.sandbox = "ready"
                  /\ RequiresSandbox(EffectiveMode(p), reload.record.config)
     IN CASE ~Current(p) \/ reload.configFailed -> healthy /\ Answer(p, FALSE)
          [] Current(p) /\ ~reload.configFailed /\ ready ->
               (~healthy => reload.record.config \in Unmediated) /\ Answer(p, healthy)
          [] OTHER -> healthy /\ Move(p, "lease") /\ UNCHANGED holder
  /\ UNCHANGED <<session, permissions, reload, backend, torn>>

(* activateConfigUnlocked up to its first await.                           *)
AnswersAtOnce(p) ==
  \/ ~Current(p)
  \/ ~run[p].force /\ reload.configFailed

ShortcutOf(p) ==
  LET required == RequiresSandbox(EffectiveMode(p), reload.record.config)
  IN IF ~required /\ reload.sandbox = "ready" THEN "shortcut"
     ELSE IF ~required \/ reload.sandbox = "ready" THEN "answered" ELSE "loading"

TakesShortcut(p) == ~run[p].force /\ Live(reload) /\ ShortcutOf(p) # "loading"

Enter(p) ==
  /\ run[p].at = "lease"
  /\ run[p].target = "yolo" \/ holder = NoProc
  /\ LET place == CASE AnswersAtOnce(p) -> "refused"
                    [] ~AnswersAtOnce(p) /\ TakesShortcut(p) -> ShortcutOf(p)
                    [] ~TakesShortcut(p) /\ ~run[p].force /\ reload.activationFailed
                         /\ EffectiveMode(p) # "yolo" -> "refused"
                    [] OTHER -> "loading"
     IN IF place \in {"refused", "answered"} THEN Answer(p, place = "answered")
        ELSE /\ Move(p, place)
             /\ holder' = IF run[p].target = "yolo" THEN holder ELSE p
  /\ UNCHANGED <<session, permissions, reload, backend, torn, faults>>

(* The config arrives, or does not parse; the previous record is read.     *)
LoadEnds(p, c) ==
  /\ run[p].at = "loading" /\ Outcome(c # NoConfig)
  /\ IF ~Current(p) \/ c = NoConfig THEN Answer(p, FALSE)
     ELSE /\ run' = [run EXCEPT ![p] =
                       IF RequiresSandbox(EffectiveMode(p), c)
                       THEN [@ EXCEPT !.at = "git", !.loaded = c, !.previous = reload.record]
                       ELSE [@ EXCEPT !.at = "bare", !.loaded = c]]
          /\ UNCHANGED holder
  /\ reload' = [reload EXCEPT !.configFailed = @ \/ (Current(p) /\ c = NoConfig)]
  /\ UNCHANGED <<session, permissions, backend, torn>>

GitEnds(p, ok) ==
  /\ run[p].at = "git" /\ Outcome(ok)
  /\ IF ok THEN Move(p, "activating") /\ UNCHANGED holder ELSE Answer(p, FALSE)
  /\ UNCHANGED <<session, permissions, reload, backend, torn>>

(* commitActivation: a forced one revokes every Engine turn first.         *)
CommitActivation(p, base, sandbox) ==
  /\ reload' = Commit(reload, run[p].loaded, base, sandbox)
  /\ permissions' = IF run[p].force THEN InvalidateTurns(permissions) ELSE permissions
  /\ torn' = FALSE
  /\ Answer(p, TRUE)

Abandon(p) ==  \* it throws, and publishes nothing
  /\ torn' = TRUE
  /\ Answer(p, FALSE)
  /\ UNCHANGED <<permissions, reload>>

PublishesAnyway(p) == TRUE  \* mutant: an obsolete activation is not noticed
MayPublish(p) == Current(p)

ResetEnds(p, ok) ==
  /\ run[p].at \in {"shortcut", "bare"} /\ Outcome(ok)
  /\ backend' = NoBase
  /\ CASE ~ok \/ ~MayPublish(p) -> Abandon(p)
       [] ok /\ MayPublish(p) /\ run[p].at = "bare" -> CommitActivation(p, NoBase, "disabled")
       [] OTHER -> /\ reload' = PublishSandbox(reload, "disabled")
                   /\ torn' = FALSE
                   /\ Answer(p, TRUE)
                   /\ UNCHANGED permissions
  /\ UNCHANGED session

(* An obsolete activation is left as the backend has it, up or down; it is *)
(* not rolled back. A rollback takes what is published of the sandbox now, *)
(* not what will be published when it ends.                                *)
ActivateEnds(p, ok) ==
  /\ run[p].at = "activating" /\ Outcome(ok)
  /\ backend' = IF ok THEN BaseOf[run[p].loaded] ELSE NoBase
  /\ CASE ~MayPublish(p) -> Abandon(p)
       [] MayPublish(p) /\ ok -> CommitActivation(p, BaseOf[run[p].loaded], "ready")
       [] OTHER -> /\ run' = [run EXCEPT ![p] = [@ EXCEPT !.at = "restoring",
                                                        !.was = reload.sandbox]]
                   /\ UNCHANGED <<permissions, reload, holder, torn>>
  /\ UNCHANGED session

(* The previous policy is activated again only if it was published ready   *)
(* when the rollback began; otherwise the backend is reset.                *)
RestoreEnds(p, ok) ==
  /\ run[p].at = "restoring" /\ Outcome(ok)
  /\ LET previous == run[p].previous
         was == run[p].was
         again == was = "ready" /\ previous # NoRecord /\ previous.base # NoBase
         state == CASE ~ok -> "failed"
                    [] ok /\ (again \/ was = "disabled") -> was
                    [] OTHER -> "failed"
     IN /\ backend' = IF again /\ ok THEN previous.base ELSE NoBase
        /\ IF ~MayPublish(p) THEN Abandon(p)
           ELSE /\ reload' = Rollback(reload, previous, state)
                /\ torn' = FALSE
                /\ Answer(p, FALSE)
                /\ UNCHANGED permissions
  /\ UNCHANGED session

(* A promise that has settled runs its continuation before the event loop  *)
(* takes an event or an I/O result; a given candidate needs no I/O.        *)
Given(p) == run[p].at = "loading" /\ run[p].loaded # NoConfig

ActivationReady(p) ==
  \/ run[p].at = "shared" /\ holder = NoProc
  \/ run[p].at = "lease" /\ (run[p].target = "yolo" \/ holder = NoProc)
  \/ Given(p)

ActivationContinues(p) ==
  \/ Enter(p)
  \/ \E ok \in BOOLEAN : SharedRead(p, ok)
  \/ Given(p) /\ LoadEnds(p, run[p].loaded)

ActivationIo(p) ==
  \/ ~Given(p) /\ \E c \in Configs \cup {NoConfig} : LoadEnds(p, c)
  \/ \E ok \in BOOLEAN : GitEnds(p, ok) \/ ResetEnds(p, ok) \/ ActivateEnds(p, ok)
                         \/ RestoreEnds(p, ok)
===============================================================================
