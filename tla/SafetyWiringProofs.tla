-------------------------- MODULE SafetyWiringProofs --------------------------
(***************************************************************************)
(* Theorems about the wiring, for any number of agents, tasks, configs and *)
(* nested turns: types; what is published of the sandbox; who publishes;   *)
(* and the levels of session, runtime and ceilings under every order of    *)
(* starts, ends, settles, crashes, transitions and resets.                 *)
(*                                                                         *)
(* Led and SandboxInv are invariant together, LevelsInv on top of Led.     *)
(***************************************************************************)
EXTENDS SafetyWiring, FiniteSetTheorems, SequenceTheorems, TLAPS

(* The activities of a process are records throughout.                     *)
LEMMA RestingIs ==
  /\ Resting \in Activities /\ Resting.op = "none" /\ Resting.at = "none"
  /\ Resting.gen = 0 /\ Resting.turn = 0 /\ Resting.next = "none"
  /\ Resting.target = NoMode /\ Resting.force = FALSE /\ Resting.loaded = NoConfig
  /\ Resting.barrier = 0
  <1>1. /\ Resting.op = "none" /\ Resting.at = "none"
        /\ Resting.gen = 0 /\ Resting.turn = 0 /\ Resting.next = "none"
        /\ Resting.target = NoMode /\ Resting.force = FALSE /\ Resting.loaded = NoConfig
        /\ Resting.barrier = 0
    BY DEF Resting, NoTurn, NoBarrier
  <1>2. Resting \in Activities
    BY DEF Resting, Activities, HostOps, TaskOps, Places, NoTurn, NoBarrier
  <1> QED BY <1>1, <1>2

LEMMA StartingIs ==
  ASSUME NEW op \in HostOps \cup TaskOps
  PROVE  /\ Starting(op) \in Activities /\ Starting(op).op = op /\ Starting(op).at = "none"
         /\ Starting(op).gen = 0 /\ Starting(op).turn = 0 /\ Starting(op).next = "none"
         /\ Starting(op).target = NoMode /\ Starting(op).force = FALSE
         /\ Starting(op).loaded = NoConfig /\ Starting(op).barrier = 0
  BY RestingIs DEF Starting, Activities

LEMMA ActivatingIs ==
  ASSUME NEW a \in Activities, NEW g \in Nat, NEW f \in BOOLEAN,
         NEW m \in Modes \cup {NoMode}, NEW c \in Configs \cup {NoConfig}
  PROVE  \E z \in Activities :
            /\ Activating(a, g, f, m, c) = z /\ z.at \in {"shared", "lease"}
            /\ z.op = a.op /\ z.turn = a.turn /\ z.next = a.next /\ z.barrier = a.barrier
            /\ z.gen = g /\ z.target = m /\ z.force = f /\ z.loaded = c
  <1> DEFINE place == IF ~f /\ c = NoConfig /\ m # "yolo" THEN "shared" ELSE "lease"
             z == [a EXCEPT !.at = place, !.gen = g, !.target = m, !.force = f, !.loaded = c,
                    !.ok = FALSE]
  <1>1. place \in {"shared", "lease"}
    OBVIOUS
  <1>2. Activating(a, g, f, m, c) = z
    BY DEF Activating
  <1> HIDE DEF place
  <1>3. z \in Activities
    BY <1>1, ZenonT(40) DEF Activities, Places
  <1>4. /\ z.at = place
            /\ z.op = a.op /\ z.turn = a.turn /\ z.next = a.next /\ z.barrier = a.barrier
            /\ z.gen = g /\ z.target = m /\ z.force = f /\ z.loaded = c
    BY <1>1 DEF Activities, Places
  <1> HIDE DEF z
  <1> QED BY <1>1, <1>2, <1>3, <1>4

Activations ==
  {"shared", "lease", "loading", "git", "shortcut", "bare", "activating", "restoring"}
Boxed == {"git", "activating", "restoring"}
Nesting == {"drain-lease", "draining", "materializing"}

(* What the place of an activity says of the rest of it.                   *)
Sound(a) ==
  /\ a \in Activities
  /\ a.at \in Boxed \cup {"bare"} => a.loaded \in Configs
  /\ a.at \in Boxed => BaseOf[a.loaded] # NoBase /\ a.target # "yolo"
  /\ a.at \in {"closing-lease", "closing"} => a.op = "shutdown"
  /\ a.op \in {"refresh-up", "refresh-down"} => a.target \in Modes
  /\ a.op = "nest" <=> a.at \in Nesting
  /\ a.at = "barrier" => a.op = "start"
  /\ a.at \in {"parser", "begin", "prepared"} => a.op = "prepare"

OpsOf(p) == IF p = Host THEN HostOps ELSE TaskOps
Typed == TypeOK /\ \A p \in Procs : Sound(run[p]) /\ run[p].op \in OpsOf(p)

(* The activity x goes on as a, for the same caller.                       *)
Carried(x, a) ==
  /\ a.op = x.op /\ a.gen = x.gen /\ a.target = x.target /\ a.force = x.force
  /\ a.turn = x.turn /\ a.parent = x.parent /\ a.barrier = x.barrier /\ a.next = x.next

LEMMA MovedIs ==
  ASSUME NEW x \in Activities, NEW place \in Places
  PROVE  LET a == [x EXCEPT !.at = place]
         IN a \in Activities /\ a.at = place /\ a.loaded = x.loaded
            /\ a.previous = x.previous /\ Carried(x, a)
  <1> DEFINE a == [x EXCEPT !.at = place]
  <1>1. a \in Activities /\ a.at = place /\ a.loaded = x.loaded /\ a.previous = x.previous
    BY DEF Activities
  <1>2. Carried(x, a)
    BY DEF Activities, Carried
  <1> QED BY <1>1, <1>2

LEMMA RestoringIs ==
  ASSUME NEW x \in Activities, NEW r \in Reloads
  PROVE  LET a == [x EXCEPT !.at = "restoring", !.was = r.sandbox]
         IN a \in Activities /\ a.at = "restoring" /\ a.loaded = x.loaded /\ Carried(x, a)
  <1> DEFINE a == [x EXCEPT !.at = "restoring", !.was = r.sandbox]
  <1>1. r.sandbox \in {"pending", "disabled", "ready", "failed"}
    BY DEF Reloads
  <1>2. a \in Activities /\ a.at = "restoring" /\ a.loaded = x.loaded
    BY <1>1 DEF Activities, Places
  <1>3. Carried(x, a)
    BY DEF Activities, Carried
  <1> QED BY <1>2, <1>3

LEMMA AnsweredIs ==
  ASSUME NEW x \in Activities, NEW ok \in BOOLEAN
  PROVE  LET a == [x EXCEPT !.at = "answered", !.ok = ok, !.loaded = NoConfig,
                            !.previous = NoRecord, !.was = "pending"]
         IN a \in Activities /\ a.at = "answered" /\ a.ok = ok /\ Carried(x, a)
  <1> DEFINE a == [x EXCEPT !.at = "answered", !.ok = ok, !.loaded = NoConfig,
                            !.previous = NoRecord, !.was = "pending"]
  <1>1. a \in Activities /\ a.at = "answered" /\ a.ok = ok
    BY ZenonT(40) DEF Activities, Places
  <1>2. Carried(x, a)
    BY DEF Activities, Carried
  <1> QED BY <1>1, <1>2

(* Whoever holds the lease is known by where it is.                        *)
Leased(a) ==
  \/ a.at \in Boxed \cup {"closing", "draining"}
  \/ a.at = "loading" /\ a.target # "yolo"
LeaseHeld == \A p \in Procs : Leased(run[p]) => holder = p

LeaseMoves(p, a) ==
  /\ holder' = holder \/ (holder = NoProc /\ holder' = p) \/ (holder = p /\ holder' = NoProc)
  /\ Leased(a) => holder' = p

(* What an await does to the backend and to what is published of it.       *)
Touches(p, a) ==
  \/ /\ run[p].at \in {"shared", "lease", "loading", "git"} /\ a.at # "restoring"
     /\ UNCHANGED <<backend, torn>>
     /\ reload'.record = reload.record /\ reload'.sandbox = reload.sandbox
     /\ a.at \in Boxed => run[p].at = "git" \/ Current(p)
  \/ /\ run[p].at = "activating" /\ a.at = "restoring" /\ Current(p)
  \/ /\ run[p].at \in {"shortcut", "bare", "activating", "restoring"} /\ a.at = "answered"
     /\ torn' \/ (reload'.sandbox = "ready" => backend' = InstalledBase' /\ backend' # NoBase)
     /\ Current(p) \/ run[p].at \notin Boxed =>
          (backend' # NoBase => reload'.sandbox = "ready" /\ backend' = InstalledBase')
     /\ run[p].at \notin Boxed => reload' = reload \/ reload'.sandbox # "ready"

(* An await of an activation, or its answer, in its caller's eyes.         *)
Advances(p, a) ==
  /\ run' = [run EXCEPT ![p] = a] /\ Carried(run[p], a) /\ Sound(a)
  /\ run[p].at \in Activations /\ a.at \in (Activations \ {"shared"}) \cup {"answered"}
  /\ a.at # run[p].at
  /\ session' = session /\ permissions' \in {permissions, NewRuntime}
  /\ reload' \in Reloads /\ reload'.mode = reload.mode
  /\ backend' \in Bases /\ torn' \in BOOLEAN /\ faults' \in Nat
  /\ Published(reload') # Published(reload) => Current(p)
  /\ LeaseMoves(p, a) /\ Touches(p, a)

LEMMA AnswerAdvances ==
  ASSUME Typed, LeaseHeld, NEW p \in Procs, run[p].at \in Activations,
         NEW ok \in BOOLEAN, Answer(p, ok)
  PROVE  \E a \in Activities :
            /\ run' = [run EXCEPT ![p] = a] /\ Carried(run[p], a) /\ Sound(a)
            /\ a.at = "answered" /\ a.ok = ok /\ LeaseMoves(p, a)
  <1> DEFINE a == [run[p] EXCEPT !.at = "answered", !.ok = ok, !.loaded = NoConfig,
                                 !.previous = NoRecord, !.was = "pending"]
  <1>1. run[p] \in Activities /\ Sound(run[p])
    BY DEF Typed, TypeOK
  <1>2. a \in Activities /\ a.at = "answered" /\ a.ok = ok /\ Carried(run[p], a)
    BY <1>1, AnsweredIs
  <1>3. run' = [run EXCEPT ![p] = a]
    BY DEF Answer
  <1> HIDE DEF a
  <1>4. Sound(a)
    BY <1>1, <1>2 DEF Sound, Carried, Boxed, Nesting, Activations
  <1>5. LeaseMoves(p, a)
    BY <1>2 DEF LeaseMoves, Leased, Boxed, Answer, Free
  <1> QED BY <1>2, <1>3, <1>4, <1>5

LEMMA OutcomeTyped ==
  ASSUME faults \in Nat, NEW ok, Outcome(ok)
  PROVE  faults' \in Nat
  BY DEF Outcome

LEMMA EnterAdvances ==
  ASSUME Typed, LeaseHeld, NEW p \in Procs, Enter(p)
  PROVE  \E a \in Activities : Advances(p, a)
  <1> DEFINE place == CASE AnswersAtOnce(p) -> "refused"
                        [] ~AnswersAtOnce(p) /\ TakesShortcut(p) -> ShortcutOf(p)
                        [] ~TakesShortcut(p) /\ ~run[p].force /\ reload.activationFailed
                             /\ EffectiveMode(p) # "yolo" -> "refused"
                        [] OTHER -> "loading"
             a == [run[p] EXCEPT !.at = place]
  <1>1. run[p].at = "lease" /\ run[p] \in Activities /\ Sound(run[p])
    BY DEF Typed, TypeOK, Enter
  <1>2. UNCHANGED <<session, permissions, reload, backend, torn, faults>>
    BY DEF Enter
  <1>3. place \in {"refused", "answered", "shortcut", "loading"}
    BY DEF ShortcutOf
  <1>4. TypeOK
    BY DEF Typed
  <1>5. CASE place \in {"refused", "answered"}
    <2>1. Answer(p, place = "answered")
      BY <1>5 DEF Enter
    <2> HIDE DEF place
    <2>2. PICK z \in Activities : /\ run' = [run EXCEPT ![p] = z] /\ Carried(run[p], z) /\ Sound(z)
                                  /\ z.at = "answered" /\ LeaseMoves(p, z)
      BY <2>1, <1>1, AnswerAdvances DEF Activations
    <2> QED BY <2>2, <1>1, <1>2, <1>4 DEF Advances, Touches, Boxed, TypeOK, Activations
  <1>6. CASE place \in {"shortcut", "loading"}
    <2>1. /\ Move(p, place) /\ holder' = IF run[p].target = "yolo" THEN holder ELSE p
          /\ run[p].target = "yolo" \/ holder = NoProc
      BY <1>6 DEF Enter
    <2> HIDE DEF place
    <2>2. a \in Activities /\ a.at = place /\ Carried(run[p], a)
      <3>1. place \in Places
        BY <1>6 DEF Places
      <3> QED BY <3>1, <1>1, MovedIs
    <2>3. run' = [run EXCEPT ![p] = a]
      BY <2>1, <1>1, <1>4 DEF Move, TypeOK
    <2> HIDE DEF a
    <2>4. Sound(a)
      BY <1>1, <1>6, <2>2 DEF Sound, Carried, Boxed, Nesting
    <2>5. LeaseMoves(p, a)
      BY <2>1, <2>2, <1>6 DEF LeaseMoves, Leased, Boxed, Carried
    <2> QED BY <2>2, <2>3, <2>4, <2>5, <1>1, <1>2, <1>4, <1>6
        DEF Advances, Touches, Boxed, TypeOK, Activations
  <1> HIDE DEF place
  <1> QED BY <1>3, <1>5, <1>6

LEMMA SharedReadAdvances ==
  ASSUME Typed, LeaseHeld, NEW p \in Procs, NEW ok \in BOOLEAN, SharedRead(p, ok)
  PROVE  \E a \in Activities : Advances(p, a)
  <1>1. run[p].at = "shared" /\ run[p] \in Activities /\ Sound(run[p]) /\ TypeOK
    BY DEF Typed, TypeOK, SharedRead
  <1>2. UNCHANGED <<session, permissions, reload, backend, torn>> /\ faults' \in Nat
    BY <1>1, OutcomeTyped DEF SharedRead, TypeOK
  <1>3. \/ Answer(p, FALSE) \/ Answer(p, ok) \/ (Move(p, "lease") /\ UNCHANGED holder)
    BY DEF SharedRead
  <1>4. ASSUME NEW b \in BOOLEAN, Answer(p, b)
        PROVE  \E a \in Activities : Advances(p, a)
    <2>2. PICK z \in Activities : /\ run' = [run EXCEPT ![p] = z] /\ Carried(run[p], z) /\ Sound(z)
                                  /\ z.at = "answered" /\ LeaseMoves(p, z)
      BY <1>4, <1>1, AnswerAdvances DEF Activations
    <2> QED BY <2>2, <1>1, <1>2 DEF Advances, Touches, Boxed, TypeOK, Activations
  <1>5. CASE Move(p, "lease") /\ UNCHANGED holder
    <2> DEFINE a == [run[p] EXCEPT !.at = "lease"]
    <2>2. a \in Activities /\ a.at = "lease" /\ Carried(run[p], a)
      BY <1>1, MovedIs, ZenonT(40) DEF Places
    <2>3. run' = [run EXCEPT ![p] = a]
      BY <1>5, <1>1 DEF Move, TypeOK
    <2> HIDE DEF a
    <2>4. Sound(a)
      BY <1>1, <2>2 DEF Sound, Carried, Boxed, Nesting
    <2>5. LeaseMoves(p, a)
      BY <1>5, <2>2 DEF LeaseMoves, Leased, Boxed
    <2> QED BY <2>2, <2>3, <2>4, <2>5, <1>1, <1>2 DEF Advances, Touches, Boxed, TypeOK, Activations
  <1> QED BY <1>3, <1>4, <1>5

LEMMA GitEndsAdvances ==
  ASSUME Typed, LeaseHeld, NEW p \in Procs, NEW ok \in BOOLEAN, GitEnds(p, ok)
  PROVE  \E a \in Activities : Advances(p, a)
  <1>1. run[p].at = "git" /\ run[p] \in Activities /\ Sound(run[p]) /\ TypeOK
    BY DEF Typed, TypeOK, GitEnds
  <1>2. UNCHANGED <<session, permissions, reload, backend, torn>> /\ faults' \in Nat
    BY <1>1, OutcomeTyped DEF GitEnds, TypeOK
  <1>3. CASE ~ok
    <2>1. Answer(p, FALSE)
      BY <1>3 DEF GitEnds
    <2>2. PICK z \in Activities : /\ run' = [run EXCEPT ![p] = z] /\ Carried(run[p], z) /\ Sound(z)
                                  /\ z.at = "answered" /\ LeaseMoves(p, z)
      BY <2>1, <1>1, AnswerAdvances DEF Activations
    <2> QED BY <2>2, <1>1, <1>2 DEF Advances, Touches, Boxed, TypeOK, Activations
  <1>4. CASE ok
    <2> DEFINE a == [run[p] EXCEPT !.at = "activating"]
    <2>2. a \in Activities /\ a.at = "activating" /\ a.loaded = run[p].loaded /\ Carried(run[p], a)
      BY <1>1, MovedIs DEF Places
    <2>3. run' = [run EXCEPT ![p] = a] /\ UNCHANGED holder
      BY <1>4, <1>1 DEF Move, TypeOK, GitEnds
    <2> HIDE DEF a
    <2>4. Sound(a)
      BY <1>1, <2>2 DEF Sound, Carried, Boxed, Nesting
    <2>5. LeaseMoves(p, a)
      BY <1>1, <2>3 DEF LeaseMoves, LeaseHeld, Leased, Boxed
    <2> QED BY <2>2, <2>3, <2>4, <2>5, <1>1, <1>2 DEF Advances, Touches, Boxed, TypeOK, Activations
  <1> QED BY <1>3, <1>4

LEMMA LoadEndsAdvances ==
  ASSUME Typed, LeaseHeld, NEW p \in Procs, NEW c \in Configs \cup {NoConfig}, LoadEnds(p, c)
  PROVE  \E a \in Activities : Advances(p, a)
  <1>1. run[p].at = "loading" /\ run[p] \in Activities /\ Sound(run[p]) /\ TypeOK
    BY DEF Typed, TypeOK, LoadEnds
  <1>2. UNCHANGED <<session, permissions, backend, torn>> /\ faults' \in Nat
    BY <1>1, OutcomeTyped DEF LoadEnds, TypeOK
  <1>3. /\ reload' \in Reloads /\ reload'.mode = reload.mode
        /\ Published(reload') # Published(reload) => Current(p)
        /\ reload'.record = reload.record /\ reload'.sandbox = reload.sandbox
    <2> DEFINE failed == reload.configFailed \/ (Current(p) /\ c = NoConfig)
    <2>1. reload' = [reload EXCEPT !.configFailed = failed] /\ reload \in Reloads
      BY <1>1 DEF LoadEnds, TypeOK
    <2>2. reload.configFailed \in BOOLEAN /\ failed \in BOOLEAN
             /\ (~Current(p) => failed = reload.configFailed)
      BY <2>1 DEF Reloads
    <2> HIDE DEF failed
    <2>3. /\ reload' \in Reloads /\ reload'.mode = reload.mode /\ reload'.record = reload.record
          /\ reload'.sandbox = reload.sandbox /\ reload'.activationFailed = reload.activationFailed
          /\ reload'.configFailed = failed
      BY <2>1, <2>2 DEF Reloads
    <2> QED BY <2>2, <2>3 DEF Published
  <1>4. CASE ~Current(p) \/ c = NoConfig
    <2>1. Answer(p, FALSE)
      BY <1>4 DEF LoadEnds
    <2>2. PICK z \in Activities : /\ run' = [run EXCEPT ![p] = z] /\ Carried(run[p], z) /\ Sound(z)
                                  /\ z.at = "answered" /\ LeaseMoves(p, z)
      BY <2>1, <1>1, AnswerAdvances DEF Activations
    <2> QED BY <2>2, <1>1, <1>2, <1>3 DEF Advances, Touches, Boxed, TypeOK, Activations
  <1>5. CASE Current(p) /\ c # NoConfig /\ RequiresSandbox(EffectiveMode(p), c)
    <2> DEFINE a == [run[p] EXCEPT !.at = "git", !.loaded = c, !.previous = reload.record]
    <2>1. /\ run[p] \in Activities /\ c \in Configs \cup {NoConfig}
          /\ reload.record \in Records \cup {NoRecord}
      BY <1>1 DEF TypeOK, Reloads
    <2>2. a \in Activities /\ a.at = "git" /\ a.loaded = c /\ Carried(run[p], a)
      BY <2>1, ZenonT(40) DEF Activities, Places, Carried
    <2>3. run' = [run EXCEPT ![p] = a] /\ UNCHANGED holder
      BY <1>5, <1>1 DEF LoadEnds
    <2> HIDE DEF a
    <2>4. c \in Configs /\ BaseOf[c] # NoBase /\ run[p].target # "yolo"
      <3>1. EffectiveMode(p) # "yolo" /\ BaseOf[c] # NoBase
        BY <1>5 DEF RequiresSandbox
      <3>2. NoMode # "yolo"
        BY NullAssumption DEF Modes
      <3>3. run[p].target # NoMode => EffectiveMode(p) = run[p].target
        BY DEF EffectiveMode
      <3> QED BY <1>5, <3>1, <3>2, <3>3
    <2>5. Sound(a)
      BY <1>1, <2>2, <2>4 DEF Sound, Carried, Boxed, Nesting
    <2>6. LeaseMoves(p, a)
      BY <1>1, <2>3, <2>4 DEF LeaseMoves, LeaseHeld, Leased, Boxed
    <2> QED BY <2>2, <2>3, <2>5, <2>6, <1>1, <1>2, <1>3, <1>5 DEF Advances, Touches, Boxed, TypeOK, Activations
  <1>6. CASE Current(p) /\ c # NoConfig /\ ~RequiresSandbox(EffectiveMode(p), c)
    <2> DEFINE a == [run[p] EXCEPT !.at = "bare", !.loaded = c]
    <2>2. a \in Activities /\ a.at = "bare" /\ a.loaded = c /\ Carried(run[p], a)
      BY <1>1 DEF Activities, Places, Carried
    <2>3. run' = [run EXCEPT ![p] = a] /\ UNCHANGED holder
      BY <1>6, <1>1 DEF LoadEnds
    <2> HIDE DEF a
    <2>4. Sound(a)
      BY <1>1, <1>6, <2>2 DEF Sound, Carried, Boxed, Nesting
    <2>5. LeaseMoves(p, a)
      BY <2>2, <2>3 DEF LeaseMoves, Leased, Boxed
    <2> QED BY <2>2, <2>3, <2>4, <2>5, <1>1, <1>2, <1>3 DEF Advances, Touches, Boxed, TypeOK, Activations
  <1> QED BY <1>4, <1>5, <1>6

(* What a settled activation publishes, for whoever it was called.         *)
LEMMA CommittedIs ==
  ASSUME NEW r \in Reloads, NEW c \in Configs, NEW base \in Bases,
         NEW box \in {"disabled", "ready"}
  PROVE  /\ Commit(r, c, base, box) \in Reloads /\ Commit(r, c, base, box).mode = r.mode
         /\ Commit(r, c, base, box).record # NoRecord
         /\ Commit(r, c, base, box).record.base = base
         /\ Commit(r, c, base, box).sandbox = box
  <1> DEFINE rec == [config |-> c, base |-> base]
             z == Commit(r, c, base, box)
  <1>1. rec \in Records /\ rec.base = base /\ rec # NoRecord
    BY NullAssumption DEF Records
  <1>2. z = [r EXCEPT !.record = rec, !.sandbox = box,
                      !.configFailed = FALSE, !.activationFailed = FALSE]
    BY DEF Commit
  <1> HIDE DEF rec, z
  <1>3. z \in Reloads /\ z.mode = r.mode /\ z.record = rec /\ z.sandbox = box
    BY <1>1, <1>2 DEF Reloads
  <1> QED BY <1>1, <1>3 DEF z

LEMMA CommitIs ==
  ASSUME Typed, LeaseHeld, NEW p \in Procs, run[p].at \in Activations,
         run[p].loaded \in Configs,
         NEW base \in Bases, NEW box \in {"disabled", "ready"}, CommitActivation(p, base, box)
  PROVE  /\ reload' \in Reloads /\ reload'.mode = reload.mode
         /\ reload'.record # NoRecord /\ reload'.record.base = base /\ reload'.sandbox = box
         /\ permissions' \in {permissions, NewRuntime} /\ torn' = FALSE /\ Answer(p, TRUE)
  <1>1. reload' = Commit(reload, run[p].loaded, base, box) /\ reload \in Reloads
    BY DEF CommitActivation, Typed, TypeOK
  <1>2. permissions' \in {permissions, NewRuntime} /\ torn' = FALSE /\ Answer(p, TRUE)
    BY DEF CommitActivation, InvalidateTurns
  <1>3. LET z == Commit(reload, run[p].loaded, base, box)
        IN z \in Reloads /\ z.mode = reload.mode /\ z.record # NoRecord
           /\ z.record.base = base /\ z.sandbox = box
    BY <1>1, CommittedIs
  <1> QED BY <1>1, <1>2, <1>3

LEMMA PublishIs ==
  ASSUME NEW r \in Reloads, NEW box \in {"pending", "disabled", "ready", "failed"}
  PROVE  /\ PublishSandbox(r, box) \in Reloads /\ PublishSandbox(r, box).mode = r.mode
         /\ PublishSandbox(r, box).sandbox = box
         /\ r.record = NoRecord => PublishSandbox(r, box).record = NoRecord
         /\ r.record # NoRecord => /\ PublishSandbox(r, box).record # NoRecord
                                   /\ PublishSandbox(r, box).record.base = NoBase
  <1> DEFINE rec == IF r.record = NoRecord THEN r.record ELSE [r.record EXCEPT !.base = NoBase]
             z == PublishSandbox(r, box)
  <1>1. /\ rec \in Records \cup {NoRecord}
        /\ r.record = NoRecord => rec = NoRecord
        /\ r.record # NoRecord => rec # NoRecord /\ rec.base = NoBase
    BY NullAssumption DEF Reloads, Records, Bases
  <1>2. z = [r EXCEPT !.sandbox = box, !.record = rec]
    BY DEF PublishSandbox
  <1> HIDE DEF rec, z
  <1>3. z \in Reloads /\ z.mode = r.mode /\ z.sandbox = box /\ z.record = rec
    BY <1>1, <1>2 DEF Reloads
  <1> QED BY <1>1, <1>3 DEF z

LEMMA RollbackIs ==
  ASSUME NEW r \in Reloads, NEW prev \in Records \cup {NoRecord},
         NEW box \in {"pending", "disabled", "ready", "failed"}
  PROVE  /\ Rollback(r, prev, box) \in Reloads /\ Rollback(r, prev, box).mode = r.mode
         /\ Rollback(r, prev, box).sandbox = box /\ Rollback(r, prev, box).record = prev
  <1> DEFINE failed == r.activationFailed \/ prev = NoRecord
             z == Rollback(r, prev, box)
  <1>1. failed \in BOOLEAN
    BY DEF Reloads
  <1>2. z = [r EXCEPT !.record = prev, !.sandbox = box, !.activationFailed = failed]
    BY DEF Rollback
  <1> HIDE DEF failed, z
  <1>3. z \in Reloads /\ z.mode = r.mode /\ z.sandbox = box /\ z.record = prev
    BY <1>1, <1>2 DEF Reloads
  <1> QED BY <1>3 DEF z

(* An await of the backend that is not the last word on it.                *)
LEMMA AbandonIs ==
  ASSUME Typed, NEW p \in Procs, Abandon(p)
  PROVE  /\ UNCHANGED <<permissions, reload>> /\ torn' = TRUE /\ Answer(p, FALSE)
         /\ reload' \in Reloads
  BY DEF Abandon, Typed, TypeOK

LEMMA ResetEndsAdvances ==
  ASSUME Typed, LeaseHeld, NEW p \in Procs, NEW ok \in BOOLEAN, ResetEnds(p, ok)
  PROVE  \E a \in Activities : Advances(p, a)
  <1>1. /\ run[p].at \in {"shortcut", "bare"} /\ run[p] \in Activities /\ Sound(run[p]) /\ TypeOK
        /\ run[p].at \in Activations
    BY DEF Typed, TypeOK, ResetEnds, Activations
  <1>2. session' = session /\ backend' = NoBase /\ faults' \in Nat /\ reload \in Reloads
        /\ backend' \in Bases
    BY <1>1, OutcomeTyped DEF ResetEnds, TypeOK, Bases
  <1>3. ASSUME NEW b \in BOOLEAN, Answer(p, b), permissions' \in {permissions, NewRuntime},
               reload' \in Reloads, reload'.mode = reload.mode, torn' \in BOOLEAN,
               reload' = reload \/ (Current(p) /\ reload'.sandbox # "ready"),
               torn' \/ reload'.sandbox # "ready"
        PROVE  \E a \in Activities : Advances(p, a)
    <2>2. PICK z \in Activities : /\ run' = [run EXCEPT ![p] = z] /\ Carried(run[p], z) /\ Sound(z)
                                  /\ z.at = "answered" /\ LeaseMoves(p, z)
      BY <1>1, <1>3, AnswerAdvances
    <2>3. Touches(p, z)
      BY <1>1, <1>2, <1>3, <2>2 DEF Touches, Boxed
    <2> QED BY <2>2, <2>3, <1>1, <1>2, <1>3 DEF Advances
  <1>4. CASE ~ok \/ ~MayPublish(p)
    <2>1. Abandon(p)
      BY <1>4 DEF ResetEnds
    <2> QED BY <2>1, <1>2, <1>3, AbandonIs
  <1>5. CASE ok /\ MayPublish(p) /\ run[p].at = "bare"
    <2>1. CommitActivation(p, NoBase, "disabled") /\ NoBase \in Bases /\ run[p].loaded \in Configs
      BY <1>1, <1>5 DEF ResetEnds, Bases, Sound
    <2> QED BY <2>1, <1>1, <1>3, <1>5, CommitIs DEF MayPublish
  <1>6. CASE ok /\ MayPublish(p) /\ run[p].at # "bare"
    <2>1. /\ reload' = PublishSandbox(reload, "disabled") /\ torn' = FALSE
          /\ Answer(p, TRUE) /\ UNCHANGED permissions
      BY <1>6 DEF ResetEnds
    <2> QED BY <2>1, <1>2, <1>3, <1>6, PublishIs DEF MayPublish
  <1> QED BY <1>4, <1>5, <1>6

LEMMA ActivateEndsAdvances ==
  ASSUME Typed, LeaseHeld, NEW p \in Procs, NEW ok \in BOOLEAN, ActivateEnds(p, ok)
  PROVE  \E a \in Activities : Advances(p, a)
  <1>1. /\ run[p].at = "activating" /\ run[p] \in Activities /\ Sound(run[p]) /\ TypeOK
        /\ run[p].at \in Activations
    BY DEF Typed, TypeOK, ActivateEnds, Activations
  <1>2. /\ run[p].loaded \in Configs /\ BaseOf[run[p].loaded] \in Bases
        /\ BaseOf[run[p].loaded] # NoBase /\ NoBase \in Bases
    BY <1>1, ConfigAssumption DEF Sound, Boxed, Bases
  <1>3. /\ session' = session /\ faults' \in Nat /\ reload \in Reloads
        /\ backend' = IF ok THEN BaseOf[run[p].loaded] ELSE NoBase
        /\ backend' \in Bases
    BY <1>1, <1>2, OutcomeTyped DEF ActivateEnds, TypeOK
  <1>4. ASSUME NEW b \in BOOLEAN, Answer(p, b), permissions' \in {permissions, NewRuntime},
               reload' \in Reloads, reload'.mode = reload.mode, torn' \in BOOLEAN,
               reload' = reload \/ Current(p),
               IF Current(p) THEN reload'.sandbox = "ready" /\ backend' = InstalledBase'
                                    /\ backend' # NoBase
               ELSE torn'
        PROVE  \E a \in Activities : Advances(p, a)
    <2>2. PICK z \in Activities : /\ run' = [run EXCEPT ![p] = z] /\ Carried(run[p], z) /\ Sound(z)
                                  /\ z.at = "answered" /\ LeaseMoves(p, z)
      BY <1>1, <1>4, AnswerAdvances
    <2>3. Touches(p, z)
      BY <1>1, <1>4, <2>2 DEF Touches, Boxed
    <2> QED BY <2>2, <2>3, <1>1, <1>3, <1>4 DEF Advances
  <1>5. CASE ~MayPublish(p)
    <2>1. Abandon(p)
      BY <1>5 DEF ActivateEnds
    <2> QED BY <2>1, <1>4, <1>5, AbandonIs DEF MayPublish
  <1>6. CASE MayPublish(p) /\ ok
    <2>1. CommitActivation(p, BaseOf[run[p].loaded], "ready")
      BY <1>6 DEF ActivateEnds
    <2>2. /\ reload' \in Reloads /\ reload'.mode = reload.mode
          /\ reload'.record # NoRecord /\ reload'.record.base = BaseOf[run[p].loaded]
          /\ reload'.sandbox = "ready"
          /\ permissions' \in {permissions, NewRuntime} /\ torn' = FALSE /\ Answer(p, TRUE)
      BY <2>1, <1>1, <1>2, CommitIs
    <2>3. backend' = InstalledBase' /\ backend' # NoBase
      BY <2>2, <1>2, <1>3, <1>6 DEF InstalledBase
    <2> QED BY <2>2, <2>3, <1>4, <1>6 DEF MayPublish
  <1>7. CASE MayPublish(p) /\ ~ok
    <2> DEFINE a == [run[p] EXCEPT !.at = "restoring", !.was = reload.sandbox]
    <2>1. run' = [run EXCEPT ![p] = a] /\ UNCHANGED <<permissions, reload, holder, torn>>
      BY <1>7 DEF ActivateEnds
    <2>2. a \in Activities /\ a.at = "restoring" /\ a.loaded = run[p].loaded /\ Carried(run[p], a)
      BY <1>1, <1>3, RestoringIs
    <2>3. run' = [run EXCEPT ![p] = a]
      BY <2>1
    <2> HIDE DEF a
    <2>4. Sound(a)
      BY <1>1, <2>2 DEF Sound, Carried, Boxed, Nesting
    <2>5. LeaseMoves(p, a)
      BY <1>1, <2>1 DEF LeaseMoves, LeaseHeld, Leased, Boxed
    <2>6. Touches(p, a)
      BY <1>1, <1>7, <2>2 DEF Touches, MayPublish
    <2> QED BY <2>1, <2>2, <2>3, <2>4, <2>5, <2>6, <1>1, <1>3 DEF Advances, TypeOK, Activations
  <1> QED BY <1>5, <1>6, <1>7

LEMMA RestoreEndsAdvances ==
  ASSUME Typed, LeaseHeld, NEW p \in Procs, NEW ok \in BOOLEAN, RestoreEnds(p, ok)
  PROVE  \E a \in Activities : Advances(p, a)
  <1> DEFINE previous == run[p].previous
             was == run[p].was
             again == was = "ready" /\ previous # NoRecord /\ previous.base # NoBase
             state == CASE ~ok -> "failed"
                        [] ok /\ (again \/ was = "disabled") -> was
                        [] OTHER -> "failed"
  <1>1. /\ run[p].at = "restoring" /\ run[p] \in Activities /\ Sound(run[p]) /\ TypeOK
        /\ run[p].at \in Activations
    BY DEF Typed, TypeOK, RestoreEnds, Activations
  <1>2. previous \in Records \cup {NoRecord} /\ (previous # NoRecord => previous.base \in Bases)
    BY <1>1 DEF Activities, Records
  <1>3. /\ session' = session /\ faults' \in Nat /\ reload \in Reloads
        /\ backend' = IF again /\ ok THEN previous.base ELSE NoBase
    BY <1>1, OutcomeTyped DEF RestoreEnds, TypeOK
  <1>4. backend' \in Bases
    BY <1>2, <1>3 DEF Bases
  <1>5. ASSUME NEW b \in BOOLEAN, Answer(p, b), permissions' = permissions,
               reload' \in Reloads, reload'.mode = reload.mode, torn' \in BOOLEAN,
               reload' = reload \/ Current(p),
               IF Current(p)
               THEN /\ reload'.sandbox = "ready" => backend' = InstalledBase' /\ backend' # NoBase
                    /\ backend' # NoBase => reload'.sandbox = "ready" /\ backend' = InstalledBase'
               ELSE torn'
        PROVE  \E a \in Activities : Advances(p, a)
    <2>2. PICK z \in Activities : /\ run' = [run EXCEPT ![p] = z] /\ Carried(run[p], z) /\ Sound(z)
                                  /\ z.at = "answered" /\ LeaseMoves(p, z)
      BY <1>1, <1>5, AnswerAdvances
    <2>3. Touches(p, z)
      BY <1>1, <1>5, <2>2 DEF Touches, Boxed
    <2> QED BY <2>2, <2>3, <1>1, <1>3, <1>4, <1>5 DEF Advances
  <1>6. CASE ~MayPublish(p)
    <2>1. Abandon(p)
      BY <1>6 DEF RestoreEnds
    <2> QED BY <2>1, <1>5, <1>6, AbandonIs DEF MayPublish
  <1>7. CASE MayPublish(p)
    <2>1. /\ reload' = Rollback(reload, previous, state) /\ torn' = FALSE
          /\ Answer(p, FALSE) /\ UNCHANGED permissions
      BY <1>7 DEF RestoreEnds
    <2>2. /\ state \in {"pending", "disabled", "ready", "failed"}
          /\ state = "ready" <=> again /\ ok
      BY <1>1 DEF Activities
    <2> HIDE DEF state, previous
    <2>3. /\ reload' \in Reloads /\ reload'.mode = reload.mode
          /\ reload'.sandbox = state /\ reload'.record = previous
      <3>1. reload \in Reloads /\ previous \in Records \cup {NoRecord}
        BY <1>2, <1>3
      <3>2. /\ Rollback(reload, previous, state) \in Reloads
            /\ Rollback(reload, previous, state).mode = reload.mode
            /\ Rollback(reload, previous, state).sandbox = state
            /\ Rollback(reload, previous, state).record = previous
        BY ONLY <3>1, <2>2, RollbackIs, ZenonT(40)
      <3> QED BY <3>2, <2>1
    <2>4. again /\ ok => backend' = InstalledBase' /\ backend' # NoBase
      BY <2>3, <1>3 DEF InstalledBase
    <2>5. ~(again /\ ok) => backend' = NoBase
      BY <1>3
    <2> HIDE DEF again
    <2> QED BY <2>1, <2>2, <2>3, <2>4, <2>5, <1>5, <1>7 DEF MayPublish
  <1> QED BY <1>6, <1>7

LEMMA ActivationAdvances ==
  ASSUME Typed, LeaseHeld, NEW p \in Procs, ActivationContinues(p) \/ ActivationIo(p)
  PROVE  \E a \in Activities : Advances(p, a)
  <1>1. run[p].loaded \in Configs \cup {NoConfig}
    BY DEF Typed, TypeOK, Activities
  <1> QED BY <1>1, EnterAdvances, SharedReadAdvances, LoadEndsAdvances, GitEndsAdvances,
             ResetEndsAdvances, ActivateEndsAdvances, RestoreEndsAdvances
          DEF ActivationContinues, ActivationIo

-------------------------------------------------------------------------------
(* The operators of the permission session, field by field.                *)
Runtimes == [turn : Levels, levels : Seq(Levels)]
Envelopes == (SUBSET Roots) \cup {NoEnvelope}

Stacks(z, s) ==
  /\ z.phase = s.phase /\ z.turn = s.turn /\ z.snapshot = s.snapshot /\ z.depth = s.depth
  /\ z.nested = s.nested /\ z.ceilings = s.ceilings
Counts(z, s) ==
  z.generation = s.generation /\ z.turns = s.turns /\ z.observed = s.observed
Beside(z, s) ==
  z \in Sessions /\ Stacks(z, s) /\ Counts(z, s) /\ z.awaiting = s.awaiting

LEMMA SettledIs ==
  ASSUME NEW s \in Sessions, NEW b \in Nat, NEW answer \in {"open", "ready", "refused"}
  PROVE  Beside(Settled(s, b, answer), s) /\ Settled(s, b, answer).inFlight = s.inFlight
  <1> DEFINE q == [s.barriers EXCEPT ![b] = IF @ = "open" THEN answer ELSE @]
             z == Settled(s, b, answer)
  <1>1. s.barriers \in Seq({"open", "ready", "refused"})
    BY DEF Sessions
  <1>2. q \in Seq({"open", "ready", "refused"})
    <2>1. CASE b \in DOMAIN s.barriers
      BY <2>1, <1>1
    <2>2. CASE b \notin DOMAIN s.barriers
      <3>1. q = s.barriers
        BY <2>2, <1>1
      <3> QED BY <3>1, <1>1
    <2> QED BY <2>1, <2>2
  <1>3. z = [s EXCEPT !.barriers = q]
    BY DEF Settled, Sessions
  <1> HIDE DEF q, z
  <1>4. z \in Sessions /\ z.inFlight = s.inFlight
    BY <1>2, <1>3 DEF Sessions
  <1>5. Stacks(z, s) /\ Counts(z, s) /\ z.awaiting = s.awaiting
    BY <1>3 DEF Sessions, Stacks, Counts
  <1> QED BY <1>4, <1>5 DEF z, Beside

LEMMA InFlightIs ==
  ASSUME NEW s \in Sessions, NEW b \in Nat
  PROVE  Beside([s EXCEPT !.inFlight = b], s)
  <1> DEFINE z == [s EXCEPT !.inFlight = b]
  <1>1. z \in Sessions
    BY DEF Sessions
  <1>2. Stacks(z, s) /\ Counts(z, s) /\ z.awaiting = s.awaiting
    BY DEF Sessions, Stacks, Counts
  <1> QED BY <1>1, <1>2 DEF Beside

LEMMA BesideTwice ==
  ASSUME NEW x, NEW y, NEW z, Beside(x, y), Beside(y, z)
  PROVE  Beside(x, z)
  BY DEF Beside, Stacks, Counts

LEMMA BarrierOps ==
  ASSUME NEW s \in Sessions, NEW b \in Nat, NEW ready \in BOOLEAN
  PROVE  /\ Beside(CreateBarrier(s), s) /\ Len(s.barriers) + 1 \in Nat
         /\ Beside(SettleBarrier(s, b, ready), s)
         /\ Beside(CancelInFlightBarrier(s), s)
         /\ Beside(ClearInFlightIfCurrent(s, b), s)
  <1>1. Beside(CreateBarrier(s), s) /\ Len(s.barriers) + 1 \in Nat
    <2> DEFINE q == Append(s.barriers, "open")
               n == Len(s.barriers) + 1
               z == CreateBarrier(s)
    <2>1. q \in Seq({"open", "ready", "refused"}) /\ n \in Nat
      BY DEF Sessions
    <2>2. z = [s EXCEPT !.barriers = q, !.inFlight = n]
      BY DEF CreateBarrier, Sessions
    <2> HIDE DEF q, n, z
    <2>3. z \in Sessions
      BY <2>1, <2>2 DEF Sessions
    <2>4. Stacks(z, s) /\ Counts(z, s) /\ z.awaiting = s.awaiting
      BY <2>2 DEF Sessions, Stacks, Counts
    <2> QED BY <2>1, <2>3, <2>4 DEF Beside, z, n
  <1>2. Beside(SettleBarrier(s, b, ready), s)
    <2>1. CASE ready
      <3> DEFINE y == Settled(s, b, "ready")
                 n == IF y.inFlight = b THEN NoBarrier ELSE y.inFlight
      <3>1. Beside(y, s) /\ y.inFlight = s.inFlight
        BY SettledIs
      <3> HIDE DEF y
      <3>2. n \in Nat /\ y \in Sessions
        BY <3>1 DEF Beside, Sessions, NoBarrier
      <3>3. SettleBarrier(s, b, ready) = [y EXCEPT !.inFlight = n]
        BY <2>1 DEF SettleBarrier, y, Sessions
      <3> HIDE DEF n
      <3>4. Beside([y EXCEPT !.inFlight = n], y)
        BY <3>2, InFlightIs
      <3> QED BY <3>1, <3>3, <3>4, BesideTwice
    <2>2. CASE ~ready
      BY <2>2, SettledIs DEF SettleBarrier
    <2> QED BY <2>1, <2>2
  <1>3. Beside(CancelInFlightBarrier(s), s)
    <2> DEFINE y == Settled(s, s.inFlight, "refused")
    <2>1. s.inFlight \in Nat
      BY DEF Sessions
    <2>2. Beside(y, s)
      BY <2>1, SettledIs
    <2> HIDE DEF y
    <2>3. Beside([y EXCEPT !.inFlight = NoBarrier], y)
      BY <2>2, InFlightIs DEF Beside, NoBarrier
    <2>4. CASE s.inFlight = NoBarrier
      BY <2>4 DEF CancelInFlightBarrier, Beside, Stacks, Counts
    <2>5. CASE s.inFlight # NoBarrier
      <3>1. CancelInFlightBarrier(s) = [y EXCEPT !.inFlight = NoBarrier]
        BY <2>5 DEF CancelInFlightBarrier, y
      <3> QED BY <3>1, <2>2, <2>3, BesideTwice
    <2> QED BY <2>4, <2>5
  <1>4. Beside(ClearInFlightIfCurrent(s, b), s)
    <2> DEFINE n == IF s.inFlight = b THEN NoBarrier ELSE s.inFlight
    <2>1. n \in Nat
      BY DEF Sessions, NoBarrier
    <2>2. ClearInFlightIfCurrent(s, b) = [s EXCEPT !.inFlight = n]
      BY DEF ClearInFlightIfCurrent, Sessions
    <2> HIDE DEF n
    <2> QED BY <2>1, <2>2, InFlightIs
  <1> QED BY <1>1, <1>2, <1>3, <1>4

LEMMA CounterOps ==
  ASSUME NEW s \in Sessions
  PROVE  /\ AllocateTurnId(s) \in Sessions /\ AllocateTurnId(s).turns = s.turns + 1
         /\ Stacks(AllocateTurnId(s), s) /\ AllocateTurnId(s).generation = s.generation
         /\ AllocateTurnId(s).observed = s.observed /\ AllocateTurnId(s).awaiting = s.awaiting
         /\ MarkLifecycleEvent(s) \in Sessions /\ MarkLifecycleEvent(s).observed = TRUE
         /\ Stacks(MarkLifecycleEvent(s), s) /\ MarkLifecycleEvent(s).turns = s.turns
         /\ MarkLifecycleEvent(s).generation = s.generation
         /\ MarkLifecycleEvent(s).awaiting = s.awaiting
         /\ ClearLifecycleEvents(s) \in Sessions /\ Stacks(ClearLifecycleEvents(s), s)
         /\ ClearLifecycleEvents(s).turns = s.turns /\ ClearLifecycleEvents(s).observed = FALSE
         /\ ClearLifecycleEvents(s).generation = s.generation
         /\ ClearLifecycleEvents(s).awaiting = s.awaiting
  <1>1. AllocateTurnId(s) \in Sessions /\ AllocateTurnId(s).turns = s.turns + 1
    <2> DEFINE n == s.turns + 1
    <2>1. n \in Nat
      BY DEF Sessions
    <2>2. AllocateTurnId(s) = [s EXCEPT !.turns = n]
      BY DEF AllocateTurnId, Sessions
    <2> HIDE DEF n
    <2>3. AllocateTurnId(s) \in Sessions /\ AllocateTurnId(s).turns = n
      BY <2>1, <2>2 DEF Sessions
    <2> QED BY <2>3 DEF n
  <1>2. /\ Stacks(AllocateTurnId(s), s) /\ AllocateTurnId(s).generation = s.generation
        /\ AllocateTurnId(s).observed = s.observed /\ AllocateTurnId(s).awaiting = s.awaiting
    BY DEF Sessions, AllocateTurnId, Stacks
  <1>3. MarkLifecycleEvent(s) \in Sessions /\ MarkLifecycleEvent(s).observed = TRUE
    BY DEF Sessions, MarkLifecycleEvent
  <1>4. /\ Stacks(MarkLifecycleEvent(s), s) /\ MarkLifecycleEvent(s).turns = s.turns
        /\ MarkLifecycleEvent(s).generation = s.generation
        /\ MarkLifecycleEvent(s).awaiting = s.awaiting
    BY DEF Sessions, MarkLifecycleEvent, Stacks
  <1>5. ClearLifecycleEvents(s) \in Sessions /\ ClearLifecycleEvents(s).observed = FALSE
    BY DEF Sessions, ClearLifecycleEvents
  <1>6. /\ Stacks(ClearLifecycleEvents(s), s)
        /\ ClearLifecycleEvents(s).turns = s.turns
        /\ ClearLifecycleEvents(s).generation = s.generation
        /\ ClearLifecycleEvents(s).awaiting = s.awaiting
    BY DEF Sessions, ClearLifecycleEvents, Stacks
  <1> QED BY <1>1, <1>2, <1>3, <1>4, <1>5, <1>6

(* A branch is reset.                                                      *)
Emptied(z) ==
  /\ z.phase = "idle" /\ z.turn = 0 /\ z.snapshot = NoSnapshot /\ z.depth = 0
  /\ z.nested = <<>> /\ z.ceilings = <<>> /\ z.awaiting = FALSE

LEMMA BranchResetIs ==
  ASSUME NEW s \in Sessions
  PROVE  /\ BranchReset(s) \in Sessions /\ Emptied(BranchReset(s))
         /\ BranchReset(s).generation = s.generation + 1 /\ BranchReset(s).turns = s.turns
         /\ BranchReset(s).observed = s.observed
  <1> DEFINE x == BumpGeneration(s)
             y == CancelInFlightBarrier(x)
             z == BranchReset(s)
  <1>1. /\ x \in Sessions /\ x.generation = s.generation + 1 /\ x.turns = s.turns
        /\ x.observed = s.observed
    <2> DEFINE n == s.generation + 1
    <2>1. n \in Nat
      BY DEF Sessions
    <2>2. x = [s EXCEPT !.generation = n]
      BY DEF BumpGeneration, Sessions
    <2> HIDE DEF n, x
    <2>3. x \in Sessions /\ x.generation = n /\ x.turns = s.turns /\ x.observed = s.observed
      BY <2>1, <2>2 DEF Sessions
    <2> QED BY <2>3 DEF n
  <1> HIDE DEF x
  <1>2. y \in Sessions /\ Counts(y, x)
    BY <1>1, BarrierOps DEF Beside
  <1>3. z = [y EXCEPT !.snapshot = NoSnapshot, !.turn = 0, !.phase = "idle", !.depth = 0,
            !.awaiting = FALSE, !.nested = <<>>, !.ceilings = <<>>]
    BY DEF BranchReset, ResetTurn, NoTurn, x
  <1> HIDE DEF y, z
  <1>4. z \in Sessions
    <2>1. NoSnapshot \in Levels /\ <<>> \in Seq(Levels) /\ <<>> \in Seq((SUBSET Roots) \cup {NoEnvelope})
      BY DEF Levels
    <2> QED BY <1>2, <1>3, <2>1 DEF Sessions
  <1>5. Emptied(z)
    BY <1>2, <1>3 DEF Sessions, Emptied
  <1>6. z.generation = y.generation /\ z.turns = y.turns /\ z.observed = y.observed
    BY <1>2, <1>3 DEF Sessions
  <1> QED BY <1>1, <1>2, <1>4, <1>5, <1>6 DEF z, Counts

LEMMA EmptySeqs == <<>> \in Seq(Levels) /\ <<>> \in Seq(Envelopes) /\ NoSnapshot \in Levels
  BY DEF Levels

LEMMA BeginTurnIs ==
  ASSUME NEW s \in Sessions, NEW t \in Nat
  PROVE  LET z == BeginTurn(s, t)
         IN /\ z \in Sessions /\ Counts(z, s) /\ z.turn = t /\ z.phase = "active" /\ z.depth = 1
            /\ z.awaiting = FALSE /\ z.nested = <<>> /\ z.ceilings = <<>>
            /\ z.snapshot = s.snapshot /\ z.inFlight = s.inFlight
  <1> DEFINE z == BeginTurn(s, t)
  <1>1. z = [s EXCEPT !.turn = t, !.phase = "active", !.depth = 1, !.awaiting = FALSE,
                      !.nested = <<>>, !.ceilings = <<>>]
    BY DEF BeginTurn
  <1> HIDE DEF z
  <1>2. z \in Sessions
    BY <1>1, EmptySeqs DEF Sessions, Envelopes
  <1>3. /\ z.turn = t /\ z.phase = "active" /\ z.depth = 1
        /\ z.awaiting = FALSE /\ z.nested = <<>> /\ z.ceilings = <<>>
        /\ z.snapshot = s.snapshot /\ z.inFlight = s.inFlight
    BY <1>1 DEF Sessions
  <1>4. Counts(z, s)
    BY <1>1 DEF Sessions, Counts
  <1> QED BY <1>2, <1>3, <1>4 DEF z

LEMMA SetSnapshotIs ==
  ASSUME NEW s \in Sessions, NEW snap \in Levels
  PROVE  LET z == SetSnapshot(s, snap)
         IN /\ z \in Sessions /\ Counts(z, s) /\ z.snapshot = snap
            /\ z.phase = s.phase /\ z.turn = s.turn /\ z.depth = s.depth
            /\ z.nested = s.nested /\ z.ceilings = s.ceilings /\ z.awaiting = s.awaiting
  <1> DEFINE z == SetSnapshot(s, snap)
  <1>1. z \in Sessions /\ z.snapshot = snap
    BY DEF Sessions, SetSnapshot
  <1>2. /\ z.phase = s.phase /\ z.turn = s.turn /\ z.depth = s.depth
        /\ z.nested = s.nested /\ z.ceilings = s.ceilings /\ z.awaiting = s.awaiting
    BY DEF Sessions, SetSnapshot
  <1>3. Counts(z, s)
    BY DEF Sessions, SetSnapshot, Counts
  <1> QED BY <1>1, <1>2, <1>3

LEMMA AwaitingIs ==
  ASSUME NEW s \in Sessions, NEW b \in BOOLEAN
  PROVE  LET z == [s EXCEPT !.awaiting = b]
         IN z \in Sessions /\ Counts(z, s) /\ Stacks(z, s) /\ z.awaiting = b
  <1> DEFINE z == [s EXCEPT !.awaiting = b]
  <1>1. z \in Sessions /\ z.awaiting = b
    BY DEF Sessions
  <1>2. Counts(z, s) /\ Stacks(z, s)
    BY DEF Sessions, Counts, Stacks
  <1> QED BY <1>1, <1>2

LEMMA SettleBetweenIs ==
  ASSUME NEW s \in Sessions
  PROVE  LET z == SettleBetween(s)
         IN /\ z \in Sessions /\ Counts(z, s) /\ z.turn = s.turn /\ z.snapshot = s.snapshot
            /\ z.depth = s.depth /\ z.nested = s.nested /\ z.ceilings = s.ceilings
            /\ z.awaiting = s.awaiting
            /\ z.phase = IF s.phase = "between" THEN "idle" ELSE s.phase
  <1> DEFINE z == SettleBetween(s)
             ph == IF s.phase = "between" THEN "idle" ELSE s.phase
  <1>1. z = [s EXCEPT !.phase = ph] /\ ph \in {"idle", "active", "between"}
    BY DEF SettleBetween, Sessions
  <1> HIDE DEF z, ph
  <1>2. z \in Sessions /\ z.phase = ph
    BY <1>1 DEF Sessions
  <1>3. /\ z.turn = s.turn /\ z.snapshot = s.snapshot
        /\ z.depth = s.depth /\ z.nested = s.nested /\ z.ceilings = s.ceilings
        /\ z.awaiting = s.awaiting
    BY <1>1 DEF Sessions
  <1>4. Counts(z, s)
    BY <1>1 DEF Sessions, Counts
  <1> QED BY <1>2, <1>3, <1>4 DEF z, ph

LEMMA BeginNestedIs ==
  ASSUME NEW s \in Sessions, NEW snap \in Levels, NEW e \in Envelopes, MayNest(s)
  PROVE  LET z == BeginNestedTurn(s, snap, e)
         IN /\ z \in Sessions /\ Counts(z, s) /\ z.phase = s.phase /\ z.turn = s.turn
            /\ z.snapshot = s.snapshot /\ z.depth = s.depth + 1 /\ z.awaiting = FALSE
            /\ z.nested = Append(s.nested, snap) /\ z.ceilings = Append(s.ceilings, e)
  <1> DEFINE z == BeginNestedTurn(s, snap, e)
             d == s.depth + 1
             n == Append(s.nested, snap)
             c == Append(s.ceilings, e)
  <1>1. d \in Nat /\ n \in Seq(Levels) /\ c \in Seq(Envelopes)
    BY DEF Sessions, Envelopes
  <1>2. z = [s EXCEPT !.depth = d, !.awaiting = FALSE, !.nested = n, !.ceilings = c]
    BY DEF BeginNestedTurn, Sessions
  <1> HIDE DEF z, d, n, c
  <1>3. z \in Sessions
    BY <1>1, <1>2 DEF Sessions, Envelopes
  <1>4. /\ z.phase = s.phase /\ z.turn = s.turn
        /\ z.snapshot = s.snapshot /\ z.depth = d /\ z.awaiting = FALSE
        /\ z.nested = n /\ z.ceilings = c
    BY <1>2 DEF Sessions
  <1>5. Counts(z, s)
    BY <1>2 DEF Sessions, Counts
  <1> QED BY <1>3, <1>4, <1>5 DEF z, d, n, c

LEMMA FinishTurnIs ==
  ASSUME NEW s \in Sessions
  PROVE  LET z == FinishTurn(s)
         IN /\ z \in Sessions /\ Counts(z, s) /\ z.nested = s.nested /\ z.ceilings = s.ceilings
            /\ z.awaiting = s.awaiting
            /\ s.phase = "active" => /\ z.phase = "between" /\ z.turn = 0 /\ z.depth = 0
                                     /\ z.snapshot = NoSnapshot
            /\ s.phase # "active" => z = s
  <1> DEFINE z == FinishTurn(s)
  <1>1. CASE s.phase # "active"
    BY <1>1 DEF FinishTurn, Counts
  <1>2. CASE s.phase = "active"
    <2>1. z = [s EXCEPT !.snapshot = NoSnapshot, !.turn = 0, !.phase = "between", !.depth = 0]
      BY <1>2 DEF FinishTurn, NoTurn
    <2> HIDE DEF z
    <2>2. z \in Sessions
      BY <2>1, EmptySeqs DEF Sessions
    <2>3. /\ z.nested = s.nested /\ z.ceilings = s.ceilings
            /\ z.awaiting = s.awaiting /\ z.phase = "between" /\ z.turn = 0 /\ z.depth = 0
                                     /\ z.snapshot = NoSnapshot
      BY <2>1 DEF Sessions
    <2>4. Counts(z, s)
      BY <2>1 DEF Sessions, Counts
    <2> QED BY <2>2, <2>3, <2>4, <1>2 DEF z
  <1> QED BY <1>1, <1>2

LEMMA FrontIs ==
  ASSUME NEW S, NEW q \in Seq(S), q # <<>>
  PROVE  /\ Front(q) \in Seq(S) /\ Len(Front(q)) = Len(q) - 1
         /\ \A i \in 1..(Len(q) - 1) : Front(q)[i] = q[i]
         /\ Last(q) = q[Len(q)] /\ Last(q) \in S /\ Len(q) \in Nat \ {0}
  <1>1. Len(q) \in Nat \ {0} /\ q[Len(q)] \in S
    OBVIOUS
  <1>2. \A i \in 1..(Len(q) - 1) : i \in 1..Len(q) /\ q[i] \in S
    BY <1>1
  <1>3. Front(q) = [i \in 1..(Len(q) - 1) |-> q[i]]
    BY <1>1 DEF Front
  <1> QED BY <1>1, <1>2, <1>3 DEF Last

LEMMA FrontTyped ==
  ASSUME NEW S, NEW q \in Seq(S)
  PROVE  Front(q) \in Seq(S)
  <1>1. CASE q # <<>>
    BY <1>1, FrontIs
  <1>2. CASE q = <<>>
    <2>1. Front(q) = [i \in 1..(0 - 1) |-> q[i]]
      BY <1>2 DEF Front
    <2>2. Front(q) = <<>>
      BY <2>1
    <2> QED BY <2>2
  <1> QED BY <1>1, <1>2

LEMMA FinishNestedIs ==
  ASSUME NEW s \in Sessions, s.phase = "active", s.depth > 1
  PROVE  LET z == FinishNestedTurn(s)
         IN /\ z \in Sessions /\ Counts(z, s) /\ z.phase = s.phase /\ z.turn = s.turn
            /\ z.snapshot = s.snapshot /\ z.depth = s.depth - 1 /\ z.awaiting = s.awaiting
            /\ z.nested = Front(s.nested) /\ z.ceilings = Front(s.ceilings)
  <1> DEFINE z == FinishNestedTurn(s)
             d == s.depth - 1
             n == Front(s.nested)
             c == Front(s.ceilings)
  <1>1. d \in Nat /\ n \in Seq(Levels) /\ c \in Seq(Envelopes)
    <2>1. s.nested \in Seq(Levels) /\ s.ceilings \in Seq(Envelopes) /\ s.depth \in Nat
      BY DEF Sessions, Envelopes
    <2> QED BY <2>1, FrontTyped
  <1>2. z = [s EXCEPT !.depth = d, !.nested = n, !.ceilings = c]
    BY DEF FinishNestedTurn, Sessions
  <1> HIDE DEF z, d, n, c
  <1>3. z \in Sessions
    BY <1>1, <1>2 DEF Sessions, Envelopes
  <1>4. /\ z.phase = s.phase /\ z.turn = s.turn
        /\ z.snapshot = s.snapshot /\ z.depth = d /\ z.awaiting = s.awaiting
        /\ z.nested = n /\ z.ceilings = c
    BY <1>2 DEF Sessions
  <1>5. Counts(z, s)
    BY <1>2 DEF Sessions, Counts
  <1> QED BY <1>3, <1>4, <1>5 DEF z, d, n, c

LEMMA FinishNestedTyped ==
  ASSUME NEW s \in Sessions
  PROVE  FinishNestedTurn(s) \in Sessions /\ Counts(FinishNestedTurn(s), s)
         /\ FinishNestedTurn(s).awaiting = s.awaiting
  <1>1. CASE s.phase = "active" /\ s.depth > 1
    BY <1>1, FinishNestedIs
  <1>2. CASE ~(s.phase = "active" /\ s.depth > 1)
    <2>1. FinishNestedTurn(s) = FinishTurn(s)
      BY <1>2 DEF FinishNestedTurn
    <2> QED BY <2>1, FinishTurnIs
  <1> QED BY <1>1, <1>2

LEMMA SnapshotTyped ==
  ASSUME NEW s \in Sessions
  PROVE  /\ CurrentSnapshot(s) \in Levels /\ AnySnapshot(s) \in Levels
         /\ s.snapshot \in Levels /\ s.nested \in Seq(Levels)
         /\ s.turn \in Nat /\ s.turns \in Nat /\ s.generation \in Nat /\ s.depth \in Nat
         /\ s.observed \in BOOLEAN /\ s.awaiting \in BOOLEAN
         /\ s.phase \in {"idle", "active", "between"}
         /\ s.barriers \in Seq({"open", "ready", "refused"}) /\ s.inFlight \in Nat
  <1>1. /\ s.snapshot \in Levels /\ s.nested \in Seq(Levels)
        /\ s.turn \in Nat /\ s.turns \in Nat /\ s.generation \in Nat /\ s.depth \in Nat
        /\ s.observed \in BOOLEAN /\ s.awaiting \in BOOLEAN
        /\ s.phase \in {"idle", "active", "between"}
        /\ s.barriers \in Seq({"open", "ready", "refused"}) /\ s.inFlight \in Nat
    BY DEF Sessions
  <1>2. s.nested # <<>> => Last(s.nested) \in Levels
    BY <1>1, FrontIs
  <1>3. CurrentSnapshot(s) \in Levels
    BY <1>1, <1>2, EmptySeqs DEF CurrentSnapshot
  <1>4. AnySnapshot(s) \in Levels
    BY <1>1, <1>3 DEF AnySnapshot
  <1> QED BY <1>1, <1>3, <1>4

LEMMA LevelIs ==
  ASSUME NEW x \in Levels, x # NoSnapshot
  PROVE  x \in Snapshots /\ x.turn \in Nat /\ x.mode \in Modes /\ x.config \in Configs
         /\ x.base \in Bases /\ x.ready \in BOOLEAN
  BY DEF Levels, Snapshots

LEMMA AppliedIs ==
  ASSUME NEW x \in Levels, NEW m \in Modes, NEW ready \in BOOLEAN, NEW base \in Bases
  PROVE  LET z == Applied(x, m, ready, base)
         IN /\ z \in Levels /\ (z = NoSnapshot <=> x = NoSnapshot)
            /\ x # NoSnapshot => /\ z.mode = m /\ z.ready = ready /\ z.turn = x.turn
                                 /\ z.config = x.config
                                 /\ z.base = IF base = NoBase THEN x.base ELSE base
  <1> DEFINE z == Applied(x, m, ready, base)
             b == IF base = NoBase THEN x.base ELSE base
  <1>1. CASE x = NoSnapshot
    BY <1>1, EmptySeqs DEF Applied
  <1>2. CASE x # NoSnapshot
    <2>1. x \in Snapshots /\ b \in Bases
      BY <1>2, LevelIs
    <2>2. z = [x EXCEPT !.mode = m, !.ready = ready, !.base = b]
      BY <1>2, <2>1 DEF Applied, Snapshots
    <2> HIDE DEF z, b
    <2>3. z \in Snapshots
      BY <2>1, <2>2 DEF Snapshots
    <2>4. z.mode = m /\ z.ready = ready /\ z.turn = x.turn /\ z.config = x.config /\ z.base = b
      BY <2>1, <2>2 DEF Snapshots
    <2>5. z # NoSnapshot /\ z \in Levels
      BY <2>3, NullAssumption DEF Levels
    <2> QED BY <1>2, <2>4, <2>5 DEF z, b
  <1> QED BY <1>1, <1>2

LEMMA AppliedSeq ==
  ASSUME NEW q \in Seq(Levels), NEW m \in Modes, NEW ready \in BOOLEAN, NEW base \in Bases
  PROVE  LET z == [i \in DOMAIN q |-> Applied(q[i], m, ready, base)]
         IN /\ z \in Seq(Levels) /\ Len(z) = Len(q) /\ DOMAIN z = DOMAIN q
            /\ \A i \in 1..Len(q) : z[i] = Applied(q[i], m, ready, base)
            /\ q = <<>> => z = <<>>
  <1> DEFINE z == [i \in DOMAIN q |-> Applied(q[i], m, ready, base)]
  <1>1. DOMAIN q = 1..Len(q) /\ Len(q) \in Nat
    OBVIOUS
  <1>2. \A i \in 1..Len(q) : Applied(q[i], m, ready, base) \in Levels
    BY AppliedIs
  <1>3. z = [i \in 1..Len(q) |-> Applied(q[i], m, ready, base)]
    BY <1>1
  <1>4. z \in Seq(Levels) /\ Len(z) = Len(q)
    BY <1>1, <1>2, <1>3
  <1> QED BY <1>1, <1>3, <1>4

LEMMA RefreshSnapshotsIs ==
  ASSUME NEW s \in Sessions, NEW m \in Modes, NEW ready \in BOOLEAN, NEW base \in Bases
  PROVE  LET z == RefreshSnapshots(s, m, ready, base)
         IN /\ z \in Sessions /\ Counts(z, s) /\ z.phase = s.phase /\ z.turn = s.turn
            /\ z.depth = s.depth /\ z.ceilings = s.ceilings /\ z.awaiting = s.awaiting
            /\ Len(z.nested) = Len(s.nested)
            /\ s.phase # "active" => z = s
            /\ s.phase = "active" =>
                 /\ z.snapshot = Applied(s.snapshot, m, ready, base)
                 /\ \A i \in 1..Len(s.nested) : z.nested[i] = Applied(s.nested[i], m, ready, base)
  <1> DEFINE z == RefreshSnapshots(s, m, ready, base)
             n == [i \in DOMAIN s.nested |-> Applied(s.nested[i], m, ready, base)]
             a == Applied(s.snapshot, m, ready, base)
  <1>1. CASE s.phase # "active"
    BY <1>1 DEF RefreshSnapshots, Counts
  <1>2. CASE s.phase = "active"
    <2>1. /\ a \in Levels /\ n \in Seq(Levels) /\ Len(n) = Len(s.nested)
          /\ \A i \in 1..Len(s.nested) : n[i] = Applied(s.nested[i], m, ready, base)
      BY SnapshotTyped, AppliedIs, AppliedSeq
    <2>2. z = [s EXCEPT !.snapshot = a, !.nested = n]
      BY <1>2 DEF RefreshSnapshots, Sessions
    <2> HIDE DEF z, n, a
    <2>3. z \in Sessions
      BY <2>1, <2>2 DEF Sessions
    <2>4. /\ z.phase = s.phase /\ z.turn = s.turn
          /\ z.depth = s.depth /\ z.ceilings = s.ceilings /\ z.awaiting = s.awaiting
          /\ z.snapshot = a /\ z.nested = n
      BY <2>2 DEF Sessions
    <2>5. Counts(z, s)
      BY <2>2 DEF Sessions, Counts
    <2> QED BY <1>2, <2>1, <2>3, <2>4, <2>5 DEF z, a
  <1> QED BY <1>1, <1>2

LEMMA RuntimeOps ==
  ASSUME NEW r \in Runtimes, NEW snap \in Levels
  PROVE  /\ NewRuntime \in Runtimes /\ NewRuntime.turn = NoSnapshot /\ NewRuntime.levels = <<>>
         /\ r.turn \in Levels /\ r.levels \in Seq(Levels)
         /\ LET z == BeginRootTurn(r, snap)
            IN z \in Runtimes /\ z.turn = snap /\ z.levels = <<>>
         /\ LET z == OpenChildTurn(r, snap)
            IN z \in Runtimes /\ z.turn = snap /\ z.levels = Append(r.levels, r.turn)
         /\ LET z == CloseChildTurn(r)
            IN /\ z \in Runtimes
               /\ r.levels = <<>> => z = r
               /\ r.levels # <<>> => z.turn = Last(r.levels) /\ z.levels = Front(r.levels)
  <1>1. NewRuntime \in Runtimes /\ NewRuntime.turn = NoSnapshot /\ NewRuntime.levels = <<>>
    BY EmptySeqs DEF NewRuntime, Runtimes
  <1>2. r.turn \in Levels /\ r.levels \in Seq(Levels)
    BY DEF Runtimes
  <1>3. LET z == BeginRootTurn(r, snap)
            IN z \in Runtimes /\ z.turn = snap /\ z.levels = <<>>
    BY EmptySeqs DEF BeginRootTurn, Runtimes
  <1>4. LET z == OpenChildTurn(r, snap)
            IN z \in Runtimes /\ z.turn = snap /\ z.levels = Append(r.levels, r.turn)
    <2> DEFINE q == Append(r.levels, r.turn)
    <2>1. q \in Seq(Levels)
      BY <1>2
    <2>2. OpenChildTurn(r, snap) = [turn |-> snap, levels |-> q]
      BY DEF OpenChildTurn
    <2> HIDE DEF q
    <2>3. OpenChildTurn(r, snap) \in Runtimes /\ OpenChildTurn(r, snap).turn = snap
          /\ OpenChildTurn(r, snap).levels = q
      BY <2>1, <2>2 DEF Runtimes
    <2> QED BY <2>3 DEF q
  <1>5. LET z == CloseChildTurn(r)
            IN /\ z \in Runtimes
               /\ r.levels = <<>> => z = r
               /\ r.levels # <<>> => z.turn = Last(r.levels) /\ z.levels = Front(r.levels)
    <2>1. CASE r.levels = <<>>
      BY <2>1 DEF CloseChildTurn
    <2>2. CASE r.levels # <<>>
      <3> DEFINE l == Last(r.levels)
                 f == Front(r.levels)
      <3>1. l \in Levels /\ f \in Seq(Levels)
        BY <2>2, <1>2, FrontIs
      <3>2. CloseChildTurn(r) = [turn |-> l, levels |-> f]
        BY <2>2 DEF CloseChildTurn
      <3> HIDE DEF l, f
      <3>3. CloseChildTurn(r) \in Runtimes /\ CloseChildTurn(r).turn = l
            /\ CloseChildTurn(r).levels = f
        BY <3>1, <3>2 DEF Runtimes
      <3> QED BY <3>3, <2>2 DEF l, f
    <2> QED BY <2>1, <2>2
  <1> QED BY <1>1, <1>2, <1>3, <1>4, <1>5

LEMMA InvalidatedIs ==
  /\ NewRuntime \in Runtimes /\ NewRuntime.turn = NoSnapshot /\ NewRuntime.levels = <<>>
  /\ \A r : InvalidateTurns(r) = NewRuntime
  BY EmptySeqs DEF NewRuntime, Runtimes, InvalidateTurns

LEMMA RefreshTurnsIs ==
  ASSUME NEW r \in Runtimes, NEW m \in Modes, NEW ready \in BOOLEAN, NEW base \in Bases
  PROVE  LET z == RefreshTurns(r, m, ready, base)
         IN /\ z \in Runtimes /\ z.turn = Applied(r.turn, m, ready, base)
            /\ Len(z.levels) = Len(r.levels)
            /\ \A i \in 1..Len(r.levels) : z.levels[i] = Applied(r.levels[i], m, ready, base)
            /\ r = NewRuntime => z = NewRuntime
  <1> DEFINE n == [i \in DOMAIN r.levels |-> Applied(r.levels[i], m, ready, base)]
             a == Applied(r.turn, m, ready, base)
             z == RefreshTurns(r, m, ready, base)
  <1>0. r.turn \in Levels /\ r.levels \in Seq(Levels)
    BY DEF Runtimes
  <1>1. /\ a \in Levels /\ n \in Seq(Levels) /\ Len(n) = Len(r.levels)
        /\ \A i \in 1..Len(r.levels) : n[i] = Applied(r.levels[i], m, ready, base)
        /\ r.levels = <<>> => n = <<>>
    BY <1>0, AppliedIs, AppliedSeq
  <1>2. z = [turn |-> a, levels |-> n]
    BY DEF RefreshTurns
  <1>3. r = NewRuntime => a = NoSnapshot /\ n = <<>>
    <2>1. r = NewRuntime => r.turn = NoSnapshot /\ r.levels = <<>>
      BY DEF NewRuntime
    <2> QED BY <2>1, <1>1 DEF Applied
  <1> HIDE DEF n, a, z
  <1>4. z \in Runtimes /\ z.turn = a /\ z.levels = n
    BY <1>1, <1>2 DEF Runtimes
  <1>5. r = NewRuntime => z = NewRuntime
    BY <1>2, <1>3 DEF NewRuntime
  <1> QED BY <1>1, <1>4, <1>5 DEF z, a

-------------------------------------------------------------------------------
(* Where the handlers send the process that runs them.                     *)
LEMMA RestingSound == Sound(Resting) /\ Resting.op \in HostOps \cap TaskOps
  BY RestingIs DEF Sound, Boxed, Nesting, HostOps, TaskOps

LEMMA StartingSound ==
  ASSUME NEW op \in (HostOps \cup TaskOps) \ {"refresh-up", "refresh-down", "nest"}
  PROVE  Sound(Starting(op))
  BY StartingIs DEF Sound, Boxed, Nesting

(* The activity z is x with an activation called for it.                   *)
Called(z, x, g, f, m) ==
  /\ Sound(z) /\ z.at \in {"shared", "lease"} /\ z.op = x.op /\ z.turn = x.turn
  /\ z.next = x.next /\ z.barrier = x.barrier /\ z.gen = g /\ z.target = m /\ z.force = f

LEMMA ActivatingSound ==
  ASSUME NEW a \in Activities, a.op # "nest", NEW g \in Nat, NEW f \in BOOLEAN,
         NEW m \in Modes \cup {NoMode}, NEW c \in Configs \cup {NoConfig},
         a.op \in {"refresh-up", "refresh-down"} => m \in Modes
  PROVE  Called(Activating(a, g, f, m, c), a, g, f, m)
  <1> DEFINE z == Activating(a, g, f, m, c)
  <1>1. /\ z \in Activities /\ z.at \in {"shared", "lease"} /\ z.op = a.op /\ z.turn = a.turn
        /\ z.next = a.next /\ z.barrier = a.barrier /\ z.gen = g /\ z.target = m /\ z.force = f
    BY ActivatingIs
  <1> HIDE DEF z
  <1>2. Sound(z)
    BY <1>1 DEF Sound, Boxed, Nesting
  <1> QED BY <1>1, <1>2 DEF z, Called

(* The activity z stands at a place, for an operation.                     *)
Stands(z, op, place, g, t, b) ==
  z \in Activities /\ z.op = op /\ z.at = place /\ z.gen = g /\ z.turn = t /\ z.barrier = b

LEMMA PlacedWith ==
  ASSUME NEW op \in HostOps \cup TaskOps, NEW place \in Places,
         NEW t \in Nat, NEW b \in Nat
  PROVE  Stands([Starting(op) EXCEPT !.at = place, !.turn = t, !.barrier = b], op, place, 0, t, b)
  <1> DEFINE z == [Starting(op) EXCEPT !.at = place, !.turn = t, !.barrier = b]
  <1>1. Starting(op) \in Activities /\ Starting(op).op = op /\ Starting(op).turn = 0
        /\ Starting(op).gen = 0 /\ Starting(op).barrier = 0
    BY StartingIs
  <1>2. z \in Activities /\ z.op = op /\ z.at = place /\ z.gen = 0 /\ z.turn = t /\ z.barrier = b
    BY <1>1 DEF Activities
  <1> QED BY <1>2 DEF Stands

LEMMA PlacedUnder ==
  ASSUME NEW op \in HostOps \cup TaskOps, NEW place \in Places,
         NEW g \in Nat, NEW q \in Nat
  PROVE  Stands([Starting(op) EXCEPT !.at = place, !.gen = g, !.parent = q], op, place, g, 0, 0)
  <1> DEFINE z == [Starting(op) EXCEPT !.at = place, !.gen = g, !.parent = q]
  <1>1. Starting(op) \in Activities /\ Starting(op).op = op /\ Starting(op).turn = 0
        /\ Starting(op).gen = 0 /\ Starting(op).barrier = 0
    BY StartingIs
  <1>2. z \in Activities /\ z.op = op /\ z.at = place /\ z.gen = g /\ z.turn = 0 /\ z.barrier = 0
    BY <1>1 DEF Activities
  <1> QED BY <1>2 DEF Stands

LEMMA PlacedMinting ==
  ASSUME NEW op \in HostOps \cup TaskOps, NEW place \in Places,
         NEW g \in Nat, NEW q \in Nat, NEW t \in Nat
  PROVE  Stands([Starting(op) EXCEPT !.at = place, !.gen = g, !.parent = q, !.turn = t], op, place, g, t, 0)
  <1> DEFINE z == [Starting(op) EXCEPT !.at = place, !.gen = g, !.parent = q, !.turn = t]
  <1>1. Starting(op) \in Activities /\ Starting(op).op = op /\ Starting(op).turn = 0
        /\ Starting(op).gen = 0 /\ Starting(op).barrier = 0
    BY StartingIs
  <1>2. z \in Activities /\ z.op = op /\ z.at = place /\ z.gen = g /\ z.turn = t /\ z.barrier = 0
    BY <1>1 DEF Activities
  <1> QED BY <1>2 DEF Stands

LEMMA PlacedAt ==
  ASSUME NEW op \in HostOps \cup TaskOps, NEW place \in Places
  PROVE  Stands([Starting(op) EXCEPT !.at = place], op, place, 0, 0, 0)
  <1> DEFINE z == [Starting(op) EXCEPT !.at = place]
  <1>1. Starting(op) \in Activities /\ Starting(op).op = op /\ Starting(op).turn = 0
        /\ Starting(op).gen = 0 /\ Starting(op).barrier = 0
    BY StartingIs
  <1>2. z \in Activities /\ z.op = op /\ z.at = place /\ z.gen = 0 /\ z.turn = 0 /\ z.barrier = 0
    BY <1>1 DEF Activities
  <1> QED BY <1>2 DEF Stands

LEMMA PlacedThen ==
  ASSUME NEW op \in HostOps \cup TaskOps, NEW place \in Places,
         NEW g \in Nat
  PROVE  Stands([[Starting(op) EXCEPT !.at = place] EXCEPT !.gen = g], op, place, g, 0, 0)
  <1> DEFINE z == [[Starting(op) EXCEPT !.at = place] EXCEPT !.gen = g]
  <1>1. Starting(op) \in Activities /\ Starting(op).op = op /\ Starting(op).turn = 0
        /\ Starting(op).gen = 0 /\ Starting(op).barrier = 0
    BY StartingIs
  <1>2. z \in Activities /\ z.op = op /\ z.at = place /\ z.gen = g /\ z.turn = 0 /\ z.barrier = 0
    BY <1>1 DEF Activities
  <1> QED BY <1>2 DEF Stands

LEMMA PlacedSince ==
  ASSUME NEW op \in HostOps \cup TaskOps, NEW place \in Places,
         NEW g \in Nat
  PROVE  Stands([Starting(op) EXCEPT !.at = place, !.gen = g], op, place, g, 0, 0)
  <1> DEFINE z == [Starting(op) EXCEPT !.at = place, !.gen = g]
  <1>1. Starting(op) \in Activities /\ Starting(op).op = op /\ Starting(op).turn = 0
        /\ Starting(op).gen = 0 /\ Starting(op).barrier = 0
    BY StartingIs
  <1>2. z \in Activities /\ z.op = op /\ z.at = place /\ z.gen = g /\ z.turn = 0 /\ z.barrier = 0
    BY <1>1 DEF Activities
  <1> QED BY <1>2 DEF Stands

LEMMA PlacedBehind ==
  ASSUME NEW op \in HostOps \cup TaskOps, NEW place \in Places,
         NEW g \in Nat, NEW b \in Nat
  PROVE  Stands([[Starting(op) EXCEPT !.at = place] EXCEPT !.gen = g, !.barrier = b], op, place, g, 0, b)
  <1> DEFINE z == [[Starting(op) EXCEPT !.at = place] EXCEPT !.gen = g, !.barrier = b]
  <1>1. Starting(op) \in Activities /\ Starting(op).op = op /\ Starting(op).turn = 0
        /\ Starting(op).gen = 0 /\ Starting(op).barrier = 0
    BY StartingIs
  <1>2. z \in Activities /\ z.op = op /\ z.at = place /\ z.gen = g /\ z.turn = 0 /\ z.barrier = b
    BY <1>1 DEF Activities
  <1> QED BY <1>2 DEF Stands

(* The shutdown waits, or somebody is at the backend.                      *)
Held == Touching \cup {"closing-lease"}

(* A step that leaves the backend and what is published of it alone: the   *)
(* process p goes to a, and takes or gives up the lease with it.           *)
Goes(p, a) ==
  /\ run' = [run EXCEPT ![p] = a] /\ Sound(a) /\ a.op \in OpsOf(p) /\ LeaseMoves(p, a)
  /\ a = run[p] \/ (a.at \notin Touching \cup Boxed /\ run[p].at \notin Held)
  /\ a.at \notin {"closing-lease", "closing"} \/ a = run[p]

Agents == [turn : Nat, gen : Nat, blocked : BOOLEAN, ended : BOOLEAN]
RestTyped ==
  /\ session \in Sessions /\ permissions \in Runtimes /\ faults \in Nat
  /\ agents \in Seq(Agents) /\ mutations \in Seq(Tasks) /\ pending \in BOOLEAN
  /\ budget \in Budgets /\ closed \in BOOLEAN /\ lost \in BOOLEAN /\ implicit \in Nat

Ordinary(p, a) ==
  /\ Goes(p, a) /\ RestTyped' /\ UNCHANGED <<backend, torn, closed>>
  /\ reload' \in Reloads
  /\ reload'.record = reload.record /\ reload'.sandbox = reload.sandbox
  /\ session'.generation = session.generation \/ ~closed \/ run[p].at = "draining"
  /\ Published(reload') # Published(reload) => a # run[p] /\ Current(p)
  /\ budget'.events <= budget.events
  /\ p \in Tasks /\ p <= budget'.events => a = Resting

LEMMA TypedIs ==
  Typed <=> /\ RestTyped /\ reload \in Reloads /\ backend \in Bases
            /\ holder \in Procs \cup {NoProc} /\ run \in [Procs -> Activities]
            /\ torn \in BOOLEAN
            /\ \A p \in Procs : Sound(run[p]) /\ run[p].op \in OpsOf(p)
  BY DEF Typed, TypeOK, RestTyped, Runtimes, Agents

(* Tasks start in the order of the user's events: those ahead are at rest. *)
EventsAhead == \A t \in Tasks : t <= budget.events => run[t] = Resting
(* What every step needs of the others: types, places that fit their       *)
(* operations, one holder of the lease, and tasks ahead at rest.           *)
Led == Typed /\ LeaseHeld /\ EventsAhead

HostPlaces ==
  {"none", "barrier", "drain-lease", "materializing", "parser", "begin", "prepared",
   "shared", "lease"}

LEMMA HostGoesOn ==
  ASSUME Led, NEW a \in Activities, HostGoes(a), Sound(a), a.op \in HostOps,
         a.at \in HostPlaces, run[Host].at \notin Touching,
         holder' = holder \/ (holder = Host /\ holder' = NoProc)
  PROVE  Host \in Procs /\ Goes(Host, a)
  <1>1. Host \in Procs
    BY WiringAssumption DEF Host
  <1>2. LeaseMoves(Host, a)
    BY DEF LeaseMoves, Leased, HostPlaces, Boxed
  <1>3. run[Host].at \notin Held
    BY <1>1 DEF Led, Typed, OpsOf, Sound, HostOps, Held
  <1> QED BY <1>1, <1>2, <1>3 DEF Goes, HostGoes, OpsOf, HostPlaces, Touching, Boxed

(* What an ordinary step of the host must leave in order, beside its own   *)
(* activity.                                                               *)
LEMMA HostOrdinary ==
  ASSUME Led, NEW a \in Activities, Goes(Host, a), RestTyped',
         UNCHANGED <<reload, backend, torn, closed>>, budget'.events <= budget.events,
         session'.generation = session.generation \/ run[Host].at = "draining"
  PROVE  Ordinary(Host, a)
  BY DEF Led, TypedIs, Typed, TypeOK, Ordinary, Tasks

LEMMA SteadyBudget == Led => budget.events \in Nat /\ budget.events <= budget.events
  BY DEF Led, Typed, TypeOK, Budgets

LEMMA CapturedTyped ==
  ASSUME NEW s \in Sessions, NEW t \in Nat, reload \in Reloads
  PROVE  /\ Captured(s, t) \in Levels
         /\ s.snapshot = NoSnapshot /\ Captured(s, t) # NoSnapshot => Captured(s, t).turn = t
         /\ s.snapshot # NoSnapshot => Captured(s, t) = s.snapshot
  <1>1. s.snapshot \in Levels
    BY DEF Sessions
  <1>2. CASE s.snapshot # NoSnapshot
    BY <1>1, <1>2 DEF Captured
  <1>3. CASE s.snapshot = NoSnapshot /\ reload.record # NoRecord /\ reload.mode # NoMode
    <2> DEFINE z == [turn |-> t, mode |-> reload.mode, config |-> reload.record.config,
                     base |-> reload.record.base, ready |-> reload.sandbox = "ready"]
    <2>1. reload.mode \in Modes /\ reload.record \in Records
      BY <1>3 DEF Reloads
    <2>2. reload.record.config \in Configs /\ reload.record.base \in Bases
      BY <2>1 DEF Records
    <2>3. Captured(s, t) = z
      BY <1>3 DEF Captured
    <2>4. z \in Snapshots /\ z.turn = t
      BY <2>1, <2>2 DEF Snapshots
    <2> HIDE DEF z
    <2> QED BY <2>3, <2>4, <1>3 DEF Levels
  <1>4. CASE s.snapshot = NoSnapshot /\ ~(reload.record # NoRecord /\ reload.mode # NoMode)
    BY <1>4, EmptySeqs DEF Captured
  <1> QED BY <1>2, <1>3, <1>4

LEMMA MintRootTyped ==
  ASSUME Led, NEW s \in Sessions, NEW t \in Nat, MintRoot(s, t)
  PROVE  session' \in Sessions /\ Counts(session', s) /\ permissions' \in Runtimes
  <1>1. Captured(s, t) \in Levels /\ permissions \in Runtimes
    BY CapturedTyped, TypedIs DEF Led, RestTyped
  <1>2. session' = SetSnapshot(s, Captured(s, t))
    BY DEF MintRoot
  <1>3. session' \in Sessions /\ Counts(session', s)
    BY <1>1, <1>2, SetSnapshotIs
  <1>4. permissions' \in {permissions, BeginRootTurn(permissions, Captured(s, t))}
    BY DEF MintRoot
  <1>5. BeginRootTurn(permissions, Captured(s, t)) \in Runtimes
    BY <1>1, RuntimeOps
  <1> QED BY <1>1, <1>3, <1>4, <1>5

LEMMA StartTurnTyped ==
  ASSUME Led, NEW s \in Sessions, NEW t \in Nat, StartTurn(s, t),
         run[Host].at \notin Touching, holder' = holder
  PROVE  /\ session' \in Sessions /\ Counts(session', s) /\ permissions' \in Runtimes
         /\ pending' = FALSE /\ \E a \in Activities : Goes(Host, a)
  <1>0. permissions \in Runtimes /\ reload \in Reloads
    BY TypedIs DEF Led, RestTyped
  <1>1. CASE reload.mode = NoMode
    <2>1. MintRoot(s, t) /\ HostGoes(Resting) /\ pending' = FALSE
      BY <1>1 DEF StartTurn, HostRests
    <2>2. Goes(Host, Resting)
      BY <2>1, RestingSound, RestingIs, HostGoesOn DEF HostPlaces
    <2> QED BY <2>1, <2>2, MintRootTyped, RestingIs
  <1>2. CASE reload.mode # NoMode
    <2> DEFINE x == [Starting("start") EXCEPT !.turn = t]
               a == Activating(x, s.generation, FALSE, reload.mode, NoConfig)
    <2>1. x \in Activities /\ x.op = "start"
      <3>1. Starting("start") \in Activities /\ Starting("start").op = "start"
        BY StartingIs DEF HostOps
      <3> QED BY <3>1 DEF Activities
    <2>2. HostGoes(a) /\ session' = s /\ UNCHANGED permissions /\ pending' = FALSE
      BY <1>2 DEF StartTurn
    <2> HIDE DEF x
    <2>3. s.generation \in Nat /\ reload.mode \in Modes \cup {NoMode}
      BY <1>0 DEF Sessions, Reloads
    <2>4. Sound(a) /\ a.at \in {"shared", "lease"} /\ a.op = "start"
      <3>1. Called(a, x, s.generation, FALSE, reload.mode)
        BY <2>1, <2>3, ActivatingSound
      <3> QED BY <2>1, <3>1 DEF Called
    <2> HIDE DEF a
    <2>5. Goes(Host, a) /\ a \in Activities
      BY <2>2, <2>4, HostGoesOn DEF HostPlaces, Sound, HostOps
    <2> QED BY <2>2, <2>5, <1>0 DEF Counts
  <1> QED BY <1>1, <1>2

(* The host's steps, one by one.                                           *)
HostStep == \E a \in Activities : Ordinary(Host, a)

LEMMA LedTyped ==
  ASSUME Led
  PROVE  /\ RestTyped /\ reload \in Reloads /\ TypeOK /\ session.generation \in Nat
         /\ Host \in Procs /\ run[Host] \in Activities /\ Sound(run[Host])
         /\ run[Host].op \in HostOps /\ budget.events <= budget.events
         /\ budget.events \in Nat
         /\ run[Host].turn \in Nat /\ run[Host].barrier \in Nat /\ run[Host].parent \in Nat
         /\ run[Host].target \in Modes \cup {NoMode} /\ run[Host].gen \in Nat
         /\ reload.mode \in Modes \cup {NoMode}
  <1>1. RestTyped /\ reload \in Reloads /\ TypeOK
    BY TypedIs DEF Led, Typed
  <1>2. Host \in Procs
    BY WiringAssumption DEF Host
  <1>3. run[Host] \in Activities /\ Sound(run[Host]) /\ run[Host].op \in HostOps
    BY <1>1, <1>2 DEF Led, Typed, TypeOK, OpsOf
  <1>4. session.generation \in Nat
    BY <1>1 DEF RestTyped, Sessions
  <1>5. /\ run[Host].turn \in Nat /\ run[Host].barrier \in Nat /\ run[Host].parent \in Nat
        /\ run[Host].target \in Modes \cup {NoMode} /\ run[Host].gen \in Nat
    BY <1>3 DEF Activities
  <1>6. reload.mode \in Modes \cup {NoMode}
    BY <1>1 DEF Reloads
  <1> QED BY <1>1, <1>2, <1>3, <1>4, <1>5, <1>6, SteadyBudget

LEMMA BarrierEndsGoes ==
  ASSUME Led, BarrierEnds
  PROVE  HostStep
  <1> DEFINE b == run[Host].barrier
             s == ClearInFlightIfCurrent(session, b)
  <1>1. /\ run[Host].at \notin Touching /\ holder' = holder
        /\ UNCHANGED <<reload, backend, torn, faults, agents, mutations, budget, closed,
                       lost, implicit>>
    BY DEF BarrierEnds, Touching
  <1>2. s \in Sessions /\ Counts(s, session)
    BY LedTyped, BarrierOps DEF Beside, RestTyped
  <1>3. /\ session' \in Sessions /\ Counts(session', s) /\ permissions' \in Runtimes
        /\ pending' \in BOOLEAN /\ \E a \in Activities : Goes(Host, a)
    <2>1. CASE StartTurn(s, run[Host].turn)
      BY <2>1, <1>1, <1>2, LedTyped, StartTurnTyped
    <2>2. CASE HostGoes(Resting) /\ session' = s /\ UNCHANGED <<permissions, pending>>
      <3>1. Goes(Host, Resting)
        BY <2>2, <1>1, RestingSound, RestingIs, HostGoesOn DEF HostPlaces
      <3> QED BY <3>1, <2>2, <1>2, LedTyped, RestingIs DEF RestTyped, Counts
    <2> QED BY <2>1, <2>2 DEF BarrierEnds, HostRests
  <1> HIDE DEF s
  <1>4. session'.generation = session.generation
    BY <1>2, <1>3 DEF Counts
  <1>5. RestTyped'
    BY <1>1, <1>3, LedTyped DEF RestTyped
  <1> QED BY <1>1, <1>3, <1>4, <1>5, LedTyped, HostOrdinary DEF HostStep

LEMMA StartAnsweredGoes ==
  ASSUME Led, StartAnswered
  PROVE  HostStep
  <1>1. /\ run[Host].at \notin Touching /\ HostGoes(Resting)
        /\ UNCHANGED <<reload, backend, holder, torn, faults, hostVars>>
    BY DEF StartAnswered, Touching, HostRests
  <1>2. Goes(Host, Resting)
    BY <1>1, RestingSound, RestingIs, HostGoesOn DEF HostPlaces
  <1>3. session' \in Sessions /\ Counts(session', session) /\ permissions' \in Runtimes
    <2>1. CASE MintRoot(session, run[Host].turn)
      BY <2>1, LedTyped, MintRootTyped DEF RestTyped
    <2>2. CASE UNCHANGED <<session, permissions>>
      BY <2>2, LedTyped DEF RestTyped, Counts
    <2> QED BY <2>1, <2>2 DEF StartAnswered
  <1>4. RestTyped'
    BY <1>1, <1>3, LedTyped DEF RestTyped, hostVars
  <1> QED BY <1>1, <1>2, <1>3, <1>4, LedTyped, RestingIs, HostOrdinary
          DEF HostStep, hostVars, Counts

(* The process p goes on to another place.                                 *)
LEMMA MoveIs ==
  ASSUME Led, NEW p \in Procs, NEW place \in Places, Move(p, place)
  PROVE  \E a \in Activities : /\ run' = [run EXCEPT ![p] = a] /\ a.at = place
                               /\ a.loaded = run[p].loaded /\ Carried(run[p], a)
  <1> DEFINE a == [run[p] EXCEPT !.at = place]
  <1>1. run[p] \in Activities
    BY LedTyped DEF TypeOK
  <1>2. a \in Activities /\ a.at = place /\ a.loaded = run[p].loaded /\ Carried(run[p], a)
    BY <1>1, MovedIs
  <1>3. run' = [run EXCEPT ![p] = a]
    BY LedTyped DEF Move, TypeOK
  <1> QED BY <1>2, <1>3

LEMMA DrainBeginsGoes ==
  ASSUME Led, DrainBegins
  PROVE  HostStep
  <1>1. /\ run[Host].at = "drain-lease" /\ holder = NoProc /\ holder' = Host
        /\ UNCHANGED <<session, permissions, reload, backend, torn, faults, hostVars>>
        /\ Host \in Procs
    BY LedTyped DEF DrainBegins
  <1>2. PICK a \in Activities : /\ run' = [run EXCEPT ![Host] = a] /\ a.at = "draining"
                                /\ Carried(run[Host], a)
    BY <1>1, MoveIs DEF DrainBegins, Places
  <1>3. Sound(a) /\ a.op \in HostOps
    BY <1>1, <1>2, LedTyped DEF Sound, Carried, Boxed, Nesting
  <1>4. Goes(Host, a)
    BY <1>1, <1>2, <1>3 DEF Goes, LeaseMoves, OpsOf, Held, Touching, Boxed
  <1>5. RestTyped'
    BY <1>1, LedTyped DEF RestTyped, hostVars
  <1> QED BY <1>1, <1>4, <1>5, LedTyped, HostOrdinary DEF HostStep, hostVars

LEMMA BeginPrepareGoes ==
  ASSUME Led, BeginPrepare
  PROVE  HostStep
  <1> DEFINE snap == AnySnapshot(session)
             m == IF snap = NoSnapshot THEN reload.mode ELSE snap.mode
             x == Starting("prepare")
             a == Activating(x, session.generation, FALSE, m, NoConfig)
  <1>1. /\ run[Host].at \notin Touching /\ HostGoes(a)
        /\ UNCHANGED <<session, permissions, reload, backend, holder, torn, faults, hostVars>>
    BY DEF BeginPrepare, Touching
  <1>2. m \in Modes \cup {NoMode}
    BY LedTyped, SnapshotTyped, LevelIs DEF RestTyped
  <1>3. x \in Activities /\ x.op = "prepare"
    BY StartingIs DEF HostOps
  <1> HIDE DEF m, x
  <1>4. Called(a, x, session.generation, FALSE, m)
    BY <1>2, <1>3, LedTyped, ActivatingSound
  <1> HIDE DEF a
  <1>5. Goes(Host, a) /\ a \in Activities
    BY <1>1, <1>3, <1>4, HostGoesOn DEF Called, HostPlaces, Sound, HostOps
  <1>6. RestTyped'
    BY <1>1, LedTyped DEF RestTyped, hostVars
  <1> QED BY <1>1, <1>5, <1>6, LedTyped, HostOrdinary DEF HostStep, hostVars

LEMMA ToolEndsGoes ==
  ASSUME Led, ToolEnds
  PROVE  HostStep
  <1>1. /\ run[Host].at \notin Touching /\ HostGoes(Resting)
        /\ UNCHANGED <<session, permissions, reload, backend, holder, torn, faults, hostVars>>
    BY DEF ToolEnds, Touching, HostRests
  <1>2. Goes(Host, Resting)
    BY <1>1, RestingSound, RestingIs, HostGoesOn DEF HostPlaces
  <1>3. RestTyped'
    BY <1>1, LedTyped DEF RestTyped, hostVars
  <1> QED BY <1>1, <1>2, <1>3, LedTyped, RestingIs, HostOrdinary DEF HostStep, hostVars

LEMMA PreparingIs ==
  Preparing \in Activities /\ Preparing.op = "prepare" /\ Preparing.at = "begin"
  <1>1. Stands(Preparing, "prepare", "begin", 0, 0, 0)
    BY PlacedAt DEF Preparing, HostOps, Places
  <1> QED BY <1>1 DEF Stands

LEMMA ApplyPendingTyped ==
  ASSUME Led, NEW s \in Sessions, NEW then \in Activities, ApplyPending(s, then),
         then \in {Resting, Preparing}, run[Host].at \notin Touching, holder' = holder
  PROVE  /\ session' \in Sessions /\ Counts(session', s) /\ permissions' \in Runtimes
         /\ pending' \in BOOLEAN /\ \E a \in Activities : Goes(Host, a)
  <1> DEFINE snap == AnySnapshot(s)
             mode == reload.mode
             x(op) == [Starting(op) EXCEPT !.next = then.op]
             call(op) == Activating(x(op), s.generation, FALSE, mode, NoConfig)
  <1>0. permissions \in Runtimes /\ pending \in BOOLEAN /\ s.generation \in Nat
    BY LedTyped DEF RestTyped, Sessions
  <1>1. Goes(Host, then) \/ ~HostGoes(then)
    <2>1. Resting.at \in HostPlaces /\ Resting.op \in HostOps /\ Sound(Resting)
      BY RestingIs, RestingSound DEF HostPlaces
    <2>2. Preparing.at \in HostPlaces /\ Preparing.op \in HostOps /\ Sound(Preparing)
      <3> QED BY PreparingIs DEF HostPlaces, HostOps, Sound, Boxed, Nesting
    <2> QED BY <2>1, <2>2, HostGoesOn
  <1>2. CASE HostGoes(then) /\ session' = s /\ permissions' = permissions
             /\ pending' \in {pending, FALSE}
    BY <1>0, <1>1, <1>2 DEF Counts
  <1>3. ASSUME NEW op \in {"refresh-up", "refresh-down"}, HostGoes(call(op)), mode \in Modes
        PROVE  \E a \in Activities : Goes(Host, a)
    <2>1. x(op) \in Activities /\ x(op).op = op
      <3>1. then.op \in {"none", "prepare"}
        BY RestingIs, PreparingIs
      <3>2. Starting(op) \in Activities /\ Starting(op).op = op
        BY StartingIs DEF HostOps
      <3> QED BY <3>1, <3>2 DEF Activities
    <2> HIDE DEF x
    <2>2. Called(call(op), x(op), s.generation, FALSE, mode)
      BY <2>1, <1>0, <1>3, ActivatingSound
    <2> DEFINE a == call(op)
    <2> HIDE DEF call
    <2> HIDE DEF a
    <2>3. Sound(a) /\ a.at \in {"shared", "lease"} /\ a.op = op /\ HostGoes(a)
      BY <2>1, <2>2, <1>3 DEF Called, a
    <2> QED BY <2>3, HostGoesOn DEF HostPlaces, HostOps, Sound
  <1>4. CASE ~(mode = NoMode \/ reload.record = NoRecord \/ s.phase # "active" \/ snap = NoSnapshot)
             /\ snap.mode # mode
    <2>1. mode \in Modes
      BY <1>4, LedTyped
    <2>2. CASE RequiresSandbox(mode, reload.record.config)
      <3>1. HostGoes(call("refresh-up")) /\ session' = s /\ UNCHANGED <<permissions, pending>>
        BY <2>2, <1>4 DEF ApplyPending
      <3> QED BY <3>1, <2>1, <1>0, <1>3 DEF Counts
    <2>3. CASE ~RequiresSandbox(mode, reload.record.config)
      <3>1. /\ HostGoes(call("refresh-down"))
            /\ session' = RefreshSnapshots(s, mode, FALSE, NoBase)
            /\ permissions' = RefreshTurns(permissions, mode, FALSE, NoBase)
            /\ UNCHANGED pending
        BY <2>3, <1>4 DEF ApplyPending
      <3>2. NoBase \in Bases
        BY DEF Bases
      <3>3. session' \in Sessions /\ Counts(session', s) /\ permissions' \in Runtimes
        BY <3>1, <3>2, <2>1, <1>0, RefreshSnapshotsIs, RefreshTurnsIs
      <3> QED BY <3>1, <3>3, <2>1, <1>0, <1>3
    <2> QED BY <2>2, <2>3
  <1>5. CASE (mode = NoMode \/ reload.record = NoRecord \/ s.phase # "active" \/ snap = NoSnapshot)
             \/ snap.mode = mode
    BY <1>5, <1>2 DEF ApplyPending
  <1> QED BY <1>4, <1>5

LEMMA TurnStartGoes ==
  ASSUME Led, TurnStart
  PROVE  HostStep
  <1> DEFINE s == MarkLifecycleEvent(session)
  <1>1. /\ run[Host].at \notin Touching /\ holder' = holder
        /\ UNCHANGED <<reload, backend, torn, faults, agents, mutations, budget, closed,
                       lost, implicit>>
    BY RestingIs DEF TurnStart, HostFree, Touching
  <1>2. s \in Sessions /\ s.generation = session.generation
    BY LedTyped, CounterOps DEF RestTyped
  <1>3. ApplyPending(s, Resting)
    BY DEF TurnStart
  <1> HIDE DEF s
  <1>4. /\ session' \in Sessions /\ Counts(session', s) /\ permissions' \in Runtimes
        /\ pending' \in BOOLEAN /\ \E a \in Activities : Goes(Host, a)
    BY <1>1, <1>2, <1>3, RestingIs, ApplyPendingTyped
  <1>5. RestTyped'
    BY <1>1, <1>4, LedTyped DEF RestTyped
  <1> QED BY <1>1, <1>2, <1>4, <1>5, LedTyped, HostOrdinary DEF HostStep, Counts

LEMMA AppliesItselfTyped ==
  ASSUME Led, AppliesItself, run[Host].at \notin Touching, holder' = holder
  PROVE  /\ session' \in Sessions /\ Counts(session', session) /\ permissions' \in Runtimes
         /\ pending' \in BOOLEAN /\ \E a \in Activities : Goes(Host, a)
  <1>1. CASE ApplyPending(session, Preparing)
    BY <1>1, LedTyped, PreparingIs, ApplyPendingTyped DEF RestTyped
  <1>2. CASE HostGoes(Preparing) /\ UNCHANGED <<session, permissions, pending>>
    <2>1. Sound(Preparing) /\ Preparing.op \in HostOps /\ Preparing.at \in HostPlaces
      BY PreparingIs DEF Sound, HostOps, HostPlaces, Boxed, Nesting
    <2>2. Goes(Host, Preparing)
      BY <2>1, <1>2, PreparingIs, HostGoesOn
    <2> QED BY <2>2, <1>2, LedTyped, PreparingIs DEF RestTyped, Counts
  <1> QED BY <1>1, <1>2 DEF AppliesItself

LEMMA PrepareToolGoes ==
  ASSUME Led, PrepareTool
  PROVE  HostStep
  <1>1. /\ run[Host].at \notin Touching /\ holder' = holder
        /\ UNCHANGED <<reload, backend, torn, faults, agents, mutations, budget, closed,
                       lost, implicit>>
    BY RestingIs DEF PrepareTool, HostFree, Touching
  <1>2. /\ session' \in Sessions /\ Counts(session', session) /\ permissions' \in Runtimes
        /\ pending' \in BOOLEAN /\ \E a \in Activities : Goes(Host, a)
    <2>1. CASE AppliesItself
      BY <2>1, <1>1, AppliesItselfTyped
    <2>2. CASE HostGoes([Starting("prepare") EXCEPT !.at = "parser"])
               /\ UNCHANGED <<session, permissions, pending>>
      <3> DEFINE a == [Starting("prepare") EXCEPT !.at = "parser"]
      <3>1. a \in Activities /\ a.op = "prepare" /\ a.at = "parser"
        <4>1. Stands(a, "prepare", "parser", 0, 0, 0)
          BY PlacedAt DEF HostOps, Places
        <4> QED BY <4>1 DEF Stands
      <3> HIDE DEF a
      <3>2. Sound(a) /\ a.op \in HostOps /\ a.at \in HostPlaces
        BY <3>1 DEF Sound, HostOps, HostPlaces, Boxed, Nesting
      <3>3. HostGoes(a)
        BY <2>2 DEF a
      <3>4. Goes(Host, a)
        BY <3>1, <3>2, <3>3, <1>1, HostGoesOn
      <3> QED BY <3>1, <3>4, <2>2, LedTyped DEF RestTyped, Counts
    <2> QED BY <2>1, <2>2 DEF PrepareTool
  <1>3. RestTyped'
    BY <1>1, <1>2, LedTyped DEF RestTyped
  <1> QED BY <1>1, <1>2, <1>3, LedTyped, HostOrdinary DEF HostStep, Counts

LEMMA ParserActivatesGoes ==
  ASSUME Led, ParserActivates
  PROVE  HostStep
  <1>1. /\ run[Host].at \notin Touching /\ holder' = holder
        /\ UNCHANGED <<reload, backend, torn, faults, agents, mutations, closed,
                       lost, implicit>>
    BY DEF ParserActivates, Touching
  <1>2. /\ session' \in Sessions /\ Counts(session', session) /\ permissions' \in Runtimes
        /\ pending' \in BOOLEAN /\ \E a \in Activities : Goes(Host, a)
    BY <1>1, AppliesItselfTyped DEF ParserActivates
  <1>3. budget' \in Budgets /\ budget'.events = budget.events
    <2>1. budget' = [budget EXCEPT !.cold = FALSE] /\ budget \in Budgets
      BY LedTyped DEF ParserActivates, RestTyped
    <2> QED BY <2>1 DEF Budgets
  <1>4. RestTyped'
    BY <1>1, <1>2, <1>3, LedTyped DEF RestTyped
  <1> QED BY <1>1, <1>2, <1>3, <1>4, LedTyped, HostOrdinary DEF HostStep, Counts

LEMMA InstalledTyped == Led => InstalledBase \in Bases /\ NoBase \in Bases
  BY LedTyped DEF InstalledBase, Reloads, Records, Bases

LEMMA RefreshAnsweredGoes ==
  ASSUME Led, RefreshAnswered
  PROVE  HostStep
  <1> DEFINE a == IF run[Host].next = "prepare" THEN Preparing ELSE Resting
             mode == run[Host].target
  <1>1. /\ run[Host].at \notin Touching /\ holder' = holder /\ HostGoes(a)
        /\ UNCHANGED <<reload, backend, torn, faults, agents, mutations, budget, closed,
                       lost, implicit>>
        /\ run[Host].op \in {"refresh-up", "refresh-down"}
    BY DEF RefreshAnswered, Touching
  <1>2. a \in Activities /\ Sound(a) /\ a.op \in HostOps /\ a.at \in HostPlaces
    BY PreparingIs, RestingIs, RestingSound DEF Sound, HostOps, HostPlaces, Boxed, Nesting
  <1> HIDE DEF a
  <1>3. Goes(Host, a)
    BY <1>1, <1>2, HostGoesOn
  <1>4. mode \in Modes
    BY <1>1, LedTyped DEF Sound
  <1>5. session \in Sessions /\ permissions \in Runtimes /\ InstalledBase \in Bases
    BY LedTyped, InstalledTyped DEF RestTyped
  <1>6. session' \in Sessions /\ Counts(session', session) /\ permissions' \in Runtimes
    <2>1. CASE UNCHANGED <<session, permissions>>
      BY <2>1, <1>5 DEF Counts
    <2>2. CASE /\ session' = RefreshSnapshots(session, mode, TRUE, InstalledBase)
               /\ permissions' = IF AnySnapshot(session) = NoSnapshot THEN permissions
                                 ELSE RefreshTurns(permissions, mode, TRUE, InstalledBase)
      BY <2>2, <1>4, <1>5, RefreshSnapshotsIs, RefreshTurnsIs
    <2> QED BY <2>1, <2>2 DEF RefreshAnswered
  <1>7. pending' \in BOOLEAN
    BY DEF RefreshAnswered
  <1>8. RestTyped'
    BY <1>1, <1>6, <1>7, LedTyped DEF RestTyped
  <1> QED BY <1>1, <1>2, <1>3, <1>6, <1>8, LedTyped, HostOrdinary DEF HostStep, Counts

LEMMA EnsuredIs ==
  ASSUME Led, NEW s \in Sessions
  PROVE  /\ Ensured(s) \in Sessions /\ Ensured(s).generation = s.generation
         /\ Ensured(s).observed = s.observed /\ Ensured(s).turns >= s.turns
         /\ ~MayBeginImplicitly(s) => Ensured(s) = s
         /\ MayBeginImplicitly(s) =>
              LET z == Ensured(s)
              IN /\ z.turns = s.turns + 1 /\ z.turn = s.turns + 1 /\ z.phase = "active"
                 /\ z.depth = 1 /\ z.nested = <<>> /\ z.ceilings = <<>> /\ z.awaiting = FALSE
                 /\ z.snapshot # NoSnapshot => IF s.snapshot = NoSnapshot THEN z.snapshot.turn = z.turn
                                               ELSE z.snapshot = s.snapshot
  <1> DEFINE t == s.turns + 1
             x == AllocateTurnId(s)
             y == BeginTurn(x, t)
             snap == Captured(y, t)
             z == SetSnapshot(y, snap)
  <1>0. s.turns \in Nat /\ s.turns + 1 > s.turns /\ s.turns >= s.turns
    BY DEF Sessions
  <1>1. CASE ~MayBeginImplicitly(s)
    BY <1>0, <1>1 DEF Ensured
  <1>2. CASE MayBeginImplicitly(s)
    <2>1. t \in Nat /\ x \in Sessions /\ x.turns = t /\ x.generation = s.generation
          /\ x.observed = s.observed /\ x.snapshot = s.snapshot
      <3>1. t \in Nat
        BY <1>0
      <3>2. x \in Sessions /\ x.turns = s.turns + 1 /\ x.generation = s.generation
            /\ x.observed = s.observed /\ Stacks(x, s)
        BY CounterOps
      <3> QED BY <3>1, <3>2 DEF Stacks
    <2>2. Ensured(s) = z
      BY <1>2 DEF Ensured
    <2> HIDE DEF x
    <2>3. /\ y \in Sessions /\ Counts(y, x) /\ y.turn = t /\ y.phase = "active" /\ y.depth = 1
          /\ y.awaiting = FALSE /\ y.nested = <<>> /\ y.ceilings = <<>> /\ y.snapshot = x.snapshot
      BY <2>1, BeginTurnIs
    <2> HIDE DEF y
    <2>4. /\ snap \in Levels
          /\ y.snapshot = NoSnapshot /\ snap # NoSnapshot => snap.turn = t
          /\ y.snapshot # NoSnapshot => snap = y.snapshot
      BY <2>1, <2>3, LedTyped, CapturedTyped
    <2> HIDE DEF snap
    <2>5. /\ z \in Sessions /\ Counts(z, y) /\ z.snapshot = snap
          /\ z.phase = y.phase /\ z.turn = y.turn /\ z.depth = y.depth
          /\ z.nested = y.nested /\ z.ceilings = y.ceilings /\ z.awaiting = y.awaiting
      BY <2>3, <2>4, SetSnapshotIs
    <2> HIDE DEF z
    <2>6. z.generation = s.generation /\ z.observed = s.observed /\ z.turns = t
      BY <2>1, <2>3, <2>5 DEF Counts
    <2>7. z.snapshot # NoSnapshot => IF s.snapshot = NoSnapshot THEN z.snapshot.turn = z.turn
                                     ELSE z.snapshot = s.snapshot
      BY <2>1, <2>3, <2>4, <2>5
    <2> QED BY <1>0, <1>2, <2>2, <2>3, <2>5, <2>6, <2>7
  <1> QED BY <1>1, <1>2

LEMMA PrepareAnsweredGoes ==
  ASSUME Led, PrepareAnswered
  PROVE  HostStep
  <1> DEFINE s == Ensured(session)
             snap == CurrentSnapshot(s)
             ready == RequiresSandbox(snap.mode, snap.config) /\ reload.sandbox = "ready"
             stale == snap.ready # ready
             repaired == IF stale THEN RefreshSnapshots(s, snap.mode, ready, NoBase) ELSE s
             levels == IF stale THEN RefreshTurns(permissions, snap.mode, ready, NoBase)
                       ELSE permissions
             prepared == [Starting("prepare") EXCEPT !.at = "prepared"]
  <1>1. /\ run[Host].at \notin Touching /\ holder' = holder
        /\ UNCHANGED <<reload, backend, torn, faults, agents, mutations, pending, budget, closed>>
    BY DEF PrepareAnswered, Touching
  <1>2. /\ session \in Sessions /\ permissions \in Runtimes /\ NoBase \in Bases
        /\ lost \in BOOLEAN /\ implicit \in Nat
    BY LedTyped, InstalledTyped DEF RestTyped
  <1>3. s \in Sessions /\ s.generation = session.generation /\ s.turn \in Nat
    BY <1>2, EnsuredIs, SnapshotTyped
  <1>4. ASSUME NEW a \in {Resting, prepared}, HostGoes(a)
        PROVE  a \in Activities /\ Goes(Host, a)
    <2>1. prepared \in Activities /\ prepared.op = "prepare" /\ prepared.at = "prepared"
      <3>1. Stands(prepared, "prepare", "prepared", 0, 0, 0)
        BY PlacedAt DEF HostOps, Places
      <3> QED BY <3>1 DEF Stands
    <2> HIDE DEF prepared
    <2>2. a \in Activities /\ Sound(a) /\ a.op \in HostOps /\ a.at \in HostPlaces
      BY <1>4, <2>1, RestingIs, RestingSound DEF Sound, HostOps, HostPlaces, Boxed, Nesting
    <2> QED BY <2>2, <1>1, <1>4, HostGoesOn
  <1>5. CASE ~run[Host].ok \/ ~Current(Host)
    <2>1. HostGoes(Resting) /\ UNCHANGED <<session, permissions, lost, implicit>>
      BY <1>5 DEF PrepareAnswered, HostRests
    <2>2. RestTyped'
      BY <2>1, <1>1, LedTyped DEF RestTyped
    <2> QED BY <2>1, <2>2, <1>1, <1>4, LedTyped, HostOrdinary DEF HostStep
  <1>6. CASE ~(~run[Host].ok \/ ~Current(Host))
    <2>1. /\ implicit' \in {s.turn, implicit}
          /\ lost' = (lost /\ (~(s.turns # session.turns) \/ agents # <<>>))
      BY <1>6 DEF PrepareAnswered
    <2>2. implicit' \in Nat /\ lost' \in BOOLEAN
      BY <2>1, <1>2, <1>3
    <2>3. CASE snap = NoSnapshot
      <3>1. HostGoes(Resting) /\ session' = s /\ UNCHANGED permissions
        BY <1>6, <2>3 DEF PrepareAnswered, HostRests
      <3>2. RestTyped'
        BY <3>1, <2>2, <1>1, <1>2, <1>3, LedTyped DEF RestTyped
      <3>3. session'.generation = session.generation
        BY <3>1, <1>3
      <3> HIDE DEF s, prepared
      <3> QED BY <3>1, <3>2, <3>3, <1>1, <1>4, LedTyped, HostOrdinary DEF HostStep
    <2>4. CASE snap # NoSnapshot
      <3>1. snap.mode \in Modes /\ ready \in BOOLEAN
        BY <2>4, <1>3, SnapshotTyped, LevelIs
      <3>2. repaired \in Sessions /\ repaired.generation = s.generation /\ levels \in Runtimes
        <4> HIDE DEF s, snap, ready, stale
        <4>1. /\ RefreshSnapshots(s, snap.mode, ready, NoBase) \in Sessions
              /\ RefreshSnapshots(s, snap.mode, ready, NoBase).generation = s.generation
              /\ RefreshTurns(permissions, snap.mode, ready, NoBase) \in Runtimes
          BY <3>1, <1>2, <1>3, RefreshSnapshotsIs, RefreshTurnsIs DEF Counts
        <4> QED BY <4>1, <1>2, <1>3
      <3>3. /\ session' = repaired
            /\ \/ HostGoes(Resting) /\ permissions' = levels
               \/ HostGoes(prepared) /\ (permissions' = levels
                    \/ permissions' = BeginRootTurn(levels, CurrentSnapshot(repaired)))
        <4>1. /\ session' = repaired
              /\ IF ~(reload.record # NoRecord /\ reload.record.config = snap.config)
                 THEN HostRests /\ permissions' = levels
                 ELSE /\ HostGoes(prepared)
                      /\ permissions' = IF levels.turn # NoSnapshot THEN levels
                                        ELSE BeginRootTurn(levels, CurrentSnapshot(repaired))
          BY <1>6, <2>4 DEF PrepareAnswered
        <4> HIDE DEF s, snap, ready, stale, repaired, levels, prepared
        <4> QED BY <4>1 DEF HostRests
      <3> HIDE DEF s, snap, ready, stale, repaired, levels, prepared
      <3>4. BeginRootTurn(levels, CurrentSnapshot(repaired)) \in Runtimes
        BY <3>2, SnapshotTyped, RuntimeOps
      <3>5. session' \in Sessions /\ permissions' \in Runtimes
            /\ session'.generation = session.generation
        BY <3>2, <3>3, <3>4, <1>3
      <3>6. RestTyped'
        BY <3>5, <2>2, <1>1, LedTyped DEF RestTyped
      <3>7. PICK a \in {Resting, prepared} : HostGoes(a)
        BY <3>3
      <3> QED BY <3>5, <3>6, <3>7, <1>1, <1>4, LedTyped, HostOrdinary DEF HostStep
    <2> QED BY <2>3, <2>4
  <1> QED BY <1>5, <1>6

LEMMA AgentIs ==
  ASSUME NEW s \in Sessions, NEW b \in BOOLEAN
  PROVE  /\ Agent(s, b) \in Agents /\ Agent(s, b).turn = s.turn
         /\ Agent(s, b).gen = s.generation /\ Agent(s, b).blocked = b
         /\ Agent(s, b).ended = FALSE
  BY SnapshotTyped DEF Agent, Agents

LEMMA NewSessionTyped ==
  /\ NewSession \in Sessions /\ Uncounted \in Agents /\ NewSession.turn = 0
  /\ Uncounted.turn = 0 /\ Uncounted.gen = 0 /\ Uncounted.ended = FALSE
  <1>1. <<>> \in Seq({"open", "ready", "refused"})
    OBVIOUS
  <1>2. NewSession \in Sessions
    BY <1>1, EmptySeqs DEF NewSession, Sessions, NoTurn, NoBarrier, Envelopes
  <1>3. NewSession.turn = 0 /\ NewSession.generation = 0
    BY DEF NewSession, NoTurn
  <1> QED BY <1>2, <1>3, AgentIs DEF Uncounted

LEMMA PutTyped ==
  ASSUME NEW q \in Seq(Agents), NEW a \in Agents
  PROVE  [q EXCEPT ![Len(q)] = a] \in Seq(Agents) /\ Append(q, a) \in Seq(Agents)
         /\ Len([q EXCEPT ![Len(q)] = a]) = Len(q)
  <1>1. Append(q, a) \in Seq(Agents)
    OBVIOUS
  <1>2. CASE Len(q) \in DOMAIN q
    BY <1>1, <1>2
  <1>3. CASE Len(q) \notin DOMAIN q
    <2>1. [q EXCEPT ![Len(q)] = a] = q
      BY <1>3
    <2> QED BY <1>1, <2>1
  <1> QED BY <1>2, <1>3

LEMMA ChildIs ==
  ASSUME NEW x \in Snapshots, NEW t \in Nat
  PROVE  /\ ChildOf(x, t) \in Snapshots /\ ChildOf(x, t).turn = t
         /\ ChildOf(x, t).mode = x.mode /\ ChildOf(x, t).ready = x.ready
         /\ Within(ChildOf(x, t).base, x.base)
         /\ EnvelopeOf(ChildOf(x, t)) \in Envelopes
  <1> DEFINE b == IF x.mode = "yolo" \/ x.base = NoBase THEN x.base ELSE Narrowed(x.base)
             z == ChildOf(x, t)
  <1>1. x.base \in Bases
    BY DEF Snapshots
  <1>2. b \in Bases /\ Within(b, x.base)
    <2>1. CASE x.mode = "yolo" \/ x.base = NoBase
      BY <1>1, <2>1 DEF Within
    <2>2. CASE ~(x.mode = "yolo" \/ x.base = NoBase)
      <3>1. x.base \in SUBSET Roots
        BY <1>1, <2>2 DEF Bases
      <3>2. Narrowed(x.base) \in SUBSET Roots /\ Narrowed(x.base) \subseteq x.base
        BY <3>1 DEF Narrowed
      <3>3. Narrowed(x.base) # NoBase
        BY <3>2, NullAssumption
      <3> QED BY <2>2, <3>1, <3>2, <3>3 DEF Within, Bases
    <2> QED BY <2>1, <2>2
  <1>3. z = [x EXCEPT !.turn = t, !.base = b]
    BY DEF ChildOf, Snapshots
  <1> HIDE DEF b, z
  <1>4. z \in Snapshots
    BY <1>2, <1>3 DEF Snapshots
  <1>5. z.turn = t /\ z.mode = x.mode /\ z.ready = x.ready /\ z.base = b
    BY <1>3 DEF Snapshots
  <1>6. EnvelopeOf(z) \in Envelopes
    BY <1>2, <1>5 DEF EnvelopeOf, Envelopes, Bases
  <1> QED BY <1>2, <1>4, <1>5, <1>6 DEF z

LEMMA BeginNestedTyped ==
  ASSUME NEW s \in Sessions, NEW snap \in Levels, NEW e \in Envelopes
  PROVE  BeginNestedTurn(s, snap, e) \in Sessions /\ Counts(BeginNestedTurn(s, snap, e), s)
  <1>1. CASE MayNest(s)
    BY <1>1, BeginNestedIs
  <1>2. CASE ~MayNest(s)
    BY <1>2 DEF BeginNestedTurn, Counts
  <1> QED BY <1>1, <1>2

(* However a nested start ends.                                            *)
NestTyped(s) ==
  /\ session' \in Sessions /\ Counts(session', s) /\ permissions' \in Runtimes
  /\ agents' \in Seq(Agents) /\ lost' \in BOOLEAN

LEMMA OpenChildTyped ==
  ASSUME Led, NEW s \in Sessions, NEW stack \in Seq(Agents), NEW snap \in Snapshots,
         EnvelopeOf(snap) \in Envelopes, OpenChild(s, stack, snap)
  PROVE  NestTyped(s)
  <1>1. permissions \in Runtimes /\ lost \in BOOLEAN /\ snap \in Levels
    BY LedTyped DEF RestTyped, Levels
  <1>2. session' \in Sessions /\ Counts(session', s)
    BY <1>1, BeginNestedTyped DEF OpenChild
  <1>3. OpenChildTurn(permissions, snap) \in Runtimes
    BY <1>1, RuntimeOps
  <1>4. Agent(s, FALSE) \in Agents
    BY AgentIs
  <1>5. [stack EXCEPT ![Len(stack)] = Agent(s, FALSE)] \in Seq(Agents)
    BY <1>4, PutTyped
  <1>6. agents' \in {stack, [stack EXCEPT ![Len(stack)] = Agent(s, FALSE)]}
    BY DEF OpenChild
  <1>7. lost' = (lost \/ ~MayNest(s)) /\ permissions' \in {permissions, OpenChildTurn(permissions, snap)}
    BY DEF OpenChild
  <1> QED BY <1>1, <1>2, <1>3, <1>5, <1>6, <1>7 DEF NestTyped

LEMMA BlockChildTyped ==
  ASSUME Led, NEW s \in Sessions, NEW stack \in Seq(Agents), BlockChild(s, stack)
  PROVE  NestTyped(s)
  <1>1. permissions \in Runtimes /\ lost \in BOOLEAN /\ NoEnvelope \in Envelopes
    BY LedTyped DEF RestTyped, Envelopes
  <1>2. session' \in Sessions /\ Counts(session', s)
    BY <1>1, EmptySeqs, BeginNestedTyped DEF BlockChild
  <1>4. Agent(s, TRUE) \in Agents
    BY AgentIs
  <1>5. [stack EXCEPT ![Len(stack)] = Agent(s, TRUE)] \in Seq(Agents)
    BY <1>4, PutTyped
  <1>6. agents' \in {stack, [stack EXCEPT ![Len(stack)] = Agent(s, TRUE)]}
    BY DEF BlockChild
  <1>7. lost' = (lost \/ ~MayNest(s)) /\ permissions' = permissions
    BY DEF BlockChild
  <1> QED BY <1>1, <1>2, <1>5, <1>6, <1>7 DEF NestTyped

LEMMA ShareParentTyped ==
  ASSUME Led, NEW s \in Sessions, NEW stack \in Seq(Agents), ShareParent(s, stack)
  PROVE  NestTyped(s)
  BY LedTyped DEF RestTyped, ShareParent, NestTyped, Counts

LEMMA MintingIs ==
  ASSUME Led, NEW s \in Sessions, NEW parent \in Snapshots, HostGoes(Minting(s, parent)),
         run[Host].at \notin Touching,
         holder' = holder \/ (holder = Host /\ holder' = NoProc)
  PROVE  /\ Minting(s, parent) \in Activities /\ Goes(Host, Minting(s, parent))
         /\ Stands(Minting(s, parent), "nest", "materializing", s.generation, s.turns + 1, 0)
  <1> DEFINE a == Minting(s, parent)
  <1>1. s.generation \in Nat /\ s.turns + 1 \in Nat /\ parent.turn \in Nat
    BY SnapshotTyped DEF Snapshots
  <1>2. Stands(a, "nest", "materializing", s.generation, s.turns + 1, 0)
    BY <1>1, PlacedMinting DEF Minting, HostOps, Places
  <1> HIDE DEF a
  <1>3. a \in Activities /\ Sound(a) /\ a.op \in HostOps /\ a.at \in HostPlaces
    BY <1>2 DEF Stands, Sound, HostOps, HostPlaces, Boxed, Nesting
  <1>4. HostGoes(a)
    BY DEF a
  <1>5. Goes(Host, a)
    BY <1>3, <1>4, HostGoesOn
  <1> QED BY <1>2, <1>3, <1>5 DEF a

LEMMA DrainEndsGoes ==
  ASSUME Led, NEW ok \in BOOLEAN, DrainEnds(ok)
  PROVE  HostStep
  <1>1. /\ run[Host].at = "draining" /\ run[Host].at \notin Touching /\ Outcome(ok)
        /\ UNCHANGED <<reload, backend, torn, agents, mutations, budget, closed, lost, implicit>>
    BY DEF DrainEnds, Touching
  <1>2. holder = Host
    BY <1>1, LedTyped DEF Led, LeaseHeld, Leased
  <1>3. faults' \in Nat
    BY <1>1, LedTyped, OutcomeTyped DEF RestTyped
  <1>4. CASE ok /\ Current(Host) /\ ParentIs(session, run[Host].parent)
    <2> DEFINE parent == CurrentSnapshot(session)
               a == Minting(session, parent)
    <2>1. /\ HostGoes(a) /\ session' = AllocateTurnId(session)
          /\ UNCHANGED <<permissions, pending, holder>>
      BY <1>4 DEF DrainEnds
    <2>2. parent \in Snapshots /\ session \in Sessions
      BY <1>4, LedTyped, SnapshotTyped DEF ParentIs, RestTyped, Levels
    <2> HIDE DEF parent
    <2>3. a \in Activities /\ Goes(Host, a)
      BY <2>1, <2>2, <1>1, MintingIs
    <2>4. session' \in Sessions /\ session'.generation = session.generation
      BY <2>1, <2>2, CounterOps
    <2>5. RestTyped'
      BY <2>1, <2>4, <1>1, <1>3, LedTyped DEF RestTyped
    <2> QED BY <2>3, <2>4, <2>5, <1>1, LedTyped, HostOrdinary DEF HostStep
  <1>5. CASE ~(ok /\ Current(Host) /\ ParentIs(session, run[Host].parent))
    <2>1. /\ HostGoes(Resting) /\ session' = BranchReset(session)
          /\ permissions' = InvalidateTurns(permissions) /\ pending' = FALSE /\ holder' = NoProc
      BY <1>5 DEF DrainEnds, HostRests
    <2>2. Goes(Host, Resting)
      BY <2>1, <1>1, <1>2, RestingIs, RestingSound, HostGoesOn DEF HostPlaces
    <2>3. session' \in Sessions
      BY <2>1, LedTyped, BranchResetIs DEF RestTyped
    <2>6. permissions' \in Runtimes
      BY <2>1, InvalidatedIs
    <2>4. RestTyped'
      BY <2>1, <2>3, <2>6, <1>1, <1>3, LedTyped DEF RestTyped
    <2> QED BY <2>2, <2>4, <1>1, LedTyped, RestingIs, HostOrdinary DEF HostStep
  <1> QED BY <1>4, <1>5

LEMMA MaterializeEndsGoes ==
  ASSUME Led, NEW ok \in BOOLEAN, MaterializeEnds(ok)
  PROVE  HostStep
  <1>1. /\ run[Host].at \notin Touching /\ HostGoes(Resting)
        /\ UNCHANGED <<reload, backend, torn, faults, mutations, pending, budget, closed, implicit>>
        /\ holder' = holder \/ (holder = Host /\ holder' = NoProc)
    BY DEF MaterializeEnds, Touching, HostRests, Free
  <1>2. Goes(Host, Resting)
    BY <1>1, RestingIs, RestingSound, HostGoesOn DEF HostPlaces
  <1>3. session \in Sessions /\ agents \in Seq(Agents) /\ run[Host].turn \in Nat
    BY LedTyped DEF RestTyped
  <1>4. NestTyped(session)
    <2>1. CASE ParentCurrent(Host) /\ ok
      <3> DEFINE x == CurrentSnapshot(session)
                 snap == ChildOf(x, run[Host].turn)
      <3>1. OpenChild(session, agents, snap)
        BY <2>1 DEF MaterializeEnds
      <3>2. x \in Snapshots
        BY <2>1, <1>3, SnapshotTyped DEF ParentCurrent, ParentIs, Levels
      <3> HIDE DEF x
      <3>3. snap \in Snapshots /\ EnvelopeOf(snap) \in Envelopes
        BY <3>2, <1>3, ChildIs
      <3> HIDE DEF snap
      <3> QED BY <3>1, <3>3, <1>3, OpenChildTyped
    <2>2. CASE ParentCurrent(Host) /\ ~ok
      BY <2>2, <1>3, BlockChildTyped DEF MaterializeEnds
    <2>3. CASE ~ParentCurrent(Host)
      BY <2>3, <1>3, ShareParentTyped DEF MaterializeEnds
    <2> QED BY <2>1, <2>2, <2>3
  <1>5. RestTyped'
    BY <1>1, <1>4, LedTyped DEF RestTyped, NestTyped
  <1> QED BY <1>1, <1>2, <1>4, <1>5, LedTyped, RestingIs, HostOrdinary
          DEF HostStep, NestTyped, Counts

LEMMA NestedStartTyped ==
  ASSUME Led, NEW s \in Sessions, NestedStart(s), run[Host].at \notin Touching, holder' = holder
  PROVE  /\ session' \in Sessions /\ session'.generation = s.generation
         /\ permissions' \in Runtimes /\ agents' \in Seq(Agents) /\ lost' \in BOOLEAN
         /\ \E a \in Activities : Goes(Host, a)
  <1> DEFINE parent == IF s.depth > 1 THEN CurrentSnapshot(s) ELSE AnySnapshot(s)
             stack == Append(agents, Uncounted)
  <1>1. /\ parent \in Levels /\ stack \in Seq(Agents) /\ permissions \in Runtimes /\ lost \in BOOLEAN
        /\ (parent # NoSnapshot => parent \in Snapshots)
        /\ AllocateTurnId(s) \in Sessions /\ AllocateTurnId(s).generation = s.generation
        /\ s.turns + 1 \in Nat /\ s.generation \in Nat
    <2>1. parent \in Levels /\ (parent # NoSnapshot => parent \in Snapshots)
      BY SnapshotTyped DEF Levels
    <2>2. stack \in Seq(Agents)
      BY LedTyped, NewSessionTyped, PutTyped DEF RestTyped
    <2>3. AllocateTurnId(s) \in Sessions /\ AllocateTurnId(s).generation = s.generation
      BY CounterOps
    <2>4. s.turns \in Nat /\ s.generation \in Nat
      BY SnapshotTyped
    <2>5. s.turns + 1 \in Nat
      BY <2>4
    <2> QED BY <2>1, <2>2, <2>3, <2>4, <2>5, LedTyped DEF RestTyped
  <1>2. CASE parent = NoSnapshot
    <2>1. BlockChild(s, stack) /\ HostGoes(Resting)
      BY <1>2 DEF NestedStart, HostRests
    <2>2. Goes(Host, Resting)
      BY <2>1, RestingIs, RestingSound, HostGoesOn DEF HostPlaces
    <2> HIDE DEF stack
    <2>3. NestTyped(s)
      BY <2>1, <1>1, BlockChildTyped
    <2> QED BY <2>2, <2>3, RestingIs DEF NestTyped, Counts
  <1>3. CASE parent # NoSnapshot /\ MustDrain(parent)
    <2> DEFINE a == [Starting("nest") EXCEPT !.at = "drain-lease", !.gen = s.generation,
                                             !.parent = parent.turn]
    <2>1. HostGoes(a) /\ session' = s /\ agents' = stack /\ UNCHANGED <<permissions, lost>>
      BY <1>3 DEF NestedStart
    <2>2. parent.turn \in Nat
      BY <1>1, <1>3 DEF Snapshots
    <2> HIDE DEF parent
    <2>3. Stands(a, "nest", "drain-lease", s.generation, 0, 0)
      BY <2>2, <1>1, PlacedUnder DEF HostOps, Places
    <2> HIDE DEF a
    <2>4. a \in Activities /\ Sound(a) /\ a.op \in HostOps /\ a.at \in HostPlaces
      BY <2>3 DEF Stands, Sound, HostOps, HostPlaces, Boxed, Nesting
    <2>5. Goes(Host, a)
      BY <2>1, <2>4, HostGoesOn
    <2> QED BY <2>1, <2>4, <2>5, <1>1
  <1>4. CASE parent # NoSnapshot /\ ~MustDrain(parent) /\ MustMaterialize(parent)
    <2>1. /\ HostGoes(Minting(s, parent)) /\ session' = AllocateTurnId(s) /\ agents' = stack
          /\ UNCHANGED <<permissions, lost>>
      BY <1>4 DEF NestedStart
    <2> HIDE DEF parent
    <2>2. Minting(s, parent) \in Activities /\ Goes(Host, Minting(s, parent))
      BY <2>1, <1>1, <1>4, MintingIs
    <2> QED BY <2>1, <2>2, <1>1
  <1>5. CASE parent # NoSnapshot /\ ~MustDrain(parent) /\ ~MustMaterialize(parent)
    <2> DEFINE z == AllocateTurnId(s)
               snap == ChildOf(parent, s.turns + 1)
    <2>1. /\ HostGoes(Resting)
          /\ OpenChild(z, stack, snap) \/ ShareParent(z, stack)
      BY <1>5 DEF NestedStart, HostRests
    <2> HIDE DEF parent, stack
    <2>2. snap \in Snapshots /\ EnvelopeOf(snap) \in Envelopes
      BY <1>1, <1>5, ChildIs
    <2> HIDE DEF z, snap
    <2>3. NestTyped(z)
      BY <2>1, <2>2, <1>1, OpenChildTyped, ShareParentTyped DEF z
    <2>4. Goes(Host, Resting)
      BY <2>1, RestingIs, RestingSound, HostGoesOn DEF HostPlaces
    <2> QED BY <2>3, <2>4, <1>1, RestingIs DEF NestTyped, Counts, z
  <1> QED BY <1>2, <1>3, <1>4, <1>5

LEMMA OuterStartTyped ==
  ASSUME Led, NEW s \in Sessions, OuterStart(s), run[Host].at \notin Touching, holder' = holder
  PROVE  /\ session' \in Sessions /\ session'.generation = s.generation
         /\ permissions' \in Runtimes /\ agents' \in Seq(Agents) /\ lost' \in BOOLEAN
         /\ pending' \in BOOLEAN /\ \E a \in Activities : Goes(Host, a)
  <1> DEFINE t == s.turns + 1
             begun == BeginTurn(AllocateTurnId(s), t)
  <1>0. s.turns \in Nat /\ s.inFlight \in Nat
    BY SnapshotTyped
  <1>7. AllocateTurnId(s) \in Sessions /\ AllocateTurnId(s).generation = s.generation
    BY CounterOps
  <1>1. t \in Nat /\ AllocateTurnId(s) \in Sessions
        /\ AllocateTurnId(s).generation = s.generation /\ s.inFlight \in Nat
    BY <1>0, <1>7
  <1>2. begun \in Sessions /\ begun.generation = s.generation
    BY <1>1, BeginTurnIs DEF Counts
  <1>3. agents' = Append(agents, Agent(begun, FALSE)) /\ lost' = (lost /\ agents # <<>>)
    BY DEF OuterStart
  <1> HIDE DEF t, begun
  <1>4. agents' \in Seq(Agents) /\ lost' \in BOOLEAN
    BY <1>2, <1>3, LedTyped, AgentIs, PutTyped DEF RestTyped
  <1>5. CASE s.inFlight = NoBarrier
    <2>1. StartTurn(begun, t)
      BY <1>5 DEF OuterStart, t, begun
    <2>2. /\ session' \in Sessions /\ Counts(session', begun) /\ permissions' \in Runtimes
         /\ pending' = FALSE /\ \E a \in Activities : Goes(Host, a)
      BY <2>1, <1>1, <1>2, StartTurnTyped
    <2> QED BY <2>2, <1>2, <1>4 DEF Counts
  <1>6. CASE s.inFlight # NoBarrier
    <2> DEFINE a == [Starting("start") EXCEPT !.at = "barrier", !.turn = t, !.barrier = s.inFlight]
    <2>1. HostGoes(a) /\ session' = begun /\ UNCHANGED <<permissions, pending>>
      BY <1>6 DEF OuterStart, t, begun
    <2>2. Stands(a, "start", "barrier", 0, t, s.inFlight)
      BY <1>1, PlacedWith DEF HostOps, Places
    <2> HIDE DEF a
    <2>3. a \in Activities /\ Sound(a) /\ a.op \in HostOps /\ a.at \in HostPlaces
      BY <2>2 DEF Stands, Sound, HostOps, HostPlaces, Boxed, Nesting
    <2>4. Goes(Host, a)
      BY <2>1, <2>3, HostGoesOn
    <2> QED BY <2>1, <2>3, <2>4, <1>2, <1>4, LedTyped DEF RestTyped
  <1> QED BY <1>5, <1>6

LEMMA AgentStartGoes ==
  ASSUME Led, AgentStart
  PROVE  HostStep
  <1> DEFINE s == MarkLifecycleEvent(session)
  <1>1. /\ run[Host].at \notin Touching /\ holder' = holder
        /\ UNCHANGED <<reload, backend, torn, faults, mutations, budget, closed, implicit>>
    BY RestingIs DEF AgentStart, HostFree, Touching
  <1>2. s \in Sessions /\ s.generation = session.generation
    BY LedTyped, CounterOps DEF RestTyped
  <1>3. CASE NestedStart(s) /\ UNCHANGED pending
    <2>1. /\ session' \in Sessions /\ session'.generation = s.generation
          /\ permissions' \in Runtimes /\ agents' \in Seq(Agents) /\ lost' \in BOOLEAN
          /\ \E a \in Activities : Goes(Host, a)
      BY <1>1, <1>2, <1>3, NestedStartTyped
    <2>2. RestTyped'
      BY <1>1, <1>3, <2>1, LedTyped DEF RestTyped
    <2> QED BY <2>1, <2>2, <1>1, <1>2, LedTyped, HostOrdinary DEF HostStep
  <1>4. CASE OuterStart(s)
    <2>1. /\ session' \in Sessions /\ session'.generation = s.generation
          /\ permissions' \in Runtimes /\ agents' \in Seq(Agents) /\ lost' \in BOOLEAN
          /\ pending' \in BOOLEAN /\ \E a \in Activities : Goes(Host, a)
      BY <1>1, <1>2, <1>4, OuterStartTyped
    <2>2. RestTyped'
      BY <1>1, <2>1, LedTyped DEF RestTyped
    <2> QED BY <2>1, <2>2, <1>1, <1>2, LedTyped, HostOrdinary DEF HostStep
  <1> QED BY <1>3, <1>4 DEF AgentStart

LEMMA SettleBetweenTyped ==
  ASSUME NEW s \in Sessions
  PROVE  SettleBetween(s) \in Sessions /\ SettleBetween(s).generation = s.generation
  BY SettleBetweenIs DEF Counts

LEMMA FinishEngineTyped ==
  ASSUME NEW s \in Sessions, NEW r \in Runtimes
  PROVE  FinishEngine(s, r) \in Runtimes
  <1>1. CloseChildTurn(r) \in Runtimes
    BY EmptySeqs, RuntimeOps
  <1> QED BY <1>1, InvalidatedIs DEF FinishEngine, CloseRootTurn, InvalidateTurns

(* The host may rest where it is.                                          *)
LEMMA HostStays ==
  ASSUME Led, UNCHANGED <<run, holder>>
  PROVE  Goes(Host, run[Host]) /\ run[Host] \in Activities
  <1>1. run' = [run EXCEPT ![Host] = run[Host]]
    BY LedTyped DEF TypeOK
  <1>2. LeaseMoves(Host, run[Host])
    BY LedTyped DEF LeaseMoves, Led, LeaseHeld
  <1> QED BY <1>1, <1>2, LedTyped DEF Goes, OpsOf

LEMMA AgentEndGoes ==
  ASSUME Led, AgentEnd
  PROVE  HostStep
  <1> DEFINE s == MarkLifecycleEvent(session)
             z == FinishNestedTurn(s)
             top == [Last(agents) EXCEPT !.ended = TRUE]
  <1>1. UNCHANGED <<reload, backend, holder, run, torn, faults, mutations, pending, budget,
                    closed, implicit>>
    BY DEF AgentEnd
  <1>2. s \in Sessions /\ s.generation = session.generation
    BY LedTyped, CounterOps DEF RestTyped
  <1>3. z \in Sessions /\ z.generation = s.generation
    BY <1>2, FinishNestedTyped DEF Counts
  <1>4. NoteEndAwaitingSettle(z) \in Sessions
        /\ NoteEndAwaitingSettle(z).generation = z.generation
    BY <1>3, AwaitingIs DEF NoteEndAwaitingSettle, Counts
  <1>5. /\ session' \in {z, NoteEndAwaitingSettle(z)}
        /\ permissions' = FinishEngine(s, permissions)
        /\ lost' = (lost \/ EndsUncounted(s)) /\ agents' = TopIs(top)
    BY DEF AgentEnd
  <1>6. top \in Agents /\ agents \in Seq(Agents)
    <2>1. agents \in Seq(Agents) /\ agents # <<>>
      BY LedTyped DEF AgentEnd, TopRuns, RestTyped
    <2>2. Last(agents) \in Agents
      BY <2>1, FrontIs
    <2> QED BY <2>1, <2>2 DEF Agents
  <1> HIDE DEF z, s, top
  <1>7. agents' \in Seq(Agents) /\ lost' \in BOOLEAN
    BY <1>5, <1>6, PutTyped, LedTyped DEF TopIs, RestTyped, EndsUncounted
  <1>8. session' \in Sessions /\ session'.generation = session.generation
        /\ permissions' \in Runtimes
    BY <1>2, <1>3, <1>4, <1>5, LedTyped, FinishEngineTyped DEF RestTyped
  <1>9. RestTyped'
    BY <1>1, <1>7, <1>8, LedTyped DEF RestTyped
  <1> QED BY <1>1, <1>8, <1>9, LedTyped, HostStays, HostOrdinary DEF HostStep

LEMMA AgentSettledGoes ==
  ASSUME Led, AgentSettled
  PROVE  HostStep
  <1> DEFINE s == MarkLifecycleEvent(session)
             z == FinishNestedTurn(s)
             y == TakeEndAwaitingSettle(s)
  <1>1. /\ UNCHANGED <<reload, backend, holder, run, torn, faults, mutations, pending, budget,
                    closed, implicit>>
        /\ agents' = Front(agents)
    BY DEF AgentSettled
  <1>2. s \in Sessions /\ s.generation = session.generation
    BY LedTyped, CounterOps DEF RestTyped
  <1>3. z \in Sessions /\ z.generation = s.generation
    BY <1>2, FinishNestedTyped DEF Counts
  <1>4. y \in Sessions /\ y.generation = s.generation
    BY <1>2, AwaitingIs DEF TakeEndAwaitingSettle, Counts
  <1>5. /\ session' \in {z, SettleBetween(y)}
        /\ permissions' \in {permissions, FinishEngine(s, permissions)}
        /\ lost' \in {lost, (lost \/ EndsUncounted(s))}
    BY DEF AgentSettled
  <1> HIDE DEF s, z, y
  <1>6. agents' \in Seq(Agents) /\ lost' \in BOOLEAN
    BY <1>1, <1>5, FrontTyped, LedTyped DEF RestTyped, EndsUncounted
  <1>7. session' \in Sessions /\ session'.generation = session.generation
        /\ permissions' \in Runtimes
    BY <1>2, <1>3, <1>4, <1>5, LedTyped, FinishEngineTyped, SettleBetweenTyped DEF RestTyped
  <1>8. RestTyped'
    BY <1>1, <1>6, <1>7, LedTyped DEF RestTyped
  <1> QED BY <1>1, <1>7, <1>8, LedTyped, HostStays, HostOrdinary DEF HostStep

LEMMA AgentLeaksGoes ==
  ASSUME Led, AgentLeaks
  PROVE  HostStep
  <1>1. /\ UNCHANGED <<session, permissions, reload, backend, holder, run, torn, faults>>
        /\ UNCHANGED <<mutations, pending, budget, closed, implicit>>
        /\ agents' = Front(agents) /\ lost' = TRUE
    BY DEF AgentLeaks, activationVars
  <1>2. RestTyped'
    BY <1>1, FrontTyped, LedTyped DEF RestTyped
  <1> QED BY <1>1, <1>2, LedTyped, HostStays, HostOrdinary DEF HostStep

LEMMA HostEventGoes ==
  ASSUME Led, HostEvent
  PROVE  HostStep
  BY AgentStartGoes, TurnStartGoes, PrepareToolGoes, ToolEndsGoes, AgentEndGoes,
     AgentSettledGoes, AgentLeaksGoes DEF HostEvent

-------------------------------------------------------------------------------
(* The user's events.                                                      *)
TaskPlaces == {"none", "queued", "config", "shared", "lease"}

LEMMA TaskTyped ==
  ASSUME Led, NEW t \in Tasks
  PROVE  /\ t \in Procs /\ t # Host /\ t \in Nat /\ run[t] \in Activities /\ Sound(run[t])
         /\ run[t].op \in TaskOps /\ run[t].gen \in Nat /\ run[t].barrier \in Nat
         /\ run[t].target \in Modes \cup {NoMode} /\ run[t].force \in BOOLEAN
         /\ run[t].at # "none" => ~(t <= budget.events)
  <1>1. t \in Procs /\ t # Host /\ t \in Nat
    BY WiringAssumption DEF Tasks, Host
  <1>2. run[t] \in Activities /\ Sound(run[t]) /\ run[t].op \in TaskOps
    BY <1>1, LedTyped DEF Led, Typed, TypeOK, OpsOf
  <1>3. run[t].at # "none" => ~(t <= budget.events)
    BY RestingIs DEF Led, EventsAhead
  <1>4. /\ run[t].gen \in Nat /\ run[t].barrier \in Nat
        /\ run[t].target \in Modes \cup {NoMode} /\ run[t].force \in BOOLEAN
    BY <1>2 DEF Activities
  <1> QED BY <1>1, <1>2, <1>3, <1>4

LEMMA TaskGoesOn ==
  ASSUME Led, NEW t \in Tasks, NEW a \in Activities, TaskGoes(t, a), Sound(a), a.op \in TaskOps,
         a.at \in TaskPlaces, run[t].at \notin Held, holder' = holder
  PROVE  Goes(t, a)
  <1>1. LeaseMoves(t, a)
    BY DEF LeaseMoves, Leased, TaskPlaces, Boxed
  <1> QED BY <1>1, TaskTyped DEF Goes, TaskGoes, OpsOf, TaskPlaces, Held, Touching, Boxed

LEMMA TaskContinues ==
  ASSUME Led, NEW t \in Tasks, NEW a \in Activities, TaskGoes(t, a), Sound(a), a.op \in TaskOps,
         a.at \in TaskPlaces, run[t].at \notin Held \cup {"none"},
         UNCHANGED <<holder, backend, torn, closed, agents, lost, implicit, budget>>,
         session' \in Sessions, session'.generation = session.generation,
         permissions' \in Runtimes, mutations' \in Seq(Tasks), pending' \in BOOLEAN,
         faults' \in Nat, reload' \in Reloads, reload'.record = reload.record,
         reload'.sandbox = reload.sandbox,
         Published(reload') # Published(reload) => a # run[t] /\ Current(t)
  PROVE  Ordinary(t, a)
  <1>1. Goes(t, a)
    BY TaskGoesOn
  <1>2. RestTyped'
    BY LedTyped DEF RestTyped
  <1>3. ~(t <= budget.events)
    BY TaskTyped
  <1> QED BY <1>1, <1>2, <1>3, LedTyped DEF Ordinary

LEMMA DoneIs ==
  ASSUME Led, NEW t \in Tasks, Done(t)
  PROVE  TaskGoes(t, Resting) /\ mutations' \in Seq(Tasks)
  <1>1. mutations \in Seq(Tasks)
    BY LedTyped DEF RestTyped
  <1>2. mutations # <<>> => Tail(mutations) \in Seq(Tasks)
    BY <1>1
  <1> QED BY <1>1, <1>2 DEF Done

(* The steps of an event that leave the session's type and the sandbox's   *)
(* publication alone.                                                      *)
LEMMA TaskDone ==
  ASSUME Led, NEW t \in Tasks, Done(t), run[t].at \notin Held \cup {"none"},
         UNCHANGED <<holder, backend, torn, closed, agents, lost, implicit, budget>>,
         session' \in Sessions, session'.generation = session.generation,
         permissions' \in Runtimes, pending' \in BOOLEAN,
         faults' \in Nat, reload' \in Reloads, reload'.record = reload.record,
         reload'.sandbox = reload.sandbox,
         Published(reload') # Published(reload) => Current(t)
  PROVE  Ordinary(t, Resting)
  <1>1. TaskGoes(t, Resting) /\ mutations' \in Seq(Tasks)
    BY DoneIs
  <1>2. Resting # run[t] /\ Resting \in Activities /\ Sound(Resting) /\ Resting.op \in TaskOps
        /\ Resting.at \in TaskPlaces
    BY RestingIs, RestingSound DEF TaskPlaces
  <1> QED BY <1>1, <1>2, TaskContinues

(* A mode is all that changes of the reload-scoped state.                  *)
LEMMA ModeIs ==
  ASSUME reload \in Reloads, NEW m \in Modes \cup {NoMode}
  PROVE  LET z == [reload EXCEPT !.mode = m]
         IN z \in Reloads /\ z.record = reload.record /\ z.sandbox = reload.sandbox
            /\ Published(z) = Published(reload)
  BY DEF Reloads, Published

LEMMA ModeMoves ==
  ASSUME Led, NEW m \in Modes \cup {NoMode}, reload' \in {reload, [reload EXCEPT !.mode = m]}
  PROVE  /\ reload' \in Reloads /\ reload'.record = reload.record
         /\ reload'.sandbox = reload.sandbox /\ Published(reload') = Published(reload)
  <1>1. reload \in Reloads
    BY LedTyped
  <1>2. CASE reload' = reload
    BY <1>1, <1>2
  <1>3. CASE reload' = [reload EXCEPT !.mode = m]
    BY <1>1, <1>3, ModeIs
  <1> QED BY <1>2, <1>3

LEMMA NextModeTyped == \A m : NextMode(m) \in Modes
  BY DEF NextMode, Modes

LEMMA BarrierTyped ==
  ASSUME Led, NEW b \in Nat, NEW ok \in BOOLEAN
  PROVE  SettleBarrier(session, b, ok) \in Sessions
         /\ SettleBarrier(session, b, ok).generation = session.generation
  BY LedTyped, BarrierOps, ZenonT(40) DEF RestTyped, Beside, Counts

LEMMA SupersededGoes ==
  ASSUME Led, NEW t \in Tasks, Superseded(t)
  PROVE  Ordinary(t, Resting)
  <1>1. /\ Done(t) /\ run[t].at \notin Held \cup {"none"}
        /\ UNCHANGED <<holder, backend, torn, closed, agents, lost, implicit, budget>>
        /\ UNCHANGED <<permissions, reload, faults, pending>>
    BY DEF Superseded, Turnaround, Held, Touching, Stays
  <1>2. session' \in Sessions /\ session'.generation = session.generation
    BY TaskTyped, BarrierTyped, LedTyped DEF Superseded, RestTyped
  <1> QED BY <1>1, <1>2, TaskDone, LedTyped DEF RestTyped

LEMMA TaskCalls ==
  ASSUME Led, NEW t \in Tasks, NEW a, NEW x \in Activities, x.op \in TaskOps,
         NEW g, NEW f, NEW m, Called(a, x, g, f, m)
  PROVE  a \in Activities /\ Sound(a) /\ a.op \in TaskOps /\ a.at \in TaskPlaces
  BY DEF Called, Sound, TaskPlaces

LEMMA CalledAgain ==
  ASSUME Led, NEW t \in Tasks, NEW f \in BOOLEAN, NEW m \in Modes \cup {NoMode},
         NEW c \in Configs \cup {NoConfig}
  PROVE  LET a == Activating(run[t], run[t].gen, f, m, c)
         IN a \in Activities /\ Sound(a) /\ a.op \in TaskOps /\ a.at \in TaskPlaces
  <1> DEFINE a == Activating(run[t], run[t].gen, f, m, c)
  <1>1. /\ run[t] \in Activities /\ run[t].op \in TaskOps /\ run[t].gen \in Nat
        /\ run[t].op \notin {"nest", "refresh-up", "refresh-down"}
    BY TaskTyped DEF TaskOps
  <1>2. Called(a, run[t], run[t].gen, f, m)
    BY <1>1, ActivatingSound
  <1> HIDE DEF a
  <1>3. a \in Activities /\ Sound(a) /\ a.op \in TaskOps /\ a.at \in TaskPlaces
    BY <1>1, <1>2, TaskCalls
  <1> QED BY <1>3 DEF a

TaskStep(t) == \E a \in Activities : Ordinary(t, a)

LEMMA CycleRunsGoes ==
  ASSUME Led, NEW t \in Tasks, CycleRuns(t)
  PROVE  TaskStep(t)
  <1>1. /\ run[t].at \notin Held \cup {"none"}
        /\ UNCHANGED <<holder, backend, torn, closed, agents, lost, implicit, budget>>
        /\ UNCHANGED <<session, reload, faults, pending, mutations>>
        /\ permissions' = InvalidateTurns(permissions)
    BY DEF CycleRuns, Turnaround, Held, Touching, Stays
  <1>2. PICK f \in BOOLEAN, m \in Modes \cup {NoMode} :
          TaskGoes(t, Activating(run[t], run[t].gen, f, m, NoConfig))
    <2>1. CASE reload.mode = NoMode
      BY <2>1 DEF CycleRuns
    <2>2. CASE reload.mode # NoMode
      BY <2>2, NextModeTyped DEF CycleRuns, CycleForced
    <2> QED BY <2>1, <2>2
  <1> DEFINE a == Activating(run[t], run[t].gen, f, m, NoConfig)
  <1>3. a \in Activities /\ Sound(a) /\ a.op \in TaskOps /\ a.at \in TaskPlaces
    BY CalledAgain
  <1>4. TaskGoes(t, a)
    BY <1>2
  <1> HIDE DEF a
  <1>5. permissions' \in Runtimes
    BY <1>1, InvalidatedIs
  <1>6. Ordinary(t, a)
    BY <1>1, <1>3, <1>4, <1>5, LedTyped, TaskContinues DEF RestTyped
  <1> QED BY <1>3, <1>6 DEF TaskStep

LEMMA CycleAnsweredGoes ==
  ASSUME Led, NEW t \in Tasks, CycleAnswered(t)
  PROVE  TaskStep(t)
  <1>1. /\ run[t].at \notin Held \cup {"none"}
        /\ UNCHANGED <<holder, backend, torn, closed, agents, lost, implicit, budget>>
        /\ UNCHANGED <<permissions, faults, pending>>
    BY DEF CycleAnswered, Held, Touching, Stays
  <1>2. CASE run[t].ok /\ Current(t) /\ run[t].force
    <2>1. /\ reload' = [reload EXCEPT !.mode = run[t].target]
          /\ session' = SettleBarrier(session, run[t].barrier, TRUE) /\ Done(t)
      BY <1>2 DEF CycleAnswered
    <2>2. /\ reload' \in Reloads /\ reload'.record = reload.record
          /\ reload'.sandbox = reload.sandbox /\ Published(reload') = Published(reload)
      BY <2>1, TaskTyped, LedTyped, ModeIs
    <2>3. session' \in Sessions /\ session'.generation = session.generation
      BY <2>1, TaskTyped, BarrierTyped
    <2>4. Ordinary(t, Resting)
      BY <1>1, <2>1, <2>2, <2>3, LedTyped, TaskDone DEF RestTyped
    <2> QED BY <2>4, RestingIs DEF TaskStep
  <1>3. CASE run[t].ok /\ Current(t) /\ ~run[t].force
    <2> DEFINE mode == IF reload.mode = NoMode THEN "auto" ELSE reload.mode
               a == Activating(run[t], run[t].gen, TRUE, NextMode(mode), NoConfig)
    <2>1. /\ reload' = [reload EXCEPT !.mode = mode] /\ TaskGoes(t, a)
          /\ UNCHANGED <<session, mutations>>
      BY <1>3 DEF CycleAnswered
    <2>2. mode \in Modes \cup {NoMode} /\ NextMode(mode) \in Modes \cup {NoMode}
      BY LedTyped, NextModeTyped DEF Modes
    <2> HIDE DEF mode
    <2>3. /\ reload' \in Reloads /\ reload'.record = reload.record
          /\ reload'.sandbox = reload.sandbox /\ Published(reload') = Published(reload)
      BY <2>1, <2>2, LedTyped, ModeIs
    <2>4. a \in Activities /\ Sound(a) /\ a.op \in TaskOps /\ a.at \in TaskPlaces
      BY <2>2, CalledAgain
    <2> HIDE DEF a
    <2>5. Ordinary(t, a)
      BY <1>1, <2>1, <2>3, <2>4, LedTyped, TaskContinues DEF RestTyped
    <2> QED BY <2>4, <2>5 DEF TaskStep
  <1>4. CASE ~(run[t].ok /\ Current(t))
    <2>1. /\ UNCHANGED reload /\ session' = SettleBarrier(session, run[t].barrier, FALSE)
          /\ Done(t)
      BY <1>4 DEF CycleAnswered
    <2>2. session' \in Sessions /\ session'.generation = session.generation
      BY <2>1, TaskTyped, BarrierTyped
    <2>3. Ordinary(t, Resting)
      BY <1>1, <2>1, <2>2, LedTyped, TaskDone DEF RestTyped
    <2> QED BY <2>3, RestingIs DEF TaskStep
  <1> QED BY <1>2, <1>3, <1>4

LEMMA DesireAnsweredGoes ==
  ASSUME Led, NEW t \in Tasks, DesireAnswered(t)
  PROVE  Ordinary(t, Resting)
  <1> DEFINE m == NextMode(IF reload.mode = NoMode THEN "auto" ELSE reload.mode)
  <1>1. /\ run[t].at \notin Held \cup {"none"} /\ Done(t)
        /\ UNCHANGED <<holder, backend, torn, closed, agents, lost, implicit, budget>>
        /\ UNCHANGED <<session, permissions, faults>>
        /\ pending' \in {TRUE, pending}
    BY DEF DesireAnswered, Held, Touching, Stays
  <1>2. reload' \in {reload, [reload EXCEPT !.mode = m]}
    <2>1. CASE run[t].ok /\ Current(t)
      BY <2>1, LedTyped DEF DesireAnswered, Reloads
    <2>2. CASE ~(run[t].ok /\ Current(t))
      BY <2>2 DEF DesireAnswered
    <2> QED BY <2>1, <2>2
  <1>3. m \in Modes
    BY NextModeTyped
  <1> HIDE DEF m
  <1>4. /\ reload' \in Reloads /\ reload'.record = reload.record
        /\ reload'.sandbox = reload.sandbox /\ Published(reload') = Published(reload)
    BY <1>2, <1>3, ModeMoves
  <1> QED BY <1>1, <1>4, LedTyped, TaskDone DEF RestTyped

LEMMA RestoredAnsweredGoes ==
  ASSUME Led, NEW t \in Tasks, RestoredAnswered(t)
  PROVE  Ordinary(t, Resting)
  <1>1. /\ run[t].at \notin Held \cup {"none"} /\ Done(t)
        /\ UNCHANGED <<holder, backend, torn, closed, agents, lost, implicit, budget>>
        /\ UNCHANGED <<session, permissions, faults, pending>>
        /\ reload' \in {reload, [reload EXCEPT !.mode = run[t].target]}
    BY DEF RestoredAnswered, Held, Touching, Stays
  <1>2. /\ reload' \in Reloads /\ reload'.record = reload.record
        /\ reload'.sandbox = reload.sandbox /\ Published(reload') = Published(reload)
    BY <1>1, TaskTyped, ModeMoves
  <1> QED BY <1>1, <1>2, LedTyped, TaskDone DEF RestTyped

LEMMA ReloadRunsGoes ==
  ASSUME Led, NEW t \in Tasks, ReloadRuns(t)
  PROVE  TaskStep(t)
  <1>1. /\ run[t].at = "queued" /\ run[t].op = "reload" /\ Move(t, "config")
        /\ UNCHANGED <<holder, backend, torn, closed, agents, lost, implicit, budget>>
        /\ UNCHANGED <<session, permissions, reload, faults, mutations, pending>>
    BY DEF ReloadRuns, Turnaround, Stays
  <1>2. PICK a \in Activities : /\ run' = [run EXCEPT ![t] = a] /\ a.at = "config"
                                /\ Carried(run[t], a)
    BY <1>1, MoveIs, TaskTyped DEF Places
  <1>3. Sound(a) /\ a.op \in TaskOps /\ a.at \in TaskPlaces
    BY <1>1, <1>2, TaskTyped DEF Sound, Carried, Boxed, Nesting, TaskPlaces
  <1>4. TaskGoes(t, a) /\ run[t].at \notin Held \cup {"none"}
    BY <1>1, <1>2 DEF TaskGoes, Held, Touching
  <1>5. Ordinary(t, a)
    BY <1>1, <1>3, <1>4, LedTyped, TaskContinues DEF RestTyped
  <1> QED BY <1>5 DEF TaskStep

LEMMA TreeRunsGoes ==
  ASSUME Led, NEW t \in Tasks, NEW mode \in Modes, TreeRuns(t, mode)
  PROVE  TaskStep(t)
  <1>1. /\ run[t].at \notin Held \cup {"none"}
        /\ UNCHANGED <<holder, backend, torn, closed, agents, lost, implicit, budget>>
        /\ UNCHANGED <<session, permissions, reload, faults, pending>>
    BY DEF TreeRuns, Turnaround, Held, Touching, Stays
  <1>2. CASE reload.record = NoRecord \/ reload.mode = NoMode
    <2>1. Done(t)
      BY <1>2 DEF TreeRuns
    <2>2. Ordinary(t, Resting)
      BY <1>1, <2>1, LedTyped, TaskDone DEF RestTyped
    <2> QED BY <2>2, RestingIs DEF TaskStep
  <1>3. CASE ~(reload.record = NoRecord \/ reload.mode = NoMode)
    <2> DEFINE c == reload.record.config
               a == Activating(run[t], run[t].gen, FALSE, mode, c)
    <2>1. TaskGoes(t, a) /\ UNCHANGED mutations
      BY <1>3 DEF TreeRuns
    <2>2. c \in Configs \cup {NoConfig}
      BY <1>3, LedTyped DEF Reloads, Records
    <2> HIDE DEF c
    <2>3. a \in Activities /\ Sound(a) /\ a.op \in TaskOps /\ a.at \in TaskPlaces
      BY <2>2, CalledAgain
    <2> HIDE DEF a
    <2>4. Ordinary(t, a)
      BY <1>1, <2>1, <2>3, LedTyped, TaskContinues DEF RestTyped
    <2> QED BY <2>3, <2>4 DEF TaskStep
  <1> QED BY <1>2, <1>3

LEMMA ConfigFailsIs ==
  ASSUME reload \in Reloads, NEW b \in BOOLEAN
  PROVE  LET z == [reload EXCEPT !.configFailed = @ \/ b]
         IN /\ z \in Reloads /\ z.record = reload.record /\ z.sandbox = reload.sandbox
            /\ Published(z) # Published(reload) => b
  <1> DEFINE f == reload.configFailed \/ b
             z == [reload EXCEPT !.configFailed = f]
  <1>1. f \in BOOLEAN /\ (~b => f = reload.configFailed)
    BY DEF Reloads
  <1>2. [reload EXCEPT !.configFailed = @ \/ b] = z
    BY DEF Reloads
  <1> HIDE DEF f
  <1>3. z \in Reloads /\ z.record = reload.record /\ z.sandbox = reload.sandbox
    BY <1>1 DEF Reloads
  <1>4. ~b => Published(z) = Published(reload)
    BY <1>1 DEF Reloads, Published
  <1> QED BY <1>2, <1>3, <1>4

LEMMA ConfigReadGoes ==
  ASSUME Led, NEW t \in Tasks, NEW c \in Configs \cup {NoConfig}, NEW mode \in Modes,
         ConfigRead(t, c, mode)
  PROVE  TaskStep(t)
  <1>1. /\ run[t].at \notin Held \cup {"none"}
        /\ UNCHANGED <<holder, backend, torn, closed, agents, lost, implicit, budget>>
        /\ UNCHANGED <<session, permissions, pending>>
    BY DEF ConfigRead, Held, Touching, Stays
  <1>2. faults' \in Nat
    BY LedTyped, OutcomeTyped DEF ConfigRead, RestTyped
  <1>3. CASE c = NoConfig
    <2> DEFINE z == [reload EXCEPT !.configFailed = @ \/ Current(t)]
    <2>1. Done(t) /\ reload' = z
      BY <1>3 DEF ConfigRead
    <2>2. /\ z \in Reloads /\ z.record = reload.record /\ z.sandbox = reload.sandbox
          /\ Published(z) # Published(reload) => Current(t)
      BY LedTyped, ConfigFailsIs DEF Current
    <2> HIDE DEF z
    <2>3. Ordinary(t, Resting)
      BY <1>1, <1>2, <2>1, <2>2, LedTyped, TaskDone DEF RestTyped
    <2> QED BY <2>3, RestingIs DEF TaskStep
  <1>4. CASE c # NoConfig
    <2> DEFINE a == Activating(run[t], run[t].gen, TRUE, mode, c)
    <2>1. TaskGoes(t, a) /\ UNCHANGED <<reload, mutations>>
      BY <1>4 DEF ConfigRead
    <2>2. a \in Activities /\ Sound(a) /\ a.op \in TaskOps /\ a.at \in TaskPlaces
      BY CalledAgain
    <2> HIDE DEF a
    <2>3. Ordinary(t, a)
      BY <1>1, <1>2, <2>1, <2>2, LedTyped, TaskContinues DEF RestTyped
    <2> QED BY <2>2, <2>3 DEF TaskStep
  <1> QED BY <1>3, <1>4

LEMMA ArrivesIs ==
  ASSUME Led, NEW t \in Tasks, Arrives(t)
  PROVE  /\ budget' \in Budgets /\ budget'.events <= budget.events
         /\ ~(t <= budget'.events) /\ run[t] = Resting /\ ~closed
         /\ run[t].at \notin Held
  <1> DEFINE n == budget.events - 1
  <1>1. ~closed /\ t = budget.events /\ budget' = [budget EXCEPT !.events = n]
    BY LedTyped DEF Arrives, RestTyped, Budgets
  <1>2. budget \in Budgets /\ budget.events \in Nat /\ t # 0
    BY LedTyped, TaskTyped DEF RestTyped, Host
  <1>3. n \in Nat /\ n <= budget.events /\ ~(t <= n) /\ t <= budget.events
    BY <1>1, <1>2
  <1>4. run[t] = Resting
    BY <1>3 DEF Led, EventsAhead
  <1>5. run[t].at \notin Held
    BY <1>4, RestingIs DEF Held, Touching
  <1> HIDE DEF n
  <1>6. budget' \in Budgets /\ budget'.events = n
    BY <1>1, <1>2, <1>3 DEF Budgets
  <1> QED BY <1>1, <1>3, <1>4, <1>5, <1>6

LEMMA EventGoes ==
  ASSUME Led, NEW t \in Tasks, Arrives(t), NEW a \in Activities, Goes(t, a),
         UNCHANGED <<backend, torn, closed, agents, lost, implicit, faults>>,
         session' \in Sessions, permissions' \in Runtimes, mutations' \in Seq(Tasks),
         pending' \in BOOLEAN, reload' \in Reloads, reload'.record = reload.record,
         reload'.sandbox = reload.sandbox, Published(reload') = Published(reload)
  PROVE  Ordinary(t, a)
  <1>1. budget' \in Budgets /\ budget'.events <= budget.events /\ ~(t <= budget'.events) /\ ~closed
    BY ArrivesIs
  <1>2. RestTyped'
    BY <1>1, LedTyped DEF RestTyped
  <1> QED BY <1>1, <1>2 DEF Ordinary

LEMMA EventStays ==
  ASSUME Led, NEW t \in Tasks, UNCHANGED <<run, holder>>
  PROVE  Goes(t, run[t]) /\ run[t] \in Activities
  <1>1. run' = [run EXCEPT ![t] = run[t]]
    BY LedTyped, TaskTyped DEF TypeOK
  <1>2. LeaseMoves(t, run[t])
    BY TaskTyped DEF LeaseMoves, Led, LeaseHeld
  <1> QED BY <1>1, <1>2, TaskTyped DEF Goes, OpsOf

(* An event queued behind the mutations before it.                         *)
LEMMA QueuedGoes ==
  ASSUME Led, NEW t \in Tasks, NEW op \in {"cycle", "reload", "tree"}, NEW g \in Nat, NEW b \in Nat,
         NEW a, a = [Queued(op) EXCEPT !.gen = g] \/ a = [Queued(op) EXCEPT !.gen = g, !.barrier = b],
         TaskGoes(t, a), run[t].at \notin Held, holder' = holder,
         mutations' = Append(mutations, t)
  PROVE  a \in Activities /\ Goes(t, a) /\ mutations' \in Seq(Tasks)
  <1>0. op \in HostOps \cup TaskOps /\ "queued" \in Places
    BY DEF TaskOps, Places
  <1>1. \E k \in Nat : Stands(a, op, "queued", g, 0, k)
    <2>1. CASE a = [Queued(op) EXCEPT !.gen = g]
      BY <1>0, <2>1, PlacedThen DEF Queued
    <2>2. CASE a = [Queued(op) EXCEPT !.gen = g, !.barrier = b]
      BY <1>0, <2>2, PlacedBehind DEF Queued
    <2> QED BY <2>1, <2>2
  <1>2. a \in Activities /\ Sound(a) /\ a.op \in TaskOps /\ a.at \in TaskPlaces
    BY <1>1 DEF Stands, Sound, TaskOps, TaskPlaces, Boxed, Nesting
  <1>3. mutations \in Seq(Tasks)
    BY LedTyped DEF RestTyped
  <1>4. mutations' \in Seq(Tasks)
    BY <1>3
  <1> QED BY <1>2, <1>4, TaskGoesOn

LEMMA CycleGoes ==
  ASSUME Led, NEW t \in Tasks, Cycle(t)
  PROVE  TaskStep(t)
  <1>1. /\ Arrives(t) /\ UNCHANGED <<agents, closed, lost, implicit>>
        /\ UNCHANGED <<permissions, backend, holder, torn, faults>>
    BY DEF Cycle, Stays
  <1>2. run[t] = Resting /\ run[t].at \notin Held
    BY <1>1, ArrivesIs
  <1>3. /\ session \in Sessions /\ permissions \in Runtimes /\ mutations \in Seq(Tasks)
        /\ pending \in BOOLEAN /\ reload \in Reloads /\ session.generation \in Nat
    BY LedTyped DEF RestTyped
  <1>4. CASE session.phase = "active" /\ reload.mode # NoMode
    <2> DEFINE m == NextMode(reload.mode)
    <2>1. reload' = [reload EXCEPT !.mode = m] /\ pending' = TRUE /\ UNCHANGED <<session, run, mutations>>
      BY <1>3, <1>4 DEF Cycle, Reloads
    <2>2. m \in Modes
      BY NextModeTyped
    <2> HIDE DEF m
    <2>3. /\ reload' \in Reloads /\ reload'.record = reload.record
          /\ reload'.sandbox = reload.sandbox /\ Published(reload') = Published(reload)
      BY <2>1, <2>2, ModeMoves
    <2>4. Goes(t, run[t]) /\ run[t] \in Activities
      BY <1>1, <2>1, EventStays
    <2> QED BY <1>1, <1>3, <2>1, <2>3, <2>4, EventGoes DEF TaskStep
  <1>5. CASE session.phase = "active" /\ reload.mode = NoMode
    <2> DEFINE x == Starting("desire")
               a == Activating(x, session.generation, FALSE, NoMode, NoConfig)
    <2>1. TaskGoes(t, a) /\ UNCHANGED <<session, reload, mutations, pending>>
      BY <1>5 DEF Cycle
    <2>2. x \in Activities /\ x.op = "desire"
      BY StartingIs DEF TaskOps
    <2> HIDE DEF x
    <2>3. Called(a, x, session.generation, FALSE, NoMode)
      BY <1>3, <2>2, ActivatingSound
    <2> HIDE DEF a
    <2>4. a \in Activities /\ Sound(a) /\ a.op \in TaskOps /\ a.at \in TaskPlaces
      BY <2>2, <2>3, TaskCalls DEF TaskOps
    <2>5. Goes(t, a)
      BY <1>1, <1>2, <2>1, <2>4, TaskGoesOn
    <2> QED BY <1>1, <1>3, <2>1, <2>4, <2>5, EventGoes DEF TaskStep
  <1>6. CASE session.phase # "active"
    <2> DEFINE b == Len(session.barriers) + 1
               a == [Queued("cycle") EXCEPT !.gen = session.generation, !.barrier = b]
    <2>1. /\ session' = CreateBarrier(session) /\ TaskGoes(t, a)
          /\ mutations' = Append(mutations, t) /\ UNCHANGED <<reload, pending>>
      BY <1>6 DEF Cycle
    <2>2. b \in Nat /\ session' \in Sessions
      BY <1>3, <2>1, BarrierOps DEF Beside
    <2> HIDE DEF b
    <2>3. a \in Activities /\ Goes(t, a) /\ mutations' \in Seq(Tasks)
      BY <1>1, <1>2, <1>3, <2>1, <2>2, QueuedGoes
    <2> HIDE DEF a
    <2> QED BY <1>1, <1>3, <2>1, <2>2, <2>3, EventGoes DEF TaskStep
  <1> QED BY <1>4, <1>5, <1>6

LEMMA ReloadGoes ==
  ASSUME Led, NEW t \in Tasks, Reload(t)
  PROVE  TaskStep(t)
  <1> DEFINE a == [Queued("reload") EXCEPT !.gen = session.generation]
  <1>1. /\ Arrives(t) /\ UNCHANGED <<agents, closed, lost, implicit>>
        /\ UNCHANGED <<session, permissions, reload, backend, holder, torn, faults, pending>>
        /\ TaskGoes(t, a) /\ mutations' = Append(mutations, t)
    BY DEF Reload, Enqueue, Stays
  <1>2. run[t].at \notin Held
    BY <1>1, ArrivesIs
  <1>3. /\ session \in Sessions /\ permissions \in Runtimes
        /\ pending \in BOOLEAN /\ reload \in Reloads /\ session.generation \in Nat
    BY LedTyped DEF RestTyped
  <1>4. a \in Activities /\ Goes(t, a) /\ mutations' \in Seq(Tasks)
    BY <1>1, <1>2, <1>3, QueuedGoes
  <1> HIDE DEF a
  <1> QED BY <1>1, <1>3, <1>4, EventGoes DEF TaskStep

LEMMA BranchEventIs ==
  ASSUME Led, NEW t \in Tasks, BranchEvent(t)
  PROVE  /\ Arrives(t) /\ UNCHANGED <<agents, closed, lost, implicit>>
         /\ UNCHANGED <<reload, backend, holder, torn, faults>>
         /\ session' \in Sessions /\ permissions' \in Runtimes /\ pending' = FALSE
         /\ reload \in Reloads /\ run[t].at \notin Held /\ mutations \in Seq(Tasks)
         /\ session.generation + 1 \in Nat
  <1>1. /\ Arrives(t) /\ UNCHANGED <<agents, closed, lost, implicit>>
        /\ UNCHANGED <<reload, backend, holder, torn, faults>> /\ pending' = FALSE
        /\ session' = BranchReset(session) /\ permissions' = InvalidateTurns(permissions)
    BY DEF BranchEvent, Stays
  <1>2. session' \in Sessions
    BY <1>1, LedTyped, BranchResetIs DEF RestTyped
  <1>3. permissions' \in Runtimes
    BY <1>1, InvalidatedIs
  <1>4. session.generation \in Nat /\ reload \in Reloads /\ mutations \in Seq(Tasks)
    BY LedTyped DEF RestTyped
  <1>5. session.generation + 1 \in Nat
    BY <1>4
  <1>6. run[t].at \notin Held
    BY <1>1, ArrivesIs
  <1> QED BY <1>1, <1>2, <1>3, <1>4, <1>5, <1>6

LEMMA BeforeTreeGoes ==
  ASSUME Led, NEW t \in Tasks, BeforeTree(t)
  PROVE  TaskStep(t)
  <1>1. BranchEvent(t) /\ UNCHANGED <<run, mutations>>
    BY DEF BeforeTree
  <1>2. /\ Arrives(t) /\ UNCHANGED <<agents, closed, lost, implicit>>
         /\ UNCHANGED <<reload, backend, holder, torn, faults>>
         /\ session' \in Sessions /\ permissions' \in Runtimes /\ pending' = FALSE
         /\ reload \in Reloads /\ mutations \in Seq(Tasks)
    BY <1>1, BranchEventIs
  <1>3. Goes(t, run[t]) /\ run[t] \in Activities
    BY <1>1, <1>2, EventStays
  <1> QED BY <1>1, <1>2, <1>3, EventGoes DEF TaskStep

LEMMA TreeGoes ==
  ASSUME Led, NEW t \in Tasks, Tree(t)
  PROVE  TaskStep(t)
  <1> DEFINE g == session.generation + 1
             a == [Queued("tree") EXCEPT !.gen = g]
  <1>1. BranchEvent(t) /\ TaskGoes(t, a) /\ mutations' = Append(mutations, t)
    BY DEF Tree, Enqueue
  <1>2. /\ Arrives(t) /\ UNCHANGED <<agents, closed, lost, implicit>>
         /\ UNCHANGED <<reload, backend, holder, torn, faults>>
         /\ session' \in Sessions /\ permissions' \in Runtimes /\ pending' = FALSE
         /\ reload \in Reloads /\ run[t].at \notin Held /\ g \in Nat
    BY <1>1, BranchEventIs
  <1> HIDE DEF g
  <1>3. a \in Activities /\ Goes(t, a) /\ mutations' \in Seq(Tasks)
    BY <1>1, <1>2, QueuedGoes
  <1> HIDE DEF a
  <1> QED BY <1>2, <1>3, EventGoes DEF TaskStep

LEMMA SessionStartGoes ==
  ASSUME Led, NEW t \in Tasks, SessionStart(t)
  PROVE  TaskStep(t)
  <1> DEFINE g == session.generation + 1
             a == [Starting("session") EXCEPT !.at = "config", !.gen = g]
  <1>1. /\ Arrives(t) /\ UNCHANGED <<agents, closed, lost, implicit>>
        /\ UNCHANGED <<reload, backend, holder, torn, faults, mutations>> /\ pending' = FALSE
        /\ session' = ClearLifecycleEvents(BranchReset(session))
        /\ permissions' = InvalidateTurns(permissions) /\ TaskGoes(t, a)
    BY DEF SessionStart, Stays
  <1>2. session' \in Sessions
    <2>1. BranchReset(session) \in Sessions
      BY LedTyped, BranchResetIs DEF RestTyped
    <2> QED BY <1>1, <2>1, CounterOps
  <1>3. permissions' \in Runtimes
    BY <1>1, InvalidatedIs
  <1>4. session.generation \in Nat /\ reload \in Reloads /\ mutations \in Seq(Tasks)
    BY LedTyped DEF RestTyped
  <1>5. g \in Nat
    BY <1>4
  <1>6. run[t].at \notin Held
    BY <1>1, ArrivesIs
  <1> HIDE DEF g
  <1>7. Stands(a, "session", "config", g, 0, 0)
    BY <1>5, PlacedSince DEF TaskOps, Places
  <1> HIDE DEF a
  <1>8. a \in Activities /\ Sound(a) /\ a.op \in TaskOps /\ a.at \in TaskPlaces
    BY <1>7 DEF Stands, Sound, TaskOps, TaskPlaces, Boxed, Nesting
  <1>9. Goes(t, a)
    BY <1>1, <1>6, <1>8, TaskGoesOn
  <1> QED BY <1>1, <1>2, <1>3, <1>4, <1>8, <1>9, EventGoes DEF TaskStep

-------------------------------------------------------------------------------
(* The shutdown, and every step in one of five kinds.                      *)
Opens(t, a) ==
  /\ run' = [run EXCEPT ![t] = a] /\ Sound(a) /\ a.op \in TaskOps /\ a.at = "closing-lease"
  /\ RestTyped' /\ UNCHANGED <<reload, backend, holder, torn>>
  /\ budget'.events <= budget.events /\ ~(t <= budget'.events)
  /\ run[t] = Resting /\ closed' = TRUE

LEMMA ShutdownOpens ==
  ASSUME Led, NEW t \in Tasks, Shutdown(t)
  PROVE  \E a \in Activities : Opens(t, a)
  <1> DEFINE a == [Starting("shutdown") EXCEPT !.at = "closing-lease"]
  <1>1. /\ Arrives(t) /\ TaskGoes(t, a) /\ closed' = TRUE
        /\ session' = BranchReset(session) /\ permissions' = InvalidateTurns(permissions)
        /\ UNCHANGED <<reload, backend, holder, torn, faults, agents, mutations, pending, lost, implicit>>
    BY DEF Shutdown, BranchReset
  <1>2. session' \in Sessions
    BY <1>1, LedTyped, BranchResetIs DEF RestTyped
  <1>3. permissions' \in Runtimes
    BY <1>1, InvalidatedIs
  <1>4. /\ budget' \in Budgets /\ budget'.events <= budget.events
        /\ ~(t <= budget'.events) /\ run[t] = Resting
    BY <1>1, ArrivesIs
  <1>5. Stands(a, "shutdown", "closing-lease", 0, 0, 0)
    BY PlacedAt DEF TaskOps, Places
  <1> HIDE DEF a
  <1>6. a \in Activities /\ Sound(a) /\ a.op \in TaskOps /\ a.at = "closing-lease"
    BY <1>5 DEF Stands, Sound, TaskOps, Boxed, Nesting
  <1>7. RestTyped'
    BY <1>1, <1>2, <1>3, <1>4, LedTyped DEF RestTyped
  <1>8. Opens(t, a)
    BY <1>1, <1>4, <1>6, <1>7 DEF Opens, TaskGoes
  <1> QED BY <1>6, <1>8

Tears(t, a) ==
  /\ run' = [run EXCEPT ![t] = a] /\ Sound(a) /\ a.op \in TaskOps /\ a.at = "closing"
  /\ run[t].at = "closing-lease" /\ holder = NoProc /\ holder' = t
  /\ reload' \in Reloads /\ reload'.sandbox = "pending"
  /\ UNCHANGED <<session, permissions, backend, torn, faults, hostVars>>

LEMMA ShutdownTears ==
  ASSUME Led, NEW t \in Tasks, ShutdownBegins(t)
  PROVE  \E a \in Activities : Tears(t, a)
  <1>1. /\ run[t].at = "closing-lease" /\ holder = NoProc /\ holder' = t
        /\ Move(t, "closing") /\ reload' = PublishSandbox(reload, "pending")
        /\ UNCHANGED <<session, permissions, backend, torn, faults, hostVars>>
    BY DEF ShutdownBegins, ShutdownLease
  <1>2. PICK a \in Activities : /\ run' = [run EXCEPT ![t] = a] /\ a.at = "closing"
                                /\ Carried(run[t], a)
    BY <1>1, MoveIs, TaskTyped DEF Places
  <1>3. Sound(a) /\ a.op \in TaskOps
    BY <1>1, <1>2, TaskTyped DEF Sound, Carried, Boxed, Nesting
  <1>4. reload' \in Reloads /\ reload'.sandbox = "pending"
    BY <1>1, LedTyped, PublishIs
  <1> QED BY <1>1, <1>2, <1>3, <1>4 DEF Tears

Torn(t) ==
  /\ run' = [run EXCEPT ![t] = Resting] /\ run[t].at = "closing" /\ holder = t /\ holder' = NoProc
  /\ backend' = NoBase
  /\ UNCHANGED <<session, permissions, reload, torn, faults, hostVars>>

LEMMA ShutdownEndsTorn ==
  ASSUME Led, NEW t \in Tasks, ShutdownEnds(t)
  PROVE  Torn(t)
  <1>1. holder = t
    BY TaskTyped DEF ShutdownEnds, Led, LeaseHeld, Leased
  <1> QED BY <1>1 DEF ShutdownEnds, Torn, TaskGoes, Free

Steps ==
  \/ \E p \in Procs : \E a \in Activities : Advances(p, a) /\ UNCHANGED hostVars
  \/ \E p \in Procs : \E a \in Activities : Ordinary(p, a)
  \/ \E t \in Tasks : \E a \in Activities : Opens(t, a)
  \/ \E t \in Tasks : \E a \in Activities : Tears(t, a)
  \/ \E t \in Tasks : Torn(t)

LEMMA ActivationSteps ==
  ASSUME Led, NEW p \in Procs, ActivationContinues(p) \/ ActivationIo(p), UNCHANGED hostVars
  PROVE  Steps
  BY ActivationAdvances DEF Led, Steps

LEMMA EverySteps ==
  ASSUME Led, Next
  PROVE  Steps
  <1>0. Host \in Procs /\ \A t \in Tasks : t \in Procs
    BY LedTyped DEF Tasks
  <1>1. HostStep => Steps
    BY <1>0 DEF HostStep, Steps
  <1>2. \A t \in Tasks : TaskStep(t) => Steps
    BY <1>0 DEF TaskStep, Steps
  <1>3. CASE HostEvent
    BY <1>1, <1>3, HostEventGoes
  <1>4. ASSUME NEW t \in Tasks, UserEvent(t) PROVE Steps
    <2>1. CASE Shutdown(t)
      BY <2>1, ShutdownOpens DEF Steps
    <2> QED BY <2>1, <1>2, <1>4, CycleGoes, ReloadGoes, BeforeTreeGoes, TreeGoes, SessionStartGoes
            DEF UserEvent
  <1>5. ASSUME NEW p \in Procs, Continues(p) PROVE Steps
    <2>1. CASE ActivationContinues(p) /\ UNCHANGED hostVars
      BY <2>1, ActivationSteps
    <2>2. CASE BarrierEnds \/ StartAnswered \/ DrainBegins \/ RefreshAnswered
               \/ BeginPrepare \/ PrepareAnswered
      BY <2>2, <1>1, BarrierEndsGoes, StartAnsweredGoes, DrainBeginsGoes, RefreshAnsweredGoes,
         BeginPrepareGoes, PrepareAnsweredGoes
    <2>3. ASSUME p \in Tasks, NEW mode \in Modes,
                 \/ ShutdownBegins(p) \/ Superseded(p) \/ CycleRuns(p)
                 \/ CycleAnswered(p) \/ DesireAnswered(p) \/ ReloadRuns(p)
                 \/ RestoredAnswered(p) \/ TreeRuns(p, mode)
          PROVE  Steps
      <3>1. Resting \in Activities
        BY RestingIs
      <3>2. CASE ShutdownBegins(p)
        BY <3>2, <2>3, ShutdownTears DEF Steps
      <3>3. CASE Superseded(p) \/ DesireAnswered(p) \/ RestoredAnswered(p)
        BY <3>1, <3>3, <2>3, <1>2, SupersededGoes, DesireAnsweredGoes, RestoredAnsweredGoes
           DEF TaskStep
      <3>4. CASE CycleRuns(p) \/ CycleAnswered(p) \/ ReloadRuns(p) \/ TreeRuns(p, mode)
        BY <3>4, <2>3, <1>2, CycleRunsGoes, CycleAnsweredGoes, ReloadRunsGoes, TreeRunsGoes
      <3> QED BY <2>3, <3>2, <3>3, <3>4
    <2>4. Modes # {}
      BY DEF Modes
    <2> QED BY <1>5, <2>1, <2>2, <2>3, <2>4 DEF Continues
  <1>6. ASSUME NEW p \in Procs, IoSettles(p) PROVE Steps
    <2>1. CASE ActivationIo(p) /\ UNCHANGED hostVars
      BY <2>1, ActivationSteps
    <2>2. CASE ParserActivates \/ \E ok \in BOOLEAN : DrainEnds(ok) \/ MaterializeEnds(ok)
      BY <2>2, <1>1, ParserActivatesGoes, DrainEndsGoes, MaterializeEndsGoes
    <2>3. ASSUME p \in Tasks, ShutdownEnds(p) PROVE Steps
      BY <2>3, ShutdownEndsTorn DEF Steps
    <2>4. ASSUME p \in Tasks, NEW c \in Configs \cup {NoConfig}, NEW mode \in Modes,
                 ConfigRead(p, c, mode)
          PROVE  Steps
      BY <2>4, <1>2, ConfigReadGoes
    <2> QED BY <1>6, <2>1, <2>2, <2>3, <2>4 DEF IoSettles
  <1> QED BY <1>3, <1>4, <1>5, <1>6 DEF Next, Step

-------------------------------------------------------------------------------
(* The invariant of the sandbox: who holds the lease, what is typed, and   *)
(* what the shutdown leaves behind it.                                     *)
LEMMA Moved ==
  ASSUME Led, NEW p \in Procs, NEW a \in Activities, run' = [run EXCEPT ![p] = a], Sound(a),
         a.op \in OpsOf(p), LeaseMoves(p, a), RestTyped', reload' \in Reloads,
         backend' \in Bases, torn' \in BOOLEAN, budget'.events <= budget.events,
         p \in Tasks /\ p <= budget'.events => a = Resting
  PROVE  Led' /\ run'[p] = a /\ \A q \in Procs : q # p => run'[q] = run[q]
  <1>1. run \in [Procs -> Activities] /\ holder \in Procs \cup {NoProc} /\ NoProc \notin Procs
    BY LedTyped, NullAssumption DEF TypeOK
  <1>2. /\ run' \in [Procs -> Activities] /\ run'[p] = a
        /\ \A q \in Procs : q # p => run'[q] = run[q]
    BY <1>1
  <1>3. Typed'
    <2>1. holder' \in Procs \cup {NoProc}
      BY <1>1 DEF LeaseMoves
    <2>2. \A q \in Procs : Sound(run'[q]) /\ run'[q].op \in OpsOf(q)
      BY <1>2 DEF Led, Typed
    <2> QED BY <1>2, <2>1, <2>2 DEF Typed, TypeOK, RestTyped, Runtimes, Agents
  <1>4. LeaseHeld'
    BY <1>1, <1>2 DEF Led, LeaseHeld, LeaseMoves
  <1>5. EventsAhead'
    <2>1. ASSUME NEW t \in Tasks, t <= budget'.events PROVE run'[t] = Resting
      <3>1. CASE t = p
        BY <1>2, <2>1, <3>1
      <3>2. CASE t # p
        <4>1. t \in Nat /\ budget.events \in Nat /\ t \in Procs
          BY LedTyped, TaskTyped
        <4>2. budget'.events \in Nat
          BY DEF RestTyped, Budgets
        <4>3. t <= budget.events
          BY <4>1, <4>2, <2>1
        <4> QED BY <4>1, <4>3, <3>2, <1>2 DEF Led, EventsAhead
      <3> QED BY <3>1, <3>2
    <2> QED BY <2>1 DEF EventsAhead
  <1> QED BY <1>2, <1>3, <1>4, <1>5 DEF Led

LEMMA AdvancesMoves ==
  ASSUME Led, NEW p \in Procs, NEW a \in Activities, Advances(p, a), UNCHANGED hostVars
  PROVE  Led' /\ run'[p] = a /\ \A q \in Procs : q # p => run'[q] = run[q]
  <1>1. a.op \in OpsOf(p) /\ run[p].at # "none"
    BY DEF Led, Typed, Advances, Carried, Activations
  <1>2. RestTyped'
    BY LedTyped, InvalidatedIs DEF RestTyped, Advances, hostVars
  <1>3. p \in Tasks /\ p <= budget'.events => a = Resting
    BY <1>1, TaskTyped DEF hostVars
  <1> QED BY <1>1, <1>2, <1>3, LedTyped, Moved DEF Advances, hostVars

LEMMA OrdinaryMoves ==
  ASSUME Led, NEW p \in Procs, NEW a \in Activities, Ordinary(p, a)
  PROVE  Led' /\ run'[p] = a /\ \A q \in Procs : q # p => run'[q] = run[q]
  BY LedTyped, Moved DEF Ordinary, Goes, TypeOK

LEMMA OpensMoves ==
  ASSUME Led, NEW t \in Tasks, NEW a \in Activities, Opens(t, a)
  PROVE  Led' /\ run'[t] = a /\ \A q \in Procs : q # t => run'[q] = run[q]
  <1>1. LeaseMoves(t, a)
    BY DEF Opens, LeaseMoves, Leased, Boxed
  <1> QED BY <1>1, LedTyped, TaskTyped, Moved DEF Opens, OpsOf, TypeOK

LEMMA TearsMoves ==
  ASSUME Led, NEW t \in Tasks, NEW a \in Activities, Tears(t, a)
  PROVE  Led' /\ run'[t] = a /\ \A q \in Procs : q # t => run'[q] = run[q]
  <1>1. LeaseMoves(t, a)
    BY DEF Tears, LeaseMoves
  <1>2. RestTyped'
    BY LedTyped DEF RestTyped, Tears, hostVars
  <1>3. ~(t <= budget'.events)
    BY TaskTyped DEF Tears, hostVars
  <1> QED BY <1>1, <1>2, <1>3, LedTyped, TaskTyped, Moved DEF Tears, OpsOf, TypeOK, hostVars

LEMMA TornMoves ==
  ASSUME Led, NEW t \in Tasks, Torn(t)
  PROVE  Led' /\ run'[t] = Resting /\ \A q \in Procs : q # t => run'[q] = run[q]
  <1>1. LeaseMoves(t, Resting)
    BY RestingIs DEF Torn, LeaseMoves, Leased, Boxed
  <1>2. RestTyped'
    BY LedTyped DEF RestTyped, Torn, hostVars
  <1>3. Resting.op \in OpsOf(t) /\ Resting \in Activities /\ Sound(Resting)
    BY RestingIs, RestingSound, TaskTyped DEF OpsOf
  <1>4. NoBase \in Bases
    BY DEF Bases
  <1> QED BY <1>1, <1>2, <1>3, <1>4, LedTyped, TaskTyped, Moved DEF Torn, TypeOK, hostVars

LEMMA LedStep ==
  ASSUME Led, [Next]_vars
  PROVE  Led'
  <1>1. CASE Next
    BY <1>1, EverySteps, AdvancesMoves, OrdinaryMoves, OpensMoves, TearsMoves, TornMoves DEF Steps
  <1>2. CASE UNCHANGED vars
    BY <1>2 DEF vars, activationVars, hostVars, Led, Typed, TypeOK, LeaseHeld, EventsAhead
  <1> QED BY <1>1, <1>2

LEMMA StartedIs ==
  ASSUME NEW c \in Configs \cup {NoConfig}
  PROVE  LET z == Started(c, "auto")
             base == IF z.record = NoRecord THEN NoBase ELSE z.record.base
         IN /\ z \in Reloads /\ base \in Bases
            /\ z.sandbox = "ready" <=> base # NoBase
  <1>1. NewReload \in Reloads /\ NewReload.record = NoRecord /\ NewReload.sandbox = "pending"
    BY DEF NewReload, Reloads
  <1>2. CASE c = NoConfig
    BY <1>1, <1>2 DEF Started, Bases
  <1>3. CASE c # NoConfig
    <2> DEFINE box == IF BaseOf[c] = NoBase THEN "disabled" ELSE "ready"
               y == Commit(NewReload, c, BaseOf[c], box)
    <2>1. c \in Configs /\ BaseOf[c] \in Bases
      BY <1>3, ConfigAssumption
    <2>2. /\ y \in Reloads /\ y.record # NoRecord /\ y.record.base = BaseOf[c]
          /\ y.sandbox = box
      BY <1>1, <2>1, CommittedIs
    <2>3. Started(c, "auto") = [y EXCEPT !.mode = "auto"]
      BY <1>3 DEF Started
    <2>4. box = "ready" <=> BaseOf[c] # NoBase
      OBVIOUS
    <2> HIDE DEF y, box
    <2>5. [y EXCEPT !.mode = "auto"] \in Reloads /\ [y EXCEPT !.mode = "auto"].record = y.record
          /\ [y EXCEPT !.mode = "auto"].sandbox = y.sandbox
      BY <2>2 DEF Reloads, Modes
    <2> QED BY <2>1, <2>2, <2>3, <2>4, <2>5
  <1> QED BY <1>2, <1>3

LEMMA LedInit ==
  ASSUME Init
  PROVE  Led
  <1>1. PICK s \in Scenarios :
          /\ reload = Started(s.first, "auto") /\ faults = s.faults
          /\ budget = [agents |-> s.agents, turns |-> s.turns, events |-> s.events,
                       leaks |-> s.leaks, cold |-> s.cold]
    BY DEF Init
  <1>2. reload \in Reloads /\ InstalledBase \in Bases /\ faults \in Nat /\ budget \in Budgets
    BY <1>1, StartedIs, WiringAssumption DEF InstalledBase, Budgets
  <1>3. /\ session = NewSession /\ permissions = NewRuntime
        /\ backend = InstalledBase /\ holder = NoProc
        /\ run = [p \in Procs |-> Resting] /\ torn = FALSE
        /\ agents = <<>> /\ mutations = <<>> /\ pending = FALSE
        /\ closed = FALSE /\ lost = FALSE /\ implicit = 0
    BY DEF Init, NoTurn
  <1>4. session \in Sessions /\ permissions \in Runtimes
    BY <1>3, NewSessionTyped, InvalidatedIs
  <1>5. agents \in Seq(Agents) /\ mutations \in Seq(Tasks)
    BY <1>3
  <1>6. \A p \in Procs : run[p] = Resting /\ Resting \in Activities
    BY <1>3, RestingIs
  <1>7. run \in [Procs -> Activities]
    BY <1>3, <1>6
  <1>8. Typed
    BY <1>2, <1>3, <1>4, <1>5, <1>6, <1>7, RestingSound DEF Typed, TypeOK, Runtimes, Agents, OpsOf
  <1>9. LeaseHeld /\ EventsAhead
    BY <1>6, RestingIs DEF LeaseHeld, Leased, Boxed, EventsAhead, Tasks
  <1> QED BY <1>8, <1>9 DEF Led

(* Whatever the user's events, the host's handlers and the activations do  *)
(* in each other's awaits, every variable keeps its type                   *)
(* (permission-session.ts:34-103, register-state.ts).                      *)
THEOREM TypeCorrect == Spec => []TypeOK
  <1>1. Led => TypeOK
    BY DEF Led, Typed
  <1> QED BY <1>1, LedInit, LedStep, PTL DEF Spec

(* While the shutdown tears the sandbox down, nothing is published ready;  *)
(* after it, whoever is about to reach the backend is current, and what is *)
(* up is published.                                                        *)
ClosingPending == \A p \in Procs : run[p].at = "closing" => reload.sandbox # "ready"
UpIsPublished == backend # NoBase => reload.sandbox = "ready" /\ backend = InstalledBase
Reaching == {"activating", "restoring", "closing"}
ClosedInv ==
  closed /\ (\A p \in Procs : run[p].at # "closing-lease") =>
    /\ \A p \in Procs : run[p].at \in Boxed => Current(p)
    /\ (\A p \in Procs : run[p].at \notin Reaching) => UpIsPublished
SandboxInv == ReadyIsTruthful /\ ClosingPending /\ ClosedInv

LEMMA SandboxAdvances ==
  ASSUME Led, SandboxInv, NEW p \in Procs, NEW a \in Activities, Advances(p, a),
         UNCHANGED hostVars
  PROVE  SandboxInv'
  <1>1. run'[p] = a /\ \A q \in Procs : q # p => run'[q] = run[q]
    BY AdvancesMoves
  <1>2. closed' = closed /\ session' = session
    BY DEF hostVars, Advances
  <1>3. CASE /\ run[p].at \in {"shared", "lease", "loading", "git"} /\ a.at # "restoring"
             /\ UNCHANGED <<backend, torn>>
             /\ reload'.record = reload.record /\ reload'.sandbox = reload.sandbox
             /\ a.at \in Boxed => run[p].at = "git" \/ Current(p)
    <2>1. InstalledBase' = InstalledBase
      BY <1>3 DEF InstalledBase
    <2>2. ReadyIsTruthful'
      BY <1>1, <1>3, <2>1 DEF SandboxInv, ReadyIsTruthful, Touching
    <2>3. ClosingPending'
      BY <1>1, <1>3 DEF SandboxInv, ClosingPending, Advances, Activations
    <2>4. ClosedInv'
      <3> SUFFICES ASSUME closed', \A q \in Procs : run'[q].at # "closing-lease"
                   PROVE  /\ \A q \in Procs : run'[q].at \in Boxed => Current(q)'
                          /\ (\A q \in Procs : run'[q].at \notin Reaching) => UpIsPublished'
        BY DEF ClosedInv
      <3>1. /\ \A q \in Procs : run[q].at \in Boxed => Current(q)
            /\ (\A q \in Procs : run[q].at \notin Reaching) => UpIsPublished
        BY <1>1, <1>2, <1>3 DEF SandboxInv, ClosedInv
      <3>2. ASSUME NEW q \in Procs, run'[q].at \in Boxed PROVE Current(q)'
        BY <1>1, <1>2, <1>3, <3>1, <3>2 DEF Current, Advances, Carried, Boxed
      <3>3. (\A q \in Procs : run'[q].at \notin Reaching) => UpIsPublished'
        BY <1>1, <1>3, <2>1, <3>1 DEF Reaching, UpIsPublished
      <3> QED BY <3>2, <3>3
    <2> QED BY <2>2, <2>3, <2>4 DEF SandboxInv
  <1>4. CASE run[p].at = "activating" /\ a.at = "restoring" /\ Current(p)
    <2>1. ReadyIsTruthful'
      BY <1>1, <1>4 DEF ReadyIsTruthful, Touching
    <2>2. ClosingPending'
      <3>1. ASSUME NEW q \in Procs, run'[q].at = "closing" PROVE FALSE
        <4>1. q # p /\ run[q].at = "closing"
          BY <1>1, <1>4, <3>1
        <4> QED BY <4>1, <1>4 DEF Led, LeaseHeld, Leased, Boxed
      <3> QED BY <3>1 DEF ClosingPending
    <2>3. ClosedInv'
      BY <1>1, <1>2, <1>4 DEF SandboxInv, ClosedInv, Reaching, Current, Advances, Carried, Boxed
    <2> QED BY <2>1, <2>2, <2>3 DEF SandboxInv
  <1>5. CASE /\ run[p].at \in {"shortcut", "bare", "activating", "restoring"} /\ a.at = "answered"
             /\ torn' \/ (reload'.sandbox = "ready" => backend' = InstalledBase' /\ backend' # NoBase)
             /\ Current(p) \/ run[p].at \notin Boxed =>
                  (backend' # NoBase => reload'.sandbox = "ready" /\ backend' = InstalledBase')
             /\ run[p].at \notin Boxed => reload' = reload \/ reload'.sandbox # "ready"
    <2>1. ReadyIsTruthful'
      BY <1>5 DEF ReadyIsTruthful
    <2>2. ClosingPending'
      <3>1. ASSUME NEW q \in Procs, run'[q].at = "closing" PROVE reload'.sandbox # "ready"
        <4>1. q # p /\ run[q].at = "closing"
          BY <1>1, <1>5, <3>1
        <4>2. run[p].at \notin Boxed
          BY <4>1 DEF Led, LeaseHeld, Leased
        <4> QED BY <4>1, <4>2, <1>5 DEF SandboxInv, ClosingPending
      <3> QED BY <3>1 DEF ClosingPending
    <2>3. ClosedInv'
      <3> SUFFICES ASSUME closed', \A q \in Procs : run'[q].at # "closing-lease"
                   PROVE  /\ \A q \in Procs : run'[q].at \in Boxed => Current(q)'
                          /\ UpIsPublished'
        BY DEF ClosedInv
      <3>1. \A q \in Procs : run[q].at # "closing-lease"
        BY <1>1, <1>5
      <3>2. \A q \in Procs : run[q].at \in Boxed => Current(q)
        BY <1>2, <3>1 DEF SandboxInv, ClosedInv
      <3>3. \A q \in Procs : run'[q].at \in Boxed => Current(q)'
        BY <1>1, <1>2, <1>5, <3>2 DEF Current, Boxed
      <3>4. UpIsPublished'
        BY <1>5, <3>2 DEF UpIsPublished
      <3> QED BY <3>3, <3>4
    <2> QED BY <2>1, <2>2, <2>3 DEF SandboxInv
  <1> QED BY <1>3, <1>4, <1>5 DEF Advances, Touches

LEMMA SandboxOrdinary ==
  ASSUME Led, SandboxInv, NEW p \in Procs, NEW a \in Activities, Ordinary(p, a)
  PROVE  SandboxInv'
  <1>1. run'[p] = a /\ \A q \in Procs : q # p => run'[q] = run[q]
    BY OrdinaryMoves
  <1>2. UNCHANGED <<backend, torn, closed>> /\ reload'.record = reload.record
        /\ reload'.sandbox = reload.sandbox /\ InstalledBase' = InstalledBase
    BY DEF Ordinary, InstalledBase
  <1>3. a = run[p] \/ (/\ a.at \notin Touching \cup Boxed /\ run[p].at \notin Touching
                       /\ a.at \notin {"closing-lease", "closing"}
                       /\ run[p].at # "closing-lease")
    BY DEF Ordinary, Goes, Held
  <1>4. ReadyIsTruthful' /\ ClosingPending'
    BY <1>1, <1>2, <1>3 DEF SandboxInv, ReadyIsTruthful, ClosingPending
  <1>5. ClosedInv'
    <2> SUFFICES ASSUME closed', \A q \in Procs : run'[q].at # "closing-lease"
                 PROVE  /\ \A q \in Procs : run'[q].at \in Boxed => Current(q)'
                        /\ (\A q \in Procs : run'[q].at \notin Reaching) => UpIsPublished'
      BY DEF ClosedInv
    <2>1. CASE \A q \in Procs : run[q].at # "closing-lease"
      <3>1. /\ \A q \in Procs : run[q].at \in Boxed => Current(q)
            /\ (\A q \in Procs : run[q].at \notin Reaching) => UpIsPublished
        BY <1>2, <2>1 DEF SandboxInv, ClosedInv
      <3>2. ASSUME NEW q \in Procs, run'[q].at \in Boxed PROVE Current(q)'
        <4>1. run'[q] = run[q] /\ run[q].at \in Boxed
          BY <1>1, <1>3, <3>2
        <4>2. run[p].at # "draining"
          BY <4>1 DEF Led, LeaseHeld, Leased, Boxed
        <4>3. session'.generation = session.generation
          BY <4>2, <1>2 DEF Ordinary
        <4> QED BY <4>1, <4>3, <3>1 DEF Current
      <3>3. (\A q \in Procs : run'[q].at \notin Reaching) => UpIsPublished'
        BY <1>1, <1>2, <1>3, <3>1 DEF Reaching, Touching, UpIsPublished
      <3> QED BY <3>2, <3>3
    <2>2. CASE \E q \in Procs : run[q].at = "closing-lease"
      BY <2>2, <1>1, <1>3
    <2> QED BY <2>1, <2>2
  <1> QED BY <1>4, <1>5 DEF SandboxInv

LEMMA SandboxCloses ==
  ASSUME Led, SandboxInv, NEW t \in Tasks,
         (\E a \in Activities : Opens(t, a)) \/ (\E a \in Activities : Tears(t, a)) \/ Torn(t)
  PROVE  SandboxInv'
  <1>0. t \in Procs /\ NoProc \notin Procs
    BY TaskTyped, NullAssumption
  <1>1. ASSUME NEW a \in Activities, Opens(t, a) PROVE SandboxInv'
    <2>1. run'[t] = a /\ \A q \in Procs : q # t => run'[q] = run[q]
      BY <1>1, OpensMoves
    <2>2. a.at = "closing-lease" /\ run[t].at = "none" /\ UNCHANGED <<reload, backend, torn>>
      BY <1>1, RestingIs DEF Opens
    <2>3. InstalledBase' = InstalledBase
      BY <2>2 DEF InstalledBase
    <2>4. ReadyIsTruthful'
      BY <2>1, <2>2, <2>3 DEF SandboxInv, ReadyIsTruthful, Touching
    <2>5. ClosingPending'
      BY <2>1, <2>2 DEF SandboxInv, ClosingPending
    <2>6. ClosedInv'
      BY <1>0, <2>1, <2>2 DEF ClosedInv
    <2> QED BY <2>4, <2>5, <2>6 DEF SandboxInv
  <1>2. ASSUME NEW a \in Activities, Tears(t, a) PROVE SandboxInv'
    <2>1. run'[t] = a /\ \A q \in Procs : q # t => run'[q] = run[q]
      BY <1>2, TearsMoves
    <2>2. a.at = "closing" /\ holder = NoProc /\ reload'.sandbox = "pending"
      BY <1>2 DEF Tears
    <2>3. ReadyIsTruthful' /\ ClosingPending'
      BY <2>2 DEF ReadyIsTruthful, ClosingPending
    <2>4. ClosedInv'
      <3>1. \A q \in Procs : run'[q].at \notin Boxed
        BY <1>0, <2>1, <2>2 DEF Led, LeaseHeld, Leased, Boxed
      <3> QED BY <1>0, <2>1, <2>2, <3>1 DEF ClosedInv, Reaching
    <2> QED BY <2>3, <2>4 DEF SandboxInv
  <1>3. CASE Torn(t)
    <2>1. run'[t] = Resting /\ \A q \in Procs : q # t => run'[q] = run[q]
      BY <1>3, TornMoves
    <2>2. run[t].at = "closing" /\ holder = t /\ backend' = NoBase /\ UNCHANGED <<reload, torn>>
      BY <1>3 DEF Torn
    <2>3. reload'.sandbox # "ready"
      BY <1>0, <2>2 DEF SandboxInv, ClosingPending
    <2>4. ReadyIsTruthful' /\ ClosingPending'
      BY <2>3 DEF ReadyIsTruthful, ClosingPending
    <2>5. ClosedInv'
      <3>1. \A q \in Procs : run'[q].at \notin Boxed
        BY <1>0, <2>1, <2>2, RestingIs DEF Led, LeaseHeld, Leased, Boxed
      <3> QED BY <2>2, <3>1 DEF ClosedInv, UpIsPublished
    <2> QED BY <2>4, <2>5 DEF SandboxInv
  <1> QED BY <1>1, <1>2, <1>3

LEMMA SandboxStep ==
  ASSUME Led, SandboxInv, [Next]_vars
  PROVE  SandboxInv'
  <1>1. CASE Next
    BY <1>1, EverySteps, SandboxAdvances, SandboxOrdinary, SandboxCloses DEF Steps
  <1>2. CASE UNCHANGED vars
    <2>1. UNCHANGED <<reload, backend, torn, run, closed, session>>
      BY <1>2 DEF vars, activationVars, hostVars
    <2> QED BY <2>1 DEF SandboxInv, ReadyIsTruthful, ClosingPending, ClosedInv, UpIsPublished,
                        InstalledBase, Current
  <1> QED BY <1>1, <1>2

LEMMA SandboxInit ==
  ASSUME Init
  PROVE  SandboxInv
  <1>1. PICK c \in Configs \cup {NoConfig} : reload = Started(c, "auto")
    BY WiringAssumption DEF Init
  <1>2. reload.sandbox = "ready" <=> InstalledBase # NoBase
    BY <1>1, StartedIs DEF InstalledBase
  <1>3. backend = InstalledBase /\ ~closed /\ \A p \in Procs : run[p].at = "none"
    BY RestingIs DEF Init
  <1> QED BY <1>2, <1>3 DEF SandboxInv, ReadyIsTruthful, ClosingPending, ClosedInv

LEMMA SandboxAlways == Spec => [](Led /\ SandboxInv)
  BY LedInit, LedStep, SandboxInit, SandboxStep, PTL DEF Spec

(* What the extension publishes of the sandbox is the truth: published     *)
(* ready, the backend holds the policy published with it, and after the    *)
(* shutdown nothing is up that is not published, whatever activation was   *)
(* under way (register.ts:835-888, 2175-2194).                             *)
THEOREM TruthPublished == Spec => []PublishedIsTrue
  <1>1. Led /\ SandboxInv => PublishedIsTrue
    <2> SUFFICES ASSUME Led, SandboxInv PROVE PublishedIsTrue
      OBVIOUS
    <2>1. closed /\ AtRest /\ backend # NoBase => reload.sandbox = "ready" /\ backend = InstalledBase
      BY DEF SandboxInv, ClosedInv, UpIsPublished, AtRest, Boxed, Reaching
    <2> QED BY <2>1 DEF SandboxInv, PublishedIsTrue, OnlyPublishedIsUp
  <1> QED BY <1>1, SandboxAlways, PTL

(* Record, readiness and failures are written only by whoever is current,  *)
(* however long it waited before, and by the shutdown                      *)
(* (register.ts:849-853, 2125, 2158, 2511).                                *)
THEOREM OnlyTheCurrentPublishes == Spec => SupersededNeverPublishes
  <1>1. ASSUME Led, [Next]_vars, Published(reload') # Published(reload)
        PROVE  \E p \in Procs : run'[p] # run[p] /\ (Current(p) \/ run[p].op = "shutdown")
    <2>1. Next
      BY <1>1 DEF vars, activationVars
    <2>2. ASSUME NEW p \in Procs, NEW a \in Activities, Advances(p, a), UNCHANGED hostVars
          PROVE  run'[p] # run[p] /\ Current(p)
      BY <1>1, <2>2, AdvancesMoves DEF Advances
    <2>3. ASSUME NEW p \in Procs, NEW a \in Activities, Ordinary(p, a)
          PROVE  run'[p] # run[p] /\ Current(p)
      BY <1>1, <2>3, OrdinaryMoves DEF Ordinary
    <2>4. ASSUME NEW t \in Tasks, NEW a \in Activities, Tears(t, a)
          PROVE  t \in Procs /\ run'[t] # run[t] /\ run[t].op = "shutdown"
      <3>1. run[t].at = "closing-lease" /\ a.at = "closing"
        BY <2>4 DEF Tears
      <3> QED BY <1>1, <2>4, <3>1, TearsMoves, TaskTyped DEF Sound
    <2>5. ASSUME NEW t \in Tasks, (\E a \in Activities : Opens(t, a)) \/ Torn(t) PROVE FALSE
      BY <1>1, <2>5 DEF Opens, Torn
    <2> QED BY <1>1, <2>1, <2>2, <2>3, <2>4, <2>5, EverySteps DEF Steps
  <1>2. Led /\ [Next]_vars =>
          [Published(reload') # Published(reload) =>
             \E p \in Procs : /\ run'[p] # run[p]
                              /\ Current(p) \/ run[p].op = "shutdown"]_vars
    BY <1>1
  <1>3. Spec => []Led
    BY LedInit, LedStep, PTL DEF Spec
  <1> QED BY <1>2, <1>3, PTL DEF Spec, SupersededNeverPublishes

-------------------------------------------------------------------------------
(* The levels of a turn: level 0 is the root's snapshot, level i the       *)
(* nested one at i. Those that are governed are the first k; under them    *)
(* come the sentinels. Each governed level lies under the ones outside it, *)
(* and so does what the Engine has live and parked.                        *)
LevelOf(s, i) == IF i = 0 THEN s.snapshot ELSE s.nested[i]

Shaped(s) ==
  /\ Len(s.nested) = Len(s.ceilings)
  /\ IF s.phase = "active"
     THEN s.depth = 1 + Len(s.nested) /\ s.turn # NoTurn
     ELSE s.depth = 0 /\ s.nested = <<>> /\ s.turn = NoTurn /\ s.snapshot = NoSnapshot
  /\ s.depth <= MaxNestedTurnDepth
  /\ s.snapshot # NoSnapshot => s.snapshot.turn = s.turn

Alike(x, y) == x.mode = y.mode /\ x.ready = y.ready
Under(x, y) == x # NoSnapshot => Alike(x, y) /\ Within(x.base, y.base)

Governed(s, k) ==
  /\ \A i \in 1..Len(s.nested) : s.nested[i] # NoSnapshot <=> i <= k
  /\ s.snapshot = NoSnapshot => k = 0
  /\ \A i, j \in 0..k : i < j => Under(LevelOf(s, j), LevelOf(s, i))
Parked(s, levels, above) ==
  \A i \in 1..Len(levels) : Under(levels[i], LevelOf(s, above + i - 1))
Enforced(s, r, k) ==
  /\ s.snapshot = NoSnapshot => r = NewRuntime
  /\ Len(r.levels) <= k
  /\ Under(r.turn, LevelOf(s, k))
  /\ Parked(s, r.levels, k - Len(r.levels))

Aligned(s, r) ==
  Shaped(s) /\ \E k \in 0..Len(s.nested) : Governed(s, k) /\ Enforced(s, r, k)

LEMMA UnderSelf == \A x : Under(x, x)
  BY DEF Under, Alike, Within

LEMMA UnderTwice ==
  ASSUME NEW x, NEW y, NEW z, Under(x, y), Under(y, z), y # NoSnapshot
  PROVE  Under(x, z)
  BY DEF Under, Alike, Within

LEMMA LengthsAre ==
  ASSUME NEW s \in Sessions, NEW r \in Runtimes
  PROVE  /\ Len(s.nested) \in Nat /\ s.nested \in Seq(Levels) /\ s.ceilings \in Seq(Envelopes)
         /\ Len(s.ceilings) \in Nat /\ r.levels \in Seq(Levels) /\ Len(r.levels) \in Nat
         /\ r.turn \in Levels /\ MaxNestedTurnDepth \in Nat \ {0} /\ s.depth \in Nat
         /\ s.snapshot \in Levels
  <1>1. s.nested \in Seq(Levels) /\ s.ceilings \in Seq(Envelopes) /\ s.depth \in Nat /\ s.snapshot \in Levels
    BY DEF Sessions, Envelopes
  <1>2. r.levels \in Seq(Levels) /\ r.turn \in Levels
    BY DEF Runtimes
  <1> QED BY <1>1, <1>2, DepthAssumption

LEMMA NewRuntimeEnforced ==
  ASSUME NEW s \in Sessions, NEW k \in Nat
  PROVE  Enforced(s, NewRuntime, k)
  <1>1. NewRuntime.turn = NoSnapshot /\ NewRuntime.levels = <<>>
    BY InvalidatedIs
  <1> QED BY <1>1 DEF Enforced, Parked, Under

LEMMA EnforcedBy ==
  ASSUME NEW z, NEW r, NEW k \in Nat, z.snapshot # NoSnapshot, Len(r.levels) <= k,
         Under(r.turn, LevelOf(z, k)), Parked(z, r.levels, k - Len(r.levels))
  PROVE  Enforced(z, r, k)
  BY DEF Enforced

LEMMA AlignedStacks ==
  ASSUME NEW s \in Sessions, NEW z \in Sessions, NEW r, Stacks(z, s), Aligned(s, r)
  PROVE  Aligned(z, r)
  <1>1. \A i : LevelOf(z, i) = LevelOf(s, i)
    BY DEF LevelOf, Stacks
  <1>2. Shaped(z)
    BY DEF Aligned, Shaped, Stacks
  <1>3. PICK k \in 0..Len(s.nested) : Governed(s, k) /\ Enforced(s, r, k)
    BY DEF Aligned
  <1>4. Governed(z, k) /\ Enforced(z, r, k)
    BY <1>1, <1>3 DEF Governed, Enforced, Parked, Stacks
  <1> QED BY <1>2, <1>3, <1>4 DEF Aligned, Stacks

LEMMA AlignedInvalidated ==
  ASSUME NEW s \in Sessions, NEW r \in Runtimes, Aligned(s, r)
  PROVE  Aligned(s, NewRuntime)
  <1>1. PICK k \in 0..Len(s.nested) : Governed(s, k)
    BY DEF Aligned
  <1>2. Enforced(s, NewRuntime, k)
    BY NewRuntimeEnforced
  <1> QED BY <1>1, <1>2 DEF Aligned

LEMMA AlignedRoot ==
  ASSUME NEW s \in Sessions, NEW r, Shaped(s), s.nested = <<>>,
         r = NewRuntime \/ (r.levels = <<>> /\ r.turn = s.snapshot /\ s.snapshot # NoSnapshot)
  PROVE  Aligned(s, r)
  <1>1. Governed(s, 0)
    BY DEF Governed
  <1>2. Enforced(s, r, 0)
    <2>1. CASE r = NewRuntime
      BY <2>1, NewRuntimeEnforced
    <2>2. CASE r.levels = <<>> /\ r.turn = s.snapshot /\ s.snapshot # NoSnapshot
      BY <2>2, UnderSelf DEF Enforced, Parked, LevelOf
    <2> QED BY <2>1, <2>2
  <1>3. 0 \in 0..Len(s.nested)
    OBVIOUS
  <1> QED BY <1>1, <1>2, <1>3 DEF Aligned

LEMMA AlignedEmptied ==
  ASSUME NEW s \in Sessions, Emptied(s)
  PROVE  Aligned(s, NewRuntime)
  <1>1. Shaped(s)
    BY DepthAssumption DEF Emptied, Shaped, NoTurn
  <1> QED BY <1>1, AlignedRoot DEF Emptied

(* Where a snapshot governs, every level down to it is governed.           *)
LEMMA TopIsGoverned ==
  ASSUME NEW s \in Sessions, NEW k \in 0..Len(s.nested), Governed(s, k), Shaped(s),
         CurrentSnapshot(s) # NoSnapshot
  PROVE  /\ s.phase = "active" /\ s.turn # NoTurn /\ s.snapshot # NoSnapshot
         /\ k = Len(s.nested) /\ CurrentSnapshot(s) = LevelOf(s, k)
         /\ \A i \in 0..k : LevelOf(s, i) # NoSnapshot
  <1>0. s.nested \in Seq(Levels) /\ Len(s.nested) \in Nat
    BY DEF Sessions
  <1>1. s.phase = "active" /\ s.turn # NoTurn
    BY DEF CurrentSnapshot
  <1>2. CASE s.nested # <<>>
    <2>1. Last(s.nested) = s.nested[Len(s.nested)] /\ Len(s.nested) \in Nat \ {0}
      BY <1>0, <1>2, FrontIs
    <2>2. CurrentSnapshot(s) = s.nested[Len(s.nested)]
      BY <1>1, <1>2, <2>1 DEF CurrentSnapshot
    <2>3. k = Len(s.nested) /\ s.snapshot # NoSnapshot
      BY <2>1, <2>2 DEF Governed
    <2> QED BY <1>0, <1>1, <2>1, <2>2, <2>3 DEF Governed, LevelOf
  <1>3. CASE s.nested = <<>>
    BY <1>1, <1>3 DEF CurrentSnapshot, LevelOf
  <1> QED BY <1>2, <1>3

LEMMA AlignedChild ==
  ASSUME NEW s \in Sessions, NEW r \in Runtimes, Aligned(s, r), MayNest(s),
         CurrentSnapshot(s) # NoSnapshot, NEW snap \in Snapshots,
         Under(snap, CurrentSnapshot(s)), NEW e \in Envelopes
  PROVE  Aligned(BeginNestedTurn(s, snap, e), OpenChildTurn(r, snap))
  <1> DEFINE z == BeginNestedTurn(s, snap, e)
             y == OpenChildTurn(r, snap)
             n == Len(s.nested)
  <1>1. snap \in Levels /\ snap # NoSnapshot
    BY NullAssumption DEF Levels
  <1>2. /\ z \in Sessions /\ z.phase = s.phase /\ z.turn = s.turn
        /\ z.snapshot = s.snapshot /\ z.depth = s.depth + 1
        /\ z.nested = Append(s.nested, snap) /\ z.ceilings = Append(s.ceilings, e)
    BY <1>1, BeginNestedIs
  <1>3. y.turn = snap /\ y.levels = Append(r.levels, r.turn)
    BY <1>1, RuntimeOps
  <1>4. PICK k \in 0..n : Governed(s, k) /\ Enforced(s, r, k)
    BY DEF Aligned
  <1>5. /\ s.phase = "active" /\ s.snapshot # NoSnapshot /\ k = n
        /\ CurrentSnapshot(s) = LevelOf(s, k) /\ \A i \in 0..k : LevelOf(s, i) # NoSnapshot
    BY <1>4, TopIsGoverned DEF Aligned
  <1> HIDE DEF z, y
  <1>6. /\ n \in Nat /\ n = Len(s.nested) /\ Len(r.levels) \in Nat /\ Len(z.nested) = n + 1
        /\ Len(y.levels) = Len(r.levels) + 1 /\ Len(z.ceilings) = Len(s.ceilings) + 1
        /\ \A i \in 1..n : z.nested[i] = s.nested[i]
        /\ z.nested[n + 1] = snap
        /\ \A i \in 1..Len(r.levels) : y.levels[i] = r.levels[i]
        /\ y.levels[Len(r.levels) + 1] = r.turn
    BY <1>2, <1>3, LengthsAre, SMTT(30)
  <1>7. Shaped(z)
    BY <1>2, <1>5, <1>6, LengthsAre, SMTT(30) DEF Aligned, Shaped, MayNest
  <1> HIDE DEF n
  <1> DEFINE m == n + 1
  <1>m. m \in Nat /\ m = n + 1 /\ Len(z.nested) = m /\ z.nested[m] = snap
    BY <1>6
  <1> HIDE DEF m
  <1>8. LevelOf(z, m) = snap /\ \A i \in 0..n : LevelOf(z, i) = LevelOf(s, i)
    BY <1>2, <1>6, <1>m DEF LevelOf
  <1>9. Governed(z, m)
    <2>1. \A i \in 1..Len(z.nested) : z.nested[i] # NoSnapshot <=> i <= m
      BY <1>1, <1>4, <1>5, <1>6, <1>m, SMTT(30) DEF Governed
    <2>2. ASSUME NEW i \in 0..m, NEW j \in 0..m, i < j
          PROVE  Under(LevelOf(z, j), LevelOf(z, i))
      <3>1. CASE j = m
        <4>1. i \in 0..n
          BY <2>2, <3>1, <1>6, <1>m
        <4>2. Under(snap, LevelOf(s, i))
          <5>1. CASE i = n
            BY <5>1, <1>5
          <5>2. CASE i # n
            <6>1. Under(LevelOf(s, n), LevelOf(s, i))
              BY <4>1, <5>2, <1>4, <1>5, <1>6 DEF Governed
            <6> QED BY <6>1, <1>5, <1>6, UnderTwice
          <5> QED BY <5>1, <5>2
        <4> QED BY <3>1, <4>1, <4>2, <1>8
      <3>2. CASE j # m
        <4>1. i \in 0..n /\ j \in 0..n
          BY <2>2, <3>2, <1>6, <1>m
        <4> QED BY <4>1, <2>2, <1>4, <1>5, <1>8 DEF Governed
      <3> QED BY <3>1, <3>2
    <2> QED BY <2>1, <2>2, <1>2, <1>5 DEF Governed
  <1>10. Enforced(z, y, m)
    <2>1. Len(y.levels) <= m
      BY <1>4, <1>5, <1>6, <1>m DEF Enforced
    <2>2. Under(y.turn, LevelOf(z, m))
      BY <1>3, <1>8, UnderSelf
    <2>3. Parked(z, y.levels, m - Len(y.levels))
      <3>1. Parked(s, r.levels, n - Len(r.levels)) /\ Len(r.levels) <= n /\ Under(r.turn, LevelOf(s, n))
        BY <1>4, <1>5 DEF Enforced
      <3> DEFINE w == Len(r.levels)
      <3>2. w \in Nat /\ Len(y.levels) = w + 1 /\ w <= n /\ y.levels[w + 1] = r.turn
        BY <3>1, <1>6
      <3>3. \A i \in 1..w : y.levels[i] = r.levels[i] /\ Under(r.levels[i], LevelOf(s, n - w + i - 1))
        BY <3>1, <1>6 DEF Parked
      <3> HIDE DEF w
      <3>4. ASSUME NEW i \in 1..(w + 1)
            PROVE  Under(y.levels[i], LevelOf(z, n - w + i - 1))
        <4> DEFINE j == n - w + i - 1
        <4>1. j \in 0..n /\ (i = w + 1 => j = n) /\ (i # w + 1 => i \in 1..w)
          <5>1. n \in Nat /\ w \in Nat /\ w <= n
            BY <3>2, <1>6
          <5> QED BY <5>1
        <4>2. i # w + 1 => y.levels[i] = r.levels[i] /\ Under(r.levels[i], LevelOf(s, j))
          BY <4>1, <3>3
        <4> HIDE DEF j
        <4>3. Under(y.levels[i], LevelOf(s, j))
          BY <4>1, <4>2, <3>1, <3>2
        <4>4. LevelOf(z, j) = LevelOf(s, j)
          BY <4>1, <1>8
        <4>5. Under(y.levels[i], LevelOf(z, j))
          BY <4>3, <4>4
        <4> QED BY <4>5 DEF j
      <3>5. m - Len(y.levels) = n - w
        BY <3>2, <1>m, <1>6
      <3>6. Parked(z, y.levels, n - w)
        BY <3>2, <3>4 DEF Parked
      <3> QED BY <3>5, <3>6
    <2>4. z.snapshot # NoSnapshot
      BY <1>2, <1>5
    <2> QED BY <2>1, <2>2, <2>3, <2>4, <1>m, EnforcedBy
  <1>11. m \in 0..Len(z.nested)
    BY <1>m
  <1> QED BY <1>7, <1>9, <1>10, <1>11 DEF Aligned, z, y

(* What leaves the governed levels as they are keeps the alignment.        *)
LEMMA AlignedBy ==
  ASSUME NEW s \in Sessions, NEW r \in Runtimes, NEW z \in Sessions, NEW k \in 0..Len(s.nested),
         Governed(s, k), Enforced(s, r, k), Shaped(z), z.snapshot = s.snapshot,
         k <= Len(z.nested), \A i \in 1..k : z.nested[i] = s.nested[i],
         \A i \in 1..Len(z.nested) : i > k => z.nested[i] = NoSnapshot
  PROVE  Aligned(z, r)
  <1>1. Len(s.nested) \in Nat /\ Len(z.nested) \in Nat /\ Len(r.levels) \in Nat
    BY LengthsAre
  <1>2. k \in Nat /\ k <= Len(s.nested) /\ k \in 0..Len(z.nested)
    BY <1>1
  <1>3. \A i \in 0..k : LevelOf(z, i) = LevelOf(s, i)
    BY <1>2 DEF LevelOf
  <1>4. Governed(z, k)
    <2>1. \A i \in 1..Len(z.nested) : z.nested[i] # NoSnapshot <=> i <= k
      BY <1>1, <1>2 DEF Governed
    <2> QED BY <2>1, <1>3 DEF Governed
  <1>5. Enforced(z, r, k)
    <2>1. Len(r.levels) <= k
      BY DEF Enforced
    <2> DEFINE w == Len(r.levels)
    <2>4. w \in Nat /\ w <= k /\ k \in Nat
      BY <1>1, <1>2, <2>1
    <2>5. \A i \in 1..w : Under(r.levels[i], LevelOf(s, k - w + i - 1))
      BY DEF Enforced, Parked
    <2> HIDE DEF w
    <2>2. ASSUME NEW i \in 1..w
          PROVE  Under(r.levels[i], LevelOf(z, k - w + i - 1))
      <3> DEFINE j == k - w + i - 1
      <3>1. j \in 0..k
        BY <2>4
      <3>2. Under(r.levels[i], LevelOf(s, j))
        BY <2>5
      <3> HIDE DEF j
      <3>3. Under(r.levels[i], LevelOf(z, j))
        BY <3>1, <3>2, <1>3
      <3> QED BY <3>3 DEF j
    <2>6. Parked(z, r.levels, k - w)
      BY <2>2 DEF Parked, w
    <2>3. LevelOf(z, k) = LevelOf(s, k)
      BY <1>2, <1>3
    <2> QED BY <2>1, <2>3, <2>6 DEF Enforced, w
  <1> QED BY <1>2, <1>4, <1>5 DEF Aligned

LEMMA AlignedBlocked ==
  ASSUME NEW s \in Sessions, NEW r \in Runtimes, Aligned(s, r), MayNest(s), NEW e \in Envelopes
  PROVE  Aligned(BeginNestedTurn(s, NoSnapshot, e), r)
  <1> DEFINE z == BeginNestedTurn(s, NoSnapshot, e)
             n == Len(s.nested)
  <1>1. /\ z \in Sessions /\ z.phase = s.phase /\ z.turn = s.turn
        /\ z.snapshot = s.snapshot /\ z.depth = s.depth + 1
        /\ z.nested = Append(s.nested, NoSnapshot) /\ z.ceilings = Append(s.ceilings, e)
    BY EmptySeqs, BeginNestedIs
  <1> HIDE DEF z
  <1>2. PICK k \in 0..n : Governed(s, k) /\ Enforced(s, r, k)
    BY DEF Aligned
  <1>3. /\ n \in Nat /\ Len(z.nested) = n + 1 /\ Len(z.ceilings) = Len(s.ceilings) + 1
        /\ \A i \in 1..n : z.nested[i] = s.nested[i]
        /\ z.nested[n + 1] = NoSnapshot
    BY <1>1, LengthsAre
  <1>4. Shaped(z)
    BY <1>1, <1>3, LengthsAre DEF Aligned, Shaped, MayNest
  <1>5. ASSUME NEW i \in 1..Len(z.nested), i > k PROVE z.nested[i] = NoSnapshot
    BY <1>2, <1>3, <1>5 DEF Governed
  <1>6. k <= Len(z.nested) /\ \A i \in 1..k : z.nested[i] = s.nested[i]
    BY <1>3
  <1>7. Aligned(z, r)
    BY <1>1, <1>2, <1>4, <1>5, <1>6, AlignedBy
  <1> QED BY <1>7 DEF z

LEMMA AlignedSettled ==
  ASSUME NEW s \in Sessions, NEW r \in Runtimes, Aligned(s, r)
  PROVE  SettleBetween(s) \in Sessions /\ Aligned(SettleBetween(s), r)
  <1> DEFINE z == SettleBetween(s)
  <1>1. /\ z \in Sessions /\ z.turn = s.turn /\ z.snapshot = s.snapshot
            /\ z.depth = s.depth /\ z.nested = s.nested /\ z.ceilings = s.ceilings
            /\ z.phase = IF s.phase = "between" THEN "idle" ELSE s.phase
    BY SettleBetweenIs
  <1> HIDE DEF z
  <1>2. PICK k \in 0..Len(s.nested) : Governed(s, k) /\ Enforced(s, r, k)
    BY DEF Aligned
  <1>3. Shaped(z)
    BY <1>1 DEF Aligned, Shaped
  <1>4. k <= Len(z.nested) /\ \A i \in 1..Len(z.nested) : i > k => z.nested[i] = NoSnapshot
    BY <1>1, <1>2, LengthsAre DEF Governed
  <1>5. Aligned(z, r)
    BY <1>1, <1>2, <1>3, <1>4, AlignedBy
  <1> QED BY <1>1, <1>5 DEF z

(* Closing a level: a sentinel's leaves the Engine alone, any other closes *)
(* the turn it owns.                                                       *)
LEMMA AlignedSentinel ==
  ASSUME NEW s \in Sessions, NEW r \in Runtimes, Aligned(s, r), s.phase = "active", s.depth > 1,
         Last(s.nested) = NoSnapshot
  PROVE  Aligned(FinishNestedTurn(s), r)
  <1> DEFINE z == FinishNestedTurn(s)
             n == Len(s.nested)
  <1>1. /\ z \in Sessions /\ z.phase = s.phase /\ z.turn = s.turn
        /\ z.snapshot = s.snapshot /\ z.depth = s.depth - 1
        /\ z.nested = Front(s.nested) /\ z.ceilings = Front(s.ceilings)
    BY FinishNestedIs
  <1> HIDE DEF z
  <1>2. PICK k \in 0..n : Governed(s, k) /\ Enforced(s, r, k)
    BY DEF Aligned
  <1>3. s.nested # <<>> /\ s.ceilings # <<>> /\ n \in Nat \ {0} /\ Len(s.ceilings) = n /\ s.depth = n + 1
    BY LengthsAre DEF Aligned, Shaped
  <1>4. /\ Len(z.nested) = n - 1 /\ Len(z.ceilings) = n - 1
        /\ \A i \in 1..(n - 1) : z.nested[i] = s.nested[i]
        /\ s.nested[n] = NoSnapshot
    <2>1. s.nested \in Seq(Levels) /\ s.ceilings \in Seq(Envelopes)
      BY LengthsAre
    <2>2. /\ Len(z.nested) = n - 1 /\ \A i \in 1..(n - 1) : z.nested[i] = s.nested[i]
          /\ s.nested[n] = NoSnapshot
      BY <2>1, <1>1, <1>3, FrontIs, ZenonT(40)
    <2>3. Len(z.ceilings) = n - 1
      BY <2>1, <1>1, <1>3, FrontIs
    <2> QED BY <2>2, <2>3
  <1>5. Shaped(z)
    BY <1>1, <1>3, <1>4, LengthsAre DEF Aligned, Shaped
  <1>6. k \in 0..(n - 1)
    BY <1>2, <1>3, <1>4 DEF Governed
  <1>7. ASSUME NEW i \in 1..Len(z.nested), i > k PROVE z.nested[i] = NoSnapshot
    BY <1>2, <1>3, <1>4, <1>7, SMTT(30) DEF Governed
  <1>8. k <= Len(z.nested) /\ \A i \in 1..k : z.nested[i] = s.nested[i]
    BY <1>3, <1>4, <1>6
  <1>9. Aligned(z, r)
    BY <1>1, <1>2, <1>5, <1>7, <1>8, AlignedBy
  <1> QED BY <1>9 DEF z

LEMMA AlignedClosed ==
  ASSUME NEW s \in Sessions, NEW r \in Runtimes, Aligned(s, r), s.phase = "active", s.depth > 1,
         Last(s.nested) # NoSnapshot
  PROVE  Aligned(FinishNestedTurn(s), CloseChildTurn(r))
  <1> DEFINE z == FinishNestedTurn(s)
             y == CloseChildTurn(r)
             n == Len(s.nested)
             m == n - 1
             w == Len(r.levels)
  <1>1. /\ z \in Sessions /\ z.phase = s.phase /\ z.turn = s.turn
        /\ z.snapshot = s.snapshot /\ z.depth = s.depth - 1
        /\ z.nested = Front(s.nested) /\ z.ceilings = Front(s.ceilings)
    BY FinishNestedIs
  <1>2. /\ y \in Runtimes /\ r.turn \in Levels /\ r.levels \in Seq(Levels) /\ w \in Nat
        /\ r.levels = <<>> => y = r
        /\ r.levels # <<>> => y.turn = Last(r.levels) /\ y.levels = Front(r.levels)
    BY EmptySeqs, RuntimeOps
  <1> HIDE DEF z, y
  <1>3. PICK k \in 0..n : Governed(s, k) /\ Enforced(s, r, k)
    BY DEF Aligned
  <1>4. s.nested # <<>> /\ s.ceilings # <<>> /\ n \in Nat \ {0} /\ Len(s.ceilings) = n /\ s.depth = n + 1
    BY LengthsAre DEF Aligned, Shaped
  <1>5. /\ Len(z.nested) = m /\ Len(z.ceilings) = m
        /\ \A i \in 1..m : z.nested[i] = s.nested[i]
        /\ s.nested[n] # NoSnapshot
    <2>1. s.nested \in Seq(Levels) /\ s.ceilings \in Seq(Envelopes)
      BY LengthsAre
    <2>2. /\ Len(z.nested) = m /\ \A i \in 1..m : z.nested[i] = s.nested[i]
          /\ s.nested[n] # NoSnapshot
      BY <2>1, <1>1, <1>4, FrontIs, ZenonT(40)
    <2>3. Len(z.ceilings) = m
      BY <2>1, <1>1, <1>4, FrontIs
    <2> QED BY <2>2, <2>3
  <1>6. Shaped(z)
    BY <1>1, <1>4, <1>5, LengthsAre DEF Aligned, Shaped
  <1>7. k = n /\ s.snapshot # NoSnapshot
    BY <1>3, <1>4, <1>5 DEF Governed
  <1>8. m \in Nat /\ n = m + 1 /\ m < n /\ m \in 0..n /\ n \in 0..n
    BY <1>4
  <1>9. Governed(s, n) /\ w <= n /\ Under(r.turn, LevelOf(s, n)) /\ Parked(s, r.levels, n - w)
    BY <1>3, <1>7 DEF Enforced
  <1> HIDE DEF n, m
  <1>10. \A i \in 0..m : LevelOf(z, i) = LevelOf(s, i)
    BY <1>1, <1>5, <1>8 DEF LevelOf
  <1>11. Governed(z, m)
    <2>1. \A i \in 1..Len(z.nested) : z.nested[i] # NoSnapshot <=> i <= m
      <3> SUFFICES ASSUME NEW i \in 1..m PROVE z.nested[i] # NoSnapshot /\ i <= m
        BY <1>5
      <3>1. i \in 1..n /\ i <= n /\ i <= m
        BY <1>8
      <3> QED BY <3>1, <1>5, <1>9 DEF Governed, n
    <2>2. \A i, j \in 0..m : i < j => Under(LevelOf(s, j), LevelOf(s, i))
      <3>1. \A i \in 0..m : i \in 0..n
        BY <1>8
      <3> QED BY <3>1, <1>9 DEF Governed
    <2> QED BY <2>1, <2>2, <1>1, <1>7, <1>10 DEF Governed
  <1>12. Under(LevelOf(s, n), LevelOf(s, m))
    BY <1>8, <1>9 DEF Governed
  <1>13. LevelOf(z, m) = LevelOf(s, m) /\ LevelOf(s, n) # NoSnapshot
    BY <1>5, <1>8, <1>10 DEF LevelOf
  <1>14. Enforced(z, y, m)
    <2>1. CASE r.levels = <<>>
      <3>1. y.levels = <<>> /\ y.turn = r.turn
        BY <2>1, <1>2
      <3>2. Under(y.turn, LevelOf(z, m))
        BY <3>1, <1>9, <1>12, <1>13, UnderTwice
      <3>3. Len(y.levels) = 0 /\ 0 <= m
        BY <3>1, <1>8
      <3>4. Parked(z, y.levels, m - Len(y.levels))
        BY <3>3 DEF Parked
      <3> QED BY <3>2, <3>3, <3>4, <1>1, <1>7 DEF Enforced
    <2>2. CASE r.levels # <<>>
      <3> DEFINE v == w - 1
      <3>1. /\ y.turn = r.levels[w] /\ Len(y.levels) = v /\ w \in Nat \ {0}
            /\ \A i \in 1..v : y.levels[i] = r.levels[i]
        BY <2>2, <1>2, FrontIs, SMTT(30)
      <3>2. v \in Nat /\ w = v + 1 /\ v <= m
        BY <3>1, <1>8, <1>9
      <3>3. \A i \in 1..w : Under(r.levels[i], LevelOf(s, n - w + i - 1))
        BY <1>9 DEF Parked
      <3> HIDE DEF v, w
      <3>4. n - w = m - v /\ n - w + w - 1 = m /\ w \in 1..w
        BY <3>1, <3>2, <1>8
      <3>5. Under(y.turn, LevelOf(z, m))
        BY <3>1, <3>3, <3>4, <1>13
      <3>6. ASSUME NEW i \in 1..v PROVE Under(y.levels[i], LevelOf(z, m - v + i - 1))
        <4> DEFINE j == m - v + i - 1
        <4>1. j \in 0..m /\ i \in 1..w /\ n - w + i - 1 = j
          BY <3>2, <1>8
        <4> HIDE DEF j
        <4>2. Under(r.levels[i], LevelOf(s, j))
          BY <4>1, <3>3
        <4>3. Under(y.levels[i], LevelOf(z, j))
          BY <4>1, <4>2, <3>1, <1>10
        <4> QED BY <4>3 DEF j
      <3>7. Parked(z, y.levels, m - v)
        BY <3>1, <3>6 DEF Parked
      <3> QED BY <3>1, <3>2, <3>5, <3>7, <1>1, <1>7 DEF Enforced
    <2> QED BY <2>1, <2>2
  <1>15. m \in 0..Len(z.nested)
    BY <1>5, <1>8
  <1> QED BY <1>6, <1>11, <1>14, <1>15 DEF Aligned, z, y

LEMMA AlignedFinish ==
  ASSUME NEW s \in Sessions, NEW r \in Runtimes, Aligned(s, r)
  PROVE  /\ FinishNestedTurn(s) \in Sessions /\ FinishEngine(s, r) \in Runtimes
         /\ Aligned(FinishNestedTurn(s), FinishEngine(s, r))
  <1> DEFINE z == FinishNestedTurn(s)
  <1>0. s.depth \in Nat
    BY LengthsAre
  <1>1. z \in Sessions /\ FinishEngine(s, r) \in Runtimes
    BY FinishNestedTyped, FinishEngineTyped
  <1>2. CASE s.phase = "active" /\ s.depth > 1
    <2>1. CASE Last(s.nested) = NoSnapshot
      <3>1. FinishEngine(s, r) = r
        BY <1>2, <2>1 DEF FinishEngine, ActiveNestedTurnHasSnapshot
      <3> QED BY <3>1, <2>1, <1>1, <1>2, AlignedSentinel
    <2>2. CASE Last(s.nested) # NoSnapshot
      <3>1. FinishEngine(s, r) = CloseChildTurn(r)
        BY <1>2, <2>2 DEF FinishEngine, ActiveNestedTurnHasSnapshot
      <3> QED BY <3>1, <2>2, <1>1, <1>2, AlignedClosed
    <2> QED BY <2>1, <2>2
  <1>3. CASE s.phase = "active" /\ ~(s.depth > 1)
    <2>1. s.nested = <<>> /\ Len(s.ceilings) = 0
      <3>1. s.depth = 1 + Len(s.nested) /\ Len(s.nested) = Len(s.ceilings) /\ Len(s.nested) \in Nat
        BY <1>3, LengthsAre DEF Aligned, Shaped
      <3>2. Len(s.nested) = 0
        BY <3>1, <1>0, <1>3
      <3> QED BY <3>1, <3>2, LengthsAre
    <2>2. z = FinishTurn(s) /\ FinishEngine(s, r) = NewRuntime
      BY <1>0, <1>3 DEF FinishNestedTurn, FinishEngine, CloseRootTurn
    <2>3. /\ z.nested = s.nested /\ z.ceilings = s.ceilings
          /\ z.phase = "between" /\ z.turn = 0 /\ z.depth = 0 /\ z.snapshot = NoSnapshot
      BY <1>3, <2>2, FinishTurnIs
    <2> HIDE DEF z
    <2>4. Shaped(z)
      BY <2>1, <2>3, DepthAssumption DEF Shaped, NoTurn
    <2> QED BY <2>1, <2>2, <2>3, <2>4, <1>1, AlignedRoot DEF z
  <1>4. CASE s.phase # "active"
    <2>1. s.depth = 0
      BY <1>4 DEF Aligned, Shaped
    <2>2. z = s /\ FinishEngine(s, r) = r
      BY <1>4, <2>1, FinishTurnIs DEF FinishNestedTurn, FinishEngine
    <2> QED BY <2>2, <1>1
  <1> QED BY <1>1, <1>2, <1>3, <1>4

(* A mode applied reaches a level and the ones outside it alike.           *)
LEMMA UnderApplied ==
  ASSUME NEW x \in Levels, NEW y \in Levels, y # NoSnapshot, Under(x, y),
         NEW m \in Modes, NEW ready \in BOOLEAN, NEW base \in Bases
  PROVE  Under(Applied(x, m, ready, base), Applied(y, m, ready, base))
  <1> DEFINE u == Applied(x, m, ready, base)
             v == Applied(y, m, ready, base)
  <1>1. /\ u = NoSnapshot <=> x = NoSnapshot
        /\ x # NoSnapshot => u.mode = m /\ u.ready = ready /\ u.base = IF base = NoBase THEN x.base ELSE base
    BY AppliedIs
  <1>2. v.mode = m /\ v.ready = ready /\ v.base = IF base = NoBase THEN y.base ELSE base
    BY AppliedIs
  <1> HIDE DEF u, v
  <1>3. Under(u, v)
    BY <1>1, <1>2 DEF Under, Alike, Within
  <1> QED BY <1>3 DEF u, v

LEMMA AlignedRefresh ==
  ASSUME NEW s \in Sessions, NEW r \in Runtimes, Aligned(s, r),
         NEW m \in Modes, NEW ready \in BOOLEAN, NEW base \in Bases
  PROVE  /\ RefreshSnapshots(s, m, ready, base) \in Sessions
         /\ RefreshTurns(r, m, ready, base) \in Runtimes
         /\ Aligned(RefreshSnapshots(s, m, ready, base), RefreshTurns(r, m, ready, base))
         /\ s.snapshot = NoSnapshot => RefreshTurns(r, m, ready, base) = r
  <1> DEFINE z == RefreshSnapshots(s, m, ready, base)
             y == RefreshTurns(r, m, ready, base)
             App(x) == Applied(x, m, ready, base)
  <1>1. /\ z \in Sessions /\ z.phase = s.phase /\ z.turn = s.turn
        /\ z.depth = s.depth /\ z.ceilings = s.ceilings /\ Len(z.nested) = Len(s.nested)
        /\ s.phase # "active" => z = s
        /\ s.phase = "active" =>
             /\ z.snapshot = App(s.snapshot)
             /\ \A i \in 1..Len(s.nested) : z.nested[i] = App(s.nested[i])
    BY RefreshSnapshotsIs
  <1>2. /\ y \in Runtimes /\ y.turn = App(r.turn) /\ Len(y.levels) = Len(r.levels)
        /\ \A i \in 1..Len(r.levels) : y.levels[i] = App(r.levels[i])
        /\ r = NewRuntime => y = NewRuntime
    BY RefreshTurnsIs
  <1>3. \A x \in Levels : /\ App(x) \in Levels /\ (App(x) = NoSnapshot <=> x = NoSnapshot)
                          /\ x # NoSnapshot => App(x).turn = x.turn
    BY AppliedIs
  <1> HIDE DEF z, y
  <1>4. PICK k \in 0..Len(s.nested) : Governed(s, k) /\ Enforced(s, r, k)
    BY DEF Aligned
  <1>5. /\ s.snapshot \in Levels /\ \A i \in 1..Len(s.nested) : s.nested[i] \in Levels
        /\ r.turn \in Levels /\ Len(s.nested) \in Nat /\ Len(r.levels) \in Nat
        /\ \A i \in 1..Len(r.levels) : r.levels[i] \in Levels
        /\ Len(r.levels) <= k /\ k \in Nat /\ k <= Len(s.nested)
    BY <1>4, LengthsAre DEF Enforced
  <1>6. s.snapshot = NoSnapshot => r = NewRuntime /\ k = 0
    BY <1>4 DEF Governed, Enforced
  <1>7. CASE s.phase # "active"
    <2>1. s.snapshot = NoSnapshot
      BY <1>7 DEF Aligned, Shaped
    <2> QED BY <2>1, <1>1, <1>2, <1>6, <1>7 DEF z, y
  <1>8. CASE s.phase = "active"
    <2>1. \A i \in 0..Len(s.nested) : LevelOf(z, i) = App(LevelOf(s, i)) /\ LevelOf(s, i) \in Levels
      BY <1>1, <1>5, <1>8 DEF LevelOf
    <2>2. Shaped(z)
      BY <1>1, <1>3, <1>5, <1>8 DEF Aligned, Shaped
    <2> HIDE DEF App
    <2>3. s.snapshot # NoSnapshot => \A i \in 0..k : LevelOf(s, i) # NoSnapshot
      BY <1>4, <1>5 DEF Governed, LevelOf
    <2>4. \A x, w \in Levels : Under(x, w) /\ w # NoSnapshot => Under(App(x), App(w))
      BY UnderApplied DEF App
    <2>5. Governed(z, k)
      <3>1. \A i \in 1..Len(z.nested) : z.nested[i] # NoSnapshot <=> i <= k
        BY <1>1, <1>3, <1>4, <1>5, <1>8 DEF Governed
      <3>2. z.snapshot = NoSnapshot => k = 0
        BY <1>1, <1>3, <1>5, <1>6, <1>8
      <3>3. ASSUME NEW i \in 0..k, NEW j \in 0..k, i < j PROVE Under(LevelOf(z, j), LevelOf(z, i))
        <4>1. i \in 0..Len(s.nested) /\ j \in 0..Len(s.nested) /\ k # 0
          BY <3>3, <1>5
        <4>2. Under(LevelOf(s, j), LevelOf(s, i)) /\ LevelOf(s, i) # NoSnapshot
          BY <4>1, <3>3, <2>3, <1>4, <1>6 DEF Governed
        <4> QED BY <4>1, <4>2, <2>1, <2>4
      <3> QED BY <3>1, <3>2, <3>3 DEF Governed
    <2>6. CASE s.snapshot = NoSnapshot
      <3>1. Enforced(z, y, k)
        BY <2>6, <1>1, <1>2, <1>5, <1>6, NewRuntimeEnforced
      <3> QED BY <3>1, <2>2, <2>5, <2>6, <1>1, <1>2, <1>6 DEF Aligned, z, y
    <2>7. CASE s.snapshot # NoSnapshot
      <3> DEFINE w == Len(r.levels)
      <3>1. w \in Nat /\ w <= k /\ k \in Nat /\ k <= Len(s.nested) /\ Len(s.nested) \in Nat
        BY <1>5
      <3>2. \A i \in 1..w : /\ r.levels[i] \in Levels /\ y.levels[i] = App(r.levels[i])
                            /\ Under(r.levels[i], LevelOf(s, k - w + i - 1))
        BY <1>2, <1>4, <1>5 DEF Enforced, Parked
      <3>3. Len(y.levels) = w
        BY <1>2
      <3> HIDE DEF w
      <3>4. ASSUME NEW i \in 1..w PROVE Under(y.levels[i], LevelOf(z, k - w + i - 1))
        <4> DEFINE j == k - w + i - 1
        <4>1. j \in 0..k
          BY <3>1
        <4>2. r.levels[i] \in Levels /\ y.levels[i] = App(r.levels[i]) /\ Under(r.levels[i], LevelOf(s, j))
          BY <3>2
        <4> HIDE DEF j
        <4>3. j \in 0..Len(s.nested)
          BY <4>1, <3>1
        <4>4. Under(y.levels[i], LevelOf(z, j))
          BY <4>1, <4>2, <4>3, <2>1, <2>3, <2>4, <2>7
        <4> QED BY <4>4 DEF j
      <3>5. Parked(z, y.levels, k - w)
        BY <3>3, <3>4 DEF Parked
      <3>6. Under(y.turn, LevelOf(z, k))
        <4>1. k \in 0..Len(s.nested) /\ k \in 0..k
          BY <3>1
        <4>2. Under(r.turn, LevelOf(s, k)) /\ LevelOf(s, k) # NoSnapshot
          BY <4>1, <1>4, <2>3, <2>7 DEF Enforced
        <4> QED BY <4>1, <4>2, <1>2, <1>5, <2>1, <2>4
      <3>7. z.snapshot # NoSnapshot
        BY <1>1, <1>3, <1>5, <1>8, <2>7
      <3>8. Enforced(z, y, k)
        BY <3>1, <3>3, <3>5, <3>6, <3>7 DEF Enforced
      <3> QED BY <3>8, <2>2, <2>5, <2>7, <1>1, <1>2 DEF Aligned, z, y
    <2> QED BY <2>6, <2>7
  <1> QED BY <1>7, <1>8

(* The Engine turn opened again is the one of the level that governs.      *)
LEMMA AlignedRepaired ==
  ASSUME NEW s \in Sessions, NEW r \in Runtimes, NEW x \in Runtimes, Aligned(s, x)
  PROVE  /\ BeginRootTurn(r, CurrentSnapshot(s)) \in Runtimes
         /\ Aligned(s, BeginRootTurn(r, CurrentSnapshot(s)))
  <1> DEFINE y == BeginRootTurn(r, CurrentSnapshot(s))
  <1>1. CurrentSnapshot(s) \in Levels
    BY SnapshotTyped
  <1>2. y \in Runtimes /\ y.turn = CurrentSnapshot(s) /\ y.levels = <<>>
    BY <1>1, RuntimeOps
  <1>3. CASE CurrentSnapshot(s) = NoSnapshot
    <2>1. y = NewRuntime
      BY <1>3 DEF BeginRootTurn, NewRuntime
    <2> QED BY <2>1, <1>2, AlignedInvalidated
  <1>4. CASE CurrentSnapshot(s) # NoSnapshot
    <2>1. PICK k \in 0..Len(s.nested) : Governed(s, k)
      BY DEF Aligned
    <2>2. s.snapshot # NoSnapshot /\ CurrentSnapshot(s) = LevelOf(s, k) /\ Shaped(s)
      BY <2>1, <1>4, TopIsGoverned DEF Aligned
    <2> HIDE DEF y
    <2>3. Len(y.levels) = 0 /\ k \in Nat /\ 0 <= k
      BY <1>2, LengthsAre
    <2>4. Enforced(s, y, k)
      BY <2>2, <2>3, <1>2, UnderSelf DEF Enforced, Parked
    <2> QED BY <2>1, <2>2, <2>4, <1>2 DEF Aligned, y
  <1> QED BY <1>3, <1>4

LEMMA AlignedMint ==
  ASSUME Led, NEW s \in Sessions, Aligned(s, permissions), s.nested = <<>>, s.phase = "active",
         MintRoot(s, s.turn)
  PROVE  Aligned(session', permissions') /\ session'.nested = <<>>
  <1> DEFINE snap == Captured(s, s.turn)
             z == SetSnapshot(s, snap)
  <1>1. /\ snap \in Levels
        /\ s.snapshot = NoSnapshot /\ snap # NoSnapshot => snap.turn = s.turn
        /\ s.snapshot # NoSnapshot => snap = s.snapshot
    BY SnapshotTyped, CapturedTyped, LedTyped
  <1>2. /\ session' = z
        /\ permissions' = IF snap = NoSnapshot THEN permissions ELSE BeginRootTurn(permissions, snap)
    BY DEF MintRoot
  <1> HIDE DEF snap
  <1>3. /\ z \in Sessions /\ z.snapshot = snap
        /\ z.phase = s.phase /\ z.turn = s.turn /\ z.depth = s.depth
        /\ z.nested = s.nested /\ z.ceilings = s.ceilings
    BY <1>1, SetSnapshotIs
  <1> HIDE DEF z
  <1>4. Shaped(z)
    BY <1>1, <1>3 DEF Aligned, Shaped
  <1>5. CASE snap = NoSnapshot
    <2>1. permissions = NewRuntime
      BY <1>1, <1>5 DEF Aligned, Enforced
    <2> QED BY <2>1, <1>2, <1>3, <1>4, <1>5, AlignedRoot
  <1>6. CASE snap # NoSnapshot
    <2>1. permissions'.turn = snap /\ permissions'.levels = <<>>
      BY <1>2, <1>6 DEF BeginRootTurn
    <2> QED BY <2>1, <1>2, <1>3, <1>4, <1>6, AlignedRoot
  <1> QED BY <1>5, <1>6

(* A turn begun while none is open has no Engine turn yet.                 *)
LEMMA AlignedBegun ==
  ASSUME NEW s \in Sessions, NEW t \in Nat \ {0}, Shaped(s), s.phase # "active"
  PROVE  /\ BeginTurn(s, t) \in Sessions /\ Aligned(BeginTurn(s, t), NewRuntime)
         /\ BeginTurn(s, t).phase = "active" /\ BeginTurn(s, t).turn = t
         /\ BeginTurn(s, t).nested = <<>> /\ Counts(BeginTurn(s, t), s)
         /\ BeginTurn(s, t).inFlight = s.inFlight
  <1> DEFINE z == BeginTurn(s, t)
  <1>1. /\ z \in Sessions /\ Counts(z, s) /\ z.turn = t /\ z.phase = "active" /\ z.depth = 1
        /\ z.nested = <<>> /\ z.ceilings = <<>> /\ z.snapshot = s.snapshot
        /\ z.inFlight = s.inFlight
    BY BeginTurnIs
  <1> HIDE DEF z
  <1>2. Shaped(z)
    BY <1>1, DepthAssumption DEF Shaped, NoTurn
  <1>3. Aligned(z, NewRuntime)
    BY <1>1, <1>2, AlignedRoot
  <1> QED BY <1>1, <1>3 DEF z

LEMMA IdleIsInvalidated ==
  ASSUME NEW s, NEW r, Aligned(s, r), s.snapshot = NoSnapshot
  PROVE  r = NewRuntime
  BY DEF Aligned, Enforced

(* A child's base lies within its parent's, and in all else they agree.    *)
LEMMA ChildUnder ==
  ASSUME NEW parent \in Snapshots, NEW child \in Nat
  PROVE  Under(ChildOf(parent, child), parent)
  <1> DEFINE b == IF parent.mode = "yolo" \/ parent.base = NoBase THEN parent.base
                  ELSE Narrowed(parent.base)
             z == [parent EXCEPT !.turn = child, !.base = b]
  <1>1. ChildOf(parent, child) = z
    BY DEF ChildOf, Snapshots
  <1>2. Within(b, parent.base)
    <2>1. CASE parent.mode = "yolo" \/ parent.base = NoBase
      BY <2>1 DEF Within
    <2>2. CASE ~(parent.mode = "yolo" \/ parent.base = NoBase)
      <3>1. parent.base \in SUBSET Roots
        BY <2>2 DEF Snapshots, Bases
      <3>2. b \in SUBSET Roots /\ b \subseteq parent.base
        BY <3>1, <2>2 DEF Narrowed
      <3> QED BY <3>2, <2>2, NullAssumption DEF Within
    <2> QED BY <2>1, <2>2
  <1> HIDE DEF b
  <1>3. z.mode = parent.mode /\ z.ready = parent.ready /\ z.base = b
    BY DEF Snapshots
  <1> HIDE DEF z
  <1> QED BY <1>1, <1>2, <1>3 DEF Under, Alike

-------------------------------------------------------------------------------
(* The agents and the levels. Of the first n agents, the first b belong to *)
(* turns that are over; each of the others has a level of this one, above  *)
(* the level of a turn that began without an agent, and the level of one   *)
(* that is blocked is a sentinel. The agent that has ended, or whose start *)
(* still waits, has none.                                                  *)
CountedIn(a, s) == ~a.ended /\ a.turn # NoTurn /\ a.gen = s.generation
Implied(s, imp) == IF s.turn # NoTurn /\ imp = s.turn THEN 1 ELSE 0

Placed(s, stack, n, imp, b) ==
  /\ \A i \in 1..b : ~CountedIn(stack[i], s) /\ (s.turn = NoTurn \/ stack[i].turn # s.turn)
  /\ \A i \in (b + 1)..n : CountedIn(stack[i], s) /\ stack[i].turn = s.turn
  /\ \A i \in (b + 1)..n : stack[i].blocked =>
       \E j \in 1..Len(s.nested) : j = i - b + Implied(s, imp) - 1 /\ s.nested[j] = NoSnapshot
  /\ s.depth = (n - b) + Implied(s, imp)

Balanced(s, stack, n, imp) == \E b \in 0..n : Placed(s, stack, n, imp, b)

Ended == agents # <<>> /\ Last(agents).ended
Standing == IF Ended \/ run[Host].op = "nest" THEN Len(agents) - 1 ELSE Len(agents)

(* Ids and generations come from counters, so none is ahead of its own.    *)
Bounded ==
  /\ session.turn <= session.turns /\ implicit <= session.turns
  /\ \A i \in 1..Len(agents) :
       agents[i].turn <= session.turns /\ agents[i].gen <= session.generation

(* Only the innermost agent may have ended; its settle is then awaited, if *)
(* a turn is active, and the host is at nothing else.                      *)
Ends ==
  /\ \A i \in 1..Len(agents) : agents[i].ended => i = Len(agents)
  /\ session.awaiting => Ended
  /\ Ended => run[Host].op = "none" /\ (session.phase = "active" => session.awaiting)
  /\ run[Host].op = "nest" => agents # <<>> /\ Last(agents) = Uncounted
  /\ run[Host].op = "start" => session.nested = <<>>
  /\ ~session.observed => agents = <<>> /\ session.nested = <<>>

(* The inductive invariant of the levels. A crash that loses an end        *)
(* strands levels until the turn is reset: the balance is for the rest.    *)
LevelsInv ==
  /\ Aligned(session, permissions) /\ Bounded /\ Ends
  /\ ~lost => Balanced(session, agents, Standing, implicit)

(* Most steps leave every level where it is.                               *)
Levelled(z, s) ==
  /\ z.phase = s.phase /\ z.turn = s.turn /\ z.depth = s.depth /\ z.awaiting = s.awaiting
  /\ z.generation = s.generation /\ s.turns <= z.turns /\ (s.observed => z.observed)
  /\ Len(z.nested) = Len(s.nested)
  /\ \A i \in 1..Len(s.nested) : z.nested[i] = NoSnapshot <=> s.nested[i] = NoSnapshot

HostSteady ==
  \/ run'[Host].op = run[Host].op
  \/ /\ run[Host].op # "nest" /\ run'[Host].op \notin {"start", "nest"}
     /\ run[Host].op # "none" \/ ~Ended

Steady ==
  /\ UNCHANGED <<agents, lost, implicit>>
  /\ Levelled(session', session) /\ Aligned(session', permissions') /\ HostSteady

LEMMA LevelledTwice ==
  ASSUME NEW x \in Sessions, NEW y \in Sessions, NEW z \in Sessions, Levelled(x, y), Levelled(y, z)
  PROVE  Levelled(x, z)
  <1>1. x.turns \in Nat /\ y.turns \in Nat /\ z.turns \in Nat
    BY DEF Sessions
  <1> QED BY <1>1 DEF Levelled

LEMMA LevelledStacks ==
  ASSUME NEW z \in Sessions, NEW s \in Sessions, Stacks(z, s), z.awaiting = s.awaiting,
         z.generation = s.generation, s.turns <= z.turns, s.observed => z.observed
  PROVE  Levelled(z, s)
  BY DEF Levelled, Stacks

LEMMA LevelledBeside ==
  ASSUME NEW z, NEW s \in Sessions, Beside(z, s)
  PROVE  z \in Sessions /\ Levelled(z, s)
  <1>1. s.turns \in Nat
    BY DEF Sessions
  <1> QED BY <1>1 DEF Beside, Counts, Levelled, Stacks

LEMMA LevelledRefresh ==
  ASSUME NEW s \in Sessions, NEW m \in Modes, NEW ready \in BOOLEAN, NEW base \in Bases
  PROVE  Levelled(RefreshSnapshots(s, m, ready, base), s)
  <1> DEFINE z == RefreshSnapshots(s, m, ready, base)
  <1>1. /\ z \in Sessions /\ Counts(z, s) /\ z.phase = s.phase /\ z.turn = s.turn
        /\ z.depth = s.depth /\ z.ceilings = s.ceilings /\ z.awaiting = s.awaiting
        /\ Len(z.nested) = Len(s.nested)
        /\ s.phase # "active" => z = s
        /\ s.phase = "active" =>
             \A i \in 1..Len(s.nested) : z.nested[i] = Applied(s.nested[i], m, ready, base)
    BY RefreshSnapshotsIs
  <1>2. s.turns \in Nat /\ \A i \in 1..Len(s.nested) : s.nested[i] \in Levels
    BY LengthsAre, SnapshotTyped
  <1>3. \A x \in Levels : Applied(x, m, ready, base) = NoSnapshot <=> x = NoSnapshot
    BY AppliedIs
  <1> HIDE DEF z
  <1>4. \A i \in 1..Len(s.nested) : z.nested[i] = NoSnapshot <=> s.nested[i] = NoSnapshot
    BY <1>1, <1>2, <1>3
  <1>5. Levelled(z, s)
    BY <1>1, <1>2, <1>4 DEF Levelled, Counts
  <1> QED BY <1>5 DEF z

LEMMA SessionIs ==
  ASSUME Led
  PROVE  /\ session \in Sessions /\ permissions \in Runtimes /\ agents \in Seq(Agents)
         /\ Len(agents) \in Nat /\ session.turns \in Nat /\ session.turn \in Nat
         /\ session.generation \in Nat /\ implicit \in Nat /\ session.depth \in Nat
         /\ session.nested \in Seq(Levels) /\ Len(session.nested) \in Nat
         /\ session.awaiting \in BOOLEAN /\ session.observed \in BOOLEAN /\ lost \in BOOLEAN
         /\ \A i \in 1..Len(agents) :
              agents[i] \in Agents /\ agents[i].turn \in Nat /\ agents[i].gen \in Nat
  <1>1. /\ session \in Sessions /\ permissions \in Runtimes /\ agents \in Seq(Agents)
        /\ implicit \in Nat /\ lost \in BOOLEAN
    BY LedTyped DEF RestTyped
  <1>2. \A i \in 1..Len(agents) : agents[i] \in Agents
    BY <1>1
  <1>3. \A a \in Agents : a.turn \in Nat /\ a.gen \in Nat
    BY DEF Agents
  <1> QED BY <1>1, <1>2, <1>3, SnapshotTyped, LengthsAre

LEMMA StandingIs ==
  ASSUME Led, Ends
  PROVE  /\ Standing \in Nat /\ Standing <= Len(agents)
         /\ agents # <<>> => Last(agents) = agents[Len(agents)] /\ Last(agents) \in Agents
         /\ \A i \in 1..Len(agents) : agents[i] \in Agents
         /\ \A i \in 1..Standing : i \in 1..Len(agents) /\ ~agents[i].ended
  <1>1. agents \in Seq(Agents) /\ Len(agents) \in Nat
    BY SessionIs
  <1>2. agents # <<>> => Last(agents) = agents[Len(agents)] /\ Last(agents) \in Agents /\ Len(agents) \in Nat \ {0}
    BY <1>1, FrontIs
  <1>3. Standing \in Nat /\ Standing <= Len(agents) /\ (Ended => Standing = Len(agents) - 1)
    BY <1>1, <1>2 DEF Standing, Ended, Ends
  <1>4. \A i \in 1..Standing : i \in 1..Len(agents)
    BY <1>1, <1>3
  <1>5. ASSUME NEW i \in 1..Standing, agents[i].ended PROVE FALSE
    <2>1. i = Len(agents)
      BY <1>4, <1>5 DEF Ends
    <2>2. Ended
      BY <2>1, <1>1, <1>2, <1>4, <1>5 DEF Ended
    <2> QED BY <2>1, <2>2, <1>1, <1>3
  <1> QED BY <1>1, <1>2, <1>3, <1>4, <1>5

LEMMA PlacedLevelled ==
  ASSUME NEW s \in Sessions, NEW z \in Sessions, Levelled(z, s),
         NEW stack, NEW n, NEW imp, Balanced(s, stack, n, imp)
  PROVE  Balanced(z, stack, n, imp)
  <1>1. PICK b \in 0..n : Placed(s, stack, n, imp, b)
    BY DEF Balanced
  <1>2. Implied(z, imp) = Implied(s, imp)
    BY DEF Implied, Levelled
  <1>3. \A a : CountedIn(a, z) <=> CountedIn(a, s)
    BY DEF CountedIn, Levelled
  <1>4. Placed(z, stack, n, imp, b)
    BY <1>1, <1>2, <1>3 DEF Placed, Levelled
  <1> QED BY <1>4 DEF Balanced

LEMMA SteadyKeeps ==
  ASSUME Led, RestTyped', LevelsInv, Steady
  PROVE  LevelsInv'
  <1>1. /\ session \in Sessions /\ session' \in Sessions
        /\ session.turns \in Nat /\ session'.turns \in Nat /\ session.turn \in Nat
        /\ session.observed \in BOOLEAN /\ session'.observed \in BOOLEAN
        /\ session.nested \in Seq(Levels) /\ session'.nested \in Seq(Levels)
        /\ implicit \in Nat /\ \A i \in 1..Len(agents) : agents[i].turn \in Nat
    <2>1. session' \in Sessions
      BY DEF RestTyped
    <2> QED BY <2>1, SessionIs, SnapshotTyped
  <1>2. /\ Levelled(session', session) /\ Aligned(session', permissions') /\ HostSteady
        /\ agents' = agents /\ lost' = lost /\ implicit' = implicit
    BY DEF Steady
  <1>3. Bounded'
    BY <1>1, <1>2 DEF LevelsInv, Bounded, Levelled
  <1>4. Ended' = Ended
    BY <1>2 DEF Ended
  <1>5. Len(session'.nested) = Len(session.nested) => (session'.nested = <<>> <=> session.nested = <<>>)
    BY <1>1
  <1>6. Ends'
    BY <1>1, <1>2, <1>4, <1>5 DEF LevelsInv, Ends, Levelled, HostSteady
  <1>7. Standing' = Standing
    BY <1>2, <1>4 DEF Standing, HostSteady
  <1>8. ~lost' => Balanced(session', agents', Standing', implicit')
    BY <1>1, <1>2, <1>7, PlacedLevelled DEF LevelsInv
  <1> QED BY <1>2, <1>3, <1>6, <1>8 DEF LevelsInv

(* A branch that is reset counts no agent any more.                        *)
Resets ==
  /\ UNCHANGED <<agents, lost, implicit>> /\ permissions' = NewRuntime
  /\ session' \in Sessions /\ Emptied(session')
  /\ session'.generation = session.generation + 1 /\ session'.turns = session.turns
  /\ session'.observed = session.observed \/ agents = <<>>
  /\ run'[Host].op = run[Host].op \/ run'[Host].op = "none"

LEMMA ResetsKeep ==
  ASSUME Led, RestTyped', LevelsInv, Resets
  PROVE  LevelsInv'
  <1>1. /\ session' \in Sessions /\ agents' = agents /\ lost' = lost /\ implicit' = implicit
        /\ session.generation \in Nat /\ session.turns \in Nat /\ implicit \in Nat
        /\ Len(agents) \in Nat /\ agents \in Seq(Agents)
        /\ \A i \in 1..Len(agents) : agents[i].turn \in Nat /\ agents[i].gen \in Nat
    BY SessionIs DEF Resets
  <1>2. /\ session'.turn = 0 /\ session'.depth = 0 /\ session'.nested = <<>>
        /\ session'.awaiting = FALSE /\ session'.phase = "idle"
        /\ session'.generation = session.generation + 1 /\ session'.turns = session.turns
    BY DEF Resets, Emptied
  <1>3. Aligned(session', permissions')
    BY AlignedEmptied DEF Resets
  <1>4. Bounded'
    <2>1. /\ implicit <= session.turns
          /\ \A i \in 1..Len(agents) :
               agents[i].turn <= session.turns /\ agents[i].gen <= session.generation
      BY DEF LevelsInv, Bounded
    <2>2. \A i \in 1..Len(agents) :
            agents[i].turn <= session'.turns /\ agents[i].gen <= session'.generation
      BY <2>1, <1>1, <1>2
    <2>3. session'.turn <= session'.turns /\ implicit' <= session'.turns
      BY <2>1, <1>1, <1>2
    <2> QED BY <2>2, <2>3, <1>1 DEF Bounded
  <1>5. Ended' = Ended
    BY <1>1 DEF Ended
  <1>6. Ends'
    BY <1>1, <1>2, <1>5 DEF LevelsInv, Ends, Resets
  <1>7. Standing' \in Nat /\ Standing' <= Len(agents)
    <2>1. Ended \/ run'[Host].op = "nest" => agents # <<>>
      BY DEF Ended, LevelsInv, Ends, Resets
    <2>2. agents # <<>> => Len(agents) \in Nat \ {0}
      BY <1>1
    <2>3. Standing' = IF Ended \/ run'[Host].op = "nest" THEN Len(agents) - 1 ELSE Len(agents)
      BY <1>1, <1>5 DEF Standing
    <2> QED BY <2>1, <2>2, <2>3, <1>1
  <1> DEFINE n == Standing'
  <1>8. Placed(session', agents, n, implicit, n)
    <2>0. n \in Nat /\ n <= Len(agents) /\ Len(agents) \in Nat
      BY <1>1, <1>7
    <2> HIDE DEF n
    <2>1. \A i \in 1..n : ~CountedIn(agents[i], session')
      BY <2>0, <1>1, <1>2 DEF CountedIn, LevelsInv, Bounded
    <2>2. session'.depth = (n - n) + Implied(session', implicit)
      BY <2>0, <1>2 DEF Implied, NoTurn
    <2>3. \A i \in (n + 1)..n : FALSE
      BY <2>0
    <2> QED BY <2>1, <2>2, <2>3, <1>2 DEF Placed, NoTurn
  <1>9. Balanced(session', agents', Standing', implicit')
    <2>0. n \in 0..n
      BY <1>7
    <2> QED BY <2>0, <1>1, <1>8 DEF Balanced
  <1> QED BY <1>3, <1>4, <1>6, <1>9 DEF LevelsInv

(* One more level, for one more agent.                                     *)
LEMMA PlacedGrown ==
  ASSUME NEW s \in Sessions, NEW z \in Sessions, NEW n \in Nat, NEW imp \in Nat,
         NEW q, NEW p, NEW snap \in Levels, NEW blocked \in BOOLEAN,
         Balanced(s, q, n, imp), s.turn # NoTurn, s.depth = 1 + Len(s.nested),
         z.generation = s.generation, z.turn = s.turn, z.depth = s.depth + 1,
         z.nested = Append(s.nested, snap), blocked => snap = NoSnapshot,
         \A i \in 1..n : p[i] = q[i], p[n + 1] = Agent(s, blocked)
  PROVE  Balanced(z, p, n + 1, imp)
  <1> DEFINE m == n + 1
             e == Implied(s, imp)
  <1>1. PICK b \in 0..n : Placed(s, q, n, imp, b)
    BY DEF Balanced
  <1>2. /\ Implied(z, imp) = e /\ e \in {0, 1} /\ \A a : CountedIn(a, z) <=> CountedIn(a, s)
    BY DEF Implied, CountedIn
  <1>3. /\ Len(z.nested) = Len(s.nested) + 1 /\ Len(s.nested) \in Nat /\ s.depth \in Nat
        /\ \A j \in 1..Len(s.nested) : z.nested[j] = s.nested[j]
        /\ z.nested[Len(s.nested) + 1] = snap
    BY LengthsAre
  <1>4. m \in Nat /\ b \in Nat /\ b <= n /\ m = n + 1 /\ b \in 0..m
    BY <1>1
  <1>5. p[m].turn = s.turn /\ ~p[m].ended /\ p[m].gen = s.generation /\ (p[m].blocked => blocked)
    BY DEF Agent
  <1>6. s.depth = (n - b) + e
    BY <1>1 DEF Placed
  <1> HIDE DEF m, e
  <1>7. \A i \in 1..b : ~CountedIn(p[i], z) /\ (z.turn = NoTurn \/ p[i].turn # z.turn)
    BY <1>1, <1>2, <1>4 DEF Placed
  <1>8. \A i \in (b + 1)..m : CountedIn(p[i], z) /\ p[i].turn = z.turn
    <2> SUFFICES ASSUME NEW i \in (b + 1)..m PROVE CountedIn(p[i], z) /\ p[i].turn = z.turn
      OBVIOUS
    <2>1. CASE i = m
      BY <2>1, <1>5 DEF CountedIn
    <2>2. CASE i # m
      <3>1. i \in (b + 1)..n /\ i \in 1..n
        BY <2>2, <1>4
      <3> QED BY <3>1, <1>1, <1>2 DEF Placed
    <2> QED BY <2>1, <2>2
  <1>9. ASSUME NEW i \in (b + 1)..m, p[i].blocked
        PROVE  \E j \in 1..Len(z.nested) : j = i - b + e - 1 /\ z.nested[j] = NoSnapshot
    <2>1. CASE i = m
      <3> DEFINE j == Len(s.nested) + 1
      <3>1. j \in 1..Len(z.nested) /\ z.nested[j] = NoSnapshot
        BY <2>1, <1>3, <1>5, <1>9
      <3>2. j = i - b + e - 1
        <4>2. Len(s.nested) \in Nat /\ s.depth = 1 + Len(s.nested) /\ s.depth \in Nat
          BY <1>3
        <4>3. j = s.depth
          BY <4>2
        <4> HIDE DEF j
        <4>1. /\ i = n + 1 /\ n \in Nat /\ b \in Nat /\ e \in {0, 1} /\ j = s.depth
              /\ s.depth = (n - b) + e /\ s.depth \in Nat
          BY <2>1, <1>2, <1>4, <1>6, <4>2, <4>3
        <4> QED BY <4>1, SMTT(30)
      <3> QED BY <3>1, <3>2
    <2>2. CASE i # m
      <3>1. i \in (b + 1)..n /\ i \in 1..n
        BY <2>2, <1>4
      <3>2. \E j \in 1..Len(s.nested) : j = i - b + e - 1 /\ s.nested[j] = NoSnapshot
        BY <3>1, <1>1, <1>9 DEF Placed, e
      <3> QED BY <3>2, <1>3
    <2> QED BY <2>1, <2>2
  <1>10. z.depth = (m - b) + e
    BY <1>2, <1>3, <1>4, <1>6, SMTT(30)
  <1>11. Placed(z, p, m, imp, b)
    BY <1>2, <1>7, <1>8, <1>9, <1>10 DEF Placed
  <1> QED BY <1>4, <1>11 DEF Balanced, m

(* No turn is open: no agent is counted.                                   *)
LEMMA PlacedIdle ==
  ASSUME NEW s \in Sessions, NEW n \in Nat, NEW imp, NEW q, s.turn = NoTurn, s.depth = 0
  PROVE  Balanced(s, q, n, imp) <=> \A i \in 1..n : ~CountedIn(q[i], s)
  <1>1. Implied(s, imp) = 0
    BY DEF Implied
  <1>2. ASSUME Balanced(s, q, n, imp) PROVE \A i \in 1..n : ~CountedIn(q[i], s)
    <2>1. PICK b \in 0..n : Placed(s, q, n, imp, b)
      BY <1>2 DEF Balanced
    <2>2. b = n
      BY <2>1, <1>1 DEF Placed
    <2> QED BY <2>1, <2>2 DEF Placed
  <1>3. ASSUME \A i \in 1..n : ~CountedIn(q[i], s) PROVE Balanced(s, q, n, imp)
    <2>1. n \in 0..n /\ (n - n) + 0 = 0 /\ \A i \in (n + 1)..n : FALSE
      OBVIOUS
    <2>2. Placed(s, q, n, imp, n)
      BY <1>1, <1>3, <2>1 DEF Placed
    <2> QED BY <2>1, <2>2 DEF Balanced
  <1> QED BY <1>2, <1>3

(* A turn that an agent begins has its level alone.                        *)
LEMMA PlacedBegun ==
  ASSUME NEW z \in Sessions, NEW n \in Nat, NEW imp \in Nat, NEW p,
         z.turn # NoTurn, z.depth = 1, imp # z.turn,
         \A i \in 1..n : ~CountedIn(p[i], z) /\ p[i].turn # z.turn,
         p[n + 1] = Agent(z, FALSE)
  PROVE  Balanced(z, p, n + 1, imp)
  <1> DEFINE m == n + 1
  <1>1. m \in Nat /\ n \in 0..m /\ (m - n) + 0 = 1 /\ \A i \in (n + 1)..m : i = m
    OBVIOUS
  <1>2. p[m].turn = z.turn /\ ~p[m].ended /\ p[m].gen = z.generation /\ ~p[m].blocked
    BY DEF Agent
  <1>3. Implied(z, imp) = 0
    BY DEF Implied
  <1> HIDE DEF m
  <1>4. Placed(z, p, m, imp, n)
    BY <1>1, <1>2, <1>3 DEF Placed, CountedIn
  <1> QED BY <1>1, <1>4 DEF Balanced, m

(* An agent that was counted ends, and its level with it.                  *)
LEMMA PlacedShrunk ==
  ASSUME NEW s \in Sessions, NEW n \in Nat \ {0}, NEW imp \in Nat, NEW q, NEW p,
         Balanced(s, q, n, imp), s.phase = "active", s.turn # NoTurn,
         s.depth = 1 + Len(s.nested), q[n].turn = s.turn,
         \A i \in 1..(n - 1) : p[i] = q[i]
  PROVE  Balanced(FinishNestedTurn(s), p, n - 1, imp)
  <1> DEFINE m == n - 1
             e == Implied(s, imp)
             z == FinishNestedTurn(s)
  <1>1. PICK b \in 0..n : Placed(s, q, n, imp, b)
    BY DEF Balanced
  <1>2. e \in {0, 1} /\ Len(s.nested) \in Nat /\ s.depth \in Nat /\ s.depth = (n - b) + e
    <2>1. e \in {0, 1}
      BY DEF Implied
    <2>2. Len(s.nested) \in Nat /\ s.depth \in Nat
      BY LengthsAre
    <2> QED BY <2>1, <2>2, <1>1 DEF Placed
  <1>3. m \in Nat /\ n = m + 1 /\ b \in Nat /\ b <= n /\ n \in Nat
    BY <1>1
  <1> HIDE DEF m, e
  <1>4. b # n
    <2>1. ~(n \in 1..b)
      BY <1>1, <1>3 DEF Placed
    <2> QED BY <2>1, <1>3
  <1>5. b \in 0..m
    BY <1>3, <1>4
  <1>6. CASE s.depth > 1
    <2>1. /\ z \in Sessions /\ z.generation = s.generation /\ z.turn = s.turn
          /\ z.depth = s.depth - 1 /\ z.nested = Front(s.nested)
      BY <1>6, FinishNestedIs DEF Counts
    <2> HIDE DEF z
    <2>2. s.nested # <<>> /\ s.nested \in Seq(Levels)
      <3>1. s.nested \in Seq(Levels) /\ s.depth = 1 + Len(s.nested)
        BY SnapshotTyped
      <3>2. s.nested = <<>> => s.depth = 1
        BY <3>1
      <3> QED BY <3>1, <3>2, <1>6
    <2>3. Len(z.nested) = Len(s.nested) - 1 /\ \A j \in 1..(Len(s.nested) - 1) : z.nested[j] = s.nested[j]
      BY <2>1, <2>2, FrontIs
    <2>4. Implied(z, imp) = e /\ \A a : CountedIn(a, z) <=> CountedIn(a, s)
      BY <2>1 DEF Implied, CountedIn, e
    <2>5. \A i \in 1..b : ~CountedIn(p[i], z) /\ (z.turn = NoTurn \/ p[i].turn # z.turn)
      <3>1. \A i \in 1..b : i \in 1..m
        BY <1>3, <1>5
      <3>2. \A i \in 1..m : p[i] = q[i]
        BY DEF m
      <3> QED BY <3>1, <3>2, <2>1, <2>4, <1>1 DEF Placed
    <2>6. \A i \in (b + 1)..m : i \in 1..m /\ i \in (b + 1)..n
      BY <1>3, <1>5
    <2>7. \A i \in (b + 1)..m : p[i] = q[i]
      BY <2>6 DEF m
    <2>8. \A i \in (b + 1)..m : CountedIn(p[i], z) /\ p[i].turn = z.turn
      BY <2>1, <2>4, <2>6, <2>7, <1>1 DEF Placed
    <2>9. ASSUME NEW i \in (b + 1)..m, p[i].blocked
          PROVE  \E j \in 1..Len(z.nested) : j = i - b + e - 1 /\ z.nested[j] = NoSnapshot
      <3>1. PICK j \in 1..Len(s.nested) : j = i - b + e - 1 /\ s.nested[j] = NoSnapshot
        BY <2>6, <2>7, <2>9, <1>1 DEF Placed, e
      <3>2. j <= Len(s.nested) - 1
        <4>1. i <= n - 1 /\ i \in Nat
          BY <2>6, <1>3
        <4>2. /\ n \in Nat /\ b \in Nat /\ Len(s.nested) \in Nat
              /\ 1 + Len(s.nested) = (n - b) + e /\ j = i - b + e - 1
          BY <3>1, <1>2, <1>3
        <4> DEFINE w == Len(s.nested)
        <4>3. w \in Nat /\ 1 + w = (n - b) + e /\ e \in {0, 1}
          BY <4>2, <1>2
        <4> HIDE DEF w
        <4>4. j <= w - 1
          BY <4>1, <4>2, <4>3
        <4> QED BY <4>4 DEF w
      <3>3. j \in 1..Len(z.nested) /\ z.nested[j] = s.nested[j]
        BY <3>2, <2>3, <1>2
      <3> QED BY <3>1, <3>3
    <2>10. z.depth = (m - b) + e
      BY <2>1, <1>2, <1>3
    <2>11. Placed(z, p, m, imp, b)
      BY <2>4, <2>5, <2>8, <2>9, <2>10 DEF Placed
    <2> QED BY <2>11, <1>5 DEF Balanced, z, m
  <1>7. CASE ~(s.depth > 1)
    <2>1. s.depth = 1 /\ n - b = 1 /\ e = 0
      BY <1>2, <1>3, <1>4, <1>7
    <2>2. b = m
      BY <2>1, <1>3
    <2>3. z = FinishTurn(s)
      BY <1>7 DEF FinishNestedTurn
    <2>4. z \in Sessions /\ z.generation = s.generation /\ z.turn = 0 /\ z.depth = 0
      BY <2>3, FinishTurnIs DEF Counts
    <2> HIDE DEF z
    <2>5. \A i \in 1..m : ~CountedIn(p[i], z)
      <3>1. \A i \in 1..m : ~CountedIn(q[i], s) /\ p[i] = q[i]
        BY <2>2, <1>1 DEF Placed, m
      <3> QED BY <3>1, <2>4 DEF CountedIn
    <2>6. Balanced(z, p, m, imp)
      BY <2>4, <2>5, <1>3, PlacedIdle DEF NoTurn
    <2> QED BY <2>6 DEF z, m
  <1> QED BY <1>6, <1>7

-------------------------------------------------------------------------------
(* The steps that leave every level where it is.                           *)
LEMMA HostIs ==
  ASSUME Led, NEW a, HostGoes(a)
  PROVE  run'[Host] = a
  BY LedTyped DEF HostGoes, TypeOK

LEMMA HostUntouched ==
  ASSUME Led, NEW t \in Tasks, NEW a, run' = [run EXCEPT ![t] = a]
  PROVE  run'[Host] = run[Host]
  BY LedTyped DEF TypeOK, Tasks

LEMMA SteadyBeside ==
  ASSUME Led, LevelsInv, Beside(session', session), permissions' \in {permissions, NewRuntime},
         UNCHANGED <<agents, lost, implicit>>, HostSteady
  PROVE  Steady
  <1>1. session \in Sessions /\ permissions \in Runtimes /\ Aligned(session, permissions)
    BY SessionIs DEF LevelsInv
  <1>2. session' \in Sessions /\ Levelled(session', session) /\ Stacks(session', session)
    BY <1>1, LevelledBeside DEF Beside
  <1>3. Aligned(session, permissions')
    BY <1>1, AlignedInvalidated
  <1>4. Aligned(session', permissions')
    BY <1>1, <1>2, <1>3, AlignedStacks
  <1> QED BY <1>2, <1>4 DEF Steady

LEMMA SameIsBeside ==
  ASSUME Led, session' = session
  PROVE  Beside(session', session)
  BY SessionIs DEF Beside, Stacks, Counts

LEMMA ActivationSteady ==
  ASSUME Led, LevelsInv, NEW p \in Procs, ActivationContinues(p) \/ ActivationIo(p),
         UNCHANGED hostVars
  PROVE  Steady
  <1>1. PICK a \in Activities : Advances(p, a)
    BY ActivationAdvances DEF Led
  <1>2. run' = [run EXCEPT ![p] = a] /\ a.op = run[p].op /\ session' = session
        /\ permissions' \in {permissions, NewRuntime}
    BY <1>1 DEF Advances, Carried
  <1>3. run'[Host].op = run[Host].op
    BY <1>2, LedTyped DEF TypeOK
  <1>4. UNCHANGED <<agents, lost, implicit>>
    BY DEF hostVars
  <1> QED BY <1>2, <1>3, <1>4, SameIsBeside, SteadyBeside DEF HostSteady

LEMMA MintLevelled ==
  ASSUME Led, NEW s \in Sessions, NEW t \in Nat, MintRoot(s, t)
  PROVE  Levelled(session', s)
  <1>1. Captured(s, t) \in Levels /\ s.turns \in Nat
    BY CapturedTyped, LedTyped, SnapshotTyped
  <1>2. session' = SetSnapshot(s, Captured(s, t))
    BY DEF MintRoot
  <1> QED BY <1>1, <1>2, SetSnapshotIs DEF Levelled, Counts

LEMMA StartTurnLevelled ==
  ASSUME Led, NEW s \in Sessions, Aligned(s, permissions), s.nested = <<>>, s.phase = "active",
         StartTurn(s, s.turn)
  PROVE  /\ Aligned(session', permissions') /\ session'.nested = <<>> /\ Levelled(session', s)
         /\ run'[Host].op \in {"none", "start"}
  <1>0. s.turn \in Nat /\ s.turns \in Nat /\ s.generation \in Nat
    BY SnapshotTyped
  <1>1. CASE reload.mode = NoMode
    <2>1. MintRoot(s, s.turn) /\ HostGoes(Resting)
      BY <1>1 DEF StartTurn, HostRests
    <2>2. run'[Host].op = "none"
      BY <2>1, HostIs, RestingIs
    <2> QED BY <2>1, <2>2, <1>0, AlignedMint, MintLevelled
  <1>2. CASE reload.mode # NoMode
    <2> DEFINE x == [Starting("start") EXCEPT !.turn = s.turn]
               a == Activating(x, s.generation, FALSE, reload.mode, NoConfig)
    <2>1. x \in Activities /\ x.op = "start"
      <3>1. Starting("start") \in Activities /\ Starting("start").op = "start"
        BY StartingIs DEF HostOps
      <3> QED BY <3>1, <1>0 DEF Activities
    <2>2. HostGoes(a) /\ session' = s /\ UNCHANGED permissions
      BY <1>2 DEF StartTurn
    <2> HIDE DEF x
    <2>3. a.op = "start"
      <3>1. Called(a, x, s.generation, FALSE, reload.mode)
        BY <2>1, <1>0, LedTyped, ActivatingSound
      <3> QED BY <2>1, <3>1 DEF Called
    <2> HIDE DEF a
    <2>4. run'[Host].op = "start"
      BY <2>2, <2>3, HostIs
    <2> QED BY <2>2, <2>4, <1>0, LevelledStacks DEF Stacks
  <1> QED BY <1>1, <1>2

LEMMA BarrierEndsSteady ==
  ASSUME Led, RestTyped', LevelsInv, BarrierEnds
  PROVE  Steady
  <1> DEFINE b == run[Host].barrier
             s == ClearInFlightIfCurrent(session, b)
  <1>1. /\ run[Host].at = "barrier" /\ run[Host].op = "start"
        /\ UNCHANGED <<agents, lost, implicit>>
    BY LedTyped DEF BarrierEnds, Sound
  <1>2. session \in Sessions /\ permissions \in Runtimes /\ Aligned(session, permissions)
        /\ session.nested = <<>>
    BY <1>1, SessionIs DEF LevelsInv, Ends
  <1>3. Beside(s, session)
    BY <1>2, LedTyped, BarrierOps
  <1>4. \/ s.phase = "active" /\ StartTurn(s, s.turn)
        \/ HostGoes(Resting) /\ session' = s /\ UNCHANGED permissions
    BY DEF BarrierEnds, HostRests
  <1> HIDE DEF s
  <1>5. s \in Sessions /\ Levelled(s, session) /\ Aligned(s, permissions) /\ s.nested = <<>>
    BY <1>2, <1>3, LevelledBeside, AlignedStacks DEF Beside, Stacks
  <1>6. CASE s.phase = "active" /\ StartTurn(s, s.turn)
    <2>1. /\ Aligned(session', permissions') /\ Levelled(session', s)
          /\ run'[Host].op \in {"none", "start"}
      BY <1>5, <1>6, StartTurnLevelled
    <2>2. HostSteady
      BY <2>1, <1>1 DEF HostSteady
    <2>3. Levelled(session', session)
      <3>1. session' \in Sessions
        BY DEF RestTyped
      <3> QED BY <3>1, <2>1, <1>2, <1>5, LevelledTwice
    <2> QED BY <2>1, <2>2, <2>3, <1>1 DEF Steady
  <1>7. CASE HostGoes(Resting) /\ session' = s /\ UNCHANGED permissions
    <2>1. HostSteady
      BY <1>1, <1>7, HostIs, RestingIs DEF HostSteady
    <2> QED BY <2>1, <1>1, <1>3, <1>7, SteadyBeside
  <1> QED BY <1>4, <1>6, <1>7

LEMMA StartAnsweredSteady ==
  ASSUME Led, LevelsInv, StartAnswered
  PROVE  Steady
  <1>1. /\ run[Host].op = "start" /\ HostGoes(Resting) /\ UNCHANGED <<agents, lost, implicit>>
    BY DEF StartAnswered, HostRests, hostVars
  <1>2. session \in Sessions /\ permissions \in Runtimes /\ Aligned(session, permissions)
        /\ session.nested = <<>> /\ session.turn \in Nat
    BY <1>1, SessionIs DEF LevelsInv, Ends
  <1>3. HostSteady
    BY <1>1, HostIs, RestingIs DEF HostSteady
  <1>4. CASE session.phase = "active" /\ MintRoot(session, session.turn)
    BY <1>1, <1>2, <1>3, <1>4, AlignedMint, MintLevelled DEF Steady
  <1>5. CASE UNCHANGED <<session, permissions>>
    BY <1>1, <1>3, <1>5, SameIsBeside, SteadyBeside
  <1> QED BY <1>4, <1>5 DEF StartAnswered

LEMMA ApplyPendingLevelled ==
  ASSUME Led, NEW s \in Sessions, Aligned(s, permissions), NEW then \in {Resting, Preparing},
         ApplyPending(s, then)
  PROVE  /\ Aligned(session', permissions') /\ Levelled(session', s)
         /\ run'[Host].op \notin {"start", "nest"}
  <1> DEFINE snap == AnySnapshot(s)
             mode == reload.mode
             x(op) == [Starting(op) EXCEPT !.next = then.op]
             call(op) == Activating(x(op), s.generation, FALSE, mode, NoConfig)
  <1>0. permissions \in Runtimes /\ s.generation \in Nat /\ s.turns \in Nat /\ NoBase \in Bases
        /\ then.op \in {"none", "prepare"}
    BY LedTyped, SnapshotTyped, InstalledTyped, RestingIs, PreparingIs DEF RestTyped
  <1>2. CASE HostGoes(then) /\ session' = s /\ permissions' = permissions
    <2>1. run'[Host].op = then.op
      BY <1>2, HostIs
    <2> QED BY <2>1, <1>0, <1>2, LevelledStacks DEF Stacks
  <1>3. ASSUME NEW op \in {"refresh-up", "refresh-down"}, HostGoes(call(op)), mode \in Modes
        PROVE  run'[Host].op \notin {"start", "nest"}
    <2>1. x(op) \in Activities /\ x(op).op = op
      <3>2. Starting(op) \in Activities /\ Starting(op).op = op
        BY StartingIs DEF HostOps
      <3> QED BY <3>2, <1>0 DEF Activities
    <2> HIDE DEF x
    <2>2. Called(call(op), x(op), s.generation, FALSE, mode)
      BY <2>1, <1>0, <1>3, ActivatingSound
    <2> DEFINE a == call(op)
    <2> HIDE DEF call
    <2> HIDE DEF a
    <2>3. a.op = op /\ HostGoes(a)
      BY <2>1, <2>2, <1>3 DEF Called, a
    <2> QED BY <2>3, HostIs
  <1>4. CASE ~(mode = NoMode \/ reload.record = NoRecord \/ s.phase # "active" \/ snap = NoSnapshot)
             /\ snap.mode # mode
    <2>1. mode \in Modes
      BY <1>4, LedTyped
    <2>2. CASE RequiresSandbox(mode, reload.record.config)
      <3>1. HostGoes(call("refresh-up")) /\ session' = s /\ UNCHANGED permissions
        BY <2>2, <1>4 DEF ApplyPending
      <3>2. run'[Host].op \notin {"start", "nest"}
        BY <3>1, <2>1, <1>3
      <3> QED BY <3>1, <3>2, <1>0, LevelledStacks DEF Stacks
    <2>3. CASE ~RequiresSandbox(mode, reload.record.config)
      <3>1. /\ HostGoes(call("refresh-down"))
            /\ session' = RefreshSnapshots(s, mode, FALSE, NoBase)
            /\ permissions' = RefreshTurns(permissions, mode, FALSE, NoBase)
        BY <2>3, <1>4 DEF ApplyPending
      <3>2. run'[Host].op \notin {"start", "nest"}
        BY <3>1, <2>1, <1>3
      <3>3. Aligned(session', permissions') /\ Levelled(session', s)
        BY <3>1, <2>1, <1>0, AlignedRefresh, LevelledRefresh
      <3> QED BY <3>2, <3>3
    <2> QED BY <2>2, <2>3
  <1>5. CASE (mode = NoMode \/ reload.record = NoRecord \/ s.phase # "active" \/ snap = NoSnapshot)
             \/ snap.mode = mode
    BY <1>5, <1>2 DEF ApplyPending
  <1> QED BY <1>4, <1>5

LEMMA NoneEnded ==
  ASSUME Led, LevelsInv, TopRuns \/ agents = <<>>
  PROVE  ~Ended /\ ~session.awaiting
  BY DEF LevelsInv, Ends, Ended, TopRuns

LEMMA TurnStartSteady ==
  ASSUME Led, RestTyped', LevelsInv, TurnStart
  PROVE  Steady
  <1> DEFINE s == MarkLifecycleEvent(session)
  <1>1. /\ TopRuns /\ run[Host].op = "none" /\ UNCHANGED <<agents, lost, implicit>>
        /\ ApplyPending(s, Resting)
    BY RestingIs DEF TurnStart, HostFree
  <1>2. session \in Sessions /\ permissions \in Runtimes /\ Aligned(session, permissions)
        /\ session' \in Sessions /\ session.turns \in Nat
    BY SessionIs DEF LevelsInv, RestTyped
  <1>3. /\ s \in Sessions /\ Stacks(s, session) /\ s.turns = session.turns /\ s.observed = TRUE
        /\ s.generation = session.generation /\ s.awaiting = session.awaiting
    BY <1>2, CounterOps
  <1> HIDE DEF s
  <1>4. Aligned(s, permissions) /\ Levelled(s, session)
    BY <1>2, <1>3, AlignedStacks, LevelledStacks
  <1>5. /\ Aligned(session', permissions') /\ Levelled(session', s)
        /\ run'[Host].op \notin {"start", "nest"}
    BY <1>1, <1>3, <1>4, ApplyPendingLevelled
  <1>6. HostSteady
    BY <1>1, <1>5, NoneEnded DEF HostSteady
  <1>7. Levelled(session', session)
    BY <1>2, <1>3, <1>4, <1>5, LevelledTwice
  <1> QED BY <1>1, <1>5, <1>6, <1>7 DEF Steady

LEMMA AppliesItselfLevelled ==
  ASSUME Led, LevelsInv, AppliesItself
  PROVE  /\ Aligned(session', permissions') /\ Levelled(session', session)
         /\ run'[Host].op \notin {"start", "nest"}
  <1>1. session \in Sessions /\ permissions \in Runtimes /\ Aligned(session, permissions)
        /\ session.turns \in Nat
    BY SessionIs DEF LevelsInv
  <1>2. CASE ApplyPending(session, Preparing)
    BY <1>1, <1>2, ApplyPendingLevelled
  <1>3. CASE HostGoes(Preparing) /\ UNCHANGED <<session, permissions, pending>>
    <2>1. run'[Host].op = "prepare"
      BY <1>3, HostIs, PreparingIs
    <2> QED BY <2>1, <1>1, <1>3, LevelledStacks DEF Stacks
  <1> QED BY <1>2, <1>3 DEF AppliesItself

LEMMA PrepareToolSteady ==
  ASSUME Led, LevelsInv, PrepareTool
  PROVE  Steady
  <1>1. /\ TopRuns \/ agents = <<>>
        /\ run[Host].op = "none" /\ UNCHANGED <<agents, lost, implicit>>
    BY RestingIs DEF PrepareTool, HostFree
  <1>2. CASE AppliesItself
    BY <1>1, <1>2, NoneEnded, AppliesItselfLevelled DEF Steady, HostSteady
  <1>3. CASE HostGoes([Starting("prepare") EXCEPT !.at = "parser"])
             /\ UNCHANGED <<session, permissions, pending>>
    <2> DEFINE a == [Starting("prepare") EXCEPT !.at = "parser"]
    <2>1. a.op = "prepare"
      <3>1. Stands(a, "prepare", "parser", 0, 0, 0)
        BY PlacedAt DEF HostOps, Places
      <3> QED BY <3>1 DEF Stands
    <2>2. HostGoes(a)
      BY <1>3
    <2> HIDE DEF a
    <2>3. HostSteady
      BY <2>1, <2>2, <1>1, HostIs, NoneEnded DEF HostSteady
    <2> QED BY <2>3, <1>1, <1>3, SameIsBeside, SteadyBeside
  <1> QED BY <1>2, <1>3 DEF PrepareTool

LEMMA ParserActivatesSteady ==
  ASSUME Led, LevelsInv, ParserActivates
  PROVE  Steady
  <1>1. /\ run[Host].op = "prepare" /\ AppliesItself /\ UNCHANGED <<agents, lost, implicit>>
    BY LedTyped DEF ParserActivates, Sound
  <1> QED BY <1>1, AppliesItselfLevelled DEF Steady, HostSteady

LEMMA DrainBeginsSteady ==
  ASSUME Led, LevelsInv, DrainBegins
  PROVE  Steady
  <1>1. PICK a \in Activities : run' = [run EXCEPT ![Host] = a] /\ Carried(run[Host], a)
    BY LedTyped, MoveIs DEF DrainBegins, Places
  <1>2. run'[Host].op = run[Host].op
    BY <1>1, HostIs DEF HostGoes, Carried
  <1>3. UNCHANGED <<session, permissions, agents, lost, implicit>>
    BY DEF DrainBegins, hostVars
  <1> QED BY <1>2, <1>3, SameIsBeside, SteadyBeside DEF HostSteady

LEMMA BeginPrepareSteady ==
  ASSUME Led, LevelsInv, BeginPrepare
  PROVE  Steady
  <1> DEFINE snap == AnySnapshot(session)
             m == IF snap = NoSnapshot THEN reload.mode ELSE snap.mode
             x == Starting("prepare")
             a == Activating(x, session.generation, FALSE, m, NoConfig)
  <1>1. /\ run[Host].op = "prepare" /\ HostGoes(a)
        /\ UNCHANGED <<session, permissions, agents, lost, implicit>>
    BY DEF BeginPrepare, hostVars
  <1>2. m \in Modes \cup {NoMode}
    BY LedTyped, SnapshotTyped, LevelIs DEF RestTyped
  <1>3. x \in Activities /\ x.op = "prepare"
    BY StartingIs DEF HostOps
  <1> HIDE DEF m, x
  <1>4. Called(a, x, session.generation, FALSE, m)
    BY <1>2, <1>3, LedTyped, ActivatingSound
  <1> HIDE DEF a
  <1>5. HostSteady
    BY <1>1, <1>3, <1>4, HostIs DEF Called, HostSteady
  <1> QED BY <1>1, <1>5, SameIsBeside, SteadyBeside

LEMMA ToolEndsSteady ==
  ASSUME Led, LevelsInv, ToolEnds
  PROVE  Steady
  <1>1. /\ run[Host].op = "prepare" /\ HostGoes(Resting)
        /\ UNCHANGED <<session, permissions, agents, lost, implicit>>
    BY LedTyped DEF ToolEnds, Sound, HostRests, hostVars
  <1>2. HostSteady
    BY <1>1, HostIs, RestingIs DEF HostSteady
  <1> QED BY <1>1, <1>2, SameIsBeside, SteadyBeside

LEMMA RefreshAnsweredSteady ==
  ASSUME Led, LevelsInv, RefreshAnswered
  PROVE  Steady
  <1> DEFINE a == IF run[Host].next = "prepare" THEN Preparing ELSE Resting
             mode == run[Host].target
  <1>1. /\ HostGoes(a) /\ UNCHANGED <<agents, lost, implicit>>
        /\ run[Host].op \in {"refresh-up", "refresh-down"}
    BY DEF RefreshAnswered
  <1>2. a.op \in {"none", "prepare"}
    BY PreparingIs, RestingIs
  <1> HIDE DEF a
  <1>3. HostSteady
    BY <1>1, <1>2, HostIs DEF HostSteady
  <1>4. mode \in Modes
    BY <1>1, LedTyped DEF Sound
  <1>5. session \in Sessions /\ permissions \in Runtimes /\ Aligned(session, permissions)
        /\ InstalledBase \in Bases
    BY SessionIs, InstalledTyped DEF LevelsInv
  <1>6. CASE UNCHANGED <<session, permissions>>
    BY <1>1, <1>3, <1>6, SameIsBeside, SteadyBeside
  <1>7. CASE /\ session' = RefreshSnapshots(session, mode, TRUE, InstalledBase)
             /\ permissions' = IF AnySnapshot(session) = NoSnapshot THEN permissions
                               ELSE RefreshTurns(permissions, mode, TRUE, InstalledBase)
    <2>1. /\ Levelled(session', session)
          /\ Aligned(session', RefreshTurns(permissions, mode, TRUE, InstalledBase))
      BY <1>4, <1>5, <1>7, AlignedRefresh, LevelledRefresh
    <2>2. AnySnapshot(session) = NoSnapshot =>
            RefreshTurns(permissions, mode, TRUE, InstalledBase) = permissions
      <3>1. AnySnapshot(session) = NoSnapshot => session.snapshot = NoSnapshot
        BY DEF AnySnapshot
      <3> QED BY <3>1, <1>4, <1>5, AlignedRefresh
    <2>3. permissions' = RefreshTurns(permissions, mode, TRUE, InstalledBase)
      BY <2>2, <1>7
    <2> QED BY <2>1, <2>3, <1>1, <1>3 DEF Steady
  <1> QED BY <1>6, <1>7 DEF RefreshAnswered

(* The answer to a tool: the session it ensured, its readiness repaired.   *)
LEMMA PreparedLevelled ==
  ASSUME Led, PrepareAnswered, run[Host].ok, Current(Host), Aligned(Ensured(session), permissions)
  PROVE  /\ Aligned(session', permissions') /\ Levelled(session', Ensured(session))
         /\ run'[Host].op \in {"none", "prepare"}
  <1> DEFINE s == Ensured(session)
             snap == CurrentSnapshot(s)
             ready == RequiresSandbox(snap.mode, snap.config) /\ reload.sandbox = "ready"
             stale == snap.ready # ready
             repaired == IF stale THEN RefreshSnapshots(s, snap.mode, ready, NoBase) ELSE s
             levels == IF stale THEN RefreshTurns(permissions, snap.mode, ready, NoBase)
                       ELSE permissions
             prepared == [Starting("prepare") EXCEPT !.at = "prepared"]
  <1>1. session \in Sessions /\ permissions \in Runtimes /\ NoBase \in Bases
    BY SessionIs, InstalledTyped
  <1>2. s \in Sessions /\ s.turns \in Nat /\ Aligned(s, permissions)
    BY <1>1, EnsuredIs, SnapshotTyped
  <1>3. prepared.op = "prepare"
    <2>1. Stands(prepared, "prepare", "prepared", 0, 0, 0)
      BY PlacedAt DEF HostOps, Places
    <2> QED BY <2>1 DEF Stands
  <1>4. CASE snap = NoSnapshot
    <2>1. HostGoes(Resting) /\ session' = s /\ UNCHANGED permissions
      BY <1>4 DEF PrepareAnswered, HostRests
    <2>2. run'[Host].op = "none"
      BY <2>1, HostIs, RestingIs
    <2> HIDE DEF s
    <2> QED BY <2>1, <2>2, <1>2, LevelledStacks DEF Stacks, s
  <1>5. CASE snap # NoSnapshot
    <2>1. snap.mode \in Modes /\ ready \in BOOLEAN
      BY <1>5, <1>2, SnapshotTyped, LevelIs
    <2>2. /\ session' = repaired
          /\ \/ HostGoes(Resting) /\ permissions' = levels
             \/ HostGoes(prepared) /\ (permissions' = levels
                  \/ permissions' = BeginRootTurn(levels, CurrentSnapshot(repaired)))
      <3>1. /\ session' = repaired
            /\ IF ~(reload.record # NoRecord /\ reload.record.config = snap.config)
               THEN HostRests /\ permissions' = levels
               ELSE /\ HostGoes(prepared)
                    /\ permissions' = IF levels.turn # NoSnapshot THEN levels
                                      ELSE BeginRootTurn(levels, CurrentSnapshot(repaired))
        BY <1>5 DEF PrepareAnswered
      <3> QED BY <3>1 DEF HostRests
    <2> HIDE DEF prepared, s, snap, ready
    <2>3. /\ repaired \in Sessions /\ levels \in Runtimes /\ Aligned(repaired, levels)
          /\ Levelled(repaired, s)
      <3>1. CASE stale
        <4>1. repaired = RefreshSnapshots(s, snap.mode, ready, NoBase)
              /\ levels = RefreshTurns(permissions, snap.mode, ready, NoBase)
          BY <3>1
        <4> HIDE DEF repaired, levels
        <4> QED BY <4>1, <2>1, <1>1, <1>2, AlignedRefresh, LevelledRefresh
      <3>2. CASE ~stale
        BY <3>2, <1>1, <1>2, LevelledStacks DEF Stacks
      <3> QED BY <3>1, <3>2
    <2> HIDE DEF repaired, levels
    <2>4. Aligned(repaired, BeginRootTurn(levels, CurrentSnapshot(repaired)))
      BY <2>3, AlignedRepaired
    <2>5. run'[Host].op \in {"none", "prepare"}
      BY <2>2, <1>3, HostIs, RestingIs
    <2> QED BY <2>2, <2>3, <2>4, <2>5 DEF s
  <1> QED BY <1>4, <1>5

LEMMA EnsuredAligned ==
  ASSUME Led, LevelsInv
  PROVE  Aligned(Ensured(session), permissions)
  <1> DEFINE z == Ensured(session)
  <1>1. session \in Sessions /\ permissions \in Runtimes /\ Aligned(session, permissions)
        /\ session.turns \in Nat
    BY SessionIs DEF LevelsInv
  <1>2. CASE ~MayBeginImplicitly(session)
    BY <1>1, <1>2, EnsuredIs
  <1>3. CASE MayBeginImplicitly(session)
    <2>1. /\ z \in Sessions /\ z.turn = session.turns + 1 /\ z.phase = "active"
          /\ z.depth = 1 /\ z.nested = <<>> /\ z.ceilings = <<>>
          /\ z.snapshot # NoSnapshot =>
               IF session.snapshot = NoSnapshot THEN z.snapshot.turn = z.turn
               ELSE z.snapshot = session.snapshot
      BY <1>1, <1>3, EnsuredIs
    <2>2. session.nested = <<>> /\ CurrentSnapshot(session) = NoSnapshot
      BY <1>3 DEF MayBeginImplicitly, LevelsInv, Ends
    <2>3. session.snapshot = NoSnapshot
      BY <2>2, <1>1 DEF Aligned, Shaped, CurrentSnapshot
    <2> HIDE DEF z
    <2>4. permissions = NewRuntime
      BY <2>3, <1>1, IdleIsInvalidated
    <2>5. z.turn # NoTurn
      BY <2>1, <1>1 DEF NoTurn
    <2>6. Shaped(z)
      BY <2>1, <2>3, <2>5, DepthAssumption DEF Shaped
    <2> QED BY <2>1, <2>4, <2>6, AlignedRoot DEF z
  <1> QED BY <1>2, <1>3

LEMMA PrepareAnsweredKeeps ==
  ASSUME Led, RestTyped', LevelsInv, PrepareAnswered
  PROVE  LevelsInv'
  <1> DEFINE z == Ensured(session)
  <1>1. /\ run[Host].op = "prepare" /\ agents' = agents
    BY DEF PrepareAnswered
  <1>2. /\ session \in Sessions /\ session' \in Sessions /\ session.turns \in Nat /\ z \in Sessions
        /\ z.turns \in Nat /\ z.turn \in Nat /\ session'.turns \in Nat /\ session'.turn \in Nat
        /\ z.generation = session.generation /\ session'.nested \in Seq(Levels) /\ z.observed = session.observed
    <2>1. session' \in Sessions /\ session \in Sessions
      BY SessionIs DEF RestTyped
    <2> QED BY <2>1, SnapshotTyped, EnsuredIs
  <1>3. CASE ~run[Host].ok \/ ~Current(Host)
    <2>1. HostGoes(Resting) /\ UNCHANGED <<session, permissions, lost, implicit>>
      BY <1>3 DEF PrepareAnswered, HostRests
    <2>2. HostSteady
      BY <2>1, <1>1, HostIs, RestingIs DEF HostSteady
    <2> QED BY <2>1, <2>2, <1>1, SameIsBeside, SteadyBeside, SteadyKeeps
  <1>4. CASE run[Host].ok /\ Current(Host)
    <2>1. /\ implicit' = IF z.turns # session.turns THEN z.turn ELSE implicit
          /\ lost' = (lost /\ (~(z.turns # session.turns) \/ agents # <<>>))
      BY <1>4 DEF PrepareAnswered
    <2>2. /\ Aligned(session', permissions') /\ Levelled(session', z)
          /\ run'[Host].op \in {"none", "prepare"}
      BY <1>4, EnsuredAligned, PreparedLevelled
    <2>3. CASE ~MayBeginImplicitly(session)
      <3>1. z = session
        BY <2>3, <1>2, EnsuredIs
      <3>2. implicit' = implicit /\ lost' = lost
        BY <2>1, <3>1, LedTyped DEF RestTyped
      <3>3. HostSteady
        BY <2>2, <1>1 DEF HostSteady
      <3>4. Steady
        BY <2>2, <3>1, <3>2, <3>3, <1>1 DEF Steady
      <3> QED BY <3>4, SteadyKeeps
    <2>4. CASE MayBeginImplicitly(session)
      <3>1. /\ z.turns = session.turns + 1 /\ z.turn = session.turns + 1 /\ z.phase = "active"
            /\ z.depth = 1 /\ z.nested = <<>> /\ z.awaiting = FALSE
        BY <2>4, <1>2, EnsuredIs
      <3>2. agents = <<>>
        BY <2>4 DEF MayBeginImplicitly, LevelsInv, Ends
      <3> HIDE DEF z
      <3>3. implicit' = z.turn /\ lost' = FALSE /\ agents' = <<>>
        <4>1. z.turns # session.turns
          BY <1>2, <3>1
        <4>2. implicit' = z.turn /\ agents' = <<>>
          BY <1>1, <2>1, <3>2, <4>1
        <4>3. ~(~(z.turns # session.turns) \/ agents # <<>>)
          BY <3>2, <4>1
        <4>4. lost' = FALSE
          BY <2>1, <4>3, Zenon
        <4> QED BY <4>2, <4>4
      <3>4. /\ session'.turn = z.turn /\ session'.depth = 1 /\ session'.nested = <<>>
            /\ session'.awaiting = FALSE /\ z.turns <= session'.turns
        BY <1>2, <2>2, <3>1 DEF Levelled
      <3>5. Bounded'
        BY <3>1, <3>3, <3>4, <1>2 DEF Bounded
      <3>6. Ended' = FALSE
        BY <3>3 DEF Ended
      <3>7. Ends'
        BY <3>3, <3>4, <3>6, <2>2 DEF Ends
      <3>8. Standing' = 0
        BY <3>3, <3>6, <2>2 DEF Standing
      <3>9. Implied(session', implicit') = 1
        BY <3>1, <3>3, <3>4, <1>2 DEF Implied, NoTurn
      <3>10. Placed(session', agents', 0, implicit', 0)
        <4>1. \A i \in 1..0 : FALSE
          OBVIOUS
        <4>2. session'.depth = (0 - 0) + Implied(session', implicit') /\ \A i \in (0 + 1)..0 : FALSE
          BY <3>4, <3>9
        <4> QED BY <4>1, <4>2 DEF Placed
      <3>11. Balanced(session', agents', Standing', implicit')
        <4>1. 0 \in 0..0
          OBVIOUS
        <4> QED BY <4>1, <3>8, <3>10 DEF Balanced
      <3> QED BY <2>2, <3>5, <3>7, <3>11 DEF LevelsInv
    <2> QED BY <2>3, <2>4
  <1> QED BY <1>3, <1>4

-------------------------------------------------------------------------------
(* The steps of the user's events, and those that reset the branch.        *)
LEMMA HostElsewhere ==
  ASSUME Led, NEW t \in Tasks
  PROVE  /\ \A a : TaskGoes(t, a) => run'[Host] = run[Host]
         /\ \A place : Move(t, place) => run'[Host] = run[Host]
         /\ Done(t) => run'[Host] = run[Host]
         /\ UNCHANGED run => run'[Host] = run[Host]
  <1>1. run \in [Procs -> Activities] /\ Host \in Procs /\ t # Host
    BY LedTyped, TaskTyped DEF TypeOK
  <1> QED BY <1>1 DEF TaskGoes, Move, Done

LEMMA TaskSteady ==
  ASSUME Led, LevelsInv, Beside(session', session), permissions' \in {permissions, NewRuntime},
         UNCHANGED <<agents, lost, implicit>>, run'[Host] = run[Host]
  PROVE  Steady
  <1>1. HostSteady
    BY DEF HostSteady
  <1> QED BY <1>1, SteadyBeside

LEMMA SettledBeside ==
  ASSUME Led, NEW t \in Tasks, NEW ready \in BOOLEAN
  PROVE  Beside(SettleBarrier(session, run[t].barrier, ready), session)
  BY SessionIs, TaskTyped, BarrierOps

LEMMA TaskContinuesSteady ==
  ASSUME Led, LevelsInv, NEW t \in Tasks,
         \/ ShutdownBegins(t) \/ Superseded(t) \/ CycleRuns(t)
         \/ CycleAnswered(t) \/ DesireAnswered(t) \/ ReloadRuns(t)
         \/ RestoredAnswered(t) \/ \E mode \in Modes : TreeRuns(t, mode)
  PROVE  Steady
  <1>1. CASE ShutdownBegins(t)
    <2>1. run'[Host] = run[Host]
      BY <1>1, HostElsewhere DEF ShutdownBegins
    <2>2. UNCHANGED <<session, permissions, agents, lost, implicit>>
      BY <1>1 DEF ShutdownBegins, hostVars
    <2> QED BY <2>1, <2>2, SameIsBeside, TaskSteady
  <1>2. CASE Superseded(t)
    <2>1. run'[Host] = run[Host] /\ UNCHANGED <<permissions, agents, lost, implicit>>
      BY <1>2, HostElsewhere DEF Superseded, Stays
    <2>2. Beside(session', session)
      BY <1>2, SettledBeside, SameIsBeside DEF Superseded
    <2> QED BY <2>1, <2>2, TaskSteady
  <1>3. CASE CycleRuns(t)
    <2>1. run'[Host] = run[Host]
      BY <1>3, HostElsewhere DEF CycleRuns
    <2>2. UNCHANGED <<session, agents, lost, implicit>> /\ permissions' = NewRuntime
      BY <1>3 DEF CycleRuns, Stays, InvalidateTurns
    <2> QED BY <2>1, <2>2, SameIsBeside, TaskSteady
  <1>4. CASE CycleAnswered(t)
    <2>1. run'[Host] = run[Host]
      BY <1>4, HostElsewhere DEF CycleAnswered
    <2>2. UNCHANGED <<permissions, agents, lost, implicit>>
      BY <1>4 DEF CycleAnswered, Stays
    <2>3. \/ session' = session \/ session' = SettleBarrier(session, run[t].barrier, TRUE)
          \/ session' = SettleBarrier(session, run[t].barrier, FALSE)
      BY <1>4 DEF CycleAnswered
    <2>4. Beside(session', session)
      BY <2>3, SettledBeside, SameIsBeside
    <2> QED BY <2>1, <2>2, <2>4, TaskSteady
  <1>5. CASE DesireAnswered(t)
    <2>1. run'[Host] = run[Host]
      BY <1>5, HostElsewhere DEF DesireAnswered
    <2>2. UNCHANGED <<session, permissions, agents, lost, implicit>>
      BY <1>5 DEF DesireAnswered, Stays
    <2> QED BY <2>1, <2>2, SameIsBeside, TaskSteady
  <1>6. CASE ReloadRuns(t)
    <2>1. run'[Host] = run[Host]
      BY <1>6, HostElsewhere DEF ReloadRuns
    <2>2. UNCHANGED <<session, permissions, agents, lost, implicit>>
      BY <1>6 DEF ReloadRuns, Stays
    <2> QED BY <2>1, <2>2, SameIsBeside, TaskSteady
  <1>7. CASE RestoredAnswered(t)
    <2>1. run'[Host] = run[Host]
      BY <1>7, HostElsewhere DEF RestoredAnswered
    <2>2. UNCHANGED <<session, permissions, agents, lost, implicit>>
      BY <1>7 DEF RestoredAnswered, Stays
    <2> QED BY <2>1, <2>2, SameIsBeside, TaskSteady
  <1>8. ASSUME NEW mode \in Modes, TreeRuns(t, mode) PROVE Steady
    <2>1. run'[Host] = run[Host]
      BY <1>8, HostElsewhere DEF TreeRuns
    <2>2. UNCHANGED <<session, permissions, agents, lost, implicit>>
      BY <1>8 DEF TreeRuns, Stays
    <2> QED BY <2>1, <2>2, SameIsBeside, TaskSteady
  <1> QED BY <1>1, <1>2, <1>3, <1>4, <1>5, <1>6, <1>7, <1>8

LEMMA TaskIoSteady ==
  ASSUME Led, LevelsInv, NEW t \in Tasks,
         \/ ShutdownEnds(t)
         \/ \E c \in Configs \cup {NoConfig}, mode \in Modes : ConfigRead(t, c, mode)
  PROVE  Steady
  <1>1. CASE ShutdownEnds(t)
    <2>1. run'[Host] = run[Host]
      BY <1>1, HostElsewhere DEF ShutdownEnds
    <2>2. UNCHANGED <<session, permissions, agents, lost, implicit>>
      BY <1>1 DEF ShutdownEnds, hostVars
    <2> QED BY <2>1, <2>2, SameIsBeside, TaskSteady
  <1>2. ASSUME NEW c \in Configs \cup {NoConfig}, NEW mode \in Modes, ConfigRead(t, c, mode)
        PROVE  Steady
    <2>1. run'[Host] = run[Host]
      BY <1>2, HostElsewhere DEF ConfigRead
    <2>2. UNCHANGED <<session, permissions, agents, lost, implicit>>
      BY <1>2 DEF ConfigRead, Stays
    <2> QED BY <2>1, <2>2, SameIsBeside, TaskSteady
  <1> QED BY <1>1, <1>2

LEMMA CycleSteady ==
  ASSUME Led, LevelsInv, NEW t \in Tasks, Cycle(t)
  PROVE  Steady
  <1>1. run'[Host] = run[Host] /\ UNCHANGED <<permissions, agents, lost, implicit>>
    BY HostElsewhere DEF Cycle, Stays
  <1>2. session' = session \/ session' = CreateBarrier(session)
    BY DEF Cycle
  <1>3. Beside(session', session)
    <2>1. 0 \in Nat /\ TRUE \in BOOLEAN
      OBVIOUS
    <2>2. Beside(CreateBarrier(session), session)
      BY <2>1, SessionIs, BarrierOps
    <2> QED BY <2>2, <1>2, SameIsBeside
  <1> QED BY <1>1, <1>3, TaskSteady

LEMMA ReloadSteady ==
  ASSUME Led, LevelsInv, NEW t \in Tasks, Reload(t)
  PROVE  Steady
  <1>1. run'[Host] = run[Host]
    BY HostElsewhere DEF Reload, Enqueue
  <1>2. UNCHANGED <<session, permissions, agents, lost, implicit>>
    BY DEF Reload, Stays
  <1> QED BY <1>1, <1>2, SameIsBeside, TaskSteady

LEMMA BranchEventResets ==
  ASSUME Led, NEW t \in Tasks, BranchEvent(t), run'[Host] = run[Host]
  PROVE  Resets
  <1>1. session' = BranchReset(session) /\ permissions' = NewRuntime
        /\ UNCHANGED <<agents, lost, implicit>>
    BY DEF BranchEvent, Stays, InvalidateTurns
  <1> QED BY <1>1, SessionIs, BranchResetIs DEF Resets

LEMMA TreeResets ==
  ASSUME Led, NEW t \in Tasks, BeforeTree(t) \/ Tree(t)
  PROVE  Resets
  <1>1. BranchEvent(t) /\ run'[Host] = run[Host]
    BY HostElsewhere DEF BeforeTree, Tree, Enqueue
  <1> QED BY <1>1, BranchEventResets

LEMMA SessionStartResets ==
  ASSUME Led, NEW t \in Tasks, SessionStart(t)
  PROVE  Resets
  <1> DEFINE s == BranchReset(session)
  <1>1. /\ session' = ClearLifecycleEvents(s) /\ permissions' = NewRuntime
        /\ UNCHANGED <<agents, lost, implicit>> /\ agents = <<>>
    BY DEF SessionStart, Stays, InvalidateTurns
  <1>2. run'[Host] = run[Host]
    BY HostElsewhere DEF SessionStart
  <1>3. s \in Sessions /\ Emptied(s) /\ s.generation = session.generation + 1
        /\ s.turns = session.turns
    BY SessionIs, BranchResetIs
  <1> HIDE DEF s
  <1>4. /\ session' \in Sessions /\ Emptied(session') /\ session'.generation = s.generation
        /\ session'.turns = s.turns
    BY <1>1, <1>3, CounterOps DEF Emptied, Stacks
  <1> QED BY <1>1, <1>2, <1>3, <1>4 DEF Resets

LEMMA ShutdownResets ==
  ASSUME Led, NEW t \in Tasks, Shutdown(t)
  PROVE  Resets
  <1>1. session' = BranchReset(session) /\ permissions' = NewRuntime
        /\ UNCHANGED <<agents, lost, implicit>>
    BY DEF Shutdown, BranchReset, InvalidateTurns
  <1>2. run'[Host] = run[Host]
    BY HostElsewhere DEF Shutdown
  <1> QED BY <1>1, <1>2, SessionIs, BranchResetIs DEF Resets

LEMMA DrainEndsKeeps ==
  ASSUME Led, RestTyped', LevelsInv, NEW ok \in BOOLEAN, DrainEnds(ok)
  PROVE  LevelsInv'
  <1>1. /\ run[Host].at = "draining" /\ run[Host].op = "nest" /\ run[Host].at \notin Touching
        /\ UNCHANGED <<agents, lost, implicit>>
    BY LedTyped DEF DrainEnds, Sound, Nesting, Touching
  <1>2. session \in Sessions /\ permissions \in Runtimes /\ Aligned(session, permissions)
    BY SessionIs DEF LevelsInv
  <1>3. CASE ok /\ Current(Host) /\ ParentIs(session, run[Host].parent)
    <2> DEFINE parent == CurrentSnapshot(session)
               a == Minting(session, parent)
    <2>1. /\ HostGoes(a) /\ session' = AllocateTurnId(session)
          /\ UNCHANGED <<permissions, pending, holder>>
      BY <1>3 DEF DrainEnds
    <2>2. parent \in Snapshots
      BY <1>2, <1>3, SnapshotTyped DEF ParentIs, Levels
    <2> HIDE DEF parent
    <2>3. Stands(a, "nest", "materializing", session.generation, session.turns + 1, 0)
      BY <2>1, <2>2, <1>1, <1>2, MintingIs
    <2> HIDE DEF a
    <2>4. HostSteady
      BY <2>1, <2>3, <1>1, HostIs DEF Stands, HostSteady
    <2>5. Levelled(session', session) /\ Aligned(session', permissions')
      <3>1. /\ session' \in Sessions /\ session'.turns = session.turns + 1
            /\ Stacks(session', session) /\ session'.generation = session.generation
            /\ session'.observed = session.observed /\ session'.awaiting = session.awaiting
        BY <2>1, <1>2, CounterOps
      <3>2. session.turns <= session'.turns
        BY <3>1, SessionIs
      <3> QED BY <3>1, <3>2, <2>1, <1>2, AlignedStacks, LevelledStacks
    <2> QED BY <2>4, <2>5, <1>1, SteadyKeeps DEF Steady
  <1>4. CASE ~(ok /\ Current(Host) /\ ParentIs(session, run[Host].parent))
    <2>1. /\ HostGoes(Resting) /\ session' = BranchReset(session) /\ permissions' = NewRuntime
      BY <1>4 DEF DrainEnds, HostRests, InvalidateTurns
    <2>2. run'[Host].op = "none"
      BY <2>1, HostIs, RestingIs
    <2>3. Resets
      BY <2>1, <2>2, <1>1, <1>2, BranchResetIs DEF Resets
    <2> QED BY <2>3, ResetsKeep
  <1> QED BY <1>3, <1>4

-------------------------------------------------------------------------------
(* Agents that start, end and settle: the stack p is q with a on top of    *)
(* its first n.                                                            *)
Topped(p, q, n, a) ==
  /\ p # <<>> /\ Len(p) = n + 1 /\ Last(p) = a /\ p[n + 1] = a
  /\ \A i \in 1..n : p[i] = q[i]

LEMMA ToppedAppend ==
  ASSUME NEW q \in Seq(Agents), NEW a \in Agents
  PROVE  Topped(Append(q, a), q, Len(q), a)
  <1> DEFINE p == Append(q, a)
  <1>1. /\ p # <<>> /\ Len(p) = Len(q) + 1 /\ p[Len(q) + 1] = a
        /\ \A i \in 1..Len(q) : p[i] = q[i]
    OBVIOUS
  <1>2. Last(p) = p[Len(p)]
    BY DEF Last
  <1> QED BY <1>1, <1>2 DEF Topped

LEMMA ToppedPut ==
  ASSUME NEW q \in Seq(Agents), NEW a \in Agents, q # <<>>
  PROVE  Topped([q EXCEPT ![Len(q)] = a], q, Len(q) - 1, a)
  <1> DEFINE k == Len(q)
             p == [q EXCEPT ![k] = a]
  <1>1. k \in Nat \ {0} /\ Len(p) = k /\ p \in Seq(Agents) /\ DOMAIN q = 1..k
    <2>1. DOMAIN q = 1..Len(q)
      OBVIOUS
    <2> QED BY <2>1, PutTyped
  <1>2. DOMAIN p = DOMAIN q
    OBVIOUS
  <1> HIDE DEF k
  <1>3. p[k] = a /\ \A i \in 1..(k - 1) : p[i] = q[i]
    BY <1>1
  <1>4. Last(p) = p[Len(p)] /\ p # <<>>
    BY <1>1 DEF Last
  <1> HIDE DEF p
  <1>5. k - 1 + 1 = k
    BY <1>1
  <1>6. Topped(p, q, k - 1, a)
    BY <1>1, <1>3, <1>4, <1>5 DEF Topped
  <1> QED BY <1>6 DEF p, k

LEMMA ToppedSelf ==
  ASSUME NEW q \in Seq(Agents), q # <<>>
  PROVE  Topped(q, q, Len(q) - 1, Last(q))
  <1>1. Last(q) = q[Len(q)] /\ Len(q) \in Nat \ {0}
    BY FrontIs
  <1>2. Len(q) - 1 + 1 = Len(q)
    BY <1>1
  <1> QED BY <1>1, <1>2 DEF Topped

LEMMA ToppedEnds ==
  ASSUME Led, RestTyped', LevelsInv, NEW n \in Nat, NEW a \in Agents, n <= Standing,
         Topped(agents', agents, n, a), implicit' = implicit,
         session.turns <= session'.turns, session'.generation = session.generation,
         session'.turn <= session'.turns, session'.observed,
         a.turn <= session'.turns, a.gen <= session.generation,
         session'.awaiting => a.ended,
         a.ended => run'[Host].op = "none" /\ (session'.phase = "active" => session'.awaiting),
         run'[Host].op = "start" => session'.nested = <<>>,
         run'[Host].op = "nest" => a = Uncounted
  PROVE  /\ Bounded' /\ Ends'
         /\ Standing' = IF a.ended \/ run'[Host].op = "nest" THEN n ELSE n + 1
  <1>1. /\ session.turns \in Nat /\ implicit \in Nat /\ Len(agents) \in Nat
        /\ \A i \in 1..Len(agents) : agents[i].turn \in Nat
    BY SessionIs
  <1>2. session'.turns \in Nat
    BY SnapshotTyped DEF RestTyped
  <1>3. \A i \in 1..n : i \in 1..Len(agents) /\ agents'[i] = agents[i] /\ ~agents[i].ended
    <2>1. Standing \in Nat /\ \A i \in 1..Standing : i \in 1..Len(agents) /\ ~agents[i].ended
      BY StandingIs DEF LevelsInv
    <2>2. \A i \in 1..n : i \in 1..Standing
      BY <2>1
    <2> QED BY <2>1, <2>2 DEF Topped
  <1>4. Len(agents') = n + 1 /\ agents'[n + 1] = a /\ Last(agents') = a /\ agents' # <<>>
    BY DEF Topped
  <1>5. \A i \in 1..(n + 1) : i \in 1..n \/ i = n + 1
    OBVIOUS
  <1>6. ASSUME NEW i \in 1..n
        PROVE  agents'[i].turn <= session'.turns /\ agents'[i].gen <= session'.generation
    <2>1. agents[i].turn <= session.turns /\ agents[i].gen <= session.generation
          /\ agents[i].turn \in Nat
      BY <1>1, <1>3 DEF LevelsInv, Bounded
    <2> QED BY <2>1, <1>1, <1>2, <1>3
  <1>7. Bounded'
    <2>1. implicit' <= session'.turns
      BY <1>1, <1>2 DEF LevelsInv, Bounded
    <2> QED BY <2>1, <1>4, <1>5, <1>6 DEF Bounded
  <1>8. Ended' = a.ended
    BY <1>4 DEF Ended, Agents
  <1>9. Ends'
    <2>1. \A i \in 1..Len(agents') : agents'[i].ended => i = Len(agents')
      BY <1>3, <1>4, <1>5
    <2> QED BY <2>1, <1>4, <1>8 DEF Ends
  <1>10. Standing' = IF a.ended \/ run'[Host].op = "nest" THEN n ELSE n + 1
    <2>1. Len(agents') - 1 = n
      BY <1>4
    <2> QED BY <2>1, <1>4, <1>8 DEF Standing
  <1> QED BY <1>7, <1>9, <1>10

(* agent_start where no turn is open.                                      *)
LEMMA OuterStartKeeps ==
  ASSUME Led, RestTyped', LevelsInv, HostFree, TopRuns \/ agents = <<>>, implicit' = implicit,
         NEW s, s = MarkLifecycleEvent(session), s.phase # "active", OuterStart(s)
  PROVE  LevelsInv'
  <1> DEFINE t == s.turns + 1
             x == AllocateTurnId(s)
             z == BeginTurn(x, t)
             a == Agent(z, FALSE)
  <1>1. /\ session \in Sessions /\ permissions \in Runtimes /\ Aligned(session, permissions)
        /\ session.turns \in Nat /\ session.generation \in Nat /\ implicit \in Nat
        /\ implicit <= session.turns /\ agents \in Seq(Agents) /\ Len(agents) \in Nat
        /\ \A i \in 1..Len(agents) : agents[i].turn \in Nat /\ agents[i].turn <= session.turns
    BY SessionIs DEF LevelsInv, Bounded
  <1>2. /\ s \in Sessions /\ s.turns = session.turns /\ s.generation = session.generation
        /\ s.observed = TRUE /\ Stacks(s, session)
    BY <1>1, CounterOps
  <1>3. /\ x \in Sessions /\ x.turns = t /\ x.generation = session.generation
        /\ x.observed = TRUE /\ Stacks(x, session)
    <2>1. /\ x \in Sessions /\ x.turns = s.turns + 1 /\ x.generation = s.generation
          /\ x.observed = s.observed /\ Stacks(x, s)
      BY <1>2, CounterOps
    <2> QED BY <2>1, <1>2 DEF Stacks
  <1>4. Shaped(x) /\ x.phase # "active" /\ t \in Nat \ {0} /\ permissions = NewRuntime
    <2>1. Aligned(x, permissions)
      BY <1>1, <1>3, AlignedStacks
    <2>2. Shaped(x) /\ x.phase # "active"
      BY <2>1, <1>2, <1>3 DEF Aligned, Stacks
    <2> QED BY <2>1, <2>2, <1>1, <1>2, IdleIsInvalidated DEF Shaped
  <1>5. /\ z \in Sessions /\ Aligned(z, NewRuntime) /\ z.phase = "active" /\ z.turn = t
        /\ z.nested = <<>> /\ Counts(z, x) /\ z.awaiting = FALSE /\ z.depth = 1
    BY <1>3, <1>4, AlignedBegun, BeginTurnIs, ZenonT(40)
  <1>6. a \in Agents /\ a.turn = t /\ a.gen = session.generation /\ a.ended = FALSE
    BY <1>3, <1>5, AgentIs DEF Counts
  <1>7. /\ agents' = Append(agents, a) /\ lost' = (lost /\ agents # <<>>)
        /\ \/ StartTurn(z, z.turn)
           \/ /\ HostGoes([Starting("start") EXCEPT !.at = "barrier", !.turn = t,
                                                    !.barrier = s.inFlight])
              /\ session' = z /\ permissions' = permissions
    BY <1>5 DEF OuterStart
  <1> HIDE DEF x, z, a
  <1>8. /\ Aligned(session', permissions') /\ session'.nested = <<>> /\ Levelled(session', z)
        /\ run'[Host].op \in {"none", "start"}
    <2>1. CASE StartTurn(z, z.turn)
      BY <2>1, <1>4, <1>5, StartTurnLevelled
    <2>2. CASE /\ HostGoes([Starting("start") EXCEPT !.at = "barrier", !.turn = t,
                                                    !.barrier = s.inFlight])
               /\ session' = z /\ permissions' = permissions
      <3> DEFINE y == [Starting("start") EXCEPT !.at = "barrier", !.turn = t,
                                                !.barrier = s.inFlight]
      <3>1. y.op = "start"
        <4>1. Stands(y, "start", "barrier", 0, t, s.inFlight)
          BY <1>2, <1>4, SnapshotTyped, PlacedWith DEF HostOps, Places
        <4> QED BY <4>1 DEF Stands
      <3> HIDE DEF y
      <3>2. run'[Host].op = "start"
        BY <2>2, <3>1, HostIs DEF y
      <3> QED BY <3>2, <2>2, <1>4, <1>5, SnapshotTyped, LevelledStacks DEF Stacks
    <2> QED BY <1>7, <2>1, <2>2
  <1>9. ~Ended /\ Standing = Len(agents)
    BY NoneEnded, RestingIs DEF HostFree, Standing
  <1>10. Topped(agents', agents, Len(agents), a)
    BY <1>1, <1>6, <1>7, ToppedAppend
  <1>11. /\ session'.generation = session.generation /\ session'.turn = t
         /\ session.turns <= session'.turns /\ t <= session'.turns /\ session'.observed
         /\ session'.awaiting = FALSE
    <2>1. session'.turns \in Nat
      BY SnapshotTyped DEF RestTyped
    <2> QED BY <2>1, <1>1, <1>2, <1>3, <1>5, <1>8 DEF Levelled, Counts
  <1>12. Bounded' /\ Ends' /\ Standing' = Len(agents) + 1
    <2>1. a.turn <= session'.turns /\ a.gen <= session.generation /\ session'.turn <= session'.turns
      BY <1>1, <1>6, <1>11
    <2> QED BY <2>1, <1>1, <1>6, <1>8, <1>9, <1>10, <1>11, ToppedEnds
  <1>13. ASSUME ~lost' PROVE Balanced(session', agents', Standing', implicit')
    <2>1. \A i \in 1..Len(agents) : ~CountedIn(agents[i], session)
      <3>1. CASE agents = <<>>
        BY <3>1
      <3>2. CASE agents # <<>>
        <4>1. ~lost
          BY <3>2, <1>7, <1>13
        <4>2. session.turn = NoTurn /\ session.depth = 0
          BY <1>1, <1>2 DEF Aligned, Shaped, Stacks
        <4> QED BY <4>1, <4>2, <1>1, <1>9, PlacedIdle DEF LevelsInv
      <3> QED BY <3>1, <3>2
    <2>2. \A i \in 1..Len(agents) :
            agents'[i] = agents[i] /\ ~CountedIn(agents[i], z) /\ agents[i].turn # t
      <3>1. z.generation = session.generation
        BY <1>3, <1>5 DEF Counts
      <3>2. \A i \in 1..Len(agents) : agents[i].turn # t
        BY <1>1, <1>2
      <3> QED BY <2>1, <3>1, <3>2, <1>10 DEF CountedIn, Topped
    <2>3. implicit # t
      BY <1>1, <1>2
    <2>4. agents'[Len(agents) + 1] = Agent(z, FALSE)
      BY <1>10 DEF Topped, a
    <2>5. t # NoTurn
      BY <1>4 DEF NoTurn
    <2>6. Balanced(z, agents', Len(agents) + 1, implicit)
      BY <2>2, <2>3, <2>4, <2>5, <1>1, <1>5, PlacedBegun
    <2>7. session' \in Sessions
      BY DEF RestTyped
    <2> QED BY <2>6, <2>7, <1>5, <1>8, <1>12, PlacedLevelled
  <1> QED BY <1>8, <1>12, <1>13 DEF LevelsInv

(* agent_start in an open turn: with a level, a sentinel, or neither.      *)
LEMMA NestedKeeps ==
  ASSUME Led, RestTyped', LevelsInv, NEW a \in Agents, Topped(agents', agents, Standing, a),
         ~a.ended, a.turn <= session'.turns, a.gen <= session.generation, implicit' = implicit,
         run'[Host].op \in {"none", "nest"}, run'[Host].op = "nest" => a = Uncounted,
         session.turns <= session'.turns, session'.generation = session.generation,
         session'.turn = session.turn, session'.observed, ~session'.awaiting,
         Aligned(session', permissions'),
         ~lost' => Balanced(session', agents',
                            IF run'[Host].op = "nest" THEN Standing ELSE Standing + 1, implicit)
  PROVE  LevelsInv'
  <1>1. /\ session.turns \in Nat /\ session.turn \in Nat /\ session.turn <= session.turns
        /\ session'.turns \in Nat /\ Standing \in Nat
    <2>1. session'.turns \in Nat
      BY SnapshotTyped DEF RestTyped
    <2> QED BY <2>1, SessionIs, StandingIs DEF LevelsInv, Bounded
  <1>2. session'.turn <= session'.turns
    BY <1>1
  <1>3. /\ Bounded' /\ Ends'
        /\ Standing' = IF a.ended \/ run'[Host].op = "nest" THEN Standing ELSE Standing + 1
    BY <1>1, <1>2, ToppedEnds
  <1> QED BY <1>3 DEF LevelsInv

(* What a nested start begins from: the session s, and the host's agents.  *)
Nests(s, stack) ==
  /\ s \in Sessions /\ Levelled(s, session) /\ Aligned(s, permissions) /\ s.observed /\ ~s.awaiting
  /\ Topped(stack, agents, Standing, Uncounted) /\ stack \in Seq(Agents)
  /\ implicit' = implicit /\ run'[Host].op = "none"

LEMMA NestsFrom ==
  ASSUME Led, LevelsInv, NEW s, NEW stack, Nests(s, stack)
  PROVE  /\ s \in Sessions /\ permissions \in Runtimes /\ Standing \in Nat /\ implicit \in Nat
         /\ s.turns \in Nat /\ s.turn \in Nat /\ s.turn <= s.turns /\ session.turns <= s.turns
         /\ s.generation = session.generation /\ s.turn = session.turn
         /\ s.generation \in Nat /\ lost \in BOOLEAN
         /\ s.phase = "active" => s.turn # NoTurn /\ s.depth = 1 + Len(s.nested)
         /\ s.phase # "active" => s.turn = NoTurn /\ s.depth = 0
         /\ ~lost => Balanced(s, agents, Standing, implicit)
         /\ stack # <<>> /\ Len(stack) = Standing + 1
  <1>1. /\ session.turns \in Nat /\ session.turn \in Nat /\ session.turn <= session.turns
        /\ permissions \in Runtimes /\ Standing \in Nat /\ implicit \in Nat /\ session \in Sessions
        /\ lost \in BOOLEAN
    BY SessionIs, StandingIs DEF LevelsInv, Bounded
  <1>2. /\ s \in Sessions /\ s.generation = session.generation /\ s.turn = session.turn
        /\ session.turns <= s.turns /\ s.turns \in Nat /\ s.generation \in Nat
    BY SnapshotTyped DEF Nests, Levelled
  <1>3. ~lost => Balanced(s, agents, Standing, implicit)
    BY <1>1, PlacedLevelled DEF LevelsInv, Nests
  <1>4. s.turn <= s.turns
    BY <1>1, <1>2
  <1>5. /\ s.phase = "active" => s.turn # NoTurn /\ s.depth = 1 + Len(s.nested)
        /\ s.phase # "active" => s.turn = NoTurn /\ s.depth = 0
    BY DEF Nests, Aligned, Shaped
  <1>6. stack # <<>> /\ Len(stack) = Standing + 1
    BY DEF Nests, Topped
  <1> QED BY <1>1, <1>2, <1>3, <1>4, <1>5, <1>6

LEMMA ShareKeeps ==
  ASSUME Led, RestTyped', LevelsInv, NEW s, NEW stack, Nests(s, stack),
         session' = s, agents' = stack, permissions' = permissions,
         lost' \/ (lost' = lost /\ s.phase # "active")
  PROVE  LevelsInv'
  <1>1. /\ s \in Sessions /\ Standing \in Nat /\ s.turns \in Nat
        /\ s.turn = session.turn /\ session.turns <= s.turns
        /\ s.generation = session.generation /\ s.generation \in Nat
        /\ s.phase # "active" => s.turn = NoTurn /\ s.depth = 0
        /\ ~lost => Balanced(s, agents, Standing, implicit)
    BY NestsFrom
  <1>2. /\ Uncounted \in Agents /\ Uncounted.turn = 0 /\ Uncounted.gen = 0
        /\ Uncounted.ended = FALSE
    BY NewSessionTyped
  <1>3. /\ Topped(agents', agents, Standing, Uncounted) /\ implicit' = implicit
        /\ run'[Host].op = "none" /\ s.observed /\ ~s.awaiting /\ Aligned(s, permissions)
    BY DEF Nests
  <1>4. ASSUME ~lost' PROVE Balanced(session', agents', Standing + 1, implicit)
    <2> DEFINE m == Standing + 1
    <2>1. \A i \in 1..Standing : ~CountedIn(agents[i], s)
      BY <1>1, <1>4, PlacedIdle
    <2>2. m \in Nat /\ \A i \in 1..m : i \in 1..Standing \/ i = Standing + 1
      BY <1>1
    <2>3. \A i \in 1..m : ~CountedIn(agents'[i], s)
      BY <1>2, <1>3, <2>1, <2>2 DEF CountedIn, Topped, NoTurn
    <2> HIDE DEF m
    <2>4. Balanced(s, agents', m, implicit)
      BY <1>1, <1>4, <2>2, <2>3, PlacedIdle
    <2> QED BY <2>4 DEF m
  <1>5. Uncounted.turn <= session'.turns /\ Uncounted.gen <= session.generation
    BY <1>1, <1>2
  <1> QED BY <1>1, <1>2, <1>3, <1>4, <1>5, NestedKeeps

LEMMA LevelKeeps ==
  ASSUME Led, RestTyped', LevelsInv, NEW s, NEW stack, Nests(s, stack), MayNest(s),
         NEW snap \in Levels, NEW e \in Envelopes, NEW blocked \in BOOLEAN,
         blocked => snap = NoSnapshot, session' = BeginNestedTurn(s, snap, e),
         Aligned(session', permissions'), lost' = lost,
         agents' = [stack EXCEPT ![Len(stack)] = Agent(s, blocked)]
  PROVE  LevelsInv'
  <1> DEFINE a == Agent(s, blocked)
  <1>1. /\ s \in Sessions /\ Standing \in Nat /\ s.turns \in Nat /\ implicit \in Nat
        /\ s.turn = session.turn /\ session.turns <= s.turns /\ s.turn <= s.turns
        /\ s.generation = session.generation /\ s.generation \in Nat
        /\ s.phase = "active" => s.turn # NoTurn /\ s.depth = 1 + Len(s.nested)
        /\ ~lost => Balanced(s, agents, Standing, implicit)
        /\ stack # <<>> /\ Len(stack) = Standing + 1
    BY NestsFrom
  <1>2. /\ Topped(stack, agents, Standing, Uncounted) /\ implicit' = implicit
        /\ stack \in Seq(Agents) /\ run'[Host].op = "none" /\ s.observed
    BY DEF Nests
  <1>3. a \in Agents /\ a.turn = s.turn /\ a.gen = s.generation /\ a.ended = FALSE
    BY <1>1, AgentIs
  <1>4. Topped(agents', agents, Standing, a)
    <2>1. Topped(agents', stack, Len(stack) - 1, a)
      BY <1>1, <1>2, <1>3, ToppedPut
    <2>2. Len(stack) - 1 = Standing
      BY <1>1
    <2> QED BY <2>1, <2>2, <1>2 DEF Topped
  <1>5. /\ session' \in Sessions /\ Counts(session', s) /\ session'.turn = s.turn
        /\ session'.depth = s.depth + 1 /\ session'.awaiting = FALSE
        /\ session'.nested = Append(s.nested, snap)
    BY <1>1, BeginNestedIs
  <1>6. ASSUME ~lost' PROVE Balanced(session', agents', Standing + 1, implicit)
    <2>1. \A i \in 1..Standing : agents'[i] = agents[i]
      BY <1>4 DEF Topped
    <2>2. agents'[Standing + 1] = Agent(s, blocked)
      BY <1>4 DEF Topped
    <2>3. s.turn # NoTurn /\ s.depth = 1 + Len(s.nested) /\ Balanced(s, agents, Standing, implicit)
      BY <1>1, <1>6 DEF MayNest
    <2> QED BY <2>1, <2>2, <2>3, <1>1, <1>5, PlacedGrown, ZenonT(40) DEF Counts
  <1> HIDE DEF a
  <1>7. /\ session.turns <= session'.turns /\ session'.generation = session.generation
        /\ session'.turn = session.turn /\ session'.observed /\ ~session'.awaiting
        /\ a.turn <= session'.turns /\ a.gen <= session.generation
    BY <1>1, <1>2, <1>3, <1>5 DEF Counts
  <1> QED BY <1>2, <1>3, <1>4, <1>6, <1>7, NestedKeeps

LEMMA BlockChildKeeps ==
  ASSUME Led, RestTyped', LevelsInv, NEW s, NEW stack, Nests(s, stack), BlockChild(s, stack)
  PROVE  LevelsInv'
  <1>1. s \in Sessions /\ permissions \in Runtimes /\ Aligned(s, permissions) /\ lost \in BOOLEAN
    BY NestsFrom DEF Nests
  <1>2. /\ session' = BeginNestedTurn(s, NoSnapshot, NoEnvelope) /\ permissions' = permissions
        /\ lost' = (lost \/ ~MayNest(s))
    BY DEF BlockChild
  <1>3. CASE MayNest(s)
    <2>1. NoEnvelope \in Envelopes /\ NoSnapshot \in Levels
      BY DEF Envelopes, Levels
    <2>2. Aligned(session', permissions')
      BY <2>1, <1>1, <1>2, <1>3, AlignedBlocked
    <2>3. agents' = [stack EXCEPT ![Len(stack)] = Agent(s, TRUE)]
      BY <1>3 DEF BlockChild
    <2>4. lost' = lost
      BY <1>1, <1>2, <1>3
    <2> QED BY <2>1, <2>2, <2>3, <2>4, <1>2, <1>3, LevelKeeps
  <1>4. CASE ~MayNest(s)
    <2>1. session' = s /\ agents' = stack /\ lost'
      BY <1>2, <1>4 DEF BlockChild, BeginNestedTurn
    <2> QED BY <2>1, <1>2, ShareKeeps
  <1> QED BY <1>3, <1>4

LEMMA OpenChildKeeps ==
  ASSUME Led, RestTyped', LevelsInv, NEW s, NEW stack, Nests(s, stack),
         CurrentSnapshot(s) # NoSnapshot, NEW t \in Nat,
         OpenChild(s, stack, ChildOf(CurrentSnapshot(s), t))
  PROVE  LevelsInv'
  <1> DEFINE parent == CurrentSnapshot(s)
             snap == ChildOf(parent, t)
  <1>1. s \in Sessions /\ permissions \in Runtimes /\ Aligned(s, permissions) /\ lost \in BOOLEAN
    BY NestsFrom DEF Nests
  <1>2. parent \in Snapshots
    BY <1>1, SnapshotTyped DEF Levels
  <1>3. snap \in Snapshots /\ EnvelopeOf(snap) \in Envelopes /\ Under(snap, parent)
    BY <1>2, ChildIs, ChildUnder
  <1>4. /\ session' = BeginNestedTurn(s, snap, EnvelopeOf(snap)) /\ lost' = (lost \/ ~MayNest(s))
        /\ permissions' = IF MayNest(s) THEN OpenChildTurn(permissions, snap) ELSE permissions
        /\ agents' = IF MayNest(s) THEN [stack EXCEPT ![Len(stack)] = Agent(s, FALSE)] ELSE stack
    BY DEF OpenChild
  <1> HIDE DEF snap
  <1>5. CASE MayNest(s)
    <2>1. Aligned(session', permissions')
      BY <1>1, <1>3, <1>4, <1>5, AlignedChild
    <2>2. lost' = lost /\ snap \in Levels
      BY <1>1, <1>3, <1>4, <1>5 DEF Levels
    <2> QED BY <2>1, <2>2, <1>3, <1>4, <1>5, LevelKeeps
  <1>6. CASE ~MayNest(s)
    <2>1. session' = s /\ agents' = stack /\ lost' /\ permissions' = permissions
      BY <1>4, <1>6 DEF BeginNestedTurn
    <2> QED BY <2>1, ShareKeeps
  <1> QED BY <1>5, <1>6

LEMMA ShareParentKeeps ==
  ASSUME Led, RestTyped', LevelsInv, NEW s, NEW stack, Nests(s, stack), ShareParent(s, stack)
  PROVE  LevelsInv'
  <1>1. /\ session' = s /\ agents' = stack /\ permissions' = permissions
        /\ lost' = (lost \/ s.phase = "active")
    BY DEF ShareParent
  <1>2. lost' \/ (lost' = lost /\ s.phase # "active")
    BY <1>1, SessionIs
  <1> QED BY <1>1, <1>2, ShareKeeps

LEMMA PlacedAlike ==
  ASSUME NEW s, NEW z, NEW q, NEW p, NEW n \in Nat, NEW imp, Balanced(s, q, n, imp),
         z.turn = s.turn, z.depth = s.depth, z.generation = s.generation, z.nested = s.nested,
         \A i \in 1..n : p[i] = q[i]
  PROVE  Balanced(z, p, n, imp)
  <1>1. PICK b \in 0..n : Placed(s, q, n, imp, b)
    BY DEF Balanced
  <1>2. Implied(z, imp) = Implied(s, imp) /\ \A a : CountedIn(a, z) <=> CountedIn(a, s)
    BY DEF Implied, CountedIn
  <1>3. /\ \A i \in 1..b : i \in 1..n
        /\ \A i \in (b + 1)..n : i \in 1..n
    OBVIOUS
  <1>4. Placed(z, p, n, imp, b)
    BY <1>1, <1>2, <1>3 DEF Placed
  <1> QED BY <1>4 DEF Balanced

LEMMA NestedStartKeeps ==
  ASSUME Led, RestTyped', LevelsInv, HostFree, TopRuns \/ agents = <<>>, implicit' = implicit,
         holder' = holder, NEW s, s = MarkLifecycleEvent(session), s.phase = "active", NestedStart(s)
  PROVE  LevelsInv'
  <1> DEFINE parent == IF s.depth > 1 THEN CurrentSnapshot(s) ELSE AnySnapshot(s)
             stack == Append(agents, Uncounted)
             z == AllocateTurnId(s)
  <1>1. /\ session \in Sessions /\ permissions \in Runtimes /\ Aligned(session, permissions)
        /\ session.turns \in Nat /\ agents \in Seq(Agents) /\ Len(agents) \in Nat
        /\ lost \in BOOLEAN
    BY SessionIs DEF LevelsInv
  <1>2. ~Ended /\ ~session.awaiting /\ Standing = Len(agents)
    BY NoneEnded, RestingIs DEF HostFree, Standing
  <1>3. /\ s \in Sessions /\ s.turns = session.turns /\ s.generation = session.generation
        /\ s.observed = TRUE /\ s.awaiting = session.awaiting /\ Stacks(s, session)
    BY <1>1, <1>2, CounterOps
  <1>4. /\ z \in Sessions /\ z.turns = session.turns + 1 /\ z.generation = session.generation
        /\ z.observed = TRUE /\ z.awaiting = session.awaiting
        /\ Stacks(z, session) /\ Stacks(z, s)
    <2>1. /\ z \in Sessions /\ z.turns = s.turns + 1 /\ z.generation = s.generation
          /\ z.observed = s.observed /\ z.awaiting = s.awaiting /\ Stacks(z, s)
      BY <1>3, CounterOps
    <2> QED BY <2>1, <1>3 DEF Stacks
  <1>5. /\ Levelled(s, session) /\ Aligned(s, permissions)
        /\ Levelled(z, session) /\ Aligned(z, permissions)
    <2>1. session.turns <= s.turns /\ session.turns <= z.turns
      BY <1>1, <1>3, <1>4
    <2>2. Levelled(s, session) /\ Aligned(s, permissions)
      BY <2>1, <1>1, <1>2, <1>3, LevelledStacks, AlignedStacks
    <2>3. Levelled(z, session) /\ Aligned(z, permissions)
      BY <2>1, <1>1, <1>2, <1>4, LevelledStacks, AlignedStacks
    <2> QED BY <2>2, <2>3
  <1>6. Topped(stack, agents, Standing, Uncounted) /\ stack \in Seq(Agents) /\ Uncounted \in Agents
        /\ Uncounted.turn = 0 /\ Uncounted.gen = 0 /\ Uncounted.ended = FALSE
    BY <1>1, <1>2, NewSessionTyped, ToppedAppend, PutTyped
  <1>7. parent \in Levels /\ (parent # NoSnapshot => parent \in Snapshots)
    BY <1>3, SnapshotTyped DEF Levels
  <1> HIDE DEF stack, z
  <1>8. ASSUME run'[Host].op = "none" PROVE Nests(s, stack) /\ Nests(z, stack)
    BY <1>2, <1>3, <1>4, <1>5, <1>6, <1>8 DEF Nests
  <1>9. ASSUME HostGoes(Resting) PROVE run'[Host].op = "none"
    BY <1>9, HostIs, RestingIs
  <1>10. ASSUME run'[Host].op = "nest", session' \in {s, z}, agents' = stack,
                UNCHANGED <<permissions, lost>>
         PROVE  LevelsInv'
    <2>1. /\ session' \in Sessions /\ Aligned(session', permissions') /\ Levelled(session', session)
          /\ session'.observed /\ ~session'.awaiting
      BY <1>2, <1>3, <1>4, <1>5, <1>10
    <2>2. ~lost' => Balanced(session', agents', Standing, implicit)
      <3>1. ~lost => Balanced(session', agents, Standing, implicit)
        BY <2>1, <1>1, PlacedLevelled DEF LevelsInv
      <3> QED BY <3>1, <1>2, <1>1, <1>6, <1>10, PlacedAlike DEF Topped
    <2>3. Uncounted.turn <= session'.turns /\ Uncounted.gen <= session.generation
      BY <1>6, <2>1, SnapshotTyped, <1>1
    <2> QED BY <2>1, <2>2, <2>3, <1>6, <1>10, NestedKeeps DEF Levelled
  <1>11. CASE parent = NoSnapshot
    <2>1. BlockChild(s, stack) /\ HostGoes(Resting)
      BY <1>11 DEF NestedStart, HostRests, stack
    <2> QED BY <2>1, <1>8, <1>9, BlockChildKeeps
  <1>12. CASE parent # NoSnapshot /\ MustDrain(parent)
    <2> DEFINE a == [Starting("nest") EXCEPT !.at = "drain-lease", !.gen = s.generation,
                                             !.parent = parent.turn]
    <2>1. HostGoes(a) /\ session' = s /\ agents' = stack /\ UNCHANGED <<permissions, lost>>
      BY <1>12 DEF NestedStart, stack
    <2>2. parent.turn \in Nat /\ s.generation \in Nat
      BY <1>3, <1>7, <1>12, SnapshotTyped DEF Snapshots
    <2> HIDE DEF parent
    <2>3. Stands(a, "nest", "drain-lease", s.generation, 0, 0)
      BY <2>2, PlacedUnder DEF HostOps, Places
    <2> HIDE DEF a
    <2>4. run'[Host].op = "nest"
      BY <2>1, <2>3, HostIs DEF Stands
    <2> QED BY <2>1, <2>4, <1>10
  <1>13. CASE parent # NoSnapshot /\ ~MustDrain(parent) /\ MustMaterialize(parent)
    <2>1. /\ HostGoes(Minting(s, parent)) /\ session' = z /\ agents' = stack
          /\ UNCHANGED <<permissions, lost>>
      BY <1>13 DEF NestedStart, stack, z
    <2>2. run[Host].at \notin Touching
      BY RestingIs DEF HostFree, Touching
    <2> HIDE DEF parent
    <2>3. Stands(Minting(s, parent), "nest", "materializing", s.generation, s.turns + 1, 0)
      BY <2>1, <2>2, <1>3, <1>7, <1>13, MintingIs
    <2>4. run'[Host].op = "nest"
      BY <2>1, <2>3, HostIs DEF Stands
    <2> QED BY <2>1, <2>4, <1>10
  <1>14. CASE parent # NoSnapshot /\ ~MustDrain(parent) /\ ~MustMaterialize(parent)
    <2>1. /\ HostGoes(Resting)
          /\ IF ParentIs(s, parent.turn) THEN OpenChild(z, stack, ChildOf(parent, s.turns + 1))
             ELSE ShareParent(z, stack)
      BY <1>14 DEF NestedStart, HostRests, stack, z
    <2>2. CASE ParentIs(s, parent.turn)
      <3>1. CurrentSnapshot(z) = CurrentSnapshot(s)
        BY <1>4 DEF CurrentSnapshot, Stacks
      <3>2. parent = CurrentSnapshot(z) /\ CurrentSnapshot(z) # NoSnapshot
        BY <2>2, <3>1 DEF ParentIs, AnySnapshot
      <3>3. s.turns + 1 \in Nat
        BY <1>1, <1>3
      <3> HIDE DEF parent
      <3>4. OpenChild(z, stack, ChildOf(CurrentSnapshot(z), s.turns + 1))
        BY <2>1, <2>2, <3>2
      <3> QED BY <2>1, <3>2, <3>3, <3>4, <1>8, <1>9, OpenChildKeeps
    <2>3. CASE ~ParentIs(s, parent.turn)
      BY <2>1, <2>3, <1>8, <1>9, ShareParentKeeps
    <2> QED BY <2>2, <2>3
  <1> QED BY <1>11, <1>12, <1>13, <1>14

LEMMA AgentStartKeeps ==
  ASSUME Led, RestTyped', LevelsInv, AgentStart
  PROVE  LevelsInv'
  <1>1. /\ HostFree /\ (TopRuns \/ agents = <<>>) /\ implicit' = implicit
        /\ holder' = holder
        /\ IF MarkLifecycleEvent(session).phase = "active"
           THEN NestedStart(MarkLifecycleEvent(session))
           ELSE OuterStart(MarkLifecycleEvent(session))
    BY DEF AgentStart
  <1> QED BY <1>1, NestedStartKeeps, OuterStartKeeps

LEMMA MaterializeEndsKeeps ==
  ASSUME Led, RestTyped', LevelsInv, NEW ok \in BOOLEAN, MaterializeEnds(ok)
  PROVE  LevelsInv'
  <1>1. /\ run[Host].op = "nest" /\ HostGoes(Resting) /\ implicit' = implicit
        /\ CASE ParentCurrent(Host) /\ ok ->
                  OpenChild(session, agents, ChildOf(CurrentSnapshot(session), run[Host].turn))
             [] ParentCurrent(Host) /\ ~ok -> BlockChild(session, agents)
             [] OTHER -> ShareParent(session, agents)
    BY LedTyped DEF MaterializeEnds, HostRests, Sound, Nesting
  <1>2. /\ session \in Sessions /\ permissions \in Runtimes /\ Aligned(session, permissions)
        /\ agents \in Seq(Agents) /\ session.turns \in Nat
    BY SessionIs DEF LevelsInv
  <1>3. /\ agents # <<>> /\ Last(agents) = Uncounted /\ session.observed /\ ~session.awaiting
        /\ Standing = Len(agents) - 1
    BY <1>1, SessionIs DEF LevelsInv, Ends, Standing
  <1>4. Nests(session, agents)
    <2>1. Topped(agents, agents, Standing, Uncounted)
      BY <1>2, <1>3, ToppedSelf
    <2>2. run'[Host].op = "none" /\ Levelled(session, session)
      BY <1>1, <1>2, HostIs, RestingIs DEF Levelled
    <2> QED BY <2>1, <2>2, <1>1, <1>2, <1>3 DEF Nests
  <1>5. CASE ParentCurrent(Host) /\ ok
    <2>1. CurrentSnapshot(session) # NoSnapshot /\ run[Host].turn \in Nat
      BY <1>5, LedTyped DEF ParentCurrent, ParentIs
    <2> QED BY <2>1, <1>1, <1>4, <1>5, OpenChildKeeps
  <1>6. CASE ParentCurrent(Host) /\ ~ok
    BY <1>1, <1>4, <1>6, BlockChildKeeps
  <1>7. CASE ~ParentCurrent(Host)
    BY <1>1, <1>4, <1>7, ShareParentKeeps
  <1> QED BY <1>5, <1>6, <1>7

(* agent_end and agent_settled. Only what was counted ends its level.      *)
LEMMA FinishPlaced ==
  ASSUME NEW s \in Sessions, Shaped(s), NEW n \in Nat \ {0}, NEW imp \in Nat, NEW q, NEW p,
         Balanced(s, q, n, imp), s.phase = "active" => q[n].turn = s.turn,
         \A i \in 1..(n - 1) : p[i] = q[i]
  PROVE  Balanced(FinishNestedTurn(s), p, n - 1, imp)
  <1>1. CASE s.phase = "active"
    BY <1>1, PlacedShrunk DEF Shaped
  <1>2. CASE s.phase # "active"
    <2>1. FinishNestedTurn(s) = s
      BY <1>2 DEF FinishNestedTurn, FinishTurn
    <2>2. s.turn = NoTurn /\ s.depth = 0
      BY <1>2 DEF Shaped
    <2>3. n - 1 \in Nat /\ \A i \in 1..(n - 1) : i \in 1..n
      OBVIOUS
    <2>4. \A i \in 1..n : ~CountedIn(q[i], s)
      BY <2>2, PlacedIdle
    <2>5. \A i \in 1..(n - 1) : ~CountedIn(p[i], s)
      BY <2>3, <2>4
    <2> DEFINE m == n - 1
    <2> HIDE DEF m
    <2>6. m \in Nat /\ \A i \in 1..m : ~CountedIn(p[i], s)
      BY <2>3, <2>5 DEF m
    <2>7. Balanced(s, p, m, imp)
      BY <2>2, <2>6, PlacedIdle
    <2> QED BY <2>1, <2>7 DEF m
  <1> QED BY <1>1, <1>2

LEMMA FinishCounts ==
  ASSUME NEW s \in Sessions
  PROVE  LET z == FinishNestedTurn(s)
         IN /\ z \in Sessions /\ Counts(z, s) /\ z.awaiting = s.awaiting
            /\ z.turn = s.turn \/ z.turn = 0
            /\ s.phase # "active" => z = s
  <1>1. CASE s.phase = "active" /\ s.depth > 1
    BY <1>1, FinishNestedIs
  <1>2. CASE ~(s.phase = "active" /\ s.depth > 1)
    <2>1. FinishNestedTurn(s) = FinishTurn(s)
      BY <1>2 DEF FinishNestedTurn
    <2> QED BY <2>1, FinishTurnIs
  <1> QED BY <1>1, <1>2

(* What agent_end and agent_settled find.                                  *)
LEMMA EndingIs ==
  ASSUME Led, LevelsInv, HostFree, agents # <<>>, NEW s, s = MarkLifecycleEvent(session)
  PROVE  /\ s \in Sessions /\ permissions \in Runtimes /\ Aligned(s, permissions) /\ Shaped(s)
         /\ s.turns = session.turns /\ s.generation = session.generation /\ s.observed = TRUE
         /\ s.awaiting = session.awaiting /\ s.phase = session.phase
         /\ s.turns \in Nat /\ s.turn \in Nat /\ s.turn <= s.turns /\ implicit \in Nat
         /\ agents \in Seq(Agents) /\ Len(agents) \in Nat \ {0} /\ Last(agents) = agents[Len(agents)]
         /\ Last(agents) \in Agents /\ Last(agents).turn <= session.turns
         /\ Last(agents).gen <= session.generation
         /\ Standing = IF Last(agents).ended THEN Len(agents) - 1 ELSE Len(agents)
         /\ ~lost => Balanced(s, agents, Standing, implicit)
         /\ lost \in BOOLEAN /\ s.awaiting \in BOOLEAN
         /\ run[Host].op = "none"
  <1>1. /\ session \in Sessions /\ permissions \in Runtimes /\ Aligned(session, permissions)
        /\ session.turns \in Nat /\ session.turn \in Nat /\ session.turn <= session.turns
        /\ implicit \in Nat /\ agents \in Seq(Agents) /\ lost \in BOOLEAN
        /\ session.awaiting \in BOOLEAN
    BY SessionIs DEF LevelsInv, Bounded
  <1>2. /\ s \in Sessions /\ s.turns = session.turns /\ s.generation = session.generation
        /\ s.observed = TRUE /\ s.awaiting = session.awaiting /\ Stacks(s, session)
    BY <1>1, CounterOps
  <1>3. Aligned(s, permissions) /\ Levelled(s, session)
    BY <1>1, <1>2, AlignedStacks, LevelledStacks
  <1>4. /\ Len(agents) \in Nat \ {0} /\ Last(agents) = agents[Len(agents)]
        /\ Last(agents) \in Agents
    BY <1>1, FrontIs
  <1>5. Last(agents).turn <= session.turns /\ Last(agents).gen <= session.generation
    <2>1. Len(agents) \in 1..Len(agents)
      BY <1>4
    <2> QED BY <2>1, <1>4 DEF LevelsInv, Bounded
  <1>6. run[Host].op = "none"
    BY RestingIs DEF HostFree
  <1>7. Standing = IF Last(agents).ended THEN Len(agents) - 1 ELSE Len(agents)
    BY <1>6 DEF Standing, Ended
  <1>8. ~lost => Balanced(s, agents, Standing, implicit)
    BY <1>1, <1>2, <1>3, PlacedLevelled DEF LevelsInv
  <1> QED BY <1>1, <1>2, <1>3, <1>4, <1>5, <1>6, <1>7, <1>8 DEF Aligned, Stacks

LEMMA AgentEndKeeps ==
  ASSUME Led, RestTyped', LevelsInv, AgentEnd
  PROVE  LevelsInv'
  <1> DEFINE s == MarkLifecycleEvent(session)
             z == FinishNestedTurn(s)
             a == [Last(agents) EXCEPT !.ended = TRUE]
             n == Len(agents) - 1
  <1>1. /\ HostFree /\ agents # <<>> /\ ~Last(agents).ended /\ run' = run /\ implicit' = implicit
        /\ session' = IF s.phase = "active" THEN NoteEndAwaitingSettle(z) ELSE z
        /\ permissions' = FinishEngine(s, permissions)
        /\ lost' = (lost \/ EndsUncounted(s)) /\ agents' = [agents EXCEPT ![Len(agents)] = a]
    BY DEF AgentEnd, TopRuns, TopIs
  <1>2. /\ s \in Sessions /\ permissions \in Runtimes /\ Aligned(s, permissions) /\ Shaped(s)
        /\ s.turns = session.turns /\ s.generation = session.generation /\ s.observed = TRUE
        /\ s.awaiting = session.awaiting /\ s.phase = session.phase
        /\ s.turns \in Nat /\ s.turn \in Nat /\ s.turn <= s.turns /\ implicit \in Nat
        /\ agents \in Seq(Agents) /\ Len(agents) \in Nat \ {0} /\ Last(agents) = agents[Len(agents)]
        /\ Last(agents) \in Agents /\ Last(agents).turn <= session.turns
        /\ Last(agents).gen <= session.generation /\ Standing = Len(agents)
        /\ ~lost => Balanced(s, agents, Standing, implicit)
        /\ lost \in BOOLEAN /\ run[Host].op = "none"
    BY <1>1, EndingIs
  <1>3. /\ z \in Sessions /\ Counts(z, s) /\ z.awaiting = s.awaiting
        /\ z.turn = s.turn \/ z.turn = 0
        /\ s.phase # "active" => z = s
        /\ Aligned(z, permissions')
    BY <1>1, <1>2, FinishCounts, AlignedFinish
  <1>4. ~session.awaiting
    BY <1>1, NoneEnded DEF TopRuns
  <1>5. /\ a \in Agents /\ a.ended = TRUE /\ a.turn = Last(agents).turn /\ a.gen = Last(agents).gen
    BY <1>2 DEF Agents
  <1>6. n \in Nat /\ n <= Standing /\ Topped(agents', agents, n, a)
    <2>1. agents' = [agents EXCEPT ![Len(agents)] = a]
      BY <1>1
    <2> HIDE DEF a
    <2>2. Topped([agents EXCEPT ![Len(agents)] = a], agents, Len(agents) - 1, a)
      BY <1>1, <1>2, <1>5, ToppedPut
    <2>3. n \in Nat /\ n <= Standing
      BY <1>2
    <2> QED BY <2>1, <2>2, <2>3
  <1> HIDE DEF a
  <1>7. /\ session' \in Sessions /\ Aligned(session', permissions')
        /\ session'.turn = z.turn /\ session'.depth = z.depth /\ session'.nested = z.nested
        /\ session'.generation = s.generation /\ session'.turns = s.turns /\ session'.observed
        /\ session'.phase = "active" => session'.awaiting
    <2> HIDE DEF s, z
    <2>1. CASE s.phase = "active"
      <3>1. session' = [z EXCEPT !.awaiting = TRUE]
        BY <2>1, <1>1 DEF NoteEndAwaitingSettle
      <3>2. /\ session' \in Sessions /\ Counts(session', z) /\ Stacks(session', z)
            /\ session'.awaiting = TRUE
        BY <3>1, <1>3, AwaitingIs
      <3> QED BY <3>2, <1>2, <1>3, AlignedStacks DEF Stacks, Counts
    <2>2. CASE s.phase # "active"
      BY <2>2, <1>1, <1>2, <1>3 DEF Counts
    <2> QED BY <2>1, <2>2
  <1>8. Bounded' /\ Ends' /\ Standing' = n
    <2>1. /\ session.turns <= session'.turns /\ session'.generation = session.generation
          /\ session'.turn <= session'.turns /\ a.turn <= session'.turns
          /\ a.gen <= session.generation
      BY <1>2, <1>3, <1>5, <1>7
    <2>2. run'[Host].op = "none"
      BY <1>1, <1>2
    <2> HIDE DEF n
    <2> QED BY <2>1, <2>2, <1>1, <1>5, <1>6, <1>7, ToppedEnds
  <1>9. ASSUME ~lost' PROVE Balanced(session', agents', Standing', implicit')
    <2>1. ~lost /\ (s.phase = "active" => agents[Len(agents)].turn = s.turn)
      BY <1>1, <1>2, <1>9 DEF EndsUncounted
    <2>2. \A i \in 1..n : agents'[i] = agents[i]
      BY <1>6 DEF Topped
    <2>3. Balanced(z, agents', n, implicit)
      BY <2>1, <2>2, <1>2, FinishPlaced
    <2> HIDE DEF z, n
    <2>4. Balanced(session', agents', n, implicit)
      BY <2>3, <1>6, <1>7, <1>3, PlacedAlike DEF Counts
    <2> QED BY <2>4, <1>1, <1>8
  <1> QED BY <1>7, <1>8, <1>9 DEF LevelsInv

LEMMA RemovedEnds ==
  ASSUME Led, RestTyped', LevelsInv, HostFree, run' = run, agents # <<>>, agents' = Front(agents),
         implicit' = implicit, session'.turns = session.turns,
         session'.generation = session.generation, session'.turn <= session'.turns,
         session'.observed, ~session'.awaiting
  PROVE  /\ Bounded' /\ Ends' /\ Standing' = Len(agents) - 1 /\ Len(agents) - 1 \in Nat
         /\ \A i \in 1..(Len(agents) - 1) : agents'[i] = agents[i]
  <1> DEFINE n == Len(agents) - 1
  <1>1. /\ agents' \in Seq(Agents) /\ Len(agents') = n /\ Len(agents) \in Nat \ {0}
        /\ \A i \in 1..n : agents'[i] = agents[i]
    BY SessionIs, FrontIs
  <1>2. \A i \in 1..n : i \in 1..Len(agents) /\ i # Len(agents)
    BY <1>1
  <1>3. run'[Host].op = "none" /\ n \in Nat
    BY <1>1, RestingIs DEF HostFree
  <1> HIDE DEF n
  <1>4. \A i \in 1..n : ~agents'[i].ended
    BY <1>1, <1>2 DEF LevelsInv, Ends
  <1>5. Bounded'
    BY <1>1, <1>2 DEF LevelsInv, Bounded
  <1>6. Ended' = FALSE
    <2>1. ASSUME agents' # <<>> PROVE ~Last(agents').ended
      <3>1. Last(agents') = agents'[Len(agents')] /\ Len(agents') \in Nat \ {0}
        BY <2>1, <1>1, FrontIs
      <3>2. Len(agents') \in 1..n
        BY <3>1, <1>1
      <3> QED BY <3>1, <3>2, <1>4
    <2> QED BY <2>1 DEF Ended
  <1>7. Ends'
    BY <1>1, <1>3, <1>4, <1>6 DEF Ends
  <1>8. Standing' = n
    BY <1>1, <1>3, <1>6 DEF Standing
  <1> QED BY <1>1, <1>3, <1>5, <1>7, <1>8 DEF n

LEMMA AgentSettledKeeps ==
  ASSUME Led, RestTyped', LevelsInv, AgentSettled
  PROVE  LevelsInv'
  <1> DEFINE s == MarkLifecycleEvent(session)
             z == FinishNestedTurn(s)
             y == TakeEndAwaitingSettle(s)
             n == Len(agents) - 1
  <1>1. /\ HostFree /\ agents # <<>> /\ run' = run /\ implicit' = implicit
        /\ agents' = Front(agents)
        /\ \/ /\ s.awaiting /\ session' = SettleBetween(y)
              /\ permissions' = permissions /\ lost' = lost
           \/ /\ ~s.awaiting
              /\ session' = z
              /\ permissions' = FinishEngine(s, permissions)
              /\ lost' = (lost \/ EndsUncounted(s))
    BY DEF AgentSettled
  <1>2. /\ s \in Sessions /\ permissions \in Runtimes /\ Aligned(s, permissions) /\ Shaped(s)
        /\ s.turns = session.turns /\ s.generation = session.generation /\ s.observed = TRUE
        /\ s.awaiting = session.awaiting /\ s.phase = session.phase
        /\ s.turns \in Nat /\ s.turn \in Nat /\ s.turn <= s.turns /\ implicit \in Nat
        /\ agents \in Seq(Agents) /\ Len(agents) \in Nat \ {0} /\ Last(agents) = agents[Len(agents)]
        /\ Standing = IF Last(agents).ended THEN Len(agents) - 1 ELSE Len(agents)
        /\ ~lost => Balanced(s, agents, Standing, implicit)
        /\ lost \in BOOLEAN /\ s.awaiting \in BOOLEAN
    BY <1>1, EndingIs
  <1>3. /\ z \in Sessions /\ Counts(z, s) /\ z.awaiting = s.awaiting
        /\ z.turn = s.turn \/ z.turn = 0
        /\ s.phase # "active" => z = s
        /\ FinishEngine(s, permissions) \in Runtimes
        /\ Aligned(z, FinishEngine(s, permissions))
    BY <1>2, FinishCounts, AlignedFinish
  <1>4. /\ y \in Sessions /\ Counts(y, s) /\ Stacks(y, s) /\ y.awaiting = FALSE
        /\ Aligned(y, permissions)
    BY <1>2, AwaitingIs, AlignedStacks DEF TakeEndAwaitingSettle
  <1> HIDE DEF s, z, y
  <1>5. PICK x \in {y, z} :
          /\ session' \in {x, SettleBetween(x)} /\ x.awaiting = FALSE
          /\ s.awaiting => x = y /\ permissions' = permissions /\ lost' = lost
          /\ ~s.awaiting => x = z /\ permissions' = FinishEngine(s, permissions)
                            /\ lost' = (lost \/ EndsUncounted(s))
    <2>1. CASE s.awaiting
      BY <2>1, <1>1, <1>4
    <2>2. CASE ~s.awaiting
      BY <2>2, <1>1, <1>2, <1>3
    <2> QED BY <2>1, <2>2
  <1>6. /\ x \in Sessions /\ Counts(x, s) /\ x.turn \in {s.turn, 0}
        /\ permissions' \in Runtimes /\ Aligned(x, permissions')
    BY <1>2, <1>3, <1>4, <1>5 DEF Stacks
  <1>7. /\ session' \in Sessions /\ Aligned(session', permissions') /\ Counts(session', s)
        /\ session'.turn = x.turn /\ session'.depth = x.depth /\ session'.nested = x.nested
        /\ session'.awaiting = FALSE
    BY <1>5, <1>6, AlignedSettled, SettleBetweenIs DEF Counts
  <1>8. /\ Bounded' /\ Ends' /\ Standing' = n /\ n \in Nat
        /\ \A i \in 1..n : agents'[i] = agents[i]
    <2>1. /\ session'.turns = session.turns /\ session'.generation = session.generation
          /\ session'.turn <= session'.turns /\ session'.observed /\ ~session'.awaiting
      BY <1>2, <1>6, <1>7 DEF Counts
    <2> QED BY <2>1, <1>1, RemovedEnds
  <1>9. ASSUME ~lost' PROVE Balanced(session', agents', Standing', implicit')
    <2>1. ~lost /\ Balanced(s, agents, Standing, implicit)
      BY <1>2, <1>5, <1>9
    <2>2. CASE s.awaiting
      <3>1. Last(agents).ended
        BY <2>2, <1>2 DEF LevelsInv, Ends, Ended
      <3>2. Balanced(s, agents, n, implicit)
        BY <3>1, <2>1, <1>2
      <3>3. /\ session'.turn = s.turn /\ session'.depth = s.depth /\ session'.nested = s.nested
            /\ session'.generation = s.generation
        BY <2>2, <1>4, <1>5, <1>7 DEF Stacks, Counts
      <3> HIDE DEF n
      <3>4. Balanced(session', agents', n, implicit)
        BY <3>2, <3>3, <1>8, PlacedAlike
      <3> QED BY <3>4, <1>1, <1>8
    <2>3. CASE ~s.awaiting
      <3>1. Balanced(z, agents', n, implicit)
        <4>1. CASE Last(agents).ended
          <5>1. s.phase # "active"
            BY <4>1, <2>3, <1>1, <1>2 DEF LevelsInv, Ends, Ended
          <5>2. Balanced(s, agents, n, implicit) /\ z = s
            BY <5>1, <4>1, <2>1, <1>2, <1>3
          <5> HIDE DEF n
          <5> QED BY <5>2, <1>8, PlacedAlike
        <4>2. CASE ~Last(agents).ended
          <5>1. s.phase = "active" => agents[Len(agents)].turn = s.turn
            BY <2>3, <1>2, <1>5, <1>9 DEF EndsUncounted
          <5>2. Balanced(s, agents, Len(agents), implicit)
            BY <4>2, <2>1, <1>2
          <5> QED BY <5>1, <5>2, <1>2, <1>8, FinishPlaced DEF z
        <4> QED BY <4>1, <4>2
      <3>2. session'.turn = z.turn /\ session'.depth = z.depth /\ session'.nested = z.nested
            /\ session'.generation = z.generation
        BY <2>3, <1>3, <1>5, <1>7 DEF Counts
      <3> HIDE DEF n
      <3>3. Balanced(session', agents', n, implicit)
        BY <3>1, <3>2, <1>8, PlacedAlike
      <3> QED BY <3>3, <1>1, <1>8
    <2> QED BY <2>2, <2>3, <1>2
  <1> QED BY <1>7, <1>8, <1>9 DEF LevelsInv

LEMMA AgentLeaksKeeps ==
  ASSUME Led, RestTyped', LevelsInv, AgentLeaks
  PROVE  LevelsInv'
  <1>1. /\ HostFree /\ TopRuns /\ agents # <<>> /\ agents' = Front(agents) /\ lost' = TRUE
        /\ run' = run /\ session' = session /\ permissions' = permissions /\ implicit' = implicit
    BY DEF AgentLeaks, activationVars, TopRuns
  <1>2. ~session.awaiting /\ session.observed /\ session.turn <= session.turns
    BY <1>1, NoneEnded, SessionIs DEF LevelsInv, Ends, Bounded
  <1>3. Bounded' /\ Ends'
    BY <1>1, <1>2, RemovedEnds
  <1> QED BY <1>1, <1>3 DEF LevelsInv

(* Every step keeps the levels.                                            *)
LEMMA LevelsStep ==
  ASSUME Led, Led', LevelsInv, [Next]_vars
  PROVE  LevelsInv'
  <1>1. RestTyped'
    BY DEF Led, Typed, TypeOK, RestTyped, Runtimes, Agents
  <1>2. CASE UNCHANGED vars
    <2>1. /\ UNCHANGED <<agents, lost, implicit, session, permissions>> /\ run' = run
      BY <1>2 DEF vars, activationVars, hostVars
    <2> QED BY <2>1, <1>1, SameIsBeside, SteadyBeside, SteadyKeeps DEF HostSteady
  <1>3. CASE HostEvent
    BY <1>1, <1>3, AgentStartKeeps, TurnStartSteady, PrepareToolSteady, ToolEndsSteady,
       AgentEndKeeps, AgentSettledKeeps, AgentLeaksKeeps, SteadyKeeps DEF HostEvent
  <1>4. ASSUME NEW t \in Tasks, UserEvent(t) PROVE LevelsInv'
    BY <1>1, <1>4, CycleSteady, ReloadSteady, TreeResets, SessionStartResets, ShutdownResets,
       SteadyKeeps, ResetsKeep DEF UserEvent
  <1>5. ASSUME NEW p \in Procs, Continues(p) PROVE LevelsInv'
    <2>1. CASE ActivationContinues(p) /\ UNCHANGED hostVars
      BY <2>1, <1>1, ActivationSteady, SteadyKeeps
    <2>2. CASE BarrierEnds \/ StartAnswered \/ DrainBegins \/ RefreshAnswered \/ BeginPrepare
               \/ PrepareAnswered
      BY <2>2, <1>1, BarrierEndsSteady, StartAnsweredSteady, DrainBeginsSteady,
         RefreshAnsweredSteady, BeginPrepareSteady, PrepareAnsweredKeeps, SteadyKeeps
    <2>3. CASE p \in Tasks /\ (\/ ShutdownBegins(p) \/ Superseded(p) \/ CycleRuns(p)
                               \/ CycleAnswered(p) \/ DesireAnswered(p) \/ ReloadRuns(p)
                               \/ RestoredAnswered(p) \/ \E mode \in Modes : TreeRuns(p, mode))
      BY <2>3, <1>1, TaskContinuesSteady, SteadyKeeps
    <2> QED BY <2>1, <2>2, <2>3, <1>5 DEF Continues
  <1>6. ASSUME NEW p \in Procs, IoSettles(p) PROVE LevelsInv'
    <2>1. CASE ActivationIo(p) /\ UNCHANGED hostVars
      BY <2>1, <1>1, ActivationSteady, SteadyKeeps
    <2>2. CASE ParserActivates \/ \E ok \in BOOLEAN : DrainEnds(ok) \/ MaterializeEnds(ok)
      BY <2>2, <1>1, ParserActivatesSteady, DrainEndsKeeps, MaterializeEndsKeeps, SteadyKeeps
    <2>3. CASE p \in Tasks /\ (\/ ShutdownEnds(p)
                               \/ \E c \in Configs \cup {NoConfig}, mode \in Modes :
                                    ConfigRead(p, c, mode))
      BY <2>3, <1>1, TaskIoSteady, SteadyKeeps
    <2> QED BY <2>1, <2>2, <2>3, <1>6 DEF IoSettles
  <1> QED BY <1>2, <1>3, <1>4, <1>5, <1>6 DEF Next, Step

LEMMA LevelsInit ==
  ASSUME Init
  PROVE  LevelsInv
  <1>1. /\ session = NewSession /\ permissions = NewRuntime /\ agents = <<>> /\ lost = FALSE
        /\ implicit = NoTurn /\ run = [p \in Procs |-> Resting]
    BY DEF Init
  <1>2. /\ session \in Sessions /\ Emptied(session) /\ session.turns = 0 /\ session.generation = 0
        /\ session.observed = FALSE
    BY <1>1, NewSessionTyped DEF NewSession, Emptied, NoTurn
  <1>3. Aligned(session, permissions)
    BY <1>1, <1>2, AlignedEmptied
  <1>4. run[Host].op = "none"
    BY <1>1, RestingIs, WiringAssumption DEF Host
  <1>5. Ended = FALSE /\ Standing = 0 /\ Len(agents) = 0
    BY <1>1, <1>4 DEF Ended, Standing
  <1>6. Bounded /\ Ends
    BY <1>1, <1>2, <1>4, <1>5 DEF Bounded, Ends, Emptied, NoTurn
  <1>7. Balanced(session, agents, Standing, implicit)
    <2>1. \A i \in 1..0 : ~CountedIn(agents[i], session)
      OBVIOUS
    <2>2. session.turn = NoTurn /\ session.depth = 0 /\ 0 \in Nat
      BY <1>2 DEF Emptied, NoTurn
    <2> QED BY <2>1, <2>2, <1>2, <1>5, PlacedIdle
  <1> QED BY <1>3, <1>6, <1>7 DEF LevelsInv

(* Of any state: the levels stand on one another down to the sentinels,    *)
(* the Engine's live and parked turns follow them, agents are known by the *)
(* level or depth their start took, only the innermost may have ended, and *)
(* unless a subagent died without its end or settle, the depth counts the  *)
(* agents that stand (permission-session.ts:117-232, pi-safety.ts:289-396).*)
THEOREM LevelsAlways == Spec => []LevelsInv
  <1>1. Init => LevelsInv
    BY LevelsInit
  <1>2. Led /\ Led' /\ LevelsInv /\ [Next]_vars => LevelsInv'
    BY LevelsStep
  <1>3. Spec => []Led
    BY LedInit, LedStep, PTL DEF Spec
  <1> QED BY <1>1, <1>2, <1>3, PTL DEF Spec

-------------------------------------------------------------------------------
(* What the levels imply.                                                  *)
LEMMA AlignedStacksUp ==
  ASSUME Led, LevelsInv
  PROVE  StacksAligned
  <1>1. session \in Sessions /\ permissions \in Runtimes /\ Aligned(session, permissions)
    BY SessionIs DEF LevelsInv
  <1>2. PICK k \in 0..Len(session.nested) :
          Governed(session, k) /\ Enforced(session, permissions, k)
    BY <1>1 DEF Aligned
  <1>3. Len(session.nested) \in Nat /\ session.nested \in Seq(Levels)
    BY <1>1, LengthsAre
  <1>4. OwningLevels = 1..k
    <2>1. DOMAIN session.nested = 1..Len(session.nested)
      BY <1>3
    <2>2. OwningLevels = {i \in 1..Len(session.nested) : i <= k}
      BY <2>1, <1>2 DEF OwningLevels, Governed
    <2> QED BY <2>2, <1>2, <1>3
  <1>5. Cardinality(OwningLevels) = k
    <2>1. 1 \in Int /\ k \in Int /\ k \in Nat
      BY <1>2, <1>3
    <2>2. Cardinality(1..k) = IF 1 > k THEN 0 ELSE k - 1 + 1
      BY <2>1, FS_Interval
    <2> QED BY <2>1, <2>2, <1>4
  <1>6. Len(permissions.levels) <= Cardinality(OwningLevels)
    BY <1>2, <1>5 DEF Enforced
  <1>7. Shaped(session) /\ (session.phase # "active" => permissions = NewRuntime)
    BY <1>1, <1>2 DEF Aligned, Shaped, Enforced
  <1> QED BY <1>6, <1>7 DEF StacksAligned, Shaped

LEMMA EngineWithin ==
  ASSUME Led, LevelsInv
  PROVE  EngineFollowsSession
  <1>1. session \in Sessions /\ permissions \in Runtimes /\ Aligned(session, permissions)
    BY SessionIs DEF LevelsInv
  <1>2. PICK k \in 0..Len(session.nested) :
          Governed(session, k) /\ Enforced(session, permissions, k)
    BY <1>1 DEF Aligned
  <1>3. CurrentSnapshot(session) # NoSnapshot => CurrentSnapshot(session) = LevelOf(session, k)
    BY <1>1, <1>2, TopIsGoverned DEF Aligned
  <1> QED BY <1>2, <1>3 DEF EngineFollowsSession, Enforced, Under, Alike

LEMMA LevelsAreCounted ==
  ASSUME Led, LevelsInv
  PROVE  AccountingExact
  <1> SUFFICES ASSUME ~lost
               PROVE  session.depth = Cardinality({i \in DOMAIN agents : Counted(agents[i])})
                        + (IF session.turn # NoTurn /\ implicit = session.turn THEN 1 ELSE 0)
    BY DEF AccountingExact
  <1>1. /\ agents \in Seq(Agents) /\ Len(agents) \in Nat /\ session.depth \in Nat
        /\ DOMAIN agents = 1..Len(agents)
    BY SessionIs
  <1>2. /\ Standing \in Nat /\ Standing <= Len(agents)
        /\ agents # <<>> => Last(agents) = agents[Len(agents)]
        /\ \A i \in 1..Standing : i \in 1..Len(agents)
    BY StandingIs DEF LevelsInv
  <1>3. PICK b \in 0..Standing : Placed(session, agents, Standing, implicit, b)
    BY DEF LevelsInv, Balanced
  <1>4. \A a : Counted(a) <=> CountedIn(a, session)
    BY DEF Counted, CountedIn
  <1>5. ASSUME NEW i \in 1..Len(agents), i \notin 1..Standing PROVE ~Counted(agents[i])
    <2>1. agents # <<>>
      <3>1. agents = <<>> => Len(agents) = 0
        OBVIOUS
      <3> QED BY <3>1, <1>1, <1>5
    <2>2. Standing # Len(agents)
      BY <1>1, <1>5
    <2>3. (Ended \/ run[Host].op = "nest") /\ Standing = Len(agents) - 1
      BY <2>2 DEF Standing
    <2>4. i = Len(agents)
      <3> DEFINE l == Len(agents)
                 m == Standing
      <3>1. l \in Nat /\ m \in Nat /\ m = l - 1 /\ i \in 1..l /\ i \notin 1..m
        BY <2>3, <1>1, <1>2, <1>5
      <3> HIDE DEF l, m
      <3>2. i = l
        BY <3>1
      <3> QED BY <3>2 DEF l
    <2>5. agents[i] = Last(agents)
      BY <2>1, <2>4, <1>2
    <2>6. CASE Ended
      BY <2>5, <2>6 DEF Ended, Counted
    <2>7. CASE run[Host].op = "nest"
      <3>1. agents[i] = Uncounted
        BY <2>5, <2>7 DEF LevelsInv, Ends
      <3> QED BY <3>1, NewSessionTyped DEF Counted, NoTurn
    <2> QED BY <2>3, <2>6, <2>7
  <1> DEFINE C == {i \in DOMAIN agents : Counted(agents[i])}
             m == Standing
  <1>6. m \in Nat /\ b \in Nat /\ b <= m
    BY <1>2, <1>3
  <1>7. C = (b + 1)..m
    <2>1. ASSUME NEW i \in 1..Len(agents) PROVE Counted(agents[i]) <=> i \in (b + 1)..m
      <3>1. CASE i \in 1..b
        <4>1. ~(i \in (b + 1)..m)
          BY <3>1, <1>6
        <4> QED BY <4>1, <3>1, <1>3, <1>4 DEF Placed
      <3>2. CASE i \in (b + 1)..m
        BY <3>2, <1>3, <1>4 DEF Placed
      <3>3. CASE i \notin 1..b /\ i \notin (b + 1)..m
        <4>1. i \notin 1..Standing
          BY <3>3, <1>6, <2>1
        <4> QED BY <4>1, <3>3, <1>5
      <3> QED BY <3>1, <3>2, <3>3
    <2>2. \A i \in (b + 1)..m : i \in 1..Len(agents)
      BY <1>1, <1>2, <1>6
    <2> QED BY <2>1, <2>2, <1>1
  <1> HIDE DEF C, m
  <1>8. Cardinality(C) = m - b
    <2>1. b + 1 \in Int /\ m \in Int
      BY <1>6
    <2>2. Cardinality((b + 1)..m) = IF b + 1 > m THEN 0 ELSE m - (b + 1) + 1
      BY <2>1, FS_Interval
    <2> QED BY <2>2, <1>6, <1>7
  <1>9. session.depth = (m - b) + Implied(session, implicit)
    BY <1>3 DEF Placed, m
  <1> QED BY <1>8, <1>9 DEF Implied, C

(* Session levels, ceilings and Engine turns stay in step, and the depth   *)
(* counts the agents still open, whatever the host and the user interleave *)
(* (permission-session.ts:40-63, register.ts:719-740, 2213-2297).          *)
THEOREM LevelsAligned == Spec => []LevelsInStep
  <1>1. Led /\ LevelsInv => LevelsInStep
    BY AlignedStacksUp, EngineWithin, LevelsAreCounted DEF LevelsInStep
  <1>2. Spec => []Led
    BY LedInit, LedStep, PTL DEF Spec
  <1> QED BY <1>1, <1>2, LevelsAlways, PTL

-------------------------------------------------------------------------------
(* Only an answered activation prepares a tool.                            *)
LEMMA CalledAt ==
  ASSUME NEW op, NEW t, NEW g, NEW f, NEW m, NEW c
  PROVE  /\ Activating([Starting(op) EXCEPT !.turn = t], g, f, m, c).at # "prepared"
         /\ Activating([Starting(op) EXCEPT !.next = t], g, f, m, c).at # "prepared"
         /\ Activating(Starting(op), g, f, m, c).at # "prepared"
  BY DEF Activating, Starting, Resting

LEMMA StartTurnUnprepared ==
  ASSUME Led, NEW s, NEW t, StartTurn(s, t)
  PROVE  run'[Host].at # "prepared"
  <1>1. CASE HostGoes(Resting)
    BY <1>1, HostIs, RestingIs
  <1> DEFINE a == Activating([Starting("start") EXCEPT !.turn = t],
                             s.generation, FALSE, reload.mode, NoConfig)
  <1>2. a.at # "prepared"
    BY DEF Activating, Starting, Resting
  <1>3. HostGoes(Resting) \/ HostGoes(a)
    BY DEF StartTurn, HostRests
  <1> HIDE DEF a
  <1> QED BY <1>1, <1>2, <1>3, HostIs

LEMMA AppliesUnprepared ==
  ASSUME Led, NEW s, NEW then \in {Resting, Preparing}, ApplyPending(s, then)
  PROVE  run'[Host].at # "prepared"
  <1>1. PICK a : HostGoes(a) /\ a.at # "prepared"
    <2>1. then.at # "prepared"
      BY RestingIs, PreparingIs
    <2> QED BY <2>1, CalledAt DEF ApplyPending
  <1> QED BY <1>1, HostIs

LEMMA AppliesItselfUnprepared ==
  ASSUME Led, AppliesItself
  PROVE  run'[Host].at # "prepared"
  <1>1. CASE ApplyPending(session, Preparing)
    BY <1>1, AppliesUnprepared
  <1>2. CASE HostGoes(Preparing)
    BY <1>2, HostIs, PreparingIs
  <1> QED BY <1>1, <1>2 DEF AppliesItself

LEMMA AgentStartUnprepared ==
  ASSUME Led, AgentStart
  PROVE  run'[Host].at # "prepared"
  <1> DEFINE s == MarkLifecycleEvent(session)
  <1>1. CASE OuterStart(s)
    <2> DEFINE begun == BeginTurn(AllocateTurnId(s), s.turns + 1)
               a == [Starting("start") EXCEPT !.at = "barrier", !.turn = s.turns + 1,
                                              !.barrier = s.inFlight]
    <2>1. StartTurn(begun, s.turns + 1) \/ HostGoes(a)
      BY <1>1 DEF OuterStart
    <2>2. a.at # "prepared"
      BY DEF Starting, Resting
    <2> HIDE DEF begun, a
    <2> QED BY <2>1, <2>2, StartTurnUnprepared, HostIs
  <1>2. CASE NestedStart(s)
    <2> DEFINE parent == IF s.depth > 1 THEN CurrentSnapshot(s) ELSE AnySnapshot(s)
               a == [Starting("nest") EXCEPT !.at = "drain-lease", !.gen = s.generation,
                                             !.parent = parent.turn]
    <2>1. HostGoes(Resting) \/ HostGoes(a) \/ HostGoes(Minting(s, parent))
      BY <1>2 DEF NestedStart, HostRests
    <2>2. a.at # "prepared" /\ Minting(s, parent).at # "prepared"
      BY DEF Starting, Resting, Minting
    <2> HIDE DEF parent, a
    <2> QED BY <2>1, <2>2, RestingIs, HostIs
  <1> QED BY <1>1, <1>2 DEF AgentStart

LEMMA HostEventUnprepared ==
  ASSUME Led, HostEvent, run[Host].at # "prepared"
  PROVE  run'[Host].at # "prepared"
  <1>1. CASE TurnStart
    BY <1>1, AppliesUnprepared DEF TurnStart
  <1>2. CASE PrepareTool
    <2>1. CASE AppliesItself
      BY <2>1, AppliesItselfUnprepared
    <2>2. CASE HostGoes([Starting("prepare") EXCEPT !.at = "parser"])
      <3>1. [Starting("prepare") EXCEPT !.at = "parser"].at # "prepared"
        BY DEF Starting, Resting
      <3> QED BY <3>1, <2>2, HostIs
    <2> QED BY <2>1, <2>2, <1>2 DEF PrepareTool
  <1>3. CASE ToolEnds
    BY <1>3, HostIs, RestingIs DEF ToolEnds, HostRests
  <1>4. CASE AgentEnd \/ AgentSettled \/ AgentLeaks
    BY <1>4 DEF AgentEnd, AgentSettled, AgentLeaks, activationVars
  <1> QED BY <1>1, <1>2, <1>3, <1>4, AgentStartUnprepared DEF HostEvent

LEMMA TaskUnprepared ==
  ASSUME Led, NEW t \in Tasks, run[Host].at # "prepared",
         \/ UserEvent(t)
         \/ ShutdownBegins(t) \/ Superseded(t) \/ CycleRuns(t)
         \/ CycleAnswered(t) \/ DesireAnswered(t) \/ ReloadRuns(t)
         \/ RestoredAnswered(t) \/ (\E mode \in Modes : TreeRuns(t, mode))
         \/ ShutdownEnds(t)
         \/ \E c \in Configs \cup {NoConfig}, mode \in Modes : ConfigRead(t, c, mode)
  PROVE  run'[Host].at # "prepared"
  <1>1. (\E a : TaskGoes(t, a)) \/ (\E place : Move(t, place)) \/ Done(t) \/ UNCHANGED run
    <2>1. CASE UserEvent(t)
      BY <2>1 DEF UserEvent, Cycle, Reload, BeforeTree, Tree, SessionStart, Shutdown, Enqueue
    <2>2. CASE ShutdownBegins(t) \/ Superseded(t) \/ CycleRuns(t) \/ CycleAnswered(t)
      BY <2>2 DEF ShutdownBegins, Superseded, CycleRuns, CycleAnswered
    <2>3. CASE DesireAnswered(t) \/ ReloadRuns(t) \/ RestoredAnswered(t)
               \/ \E mode \in Modes : TreeRuns(t, mode)
      BY <2>3 DEF DesireAnswered, ReloadRuns, RestoredAnswered, TreeRuns
    <2>4. CASE ShutdownEnds(t)
               \/ \E c \in Configs \cup {NoConfig}, mode \in Modes : ConfigRead(t, c, mode)
      BY <2>4 DEF ShutdownEnds, ConfigRead
    <2> QED BY <2>1, <2>2, <2>3, <2>4
  <1> QED BY <1>1, HostElsewhere

LEMMA OnlyAnswersPrepare ==
  ASSUME Led, [Next]_vars, ToolPrepared
  PROVE  PrepareAnswered
  <1>0. Next
    BY DEF ToolPrepared, vars, activationVars
  <1>1. ASSUME NEW p \in Procs, ActivationContinues(p) \/ ActivationIo(p) PROVE FALSE
    <2>1. PICK a \in Activities : Advances(p, a)
      BY <1>1, ActivationAdvances DEF Led
    <2>2. run' = [run EXCEPT ![p] = a] /\ a.at # "prepared"
      BY <2>1 DEF Advances, Activations
    <2> QED BY <2>2, LedTyped DEF TypeOK, ToolPrepared
  <1>2. CASE BarrierEnds
    <2>1. (\E s, t : StartTurn(s, t)) \/ HostGoes(Resting)
      BY <1>2 DEF BarrierEnds, HostRests
    <2> QED BY <2>1, StartTurnUnprepared, HostIs, RestingIs DEF ToolPrepared
  <1>3. CASE StartAnswered
    BY <1>3, HostIs, RestingIs DEF StartAnswered, HostRests, ToolPrepared
  <1>4. CASE DrainBegins
    <2>1. Move(Host, "draining")
      BY <1>4 DEF DrainBegins
    <2>2. PICK a \in Activities : run' = [run EXCEPT ![Host] = a] /\ a.at = "draining"
      BY <2>1, LedTyped, MoveIs DEF Places
    <2> QED BY <2>2, HostIs DEF HostGoes, ToolPrepared
  <1>5. CASE RefreshAnswered
    BY <1>5, HostIs, RestingIs, PreparingIs DEF RefreshAnswered, ToolPrepared
  <1>6. CASE BeginPrepare
    <2> DEFINE snap == AnySnapshot(session)
               m == IF snap = NoSnapshot THEN reload.mode ELSE snap.mode
               a == Activating(Starting("prepare"), session.generation, FALSE, m, NoConfig)
    <2>1. HostGoes(a)
      BY <1>6 DEF BeginPrepare
    <2>2. a.at # "prepared"
      BY CalledAt
    <2> HIDE DEF a
    <2> QED BY <2>1, <2>2, HostIs DEF ToolPrepared
  <1>7. ASSUME ParserActivates PROVE FALSE
    BY <1>7, AppliesItselfUnprepared DEF ParserActivates, ToolPrepared
  <1>8. ASSUME NEW ok \in BOOLEAN, DrainEnds(ok) \/ MaterializeEnds(ok) PROVE FALSE
    <2>1. PICK a : HostGoes(a) /\ a.at # "prepared"
      <3>1. Minting(session, CurrentSnapshot(session)).at # "prepared"
        BY DEF Starting, Resting, Minting
      <3> QED BY <3>1, <1>8, RestingIs DEF DrainEnds, MaterializeEnds, HostRests
    <2> QED BY <2>1, HostIs DEF ToolPrepared
  <1>9. ASSUME NEW t \in Tasks, UserEvent(t) PROVE FALSE
    BY <1>9, TaskUnprepared DEF ToolPrepared
  <1>10. CASE HostEvent
    BY <1>10, HostEventUnprepared DEF ToolPrepared
  <1>11. ASSUME NEW p \in Procs, Continues(p) PROVE PrepareAnswered
    BY <1>1, <1>2, <1>3, <1>4, <1>5, <1>6, <1>11, TaskUnprepared DEF Continues, ToolPrepared
  <1>12. ASSUME NEW p \in Procs, IoSettles(p) PROVE FALSE
    BY <1>1, <1>7, <1>8, <1>12, TaskUnprepared DEF IoSettles, ToolPrepared
  <1> QED BY <1>0, <1>9, <1>10, <1>11, <1>12 DEF Next, Step

LEMMA PreparedUnblocked ==
  ASSUME Led, LevelsInv, PrepareAnswered, ToolPrepared, ~lost, NEW i \in DOMAIN agents,
         agents[i].blocked
  PROVE  agents[i].turn # session'.turn
  <1> DEFINE s == Ensured(session)
             snap == CurrentSnapshot(s)
             ready == RequiresSandbox(snap.mode, snap.config) /\ reload.sandbox = "ready"
  <1>1. /\ session \in Sessions /\ Aligned(session, permissions) /\ agents \in Seq(Agents)
        /\ session.turns \in Nat /\ i \in 1..Len(agents) /\ agents[i].turn \in Nat
        /\ agents[i].turn <= session.turns /\ Len(agents) \in Nat
    BY SessionIs DEF LevelsInv, Bounded
  <1>2. /\ run[Host].op = "prepare" /\ snap # NoSnapshot
        /\ session' \in {s, RefreshSnapshots(s, snap.mode, ready, NoBase)}
    <2>1. run[Host].op = "prepare" /\ (HostGoes(Resting) \/ snap # NoSnapshot)
          /\ (HostGoes(Resting) \/ session' \in {s, RefreshSnapshots(s, snap.mode, ready, NoBase)})
      BY DEF PrepareAnswered, HostRests
    <2>2. ~HostGoes(Resting)
      BY HostIs, RestingIs DEF ToolPrepared
    <2> QED BY <2>1, <2>2
  <1>3. session'.turn = s.turn
    <2>1. s \in Sessions
      BY <1>1, EnsuredIs
    <2> HIDE DEF s, snap, ready
    <2>2. \A m, r, base : RefreshSnapshots(s, m, r, base).turn = s.turn
      BY <2>1 DEF RefreshSnapshots, Sessions
    <2> QED BY <1>2, <2>2
  <1>4. CASE MayBeginImplicitly(session)
    <2>1. s.turn = session.turns + 1
      BY <1>4 DEF Ensured, SetSnapshot, BeginTurn, AllocateTurnId, Sessions
    <2> QED BY <2>1, <1>1, <1>3
  <1>5. CASE ~MayBeginImplicitly(session)
    <2>1. s = session /\ CurrentSnapshot(session) # NoSnapshot
      BY <1>2, <1>5 DEF Ensured
    <2>2. PICK k \in 0..Len(session.nested) :
            Governed(session, k) /\ Enforced(session, permissions, k)
      BY <1>1 DEF Aligned
    <2>3. k = Len(session.nested) /\ session.turn # NoTurn
      BY <2>1, <2>2, <1>1, TopIsGoverned DEF Aligned
    <2>4. \A j \in 1..Len(session.nested) : session.nested[j] # NoSnapshot
      BY <2>2, <2>3 DEF Governed
    <2>5. Standing = Len(agents)
      BY <1>2 DEF LevelsInv, Ends, Standing
    <2>6. PICK b \in 0..Len(agents) : Placed(session, agents, Len(agents), implicit, b)
      BY <2>5 DEF LevelsInv, Balanced
    <2>7. i \in 1..b \/ i \in (b + 1)..Len(agents)
      BY <1>1, <2>6
    <2>8. ~(i \in (b + 1)..Len(agents))
      BY <2>4, <2>6 DEF Placed
    <2>9. agents[i].turn # session.turn
      BY <2>3, <2>6, <2>7, <2>8 DEF Placed
    <2> QED BY <2>1, <2>9, <1>3
  <1> QED BY <1>4, <1>5

(* A child whose scope could not be resolved finds no governing snapshot,  *)
(* nor does anything it starts, until its turn is over                     *)
(* (register.ts:2216-2228, permission-session.ts:117-145).                 *)
THEOREM ClosedScopes == Spec => ClosedScopeStaysClosed
  <1>1. ASSUME Led, LevelsInv, [Next]_vars, ToolPrepared, ~lost
        PROVE  \A i \in DOMAIN agents : agents[i].blocked => agents[i].turn # session'.turn
    BY <1>1, OnlyAnswersPrepare, PreparedUnblocked
  <1>2. Led /\ LevelsInv /\ [Next]_vars =>
          [ToolPrepared /\ ~lost =>
             \A i \in DOMAIN agents : agents[i].blocked => agents[i].turn # session'.turn]_vars
    BY <1>1
  <1>3. Spec => []Led
    BY LedInit, LedStep, PTL DEF Spec
  <1> QED BY <1>2, <1>3, LevelsAlways, PTL DEF Spec, ClosedScopeStaysClosed

===============================================================================
