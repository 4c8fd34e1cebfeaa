--------------------------- MODULE GuardianProcess ---------------------------
(***************************************************************************)
(* The reviewer's worker process (pi-safety/src/guardian-worker.mjs): one  *)
(* request at a time inside its own SRT sandbox, frames in and out over    *)
(* pipes, and the cooperative retirement its parent starts.                *)
(*                                                                         *)
(* worker.job is the request the pump works on, worker.at the await it is  *)
(* in: init (cwd and ensureSrt), wrap, child (the wrapped command runs) or *)
(* reset (resetSrt after its failure).  A frame is a record; the process   *)
(* may crash or hang at any point.                                         *)
(***************************************************************************)
EXTENDS Sequences, FiniteSets

CONSTANTS
  Ids,    \* requests of one client
  Boot,   \* the id of its bootstrap request
  NoId    \* a frame that answers no request

ASSUME IdAssumption == Boot \notin Ids /\ NoId \notin Ids \cup {Boot}

VARIABLES worker, toWorker, toClient

processVars == <<worker, toWorker, toClient>>

BootstrapFrame == [type |-> "bootstrap"]
ExecuteFrame(i) == [type |-> "execute", id |-> i]
ShutdownFrame == [type |-> "shutdown"]
AckFrame == [type |-> "retirement-ack"]
ResultFrame(i) == [type |-> "result", id |-> i]
ErrorFrame(i, stage) == [type |-> "error", id |-> i, stage |-> stage]
ProposalFrame == [type |-> "retirement-proposal"]

Absent ==
  [os |-> "absent", status |-> "none", scope |-> "none", queue |-> <<>>, active |-> {},
   job |-> NoId, at |-> "idle", cancelled |-> {}, ready |-> FALSE, poisoned |-> FALSE,
   shuttingDown |-> FALSE, fatal |-> FALSE, down |-> "no"]

WorkerType ==
  [os : {"absent", "unspawned", "running", "dead"}, status : {"none", "zero", "nonzero", "SIGKILL"},
   scope : {"none", "deriving", "fixed"}, queue : Seq(Ids), active : SUBSET Ids,
   job : Ids \cup {NoId}, at : {"idle", "init", "wrap", "child", "reset"}, cancelled : SUBSET Ids,
   ready : BOOLEAN, poisoned : BOOLEAN, shuttingDown : BOOLEAN, fatal : BOOLEAN,
   down : {"no", "reset", "proposed", "acked", "exit"}]

ProcessInit == worker = Absent /\ toWorker = <<>> /\ toClient = <<>>

Running == worker.os = "running"

(* A death takes the wrapped command, in the same process group, with it.  *)
Dead(w, status) == [w EXCEPT !.os = "dead", !.status = status, !.at = "idle", !.job = NoId]

Dies(status) ==
  /\ worker' = Dead(worker, status)
  /\ toWorker' = <<>>

(* The pump: a queued request that was cancelled would be refused, but a   *)
(* shutdown empties the queue as it cancels.                               *)
Pumped(w) ==
  IF w.job # NoId \/ w.queue = <<>> THEN w
  ELSE [w EXCEPT !.job = Head(w.queue), !.queue = Tail(w.queue), !.at = "init"]

Finished(w) ==
  Pumped([w EXCEPT !.active = @ \ {w.job}, !.job = NoId, !.at = "idle"])

Send(frames) == toClient' = toClient \o frames
-------------------------------------------------------------------------------
(* Frames from the client.  protocolFatal answers with no id and refuses   *)
(* from then on; once shutdown has begun it does nothing.                  *)
Refuse(w, stage) ==
  IF w.fatal THEN worker' = w /\ Send(<<>>)
  ELSE worker' = [w EXCEPT !.shuttingDown = TRUE] /\ Send(<<ErrorFrame(NoId, stage)>>)

TakeExecute(i) ==
  IF worker.shuttingDown \/ worker.fatal THEN Refuse(worker, "failure")
  ELSE /\ worker' = Pumped([worker EXCEPT !.active = @ \cup {i}, !.queue = Append(@, i)])
       /\ Send(<<>>)

(* shutdown(): everything active is aborted, the queue forgotten, and the  *)
(* sandbox reset when srtReady; a running command's group dies at once.    *)
Quiesced(w) ==
  [w EXCEPT !.shuttingDown = TRUE, !.fatal = TRUE, !.cancelled = w.active, !.queue = <<>>]

TakeShutdown ==
  IF worker.fatal THEN worker' = [worker EXCEPT !.shuttingDown = TRUE] /\ Send(<<>>)
  ELSE IF worker.at = "child" THEN worker' = Dead(Quiesced(worker), "SIGKILL") /\ Send(<<>>)
  ELSE IF worker.ready THEN worker' = [Quiesced(worker) EXCEPT !.down = "reset"] /\ Send(<<>>)
  ELSE worker' = [Quiesced(worker) EXCEPT !.down = "proposed"] /\ Send(<<ProposalFrame>>)

TakeAck ==
  IF worker.down = "proposed" THEN worker' = [worker EXCEPT !.down = "acked"] /\ Send(<<>>)
  ELSE Refuse(worker, "failure")

ParseInput ==
  /\ Running /\ toWorker # <<>>
  /\ LET f == Head(toWorker) IN
       \/ /\ f.type = "bootstrap"
          /\ worker' = [worker EXCEPT !.scope = "deriving"]
          /\ Send(<<>>)
       \/ f.type = "execute" /\ TakeExecute(f.id)
       \/ f.type = "shutdown" /\ TakeShutdown
       \/ f.type = "retirement-ack" /\ TakeAck
  /\ toWorker' = IF worker'.os = "dead" THEN <<>> ELSE Tail(toWorker)

(* bootstrap() past its awaits: the scope is fixed, or the worker refuses  *)
(* from now on; a shutdown meanwhile makes it fail in silence.             *)
BootstrapEnds(ok) ==
  /\ Running /\ worker.scope = "deriving"
  /\ IF ok /\ ~worker.fatal /\ ~worker.shuttingDown
     THEN worker' = [worker EXCEPT !.scope = "fixed"] /\ Send(<<ResultFrame(Boot)>>)
     ELSE Refuse([worker EXCEPT !.scope = "none"], "failure")
  /\ UNCHANGED toWorker
-------------------------------------------------------------------------------
(* A failed request answers first and then resets a sandbox that is up.    *)
FailWith(w, stage) ==
  /\ worker' = IF w.ready THEN [w EXCEPT !.at = "reset"] ELSE Finished(w)
  /\ Send(<<ErrorFrame(w.job, stage)>>)
  /\ UNCHANGED toWorker

(* ensureSrt: a poisoned worker refuses; a failing initialize poisons it   *)
(* and is cleaned up on the spot.                                          *)
SrtEnsured(ok) ==
  /\ Running /\ worker.at = "init"
  /\ IF worker.poisoned THEN FailWith(worker, "failure")
     ELSE IF ok
     THEN worker' = [worker EXCEPT !.ready = TRUE, !.at = "wrap"] /\ UNCHANGED <<toWorker, toClient>>
     ELSE FailWith([worker EXCEPT !.poisoned = TRUE, !.ready = FALSE], "failure")

(* A directory or a program that does not pass never reaches the sandbox.  *)
RequestRefused == Running /\ worker.at = "init" /\ FailWith(worker, "failure")

(* cleanupAfterCommand follows every wrap; when it fails it poisons the    *)
(* worker, and its failure is the one reported.                            *)
BodyFails(cleaned) ==
  FailWith([worker EXCEPT !.poisoned = @ \/ ~cleaned], IF cleaned THEN "failure" ELSE "cleanup")

(* Wrapped, the command is spawned, unless the request was aborted.        *)
Wrapped(ok, cleaned) ==
  /\ Running /\ worker.at = "wrap"
  /\ IF ok /\ worker.job \notin worker.cancelled
     THEN worker' = [worker EXCEPT !.at = "child"] /\ UNCHANGED <<toWorker, toClient>>
     ELSE BodyFails(cleaned)

ChildCloses(ok, cleaned) ==
  /\ Running /\ worker.at = "child"
  /\ IF ~ok \/ ~cleaned THEN BodyFails(cleaned)
     ELSE worker' = Finished(worker) /\ Send(<<ResultFrame(worker.job)>>) /\ UNCHANGED toWorker

(* Past its time limit, or its output bound: the whole group is killed.    *)
CommandOverruns ==
  /\ Running /\ worker.at = "child"
  /\ Dies("SIGKILL")
  /\ UNCHANGED toClient

FailureReset(ok) ==
  /\ Running /\ worker.at = "reset"
  /\ worker' = Finished([worker EXCEPT !.ready = FALSE])
  /\ Send(IF ok THEN <<>> ELSE <<ErrorFrame(NoId, "cleanup")>>)
  /\ UNCHANGED toWorker

(* shutdown() past its reset: the proposal, or the failure and an exit.    *)
ShutdownReset(ok) ==
  /\ Running /\ worker.down = "reset"
  /\ worker' = [worker EXCEPT !.ready = FALSE, !.down = IF ok THEN "proposed" ELSE "exit"]
  /\ Send(IF ok THEN <<ProposalFrame>> ELSE <<ErrorFrame(NoId, "cleanup")>>)
  /\ UNCHANGED toWorker

KillsItself ==
  /\ Running /\ worker.down = "acked"
  /\ Dies("SIGKILL")
  /\ UNCHANGED toClient

AckDeadline ==
  /\ Running /\ worker.down = "proposed"
  /\ worker' = [worker EXCEPT !.down = "exit"]
  /\ UNCHANGED <<toWorker, toClient>>

Exits == Running /\ worker.down = "exit" /\ Dies("nonzero") /\ UNCHANGED toClient

Crashes ==
  /\ Running
  /\ \E status \in {"zero", "nonzero", "SIGKILL"} : Dies(status)
  /\ UNCHANGED toClient

WorkerStep ==
  \/ ParseInput
  \/ \E ok \in BOOLEAN : BootstrapEnds(ok) \/ SrtEnsured(ok) \/ FailureReset(ok)
                         \/ ShutdownReset(ok)
  \/ \E ok, cleaned \in BOOLEAN : Wrapped(ok, cleaned) \/ ChildCloses(ok, cleaned)
  \/ RequestRefused \/ CommandOverruns \/ KillsItself \/ AckDeadline \/ Exits \/ Crashes
===============================================================================
