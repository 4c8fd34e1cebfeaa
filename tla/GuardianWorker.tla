---------------------------- MODULE GuardianWorker ----------------------------
(***************************************************************************)
(* GuardianWorkerClient (pi-safety/src/guardian-worker-client.ts) over its *)
(* worker process: requests, their timers and aborts, the failures it      *)
(* latches, the teardown by signal and the retirement by handshake.        *)
(*                                                                         *)
(* A client owns at most one worker: execute refuses once it is retiring   *)
(* or closed, so a replacement is never reached.  A signal to the group    *)
(* follows the cancel frame in the same tick; that frame is never read     *)
(* and is left out.  Several terminate() waits count as the earliest.      *)
(***************************************************************************)
EXTENDS GuardianProcess, SequencesExt

VARIABLES client,
          heardCleanup  \* history: the client read a cleanup failure, known to it and not closed yet

vars == <<processVars, client, heardCleanup>>

Waiting == {"emergency", "cooperative", "late"}

ClientType ==
  [phase : {"none", "starting", "workload", "retiring", "closed"},
   boot : {"none", "pending", "done", "failed"},
   req : [Ids -> {"idle", "starting", "pending", "resolved", "rejected"}],
   aborted : SUBSET Ids,
   seen : {"none", "exit", "close"}, stdin : {"open", "broken", "destroyed"},
   terminal : {"none", "failure", "cleanup"}, reported : BOOLEAN,
   primary : BOOLEAN, emergency : BOOLEAN, terminating : BOOLEAN,
   nonce : BOOLEAN, proposed : BOOLEAN, acked : BOOLEAN,
   closing : {"open", "clean", "failed"} \cup Waiting]

Fresh ==
  [phase |-> "none", boot |-> "none", req |-> [i \in Ids |-> "idle"], aborted |-> {},
   seen |-> "none", stdin |-> "open", terminal |-> "none", reported |-> FALSE,
   primary |-> FALSE, emergency |-> FALSE, terminating |-> FALSE,
   nonce |-> FALSE, proposed |-> FALSE, acked |-> FALSE, closing |-> "open"]

Init == ProcessInit /\ client = Fresh /\ heardCleanup = FALSE

Closed(c) == c.closing # "open"

(* What the pending map holds, and who waits for the bootstrap.            *)
PendingIds(c) == {i \in Ids : c.req[i] = "pending"} \cup (IF c.boot = "pending" THEN {Boot} ELSE {})
Starters(c) == {i \in Ids : c.req[i] = "starting"}
-------------------------------------------------------------------------------
(* Mutant: the first failure stays, whatever its stage.                    *)
FirstFailureStays(c, stage) ==
  IF c.terminal = "none" THEN [c EXCEPT !.terminal = stage] ELSE c

(* latchFailure: the first failure stays, a cleanup failure replaces any   *)
(* and is unreported again.                                                *)
LatchFailure(c, stage) ==
  IF stage = "cleanup" THEN [c EXCEPT !.terminal = "cleanup", !.reported = FALSE]
  ELSE IF c.terminal = "none" THEN [c EXCEPT !.terminal = stage] ELSE c

(* rejectPending: told says that the rejection is the latched failure, or  *)
(* an error its caller knows; those waiting for the bootstrap go with it.  *)
RejectPending(c, told) ==
  [c EXCEPT !.reported = @ \/ (told /\ PendingIds(c) # {}),
            !.boot = IF @ = "pending" THEN "failed" ELSE @,
            !.req = [i \in Ids |-> IF @[i] = "pending" \/ (c.boot = "pending" /\ @[i] = "starting")
                                   THEN "rejected" ELSE @[i]]]

(* signalOwnedWorker: an unobserved process dies with its group, a process *)
(* that never got a pid cannot be signalled.                               *)
Signals(c) == c.seen = "none" /\ worker.os \in {"running", "dead"}

Killed(w) == IF w.os = "running" THEN Dead(w, "SIGKILL") ELSE w

(* terminate(error): its own error, a timeout or an abort, is what the     *)
(* pending requests are told; only an abort is not latched.                *)
Terminated(c, error) ==
  LET latched == IF error = "abort" THEN c ELSE LatchFailure(c, "failure")
      told == RejectPending(latched, TRUE)
      down == [told EXCEPT !.phase = "retiring", !.emergency = TRUE, !.terminating = TRUE]
  IN IF told.phase = "closed" THEN told
     ELSE IF Signals(c) \/ c.seen # "none" THEN down
     ELSE LatchFailure(down, "cleanup")

Terminate(c, error) ==
  /\ client' = Terminated(c, error)
  /\ worker' = IF Signals(c) /\ c.phase # "closed" THEN Killed(worker) ELSE worker
  /\ toWorker' = IF worker'.os = "dead" THEN <<>> ELSE toWorker

(* A write to a dead worker fails with an event of its own later on; once  *)
(* its exit or that event was seen, stdin is gone and the write throws.    *)
Gone(c) == c.stdin = "destroyed" \/ c.seen # "none"

Written(frames) == IF Running THEN toWorker \o frames ELSE <<>>

AfterWrite(c) == IF worker.os = "dead" THEN [c EXCEPT !.stdin = "broken"] ELSE c
-------------------------------------------------------------------------------
(* execute: refused, or the worker is spawned, or the caller joins those   *)
(* that wait for its bootstrap, or the frame is written.                   *)
Refused(i) == client' = [client EXCEPT !.req[i] = "rejected"] /\ UNCHANGED processVars

MayExecute(c) == ~Closed(c) /\ c.terminal = "none" /\ c.phase \notin {"retiring", "closed"}

Admit(i) ==
  /\ client' = AfterWrite([client EXCEPT !.req[i] = "pending"])
  /\ toWorker' = Written(<<ExecuteFrame(i)>>)
  /\ UNCHANGED <<worker, toClient>>

Start(i) ==
  \E os \in {"running", "unspawned"} :
    /\ worker' = [worker EXCEPT !.os = os]
    /\ client' = [client EXCEPT !.phase = "starting", !.boot = "pending", !.req[i] = "starting"]
    /\ toWorker' = IF os = "running" THEN <<BootstrapFrame>> ELSE <<>>
    /\ UNCHANGED toClient

Execute(i) ==
  /\ client.req[i] = "idle"
  /\ \/ ~MayExecute(client) /\ Refused(i)
     \/ MayExecute(client) /\ client.phase = "none" /\ (Start(i) \/ Refused(i))
     \/ /\ MayExecute(client) /\ client.boot = "pending"
        /\ client' = [client EXCEPT !.req[i] = "starting"]
        /\ UNCHANGED processVars
     \/ /\ MayExecute(client) /\ client.phase = "workload" /\ client.boot # "pending"
        /\ IF client.seen = "none" THEN Admit(i) ELSE Refused(i)
  /\ UNCHANGED heardCleanup

(* The signal of a request fires; one that waits for the bootstrap hears   *)
(* of it once it is pending.                                               *)
Abort(i) ==
  /\ client.req[i] \in {"starting", "pending"} /\ i \notin client.aborted
  /\ LET c == [client EXCEPT !.aborted = @ \cup {i}] IN
     IF client.req[i] = "pending" THEN Terminate(c, "abort")
     ELSE client' = c /\ UNCHANGED <<worker, toWorker>>
  /\ UNCHANGED <<toClient, heardCleanup>>

RequestTimesOut(i) ==
  /\ client.req[i] = "pending"
  /\ Terminate(client, "timeout")
  /\ UNCHANGED <<toClient, heardCleanup>>

BootstrapTimesOut ==
  /\ client.boot = "pending"
  /\ Terminate(client, "timeout")
  /\ UNCHANGED <<toClient, heardCleanup>>

(* Malformed or oversized output, too much stderr.                         *)
ProtocolFault ==
  /\ client.phase # "closed" /\ Running
  /\ Terminate(client, "protocol")
  /\ UNCHANGED <<toClient, heardCleanup>>

StdinFails ==
  /\ client.stdin = "broken"
  /\ Terminate([client EXCEPT !.stdin = "destroyed"], "protocol")
  /\ UNCHANGED <<toClient, heardCleanup>>

TerminateDeadline ==
  /\ client.terminating /\ client.seen # "close"
  /\ client' = LatchFailure([client EXCEPT !.terminating = FALSE], "cleanup")
  /\ UNCHANGED <<processVars, heardCleanup>>
-------------------------------------------------------------------------------
(* close(): nothing to close; a worker that was signalled or has exited is *)
(* waited for; any other is asked to retire, under a nonce.                *)
CloseFrom(c) ==
  LET settled == RejectPending(c, c.terminal # "none")
      retiring == [c EXCEPT !.phase = "retiring"]
  IN \/ /\ Closed(c)
        /\ client' = c
        /\ UNCHANGED toWorker
     \/ /\ ~Closed(c) /\ c.phase \in {"none", "closed"}
        /\ client' = [settled EXCEPT !.closing =
                        IF settled.terminal # "none" /\ ~settled.reported THEN "failed" ELSE "clean"]
        /\ UNCHANGED toWorker
     \/ /\ ~Closed(c) /\ c.phase \notin {"none", "closed"} /\ (c.emergency \/ c.seen = "exit")
        /\ client' = LET late == [retiring EXCEPT !.closing = "emergency"] IN
                      IF Signals(c) \/ c.seen # "none" THEN late ELSE LatchFailure(late, "cleanup")
        /\ UNCHANGED toWorker
     \/ /\ ~Closed(c) /\ c.phase \notin {"none", "closed"} /\ ~c.emergency /\ c.seen = "none"
        /\ client' = AfterWrite([retiring EXCEPT !.closing = "cooperative", !.nonce = TRUE])
        /\ toWorker' = Written(<<ShutdownFrame>>)

Close ==
  /\ ~Closed(client)
  /\ CloseFrom(client)
  /\ UNCHANGED <<worker, toClient, heardCleanup>>

(* The end of close(): whoever still waits is rejected; the failure close  *)
(* throws is latched.                                                      *)
ClosesWith(c, thrown) ==
  [c EXCEPT !.closing = IF thrown THEN "failed" ELSE "clean"]

EmergencyEnd(c) ==
  LET f == LatchFailure(RejectPending(c, FALSE), "failure")
  IN ClosesWith(f, ~f.reported \/ f.terminal = "cleanup")

(* Mutant: an end without the handshake fails only for a latched failure.  *)
AnyEndIsClean(c) ==
  LET r == RejectPending(c, FALSE)
  IN ClosesWith(r, r.terminal = "cleanup" \/ (r.terminal # "none" /\ ~r.reported))

(* Cooperatively closed is clean only after the handshake and the worker's *)
(* own SIGKILL, and with every latched failure told and none of cleanup.   *)
CooperativeEnd(c) ==
  LET r == RejectPending(c, FALSE)
      unexpected == r.acked /\ worker.status # "SIGKILL"
  IN IF unexpected THEN ClosesWith(LatchFailure(r, "cleanup"), TRUE)
     ELSE IF ~r.acked THEN ClosesWith(LatchFailure(r, "failure"), TRUE)
     ELSE ClosesWith(r, r.terminal = "cleanup" \/ (r.terminal # "none" /\ ~r.reported))

CloseEnd(c) ==
  CASE c.closing = "emergency" -> EmergencyEnd(c)
    [] c.closing = "cooperative" -> CooperativeEnd(c)
    [] OTHER -> ClosesWith(RejectPending(c, FALSE), TRUE)

(* Mutant: the last wait is for the close itself, without a deadline.      *)
AwaitsTheClose ==
  /\ client.closing = "late" /\ client.seen = "close"
  /\ client' = CloseEnd(client)
  /\ UNCHANGED <<processVars, heardCleanup>>

(* Its deadlines.  A terminate() that preceded an emergency close set its  *)
(* timer first; a cooperative wait signals and waits once more.            *)
EmergencyDeadline ==
  /\ client.closing = "emergency" /\ client.seen # "close" /\ ~client.terminating
  /\ client' = EmergencyEnd(client)
  /\ UNCHANGED <<processVars, heardCleanup>>

CooperativeDeadline ==
  /\ client.closing = "cooperative" /\ client.seen # "close"
  /\ client' = LatchFailure([client EXCEPT !.closing = "late"], "cleanup")
  /\ worker' = IF Signals(client) THEN Killed(worker) ELSE worker
  /\ toWorker' = IF worker'.os = "dead" THEN <<>> ELSE toWorker
  /\ UNCHANGED <<toClient, heardCleanup>>

LateDeadline ==
  /\ client.closing = "late" /\ client.seen # "close"
  /\ client' = CloseEnd(client)
  /\ UNCHANGED <<processVars, heardCleanup>>
-------------------------------------------------------------------------------
(* The child's events: its failure to spawn, its exit, and its close once  *)
(* every frame it wrote was read.                                          *)
ErrorSeen ==
  /\ worker.os = "unspawned" /\ ~client.primary
  /\ client' = LET c == [client EXCEPT !.primary = TRUE] IN
                IF Closed(c) THEN c ELSE LatchFailure(c, "failure")
  /\ UNCHANGED <<processVars, heardCleanup>>

ExitSeen ==
  /\ worker.os = "dead" /\ client.seen = "none"
  /\ client' = [client EXCEPT !.seen = "exit"]
  /\ UNCHANGED <<processVars, heardCleanup>>

CloseSeen ==
  /\ toClient = <<>> /\ client.seen # "close"
  /\ client.seen = "exit" \/ client.primary
  /\ LET c == [client EXCEPT !.seen = "close", !.phase = "closed", !.terminating = FALSE] IN
     client' = IF c.closing \in Waiting THEN CloseEnd(c)
               ELSE IF Closed(c) THEN c
               ELSE RejectPending(LatchFailure(c, "failure"), TRUE)
  /\ UNCHANGED <<processVars, heardCleanup>>

(* The bootstrap is acknowledged, and the phase is workload whatever it    *)
(* was; those who waited are admitted, or the first of them terminates.    *)
Bootstrapped ==
  LET c == [client EXCEPT !.phase = "workload", !.boot = "done",
                          !.req = [i \in Ids |-> IF @[i] = "starting" THEN "pending" ELSE @[i]]]
      starters == Starters(client)
  IN IF starters # {} /\ Gone(c) THEN Terminate(c, "protocol")
     ELSE IF starters \cap c.aborted # {} THEN Terminate(c, "abort")
     ELSE /\ client' = IF starters = {} THEN c ELSE AfterWrite(c)
          /\ toWorker' = Written(SetToSeq({ExecuteFrame(i) : i \in starters}))
          /\ UNCHANGED worker

TakeResult(id) ==
  IF id \notin PendingIds(client) THEN Terminate(client, "protocol")
  ELSE IF id = Boot THEN Bootstrapped
  ELSE client' = [client EXCEPT !.req[id] = "resolved"] /\ UNCHANGED <<worker, toWorker>>

(* Any error ends the review: it is latched, everyone is rejected and the  *)
(* client closes; one for a request nobody waits for terminates instead.   *)
Known(id) == id \in PendingIds(client) \cup {NoId}

TakeError(f) ==
  IF ~Known(f.id) THEN Terminate(client, "protocol")
  ELSE LET latched == LatchFailure(client, f.stage) IN
       /\ CloseFrom(RejectPending(latched, f.stage = "cleanup" \/ client.terminal = "none"))
       /\ UNCHANGED worker

TakeProposal ==
  IF client.phase # "retiring" \/ client.proposed \/ ~client.nonce \/ Gone(client)
  THEN Terminate(client, "protocol")
  ELSE /\ client' = AfterWrite([client EXCEPT !.proposed = TRUE, !.acked = TRUE])
       /\ toWorker' = Written(<<AckFrame>>)
       /\ UNCHANGED worker

ReadResponse ==
  /\ toClient # <<>>
  /\ LET f == Head(toClient) IN
       /\ \/ f.type = "result" /\ TakeResult(f.id)
          \/ f.type = "error" /\ TakeError(f)
          \/ f.type = "retirement-proposal" /\ TakeProposal
       /\ heardCleanup' = \/ heardCleanup
                          \/ /\ f.type = "error" /\ Known(f.id) /\ f.stage = "cleanup"
                             /\ client.closing \notin {"clean", "failed"}
  /\ toClient' = Tail(toClient)
-------------------------------------------------------------------------------
Timers ==
  \/ \E i \in Ids : RequestTimesOut(i)
  \/ BootstrapTimesOut \/ TerminateDeadline
  \/ EmergencyDeadline \/ CooperativeDeadline \/ LateDeadline

Next ==
  \/ \E i \in Ids : Execute(i) \/ Abort(i)
  \/ Close \/ ProtocolFault \/ StdinFails
  \/ ErrorSeen \/ ExitSeen \/ CloseSeen \/ ReadResponse
  \/ Timers
  \/ WorkerStep /\ UNCHANGED <<client, heardCleanup>>

Spec == Init /\ [][Next]_vars

(* The client's timers fire; of the worker and its pipes nothing is asked. *)
FairSpec ==
  /\ Spec
  /\ \A i \in Ids : WF_vars(RequestTimesOut(i))
  /\ WF_vars(BootstrapTimesOut) /\ WF_vars(TerminateDeadline)
  /\ WF_vars(EmergencyDeadline) /\ WF_vars(CooperativeDeadline) /\ WF_vars(LateDeadline)
-------------------------------------------------------------------------------
(* Only a worker whose exit was observed is closed cleanly, and only one   *)
(* that died of SIGKILL past its sandbox reset, or whose end some caller   *)
(* was told of; a cleanup failure the client heard of survives whatever    *)
(* failed before and after it, and close() throws (closeInternal's order   *)
(* of failures against terminate's, the child's events and the deadlines). *)
CleanCloseIsEarned ==
  /\ [](heardCleanup => client.closing # "clean")
  /\ [][client.closing # "clean" /\ client'.closing = "clean" /\ client.phase # "none"
          => /\ client'.seen # "none"
             /\ \/ worker.down \notin {"no", "reset"} /\ worker.status = "SIGKILL"
                \/ client'.reported]_vars

(* Every call ends, whatever the worker does: a request by its answer or   *)
(* its rejection, a close by the deadlines.                                *)
CallsEnd ==
  /\ \A i \in Ids : client.req[i] \in {"starting", "pending"}
                    ~> client.req[i] \in {"resolved", "rejected"}
  /\ Closed(client) ~> client.closing \in {"clean", "failed"}
===============================================================================
