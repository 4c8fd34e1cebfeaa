---------------------------- MODULE LifecycleLease ----------------------------
(***************************************************************************)
(* SandboxLifecycleLease (pi-safety/src/sandbox-lifecycle-lease.ts): the   *)
(* FIFO read-write lease that keeps a config activation, a mode reset or a *)
(* shutdown drain from landing underneath a running sandboxed tool call.   *)
(*                                                                         *)
(* A reader is a call of runShared, a writer one of runExclusive.  It is   *)
(* "granted" between the resolution of acquire()'s promise and the start   *)
(* of its operation, and "working" until the operation settles.            *)
(***************************************************************************)
EXTENDS Integers, Sequences, FiniteSets

CONSTANTS Readers, Writers

Client == Readers \cup Writers

ASSUME LeaseAssumption ==
  /\ Readers \cap Writers = {}
  /\ IsFiniteSet(Readers)

VARIABLES
  queue,          \* the waiters, oldest first
  activeReaders,  \* the counter of the same name
  writerActive,
  pc              \* "out", "queued", "granted" or "working"

vars == <<queue, activeReaders, writerActive, pc>>

Init == /\ queue = <<>>
        /\ activeReaders = 0
        /\ writerActive = FALSE
        /\ pc = [c \in Client |-> "out"]
-------------------------------------------------------------------------------
(* Mutant: a reader is let in whenever no writer is active. *)
EagerFront(q, readers, writer) ==
  {i \in DOMAIN q : ~writer /\ (q[i] \in Readers \/ (i = 1 /\ readers = 0))}

(* The positions drain() grants: the head if it is a writer and nobody     *)
(* works, else every reader up to the first writer.                        *)
Front(q, readers, writer) ==
  {i \in DOMAIN q :
     /\ ~writer
     /\ \/ i = 1 /\ q[i] \in Writers /\ readers = 0
        \/ \A j \in 1..i : q[j] \in Readers}

(* drain(), on the state its caller leaves: a queue, the two counters and  *)
(* the clients' places.                                                    *)
Drain(q, readers, writer, places) ==
  LET front == Front(q, readers, writer)
      granted == {q[i] : i \in front}
  IN  /\ queue' = SubSeq(q, Cardinality(front) + 1, Len(q))
      /\ activeReaders' = readers + Cardinality(granted \cap Readers)
      /\ writerActive' = (writer \/ granted \cap Writers # {})
      /\ pc' = [c \in Client |-> IF c \in granted THEN "granted" ELSE places[c]]

(* Mutant: the abort handler only takes its waiter off the queue. *)
LeavesTheQueue(q, readers, writer, places) ==
  /\ queue' = q /\ activeReaders' = readers /\ writerActive' = writer
  /\ pc' = places

(* The abort handler drains too: whoever it leaves at the head may go. *)
DrainAfterAbort(q, readers, writer, places) == Drain(q, readers, writer, places)

(* acquire(), for a signal that is not aborted yet. *)
Acquire(c) ==
  /\ pc[c] = "out"
  /\ Drain(Append(queue, c), activeReaders, writerActive, [pc EXCEPT ![c] = "queued"])

(* The signal of a waiter aborts.  Once it is granted its listener is gone *)
(* and the abort does not reach the lease.                                 *)
Without(q, i) == [j \in 1..(Len(q) - 1) |-> IF j < i THEN q[j] ELSE q[j + 1]]

Abort(i) ==
  /\ i \in DOMAIN queue
  /\ DrainAfterAbort(Without(queue, i), activeReaders, writerActive,
                     [pc EXCEPT ![queue[i]] = "out"])

(* The operation starts; it does so whatever became of the signal.         *)
Start(c) ==
  /\ pc[c] = "granted"
  /\ pc' = [pc EXCEPT ![c] = "working"]
  /\ UNCHANGED <<queue, activeReaders, writerActive>>

(* Mutant: the writer's release goes through the readers' counter. *)
ReadersLeftAlways(c) == activeReaders - 1
ReadersLeft(c) == IF c \in Readers THEN activeReaders - 1 ELSE activeReaders

(* The operation settles and the finally block releases the lease.         *)
Release(c) ==
  /\ pc[c] = "working"
  /\ Drain(queue, ReadersLeft(c), writerActive /\ c \notin Writers,
           [pc EXCEPT ![c] = "out"])

Next == \/ \E c \in Client : Acquire(c) \/ Start(c) \/ Release(c)
        \/ \E i \in DOMAIN queue : Abort(i)

Spec == Init /\ [][Next]_vars

(* A granted operation starts and, as its caller's contract has it, settles. *)
FairSpec == Spec /\ \A c \in Client : WF_vars(Start(c) \/ Release(c))
-------------------------------------------------------------------------------
Holds(c) == pc[c] \in {"granted", "working"}

TypeOK == /\ queue \in Seq(Client)
          /\ activeReaders \in Nat
          /\ writerActive \in BOOLEAN
          /\ pc \in [Client -> {"out", "queued", "granted", "working"}]

(* A mutation never lands underneath another operation: while a writer has *)
(* the lease nobody else has it (sandbox-lifecycle-lease.ts:11-17), from   *)
(* the moment it is granted, through waiters that abort and operations     *)
(* that settle in any order.                                               *)
WritersAlone ==
  \A w \in Writers : Holds(w) => \A c \in Client : Holds(c) => c = w

(* First come, first served: nobody gets the lease ahead of a waiter that  *)
(* was queued before it and still is (sandbox-lifecycle-lease.ts:67-92).   *)
NobodyOvertakes ==
  [][\A i, j \in DOMAIN queue :
       i < j /\ pc'[queue[j]] = "granted" => pc'[queue[i]] # "queued"]_vars

(* Nobody waits for holders it has no conflict with: whoever is at the     *)
(* head of the queue waits for a writer or is one, even when the writer    *)
(* that was ahead of it has just aborted (sandbox-lifecycle-lease.ts:      *)
(* 53-61, 67-92).                                                          *)
HeadsWaitForConflicts ==
  queue # <<>> =>
    \E c \in Client : Holds(c) /\ (c \in Writers \/ Head(queue) \in Writers)

(* Readers that keep coming starve no writer and writers no reader: every  *)
(* waiter gets the lease or gives up, if operations settle.                *)
WaitersServed == \A c \in Client : pc[c] = "queued" ~> pc[c] # "queued"
===============================================================================
