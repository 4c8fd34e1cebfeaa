---------------------------- MODULE SrtCoordinator ----------------------------
(***************************************************************************)
(* SrtProcessCoordinator (pi-safety/src/sandbox/srt-coordinator.ts): the   *)
(* FIFO lease on the process-global SRT manager, its persistent fault (the *)
(* "poison") and the draining of operations whose caller stopped waiting.  *)
(*                                                                         *)
(* A client is one call of runExclusive ("wait") or runExclusiveDetached   *)
(* (the others).  It is "granted" until its operation starts, at one of    *)
(* the Busy places while its operation awaits, and "ending" between the    *)
(* operation's settling and the release of the lease.  The operations are  *)
(* those of SrtManager, which says which places they go through.           *)
(***************************************************************************)
EXTENDS Integers, Sequences, FiniteSets

CONSTANTS
  Client,
  Kind,       \* [Client -> {"execute", "activate", "reset", "wait"}]
  Busy,       \* the places of an operation that awaits
  NoOwner     \* nobody is draining

ASSUME CoordinatorAssumption ==
  /\ Kind \in [Client -> {"execute", "activate", "reset", "wait"}]
  /\ Busy \cap {"out", "queued", "granted", "ending"} = {}
  /\ NoOwner \notin Client

VARIABLES
  active,        \* the lease is taken
  poisoned,      \* poisonReason is set
  drainingOwner, \* the client whose cancelled operation still has the lease
  queue,         \* the waiters, oldest first
  pc,
  aborted        \* calls whose signal fired once they had left the queue

lockVars == <<active, poisoned, drainingOwner, queue, pc, aborted>>

LockInit == /\ active = FALSE /\ poisoned = FALSE /\ drainingOwner = NoOwner
            /\ queue = <<>>
            /\ pc = [c \in Client |-> "out"]
            /\ aborted = {}
-------------------------------------------------------------------------------
AllowPoisoned(c) == Kind[c] \in {"activate", "reset"}

Places == {"out", "queued", "granted", "ending"} \cup Busy

(* Waiters that a fault turns away, at the head of q or anywhere in it.    *)
Unwanted(q, fault) == {i \in DOMAIN q : fault /\ ~AllowPoisoned(q[i])}
UnwantedHead(q, fault) == {i \in DOMAIN q : 1..i \subseteq Unwanted(q, fault)}

(* drain(): on a free lease, reject the waiters a fault turns away until   *)
(* one can be granted.                                                     *)
Drain(q, held, fault, places) ==
  LET k == IF held THEN 0 ELSE Cardinality(UnwantedHead(q, fault))
      served == {i \in DOMAIN q : ~held /\ i = k + 1}
  IN  /\ active' = (held \/ served # {})
      /\ queue' = SubSeq(q, k + Cardinality(served) + 1, Len(q))
      /\ pc' = [c \in Client |->
           CASE \E i \in served : q[i] = c -> "granted"
             [] \E i \in 1..k : q[i] = c -> "out"
             [] OTHER -> places[c]]

(* acquire(); a client that a fault turns away does not get in.            *)
Acquire(c) ==
  /\ pc[c] = "out"
  /\ poisoned => AllowPoisoned(c)
  /\ Drain(Append(queue, c), active, poisoned, [pc EXCEPT ![c] = "queued"])
  /\ UNCHANGED <<poisoned, drainingOwner, aborted>>

Holder(c) == pc[c] \in {"granted", "ending"} \cup Busy

(* Only a caller's own signal can fire between two turns of the microtask  *)
(* queue: the deadline timers of activate and reset cannot, and once       *)
(* granted a wait no longer listens.                                       *)
Cancellable(c) ==
  \/ pc[c] = "queued"
  \/ Kind[c] = "execute" /\ Holder(c)
  \/ AllowPoisoned(c) /\ pc[c] \in Busy

(* Mutant: a cancelled operation loses the lease at once. *)
HeldUnlessCancelled(S) == active /\ ~\E c \in S : pc[c] \in Busy
StillHeld(S) == active

Leaving(q, S) == SelectSeq(q, LAMBDA c : c \notin S)

(* A signal aborts: the clients that share it leave the queue (drain()     *)
(* skips those whose listener has not run yet), and the operation of one   *)
(* that runs begins to drain.                                              *)
Cancel(S) ==
  /\ S # {} /\ S \cap aborted = {} /\ \A c \in S : Cancellable(c)
  /\ aborted' = aborted \cup {c \in S : Holder(c)}
  /\ drainingOwner' = IF \E c \in S : pc[c] \in Busy \cup {"ending"}
                      THEN CHOOSE c \in S : pc[c] \in Busy \cup {"ending"}
                      ELSE drainingOwner
  /\ Drain(Leaving(queue, S), StillHeld(S), poisoned,
           [c \in Client |-> IF c \in S /\ pc[c] = "queued" THEN "out" ELSE pc[c]])
  /\ UNCHANGED poisoned

(* rejectPoisonedWaiters; its drain() returns at once, for it is always a  *)
(* holder's operation, or the timer of one, that marks the fault.          *)
KeepAll(q) == q  \* mutant: markPoisoned only sets the reason
KeepAllowed(q) == SelectSeq(q, AllowPoisoned)

Rejected(places) ==
  [c \in Client |-> IF places[c] = "queued" /\ c \notin {KeepAllowed(queue)[i] :
                                                 i \in DOMAIN KeepAllowed(queue)}
                    THEN "out" ELSE places[c]]

(* One stretch of c's operation, up to its next await or its end: it may   *)
(* mark the fault (markPoisoned) or clear it (clearPoison).                *)
Stretch(c, to, fault) ==
  /\ poisoned' = CASE fault = "mark" -> TRUE [] fault = "clear" -> FALSE
                   [] OTHER -> poisoned
  /\ queue' = IF fault = "mark" THEN KeepAllowed(queue) ELSE queue
  /\ pc' = LET places == [pc EXCEPT ![c] = to]
           IN  IF fault = "mark" THEN Rejected(places) ELSE places
  /\ UNCHANGED <<active, drainingOwner, aborted>>

(* The granted operation starts, up to its first await or its end.         *)
Begin(c, to, fault) == pc[c] = "granted" /\ c \notin aborted /\ Stretch(c, to, fault)

Continue(c, from, to, fault) == pc[c] = from /\ Stretch(c, to, fault)

(* Mutant: an aborted grant is returned without a drain(). *)
ReturnSilently(c) ==
  active' = FALSE /\ pc' = [pc EXCEPT ![c] = "out"] /\ UNCHANGED queue

(* The lease goes to the next waiter.                                      *)
Return(c) == Drain(queue, FALSE, poisoned, [pc EXCEPT ![c] = "out"])

(* The signal fired between the grant and the start.                       *)
GiveBack(c) ==
  /\ pc[c] = "granted" /\ c \in aborted
  /\ Return(c)
  /\ aborted' = aborted \ {c}
  /\ UNCHANGED <<poisoned, drainingOwner>>

(* finish(): stop draining, release the lease, answer the caller.          *)
Release(c) ==
  /\ pc[c] = "ending"
  /\ drainingOwner' = IF drainingOwner = c THEN NoOwner ELSE drainingOwner
  /\ aborted' = aborted \ {c}
  /\ Return(c)
  /\ UNCHANGED poisoned

(* The timer of beginDraining fires before the operation settled.          *)
DrainTimeout ==
  /\ drainingOwner # NoOwner
  /\ poisoned' = TRUE
  /\ queue' = KeepAllowed(queue)
  /\ pc' = Rejected(pc)
  /\ UNCHANGED <<active, drainingOwner, aborted>>
===============================================================================
