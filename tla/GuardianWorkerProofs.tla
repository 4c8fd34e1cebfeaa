-------------------------- MODULE GuardianWorkerProofs --------------------------
(***************************************************************************)
(* For any set of requests: a worker that proposes to retire has taken its *)
(* sandbox down, and a clean close of its client is earned.                *)
(***************************************************************************)
EXTENDS GuardianWorker, FiniteSetTheorems, SequenceTheorems, TLAPS

(* What the pipes carry.                                                   *)
ToWorker == {BootstrapFrame, ShutdownFrame, AckFrame} \cup {ExecuteFrame(i) : i \in Ids}

ToClient == {ResultFrame(i) : i \in Ids \cup {Boot}} \cup {ProposalFrame}
              \cup {ErrorFrame(i, stage) : i \in Ids \cup {NoId}, stage \in {"failure", "cleanup"}}

Piped == toWorker \in Seq(ToWorker) /\ toClient \in Seq(ToClient)

(* The request the worker is at is active, and so is every queued one,     *)
(* each once.                                                              *)
Queued(w) ==
  /\ \A k \in 1..Len(w.queue) : w.queue[k] \in w.active /\ w.queue[k] # w.job
  /\ \A k, l \in 1..Len(w.queue) : w.queue[k] = w.queue[l] => k = l

Orderly(w) ==
  /\ w \in WorkerType
  /\ (w.at = "idle") <=> (w.job = NoId)
  /\ w.job # NoId => w.job \in w.active
  /\ Queued(w)

(* A worker that retires takes nothing new, has cancelled what it is at    *)
(* and runs no command; its sandbox comes up again only under a request,   *)
(* whose failure takes it down.                                            *)
Retiring(w) ==
  /\ w.down # "no" => /\ w.fatal /\ w.queue = <<>> /\ w.at # "child"
                      /\ w.job # NoId => w.job \in w.cancelled
  /\ w.down \in {"proposed", "acked"} /\ w.ready =>
       w.active # {} /\ (w.os = "running" => w.job # NoId)

(* A request is sent to the worker once: it is on its way or active only   *)
(* when the client does not hold it back any more.                         *)
Unsent(c) == {i \in Ids : c.req[i] \in {"idle", "starting"}}

IsExecute(f) == f.type = "execute"

SentOnce ==
  /\ worker.active \cap Unsent(client) = {}
  /\ \A k \in 1..Len(toWorker) : IsExecute(toWorker[k]) =>
       toWorker[k].id \notin worker.active \cup Unsent(client)
  /\ \A k, l \in 1..Len(toWorker) :
       IsExecute(toWorker[k]) /\ IsExecute(toWorker[l]) /\ toWorker[k].id = toWorker[l].id => k = l
-------------------------------------------------------------------------------
(* Head, Tail and a concatenation, position by position.                   *)
LEMMA TailPlaces ==
  ASSUME NEW S, NEW s \in Seq(S), s # <<>>
  PROVE  /\ Head(s) = s[1] /\ Head(s) \in S /\ Tail(s) \in Seq(S)
         /\ Len(s) \in Nat /\ Len(s) >= 1 /\ Len(Tail(s)) = Len(s) - 1
         /\ \A k \in 1..Len(Tail(s)) : Tail(s)[k] = s[k + 1] /\ k + 1 \in 1..Len(s)
  OBVIOUS

LEMMA JoinPlaces ==
  ASSUME NEW S, NEW s \in Seq(S), NEW t \in Seq(S)
  PROVE  /\ s \o t \in Seq(S) /\ Len(s \o t) = Len(s) + Len(t)
         /\ \A k \in 1..Len(s) : (s \o t)[k] = s[k]
         /\ \A k \in 1..Len(s \o t) : k \notin 1..Len(s) =>
              k - Len(s) \in 1..Len(t) /\ (s \o t)[k] = t[k - Len(s)]
  OBVIOUS

LEMMA PumpedOrderly ==
  ASSUME NEW w \in WorkerType, (w.at = "idle") <=> (w.job = NoId),
         w.job # NoId => w.job \in w.active, Queued(w)
  PROVE  /\ Orderly(Pumped(w))
         /\ Pumped(w).active = w.active /\ Pumped(w).os = w.os /\ Pumped(w).down = w.down
         /\ w.queue = <<>> => Pumped(w) = w
  <1>1. CASE w.job # NoId \/ w.queue = <<>>
    BY <1>1 DEF Pumped, Orderly
  <1>2. CASE w.job = NoId /\ w.queue # <<>>
    <2> DEFINE q == w.queue  rest == Tail(q)
    <2>1. q \in Seq(Ids)
      BY DEF WorkerType
    <2>2. /\ Head(q) = q[1] /\ Head(q) \in Ids /\ rest \in Seq(Ids)
          /\ Len(q) \in Nat /\ Len(q) >= 1
          /\ \A k \in 1..Len(rest) : rest[k] = q[k + 1] /\ k + 1 \in 1..Len(q)
      BY <1>2, <2>1, TailPlaces
    <2>3. /\ \A k \in 1..Len(q) : q[k] \in w.active
          /\ \A k, l \in 1..Len(q) : q[k] = q[l] => k = l
      BY DEF Queued
    <2>4. Len(rest) \in Nat /\ 1 \in 1..Len(q)
      BY <2>2
    <2>5. \A k \in 1..Len(rest) : rest[k] \in w.active /\ rest[k] # q[1]
      BY <2>2, <2>3, <2>4
    <2>6. \A k, l \in 1..Len(rest) : rest[k] = rest[l] => k = l
      BY <2>2, <2>3, <2>4
    <2>7. Pumped(w) = [w EXCEPT !.job = q[1], !.queue = rest, !.at = "init"]
      BY <1>2, <2>2 DEF Pumped
    <2>8. q[1] \in Ids /\ q[1] \in w.active /\ q[1] # NoId
      BY <2>2, <2>3, <2>4, IdAssumption
    <2> HIDE DEF q, rest
    <2> DEFINE p == [w EXCEPT !.job = q[1], !.queue = rest, !.at = "init"]
    <2>9. p \in WorkerType
      BY <2>2, <2>8 DEF WorkerType
    <2>10. p.at = "init" /\ p.job = q[1] /\ p.queue = rest /\ p.active = w.active
           /\ p.os = w.os /\ p.down = w.down
      BY DEF WorkerType
    <2>11. Orderly(p)
      BY <2>5, <2>6, <2>8, <2>9, <2>10 DEF Orderly, Queued
    <2> QED BY <1>2, <2>7, <2>10, <2>11
  <1> QED BY <1>1, <1>2

LEMMA FinishedOrderly ==
  ASSUME NEW w, Orderly(w)
  PROVE  /\ Orderly(Finished(w))
         /\ Finished(w).active = w.active \ {w.job} /\ Finished(w).os = w.os
         /\ Finished(w).down = w.down
         /\ w.queue = <<>> =>
              Finished(w) = [w EXCEPT !.active = @ \ {w.job}, !.job = NoId, !.at = "idle"]
  <1> DEFINE r == [w EXCEPT !.active = @ \ {w.job}, !.job = NoId, !.at = "idle"]
  <1>1. Finished(w) = Pumped(r)
    BY DEF Finished
  <1>2. w \in WorkerType /\ Queued(w) /\ w.queue \in Seq(Ids)
    BY DEF Orderly, WorkerType
  <1>3. r \in WorkerType
    BY <1>2 DEF WorkerType
  <1>4. /\ r.at = "idle" /\ r.job = NoId /\ r.queue = w.queue /\ r.active = w.active \ {w.job}
        /\ r.os = w.os /\ r.down = w.down
    BY <1>2 DEF WorkerType
  <1>5. \A k \in 1..Len(w.queue) : w.queue[k] \in Ids /\ w.queue[k] # NoId
    BY <1>2, IdAssumption
  <1>6. Queued(r)
    <2> HIDE DEF r
    <2> QED BY <1>2, <1>4, <1>5 DEF Queued
  <1> HIDE DEF r
  <1>7. /\ Orderly(Pumped(r)) /\ Pumped(r).active = r.active /\ Pumped(r).os = r.os
        /\ Pumped(r).down = r.down /\ (r.queue = <<>> => Pumped(r) = r)
    BY <1>3, <1>4, <1>6, PumpedOrderly
  <1> QED BY <1>1, <1>4, <1>7 DEF r

LEMMA FinishedRetiring ==
  ASSUME NEW w, Orderly(w), Retiring(w), w.down \in {"proposed", "acked"} => ~w.ready
  PROVE  Retiring(Finished(w))
  <1>1. CASE w.down = "no"
    BY <1>1, FinishedOrderly DEF Retiring
  <1>2. CASE w.down # "no"
    <2>1. w.fatal /\ w.queue = <<>> /\ w \in WorkerType
      BY <1>2 DEF Retiring, Orderly
    <2> DEFINE r == [w EXCEPT !.active = @ \ {w.job}, !.job = NoId, !.at = "idle"]
    <2>2. Finished(w) = r
      BY <2>1, FinishedOrderly
    <2>3. /\ r.down = w.down /\ r.fatal = w.fatal /\ r.queue = w.queue /\ r.at = "idle"
          /\ r.job = NoId /\ r.ready = w.ready
      BY <2>1 DEF WorkerType
    <2> HIDE DEF r
    <2> QED BY <2>1, <2>2, <2>3 DEF Retiring
  <1> QED BY <1>1, <1>2
-------------------------------------------------------------------------------
(* What a step of the worker does: it stays orderly, a retirement once     *)
(* proposed is never taken back, and only a worker past its reset proposes.*)
Proposes(f) == f.type = "retirement-proposal"

Kept(k) == k \in 1..Len(toClient) /\ toClient'[k] = toClient[k]

Worked ==
  /\ Orderly(worker') /\ Retiring(worker')
  /\ worker'.os \in {"running", "dead"}
  /\ worker.down \notin {"no", "reset"} => worker'.down \notin {"no", "reset"}
  /\ toClient' \in Seq(ToClient)
  /\ \A k \in 1..Len(toClient') :
       Proposes(toClient'[k]) => Kept(k) \/ worker'.down = "proposed"

(* The pipe to the worker while nobody writes to it.                       *)
Drained == \/ toWorker' = toWorker \/ toWorker' = <<>>
           \/ toWorker # <<>> /\ toWorker' = Tail(toWorker)

Sound == Piped /\ Orderly(worker) /\ Retiring(worker) /\ SentOnce

LEMMA SentStays ==
  ASSUME Piped, SentOnce, Drained, Unsent(client') \subseteq Unsent(client),
         worker'.active \subseteq worker.active
  PROVE  SentOnce' /\ toWorker' \in Seq(ToWorker)
  <1>1. Unsent(client') \subseteq Unsent(client)
    OBVIOUS
  <1>2. CASE toWorker' = toWorker
    BY <1>1, <1>2 DEF SentOnce, Piped
  <1>3. CASE toWorker' = <<>>
    <2>1. Len(toWorker') = 0 /\ toWorker' \in Seq(ToWorker)
      BY <1>3
    <2> QED BY <1>1, <2>1 DEF SentOnce
  <1>4. CASE toWorker # <<>> /\ toWorker' = Tail(toWorker)
    <2>1. /\ toWorker' \in Seq(ToWorker) /\ Len(toWorker') \in Nat
          /\ \A k \in 1..Len(toWorker') : toWorker'[k] = toWorker[k + 1] /\ k + 1 \in 1..Len(toWorker)
      BY <1>4, TailPlaces DEF Piped
    <2>2. \A k \in 1..Len(toWorker') : IsExecute(toWorker'[k]) =>
            toWorker'[k].id \notin worker'.active \cup Unsent(client')
      BY <1>1, <2>1 DEF SentOnce
    <2>3. \A k, l \in 1..Len(toWorker') :
            IsExecute(toWorker'[k]) /\ IsExecute(toWorker'[l]) /\ toWorker'[k].id = toWorker'[l].id
              => k = l
      BY <2>1 DEF SentOnce
    <2> QED BY <1>1, <2>1, <2>2, <2>3 DEF SentOnce
  <1> QED BY <1>2, <1>3, <1>4 DEF Drained

(* A step that sends nothing, or one frame that proposes nothing.          *)
Quiet ==
  /\ toClient' \in Seq(ToClient)
  /\ \A k \in 1..Len(toClient') : Proposes(toClient'[k]) => Kept(k)

LEMMA SendsNothing ==
  ASSUME Piped, Send(<<>>) \/ toClient' = toClient
  PROVE  Quiet
  <1>1. toClient' = toClient
    <2> QED BY ConcatEmptySeq DEF Piped, Send
  <1> QED BY <1>1 DEF Quiet, Kept, Piped

LEMMA SendsOne ==
  ASSUME Piped, NEW f \in ToClient, Send(<<f>>)
  PROVE  /\ toClient' \in Seq(ToClient)
         /\ \A k \in 1..Len(toClient') : Kept(k) \/ toClient'[k] = f
  <1> DEFINE t == <<f>>
  <1>1. t \in Seq(ToClient) /\ Len(t) = 1 /\ t[1] = f
    OBVIOUS
  <1>2. \A k \in 1..Len(t) : t[k] = f
    BY <1>1
  <1>3. toClient' = toClient \o t
    BY DEF Send
  <1> HIDE DEF t
  <1>4. /\ toClient' \in Seq(ToClient)
        /\ \A k \in 1..Len(toClient) : toClient'[k] = toClient[k]
        /\ \A k \in 1..Len(toClient') : k \notin 1..Len(toClient) =>
             k - Len(toClient) \in 1..Len(t) /\ toClient'[k] = t[k - Len(toClient)]
    BY <1>1, <1>3, JoinPlaces DEF Piped
  <1> QED BY <1>2, <1>4 DEF Kept

LEMMA Frames ==
  /\ \A i \in Ids \cup {NoId}, stage \in {"failure", "cleanup"} :
       ErrorFrame(i, stage) \in ToClient /\ ~Proposes(ErrorFrame(i, stage))
  /\ \A i \in Ids \cup {Boot} : ResultFrame(i) \in ToClient /\ ~Proposes(ResultFrame(i))
  /\ ProposalFrame \in ToClient
  <1>1. \A i, stage : ~Proposes(ErrorFrame(i, stage)) /\ ~Proposes(ResultFrame(i))
    BY DEF Proposes, ErrorFrame, ResultFrame
  <1> QED BY <1>1 DEF ToClient

LEMMA SendsQuietly ==
  ASSUME Piped
  PROVE  /\ \A i \in Ids \cup {NoId}, stage \in {"failure", "cleanup"} :
              Send(<<ErrorFrame(i, stage)>>) => Quiet
         /\ \A i \in Ids \cup {Boot} : Send(<<ResultFrame(i)>>) => Quiet
  <1>1. ASSUME NEW f \in ToClient, ~Proposes(f), Send(<<f>>) PROVE Quiet
    BY <1>1, SendsOne DEF Quiet
  <1> QED BY <1>1, Frames

(* A quiet step leaves a retirement where it is, or further.               *)
LEMMA QuietlyWorked ==
  ASSUME Orderly(worker'), Retiring(worker'), worker'.os \in {"running", "dead"}, Quiet,
         worker.down \notin {"no", "reset"} => worker'.down \notin {"no", "reset"}
  PROVE  Worked
  BY DEF Worked, Quiet

LEMMA FailWithWorks ==
  ASSUME Piped, SentOnce, UNCHANGED client, NEW w, Orderly(w), Retiring(w), w.job # NoId,
         w.os = "running", w.active = worker.active, w.down = worker.down,
         NEW stage \in {"failure", "cleanup"}, FailWith(w, stage)
  PROVE  Worked /\ SentOnce' /\ toWorker' \in Seq(ToWorker)
  <1>1. w \in WorkerType /\ w.job \in Ids /\ w.job \in w.active
    BY DEF Orderly, WorkerType
  <1>2. Quiet /\ Drained
    BY <1>1, SendsQuietly DEF FailWith, Drained
  <1>3. CASE w.ready
    <2> DEFINE r == [w EXCEPT !.at = "reset"]
    <2>1. worker' = r
      BY <1>3 DEF FailWith
    <2>2. r \in WorkerType
      BY <1>1 DEF WorkerType
    <2>3. /\ r.at = "reset" /\ r.job = w.job /\ r.active = w.active /\ r.queue = w.queue
          /\ r.os = w.os /\ r.down = w.down /\ r.ready = w.ready /\ r.fatal = w.fatal
          /\ r.cancelled = w.cancelled
      BY <1>1 DEF WorkerType
    <2> HIDE DEF r
    <2>4. Orderly(r)
      BY <2>2, <2>3 DEF Orderly, Queued
    <2>5. Retiring(r)
      BY <2>3 DEF Retiring
    <2> QED BY <1>2, <2>1, <2>3, <2>4, <2>5, QuietlyWorked, SentStays
  <1>4. CASE ~w.ready
    <2>1. worker' = Finished(w)
      BY <1>4 DEF FailWith
    <2>2. Orderly(Finished(w)) /\ Retiring(Finished(w))
      BY <1>4, FinishedOrderly, FinishedRetiring
    <2>3. Finished(w).active \subseteq worker.active /\ Finished(w).os = "running"
          /\ Finished(w).down = worker.down
      BY FinishedOrderly
    <2> QED BY <1>2, <2>1, <2>2, <2>3, QuietlyWorked, SentStays
  <1> QED BY <1>3, <1>4
-------------------------------------------------------------------------------
(* A worker whose requests stay where they are stays orderly.              *)
LEMMA StaysOrderly ==
  ASSUME NEW w, Orderly(w), NEW v \in WorkerType,
         v.active = w.active, v.queue = w.queue, v.job = w.job, v.at = w.at
  PROVE  Orderly(v)
  BY DEF Orderly, Queued

LEMMA DeadWorks ==
  ASSUME NEW w, Orderly(w), Retiring(w), NEW status \in {"zero", "nonzero", "SIGKILL"}
  PROVE  /\ Orderly(Dead(w, status)) /\ Retiring(Dead(w, status))
         /\ Dead(w, status).active = w.active /\ Dead(w, status).os = "dead"
         /\ Dead(w, status).down = w.down
  <1> DEFINE d == Dead(w, status)
  <1>1. w \in WorkerType /\ Queued(w)
    BY DEF Orderly
  <1>2. d \in WorkerType
    BY <1>1 DEF Dead, WorkerType
  <1>3. /\ d.at = "idle" /\ d.job = NoId /\ d.os = "dead" /\ d.active = w.active
        /\ d.queue = w.queue /\ d.down = w.down /\ d.ready = w.ready /\ d.fatal = w.fatal
    BY <1>1 DEF Dead, WorkerType
  <1>4. \A k \in 1..Len(w.queue) : w.queue[k] \in Ids /\ w.queue[k] # NoId
    BY <1>1, IdAssumption DEF WorkerType
  <1> HIDE DEF d
  <1>5. Orderly(d)
    BY <1>1, <1>2, <1>3, <1>4 DEF Orderly, Queued
  <1>6. Retiring(d)
    BY <1>3 DEF Retiring
  <1> QED BY <1>3, <1>5, <1>6 DEF d

LEMMA DiesWorks ==
  ASSUME Sound, UNCHANGED <<client, toClient>>, NEW status \in {"zero", "nonzero", "SIGKILL"},
         Dies(status)
  PROVE  Worked /\ SentOnce' /\ toWorker' \in Seq(ToWorker)
  <1>1. /\ Orderly(worker') /\ Retiring(worker') /\ worker'.active = worker.active
        /\ worker'.os = "dead" /\ worker'.down = worker.down
    BY DeadWorks DEF Dies, Sound
  <1>2. Quiet /\ Drained
    BY SendsNothing DEF Dies, Drained, Sound
  <1> QED BY <1>1, <1>2, QuietlyWorked, SentStays DEF Sound

(* A step that tells at most an error or a result and only notes something.*)
LEMMA NotesWork ==
  ASSUME Sound, UNCHANGED client, worker' \in WorkerType, worker'.os = "running",
         worker'.active = worker.active, worker'.queue = worker.queue,
         worker'.job = worker.job, worker'.at = worker.at, Retiring(worker'),
         worker.down \notin {"no", "reset"} => worker'.down \notin {"no", "reset"},
         Drained, Quiet
  PROVE  Worked /\ SentOnce' /\ toWorker' \in Seq(ToWorker)
  <1>1. Orderly(worker')
    BY StaysOrderly DEF Sound
  <1> QED BY <1>1, QuietlyWorked, SentStays DEF Sound

LEMMA RefuseWorks ==
  ASSUME Sound, UNCHANGED client, Running, NEW w \in WorkerType,
         w.os = worker.os, w.active = worker.active, w.queue = worker.queue, w.job = worker.job,
         w.at = worker.at, w.down = worker.down, w.ready = worker.ready, w.fatal = worker.fatal,
         w.cancelled = worker.cancelled,
         Drained, NEW stage \in {"failure", "cleanup"}, Refuse(w, stage)
  PROVE  Worked /\ SentOnce' /\ toWorker' \in Seq(ToWorker)
  <1>1. Retiring(w)
    BY DEF Sound, Retiring
  <1>2. CASE w.fatal
    <2>1. worker' = w /\ Quiet
      BY <1>2, SendsNothing DEF Refuse, Sound
    <2> QED BY <1>1, <2>1, NotesWork DEF Running
  <1>3. CASE ~w.fatal
    <2> DEFINE r == [w EXCEPT !.shuttingDown = TRUE]
    <2>1. worker' = r /\ Quiet
      BY <1>3, SendsQuietly DEF Refuse, Sound
    <2>2. r \in WorkerType
      BY DEF WorkerType
    <2>3. /\ r.os = w.os /\ r.active = w.active /\ r.queue = w.queue /\ r.job = w.job
          /\ r.at = w.at /\ r.down = w.down /\ r.ready = w.ready /\ r.fatal = w.fatal
          /\ r.cancelled = w.cancelled
      BY DEF WorkerType
    <2> HIDE DEF r
    <2>4. Retiring(r)
      BY <1>1, <2>3 DEF Retiring
    <2> QED BY <2>1, <2>2, <2>3, <2>4, NotesWork DEF Running
  <1> QED BY <1>2, <1>3
-------------------------------------------------------------------------------
(* The frames a worker takes.                                              *)
LEMMA FrameKinds ==
  ASSUME NEW f \in ToWorker
  PROVE  /\ f.type \in {"bootstrap", "execute", "shutdown", "retirement-ack"}
         /\ IsExecute(f) => f.id \in Ids
  BY DEF ToWorker, IsExecute, BootstrapFrame, ShutdownFrame, AckFrame, ExecuteFrame

LEMMA TakeExecuteWorks ==
  ASSUME Sound, UNCHANGED client, Running, toWorker # <<>>, IsExecute(Head(toWorker)),
         TakeExecute(Head(toWorker).id), toWorker' = Tail(toWorker)
  PROVE  Worked /\ SentOnce' /\ toWorker' \in Seq(ToWorker)
  <1> DEFINE i == Head(toWorker).id
  <1>1. worker \in WorkerType /\ Queued(worker) /\ Drained
    BY DEF Sound, Orderly, Drained
  <1>2. /\ Head(toWorker) = toWorker[1] /\ Head(toWorker) \in ToWorker /\ toWorker' \in Seq(ToWorker)
        /\ Len(toWorker) \in Nat /\ Len(toWorker) >= 1
        /\ \A k \in 1..Len(toWorker') : toWorker'[k] = toWorker[k + 1] /\ k + 1 \in 1..Len(toWorker)
    BY TailPlaces DEF Sound, Piped
  <1>3. i \in Ids
    BY <1>2, FrameKinds
  <1>4. 1 \in 1..Len(toWorker)
    BY <1>2
  <1>5. i \notin worker.active /\ i \notin Unsent(client)
    BY <1>2, <1>4 DEF Sound, SentOnce
  <1>6. CASE worker.shuttingDown \/ worker.fatal
    BY <1>1, <1>6, RefuseWorks DEF TakeExecute
  <1>7. CASE ~(worker.shuttingDown \/ worker.fatal)
    <2> DEFINE w == [worker EXCEPT !.active = @ \cup {i}, !.queue = Append(@, i)]
    <2>1. worker' = Pumped(w) /\ Quiet
      BY <1>7, SendsNothing DEF TakeExecute, Sound
    <2>2. w \in WorkerType
      <3>1. Append(worker.queue, i) \in Seq(Ids) /\ worker.active \cup {i} \in SUBSET Ids
        BY <1>1, <1>3 DEF WorkerType
      <3> HIDE DEF i
      <3> QED BY <1>1, <3>1 DEF WorkerType
    <2>3. /\ w.active = worker.active \cup {i} /\ w.queue = Append(worker.queue, i)
          /\ w.job = worker.job /\ w.at = worker.at /\ w.os = worker.os /\ w.down = worker.down
      BY <1>1 DEF WorkerType
    <2>4. /\ worker.queue \in Seq(Ids) /\ Len(worker.queue) \in Nat
          /\ Len(w.queue) = Len(worker.queue) + 1 /\ w.queue[Len(worker.queue) + 1] = i
          /\ \A k \in 1..Len(worker.queue) : w.queue[k] = worker.queue[k]
      BY <1>1, <1>3, <2>3 DEF WorkerType
    <2>5. worker.job # i
      BY <1>5, <1>3, IdAssumption DEF Sound, Orderly
    <2>6. \A k \in 1..Len(w.queue) : k \in 1..Len(worker.queue) \/ k = Len(worker.queue) + 1
      BY <2>4
    <2> HIDE DEF w
    <2>7. Queued(w)
      <3>1. \A k \in 1..Len(w.queue) : w.queue[k] \in w.active /\ w.queue[k] # w.job
        BY <1>1, <2>3, <2>4, <2>5, <2>6 DEF Queued
      <3>2. \A k \in 1..Len(worker.queue) : worker.queue[k] # i
        BY <1>1, <1>5 DEF Queued
      <3>3. \A k, l \in 1..Len(w.queue) : w.queue[k] = w.queue[l] => k = l
        BY <1>1, <3>2, <2>4, <2>6 DEF Queued
      <3> QED BY <3>1, <3>3 DEF Queued
    <2>8. /\ Orderly(worker') /\ worker'.active = worker.active \cup {i}
          /\ worker'.os = "running" /\ worker'.down = worker.down
      BY <2>1, <2>2, <2>3, <2>7, PumpedOrderly DEF Sound, Orderly, Running
    <2>9. worker.down = "no"
      BY <1>7 DEF Sound, Retiring
    <2>10. Retiring(worker')
      BY <2>8, <2>9 DEF Retiring
    <2>11. SentOnce'
      <3>1. worker'.active \cap Unsent(client') = {}
        BY <1>5, <2>8 DEF Sound, SentOnce
      <3>2. \A k \in 1..Len(toWorker') : IsExecute(toWorker'[k]) =>
              toWorker'[k].id # i /\ toWorker'[k].id \notin worker.active \cup Unsent(client)
        <4>1. \A k \in 1..Len(toWorker') : k + 1 # 1 /\ k + 1 \in 1..Len(toWorker)
          BY <1>2
        <4> QED BY <1>2, <1>4, <4>1 DEF Sound, SentOnce
      <3>3. \A k, l \in 1..Len(toWorker') :
              IsExecute(toWorker'[k]) /\ IsExecute(toWorker'[l]) /\ toWorker'[k].id = toWorker'[l].id
                => k = l
        BY <1>2 DEF Sound, SentOnce
      <3> QED BY <2>8, <3>1, <3>2, <3>3 DEF SentOnce
    <2> QED BY <1>2, <2>1, <2>8, <2>10, <2>11, QuietlyWorked
  <1> QED BY <1>6, <1>7

(* A shutdown cancels and forgets: no command runs, nothing is queued.     *)
LEMMA QuiescedOrderly ==
  ASSUME Sound
  PROVE  /\ Quiesced(worker) \in WorkerType /\ Orderly(Quiesced(worker))
         /\ Quiesced(worker).active = worker.active /\ Quiesced(worker).os = worker.os
         /\ Quiesced(worker).down = worker.down /\ Quiesced(worker).ready = worker.ready
         /\ Quiesced(worker).fatal /\ Quiesced(worker).queue = <<>>
         /\ Quiesced(worker).at = worker.at /\ Quiesced(worker).job = worker.job
         /\ Quiesced(worker).cancelled = worker.active
  <1> DEFINE q == Quiesced(worker)
  <1>1. worker \in WorkerType
    BY DEF Sound, Orderly
  <1>2. q \in WorkerType
    <2>1. worker.active \in SUBSET Ids /\ <<>> \in Seq(Ids)
      BY <1>1 DEF WorkerType
    <2> QED BY <1>1, <2>1 DEF Quiesced, WorkerType
  <1>3. /\ q.active = worker.active /\ q.os = worker.os /\ q.down = worker.down
        /\ q.ready = worker.ready /\ q.fatal /\ q.queue = <<>> /\ q.at = worker.at
        /\ q.job = worker.job /\ q.cancelled = worker.active
    BY <1>1 DEF Quiesced, WorkerType
  <1> HIDE DEF q
  <1>4. Queued(q)
    <2>1. Len(q.queue) = 0
      BY <1>3
    <2> QED BY <2>1 DEF Queued
  <1>5. Orderly(q)
    BY <1>2, <1>3, <1>4 DEF Sound, Orderly
  <1> QED BY <1>2, <1>3, <1>5 DEF q

LEMMA TakeShutdownWorks ==
  ASSUME Sound, UNCHANGED client, Running, TakeShutdown, Drained
  PROVE  Worked /\ SentOnce' /\ toWorker' \in Seq(ToWorker)
  <1>1. worker \in WorkerType /\ Retiring(worker) /\ Piped
    BY DEF Sound, Orderly
  <1> DEFINE q == Quiesced(worker)
  <1>2. /\ q \in WorkerType /\ Orderly(q) /\ q.active = worker.active /\ q.os = "running"
        /\ q.down = worker.down /\ q.ready = worker.ready /\ q.fatal /\ q.queue = <<>>
        /\ q.at = worker.at /\ q.job = worker.job /\ q.cancelled = worker.active
    BY QuiescedOrderly DEF Running
  <1>3. worker.job # NoId => worker.job \in worker.active
    BY DEF Sound, Orderly
  <1>4. CASE worker.fatal
    <2> DEFINE r == [worker EXCEPT !.shuttingDown = TRUE]
    <2>1. worker' = r /\ Quiet
      BY <1>1, <1>4, SendsNothing DEF TakeShutdown
    <2>2. r \in WorkerType
      BY <1>1 DEF WorkerType
    <2>3. /\ r.os = worker.os /\ r.active = worker.active /\ r.queue = worker.queue
          /\ r.job = worker.job /\ r.at = worker.at /\ r.down = worker.down
          /\ r.ready = worker.ready /\ r.fatal = worker.fatal /\ r.cancelled = worker.cancelled
      BY <1>1 DEF WorkerType
    <2> HIDE DEF r
    <2>4. Retiring(r)
      BY <1>1, <2>3 DEF Retiring
    <2> QED BY <2>1, <2>2, <2>3, <2>4, NotesWork DEF Running
  <1>5. CASE ~worker.fatal
    <2>1. worker.down = "no"
      BY <1>1, <1>5 DEF Retiring
    <2> HIDE DEF q
    <2>2. CASE worker.at = "child"
      <3>1. worker' = Dead(q, "SIGKILL") /\ Quiet
        BY <1>1, <1>5, <2>2, SendsNothing DEF TakeShutdown, q
      <3>2. Retiring(q)
        BY <1>2, <2>1 DEF Retiring
      <3>3. Orderly(worker') /\ Retiring(worker') /\ worker'.active = worker.active
            /\ worker'.os = "dead" /\ worker'.down = "no"
        BY <1>2, <2>1, <3>1, <3>2, DeadWorks
      <3> QED BY <1>1, <2>1, <3>1, <3>3, QuietlyWorked, SentStays DEF Sound
    <2>3. CASE worker.at # "child" /\ worker.ready
      <3> DEFINE r == [q EXCEPT !.down = "reset"]
      <3>1. worker' = r /\ Quiet
        BY <1>1, <1>5, <2>3, SendsNothing DEF TakeShutdown, q
      <3>2. r \in WorkerType
        BY <1>2 DEF WorkerType
      <3>3. /\ r.os = q.os /\ r.active = q.active /\ r.queue = q.queue /\ r.job = q.job
            /\ r.at = q.at /\ r.down = "reset" /\ r.fatal = q.fatal /\ r.cancelled = q.cancelled
        BY <1>2 DEF WorkerType
      <3> HIDE DEF r
      <3>4. Orderly(r) /\ Retiring(r)
        BY <1>2, <1>3, <2>3, <3>2, <3>3, StaysOrderly DEF Retiring
      <3>5. worker'.active = worker.active /\ worker'.os = "running"
        BY <1>2, <3>1, <3>3
      <3> QED BY <1>1, <2>1, <3>1, <3>4, <3>5, QuietlyWorked, SentStays DEF Sound
    <2>4. CASE worker.at # "child" /\ ~worker.ready
      <3> DEFINE r == [q EXCEPT !.down = "proposed"]
      <3>1. worker' = r /\ Send(<<ProposalFrame>>)
        BY <1>5, <2>4 DEF TakeShutdown, q
      <3>2. r \in WorkerType
        BY <1>2 DEF WorkerType
      <3>3. /\ r.os = q.os /\ r.active = q.active /\ r.queue = q.queue /\ r.job = q.job
            /\ r.at = q.at /\ r.down = "proposed" /\ r.fatal = q.fatal
            /\ r.cancelled = q.cancelled /\ r.ready = q.ready
        BY <1>2 DEF WorkerType
      <3> HIDE DEF r
      <3>4. Orderly(r) /\ Retiring(r)
        BY <1>2, <1>3, <2>4, <3>2, <3>3, StaysOrderly DEF Retiring
      <3>5. worker'.active = worker.active /\ worker'.os = "running" /\ worker'.down = "proposed"
        BY <1>2, <3>1, <3>3
      <3>6. /\ toClient' \in Seq(ToClient)
            /\ \A k \in 1..Len(toClient') : Kept(k) \/ toClient'[k] = ProposalFrame
        BY <1>1, <3>1, Frames, SendsOne
      <3>7. Worked
        BY <2>1, <3>1, <3>4, <3>5, <3>6 DEF Worked
      <3> QED BY <1>1, <3>5, <3>7, SentStays DEF Sound
    <2> QED BY <2>2, <2>3, <2>4
  <1> QED BY <1>4, <1>5

LEMMA TakeAckWorks ==
  ASSUME Sound, UNCHANGED client, Running, TakeAck, Drained
  PROVE  Worked /\ SentOnce' /\ toWorker' \in Seq(ToWorker)
  <1>1. worker \in WorkerType /\ Retiring(worker) /\ Piped
    BY DEF Sound, Orderly
  <1>2. CASE worker.down = "proposed"
    <2> DEFINE r == [worker EXCEPT !.down = "acked"]
    <2>1. worker' = r /\ Quiet
      BY <1>1, <1>2, SendsNothing DEF TakeAck
    <2>2. r \in WorkerType
      BY <1>1 DEF WorkerType
    <2>3. /\ r.os = worker.os /\ r.active = worker.active /\ r.queue = worker.queue
          /\ r.job = worker.job /\ r.at = worker.at /\ r.down = "acked"
          /\ r.ready = worker.ready /\ r.fatal = worker.fatal /\ r.cancelled = worker.cancelled
      BY <1>1 DEF WorkerType
    <2> HIDE DEF r
    <2>4. Retiring(r)
      BY <1>1, <1>2, <2>3 DEF Retiring
    <2> QED BY <2>1, <2>2, <2>3, <2>4, NotesWork DEF Running
  <1>3. CASE worker.down # "proposed"
    BY <1>1, <1>3, RefuseWorks DEF TakeAck
  <1> QED BY <1>2, <1>3

LEMMA ParseInputWorks ==
  ASSUME Sound, UNCHANGED client, ParseInput
  PROVE  Worked /\ SentOnce' /\ toWorker' \in Seq(ToWorker)
  <1>1. /\ worker \in WorkerType /\ Retiring(worker) /\ Piped /\ Running /\ toWorker # <<>>
        /\ Drained
    BY DEF Sound, Orderly, ParseInput, Drained
  <1> DEFINE f == Head(toWorker)
  <1>2. CASE f.type = "bootstrap" /\ worker' = [worker EXCEPT !.scope = "deriving"] /\ Send(<<>>)
    <2> DEFINE r == [worker EXCEPT !.scope = "deriving"]
    <2>1. worker' = r /\ Quiet
      BY <1>1, <1>2, SendsNothing
    <2>2. r \in WorkerType
      BY <1>1 DEF WorkerType
    <2>3. /\ r.os = worker.os /\ r.active = worker.active /\ r.queue = worker.queue
          /\ r.job = worker.job /\ r.at = worker.at /\ r.down = worker.down
          /\ r.ready = worker.ready /\ r.fatal = worker.fatal /\ r.cancelled = worker.cancelled
      BY <1>1 DEF WorkerType
    <2> HIDE DEF r
    <2>4. Retiring(r)
      BY <1>1, <2>3 DEF Retiring
    <2> QED BY <1>1, <2>1, <2>2, <2>3, <2>4, NotesWork DEF Running
  <1>3. CASE f.type = "execute" /\ TakeExecute(f.id)
    <2>1. worker'.os # "dead"
      <3>1. CASE worker.shuttingDown \/ worker.fatal
        BY <1>1, <1>3, <3>1 DEF TakeExecute, Refuse, WorkerType, Running
      <3>2. CASE ~(worker.shuttingDown \/ worker.fatal)
        BY <1>1, <1>3, <3>2 DEF TakeExecute, Pumped, WorkerType, Running
      <3> QED BY <3>1, <3>2
    <2>2. toWorker' = Tail(toWorker)
      BY <2>1 DEF ParseInput
    <2> QED BY <1>1, <1>3, <2>2, TakeExecuteWorks DEF IsExecute
  <1>4. CASE f.type = "shutdown" /\ TakeShutdown
    BY <1>1, <1>4, TakeShutdownWorks
  <1>5. CASE f.type = "retirement-ack" /\ TakeAck
    BY <1>1, <1>5, TakeAckWorks
  <1> QED BY <1>2, <1>3, <1>4, <1>5 DEF ParseInput
-------------------------------------------------------------------------------
(* What the worker does of its own.                                        *)
LEMMA BootstrapEndsWorks ==
  ASSUME Sound, UNCHANGED client, NEW ok \in BOOLEAN, BootstrapEnds(ok)
  PROVE  Worked /\ SentOnce' /\ toWorker' \in Seq(ToWorker)
  <1>1. worker \in WorkerType /\ Retiring(worker) /\ Piped /\ Running /\ Drained
    BY DEF Sound, Orderly, BootstrapEnds, Drained
  <1>2. ASSUME NEW scope \in {"none", "fixed"}
        PROVE  LET r == [worker EXCEPT !.scope = scope]
               IN  /\ r \in WorkerType
                   /\ r.os = worker.os /\ r.active = worker.active /\ r.queue = worker.queue
                   /\ r.job = worker.job /\ r.at = worker.at /\ r.down = worker.down
                   /\ r.ready = worker.ready /\ r.fatal = worker.fatal
                   /\ r.cancelled = worker.cancelled
    BY <1>1 DEF WorkerType
  <1>3. CASE worker' = [worker EXCEPT !.scope = "fixed"] /\ Send(<<ResultFrame(Boot)>>)
    <2> DEFINE r == [worker EXCEPT !.scope = "fixed"]
    <2>1. worker' = r /\ Quiet
      BY <1>1, <1>3, SendsQuietly
    <2>2. /\ r \in WorkerType
          /\ r.os = worker.os /\ r.active = worker.active /\ r.queue = worker.queue
          /\ r.job = worker.job /\ r.at = worker.at /\ r.down = worker.down
          /\ r.ready = worker.ready /\ r.fatal = worker.fatal /\ r.cancelled = worker.cancelled
      BY <1>2
    <2> HIDE DEF r
    <2>3. Retiring(r)
      BY <1>1, <2>2 DEF Retiring
    <2> QED BY <1>1, <2>1, <2>2, <2>3, NotesWork DEF Running
  <1>4. CASE Refuse([worker EXCEPT !.scope = "none"], "failure")
    <2> DEFINE r == [worker EXCEPT !.scope = "none"]
    <2>1. /\ r \in WorkerType
          /\ r.os = worker.os /\ r.active = worker.active /\ r.queue = worker.queue
          /\ r.job = worker.job /\ r.at = worker.at /\ r.down = worker.down
          /\ r.ready = worker.ready /\ r.fatal = worker.fatal /\ r.cancelled = worker.cancelled
      BY <1>2
    <2>2. Refuse(r, "failure")
      BY <1>4
    <2> HIDE DEF r
    <2> QED BY <1>1, <2>1, <2>2, RefuseWorks
  <1> QED BY <1>3, <1>4 DEF BootstrapEnds

(* A request that fails leaves the worker as it was but for what it notes. *)
LEMMA FailureWorks ==
  ASSUME Sound, UNCHANGED client, Running, worker.job # NoId, NEW w \in WorkerType,
         w.os = worker.os, w.active = worker.active, w.queue = worker.queue, w.job = worker.job,
         w.at = worker.at, w.down = worker.down, w.fatal = worker.fatal,
         w.cancelled = worker.cancelled, w.ready => worker.ready,
         NEW stage \in {"failure", "cleanup"}, FailWith(w, stage)
  PROVE  Worked /\ SentOnce' /\ toWorker' \in Seq(ToWorker)
  <1>1. Orderly(w)
    BY StaysOrderly DEF Sound
  <1>2. Retiring(w)
    BY DEF Sound, Retiring
  <1> QED BY <1>1, <1>2, FailWithWorks DEF Sound, Running

LEMMA Busy ==
  ASSUME Sound, worker.at # "idle"
  PROVE  worker \in WorkerType /\ worker.job # NoId /\ worker.job \in worker.active
  BY DEF Sound, Orderly

LEMMA SrtEnsuredWorks ==
  ASSUME Sound, UNCHANGED client, NEW ok \in BOOLEAN, SrtEnsured(ok)
  PROVE  Worked /\ SentOnce' /\ toWorker' \in Seq(ToWorker)
  <1>1. Running /\ worker.at = "init"
    BY DEF SrtEnsured
  <1>2. worker \in WorkerType /\ worker.job # NoId /\ worker.job \in worker.active
    BY <1>1, Busy
  <1>3. Retiring(worker) /\ Piped /\ Orderly(worker)
    BY DEF Sound
  <1>4. CASE FailWith(worker, "failure")
    BY <1>1, <1>2, <1>4, FailureWorks
  <1>5. CASE FailWith([worker EXCEPT !.poisoned = TRUE, !.ready = FALSE], "failure")
    <2> DEFINE r == [worker EXCEPT !.poisoned = TRUE, !.ready = FALSE]
    <2>1. r \in WorkerType
      BY <1>2 DEF WorkerType
    <2>2. /\ r.os = worker.os /\ r.active = worker.active /\ r.queue = worker.queue
          /\ r.job = worker.job /\ r.at = worker.at /\ r.down = worker.down
          /\ ~r.ready /\ r.fatal = worker.fatal /\ r.cancelled = worker.cancelled
      BY <1>2 DEF WorkerType
    <2>3. FailWith(r, "failure")
      BY <1>5
    <2> HIDE DEF r
    <2> QED BY <1>1, <1>2, <2>1, <2>2, <2>3, FailureWorks
  <1>6. CASE /\ worker' = [worker EXCEPT !.ready = TRUE, !.at = "wrap"]
             /\ UNCHANGED <<toWorker, toClient>>
    <2> DEFINE r == [worker EXCEPT !.ready = TRUE, !.at = "wrap"]
    <2>1. worker' = r /\ Quiet /\ Drained
      BY <1>3, <1>6, SendsNothing DEF Drained
    <2>2. r \in WorkerType
      BY <1>2 DEF WorkerType
    <2>3. /\ r.os = worker.os /\ r.active = worker.active /\ r.queue = worker.queue
          /\ r.job = worker.job /\ r.at = "wrap" /\ r.down = worker.down
          /\ r.fatal = worker.fatal /\ r.cancelled = worker.cancelled
      BY <1>2 DEF WorkerType
    <2> HIDE DEF r
    <2>4. Orderly(r)
      BY <1>2, <1>3, <2>2, <2>3 DEF Orderly, Queued
    <2>5. Retiring(r)
      BY <1>2, <1>3, <2>3 DEF Retiring
    <2> QED BY <1>1, <1>3, <2>1, <2>3, <2>4, <2>5, QuietlyWorked, SentStays DEF Running, Sound
  <1> QED BY <1>4, <1>5, <1>6 DEF SrtEnsured

LEMMA BodyFailsWorks ==
  ASSUME Sound, UNCHANGED client, Running, worker.at # "idle", NEW cleaned \in BOOLEAN,
         BodyFails(cleaned)
  PROVE  Worked /\ SentOnce' /\ toWorker' \in Seq(ToWorker)
  <1>1. worker \in WorkerType /\ worker.job # NoId /\ worker.job \in worker.active
    BY Busy
  <1> DEFINE r == [worker EXCEPT !.poisoned = @ \/ ~cleaned]
  <1>2. (worker.poisoned \/ ~cleaned) \in BOOLEAN
    OBVIOUS
  <1>3. r \in WorkerType
    BY <1>1, <1>2 DEF WorkerType
  <1>4. /\ r.os = worker.os /\ r.active = worker.active /\ r.queue = worker.queue
        /\ r.job = worker.job /\ r.at = worker.at /\ r.down = worker.down
        /\ r.ready = worker.ready /\ r.fatal = worker.fatal /\ r.cancelled = worker.cancelled
    BY <1>1 DEF WorkerType
  <1>5. \E stage \in {"failure", "cleanup"} : FailWith(r, stage)
    BY DEF BodyFails
  <1> HIDE DEF r
  <1> QED BY <1>1, <1>3, <1>4, <1>5, FailureWorks

LEMMA WrappedWorks ==
  ASSUME Sound, UNCHANGED client, NEW ok \in BOOLEAN, NEW cleaned \in BOOLEAN,
         Wrapped(ok, cleaned)
  PROVE  Worked /\ SentOnce' /\ toWorker' \in Seq(ToWorker)
  <1>1. Running /\ worker.at = "wrap" /\ Piped /\ Retiring(worker) /\ Orderly(worker)
    BY DEF Wrapped, Sound
  <1>2. worker \in WorkerType /\ worker.job # NoId /\ worker.job \in worker.active
    BY <1>1, Busy
  <1>3. CASE BodyFails(cleaned)
    BY <1>1, <1>3, BodyFailsWorks
  <1>4. CASE /\ worker.job \notin worker.cancelled
             /\ worker' = [worker EXCEPT !.at = "child"]
             /\ UNCHANGED <<toWorker, toClient>>
    <2> DEFINE r == [worker EXCEPT !.at = "child"]
    <2>1. worker' = r /\ Quiet /\ Drained
      BY <1>1, <1>4, SendsNothing DEF Drained
    <2>2. r \in WorkerType
      BY <1>2 DEF WorkerType
    <2>3. /\ r.os = worker.os /\ r.active = worker.active /\ r.queue = worker.queue
          /\ r.job = worker.job /\ r.at = "child" /\ r.down = worker.down
      BY <1>2 DEF WorkerType
    <2>4. worker.down = "no"
      BY <1>1, <1>2, <1>4 DEF Retiring
    <2> HIDE DEF r
    <2>5. Orderly(r) /\ Retiring(r)
      BY <1>1, <1>2, <2>2, <2>3, <2>4 DEF Orderly, Queued, Retiring
    <2> QED BY <1>1, <2>1, <2>3, <2>5, QuietlyWorked, SentStays DEF Running, Sound
  <1> QED BY <1>3, <1>4 DEF Wrapped

LEMMA ChildClosesWorks ==
  ASSUME Sound, UNCHANGED client, NEW ok \in BOOLEAN, NEW cleaned \in BOOLEAN,
         ChildCloses(ok, cleaned)
  PROVE  Worked /\ SentOnce' /\ toWorker' \in Seq(ToWorker)
  <1>1. Running /\ worker.at = "child" /\ Piped /\ Retiring(worker) /\ Orderly(worker)
    BY DEF ChildCloses, Sound
  <1>2. worker \in WorkerType /\ worker.job # NoId /\ worker.job \in worker.active
    BY <1>1, Busy
  <1>3. CASE BodyFails(cleaned)
    BY <1>1, <1>3, BodyFailsWorks
  <1>4. CASE worker' = Finished(worker) /\ Send(<<ResultFrame(worker.job)>>) /\ UNCHANGED toWorker
    <2>1. worker.down = "no"
      BY <1>1 DEF Retiring
    <2>2. worker.job \in Ids
      BY <1>2 DEF WorkerType
    <2>3. Quiet /\ Drained
      BY <1>1, <1>4, <2>2, SendsQuietly DEF Drained
    <2>4. /\ Orderly(worker') /\ worker'.active \subseteq worker.active
          /\ worker'.os = "running" /\ worker'.down = worker.down
      BY <1>1, <1>4, FinishedOrderly DEF Running
    <2>5. Retiring(worker')
      BY <1>1, <1>4, <2>1, FinishedRetiring
    <2> QED BY <1>1, <2>3, <2>4, <2>5, QuietlyWorked, SentStays DEF Sound
  <1> QED BY <1>3, <1>4 DEF ChildCloses

LEMMA FailureResetWorks ==
  ASSUME Sound, UNCHANGED client, NEW ok \in BOOLEAN, FailureReset(ok)
  PROVE  Worked /\ SentOnce' /\ toWorker' \in Seq(ToWorker)
  <1>1. Running /\ worker.at = "reset" /\ Piped /\ Retiring(worker) /\ Orderly(worker)
    BY DEF FailureReset, Sound
  <1>2. worker \in WorkerType
    BY <1>1 DEF Orderly
  <1> DEFINE r == [worker EXCEPT !.ready = FALSE]
  <1>3. worker' = Finished(r)
    BY DEF FailureReset
  <1>4. r \in WorkerType
    BY <1>2 DEF WorkerType
  <1>5. /\ r.os = worker.os /\ r.active = worker.active /\ r.queue = worker.queue
        /\ r.job = worker.job /\ r.at = worker.at /\ r.down = worker.down
        /\ ~r.ready /\ r.fatal = worker.fatal /\ r.cancelled = worker.cancelled
    BY <1>2 DEF WorkerType
  <1>6. Quiet /\ Drained
    <2>1. CASE ok
      BY <1>1, <2>1, SendsNothing DEF FailureReset, Drained
    <2>2. CASE ~ok
      BY <1>1, <2>2, SendsQuietly DEF FailureReset, Drained
    <2> QED BY <2>1, <2>2
  <1> HIDE DEF r
  <1>7. Orderly(r) /\ Retiring(r)
    BY <1>1, <1>4, <1>5, StaysOrderly DEF Retiring
  <1>8. /\ Orderly(worker') /\ worker'.active \subseteq worker.active
        /\ worker'.os = "running" /\ worker'.down = worker.down
    BY <1>1, <1>3, <1>5, <1>7, FinishedOrderly DEF Running
  <1>9. Retiring(worker')
    BY <1>3, <1>5, <1>7, FinishedRetiring
  <1> QED BY <1>1, <1>6, <1>8, <1>9, QuietlyWorked, SentStays DEF Sound

LEMMA ShutdownResetWorks ==
  ASSUME Sound, UNCHANGED client, NEW ok \in BOOLEAN, ShutdownReset(ok)
  PROVE  Worked /\ SentOnce' /\ toWorker' \in Seq(ToWorker)
  <1>1. /\ Running /\ worker.down = "reset" /\ Piped /\ Retiring(worker) /\ Orderly(worker)
        /\ Drained
    BY DEF ShutdownReset, Sound, Drained
  <1>2. worker \in WorkerType
    BY <1>1 DEF Orderly
  <1>3. ASSUME NEW down \in {"proposed", "exit"}, worker' = [worker EXCEPT !.ready = FALSE, !.down = down]
        PROVE  /\ worker' \in WorkerType /\ Retiring(worker') /\ Orderly(worker')
               /\ worker'.os = "running" /\ worker'.active = worker.active /\ worker'.down = down
    <2> DEFINE r == [worker EXCEPT !.ready = FALSE, !.down = down]
    <2>1. r \in WorkerType
      BY <1>2 DEF WorkerType
    <2>2. /\ r.os = worker.os /\ r.active = worker.active /\ r.queue = worker.queue
          /\ r.job = worker.job /\ r.at = worker.at /\ r.down = down
          /\ ~r.ready /\ r.fatal = worker.fatal /\ r.cancelled = worker.cancelled
      BY <1>2 DEF WorkerType
    <2>3. worker' = r
      BY <1>3
    <2> HIDE DEF r
    <2> QED BY <1>1, <2>1, <2>2, <2>3, StaysOrderly DEF Retiring, Running
  <1>4. CASE worker' = [worker EXCEPT !.ready = FALSE, !.down = "exit"]
             /\ Send(<<ErrorFrame(NoId, "cleanup")>>)
    <2>1. Quiet
      BY <1>1, <1>4, SendsQuietly
    <2> QED BY <1>1, <1>3, <1>4, <2>1, QuietlyWorked, SentStays DEF Sound
  <1>5. CASE worker' = [worker EXCEPT !.ready = FALSE, !.down = "proposed"]
             /\ Send(<<ProposalFrame>>)
    <2>1. /\ toClient' \in Seq(ToClient)
          /\ \A k \in 1..Len(toClient') : Kept(k) \/ toClient'[k] = ProposalFrame
      BY <1>1, <1>5, Frames, SendsOne
    <2>2. /\ worker' \in WorkerType /\ Retiring(worker') /\ Orderly(worker')
          /\ worker'.os = "running" /\ worker'.active = worker.active /\ worker'.down = "proposed"
      BY <1>3, <1>5
    <2>3. Worked
      BY <2>1, <2>2 DEF Worked
    <2> QED BY <1>1, <2>2, <2>3, SentStays DEF Sound
  <1> QED BY <1>4, <1>5 DEF ShutdownReset

LEMMA AckDeadlineWorks ==
  ASSUME Sound, UNCHANGED client, AckDeadline
  PROVE  Worked /\ SentOnce' /\ toWorker' \in Seq(ToWorker)
  <1>1. worker \in WorkerType /\ Retiring(worker) /\ Piped /\ Running /\ Drained /\ Quiet
    BY SendsNothing DEF Sound, Orderly, AckDeadline, Drained
  <1> DEFINE r == [worker EXCEPT !.down = "exit"]
  <1>2. worker' = r /\ worker.down = "proposed"
    BY DEF AckDeadline
  <1>3. r \in WorkerType
    BY <1>1 DEF WorkerType
  <1>4. /\ r.os = worker.os /\ r.active = worker.active /\ r.queue = worker.queue
        /\ r.job = worker.job /\ r.at = worker.at /\ r.down = "exit"
        /\ r.ready = worker.ready /\ r.fatal = worker.fatal /\ r.cancelled = worker.cancelled
    BY <1>1 DEF WorkerType
  <1> HIDE DEF r
  <1>5. Retiring(r)
    BY <1>1, <1>2, <1>4 DEF Retiring
  <1> QED BY <1>1, <1>2, <1>3, <1>4, <1>5, NotesWork DEF Running

LEMMA WorkerWorks ==
  ASSUME Sound, UNCHANGED client, WorkerStep
  PROVE  Running /\ Worked /\ SentOnce' /\ toWorker' \in Seq(ToWorker)
  <1>1. CASE ParseInput
    BY <1>1, ParseInputWorks DEF ParseInput
  <1>2. ASSUME NEW ok \in BOOLEAN, BootstrapEnds(ok) \/ SrtEnsured(ok) \/ FailureReset(ok)
                                   \/ ShutdownReset(ok)
        PROVE  Running /\ Worked /\ SentOnce' /\ toWorker' \in Seq(ToWorker)
    <2>1. Running
      BY <1>2 DEF BootstrapEnds, SrtEnsured, FailureReset, ShutdownReset
    <2> QED BY <1>2, <2>1, BootstrapEndsWorks, SrtEnsuredWorks, FailureResetWorks,
               ShutdownResetWorks
  <1>3. ASSUME NEW ok \in BOOLEAN, NEW cleaned \in BOOLEAN,
               Wrapped(ok, cleaned) \/ ChildCloses(ok, cleaned)
        PROVE  Running /\ Worked /\ SentOnce' /\ toWorker' \in Seq(ToWorker)
    <2>1. Running
      BY <1>3 DEF Wrapped, ChildCloses
    <2> QED BY <1>3, <2>1, WrappedWorks, ChildClosesWorks
  <1>4. CASE RequestRefused
    <2>1. Running /\ worker.at = "init" /\ FailWith(worker, "failure")
      BY <1>4 DEF RequestRefused
    <2>2. worker \in WorkerType /\ worker.job # NoId
      BY <2>1, Busy
    <2> QED BY <2>1, <2>2, FailureWorks
  <1>5. CASE CommandOverruns \/ KillsItself \/ Exits \/ Crashes
    <2>1. Running /\ toClient' = toClient
      BY <1>5 DEF CommandOverruns, KillsItself, Exits, Crashes
    <2>2. \E status \in {"zero", "nonzero", "SIGKILL"} : Dies(status)
      BY <1>5 DEF CommandOverruns, KillsItself, Exits, Crashes
    <2> QED BY <2>1, <2>2, DiesWorks
  <1>6. CASE AckDeadline
    BY <1>6, AckDeadlineWorks DEF AckDeadline
  <1> QED BY <1>1, <1>2, <1>3, <1>4, <1>5, <1>6 DEF WorkerStep
-------------------------------------------------------------------------------
(* What the client may rely on of its worker: nothing came before it was   *)
(* spawned, its end was seen only of one that is gone, and a close only    *)
(* with every frame read.                                                  *)
Observed ==
  /\ client.phase = "none" => worker = Absent /\ toWorker = <<>> /\ toClient = <<>>
  /\ client.seen # "none" \/ client.primary => worker.os \in {"dead", "unspawned"}
  /\ client.phase = "closed" => /\ toClient = <<>> /\ worker.os \in {"dead", "unspawned"}
                                /\ client.seen = "close"
                                /\ Closed(client) \/ client.terminal # "none"

(* A teardown that no exit followed yet still has its deadline, or has     *)
(* latched that it failed.                                                 *)
TornDown(c) ==
  /\ c.closing = "emergency" => c.emergency \/ c.seen # "none"
  /\ c.emergency /\ c.seen = "none" => c.terminating \/ c.terminal = "cleanup"

Past == worker.down \notin {"no", "reset"}

Proposals ==
  /\ client.acked => Past
  /\ \A k \in 1..Len(toClient) : Proposes(toClient[k]) => Past

Heard == heardCleanup => Closed(client) /\ client.terminal = "cleanup" /\ client.closing # "clean"

Inv ==
  /\ Sound
  /\ client \in ClientType /\ IsFiniteSet(Starters(client))
  /\ Observed /\ TornDown(client) /\ Proposals /\ Heard

(* What the client's own steps have in common: a request is sent or not    *)
(* for good, a failure stays, and so does a close.                         *)
Steps(c, d) ==
  /\ d \in ClientType /\ Unsent(d) \subseteq Unsent(c)
  /\ IsFiniteSet(Starters(c)) => IsFiniteSet(Starters(d))
  /\ c.terminal # "none" => d.terminal # "none"
  /\ c.terminal = "cleanup" => d.terminal = "cleanup"
  /\ d.seen = c.seen /\ d.primary = c.primary
  /\ d.acked => c.acked \/ Past
  /\ d.phase \in {"none", "closed"} => d.phase = c.phase
  /\ Closed(c) => Closed(d)
  /\ TornDown(c) => TornDown(d)

Moves(c, d) == Steps(c, d) /\ d.closing = c.closing

Earned(d) == d.seen # "none" /\ ((Past /\ worker.status = "SIGKILL") \/ d.reported)

CleanOnly(c, d) ==
  c.closing # "clean" /\ d.closing = "clean" =>
    ~(Closed(c) /\ c.terminal = "cleanup") /\ (c.phase # "none" => Earned(d))

LEMMA StepsOn ==
  ASSUME NEW b, NEW c, NEW d, Moves(b, c)
  PROVE  /\ Steps(c, d) => Steps(b, d)
         /\ Moves(c, d) => Moves(b, d)
         /\ CleanOnly(c, d) => CleanOnly(b, d)
  BY DEF Moves, Steps, CleanOnly, Closed

LEMMA MovesOnly ==
  ASSUME NEW c, NEW d, Moves(c, d)
  PROVE  Steps(c, d) /\ CleanOnly(c, d)
  BY DEF Moves, CleanOnly

(* A step that leaves the requests alone, or sends or ends some.           *)
LEMMA FewerStarters ==
  ASSUME NEW c, NEW d, Starters(d) \subseteq Starters(c)
  PROVE  IsFiniteSet(Starters(c)) => IsFiniteSet(Starters(d))
  BY FS_Subset

LEMMA SameRequests ==
  ASSUME NEW c, NEW d, d.req = c.req
  PROVE  Unsent(d) = Unsent(c) /\ Starters(d) = Starters(c)
  BY DEF Unsent, Starters

LEMMA LatchMoves ==
  ASSUME NEW c \in ClientType, NEW stage \in {"failure", "cleanup"}
  PROVE  LET d == LatchFailure(c, stage)
         IN  /\ Moves(c, d) /\ d.terminal # "none" /\ d.phase = c.phase /\ d.req = c.req
             /\ d.boot = c.boot /\ d.emergency = c.emergency /\ d.terminating = c.terminating
             /\ stage = "cleanup" => d.terminal = "cleanup"
             /\ d.acked = c.acked
  <1> DEFINE d == LatchFailure(c, stage)
  <1>1. d \in ClientType
    <2>1. CASE stage = "cleanup"
      BY <2>1 DEF LatchFailure, ClientType
    <2>2. CASE stage = "failure" /\ c.terminal = "none"
      BY <2>2 DEF LatchFailure, ClientType
    <2>3. CASE stage = "failure" /\ c.terminal # "none"
      BY <2>3 DEF LatchFailure
    <2> QED BY <2>1, <2>2, <2>3
  <1>2. /\ d.terminal # "none" /\ d.phase = c.phase /\ d.req = c.req /\ d.boot = c.boot
        /\ d.emergency = c.emergency /\ d.terminating = c.terminating /\ d.acked = c.acked
        /\ d.seen = c.seen /\ d.primary = c.primary /\ d.closing = c.closing
    BY DEF LatchFailure, ClientType
  <1>3. /\ stage = "cleanup" => d.terminal = "cleanup"
        /\ c.terminal = "cleanup" => d.terminal = "cleanup"
    BY DEF LatchFailure, ClientType
  <1> HIDE DEF d
  <1>4. Unsent(d) = Unsent(c) /\ Starters(d) = Starters(c)
    BY <1>2, SameRequests
  <1>5. Moves(c, d)
    BY <1>1, <1>2, <1>3, <1>4 DEF Moves, Steps, Closed, TornDown
  <1> QED BY <1>2, <1>3, <1>5 DEF d

LEMMA RejectMoves ==
  ASSUME NEW c \in ClientType, NEW told \in BOOLEAN
  PROVE  LET d == RejectPending(c, told)
         IN  /\ Moves(c, d) /\ d.phase = c.phase /\ d.terminal = c.terminal
             /\ d.emergency = c.emergency /\ d.terminating = c.terminating
             /\ d.acked = c.acked
             /\ ~told => d.reported = c.reported
  <1> DEFINE d == RejectPending(c, told)
             q == [i \in Ids |-> IF c.req[i] = "pending" \/ (c.boot = "pending" /\ c.req[i] = "starting")
                                 THEN "rejected" ELSE c.req[i]]
  <1>1. q \in [Ids -> {"idle", "starting", "pending", "resolved", "rejected"}]
    BY DEF ClientType
  <1>2. \A i \in Ids : q[i] \in {"idle", "starting"} => q[i] = c.req[i]
    BY DEF ClientType
  <1>3. (c.reported \/ (told /\ PendingIds(c) # {})) \in BOOLEAN
    OBVIOUS
  <1>4. d.req = q /\ d \in ClientType
    <2> DEFINE r == c.reported \/ (told /\ PendingIds(c) # {})
               b == IF c.boot = "pending" THEN "failed" ELSE c.boot
    <2>1. d = [c EXCEPT !.reported = r, !.boot = b, !.req = q]
      BY DEF RejectPending
    <2>2. b \in {"none", "pending", "done", "failed"}
      BY DEF ClientType
    <2>3. r \in BOOLEAN
      BY <1>3
    <2> HIDE DEF q, r, b, d
    <2> QED BY <1>1, <2>1, <2>2, <2>3 DEF ClientType
  <1>5. /\ d.terminal = c.terminal /\ d.phase = c.phase
        /\ d.emergency = c.emergency /\ d.terminating = c.terminating /\ d.acked = c.acked
        /\ d.seen = c.seen /\ d.primary = c.primary /\ d.closing = c.closing
    BY DEF RejectPending, ClientType
  <1>6. ~told => d.reported = c.reported
    BY DEF RejectPending, ClientType
  <1> HIDE DEF d, q
  <1>7. Unsent(d) \subseteq Unsent(c) /\ Starters(d) \subseteq Starters(c)
    BY <1>2, <1>4 DEF Unsent, Starters
  <1>8. Moves(c, d)
    BY <1>4, <1>5, <1>7, FewerStarters DEF Moves, Steps, Closed, TornDown
  <1> QED BY <1>5, <1>6, <1>8 DEF d

LEMMA WriteMoves ==
  ASSUME NEW c \in ClientType
  PROVE  LET d == AfterWrite(c)
         IN  /\ Moves(c, d) /\ d.phase = c.phase /\ d.req = c.req /\ d.acked = c.acked
             /\ d.emergency = c.emergency /\ d.terminating = c.terminating
             /\ d.terminal = c.terminal
  <1> DEFINE d == AfterWrite(c)
  <1>1. d \in ClientType
    BY DEF AfterWrite, ClientType
  <1>2. /\ d.terminal = c.terminal /\ d.phase = c.phase /\ d.req = c.req /\ d.acked = c.acked
        /\ d.emergency = c.emergency /\ d.terminating = c.terminating
        /\ d.seen = c.seen /\ d.primary = c.primary /\ d.closing = c.closing
    BY DEF AfterWrite, ClientType
  <1> HIDE DEF d
  <1>3. Unsent(d) = Unsent(c) /\ Starters(d) = Starters(c)
    BY <1>2, SameRequests
  <1>4. Moves(c, d)
    BY <1>1, <1>2, <1>3 DEF Moves, Steps, Closed, TornDown
  <1> QED BY <1>2, <1>4 DEF d

LEMMA TerminatedMoves ==
  ASSUME NEW c \in ClientType, NEW error
  PROVE  Moves(c, Terminated(c, error)) /\ Terminated(c, error).phase \in {"retiring", "closed"}
  <1> DEFINE l == IF error = "abort" THEN c ELSE LatchFailure(c, "failure")
             t == RejectPending(l, TRUE)
             down == [t EXCEPT !.phase = "retiring", !.emergency = TRUE, !.terminating = TRUE]
  <1>1. Moves(c, c) /\ l \in ClientType /\ Moves(c, l)
    <2>1. Moves(c, c)
      BY DEF Moves, Steps
    <2>2. Moves(c, LatchFailure(c, "failure"))
      BY LatchMoves
    <2>3. l = c \/ l = LatchFailure(c, "failure")
      OBVIOUS
    <2> HIDE DEF l
    <2> QED BY <2>1, <2>2, <2>3 DEF Moves, Steps
  <1> HIDE DEF l
  <1>2. Moves(l, t)
    BY <1>1, RejectMoves
  <1> HIDE DEF t
  <1>3. t \in ClientType /\ Moves(c, t)
    BY <1>1, <1>2, StepsOn DEF Moves, Steps
  <1>4. down \in ClientType
    BY <1>3 DEF ClientType
  <1>5. /\ down.phase = "retiring" /\ down.terminal = t.terminal /\ down.req = t.req
        /\ down.seen = t.seen /\ down.primary = t.primary /\ down.closing = t.closing
        /\ down.acked = t.acked /\ down.emergency /\ down.terminating
    BY <1>3 DEF ClientType
  <1> HIDE DEF down
  <1>6. Moves(t, down)
    <2>1. Unsent(down) = Unsent(t) /\ Starters(down) = Starters(t)
      BY <1>5, SameRequests
    <2> QED BY <1>4, <1>5, <2>1 DEF Moves, Steps, Closed, TornDown
  <1>7. Moves(c, down)
    BY <1>3, <1>6, StepsOn
  <1>8. Moves(c, LatchFailure(down, "cleanup")) /\ LatchFailure(down, "cleanup").phase = "retiring"
    BY <1>4, <1>5, <1>7, LatchMoves, StepsOn
  <1>9. Terminated(c, error) = IF t.phase = "closed" THEN t
                               ELSE IF Signals(c) \/ c.seen # "none" THEN down
                               ELSE LatchFailure(down, "cleanup")
    BY DEF Terminated, l, t, down
  <1> QED BY <1>3, <1>5, <1>7, <1>8, <1>9

(* The end of close(): clean only after a handshake and the worker's own   *)
(* SIGKILL, or with a failure that was told.                               *)
LEMMA EndSteps ==
  ASSUME NEW c \in ClientType, NEW thrown \in BOOLEAN, Closed(c), c.terminal = "cleanup" => thrown,
         ~thrown => Earned(c)
  PROVE  LET d == ClosesWith(c, thrown)
         IN  Steps(c, d) /\ CleanOnly(c, d) /\ d.phase = c.phase /\ Closed(d)
  <1> DEFINE d == ClosesWith(c, thrown)
  <1>1. d \in ClientType
    BY DEF ClosesWith, ClientType
  <1>2. /\ d.terminal = c.terminal /\ d.phase = c.phase /\ d.req = c.req /\ d.acked = c.acked
        /\ d.emergency = c.emergency /\ d.terminating = c.terminating
        /\ d.seen = c.seen /\ d.primary = c.primary /\ d.reported = c.reported
        /\ d.closing = IF thrown THEN "failed" ELSE "clean"
    BY DEF ClosesWith, ClientType
  <1> HIDE DEF d
  <1>3. Unsent(d) = Unsent(c) /\ Starters(d) = Starters(c)
    BY <1>2, SameRequests
  <1>4. Closed(d) /\ d.closing # "emergency"
    BY <1>2 DEF Closed
  <1>5. Steps(c, d)
    BY <1>1, <1>2, <1>3, <1>4 DEF Steps, TornDown
  <1>6. CleanOnly(c, d)
    BY <1>2 DEF CleanOnly, Earned
  <1> QED BY <1>2, <1>4, <1>5, <1>6 DEF d

LEMMA CloseEndSteps ==
  ASSUME NEW c \in ClientType, c.closing \in Waiting, c.acked => Past,
         c.closing = "emergency" /\ c.seen = "none" => c.terminal = "cleanup",
         c.closing = "cooperative" => c.seen # "none"
  PROVE  LET d == CloseEnd(c)
         IN  Steps(c, d) /\ CleanOnly(c, d) /\ d.phase = c.phase /\ Closed(d)
  <1> DEFINE r == RejectPending(c, FALSE)
  <1>1. /\ Moves(c, r) /\ r.phase = c.phase /\ r.terminal = c.terminal /\ r.acked = c.acked
        /\ r \in ClientType /\ Closed(r) /\ r.seen = c.seen
    BY RejectMoves DEF Moves, Steps, Closed, Waiting
  <1> HIDE DEF r
  <1>2. ASSUME NEW f \in ClientType, Moves(c, f), f.phase = c.phase, Closed(f),
               NEW thrown \in BOOLEAN, f.terminal = "cleanup" => thrown, ~thrown => Earned(f),
               CloseEnd(c) = ClosesWith(f, thrown)
        PROVE  LET d == CloseEnd(c)
               IN  Steps(c, d) /\ CleanOnly(c, d) /\ d.phase = c.phase /\ Closed(d)
    BY <1>2, EndSteps, StepsOn
  <1>3. CASE c.closing = "emergency"
    <2> DEFINE f == LatchFailure(r, "failure")
    <2>1. /\ f \in ClientType /\ Moves(r, f) /\ f.phase = r.phase /\ f.terminal # "none"
          /\ f.seen = r.seen /\ f.closing = r.closing
          /\ r.terminal = "cleanup" => f.terminal = "cleanup"
      BY <1>1, LatchMoves DEF Moves, Steps
    <2>2. CloseEnd(c) = ClosesWith(f, ~f.reported \/ f.terminal = "cleanup")
      BY <1>3 DEF CloseEnd, EmergencyEnd, r
    <2> HIDE DEF f
    <2>3. Moves(c, f) /\ Closed(f)
      BY <1>1, <2>1, StepsOn DEF Closed
    <2>4. f.reported \in BOOLEAN
      BY <2>1 DEF ClientType
    <2>5. f.reported /\ f.terminal # "cleanup" => Earned(f)
      BY <1>1, <1>3, <2>1 DEF Earned
    <2> QED BY <1>1, <1>2, <2>1, <2>2, <2>3, <2>4, <2>5
  <1>4. CASE c.closing = "cooperative"
    <2>1. CASE ~(r.acked /\ worker.status = "SIGKILL")
      <3>1. \E stage \in {"failure", "cleanup"} :
              CloseEnd(c) = ClosesWith(LatchFailure(r, stage), TRUE)
        BY <1>4, <2>1 DEF CloseEnd, CooperativeEnd, r
      <3>2. PICK stage \in {"failure", "cleanup"} :
              CloseEnd(c) = ClosesWith(LatchFailure(r, stage), TRUE)
        BY <3>1
      <3> DEFINE f == LatchFailure(r, stage)
      <3>3. f \in ClientType /\ Moves(r, f) /\ f.phase = r.phase /\ f.closing = r.closing
        BY <1>1, LatchMoves DEF Moves, Steps
      <3> HIDE DEF f
      <3>4. Moves(c, f) /\ Closed(f)
        BY <1>1, <3>3, StepsOn DEF Closed
      <3> QED BY <1>1, <1>2, <3>2, <3>3, <3>4 DEF f
    <2>2. CASE r.acked /\ worker.status = "SIGKILL"
      <3> DEFINE thrown == r.terminal = "cleanup" \/ (r.terminal # "none" /\ ~r.reported)
      <3>1. CloseEnd(c) = ClosesWith(r, thrown)
        BY <1>4, <2>2 DEF CloseEnd, CooperativeEnd, r
      <3>2. thrown \in BOOLEAN /\ (r.terminal = "cleanup" => thrown)
        OBVIOUS
      <3> HIDE DEF thrown
      <3>3. Earned(r)
        BY <1>1, <1>4, <2>2 DEF Earned
      <3> QED BY <1>1, <1>2, <3>1, <3>2, <3>3
    <2> QED BY <2>1, <2>2
  <1>5. CASE c.closing = "late"
    <2>1. CloseEnd(c) = ClosesWith(r, TRUE)
      BY <1>5 DEF CloseEnd, r
    <2> QED BY <1>1, <1>2, <2>1
  <1> QED BY <1>3, <1>4, <1>5 DEF Waiting

(* close(): a client with nothing to close ends at once, and cleanly only  *)
(* with its failure told; any other waits.                                 *)
LEMMA CloseFromSteps ==
  ASSUME NEW c \in ClientType, CloseFrom(c),
         c.phase = "closed" => c.seen = "close" /\ (Closed(c) \/ c.terminal # "none")
  PROVE  /\ Steps(c, client') /\ CleanOnly(c, client') /\ Closed(client')
         /\ c.phase \notin {"none", "closed"} /\ client'.closing = "clean" => c.closing = "clean"
         /\ \/ toWorker' = toWorker
            \/ toWorker' = Written(<<ShutdownFrame>>) /\ c.phase # "none"
  <1>1. CASE Closed(c) /\ client' = c /\ UNCHANGED toWorker
    BY <1>1 DEF Steps, CleanOnly
  <1>2. CASE /\ ~Closed(c) /\ c.phase \in {"none", "closed"} /\ UNCHANGED toWorker
             /\ client' = LET settled == RejectPending(c, c.terminal # "none")
                          IN [settled EXCEPT !.closing =
                                IF settled.terminal # "none" /\ ~settled.reported
                                THEN "failed" ELSE "clean"]
    <2> DEFINE s == RejectPending(c, c.terminal # "none")
               closing == IF s.terminal # "none" /\ ~s.reported THEN "failed" ELSE "clean"
               d == [s EXCEPT !.closing = closing]
    <2>1. Moves(c, s) /\ s.phase = c.phase /\ s.terminal = c.terminal /\ s \in ClientType
      <3>1. (c.terminal # "none") \in BOOLEAN
        OBVIOUS
      <3> QED BY <3>1, RejectMoves DEF Moves, Steps
    <2>2. closing \in {"failed", "clean"}
      OBVIOUS
    <2>3. s.terminal # "none" /\ closing = "clean" => s.reported
      OBVIOUS
    <2>4. client' = d
      BY <1>2
    <2> HIDE DEF s, closing
    <2>5. d \in ClientType
      BY <2>1, <2>2 DEF ClientType
    <2>6. /\ d.terminal = s.terminal /\ d.phase = s.phase /\ d.req = s.req /\ d.acked = s.acked
          /\ d.emergency = s.emergency /\ d.terminating = s.terminating
          /\ d.seen = s.seen /\ d.primary = s.primary /\ d.reported = s.reported
          /\ d.closing = closing
      BY <2>1 DEF ClientType
    <2> HIDE DEF d
    <2>7. Unsent(d) = Unsent(s) /\ Starters(d) = Starters(s)
      BY <2>6, SameRequests
    <2>8. Closed(d) /\ d.closing # "emergency"
      BY <2>2, <2>6 DEF Closed
    <2>9. Steps(s, d)
      BY <2>5, <2>6, <2>7, <2>8 DEF Steps, TornDown
    <2>10. d.seen = c.seen /\ (d.terminal = c.terminal) /\ d.phase = c.phase
      BY <2>1, <2>6 DEF Moves, Steps
    <2>11. d.closing = "clean" /\ c.phase # "none" => Earned(d)
      BY <1>2, <2>3, <2>6, <2>10 DEF Earned
    <2>12. CleanOnly(c, d)
      BY <1>2, <2>11 DEF CleanOnly
    <2> QED BY <1>2, <2>1, <2>4, <2>8, <2>9, <2>12, StepsOn
  <1>3. CASE /\ ~Closed(c) /\ c.phase \notin {"none", "closed"} /\ (c.emergency \/ c.seen = "exit")
             /\ client' = LET late == [[c EXCEPT !.phase = "retiring"] EXCEPT !.closing = "emergency"] IN
                           IF Signals(c) \/ c.seen # "none" THEN late ELSE LatchFailure(late, "cleanup")
             /\ UNCHANGED toWorker
    <2> DEFINE d == [[c EXCEPT !.phase = "retiring"] EXCEPT !.closing = "emergency"]
    <2>1. client' = d \/ client' = LatchFailure(d, "cleanup")
      BY <1>3
    <2>2. d \in ClientType
      BY DEF ClientType, Waiting
    <2>3. /\ d.terminal = c.terminal /\ d.phase = "retiring" /\ d.req = c.req /\ d.acked = c.acked
          /\ d.emergency = c.emergency /\ d.terminating = c.terminating
          /\ d.seen = c.seen /\ d.primary = c.primary /\ d.closing = "emergency"
      BY DEF ClientType
    <2> HIDE DEF d
    <2>4. Unsent(d) = Unsent(c) /\ Starters(d) = Starters(c)
      BY <2>3, SameRequests
    <2>5. Steps(c, d)
      BY <1>3, <2>2, <2>3, <2>4 DEF Steps, TornDown, Closed
    <2>6. Moves(d, client')
      <3>1. Moves(d, d)
        BY <2>2 DEF Moves, Steps
      <3> QED BY <2>1, <2>2, <3>1, LatchMoves
    <2>7. client'.closing = "emergency" /\ Closed(client')
      BY <2>3, <2>6 DEF Moves, Closed
    <2>8. Steps(c, client')
      BY <2>5, <2>6 DEF Moves, Steps
    <2> QED BY <1>3, <2>7, <2>8 DEF CleanOnly
  <1>4. CASE /\ ~Closed(c) /\ c.phase \notin {"none", "closed"} /\ ~c.emergency /\ c.seen = "none"
             /\ client' = AfterWrite([[c EXCEPT !.phase = "retiring"]
                                        EXCEPT !.closing = "cooperative", !.nonce = TRUE])
             /\ toWorker' = Written(<<ShutdownFrame>>)
    <2> DEFINE d == [[c EXCEPT !.phase = "retiring"] EXCEPT !.closing = "cooperative", !.nonce = TRUE]
    <2>1. client' = AfterWrite(d)
      BY <1>4
    <2>2. d \in ClientType
      BY DEF ClientType, Waiting
    <2>3. /\ d.terminal = c.terminal /\ d.phase = "retiring" /\ d.req = c.req /\ d.acked = c.acked
          /\ d.emergency = c.emergency /\ d.terminating = c.terminating
          /\ d.seen = c.seen /\ d.primary = c.primary /\ d.closing = "cooperative"
      BY DEF ClientType
    <2> HIDE DEF d
    <2>4. Unsent(d) = Unsent(c) /\ Starters(d) = Starters(c)
      BY <2>3, SameRequests
    <2>5. Steps(c, d)
      BY <1>4, <2>2, <2>3, <2>4 DEF Steps, TornDown, Closed
    <2>6. Moves(d, client')
      BY <2>1, <2>2, WriteMoves
    <2>7. client'.closing = "cooperative" /\ Closed(client')
      BY <2>3, <2>6 DEF Moves, Closed
    <2>8. Steps(c, client')
      BY <2>5, <2>6 DEF Moves, Steps
    <2> QED BY <1>4, <2>7, <2>8 DEF CleanOnly
  <1> QED BY <1>1, <1>2, <1>3, <1>4 DEF CloseFrom
-------------------------------------------------------------------------------
(* What the client's steps do to the worker and its pipes: a signal, a     *)
(* frame, or nothing.                                                      *)
LEMMA SignalSound ==
  ASSUME Sound, Unsent(client') \subseteq Unsent(client),
         worker' = worker \/ worker' = Killed(worker),
         toWorker' = IF worker'.os = "dead" THEN <<>> ELSE toWorker,
         toClient' \in Seq(ToClient)
  PROVE  /\ Sound' /\ worker'.down = worker.down
         /\ worker'.os = worker.os \/ (worker'.os = "dead" /\ Running)
  <1>1. CASE worker' = worker
    <2>1. Drained
      BY DEF Drained
    <2>2. SentOnce' /\ toWorker' \in Seq(ToWorker)
      BY <1>1, <2>1, SentStays DEF Sound
    <2> QED BY <1>1, <2>2 DEF Sound, Piped
  <1>2. CASE worker' # worker
    <2>1. worker' = Dead(worker, "SIGKILL") /\ Running
      BY <1>2 DEF Killed, Running
    <2>2. /\ Orderly(worker') /\ Retiring(worker') /\ worker'.active = worker.active
          /\ worker'.os = "dead" /\ worker'.down = worker.down
      BY <2>1, DeadWorks DEF Sound
    <2> QED BY <2>1, <2>2, SentStays DEF Sound, Piped, Drained
  <1> QED BY <1>1, <1>2

LEMMA WrittenSound ==
  ASSUME Sound, UNCHANGED worker, Unsent(client') \subseteq Unsent(client),
         toClient' \in Seq(ToClient),
         NEW fs \in Seq(ToWorker), toWorker' = Written(fs),
         \A k \in 1..Len(fs) : IsExecute(fs[k]) =>
           fs[k].id \in Unsent(client) /\ fs[k].id \notin Unsent(client'),
         \A k, l \in 1..Len(fs) :
           IsExecute(fs[k]) /\ IsExecute(fs[l]) /\ fs[k].id = fs[l].id => k = l
  PROVE  Sound'
  <1>1. CASE ~Running
    <2>1. toWorker' = <<>>
      BY <1>1 DEF Written
    <2> QED BY <2>1, SentStays DEF Sound, Piped, Drained
  <1>2. CASE Running
    <2>1. toWorker' = toWorker \o fs
      BY <1>2 DEF Written
    <2>2. /\ toWorker' \in Seq(ToWorker) /\ Len(toWorker) \in Nat /\ Len(fs) \in Nat
          /\ \A k \in 1..Len(toWorker) : toWorker'[k] = toWorker[k]
          /\ \A k \in 1..Len(toWorker') : k \notin 1..Len(toWorker) =>
               k - Len(toWorker) \in 1..Len(fs) /\ toWorker'[k] = fs[k - Len(toWorker)]
      BY <2>1, JoinPlaces DEF Sound, Piped
    <2>3. worker.active \cap Unsent(client) = {}
      BY DEF Sound, SentOnce
    <2>4. \A k \in 1..Len(toWorker) : IsExecute(toWorker[k]) =>
            toWorker[k].id \notin worker.active /\ toWorker[k].id \notin Unsent(client)
      BY DEF Sound, SentOnce
    <2>5. \A k \in 1..Len(toWorker') : IsExecute(toWorker'[k]) =>
            toWorker'[k].id \notin worker.active \cup Unsent(client')
      <3> SUFFICES ASSUME NEW k \in 1..Len(toWorker'), IsExecute(toWorker'[k])
                   PROVE  toWorker'[k].id \notin worker.active \cup Unsent(client')
        OBVIOUS
      <3>1. CASE k \in 1..Len(toWorker)
        BY <2>2, <2>4, <3>1
      <3>2. CASE k \notin 1..Len(toWorker)
        BY <2>2, <2>3, <3>2
      <3> QED BY <3>1, <3>2
    <2>6. \A k, l \in 1..Len(toWorker') :
            IsExecute(toWorker'[k]) /\ IsExecute(toWorker'[l]) /\ toWorker'[k].id = toWorker'[l].id
              => k = l
      <3> SUFFICES ASSUME NEW k \in 1..Len(toWorker'), NEW l \in 1..Len(toWorker'),
                          IsExecute(toWorker'[k]), IsExecute(toWorker'[l]),
                          toWorker'[k].id = toWorker'[l].id
                   PROVE  k = l
        OBVIOUS
      <3>1. CASE k \in 1..Len(toWorker) /\ l \in 1..Len(toWorker)
        BY <2>2, <3>1 DEF Sound, SentOnce
      <3>2. CASE k \in 1..Len(toWorker) /\ l \notin 1..Len(toWorker)
        BY <2>2, <2>4, <3>2
      <3>3. CASE k \notin 1..Len(toWorker) /\ l \in 1..Len(toWorker)
        BY <2>2, <2>4, <3>3
      <3>4. CASE k \notin 1..Len(toWorker) /\ l \notin 1..Len(toWorker)
        <4>1. k - Len(toWorker) = l - Len(toWorker)
          BY <2>2, <3>4
        <4> QED BY <2>2, <4>1
      <3> QED BY <3>1, <3>2, <3>3, <3>4
    <2> QED BY <2>2, <2>3, <2>5, <2>6 DEF Sound, Piped, SentOnce
  <1> QED BY <1>1, <1>2
-------------------------------------------------------------------------------
(* A step of the client keeps the invariant, and closes cleanly only when  *)
(* that is earned.                                                         *)
Ends == client.closing # "clean" /\ client'.closing = "clean" /\ client.phase # "none"
          => Earned(client')

Hears == heardCleanup' => \/ heardCleanup
                          \/ /\ Closed(client') /\ client'.terminal = "cleanup"
                             /\ client'.closing # "clean"

Reads == toClient' = toClient \/ (toClient # <<>> /\ toClient' = Tail(toClient))

LEMMA ReadsPlaces ==
  ASSUME Sound, Reads
  PROVE  /\ toClient' \in Seq(ToClient)
         /\ toClient = <<>> => toClient' = <<>>
         /\ \A k \in 1..Len(toClient') : \E l \in 1..Len(toClient) : toClient'[k] = toClient[l]
  <1>1. CASE toClient' = toClient
    BY <1>1 DEF Sound, Piped
  <1>2. CASE toClient # <<>> /\ toClient' = Tail(toClient)
    BY <1>2, TailPlaces DEF Sound, Piped
  <1> QED BY <1>1, <1>2 DEF Reads

LEMMA Keeps ==
  ASSUME Inv, Steps(client, client'), CleanOnly(client, client'), Sound', Reads, Hears,
         worker'.down = worker.down, worker'.os = worker.os \/ (worker'.os = "dead" /\ Running),
         client'.phase = "none" => UNCHANGED processVars
  PROVE  Inv' /\ Ends
  <1>1. client' \in ClientType /\ IsFiniteSet(Starters(client')) /\ TornDown(client')
    BY DEF Inv, Steps
  <1>2. Observed'
    <2>1. client'.phase = "none" => worker' = Absent /\ toWorker' = <<>> /\ toClient' = <<>>
      BY DEF Inv, Observed, Steps, processVars
    <2>2. client'.seen # "none" \/ client'.primary => worker'.os \in {"dead", "unspawned"}
      BY DEF Inv, Observed, Steps
    <2>3. client'.phase = "closed" => /\ toClient' = <<>> /\ worker'.os \in {"dead", "unspawned"}
                                      /\ client'.seen = "close"
                                      /\ Closed(client') \/ client'.terminal # "none"
      BY ReadsPlaces DEF Inv, Observed, Steps
    <2> QED BY <2>1, <2>2, <2>3 DEF Observed
  <1>3. Proposals'
    <2>1. client'.acked => Past'
      BY DEF Inv, Proposals, Steps, Past
    <2>2. \A k \in 1..Len(toClient') : Proposes(toClient'[k]) => Past'
      BY ReadsPlaces DEF Inv, Proposals, Past
    <2> QED BY <2>1, <2>2 DEF Proposals
  <1>4. Heard'
    BY DEF Inv, Heard, Hears, Steps, CleanOnly
  <1>5. Ends
    BY DEF Ends, CleanOnly
  <1> QED BY <1>1, <1>2, <1>3, <1>4, <1>5 DEF Inv

LEMMA TerminateKeeps ==
  ASSUME Inv, NEW c, Moves(client, c), NEW error, Terminate(c, error), Reads,
         heardCleanup' => heardCleanup
  PROVE  Inv' /\ Ends
  <1>1. /\ Moves(client, client') /\ client'.phase \in {"retiring", "closed"}
    <2>1. c \in ClientType
      BY DEF Moves, Steps
    <2> QED BY <2>1, TerminatedMoves, StepsOn DEF Terminate
  <1>2. worker' = worker \/ worker' = Killed(worker)
    BY DEF Terminate
  <1>3. toClient' \in Seq(ToClient)
    BY ReadsPlaces DEF Inv
  <1>4. Unsent(client') \subseteq Unsent(client)
    BY <1>1 DEF Moves, Steps
  <1>5. /\ Sound' /\ worker'.down = worker.down
        /\ worker'.os = worker.os \/ (worker'.os = "dead" /\ Running)
    BY <1>2, <1>3, <1>4, SignalSound DEF Inv, Terminate
  <1>6. Steps(client, client') /\ CleanOnly(client, client')
    BY <1>1, MovesOnly
  <1> QED BY <1>1, <1>5, <1>6, Keeps DEF Hears

(* Steps that leave the worker and its pipes alone but for what is read.   *)
LEMMA QuietKeeps ==
  ASSUME Inv, Steps(client, client'), CleanOnly(client, client'), UNCHANGED <<worker, toWorker>>,
         Reads, Hears, client'.phase = "none" => toClient' = toClient
  PROVE  Inv' /\ Ends
  <1>1. Unsent(client') \subseteq Unsent(client) /\ toClient' \in Seq(ToClient)
    BY ReadsPlaces DEF Steps, Inv
  <1>2. Sound'
    <2>1. Drained
      BY DEF Drained
    <2>2. SentOnce' /\ toWorker' \in Seq(ToWorker)
      BY <1>1, <2>1, SentStays DEF Inv, Sound
    <2> QED BY <1>1, <2>2 DEF Inv, Sound, Piped
  <1> QED BY <1>2, Keeps DEF processVars

(* A frame that carries no request is written.                             *)
LEMMA NoticeKeeps ==
  ASSUME Inv, Steps(client, client'), CleanOnly(client, client'), UNCHANGED worker,
         NEW f \in {ShutdownFrame, AckFrame}, toWorker' = Written(<<f>>),
         Reads, Hears, client'.phase # "none"
  PROVE  Inv' /\ Ends
  <1> DEFINE fs == <<f>>
  <1>1. f \in ToWorker /\ ~IsExecute(f)
    BY DEF ToWorker, IsExecute, ShutdownFrame, AckFrame
  <1>2. fs \in Seq(ToWorker) /\ Len(fs) = 1 /\ fs[1] = f
    BY <1>1
  <1>3. \A k \in 1..Len(fs) : ~IsExecute(fs[k])
    BY <1>1, <1>2
  <1>4. toWorker' = Written(fs)
    OBVIOUS
  <1> HIDE DEF fs
  <1>5. Unsent(client') \subseteq Unsent(client) /\ toClient' \in Seq(ToClient)
    BY ReadsPlaces DEF Steps, Inv
  <1>6. Sound'
    BY <1>2, <1>3, <1>4, <1>5, WrittenSound DEF Inv
  <1> QED BY <1>6, Keeps

LEMMA RequestMoves ==
  ASSUME NEW c \in ClientType, NEW i \in Ids,
         NEW r \in {"starting", "pending", "resolved", "rejected"},
         r = "starting" => c.req[i] = "idle"
  PROVE  LET d == [c EXCEPT !.req[i] = r]
         IN  /\ Moves(c, d) /\ d.phase = c.phase
             /\ d.closing = c.closing /\ d.terminal = c.terminal
             /\ r # "starting" => i \notin Unsent(d)
  <1> DEFINE d == [c EXCEPT !.req[i] = r]
             q == [c.req EXCEPT ![i] = r]
  <1>1. c.req \in [Ids -> {"idle", "starting", "pending", "resolved", "rejected"}]
    BY DEF ClientType
  <1>2. q \in [Ids -> {"idle", "starting", "pending", "resolved", "rejected"}]
    BY <1>1
  <1>3. q[i] = r /\ \A j \in Ids : j # i => q[j] = c.req[j]
    BY <1>1
  <1>4. d = [c EXCEPT !.req = q]
    BY DEF ClientType
  <1> HIDE DEF q
  <1>5. d \in ClientType /\ d.req = q
    BY <1>2, <1>4 DEF ClientType
  <1>6. /\ d.terminal = c.terminal /\ d.phase = c.phase /\ d.acked = c.acked
        /\ d.emergency = c.emergency /\ d.terminating = c.terminating
        /\ d.seen = c.seen /\ d.primary = c.primary /\ d.closing = c.closing
    BY <1>4 DEF ClientType
  <1> HIDE DEF d
  <1>7. Unsent(d) \subseteq Unsent(c) /\ (r # "starting" => i \notin Unsent(d))
    BY <1>3, <1>5 DEF Unsent
  <1>8. Starters(d) \subseteq Starters(c) \cup {i}
    BY <1>3, <1>5 DEF Starters
  <1>9. IsFiniteSet(Starters(c)) => IsFiniteSet(Starters(d))
    <2>1. IsFiniteSet(Starters(c)) => IsFiniteSet(Starters(c) \cup {i})
      BY FS_AddElement
    <2> QED BY <1>8, <2>1, FS_Subset
  <1>10. Moves(c, d)
    BY <1>5, <1>6, <1>7, <1>9 DEF Moves, Steps, Closed, TornDown
  <1> QED BY <1>6, <1>7, <1>10 DEF d

LEMMA ExecuteKeeps ==
  ASSUME Inv, NEW i \in Ids, Execute(i)
  PROVE  Inv' /\ Ends
  <1>1. /\ client \in ClientType /\ client.req[i] = "idle" /\ heardCleanup' = heardCleanup
        /\ Reads => Hears
    BY DEF Inv, Execute, Hears
  <1>2. ASSUME UNCHANGED processVars, NEW r \in {"starting", "rejected"},
               client' = [client EXCEPT !.req[i] = r]
        PROVE  Inv' /\ Ends
    <2>1. Moves(client, client')
      BY <1>1, <1>2, RequestMoves
    <2>2. Reads /\ UNCHANGED <<worker, toWorker>> /\ toClient' = toClient
      BY <1>2 DEF Reads, processVars
    <2> QED BY <1>1, <2>1, <2>2, MovesOnly, QuietKeeps
  <1>3. CASE Refused(i)
    BY <1>2, <1>3 DEF Refused
  <1>4. CASE UNCHANGED processVars /\ client' = [client EXCEPT !.req[i] = "starting"]
    BY <1>2, <1>4
  <1>5. CASE client.phase = "workload" /\ Admit(i)
    <2> DEFINE d == [client EXCEPT !.req[i] = "pending"]
               f == ExecuteFrame(i)
               fs == <<f>>
    <2>1. Moves(client, d) /\ d.phase = "workload" /\ i \notin Unsent(d) /\ d \in ClientType
      BY <1>1, <1>5, RequestMoves DEF Moves, Steps
    <2>2. client' = AfterWrite(d)
      BY <1>5 DEF Admit
    <2>3. i \in Unsent(client)
      BY <1>1 DEF Unsent
    <2>4. f \in ToWorker /\ f.id = i
      BY DEF ToWorker, ExecuteFrame
    <2>5. toWorker' = Written(fs) /\ UNCHANGED <<worker, toClient>>
      BY <1>5 DEF Admit
    <2> HIDE DEF d, f
    <2>6. Moves(d, client') /\ client'.phase = "workload" /\ client'.req = d.req
      BY <2>1, <2>2, WriteMoves
    <2>7. Moves(client, client') /\ i \notin Unsent(client')
      BY <2>1, <2>6, StepsOn, SameRequests
    <2>8. fs \in Seq(ToWorker) /\ Len(fs) = 1 /\ fs[1] = f
      BY <2>4
    <2>9. /\ \A k \in 1..Len(fs) : fs[k].id \in Unsent(client) /\ fs[k].id \notin Unsent(client')
          /\ \A k, l \in 1..Len(fs) : k = l
      BY <2>3, <2>4, <2>7, <2>8
    <2> HIDE DEF fs
    <2>10. Reads /\ Unsent(client') \subseteq Unsent(client) /\ toClient' \in Seq(ToClient)
      BY <2>5, <2>7 DEF Reads, Moves, Steps, Inv, Sound, Piped
    <2>11. Sound'
      BY <2>5, <2>8, <2>9, <2>10, WrittenSound DEF Inv
    <2> QED BY <1>1, <2>5, <2>6, <2>7, <2>10, <2>11, MovesOnly, Keeps
  <1>6. CASE MayExecute(client) /\ client.phase = "none" /\ Start(i)
    <2>1. PICK os \in {"running", "unspawned"} :
            /\ worker' = [worker EXCEPT !.os = os]
            /\ client' = [client EXCEPT !.phase = "starting", !.boot = "pending",
                                        !.req[i] = "starting"]
            /\ toWorker' = IF os = "running" THEN <<BootstrapFrame>> ELSE <<>>
            /\ toClient' = toClient
      BY <1>6 DEF Start
    <2>2. /\ worker = Absent /\ toClient = <<>> /\ client.seen = "none" /\ ~client.primary
          /\ client.acked = FALSE
      <3>1. worker = Absent /\ toClient = <<>>
        BY <1>6 DEF Inv, Observed
      <3>2. worker.os = "absent" /\ worker.down = "no"
        BY <3>1 DEF Absent
      <3> QED BY <1>1, <3>1, <3>2 DEF Inv, Observed, Proposals, Past, ClientType
    <2> DEFINE m == [client EXCEPT !.req[i] = "starting"]
    <2>3. Moves(client, m) /\ m \in ClientType
      BY <1>1, RequestMoves DEF Moves, Steps
    <2>4. client' = [m EXCEPT !.phase = "starting", !.boot = "pending"]
      BY <1>1, <2>1
    <2> HIDE DEF m
    <2>5. /\ client' \in ClientType /\ client'.phase = "starting" /\ client'.req = m.req
          /\ client'.terminal = m.terminal /\ client'.acked = m.acked
          /\ client'.emergency = m.emergency /\ client'.terminating = m.terminating
          /\ client'.seen = m.seen /\ client'.primary = m.primary /\ client'.closing = m.closing
      BY <2>3, <2>4 DEF ClientType
    <2>6. Moves(m, client')
      <3>1. Unsent(client') = Unsent(m) /\ Starters(client') = Starters(m)
        BY <2>5, SameRequests
      <3> QED BY <2>5, <3>1 DEF Moves, Steps, Closed, TornDown
    <2>7. Moves(client, client')
      BY <2>3, <2>6, StepsOn
    <2>8. client'.closing = client.closing
      BY <2>7 DEF Moves
    <2>9. /\ worker' \in WorkerType /\ worker'.active = {} /\ worker'.queue = <<>>
          /\ worker'.job = NoId /\ worker'.at = "idle" /\ worker'.down = "no"
      <3>1. Absent \in WorkerType
        BY <2>2 DEF Inv, Sound, Orderly
      <3> QED BY <2>1, <2>2, <3>1 DEF Absent, WorkerType
    <2>10. Orderly(worker') /\ Retiring(worker')
      <3>1. Len(worker'.queue) = 0
        BY <2>9
      <3> QED BY <2>9, <3>1 DEF Orderly, Queued, Retiring
    <2>11. /\ toWorker' \in Seq(ToWorker)
           /\ \A k \in 1..Len(toWorker') : ~IsExecute(toWorker'[k])
      <3>1. BootstrapFrame \in ToWorker /\ ~IsExecute(BootstrapFrame)
        BY DEF ToWorker, BootstrapFrame, IsExecute
      <3>2. CASE toWorker' = <<>>
        BY <3>2
      <3>3. CASE toWorker' = <<BootstrapFrame>>
        <4> DEFINE f == BootstrapFrame
        <4> HIDE DEF f
        <4>1. toWorker' = <<f>> /\ f \in ToWorker /\ ~IsExecute(f)
          BY <3>1, <3>3 DEF f
        <4> QED BY <4>1
      <3> QED BY <2>1, <3>2, <3>3
    <2>12. Sound'
      BY <2>1, <2>9, <2>10, <2>11 DEF Inv, Sound, Piped, SentOnce
    <2>13. Observed'
      BY <2>2, <2>5, <2>7 DEF Observed, Moves, Steps
    <2>14. Proposals'
      <3>1. Len(toClient') = 0
        BY <2>1, <2>2
      <3> QED BY <2>2, <2>5, <3>1, <2>7, <1>6 DEF Proposals, Moves, Steps, Past, Absent
    <2>15. Heard'
      BY <1>1, <2>7, <2>8 DEF Heard, Inv, Moves, Steps, Closed
    <2> QED BY <2>5, <2>7, <2>8, <2>12, <2>13, <2>14, <2>15 DEF Inv, Ends, Moves, Steps
  <1> QED BY <1>3, <1>4, <1>5, <1>6 DEF Execute
-------------------------------------------------------------------------------
LEMMA AbortKeeps ==
  ASSUME Inv, NEW i \in Ids, Abort(i)
  PROVE  Inv' /\ Ends
  <1> DEFINE c == [client EXCEPT !.aborted = @ \cup {i}]
  <1>1. client \in ClientType /\ Reads /\ heardCleanup' = heardCleanup /\ toClient' = toClient
    BY DEF Inv, Abort, Reads
  <1>2. Moves(client, c)
    <2>1. c \in ClientType
      BY <1>1 DEF ClientType
    <2>2. /\ c.terminal = client.terminal /\ c.phase = client.phase /\ c.acked = client.acked
          /\ c.emergency = client.emergency /\ c.terminating = client.terminating
          /\ c.seen = client.seen /\ c.primary = client.primary /\ c.closing = client.closing
          /\ c.req = client.req
      BY <1>1 DEF ClientType
    <2> HIDE DEF c
    <2>3. Unsent(c) = Unsent(client) /\ Starters(c) = Starters(client)
      BY <2>2, SameRequests
    <2> QED BY <2>1, <2>2, <2>3 DEF Moves, Steps, Closed, TornDown
  <1>3. CASE Terminate(c, "abort")
    <2> HIDE DEF c
    <2> QED BY <1>1, <1>2, <1>3, TerminateKeeps
  <1>4. CASE client' = c /\ UNCHANGED <<worker, toWorker>>
    <2> HIDE DEF c
    <2>1. Hears
      BY <1>1 DEF Hears
    <2> QED BY <1>1, <1>2, <1>4, <2>1, MovesOnly, QuietKeeps
  <1> QED BY <1>3, <1>4 DEF Abort

(* Timers and faults that tear the worker down.                            *)
LEMMA TeardownsKeep ==
  ASSUME Inv,
         \/ \E i \in Ids : RequestTimesOut(i)
         \/ BootstrapTimesOut \/ ProtocolFault \/ StdinFails
  PROVE  Inv' /\ Ends
  <1>1. client \in ClientType /\ Reads /\ heardCleanup' = heardCleanup
    BY DEF Inv, RequestTimesOut, BootstrapTimesOut, ProtocolFault, StdinFails, Reads
  <1>2. Moves(client, client)
    BY <1>1 DEF Moves, Steps
  <1>3. CASE StdinFails
    <2> DEFINE c == [client EXCEPT !.stdin = "destroyed"]
    <2>1. c \in ClientType
      BY <1>1 DEF ClientType
    <2>2. /\ c.terminal = client.terminal /\ c.phase = client.phase /\ c.acked = client.acked
          /\ c.emergency = client.emergency /\ c.terminating = client.terminating
          /\ c.seen = client.seen /\ c.primary = client.primary /\ c.closing = client.closing
          /\ c.req = client.req
      BY <1>1 DEF ClientType
    <2>3. Terminate(c, "protocol")
      BY <1>3 DEF StdinFails
    <2> HIDE DEF c
    <2>4. Unsent(c) = Unsent(client) /\ Starters(c) = Starters(client)
      BY <2>2, SameRequests
    <2>5. Moves(client, c)
      BY <2>1, <2>2, <2>4 DEF Moves, Steps, Closed, TornDown
    <2> QED BY <1>1, <2>3, <2>5, TerminateKeeps
  <1>4. CASE \E i \in Ids : RequestTimesOut(i)
    <2>1. Terminate(client, "timeout")
      BY <1>4 DEF RequestTimesOut
    <2> QED BY <1>1, <1>2, <2>1, TerminateKeeps
  <1>5. CASE BootstrapTimesOut
    <2>1. Terminate(client, "timeout")
      BY <1>5 DEF BootstrapTimesOut
    <2> QED BY <1>1, <1>2, <2>1, TerminateKeeps
  <1>6. CASE ProtocolFault
    <2>1. Terminate(client, "protocol")
      BY <1>6 DEF ProtocolFault
    <2> QED BY <1>1, <1>2, <2>1, TerminateKeeps
  <1> QED BY <1>3, <1>4, <1>5, <1>6

LEMMA TerminateDeadlineKeeps ==
  ASSUME Inv, TerminateDeadline
  PROVE  Inv' /\ Ends
  <1> DEFINE c == [client EXCEPT !.terminating = FALSE]
             d == LatchFailure(c, "cleanup")
  <1>1. /\ client \in ClientType /\ Reads /\ Hears /\ client' = d
        /\ UNCHANGED processVars
    BY DEF Inv, TerminateDeadline, Reads, Hears, processVars
  <1>2. c \in ClientType
    BY <1>1 DEF ClientType
  <1>3. /\ c.terminal = client.terminal /\ c.phase = client.phase /\ c.acked = client.acked
        /\ c.emergency = client.emergency
        /\ c.seen = client.seen /\ c.primary = client.primary /\ c.closing = client.closing
        /\ c.req = client.req
    BY <1>1 DEF ClientType
  <1> HIDE DEF c
  <1>4. Moves(c, d) /\ d.terminal = "cleanup" /\ d.emergency = c.emergency /\ d.req = c.req
        /\ d.phase = c.phase
    BY <1>2, LatchMoves
  <1> HIDE DEF d
  <1>5. Unsent(d) = Unsent(client) /\ Starters(d) = Starters(client)
    BY <1>3, <1>4, SameRequests
  <1>6. Moves(client, d)
    BY <1>3, <1>4, <1>5 DEF Moves, Steps, Closed, TornDown
  <1> QED BY <1>1, <1>6, MovesOnly, QuietKeeps DEF processVars

LEMMA CloseKeeps ==
  ASSUME Inv, Close
  PROVE  Inv' /\ Ends
  <1>1. /\ client \in ClientType /\ Reads /\ Hears /\ CloseFrom(client) /\ UNCHANGED worker
        /\ toClient' = toClient
    BY DEF Inv, Close, Reads, Hears
  <1>2. client.phase = "closed" =>
          client.seen = "close" /\ (Closed(client) \/ client.terminal # "none")
    BY DEF Inv, Observed
  <1>3. /\ Steps(client, client') /\ CleanOnly(client, client')
        /\ \/ toWorker' = toWorker
           \/ toWorker' = Written(<<ShutdownFrame>>) /\ client.phase # "none"
    BY <1>1, <1>2, CloseFromSteps
  <1>4. CASE toWorker' = toWorker
    BY <1>1, <1>3, <1>4, QuietKeeps
  <1>5. CASE toWorker' = Written(<<ShutdownFrame>>) /\ client.phase # "none"
    <2>1. client'.phase # "none"
      BY <1>3, <1>5 DEF Steps
    <2> QED BY <1>1, <1>3, <1>5, <2>1, NoticeKeeps
  <1> QED BY <1>3, <1>4, <1>5

LEMMA CloseDeadlinesKeep ==
  ASSUME Inv, EmergencyDeadline \/ LateDeadline
  PROVE  Inv' /\ Ends
  <1>1. /\ client \in ClientType /\ Reads /\ UNCHANGED <<worker, toWorker>> /\ toClient' = toClient
        /\ Hears
    BY DEF Inv, EmergencyDeadline, LateDeadline, Reads, processVars, Hears
  <1>2. client.acked => Past
    BY DEF Inv, Proposals
  <1>3. client' = CloseEnd(client) /\ client.closing \in {"emergency", "late"}
    BY DEF EmergencyDeadline, LateDeadline, CloseEnd
  <1>4. client.closing = "emergency" /\ client.seen = "none" => client.terminal = "cleanup"
    BY DEF Inv, TornDown, EmergencyDeadline, LateDeadline
  <1>5. Steps(client, client') /\ CleanOnly(client, client')
    BY <1>1, <1>2, <1>3, <1>4, CloseEndSteps DEF Waiting
  <1> QED BY <1>1, <1>5, QuietKeeps

LEMMA CooperativeDeadlineKeeps ==
  ASSUME Inv, CooperativeDeadline
  PROVE  Inv' /\ Ends
  <1> DEFINE c == [client EXCEPT !.closing = "late"]
             d == LatchFailure(c, "cleanup")
  <1>1. /\ client \in ClientType /\ Reads /\ Hears /\ client' = d /\ client.closing = "cooperative"
        /\ toClient' = toClient
    BY DEF Inv, CooperativeDeadline, Reads, Hears
  <1>2. c \in ClientType
    BY <1>1 DEF ClientType, Waiting
  <1>3. /\ c.terminal = client.terminal /\ c.phase = client.phase /\ c.acked = client.acked
        /\ c.emergency = client.emergency /\ c.terminating = client.terminating
        /\ c.seen = client.seen /\ c.primary = client.primary /\ c.closing = "late"
        /\ c.req = client.req
    BY <1>1 DEF ClientType
  <1> HIDE DEF c
  <1>4. Moves(c, d) /\ d.terminal = "cleanup" /\ d.req = c.req
    BY <1>2, LatchMoves
  <1> HIDE DEF d
  <1>5. Unsent(d) = Unsent(client) /\ Starters(d) = Starters(client)
    BY <1>3, <1>4, SameRequests
  <1>6. Steps(client, client') /\ CleanOnly(client, client')
    BY <1>1, <1>3, <1>4, <1>5 DEF Moves, Steps, CleanOnly, Closed, TornDown
  <1>7. worker' = worker \/ worker' = Killed(worker)
    BY DEF CooperativeDeadline
  <1>8. Unsent(client') \subseteq Unsent(client) /\ toClient' \in Seq(ToClient)
    BY <1>1, <1>5 DEF Inv, Sound, Piped
  <1>9. /\ Sound' /\ worker'.down = worker.down
        /\ worker'.os = worker.os \/ (worker'.os = "dead" /\ Running)
    BY <1>7, <1>8, SignalSound DEF Inv, CooperativeDeadline
  <1>10. client'.phase = "none" => UNCHANGED processVars
    <2>1. client'.phase = "none" => worker = Absent /\ toWorker = <<>>
      BY <1>6 DEF Steps, Inv, Observed
    <2>2. worker = Absent => worker.os = "absent"
      BY DEF Absent
    <2> QED BY <1>1, <2>1, <2>2 DEF CooperativeDeadline, Signals, processVars
  <1> QED BY <1>1, <1>6, <1>9, <1>10, Keeps
-------------------------------------------------------------------------------
(* The end of the child: what follows it is seen only of a worker that is  *)
(* gone.                                                                   *)
LEMMA SameProcess ==
  ASSUME Sound, UNCHANGED processVars, Unsent(client') \subseteq Unsent(client)
  PROVE  Sound'
  <1>1. Drained /\ UNCHANGED <<worker, toWorker, toClient>>
    BY DEF Drained, processVars
  <1>2. SentOnce' /\ toWorker' \in Seq(ToWorker)
    BY <1>1, SentStays DEF Sound
  <1> QED BY <1>1, <1>2 DEF Sound, Piped

LEMMA ErrorSeenKeeps ==
  ASSUME Inv, ErrorSeen
  PROVE  Inv' /\ Ends
  <1> DEFINE c == [client EXCEPT !.primary = TRUE]
  <1>1. /\ client \in ClientType /\ UNCHANGED processVars /\ heardCleanup' = heardCleanup
        /\ worker.os = "unspawned"
        /\ client' = c \/ client' = LatchFailure(c, "failure")
    BY DEF Inv, ErrorSeen
  <1>2. c \in ClientType
    BY <1>1 DEF ClientType
  <1>3. /\ c.terminal = client.terminal /\ c.phase = client.phase /\ c.acked = client.acked
        /\ c.emergency = client.emergency /\ c.terminating = client.terminating
        /\ c.seen = client.seen /\ c.closing = client.closing /\ c.req = client.req
    BY <1>1 DEF ClientType
  <1> HIDE DEF c
  <1>4. Moves(c, client') /\ client'.req = c.req /\ client'.phase = c.phase /\ client'.acked = c.acked
    <2>1. Moves(c, c)
      BY <1>2 DEF Moves, Steps
    <2> QED BY <1>1, <1>2, <2>1, LatchMoves
  <1>5. /\ client' \in ClientType /\ TornDown(client')
        /\ Unsent(client') = Unsent(client) /\ Starters(client') = Starters(client)
        /\ client'.seen = client.seen /\ client'.closing = client.closing
        /\ client.terminal # "none" => client'.terminal # "none"
        /\ client.terminal = "cleanup" => client'.terminal = "cleanup"
    <2>1. Unsent(client') = Unsent(client) /\ Starters(client') = Starters(client)
      BY <1>3, <1>4, SameRequests
    <2>2. TornDown(c)
      BY <1>3 DEF Inv, TornDown
    <2> QED BY <1>3, <1>4, <2>1, <2>2 DEF Moves, Steps
  <1>6. Sound'
    BY <1>1, <1>5, SameProcess DEF Inv
  <1>7. UNCHANGED <<worker, toWorker, toClient>>
    BY <1>1 DEF processVars
  <1>8. client.phase # "none"
    <2>1. Absent.os = "absent"
      BY DEF Absent
    <2> QED BY <1>1, <2>1 DEF Inv, Observed
  <1>9. Observed'
    BY <1>1, <1>3, <1>4, <1>5, <1>7, <1>8 DEF Inv, Observed, Closed
  <1>10. Proposals' /\ Heard'
    BY <1>1, <1>3, <1>4, <1>5, <1>7 DEF Inv, Proposals, Past, Heard, Closed
  <1> QED BY <1>5, <1>6, <1>9, <1>10 DEF Inv, Ends

LEMMA ExitSeenKeeps ==
  ASSUME Inv, ExitSeen
  PROVE  Inv' /\ Ends
  <1>1. /\ client \in ClientType /\ UNCHANGED processVars /\ heardCleanup' = heardCleanup
        /\ worker.os = "dead" /\ client.seen = "none"
        /\ client' = [client EXCEPT !.seen = "exit"]
    BY DEF Inv, ExitSeen
  <1>2. client' \in ClientType
    BY <1>1 DEF ClientType
  <1>3. /\ client'.terminal = client.terminal /\ client'.phase = client.phase
        /\ client'.acked = client.acked /\ client'.seen = "exit"
        /\ client'.emergency = client.emergency /\ client'.terminating = client.terminating
        /\ client'.primary = client.primary /\ client'.closing = client.closing
        /\ client'.req = client.req
    BY <1>1 DEF ClientType
  <1>4. Unsent(client') = Unsent(client) /\ Starters(client') = Starters(client)
    BY <1>3, SameRequests
  <1>5. Sound'
    BY <1>1, <1>4, SameProcess DEF Inv
  <1>6. UNCHANGED <<worker, toWorker, toClient>>
    BY <1>1 DEF processVars
  <1>7. client.phase # "none" /\ client.phase # "closed"
    <2>1. Absent.os = "absent"
      BY DEF Absent
    <2> QED BY <1>1, <2>1 DEF Inv, Observed
  <1>8. Observed' /\ TornDown(client')
    BY <1>1, <1>3, <1>6, <1>7 DEF Inv, Observed, TornDown
  <1>9. Proposals' /\ Heard'
    BY <1>1, <1>3, <1>6 DEF Inv, Proposals, Past, Heard, Closed
  <1> QED BY <1>2, <1>3, <1>4, <1>5, <1>8, <1>9 DEF Inv, Ends

LEMMA CloseSeenKeeps ==
  ASSUME Inv, CloseSeen
  PROVE  Inv' /\ Ends
  <1> DEFINE c == [client EXCEPT !.seen = "close", !.phase = "closed", !.terminating = FALSE]
             l == LatchFailure(c, "failure")
  <1>1. /\ client \in ClientType /\ UNCHANGED processVars /\ heardCleanup' = heardCleanup
        /\ toClient = <<>> /\ (client.seen = "exit" \/ client.primary)
        /\ client' = IF c.closing \in Waiting THEN CloseEnd(c)
                     ELSE IF Closed(c) THEN c ELSE RejectPending(l, TRUE)
    BY DEF Inv, CloseSeen
  <1>2. c \in ClientType
    BY <1>1 DEF ClientType
  <1>3. /\ c.terminal = client.terminal /\ c.phase = "closed" /\ c.acked = client.acked
        /\ c.emergency = client.emergency /\ c.seen = "close"
        /\ c.closing = client.closing /\ c.req = client.req
    BY <1>1 DEF ClientType
  <1> HIDE DEF c
  <1>4. worker.os \in {"dead", "unspawned"} /\ client.phase # "none"
    <2>1. Absent.os = "absent"
      BY DEF Absent
    <2> QED BY <1>1, <2>1 DEF Inv, Observed
  <1>5. (client.acked => Past) /\ TornDown(c)
    BY <1>3 DEF Inv, Proposals, TornDown
  <1>6. /\ Steps(c, client') /\ CleanOnly(c, client') /\ client'.phase = "closed"
        /\ Closed(client') \/ client'.terminal # "none"
    <2>1. CASE c.closing \in Waiting
      BY <1>1, <1>2, <1>3, <1>5, <2>1, CloseEndSteps
    <2>2. CASE c.closing \notin Waiting /\ Closed(c)
      BY <1>1, <1>2, <1>3, <2>2 DEF Steps, CleanOnly
    <2>3. CASE c.closing \notin Waiting /\ ~Closed(c)
      <3>1. Moves(c, l) /\ l \in ClientType /\ l.terminal # "none" /\ l.phase = c.phase
        BY <1>2, LatchMoves DEF Moves, Steps
      <3>2. client' = RejectPending(l, TRUE)
        BY <1>1, <2>3
      <3> HIDE DEF l
      <3>3. Moves(l, client') /\ client'.phase = l.phase /\ client'.terminal = l.terminal
        BY <3>1, <3>2, RejectMoves
      <3>4. Moves(c, client')
        BY <3>1, <3>3, StepsOn
      <3> QED BY <1>3, <3>1, <3>3, <3>4, MovesOnly
    <2> QED BY <2>1, <2>2, <2>3
  <1>7. /\ client' \in ClientType /\ Unsent(client') \subseteq Unsent(client)
        /\ IsFiniteSet(Starters(client')) /\ TornDown(client') /\ client'.seen = "close"
    <2>1. Unsent(c) = Unsent(client) /\ Starters(c) = Starters(client)
      BY <1>3, SameRequests
    <2> QED BY <1>3, <1>5, <1>6, <2>1 DEF Steps, Inv
  <1>8. Sound'
    BY <1>1, <1>7, SameProcess DEF Inv
  <1>9. UNCHANGED <<worker, toWorker, toClient>>
    BY <1>1 DEF processVars
  <1>10. Observed'
    BY <1>1, <1>4, <1>6, <1>7, <1>9 DEF Observed
  <1>11. Proposals'
    BY <1>3, <1>6, <1>9, <1>5 DEF Inv, Proposals, Past, Steps
  <1>12. Heard'
    BY <1>1, <1>3, <1>6 DEF Inv, Heard, Steps, CleanOnly, Closed
  <1>13. Ends
    BY <1>3, <1>4, <1>6 DEF Ends, CleanOnly
  <1> QED BY <1>7, <1>8, <1>10, <1>11, <1>12, <1>13 DEF Inv
-------------------------------------------------------------------------------
LEMMA WorkerStepKeeps ==
  ASSUME Inv, WorkerStep, UNCHANGED <<client, heardCleanup>>
  PROVE  Inv' /\ Ends
  <1>1. Running /\ Worked /\ SentOnce' /\ toWorker' \in Seq(ToWorker)
    BY WorkerWorks DEF Inv
  <1>2. Sound'
    BY <1>1 DEF Sound, Piped, Worked
  <1>3. client.seen = "none" /\ ~client.primary /\ client.phase \notin {"none", "closed"}
    <2>1. Absent.os = "absent"
      BY DEF Absent
    <2> QED BY <1>1, <2>1 DEF Inv, Observed, Running, ClientType
  <1>4. Observed'
    BY <1>3 DEF Observed
  <1>5. Past => Past'
    BY <1>1 DEF Worked, Past
  <1>6. Proposals'
    <2>1. \A k \in 1..Len(toClient') : Proposes(toClient'[k]) => Past'
      BY <1>1, <1>5 DEF Worked, Kept, Past, Inv, Proposals
    <2> QED BY <1>5, <2>1 DEF Inv, Proposals
  <1>7. Heard'
    BY DEF Inv, Heard
  <1> QED BY <1>2, <1>4, <1>6, <1>7 DEF Inv, Ends
-------------------------------------------------------------------------------
(* Those who waited for the bootstrap are written to the worker, each once.*)
LEMMA StarterFrames ==
  ASSUME NEW I \in SUBSET Ids, IsFiniteSet(I)
  PROVE  LET fs == SetToSeq({ExecuteFrame(i) : i \in I})
         IN  /\ fs \in Seq(ToWorker)
             /\ \A k \in 1..Len(fs) : fs[k].id \in I
             /\ \A k, l \in 1..Len(fs) : fs[k].id = fs[l].id => k = l
  <1> DEFINE S == {ExecuteFrame(i) : i \in I}
             n == Cardinality(S)
             fs == SetToSeq(S)
             g == [i \in I |-> ExecuteFrame(i)]
  <1>1. g \in Surjection(I, S)
    BY DEF Surjection
  <1>2. IsFiniteSet(S)
    BY <1>1, FS_Surjection
  <1>3. \A f \in S : f \in ToWorker /\ f.id \in I /\ f = ExecuteFrame(f.id)
    BY DEF ToWorker, ExecuteFrame
  <1> HIDE DEF S
  <1>4. n \in Nat /\ ExistsBijection(1..n, S)
    BY <1>2, FS_CardinalityType
  <1>5. \E f \in [1..n -> S] : IsInjective(f)
    BY <1>4 DEF ExistsBijection, Bijection, Injection
  <1>6. fs = CHOOSE f \in [1..n -> S] : IsInjective(f)
    BY DEF SetToSeq
  <1> HIDE DEF fs, n
  <1>7. fs \in [1..n -> S] /\ IsInjective(fs)
    BY <1>5, <1>6
  <1>8. fs \in Seq(S) /\ Len(fs) = n
    BY <1>4, <1>7
  <1>9. \A k \in 1..Len(fs) : fs[k] \in S
    BY <1>7, <1>8
  <1>10. fs \in Seq(ToWorker)
    BY <1>3, <1>8
  <1>11. \A k, l \in 1..Len(fs) : fs[k] = fs[l] => k = l
    BY <1>7, <1>8 DEF IsInjective
  <1> QED BY <1>3, <1>9, <1>10, <1>11 DEF fs, S

LEMMA BootstrappedKeeps ==
  ASSUME Inv, Bootstrapped, Reads, heardCleanup' => heardCleanup
  PROVE  Inv' /\ Ends
  <1> DEFINE q == [i \in Ids |-> IF client.req[i] = "starting" THEN "pending" ELSE client.req[i]]
             c == [client EXCEPT !.phase = "workload", !.boot = "done",
                                 !.req = [i \in Ids |-> IF @[i] = "starting" THEN "pending" ELSE @[i]]]
             starters == Starters(client)
             fs == SetToSeq({ExecuteFrame(i) : i \in starters})
  <1>1. client \in ClientType /\ Hears
    BY DEF Inv, Hears
  <1>2. c = [client EXCEPT !.phase = "workload", !.boot = "done", !.req = q]
    BY <1>1 DEF ClientType
  <1>3. q \in [Ids -> {"idle", "starting", "pending", "resolved", "rejected"}]
    BY <1>1 DEF ClientType
  <1>4. /\ \A i \in Ids : q[i] \in {"idle", "starting"} => q[i] = client.req[i] /\ q[i] # "starting"
        /\ \A i \in starters : q[i] = "pending"
    BY DEF Starters
  <1>5. CASE ~(starters # {} /\ Gone(c)) /\ ~(starters \cap c.aborted # {})
    <2>1. /\ client' = IF starters = {} THEN c ELSE AfterWrite(c)
          /\ toWorker' = Written(fs) /\ UNCHANGED worker
      BY <1>5 DEF Bootstrapped
    <2> HIDE DEF q
    <2>2. c \in ClientType /\ c.req = q /\ c.phase = "workload"
      BY <1>1, <1>2, <1>3 DEF ClientType
    <2>3. /\ c.terminal = client.terminal /\ c.acked = client.acked
          /\ c.emergency = client.emergency /\ c.terminating = client.terminating
          /\ c.seen = client.seen /\ c.primary = client.primary /\ c.closing = client.closing
      BY <1>1, <1>2 DEF ClientType
    <2> HIDE DEF c
    <2>4. Unsent(c) \subseteq Unsent(client) /\ Starters(c) = {} /\ starters \cap Unsent(c) = {}
      BY <1>4, <2>2 DEF Unsent, Starters
    <2>5. Moves(client, c)
      BY <2>2, <2>3, <2>4, FS_EmptySet DEF Moves, Steps, Closed, TornDown
    <2>6. Moves(c, client') /\ client'.phase = "workload" /\ client'.req = c.req
      <3>1. Moves(c, c)
        BY <2>2 DEF Moves, Steps
      <3> QED BY <2>1, <2>2, <3>1, WriteMoves
    <2>7. Moves(client, client') /\ starters \cap Unsent(client') = {}
      BY <2>4, <2>5, <2>6, StepsOn, SameRequests
    <2>8. IsFiniteSet(starters) /\ starters \subseteq Ids /\ starters \subseteq Unsent(client)
      BY DEF Inv, Starters, Unsent
    <2> HIDE DEF starters
    <2>9. /\ fs \in Seq(ToWorker)
          /\ \A k \in 1..Len(fs) : fs[k].id \in starters
          /\ \A k, l \in 1..Len(fs) : fs[k].id = fs[l].id => k = l
      BY <2>8, StarterFrames
    <2> HIDE DEF fs
    <2>10. Unsent(client') \subseteq Unsent(client) /\ toClient' \in Seq(ToClient)
      BY <2>7, ReadsPlaces DEF Moves, Steps, Inv
    <2>11. \A k \in 1..Len(fs) : fs[k].id \in Unsent(client) /\ fs[k].id \notin Unsent(client')
      BY <2>7, <2>8, <2>9
    <2>12. Sound'
      BY <2>1, <2>9, <2>10, <2>11, WrittenSound DEF Inv
    <2> QED BY <1>1, <2>1, <2>6, <2>7, <2>12, MovesOnly, Keeps
  <1>6. CASE \E error : Terminate(c, error)
    <2>1. PICK error : Terminate(c, error)
      BY <1>6
    <2> HIDE DEF q
    <2>2. c \in ClientType /\ c.req = q /\ c.phase = "workload"
      BY <1>1, <1>2, <1>3 DEF ClientType
    <2>3. /\ c.terminal = client.terminal /\ c.acked = client.acked
          /\ c.emergency = client.emergency /\ c.terminating = client.terminating
          /\ c.seen = client.seen /\ c.primary = client.primary /\ c.closing = client.closing
      BY <1>1, <1>2 DEF ClientType
    <2> HIDE DEF c
    <2>4. Unsent(c) \subseteq Unsent(client) /\ Starters(c) = {}
      BY <1>4, <2>2 DEF Unsent, Starters
    <2>5. Moves(client, c)
      BY <2>2, <2>3, <2>4, FS_EmptySet DEF Moves, Steps, Closed, TornDown
    <2> QED BY <2>1, <2>5, TerminateKeeps
  <1> QED BY <1>5, <1>6 DEF Bootstrapped

LEMMA ReadResponseKeeps ==
  ASSUME Inv, ReadResponse
  PROVE  Inv' /\ Ends
  <1> DEFINE f == Head(toClient)
  <1>1. client \in ClientType /\ toClient # <<>> /\ toClient' = Tail(toClient) /\ Reads
    BY DEF Inv, ReadResponse, Reads
  <1>2. /\ f \in ToClient /\ 1 \in 1..Len(toClient) /\ f = toClient[1]
    BY <1>1, TailPlaces DEF Inv, Sound, Piped
  <1>3. client.phase \notin {"none", "closed"}
    BY <1>1 DEF Inv, Observed
  <1>4. /\ f.type = "result" => f.id \in Ids \cup {Boot}
        /\ f.type = "error" => f.id \in Ids \cup {NoId} /\ f.stage \in {"failure", "cleanup"}
        /\ f.type = "retirement-proposal" => Past
    <2>1. Proposes(f) => Past
      BY <1>2 DEF Inv, Proposals
    <2> HIDE DEF f
    <2> QED BY <1>2, <2>1 DEF Proposes, ToClient, ResultFrame, ErrorFrame, ProposalFrame
  <1>5. Moves(client, client)
    BY <1>1 DEF Moves, Steps
  <1> HIDE DEF f
  <1>6. heardCleanup' = \/ heardCleanup
                        \/ /\ f.type = "error" /\ Known(f.id) /\ f.stage = "cleanup"
                           /\ client.closing \notin {"clean", "failed"}
    BY DEF ReadResponse, f
  <1>7. CASE f.type = "result" /\ TakeResult(f.id)
    <2>1. heardCleanup' => heardCleanup
      BY <1>6, <1>7
    <2>2. CASE Terminate(client, "protocol")
      BY <1>1, <1>5, <2>1, <2>2, TerminateKeeps
    <2>3. CASE Bootstrapped
      BY <1>1, <2>1, <2>3, BootstrappedKeeps
    <2>4. CASE /\ f.id \in PendingIds(client) /\ f.id # Boot
               /\ client' = [client EXCEPT !.req[f.id] = "resolved"]
               /\ UNCHANGED <<worker, toWorker>>
      <3>1. f.id \in Ids
        BY <1>4, <1>7, <2>4
      <3>2. Moves(client, client') /\ client'.phase = client.phase
        BY <1>1, <2>4, <3>1, RequestMoves
      <3>3. Hears
        BY <2>1 DEF Hears
      <3> QED BY <1>1, <1>3, <2>4, <3>2, <3>3, MovesOnly, QuietKeeps
    <2> QED BY <1>7, <2>2, <2>3, <2>4 DEF TakeResult
  <1>8. CASE f.type = "error" /\ TakeError(f)
    <2>1. CASE ~Known(f.id) /\ Terminate(client, "protocol")
      <3>1. heardCleanup' => heardCleanup
        BY <1>6, <2>1
      <3> QED BY <1>1, <1>5, <2>1, <3>1, TerminateKeeps
    <2>2. CASE Known(f.id)
      <3> DEFINE l == LatchFailure(client, f.stage)
                 told == f.stage = "cleanup" \/ client.terminal = "none"
                 c == RejectPending(l, told)
      <3>1. CloseFrom(c) /\ UNCHANGED worker
        BY <1>8, <2>2 DEF TakeError
      <3>2. /\ l \in ClientType /\ Moves(client, l) /\ l.phase = client.phase
            /\ f.stage = "cleanup" => l.terminal = "cleanup"
        BY <1>1, <1>4, <1>8, LatchMoves DEF Moves, Steps
      <3>3. told \in BOOLEAN
        OBVIOUS
      <3> HIDE DEF l, told
      <3>4. Moves(l, c) /\ c.phase = l.phase /\ c.terminal = l.terminal
        BY <3>2, <3>3, RejectMoves
      <3> HIDE DEF c
      <3>5. Moves(client, c) /\ c \in ClientType /\ c.phase \notin {"none", "closed"}
        BY <1>3, <3>2, <3>4, StepsOn DEF Moves, Steps
      <3>6. /\ Steps(c, client') /\ CleanOnly(c, client') /\ Closed(client')
            /\ client'.closing = "clean" => c.closing = "clean"
            /\ \/ toWorker' = toWorker
               \/ toWorker' = Written(<<ShutdownFrame>>) /\ c.phase # "none"
        BY <3>1, <3>5, CloseFromSteps
      <3>7. Steps(client, client') /\ CleanOnly(client, client')
        BY <3>5, <3>6, StepsOn
      <3>8. client'.phase # "none"
        BY <1>3, <3>7 DEF Steps
      <3>9. Hears
        <4>1. c.closing = client.closing
          BY <3>5 DEF Moves
        <4>2. f.stage = "cleanup" => client'.terminal = "cleanup"
          BY <3>2, <3>4, <3>6 DEF Steps
        <4> QED BY <1>6, <3>6, <4>1, <4>2 DEF Hears
      <3>10. CASE toWorker' = toWorker
        BY <1>1, <3>1, <3>7, <3>8, <3>9, <3>10, QuietKeeps
      <3>11. CASE toWorker' = Written(<<ShutdownFrame>>)
        BY <1>1, <3>1, <3>7, <3>8, <3>9, <3>11, NoticeKeeps
      <3> QED BY <3>6, <3>10, <3>11
    <2> QED BY <1>8, <2>1, <2>2 DEF TakeError
  <1>9. CASE f.type = "retirement-proposal" /\ TakeProposal
    <2>1. heardCleanup' => heardCleanup
      BY <1>6, <1>9
    <2>2. CASE Terminate(client, "protocol")
      BY <1>1, <1>5, <2>1, <2>2, TerminateKeeps
    <2>3. CASE /\ client' = AfterWrite([client EXCEPT !.proposed = TRUE, !.acked = TRUE])
               /\ toWorker' = Written(<<AckFrame>>)
               /\ UNCHANGED worker
      <3> DEFINE c == [client EXCEPT !.proposed = TRUE, !.acked = TRUE]
      <3>1. c \in ClientType
        BY <1>1 DEF ClientType
      <3>2. /\ c.terminal = client.terminal /\ c.phase = client.phase
            /\ c.emergency = client.emergency /\ c.terminating = client.terminating
            /\ c.seen = client.seen /\ c.primary = client.primary /\ c.closing = client.closing
            /\ c.req = client.req
        BY <1>1 DEF ClientType
      <3>3. client' = AfterWrite(c)
        BY <2>3
      <3> HIDE DEF c
      <3>4. Unsent(c) = Unsent(client) /\ Starters(c) = Starters(client)
        BY <3>2, SameRequests
      <3>5. Moves(client, c)
        BY <1>4, <1>9, <3>1, <3>2, <3>4 DEF Moves, Steps, Closed, TornDown
      <3>6. Moves(c, client') /\ client'.phase = c.phase
        BY <3>1, <3>3, WriteMoves
      <3>7. Moves(client, client') /\ client'.phase # "none"
        BY <1>3, <3>2, <3>5, <3>6, StepsOn
      <3>8. Hears
        BY <2>1 DEF Hears
      <3> QED BY <1>1, <2>3, <3>7, <3>8, MovesOnly, NoticeKeeps
    <2> QED BY <1>9, <2>2, <2>3 DEF TakeProposal
  <1> QED BY <1>7, <1>8, <1>9 DEF ReadResponse, f
-------------------------------------------------------------------------------
LEMMA InvInitially ==
  Init => Inv
  <1> SUFFICES ASSUME Init PROVE Inv
    OBVIOUS
  <1>1. worker = Absent /\ toWorker = <<>> /\ toClient = <<>> /\ client = Fresh /\ ~heardCleanup
    BY DEF Init, ProcessInit
  <1>2. /\ worker \in WorkerType /\ worker.active = {} /\ worker.queue = <<>> /\ worker.job = NoId
        /\ worker.at = "idle" /\ worker.down = "no" /\ ~worker.ready
    <2>1. <<>> \in Seq(Ids)
      OBVIOUS
    <2> QED BY <1>1, <2>1 DEF Absent, WorkerType
  <1>3. Len(worker.queue) = 0 /\ Len(toWorker) = 0 /\ Len(toClient) = 0
    BY <1>1, <1>2
  <1>4. /\ client \in ClientType /\ client.phase = "none" /\ client.seen = "none"
        /\ client.primary = FALSE /\ client.closing = "open" /\ client.emergency = FALSE
        /\ client.acked = FALSE /\ client.terminal = "none"
        /\ \A i \in Ids : client.req[i] = "idle"
    BY <1>1 DEF Fresh, ClientType
  <1>5. Sound
    <2>1. Piped
      BY <1>1 DEF Piped
    <2>2. Orderly(worker) /\ Retiring(worker)
      BY <1>2, <1>3 DEF Orderly, Queued, Retiring
    <2>3. SentOnce
      BY <1>2, <1>3 DEF SentOnce
    <2> QED BY <2>1, <2>2, <2>3 DEF Sound
  <1>6. Starters(client) = {}
    BY <1>4 DEF Starters
  <1>7. Observed /\ TornDown(client) /\ Proposals /\ Heard
    BY <1>1, <1>3, <1>4 DEF Observed, TornDown, Proposals, Heard
  <1> QED BY <1>4, <1>5, <1>6, <1>7, FS_EmptySet DEF Inv

LEMMA NextKeeps ==
  ASSUME Inv, [Next]_vars
  PROVE  Inv' /\ (Ends \/ UNCHANGED vars)
  <1>1. CASE \E i \in Ids : Execute(i) \/ Abort(i)
    BY <1>1, ExecuteKeeps, AbortKeeps
  <1>2. CASE Close
    BY <1>2, CloseKeeps
  <1>3. CASE ProtocolFault \/ StdinFails
    BY <1>3, TeardownsKeep
  <1>4. CASE ErrorSeen
    BY <1>4, ErrorSeenKeeps
  <1>5. CASE ExitSeen
    BY <1>5, ExitSeenKeeps
  <1>6. CASE CloseSeen
    BY <1>6, CloseSeenKeeps
  <1>7. CASE ReadResponse
    BY <1>7, ReadResponseKeeps
  <1>8. CASE Timers
    <2>1. CASE (\E i \in Ids : RequestTimesOut(i)) \/ BootstrapTimesOut
      BY <2>1, TeardownsKeep
    <2>2. CASE TerminateDeadline
      BY <2>2, TerminateDeadlineKeeps
    <2>3. CASE EmergencyDeadline \/ LateDeadline
      BY <2>3, CloseDeadlinesKeep
    <2>4. CASE CooperativeDeadline
      BY <2>4, CooperativeDeadlineKeeps
    <2> QED BY <1>8, <2>1, <2>2, <2>3, <2>4 DEF Timers
  <1>9. CASE WorkerStep /\ UNCHANGED <<client, heardCleanup>>
    BY <1>9, WorkerStepKeeps
  <1>10. CASE UNCHANGED vars
    BY <1>10 DEF vars, processVars, Inv, Sound, Piped, SentOnce, Observed, Proposals, Past, Heard
  <1> QED BY <1>1, <1>2, <1>3, <1>4, <1>5, <1>6, <1>7, <1>8, <1>9, <1>10 DEF Next

(* The invariant: what the pipes carry, who holds which request, how far a *)
(* retirement is, and what the client has seen of its worker's end.        *)
LEMMA InvAlways == Spec => []Inv
  <1>1. Init => Inv
    BY InvInitially
  <1>2. Inv /\ [Next]_vars => Inv'
    BY NextKeeps
  <1> QED BY <1>1, <1>2, PTL DEF Spec

(* The worker's half of a retirement: its sandbox is down when it proposes *)
(* to retire with no request left (shutdown() in guardian-worker.mjs).     *)
ProposesReset == worker.down \in {"proposed", "acked"} /\ worker.active = {} => ~worker.ready

(* It holds in whatever order shutdown() and a failing request take the    *)
(* sandbox down (guardian-worker.mjs:757).                                 *)
THEOREM ProposalsFollowTheReset == Spec => []ProposesReset
  <1>1. Inv => ProposesReset
    BY DEF Inv, Sound, Retiring, ProposesReset
  <1> QED BY <1>1, InvAlways, PTL

(* close() ends cleanly only after the worker's exit was observed, and     *)
(* after a handshake and the worker's own SIGKILL or a failure some caller *)
(* was told of; never once a cleanup failure was heard.                    *)
THEOREM CleanClosesAreEarned == Spec => CleanCloseIsEarned
  <1>1. Inv => (heardCleanup => client.closing # "clean")
    BY DEF Inv, Heard
  <1>2. Inv /\ [Next]_vars =>
          [client.closing # "clean" /\ client'.closing = "clean" /\ client.phase # "none"
             => /\ client'.seen # "none"
                /\ \/ worker.down \notin {"no", "reset"} /\ worker.status = "SIGKILL"
                   \/ client'.reported]_vars
    <2> SUFFICES ASSUME Inv, [Next]_vars
                 PROVE  \/ Ends
                        \/ UNCHANGED vars
      BY DEF Ends, Earned, Past
    <2> QED BY NextKeeps
  <1> QED BY <1>1, <1>2, InvAlways, PTL DEF Spec, CleanCloseIsEarned
===============================================================================
