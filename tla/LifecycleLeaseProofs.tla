------------------------- MODULE LifecycleLeaseProofs -------------------------
(***************************************************************************)
(* The lifecycle lease excludes and serves in order, for any finite set of *)
(* readers and any set of writers.                                         *)
(***************************************************************************)
EXTENDS LifecycleLease, FiniteSetTheorems, SequenceTheorems, TLAPS

Busy(places) == {r \in Readers : places[r] \in {"granted", "working"}}

(* A queue that holds every queued client exactly once, and counters that  *)
(* count exactly the holders: what drain() finds and leaves.               *)
Coherent(q, readers, writer, places) ==
  /\ q \in Seq(Client)
  /\ places \in [Client -> {"out", "queued", "granted", "working"}]
  /\ \A c \in Client : places[c] = "queued" <=> \E i \in DOMAIN q : q[i] = c
  /\ \A i, j \in DOMAIN q : q[i] = q[j] => i = j
  /\ readers = Cardinality(Busy(places))
  /\ writer \in BOOLEAN
  /\ writer <=> \E w \in Writers : places[w] \in {"granted", "working"}
  /\ \A w \in Writers : places[w] \in {"granted", "working"} =>
       \A c \in Client : places[c] \in {"granted", "working"} => c = w

LeaseInv == Coherent(queue, activeReaders, writerActive, pc)

(* The granted positions are a prefix of the queue. *)
LEMMA FrontIsPrefix ==
  ASSUME NEW q \in Seq(Client), NEW readers, NEW writer
  PROVE  LET n == Cardinality(Front(q, readers, writer))
         IN  n \in 0..Len(q) /\ Front(q, readers, writer) = 1..n
  <1> DEFINE front == Front(q, readers, writer)
             n == Cardinality(front)
  <1>1. /\ IsFiniteSet(1..Len(q)) /\ Cardinality(1..Len(q)) = Len(q)
        /\ front \subseteq 1..Len(q)
    <2>1. Len(q) \in Nat /\ DOMAIN q = 1..Len(q)
      OBVIOUS
    <2>2. 1 \in Int /\ Len(q) \in Int
      BY <2>1
    <2>3. IsFiniteSet(1..Len(q)) /\ Cardinality(1..Len(q)) = Len(q)
      BY ONLY <2>1, <2>2, FS_Interval
    <2> QED BY <2>1, <2>3 DEF Front
  <1>2. IsFiniteSet(front) /\ n \in Nat /\ n <= Len(q)
    BY <1>1, FS_Subset, FS_CardinalityType
  <1>3. ASSUME NEW i \in front PROVE i <= n
    <2>1. 1..i \subseteq front
      BY <1>1, <1>3 DEF Front
    <2>2. i \in Nat \ {0}
      BY <1>1, <1>3
    <2>3. Cardinality(1..i) = i
      BY <2>2, FS_Interval
    <2>4. Cardinality(1..i) <= Cardinality(front)
      BY <1>2, <2>1, FS_Subset
    <2> QED BY <2>3, <2>4
  <1>4. front \subseteq 1..n
    BY <1>1, <1>3
  <1>5. IsFiniteSet(1..n) /\ Cardinality(1..n) = n
    BY <1>2, FS_Interval
  <1>6. front = 1..n
    BY <1>4, <1>5, FS_Subset
  <1> QED BY <1>2, <1>6

(* What is left of the queue once its first n waiters are shifted off. *)
LEMMA SuffixIs ==
  ASSUME NEW q \in Seq(Client), NEW n \in 0..Len(q)
  PROVE  LET rest == SubSeq(q, n + 1, Len(q))
         IN  /\ rest \in Seq(Client) /\ Len(rest) = Len(q) - n
             /\ \A i \in 1..(Len(q) - n) : rest[i] = q[i + n]
  <1> DEFINE rest == SubSeq(q, n + 1, Len(q))
  <1>1. Len(q) \in Nat /\ DOMAIN q = 1..Len(q)
    OBVIOUS
  <1>2. n + 1 \in Int /\ Len(q) \in Int /\ \A i \in (n + 1)..Len(q) : q[i] \in Client
    BY <1>1
  <1>3. /\ rest \in Seq(Client)
        /\ Len(rest) = IF n + 1 <= Len(q) THEN Len(q) - (n + 1) + 1 ELSE 0
        /\ \A i \in 1..(Len(q) - (n + 1) + 1) : rest[i] = q[(n + 1) + i - 1]
    BY <1>2, SubSeqProperties
  <1> HIDE DEF rest
  <1>4. Len(rest) = Len(q) - n
    BY <1>1, <1>3
  <1>5. ASSUME NEW i \in 1..(Len(q) - n) PROVE rest[i] = q[i + n]
    <2>1. i \in 1..(Len(q) - (n + 1) + 1) /\ (n + 1) + i - 1 = i + n
      BY <1>1
    <2> QED BY <1>3, <2>1
  <1> QED BY <1>3, <1>4, <1>5 DEF rest

(* drain() keeps the queue, the counters and the holders coherent.         *)
LEMMA DrainCoherent ==
  ASSUME NEW q, NEW readers, NEW writer, NEW places,
         Coherent(q, readers, writer, places), Drain(q, readers, writer, places)
  PROVE  LeaseInv'
  <1> DEFINE front == Front(q, readers, writer)
             n == Cardinality(front)
             granted == {q[i] : i \in front}
  <1>1. /\ q \in Seq(Client) /\ n \in 0..Len(q) /\ front = 1..n
        /\ Len(q) \in Nat /\ DOMAIN q = 1..Len(q)
    BY FrontIsPrefix DEF Coherent
  <1>2. /\ queue' = SubSeq(q, n + 1, Len(q))
        /\ activeReaders' = readers + Cardinality(granted \cap Readers)
        /\ writerActive' = (writer \/ granted \cap Writers # {})
        /\ pc' = [c \in Client |-> IF c \in granted THEN "granted" ELSE places[c]]
    BY DEF Drain
  <1> HIDE DEF n
  <1>3. granted \subseteq Client /\ \A c \in granted : places[c] = "queued"
    BY <1>1 DEF Coherent
  <1>4. /\ queue' \in Seq(Client) /\ Len(queue') = Len(q) - n
        /\ \A i \in 1..(Len(q) - n) : queue'[i] = q[i + n]
    BY <1>1, <1>2, SuffixIs
  <1>5. pc' \in [Client -> {"out", "queued", "granted", "working"}]
    BY <1>2 DEF Coherent
  <1>6. ASSUME NEW c \in Client
        PROVE  pc'[c] = "queued" <=> \E i \in DOMAIN queue' : queue'[i] = c
    <2>1. c \in granted <=> \E i \in 1..n : q[i] = c
      BY <1>1
    <2>2. (\E i \in DOMAIN queue' : queue'[i] = c) <=> \E i \in (n + 1)..Len(q) : q[i] = c
      <3>1. ASSUME NEW i \in (n + 1)..Len(q), q[i] = c
            PROVE  \E j \in DOMAIN queue' : queue'[j] = c
        <4>1. i - n \in 1..(Len(q) - n) /\ queue'[i - n] = q[i]
          BY <1>1, <1>4
        <4> QED BY <1>4, <3>1, <4>1
      <3> QED BY <1>1, <1>4, <3>1
    <2>3. pc'[c] = "queued" <=> places[c] = "queued" /\ c \notin granted
      BY <1>2
    <2>4. places[c] = "queued" <=> \E i \in 1..Len(q) : q[i] = c
      BY <1>1 DEF Coherent
    <2>5. \A i, j \in 1..Len(q) : q[i] = q[j] => i = j
      BY <1>1 DEF Coherent
    <2> QED BY <1>1, <2>1, <2>2, <2>3, <2>4, <2>5
  <1>7. \A i, j \in DOMAIN queue' : queue'[i] = queue'[j] => i = j
    <2>1. \A i, j \in 1..Len(q) : q[i] = q[j] => i = j
      BY <1>1 DEF Coherent
    <2>2. DOMAIN queue' = 1..(Len(q) - n)
      BY <1>4
    <2>3. ASSUME NEW i \in 1..(Len(q) - n), NEW j \in 1..(Len(q) - n), queue'[i] = queue'[j]
          PROVE  i = j
      <3>1. i + n \in 1..Len(q) /\ j + n \in 1..Len(q) /\ q[i + n] = q[j + n]
        BY <1>1, <1>4, <2>3
      <3>2. i + n = j + n
        BY <2>1, <3>1
      <3> QED BY <1>1, <3>2
    <2> QED BY <2>2, <2>3
  <1>8. activeReaders' = Cardinality(Busy(pc'))
    <2>1. Busy(pc') = Busy(places) \cup (granted \cap Readers)
      BY <1>2, <1>3 DEF Busy, Client
    <2>2. Busy(places) \cap (granted \cap Readers) = {}
      BY <1>3 DEF Busy
    <2>3. IsFiniteSet(Busy(places)) /\ IsFiniteSet(granted \cap Readers)
      BY LeaseAssumption, FS_Subset DEF Busy
    <2>4. /\ Cardinality(Busy(places)) \in Nat
          /\ Cardinality(granted \cap Readers) \in Nat
          /\ Cardinality(Busy(places) \cap (granted \cap Readers)) = 0
      BY <2>2, <2>3, FS_CardinalityType, FS_EmptySet
    <2>5. Cardinality(Busy(pc')) =
            Cardinality(Busy(places)) + Cardinality(granted \cap Readers)
      <3> HIDE DEF granted
      <3>1. Cardinality(Busy(places) \cup (granted \cap Readers)) =
              Cardinality(Busy(places)) + Cardinality(granted \cap Readers)
                - Cardinality(Busy(places) \cap (granted \cap Readers))
        BY <2>3, FS_Union
      <3> QED BY <2>1, <2>4, <3>1
    <2> QED BY <1>2, <2>5 DEF Coherent
  <1>9. writerActive' \in BOOLEAN /\
        (writerActive' <=> \E w \in Writers : pc'[w] \in {"granted", "working"})
    BY <1>2, <1>3 DEF Coherent, Client
  <1>10. ASSUME NEW w \in Writers, pc'[w] \in {"granted", "working"},
                NEW c \in Client, pc'[c] \in {"granted", "working"}
         PROVE  c = w
    <2>1. w \in Client
      BY DEF Client
    <2>2. CASE w \in granted
      <3>1. /\ ~writer /\ readers = 0 /\ granted = {w}
        <4>1. PICK k \in front : q[k] = w
          BY <2>2
        <4>2. q[k] \notin Readers
          BY <4>1, LeaseAssumption
        <4>3. k = 1 /\ ~writer /\ readers = 0
          BY <1>1, <4>1, <4>2 DEF Front
        <4>4. \A i \in front : i = 1
          BY <1>1, <4>1, <4>2, <4>3 DEF Front
        <4> QED BY <4>1, <4>3, <4>4
      <3>2. Busy(places) = {}
        BY <3>1, LeaseAssumption, FS_Subset, FS_EmptySet DEF Coherent, Busy
      <3> QED BY <1>2, <1>10, <3>1, <3>2 DEF Coherent, Busy, Client
    <2>3. CASE w \notin granted
      <3>1. places[w] \in {"granted", "working"} /\ writer
        BY <1>2, <1>10, <2>1, <2>3 DEF Coherent
      <3>2. granted = {}
        BY <3>1 DEF Front
      <3> QED BY <1>2, <1>10, <3>1, <3>2 DEF Coherent
    <2> QED BY <2>2, <2>3
  <1> QED BY <1>4, <1>5, <1>6, <1>7, <1>8, <1>9, <1>10 DEF LeaseInv, Coherent

(* Queueing at the end leaves a coherent state for drain(). *)
LEMMA AcquireCoherent ==
  ASSUME NEW c \in Client, LeaseInv, pc[c] = "out"
  PROVE  Coherent(Append(queue, c), activeReaders, writerActive, [pc EXCEPT ![c] = "queued"])
  <1> DEFINE q == Append(queue, c)
             places == [pc EXCEPT ![c] = "queued"]
  <1>1. /\ queue \in Seq(Client) /\ Len(queue) \in Nat /\ DOMAIN queue = 1..Len(queue)
        /\ pc \in [Client -> {"out", "queued", "granted", "working"}]
        /\ \A d \in Client : pc[d] = "queued" <=> \E i \in DOMAIN queue : queue[i] = d
        /\ \A i, j \in DOMAIN queue : queue[i] = queue[j] => i = j
    BY DEF LeaseInv, Coherent
  <1>2. /\ q \in Seq(Client) /\ DOMAIN q = 1..(Len(queue) + 1) /\ q[Len(queue) + 1] = c
        /\ \A i \in 1..Len(queue) : q[i] = queue[i]
    BY <1>1
  <1>3. \A i \in 1..Len(queue) : queue[i] # c
    BY <1>1
  <1> HIDE DEF q
  <1>4. ASSUME NEW d \in Client
        PROVE  places[d] = "queued" <=> \E i \in DOMAIN q : q[i] = d
    BY <1>1, <1>2
  <1>5. \A i, j \in DOMAIN q : q[i] = q[j] => i = j
    BY <1>1, <1>2, <1>3
  <1>6. /\ places \in [Client -> {"out", "queued", "granted", "working"}]
        /\ \A d \in Client : places[d] \in {"granted", "working"} <=>
                             pc[d] \in {"granted", "working"}
    BY <1>1
  <1>7. Busy(places) = Busy(pc)
    BY <1>6 DEF Busy, Client
  <1> HIDE DEF places
  <1>8. Coherent(q, activeReaders, writerActive, places)
    BY <1>2, <1>4, <1>5, <1>6, <1>7 DEF LeaseInv, Coherent, Client
  <1> QED BY <1>8 DEF q, places

(* What splice() leaves of the queue when one waiter is taken out. *)
LEMMA WithoutIs ==
  ASSUME NEW q \in Seq(Client), NEW i \in DOMAIN q
  PROVE  /\ Without(q, i) \in Seq(Client)
         /\ DOMAIN Without(q, i) = 1..(Len(q) - 1)
         /\ \A j \in 1..(Len(q) - 1) :
              Without(q, i)[j] = IF j < i THEN q[j] ELSE q[j + 1]
  <1>1. Len(q) \in Nat \ {0} /\ DOMAIN q = 1..Len(q)
    OBVIOUS
  <1>2. \A j \in 1..(Len(q) - 1) : j \in 1..Len(q) /\ j + 1 \in 1..Len(q)
    BY <1>1
  <1>3. Without(q, i) \in [1..(Len(q) - 1) -> Client]
    BY <1>1, <1>2 DEF Without
  <1>4. Len(q) - 1 \in Nat
    BY <1>1
  <1>5. Without(q, i) \in Seq(Client)
    BY <1>3, <1>4, SeqDef
  <1> QED BY <1>3, <1>5 DEF Without

(* Taking an aborted waiter out leaves a coherent state for drain(). *)
LEMMA AbortCoherent ==
  ASSUME NEW i \in DOMAIN queue, LeaseInv
  PROVE  Coherent(Without(queue, i), activeReaders, writerActive,
                  [pc EXCEPT ![queue[i]] = "out"])
  <1> DEFINE q == Without(queue, i)
             places == [pc EXCEPT ![queue[i]] = "out"]
  <1>1. /\ queue \in Seq(Client) /\ Len(queue) \in Nat /\ DOMAIN queue = 1..Len(queue)
        /\ pc \in [Client -> {"out", "queued", "granted", "working"}]
        /\ queue[i] \in Client /\ pc[queue[i]] = "queued"
        /\ \A d \in Client : pc[d] = "queued" <=> \E j \in DOMAIN queue : queue[j] = d
        /\ \A j, k \in DOMAIN queue : queue[j] = queue[k] => j = k
    BY DEF LeaseInv, Coherent
  <1>2. /\ q \in Seq(Client) /\ DOMAIN q = 1..(Len(queue) - 1)
        /\ \A j \in 1..(Len(queue) - 1) : q[j] = IF j < i THEN queue[j] ELSE queue[j + 1]
    BY <1>1, WithoutIs
  <1> HIDE DEF q
  <1>3. \A j, k \in DOMAIN q : q[j] = q[k] => j = k
    <2> SUFFICES ASSUME NEW j \in 1..(Len(queue) - 1), NEW k \in 1..(Len(queue) - 1),
                        q[j] = q[k]
                 PROVE  j = k
      BY <1>2
    <2> DEFINE at(x) == IF x < i THEN x ELSE x + 1
    <2>1. q[j] = queue[at(j)] /\ q[k] = queue[at(k)] /\ at(j) \in 1..Len(queue)
          /\ at(k) \in 1..Len(queue)
      BY <1>1, <1>2
    <2>2. at(j) = at(k)
      <3> HIDE DEF at
      <3>1. queue[at(j)] = queue[at(k)]
        BY <2>1
      <3> QED BY ONLY <1>1, <2>1, <3>1
    <2> QED BY <1>1, <2>2
  <1>4. ASSUME NEW d \in Client
        PROVE  places[d] = "queued" <=> \E j \in DOMAIN q : q[j] = d
    <2>1. ASSUME NEW j \in 1..Len(queue), queue[j] = d, d # queue[i]
          PROVE  \E k \in DOMAIN q : q[k] = d
      <3>1. CASE j < i
        BY <1>1, <1>2, <2>1, <3>1
      <3>2. CASE j > i
        <4>1. j - 1 \in 1..(Len(queue) - 1) /\ ~(j - 1 < i) /\ (j - 1) + 1 = j
          BY <1>1, <3>2
        <4> QED BY <1>2, <2>1, <4>1
      <3> QED BY <1>1, <2>1, <3>1, <3>2
    <2>2. ASSUME NEW k \in DOMAIN q, q[k] = d
          PROVE  d # queue[i] /\ \E j \in 1..Len(queue) : queue[j] = d
      <3>1. CASE k < i
        <4>1. k \in 1..Len(queue) /\ k # i /\ queue[k] = d
          BY <1>1, <1>2, <2>2, <3>1
        <4> QED BY <1>1, <4>1
      <3>2. CASE ~(k < i)
        <4>1. k + 1 \in 1..Len(queue) /\ k + 1 # i /\ queue[k + 1] = d
          BY <1>1, <1>2, <2>2, <3>2
        <4> QED BY <1>1, <4>1
      <3> QED BY <3>1, <3>2
    <2>3. places[d] = "queued" <=> d # queue[i] /\ pc[d] = "queued"
      BY <1>1
    <2> QED BY <1>1, <2>1, <2>2, <2>3
  <1>5. /\ places \in [Client -> {"out", "queued", "granted", "working"}]
        /\ \A d \in Client : places[d] \in {"granted", "working"} <=>
                             pc[d] \in {"granted", "working"}
    BY <1>1
  <1>6. Busy(places) = Busy(pc)
    BY <1>5 DEF Busy, Client
  <1> HIDE DEF places
  <1>7. Coherent(q, activeReaders, writerActive, places)
    BY <1>2, <1>3, <1>4, <1>5, <1>6 DEF LeaseInv, Coherent, Client
  <1> QED BY <1>7 DEF q, places

(* So does the end of an operation, of a reader or of a writer. *)
LEMMA ReleaseCoherent ==
  ASSUME NEW c \in Client, LeaseInv, pc[c] = "working"
  PROVE  Coherent(queue, ReadersLeft(c), writerActive /\ c \notin Writers,
                  [pc EXCEPT ![c] = "out"])
  <1> DEFINE places == [pc EXCEPT ![c] = "out"]
             writer == writerActive /\ c \notin Writers
  <1>1. /\ pc \in [Client -> {"out", "queued", "granted", "working"}]
        /\ \A d \in Client : pc[d] = "queued" <=> \E i \in DOMAIN queue : queue[i] = d
        /\ writerActive \in BOOLEAN
        /\ writerActive <=> \E w \in Writers : pc[w] \in {"granted", "working"}
        /\ \A w \in Writers : pc[w] \in {"granted", "working"} =>
             \A d \in Client : pc[d] \in {"granted", "working"} => d = w
    BY DEF LeaseInv, Coherent
  <1>2. places \in [Client -> {"out", "queued", "granted", "working"}]
    BY <1>1
  <1>3. \A d \in Client : /\ d # c => places[d] = pc[d]
                         /\ places[c] = "out"
    BY <1>1
  <1>4. ReadersLeft(c) = Cardinality(Busy(places))
    <2>1. Busy(places) = Busy(pc) \ {c}
      BY <1>3 DEF Busy, Client
    <2>2. IsFiniteSet(Busy(pc))
      BY LeaseAssumption, FS_Subset DEF Busy
    <2>3. c \in Busy(pc) <=> c \in Readers
      BY DEF Busy
    <2>4. activeReaders = Cardinality(Busy(pc))
      BY DEF LeaseInv, Coherent
    <2>5. Cardinality(Busy(pc) \ {c}) =
            IF c \in Busy(pc) THEN Cardinality(Busy(pc)) - 1 ELSE Cardinality(Busy(pc))
      BY <2>2, FS_RemoveElement
    <2> QED BY <2>1, <2>3, <2>4, <2>5 DEF ReadersLeft
  <1>5. writer <=> \E w \in Writers : places[w] \in {"granted", "working"}
    <2>1. CASE c \in Writers
      BY <1>1, <1>3, <2>1 DEF Client
    <2>2. CASE c \notin Writers
      BY <1>1, <1>3, <2>2 DEF Client
    <2> QED BY <2>1, <2>2
  <1>6. \A d \in Client : places[d] = "queued" <=> \E i \in DOMAIN queue : queue[i] = d
    BY <1>1, <1>3
  <1>7. \A w \in Writers : places[w] \in {"granted", "working"} =>
          \A d \in Client : places[d] \in {"granted", "working"} => d = w
    BY <1>1, <1>3 DEF Client
  <1> HIDE DEF places
  <1>8. Coherent(queue, ReadersLeft(c), writer, places)
    BY <1>1, <1>2, <1>4, <1>5, <1>6, <1>7 DEF LeaseInv, Coherent
  <1> QED BY <1>8 DEF places, writer

(* Starting a granted operation moves no counter. *)
LEMMA StartCoherent ==
  ASSUME NEW c \in Client, LeaseInv, Start(c)
  PROVE  LeaseInv'
  <1>1. /\ pc \in [Client -> {"out", "queued", "granted", "working"}]
        /\ pc' \in [Client -> {"out", "queued", "granted", "working"}]
        /\ \A d \in Client : /\ pc'[d] = "queued" <=> pc[d] = "queued"
                             /\ pc'[d] \in {"granted", "working"} <=>
                                  pc[d] \in {"granted", "working"}
    BY DEF LeaseInv, Coherent, Start
  <1>2. Busy(pc') = Busy(pc)
    BY <1>1 DEF Busy, Client
  <1>3. queue' = queue /\ activeReaders' = activeReaders /\ writerActive' = writerActive
    BY DEF Start
  <1> QED BY <1>1, <1>2, <1>3 DEF LeaseInv, Coherent, Client

(* The lease starts coherent. *)
LEMMA InitCoherent == Init => LeaseInv
  <1> SUFFICES ASSUME Init PROVE LeaseInv
    OBVIOUS
  <1>1. Busy(pc) = {}
    BY DEF Init, Busy, Client
  <1>2. Cardinality(Busy(pc)) = 0
    BY <1>1, FS_EmptySet
  <1>3. queue = <<>> /\ queue \in Seq(Client) /\ DOMAIN queue = {}
    BY DEF Init
  <1> QED BY <1>2, <1>3 DEF Init, LeaseInv, Coherent, Client

(* Every step keeps the lease coherent. *)
LEMMA NextCoherent == LeaseInv /\ [Next]_vars => LeaseInv'
  <1> SUFFICES ASSUME LeaseInv, [Next]_vars PROVE LeaseInv'
    OBVIOUS
  <1>1. CASE UNCHANGED vars
    BY <1>1 DEF vars, LeaseInv, Coherent, Busy
  <1>2. ASSUME NEW c \in Client, Acquire(c) PROVE LeaseInv'
    BY <1>2, AcquireCoherent, DrainCoherent DEF Acquire
  <1>3. ASSUME NEW c \in Client, Release(c) PROVE LeaseInv'
    BY <1>3, ReleaseCoherent, DrainCoherent DEF Release
  <1>4. ASSUME NEW i \in DOMAIN queue, Abort(i) PROVE LeaseInv'
    BY <1>4, AbortCoherent, DrainCoherent DEF Abort, DrainAfterAbort
  <1>5. ASSUME NEW c \in Client, Start(c) PROVE LeaseInv'
    BY <1>5, StartCoherent
  <1> QED BY <1>1, <1>2, <1>3, <1>4, <1>5 DEF Next

(* A sandbox mutation never lands underneath another operation, however    *)
(* many readers and writers come, abort and leave                          *)
(* (sandbox-lifecycle-lease.ts:11-17).                                     *)
THEOREM WritersAlwaysAlone == Spec => []WritersAlone
  <1>1. LeaseInv => WritersAlone
    BY DEF LeaseInv, Coherent, WritersAlone, Holds
  <1> QED BY <1>1, InitCoherent, NextCoherent, PTL DEF Spec
-------------------------------------------------------------------------------
(* drain() grants up to a conflict: whoever it leaves at the head is kept  *)
(* there by a holder.                                                      *)
LEMMA DrainReachesConflict ==
  ASSUME NEW q, NEW readers, NEW writer, NEW places,
         Coherent(q, readers, writer, places), Drain(q, readers, writer, places)
  PROVE  HeadsWaitForConflicts'
  <1> DEFINE front == Front(q, readers, writer)
             n == Cardinality(front)
             granted == {q[i] : i \in front}
  <1>1. /\ q \in Seq(Client) /\ n \in 0..Len(q) /\ front = 1..n
        /\ Len(q) \in Nat /\ DOMAIN q = 1..Len(q)
    BY FrontIsPrefix DEF Coherent
  <1>2. /\ queue' = SubSeq(q, n + 1, Len(q))
        /\ pc' = [c \in Client |-> IF c \in granted THEN "granted" ELSE places[c]]
    BY DEF Drain
  <1>3. /\ Len(queue') = Len(q) - n
        /\ \A i \in 1..(Len(q) - n) : queue'[i] = q[i + n]
    BY <1>1, <1>2, SuffixIs
  <1> SUFFICES ASSUME queue' # <<>>
               PROVE  \E c \in Client : Holds(c)' /\ (c \in Writers \/ Head(queue') \in Writers)
    BY DEF HeadsWaitForConflicts
  <1> HIDE DEF n
  <1>4. n + 1 \in 1..Len(q) /\ Head(queue') = q[n + 1] /\ n + 1 \notin front
    <2>1. queue' \in Seq(Client)
      BY <1>1, <1>2, SuffixIs
    <2> DEFINE rest == queue'
    <2>2. Len(rest) # 0 /\ Head(rest) = rest[1]
      <3>1. rest \in Seq(Client) /\ rest # <<>>
        BY <2>1
      <3> HIDE DEF rest
      <3>2. Len(rest) \in Nat \ {0}
        BY <3>1, EmptySeq
      <3>3. Head(rest) = rest[1]
        BY <3>1, <3>2
      <3> QED BY <3>2, <3>3
    <2> DEFINE left == Len(q) - n
    <2>3. left \in Nat /\ left # 0 /\ left + n = Len(q) /\ n \in Nat
      <3>1. left # 0
        BY <1>3, <2>2
      <3>2. n \in 0..Len(q) /\ Len(q) \in Nat
        BY <1>1
      <3> QED BY <3>1, <3>2
    <2>4. \A i \in 1..left : queue'[i] = q[i + n]
      BY <1>3
    <2> HIDE DEF left, rest
    <2>5. 1 \in 1..left
      BY <2>3
    <2>6. queue'[1] = q[1 + n] /\ n + 1 = 1 + n
      BY <2>3, <2>4, <2>5
    <2>7. n + 1 \in 1..Len(q) /\ n + 1 \notin front
      BY <1>1, <2>3
    <2> QED BY <2>2, <2>6, <2>7 DEF rest
  <1>5. \A c \in Client : c \in granted \/ places[c] \in {"granted", "working"} => Holds(c)'
    BY <1>2 DEF Holds
  <1>6. CASE writer
    <2>1. PICK w \in Writers : places[w] \in {"granted", "working"}
      BY <1>6 DEF Coherent
    <2> QED BY <1>5, <2>1 DEF Client
  <1>7. CASE ~writer /\ n = 0
    <2>1. 1 \in DOMAIN q /\ 1 \notin front /\ Head(queue') = q[1] /\ q[1] \in Client
      BY <1>1, <1>4, <1>7
    <2>2. q[1] \in Writers /\ readers # 0
      BY <1>7, <2>1 DEF Front, Client
    <2>3. Busy(places) # {}
      BY <2>2, FS_EmptySet DEF Coherent
    <2> QED BY <1>5, <2>1, <2>2, <2>3 DEF Busy, Client
  <1>8. CASE ~writer /\ n # 0
    <2>1. 1 \in front /\ n \in front /\ n \in Nat \ {0}
      BY <1>1, <1>8
    <2>2. q[1] \in Client /\ q[1] \in granted /\ Holds(q[1])'
      BY <1>1, <1>5, <2>1
    <2>3. CASE q[1] \in Writers
      BY <2>2, <2>3
    <2>4. CASE q[1] \notin Writers
      <3>1. \A j \in 1..n : q[j] \in Readers
        BY <1>1, <2>1, <2>4 DEF Front
      <3>2. q[n + 1] \notin Readers
        <4>1. q[n + 1] \in Readers => \A j \in 1..(n + 1) : q[j] \in Readers
          BY <2>1, <3>1
        <4> QED BY <1>1, <1>4, <1>8, <4>1 DEF Front
      <3>3. Head(queue') \in Writers
        BY <1>1, <1>4, <3>2 DEF Client
      <3> QED BY <2>2, <3>3
    <2> QED BY <2>3, <2>4
  <1> QED
    <2>1. writer \in BOOLEAN
      BY DEF Coherent
    <2> QED BY <1>6, <1>7, <1>8, <2>1

(* Nobody ever waits for holders it has no conflict with: every way a      *)
(* waiter or a holder goes lets those go that it kept                      *)
(* (sandbox-lifecycle-lease.ts:53-61, 67-92).                              *)
THEOREM HeadsAlwaysWaitForConflicts == Spec => []HeadsWaitForConflicts
  <1>1. Init => HeadsWaitForConflicts
    BY DEF Init, HeadsWaitForConflicts
  <1>2. LeaseInv /\ HeadsWaitForConflicts /\ [Next]_vars => HeadsWaitForConflicts'
    <2> SUFFICES ASSUME LeaseInv, HeadsWaitForConflicts, [Next]_vars
                 PROVE  HeadsWaitForConflicts'
      OBVIOUS
    <2>1. CASE UNCHANGED vars
      BY <2>1 DEF vars, HeadsWaitForConflicts, Holds
    <2>2. ASSUME NEW c \in Client, Acquire(c) PROVE HeadsWaitForConflicts'
      BY <2>2, AcquireCoherent, DrainReachesConflict DEF Acquire
    <2>3. ASSUME NEW c \in Client, Release(c) PROVE HeadsWaitForConflicts'
      BY <2>3, ReleaseCoherent, DrainReachesConflict DEF Release
    <2>4. ASSUME NEW i \in DOMAIN queue, Abort(i) PROVE HeadsWaitForConflicts'
      BY <2>4, AbortCoherent, DrainReachesConflict DEF Abort, DrainAfterAbort
    <2>5. ASSUME NEW c \in Client, Start(c) PROVE HeadsWaitForConflicts'
      <3>1. queue' = queue /\ \A d \in Client : Holds(d) => Holds(d)'
        BY <2>5 DEF Start, Holds, LeaseInv, Coherent
      <3> QED BY <3>1 DEF HeadsWaitForConflicts
    <2> QED BY <2>1, <2>2, <2>3, <2>4, <2>5 DEF Next
  <1> QED BY <1>1, <1>2, InitCoherent, NextCoherent, PTL DEF Spec
-------------------------------------------------------------------------------
(* drain() serves the queue it works on from the front.                    *)
LEMMA DrainInOrder ==
  ASSUME NEW q, NEW readers, NEW writer, NEW places,
         Coherent(q, readers, writer, places), Drain(q, readers, writer, places),
         NEW k \in DOMAIN q, NEW l \in DOMAIN q, k < l, pc'[q[l]] = "granted"
  PROVE  pc'[q[k]] = "granted"
  <1> DEFINE front == Front(q, readers, writer)
             n == Cardinality(front)
             granted == {q[i] : i \in front}
  <1>1. /\ q \in Seq(Client) /\ n \in 0..Len(q) /\ front = 1..n
        /\ Len(q) \in Nat /\ DOMAIN q = 1..Len(q)
    BY FrontIsPrefix DEF Coherent
  <1>2. pc' = [c \in Client |-> IF c \in granted THEN "granted" ELSE places[c]]
    BY DEF Drain
  <1>3. /\ places[q[l]] = "queued" /\ q[l] \in Client /\ q[k] \in Client
        /\ \A i \in DOMAIN q : q[i] = q[l] => i = l
    BY <1>1 DEF Coherent
  <1>4. l \in front
    BY <1>1, <1>2, <1>3
  <1>5. k \in front
    BY <1>1, <1>4
  <1> QED BY <1>2, <1>3, <1>5

(* The body of NobodyOvertakes. *)
InOrder ==
  \A i, j \in DOMAIN queue :
    i < j /\ pc'[queue[j]] = "granted" => pc'[queue[i]] # "queued"

LEMMA NextInOrder == LeaseInv /\ [Next]_vars => InOrder
  <1> SUFFICES ASSUME LeaseInv, [Next]_vars, NEW i \in DOMAIN queue, NEW j \in DOMAIN queue,
                      i < j, pc'[queue[j]] = "granted"
               PROVE  pc'[queue[i]] # "queued"
    BY DEF InOrder
  <1>1. /\ queue \in Seq(Client) /\ Len(queue) \in Nat /\ DOMAIN queue = 1..Len(queue)
        /\ pc \in [Client -> {"out", "queued", "granted", "working"}]
        /\ queue[i] \in Client /\ queue[j] \in Client
        /\ pc[queue[i]] = "queued" /\ pc[queue[j]] = "queued"
        /\ \A k \in DOMAIN queue : queue[k] = queue[j] => k = j
        /\ \A k \in DOMAIN queue : queue[k] = queue[i] => k = i
    BY DEF LeaseInv, Coherent
  <1>2. ASSUME NEW c \in Client, Acquire(c) PROVE pc'[queue[i]] # "queued"
    <2> DEFINE q == Append(queue, c)
    <2>1. i \in DOMAIN q /\ j \in DOMAIN q /\ q[i] = queue[i] /\ q[j] = queue[j]
      BY <1>1
    <2> HIDE DEF q
    <2>2. pc'[q[j]] = "granted"
      BY <2>1
    <2>3. /\ Coherent(q, activeReaders, writerActive, [pc EXCEPT ![c] = "queued"])
          /\ Drain(q, activeReaders, writerActive, [pc EXCEPT ![c] = "queued"])
      BY <1>2, AcquireCoherent DEF Acquire, q
    <2> QED BY <2>1, <2>2, <2>3, DrainInOrder
  <1>3. ASSUME NEW c \in Client, Release(c) PROVE pc'[queue[i]] # "queued"
    BY <1>3, ReleaseCoherent, DrainInOrder DEF Release
  <1>4. ASSUME NEW a \in DOMAIN queue, Abort(a) PROVE pc'[queue[i]] # "queued"
    <2> DEFINE q == Without(queue, a)
               places == [pc EXCEPT ![queue[a]] = "out"]
               at(k) == IF k < a THEN k ELSE k - 1
    <2>1. /\ Coherent(q, activeReaders, writerActive, places)
          /\ Drain(q, activeReaders, writerActive, places)
      BY <1>4, AbortCoherent DEF Abort, DrainAfterAbort
    <2>2. /\ DOMAIN q = 1..(Len(queue) - 1)
          /\ \A k \in 1..(Len(queue) - 1) : q[k] = IF k < a THEN queue[k] ELSE queue[k + 1]
      BY <1>1, WithoutIs
    <2>3. ASSUME NEW k \in 1..Len(queue), k # a
          PROVE  at(k) \in DOMAIN q /\ q[at(k)] = queue[k]
      <3>1. CASE k < a
        BY <1>1, <2>2, <3>1
      <3>2. CASE k > a
        <4>1. k - 1 \in 1..(Len(queue) - 1) /\ ~(k - 1 < a) /\ (k - 1) + 1 = k /\ ~(k < a)
          BY <1>1, <3>2
        <4> QED BY <2>2, <4>1
      <3> QED BY <1>1, <2>3, <3>1, <3>2
    <2>4. \A c \in Client : pc'[c] \in {"granted", places[c]}
      BY <2>1 DEF Drain
    <2> HIDE DEF q
    <2>5. CASE i = a
      BY <1>1, <2>4, <2>5
    <2>6. CASE j = a
      <3>1. places[queue[j]] = "out" /\ \A k \in DOMAIN q : q[k] # queue[j]
        <4>1. ASSUME NEW k \in 1..(Len(queue) - 1)
              PROVE  /\ k \in 1..Len(queue) /\ k + 1 \in 1..Len(queue)
                     /\ k < a => k # j
                     /\ ~(k < a) => k + 1 # j
          BY <1>1, <2>6
        <4>2. ASSUME NEW k \in 1..(Len(queue) - 1) PROVE q[k] # queue[j]
          <5>1. CASE k < a
            BY <1>1, <2>2, <4>1, <5>1
          <5>2. CASE ~(k < a)
            BY <1>1, <2>2, <4>1, <5>2
          <5> QED BY <5>1, <5>2
        <4>3. places[queue[j]] = "out"
          BY <1>1, <2>6
        <4> QED BY <2>2, <4>2, <4>3
      <3>2. queue[j] \notin {q[k] : k \in Front(q, activeReaders, writerActive)}
        BY <3>1 DEF Front
      <3>3. pc'[queue[j]] = places[queue[j]]
        BY <1>1, <2>1, <3>2 DEF Drain
      <3> QED BY <3>1, <3>3
    <2>7. CASE i # a /\ j # a
      <3>1. /\ at(i) \in DOMAIN q /\ q[at(i)] = queue[i]
            /\ at(j) \in DOMAIN q /\ q[at(j)] = queue[j] /\ at(i) < at(j)
        BY <1>1, <2>3, <2>7
      <3> HIDE DEF at, places
      <3>2. pc'[q[at(j)]] = "granted"
        BY <3>1
      <3> QED BY <2>1, <3>1, <3>2, DrainInOrder
    <2> QED BY <2>5, <2>6, <2>7
  <1>5. ASSUME NEW c \in Client, Start(c) PROVE FALSE
    BY <1>1, <1>5 DEF Start
  <1>6. CASE UNCHANGED vars
    BY <1>1, <1>6 DEF vars
  <1> QED BY <1>2, <1>3, <1>4, <1>5, <1>6 DEF Next

(* First come, first served, for any readers and writers: whoever is let   *)
(* in leaves nobody waiting who came before, also when waiters give up in  *)
(* any order (sandbox-lifecycle-lease.ts:67-92).                           *)
THEOREM NobodyEverOvertakes == Spec => NobodyOvertakes
  <1>1. LeaseInv /\ [Next]_vars => [InOrder]_vars
    BY NextInOrder
  <1>2. Spec => []LeaseInv
    BY InitCoherent, NextCoherent, PTL DEF Spec
  <1>3. Spec => [][InOrder]_vars
    BY <1>1, <1>2, PTL DEF Spec
  <1> QED BY <1>3 DEF NobodyOvertakes, InOrder
===============================================================================
