-------------------------- MODULE CircuitHistoryProofs --------------------------
(***************************************************************************)
(* The denial circuit tells its history, for any thresholds, any window    *)
(* and any number of results.                                              *)
(***************************************************************************)
EXTENDS CircuitHistory, SequenceTheorems, FiniteSetTheorems, TLAPS

(* What the operators of CircuitHistory say of a history h.                *)
From(h, n) == IF Len(h) > n THEN Len(h) - n + 1 ELSE 1
Last(h, n) == SubSeq(h, From(h, n), Len(h))
Trailing(h) == {i \in DOMAIN h : \A j \in i..Len(h) : h[j]}
UpTo(h, run, n) == SubSeq(h, 1, Len(h) - run + n)

Tripped(h, run, n) ==
  n >= MaxConsecutive \/ Denials(Last(UpTo(h, run, n), WindowSize)) >= MaxWindow

(* The trailing run, told by its two ends: all denials from there on, and  *)
(* whatever precedes it is not one.                                        *)
Run(h, run) ==
  /\ run \in 0..Len(h)
  /\ \A j \in (Len(h) - run + 1)..Len(h) : h[j]
  /\ run < Len(h) => ~h[Len(h) - run]

Tells(k, h) ==
  /\ h \in Seq(BOOLEAN)
  /\ k.window = Last(h, WindowSize)
  /\ Run(h, k.run)
  /\ k.open <=> \E n \in 1..k.run : Tripped(h, k.run, n)

LEMMA AppendedHistory ==
  ASSUME NEW h \in Seq(BOOLEAN), NEW d \in BOOLEAN
  PROVE  /\ Append(h, d) \in Seq(BOOLEAN) /\ Len(h) \in Nat
         /\ Len(Append(h, d)) = Len(h) + 1
         /\ Append(h, d)[Len(h) + 1] = d
         /\ \A i \in 1..Len(h) : Append(h, d)[i] = h[i]
  OBVIOUS

(* A part of a history, by its length and its elements.                    *)
LEMMA PartOf ==
  ASSUME NEW h \in Seq(BOOLEAN), NEW m \in Nat \ {0}, NEW n \in Nat, n <= Len(h), m <= n + 1
  PROVE  /\ SubSeq(h, m, n) \in Seq(BOOLEAN)
         /\ Len(SubSeq(h, m, n)) = n - m + 1
         /\ \A i \in 1..(n - m + 1) : SubSeq(h, m, n)[i] = h[m + i - 1]
  <1>1. Len(h) \in Nat /\ \A i \in 1..Len(h) : h[i] \in BOOLEAN
    OBVIOUS
  <1>2. \A i \in m..n : h[i] \in BOOLEAN
    BY <1>1
  <1>3. m \in Int /\ n \in Int
    OBVIOUS
  <1>4. /\ SubSeq(h, m, n) \in Seq(BOOLEAN)
        /\ Len(SubSeq(h, m, n)) = IF m <= n THEN n - m + 1 ELSE 0
        /\ \A i \in 1..(n - m + 1) : SubSeq(h, m, n)[i] = h[m + i - 1]
    BY <1>2, <1>3, SubSeqProperties
  <1>5. ~(m <= n) => n - m + 1 = 0
    OBVIOUS
  <1> QED BY <1>4, <1>5

LEMMA SameSequence ==
  ASSUME NEW s \in Seq(BOOLEAN), NEW t \in Seq(BOOLEAN), Len(s) = Len(t),
         \A i \in 1..Len(s) : s[i] = t[i]
  PROVE  s = t
  <1>1. /\ s = [i \in 1..Len(s) |-> s[i]] /\ t = [i \in 1..Len(t) |-> t[i]]
    OBVIOUS
  <1> QED BY <1>1

(* How much of a history the window holds.                                 *)
Kept(h) == IF Len(h) > WindowSize THEN WindowSize ELSE Len(h)

LEMMA KeptBounds ==
  ASSUME NEW h, Len(h) \in Nat
  PROVE  /\ Kept(h) \in Nat /\ Kept(h) <= Len(h) /\ Kept(h) <= WindowSize
         /\ Kept(h) < WindowSize => Kept(h) = Len(h)
         /\ WindowSize \in Nat \ {0}
  BY CircuitAssumption DEF Kept

LEMMA LastOf ==
  ASSUME NEW h \in Seq(BOOLEAN)
  PROVE  /\ Last(h, WindowSize) \in Seq(BOOLEAN) /\ Len(Last(h, WindowSize)) = Kept(h)
         /\ \A i \in 1..Kept(h) : Last(h, WindowSize)[i] = h[Len(h) - Kept(h) + i]
  <1> DEFINE from == From(h, WindowSize)
  <1>1. Len(h) \in Nat /\ Kept(h) \in Nat /\ Kept(h) <= Len(h)
    BY KeptBounds
  <1>2. from = Len(h) - Kept(h) + 1
    BY <1>1, CircuitAssumption DEF From, Kept
  <1>3. from \in Nat \ {0} /\ from <= Len(h) + 1 /\ Len(h) - from + 1 = Kept(h)
    BY <1>1, <1>2
  <1> HIDE DEF from
  <1>4. /\ SubSeq(h, from, Len(h)) \in Seq(BOOLEAN)
        /\ Len(SubSeq(h, from, Len(h))) = Len(h) - from + 1
        /\ \A i \in 1..(Len(h) - from + 1) : SubSeq(h, from, Len(h))[i] = h[from + i - 1]
    BY <1>1, <1>3, PartOf
  <1>5. \A i \in Int : from + i - 1 = Len(h) - Kept(h) + i
    BY <1>1, <1>2
  <1>6. Last(h, WindowSize) = SubSeq(h, from, Len(h))
    BY DEF Last, from
  <1>7. \A i \in 1..Kept(h) : SubSeq(h, from, Len(h))[i] = h[Len(h) - Kept(h) + i]
    <2>1. ASSUME NEW i \in 1..Kept(h)
          PROVE  SubSeq(h, from, Len(h))[i] = h[Len(h) - Kept(h) + i]
      <3>1. i \in 1..(Len(h) - from + 1) /\ i \in Int
        BY <1>3, <2>1
      <3>2. SubSeq(h, from, Len(h))[i] = h[from + i - 1]
        BY <1>4, <3>1
      <3> QED BY <1>5, <3>1, <3>2
    <2> QED BY <2>1
  <1> QED BY <1>3, <1>4, <1>6, <1>7

(* Pushing a result onto the window of a history gives the window of the   *)
(* longer history (recordWindow, denial-circuit.ts:58-63).                 *)
LEMMA WindowMoves ==
  ASSUME NEW h \in Seq(BOOLEAN), NEW d \in BOOLEAN
  PROVE  PushWindow(Last(h, WindowSize), d) = Last(Append(h, d), WindowSize)
  <1> DEFINE w == Last(h, WindowSize)
             a == Append(h, d)
             p == PushWindow(w, d)
             k == Kept(h)
             m == Kept(a)
  <1>1. /\ a \in Seq(BOOLEAN) /\ Len(h) \in Nat /\ Len(a) = Len(h) + 1 /\ a[Len(h) + 1] = d
        /\ \A i \in 1..Len(h) : a[i] = h[i]
    BY AppendedHistory
  <1>2. /\ k \in Nat /\ k <= Len(h)
        /\ (k < WindowSize /\ k = Len(h) /\ m = k + 1) \/ (k = WindowSize /\ m = k)
        /\ WindowSize \in Nat \ {0}
    BY <1>1, CircuitAssumption DEF Kept
  <1>3. /\ w \in Seq(BOOLEAN) /\ Len(w) = k
        /\ \A i \in 1..k : w[i] = h[Len(h) - k + i]
    BY LastOf
  <1> HIDE DEF a
  <1>4. /\ Last(a, WindowSize) \in Seq(BOOLEAN) /\ Len(Last(a, WindowSize)) = m
        /\ \A i \in 1..m : Last(a, WindowSize)[i] = a[Len(a) - m + i]
    BY <1>1, LastOf
  <1> HIDE DEF w, k, m
  <1>5. p = [i \in 1..m |-> LET j == IF k < WindowSize THEN i ELSE i + 1
                            IN  IF j <= k THEN w[j] ELSE d]
    <2>1. (IF k < WindowSize THEN k + 1 ELSE WindowSize) = m
      BY <1>2
    <2> QED BY <1>3, <2>1 DEF PushWindow
  <1>6. ASSUME NEW i \in 1..m
        PROVE  p[i] = Last(a, WindowSize)[i] /\ p[i] \in BOOLEAN
    <2> DEFINE j == IF k < WindowSize THEN i ELSE i + 1
    <2>1. p[i] = IF j <= k THEN w[j] ELSE d
      BY <1>5
    <2>2. Last(a, WindowSize)[i] = a[Len(a) - m + i]
      BY <1>4
    <2>3. j \in Nat \ {0} /\ Len(a) - m + i = Len(h) - k + j
      <3>1. CASE k < WindowSize /\ k = Len(h) /\ m = k + 1
        BY <1>1, <1>2, <3>1
      <3>2. CASE k = WindowSize /\ m = k
        BY <1>1, <1>2, <3>2
      <3> QED BY <1>2, <3>1, <3>2
    <2>4. ~(j <= k) => Len(h) - k + j = Len(h) + 1
      BY <1>1, <1>2
    <2> HIDE DEF j, p
    <2>5. CASE j <= k
      <3>1. j \in 1..k /\ Len(h) - k + j \in 1..Len(h)
        BY <1>1, <1>2, <2>3, <2>5
      <3>2. w[j] = h[Len(h) - k + j] /\ a[Len(h) - k + j] = h[Len(h) - k + j]
        BY <1>1, <1>3, <3>1
      <3>3. w[j] \in BOOLEAN
        BY <1>3, <3>1
      <3> QED BY <2>1, <2>2, <2>3, <2>5, <3>2, <3>3
    <2>6. CASE ~(j <= k)
      BY <1>1, <2>1, <2>2, <2>3, <2>4, <2>6
    <2> QED BY <2>5, <2>6
  <1>7. p \in Seq(BOOLEAN) /\ Len(p) = m
    <2>1. p \in [1..m -> BOOLEAN] /\ m \in Nat
      BY <1>2, <1>5, <1>6
    <2> HIDE DEF p
    <2> QED BY <2>1
  <1> HIDE DEF p
  <1>8. p = Last(a, WindowSize)
    BY <1>4, <1>6, <1>7, SameSequence
  <1> QED BY <1>8 DEF p, w, a

(* The trailing denials are counted by their run.                          *)
LEMMA RunCounts ==
  ASSUME NEW h \in Seq(BOOLEAN), NEW run, Run(h, run)
  PROVE  Cardinality(Trailing(h)) = run
  <1>1. Len(h) \in Nat /\ run \in Nat /\ run <= Len(h) /\ DOMAIN h = 1..Len(h)
    BY DEF Run
  <1>2. ASSUME NEW i \in 1..Len(h)
        PROVE  i \in Trailing(h) <=> i \in (Len(h) - run + 1)..Len(h)
    <2>1. CASE i \in (Len(h) - run + 1)..Len(h)
      BY <1>1, <2>1 DEF Trailing, Run
    <2>2. CASE i \notin (Len(h) - run + 1)..Len(h)
      <3>1. run < Len(h) /\ Len(h) - run \in i..Len(h)
        BY <1>1, <2>2
      <3> QED BY <2>2, <3>1 DEF Trailing, Run
    <2> QED BY <2>1, <2>2
  <1>3. Trailing(h) \subseteq 1..Len(h)
    BY <1>1 DEF Trailing
  <1>4. Trailing(h) = (Len(h) - run + 1)..Len(h)
    <2>1. (Len(h) - run + 1)..Len(h) \subseteq 1..Len(h)
      BY <1>1
    <2> QED BY <1>2, <1>3, <2>1
  <1>5. Cardinality((Len(h) - run + 1)..Len(h)) = run
    <2>1. Len(h) - run + 1 \in Int /\ Len(h) \in Int
      BY <1>1
    <2>2. Cardinality((Len(h) - run + 1)..Len(h)) =
            IF Len(h) - run + 1 > Len(h) THEN 0 ELSE Len(h) - (Len(h) - run + 1) + 1
      BY <2>1, FS_Interval
    <2> QED BY <1>1, <2>2
  <1> QED BY <1>4, <1>5

LEMMA DenialTells ==
  ASSUME NEW k \in Circuit, NEW h, Tells(k, h)
  PROVE  Tells(RecordDenial(k), Append(h, TRUE))
  <1> DEFINE a == Append(h, TRUE)
             w == PushWindow(k.window, TRUE)
             new == RecordDenial(k)
  <1>1. /\ h \in Seq(BOOLEAN) /\ k.window = Last(h, WindowSize) /\ Run(h, k.run)
        /\ k.open <=> \E n \in 1..k.run : Tripped(h, k.run, n)
        /\ k.run \in Nat /\ k.open \in BOOLEAN
    BY DEF Tells, Circuit
  <1>2. /\ a \in Seq(BOOLEAN) /\ Len(h) \in Nat /\ Len(a) = Len(h) + 1 /\ a[Len(h) + 1] = TRUE
        /\ \A i \in 1..Len(h) : a[i] = h[i]
    BY <1>1, AppendedHistory
  <1>3. w = Last(a, WindowSize)
    BY <1>1, WindowMoves
  <1>4. new.window = w /\ new.run = k.run + 1 /\ (new.open <=> k.open \/ Trips(w, k.run + 1))
    BY Zenon DEF RecordDenial
  <1> HIDE DEF a, w, new
  <1>5. Run(a, k.run + 1)
    <2>1. k.run + 1 \in 0..Len(a)
      BY <1>1, <1>2 DEF Run
    <2>2. ASSUME NEW j \in (Len(a) - (k.run + 1) + 1)..Len(a) PROVE a[j]
      <3>1. CASE j = Len(h) + 1
        BY <1>2, <3>1
      <3>2. CASE j # Len(h) + 1
        <4>1. j \in (Len(h) - k.run + 1)..Len(h) /\ j \in 1..Len(h)
          BY <1>1, <1>2, <2>2, <3>2 DEF Run
        <4> QED BY <1>1, <1>2, <4>1 DEF Run
      <3> QED BY <3>1, <3>2
    <2>3. ASSUME k.run + 1 < Len(a) PROVE ~a[Len(a) - (k.run + 1)]
      <3>1. k.run < Len(h) /\ Len(a) - (k.run + 1) = Len(h) - k.run
            /\ Len(h) - k.run \in 1..Len(h)
        BY <1>1, <1>2, <2>3
      <3> QED BY <1>1, <1>2, <3>1 DEF Run
    <2> QED BY <2>1, <2>2, <2>3 DEF Run
  <1>6. k.run <= Len(h)
    BY <1>1 DEF Run
  <1>7. ASSUME NEW n \in 1..k.run
        PROVE  Tripped(a, k.run + 1, n) <=> Tripped(h, k.run, n)
    <2> DEFINE e == Len(h) - k.run + n
    <2>1. /\ e \in Nat /\ e <= Len(h) /\ 1 <= e + 1 /\ e <= Len(a)
          /\ Len(a) - (k.run + 1) + n = e
      BY <1>1, <1>2, <1>6
    <2>2. /\ SubSeq(h, 1, e) \in Seq(BOOLEAN) /\ Len(SubSeq(h, 1, e)) = e - 1 + 1
          /\ \A i \in 1..(e - 1 + 1) : SubSeq(h, 1, e)[i] = h[1 + i - 1]
      BY <1>1, <2>1, PartOf
    <2>3. /\ SubSeq(a, 1, e) \in Seq(BOOLEAN) /\ Len(SubSeq(a, 1, e)) = e - 1 + 1
          /\ \A i \in 1..(e - 1 + 1) : SubSeq(a, 1, e)[i] = a[1 + i - 1]
      BY <1>2, <2>1, PartOf
    <2>4. \A i \in 1..e : SubSeq(h, 1, e)[i] = SubSeq(a, 1, e)[i]
      BY <1>2, <2>1, <2>2, <2>3
    <2>5. SubSeq(h, 1, e) = SubSeq(a, 1, e)
      <3>1. e - 1 + 1 = e
        BY <2>1
      <3> HIDE DEF e
      <3> QED BY <2>2, <2>3, <2>4, <3>1, SameSequence
    <2>6. UpTo(a, k.run + 1, n) = UpTo(h, k.run, n)
      BY <2>1, <2>5 DEF UpTo
    <2> QED BY <2>6 DEF Tripped
  <1>8. Tripped(a, k.run + 1, k.run + 1) <=> Trips(w, k.run + 1)
    <2>1. Len(a) - (k.run + 1) + (k.run + 1) = Len(a) /\ Len(a) \in Nat /\ 1 <= Len(a) + 1
      BY <1>1, <1>2
    <2>2. /\ SubSeq(a, 1, Len(a)) \in Seq(BOOLEAN) /\ Len(SubSeq(a, 1, Len(a))) = Len(a) - 1 + 1
          /\ \A i \in 1..(Len(a) - 1 + 1) : SubSeq(a, 1, Len(a))[i] = a[1 + i - 1]
      BY <1>2, <2>1, PartOf
    <2>3. SubSeq(a, 1, Len(a)) = a
      <3>1. Len(a) - 1 + 1 = Len(a) /\ \A i \in Int : 1 + i - 1 = i
        BY <2>1
      <3> QED BY <1>2, <2>2, <3>1, SameSequence
    <2>4. UpTo(a, k.run + 1, k.run + 1) = a
      BY <2>1, <2>3 DEF UpTo
    <2> QED BY <1>3, <2>4 DEF Tripped, Trips
  <1>9. new.open <=> \E n \in 1..(k.run + 1) : Tripped(a, k.run + 1, n)
    <2>1. \A n : n \in 1..(k.run + 1) <=> n \in 1..k.run \/ n = k.run + 1
      BY <1>1
    <2>2. new.open <=> (\E n \in 1..k.run : Tripped(h, k.run, n)) \/ Trips(w, k.run + 1)
      BY <1>1, <1>4, Zenon
    <2> QED BY <1>7, <1>8, <2>1, <2>2, Zenon
  <1>10. Tells(new, a)
    BY <1>2, <1>3, <1>4, <1>5, <1>9 DEF Tells
  <1> QED BY <1>10 DEF new, a

LEMMA SuccessTells ==
  ASSUME NEW k \in Circuit, NEW h, Tells(k, h)
  PROVE  Tells(RecordSuccess(k), Append(h, FALSE))
  <1> DEFINE a == Append(h, FALSE)
  <1>1. h \in Seq(BOOLEAN) /\ k.window = Last(h, WindowSize)
    BY DEF Tells
  <1>2. /\ a \in Seq(BOOLEAN) /\ Len(h) \in Nat /\ Len(a) = Len(h) + 1 /\ a[Len(h) + 1] = FALSE
    BY <1>1, AppendedHistory
  <1>3. PushWindow(k.window, FALSE) = Last(a, WindowSize)
    BY <1>1, WindowMoves
  <1> HIDE DEF a
  <1>4. Run(a, 0)
    BY <1>2 DEF Run
  <1>5. 1..0 = {}
    OBVIOUS
  <1>6. Tells(RecordSuccess(k), a)
    BY <1>2, <1>3, <1>4, <1>5 DEF Tells, RecordSuccess
  <1> QED BY <1>6 DEF a

LEMMA FreshTells == Tells(FreshCircuit, <<>>) /\ FreshCircuit \in Circuit
  <1>1. <<>> \in Seq(BOOLEAN) /\ Len(<<>>) = 0
    OBVIOUS
  <1>2. Last(<<>>, WindowSize) = <<>>
    <2>1. Kept(<<>>) = 0
      BY <1>1, CircuitAssumption DEF Kept
    <2>2. Last(<<>>, WindowSize) \in Seq(BOOLEAN) /\ Len(Last(<<>>, WindowSize)) = 0
      BY <1>1, <2>1, LastOf
    <2> QED BY <1>1, <2>2, SameSequence
  <1>3. Run(<<>>, 0)
    BY <1>1 DEF Run
  <1>4. 1..0 = {}
    OBVIOUS
  <1>5. FreshCircuit \in Circuit
    <2>1. <<>> \in [1..0 -> BOOLEAN]
      OBVIOUS
    <2> QED BY <2>1, CircuitAssumption DEF FreshCircuit, Circuit, Windows
  <1> QED BY <1>1, <1>2, <1>3, <1>4, <1>5 DEF Tells, FreshCircuit

-------------------------------------------------------------------------------
(* The circuit is one, and it tells the history.                           *)
Told == circuit \in Circuit /\ Tells(circuit, history)

LEMMA RecordType ==
  ASSUME NEW k \in Circuit, NEW h, Tells(k, h), NEW d \in BOOLEAN,
         NEW new, new.window = PushWindow(k.window, d)
  PROVE  new.window \in Windows
  <1>1. h \in Seq(BOOLEAN) /\ new.window = Last(Append(h, d), WindowSize)
    BY WindowMoves DEF Tells
  <1>2. /\ Append(h, d) \in Seq(BOOLEAN) /\ Len(Append(h, d)) \in Nat
    BY <1>1
  <1> DEFINE a == Append(h, d)
  <1> HIDE DEF a
  <1>3. ASSUME NEW b \in Seq(BOOLEAN), Len(b) \in Nat
        PROVE  Last(b, WindowSize) \in Windows
    <2>1. Last(b, WindowSize) \in Seq(BOOLEAN) /\ Len(Last(b, WindowSize)) = Kept(b)
      BY LastOf
    <2>2. Kept(b) \in 0..WindowSize
      BY <1>3, KeptBounds
    <2> QED BY <2>1, <2>2 DEF Windows
  <1> QED BY <1>1, <1>2, <1>3

LEMMA ToldStep ==
  ASSUME Told, [Next]_vars
  PROVE  Told'
  <1>1. CASE Deny
    <2>1. circuit' = RecordDenial(circuit) /\ history' = Append(history, TRUE)
      BY <1>1 DEF Deny
    <2>2. Tells(circuit', history')
      BY <2>1, DenialTells DEF Told
    <2>3. circuit' \in Circuit
      <3> DEFINE w == PushWindow(circuit.window, TRUE)
                 opened == circuit.open \/ Trips(w, circuit.run + 1)
      <3>1. opened \in BOOLEAN
        BY Zenon DEF Told, Circuit, Trips
      <3>2. circuit' = [window |-> w, run |-> circuit.run + 1, open |-> opened]
        BY <2>1, Zenon DEF RecordDenial
      <3>3. w \in Windows
        <4>1. circuit'.window = PushWindow(circuit.window, TRUE)
          BY <3>2
        <4> QED BY <4>1, RecordType DEF Told
      <3>4. circuit.run + 1 \in Nat
        BY DEF Told, Circuit
      <3> HIDE DEF w, opened
      <3> QED BY <3>1, <3>2, <3>3, <3>4 DEF Circuit
    <2> QED BY <2>2, <2>3 DEF Told
  <1>2. CASE Succeed
    <2>1. circuit' = RecordSuccess(circuit) /\ history' = Append(history, FALSE)
      BY <1>2 DEF Succeed
    <2>2. Tells(circuit', history')
      BY <2>1, SuccessTells DEF Told
    <2>3. circuit'.window = PushWindow(circuit.window, FALSE)
      BY <2>1 DEF RecordSuccess
    <2>4. PushWindow(circuit.window, FALSE) \in Windows
      BY <2>3, RecordType DEF Told
    <2> QED BY <2>1, <2>2, <2>4 DEF Told, RecordSuccess, Circuit
  <1>3. CASE Replace
    BY <1>3, FreshTells DEF Replace, Told
  <1>4. CASE UNCHANGED vars
    BY <1>4 DEF vars, Told
  <1> QED BY <1>1, <1>2, <1>3, <1>4 DEF Next

(* The run counter, the window and the gate say what the whole history     *)
(* says, however many results came and went (denial-circuit.ts:49-84).     *)
THEOREM CircuitAlwaysTellsHistory == Spec => []CircuitTellsHistory
  <1>1. Init => Told
    BY FreshTells DEF Init, Told
  <1>2. Told /\ [Next]_vars => Told'
    BY ToldStep
  <1>3. Told => CircuitTellsHistory
    <2> SUFFICES ASSUME Told PROVE CircuitTellsHistory
      OBVIOUS
    <2>1. /\ history \in Seq(BOOLEAN) /\ circuit.window = Last(history, WindowSize)
          /\ Run(history, circuit.run)
          /\ circuit.open <=> \E n \in 1..circuit.run : Tripped(history, circuit.run, n)
      BY DEF Told, Tells
    <2>2. TrailingDenials = circuit.run
      <3>1. Cardinality(Trailing(history)) = circuit.run
        BY <2>1, RunCounts
      <3>2. TrailingDenials = Cardinality(Trailing(history))
        BY DEF TrailingDenials, Trailing
      <3> QED BY <3>1, <3>2
    <2>3. LastResults(WindowSize) = Last(history, WindowSize)
      BY DEF LastResults, Last, From
    <2>4. OpenIffTripped
      <3>1. \A n : Tripped(history, circuit.run, n) <=>
              LET upto == SubSeq(history, 1, Len(history) - TrailingDenials + n)
                  from == IF Len(upto) > WindowSize THEN Len(upto) - WindowSize + 1 ELSE 1
              IN  n >= MaxConsecutive \/ Denials(SubSeq(upto, from, Len(upto))) >= MaxWindow
        BY <2>2, Zenon DEF Tripped, Last, From, UpTo
      <3> QED BY <2>1, <2>2, <3>1, Zenon DEF OpenIffTripped
    <2> QED BY <2>1, <2>2, <2>3, <2>4 DEF CircuitTellsHistory, ReadoutIsHistory
  <1> QED BY <1>1, <1>2, <1>3, PTL DEF Spec
===============================================================================
