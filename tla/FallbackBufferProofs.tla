------------------------ MODULE FallbackBufferProofs ------------------------
(***************************************************************************)
(* Proofs about FallbackBuffer, for every size of the ring, any number of  *)
(* events and every limit of the stack.                                    *)
(*                                                                         *)
(* The ring is described by what has been pushed into it (Shape): seen     *)
(* from the current slot, the empty slots come first and then the newest   *)
(* events in order.  With that, GetAll is computed without a count.        *)
(*                                                                         *)
(* That no event is forgotten is proved for one handler, whose nested      *)
(* flushes are described by what each loop has still to do (OneOK).        *)
(***************************************************************************)
EXTENDS FallbackBuffer, FiniteSetTheorems, SequenceTheorems, TLAPS

-----------------------------------------------------------------------------
(* The ring *)

\* The slot a number stands for: one step past the end is the beginning.
Wrapped(x) == x % Size

LEMMA Wrap ==
    ASSUME NEW x \in Nat, x < 2 * Size
    PROVE  Wrapped(x) = IF x < Size THEN x ELSE x - Size
<1>n. Size \in Nat \ {0}
  BY BufferAssumption
<1>1. (x % Size) \in 0..(Size - 1) /\ x = Size * (x \div Size) + (x % Size) /\ (x \div Size) \in Int
  BY <1>n
<1>2. ASSUME NEW q \in Int, NEW r \in 0..(Size - 1), x = Size * q + r
      PROVE  r = IF x < Size THEN x ELSE x - Size
  <2>1. q >= 0
    BY <1>n, <1>2
  <2>2. q < 2
    BY <1>n, <1>2, <2>1
  <2>3. q = 0 \/ q = 1
    BY <1>2, <2>1, <2>2
  <2> QED BY <1>n, <1>2, <2>3
<1> QED BY <1>1, <1>2 DEF Wrapped

\* The slot that a visit from p on reaches i-th.
Slot(p, i) == Wrapped(p + i - 1)

LEMMA SlotAt ==
    ASSUME NEW p \in Slots, NEW i \in 1..Size
    PROVE  /\ Slot(p, i) \in Slots
           /\ Slot(p, i) = IF p + i <= Size THEN p + i - 1 ELSE (p + i - 1) - Size
<1>1. p + i - 1 \in Nat /\ p + i - 1 < 2 * Size
  BY BufferAssumption DEF Slots
<1>2. Slot(p, i) = IF p + i - 1 < Size THEN p + i - 1 ELSE (p + i - 1) - Size
  BY <1>1, Wrap, Zenon DEF Slot
<1> QED BY <1>2, BufferAssumption DEF Slots

\* Ring r, with p as its current slot, holds the newest of the events of s.
Shape(r, p, s) ==
    \A i \in 1..Size :
        r[Slot(p, i)] = IF i + Len(s) <= Size THEN None ELSE s[Len(s) + i - Size]

\* Push keeps it so.
LEMMA PushShape ==
    ASSUME NEW r \in [Slots -> Events \cup {None}], NEW p \in Slots, NEW s \in Seq(Events),
           NEW e \in Events, Shape(r, p, s)
    PROVE  /\ Wrapped(p + 1) \in Slots
           /\ [r EXCEPT ![p] = e] \in [Slots -> Events \cup {None}]
           /\ Shape([r EXCEPT ![p] = e], Wrapped(p + 1), Append(s, e))
<1> DEFINE q == Wrapped(p + 1)
           r1 == [r EXCEPT ![p] = e]
           n == Len(s)
<1>1. q \in Slots /\ q = IF p + 1 < Size THEN p + 1 ELSE 0
  <2>1. p + 1 \in Nat /\ p + 1 <= Size
    BY BufferAssumption DEF Slots
  <2>2. p + 1 < 2 * Size
    BY <2>1, BufferAssumption
  <2>3. q = IF p + 1 < Size THEN p + 1 ELSE (p + 1) - Size
    BY <2>1, <2>2, Wrap, Zenon
  <2> QED BY <2>1, <2>3, BufferAssumption DEF Slots
<1> HIDE DEF q
<1>2. r1 \in [Slots -> Events \cup {None}]
  BY Zenon
<1>3. n \in Nat /\ Len(Append(s, e)) = n + 1
      /\ \A k \in 1..(n + 1) : Append(s, e)[k] = IF k <= n THEN s[k] ELSE e
  OBVIOUS
<1>4. ASSUME NEW i \in 1..Size
      PROVE  r1[Slot(q, i)] = IF i + (n + 1) <= Size THEN None ELSE Append(s, e)[(n + 1) + i - Size]
  <2>q. Slot(q, i) \in Slots /\ Slot(q, i) = IF q + i <= Size THEN q + i - 1 ELSE (q + i - 1) - Size
    BY <1>1, SlotAt, Zenon
  <2>1. CASE i = Size
    <3>1. Slot(q, i) = p
      BY <1>1, <2>q, <2>1, BufferAssumption DEF Slots
    <3>2. r1[p] = e
      BY Zenon
    <3>3. Append(s, e)[(n + 1) + i - Size] = e /\ ~(i + (n + 1) <= Size)
      BY <1>3, <2>1, BufferAssumption
    <3> QED BY <3>1, <3>2, <3>3, Zenon
  <2>2. CASE i < Size
    <3>1. i + 1 \in 1..Size
      BY <2>2, BufferAssumption
    <3>2. Slot(p, i + 1) = IF p + (i + 1) <= Size THEN p + (i + 1) - 1 ELSE (p + (i + 1) - 1) - Size
      BY <3>1, SlotAt, Zenon
    <3>3. Slot(q, i) = Slot(p, i + 1) /\ Slot(q, i) # p
      <4>t. p \in Nat /\ p < Size /\ i \in Nat /\ i >= 1 /\ Size \in Nat
        BY BufferAssumption DEF Slots
      <4>1. CASE p + 1 < Size
        BY ONLY <4>t, <4>1, <1>1, <2>q, <3>2, <2>2
      <4>2. CASE ~(p + 1 < Size)
        BY ONLY <4>t, <4>2, <1>1, <2>q, <3>2, <2>2
      <4> QED BY <4>1, <4>2, Zenon
    <3>4. r1[Slot(q, i)] = r[Slot(p, i + 1)]
      BY <2>q, <3>3, Zenon
    <3>5. r[Slot(p, i + 1)] = IF (i + 1) + n <= Size THEN None ELSE s[n + (i + 1) - Size]
      BY <3>1, Zenon DEF Shape
    <3>6. ~((i + 1) + n <= Size) => Append(s, e)[(n + 1) + i - Size] = s[n + (i + 1) - Size]
      <4>1. SUFFICES ASSUME ~((i + 1) + n <= Size)
                     PROVE  Append(s, e)[(n + 1) + i - Size] = s[n + (i + 1) - Size]
        OBVIOUS
      <4>2. (n + 1) + i - Size \in 1..n /\ (n + 1) + i - Size = n + (i + 1) - Size
        BY <1>3, <2>2, <4>1, BufferAssumption
      <4> QED BY <1>3, <4>2
    <3>7. (i + 1) + n = i + (n + 1)
      BY <1>3
    <3> QED BY <3>4, <3>5, <3>6, <3>7, Zenon
  <2> QED BY <2>1, <2>2, BufferAssumption
<1> HIDE DEF r1
<1>5. Shape(r1, q, Append(s, e))
  BY <1>3, <1>4, Zenon DEF Shape
<1> QED BY <1>1, <1>2, <1>5, Zenon DEF q, r1

\* A new buffer has this shape.
LEMMA EmptyShape ==
    /\ EmptyRing \in [Slots -> Events \cup {None}]
    /\ 0 \in Slots
    /\ Shape(EmptyRing, 0, <<>>)
<1>1. 0 \in Slots
  BY BufferAssumption DEF Slots
<1>2. EmptyRing \in [Slots -> Events \cup {None}]
  BY Zenon DEF EmptyRing
<1>3. ASSUME NEW i \in 1..Size
      PROVE  EmptyRing[Slot(0, i)] = IF i + Len(<<>>) <= Size THEN None ELSE <<>>[Len(<<>>) + i - Size]
  <2>1. EmptyRing[Slot(0, i)] = None
    BY <1>1, SlotAt, Zenon DEF EmptyRing
  <2>2. i + Len(<<>>) <= Size
    BY BufferAssumption
  <2> QED BY <2>1, <2>2, Zenon
<1> QED BY <1>1, <1>2, <1>3, Zenon DEF Shape

\* GetAll returns the newest events in the order of their arrival.
LEMMA GetAllIs ==
    ASSUME pos \in Slots, pushed \in Seq(Events), Shape(ring, pos, pushed)
    PROVE  GetAll = Newest(pushed, Size) /\ GetAll \in Seq(Events)
<1> DEFINE n == Len(pushed)
           c == IF n <= Size THEN n ELSE Size
           k == Size - c
           Rank(i) == Cardinality({j \in Filled : j <= i})
<1>n. n \in Nat /\ Size \in Nat \ {0} /\ c \in Nat /\ k \in Nat /\ c <= n /\ c <= Size
  BY BufferAssumption
<1>k. k + c = Size
  BY BufferAssumption, <1>n
<1>v. \A i \in 1..Size : Visited(i) = IF i + n <= Size THEN None ELSE pushed[n + i - Size]
  BY Zenon DEF Shape, Slot, Wrapped, Visited
<1>e. \A i \in 1..n : pushed[i] \in Events /\ pushed[i] # None
  BY BufferAssumption
<1>1. Filled = (k + 1)..Size
  <2>1. ASSUME NEW i \in 1..Size PROVE Visited(i) # None <=> i >= k + 1
    <3>1. i + n <= Size <=> ~(i >= k + 1)
      BY ONLY <1>n, <1>k, i \in 1..Size
    <3>2. CASE i + n <= Size
      BY <1>v, <3>1, <3>2, Zenon
    <3>3. CASE ~(i + n <= Size)
      <4> HIDE DEF n, c, k
      <4>1. n + i - Size \in 1..n
        BY ONLY <1>n, <3>3, i \in 1..Size
      <4>2. Visited(i) = pushed[n + i - Size]
        BY <1>v, <3>3, Zenon
      <4> QED BY <1>e, <3>1, <3>3, <4>1, <4>2, Zenon
    <3> QED BY <3>2, <3>3, Zenon
  <2>2. Filled = {i \in 1..Size : i >= k + 1}
    BY <2>1, Zenon DEF Filled
  <2> HIDE DEF k
  <2> QED BY ONLY <1>n, <2>2
<1>2. Cardinality(Filled) = c
  <2> HIDE DEF c, k
  <2>1. k + 1 \in Int /\ Size \in Int /\ (IF k + 1 > Size THEN 0 ELSE Size - (k + 1) + 1) = c
    BY ONLY <1>n, <1>k
  <2>2. Cardinality((k + 1)..Size) = IF k + 1 > Size THEN 0 ELSE Size - (k + 1) + 1
    BY <2>1, FS_Interval, Zenon
  <2> QED BY <1>1, <2>1, <2>2, Zenon
<1>3. ASSUME NEW i \in Filled PROVE Rank(i) = i - k
  <2>0. i \in (k + 1)..Size
    BY <1>1, Zenon
  <2>1. {j \in Filled : j <= i} = (k + 1)..i
    <3>1. {j \in (k + 1)..Size : j <= i} = (k + 1)..i
      <4> HIDE DEF k
      <4> QED BY ONLY <1>n, <2>0
    <3> QED BY <1>1, <3>1, Zenon
  <2>2. k + 1 \in Int /\ i \in Int /\ (IF k + 1 > i THEN 0 ELSE i - (k + 1) + 1) = i - k
    <3> HIDE DEF k
    <3> QED BY ONLY <1>n, <2>0
  <2>3. Cardinality((k + 1)..i) = IF k + 1 > i THEN 0 ELSE i - (k + 1) + 1
    BY <2>2, FS_Interval, Zenon
  <2> QED BY <2>1, <2>2, <2>3, Zenon
<1>4. ASSUME NEW m \in 1..c
      PROVE  Visited(CHOOSE i \in Filled : Rank(i) = m) = pushed[n - c + m]
  <2>1. k + m \in (k + 1)..Size /\ (k + m) - k = m
    <3> HIDE DEF k, c
    <3> QED BY ONLY <1>n, <1>k, m \in 1..c
  <2>2. k + m \in Filled /\ Rank(k + m) = m
    BY <1>1, <1>3, <2>1, Zenon
  <2>3. \A i \in Filled : Rank(i) = m => i = k + m
    <3>1. \A i \in (k + 1)..Size : i - k = m => i = k + m
      <4> HIDE DEF k, c
      <4> QED BY ONLY <1>n, m \in 1..c
    <3> QED BY <1>1, <1>3, <3>1, Zenon
  <2>4. (CHOOSE i \in Filled : Rank(i) = m) = k + m
    <3> HIDE DEF Rank, k, c
    <3> QED BY <2>2, <2>3, Zenon
  <2>5. k + m \in 1..Size /\ ~((k + m) + n <= Size) /\ n + (k + m) - Size = n - c + m
    BY ONLY <1>n, <1>k, m \in 1..c
  <2> QED BY <1>v, <2>4, <2>5, Zenon
<1>5. GetAll = [m \in 1..c |-> pushed[n - c + m]]
  BY <1>2, <1>4, Zenon DEF GetAll
<1>6. Newest(pushed, Size) = [m \in 1..c |-> pushed[n - c + m]]
  <2>1. CASE n <= Size
    BY <1>n, <2>1 DEF Newest
  <2>2. CASE ~(n <= Size)
    BY <1>n, <2>2, SMTT(30) DEF Newest
  <2> QED BY <2>1, <2>2, Zenon
<1>7. \A m \in 1..c : pushed[n - c + m] \in Events
  <2>1. \A m \in 1..c : n - c + m \in 1..n
    <3> HIDE DEF c
    <3> QED BY ONLY <1>n
  <2> QED BY <1>e, <2>1, Zenon
<1>8. GetAll \in Seq(Events)
  <2> HIDE DEF c
  <2> QED BY <1>n, <1>5, <1>7
<1> QED BY <1>5, <1>6, <1>8, Zenon

-----------------------------------------------------------------------------
(* Types, and the contents of the buffer *)

\* Stacks whose calls of EnqueueScrobble have an event.
Calls == {s \in Seq(Frame) : \A j \in 1..Len(s) : s[j].call = "enqueue" => s[j].event \in Events}

\* The type invariant with what the steps need: the calls under way and the shape
\* of the ring.
RingOK ==
    /\ ring \in [Slots -> Events \cup {None}]
    /\ pos \in Slots
    /\ exists \in BOOLEAN
    /\ pushed \in Seq(Events)
    /\ lost \subseteq Events
    /\ exists => Shape(ring, pos, pushed)

CallsOK ==
    /\ stack \in [Handlers -> Calls]
    /\ \A h \in Handlers : Len(stack[h]) <= StackLimit
    /\ dead \in BOOLEAN

OutsideOK ==
    /\ stored \subseteq Events
    /\ healthy \in BOOLEAN
    /\ seen \subseteq Events
    /\ changes \in 0..MaxChanges

TInv == RingOK /\ CallsOK /\ OutsideOK

\* The frames, and what a sequence loses when calls return.
LEMMA Frames ==
    /\ \A e \in Events : EnqueueCall(e) \in Frame /\ EnqueueCall(e).call = "enqueue"
                         /\ EnqueueCall(e).event = e /\ EnqueueCall(e).rest = <<>>
    /\ FlushCall \in Frame /\ FlushCall.call = "flush" /\ FlushCall.event = None
       /\ FlushCall.rest = <<>>
    /\ \A es \in Seq(Events) : FlushLoop(es) \in Frame /\ FlushLoop(es).call = "loop"
                               /\ FlushLoop(es).event = None /\ FlushLoop(es).rest = es
BY DEF EnqueueCall, FlushCall, FlushLoop, Frame

LEMMA Pops ==
    ASSUME NEW s \in Seq(Frame), NEW n \in Nat, n <= Len(s)
    PROVE  /\ SubSeq(s, 1, Len(s) - n) \in Seq(Frame)
           /\ Len(SubSeq(s, 1, Len(s) - n)) = Len(s) - n
           /\ \A j \in 1..(Len(s) - n) : SubSeq(s, 1, Len(s) - n)[j] = s[j]
OBVIOUS

LEMMA Appends ==
    ASSUME NEW s \in Seq(Frame), NEW f \in Frame
    PROVE  /\ Append(s, f) \in Seq(Frame)
           /\ Len(Append(s, f)) = Len(s) + 1
           /\ Append(s, f)[Len(s) + 1] = f
           /\ \A j \in 1..Len(s) : Append(s, f)[j] = s[j]
OBVIOUS

LEMMA AppendCalls ==
    ASSUME NEW b \in Calls, NEW f \in Frame, f.call = "enqueue" => f.event \in Events
    PROVE  Append(b, f) \in Calls
<1> DEFINE a == Append(b, f)
<1>1. b \in Seq(Frame) /\ \A j \in 1..Len(b) : b[j].call = "enqueue" => b[j].event \in Events
  BY Zenon DEF Calls
<1>2. \A j \in 1..(Len(b) + 1) : j \in 1..Len(b) \/ j = Len(b) + 1
  BY <1>1
<1>3. /\ a \in Seq(Frame) /\ Len(a) = Len(b) + 1 /\ a[Len(b) + 1] = f
      /\ \A j \in 1..Len(b) : a[j] = b[j]
  BY <1>1, Appends, Zenon
<1> HIDE DEF a
<1>4. ASSUME NEW j \in 1..Len(a), a[j].call = "enqueue"
      PROVE  a[j].event \in Events
  <2>1. CASE j \in 1..Len(b)
    BY <1>1, <1>3, <1>4, <2>1, Zenon
  <2>2. CASE j = Len(b) + 1
    BY <1>3, <1>4, <2>2, Zenon
  <2> QED BY <1>2, <1>3, <2>1, <2>2, Zenon
<1>5. a \in Calls
  BY <1>3, <1>4, Zenon DEF Calls
<1> QED BY <1>5, Zenon DEF a

\* The innermost call of a handler and the calls below it.
LEMMA TopOf ==
    ASSUME TInv, NEW h \in Handlers, stack[h] # <<>>
    PROVE  /\ stack[h] \in Seq(Frame) /\ Len(stack[h]) \in Nat \ {0}
           /\ Top(h) \in Frame /\ Top(h).rest \in Seq(Events)
           /\ Top(h).call = "enqueue" => Top(h).event \in Events
           /\ Below(h, 1) \in Calls /\ Len(Below(h, 1)) = Len(stack[h]) - 1
           /\ \A j \in 1..(Len(stack[h]) - 1) : Below(h, 1)[j] = stack[h][j]
<1> DEFINE s == stack[h]
<1>1. s \in Seq(Frame) /\ \A j \in 1..Len(s) : s[j].call = "enqueue" => s[j].event \in Events
  BY Zenon DEF TInv, CallsOK, Calls
<1> HIDE DEF s
<1>2. s # <<>>
  BY Zenon DEF s
<1>3. Len(s) \in Nat \ {0} /\ Len(s) \in 1..Len(s)
  BY <1>1, <1>2
<1>4. s[Len(s)] \in Frame
  BY <1>1, <1>3
<1>5. s[Len(s)].rest \in Seq(Events)
  BY <1>4 DEF Frame
<1>6. 1 \in Nat /\ 1 <= Len(s)
  BY <1>3
<1> DEFINE b == SubSeq(s, 1, Len(s) - 1)
<1>7. b \in Seq(Frame) /\ Len(b) = Len(s) - 1 /\ \A j \in 1..(Len(s) - 1) : b[j] = s[j]
  BY <1>1, <1>6, Pops, Zenon
<1>8. \A j \in 1..(Len(s) - 1) : j \in 1..Len(s)
  BY <1>3
<1> HIDE DEF b
<1>9. b \in Calls
  BY <1>1, <1>7, <1>8, Zenon DEF Calls
<1> QED BY <1>1, <1>3, <1>4, <1>5, <1>7, <1>9, Zenon DEF s, b, Top, Below

\* Changing the calls of one handler.
LEMMA StackStep ==
    ASSUME TInv, NEW h \in Handlers, NEW calls \in Calls, Stack(h, calls)
    PROVE  CallsOK'
<1>1. CASE Len(calls) <= StackLimit
  <2>1. stack' = [stack EXCEPT ![h] = calls] /\ dead' = dead
    BY <1>1, Zenon DEF Stack
  <2>2. stack \in [Handlers -> Calls] /\ \A g \in Handlers : Len(stack[g]) <= StackLimit
    BY Zenon DEF TInv, CallsOK
  <2>3. stack' \in [Handlers -> Calls]
    BY <2>1, <2>2, Zenon
  <2>4. \A g \in Handlers : Len(stack'[g]) <= StackLimit
    BY <1>1, <2>1, <2>2, Zenon
  <2> QED BY <2>1, <2>3, <2>4, Zenon DEF TInv, CallsOK
<1>2. CASE ~(Len(calls) <= StackLimit)
  <2>1. stack' = [g \in Handlers |-> <<>>] /\ dead' = TRUE
    BY <1>2, Zenon DEF Stack
  <2>2. <<>> \in Calls /\ Len(<<>>) <= StackLimit
    BY BufferAssumption DEF Calls
  <2> QED BY <2>1, <2>2, Zenon DEF CallsOK
<1> QED BY <1>1, <1>2, Zenon

\* A Push.
LEMMA PushStep ==
    ASSUME TInv, NEW e \in Events, Push(e)
    PROVE  RingOK' /\ exists' = TRUE
<1>t. /\ ring \in [Slots -> Events \cup {None}] /\ pos \in Slots
      /\ pushed \in Seq(Events) /\ lost \subseteq Events
  BY Zenon DEF TInv, RingOK
<1>a. \A s \in Seq(Events) : Append(s, e) \in Seq(Events)
  OBVIOUS
<1>1. CASE exists
  <2>1. /\ exists' = TRUE /\ ring' = [ring EXCEPT ![pos] = e] /\ pos' = Wrapped(pos + 1)
        /\ pushed' = Append(pushed, e) /\ lost' = lost \cup ({ring[pos]} \ {None})
    BY <1>1, Zenon DEF Push, Wrapped
  <2>2. Shape(ring, pos, pushed)
    BY <1>1, Zenon DEF TInv, RingOK
  <2>3. /\ ring' \in [Slots -> Events \cup {None}] /\ pos' \in Slots
        /\ Shape(ring', pos', pushed')
    BY <1>t, <2>1, <2>2, PushShape, Zenon
  <2>4. lost' \subseteq Events /\ pushed' \in Seq(Events)
    BY <1>a, <1>t, <2>1, Zenon
  <2> QED BY <2>1, <2>3, <2>4, Zenon DEF RingOK, Shape
<1>2. CASE ~exists
  <2>1. /\ exists' = TRUE /\ ring' = [EmptyRing EXCEPT ![0] = e] /\ pos' = Wrapped(1)
        /\ pushed' = <<e>> /\ lost' = lost \cup {}
    BY <1>2, Zenon DEF Push, Wrapped
  <2>2. Append(<<>>, e) = <<e>> /\ <<>> \in Seq(Events) /\ 0 + 1 = 1
    OBVIOUS
  <2>p. /\ Wrapped(0 + 1) \in Slots
        /\ [EmptyRing EXCEPT ![0] = e] \in [Slots -> Events \cup {None}]
        /\ Shape([EmptyRing EXCEPT ![0] = e], Wrapped(0 + 1), Append(<<>>, e))
    BY <2>2, EmptyShape, PushShape, Zenon
  <2>q. /\ Wrapped(1) \in Slots
        /\ Shape([EmptyRing EXCEPT ![0] = e], Wrapped(1), <<e>>)
    BY <2>2, <2>p, Zenon
  <2>3. /\ ring' \in [Slots -> Events \cup {None}] /\ pos' \in Slots
        /\ Shape(ring', pos', pushed')
    BY <2>1, <2>p, <2>q, Zenon
  <2>4. pushed' \in Seq(Events)
    BY <1>a, <2>1, <2>2, Zenon
  <2> QED BY <1>t, <2>1, <2>3, <2>4, Zenon DEF RingOK, Shape
<1> QED BY <1>1, <1>2, Zenon

LEMMA InitTInv == Init => TInv
<1> SUFFICES ASSUME Init PROVE TInv
  BY Zenon
<1>1. <<>> \in Calls /\ Len(<<>>) <= StackLimit /\ <<>> \in Seq(Events)
  BY BufferAssumption DEF Calls
<1>2. RingOK
  BY <1>1, EmptyShape, Zenon DEF Init, RingOK
<1>3. CallsOK
  BY <1>1, Zenon DEF Init, CallsOK
<1>4. OutsideOK
  BY BufferAssumption DEF Init, OutsideOK
<1> QED BY <1>2, <1>3, <1>4, Zenon DEF TInv

\* Every step keeps the types and the shape of the ring.
LEMMA NextTInv == TInv /\ [Next]_vars => TInv'
<1> SUFFICES ASSUME TInv, [Next]_vars PROVE TInv'
  BY Zenon
<1>r. UNCHANGED buffer => RingOK'
  <2> SUFFICES ASSUME UNCHANGED buffer PROVE RingOK'
    BY Zenon
  <2>1. ring' = ring /\ pos' = pos /\ exists' = exists /\ pushed' = pushed /\ lost' = lost
    BY Zenon DEF buffer
  <2> QED BY <2>1, Zenon DEF TInv, RingOK, Shape
<1>o. UNCHANGED <<stored, healthy, seen, changes>> => OutsideOK'
  BY Zenon DEF TInv, OutsideOK
<1>1. ASSUME NEW h \in Handlers, NEW e \in Events, Arrive(h, e)
      PROVE  TInv'
  <2>1. <<EnqueueCall(e)>> \in Calls
    <3>1. EnqueueCall(e) \in Frame /\ EnqueueCall(e).event \in Events
      BY Frames, Zenon
    <3> HIDE DEF EnqueueCall
    <3> QED BY <3>1 DEF Calls
  <2>2. CallsOK'
    BY <1>1, <2>1, StackStep, Zenon DEF Arrive
  <2>3. OutsideOK'
    BY <1>1, Zenon DEF Arrive, TInv, OutsideOK
  <2> QED BY <1>1, <1>r, <2>2, <2>3, Zenon DEF Arrive, TInv
<1>2. ASSUME NEW h \in Handlers, WriteFails(h)
      PROVE  TInv'
  <2>1. stack[h] # <<>> /\ Top(h).event \in Events
    BY <1>2, TopOf, Zenon DEF WriteFails, In
  <2>2. RingOK'
    BY <1>2, <2>1, PushStep, Zenon DEF WriteFails
  <2>3. (IF Len(stack[h]) > 1 THEN Below(h, 2) ELSE <<>>) \in Calls
    <3>1. CASE Len(stack[h]) > 1
      <4>1. stack[h] \in Seq(Frame)
            /\ \A j \in 1..Len(stack[h]) : stack[h][j].call = "enqueue" => stack[h][j].event \in Events
        BY Zenon DEF TInv, CallsOK, Calls
      <4>2. 2 \in Nat /\ 2 <= Len(stack[h]) /\ \A j \in 1..(Len(stack[h]) - 2) : j \in 1..Len(stack[h])
        BY <3>1, <4>1
      <4> QED BY <3>1, <4>1, <4>2, Pops, ZenonT(60) DEF Below, Calls
    <3>2. <<>> \in Calls
      BY DEF Calls
    <3> QED BY <3>1, <3>2, Zenon
  <2>4. CallsOK'
    BY <1>2, <2>3, StackStep, Zenon DEF WriteFails
  <2> QED BY <1>2, <1>o, <2>2, <2>4, Zenon DEF WriteFails, TInv
<1>4. ASSUME NEW h \in Handlers, WriteSucceeds(h)
      PROVE  TInv'
  <2>1. stack[h] # <<>> /\ Top(h).event \in Events /\ Below(h, 1) \in Calls
    BY <1>4, TopOf, Zenon DEF WriteSucceeds, In
  <2>2. CallsOK'
    BY <1>4, <2>1, Frames, AppendCalls, StackStep, Zenon DEF WriteSucceeds
  <2>3. OutsideOK'
    BY <1>4, <2>1, Zenon DEF WriteSucceeds, TInv, OutsideOK
  <2> QED BY <1>4, <1>r, <2>2, <2>3, Zenon DEF WriteSucceeds, TInv
<1>5. ASSUME NEW h \in Handlers, FlushBegins(h)
      PROVE  TInv'
  <2>1. stack[h] # <<>> /\ Below(h, 1) \in Calls
    BY <1>5, TopOf, Zenon DEF FlushBegins, In
  <2>2. exists => GetAll \in Seq(Events)
    BY GetAllIs, Zenon DEF TInv, RingOK
  <2>3. exists => Append(Below(h, 1), FlushLoop(GetAll)) \in Calls
    BY <2>1, <2>2, Frames, AppendCalls, Zenon
  <2>4. CallsOK'
    BY <1>5, <2>1, <2>3, StackStep, Zenon DEF FlushBegins
  <2> QED BY <1>5, <1>r, <1>o, <2>4, Zenon DEF FlushBegins, TInv
<1>6. ASSUME NEW h \in Handlers, FlushNext(h)
      PROVE  TInv'
  <2> DEFINE f == FlushLoop(Tail(Top(h).rest))
             g == EnqueueCall(Head(Top(h).rest))
             b == Below(h, 1)
  <2>1. stack[h] # <<>> /\ b \in Calls /\ Top(h).rest \in Seq(Events) /\ Top(h).rest # <<>>
    BY <1>6, TopOf, Zenon DEF FlushNext, In
  <2>2. Tail(Top(h).rest) \in Seq(Events) /\ Head(Top(h).rest) \in Events
    BY <2>1
  <2>3. f \in Frame /\ f.call = "loop" /\ g \in Frame /\ g.event \in Events
    BY <2>2, Frames, Zenon
  <2>4. b \o <<f, g>> = Append(Append(b, f), g)
    <3> HIDE DEF f, g, b
    <3>1. b \in Seq(Frame)
      BY <2>1, Zenon DEF Calls
    <3> QED BY <2>3, <3>1
  <2>c. "loop" # "enqueue"
    OBVIOUS
  <2>d. Append(b, f) \in Calls
    BY <2>1, <2>3, <2>c, AppendCalls, Zenon
  <2>e. Append(Append(b, f), g) \in Calls
    BY <2>d, <2>3, AppendCalls, Zenon
  <2>5. CallsOK'
    BY <1>6, <2>4, <2>e, StackStep, Zenon DEF FlushNext
  <2> QED BY <1>6, <1>r, <1>o, <2>5, Zenon DEF FlushNext, TInv
<1>7. ASSUME NEW h \in Handlers, FlushEnds(h)
      PROVE  TInv'
  <2>1. stack[h] # <<>> /\ Below(h, 1) \in Calls
    BY <1>7, TopOf, Zenon DEF FlushEnds, In
  <2>2. CallsOK'
    BY <1>7, <2>1, StackStep, Zenon DEF FlushEnds
  <2>3. RingOK'
    BY <1>7, Zenon DEF FlushEnds, TInv, RingOK
  <2> QED BY <1>7, <1>o, <2>2, <2>3, Zenon DEF FlushEnds, TInv
<1>8. CASE StoreChanges
  <2>1. OutsideOK'
    <3>1. changes' \in 0..MaxChanges
      BY <1>8, BufferAssumption DEF StoreChanges, TInv, OutsideOK
    <3> QED BY <1>8, <3>1, Zenon DEF StoreChanges, TInv, OutsideOK
  <2>2. CallsOK'
    BY <1>8, Zenon DEF StoreChanges, TInv, CallsOK
  <2> QED BY <1>8, <1>r, <2>1, <2>2, Zenon DEF StoreChanges, TInv
<1>9. CASE UNCHANGED vars
  <2>1. CallsOK'
    BY <1>9, Zenon DEF vars, TInv, CallsOK
  <2> QED BY <1>9, <1>r, <1>o, <2>1, Zenon DEF vars, TInv
<1> QED BY <1>1, <1>2, <1>4, <1>5, <1>6, <1>7, <1>8, <1>9, Zenon DEF Next

\* The buffer, the calls under way and the histories keep their types, up to the
\* end of the stack and of the ring.
THEOREM TypeCorrect == Spec => []TypeOK
<1>1. TInv => TypeOK
  <2> SUFFICES ASSUME TInv PROVE TypeOK
    BY Zenon
  <2>1. stack \in [Handlers -> Seq(Frame)]
    BY Zenon DEF TInv, CallsOK, Calls
  <2> QED BY <2>1, Zenon DEF TInv, RingOK, CallsOK, OutsideOK, TypeOK
<1> QED BY <1>1, InitTInv, NextTInv, PTL DEF Spec

\* GetAll returns the newest events pushed into the buffer in the order of their
\* arrival, for every size of the ring and any handlers: Push overwrites the oldest.
THEOREM NewestHolds == Spec => []BufferKeepsNewest
<1>1. TInv => BufferKeepsNewest
  BY GetAllIs, Zenon DEF TInv, RingOK, BufferKeepsNewest
<1> QED BY <1>1, InitTInv, NextTInv, PTL DEF Spec

-----------------------------------------------------------------------------
(* No event is forgotten: the calls of one handler *)

\* Every slot is visited.
LEMMA Reached ==
    ASSUME NEW p \in Slots, NEW t \in Slots
    PROVE  \E i \in 1..Size : Slot(p, i) = t
<1> DEFINE i == IF p <= t THEN t - p + 1 ELSE (t - p + 1) + Size
<1>1. i \in 1..Size /\ t = IF p + i <= Size THEN p + i - 1 ELSE (p + i - 1) - Size
  BY BufferAssumption DEF Slots
<1> HIDE DEF i
<1> QED BY <1>1, SlotAt, Zenon

\* GetAll returns exactly the events that the slots hold.
LEMMA SameEvents ==
    ASSUME pos \in Slots, pushed \in Seq(Events), Shape(ring, pos, pushed)
    PROVE  /\ \A t \in Slots : ring[t] # None => \E m \in 1..Len(GetAll) : GetAll[m] = ring[t]
           /\ \A m \in 1..Len(GetAll) : \E t \in Slots : GetAll[m] = ring[t]
<1> DEFINE n == Len(pushed)
           c == IF n <= Size THEN n ELSE Size
<1>n. n \in Nat /\ Size \in Nat \ {0} /\ c \in Nat /\ c <= n /\ c <= Size /\ (c = n \/ c = Size)
  BY BufferAssumption
<1>1. Len(Newest(pushed, Size)) = c /\ \A m \in 1..c : Newest(pushed, Size)[m] = pushed[n - c + m]
  <2>1. CASE n <= Size
    BY <1>n, <2>1 DEF Newest
  <2>2. CASE ~(n <= Size)
    BY <1>n, <2>2 DEF Newest
  <2> QED BY <2>1, <2>2, Zenon
<1>2. Len(GetAll) = c /\ \A m \in 1..c : GetAll[m] = pushed[n - c + m]
  BY <1>1, GetAllIs, Zenon
<1>3. \A i \in 1..Size : ring[Slot(pos, i)] = IF i + n <= Size THEN None ELSE pushed[n + i - Size]
  BY Zenon DEF Shape
<1> HIDE DEF n, c
<1>4. ASSUME NEW t \in Slots, ring[t] # None
      PROVE  \E m \in 1..Len(GetAll) : GetAll[m] = ring[t]
  <2>1. PICK i \in 1..Size : Slot(pos, i) = t
    BY Reached, Zenon
  <2>2. ~(i + n <= Size) /\ ring[t] = pushed[n + i - Size]
    BY <1>3, <1>4, <2>1, Zenon
  <2> DEFINE m == i + c - Size
  <2>3. m \in 1..c /\ n - c + m = n + i - Size
    BY ONLY <1>n, <2>2, i \in 1..Size
  <2> HIDE DEF m
  <2> QED BY <1>2, <2>2, <2>3, Zenon
<1>5. ASSUME NEW m \in 1..Len(GetAll)
      PROVE  \E t \in Slots : GetAll[m] = ring[t]
  <2> DEFINE i == m + Size - c
  <2>0. m \in 1..c
    BY <1>2, Zenon
  <2>1. i \in 1..Size /\ ~(i + n <= Size) /\ n + i - Size = n - c + m
    BY ONLY <1>n, <2>0
  <2> HIDE DEF i
  <2>2. Slot(pos, i) \in Slots
    BY <2>1, SlotAt, Zenon
  <2> QED BY <1>2, <1>3, <2>0, <2>1, <2>2, ZenonT(60)
<1> QED BY <1>4, <1>5, Zenon

\* What a loop of flushFallbackBuffer still has to do, and what is in the store,
\* on its way to it, or no event at all.
Elements(q) == {q[i] : i \in 1..Len(q)}
Left(f) == Elements(f.rest)
Cover(st, f) == {None} \cup st \cup Left(f)

\* Stack s of a handler: only the innermost call is not a loop, and only calls of
\* EnqueueScrobble have an event.
Nested(s) ==
    \A j \in 1..Len(s) :
        /\ j < Len(s) => s[j].call = "loop"
        /\ s[j].call # "enqueue" => s[j].event = None

\* A call has nothing to do that a loop below it does not have to do as well.
Ahead(s, st) ==
    \A j, k \in 1..Len(s) :
        /\ j < k => Left(s[k]) \subseteq Cover(st, s[j])
        /\ j + 1 < k => s[k].event \in Cover(st, s[j])

\* Every loop will have passed each event of the ring to the store when it ends.
Kept(s, st, r) ==
    \A j \in 1..Len(s) : s[j].call = "loop" =>
        \A t \in Slots : r[t] \in Cover(st, s[j]) \cup {s[Len(s)].event}

\* Event e has a place: in the store st, among the lost events ls, in ring r if
\* there is one, or with a call of stack s.
Placed(e, s, st, ls, ex, r) ==
    \/ e \in st
    \/ e \in ls
    \/ ex /\ \E t \in Slots : r[t] = e
    \/ \E i \in 1..Len(s) : s[i].event = e

Known(e, s) == Placed(e, s, stored, lost, exists, ring)

\* The inductive invariant, for the calls of handler h.
OneOK(h) ==
    /\ Nested(stack[h])
    /\ Ahead(stack[h], stored)
    /\ exists => Kept(stack[h], stored, ring)
    /\ ~dead => \A e \in seen : Known(e, stack[h])

LEMMA NoCalls == Len(<<>>) = 0 /\ Nested(<<>>) /\ \A st, r : Ahead(<<>>, st) /\ Kept(<<>>, st, r)
BY DEF Nested, Ahead, Kept

\* When calls return, those that remain are loops.
LEMMA Returned ==
    ASSUME NEW s \in Seq(Frame), NEW st, NEW b \in Seq(Frame), Len(b) < Len(s),
           \A j \in 1..Len(b) : b[j] = s[j], Nested(s), Ahead(s, st)
    PROVE  /\ Ahead(b, st) /\ Nested(b)
           /\ \A j \in 1..Len(b) : b[j].call = "loop" /\ b[j].event = None
<1>1. \A j \in 1..Len(b) : j \in 1..Len(s) /\ j < Len(s)
  OBVIOUS
<1>2. "loop" # "enqueue"
  OBVIOUS
<1>3. ASSUME NEW j \in 1..Len(b)
      PROVE  b[j].call = "loop" /\ b[j].event = None
  <2>1. s[j].call = "loop"
    BY <1>1, Zenon DEF Nested
  <2>2. s[j].event = None
    BY <1>1, <1>2, <2>1, Zenon DEF Nested
  <2> QED BY <2>1, <2>2, Zenon
<1>4. Nested(b)
  BY <1>3, Zenon DEF Nested
<1>5. Ahead(b, st)
  BY <1>1, Zenon DEF Ahead
<1> QED BY <1>3, <1>4, <1>5, Zenon

\* A call on top of loops.
LEMMA Called ==
    ASSUME NEW b \in Seq(Frame), NEW st, NEW f \in Frame, Ahead(b, st),
           \A j \in 1..Len(b) : b[j].call = "loop" /\ b[j].event = None,
           f.call # "enqueue" => f.event = None,
           \A j \in 1..Len(b) : Left(f) \subseteq Cover(st, b[j]),
           \A j \in 1..Len(b) : j < Len(b) => f.event \in Cover(st, b[j])
    PROVE  Nested(Append(b, f)) /\ Ahead(Append(b, f), st)
<1> DEFINE a == Append(b, f)
<1>1. /\ a \in Seq(Frame) /\ Len(a) = Len(b) + 1 /\ a[Len(b) + 1] = f
      /\ \A j \in 1..Len(b) : a[j] = b[j]
  BY Appends, Zenon
<1> HIDE DEF a
<1>2. Len(b) \in Nat
  OBVIOUS
<1>3. \A j \in 1..Len(a) : j \in 1..Len(b) \/ (j = Len(b) + 1 /\ ~(j < Len(a)))
  BY <1>1, <1>2
<1>4. Nested(a)
  BY <1>1, <1>3, Zenon DEF Nested
<1>5. ASSUME NEW j \in 1..Len(a), NEW k \in 1..Len(a)
      PROVE  /\ j < k => Left(a[k]) \subseteq Cover(st, a[j])
             /\ j + 1 < k => a[k].event \in Cover(st, a[j])
  <2>1. CASE k \in 1..Len(b)
    <3>1. j < k \/ j + 1 < k => j \in 1..Len(b)
      BY <1>1, <1>2, <2>1
    <3> QED BY <1>1, <2>1, <3>1, Zenon DEF Ahead
  <2>2. CASE k = Len(b) + 1
    <3>1. j < k => j \in 1..Len(b)
      BY <1>1, <1>2, <2>2
    <3>2. j + 1 < k => j \in 1..Len(b) /\ j < Len(b)
      BY <1>1, <1>2, <2>2
    <3> QED BY <1>1, <2>2, <3>1, <3>2, Zenon
  <2> QED BY <1>3, <2>1, <2>2, Zenon
<1>6. Ahead(a, st)
  BY <1>5, Zenon DEF Ahead
<1> QED BY <1>4, <1>6, Zenon DEF a

LEMMA HeadTail ==
    /\ Elements(<<>>) = {}
    /\ \A q \in Seq(Events) : q # <<>> => Elements(q) = {Head(q)} \cup Elements(Tail(q))
<1>1. Elements(<<>>) = {}
  BY DEF Elements
<1>2. ASSUME NEW q \in Seq(Events), q # <<>>
      PROVE  Elements(q) = {Head(q)} \cup Elements(Tail(q))
  <2>1. /\ Len(q) \in Nat \ {0} /\ Len(Tail(q)) = Len(q) - 1 /\ q[1] = Head(q)
        /\ \A i \in 1..(Len(q) - 1) : Tail(q)[i] = q[i + 1]
    BY <1>2
  <2>2. ASSUME NEW i \in 1..Len(q) PROVE q[i] \in {Head(q)} \cup Elements(Tail(q))
    <3>1. CASE i = 1
      BY <2>1, <3>1, Zenon
    <3>2. CASE i # 1
      <4>1. i - 1 \in 1..(Len(q) - 1) /\ (i - 1) + 1 = i
        BY <2>1, <3>2
      <4> QED BY <2>1, <4>1, ZenonT(60) DEF Elements
    <3> QED BY <3>1, <3>2, Zenon
  <2>3. ASSUME NEW i \in 1..Len(Tail(q)) PROVE Tail(q)[i] \in Elements(q)
    <3>1. i \in 1..(Len(q) - 1) /\ i + 1 \in 1..Len(q)
      BY <2>1
    <3> QED BY <2>1, <3>1, Zenon DEF Elements
  <2>4. Head(q) \in Elements(q)
    <3>1. 1 \in 1..Len(q)
      BY <2>1
    <3> QED BY <2>1, <3>1, Zenon DEF Elements
  <2> QED BY <2>2, <2>3, <2>4, Zenon DEF Elements
<1> QED BY <1>1, <1>2, Zenon

\* The calls of handler h become calls, or the process dies.
LEMMA Settles ==
    ASSUME TInv, NEW h \in Handlers, NEW calls, Stack(h, calls),
           Nested(calls), Ahead(calls, stored'), exists' => Kept(calls, stored', ring'),
           \A e \in seen' : Placed(e, calls, stored', lost', exists', ring')
    PROVE  OneOK(h)'
<1>1. CASE Len(calls) <= StackLimit
  <2>1. stack \in [Handlers -> Calls]
    BY Zenon DEF TInv, CallsOK
  <2>2. stack' = [stack EXCEPT ![h] = calls]
    BY <1>1, Zenon DEF Stack
  <2>3. stack'[h] = calls
    BY <2>1, <2>2, Zenon
  <2>4. \A e \in seen' : Placed(e, stack'[h], stored', lost', exists', ring')
    BY <2>3, Zenon DEF Known, Placed
  <2> QED BY <2>3, <2>4, Zenon DEF OneOK, Known
<1>2. CASE ~(Len(calls) <= StackLimit)
  <2>1. stack'[h] = <<>> /\ dead'
    BY <1>2, Zenon DEF Stack
  <2> QED BY <2>1, NoCalls, Zenon DEF OneOK
<1> QED BY <1>1, <1>2, Zenon

\* The loops below the innermost call, and an event that a call has.
LEMMA Loops ==
    ASSUME TInv, NEW h \in Handlers, OneOK(h), stack[h] # <<>>
    PROVE  /\ Below(h, 1) \in Seq(Frame) /\ Len(Below(h, 1)) = Len(stack[h]) - 1
           /\ Nested(Below(h, 1)) /\ Ahead(Below(h, 1), stored)
           /\ \A j \in 1..Len(Below(h, 1)) :
                /\ j \in 1..Len(stack[h]) /\ j < Len(stack[h])
                /\ Below(h, 1)[j] = stack[h][j]
                /\ Below(h, 1)[j].call = "loop" /\ Below(h, 1)[j].event = None
           /\ Len(stack[h]) \in 1..Len(stack[h])
           /\ Top(h).call # "enqueue" => Top(h).event = None
           /\ \A e \in Events : \A i \in 1..Len(stack[h]) : stack[h][i].event = e => Top(h).event = e
<1> DEFINE s == stack[h]
           b == Below(h, 1)
<1>1. /\ s \in Seq(Frame) /\ Len(s) \in Nat \ {0} /\ b \in Calls /\ Len(b) = Len(s) - 1
      /\ \A j \in 1..(Len(s) - 1) : b[j] = s[j]
  BY TopOf, Zenon
<1>2. b \in Seq(Frame)
  BY <1>1, Zenon DEF Calls
<1>3. Nested(s) /\ Ahead(s, stored)
  BY Zenon DEF OneOK
<1>4. Top(h) = s[Len(s)]
  BY Zenon DEF Top
<1> HIDE DEF s, b
<1>5. /\ Len(b) < Len(s) /\ Len(s) \in 1..Len(s)
      /\ \A j \in 1..Len(b) : b[j] = s[j]
      /\ \A j \in 1..Len(b) : j \in 1..Len(s) /\ j < Len(s)
  BY <1>1
<1>6. /\ Ahead(b, stored) /\ Nested(b)
      /\ \A j \in 1..Len(b) : b[j].call = "loop" /\ b[j].event = None
  BY <1>1, <1>2, <1>3, <1>5, Returned, Zenon
<1>7. Top(h).call # "enqueue" => Top(h).event = None
  BY <1>3, <1>4, <1>5, Zenon DEF Nested
<1>8. ASSUME NEW e \in Events, NEW i \in 1..Len(s), s[i].event = e
      PROVE  Top(h).event = e
  <2>1. CASE i < Len(s)
    <3>1. i \in 1..Len(b)
      BY <1>1, <2>1
    <3>2. e = None
      BY <1>5, <1>6, <1>8, <3>1, Zenon
    <3> QED BY <3>2, BufferAssumption, Zenon
  <2>2. CASE ~(i < Len(s))
    <3>1. i = Len(s)
      BY <1>1, <2>2
    <3> QED BY <1>4, <1>8, <3>1, Zenon
  <2> QED BY <2>1, <2>2, Zenon
<1> QED BY <1>1, <1>2, <1>5, <1>6, <1>7, <1>8, Zenon DEF s, b

\* A webhook's own call.
LEMMA ArriveOne ==
    ASSUME TInv, NEW h \in Handlers, OneOK(h), NEW e \in Events, Arrive(h, e)
    PROVE  OneOK(h)'
<1> DEFINE f == EnqueueCall(e)
           calls == <<f>>
<1>1. f \in Frame /\ f.call = "enqueue" /\ f.event = e
  BY Frames, Zenon
<1> HIDE DEF f
<1>2. /\ Len(calls) = 1 /\ 1 \in 1..Len(calls) /\ calls[1] = f
      /\ \A j \in 1..Len(calls) : j = 1 /\ ~(j < 1) /\ ~(j + 1 < 1)
      /\ "enqueue" # "loop"
  OBVIOUS
<1> HIDE DEF calls
<1>3. Nested(calls) /\ Ahead(calls, stored') /\ Kept(calls, stored', ring')
  <2>1. Nested(calls)
    BY <1>1, <1>2, Zenon DEF Nested
  <2>2. Ahead(calls, stored')
    BY <1>2, Zenon DEF Ahead
  <2>3. Kept(calls, stored', ring')
    BY <1>1, <1>2, Zenon DEF Kept
  <2> QED BY <2>1, <2>2, <2>3, Zenon
<1>4. Stack(h, calls)
  BY Zenon DEF Arrive, calls, f
<1>5. ASSUME NEW x \in seen' PROVE Placed(x, calls, stored', lost', exists', ring')
  <2>1. /\ ring' = ring /\ exists' = exists /\ lost' = lost /\ stored' = stored
        /\ seen' = seen \cup {e} /\ stack[h] = <<>> /\ ~dead
    BY Zenon DEF Arrive, buffer
  <2>2. CASE x = e
    BY <1>1, <1>2, <2>2, Zenon DEF Known, Placed
  <2>3. CASE x \in seen
    <3>1. Known(x, stack[h])
      BY <2>1, <2>3, Zenon DEF OneOK
    <3>2. ~ \E i \in 1..Len(stack[h]) : stack[h][i].event = x
      BY <2>1
    <3> QED BY <2>1, <3>1, <3>2, Zenon DEF Known, Placed
  <2> QED BY <1>5, <2>1, <2>2, <2>3, Zenon
<1> QED BY <1>3, <1>4, <1>5, Settles, Zenon

\* The store does not take the event: it is buffered, and a flush that called
\* EnqueueScrobble returns as well.
LEMMA WriteFailsOne ==
    ASSUME TInv, NEW h \in Handlers, OneOK(h), WriteFails(h)
    PROVE  OneOK(h)'
<1> DEFINE s == stack[h]
           e == Top(h).event
           b == IF Len(s) > 1 THEN Below(h, 2) ELSE <<>>
<1>0. s # <<>> /\ Push(e) /\ Stack(h, b) /\ stored' = stored /\ seen' = seen /\ ~dead
  BY Zenon DEF WriteFails, In
<1>1. s \in Seq(Frame) /\ Len(s) \in Nat \ {0} /\ e \in Events /\ Top(h) = s[Len(s)]
  BY TopOf, Zenon DEF WriteFails, In, Top
<1>2. /\ Len(s) \in 1..Len(s)
      /\ \A x \in Events : \A i \in 1..Len(s) : s[i].event = x => e = x
  BY <1>0, Loops, Zenon
<1>3. Nested(s) /\ Ahead(s, stored) /\ (exists => Kept(s, stored, ring))
  BY Zenon DEF OneOK
<1>4. b \in Seq(Frame) /\ Len(b) < Len(s) /\ \A j \in 1..Len(b) : b[j] = s[j] /\ j + 1 < Len(s)
  <2>1. CASE Len(s) > 1
    <3>1. b = SubSeq(s, 1, Len(s) - 2)
      BY <2>1, Zenon DEF Below
    <3> HIDE DEF b, s
    <3> QED BY <1>1, <2>1, <3>1
  <2>2. CASE ~(Len(s) > 1)
    <3>1. b = <<>>
      BY <2>2, Zenon
    <3> HIDE DEF b, s
    <3> QED BY <1>1, <3>1
  <2> QED BY <2>1, <2>2, Zenon
<1>5. \A x \in seen : Known(x, s) /\ x \in Events
  BY <1>0, Zenon DEF OneOK, TInv, OutsideOK
<1> HIDE DEF s, e, b
<1>6. Nested(b) /\ Ahead(b, stored')
  BY <1>0, <1>1, <1>3, <1>4, Returned, Zenon
<1>r. ring \in [Slots -> Events \cup {None}] /\ pos \in Slots /\ 0 \in Slots /\ lost \subseteq Events
  BY EmptyShape, Zenon DEF TInv, RingOK
<1>7. /\ exists'
      /\ \A t \in Slots : ring'[t] = e \/ ring'[t] = None \/ (exists /\ ring'[t] = ring[t])
      /\ \E t \in Slots : ring'[t] = e
      /\ lost \subseteq lost'
      /\ exists => \A t \in Slots : ring[t] # None => ring'[t] = ring[t] \/ ring[t] \in lost'
  <2>1. CASE exists
    <3>1. exists' /\ ring' = [ring EXCEPT ![pos] = e] /\ lost' = lost \cup ({ring[pos]} \ {None})
      BY <1>0, <2>1, Zenon DEF Push
    <3> QED BY <1>r, <2>1, <3>1, Zenon
  <2>2. CASE ~exists
    <3>1. exists' /\ ring' = [EmptyRing EXCEPT ![0] = e] /\ lost' = lost \cup {}
      BY <1>0, <2>2, Zenon DEF Push
    <3>2. \A t \in Slots : ring'[t] = IF t = 0 THEN e ELSE None
      BY <3>1, Zenon DEF EmptyRing
    <3> QED BY <1>r, <2>2, <3>1, <3>2, Zenon
  <2> QED BY <2>1, <2>2, Zenon
<1>8. ASSUME NEW j \in 1..Len(b), b[j].call = "loop", NEW t \in Slots
      PROVE  ring'[t] \in Cover(stored', b[j]) \cup {b[Len(b)].event}
  <2>1. j \in 1..Len(s) /\ b[j] = s[j] /\ j + 1 < Len(s)
    BY <1>1, <1>4
  <2>2. e \in Cover(stored, s[j])
    BY <1>1, <1>2, <1>3, <2>1, Zenon DEF Ahead, e
  <2>3. exists => ring[t] \in Cover(stored, s[j]) \cup {e}
    BY <1>1, <1>3, <1>8, <2>1, Zenon DEF Kept, e
  <2>4. None \in Cover(stored, s[j])
    BY Zenon DEF Cover
  <2>5. ring'[t] \in Cover(stored, s[j])
    BY <1>7, <2>2, <2>3, <2>4, Zenon
  <2> QED BY <1>0, <2>1, <2>5, Zenon
<1>9. ASSUME NEW x \in seen' PROVE Placed(x, b, stored', lost', exists', ring')
  <2>1. x \in Events /\ Known(x, s) /\ x # None
    BY <1>0, <1>5, <1>9, BufferAssumption, Zenon
  <2>2. CASE \E i \in 1..Len(s) : s[i].event = x
    <3>1. x = e
      BY <1>2, <2>1, <2>2, Zenon
    <3> QED BY <1>7, <3>1, Zenon DEF Known, Placed
  <2>3. CASE exists /\ \E t \in Slots : ring[t] = x
    BY <1>7, <2>1, <2>3, Zenon DEF Known, Placed
  <2>4. CASE x \in stored \/ x \in lost
    BY <1>0, <1>7, <2>4, Zenon DEF Known, Placed
  <2> QED BY <2>1, <2>2, <2>3, <2>4, Zenon DEF Known, Placed
<1>10. Kept(b, stored', ring')
  BY <1>8, Zenon DEF Kept
<1> QED BY <1>0, <1>6, <1>9, <1>10, Settles, Zenon

\* A place that is not on the stack stays when the store, the buffer and the lost
\* events only grow.
LEMMA KnownStays ==
    ASSUME NEW s, NEW calls, NEW x, Known(x, s),
           stored \subseteq stored', ring' = ring, lost' = lost, exists' = exists,
           (\E i \in 1..Len(s) : s[i].event = x) => x \in stored'
    PROVE  Placed(x, calls, stored', lost', exists', ring')
BY Zenon DEF Known, Placed

\* The store takes the event, and what is left of EnqueueScrobble is the flush.
LEMMA WriteSucceedsOne ==
    ASSUME TInv, NEW h \in Handlers, OneOK(h), WriteSucceeds(h)
    PROVE  OneOK(h)'
<1> DEFINE s == stack[h]
           e == Top(h).event
           b == Below(h, 1)
           calls == Append(b, FlushCall)
<1>0. /\ s # <<>> /\ Stack(h, calls) /\ stored' = stored \cup {e} /\ seen' = seen /\ ~dead
      /\ ring' = ring /\ lost' = lost /\ exists' = exists
  BY Zenon DEF WriteSucceeds, In, buffer
<1>1. /\ b \in Seq(Frame) /\ Ahead(b, stored) /\ Len(s) \in 1..Len(s)
      /\ \A j \in 1..Len(b) : /\ j \in 1..Len(s) /\ b[j] = s[j]
                              /\ b[j].call = "loop" /\ b[j].event = None
      /\ \A x \in Events : \A i \in 1..Len(s) : s[i].event = x => e = x
  BY <1>0, Loops, Zenon
<1>2. exists => Kept(s, stored, ring)
  BY Zenon DEF OneOK
<1>3. \A x \in seen : Known(x, s) /\ x \in Events
  BY <1>0, Zenon DEF OneOK, TInv, OutsideOK
<1>4. e = s[Len(s)].event
  BY Zenon DEF Top
<1> HIDE DEF s, e, b
<1>5. \A f : Cover(stored, f) \subseteq Cover(stored', f) /\ e \in Cover(stored', f)
             /\ None \in Cover(stored', f)
  BY <1>0, Zenon DEF Cover
<1>6. Ahead(b, stored')
  BY <1>1, <1>5, Zenon DEF Ahead
<1>7. /\ FlushCall \in Frame /\ FlushCall.call = "flush" /\ FlushCall.event = None
      /\ Left(FlushCall) = {} /\ "flush" # "loop"
  <2>1. "flush" # "loop"
    OBVIOUS
  <2> QED BY <2>1, Frames, HeadTail, Zenon DEF Left
<1>8. Nested(calls) /\ Ahead(calls, stored')
  BY <1>1, <1>5, <1>6, <1>7, Called, Zenon
<1>9. exists' => Kept(calls, stored', ring')
  <2> SUFFICES ASSUME exists, NEW j \in 1..Len(calls), calls[j].call = "loop", NEW t \in Slots
               PROVE  ring[t] \in Cover(stored', calls[j]) \cup {calls[Len(calls)].event}
    BY <1>0, Zenon DEF Kept
  <2>1. Len(calls) = Len(b) + 1 /\ calls[Len(b) + 1] = FlushCall
        /\ \A i \in 1..Len(b) : calls[i] = b[i]
    BY <1>1, <1>7, Appends, Zenon
  <2>2. j \in 1..Len(b) \/ j = Len(b) + 1
    <3>1. Len(b) \in Nat
      BY <1>1
    <3> HIDE DEF calls
    <3> QED BY <2>1, <3>1
  <2>3. j \in 1..Len(b)
    BY <1>7, <2>1, <2>2, Zenon
  <2>4. ring[t] \in Cover(stored, s[j]) \cup {e}
    BY <1>1, <1>2, <1>4, <2>3, ZenonT(60) DEF Kept
  <2> QED BY <1>1, <1>5, <2>1, <2>3, <2>4, Zenon
<1>10. \A x \in seen' : Placed(x, calls, stored', lost', exists', ring')
  <2> SUFFICES ASSUME NEW x \in seen PROVE Placed(x, calls, stored', lost', exists', ring')
    BY <1>0, Zenon
  <2>1. Known(x, s) /\ ((\E i \in 1..Len(s) : s[i].event = x) => x \in stored')
    BY <1>0, <1>1, <1>3, Zenon
  <2> HIDE DEF calls
  <2> QED BY <1>0, <2>1, KnownStays, Zenon
<1> QED BY <1>0, <1>8, <1>9, <1>10, Settles, Zenon

\* What holds of a handler in flushFallbackBuffer: it has no event of its own.
LEMMA Flushing ==
    ASSUME TInv, NEW h \in Handlers, OneOK(h), stack[h] # <<>>, ~dead, Top(h).call # "enqueue"
    PROVE  /\ Len(stack[h]) \in 1..Len(stack[h]) /\ Top(h) = stack[h][Len(stack[h])]
           /\ \A x \in seen : /\ x \in Events /\ x # None /\ Known(x, stack[h])
                              /\ ~ \E i \in 1..Len(stack[h]) : stack[h][i].event = x
           /\ exists => \A j \in 1..Len(stack[h]) : stack[h][j].call = "loop" =>
                            \A t \in Slots : ring[t] \in Cover(stored, stack[h][j])
<1> DEFINE s == stack[h]
<1>1. /\ Len(s) \in 1..Len(s) /\ Top(h) = s[Len(s)] /\ Top(h).event = None
      /\ \A x \in Events : \A i \in 1..Len(s) : s[i].event = x => Top(h).event = x
  BY Loops, Zenon DEF Top
<1>2. \A x \in seen : x \in Events /\ x # None /\ Known(x, s)
  BY BufferAssumption, Zenon DEF TInv, OutsideOK, OneOK
<1>3. exists => Kept(s, stored, ring)
  BY Zenon DEF OneOK
<1> HIDE DEF s
<1>4. \A f : None \in Cover(stored, f)
  BY Zenon DEF Cover
<1>5. \A x \in seen : ~ \E i \in 1..Len(s) : s[i].event = x
  BY <1>1, <1>2, Zenon
<1>6. exists => \A j \in 1..Len(s) : s[j].call = "loop" => \A t \in Slots : ring[t] \in Cover(stored, s[j])
  BY <1>1, <1>3, <1>4, Zenon DEF Kept
<1> QED BY <1>1, <1>2, <1>5, <1>6, Zenon DEF s

\* flushFallbackBuffer reads the buffer.
LEMMA FlushBeginsOne ==
    ASSUME TInv, NEW h \in Handlers, OneOK(h), FlushBegins(h)
    PROVE  OneOK(h)'
<1> DEFINE s == stack[h]
           b == Below(h, 1)
           f == FlushLoop(GetAll)
<1>0. /\ s # <<>> /\ ~dead /\ Top(h).call # "enqueue"
      /\ Stack(h, IF exists /\ GetAll # <<>> THEN Append(b, f) ELSE b)
      /\ stored' = stored /\ seen' = seen /\ ring' = ring /\ lost' = lost /\ exists' = exists
  <2>1. "flush" # "enqueue"
    OBVIOUS
  <2> QED BY <2>1, Zenon DEF FlushBegins, In, buffer
<1>1. /\ b \in Seq(Frame) /\ Nested(b) /\ Ahead(b, stored)
      /\ \A j \in 1..Len(b) : /\ j \in 1..Len(s) /\ b[j] = s[j]
                              /\ b[j].call = "loop" /\ b[j].event = None
  BY <1>0, Loops, ZenonT(60)
<1>2. /\ \A x \in seen : Known(x, s) /\ ~ \E i \in 1..Len(s) : s[i].event = x
      /\ exists => \A j \in 1..Len(s) : s[j].call = "loop" => \A t \in Slots : ring[t] \in Cover(stored, s[j])
  BY <1>0, Flushing, Zenon
<1>3. exists => \A j \in 1..Len(b) : \A t \in Slots : ring[t] \in Cover(stored, b[j])
  BY <1>1, <1>2, Zenon
<1>4. exists => /\ GetAll \in Seq(Events)
                /\ \A t \in Slots : ring[t] # None => \E m \in 1..Len(GetAll) : GetAll[m] = ring[t]
                /\ \A m \in 1..Len(GetAll) : \E t \in Slots : GetAll[m] = ring[t]
  BY GetAllIs, SameEvents, Zenon DEF TInv, RingOK
<1>5. exists => f \in Frame /\ f.call = "loop" /\ f.event = None /\ Left(f) = Elements(GetAll)
  BY <1>4, Frames, Zenon DEF Left
<1>6. ASSUME NEW calls, NEW x \in seen' PROVE Placed(x, calls, stored', lost', exists', ring')
  BY <1>0, <1>2, <1>6, KnownStays, Zenon
<1> HIDE DEF s, b, f
<1>7. CASE exists /\ GetAll # <<>>
  <2> DEFINE calls == Append(b, f)
  <2>1. \A j \in 1..Len(b) : Left(f) \subseteq Cover(stored, b[j]) /\ f.event \in Cover(stored, b[j])
    <3>1. ASSUME NEW y \in Left(f) PROVE \E t \in Slots : y = ring[t]
      <4>1. y \in Elements(GetAll)
        BY <1>5, <1>7, ZenonT(60)
      <4>2. PICK m \in 1..Len(GetAll) : y = GetAll[m]
        BY <4>1, Zenon DEF Elements
      <4> QED BY <1>4, <1>7, <4>2, ZenonT(60)
    <3>2. \A g : None \in Cover(stored, g)
      BY Zenon DEF Cover
    <3> QED BY <1>3, <1>5, <1>7, <3>1, <3>2, Zenon
  <2>2. "loop" # "enqueue"
    OBVIOUS
  <2>3. Nested(calls) /\ Ahead(calls, stored)
    BY <1>1, <1>5, <1>7, <2>1, <2>2, Called, ZenonT(60)
  <2>4. Len(calls) = Len(b) + 1 /\ calls[Len(b) + 1] = f /\ \A i \in 1..Len(b) : calls[i] = b[i]
    BY <1>1, <1>5, <1>7, Appends, Zenon
  <2>5. Stack(h, calls)
    BY <1>0, <1>7, Zenon
  <2> HIDE DEF calls
  <2>6. \A j \in 1..Len(calls) : j \in 1..Len(b) \/ j = Len(b) + 1
    <3>1. Len(b) \in Nat
      BY <1>1
    <3> QED BY <2>4, <3>1
  <2>7. \A t \in Slots : ring[t] \in Cover(stored, f)
    BY <1>4, <1>5, <1>7, ZenonT(60) DEF Elements, Cover
  <2>8. \A j \in 1..Len(calls) : \A t \in Slots : ring[t] \in Cover(stored, calls[j])
    BY <1>3, <1>7, <2>4, <2>6, <2>7, Zenon
  <2>9. Kept(calls, stored', ring')
    BY <1>0, <2>8, Zenon DEF Kept
  <2> QED BY <1>0, <1>6, <2>3, <2>5, <2>9, Settles, Zenon
<1>8. CASE ~(exists /\ GetAll # <<>>)
  <2>1. Stack(h, b)
    BY <1>0, <1>8, Zenon
  <2>2. exists' => Kept(b, stored', ring')
    BY <1>0, <1>3, Zenon DEF Kept
  <2> QED BY <1>0, <1>1, <1>6, <2>1, <2>2, Settles, Zenon
<1> QED BY <1>7, <1>8, Zenon

\* Its loop passes on the next event.
LEMMA FlushNextOne ==
    ASSUME TInv, NEW h \in Handlers, OneOK(h), FlushNext(h)
    PROVE  OneOK(h)'
<1> DEFINE s == stack[h]
           b == Below(h, 1)
           q == Top(h).rest
           f == FlushLoop(Tail(q))
           g == EnqueueCall(Head(q))
           a == Append(b, f)
           calls == Append(a, g)
<1>c. "loop" # "enqueue"
  OBVIOUS
<1>0. /\ s # <<>> /\ ~dead /\ Top(h).call = "loop" /\ q # <<>> /\ Stack(h, b \o <<f, g>>)
      /\ stored' = stored /\ seen' = seen /\ ring' = ring /\ lost' = lost /\ exists' = exists
  BY Zenon DEF FlushNext, In, buffer
<1>1. /\ b \in Seq(Frame) /\ Len(b) = Len(s) - 1 /\ Ahead(b, stored)
      /\ \A j \in 1..Len(b) : /\ j \in 1..Len(s) /\ j < Len(s) /\ b[j] = s[j]
                              /\ b[j].call = "loop" /\ b[j].event = None
  BY <1>0, Loops, ZenonT(60)
<1>2. /\ Len(s) \in 1..Len(s) /\ Top(h) = s[Len(s)]
      /\ \A x \in seen : Known(x, s) /\ ~ \E i \in 1..Len(s) : s[i].event = x
      /\ exists => \A j \in 1..Len(s) : s[j].call = "loop" => \A t \in Slots : ring[t] \in Cover(stored, s[j])
  BY <1>0, <1>c, Flushing, Zenon
<1>3. Ahead(s, stored)
  BY Zenon DEF OneOK
<1>4. q \in Seq(Events)
  BY <1>0, TopOf, Zenon
<1>5. Tail(q) \in Seq(Events) /\ Head(q) \in Events
  <2> HIDE DEF q
  <2> QED BY <1>0, <1>4
<1>6. /\ f \in Frame /\ f.call = "loop" /\ f.event = None /\ Left(f) = Elements(Tail(q))
      /\ g \in Frame /\ g.call = "enqueue" /\ g.event = Head(q) /\ Left(g) = {}
  BY <1>5, Frames, HeadTail, Zenon DEF Left
<1>7. Left(Top(h)) = {Head(q)} \cup Left(f)
  BY <1>0, <1>4, <1>6, HeadTail, Zenon DEF Left
<1>8. ASSUME NEW p, NEW x \in seen' PROVE Placed(x, p, stored', lost', exists', ring')
  BY <1>0, <1>2, <1>8, KnownStays, Zenon
<1>9. \A y : None \in Cover(stored, y)
  BY Zenon DEF Cover
<1> HIDE DEF s, b, q, f, g
<1>10. \A j \in 1..Len(b) : Left(f) \subseteq Cover(stored, b[j]) /\ Head(q) \in Cover(stored, b[j])
  <2>1. \A j \in 1..Len(b) : Left(Top(h)) \subseteq Cover(stored, b[j])
    BY <1>1, <1>2, <1>3, Zenon DEF Ahead
  <2> QED BY <1>7, <2>1, Zenon
<1>11. Ahead(a, stored)
  BY <1>1, <1>6, <1>9, <1>10, <1>c, Called, Zenon
<1>12. /\ a \in Seq(Frame) /\ Len(a) = Len(b) + 1 /\ a[Len(b) + 1] = f
       /\ \A i \in 1..Len(b) : a[i] = b[i]
  BY <1>1, <1>6, Appends, Zenon
<1>13. /\ calls \in Seq(Frame) /\ Len(calls) = Len(a) + 1 /\ calls[Len(a) + 1] = g
       /\ \A i \in 1..Len(a) : calls[i] = a[i]
  <2> HIDE DEF a
  <2> QED BY <1>6, <1>12, Appends, ZenonT(60)
<1>14. b \o <<f, g>> = calls
  BY <1>1, <1>6, SMTT(30)
<1> HIDE DEF a
<1>15. /\ \A j \in 1..Len(a) : j \in 1..Len(b) \/ j = Len(b) + 1
       /\ \A j \in 1..Len(a) : j < Len(a) => j \in 1..Len(b)
       /\ \A j \in 1..(Len(a) + 1) : j \in 1..Len(a) \/ j = Len(a) + 1
  <2>1. Len(b) \in Nat
    BY <1>1
  <2> QED BY <1>12, <2>1, SMTT(30)
<1>16. \A j \in 1..Len(a) : a[j].call = "loop" /\ a[j].event = None
  BY <1>1, <1>6, <1>12, <1>15, ZenonT(60)
<1>17. Nested(calls) /\ Ahead(calls, stored)
  <2>1. \A j \in 1..Len(a) : Left(g) \subseteq Cover(stored, a[j])
    BY <1>6, Zenon
  <2>2. \A j \in 1..Len(a) : j < Len(a) => g.event \in Cover(stored, a[j])
    BY <1>6, <1>10, <1>12, <1>15, Zenon
  <2> QED BY <1>6, <1>11, <1>12, <1>16, <2>1, <2>2, Called, Zenon
<1> HIDE DEF calls
<1>18. exists' => Kept(calls, stored', ring')
  <2> SUFFICES ASSUME exists, NEW j \in 1..Len(calls), calls[j].call = "loop", NEW t \in Slots
               PROVE  ring[t] \in Cover(stored, calls[j]) \cup {calls[Len(calls)].event}
    BY <1>0, Zenon DEF Kept
  <2>1. j \in 1..Len(a) /\ calls[Len(calls)].event = Head(q)
    BY <1>6, <1>13, <1>15, <1>c, Zenon
  <2>2. CASE j \in 1..Len(b)
    BY <1>1, <1>2, <1>12, <1>13, <2>1, <2>2, Zenon
  <2>3. CASE j = Len(b) + 1
    <3>1. ring[t] \in Cover(stored, Top(h))
      BY <1>0, <1>2, Zenon
    <3>2. ring[t] \in Cover(stored, f) \cup {Head(q)}
      BY <1>7, <3>1, Zenon DEF Cover
    <3> QED BY <1>12, <1>13, <2>1, <2>3, <3>2, Zenon
  <2> QED BY <1>15, <2>1, <2>2, <2>3, Zenon
<1>19. Stack(h, calls) /\ Ahead(calls, stored') /\ \A x \in seen' : Placed(x, calls, stored', lost', exists', ring')
  BY <1>0, <1>8, <1>14, <1>17, Zenon
<1> QED BY <1>17, <1>18, <1>19, Settles, ZenonT(60)

\* The end of the loop removes the buffer, whose events have reached the store.
LEMMA FlushEndsOne ==
    ASSUME TInv, NEW h \in Handlers, OneOK(h), FlushEnds(h)
    PROVE  OneOK(h)'
<1> DEFINE s == stack[h]
           b == Below(h, 1)
<1>0. /\ s # <<>> /\ ~dead /\ Top(h).call = "loop" /\ Top(h).rest = <<>> /\ Stack(h, b)
      /\ stored' = stored /\ seen' = seen /\ lost' = lost /\ ~exists'
  BY Zenon DEF FlushEnds, In
<1>c. "loop" # "enqueue"
  OBVIOUS
<1>1. Nested(b) /\ Ahead(b, stored)
  BY <1>0, Loops, Zenon
<1>2. /\ Len(s) \in 1..Len(s) /\ Top(h) = s[Len(s)]
      /\ \A x \in seen : x # None /\ Known(x, s) /\ ~ \E i \in 1..Len(s) : s[i].event = x
      /\ exists => \A j \in 1..Len(s) : s[j].call = "loop" => \A t \in Slots : ring[t] \in Cover(stored, s[j])
  BY <1>0, <1>c, Flushing, Zenon
<1>3. Cover(stored, Top(h)) = {None} \cup stored
  BY <1>0, HeadTail, Zenon DEF Cover, Left
<1> HIDE DEF s, b
<1>4. exists => \A t \in Slots : ring[t] \in {None} \cup stored
  BY <1>0, <1>2, <1>3, Zenon
<1>5. ASSUME NEW x \in seen' PROVE Placed(x, b, stored', lost', exists', ring')
  <2>1. x \in stored \/ x \in lost
    BY <1>0, <1>2, <1>4, <1>5, Zenon DEF Known, Placed
  <2> QED BY <1>0, <2>1, Zenon DEF Placed
<1>6. Ahead(b, stored') /\ \A x \in seen' : Placed(x, b, stored', lost', exists', ring')
  BY <1>0, <1>1, <1>5, Zenon
<1> QED BY <1>0, <1>1, <1>6, Settles, Zenon

\* While the process lives and one handler works for the user, no event is
\* forgotten: it is in the store, with a call, in the buffer, or overwritten in a
\* full ring.  Whatever the size of the ring, the depth of the nesting of
\* EnqueueScrobble and flushFallbackBuffer and the changes of the store's health.
THEOREM NothingForgottenHolds ==
    ASSUME NEW h, Handlers = {h}
    PROVE  Spec => []NothingForgotten
<1>h. h \in Handlers /\ \A g \in Handlers : g = h
  BY Zenon
<1>1. Init => OneOK(h)
  <2> SUFFICES ASSUME Init PROVE OneOK(h)
    BY Zenon
  <2>1. stack[h] = <<>> /\ ~exists /\ seen = {}
    BY <1>h, Zenon DEF Init
  <2> QED BY <2>1, NoCalls, Zenon DEF OneOK
<1>2. TInv /\ OneOK(h) /\ [Next]_vars => OneOK(h)'
  <2> SUFFICES ASSUME TInv, OneOK(h), [Next]_vars PROVE OneOK(h)'
    BY Zenon
  <2>1. CASE \E e \in Events : Arrive(h, e)
    BY <1>h, <2>1, ArriveOne, Zenon
  <2>2. CASE WriteFails(h) \/ WriteSucceeds(h)
    BY <1>h, <2>2, WriteFailsOne, WriteSucceedsOne, Zenon
  <2>3. CASE FlushBegins(h) \/ FlushNext(h) \/ FlushEnds(h)
    BY <1>h, <2>3, FlushBeginsOne, FlushNextOne, FlushEndsOne, Zenon
  <2>4. CASE StoreChanges \/ UNCHANGED vars
    <3>1. UNCHANGED <<ring, exists, lost, stored, stack, dead, seen>>
      BY <2>4, Zenon DEF StoreChanges, vars, buffer
    <3> QED BY <3>1, Zenon DEF OneOK, Known
  <2> QED BY <1>h, <2>1, <2>2, <2>3, <2>4, Zenon DEF Next
<1>3. TInv /\ OneOK(h) => NothingForgotten
  <2> SUFFICES ASSUME OneOK(h), ~dead, NEW e \in seen, e \notin stored, e \notin lost
               PROVE  \/ exists /\ \E s \in Slots : ring[s] = e
                      \/ \E g \in Handlers : \E i \in 1..Len(stack[g]) : stack[g][i].event = e
    BY Zenon DEF NothingForgotten
  <2> QED BY <1>h, Zenon DEF OneOK, Known, Placed
<1> QED BY <1>1, <1>2, <1>3, InitTInv, NextTInv, PTL DEF Spec
=============================================================================
