------------------------------ MODULE SampleRing ------------------------------
(***************************************************************************)
(* The ring buffers of the high-resolution cache: GpuSampleRing            *)
(* (highres.py) and NvidiaGpmSampleRing (performance_highres.py), as       *)
(* records and the operators that take one and return the next.  A slot    *)
(* holds what the parallel arrays hold at one index: a reading, with its   *)
(* time `at`.                                                              *)
(***************************************************************************)
EXTENDS Integers, Sequences, FiniteSets

CONSTANTS Capacity,   \* slots of a ring
          Blank       \* what an unused slot holds

ASSUME RingAssumption == Capacity \in Nat \ {0}

Slots == 0 .. Capacity - 1

\* `ordered` is time_ordered, which only the performance ring keeps.
EmptyRing ==
    [slots |-> [i \in Slots |-> Blank], writeIndex |-> 0, count |-> 0,
     ordered |-> TRUE]

\* Mutation: the oldest slot is taken to be the one that was written last.
IndexOfLast(ring, offset) ==
    IF ring.count < Capacity THEN offset
    ELSE (ring.writeIndex + offset + Capacity - 1) % Capacity

\* _chronological_index: where the reading number `offset` is, oldest first.
Index(ring, offset) ==
    IF ring.count < Capacity THEN offset
    ELSE (ring.writeIndex + offset) % Capacity

At(ring, offset) == ring.slots[Index(ring, offset)].at

OldestAt(ring) == At(ring, 0)
NewestAt(ring) == At(ring, ring.count - 1)

\* The readings, oldest first.
Readings(ring) == [k \in 1..ring.count |-> ring.slots[Index(ring, k - 1)]]

\* GpuSampleRing.append
Write(ring, r) ==
    [ring EXCEPT !.slots[ring.writeIndex] = r,
                 !.writeIndex = (@ + 1) % Capacity,
                 !.count = IF @ < Capacity THEN @ + 1 ELSE Capacity]

\* Mutation: once the times ascend again, the ring counts as ordered.
WriteForgetful(ring, r) ==
    [Write(ring, r) EXCEPT !.ordered = ring.count > 0 => r.at >= NewestAt(ring)]

\* NvidiaGpmSampleRing.append: remembers that the clock once went back.
WriteOrdered(ring, r) ==
    [Write(ring, r) EXCEPT
        !.ordered = @ /\ (ring.count > 0 => r.at >= NewestAt(ring))]

-----------------------------------------------------------------------------
(* Range queries *)

\* The readings with the numbers in I, in their order.
Kth(I, k) == CHOOSE i \in I : Cardinality(I \cap 1..i) = k
Selected(readings, I) == [k \in 1..Cardinality(I) |-> readings[Kth(I, k)]]

\* points, and _window after a clock adjustment: up to the first reading
\* that is later than `until`, whatever comes after it.
Scan(readings, since, until) ==
    Selected(readings, {i \in 1..Len(readings) :
                           /\ readings[i].at >= since
                           /\ \A j \in 1..i : readings[j].at <= until})

Points(ring, since, until) == Scan(Readings(ring), since, until)

\* bisect: the first offset of lo..hi that is not before, by halving.
Bisect(before, lo, hi) ==
    LET search[p \in (0..Capacity) \X (0..Capacity)] ==
            LET mid == (p[1] + p[2]) \div 2
            IN IF p[1] >= p[2] THEN p[1]
               ELSE IF mid \in before THEN search[<<mid + 1, p[2]>>]
               ELSE search[<<p[1], mid>>]
    IN search[<<lo, hi>>]

\* The slots from `first` on, before `last`.
Slice(ring, first, last) ==
    [k \in 1..(last - first) |-> ring.slots[first + k - 1]]

\* _window: two bisections and at most two slices, while the times ascend.
Window(ring, since, until) ==
    LET offsets == 0 .. ring.count - 1
        start == Bisect({k \in offsets : At(ring, k) < since}, 0, ring.count)
        end == Bisect({k \in offsets : At(ring, k) <= until}, start, ring.count)
        first == Index(ring, start)
        last == first + end - start
    IN IF ~ring.ordered THEN Scan(Readings(ring), since, until)
       ELSE IF start = end THEN <<>>
       ELSE IF last <= Capacity THEN Slice(ring, first, last)
       ELSE Slice(ring, first, Capacity) \o Slice(ring, 0, last - Capacity)

-----------------------------------------------------------------------------
(* Charts *)

CeilDiv(n, d) == (n + d - 1) \div d

First(I) == CHOOSE i \in I : \A j \in I : i <= j

\* Mutation: a bucket with missing readings is drawn without a gap.
KeptWithoutGap(timeline, bucket) ==
    LET valid == {i \in bucket : timeline[i].value # Blank}
        Least == {i \in valid : \A j \in valid : timeline[i].value <= timeline[j].value}
        Most == {i \in valid : \A j \in valid : timeline[i].value >= timeline[j].value}
    IN IF valid = {} THEN {First(bucket)} ELSE {First(Least), First(Most)}

\* What is drawn of a bucket: its least and its greatest value, and a gap.
Kept(timeline, bucket) ==
    LET valid == {i \in bucket : timeline[i].value # Blank}
        Least == {i \in valid : \A j \in valid : timeline[i].value <= timeline[j].value}
        Most == {i \in valid : \A j \in valid : timeline[i].value >= timeline[j].value}
    IN CASE valid = {} -> {CHOOSE i \in bucket : \A j \in bucket : j <= i}
         [] valid = bucket -> {First(Least), First(Most)}
         [] OTHER -> {First(Least), First(Most), First(bucket \ valid)}

\* _downsample_minmax, as the set of points that it sorts by time.
Downsample(timeline, maxPoints) ==
    LET n == Len(timeline)
        buckets == (maxPoints - 2) \div 3
        size == CeilDiv(n, IF buckets < 1 THEN 1 ELSE buckets)
        Bucket(k) == {i \in 1..n : (i - 1) \div size = k}
        drawn == {1, n} \cup UNION {Kept(timeline, Bucket(k)) : k \in 0..((n - 1) \div size)}
    IN {timeline[i] : i \in IF n <= maxPoints THEN 1..n ELSE drawn}
=============================================================================
