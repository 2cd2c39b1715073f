---------------------------- MODULE HighresProofs ----------------------------
(***************************************************************************)
(* Theorems about the high-resolution cache and its stream, for any ring   *)
(* capacity, GPUs, websockets and queue size: the cache keeps the most     *)
(* recent readings, the sidecar stores them in order, what it misses on a  *)
(* working connection was lost by its own queue, a chart of the cache has  *)
(* no more points than were asked for and keeps the extremes, the bisected *)
(* window of a ring is what a scan of it gives, and a curve from memory    *)
(* has all of its job's readings.                                          *)
(***************************************************************************)
EXTENDS HighresStream, SequenceTheorems, FiniteSetTheorems, TLAPS

-----------------------------------------------------------------------------
(* Readings, rings and caches *)

Reading == [at : Nat, id : Nat, value : {1, 2, Blank}]
GpuReading == [valid : BOOLEAN, gpm : BOOLEAN, value : {1, 2, Blank}]

Snapshot == UNION {[at : Nat, gpus : [G -> GpuReading]] : G \in SUBSET Gpus}

Ring == [slots : [Slots -> Reading \cup {Blank}], writeIndex : Slots,
         count : 0..Capacity, ordered : BOOLEAN]

\* A ring that has not wrapped yet is written at its end, and the slots that
\* count hold readings.
RingOK(ring) ==
    /\ ring \in Ring
    /\ ring.count < Capacity => ring.writeIndex = ring.count
    /\ \A k \in 0 .. ring.count - 1 : ring.slots[Index(ring, k)] \in Reading

RingsOK(rings) ==
    /\ DOMAIN rings \subseteq Gpus
    /\ \A g \in DOMAIN rings : RingOK(rings[g])

CacheOK(c) == RingsOK(c.basic) /\ RingsOK(c.gpm)

\* While the clock was never seen to go back, readings ascend: what the
\* bisection of a performance ring relies on.
Ascends(s) == \A i, j \in 1..Len(s) : i <= j => s[i].at <= s[j].at
OrderTold(ring) == ring.ordered => Ascends(Readings(ring))

ManagerInv ==
    /\ accepted \in Seq(Snapshot)
    /\ CacheOK(cache)
    /\ \A g \in DOMAIN cache.gpm : OrderTold(cache.gpm[g])

-----------------------------------------------------------------------------
(* What a write does to a ring *)

\* An index that runs past the end of a ring goes on at its start.
LEMMA Wraps ==
    ASSUME NEW x \in 0 .. (2 * Capacity - 1)
    PROVE  x % Capacity = IF x < Capacity THEN x ELSE x - Capacity
<1> Capacity \in Nat \ {0}
  BY RingAssumption DEF RingAssumption
<1> QED OBVIOUS

\* The readings of a ring are a sequence, the slots from the oldest on.
LEMMA ReadingsType ==
    ASSUME NEW ring, RingOK(ring)
    PROVE  /\ Readings(ring) \in Seq(Reading)
           /\ Len(Readings(ring)) = ring.count
           /\ \A k \in 1..ring.count :
                 Readings(ring)[k] = ring.slots[Index(ring, k - 1)]
<1>1. ring.count \in Nat
  BY RingAssumption DEF RingOK, Ring, RingAssumption
<1>2. \A k \in 1..ring.count : ring.slots[Index(ring, k - 1)] \in Reading
  <2> SUFFICES ASSUME NEW k \in 1..ring.count
               PROVE  ring.slots[Index(ring, k - 1)] \in Reading
    OBVIOUS
  <2>1. k - 1 \in 0 .. ring.count - 1
    BY <1>1
  <2> QED BY <2>1 DEF RingOK
<1> DEFINE s == [k \in 1..ring.count |-> ring.slots[Index(ring, k - 1)]]
<1>3. s \in [1..ring.count -> Reading]
  BY <1>2
<1> HIDE DEF s
<1>4. s \in Seq(Reading) /\ Len(s) = ring.count
  BY <1>1, <1>3
<1> QED BY <1>4 DEF s, Readings

\* A new ring is empty.
LEMMA EmptyRingOK == RingOK(EmptyRing) /\ Readings(EmptyRing) = <<>>
<1>1. Capacity \in Nat \ {0} /\ 0 \in Slots
  BY RingAssumption DEF RingAssumption, Slots
<1>2. RingOK(EmptyRing)
  BY <1>1 DEF RingOK, Ring, EmptyRing
<1>3. EmptyRing.count = 0
  BY DEF EmptyRing
<1> QED BY <1>2, <1>3, ReadingsType

\* A write adds a reading at the end, and the oldest one of a full ring goes:
\* before, at and after the write index wraps.
LEMMA WriteReadings ==
    ASSUME NEW ring, RingOK(ring), NEW r \in Reading
    PROVE  /\ RingOK(Write(ring, r))
           /\ Readings(Write(ring, r)) = Recent!LastOf(Append(Readings(ring), r))
           /\ Readings(Write(ring, r)) # <<>>
           /\ Readings(Write(ring, r))[Len(Readings(Write(ring, r)))] = r
<1> DEFINE w == Write(ring, r)
           old == Readings(ring)
           new == Readings(w)
           n == ring.count
           C == Capacity
<1>1. /\ C \in Nat \ {0} /\ n \in 0..C /\ ring.writeIndex \in 0..(C - 1)
      /\ n < C => ring.writeIndex = n
      /\ \A k \in 0..(C - 1) : ring.slots[k] \in Reading \cup {Blank}
  BY RingAssumption DEF RingAssumption, RingOK, Ring, Slots
<1>2. /\ w.slots = [ring.slots EXCEPT ![ring.writeIndex] = r]
      /\ w.writeIndex = (ring.writeIndex + 1) % C
      /\ w.count = IF n < C THEN n + 1 ELSE C
      /\ w.ordered = ring.ordered
  BY DEF Write, RingOK, Ring
<1>3. w.writeIndex = IF ring.writeIndex + 1 < C THEN ring.writeIndex + 1 ELSE 0
  BY <1>1, <1>2, Wraps
<1>4. w \in Ring
  <2> DEFINE slots == [ring.slots EXCEPT ![ring.writeIndex] = r]
             next == (ring.writeIndex + 1) % C
             count == IF n < C THEN n + 1 ELSE C
  <2>1. slots \in [Slots -> Reading \cup {Blank}]
    BY DEF RingOK, Ring
  <2>2. next \in Slots /\ count \in 0..C
    BY <1>1, <1>2, <1>3 DEF Slots
  <2>4. w = [ring EXCEPT !.slots = slots, !.writeIndex = next, !.count = count]
    BY DEF Write
  <2>5. ring \in [slots : [Slots -> Reading \cup {Blank}], writeIndex : Slots,
                  count : 0..C, ordered : BOOLEAN]
    BY DEF RingOK, Ring
  <2> HIDE DEF slots, next, count, w
  <2> QED BY <2>1, <2>2, <2>4, <2>5 DEF Ring
<1>5. w.count < C => w.writeIndex = w.count
  BY <1>1, <1>2, <1>3
<1>6. \A k \in 0 .. (n - 1) :
         /\ Index(ring, k) \in 0..(C - 1)
         /\ n < C => Index(ring, k) = k
         /\ ~(n < C) /\ ring.writeIndex + k < C =>
               Index(ring, k) = ring.writeIndex + k
         /\ ~(n < C) /\ ~(ring.writeIndex + k < C) =>
               Index(ring, k) = ring.writeIndex + k - C
  <2> SUFFICES ASSUME NEW k \in 0 .. (n - 1)
               PROVE  /\ Index(ring, k) \in 0..(C - 1)
                      /\ n < C => Index(ring, k) = k
                      /\ ~(n < C) /\ ring.writeIndex + k < C =>
                            Index(ring, k) = ring.writeIndex + k
                      /\ ~(n < C) /\ ~(ring.writeIndex + k < C) =>
                            Index(ring, k) = ring.writeIndex + k - C
    OBVIOUS
  <2> DEFINE x == ring.writeIndex + k
  <2>1. x \in 0 .. (2 * C - 1)
    BY <1>1
  <2>2. Index(ring, k) = IF n < C THEN k ELSE x % C
    BY DEF Index
  <2> HIDE DEF x
  <2>3. x % C = IF x < C THEN x ELSE x - C
    BY <2>1, Wraps
  <2> QED BY <1>1, <2>1, <2>2, <2>3 DEF x
<1> HIDE DEF w
<1>7. \A k \in 0 .. (w.count - 1) :
         /\ w.count < C => Index(w, k) = k
         /\ ~(w.count < C) /\ w.writeIndex + k < C =>
               Index(w, k) = w.writeIndex + k
         /\ ~(w.count < C) /\ ~(w.writeIndex + k < C) =>
               Index(w, k) = w.writeIndex + k - C
  <2> SUFFICES ASSUME NEW k \in 0 .. (w.count - 1)
               PROVE  /\ w.count < C => Index(w, k) = k
                      /\ ~(w.count < C) /\ w.writeIndex + k < C =>
                            Index(w, k) = w.writeIndex + k
                      /\ ~(w.count < C) /\ ~(w.writeIndex + k < C) =>
                            Index(w, k) = w.writeIndex + k - C
    OBVIOUS
  <2> DEFINE x == w.writeIndex + k
  <2>1. x \in 0 .. (2 * C - 1)
    BY <1>1, <1>2, <1>3
  <2>2. Index(w, k) = IF w.count < C THEN k ELSE x % C
    BY DEF Index
  <2> HIDE DEF x
  <2>3. x % C = IF x < C THEN x ELSE x - C
    BY <2>1, Wraps
  <2>4. w.writeIndex \in Int /\ w.count \in Int /\ C \in Int
    BY <1>1, <1>2, <1>3
  <2> QED BY <2>1, <2>2, <2>3, <2>4 DEF x
\* The last index is the one that was written, the others are those of
\* before, one further when the ring was full.
<1>8. Index(w, w.count - 1) = ring.writeIndex
  <2>1. w.count - 1 \in 0 .. (w.count - 1)
    BY <1>1, <1>2
  <2> QED BY <1>1, <1>2, <1>3, <1>7, <2>1
<1>9. ASSUME NEW k \in 0 .. (w.count - 2)
      PROVE  LET i == IF n < C THEN k ELSE k + 1
             IN  /\ Index(w, k) = Index(ring, i)
                 /\ w.slots[Index(w, k)] = ring.slots[Index(ring, i)]
                 /\ i \in 0 .. (n - 1)
  <2> DEFINE i == IF n < C THEN k ELSE k + 1
  <2>1. i \in 0 .. (n - 1) /\ k \in 0 .. (w.count - 1)
    BY <1>1, <1>2
  <2>2. Index(w, k) = Index(ring, i) /\ Index(w, k) # ring.writeIndex
    <3>1. CASE n < C
      <4>1. Index(w, k) = k
        BY <1>1, <1>2, <1>3, <1>7, <2>1, <3>1
      <4>2. Index(ring, i) = k
        BY <1>6, <2>1, <3>1
      <4> QED BY <1>1, <2>1, <3>1, <4>1, <4>2
    <3>2. CASE ~(n < C)
      <4>1. n = C /\ w.count = C
        BY <1>1, <1>2, <3>2
      <4>2. Index(w, k) = IF w.writeIndex + k < C THEN w.writeIndex + k
                          ELSE w.writeIndex + k - C
        BY <1>1, <1>7, <2>1, <4>1
      <4>3. i = k + 1
        BY <3>2
      <4> HIDE DEF i
      <4>4. Index(ring, i) = IF ring.writeIndex + i < C THEN ring.writeIndex + i
                             ELSE ring.writeIndex + i - C
        BY <1>6, <2>1, <3>2
      <4> QED BY <1>1, <1>3, <2>1, <4>1, <4>2, <4>3, <4>4
    <3> QED BY <3>1, <3>2
  <2>3. Index(ring, i) \in Slots /\ ring.slots \in [Slots -> Reading \cup {Blank}]
    BY <1>1, <1>6, <2>1 DEF Slots, RingOK, Ring
  <2> QED BY <1>2, <2>1, <2>2, <2>3
<1>10. w.slots[ring.writeIndex] = r
  BY <1>2 DEF RingOK, Ring
<1>11. RingOK(w)
  <2>1. ASSUME NEW k \in 0 .. (w.count - 1)
        PROVE  w.slots[Index(w, k)] \in Reading
    <3>1. CASE k = w.count - 1
      BY <1>8, <1>10, <3>1
    <3>2. CASE k # w.count - 1
      <4>1. k \in 0 .. (w.count - 2)
        BY <1>1, <1>2, <3>2
      <4> QED BY <1>9, <4>1 DEF RingOK
    <3> QED BY <3>1, <3>2
  <2> QED BY <1>4, <1>5, <2>1 DEF RingOK
<1>12. /\ old \in Seq(Reading) /\ Len(old) = n
       /\ \A k \in 1..n : old[k] = ring.slots[Index(ring, k - 1)]
       /\ new \in Seq(Reading) /\ Len(new) = w.count
       /\ \A k \in 1..w.count : new[k] = w.slots[Index(w, k - 1)]
  BY <1>11, ReadingsType
<1> HIDE DEF old, new
<1> DEFINE a == Append(old, r)
<1>13. /\ a \in Seq(Reading) /\ Len(a) = n + 1 /\ a[n + 1] = r
       /\ \A k \in 1..n : a[k] = old[k]
  BY <1>12, AppendProperties
<1> HIDE DEF a
<1>14. new[w.count] = r /\ w.count > 0
  BY <1>1, <1>2, <1>8, <1>10, <1>12
<1>15. \A k \in 1 .. (w.count - 1) : new[k] = a[IF n < C THEN k ELSE k + 1]
  <2> SUFFICES ASSUME NEW k \in 1 .. (w.count - 1)
               PROVE  new[k] = a[IF n < C THEN k ELSE k + 1]
    OBVIOUS
  <2> DEFINE i == IF n < C THEN k ELSE k + 1
  <2>1. k - 1 \in 0 .. (w.count - 2) /\ k \in 1..w.count /\ i \in 1..n
    BY <1>1, <1>2
  <2>2. w.slots[Index(w, k - 1)] = ring.slots[Index(ring, i - 1)]
    BY <1>1, <1>9, <2>1
  <2> QED BY <1>12, <1>13, <2>1, <2>2
<1>16. new = Recent!LastOf(a)
  <2>1. CASE n < C
    <3>1. Recent!LastOf(a) = a
      BY <1>1, <1>13, <2>1 DEF Recent!LastOf
    <3>2. Len(new) = Len(a)
      BY <1>2, <1>12, <1>13, <2>1
    <3>3. \A k \in 1..Len(new) : new[k] = a[k]
      BY <1>1, <1>2, <1>12, <1>13, <1>14, <1>15, <2>1
    <3> QED BY <1>12, <1>13, <3>1, <3>2, <3>3, SeqEqual
  <2>2. CASE ~(n < C)
    <3> DEFINE t == SubSeq(a, 2, C + 1)
    <3>1. Recent!LastOf(a) = t
      BY <1>1, <1>13, <2>2 DEF Recent!LastOf
    <3>2. \A k \in 2..(C + 1) : a[k] \in Reading
      BY <1>1, <1>13, <2>2, ElementOfSeq
    <3>3. /\ t \in Seq(Reading) /\ Len(t) = C
          /\ \A k \in 1..C : t[k] = a[k + 1]
      BY <1>1, <3>2, SubSeqProperties
    <3> HIDE DEF t
    <3>4. Len(new) = Len(t)
      BY <1>2, <1>12, <2>2, <3>3
    <3>5. ASSUME NEW k \in 1..Len(new)
          PROVE  new[k] = t[k]
      <4>1. k \in 1..C /\ n = C /\ w.count = C
        BY <1>1, <1>2, <1>12, <2>2, <3>5
      <4>2. CASE k = C
        BY <1>13, <1>14, <3>3, <4>1, <4>2
      <4>3. CASE k # C
        <5>1. k \in 1 .. (w.count - 1)
          BY <1>1, <4>1, <4>3
        <5> QED BY <1>15, <2>2, <3>3, <4>1, <5>1
      <4> QED BY <4>2, <4>3
    <3> QED BY <1>12, <3>1, <3>3, <3>4, <3>5, SeqEqual
  <2> QED BY <2>1, <2>2
<1>17. new # <<>> /\ new[Len(new)] = r
  BY <1>12, <1>14
<1> QED BY <1>11, <1>16, <1>17 DEF w, old, new, a

\* A performance ring does the same, and remembers whether time went back.
LEMMA OrderedWriteReadings ==
    ASSUME NEW ring, RingOK(ring), NEW r \in Reading
    PROVE  /\ RingOK(WriteOrdered(ring, r))
           /\ Readings(WriteOrdered(ring, r)) = Readings(Write(ring, r))
           /\ OrderTold(ring) => OrderTold(WriteOrdered(ring, r))
<1> DEFINE w == Write(ring, r)
           told == ring.ordered /\ (ring.count > 0 => r.at >= NewestAt(ring))
           o == WriteOrdered(ring, r)
<1>1. w \in Ring /\ RingOK(w)
  BY WriteReadings DEF RingOK
<1>2. w.ordered = ring.ordered /\ ring.ordered \in BOOLEAN
  BY DEF Write, RingOK, Ring
<1>3. told \in BOOLEAN /\ o = [w EXCEPT !.ordered = told]
  BY <1>1, <1>2 DEF WriteOrdered, Ring
<1> HIDE DEF w, told, o
<1>4. /\ o \in Ring /\ o.slots = w.slots /\ o.count = w.count
      /\ o.writeIndex = w.writeIndex /\ o.ordered = told
  BY <1>1, <1>3 DEF Ring
<1>5. \A k : Index(o, k) = Index(w, k)
  BY <1>4 DEF Index
<1>6. RingOK(o) /\ Readings(o) = Readings(w)
  BY <1>1, <1>4, <1>5 DEF RingOK, Readings
<1>7. ASSUME OrderTold(ring), o.ordered
      PROVE  Ascends(Readings(o))
  <2> DEFINE s == Readings(ring)
             a == Append(s, r)
  <2>1. told /\ ring.ordered
    BY <1>4, <1>7 DEF told
  <2>2. /\ s \in Seq(Reading) /\ Len(s) = ring.count /\ ring.count \in Nat
        /\ \A k \in 1..ring.count : s[k] = ring.slots[Index(ring, k - 1)]
    BY ReadingsType, LenProperties
  <2>3. Ascends(s)
    BY <1>7, <2>1 DEF OrderTold
  <2>4. ring.count > 0 => r.at >= s[ring.count].at
    BY <2>1, <2>2 DEF told, NewestAt, At
  <2> HIDE DEF s
  <2>5. /\ a \in Seq(Reading) /\ Len(a) = Len(s) + 1 /\ a[Len(s) + 1] = r
        /\ \A k \in 1..Len(s) : a[k] = s[k]
    BY <2>2, AppendProperties
  <2> HIDE DEF a
  <2>6. \A k \in 1..Len(s) : s[k] \in Reading /\ s[k].at \in Nat
    <3>1. \A k \in 1..Len(s) : s[k] \in Reading
      BY <2>2, ElementOfSeq
    <3>2. \A x \in Reading : x.at \in Nat
      BY DEF Reading
    <3> QED BY <3>1, <3>2
  <2>7. r.at \in Nat
    BY DEF Reading
  <2>8. \A k \in 1..Len(s) : s[k].at <= r.at
    <3> SUFFICES ASSUME NEW k \in 1..Len(s) PROVE s[k].at <= r.at
      OBVIOUS
    <3>1. Len(s) \in 1..Len(s) /\ k <= Len(s) /\ Len(s) > 0
      BY <2>2
    <3>2. s[k].at <= s[Len(s)].at
      BY <2>3, <3>1 DEF Ascends
    <3> QED BY <2>2, <2>4, <2>6, <2>7, <3>1, <3>2
  <2>9. Ascends(a)
    <3> SUFFICES ASSUME NEW i \in 1..Len(a), NEW j \in 1..Len(a), i <= j
                 PROVE  a[i].at <= a[j].at
      BY DEF Ascends
    <3>1. CASE j = Len(s) + 1
      <4>1. a[j] = r /\ Len(s) \in Nat
        BY <2>2, <2>5, <3>1
      <4>2. CASE i = j
        BY <2>7, <4>1, <4>2
      <4>3. CASE i # j
        <5>1. i \in 1..Len(s)
          BY <2>5, <3>1, <4>1, <4>3
        <5> QED BY <2>5, <2>8, <4>1, <5>1
      <4> QED BY <4>2, <4>3
    <3>2. CASE j # Len(s) + 1
      <4>1. i \in 1..Len(s) /\ j \in 1..Len(s)
        BY <2>2, <2>5, <3>2
      <4> QED BY <2>3, <2>5, <4>1 DEF Ascends
    <3> QED BY <3>1, <3>2
  <2>10. Ascends(Recent!LastOf(a))
    <3>1. CASE Len(a) <= Capacity
      BY <2>9, <3>1 DEF Recent!LastOf
    <3>2. CASE ~(Len(a) <= Capacity)
      <4> DEFINE d == Len(a) - Capacity
                 t == SubSeq(a, d + 1, Len(a))
      <4>1. Len(a) \in Nat /\ Capacity \in Nat /\ d \in Nat /\ d + Capacity = Len(a)
        BY <2>2, <2>5, <3>2, RingAssumption DEF RingAssumption
      <4>2. \A k \in (d + 1)..Len(a) : a[k] \in Reading
        BY <2>5, <4>1, ElementOfSeq
      <4> HIDE DEF d
      <4>3. /\ Len(t) = Capacity
            /\ \A k \in 1..Capacity : t[k] = a[d + k]
        <5>1. Len(a) - (d + 1) + 1 = Capacity /\ d + 1 \in Int /\ Len(a) \in Int
          BY <4>1
        <5>2. /\ Len(t) = IF d + 1 <= Len(a) THEN Capacity ELSE 0
              /\ \A k \in 1..Capacity : t[k] = a[d + 1 + k - 1]
          BY <4>2, <5>1, SubSeqProperties
        <5> HIDE DEF t
        <5>3. Len(t) = Capacity
          BY <4>1, <5>2
        <5>4. \A k \in 1..Capacity : d + 1 + k - 1 = d + k
          BY <4>1
        <5> QED BY <5>2, <5>3, <5>4
      <4> HIDE DEF t
      <4>4. Ascends(t)
        <5> SUFFICES ASSUME NEW i \in 1..Capacity, NEW j \in 1..Capacity, i <= j
                     PROVE  t[i].at <= t[j].at
          BY <4>3 DEF Ascends
        <5>1. d + i \in 1..Len(a) /\ d + j \in 1..Len(a) /\ d + i <= d + j
          BY <4>1
        <5> QED BY <2>9, <4>3, <5>1 DEF Ascends
      <4>5. Recent!LastOf(a) = t
        BY <3>2 DEF Recent!LastOf, t, d
      <4> QED BY <4>4, <4>5
    <3> QED BY <3>1, <3>2
  <2>11. Readings(w) = Recent!LastOf(a)
    BY WriteReadings DEF w, a, s
  <2> QED BY <1>6, <2>10, <2>11
<1> QED BY <1>6, <1>7 DEF OrderTold, o, w

-----------------------------------------------------------------------------
(* What a snapshot does to a cache *)

LEMMA SnapshotFields ==
    ASSUME NEW s \in Snapshot
    PROVE  /\ s.at \in Nat
           /\ DOMAIN s.gpus \subseteq Gpus
           /\ \A g \in DOMAIN s.gpus : s.gpus[g] \in GpuReading
  BY DEF Snapshot

LEMMA TakenType ==
    ASSUME NEW s \in Snapshot, NEW g \in DOMAIN s.gpus, NEW id \in Nat
    PROVE  Taken(id, s, g) \in Reading
  BY SnapshotFields DEF Taken, Reading, GpuReading

\* A reading is stored in a series, or the series stays as it is.
Stores(old, new) ==
    \/ new = old
    \/ \E r \in Reading :
          /\ new = Recent!LastOf(Append(old, r))
          /\ new # <<>> /\ new[Len(new)] = r

\* The basic readings that are valid are stored, each in its GPU's ring.
LEMMA BasicTakes ==
    ASSUME NEW rings, RingsOK(rings), NEW s \in Snapshot, NEW id \in Nat
    PROVE  LET new == AddBasic(rings, id, s)
           IN  /\ RingsOK(new)
               /\ \A g \in Gpus : Stores(Readings(RingOf(rings, g)),
                                         Readings(RingOf(new, g)))
<1> DEFINE new == AddBasic(rings, id, s)
<1>1. DOMAIN rings \subseteq Gpus /\ DOMAIN s.gpus \subseteq Gpus
  BY SnapshotFields DEF RingsOK
<1>2. /\ DOMAIN new = DOMAIN rings \cup DOMAIN s.gpus
      /\ \A g \in DOMAIN new :
            new[g] = IF g \in DOMAIN s.gpus /\ s.gpus[g].valid
                     THEN Write(RingOf(rings, g), Taken(id, s, g))
                     ELSE RingOf(rings, g)
  BY DEF AddBasic
<1> HIDE DEF new
<1>3. \A g \in Gpus : RingOK(RingOf(rings, g))
  BY EmptyRingOK DEF RingOf, RingsOK
<1>4. ASSUME NEW g \in DOMAIN new
      PROVE  /\ RingOK(new[g])
             /\ Stores(Readings(RingOf(rings, g)), Readings(new[g]))
  <2>1. CASE g \in DOMAIN s.gpus /\ s.gpus[g].valid
    <3>1. Taken(id, s, g) \in Reading /\ RingOK(RingOf(rings, g))
      BY <1>1, <1>3, <2>1, TakenType
    <3> QED BY <1>2, <2>1, <3>1, WriteReadings DEF Stores
  <2>2. CASE ~(g \in DOMAIN s.gpus /\ s.gpus[g].valid)
    <3>1. new[g] = RingOf(rings, g) /\ g \in Gpus
      BY <1>1, <1>2, <1>4, <2>2
    <3> QED BY <1>3, <3>1 DEF Stores
  <2> QED BY <2>1, <2>2
<1>5. ASSUME NEW g \in Gpus
      PROVE  Stores(Readings(RingOf(rings, g)), Readings(RingOf(new, g)))
  <2>1. CASE g \in DOMAIN new
    BY <1>4, <2>1 DEF RingOf
  <2>2. CASE g \notin DOMAIN new
    BY <1>2, <2>2 DEF RingOf, Stores
  <2> QED BY <2>1, <2>2
<1>6. RingsOK(new)
  BY <1>1, <1>2, <1>4 DEF RingsOK
<1> QED BY <1>5, <1>6 DEF new

\* The performance readings of the profile are stored likewise, and a ring
\* that saw no clock go back ascends.
LEMMA PerformanceTakes ==
    ASSUME NEW rings, RingsOK(rings), NEW s \in Snapshot, NEW id \in Nat
    PROVE  LET new == AddPerformance(rings, id, s)
           IN  /\ RingsOK(new)
               /\ \A g \in Gpus : Stores(Readings(RingOf(rings, g)),
                                         Readings(RingOf(new, g)))
               /\ (\A g \in DOMAIN rings : OrderTold(rings[g]))
                     => \A g \in DOMAIN new : OrderTold(new[g])
<1> DEFINE new == AddPerformance(rings, id, s)
           measured == {g \in DOMAIN s.gpus : s.gpus[g].gpm}
<1>1. DOMAIN rings \subseteq Gpus /\ measured \subseteq Gpus
  BY SnapshotFields DEF RingsOK
<1>2. /\ DOMAIN new = DOMAIN rings \cup measured
      /\ \A g \in DOMAIN new :
            new[g] = IF g \in measured
                     THEN WriteOrdered(RingOf(rings, g), Taken(id, s, g))
                     ELSE rings[g]
  BY DEF AddPerformance
<1>3. \A g \in measured : Taken(id, s, g) \in Reading
  BY TakenType
<1> HIDE DEF new, measured
<1>4. \A g \in Gpus : RingOK(RingOf(rings, g))
  BY EmptyRingOK DEF RingOf, RingsOK
<1>5. ASSUME NEW g \in DOMAIN new
      PROVE  /\ RingOK(new[g])
             /\ Stores(Readings(RingOf(rings, g)), Readings(new[g]))
             /\ OrderTold(RingOf(rings, g)) => OrderTold(new[g])
  <2>1. CASE g \in measured
    <3>1. Taken(id, s, g) \in Reading /\ RingOK(RingOf(rings, g))
      BY <1>1, <1>3, <1>4, <2>1
    <3> QED BY <1>2, <2>1, <3>1, WriteReadings, OrderedWriteReadings DEF Stores
  <2>2. CASE g \notin measured
    <3>1. g \in DOMAIN rings /\ new[g] = RingOf(rings, g) /\ g \in Gpus
      BY <1>1, <1>2, <1>5, <2>2 DEF RingOf
    <3> QED BY <1>4, <3>1 DEF Stores
  <2> QED BY <2>1, <2>2
<1>6. ASSUME NEW g \in Gpus
      PROVE  Stores(Readings(RingOf(rings, g)), Readings(RingOf(new, g)))
  <2>1. CASE g \in DOMAIN new
    BY <1>5, <2>1 DEF RingOf
  <2>2. CASE g \notin DOMAIN new
    BY <1>2, <2>2 DEF RingOf, Stores
  <2> QED BY <2>1, <2>2
<1>7. RingsOK(new)
  BY <1>1, <1>2, <1>5 DEF RingsOK
<1>8. ASSUME \A g \in DOMAIN rings : OrderTold(rings[g]), NEW g \in DOMAIN new
      PROVE  OrderTold(new[g])
  <2>1. OrderTold(EmptyRing)
    BY EmptyRingOK DEF OrderTold, Ascends
  <2>2. OrderTold(RingOf(rings, g))
    BY <1>8, <2>1 DEF RingOf
  <2> QED BY <1>5, <1>8, <2>2
<1> QED BY <1>6, <1>7, <1>8 DEF new

-----------------------------------------------------------------------------
(* The invariant of the manager's cache, and its refinement *)

\* Whatever the clock and the GPUs do, what is accepted is a snapshot.
LEMMA AcceptedSnapshot ==
    ASSUME accepted \in Seq(Snapshot), AcceptRegular \/ AcceptOdd
    PROVE  \E s \in Snapshot : Accept(s)
<1> DEFINE odds == {[Plain EXCEPT !.valid = FALSE],
                    [Plain EXCEPT !.gpm = FALSE, !.value = Blank],
                    [Plain EXCEPT !.value = Blank],
                    [Plain EXCEPT !.value = 2]}
<1>1. Last \in Nat
  <2>1. CASE accepted = <<>>
    BY <2>1, StreamAssumption DEF StreamAssumption, Last
  <2>2. CASE accepted # <<>>
    <3>1. Len(accepted) \in 1..Len(accepted)
      BY <2>2, LenProperties, EmptySeq
    <3>2. accepted[Len(accepted)] \in Snapshot
      BY <3>1, ElementOfSeq
    <3> QED BY <2>2, <3>2, SnapshotFields DEF Last
  <2> QED BY <2>1, <2>2
<1>2. Plain \in GpuReading /\ \A r \in odds : r \in GpuReading
  BY DEF Plain, GpuReading
<1> HIDE DEF odds
<1>3. Regular \in [at : Nat, gpus : [Gpus -> GpuReading]]
  BY <1>1, <1>2 DEF Regular
<1>4. \A G \in SUBSET Gpus :
         \A s \in [at : Nat, gpus : [G -> GpuReading]] : s \in Snapshot
  BY DEF Snapshot
<1>5. Regular \in Snapshot
  BY <1>3, <1>4
<1>6. ASSUME NEW at \in Nat
      PROVE  [Regular EXCEPT !.at = at] \in Snapshot
  <2>1. [Regular EXCEPT !.at = at] \in [at : Nat, gpus : [Gpus -> GpuReading]]
    BY <1>3
  <2> QED BY <1>4, <2>1
<1>7. ASSUME NEW g \in Gpus
      PROVE  [Regular EXCEPT !.gpus = [h \in Gpus \ {g} |-> Plain]] \in Snapshot
  <2>1. [Regular EXCEPT !.gpus = [h \in Gpus \ {g} |-> Plain]]
           \in [at : Nat, gpus : [Gpus \ {g} -> GpuReading]]
    BY <1>2, <1>3
  <2> QED BY <1>4, <2>1
<1>8. ASSUME NEW g \in Gpus, NEW r \in odds
      PROVE  [Regular EXCEPT !.gpus[g] = r] \in Snapshot
  <2>1. [Regular EXCEPT !.gpus[g] = r] \in [at : Nat, gpus : [Gpus -> GpuReading]]
    BY <1>2, <1>3
  <2> QED BY <1>4, <2>1
<1>9. CASE AcceptRegular
  BY <1>5, <1>9 DEF AcceptRegular
<1>10. CASE AcceptOdd
  <2>1. CASE \E at \in {Last - 1, Last, Last + 2} :
                at > 0 /\ Accept([Regular EXCEPT !.at = at])
    <3>1. PICK at \in {Last - 1, Last, Last + 2} :
             at > 0 /\ Accept([Regular EXCEPT !.at = at])
      BY <2>1
    <3>2. at \in Nat
      BY <1>1, <3>1
    <3> QED BY <1>6, <3>1, <3>2
  <2>2. CASE \E g \in Gpus : Accept([Regular EXCEPT
                                       !.gpus = [h \in Gpus \ {g} |-> Plain]])
    BY <1>7, <2>2
  <2>3. CASE \E g \in Gpus, r \in odds : Accept([Regular EXCEPT !.gpus[g] = r])
    BY <1>8, <2>3
  <2> QED BY <1>10, <2>1, <2>2, <2>3 DEF AcceptOdd, odds
<1> QED BY <1>9, <1>10

\* Only a snapshot changes the cache.
LEMMA OtherSteps ==
    ASSUME [Next]_vars, ~AcceptRegular, ~AcceptOdd
    PROVE  UNCHANGED <<accepted, cache>>
  BY DEF Next, Subscribe, Send, HandlerEnds, Connect, Break, Receive,
         Disconnected, Wake, RestartSidecar, cacheVars, vars

LEMMA ManagerInit == Init => ManagerInv
<1> SUFFICES ASSUME Init PROVE ManagerInv
  OBVIOUS
<1>1. accepted \in Seq(Snapshot)
  BY EmptySeq DEF Init
<1>2. DOMAIN cache.basic = {} /\ DOMAIN cache.gpm = {}
  BY DEF Init, EmptyCache
<1> QED BY <1>1, <1>2 DEF ManagerInv, CacheOK, RingsOK

\* A step stores at most one reading in each series.
LEMMA ManagerStep ==
    ManagerInv /\ [Next]_vars =>
        /\ ManagerInv'
        /\ \A kind \in Kinds, g \in Gpus :
              Stores(Readings(RingOf(cache[kind], g)),
                     Readings(RingOf(cache'[kind], g)))
<1> SUFFICES ASSUME ManagerInv, [Next]_vars
             PROVE  /\ ManagerInv'
                    /\ \A kind \in Kinds, g \in Gpus :
                          Stores(Readings(RingOf(cache[kind], g)),
                                 Readings(RingOf(cache'[kind], g)))
  OBVIOUS
<1> USE DEF ManagerInv
<1>1. CASE AcceptRegular \/ AcceptOdd
  <2> DEFINE id == Len(accepted) + 1
  <2>1. PICK s \in Snapshot : Accept(s)
    BY <1>1, AcceptedSnapshot
  <2>2. id \in Nat
    BY LenProperties
  <2>3. accepted' = Append(accepted, s) /\ cache' = AddSnapshot(cache, id, s)
    BY <2>1 DEF Accept
  <2>4. accepted' \in Seq(Snapshot)
    BY <2>3, AppendProperties
  <2>5. /\ cache'.basic = AddBasic(cache.basic, id, s)
        /\ cache'.gpm = AddPerformance(cache.gpm, id, s)
    BY <2>3 DEF AddSnapshot
  <2> HIDE DEF id
  <2>6. /\ RingsOK(cache'.basic)
        /\ \A g \in Gpus : Stores(Readings(RingOf(cache.basic, g)),
                                  Readings(RingOf(cache'.basic, g)))
    BY <2>2, <2>5, BasicTakes DEF CacheOK
  <2>7. /\ RingsOK(cache'.gpm)
        /\ \A g \in Gpus : Stores(Readings(RingOf(cache.gpm, g)),
                                  Readings(RingOf(cache'.gpm, g)))
        /\ \A g \in DOMAIN cache'.gpm : OrderTold(cache'.gpm[g])
    BY <2>2, <2>5, PerformanceTakes DEF CacheOK
  <2>8. ManagerInv'
    BY <2>4, <2>6, <2>7 DEF CacheOK
  <2> QED BY <2>6, <2>7, <2>8 DEF Kinds
<1>2. CASE ~AcceptRegular /\ ~AcceptOdd
  <2>1. UNCHANGED <<accepted, cache>>
    BY <1>2, OtherSteps
  <2> QED BY <2>1 DEF Stores, CacheOK
<1> QED BY <1>1, <1>2

\* While the clock was never seen to go back, the readings of a performance
\* ring ascend, wherever it has wrapped.
THEOREM OrderedRingsAscend ==
    Spec => [](\A g \in DOMAIN cache.gpm : OrderTold(cache.gpm[g]))
<1>1. ManagerInv /\ [Next]_vars => ManagerInv'
  BY ManagerStep
<1>2. ManagerInv => \A g \in DOMAIN cache.gpm : OrderTold(cache.gpm[g])
  BY DEF ManagerInv
<1> QED BY <1>1, <1>2, ManagerInit, PTL DEF Spec

\* The manager's cache implements RecentSamples: each ring is the last
\* Capacity readings of its series in the order of their arrival.
THEOREM CacheImplements == Spec => CacheKeepsRecent
<1>1. Init => Recent!RecentInit
  <2> SUFFICES ASSUME Init PROVE Recent!RecentInit
    OBVIOUS
  <2>1. \A kind \in Kinds, g \in Gpus : Readings(RingOf(cache[kind], g)) = <<>>
    BY EmptyRingOK DEF Init, EmptyCache, RingOf, Kinds
  <2> QED BY <2>1 DEF Recent!RecentInit
<1>2. ManagerInv /\ [Next]_vars =>
         [Recent!RecentNext]_([k \in Kinds \X Gpus |-> Readings(RingOf(cache[k[1]], k[2]))])
  <2> SUFFICES ASSUME ManagerInv, [Next]_vars,
                      NEW k \in Kinds \X Gpus
               PROVE  LET old == Readings(RingOf(cache[k[1]], k[2]))
                          new == Readings(RingOf(cache'[k[1]], k[2]))
                      IN  \/ new = old
                          \/ /\ new # <<>>
                             /\ new = Recent!LastOf(Append(old, new[Len(new)]))
    BY DEF Recent!RecentNext, Recent!Stored
  <2> QED BY ManagerStep DEF Stores
<1>3. ManagerInv /\ [Next]_vars => ManagerInv'
  BY ManagerStep
<1> QED BY <1>1, <1>2, <1>3, ManagerInit, PTL
    DEF Spec, CacheKeepsRecent, Recent!Recent

-----------------------------------------------------------------------------
(* The stream: sequences of the numbers of snapshots *)

Ordered(s) == \A i, j \in 1..Len(s) : i < j => s[i] < s[j]
Elems(s) == {s[i] : i \in 1..Len(s)}

\* Everything in s comes before everything in t.
Before(s, t) == \A x \in Elems(s), y \in Elems(t) : x < y

Stream == [phase : {"unused", "accepted", "open", "ended"},
           link : {"none", "up", "broken", "closed"},
           queue : Seq(Nat), wire : Seq(Nat), first : Nat, dropped : SUBSET Nat]

StreamsType ==
    /\ streams \in [Connections -> Stream]
    /\ sidecar.connection \in Connections \cup {None}
    /\ sidecar.stored \in Seq(Nat)
    /\ sidecar = [connection |-> sidecar.connection, asleep |-> sidecar.asleep,
                  cache |-> sidecar.cache, stored |-> sidecar.stored]
    /\ Len(accepted) \in Nat

\* A stream carries nothing before its handler subscribes, and nothing is
\* queued once it has ended; the numbers in it are those of snapshots, and
\* what is on the websocket comes before what is still queued.
StreamOK(c) ==
    /\ streams[c].phase \in {"unused", "accepted"} =>
         /\ streams[c].queue = <<>> /\ streams[c].wire = <<>>
         /\ streams[c].dropped = {}
    /\ Elems(streams[c].wire) \cup Elems(streams[c].queue) \subseteq 1..Len(accepted)
    /\ streams[c].dropped \subseteq 1..Len(accepted)
    /\ streams[c].first <= Len(accepted) + 1
    /\ Ordered(streams[c].wire) /\ Ordered(streams[c].queue)
    /\ Before(streams[c].wire, streams[c].queue)

\* The sidecar's readings are in order, and what its connection still carries
\* comes after them.
SidecarOK ==
    /\ Ordered(sidecar.stored)
    /\ Elems(sidecar.stored) \subseteq 1..Len(accepted)
    /\ sidecar.connection # None =>
         LET c == sidecar.connection
         IN /\ streams[c].phase # "unused"
            /\ Before(sidecar.stored, streams[c].wire)
            /\ Before(sidecar.stored, streams[c].queue)

\* What was accepted since the subscription is stored, on its way or dropped.
Accounted(c) ==
    {id \in Elems(sidecar.stored) \cup Elems(streams[c].wire) \cup Elems(streams[c].queue) :
         id >= streams[c].first} =
      (streams[c].first .. Len(accepted)) \ streams[c].dropped

NothingElseIsLost ==
    LET c == sidecar.connection
    IN c # None /\ streams[c].phase = "open" /\ streams[c].link = "up" => Accounted(c)

StreamInv ==
    /\ StreamsType
    /\ \A c \in Connections : StreamOK(c)
    /\ SidecarOK
    /\ NothingElseIsLost

LEMMA EmptyIsOrdered == <<>> \in Seq(Nat) /\ Ordered(<<>>) /\ Elems(<<>>) = {}
  BY EmptySeq DEF Ordered, Elems

LEMMA AppendInOrder ==
    ASSUME NEW s \in Seq(Nat), NEW x \in Nat
    PROVE  /\ Append(s, x) \in Seq(Nat)
           /\ Elems(Append(s, x)) = Elems(s) \cup {x}
           /\ Ordered(s) /\ (\A y \in Elems(s) : y < x) => Ordered(Append(s, x))
<1> DEFINE t == Append(s, x)
           n == Len(s)
<1>1. /\ n \in Nat /\ t \in Seq(Nat) /\ Len(t) = n + 1
      /\ \A i \in 1..n : t[i] = s[i]
      /\ t[n + 1] = x
  BY AppendProperties, LenProperties
<1> HIDE DEF t, n
<1>2. Elems(t) = Elems(s) \cup {x}
  <2>1. Elems(t) = {t[i] : i \in 1..n + 1} /\ Elems(s) = {s[i] : i \in 1..n}
    BY <1>1 DEF Elems, n
  <2>2. 1..n + 1 = 1..n \cup {n + 1}
    BY <1>1
  <2>3. {t[i] : i \in 1..n} = {s[i] : i \in 1..n}
    BY <1>1
  <2>4. {t[i] : i \in 1..n \cup {n + 1}} = {t[i] : i \in 1..n} \cup {x}
    BY <1>1
  <2> QED BY <2>1, <2>2, <2>3, <2>4
<1>3. ASSUME Ordered(s), \A y \in Elems(s) : y < x
      PROVE  Ordered(t)
  <2> SUFFICES ASSUME NEW i \in 1..Len(t), NEW j \in 1..Len(t), i < j
               PROVE  t[i] < t[j]
    BY DEF Ordered
  <2>1. i \in 1..n /\ (j \in 1..n \/ j = n + 1)
    BY <1>1
  <2>2. s[i] \in Elems(s)
    BY <2>1 DEF Elems, n
  <2> QED BY <1>1, <1>3, <2>1, <2>2 DEF Ordered, n
<1> QED BY <1>1, <1>2, <1>3 DEF t

LEMMA TakeFirst ==
    ASSUME NEW s \in Seq(Nat), s # <<>>
    PROVE  /\ Head(s) \in Nat /\ Tail(s) \in Seq(Nat)
           /\ Elems(s) = {Head(s)} \cup Elems(Tail(s))
           /\ Ordered(s) =>
                Ordered(Tail(s)) /\ \A y \in Elems(Tail(s)) : Head(s) < y
<1> DEFINE t == Tail(s)
           n == Len(s)
<1>1. /\ n \in Nat \ {0} /\ t \in Seq(Nat) /\ Len(t) = n - 1
      /\ \A i \in 1 .. n - 1 : t[i] = s[i + 1]
      /\ Head(s) = s[1] /\ s[1] \in Nat
  BY HeadTailProperties, LenProperties, EmptySeq
<1> HIDE DEF t, n
<1>2. Elems(s) = {s[1]} \cup Elems(t)
  <2>1. ASSUME NEW i \in 1..n PROVE s[i] \in {s[1]} \cup Elems(t)
    <3>1. CASE i = 1
      BY <3>1
    <3>2. CASE i # 1
      <4>1. i - 1 \in 1..Len(t) /\ t[i - 1] = s[i]
        BY <1>1, <3>2
      <4> QED BY <4>1 DEF Elems
    <3> QED BY <3>1, <3>2
  <2>2. ASSUME NEW i \in 1..Len(t) PROVE \E k \in 1..n : t[i] = s[k]
    <3>1. i + 1 \in 1..n /\ t[i] = s[i + 1]
      BY <1>1
    <3> QED BY <3>1
  <2>3. 1 \in 1..n
    BY <1>1
  <2>4. Elems(s) \subseteq {s[1]} \cup Elems(t)
    BY <2>1 DEF Elems, n
  <2>5. Elems(t) \subseteq Elems(s)
    BY <2>2 DEF Elems, n
  <2>6. s[1] \in Elems(s)
    BY <2>3 DEF Elems, n
  <2> QED BY <2>4, <2>5, <2>6
<1>3. ASSUME Ordered(s) PROVE Ordered(t) /\ \A y \in Elems(t) : s[1] < y
  <2>1. ASSUME NEW i \in 1..Len(t) PROVE i + 1 \in 1..Len(s) /\ t[i] = s[i + 1]
    BY <1>1 DEF n
  <2>2. 1 \in 1..Len(s) /\ Len(t) \in Nat
    BY <1>1 DEF n
  <2>3. \A y \in Elems(t) : s[1] < y
    <3> SUFFICES ASSUME NEW i \in 1..Len(t) PROVE s[1] < t[i]
      BY DEF Elems
    <3> QED BY <1>3, <2>1, <2>2 DEF Ordered
  <2>4. Ordered(t)
    <3> SUFFICES ASSUME NEW i \in 1..Len(t), NEW j \in 1..Len(t), i < j
                 PROVE  t[i] < t[j]
      BY DEF Ordered
    <3> QED BY <1>3, <2>1, <2>2 DEF Ordered
  <2> QED BY <2>3, <2>4
<1> QED BY <1>1, <1>2, <1>3 DEF t

LEMMA TakePrefix ==
    ASSUME NEW s \in Seq(Nat), NEW n \in 0..Len(s)
    PROVE  /\ SubSeq(s, 1, n) \in Seq(Nat)
           /\ Elems(SubSeq(s, 1, n)) \subseteq Elems(s)
           /\ Ordered(s) => Ordered(SubSeq(s, 1, n))
<1> DEFINE t == SubSeq(s, 1, n)
<1>0. Len(s) \in Nat /\ \A i \in 1..Len(s) : s[i] \in Nat
  BY LenProperties, ElementOfSeq
<1>1. \A i \in 1..n : i \in 1..Len(s) /\ s[i] \in Nat
  BY <1>0
<1>2. t \in Seq(Nat) /\ Len(t) = n /\ \A i \in 1..n : t[i] = s[i]
  <2>1. t = [i \in 1..n |-> s[i]]
    BY <1>0
  <2>2. t \in [1..n -> Nat]
    BY <1>1, <2>1
  <2> HIDE DEF t
  <2>3. n \in Nat
    BY <1>0
  <2> QED BY <2>1, <2>2, <2>3
<1> HIDE DEF t
<1>3. Elems(t) \subseteq Elems(s)
  BY <1>1, <1>2 DEF Elems
<1>4. Ordered(s) => Ordered(t)
  BY <1>1, <1>2 DEF Ordered
<1> QED BY <1>2, <1>3, <1>4 DEF t

LEMMA JoinInOrder ==
    ASSUME NEW s \in Seq(Nat), NEW t \in Seq(Nat)
    PROVE  /\ s \o t \in Seq(Nat)
           /\ Elems(s \o t) = Elems(s) \cup Elems(t)
           /\ Ordered(s) /\ Ordered(t) /\ Before(s, t) => Ordered(s \o t)
<1> DEFINE u == s \o t
           m == Len(s)
           n == Len(t)
<1>1. /\ m \in Nat /\ n \in Nat /\ u \in Seq(Nat) /\ Len(u) = m + n
      /\ \A i \in 1 .. m + n : u[i] = IF i <= m THEN s[i] ELSE t[i - m]
  BY ConcatProperties, LenProperties
<1> HIDE DEF u, m, n
<1>2. \A i \in 1..m : i \in 1..Len(u) /\ u[i] = s[i]
  BY <1>1
<1>3. \A i \in 1..n : m + i \in 1..Len(u) /\ u[m + i] = t[i]
  BY <1>1
<1>4. \A i \in 1..Len(u) : \/ i \in 1..m /\ u[i] = s[i]
                           \/ i - m \in 1..n /\ u[i] = t[i - m]
  BY <1>1
<1>5. Elems(u) = Elems(s) \cup Elems(t)
  <2>1. Elems(u) \subseteq Elems(s) \cup Elems(t)
    BY <1>4 DEF Elems, m, n
  <2>2. Elems(s) \subseteq Elems(u)
    BY <1>2 DEF Elems, m
  <2>3. Elems(t) \subseteq Elems(u)
    BY <1>3 DEF Elems, n
  <2> QED BY <2>1, <2>2, <2>3
<1>6. ASSUME Ordered(s), Ordered(t), Before(s, t)
      PROVE  Ordered(u)
  <2> SUFFICES ASSUME NEW i \in 1..Len(u), NEW j \in 1..Len(u), i < j
               PROVE  u[i] < u[j]
    BY DEF Ordered
  <2>1. CASE i \in 1..m /\ j \in 1..m
    BY <1>2, <1>6, <2>1 DEF Ordered, m
  <2>2. CASE i \in 1..m /\ j - m \in 1..n
    <3>1. u[i] = s[i] /\ u[j] = t[j - m]
      BY <1>1, <2>2
    <3>2. s[i] \in Elems(s) /\ t[j - m] \in Elems(t)
      BY <2>2 DEF Elems, m, n
    <3> QED BY <1>6, <3>1, <3>2 DEF Before
  <2>3. CASE i - m \in 1..n /\ j - m \in 1..n
    <3>1. u[i] = t[i - m] /\ u[j] = t[j - m] /\ i - m < j - m
      BY <1>1, <2>3
    <3> QED BY <1>6, <2>3, <3>1 DEF Ordered, n
  <2> QED BY <1>1, <2>1, <2>2, <2>3
<1> QED BY <1>1, <1>5, <1>6 DEF u

LEMMA StreamInit == Init => StreamInv
<1> SUFFICES ASSUME Init PROVE StreamInv
  OBVIOUS
<1>1. /\ streams = [c \in Connections |-> Unused]
      /\ sidecar.connection = None /\ sidecar.stored = <<>> /\ accepted = <<>>
  BY DEF Init, NewSidecar
<1>2. Unused \in Stream
  BY EmptyIsOrdered DEF Unused, Stream
<1>3. Len(accepted) = 0
  BY <1>1
<1>4. StreamsType
  <2>1. sidecar = [connection |-> sidecar.connection, asleep |-> sidecar.asleep,
                   cache |-> sidecar.cache, stored |-> sidecar.stored]
    BY DEF Init, NewSidecar
  <2> QED BY <1>1, <1>2, <1>3, <2>1, EmptyIsOrdered DEF StreamsType
<1>5. ASSUME NEW c \in Connections PROVE StreamOK(c)
  BY <1>1, <1>3, EmptyIsOrdered DEF StreamOK, Unused, Before
<1>6. SidecarOK /\ NothingElseIsLost
  BY <1>1, EmptyIsOrdered DEF SidecarOK, NothingElseIsLost
<1> QED BY <1>4, <1>5, <1>6 DEF StreamInv

\* A step that changes one websocket, and no snapshot is accepted.
LEMMA OneStream ==
    ASSUME StreamInv, NEW c \in Connections, NEW s \in Stream,
           streams' = [streams EXCEPT ![c] = s], UNCHANGED accepted,
           StreamOK(c)'
    PROVE  /\ streams' \in [Connections -> Stream]
           /\ streams'[c] = s
           /\ \A d \in Connections \ {c} : streams'[d] = streams[d]
           /\ \A d \in Connections : StreamOK(d)'
<1>1. streams \in [Connections -> Stream] /\ \A d \in Connections : StreamOK(d)
  BY DEF StreamInv, StreamsType
<1>2. \A d \in Connections \ {c} : streams'[d] = streams[d]
  BY <1>1
<1>3. ASSUME NEW d \in Connections \ {c} PROVE StreamOK(d)'
  BY <1>1, <1>2, <1>3 DEF StreamOK
<1> QED BY <1>1, <1>2, <1>3

\* What is published is the newest of all: it is queued after the others, or
\* counted as dropped.
LEMMA AcceptInOrder ==
    ASSUME StreamInv, NEW s, Accept(s), Len(accepted') = Len(accepted) + 1
    PROVE  StreamInv'
<1> DEFINE id == Len(accepted) + 1
<1>0. Len(accepted) \in Nat /\ id \in Nat /\ Len(accepted') = id
  BY DEF StreamInv, StreamsType
<1>1. UNCHANGED sidecar /\ PublishSnapshot(id)
  BY DEF Accept
<1>2. streams \in [Connections -> Stream]
  BY DEF StreamInv, StreamsType
<1> DEFINE Queued(c) == streams'[c] = [streams[c] EXCEPT !.queue = Append(streams[c].queue, id)]
           Lost(c) == streams'[c] = [streams[c] EXCEPT !.dropped = streams[c].dropped \cup {id}]
<1>3. \A c \in Connections :
         \/ streams[c].phase # "open" /\ streams'[c] = streams[c]
         \/ streams[c].phase = "open" /\ Queued(c)
         \/ streams[c].phase = "open" /\ Lost(c)
  BY <1>1 DEF PublishSnapshot
<1>4. DOMAIN streams' = Connections /\ streams' = [c \in Connections |-> streams'[c]]
  BY <1>1 DEF PublishSnapshot
<1> HIDE DEF id
<1>5. ASSUME NEW c \in Connections
      PROVE  /\ streams[c] \in Stream /\ streams'[c] \in Stream
             /\ streams'[c].phase = streams[c].phase
             /\ streams'[c].link = streams[c].link
             /\ streams'[c].wire = streams[c].wire
             /\ streams'[c].first = streams[c].first
             /\ \/ /\ streams[c].phase # "open"
                   /\ streams'[c] = streams[c]
                \/ /\ streams[c].phase = "open"
                   /\ streams'[c].queue = Append(streams[c].queue, id)
                   /\ streams'[c].dropped = streams[c].dropped
                \/ /\ streams[c].phase = "open"
                   /\ streams'[c].queue = streams[c].queue
                   /\ streams'[c].dropped = streams[c].dropped \cup {id}
  <2>1. streams[c] \in Stream
    BY <1>2
  <2>2. streams[c].queue \in Seq(Nat)
    BY <2>1 DEF Stream
  <2>3. Append(streams[c].queue, id) \in Seq(Nat)
    BY <1>0, <2>2, AppendInOrder
  <2> DEFINE q == Append(streams[c].queue, id)
  <2> HIDE DEF q
  <2>4. CASE streams[c].phase = "open" /\ Queued(c)
    <3>1. streams'[c] = [streams[c] EXCEPT !.queue = q] /\ q \in Seq(Nat)
      BY <2>3, <2>4 DEF q
    <3> QED BY <1>3, <2>1, <3>1 DEF Stream, q
  <2>5. CASE streams[c].phase = "open" /\ Lost(c)
    <3> DEFINE d == streams[c].dropped \cup {id}
    <3>1. d \in SUBSET Nat
      BY <1>0, <2>1 DEF Stream
    <3> HIDE DEF d
    <3>2. streams'[c] = [streams[c] EXCEPT !.dropped = d]
      BY <2>5 DEF d
    <3>3. /\ streams'[c] \in Stream
          /\ streams'[c].dropped = d
          /\ streams'[c].phase = streams[c].phase
          /\ streams'[c].link = streams[c].link
          /\ streams'[c].wire = streams[c].wire
          /\ streams'[c].first = streams[c].first
          /\ streams'[c].queue = streams[c].queue
      BY <2>1, <3>1, <3>2 DEF Stream
    <3> QED BY <2>1, <2>5, <3>3 DEF d
  <2>6. CASE streams[c].phase # "open" /\ streams'[c] = streams[c]
    BY <2>1, <2>6
  <2> QED BY <1>3, <2>4, <2>5, <2>6
<1> HIDE DEF Queued, Lost
<1>6. streams' \in [Connections -> Stream]
  BY <1>4, <1>5
<1>7. StreamsType'
  BY <1>0, <1>1, <1>6 DEF StreamsType, StreamInv
<1>8. ASSUME NEW c \in Connections
      PROVE  /\ StreamOK(c)'
             /\ Elems(streams'[c].queue) \subseteq Elems(streams[c].queue) \cup {id}
  <2>0. StreamOK(c) /\ streams[c].queue \in Seq(Nat)
    BY <1>5 DEF StreamInv, Stream
  <2>1. CASE /\ streams[c].phase # "open"
             /\ streams'[c] = streams[c]
    <3>1. streams[c].first \in Nat
      BY <1>5 DEF Stream
    <3> QED BY <1>0, <2>0, <2>1, <3>1 DEF StreamOK, id
  <2>2. CASE /\ streams[c].phase = "open"
             /\ streams'[c].queue = Append(streams[c].queue, id)
             /\ streams'[c].dropped = streams[c].dropped
    <3>1. Elems(streams'[c].queue) = Elems(streams[c].queue) \cup {id}
      BY <1>0, <2>0, <2>2, AppendInOrder
    <3>2. \A y \in Elems(streams[c].queue) \cup Elems(streams[c].wire) : y < id
      BY <1>0, <2>0 DEF StreamOK, id
    <3>3. Ordered(streams'[c].queue)
      BY <1>0, <2>0, <2>2, <3>2, AppendInOrder DEF StreamOK
    <3>4. Before(streams'[c].wire, streams'[c].queue)
      BY <1>5, <2>0, <3>1, <3>2 DEF Before, StreamOK
    <3>5. /\ Elems(streams'[c].wire) \cup Elems(streams'[c].queue) \subseteq 1..id
          /\ streams'[c].dropped \subseteq 1..id
          /\ streams'[c].first <= id + 1
      <4>1. streams[c].first \in Nat
        BY <1>5 DEF Stream
      <4> QED BY <1>0, <1>5, <2>0, <2>2, <3>1, <4>1 DEF StreamOK, id
    <3> QED BY <1>0, <1>5, <2>0, <2>2, <3>1, <3>3, <3>4, <3>5 DEF StreamOK
  <2>3. CASE /\ streams[c].phase = "open"
             /\ streams'[c].queue = streams[c].queue
             /\ streams'[c].dropped = streams[c].dropped \cup {id}
    <3>1. streams[c].first \in Nat
      BY <1>5 DEF Stream
    <3>2. /\ Elems(streams'[c].wire) \cup Elems(streams'[c].queue) \subseteq 1..id
          /\ streams'[c].dropped \subseteq 1..id
          /\ streams'[c].first <= id + 1
      BY <1>0, <1>5, <2>0, <2>3, <3>1 DEF StreamOK, id
    <3> QED BY <1>0, <1>5, <2>0, <2>3, <3>2 DEF StreamOK
  <2> QED BY <1>5, <2>1, <2>2, <2>3
<1>9. SidecarOK'
  <2>1. SidecarOK /\ UNCHANGED sidecar
    BY <1>1 DEF StreamInv
  <2>2. \A x \in Elems(sidecar.stored) : x < id
    BY <1>0, <2>1 DEF SidecarOK, id
  <2>3. Elems(sidecar.stored) \subseteq 1..id
    BY <1>0, <2>1 DEF SidecarOK, id
  <2>4. ASSUME NEW c \in Connections, c = sidecar.connection, c # None
        PROVE  /\ streams'[c].phase # "unused"
               /\ Before(sidecar.stored, streams'[c].wire)
               /\ Before(sidecar.stored, streams'[c].queue)
    BY <1>5, <1>8, <2>1, <2>2, <2>4 DEF SidecarOK, Before
  <2>5. sidecar.connection \in Connections \cup {None}
    BY DEF StreamInv, StreamsType
  <2> QED BY <1>0, <2>1, <2>3, <2>4, <2>5 DEF SidecarOK
<1>10. NothingElseIsLost'
  <2>1. PICK c \in Connections \cup {None} : c = sidecar.connection
    BY DEF StreamInv, StreamsType
  <2>2. SUFFICES ASSUME c # None, streams'[c].phase = "open", streams'[c].link = "up"
                 PROVE  Accounted(c)'
    BY <1>1, <2>1 DEF NothingElseIsLost
  <2>3. c \in Connections /\ streams[c].phase = "open" /\ streams[c].link = "up"
    BY <1>5, <2>2
  <2>4. Accounted(c) /\ StreamOK(c)
    BY <2>1, <2>2, <2>3 DEF StreamInv, NothingElseIsLost
  <2>5. streams[c].queue \in Seq(Nat) /\ streams[c].first \in Nat
    BY <1>5, <2>3 DEF Stream
  <2>6. streams[c].first <= id /\ id \notin streams[c].dropped
    BY <1>0, <2>4, <2>5 DEF StreamOK, id
  <2>7. (streams[c].first .. Len(accepted')) = (streams[c].first .. Len(accepted)) \cup {id}
    BY <1>0, <2>5, <2>6 DEF id
  <2>8. CASE /\ streams'[c].queue = Append(streams[c].queue, id)
             /\ streams'[c].dropped = streams[c].dropped
    <3>1. Elems(streams'[c].queue) = Elems(streams[c].queue) \cup {id}
      BY <1>0, <2>5, <2>8, AppendInOrder
    <3> QED BY <1>1, <1>5, <2>3, <2>4, <2>6, <2>7, <2>8, <3>1 DEF Accounted
  <2>9. CASE /\ streams'[c].queue = streams[c].queue
             /\ streams'[c].dropped = streams[c].dropped \cup {id}
    <3>1. id \notin streams[c].first .. Len(accepted)
      BY <1>0 DEF id
    <3> QED BY <1>1, <1>5, <2>3, <2>4, <2>6, <2>7, <2>9, <3>1 DEF Accounted
  <2> QED BY <1>5, <2>3, <2>8, <2>9
<1> QED BY <1>7, <1>8, <1>9, <1>10 DEF StreamInv

LEMMA SubscribeInOrder ==
    ASSUME StreamInv, NEW c \in Connections, Subscribe(c)
    PROVE  StreamInv'
<1> DEFINE s == [streams[c] EXCEPT !.phase = "open", !.first = Len(accepted) + 1]
<1>1. /\ streams[c] \in Stream /\ streams[c].phase = "accepted"
      /\ UNCHANGED <<accepted, sidecar>> /\ streams' = [streams EXCEPT ![c] = s]
      /\ Len(accepted) \in Nat /\ StreamOK(c)
  BY DEF Subscribe, StreamInv, StreamsType, cacheVars
<1>2. /\ s \in Stream /\ s.phase = "open" /\ s.first = Len(accepted) + 1
      /\ s.queue = <<>> /\ s.wire = <<>> /\ s.dropped = {}
  <2>1. /\ streams[c].queue = <<>> /\ streams[c].wire = <<>>
        /\ streams[c].dropped = {}
    BY <1>1 DEF StreamOK
  <2> DEFINE n == Len(accepted) + 1
  <2>2. n \in Nat
    BY <1>1
  <2> HIDE DEF n
  <2>3. s = [streams[c] EXCEPT !.phase = "open", !.first = n]
    BY DEF n
  <2> HIDE DEF s
  <2>4. /\ s \in Stream /\ s.phase = "open" /\ s.first = n
        /\ s.queue = streams[c].queue /\ s.wire = streams[c].wire
        /\ s.dropped = streams[c].dropped
    BY <1>1, <2>2, <2>3 DEF Stream
  <2> QED BY <2>1, <2>4 DEF n
<1> HIDE DEF s
<1>3. streams'[c] = s
  BY <1>1 DEF StreamInv, StreamsType
<1>4. StreamOK(c)'
  BY <1>1, <1>2, <1>3, EmptyIsOrdered DEF StreamOK, Before
<1>5. /\ streams' \in [Connections -> Stream]
      /\ \A d \in Connections \ {c} : streams'[d] = streams[d]
      /\ \A d \in Connections : StreamOK(d)'
  BY <1>1, <1>2, <1>4, OneStream
<1>6. PICK d \in Connections \cup {None} : d = sidecar.connection
  BY DEF StreamInv, StreamsType
<1>7. CASE d = c /\ d # None
  <2>1. SidecarOK'
    BY <1>1, <1>2, <1>3, <1>6, <1>7, EmptyIsOrdered DEF StreamInv, SidecarOK, Before
  <2>2. \A x \in Elems(sidecar.stored) : x < Len(accepted) + 1
    BY <1>1 DEF StreamInv, SidecarOK
  <2>3. (Len(accepted) + 1 .. Len(accepted)) = {}
    BY <1>1
  <2>4. Accounted(c)'
    <3>1. \A x \in Elems(sidecar.stored) : ~(x >= Len(accepted) + 1)
      <4>1. Elems(sidecar.stored) \subseteq 1..Len(accepted)
        BY DEF StreamInv, SidecarOK
      <4> QED BY <1>1, <4>1
    <3> QED BY <1>1, <1>2, <1>3, <2>3, <3>1, EmptyIsOrdered DEF Accounted
  <2> QED BY <1>1, <1>5, <1>6, <1>7, <2>1, <2>4
      DEF StreamInv, StreamsType, NothingElseIsLost
<1>8. CASE d # c \/ d = None
  BY <1>1, <1>5, <1>6, <1>8
     DEF StreamInv, StreamsType, SidecarOK, NothingElseIsLost, Accounted
<1> QED BY <1>7, <1>8

LEMMA SendInOrder ==
    ASSUME StreamInv, NEW c \in Connections, Send(c)
    PROVE  StreamInv'
<1> DEFINE q == streams[c].queue
           w == streams[c].wire
           t == Tail(q)
           v == IF streams[c].link = "up" THEN Append(w, Head(q)) ELSE w
           s == [streams[c] EXCEPT !.queue = t, !.wire = v]
<1>1. /\ streams[c] \in Stream /\ streams[c].phase = "open" /\ q # <<>>
      /\ UNCHANGED <<accepted, sidecar>> /\ streams' = [streams EXCEPT ![c] = s]
      /\ Len(accepted) \in Nat /\ StreamOK(c)
  BY DEF Send, StreamInv, StreamsType, cacheVars
<1>2. q \in Seq(Nat) /\ w \in Seq(Nat)
  BY <1>1 DEF Stream
<1>3. /\ t \in Seq(Nat) /\ Head(q) \in Nat
      /\ Elems(q) = {Head(q)} \cup Elems(t)
      /\ Ordered(t) /\ \A y \in Elems(t) : Head(q) < y
  BY <1>1, <1>2, TakeFirst DEF StreamOK
<1>4. /\ v \in Seq(Nat) /\ Ordered(v) /\ Before(v, t)
      /\ Elems(v) = Elems(w) \cup (IF streams[c].link = "up" THEN {Head(q)} ELSE {})
  <2>1. \A y \in Elems(w) : y < Head(q)
    BY <1>1, <1>3 DEF StreamOK, Before
  <2>2. Ordered(w) /\ Before(w, t)
    BY <1>1, <1>3 DEF StreamOK, Before
  <2>3. CASE streams[c].link = "up"
    <3>1. /\ v \in Seq(Nat) /\ Ordered(v)
          /\ Elems(v) = Elems(w) \cup {Head(q)}
      BY <1>2, <1>3, <2>1, <2>2, <2>3, AppendInOrder
    <3> QED BY <1>3, <2>2, <2>3, <3>1 DEF Before
  <2>4. CASE streams[c].link # "up"
    BY <1>2, <2>2, <2>4
  <2> QED BY <2>3, <2>4
<1>5. /\ s \in Stream /\ s.phase = "open" /\ s.link = streams[c].link
      /\ s.queue = t /\ s.wire = v /\ s.first = streams[c].first
      /\ s.dropped = streams[c].dropped
  <2> HIDE DEF t, v
  <2> QED BY <1>1, <1>3, <1>4 DEF Stream
<1> HIDE DEF s, t, v
<1>6. streams'[c] = s
  BY <1>1 DEF StreamInv, StreamsType
<1>7. StreamOK(c)'
  BY <1>1, <1>3, <1>4, <1>5, <1>6 DEF StreamOK
<1>8. /\ streams' \in [Connections -> Stream]
      /\ \A d \in Connections \ {c} : streams'[d] = streams[d]
      /\ \A d \in Connections : StreamOK(d)'
  BY <1>1, <1>5, <1>7, OneStream
<1>9. PICK d \in Connections \cup {None} : d = sidecar.connection
  BY DEF StreamInv, StreamsType
<1>10. CASE d = c /\ d # None
  <2>1. SidecarOK'
    BY <1>1, <1>3, <1>4, <1>5, <1>6, <1>9, <1>10 DEF StreamInv, SidecarOK, Before
  <2>2. NothingElseIsLost'
    <3>1. SUFFICES ASSUME streams[c].link = "up" PROVE Accounted(c)'
      BY <1>1, <1>5, <1>6, <1>9, <1>10 DEF NothingElseIsLost
    <3>2. Accounted(c)
      BY <1>1, <1>9, <1>10, <3>1 DEF StreamInv, NothingElseIsLost
    <3>3. Elems(v) \cup Elems(t) = Elems(w) \cup Elems(q)
      BY <1>3, <1>4, <3>1
    <3> QED BY <1>1, <1>5, <1>6, <3>2, <3>3 DEF Accounted
  <2> QED BY <1>1, <1>8, <2>1, <2>2 DEF StreamInv, StreamsType
<1>11. CASE d # c \/ d = None
  BY <1>1, <1>8, <1>9, <1>11
     DEF StreamInv, StreamsType, SidecarOK, NothingElseIsLost, Accounted
<1> QED BY <1>10, <1>11

\* A websocket whose link is not, or no more, up, and which carries no more
\* than before.
LEMMA LessIsInOrder ==
    ASSUME StreamInv, NEW c \in Connections, NEW s \in Stream,
           streams' = [streams EXCEPT ![c] = s],
           UNCHANGED accepted,
           s.phase = streams[c].phase \/ s.phase = "ended",
           s.first = streams[c].first, s.dropped = streams[c].dropped,
           s.phase \in {"unused", "accepted"} => s.queue = <<>> /\ s.wire = <<>>,
           s.link # "up", Ordered(s.queue), Ordered(s.wire),
           Elems(s.queue) \subseteq Elems(streams[c].queue),
           Elems(s.wire) \subseteq Elems(streams[c].wire)
    PROVE  /\ streams' \in [Connections -> Stream]
           /\ \A d \in Connections : StreamOK(d)'
           /\ UNCHANGED sidecar => StreamInv'
<1>1. streams[c] \in Stream /\ Len(accepted) \in Nat /\ StreamOK(c)
  BY DEF StreamInv, StreamsType
<1>2. streams'[c] = s
  BY DEF StreamInv, StreamsType
<1>3. StreamOK(c)'
  BY <1>1, <1>2 DEF StreamOK, Before
<1>4. /\ streams' \in [Connections -> Stream]
      /\ \A d \in Connections \ {c} : streams'[d] = streams[d]
      /\ \A d \in Connections : StreamOK(d)'
  BY <1>3, OneStream
<1>5. ASSUME UNCHANGED sidecar PROVE StreamInv'
  <2>1. PICK d \in Connections \cup {None} : d = sidecar.connection
    BY DEF StreamInv, StreamsType
  <2>2. CASE d = c /\ d # None
    <3>1. SidecarOK'
      BY <1>1, <1>2, <1>5, <2>1, <2>2 DEF StreamInv, SidecarOK, Before
    <3>2. NothingElseIsLost'
      BY <1>2, <1>5, <2>1, <2>2 DEF NothingElseIsLost
    <3> QED BY <1>1, <1>4, <1>5, <3>1, <3>2 DEF StreamInv, StreamsType
  <2>3. CASE d # c \/ d = None
    BY <1>1, <1>4, <1>5, <2>1, <2>3
       DEF StreamInv, StreamsType, SidecarOK, NothingElseIsLost, Accounted
  <2> QED BY <2>2, <2>3
<1> QED BY <1>4, <1>5

LEMMA HandlerEndsInOrder ==
    ASSUME StreamInv, NEW c \in Connections, HandlerEnds(c)
    PROVE  StreamInv'
<1> DEFINE s == [streams[c] EXCEPT !.phase = "ended", !.queue = <<>>]
<1>1. /\ streams[c] \in Stream /\ streams[c].link # "up" /\ StreamOK(c)
      /\ UNCHANGED <<accepted, sidecar>> /\ streams' = [streams EXCEPT ![c] = s]
  BY DEF HandlerEnds, StreamInv, StreamsType, cacheVars
<1>2. /\ s \in Stream /\ s.phase = "ended" /\ s.link = streams[c].link
      /\ s.queue = <<>> /\ s.wire = streams[c].wire
      /\ s.first = streams[c].first /\ s.dropped = streams[c].dropped
  BY <1>1, EmptyIsOrdered DEF Stream
<1> HIDE DEF s
<1>3. Ordered(s.wire) /\ Ordered(s.queue) /\ Elems(s.queue) = {}
  BY <1>1, <1>2, EmptyIsOrdered DEF StreamOK
<1> QED BY <1>1, <1>2, <1>3, LessIsInOrder

LEMMA BreakInOrder ==
    ASSUME StreamInv, NEW c \in Connections, Break(c)
    PROVE  StreamInv'
<1>1. PICK how \in {"broken", "closed"}, n \in 0..Len(streams[c].wire) :
         streams' = [streams EXCEPT ![c].link = how, ![c].wire = SubSeq(@, 1, n)]
  <2>1. \E how \in {"broken", "closed"} : \E n \in 0..Len(streams[c].wire) :
           streams' = [streams EXCEPT ![c].link = how, ![c].wire = SubSeq(@, 1, n)]
    BY DEF Break
  <2> QED BY <2>1
<1> DEFINE w == SubSeq(streams[c].wire, 1, n)
           s == [streams[c] EXCEPT !.link = how, !.wire = w]
<1>2. /\ streams[c] \in Stream /\ StreamOK(c)
      /\ UNCHANGED <<accepted, sidecar>> /\ streams' = [streams EXCEPT ![c] = s]
  BY <1>1 DEF Break, StreamInv, StreamsType, cacheVars
<1>3. streams[c].wire \in Seq(Nat)
  BY <1>2 DEF Stream
<1>4. /\ w \in Seq(Nat) /\ Elems(w) \subseteq Elems(streams[c].wire)
      /\ Ordered(streams[c].wire) => Ordered(w)
  BY <1>3, TakePrefix
<1>5. streams[c].wire = <<>> => w = <<>>
  BY <1>4
<1> HIDE DEF w
<1>6. /\ s \in Stream /\ s.phase = streams[c].phase /\ s.link = how
      /\ s.queue = streams[c].queue /\ s.wire = w
      /\ s.first = streams[c].first /\ s.dropped = streams[c].dropped
  BY <1>2, <1>4 DEF Stream
<1> HIDE DEF s
<1>7. /\ s.phase \in {"unused", "accepted"} => s.queue = <<>> /\ s.wire = <<>>
      /\ Ordered(s.queue) /\ Ordered(s.wire)
  BY <1>2, <1>4, <1>5, <1>6 DEF StreamOK
<1> QED BY <1>2, <1>4, <1>6, <1>7, LessIsInOrder

\* A restarted sidecar has stored nothing, and its websocket is lost.
LEMMA RestartInOrder ==
    ASSUME StreamInv, RestartSidecar
    PROVE  StreamInv'
<1>1. PICK c \in Connections : c = sidecar.connection
  BY DEF RestartSidecar, StreamInv, StreamsType
<1> DEFINE s == [streams[c] EXCEPT !.link = "broken", !.wire = <<>>]
<1>2. /\ streams[c] \in Stream /\ StreamOK(c)
      /\ UNCHANGED accepted /\ streams' = [streams EXCEPT ![c] = s]
      /\ sidecar'.connection = None /\ sidecar'.stored = <<>>
  BY <1>1 DEF RestartSidecar, StreamInv, StreamsType, cacheVars, NewSidecar
<1>3. /\ s \in Stream /\ s.phase = streams[c].phase /\ s.link = "broken"
      /\ s.queue = streams[c].queue /\ s.wire = <<>>
      /\ s.first = streams[c].first /\ s.dropped = streams[c].dropped
  BY <1>2, EmptyIsOrdered DEF Stream
<1> HIDE DEF s
<1>4. /\ s.phase \in {"unused", "accepted"} => s.queue = <<>> /\ s.wire = <<>>
      /\ Ordered(s.queue) /\ Ordered(s.wire) /\ Elems(s.wire) = {}
  BY <1>2, <1>3, EmptyIsOrdered DEF StreamOK
<1>5. /\ streams' \in [Connections -> Stream]
      /\ \A d \in Connections : StreamOK(d)'
  BY <1>2, <1>3, <1>4, LessIsInOrder
<1>6. SidecarOK' /\ NothingElseIsLost'
  BY <1>2, EmptyIsOrdered DEF SidecarOK, NothingElseIsLost
<1>7. StreamsType'
  <2>1. sidecar' = [connection |-> sidecar'.connection, asleep |-> sidecar'.asleep,
                    cache |-> sidecar'.cache, stored |-> sidecar'.stored]
    BY DEF RestartSidecar, NewSidecar
  <2> QED BY <1>2, <1>5, <2>1, EmptyIsOrdered DEF StreamInv, StreamsType
<1> QED BY <1>5, <1>6, <1>7 DEF StreamInv

LEMMA ConnectInOrder ==
    ASSUME StreamInv, NEW c \in Connections, Connect(c)
    PROVE  StreamInv'
<1> DEFINE s == [streams[c] EXCEPT !.phase = "accepted", !.link = "up"]
<1>1. /\ streams[c] \in Stream /\ StreamOK(c)
      /\ UNCHANGED accepted /\ streams' = [streams EXCEPT ![c] = s]
      /\ sidecar' = [sidecar EXCEPT !.connection = c]
      /\ streams[c].phase = "unused"
  <2>1. ~(c < c)
    BY DEF Connections
  <2> QED BY <2>1 DEF Connect, StreamInv, StreamsType, cacheVars
<1>2. /\ s \in Stream /\ s.phase = "accepted" /\ s.link = "up"
      /\ s.queue = <<>> /\ s.wire = <<>> /\ s.dropped = {}
      /\ s.first = streams[c].first
  BY <1>1 DEF Stream, StreamOK
<1> HIDE DEF s
<1>3. streams'[c] = s
  BY <1>1 DEF StreamInv, StreamsType
<1>4. StreamOK(c)'
  BY <1>1, <1>2, <1>3, EmptyIsOrdered DEF StreamOK, Before
<1>5. /\ streams' \in [Connections -> Stream]
      /\ \A d \in Connections : StreamOK(d)'
  BY <1>1, <1>2, <1>4, OneStream
<1>6. /\ sidecar'.stored = sidecar.stored /\ sidecar'.connection = c
      /\ sidecar' = [connection |-> c, asleep |-> sidecar.asleep,
                     cache |-> sidecar.cache, stored |-> sidecar.stored]
  BY <1>1 DEF StreamInv, StreamsType
<1>7. StreamsType'
  BY <1>1, <1>5, <1>6 DEF StreamInv, StreamsType
<1>8. SidecarOK'
  BY <1>1, <1>2, <1>3, <1>6, EmptyIsOrdered DEF StreamInv, SidecarOK, Before
<1>9. NothingElseIsLost'
  BY <1>2, <1>3, <1>6 DEF NothingElseIsLost
<1> QED BY <1>5, <1>7, <1>8, <1>9 DEF StreamInv

\* What is received comes after all that is stored and before the rest.
LEMMA ReceiveInOrder ==
    ASSUME StreamInv, Receive
    PROVE  StreamInv'
<1>1. PICK c \in Connections : c = sidecar.connection
  BY DEF Receive, StreamInv, StreamsType
<1> DEFINE w == streams[c].wire
           t == Tail(w)
           id == Head(w)
           s == [streams[c] EXCEPT !.wire = t]
           stored == Append(sidecar.stored, id)
<1>2. /\ streams[c] \in Stream /\ StreamOK(c) /\ w # <<>> /\ c # None
      /\ UNCHANGED accepted /\ streams' = [streams EXCEPT ![c] = s]
      /\ sidecar' = [sidecar EXCEPT
                       !.cache = AddSampleMessage(@, id, accepted[id]),
                       !.stored = stored]
  BY <1>1 DEF Receive, StreamInv, StreamsType, cacheVars
<1>3. w \in Seq(Nat) /\ sidecar.stored \in Seq(Nat)
  BY <1>2 DEF Stream, StreamInv, StreamsType
<1>4. /\ t \in Seq(Nat) /\ id \in Nat
      /\ Elems(w) = {id} \cup Elems(t)
      /\ Ordered(t) /\ \A y \in Elems(t) : id < y
  BY <1>2, <1>3, TakeFirst DEF StreamOK
<1>5. SidecarOK /\ \A y \in Elems(sidecar.stored) : y < id
  <2>1. SidecarOK /\ Before(sidecar.stored, w)
    BY <1>1, <1>2 DEF StreamInv, SidecarOK
  <2> QED BY <1>4, <2>1 DEF Before
<1>6. /\ stored \in Seq(Nat) /\ Ordered(stored)
      /\ Elems(stored) = Elems(sidecar.stored) \cup {id}
  BY <1>3, <1>4, <1>5, AppendInOrder DEF SidecarOK
<1> HIDE DEF stored, t, id
<1>7. /\ s \in Stream /\ s.phase = streams[c].phase /\ s.link = streams[c].link
      /\ s.queue = streams[c].queue /\ s.wire = t
      /\ s.first = streams[c].first /\ s.dropped = streams[c].dropped
  BY <1>2, <1>4 DEF Stream
<1> HIDE DEF s
<1>8. streams'[c] = s
  BY <1>2 DEF StreamInv, StreamsType
<1>9. /\ StreamOK(c)' 
      /\ \A x \in Elems(streams[c].queue) : id < x
  <2>1. /\ streams[c].phase \notin {"unused", "accepted"}
        /\ \A x \in Elems(w), y \in Elems(streams[c].queue) : x < y
    BY <1>2 DEF StreamOK, Before
  <2> QED BY <1>2, <1>4, <1>7, <1>8, <2>1 DEF StreamOK, Before
<1>10. /\ streams' \in [Connections -> Stream]
       /\ \A d \in Connections : StreamOK(d)'
  BY <1>2, <1>7, <1>9, OneStream
<1>11. /\ sidecar'.stored = stored /\ sidecar'.connection = c
       /\ sidecar' = [connection |-> c, asleep |-> sidecar.asleep,
                      cache |-> sidecar'.cache, stored |-> stored]
  BY <1>1, <1>2 DEF StreamInv, StreamsType
<1>12. StreamsType'
  BY <1>2, <1>6, <1>10, <1>11 DEF StreamInv, StreamsType
<1>13. SidecarOK'
  <2>1. Elems(stored) \subseteq 1..Len(accepted)
    BY <1>2, <1>4, <1>5, <1>6 DEF StreamOK, SidecarOK
  <2>2. streams'[c].phase # "unused"
    BY <1>1, <1>2, <1>5, <1>7, <1>8 DEF SidecarOK
  <2>3. Before(stored, t) /\ Before(stored, streams[c].queue)
    BY <1>1, <1>2, <1>4, <1>5, <1>6, <1>9 DEF SidecarOK, Before
  <2> QED BY <1>2, <1>6, <1>7, <1>8, <1>11, <2>1, <2>2, <2>3 DEF SidecarOK
<1>14. NothingElseIsLost'
  <2>1. SUFFICES ASSUME s.phase = "open", s.link = "up" PROVE Accounted(c)'
    BY <1>8, <1>11 DEF NothingElseIsLost
  <2>2. Accounted(c)
    BY <1>1, <1>2, <1>7, <2>1 DEF StreamInv, NothingElseIsLost
  <2>3. Elems(stored) \cup Elems(t) = Elems(sidecar.stored) \cup Elems(w)
    BY <1>4, <1>6
  <2> QED BY <1>2, <1>7, <1>8, <1>11, <2>2, <2>3 DEF Accounted
<1> QED BY <1>10, <1>12, <1>13, <1>14 DEF StreamInv

LEMMA IdleInOrder ==
    ASSUME StreamInv, Disconnected \/ Wake
    PROVE  StreamInv'
<1>1. /\ UNCHANGED <<accepted, streams>>
      /\ sidecar'.stored = sidecar.stored
      /\ sidecar'.connection \in {sidecar.connection, None}
      /\ sidecar' = [connection |-> sidecar'.connection, asleep |-> sidecar'.asleep,
                     cache |-> sidecar'.cache, stored |-> sidecar'.stored]
  BY DEF Disconnected, Wake, cacheVars, StreamInv, StreamsType
<1>2. StreamsType'
  BY <1>1 DEF StreamInv, StreamsType
<1>3. \A c \in Connections : StreamOK(c)'
  BY <1>1 DEF StreamInv, StreamOK
<1>4. SidecarOK' /\ NothingElseIsLost'
  BY <1>1 DEF StreamInv, SidecarOK, NothingElseIsLost, Accounted
<1> QED BY <1>2, <1>3, <1>4 DEF StreamInv

LEMMA StreamStep == ManagerInv /\ StreamInv /\ [Next]_vars => StreamInv'
<1> SUFFICES ASSUME ManagerInv, StreamInv, [Next]_vars PROVE StreamInv'
  OBVIOUS
<1>1. CASE AcceptRegular \/ AcceptOdd
  <2>1. PICK s \in Snapshot : Accept(s)
    BY <1>1, AcceptedSnapshot DEF ManagerInv
  <2>2. Len(accepted') = Len(accepted) + 1
    BY <2>1, AppendProperties DEF Accept, ManagerInv
  <2> QED BY <2>1, <2>2, AcceptInOrder
<1>2. CASE \E c \in Connections :
             Subscribe(c) \/ Send(c) \/ HandlerEnds(c) \/ Connect(c) \/ Break(c)
  BY <1>2, SubscribeInOrder, SendInOrder, HandlerEndsInOrder, ConnectInOrder,
     BreakInOrder
<1>3. CASE Receive
  BY <1>3, ReceiveInOrder
<1>4. CASE Disconnected \/ Wake
  BY <1>4, IdleInOrder
<1>5. CASE RestartSidecar
  BY <1>5, RestartInOrder
<1>6. CASE UNCHANGED vars
  BY <1>6 DEF vars, StreamInv, StreamsType, StreamOK, SidecarOK,
              NothingElseIsLost, Accounted
<1> QED BY <1>1, <1>2, <1>3, <1>4, <1>5, <1>6 DEF Next

\* Streams and what the sidecar stored, whatever happens to websockets.
THEOREM StreamsInvariant == Spec => [](ManagerInv /\ StreamInv)
<1>1. Init => ManagerInv /\ StreamInv
  BY ManagerInit, StreamInit
<1>2. ManagerInv /\ StreamInv /\ [Next]_vars => (ManagerInv /\ StreamInv)'
  BY ManagerStep, StreamStep
<1> QED BY <1>1, <1>2, PTL DEF Spec

\* SidecarInOrder holds of every behaviour: no reading is stored twice, and
\* none after a later one, for any number of websockets and sizes of queues.
THEOREM SidecarInOrderAlways == Spec => []SidecarInOrder
<1>1. StreamInv => SidecarInOrder
  <2> SUFFICES ASSUME StreamInv PROVE SidecarInOrder
    OBVIOUS
  <2>1. Ordered(sidecar.stored) /\ Len(sidecar.stored) \in Nat
    BY LenProperties DEF StreamInv, StreamsType, SidecarOK
  <2> QED BY <2>1 DEF Ordered, SidecarInOrder, Increasing
<1> QED BY <1>1, StreamsInvariant, PTL

\* LossIsItsOwn holds of every behaviour: what a working connection misses
\* was lost by its own full queue.
THEOREM LossIsItsOwnAlways == Spec => []LossIsItsOwn
<1>1. StreamInv => LossIsItsOwn
  <2> SUFFICES ASSUME StreamInv, NEW c \in Connections, c = sidecar.connection,
                      c # None,
                      streams[c].phase = "open", streams[c].link = "up"
               PROVE  LET all == sidecar.stored \o streams[c].wire \o streams[c].queue
                      IN /\ Increasing(all)
                         /\ {id \in {all[i] : i \in 1..Len(all)} :
                               id >= streams[c].first} =
                              (streams[c].first .. Len(accepted)) \ streams[c].dropped
    BY DEF LossIsItsOwn, StreamInv, StreamsType
  <2> DEFINE u == sidecar.stored
             w == streams[c].wire
             q == streams[c].queue
             first == u \o w
             all == first \o q
  <2>1. u \in Seq(Nat) /\ w \in Seq(Nat) /\ q \in Seq(Nat)
    BY DEF StreamInv, StreamsType, Stream
  <2>2. /\ Ordered(u) /\ Ordered(w) /\ Ordered(q)
        /\ Before(u, w) /\ Before(u, q) /\ Before(w, q)
    BY DEF StreamInv, SidecarOK, StreamOK
  <2>3. /\ first \in Seq(Nat) /\ Ordered(first)
        /\ Elems(first) = Elems(u) \cup Elems(w)
    BY <2>1, <2>2, JoinInOrder
  <2>4. Before(first, q)
    BY <2>2, <2>3 DEF Before
  <2> HIDE DEF first
  <2>5. /\ all \in Seq(Nat) /\ Ordered(all)
        /\ Elems(all) = Elems(first) \cup Elems(q)
    BY <2>1, <2>2, <2>3, <2>4, JoinInOrder
  <2>6. Elems(all) = Elems(u) \cup Elems(w) \cup Elems(q)
    BY <2>3, <2>5
  <2> HIDE DEF all
  <2>7. Increasing(all)
    <3>1. Len(all) \in Nat
      BY <2>5, LenProperties
    <3> QED BY <2>5, <3>1 DEF Ordered, Increasing
  <2>8. Accounted(c)
    BY DEF StreamInv, NothingElseIsLost
  <2>9. {id \in Elems(all) : id >= streams[c].first} =
          (streams[c].first .. Len(accepted)) \ streams[c].dropped
    BY <2>6, <2>8 DEF Accounted
  <2> QED BY <2>7, <2>9 DEF all, first, Elems
<1> QED BY <1>1, StreamsInvariant, PTL

-----------------------------------------------------------------------------
(* What a chart draws *)

\* The sets of what is in S up to one of its elements are finite and ordered
\* by inclusion, and that order is well-founded.
LEMMA HasLeast ==
    ASSUME NEW S \in SUBSET Nat, S # {}
    PROVE  \E m \in S : \A n \in S : m <= n
<1> DEFINE UpTo(n) == S \cap 0..n
           T == {UpTo(n) : n \in S}
<1>1. T \subseteq FiniteSubsetsOf(Nat) /\ T # {}
  <2>1. ASSUME NEW n \in S PROVE UpTo(n) \in SUBSET Nat /\ IsFiniteSet(UpTo(n))
    <3>1. IsFiniteSet(0..n)
      BY FS_Interval
    <3> QED BY <3>1, FS_Subset
  <2> HIDE DEF UpTo
  <2> QED BY <2>1 DEF FiniteSubsetsOf
<1>2. PICK x \in T : \A y \in T : ~(<<y, x>> \in StrictSubsetOrdering(Nat))
  <2> HIDE DEF T
  <2> QED BY <1>1, FS_StrictSubsetOrderingWellFounded, WFMin
<1>3. PICK m \in S : x = UpTo(m)
  BY <1>2
<1>4. ASSUME NEW n \in S, n < m PROVE FALSE
  <2>1. UpTo(n) \subseteq UpTo(m) /\ m \in UpTo(m) /\ m \notin UpTo(n)
    BY <1>4
  <2>2. UpTo(n) \in T /\ UpTo(n) \in SUBSET Nat /\ UpTo(m) \in SUBSET Nat
    OBVIOUS
  <2> HIDE DEF UpTo, T
  <2>3. <<UpTo(n), UpTo(m)>> \in StrictSubsetOrdering(Nat)
    BY <2>1, <2>2 DEF StrictSubsetOrdering
  <2> QED BY <1>2, <1>3, <2>2, <2>3
<1>5. \A n \in S : m <= n
  BY <1>4
<1> QED BY <1>5

LEMMA FirstIsOne ==
    ASSUME NEW I \in SUBSET Nat, I # {}
    PROVE  First(I) \in I
  BY HasLeast DEF First

LEMMA LastIsOne ==
    ASSUME NEW n \in Nat, NEW I \in SUBSET (1..n), I # {}
    PROVE  (CHOOSE i \in I : \A j \in I : j <= i) \in I
<1> DEFINE D == {n - i : i \in I}
<1>1. D \in SUBSET Nat /\ D # {}
  <2>1. \A i \in I : i \in 1..n
    OBVIOUS
  <2>2. \A i \in I : n - i \in Nat
    BY <2>1
  <2> QED BY <2>2
<1>2. PICK m \in D : \A d \in D : m <= d
  BY <1>1, HasLeast
<1>3. PICK i \in I : m = n - i
  BY <1>2
<1>4. ASSUME NEW j \in I PROVE j <= i
  <2>1. n - i <= n - j
    BY <1>2, <1>3
  <2> QED BY <2>1
<1> QED BY <1>4

\* A bucket is drawn with three of its points at most, and every value in it,
\* unavailable included, is that of one of these.
LEMMA KeptOfBucket ==
    ASSUME NEW timeline \in Seq(Reading),
           NEW bucket \in SUBSET (1..Len(timeline)), bucket # {}
    PROVE  /\ \E a, b, c \in bucket : Kept(timeline, bucket) = {a, b, c}
           /\ \A i \in bucket : \E j \in Kept(timeline, bucket) :
                 timeline[j].value = timeline[i].value
<1> DEFINE valid == {i \in bucket : timeline[i].value # Blank}
           Least == {i \in valid : \A j \in valid : timeline[i].value <= timeline[j].value}
           Most == {i \in valid : \A j \in valid : timeline[i].value >= timeline[j].value}
           last == CHOOSE i \in bucket : \A j \in bucket : j <= i
<1>1. Len(timeline) \in Nat /\ \A i \in bucket : i \in Nat
  <2>1. \A i \in bucket : i \in 1..Len(timeline)
    OBVIOUS
  <2> QED BY <2>1, LenProperties
<1>2. \A i \in bucket : timeline[i] \in Reading
  BY ElementOfSeq
<1>3. \A i \in bucket : timeline[i].value \in {1, 2, Blank}
  BY <1>2 DEF Reading
<1>4. last \in bucket
  BY <1>1, LastIsOne
<1>5. \A i \in valid : timeline[i].value \in {1, 2}
  BY <1>3
<1>6. Kept(timeline, bucket) =
         CASE valid = {} -> {last}
           [] valid = bucket -> {First(Least), First(Most)}
           [] OTHER -> {First(Least), First(Most), First(bucket \ valid)}
  BY DEF Kept
<1>7. valid # {} => First(Least) \in Least /\ First(Most) \in Most
  <2> SUFFICES ASSUME valid # {} PROVE First(Least) \in Least /\ First(Most) \in Most
    OBVIOUS
  <2>1. Least # {} /\ Most # {}
    <3>1. PICK v \in valid : TRUE
      OBVIOUS
    <3>2. Least # {}
      <4>1. CASE \E i \in valid : timeline[i].value = 1
        <5>1. PICK i \in valid : timeline[i].value = 1
          BY <4>1
        <5>2. i \in Least
          BY <1>5, <5>1
        <5> QED BY <5>2
      <4>2. CASE \A i \in valid : timeline[i].value # 1
        <5>1. \A i \in valid : timeline[i].value = 2
          BY <1>5, <4>2
        <5>2. v \in Least
          BY <3>1, <5>1
        <5> QED BY <5>2
      <4> QED BY <4>1, <4>2
    <3>3. Most # {}
      <4>1. CASE \E i \in valid : timeline[i].value = 2
        <5>1. PICK i \in valid : timeline[i].value = 2
          BY <4>1
        <5>2. i \in Most
          BY <1>5, <5>1
        <5> QED BY <5>2
      <4>2. CASE \A i \in valid : timeline[i].value # 2
        <5>1. \A i \in valid : timeline[i].value = 1
          BY <1>5, <4>2
        <5>2. v \in Most
          BY <3>1, <5>1
        <5> QED BY <5>2
      <4> QED BY <4>1, <4>2
    <3> QED BY <3>2, <3>3
  <2>2. Least \in SUBSET Nat /\ Most \in SUBSET Nat
    BY <1>1
  <2> HIDE DEF Least, Most
  <2> QED BY <2>1, <2>2, FirstIsOne
<1>8. valid # bucket => First(bucket \ valid) \in bucket \ valid
  <2> SUFFICES ASSUME valid # bucket PROVE First(bucket \ valid) \in bucket \ valid
    OBVIOUS
  <2> DEFINE gap == bucket \ valid
  <2>1. gap # {} /\ gap \in SUBSET Nat
    BY <1>1
  <2> HIDE DEF gap
  <2>2. First(gap) \in gap
    BY <2>1, FirstIsOne
  <2> QED BY <2>2 DEF gap
<1>9. /\ \A i \in Least : \A j \in valid : timeline[j].value = 1 => timeline[i].value = 1
      /\ \A i \in Most : \A j \in valid : timeline[j].value = 2 => timeline[i].value = 2
  BY <1>5
<1>10. valid \subseteq bucket /\ Least \subseteq valid /\ Most \subseteq valid
  OBVIOUS
<1>11. \A i \in bucket \ valid : timeline[i].value = Blank
  OBVIOUS
<1> HIDE DEF valid, Least, Most, last
<1>12. CASE valid = {}
  BY <1>4, <1>6, <1>11, <1>12
<1>13. CASE valid # {} /\ valid = bucket
  <2>1. Kept(timeline, bucket) = {First(Least), First(Most), First(Most)}
    BY <1>6, <1>13
  <2>2. First(Least) \in bucket /\ First(Most) \in bucket
    BY <1>7, <1>10, <1>13
  <2>3. ASSUME NEW i \in bucket
        PROVE  \E j \in Kept(timeline, bucket) : timeline[j].value = timeline[i].value
    BY <1>5, <1>7, <1>9, <1>13, <2>1
  <2> QED BY <2>1, <2>2, <2>3
<1>14. CASE valid # {} /\ valid # bucket
  <2>1. Kept(timeline, bucket) = {First(Least), First(Most), First(bucket \ valid)}
    BY <1>6, <1>14
  <2>2. First(Least) \in bucket /\ First(Most) \in bucket /\ First(bucket \ valid) \in bucket
    BY <1>7, <1>8, <1>10, <1>14
  <2>3. ASSUME NEW i \in bucket
        PROVE  \E j \in Kept(timeline, bucket) : timeline[j].value = timeline[i].value
    <3>1. CASE i \in valid
      <4>1. \E j \in {First(Least), First(Most)} : timeline[j].value = timeline[i].value
        BY <1>5, <1>7, <1>9, <1>14, <3>1
      <4> QED BY <2>1, <4>1
    <3>2. CASE i \notin valid
      <4>1. timeline[First(bucket \ valid)].value = timeline[i].value
        BY <1>8, <1>11, <1>14, <3>2
      <4> QED BY <2>1, <4>1
    <3> QED BY <3>1, <3>2
  <2> QED BY <2>1, <2>2, <2>3
<1> QED BY <1>12, <1>13, <1>14

LEMMA Divided ==
    ASSUME NEW a \in Nat, NEW d \in Nat \ {0}
    PROVE  /\ a \div d \in Nat
           /\ d * (a \div d) <= a
           /\ a < d * (a \div d) + d
  OBVIOUS

LEMMA QuotientIs ==
    ASSUME NEW d \in Nat \ {0}, NEW k \in Nat
    PROVE  (d * k) \div d = k
  OBVIOUS

LEMMA QuotientGrows ==
    ASSUME NEW d \in Nat \ {0}, NEW a \in Nat, NEW b \in Nat, a <= b
    PROVE  a \div d <= b \div d
  OBVIOUS

LEMMA FactorGrows ==
    ASSUME NEW d \in Nat, NEW x \in Nat, NEW y \in Nat, x <= y
    PROVE  d * x <= d * y
  OBVIOUS

\* The last of n readings is in one of b buckets.
LEMMA BucketsSuffice ==
    ASSUME NEW n \in Nat \ {0}, NEW b \in Nat \ {0}
    PROVE  /\ CeilDiv(n, b) \in Nat \ {0}
           /\ (n - 1) \div CeilDiv(n, b) \in 0 .. b - 1
<1> DEFINE size == CeilDiv(n, b)
           last == (n - 1) \div size
<1>1. size \in Nat /\ n - 1 < b * size
  <2>1. n + b - 1 \in Nat
    OBVIOUS
  <2>2. size \in Nat /\ n + b - 1 < b * size + b
    BY <2>1, Divided DEF CeilDiv
  <2> QED BY <2>2
<1>2. size # 0
  BY <1>1
<1> HIDE DEF size
<1>3. last \in Nat /\ size * last <= n - 1
  BY <1>1, <1>2, Divided
<1>4. last < b
  <2> SUFFICES ASSUME b <= last PROVE FALSE
    BY <1>3
  <2> HIDE DEF last
  <2>1. size * b <= size * last
    BY <1>1, <1>3, FactorGrows
  <2> QED BY <1>1, <1>3, <2>1
<1> QED BY <1>1, <1>2, <1>3, <1>4 DEF size

\* What is picked from a sequence by an index goes into as many points.
LEMMA FewPoints ==
    ASSUME NEW M \in Nat, NEW p, NEW points, DOMAIN p = 1..M,
           \A x \in points : \E j \in 1..M : p[j] = x
    PROVE  IsFiniteSet(points) /\ Cardinality(points) <= M
<1> DEFINE I == 1..M
           image == {p[j] : j \in I}
           f == [j \in I |-> p[j]]
<1>1. IsFiniteSet(I) /\ Cardinality(I) = M
  BY FS_Interval
<1> HIDE DEF I
<1>2. f \in Surjection(I, image)
  BY DEF Surjection
<1>3. IsFiniteSet(image) /\ Cardinality(image) <= M
  <2> HIDE DEF f, image
  <2> QED BY <1>1, <1>2, FS_Surjection
<1>4. points \in SUBSET image
  BY DEF I
<1> HIDE DEF image
<1>5. IsFiniteSet(points) /\ Cardinality(points) <= Cardinality(image)
  BY <1>3, <1>4, FS_Subset
<1>6. Cardinality(points) \in Nat /\ Cardinality(image) \in Nat
  BY <1>3, <1>5, FS_CardinalityType
<1> QED BY <1>3, <1>5, <1>6

\* Whatever is charted: few points, and nothing that matters is lost.
LEMMA DownsampleKeeps ==
    ASSUME NEW timeline \in Seq(Reading), timeline # <<>>,
           NEW m \in Nat, m >= 5
    PROVE  LET all == {timeline[i] : i \in 1..Len(timeline)}
               chart == Downsample(timeline, m)
           IN  /\ Cardinality(chart) <= m
               /\ chart \subseteq all
               /\ {timeline[1], timeline[Len(timeline)]} \subseteq chart
               /\ \A r \in all : \E s \in chart : s.value = r.value
<1> DEFINE n == Len(timeline)
           third == (m - 2) \div 3
           buckets == IF third < 1 THEN 1 ELSE third
           size == CeilDiv(n, buckets)
           Bucket(k) == {i \in 1..n : (i - 1) \div size = k}
           K == 0 .. (n - 1) \div size
           drawn == {1, n} \cup UNION {Kept(timeline, Bucket(k)) : k \in K}
           taken == IF n <= m THEN 1..n ELSE drawn
           all == {timeline[i] : i \in 1..n}
           chart == {timeline[i] : i \in taken}
<1>1. Downsample(timeline, m) = chart
  BY DEF Downsample
<1>2. n \in Nat \ {0}
  BY LenProperties, EmptySeq
<1>3. buckets \in Nat \ {0} /\ 2 + 3 * buckets <= m
  OBVIOUS
<1> HIDE DEF buckets
<1>4. size \in Nat \ {0} /\ (n - 1) \div size \in 0 .. buckets - 1
  <2> HIDE DEF n
  <2> QED BY <1>2, <1>3, BucketsSuffice
<1> HIDE DEF n, size
<1>5. ASSUME NEW k \in K PROVE Bucket(k) \in SUBSET (1..n) /\ Bucket(k) # {}
  <2>1. n - 1 \in Nat /\ size * ((n - 1) \div size) <= n - 1
    BY <1>2, <1>4, Divided
  <2>2. k \in Nat /\ (n - 1) \div size \in Nat /\ k <= (n - 1) \div size
    BY <1>4
  <2> DEFINE top == (n - 1) \div size
             i == size * k + 1
  <2>3. size * k <= size * top
    <3> HIDE DEF top
    <3> QED BY <1>4, <2>2, FactorGrows DEF top
  <2>4. size * k \in Nat
    BY <1>4, <2>2
  <2>5. i \in 1..n
    <3> DEFINE x == size * k
               y == size * top
    <3>1. x \in Nat /\ x <= y /\ y <= n - 1
      BY <2>1, <2>3, <2>4
    <3>2. y \in Nat
      BY <1>4, <2>2
    <3> HIDE DEF x, y, top
    <3>3. x + 1 \in 1..n
      BY <1>2, <3>1, <3>2
    <3> QED BY <3>3 DEF x
  <2>6. (i - 1) \div size = k
    <3>1. i - 1 = size * k
      BY <2>4
    <3> QED BY <1>4, <2>2, <3>1, QuotientIs
  <2> QED BY <2>5, <2>6
<1>6. ASSUME NEW i \in 1..n
      PROVE  \E k \in K : i \in Bucket(k)
  <2>1. i - 1 \in Nat /\ n - 1 \in Nat /\ i - 1 <= n - 1
    BY <1>2
  <2>2. (i - 1) \div size <= (n - 1) \div size /\ (i - 1) \div size \in Nat
    BY <1>4, <2>1, QuotientGrows, Divided
  <2>3. (i - 1) \div size \in K
    BY <1>4, <2>2
  <2> QED BY <2>3
<1>7. ASSUME NEW k \in K
      PROVE  /\ \E a, b, c \in Bucket(k) : Kept(timeline, Bucket(k)) = {a, b, c}
             /\ \A i \in Bucket(k) : \E j \in Kept(timeline, Bucket(k)) :
                   timeline[j].value = timeline[i].value
  <2> DEFINE B == Bucket(k)
  <2>1. B \in SUBSET (1..Len(timeline)) /\ B # {}
    BY <1>5 DEF n
  <2> HIDE DEF B
  <2>2. /\ \E a, b, c \in B : Kept(timeline, B) = {a, b, c}
        /\ \A i \in B : \E j \in Kept(timeline, B) : timeline[j].value = timeline[i].value
    BY <2>1, KeptOfBucket
  <2> QED BY <2>2 DEF B
<1> DEFINE Draws(k, a, b, c) == Kept(timeline, Bucket(k)) = {a, b, c}
<1>8. \A k \in K : \E a, b, c \in 1..n : Draws(k, a, b, c)
  <2> SUFFICES ASSUME NEW k \in K PROVE \E a, b, c \in 1..n : Draws(k, a, b, c)
    OBVIOUS
  <2>1. PICK a, b, c \in Bucket(k) : Draws(k, a, b, c)
    BY <1>7
  <2>2. a \in 1..n /\ b \in 1..n /\ c \in 1..n
    BY <1>5
  <2> QED BY <2>1, <2>2
<1>9. drawn \subseteq 1..n /\ {1, n} \subseteq drawn
  <2>1. ASSUME NEW k \in K PROVE Kept(timeline, Bucket(k)) \subseteq 1..n
    <3>1. PICK a, b, c \in 1..n : Draws(k, a, b, c)
      BY <1>8
    <3> QED BY <3>1
  <2>2. 1 \in 1..n /\ n \in 1..n
    BY <1>2
  <2> HIDE DEF Bucket, K
  <2> QED BY <2>1, <2>2
<1>10. taken \subseteq 1..n /\ {1, n} \subseteq taken
  <2>1. 1 \in 1..n /\ n \in 1..n
    BY <1>2
  <2> HIDE DEF drawn
  <2> QED BY <1>9, <2>1
<1>11. chart \subseteq all /\ {timeline[1], timeline[n]} \subseteq chart
  <2> HIDE DEF taken
  <2> QED BY <1>10
<1>12. ASSUME NEW i \in 1..n
       PROVE  \E s \in chart : s.value = timeline[i].value
  <2>1. \E j \in taken : timeline[j].value = timeline[i].value
    <3>1. CASE n <= m
      BY <3>1
    <3>2. CASE ~(n <= m)
      <4>1. PICK k \in K : i \in Bucket(k)
        BY <1>6
      <4>2. PICK j \in Kept(timeline, Bucket(k)) : timeline[j].value = timeline[i].value
        BY <1>7, <4>1
      <4> HIDE DEF Bucket, K
      <4>3. j \in drawn
        BY <4>2
      <4> HIDE DEF drawn
      <4> QED BY <3>2, <4>2, <4>3
    <3> QED BY <3>1, <3>2
  <2> HIDE DEF taken
  <2> QED BY <2>1
<1>13. Cardinality(chart) <= m
  <2>1. CASE n <= m
    <3>1. taken = 1..n
      BY <2>1
    <3> DEFINE p == [j \in 1..n |-> timeline[j]]
    <3>2. DOMAIN p = 1..n /\ \A x \in chart : \E j \in 1..n : p[j] = x
      BY <3>1
    <3> HIDE DEF p, chart
    <3>3. Cardinality(chart) <= n /\ IsFiniteSet(chart)
      BY <1>2, <3>2, FewPoints
    <3>4. Cardinality(chart) \in Nat
      BY <3>3, FS_CardinalityType
    <3> QED BY <1>2, <2>1, <3>3, <3>4
  <2>2. CASE ~(n <= m)
    <3> DEFINE M == 2 + 3 * buckets
               trio == [k \in K |-> CHOOSE t \in (1..n) \X (1..n) \X (1..n) :
                                       Draws(k, t[1], t[2], t[3])]
               q == [j \in 1..M |->
                        IF j = 1 THEN timeline[1] ELSE IF j = 2 THEN timeline[n]
                        ELSE timeline[trio[(j - 3) \div 3][((j - 3) % 3) + 1]]]
    <3>1. \A k \in K : Draws(k, trio[k][1], trio[k][2], trio[k][3])
      <4> SUFFICES ASSUME NEW k \in K
                   PROVE  Draws(k, trio[k][1], trio[k][2], trio[k][3])
        OBVIOUS
      <4>1. PICK a, b, c \in 1..n : Draws(k, a, b, c)
        BY <1>8
      <4> HIDE DEF Draws, K
      <4>2. <<a, b, c>> \in (1..n) \X (1..n) \X (1..n)
        OBVIOUS
      <4>3. \E t \in (1..n) \X (1..n) \X (1..n) : Draws(k, t[1], t[2], t[3])
        BY <4>1, <4>2
      <4> QED BY <4>3
    <3> HIDE DEF trio
    <3>2. M \in Nat /\ M >= 5 /\ DOMAIN q = 1..M
      BY <1>3
    <3>3. ASSUME NEW i \in taken PROVE \E j \in 1..M : q[j] = timeline[i]
      <4>1. i \in drawn
        <5> HIDE DEF drawn
        <5> QED BY <2>2
      <4>2. CASE i = 1
        <5>1. 1 \in 1..M /\ q[1] = timeline[1]
          BY <3>2
        <5> QED BY <4>2, <5>1
      <4>3. CASE i = n
        <5>1. 2 \in 1..M /\ q[2] = timeline[n]
          BY <3>2
        <5> QED BY <4>3, <5>1
      <4>4. CASE \E k \in K : i \in Kept(timeline, Bucket(k))
        <5>1. PICK k \in K : i \in Kept(timeline, Bucket(k))
          BY <4>4
        <5>2. i \in {trio[k][1], trio[k][2], trio[k][3]}
          <6> HIDE DEF K, Bucket
          <6> QED BY <3>1, <5>1
        <5>3. PICK d \in 1..3 : i = trio[k][d]
          BY <5>2
        <5>4. k \in 0 .. buckets - 1
          <6> DEFINE top == (n - 1) \div size
          <6>1. k \in 0..top
            OBVIOUS
          <6> HIDE DEF top
          <6>2. top \in 0 .. buckets - 1
            BY <1>4 DEF top
          <6> QED BY <1>3, <6>1, <6>2
        <5> DEFINE j == 3 * k + d + 2
        <5>5. j \in 1..M /\ j > 2 /\ (j - 3) \div 3 = k /\ ((j - 3) % 3) + 1 = d
          BY <1>3, <5>4
        <5> HIDE DEF j
        <5>6. q[j] = timeline[trio[k][d]]
          BY <5>5
        <5> QED BY <5>3, <5>5, <5>6
      <4> HIDE DEF K, Bucket, q
      <4> QED BY <4>1, <4>2, <4>3, <4>4
    <3>4. \A x \in chart : \E j \in 1..M : q[j] = x
      <4> HIDE DEF q, M, taken
      <4> QED BY <3>3
    <3> HIDE DEF q, chart
    <3>5. Cardinality(chart) <= M /\ IsFiniteSet(chart)
      <4> HIDE DEF M
      <4> QED BY <3>2, <3>4, FewPoints
    <3>6. Cardinality(chart) \in Nat
      BY <3>5, FS_CardinalityType
    <3> QED BY <1>3, <3>5, <3>6
  <2> QED BY <2>1, <2>2
<1>14. \A r \in all : \E s \in chart : s.value = r.value
  <2> HIDE DEF chart
  <2> QED BY <1>12
<1> HIDE DEF chart, all
<1>15. /\ Cardinality(chart) <= m
       /\ chart \subseteq all
       /\ {timeline[1], timeline[n]} \subseteq chart
       /\ \A r \in all : \E s \in chart : s.value = r.value
  BY <1>11, <1>13, <1>14
<1> QED BY <1>1, <1>15 DEF all, n

-----------------------------------------------------------------------------
(* Windows *)

\* What one halving does, of a search that goes on with f.
Halve(before, f, p) ==
    LET mid == (p[1] + p[2]) \div 2
    IN IF p[1] >= p[2] THEN p[1]
       ELSE IF mid \in before THEN f[<<mid + 1, p[2]>>]
       ELSE f[<<p[1], mid>>]

Ranges == (0..Capacity) \X (0..Capacity)

\* The offset k is where a search of the range p has to end.
Ends(before, p, k) ==
    /\ k \in p[1]..p[2]
    /\ \A j \in p[1] .. k - 1 : j \in before
    /\ k < p[2] => k \notin before

LEMMA HalvedRange ==
    ASSUME NEW p \in Ranges, p[1] < p[2]
    PROVE  LET mid == (p[1] + p[2]) \div 2
           IN /\ mid \in p[1] .. p[2] - 1
              /\ <<mid + 1, p[2]>> \in Ranges /\ <<p[1], mid>> \in Ranges
<1> DEFINE l == p[1]  h == p[2]  mid == (l + h) \div 2
<1>1. l \in 0..Capacity /\ h \in 0..Capacity /\ Capacity \in Nat /\ l < h
  BY RingAssumption DEF Ranges, RingAssumption
<1> HIDE DEF l, h
<1>2. mid \in l .. h - 1
  BY <1>1
<1> HIDE DEF mid
<1>3. mid \in 0..Capacity /\ mid + 1 \in 0..Capacity
  BY <1>1, <1>2
<1>4. <<mid + 1, h>> \in Ranges /\ <<l, mid>> \in Ranges
  BY <1>1, <1>3 DEF Ranges
<1> QED BY <1>2, <1>4 DEF l, h, mid

\* In an ascending ring the search has one end.
LEMMA SearchEnds ==
    ASSUME NEW before \in SUBSET Nat, NEW p \in Ranges, p[1] <= p[2]
    PROVE  \E k : Ends(before, p, k)
<1> DEFINE l == p[1]  h == p[2]  K == {k \in l..h : k = h \/ k \notin before}
<1>1. l \in Nat /\ h \in Nat /\ l <= h
  BY RingAssumption DEF Ranges, RingAssumption
<1> HIDE DEF l, h
<1>2. K \in SUBSET Nat /\ h \in K
  BY <1>1
<1>3. PICK k \in K : \A n \in K : k <= n
  BY <1>2, HasLeast
<1>4. \A j \in l .. k - 1 : j \in before
  BY <1>1, <1>3
<1>5. k \in l..h /\ (k < h => k \notin before)
  BY <1>1, <1>3
<1> QED BY <1>4, <1>5 DEF Ends, l, h

LEMMA OneEnd ==
    ASSUME NEW before, NEW p \in Ranges, NEW k, Ends(before, p, k),
           NEW m, Ends(before, p, m)
    PROVE  k = m
<1> DEFINE l == p[1]  h == p[2]
<1>1. l \in Nat /\ h \in Nat /\ k \in l..h /\ m \in l..h
  BY RingAssumption DEF Ranges, RingAssumption, Ends
<1>2. /\ \A j \in l .. k - 1 : j \in before
      /\ \A j \in l .. m - 1 : j \in before
      /\ (k < h => k \notin before) /\ (m < h => m \notin before)
  BY DEF Ends
<1> HIDE DEF l, h
<1>3. CASE k < m
  <2>1. k \in l .. m - 1 /\ k < h
    BY <1>1, <1>3
  <2> QED BY <1>2, <2>1
<1>4. CASE m < k
  <2>1. m \in l .. k - 1 /\ m < h
    BY <1>1, <1>4
  <2> QED BY <1>2, <2>1
<1> QED BY <1>1, <1>3, <1>4

\* An end of the half that a search goes on with is one of the whole.
LEMMA EndOfHalf ==
    ASSUME NEW before, \A k \in before : k \in Nat /\ \A j \in 0..k : j \in before,
           NEW p \in Ranges, p[1] < p[2], NEW k
    PROVE  LET mid == (p[1] + p[2]) \div 2
           IN /\ mid \in before /\ Ends(before, <<mid + 1, p[2]>>, k) => Ends(before, p, k)
              /\ mid \notin before /\ Ends(before, <<p[1], mid>>, k) => Ends(before, p, k)
<1> DEFINE l == p[1]  h == p[2]  mid == (l + h) \div 2
<1>1. l \in Nat /\ h \in Nat /\ l < h /\ mid \in l .. h - 1
  BY HalvedRange, RingAssumption DEF Ranges, RingAssumption
<1> HIDE DEF mid
<1>2. ASSUME mid \in before, Ends(before, <<mid + 1, h>>, k)
      PROVE  Ends(before, p, k)
  <2>1. /\ k \in mid + 1 .. h /\ \A j \in mid + 1 .. k - 1 : j \in before
        /\ k < h => k \notin before
    BY <1>2 DEF Ends
  <2>2. \A j \in l .. mid : j \in before
    <3> SUFFICES ASSUME NEW j \in l .. mid PROVE j \in before
      OBVIOUS
    <3>1. j \in 0..mid
      BY <1>1
    <3> QED BY <1>2, <3>1
  <2>3. \A j \in l .. k - 1 : j \in before
    BY <1>1, <2>1, <2>2
  <2> QED BY <1>1, <2>1, <2>3 DEF Ends
<1>3. ASSUME mid \notin before, Ends(before, <<l, mid>>, k)
      PROVE  Ends(before, p, k)
  <2>1. /\ k \in l .. mid /\ \A j \in l .. k - 1 : j \in before
        /\ k < mid => k \notin before
    BY <1>3 DEF Ends
  <2>2. k \in l .. h /\ k < h => k \notin before
    BY <1>1, <1>3, <2>1
  <2>3. k \in l .. h
    BY <1>1, <2>1
  <2> QED BY <2>1, <2>2, <2>3 DEF Ends
<1> QED BY <1>2, <1>3 DEF mid

\* Every search that goes on by halving ends there.
LEMMA HalvingEnds ==
    ASSUME NEW before, \A k \in before : k \in Nat /\ \A j \in 0..k : j \in before,
           NEW f, f = [p \in Ranges |-> Halve(before, f, p)],
           NEW p \in Ranges, p[1] <= p[2]
    PROVE  Ends(before, p, f[p])
<1> DEFINE Wide(n) == \E q \in Ranges : /\ q[1] <= q[2] /\ n = q[2] - q[1]
                                        /\ ~Ends(before, q, f[q])
           bad == {n \in Nat : Wide(n)}
<1>1. \A q \in Ranges : f[q] = Halve(before, f, q)
  <2> DEFINE g == [q \in Ranges |-> Halve(before, f, q)]
  <2>1. \A q \in Ranges : g[q] = Halve(before, f, q)
    OBVIOUS
  <2>2. f = g
    OBVIOUS
  <2> HIDE DEF g
  <2> QED BY <2>1, <2>2
<1>2. \A q \in Ranges : q[1] \in Nat /\ q[2] \in Nat
  BY RingAssumption DEF Ranges, RingAssumption
<1>3. SUFFICES ASSUME bad # {} PROVE FALSE
  <2>1. p[2] - p[1] \in Nat
    BY <1>2
  <2> QED BY <2>1
<1>4. PICK n \in bad : \A m \in bad : n <= m
  <2>1. bad \in SUBSET Nat
    OBVIOUS
  <2> HIDE DEF bad
  <2> QED BY <1>3, <2>1, HasLeast
<1>5. PICK q \in Ranges : /\ q[1] <= q[2] /\ n = q[2] - q[1]
                          /\ ~Ends(before, q, f[q])
  BY <1>4
<1> DEFINE l == q[1]  h == q[2]  mid == (l + h) \div 2
<1>6. l \in Nat /\ h \in Nat /\ l <= h
  BY <1>2, <1>5
<1>7. CASE l = h
  <2>1. f[q] = l
    BY <1>1, <1>6, <1>7 DEF Halve
  <2>2. Ends(before, q, l)
    BY <1>6, <1>7 DEF Ends
  <2> QED BY <1>5, <2>1, <2>2
<1>8. CASE l < h
  <2>1. /\ mid \in l .. h - 1
        /\ <<mid + 1, h>> \in Ranges /\ <<l, mid>> \in Ranges
    BY <1>8, HalvedRange
  <2>2. f[q] = IF mid \in before THEN f[<<mid + 1, h>>] ELSE f[<<l, mid>>]
    <3>1. f[q] = IF l >= h THEN l
                 ELSE IF mid \in before THEN f[<<mid + 1, h>>] ELSE f[<<l, mid>>]
      BY <1>1 DEF Halve
    <3>2. ~(l >= h)
      BY <1>6, <1>8
    <3> HIDE DEF mid, l, h
    <3> QED BY <3>1, <3>2
  <2>3. ASSUME NEW r \in Ranges, r[1] <= r[2], r[2] - r[1] < n
        PROVE  Ends(before, r, f[r])
    <3>1. r[2] - r[1] \in Nat
      BY <1>2, <2>3
    <3>2. r[2] - r[1] \notin bad
      BY <1>2, <1>4, <2>3
    <3> QED BY <2>3, <3>1, <3>2
  <2> HIDE DEF bad
  <2>4. ASSUME mid \in before
        PROVE  Ends(before, q, f[q])
    <3> DEFINE r == <<mid + 1, h>>
    <3>1. r \in Ranges /\ r[1] = mid + 1 /\ r[2] = h
      BY <2>1
    <3>2. r[1] <= r[2] /\ r[2] - r[1] < n
      <4> HIDE DEF mid, r
      <4> QED BY <1>5, <1>6, <2>1, <3>1
    <3>3. Ends(before, r, f[r])
      <4> HIDE DEF r
      <4> QED BY <2>3, <3>1, <3>2
    <3> QED BY <1>8, <2>2, <2>4, <3>3, EndOfHalf
  <2>5. ASSUME mid \notin before
        PROVE  Ends(before, q, f[q])
    <3> DEFINE r == <<l, mid>>
    <3>1. r \in Ranges /\ r[1] = l /\ r[2] = mid
      BY <2>1
    <3>2. r[1] <= r[2] /\ r[2] - r[1] < n
      <4> HIDE DEF mid, r
      <4> QED BY <1>5, <1>6, <2>1, <3>1
    <3>3. Ends(before, r, f[r])
      <4> HIDE DEF r
      <4> QED BY <2>3, <3>1, <3>2
    <3> QED BY <1>8, <2>2, <2>5, <3>3, EndOfHalf
  <2> QED BY <1>5, <2>4, <2>5
<1> QED BY <1>6, <1>7, <1>8

\* bisect finds the first offset that is not before, of a set that begins with
\* the first offset of all: the recursive function has a value because the end
\* of each search is one.
LEMMA BisectEnds ==
    ASSUME NEW before \in SUBSET Nat, \A k \in before : \A j \in 0..k : j \in before,
           NEW lo \in 0..Capacity, NEW hi \in 0..Capacity, lo <= hi
    PROVE  Ends(before, <<lo, hi>>, Bisect(before, lo, hi))
<1> DEFINE End(p) == IF p[1] >= p[2] THEN p[1] ELSE CHOOSE k : Ends(before, p, k)
           e == [p \in Ranges |-> End(p)]
<1>1. ASSUME NEW p \in Ranges, p[1] <= p[2]
      PROVE  Ends(before, p, e[p])
  <2>1. e[p] = End(p)
    OBVIOUS
  <2>2. p[1] \in Nat /\ p[2] \in Nat
    BY RingAssumption DEF Ranges, RingAssumption
  <2>3. CASE p[1] = p[2]
    <3>1. End(p) = p[1]
      BY <2>2, <2>3
    <3>2. Ends(before, p, p[1])
      BY <2>2, <2>3 DEF Ends
    <3> QED BY <2>1, <3>1, <3>2
  <2>4. CASE p[1] < p[2]
    <3>1. \E k : Ends(before, p, k)
      BY <1>1, SearchEnds
    <3>2. Ends(before, p, CHOOSE k : Ends(before, p, k))
      BY <3>1
    <3>3. ~(p[1] >= p[2])
      BY <2>2, <2>4
    <3>4. End(p) = CHOOSE k : Ends(before, p, k)
      BY <3>3
    <3> QED BY <2>1, <3>2, <3>4
  <2> QED BY <1>1, <2>2, <2>3, <2>4
<1>2. ASSUME NEW p \in Ranges
      PROVE  e[p] = Halve(before, e, p)
  <2> DEFINE l == p[1]  h == p[2]  mid == (l + h) \div 2
  <2>1. l \in Nat /\ h \in Nat
    BY RingAssumption DEF Ranges, RingAssumption
  <2>2. CASE l >= h
    BY <2>2 DEF Halve
  <2>3. CASE l < h
    <3>1. /\ mid \in l .. h - 1
          /\ <<mid + 1, h>> \in Ranges /\ <<l, mid>> \in Ranges
      BY <2>3, HalvedRange
    <3>2. \A k \in before : k \in Nat /\ \A j \in 0..k : j \in before
      OBVIOUS
    <3>3. Halve(before, e, p) =
             IF mid \in before THEN e[<<mid + 1, h>>] ELSE e[<<l, mid>>]
      <4>1. Halve(before, e, p) =
               IF l >= h THEN l
               ELSE IF mid \in before THEN e[<<mid + 1, h>>] ELSE e[<<l, mid>>]
        BY DEF Halve
      <4>2. ~(l >= h)
        BY <2>1, <2>3
      <4> HIDE DEF l, h, mid, e
      <4> QED BY <4>1, <4>2
    <3>4. Ends(before, p, e[p])
      BY <1>1, <2>1, <2>3
    <3>5. CASE mid \in before
      <4> DEFINE r == <<mid + 1, h>>
      <4>1. r \in Ranges /\ r[1] = mid + 1 /\ r[2] = h
        BY <3>1
      <4>2. r[1] <= r[2]
        <5> HIDE DEF mid, r, e
        <5> QED BY <2>1, <3>1, <4>1
      <4>3. Ends(before, r, e[r])
        <5> HIDE DEF r, e
        <5> QED BY <1>1, <4>1, <4>2
      <4>4. Ends(before, p, e[r])
        <5> HIDE DEF e
        <5> QED BY <2>3, <3>2, <3>5, <4>3, EndOfHalf
      <4> HIDE DEF e
      <4>5. e[p] = e[r]
        BY <3>4, <4>4, OneEnd
      <4> QED BY <3>3, <3>5, <4>5
    <3>6. CASE mid \notin before
      <4> DEFINE r == <<l, mid>>
      <4>1. r \in Ranges /\ r[1] = l /\ r[2] = mid
        BY <3>1
      <4>2. r[1] <= r[2]
        <5> HIDE DEF mid, r, e
        <5> QED BY <2>1, <3>1, <4>1
      <4>3. Ends(before, r, e[r])
        <5> HIDE DEF r, e
        <5> QED BY <1>1, <4>1, <4>2
      <4>4. Ends(before, p, e[r])
        <5> HIDE DEF e
        <5> QED BY <2>3, <3>2, <3>6, <4>3, EndOfHalf
      <4> HIDE DEF e
      <4>5. e[p] = e[r]
        BY <3>4, <4>4, OneEnd
      <4> QED BY <3>3, <3>6, <4>5
    <3> QED BY <3>5, <3>6
  <2> QED BY <2>1, <2>2, <2>3
<1>3. e = [p \in Ranges |-> Halve(before, e, p)]
  <2> DEFINE d == [p \in Ranges |-> Halve(before, e, p)]
  <2>1. DOMAIN e = Ranges /\ DOMAIN d = Ranges /\ e = [p \in Ranges |-> e[p]]
    OBVIOUS
  <2>2. \A p \in Ranges : e[p] = d[p]
    <3> HIDE DEF e
    <3> QED BY <1>2
  <2>3. d = [p \in Ranges |-> d[p]]
    OBVIOUS
  <2> HIDE DEF e, d
  <2>4. e = d
    BY <2>1, <2>2, <2>3
  <2> QED BY <2>4 DEF d
<1> DEFINE Solves(f) == f = [p \in Ranges |-> Halve(before, f, p)]
           s == CHOOSE f : Solves(f)
<1>4. Solves(s)
  <2>1. Solves(e)
    BY <1>3
  <2> HIDE DEF e, Solves
  <2> QED BY <2>1
<1>5. Bisect(before, lo, hi) = s[<<lo, hi>>]
  BY DEF Bisect, Ranges, Halve
<1>6. \A k \in before : k \in Nat /\ \A j \in 0..k : j \in before
  OBVIOUS
<1>7. <<lo, hi>> \in Ranges /\ <<lo, hi>>[1] <= <<lo, hi>>[2]
  BY DEF Ranges
<1> DEFINE p == <<lo, hi>>
<1>8. Ends(before, p, s[p])
  <2> HIDE DEF s, p
  <2>1. p \in Ranges /\ p[1] <= p[2]
    BY <1>7 DEF p
  <2> QED BY <1>4, <1>6, <2>1, HalvingEnds DEF Solves
<1> HIDE DEF s
<1> QED BY <1>5, <1>8 DEF p

\* The readings from one of them on are in the slots from its slot on, around
\* the end of the ring.
LEMMA IndexFrom ==
    ASSUME NEW ring, RingOK(ring), NEW a \in Nat, NEW j \in Nat, a + j < ring.count
    PROVE  /\ Index(ring, a) \in Slots
           /\ Index(ring, a + j) = IF Index(ring, a) + j < Capacity
                                   THEN Index(ring, a) + j
                                   ELSE Index(ring, a) + j - Capacity
<1> DEFINE C == Capacity  w == ring.writeIndex  n == ring.count
<1>1. C \in Nat \ {0} /\ w \in 0 .. C - 1 /\ n \in 0..C
  BY RingAssumption DEF RingOK, Ring, RingAssumption, Slots
<1>2. CASE n < C
  <2>1. Index(ring, a) = a /\ Index(ring, a + j) = a + j
    BY <1>2 DEF Index
  <2> HIDE DEF C, w, n
  <2>2. a + j < C /\ a \in 0 .. C - 1
    BY <1>1, <1>2 DEF n
  <2> QED BY <2>1, <2>2 DEF Slots, C
<1>3. CASE ~(n < C)
  <2>1. Index(ring, a) = (w + a) % C /\ Index(ring, a + j) = (w + (a + j)) % C
    BY <1>3 DEF Index
  <2>2. a + j < n
    OBVIOUS
  <2> HIDE DEF w, n
  <2> DEFINE u == w + a  v == w + (a + j)
  <2>3. u \in 0 .. (2 * Capacity - 1) /\ v \in 0 .. (2 * Capacity - 1)
    BY <1>1, <2>2
  <2>4. /\ u % Capacity = IF u < Capacity THEN u ELSE u - Capacity
        /\ v % Capacity = IF v < Capacity THEN v ELSE v - Capacity
    <3> HIDE DEF u, v
    <3> QED BY <2>3, Wraps
  <2>5. a + j < C
    BY <1>1, <2>2
  <2> DEFINE x == Index(ring, a)  y == Index(ring, a + j)
  <2>6. /\ x = IF u < Capacity THEN u ELSE u - Capacity
        /\ y = IF v < Capacity THEN v ELSE v - Capacity
    <3> HIDE DEF u, v
    <3>1. x = u % Capacity /\ y = v % Capacity
      BY <2>1 DEF u, v
    <3> HIDE DEF x, y
    <3> QED BY <2>4, <3>1
  <2> HIDE DEF x, y, C
  <2>7. x \in 0 .. C - 1 /\ y = IF x + j < C THEN x + j ELSE x + j - C
    BY <1>1, <2>5, <2>6 DEF C
  <2> QED BY <2>7 DEF x, y, C, Slots
<1> QED BY <1>2, <1>3

\* What a selection of consecutive readings is.
LEMMA SelectedInterval ==
    ASSUME NEW s, NEW a \in Nat, NEW b \in Nat, a <= b
    PROVE  Selected(s, a + 1 .. b) = [k \in 1 .. b - a |-> s[a + k]]
<1> DEFINE I == a + 1 .. b
<1>1. Cardinality(I) = b - a
  <2>1. CASE a = b
    <3>1. I = {}
      BY <2>1
    <3>2. Cardinality(I) = 0
      BY <3>1, FS_EmptySet
    <3> QED BY <2>1, <3>2
  <2>2. CASE a < b
    <3>1. a + 1 \in Int /\ b \in Int /\ a + 1 <= b
      BY <2>2
    <3>2. Cardinality(I) = b - (a + 1) + 1
      BY <3>1, FS_Interval
    <3> HIDE DEF I
    <3> QED BY <3>2
  <2> QED BY <2>1, <2>2
<1>2. ASSUME NEW k \in 1 .. b - a
      PROVE  Kth(I, k) = a + k
  <2>1. ASSUME NEW i \in I
        PROVE  Cardinality(I \cap 1..i) = i - a
    <3>1. I \cap 1..i = a + 1 .. i
      OBVIOUS
    <3>2. a + 1 \in Int /\ i \in Int /\ a + 1 <= i
      OBVIOUS
    <3>3. Cardinality(a + 1 .. i) = i - (a + 1) + 1
      BY <3>2, FS_Interval
    <3>4. Cardinality(a + 1 .. i) = i - a
      BY <3>2, <3>3
    <3> HIDE DEF I
    <3> QED BY <3>1, <3>4
  <2>2. a + k \in I
    OBVIOUS
  <2>3. \A i \in I : Cardinality(I \cap 1..i) = k <=> i = a + k
    <3>1. \A i \in I : i \in Int
      OBVIOUS
    <3> HIDE DEF I
    <3> QED BY <2>1, <3>1
  <2> HIDE DEF I
  <2> QED BY <2>2, <2>3 DEF Kth
<1> HIDE DEF I
<1>3. Selected(s, I) = [k \in 1 .. b - a |-> s[a + k]]
  BY <1>1, <1>2 DEF Selected
<1> QED BY <1>3 DEF I

\* Two bisections and at most two slices are what a scan of the whole ring
\* returns, if the ring ascends when it says so.
LEMMA WindowIsScan ==
    ASSUME NEW ring, RingOK(ring), OrderTold(ring), NEW since \in Int, NEW until \in Int
    PROVE  Window(ring, since, until) = Scan(Readings(ring), since, until)
<1> DEFINE R == Readings(ring)  n == ring.count
           offsets == 0 .. n - 1
           early == {k \in offsets : At(ring, k) < since}
           start == Bisect(early, 0, n)
           late == {k \in offsets : At(ring, k) <= until}
           end == Bisect(late, start, n)
           first == Index(ring, start)
           last == first + end - start
           I == {i \in 1..Len(R) : /\ R[i].at >= since
                                   /\ \A j \in 1..i : R[j].at <= until}
<1>1. SUFFICES ASSUME ring.ordered
               PROVE  Window(ring, since, until) = Scan(R, since, until)
  BY DEF Window
<1>2. Capacity \in Nat \ {0} /\ n \in 0..Capacity
  BY RingAssumption DEF RingOK, Ring, RingAssumption
<1>3. /\ R \in Seq(Reading) /\ Len(R) = n
      /\ \A k \in 1..n : R[k] = ring.slots[Index(ring, k - 1)]
  BY ReadingsType
<1>4. \A i, j \in 1..n : i <= j => R[i].at <= R[j].at
  BY <1>1, <1>3 DEF OrderTold, Ascends
<1>5. \A k \in 1..n : R[k].at \in Nat /\ At(ring, k - 1) = R[k].at
  <2>1. \A k \in 1..n : R[k] \in Reading
    BY <1>3, ElementOfSeq
  <2> HIDE DEF R, n
  <2> QED BY <1>3, <2>1 DEF Reading, At
<1> HIDE DEF R
<1>6. \A k \in offsets : At(ring, k) \in Nat /\ At(ring, k) = R[k + 1].at
  <2> SUFFICES ASSUME NEW k \in offsets
               PROVE  At(ring, k) \in Nat /\ At(ring, k) = R[k + 1].at
    OBVIOUS
  <2>1. k + 1 \in 1..n /\ (k + 1) - 1 = k
    BY <1>2
  <2> QED BY <1>5, <2>1
<1>7. \A j, k \in offsets : j <= k => At(ring, j) <= At(ring, k)
  <2> SUFFICES ASSUME NEW j \in offsets, NEW k \in offsets, j <= k
               PROVE  At(ring, j) <= At(ring, k)
    OBVIOUS
  <2>1. j + 1 \in 1..n /\ k + 1 \in 1..n /\ j + 1 <= k + 1
    BY <1>2
  <2> QED BY <1>4, <1>6, <2>1
<1>8. /\ early \in SUBSET Nat /\ \A k \in early : \A j \in 0..k : j \in early
      /\ late \in SUBSET Nat /\ \A k \in late : \A j \in 0..k : j \in late
  <2>1. \A k \in offsets : k \in Nat /\ \A j \in 0..k : j \in offsets /\ j <= k
    BY <1>2
  <2> HIDE DEF offsets
  <2> QED BY <1>6, <1>7, <2>1
<1>9. Ends(early, <<0, n>>, start)
  <2> HIDE DEF early, n
  <2> QED BY <1>2, <1>8, BisectEnds
<1>10. start \in 0..n
  BY <1>9 DEF Ends
<1>11. Ends(late, <<start, n>>, end)
  <2>1. start \in 0..Capacity /\ start <= n
    BY <1>2, <1>10
  <2> HIDE DEF late, start, n
  <2> QED BY <1>2, <1>8, <2>1, BisectEnds
<1> HIDE DEF start, end
<1>12. /\ \A k \in 0 .. start - 1 : k \in early
       /\ start < n => start \notin early
       /\ end \in start..n /\ \A k \in start .. end - 1 : k \in late
       /\ end < n => end \notin late
  BY <1>9, <1>11 DEF Ends
<1>13. I = start + 1 .. end
  <2>1. ASSUME NEW i \in I PROVE i \in start + 1 .. end
    <3>1. i \in 1..n /\ R[i].at >= since /\ \A j \in 1..i : R[j].at <= until
      BY <1>3
    <3>2. i - 1 \in offsets /\ (i - 1) + 1 = i
      BY <1>2, <3>1
    <3>3. i - 1 \notin early
      BY <1>6, <3>1, <3>2
    <3>4. ~(i - 1 \in 0 .. start - 1)
      BY <1>12, <3>3
    <3>5. ASSUME end < i PROVE FALSE
      <4>1. end \in offsets /\ end \notin late /\ end + 1 \in 1..i
        BY <1>2, <1>10, <1>12, <3>1, <3>5
      <4>2. R[end + 1].at <= until
        BY <3>1, <4>1
      <4> QED BY <1>6, <4>1, <4>2
    <3> QED BY <1>10, <1>12, <3>1, <3>2, <3>4, <3>5
  <2>2. ASSUME NEW i \in start + 1 .. end PROVE i \in I
    <3>1. i \in 1..n /\ i - 1 \in offsets /\ (i - 1) + 1 = i
      BY <1>2, <1>10, <1>12
    <3>2. i - 1 \in late /\ start \notin early /\ start \in offsets /\ start <= i - 1
      BY <1>2, <1>10, <1>12
    <3>3. R[i].at <= until
      BY <1>6, <3>1, <3>2
    <3>4. R[i].at >= since
      BY <1>6, <1>7, <3>1, <3>2
    <3>5. ASSUME NEW j \in 1..i PROVE R[j].at <= until
      <4>1. j \in 1..n /\ j <= i
        BY <1>2, <3>1
      <4> QED BY <1>4, <1>5, <3>1, <3>3, <4>1
    <3> QED BY <1>3, <3>1, <3>4, <3>5
  <2> QED BY <2>1, <2>2
<1>14. Scan(R, since, until) = Selected(R, I)
  BY DEF Scan
<1> DEFINE m == end - start
           selected == [k \in 1..m |-> R[start + k]]
<1>15. Scan(R, since, until) = selected
  <2>1. start \in Nat /\ end \in Nat /\ start <= end
    BY <1>10, <1>12
  <2> HIDE DEF I
  <2> QED BY <1>13, <1>14, <2>1, SelectedInterval
<1>16. Window(ring, since, until) =
          IF start = end THEN <<>>
          ELSE IF last <= Capacity THEN Slice(ring, first, last)
          ELSE Slice(ring, first, Capacity) \o Slice(ring, 0, last - Capacity)
  BY <1>1 DEF Window, start, end
<1> HIDE DEF I, early, late, offsets
<1>17. CASE start = end
  <2>1. m = 0
    BY <1>10, <1>17
  <2>2. selected = <<>>
    BY <2>1
  <2> QED BY <1>15, <1>16, <1>17, <2>2
<1>18. ASSUME start < end
       PROVE  /\ first \in Slots
              /\ \A k \in 1..m : /\ R[start + k] \in Reading
                                 /\ R[start + k] = ring.slots[
                                      IF first + (k - 1) < Capacity THEN first + (k - 1)
                                      ELSE first + (k - 1) - Capacity]
  <2>1. start \in Nat /\ start + 0 < n /\ 0 \in Nat
    BY <1>2, <1>10, <1>12, <1>18
  <2>2. first \in Slots
    BY <2>1, IndexFrom
  <2>3. ASSUME NEW k \in 1..m
        PROVE  /\ R[start + k] \in Reading
               /\ R[start + k] = ring.slots[
                     IF first + (k - 1) < Capacity THEN first + (k - 1)
                     ELSE first + (k - 1) - Capacity]
    <3>1. k - 1 \in Nat /\ start + (k - 1) < n /\ start + k \in 1..n
          /\ (start + k) - 1 = start + (k - 1)
      BY <1>2, <1>10, <1>12, <1>18
    <3>2. R[start + k] = ring.slots[Index(ring, start + (k - 1))]
      BY <1>3, <3>1
    <3> DEFINE j == k - 1
    <3>3. j \in Nat /\ start + j < n
      BY <3>1
    <3> HIDE DEF j
    <3>4. Index(ring, start + j) = IF first + j < Capacity THEN first + j
                                   ELSE first + j - Capacity
      BY <2>1, <3>3, IndexFrom
    <3>5. R[start + k] \in Reading
      BY <1>3, <3>1, ElementOfSeq
    <3> QED BY <3>2, <3>4, <3>5 DEF j
  <2> QED BY <2>2, <2>3
<1>19. CASE start < end /\ last <= Capacity
  <2>1. first \in 0 .. Capacity - 1 /\ m \in Nat /\ last - first = m
    BY <1>2, <1>10, <1>12, <1>18, <1>19 DEF Slots
  <2>2. ASSUME NEW k \in 1..m
        PROVE  R[start + k] = ring.slots[first + k - 1]
    <3>1. first + (k - 1) < Capacity /\ first + (k - 1) = first + k - 1
      <4> HIDE DEF first
      <4> QED BY <1>2, <1>10, <1>12, <1>19, <2>1
    <3> QED BY <1>18, <1>19, <3>1
  <2>3. Slice(ring, first, last) = selected
    <3> HIDE DEF first, last, m
    <3> QED BY <2>1, <2>2 DEF Slice
  <2>4. start # end
    BY <1>10, <1>12, <1>19
  <2> QED BY <1>15, <1>16, <1>19, <2>3, <2>4
<1>20. CASE start < end /\ ~(last <= Capacity)
  <2> DEFINE a == Capacity - first  b == last - Capacity
             left == Slice(ring, first, Capacity)
             right == Slice(ring, 0, last - Capacity)
  <2>1. /\ first \in 0 .. Capacity - 1 /\ m \in Nat /\ last = first + m
        /\ a \in Nat /\ b \in Nat /\ a + b = m
    <3>1. first \in 0 .. Capacity - 1
      BY <1>18, <1>20 DEF Slots
    <3> HIDE DEF first
    <3> QED BY <1>2, <1>10, <1>12, <1>20, <3>1
  <2> HIDE DEF m, last, first, a, b
  <2>2. /\ left = [k \in 1..a |-> ring.slots[first + k - 1]]
        /\ right = [k \in 1..b |-> ring.slots[0 + k - 1]]
    <3>1. b - 0 = b
      BY <2>1
    <3> QED BY <3>1 DEF Slice, a, b
  <2>3. ASSUME NEW k \in 1..a
        PROVE  /\ ring.slots[first + k - 1] \in Reading
               /\ ring.slots[first + k - 1] = R[start + k]
    <3>1. k \in 1..m /\ first + (k - 1) < Capacity /\ first + (k - 1) = first + k - 1
      BY <1>2, <2>1 DEF a
    <3> QED BY <1>18, <1>20, <3>1 DEF first, m
  <2>4. ASSUME NEW k \in 1..b
        PROVE  /\ ring.slots[0 + k - 1] \in Reading
               /\ ring.slots[0 + k - 1] = R[start + (a + k)]
    <3>1. /\ a + k \in 1..m /\ ~(first + ((a + k) - 1) < Capacity)
          /\ first + ((a + k) - 1) - Capacity = 0 + k - 1
      BY <1>2, <2>1 DEF a
    <3> QED BY <1>18, <1>20, <3>1 DEF first, m
  <2>5. /\ left \in Seq(Reading) /\ Len(left) = a
        /\ right \in Seq(Reading) /\ Len(right) = b
        /\ \A k \in 1..a : left[k] = R[start + k]
        /\ \A k \in 1..b : right[k] = R[start + (a + k)]
    <3>1. left \in [1..a -> Reading] /\ right \in [1..b -> Reading]
      <4> HIDE DEF left, right
      <4> QED BY <2>2, <2>3, <2>4
    <3>2. \A k \in 1..a : left[k] = R[start + k]
      <4> HIDE DEF left, right
      <4> QED BY <2>2, <2>3
    <3>3. \A k \in 1..b : right[k] = R[start + (a + k)]
      <4> HIDE DEF left, right
      <4> QED BY <2>2, <2>4
    <3> HIDE DEF left, right
    <3> QED BY <2>1, <3>1, <3>2, <3>3
  <2> HIDE DEF left, right
  <2> DEFINE joined == left \o right
  <2>6. /\ joined \in Seq(Reading) /\ Len(joined) = m
        /\ \A k \in 1..m : joined[k] = IF k <= a THEN left[k] ELSE right[k - a]
    BY <2>1, <2>5, ConcatProperties
  <2>7. ASSUME NEW k \in 1..m PROVE joined[k] = R[start + k]
    <3>1. CASE k <= a
      <4>1. k \in 1..a
        BY <2>1, <3>1
      <4> QED BY <2>5, <2>6, <3>1, <4>1
    <3>2. CASE ~(k <= a)
      <4>1. k - a \in 1..b /\ a + (k - a) = k
        BY <2>1, <3>2
      <4> QED BY <2>5, <2>6, <3>2, <4>1
    <3> QED BY <3>1, <3>2
  <2> HIDE DEF joined
  <2>8. joined = [k \in 1..m |-> joined[k]]
    <3>1. joined \in [1..m -> Reading]
      BY <2>6
    <3> QED BY <3>1
  <2>9. joined = selected
    BY <2>7, <2>8
  <2>10. start # end
    BY <1>10, <1>12, <1>20
  <2> QED BY <1>15, <1>16, <1>20, <2>9, <2>10 DEF joined, left, right
<1> QED BY <1>10, <1>12, <1>17, <1>19, <1>20

\* The window of a performance ring, read with two bisections wherever the ring
\* has wrapped (_window), is what a scan of all its readings returns, also
\* after the clock went back.
THEOREM WindowIsExactAlways == Spec => []WindowIsExact
<1>1. ManagerInv => WindowIsExact
  <2> SUFFICES ASSUME ManagerInv, NEW g \in DOMAIN cache.gpm, NEW w \in Windows
               PROVE  Window(cache.gpm[g], w[1], w[2])
                        = Scan(Readings(cache.gpm[g]), w[1], w[2])
    BY DEF WindowIsExact
  <2>1. RingOK(cache.gpm[g]) /\ OrderTold(cache.gpm[g])
    BY DEF ManagerInv, CacheOK, RingsOK
  <2>2. w[1] \in Int /\ w[2] \in Int
    BY DEF Windows
  <2> QED BY <2>1, <2>2, WindowIsScan
<1>2. ManagerInv /\ [Next]_vars => ManagerInv'
  BY ManagerStep
<1> QED BY <1>1, <1>2, ManagerInit, PTL DEF Spec

\* The members of a finite set of positions have the ranks 1, 2, and so on, in
\* their order.
LEMMA Ranks ==
    ASSUME NEW n \in Nat, NEW I \in SUBSET (1..n)
    PROVE  /\ IsFiniteSet(I) /\ Cardinality(I) \in Nat
           /\ \A i \in I : Cardinality(I \cap 1..i) \in 1..Cardinality(I)
           /\ \A i, j \in I : i < j => Cardinality(I \cap 1..i) < Cardinality(I \cap 1..j)
           /\ \A k \in 1..Cardinality(I) : \E i \in I : Cardinality(I \cap 1..i) = k
<1> DEFINE UpTo(j) == I \cap 1..j
           N(j) == Cardinality(UpTo(j))
<1>1. IsFiniteSet(I) /\ Cardinality(I) \in Nat /\ \A j \in I : j \in 1..n
  <2>1. IsFiniteSet(1..n)
    BY FS_Interval
  <2> QED BY <2>1, FS_Subset, FS_CardinalityType
<1>2. \A j \in I : IsFiniteSet(UpTo(j)) /\ N(j) \in Nat /\ N(j) <= Cardinality(I)
  <2> SUFFICES ASSUME NEW j \in I
               PROVE  IsFiniteSet(UpTo(j)) /\ N(j) \in Nat /\ N(j) <= Cardinality(I)
    OBVIOUS
  <2>1. UpTo(j) \in SUBSET I
    OBVIOUS
  <2> HIDE DEF UpTo
  <2> QED BY <1>1, <2>1, FS_Subset, FS_CardinalityType
<1>3. \A j, l \in I : j < l => N(j) < N(l)
  <2> SUFFICES ASSUME NEW j \in I, NEW l \in I, j < l PROVE N(j) < N(l)
    OBVIOUS
  <2>1. UpTo(j) \in SUBSET UpTo(l) /\ l \in UpTo(l) /\ l \notin UpTo(j)
    BY <1>1
  <2>2. IsFiniteSet(UpTo(l)) /\ UpTo(j) # UpTo(l) /\ N(j) \in Nat /\ N(l) \in Nat
    BY <1>2, <2>1
  <2> HIDE DEF UpTo
  <2>3. Cardinality(UpTo(j)) <= Cardinality(UpTo(l))
        /\ (Cardinality(UpTo(j)) = Cardinality(UpTo(l)) => UpTo(j) = UpTo(l))
    BY <2>1, <2>2, FS_Subset
  <2> QED BY <2>2, <2>3
<1>4. ASSUME NEW i \in I PROVE N(i) \in 1..Cardinality(I)
  <2>1. UpTo(i) # {} /\ IsFiniteSet(UpTo(i)) /\ N(i) \in Nat /\ N(i) <= Cardinality(I)
    BY <1>1, <1>2
  <2> HIDE DEF UpTo
  <2>2. N(i) # 0
    BY <2>1, FS_EmptySet
  <2> HIDE DEF N
  <2> QED BY <1>1, <2>1, <2>2
<1> DEFINE c == Cardinality(I)
           rank == [i \in I |-> N(i)]
<1>5. rank \in Injection(I, 1..c)
  <2>1. rank \in [I -> 1..c]
    <3> HIDE DEF N
    <3> QED BY <1>4
  <2>2. ASSUME NEW i \in I, NEW j \in I, rank[i] = rank[j] PROVE i = j
    <3>1. i < j \/ j < i \/ i = j
      BY <1>1
    <3>2. N(i) = N(j) /\ N(i) \in Int /\ N(j) \in Int
      <4> HIDE DEF UpTo
      <4> QED BY <1>2, <2>2
    <3> HIDE DEF N, rank
    <3> QED BY <1>3, <3>1, <3>2
  <2> HIDE DEF rank
  <2> QED BY <2>1, <2>2 DEF Injection, IsInjective
<1>6. rank \in Surjection(I, 1..c)
  <2>1. IsFiniteSet(1..c) /\ Cardinality(1..c) = c
    <3>1. c \in Nat
      BY <1>1
    <3> HIDE DEF c
    <3> QED BY <3>1, FS_Interval
  <2> HIDE DEF rank
  <2> QED BY <1>5, <2>1, FS_Injection
<1>7. ASSUME NEW k \in 1..c PROVE \E i \in I : N(i) = k
  <2>1. \E i \in I : rank[i] = k
    <3> HIDE DEF rank, c
    <3> QED BY <1>6 DEF Surjection
  <2> QED BY <2>1
<1> QED BY <1>1, <1>3, <1>4, <1>7

\* A scan of readings is a sequence of them.
LEMMA ScanType ==
    ASSUME NEW R \in Seq(Reading), NEW since, NEW until
    PROVE  Scan(R, since, until) \in Seq(Reading)
<1> DEFINE n == Len(R)
           I == {i \in 1..n : R[i].at >= since /\ \A j \in 1..i : R[j].at <= until}
           S == Selected(R, I)
<1>1. Scan(R, since, until) = S
  BY DEF Scan
<1>2. n \in Nat /\ I \in SUBSET (1..n)
  BY LenProperties
<1> HIDE DEF I
<1>3. /\ Cardinality(I) \in Nat
      /\ \A k \in 1..Cardinality(I) : \E i \in I : Cardinality(I \cap 1..i) = k
  BY <1>2, Ranks
<1>4. \A k \in 1..Cardinality(I) : Kth(I, k) \in I
  BY <1>3 DEF Kth
<1>5. \A k \in 1..Cardinality(I) : R[Kth(I, k)] \in Reading
  BY <1>2, <1>4, ElementOfSeq
<1>6. S \in [1..Cardinality(I) -> Reading]
  BY <1>5 DEF Selected
<1> HIDE DEF S
<1> QED BY <1>1, <1>3, <1>6

\* What a chart draws of a window is few points, and nothing that matters is
\* lost.
LEMMA ChartOfWindow ==
    ASSUME NEW S \in Seq(Reading)
    PROVE  LET all == {S[i] : i \in 1..Len(S)}
               chart == Downsample(S, MaxPoints)
           IN  /\ Cardinality(chart) <= MaxPoints
               /\ chart \subseteq all
               /\ S # <<>> => {S[1], S[Len(S)]} \subseteq chart
               /\ \A r \in all : \E s \in chart : s.value = r.value
<1> DEFINE all == {S[i] : i \in 1..Len(S)}
           chart == Downsample(S, MaxPoints)
<1>1. MaxPoints \in Nat /\ MaxPoints >= 5
  BY StreamAssumption DEF StreamAssumption
<1>2. CASE S = <<>>
  <2>1. Len(S) = 0 /\ 1..Len(S) = {}
    BY <1>2
  <2>2. chart = {} /\ all = {}
    <3>1. Len(S) <= MaxPoints
      BY <1>1, <2>1
    <3> QED BY <2>1, <3>1 DEF Downsample
  <2> HIDE DEF chart, all
  <2>3. Cardinality(chart) = 0
    BY <2>2, FS_EmptySet
  <2>4. Cardinality(chart) <= MaxPoints
    BY <1>1, <2>3
  <2> QED BY <1>2, <2>2, <2>4 DEF chart, all
<1>3. CASE S # <<>>
  BY <1>1, <1>3, DownsampleKeeps
<1> QED BY <1>2, <1>3

\* The chart of a window (_downsample_minmax) never has more points than asked
\* for, and it keeps both ends, the least and the greatest value and that
\* something is missing, wherever the ring has wrapped and also after the clock
\* went back.
THEOREM ChartKeepsExtremesAlways == Spec => []ChartKeepsExtremes
<1>1. ManagerInv => ChartKeepsExtremes
  <2> SUFFICES ASSUME ManagerInv, NEW g \in DOMAIN cache.gpm, NEW w \in Windows
               PROVE  LET since == PaddedStart(Job({g}, w))
                          until == PaddedEnd(Job({g}, w))
                          timeline == Scan(Readings(cache.gpm[g]), since, until)
                          all == {timeline[i] : i \in 1..Len(timeline)}
                          chart == PerformanceSeries(cache, {g}, since, until)[g]
                          Values(A) == {r.value : r \in A}
                      IN /\ Cardinality(chart) <= MaxPoints
                         /\ chart \subseteq all
                         /\ timeline # <<>> =>
                              {timeline[1], timeline[Len(timeline)]} \subseteq chart
                         /\ Values(chart) = Values(all)
    BY DEF ChartKeepsExtremes
  <2> DEFINE since == PaddedStart(Job({g}, w))
             until == PaddedEnd(Job({g}, w))
             ring == cache.gpm[g]
             timeline == Scan(Readings(ring), since, until)
             all == {timeline[i] : i \in 1..Len(timeline)}
             chart == PerformanceSeries(cache, {g}, since, until)[g]
             Values(A) == {r.value : r \in A}
  <2>1. RingOK(ring) /\ OrderTold(ring)
    BY DEF ManagerInv, CacheOK, RingsOK
  <2>2. since \in Int /\ until \in Int
    BY StreamAssumption DEF StreamAssumption, Windows, Job, PaddedStart, PaddedEnd
  <2> HIDE DEF since, until
  <2>3. chart = Downsample(timeline, MaxPoints)
    <3>1. Window(ring, since, until) = timeline
      BY <2>1, <2>2, WindowIsScan
    <3> QED BY <3>1 DEF PerformanceSeries
  <2>4. timeline \in Seq(Reading)
    <3>1. Readings(ring) \in Seq(Reading)
      BY <2>1, ReadingsType
    <3> QED BY <3>1, ScanType
  <2> HIDE DEF timeline, chart, ring
  <2>5. /\ Cardinality(chart) <= MaxPoints
        /\ chart \subseteq all
        /\ timeline # <<>> => {timeline[1], timeline[Len(timeline)]} \subseteq chart
        /\ \A r \in all : \E s \in chart : s.value = r.value
    BY <2>3, <2>4, ChartOfWindow
  <2>6. Values(chart) = Values(all)
    <3> HIDE DEF all
    <3> QED BY <2>5
  <2> HIDE DEF all, Values
  <2> QED BY <2>5, <2>6 DEF all, Values, chart, timeline, ring, since, until
<1>2. ManagerInv /\ [Next]_vars => ManagerInv'
  BY ManagerStep
<1> QED BY <1>1, <1>2, ManagerInit, PTL DEF Spec

-----------------------------------------------------------------------------
(* What a curve from memory tells *)

\* Snapshot number i has a reading of GPU g that the series of `kind` takes:
\* "valid", the basic one, or "gpm", the performance one.
Shows(snapshots, i, g, kind) ==
    g \in DOMAIN snapshots[i].gpus /\ snapshots[i].gpus[g][kind]

\* r is the reading of one of the snapshots.
ReadingOf(r, snapshots, g, kind) ==
    /\ r.id \in 1..Len(snapshots)
    /\ r.at = snapshots[r.id].at
    /\ Shows(snapshots, r.id, g, kind)
    /\ r.value = snapshots[r.id].gpus[g].value

\* R tells of the series what the snapshots showed: its readings are theirs, in
\* their order, and a snapshot that showed the GPU is among them, or earlier
\* than all of them.
Tells(R, snapshots, g, kind) ==
    /\ \A k \in 1..Len(R) : ReadingOf(R[k], snapshots, g, kind)
    /\ \A j, k \in 1..Len(R) : j < k => R[j].id < R[k].id
    /\ \A i \in 1..Len(snapshots) :
          Shows(snapshots, i, g, kind) =>
             \/ \E k \in 1..Len(R) : R[k].id = i
             \/ R # <<>> /\ i < R[1].id

\* A series that does not take a snapshot's reading goes on to tell.
LEMMA TellsWithout ==
    ASSUME NEW R, NEW acc \in Seq(Snapshot), NEW s \in Snapshot, NEW g, NEW kind,
           Tells(R, acc, g, kind), ~(g \in DOMAIN s.gpus /\ s.gpus[g][kind])
    PROVE  Tells(R, Append(acc, s), g, kind)
<1> DEFINE n == Len(acc)
           new == Append(acc, s)
<1>1. n \in Nat /\ Len(new) = n + 1 /\ new[n + 1] = s /\ \A i \in 1..n : new[i] = acc[i]
  BY LenProperties, AppendProperties
<1> HIDE DEF new, n
<1>2. /\ \A k \in 1..Len(R) : ReadingOf(R[k], acc, g, kind)
      /\ \A j, k \in 1..Len(R) : j < k => R[j].id < R[k].id
  BY DEF Tells
<1>3. ASSUME NEW k \in 1..Len(R) PROVE ReadingOf(R[k], new, g, kind)
  <2>1. R[k].id \in 1..n /\ R[k].id \in 1..Len(new) /\ new[R[k].id] = acc[R[k].id]
    BY <1>1, <1>2 DEF ReadingOf, n
  <2> QED BY <1>2, <2>1 DEF ReadingOf, Shows
<1>4. ASSUME NEW i \in 1..Len(new), Shows(new, i, g, kind)
      PROVE  (\E k \in 1..Len(R) : R[k].id = i) \/ (R # <<>> /\ i < R[1].id)
  <2>1. i # n + 1
    BY <1>1, <1>4 DEF Shows
  <2>2. i \in 1..n /\ new[i] = acc[i]
    BY <1>1, <2>1
  <2> QED BY <1>4, <2>2 DEF Tells, Shows, n
<1> QED BY <1>2, <1>3, <1>4 DEF Tells, new

\* One that takes it does too, although its oldest reading may go.
LEMMA TellsWith ==
    ASSUME NEW R \in Seq(Reading), NEW acc \in Seq(Snapshot), NEW s \in Snapshot,
           NEW g, NEW kind, NEW r \in Reading,
           Tells(R, acc, g, kind), r.id = Len(acc) + 1, r.at = s.at,
           g \in DOMAIN s.gpus, s.gpus[g][kind], r.value = s.gpus[g].value
    PROVE  Tells(Recent!LastOf(Append(R, r)), Append(acc, s), g, kind)
<1> DEFINE n == Len(acc)
           new == Append(acc, s)
           m == Len(R)
           A == Append(R, r)
           L == Recent!LastOf(A)
<1>1. n \in Nat /\ Len(new) = n + 1 /\ new[n + 1] = s /\ \A i \in 1..n : new[i] = acc[i]
  BY LenProperties, AppendProperties
<1>2. /\ m \in Nat /\ A \in Seq(Reading) /\ Len(A) = m + 1 /\ A[m + 1] = r
      /\ \A k \in 1..m : A[k] = R[k]
  BY LenProperties, AppendProperties
<1>3. Capacity \in Nat \ {0}
  BY RingAssumption DEF RingAssumption
<1>4. PICK d \in 0..m : /\ Len(L) = m + 1 - d
                        /\ \A k \in 1..Len(L) : L[k] = A[k + d]
  <2>1. CASE m + 1 <= Capacity
    <3>1. L = A
      BY <1>2, <2>1 DEF Recent!LastOf
    <3>2. A[1] = A[1 + 0] /\ 0 \in 0..m
      BY <1>2
    <3> HIDE DEF A, L
    <3>3. \A k \in 1..Len(L) : L[k] = A[k + 0]
      BY <1>2, <3>1
    <3> QED BY <1>2, <3>1, <3>2, <3>3
  <2>2. CASE m + 1 > Capacity
    <3> DEFINE a == m + 1 - Capacity + 1
    <3>1. L = SubSeq(A, a, m + 1)
      <4> HIDE DEF A, m
      <4>1. Len(A) - Capacity + 1 = a /\ ~(Len(A) <= Capacity)
        BY <1>2, <1>3, <2>2
      <4> HIDE DEF a
      <4> QED BY <1>2, <4>1 DEF Recent!LastOf
    <3>2. a \in 1..m + 1 /\ a - 1 \in 0..m
      BY <1>2, <1>3, <2>2
    <3>3. \A i \in a .. m + 1 : A[i] \in Reading
      <4> HIDE DEF A
      <4> QED BY <1>2, <3>2, ElementOfSeq
    <3>4. /\ Len(SubSeq(A, a, m + 1)) = (m + 1) - a + 1
          /\ \A i \in 1 .. (m + 1) - a + 1 : SubSeq(A, a, m + 1)[i] = A[a + i - 1]
      <4> HIDE DEF A, a
      <4>1. a \in Int /\ m + 1 \in Int /\ a <= m + 1
        BY <1>2, <3>2
      <4>2. /\ Len(SubSeq(A, a, m + 1)) =
                 (IF a <= m + 1 THEN (m + 1) - a + 1 ELSE 0)
            /\ \A i \in 1 .. (m + 1) - a + 1 : SubSeq(A, a, m + 1)[i] = A[a + i - 1]
        BY <1>2, <3>2, <4>1
      <4> QED BY <4>1, <4>2
    <3> HIDE DEF A, L, a
    <3>5. \A k \in 1..Len(L) : a + k - 1 = k + (a - 1)
      BY <1>2, <3>1, <3>2, <3>4
    <3>6. Len(L) = m + 1 - (a - 1) /\ \A k \in 1..Len(L) : L[k] = A[k + (a - 1)]
      BY <1>2, <3>1, <3>2, <3>4, <3>5
    <3> QED BY <3>2, <3>6
  <2>3. m + 1 <= Capacity \/ m + 1 > Capacity
    <3> HIDE DEF m
    <3> QED BY <1>2, <1>3
  <2> HIDE DEF m, A, L
  <2> QED BY <2>1, <2>2, <2>3
<1> HIDE DEF new, n, m, A, L
<1>5. /\ \A k \in 1..m : R[k].id \in 1..n /\ R[k].at = acc[R[k].id].at
      /\ \A j, k \in 1..m : j < k => R[j].id < R[k].id
  BY DEF Tells, ReadingOf, m, n
<1>6. /\ \A k \in 1..m + 1 : A[k].id \in 1..n + 1 /\ A[k].at = new[A[k].id].at
      /\ \A j, k \in 1..m + 1 : j < k => A[j].id < A[k].id
  <2>1. \A k \in 1..m : /\ A[k].id \in 1..n /\ A[k].at = new[A[k].id].at
                        /\ A[k].id = R[k].id
    BY <1>1, <1>2, <1>5
  <2>2. A[m + 1].id = n + 1 /\ A[m + 1].at = new[n + 1].at
    BY <1>1, <1>2 DEF n
  <2>3. \A k \in 1..m + 1 : k \in 1..m \/ k = m + 1
    BY <1>2
  <2>4. \A k \in 1..m + 1 : A[k].id \in 1..n + 1 /\ A[k].at = new[A[k].id].at
    BY <1>1, <2>1, <2>2, <2>3
  <2>5. ASSUME NEW j \in 1..m + 1, NEW k \in 1..m + 1, j < k
        PROVE  A[j].id < A[k].id
    <3>1. j \in 1..m
      BY <1>2, <2>5
    <3>2. CASE k \in 1..m
      BY <1>5, <2>1, <2>5, <3>1, <3>2
    <3>3. CASE k = m + 1
      <4>1. A[j].id \in 1..n /\ A[k].id = n + 1
        BY <2>1, <2>2, <3>1, <3>3
      <4> QED BY <1>1, <4>1
    <3> QED BY <2>3, <3>2, <3>3
  <2> QED BY <2>4, <2>5
<1>7. ASSUME NEW i \in 1..Len(new), Shows(new, i, g, kind)
      PROVE  (\E k \in 1..m + 1 : A[k].id = i) \/ i < A[1].id
  <2>1. CASE i = n + 1
    BY <1>1, <1>2, <2>1 DEF n
  <2>2. CASE i # n + 1
    <3>1. i \in 1..n /\ new[i] = acc[i]
      BY <1>1, <2>2
    <3>2. (\E k \in 1..m : R[k].id = i) \/ (R # <<>> /\ i < R[1].id)
      BY <1>7, <3>1 DEF Tells, Shows, n, m
    <3>3. R # <<>> => 1 \in 1..m
      BY EmptySeq, LenProperties DEF m
    <3> QED BY <1>2, <3>2, <3>3
  <2> QED BY <2>1, <2>2
<1>8. \A k \in 1..Len(L) : k + d \in 1..m + 1
  BY <1>2, <1>4
<1>9. ASSUME NEW k \in 1..Len(L)
      PROVE  ReadingOf(L[k], new, g, kind)
  <2>1. ASSUME NEW j \in 1..m PROVE ReadingOf(A[j], new, g, kind)
    <3>1. ReadingOf(A[j], acc, g, kind)
      BY <1>2, <2>1 DEF Tells, m
    <3>2. A[j].id \in 1..Len(new) /\ new[A[j].id] = acc[A[j].id]
      BY <1>1, <3>1 DEF ReadingOf, n
    <3> QED BY <3>1, <3>2 DEF ReadingOf, Shows
  <2>2. ReadingOf(A[m + 1], new, g, kind)
    <3>1. A[m + 1] = r /\ r.id = n + 1 /\ n + 1 \in 1..Len(new) /\ new[n + 1] = s
      BY <1>1, <1>2 DEF n
    <3> QED BY <3>1 DEF ReadingOf, Shows
  <2>3. L[k] = A[k + d] /\ (k + d \in 1..m \/ k + d = m + 1)
    BY <1>2, <1>4, <1>8
  <2> QED BY <2>1, <2>2, <2>3
<1>10. ASSUME NEW j \in 1..Len(L), NEW k \in 1..Len(L), j < k
       PROVE  L[j].id < L[k].id
  <2>1. j + d < k + d /\ L[j] = A[j + d] /\ L[k] = A[k + d]
    BY <1>4, <1>10
  <2> QED BY <1>6, <1>8, <2>1
<1>11. 1 \in 1..Len(L) /\ L # <<>> /\ L[1] = A[1 + d]
  <2>1. Len(L) >= 1 /\ Len(L) \in Nat
    BY <1>2, <1>4
  <2>2. Len(<<>>) = 0
    OBVIOUS
  <2> QED BY <1>4, <2>1, <2>2
<1>12. ASSUME NEW i \in 1..Len(new), Shows(new, i, g, kind)
       PROVE  (\E k \in 1..Len(L) : L[k].id = i) \/ (L # <<>> /\ i < L[1].id)
  <2>1. ASSUME NEW k \in 1..m + 1, A[k].id = i, k > d
        PROVE  \E l \in 1..Len(L) : L[l].id = i
    <3>1. k - d \in 1..Len(L) /\ (k - d) + d = k
      BY <1>2, <1>4, <2>1
    <3> QED BY <1>4, <2>1, <3>1
  <2>2. ASSUME NEW k \in 1..m + 1, A[k].id = i, k <= d
        PROVE  i < L[1].id
    <3>1. 1 + d \in 1..m + 1 /\ k < 1 + d
      BY <1>2, <1>4, <2>2
    <3> QED BY <1>6, <1>11, <2>2, <3>1
  <2>3. ASSUME i < A[1].id PROVE i < L[1].id
    <3>1. 1 + d \in 1..m + 1 /\ 1 \in 1..m + 1 /\ (d = 0 \/ 1 < 1 + d)
      BY <1>2, <1>4
    <3>2. A[1].id \in Int /\ A[1 + d].id \in Int /\ A[1].id <= A[1 + d].id
      BY <1>6, <3>1
    <3> QED BY <1>11, <2>3, <3>2
  <2>4. \A k \in 1..m + 1 : k > d \/ k <= d
    BY <1>4
  <2> QED BY <1>7, <1>11, <1>12, <2>1, <2>2, <2>3, <2>4
<1> QED BY <1>9, <1>10, <1>11, <1>12 DEF Tells, L, A, new

\* Every series tells what the accepted snapshots showed of its GPU.
SeriesTell ==
    \A g \in Gpus :
        /\ Tells(Readings(RingOf(cache.basic, g)), accepted, g, "valid")
        /\ Tells(Readings(RingOf(cache.gpm, g)), accepted, g, "gpm")

LEMMA SeriesTellInit == Init => SeriesTell
<1> SUFFICES ASSUME Init, NEW g \in Gpus
             PROVE  /\ Tells(Readings(RingOf(cache.basic, g)), accepted, g, "valid")
                    /\ Tells(Readings(RingOf(cache.gpm, g)), accepted, g, "gpm")
  BY DEF SeriesTell
<1>1. accepted = <<>> /\ RingOf(cache.basic, g) = EmptyRing /\ RingOf(cache.gpm, g) = EmptyRing
  BY DEF Init, EmptyCache, RingOf
<1>2. Readings(EmptyRing) = <<>>
  BY EmptyRingOK
<1>3. Tells(<<>>, <<>>, g, "valid") /\ Tells(<<>>, <<>>, g, "gpm")
  BY DEF Tells
<1> QED BY <1>1, <1>2, <1>3

LEMMA SeriesTellStep == ManagerInv /\ SeriesTell /\ [Next]_vars => SeriesTell'
<1> SUFFICES ASSUME ManagerInv, SeriesTell, [Next]_vars
             PROVE  SeriesTell'
  OBVIOUS
<1>1. CASE AcceptRegular \/ AcceptOdd
  <2> DEFINE id == Len(accepted) + 1
  <2>1. PICK s \in Snapshot : Accept(s)
    BY <1>1, AcceptedSnapshot DEF ManagerInv
  <2>2. id \in Nat /\ accepted \in Seq(Snapshot)
    BY LenProperties DEF ManagerInv
  <2>3. /\ accepted' = Append(accepted, s)
        /\ cache'.basic = AddBasic(cache.basic, id, s)
        /\ cache'.gpm = AddPerformance(cache.gpm, id, s)
    BY <2>1 DEF Accept, AddSnapshot
  <2>4. \A g \in Gpus : RingOK(RingOf(cache.basic, g)) /\ RingOK(RingOf(cache.gpm, g))
    BY EmptyRingOK DEF ManagerInv, CacheOK, RingsOK, RingOf
  <2>5. ASSUME NEW g \in DOMAIN s.gpus
        PROVE  /\ Taken(id, s, g) \in Reading
               /\ Taken(id, s, g).id = id /\ Taken(id, s, g).at = s.at
               /\ Taken(id, s, g).value = s.gpus[g].value
    BY <2>2, TakenType DEF Taken
  <2> HIDE DEF id
  <2>6. ASSUME NEW g \in Gpus
        PROVE  Tells(Readings(RingOf(cache.basic, g))', accepted', g, "valid")
    <3> DEFINE old == RingOf(cache.basic, g)
               new == RingOf(AddBasic(cache.basic, id, s), g)
    <3>1. CASE g \in DOMAIN s.gpus /\ s.gpus[g].valid
      <4>1. new = Write(old, Taken(id, s, g))
        BY <3>1 DEF AddBasic, RingOf
      <4> HIDE DEF old, new
      <4>2. RingOK(old) /\ Readings(old) \in Seq(Reading)
        BY <2>4, ReadingsType DEF old
      <4>3. Readings(new) = Recent!LastOf(Append(Readings(old), Taken(id, s, g)))
        BY <2>5, <3>1, <4>1, <4>2, WriteReadings
      <4>4. Tells(Readings(old), accepted, g, "valid")
        BY DEF SeriesTell, old
      <4>5. Tells(Readings(new), Append(accepted, s), g, "valid")
        BY <2>2, <2>5, <3>1, <4>2, <4>3, <4>4, TellsWith DEF id
      <4> QED BY <2>3, <4>5 DEF new
    <3>2. CASE ~(g \in DOMAIN s.gpus /\ s.gpus[g].valid)
      <4>1. new = old
        BY <3>2 DEF AddBasic, RingOf
      <4> HIDE DEF old, new
      <4>2. Tells(Readings(old), accepted, g, "valid")
        BY DEF SeriesTell, old
      <4>3. Tells(Readings(new), Append(accepted, s), g, "valid")
        BY <2>2, <3>2, <4>1, <4>2, TellsWithout
      <4> QED BY <2>3, <4>3 DEF new
    <3> QED BY <3>1, <3>2
  <2>7. ASSUME NEW g \in Gpus
        PROVE  Tells(Readings(RingOf(cache.gpm, g))', accepted', g, "gpm")
    <3> DEFINE old == RingOf(cache.gpm, g)
               new == RingOf(AddPerformance(cache.gpm, id, s), g)
    <3>1. CASE g \in DOMAIN s.gpus /\ s.gpus[g].gpm
      <4>1. new = WriteOrdered(old, Taken(id, s, g))
        BY <3>1 DEF AddPerformance, RingOf
      <4> HIDE DEF old, new
      <4>2. RingOK(old) /\ Readings(old) \in Seq(Reading)
        BY <2>4, ReadingsType DEF old
      <4>3. Readings(new) = Recent!LastOf(Append(Readings(old), Taken(id, s, g)))
        BY <2>5, <3>1, <4>1, <4>2, WriteReadings, OrderedWriteReadings
      <4>4. Tells(Readings(old), accepted, g, "gpm")
        BY DEF SeriesTell, old
      <4>5. Tells(Readings(new), Append(accepted, s), g, "gpm")
        BY <2>2, <2>5, <3>1, <4>2, <4>3, <4>4, TellsWith DEF id
      <4> QED BY <2>3, <4>5 DEF new
    <3>2. CASE ~(g \in DOMAIN s.gpus /\ s.gpus[g].gpm)
      <4>1. new = old
        BY <3>2 DEF AddPerformance, RingOf
      <4> HIDE DEF old, new
      <4>2. Tells(Readings(old), accepted, g, "gpm")
        BY DEF SeriesTell, old
      <4>3. Tells(Readings(new), Append(accepted, s), g, "gpm")
        BY <2>2, <3>2, <4>1, <4>2, TellsWithout
      <4> QED BY <2>3, <4>3 DEF new
    <3> QED BY <3>1, <3>2
  <2> QED BY <2>6, <2>7 DEF SeriesTell
<1>2. CASE ~AcceptRegular /\ ~AcceptOdd
  <2>1. UNCHANGED <<accepted, cache>>
    BY <1>2, OtherSteps
  <2> QED BY <2>1 DEF SeriesTell
<1> QED BY <1>1, <1>2

\* Times that ascend from each snapshot to the next ascend.
LEMMA AscendingOverall ==
    ASSUME accepted \in Seq(Snapshot), Ascending
    PROVE  \A i, j \in Ids : i < j => accepted[i].at < accepted[j].at
<1> DEFINE n == Len(accepted)
           T(i) == {j \in 1..n : i < j /\ ~(accepted[i].at < accepted[j].at)}
<1>1. n \in Nat /\ \A i \in 1..n : accepted[i].at \in Nat
  <2>1. \A i \in 1..n : accepted[i] \in Snapshot
    BY ElementOfSeq
  <2> QED BY <2>1, LenProperties, SnapshotFields
<1>2. \A i \in 1 .. n - 1 : accepted[i].at < accepted[i + 1].at
  BY DEF Ascending
<1> HIDE DEF n
<1>3. ASSUME NEW i \in 1..n, T(i) # {} PROVE FALSE
  <2>1. T(i) \in SUBSET Nat
    BY <1>1
  <2>2. PICK j \in T(i) : \A k \in T(i) : j <= k
    <3> HIDE DEF T
    <3> QED BY <1>3, <2>1, HasLeast
  <2>3. j \in 1..n /\ i < j /\ ~(accepted[i].at < accepted[j].at)
    BY <2>2
  <2>4. j - 1 \in 1 .. n - 1 /\ (j - 1) + 1 = j /\ (j - 1 = i \/ i < j - 1)
        /\ j - 1 \in 1..n
    BY <1>1, <2>3
  <2>5. accepted[j - 1].at < accepted[j].at
    BY <1>2, <2>4
  <2>6. j - 1 # i
    BY <2>3, <2>5
  <2>7. j - 1 \notin T(i)
    BY <1>1, <2>2, <2>3
  <2>8. accepted[i].at < accepted[j - 1].at
    BY <2>4, <2>6, <2>7
  <2> QED BY <1>1, <2>3, <2>4, <2>5, <2>8
<1> QED BY <1>3 DEF Ids, n

\* A selection has every reading that it selects.
LEMMA SelectedHas ==
    ASSUME NEW s, NEW n \in Nat, NEW I \in SUBSET (1..n), NEW i \in I
    PROVE  /\ Len(Selected(s, I)) = Cardinality(I)
           /\ \E k \in 1..Len(Selected(s, I)) : Selected(s, I)[k] = s[i]
<1> DEFINE N(j) == Cardinality(I \cap 1..j)
           k == N(i)
<1>1. IsFiniteSet(I) /\ Cardinality(I) \in Nat /\ \A j \in I : j \in 1..n
  BY Ranks
<1>2. \A j \in I : N(j) \in Nat
  <2>1. \A j \in I : N(j) \in 1..Cardinality(I)
    BY Ranks
  <2> HIDE DEF N
  <2> QED BY <1>1, <2>1
<1>3. \A j, l \in I : j < l => N(j) < N(l)
  BY Ranks
<1>4. k \in 1..Cardinality(I)
  BY Ranks
<1>5. \A j \in I : N(j) = k <=> j = i
  <2>1. \A j \in I : j < i \/ i < j \/ j = i
    BY <1>1
  <2>2. \A j \in I : N(j) \in Int
    BY <1>2
  <2> HIDE DEF N
  <2> QED BY <1>3, <2>1, <2>2
<1>6. Kth(I, k) = i
  <2> HIDE DEF k
  <2> QED BY <1>5 DEF Kth
<1> DEFINE c == Cardinality(I)
           f == [m \in 1..c |-> s[Kth(I, m)]]
           V == {s[Kth(I, m)] : m \in 1..c}
<1>7. c \in Nat
  BY <1>1
<1> HIDE DEF c, k
<1>8. f \in [1..c -> V]
  OBVIOUS
<1> HIDE DEF V
<1>9. Len(f) = c
  <2> HIDE DEF f
  <2> QED BY <1>7, <1>8
<1>10. f[k] = s[i] /\ k \in 1..c
  BY <1>4, <1>6 DEF c
<1> HIDE DEF f
<1> QED BY <1>9, <1>10 DEF Selected, f, c

\* What is scanned has every reading of a job's own time, of a series that tells
\* of the snapshots and begins no later than the job.
LEMMA ScanHasAll ==
    ASSUME accepted \in Seq(Snapshot), Ascending, NEW g, NEW kind,
           NEW R \in Seq(Reading), R # <<>>, Tells(R, accepted, g, kind),
           NEW w \in Int \X Int, NEW since \in Int, NEW until \in Int,
           R[1].at <= w[1], since <= w[1], w[2] <= until
    PROVE  Within(w, g, kind) \subseteq IdsOf(Scan(R, since, until))
<1> SUFFICES ASSUME NEW i \in Within(w, g, kind)
             PROVE  i \in IdsOf(Scan(R, since, until))
  OBVIOUS
<1> DEFINE n == Len(R)
           I == {j \in 1..n : R[j].at >= since /\ \A l \in 1..j : R[l].at <= until}
<1>1. n \in Nat /\ 1 \in 1..n
  BY EmptySeq, LenProperties
<1>2. \A k \in 1..n : R[k].at \in Nat /\ R[k].id \in Nat
  <2>1. \A k \in 1..n : R[k] \in Reading
    BY ElementOfSeq
  <2> QED BY <2>1 DEF Reading
<1>3. i \in Ids /\ accepted[i].at >= w[1] /\ accepted[i].at <= w[2] /\ w[1] \in Int /\ w[2] \in Int
  BY DEF Within
<1>4. Ids = 1..Len(accepted)
  BY DEF Ids
<1>5. /\ \A k \in 1..n : R[k].id \in Ids /\ R[k].at = accepted[R[k].id].at
      /\ \A j, k \in 1..n : j < k => R[j].id < R[k].id
  BY <1>4 DEF Tells, ReadingOf
<1>6. \A j \in Ids : accepted[j].at \in Nat
  <2>1. \A j \in Ids : accepted[j] \in Snapshot
    BY <1>4, ElementOfSeq
  <2> QED BY <2>1, SnapshotFields
<1>7. \A j, k \in Ids : j < k => accepted[j].at < accepted[k].at
  BY AscendingOverall
<1>8. PICK k \in 1..n : R[k].id = i
  <2>1. (\E k \in 1..n : R[k].id = i) \/ i < R[1].id
    BY <1>3, <1>4 DEF Tells, Within, Shows
  <2>2. ASSUME i < R[1].id PROVE FALSE
    <3>1. accepted[i].at < R[1].at
      BY <1>1, <1>3, <1>5, <1>7, <2>2
    <3> QED BY <1>1, <1>2, <1>3, <1>6, <3>1
  <2> QED BY <2>1, <2>2
<1>9. R[k].at = accepted[i].at
  BY <1>5, <1>8
<1>10. ASSUME NEW l \in 1..k PROVE R[l].at <= until
  <2>1. l \in 1..n /\ (l < k \/ l = k)
    BY <1>1
  <2>2. R[l].at <= R[k].at
    <3>1. CASE l = k
      BY <1>2, <3>1
    <3>2. CASE l < k
      <4>1. R[l].id < R[k].id
        BY <1>5, <2>1, <3>2
      <4>2. /\ R[l].id \in Ids /\ R[l].at = accepted[R[l].id].at
            /\ R[k].id \in Ids /\ R[k].at = accepted[R[k].id].at
        BY <1>5, <2>1
      <4>3. R[l].at < R[k].at
        BY <1>7, <4>1, <4>2
      <4> QED BY <1>2, <2>1, <4>3
    <3> QED BY <2>1, <3>1, <3>2
  <2> QED BY <1>2, <1>3, <1>9, <2>1, <2>2
<1>11. k \in I
  BY <1>2, <1>3, <1>9, <1>10
<1>12. I \in SUBSET (1..n)
  OBVIOUS
<1> HIDE DEF I, n
<1>13. \E m \in 1..Len(Selected(R, I)) : Selected(R, I)[m] = R[k]
  BY <1>1, <1>11, <1>12, SelectedHas
<1> DEFINE S == Selected(R, I)
<1>14. i \in {S[m].id : m \in 1..Len(S)}
  <2> HIDE DEF S
  <2> QED BY <1>8, <1>13 DEF S
<1> QED BY <1>14 DEF IdsOf, Scan, S, I, n

\* What is scanned are readings of snapshots of the window, one of each.
LEMMA ScanHasOnly ==
    ASSUME accepted \in Seq(Snapshot), NEW g, NEW kind,
           NEW R \in Seq(Reading), Tells(R, accepted, g, kind),
           NEW since \in Int, NEW until \in Int
    PROVE  LET S == Scan(R, since, until)
           IN  /\ \A k \in 1..Len(S) : ReadingOf(S[k], accepted, g, kind)
               /\ Len(S) <= Cardinality(Within(<<since, until>>, g, kind))
               /\ Cardinality(Within(<<since, until>>, g, kind)) \in Nat
<1> DEFINE n == Len(R)
           I == {i \in 1..n : R[i].at >= since /\ \A j \in 1..i : R[j].at <= until}
           S == Selected(R, I)
           window == Within(<<since, until>>, g, kind)
           number == [i \in I |-> R[i].id]
<1>1. Scan(R, since, until) = S
  BY DEF Scan
<1>2. n \in Nat /\ I \in SUBSET (1..n)
  BY LenProperties
<1>3. ASSUME NEW i \in I
      PROVE  i \in 1..n /\ R[i] \in Reading /\ R[i].at >= since /\ R[i].at <= until
  <2>1. i \in 1..n /\ i \in 1..i
    BY <1>2
  <2>2. R[i].at >= since /\ R[i].at <= until
    BY <2>1
  <2> QED BY <2>1, <2>2, ElementOfSeq
<1>4. ASSUME NEW i \in I PROVE R[i].id \in window
  <2>1. ReadingOf(R[i], accepted, g, kind)
    BY <1>3 DEF Tells
  <2>2. R[i].at \in Nat
    BY <1>3 DEF Reading
  <2>3. R[i].at \in since..until
    <3> DEFINE x == R[i].at
    <3>1. x \in Nat /\ x >= since /\ x <= until
      BY <1>3, <2>2
    <3> HIDE DEF x
    <3>2. x \in since..until
      BY <3>1
    <3> QED BY <3>2 DEF x
  <2> QED BY <2>1, <2>3 DEF ReadingOf, Shows, Within, Ids
<1> HIDE DEF I
<1>5. /\ IsFiniteSet(I) /\ Cardinality(I) \in Nat
      /\ \A k \in 1..Cardinality(I) : \E i \in I : Cardinality(I \cap 1..i) = k
  BY <1>2, Ranks
<1>6. \A k \in 1..Cardinality(I) : Kth(I, k) \in I
  BY <1>5 DEF Kth
<1>7. Len(S) = Cardinality(I) /\ \A k \in 1..Cardinality(I) : S[k] = R[Kth(I, k)]
  <2>1. S = [k \in 1..Cardinality(I) |-> R[Kth(I, k)]]
    BY DEF Selected
  <2>2. S \in [1..Cardinality(I) -> Reading]
    BY <1>3, <1>6, <2>1
  <2> HIDE DEF S
  <2>3. Len(S) = Cardinality(I)
    BY <1>5, <2>2
  <2> QED BY <2>1, <2>3
<1>8. ASSUME NEW k \in 1..Len(S) PROVE ReadingOf(S[k], accepted, g, kind)
  <2>1. Kth(I, k) \in 1..n /\ S[k] = R[Kth(I, k)]
    BY <1>3, <1>6, <1>7
  <2> HIDE DEF S
  <2> QED BY <2>1 DEF Tells
<1>9. number \in Injection(I, window)
  <2>1. number \in [I -> window]
    <3> HIDE DEF window
    <3> QED BY <1>4
  <2>2. ASSUME NEW i \in I, NEW j \in I, R[i].id = R[j].id PROVE i = j
    <3>1. i \in 1..n /\ j \in 1..n /\ (i < j \/ j < i \/ i = j)
      BY <1>2, <1>3
    <3>2. R[i].id \in Int /\ R[j].id \in Int
      BY <1>3 DEF Reading
    <3> QED BY <2>2, <3>1, <3>2 DEF Tells
  <2>3. \A i, j \in I : number[i] = number[j] => i = j
    BY <2>2
  <2> HIDE DEF number, window
  <2> QED BY <2>1, <2>3 DEF Injection, IsInjective
<1>10. IsFiniteSet(window)
  <2>1. Len(accepted) \in Nat
    BY LenProperties
  <2>2. IsFiniteSet(1..Len(accepted))
    BY <2>1, FS_Interval
  <2>3. window \in SUBSET (1..Len(accepted))
    BY DEF Within, Ids
  <2> HIDE DEF window
  <2> QED BY <2>2, <2>3, FS_Subset
<1>11. Cardinality(I) <= Cardinality(window) /\ Cardinality(window) \in Nat
  <2> HIDE DEF number, window
  <2> QED BY <1>9, <1>10, FS_Injection, FS_CardinalityType
<1> HIDE DEF S, window
<1> QED BY <1>1, <1>7, <1>8, <1>11 DEF window

\* While the agents' clock never went back, what is served from the manager's
\* memory of a short job (_highres_curve, _highres_performance_curve) has every
\* reading of the job's own time, of each of its GPUs, whatever was
\* overwritten; but for a performance curve that would have too many points,
\* which has every value of them.
THEOREM MemoryCurveIsWholeAlways == Spec => []MemoryCurveIsWhole
<1>1. ManagerInv /\ SeriesTell => MemoryCurveIsWhole
  <2> SUFFICES ASSUME ManagerInv, SeriesTell, Ascending,
                      NEW w \in Windows, NEW G \in SUBSET Gpus \ {{}}, NEW g \in G
               PROVE  LET job == Job(G, w)
                          curve == JobCurve(cache, job)
                          performance == JobPerformanceCurve(cache, job)
                      IN  /\ curve # NoCurve =>
                               Within(w, g, "valid") \subseteq IdsOf(curve[g])
                          /\ performance # NoCurve =>
                               /\ Cardinality(performance[g]) <= MaxPoints
                               /\ \/ Within(w, g, "gpm") \subseteq
                                        {r.id : r \in performance[g]}
                                  \/ ThinnedOut(w, g, performance[g])
    BY DEF MemoryCurveIsWhole
  <2> DEFINE job == Job(G, w)
             curve == JobCurve(cache, job)
             performance == JobPerformanceCurve(cache, job)
             since == PaddedStart(job)
             until == PaddedEnd(job)
  <2>1. /\ w \in Int \X Int /\ g \in Gpus /\ accepted \in Seq(Snapshot)
        /\ w[1] \in Nat
    BY DEF Windows, ManagerInv
  <2>2. since \in Int /\ until \in Int /\ since <= w[1] /\ w[2] <= until
    BY <2>1, StreamAssumption DEF StreamAssumption, PaddedStart, PaddedEnd, Job
  <2>3. ASSUME NEW ring, RingOK(ring), Covers(ring, job)
        PROVE  /\ Readings(ring) \in Seq(Reading) /\ Readings(ring) # <<>>
               /\ Readings(ring)[1].at <= w[1]
    <3>1. ring.count \in Nat /\ ring.count > 0 /\ OldestAt(ring) <= w[1]
      BY <2>3, RingAssumption DEF RingAssumption, RingOK, Ring, Covers, Job
    <3>2. 1 \in 1..ring.count /\ 1 - 1 = 0
      BY <3>1
    <3>3. /\ Readings(ring) \in Seq(Reading) /\ Len(Readings(ring)) = ring.count
          /\ Readings(ring)[1] = ring.slots[Index(ring, 0)]
      BY <2>3, <3>2, ReadingsType
    <3>4. Readings(ring) # <<>>
      <4>1. Len(<<>>) = 0
        OBVIOUS
      <4> QED BY <3>1, <3>3, <4>1
    <3> QED BY <3>1, <3>3, <3>4 DEF OldestAt, At
  <2>4. ASSUME curve # NoCurve
        PROVE  Within(w, g, "valid") \subseteq IdsOf(curve[g])
    <3> DEFINE ring == cache.basic[g]
    <3>1. curve = HighresCurve(cache, job, since, until)
      BY <2>4 DEF JobCurve
    <3>2. /\ g \in DOMAIN cache.basic /\ Covers(ring, job)
          /\ curve[g] = SeriesFor(cache, g, since, until)
      BY <2>4, <3>1 DEF HighresCurve, Job
    <3>3. RingOf(cache.basic, g) = ring /\ RingOK(ring)
      BY <3>2 DEF RingOf, ManagerInv, CacheOK, RingsOK
    <3>4. curve[g] = Scan(Readings(ring), since, until)
      BY <3>2, <3>3 DEF SeriesFor, Points
    <3>5. Tells(Readings(ring), accepted, g, "valid")
      BY <2>1, <3>3 DEF SeriesTell
    <3> HIDE DEF ring, curve, since, until, job
    <3>6. /\ Readings(ring) \in Seq(Reading) /\ Readings(ring) # <<>>
          /\ Readings(ring)[1].at <= w[1]
      BY <2>3, <3>2, <3>3
    <3> QED BY <2>1, <2>2, <3>4, <3>5, <3>6, ScanHasAll
  <2>5. ASSUME performance # NoCurve
        PROVE  /\ Cardinality(performance[g]) <= MaxPoints
               /\ \/ Within(w, g, "gpm") \subseteq {r.id : r \in performance[g]}
                  \/ ThinnedOut(w, g, performance[g])
    <3> DEFINE ring == cache.gpm[g]
               S == Scan(Readings(ring), since, until)
               points == performance[g]
    <3>1. performance = HighresPerformanceCurve(cache, job, since, until)
      BY <2>5 DEF JobPerformanceCurve
    <3>2. /\ g \in DOMAIN cache.gpm /\ Covers(ring, job)
          /\ performance = PerformanceSeries(cache, G, since, until)
      BY <2>5, <3>1 DEF HighresPerformanceCurve, Job
    <3>3. points = Downsample(Window(ring, since, until), MaxPoints)
      BY <3>2 DEF PerformanceSeries
    <3>4. RingOf(cache.gpm, g) = ring /\ RingOK(ring) /\ OrderTold(ring)
      BY <3>2 DEF RingOf, ManagerInv, CacheOK, RingsOK
    <3>5. Tells(Readings(ring), accepted, g, "gpm")
      BY <2>1, <3>4 DEF SeriesTell
    <3>6. since = PaddedStart(Job({g}, w)) /\ until = PaddedEnd(Job({g}, w))
      BY DEF PaddedStart, PaddedEnd, Job
    <3> HIDE DEF ring, performance, since, until, job
    <3>7. points = Downsample(S, MaxPoints)
      BY <2>2, <3>3, <3>4, WindowIsScan
    <3>8. /\ Readings(ring) \in Seq(Reading) /\ Readings(ring) # <<>>
          /\ Readings(ring)[1].at <= w[1]
      BY <2>3, <3>2, <3>4
    <3>9. Within(w, g, "gpm") \subseteq IdsOf(S)
      BY <2>1, <2>2, <3>5, <3>8, ScanHasAll
    <3>10. /\ \A k \in 1..Len(S) : ReadingOf(S[k], accepted, g, "gpm")
           /\ Len(S) <= Cardinality(Within(<<since, until>>, g, "gpm"))
           /\ Cardinality(Within(<<since, until>>, g, "gpm")) \in Nat
      BY <2>1, <2>2, <3>5, <3>8, ScanHasOnly
    <3>11. S \in Seq(Reading)
      BY <3>8, ScanType
    <3> HIDE DEF S, points
    <3>12. /\ Cardinality(points) <= MaxPoints
           /\ \A r \in {S[i] : i \in 1..Len(S)} : \E s \in points : s.value = r.value
      BY <3>7, <3>11, ChartOfWindow
    <3>13. CASE Len(S) <= MaxPoints
      <4>1. points = {S[i] : i \in 1..Len(S)}
        BY <3>7, <3>13 DEF Downsample
      <4>2. IdsOf(S) \subseteq {r.id : r \in points}
        BY <4>1 DEF IdsOf
      <4>3. Within(w, g, "gpm") \subseteq {r.id : r \in points}
        BY <3>9, <4>2
      <4> QED BY <3>12, <4>3 DEF points
    <3>14. CASE ~(Len(S) <= MaxPoints)
      <4>1. Cardinality(Within(<<since, until>>, g, "gpm")) > MaxPoints
        <5>1. MaxPoints \in Nat /\ Len(S) \in Nat
          BY <3>11, LenProperties, StreamAssumption DEF StreamAssumption
        <5> QED BY <3>10, <3>14, <5>1
      <4>2. ASSUME NEW i \in Within(w, g, "gpm")
            PROVE  accepted[i].gpus[g].value \in {r.value : r \in points}
        <5>1. PICK k \in 1..Len(S) : S[k].id = i
          BY <3>9 DEF IdsOf
        <5>2. S[k].value = accepted[i].gpus[g].value
          BY <3>10, <5>1 DEF ReadingOf
        <5> QED BY <3>12, <5>1, <5>2
      <4>3. ThinnedOut(w, g, points)
        BY <3>6, <4>1, <4>2 DEF ThinnedOut
      <4> QED BY <3>12, <4>3 DEF points
    <3> QED BY <3>13, <3>14
  <2> QED BY <2>4, <2>5
<1>2. Init => ManagerInv /\ SeriesTell
  BY ManagerInit, SeriesTellInit
<1>3. ManagerInv /\ SeriesTell /\ [Next]_vars => (ManagerInv /\ SeriesTell)'
  BY ManagerStep, SeriesTellStep
<1> QED BY <1>1, <1>2, <1>3, PTL DEF Spec
==============================================================================
